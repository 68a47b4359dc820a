------------------------------ MODULE Checked ------------------------------
(***************************************************************************)
(* The operations that are one exchange through check_status: connectors,  *)
(* plans and the audit (src/src/client.rs), approvals (src/src/hitl.rs),   *)
(* and the two posts of the enforcement point (src/src/pep.rs).            *)
(*                                                                         *)
(* Each is a row: its method, whether it changes something, the document   *)
(* it decodes and what that requires.  A review and an installation look   *)
(* at the status alone.                                                    *)
(***************************************************************************)
EXTENDS Exchange, Documents

Row(method, writes, type, required) ==
    [method |-> method, writes |-> writes, type |-> type, required |-> required,
     answers |-> 200, reads |-> TRUE, declares |-> FALSE, needs |-> FALSE]

Get(type, required) == Row("GET", FALSE, type, required)
Post(type, required) == Row("POST", TRUE, type, required)

(* Arguments the operation requires before it sends.                       *)
Needing(row) == [row EXCEPT !.needs = TRUE]

(* The body is not read when the status is a success.                      *)
StatusOnly(row) == [row EXCEPT !.reads = FALSE]

list_connectors == Get("connectors", {"connectors"})
get_connector == Get("connector", ConnectorMetadata)
get_connector_health == Get("health", ConnectorHealthStatus)
install_connector == StatusOnly(Post("installed", {}))
get_plan_status == Get("plan", PlanExecutionResponse)
cancel_plan == Post("cancelled", CancelPlanResponse)
audit_llm_call == Post("audited", AuditResult)

get_hitl_request == Needing(Get("approval", Enveloped(HITLApprovalRequest)))
create_hitl_request ==
    [Needing(Post("approval", Enveloped(HITLApprovalRequest))) EXCEPT !.answers = 201]
get_hitl_stats == Get("stats", Enveloped(HITLStats))

review_hitl_request == Needing(StatusOnly(Post("reviewed", {})))

(* Content is posted to be judged or redacted: nothing changes there.      *)
Declaring(row) == [row EXCEPT !.declares = TRUE, !.writes = FALSE]

checked_post_json_declaring == Declaring(Post("verdict", DecideResponse))
check_input == Declaring(Post("redaction", MCPCheckInputResponse))

Operation ==
    [list_connectors |-> list_connectors, get_connector |-> get_connector,
     get_connector_health |-> get_connector_health, install_connector |-> install_connector,
     get_plan_status |-> get_plan_status, cancel_plan |-> cancel_plan,
     audit_llm_call |-> audit_llm_call, get_hitl_request |-> get_hitl_request,
     create_hitl_request |-> create_hitl_request, get_hitl_stats |-> get_hitl_stats,
     approve_hitl_request |-> review_hitl_request, reject_hitl_request |-> review_hitl_request,
     decide |-> checked_post_json_declaring, check_input |-> check_input]

-----------------------------------------------------------------------------
CheckedRefusal(o) ==
    IF Operation[o.call].needs /\ o.id = "" THEN <<Result("ConfigError", 0, "required")>>
    ELSE <<>>

(* A decoding error is serde's or the HTTP library's; neither is retryable.*)
Undecodable(a) == Result("SerdeError", 0, a.body)

decoded(row, a) ==
    CASE ~row.reads -> Ok("done")
      [] row.reads /\ Decodes(row.type, row.required, a.body) ->
           Ok(Found(row.type, row.required, a.body))
      [] OTHER -> IF row = list_connectors /\ a.body \notin NoJson
                  THEN Result("ApiError", 200, "response missing 'connectors' field")
                  ELSE Undecodable(a)

CheckedRead(o, a) == check_status(a, decoded(Operation[o.call], a))

CheckedReadsBody(o, a) == Operation[o.call].reads \/ ~is_success(a.status)

-----------------------------------------------------------------------------
(* The platform: it does what it is asked, refuses, or fails.              *)
CheckedAnswers(o) ==
    {[Plain(Operation[o.call].answers, Operation[o.call].type, "done")
        EXCEPT !.performs = Operation[o.call].writes],
     Plain(400, "refused", "final"), Plain(404, "refused", "final"),
     Plain(500, "fault", "transient")}

-----------------------------------------------------------------------------
(* Properties *)

(* A reviewer whose approval or rejection came back without an error has   *)
(* reviewed: the platform has recorded it.  In particular when a redirect  *)
(* within the endpoint's origin turned the post into a bodyless GET.       *)
ReviewRecorded ==
    /\ pc = "done" /\ result.kind = "ok" /\ ~wire.whole
    /\ op.call \in {"approve_hitl_request", "reject_hitl_request"}
    => performed > 0
=============================================================================
