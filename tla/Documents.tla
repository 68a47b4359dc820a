----------------------------- MODULE Documents -----------------------------
(***************************************************************************)
(* The documents the platform answers with, each by the members without    *)
(* which the client does not decode it (src/src/types, src/src/decisions.rs*)
(* and src/src/pep.rs).  Every other member is optional, has a default or  *)
(* belongs to a type whose container has defaults.                         *)
(*                                                                         *)
(* It is what decides whether a document of somebody else - a login page's *)
(* JSON, a gateway's error with a 200 - passes for the platform's.         *)
(***************************************************************************)

(* src/src/types/agent.rs: the container has defaults, nothing is required.*)
AuditResult == {}
ConnectorMetadata == {}
ConnectorHealthStatus == {}
PlanExecutionResponse == {}
CancelPlanResponse == {}

(* src/src/types/hitl.rs, and the envelopes around its types, of which only*)
(* that of a list has a default for data.                                  *)
HITLApprovalRequest ==
    {"request_id", "org_id", "tenant_id", "client_id", "original_query", "request_type",
     "triggered_policy_id", "triggered_policy_name", "trigger_reason", "severity", "status",
     "expires_at", "created_at", "updated_at"}
HITLStats == {"total_pending", "high_priority", "critical_priority"}
Enveloped(type) == {"data"} \cup type
HitlListEnvelope == {}

(* src/src/types/decisions.rs *)
DecisionExplanation == {"decision_id", "timestamp", "decision", "reason"}
UpgradeInfo == {"tier", "wording", "compare_url", "buy_url"}
RateLimitEnvelope ==
    {"error", "limit_type", "tier", "limit", "remaining", "upgrade"} \cup UpgradeInfo

(* src/src/types/pep.rs *)
DecideResponse == {"verdict"}
MCPCheckInputResponse == {"allowed"}

-----------------------------------------------------------------------------
(* The documents of others: what is no JSON has no members to speak of.    *)
StrayMembers ==
    [page_html |-> {},
     object |-> {},
     gateway |-> {"code", "message"},
     acknowledgement |-> {"success", "status", "data"}]

NoJson == {"page_html"}

(* An acknowledgement says success: true of whatever it acknowledges; the  *)
(* others do not mention it.                                               *)
ClaimsSuccess == {"acknowledgement"}

Mutant_Decodes(type, required, body) ==
    body = type \/ body \in DOMAIN StrayMembers \ NoJson

(* serde_json::from_str::<type>: a body named for its type is the          *)
(* platform's own; another decodes if it has the required members.         *)
Decodes(type, required, body) ==
    \/ body = type
    \/ body \in DOMAIN StrayMembers \ NoJson /\ required \subseteq StrayMembers[body]

(* What an application finds in a document that decodes: what was done,    *)
(* with its identifier or its record; a bare success: true, if somebody    *)
(* else's document says so of a type all of whose members have a default;  *)
(* or not even that, success being false by default.                       *)
Found(type, required, body) ==
    IF body = type \/ required # {} THEN "done"
    ELSE IF body \in ClaimsSuccess THEN "claimed"
    ELSE "unsuccessful"
=============================================================================
