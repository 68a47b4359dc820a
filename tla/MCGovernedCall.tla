--------------------------- MODULE MCGovernedCall ---------------------------
(* Calls for the TLC runs of GovernedCall.                                 *)
EXTENDS GovernedCall, TLC

CONSTANTS query, again, other, plan, raw

Ask0(via, type, token, identity) ==
    [via |-> via, request_type |-> type, query |-> "q", user_token |-> token,
     context |-> "none", identity |-> identity]

(* again asks what query asks (an empty body token stands for anonymous),  *)
(* other asks it as another user of the same body token; plan is made by   *)
(* execute_plan and raw passes a mutation to proxy_llm_call directly.      *)
MCRequests ==
    query :> Ask0("proxy", "chat", "anonymous", "alice")
    @@ again :> Ask0("proxy", "chat", "", "alice")
    @@ other :> Ask0("proxy", "chat", "anonymous", "bob")
    @@ plan :> Ask0("plan", "execute-plan", "anonymous", "alice")
    @@ raw :> Ask0("proxy", "update-plan", "anonymous", "alice")

MCRequest == [c \in Calls |-> MCRequests[c]]

Everything == Responses \cup Refusals \cup Transients
PromiseAnswers == {"allow", "denied", "fault"}
=============================================================================
