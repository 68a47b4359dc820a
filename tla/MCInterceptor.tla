--------------------------- MODULE MCInterceptor ---------------------------
(* The calls of MCGovernedCall made by wrapped clients.                    *)
EXTENDS Interceptor, TLC

CONSTANTS query, again, other

(* query and again ask the same for one user, other for another one.       *)
Chat(token, identity) ==
    [via |-> "proxy", request_type |-> "llm_chat", query |-> "q", user_token |-> token,
     context |-> "none", identity |-> identity]

MCRequest ==
    query :> Chat("anonymous", "alice")
    @@ again :> Chat("", "alice")
    @@ other :> Chat("anonymous", "bob")

MCAnswers == {"allow", "refuse", "blocked"}
=============================================================================
