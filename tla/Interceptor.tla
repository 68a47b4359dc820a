---------------------------- MODULE Interceptor ----------------------------
(***************************************************************************)
(* The wrapped LLM clients (src/src/interceptors/openai.rs, anthropic.rs): *)
(* ask the platform with proxy_llm_call, call the model unless the response*)
(* is blocked, and audit the answer from a task nobody waits for.          *)
(*                                                                         *)
(* The governed calls underneath are those of GovernedCall; this module    *)
(* adds what the wrapper does once its check has come back.  The model is  *)
(* external.  A response carries the request_id of the call it was given   *)
(* to, also when the cache hands it to another one.                        *)
(***************************************************************************)
EXTENDS GovernedCall

CONSTANTS
    Wrapped,       \* the calls a wrapped client makes
    Unnumbered     \* the calls whose response carries no request_id

ASSUME WrappedAssumption ==
    /\ Wrapped \subseteq Calls
    /\ \A c \in Wrapped : ~is_mutation(c)     \* request_type is "llm_chat"

VARIABLES
    model,     \* [Wrapped -> ], the call to the LLM provider
    audit,     \* [Wrapped -> ], the spawned task that calls audit_llm_call
    alive      \* the process, and with it the runtime the tasks live in

ivars == <<model, audit, alive>>

ModelPhases == {"none", "calling", "answered", "failed"}
AuditPhases == {"none", "spawned", "recorded", "failed", "lost"}

InterceptorTypeOK ==
    /\ TypeOK
    /\ model \in [Wrapped -> ModelPhases]
    /\ audit \in [Wrapped -> AuditPhases]
    /\ alive \in BOOLEAN

-----------------------------------------------------------------------------
(* response.blocked of the response the check returned.                    *)
Blocked(c) == outcome[c] = "verdict" /\ ruling[author[c]] = "blocked"

(* response.request_id: a fail-open response has none.                     *)
has_request_id(c) == outcome[c] = "verdict" /\ author[c] \notin Unnumbered

Mutant_Declined(c) == outcome[c] = "error"

Declined(c) == outcome[c] = "error" \/ Blocked(c)

CallModel(c) ==
    /\ alive /\ pc[c] = "done" /\ model[c] = "none"
    /\ outcome[c] # "dropped"
    /\ ~Declined(c)
    /\ model' = [model EXCEPT ![c] = "calling"]
    /\ UNCHANGED <<audit, alive>>

Mutant_spawn_audit(c) ==
    audit' = [audit EXCEPT ![c] = IF has_request_id(c) /\ author[c] = c THEN "spawned" ELSE @]

(* The task does something only if there is a request_id.                  *)
spawn_audit(c) ==
    audit' = [audit EXCEPT ![c] = IF has_request_id(c) THEN "spawned" ELSE @]

ModelAnswers(c) ==
    /\ alive
    /\ model[c] = "calling"
    /\ model' = [model EXCEPT ![c] = "answered"]
    /\ spawn_audit(c)
    /\ UNCHANGED alive

(* The provider fails, or the caller drops the future it waits on: neither *)
(* reaches the spawn.                                                      *)
ModelFails(c) ==
    /\ alive
    /\ model[c] = "calling"
    /\ model' = [model EXCEPT ![c] = "failed"]
    /\ UNCHANGED <<audit, alive>>

(* audit_llm_call is one exchange: the platform records it, or it fails    *)
(* and is logged at most.                                                  *)
audit_llm_call(c) ==
    /\ alive
    /\ audit[c] = "spawned"
    /\ \E end \in {"recorded", "failed"} : audit' = [audit EXCEPT ![c] = end]
    /\ UNCHANGED <<model, alive>>

(* The process ends: the runtime and the tasks on it are gone.             *)
Exit ==
    /\ alive
    /\ alive' = FALSE
    /\ audit' = [c \in Wrapped |-> IF audit[c] = "spawned" THEN "lost" ELSE audit[c]]
    /\ UNCHANGED model

-----------------------------------------------------------------------------
InterceptorInit ==
    /\ Init
    /\ model = [c \in Wrapped |-> "none"]
    /\ audit = [c \in Wrapped |-> "none"]
    /\ alive = TRUE

InterceptorStep ==
    \/ \E c \in Wrapped :
          \/ CallModel(c)
          \/ ModelAnswers(c)
          \/ ModelFails(c)
          \/ audit_llm_call(c)
    \/ Exit

InterceptorNext ==
    \/ alive /\ Next /\ UNCHANGED ivars
    \/ InterceptorStep /\ UNCHANGED vars

InterceptorSpec == InterceptorInit /\ [][InterceptorNext]_<<vars, ivars>>

-----------------------------------------------------------------------------
(* Properties *)

(* The provider is called only after the platform let the same question of *)
(* the same user through, from the cache or not, or when the client failed *)
(* open: never over a block, never on a verdict for somebody else.         *)
ModelGoverned ==
    \A c \in Wrapped :
       model[c] # "none" =>
          \/ outcome[c] = "fail_open"
          \/ /\ outcome[c] = "verdict"
             /\ ruling[author[c]] \in {"allow", "refuse"}
             /\ SameAsk(c, author[c])

(* A verdict from the cache brings an earlier call's request_id along, so  *)
(* several model calls are audited under one context_id: they always are   *)
(* the same question of the same user, so the trail never mixes users.     *)
AuditAttribution ==
    \A c, d \in Wrapped :
       audit[c] # "none" /\ audit[d] # "none" /\ author[c] = author[d] => SameAsk(c, d)

(* An answer of the model the trail lacks is explained: the check failed   *)
(* open or its response had no request_id, the audit call failed, or the   *)
(* process ended before it was made.  A cache hit is no excuse.            *)
UnauditedIsExplained ==
    \A c \in Wrapped :
       model[c] = "answered" /\ audit[c] # "recorded" =>
          \/ outcome[c] = "fail_open"
          \/ author[c] \in Unnumbered
          \/ audit[c] = "spawned" /\ alive
          \/ audit[c] = "failed"
          \/ ~alive
=============================================================================
