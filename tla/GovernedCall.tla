---------------------------- MODULE GovernedCall ----------------------------
(***************************************************************************)
(* The governed call of the SDK: proxy_llm_call and the wrappers over it   *)
(* (query_connector, generate_plan, execute_plan), the response cache the  *)
(* clients derived from one another share, execute_with_retry,             *)
(* execute_request, dispatch, and the fail-open decision (src/src/client.rs*)
(* and error.rs).                                                          *)
(*                                                                         *)
(* Each member of Calls is one call, made at most once.  Two steps of one  *)
(* call are separated exactly where the code awaits: the telemetry gate in *)
(* dispatch, the response head, the response body, the backoff sleep, the  *)
(* cache insertion.  There the caller may drop it and other calls run.     *)
(*                                                                         *)
(* The platform is external.  It takes a request up at any time after it   *)
(* was sent, also when the client has given up on it, and answers with any *)
(* member of Answers.  A request with the same-origin redirects reqwest    *)
(* follows for it is one exchange.                                         *)
(***************************************************************************)
EXTENDS Naturals

CONSTANTS
    Calls,
    Request,       \* [Calls -> records]: via, request_type, query, user_token, context, identity
    UnusableTokens,  \* identities that no header value can carry
    CacheEnabled, RetryEnabled, max_attempts, Mode,
    Answers,       \* what the platform may answer
    Breaks         \* how an exchange may break off

Responses  == {"allow", "refuse", "blocked"}
Refusals   == {"denied", "client_error", "cap_header", "cap_body"}
Transients == {"busy", "fault", "garbled", "moved"}

CallKinds == {"proxy", "plan"}

ASSUME CallAssumption ==
    /\ \A c \in Calls :
          /\ Request[c].via \in CallKinds
          /\ Request[c].via = "plan" =>
                Request[c].request_type \in {"generate-plan", "execute-plan"}
    /\ CacheEnabled \in BOOLEAN
    /\ RetryEnabled \in BOOLEAN
    /\ max_attempts \in Nat \ {0}     \* AxonFlowClient::new rejects 0
    /\ Mode \in {"Production", "Sandbox"}
    /\ Answers \subseteq Responses \cup Refusals \cup Transients
    /\ Breaks \subseteq {"connect", "timeout", "reset", "drop"}

VARIABLES
    pc,        \* [Calls -> Phases], where the call's future is suspended
    attempt,   \* [Calls -> Nat], the loop variable of execute_with_retry
    last_err,  \* [Calls -> Errors], what the last attempt failed with
    outcome,   \* [Calls -> Outcomes], what the caller got
    author,    \* [Calls -> Calls], the call the response was given to
    cache,     \* from the keys present to the call whose response is stored
    ruling,    \* [Calls -> ], the platform's answer to the current attempt
    stray,     \* [Calls -> Nat], requests given up and not yet taken up
    sent,      \* [Calls -> Nat], requests put on the wire
    handled,   \* [Calls -> Nat], requests the platform took up
    heard      \* [Calls -> SUBSET Answers], answers that arrived whole

wire == <<ruling, stray, sent, handled, heard>>
vars == <<pc, attempt, last_err, outcome, author, cache, wire>>

Phases == {"idle", "gated", "waiting", "reading", "sleeping", "filling", "done"}

Errors ==
    {"none", "http_connect", "http_timeout", "http_other", "config",
     "api_2xx", "api_3xx", "api_4xx", "api_429", "api_5xx", "hosted_cap"}

Outcomes == {"none", "verdict", "fail_open", "error", "empty", "dropped"}

-----------------------------------------------------------------------------
(* The request *)

is_mutation(c) ==
    Request[c].request_type
        \in {"execute-plan", "generate-plan", "cancel-plan", "update-plan"}

EffectiveToken(c) ==
    IF Request[c].user_token = "" THEN "anonymous" ELSE Request[c].user_token

Mutant_build_cache_key(c) ==
    <<Request[c].request_type, Request[c].query, EffectiveToken(c), Request[c].context>>

(* The digest of these five; two digests are taken to differ when any of   *)
(* the five does.                                                          *)
build_cache_key(c) ==
    <<Request[c].request_type, Request[c].query, EffectiveToken(c),
      Request[c].identity, Request[c].context>>

UsesCache(c) == CacheEnabled /\ ~is_mutation(c)

TypeOK ==
    /\ pc \in [Calls -> Phases]
    /\ attempt \in [Calls -> 0 .. max_attempts - 1]
    /\ last_err \in [Calls -> Errors]
    /\ outcome \in [Calls -> Outcomes]
    /\ author \in [Calls -> Calls]
    /\ DOMAIN cache \subseteq {build_cache_key(c) : c \in Calls}
    /\ cache \in [DOMAIN cache -> Calls]
    /\ ruling \in [Calls -> Answers \cup {"none"}]
    /\ stray \in [Calls -> Nat]
    /\ sent \in [Calls -> Nat]
    /\ handled \in [Calls -> Nat]
    /\ heard \in [Calls -> SUBSET Answers]

-----------------------------------------------------------------------------
(* Errors *)

(* execute_request: the error an answer is turned into.                    *)
error_of(answer) ==
    IF answer \in {"denied", "client_error"} THEN "api_4xx"
    ELSE IF answer \in {"cap_header", "cap_body"} THEN "hosted_cap"
    ELSE IF answer = "busy" THEN "api_429"
    ELSE IF answer = "fault" THEN "api_5xx"
    ELSE IF answer = "garbled" THEN "api_2xx"
    ELSE "api_3xx"

is_retryable(e) == e \in {"http_connect", "http_timeout", "api_429", "api_5xx"}

is_fail_open_eligible(e) == is_retryable(e)

Mutant_ends_the_loop(e) == e = "hosted_cap"

(* execute_with_retry returns at once: the Hosted cap, and a status in     *)
(* 400..499 that is_retryable does not name.                               *)
ends_the_loop(e) ==
    \/ e = "hosted_cap"
    \/ e \in {"api_4xx", "api_429"} /\ ~is_retryable(e)

Mutant_Retries(c, e) ==
    RetryEnabled /\ ~ends_the_loop(e) /\ attempt[c] + 1 < max_attempts

Mutant2_Retries(c, e) ==
    /\ RetryEnabled /\ ~is_mutation(c)
    /\ ~ends_the_loop(e)
    /\ attempt[c] < max_attempts

Retries(c, e) ==
    /\ RetryEnabled /\ ~is_mutation(c)
    /\ ~ends_the_loop(e)
    /\ attempt[c] + 1 < max_attempts

-----------------------------------------------------------------------------
(* How a call ends *)

(* generate_plan and execute_plan need the response's data: without it they*)
(* report ApiError 500 (a fail-open response has none), and SerdeError when*)
(* it is not a plan.                                                       *)
plan_sees(o) ==
    IF o = "fail_open" THEN {"empty"}
    ELSE IF o = "verdict" THEN {"verdict", "empty", "error"}
    ELSE {o}

caller_sees(c, o) == IF Request[c].via = "plan" THEN plan_sees(o) ELSE {o}

Return(c, o, d) ==
    /\ \E seen \in caller_sees(c, o) : outcome' = [outcome EXCEPT ![c] = seen]
    /\ author' = [author EXCEPT ![c] = d]
    /\ pc' = [pc EXCEPT ![c] = "done"]

(* proxy_llm_call on Err(e).                                               *)
FailedCall(e) ==
    IF Mode = "Production" /\ is_fail_open_eligible(e) THEN "fail_open" ELSE "error"

Mutant_FailAttempt(c, e) ==
    /\ last_err' = [last_err EXCEPT ![c] = e]
    /\ \/ /\ Retries(c, e)
          /\ pc' = [pc EXCEPT ![c] = "sleeping"]
          /\ UNCHANGED <<attempt, outcome, author>>
       \/ /\ ~Retries(c, e)
          /\ Return(c, FailedCall(e), c)
          /\ UNCHANGED attempt

(* An attempt fails with e: the next one after a sleep, or the last error  *)
(* decides.                                                                *)
FailAttempt(c, e) ==
    /\ last_err' = [last_err EXCEPT ![c] = e]
    /\ \/ /\ Retries(c, e)
          /\ attempt' = [attempt EXCEPT ![c] = @ + 1]
          /\ pc' = [pc EXCEPT ![c] = "sleeping"]
          /\ UNCHANGED <<outcome, author>>
       \/ /\ ~Retries(c, e)
          /\ Return(c, FailedCall(e), c)
          /\ UNCHANGED attempt

-----------------------------------------------------------------------------
(* proxy_llm_call up to the request *)

ServeFromCache(c) ==
    /\ pc[c] = "idle"
    /\ UsesCache(c)
    /\ build_cache_key(c) \in DOMAIN cache
    /\ Return(c, "verdict", cache[build_cache_key(c)])
    /\ UNCHANGED <<attempt, last_err, cache, wire>>

Ask(c) ==
    /\ pc[c] = "idle"
    /\ ~(UsesCache(c) /\ build_cache_key(c) \in DOMAIN cache)
    /\ pc' = [pc EXCEPT ![c] = "gated"]
    /\ UNCHANGED <<attempt, last_err, outcome, author, cache, wire>>

-----------------------------------------------------------------------------
(* dispatch, after the telemetry gate *)

(* stamp_identity: the token cannot be a header value, nothing is sent.    *)
RejectToken(c) ==
    /\ pc[c] = "gated"
    /\ Request[c].identity \in UnusableTokens
    /\ FailAttempt(c, "config")
    /\ UNCHANGED <<cache, wire>>

Unreachable(c) ==
    /\ "connect" \in Breaks
    /\ pc[c] = "gated"
    /\ Request[c].identity \notin UnusableTokens
    /\ FailAttempt(c, "http_connect")
    /\ UNCHANGED <<cache, wire>>

Send(c) ==
    /\ pc[c] = "gated"
    /\ Request[c].identity \notin UnusableTokens
    /\ sent' = [sent EXCEPT ![c] = @ + 1]
    /\ ruling' = [ruling EXCEPT ![c] = "none"]
    /\ pc' = [pc EXCEPT ![c] = "waiting"]
    /\ UNCHANGED <<attempt, last_err, outcome, author, cache, stray, handled, heard>>

-----------------------------------------------------------------------------
(* The platform *)

Handle(c) ==
    /\ pc[c] = "waiting"
    /\ ruling[c] = "none"
    /\ ruling' \in {[ruling EXCEPT ![c] = a] : a \in Answers}
    /\ handled' = [handled EXCEPT ![c] = @ + 1]
    /\ UNCHANGED <<pc, attempt, last_err, outcome, author, cache, stray, sent, heard>>

(* A request nobody waits for any more is taken up; its answer goes nowhere*)
HandleStray(c) ==
    /\ stray[c] > 0
    /\ stray' = [stray EXCEPT ![c] = @ - 1]
    /\ handled' = [handled EXCEPT ![c] = @ + 1]
    /\ UNCHANGED <<pc, attempt, last_err, outcome, author, cache, ruling, sent, heard>>

-----------------------------------------------------------------------------
(* The answer *)

(* The status and headers arrive; the body is still to be read.            *)
Head(c) ==
    /\ pc[c] = "waiting"
    /\ ruling[c] # "none"
    /\ pc' = [pc EXCEPT ![c] = "reading"]
    /\ UNCHANGED <<attempt, last_err, outcome, author, cache, wire>>

Hear(c) ==
    /\ pc[c] = "reading"
    /\ heard' = [heard EXCEPT ![c] = @ \cup {ruling[c]}]
    /\ UNCHANGED <<ruling, stray, sent, handled>>

Mutant_Fillable(c) == UsesCache(c)

(* Only response.success of a call that is no mutation is stored.          *)
Fillable(c) == UsesCache(c) /\ ruling[c] = "allow"

HearResponse(c) ==
    /\ ruling[c] \in Responses
    /\ Hear(c)
    /\ \/ /\ Fillable(c)
          /\ pc' = [pc EXCEPT ![c] = "filling"]
          /\ UNCHANGED <<outcome, author>>
       \/ /\ ~Fillable(c)
          /\ Return(c, "verdict", c)
    /\ UNCHANGED <<attempt, last_err, cache>>

HearError(c) ==
    /\ ruling[c] \notin Responses
    /\ Hear(c)
    /\ FailAttempt(c, error_of(ruling[c]))
    /\ UNCHANGED cache

(* The request of a call that stops waiting may yet reach the platform.    *)
LeaveBehind(c) ==
    /\ stray' = [stray EXCEPT
           ![c] = IF pc[c] = "waiting" /\ ruling[c] = "none" THEN @ + 1 ELSE @]
    /\ UNCHANGED <<ruling, sent, handled, heard>>

(* The transport gives up before the head or inside the body; either is    *)
(* HttpError, and the status that may have arrived is forgotten.           *)
BreakOff(c, break, e) ==
    /\ break \in Breaks
    /\ pc[c] \in {"waiting", "reading"}
    /\ FailAttempt(c, e)
    /\ LeaveBehind(c)
    /\ UNCHANGED cache

TimeOut(c) == BreakOff(c, "timeout", "http_timeout")

Reset(c) == BreakOff(c, "reset", "http_other")

Wake(c) ==
    /\ pc[c] = "sleeping"
    /\ pc' = [pc EXCEPT ![c] = "gated"]
    /\ UNCHANGED <<attempt, last_err, outcome, author, cache, wire>>

-----------------------------------------------------------------------------
(* The cache *)

Insert(c) ==
    cache' = [k \in DOMAIN cache \cup {build_cache_key(c)} |->
                 IF k = build_cache_key(c) THEN c ELSE cache[k]]

Fill(c) ==
    /\ pc[c] = "filling"
    /\ Insert(c)
    /\ Return(c, "verdict", c)
    /\ UNCHANGED <<attempt, last_err, wire>>

(* time_to_live or max_capacity.                                           *)
Evict(k) ==
    /\ k \in DOMAIN cache
    /\ cache' = [j \in DOMAIN cache \ {k} |-> cache[j]]
    /\ UNCHANGED <<pc, attempt, last_err, outcome, author, wire>>

(* The caller drops the future where it is suspended.  A cache insertion   *)
(* that was being awaited may have taken place.                            *)
Drop(c) ==
    /\ "drop" \in Breaks
    /\ pc[c] \notin {"idle", "done"}
    /\ pc' = [pc EXCEPT ![c] = "done"]
    /\ outcome' = [outcome EXCEPT ![c] = "dropped"]
    /\ LeaveBehind(c)
    /\ \/ UNCHANGED cache
       \/ pc[c] = "filling" /\ Insert(c)
    /\ UNCHANGED <<attempt, last_err, author>>

-----------------------------------------------------------------------------
Init ==
    /\ pc = [c \in Calls |-> "idle"]
    /\ attempt = [c \in Calls |-> 0]
    /\ last_err = [c \in Calls |-> "none"]
    /\ outcome = [c \in Calls |-> "none"]
    /\ author = [c \in Calls |-> c]
    /\ cache = [k \in {} |-> k]
    /\ ruling = [c \in Calls |-> "none"]
    /\ stray = [c \in Calls |-> 0]
    /\ sent = [c \in Calls |-> 0]
    /\ handled = [c \in Calls |-> 0]
    /\ heard = [c \in Calls |-> {}]

(* What the call itself does next, and the transport for it.               *)
Proceed(c) ==
    \/ RejectToken(c)
    \/ Unreachable(c)
    \/ Send(c)
    \/ Head(c)
    \/ HearResponse(c)
    \/ HearError(c)
    \/ TimeOut(c)
    \/ Reset(c)
    \/ Wake(c)
    \/ Fill(c)

(* One step of call c, or of the platform and the transport on its behalf. *)
CallStep(c) ==
    \/ ServeFromCache(c)
    \/ Ask(c)
    \/ Proceed(c)
    \/ Handle(c)
    \/ HandleStray(c)
    \/ Drop(c)

Next ==
    \/ \E c \in Calls : CallStep(c)
    \/ \E k \in DOMAIN cache : Evict(k)

Spec == Init /\ [][Next]_vars

(* The runtime polls a future that can go on, and reqwest's timeout ends   *)
(* every exchange, answered or not.                                        *)
FairSpec == Spec /\ \A c \in Calls : WF_vars(Proceed(c))

-----------------------------------------------------------------------------
(* Properties *)

(* RetryConfig: "mutations are never retried to avoid double-execution".   *)
(* However the exchange breaks off, and whenever the platform gets to the  *)
(* request, it takes a mutation up at most once.                           *)
MutationOnce == \A c \in Calls : is_mutation(c) => handled[c] <= 1

(* A refusal that reached the client is final: no further request leaves   *)
(* for the call and it never turns into a fail-open success, whatever      *)
(* earlier attempts ran into.                                              *)
RefusalStands ==
    \A c \in Calls :
       heard[c] \cap Refusals # {} => pc[c] = "done" /\ outcome[c] = "error"

(* Two calls that ask the same in the name of the same user.               *)
SameAsk(c, d) ==
    /\ Request[c].request_type = Request[d].request_type
    /\ Request[c].query = Request[d].query
    /\ EffectiveToken(c) = EffectiveToken(d)
    /\ Request[c].identity = Request[d].identity
    /\ Request[c].context = Request[d].context

(* as_user shares the cache: a response is handed only to a call that asks *)
(* the same in the name of the same user, and never to or from a mutation. *)
OwnVerdict ==
    \A c \in Calls :
       LET d == author[c] IN
       outcome[c] = "verdict" /\ c # d =>
          SameAsk(c, d) /\ ~is_mutation(c) /\ ~is_mutation(d)

(* What sits in the shared cache is a success the platform itself gave:    *)
(* no fail-open response and no block gets in, also through dropped and    *)
(* racing insertions, so an outage is forgotten with the call that met it. *)
CacheHoldsSuccess ==
    \A k \in DOMAIN cache :
       /\ "allow" \in heard[cache[k]]
       /\ outcome[cache[k]] \in {"verdict", "dropped"}

(* execute_with_retry: no call has more requests on the wire than          *)
(* max_attempts, and without retries no more than one.                     *)
AttemptsBounded ==
    \A c \in Calls : sent[c] <= IF RetryEnabled /\ ~is_mutation(c) THEN max_attempts ELSE 1

(* A call that was made returns, unless it is dropped: each exchange times *)
(* out and the retry loop ends.                                            *)
EveryCallReturns == \A c \in Calls : pc[c] # "idle" ~> pc[c] = "done"

Promise == INSTANCE GovernedPromise WITH
    Mutation <- is_mutation, Production <- (Mode = "Production")

(* The cache, the retry loop and the awaits implement GovernedPromise.     *)
KeepsPromise == Promise!PromiseSpec

(* "An answered Hosted 429 [...] is a terminal HostedMonthlyLimit error    *)
(* after one request, even when a truncated body retains only the Agent's  *)
(* monthly-tier header" (CHANGELOG): once the head with the header is in,  *)
(* the call can only end in an error.                                      *)
CapHeaderTerminal ==
    [][\A c \in Calls :
          pc[c] = "reading" /\ ruling[c] = "cap_header" /\ pc'[c] # "reading"
              => outcome'[c] \in {"error", "dropped"}]_vars
=============================================================================
