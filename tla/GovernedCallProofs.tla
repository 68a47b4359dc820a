------------------------- MODULE GovernedCallProofs -------------------------
(***************************************************************************)
(* Proofs about GovernedCall for every set of calls and requests, every    *)
(* retry budget, mode, cache setting, and every behaviour of the platform  *)
(* and the transport.                                                      *)
(***************************************************************************)
EXTENDS GovernedCall, TLAPS

(* Nothing about call d changes.                                           *)
Quiet(d) ==
    /\ pc'[d] = pc[d] /\ attempt'[d] = attempt[d] /\ last_err'[d] = last_err[d]
    /\ outcome'[d] = outcome[d] /\ author'[d] = author[d]
    /\ ruling'[d] = ruling[d] /\ stray'[d] = stray[d] /\ sent'[d] = sent[d]
    /\ handled'[d] = handled[d] /\ heard'[d] = heard[d]

-----------------------------------------------------------------------------
(* Helpers *)

(* An answer that is no response becomes an error; a refusal becomes one   *)
(* that is neither retried nor hidden.                                     *)
LEMMA ErrorOfAnswer ==
    ASSUME NEW a \in (Responses \cup Refusals \cup Transients) \ Responses
    PROVE  /\ error_of(a) \in Errors
           /\ a \in Refusals => ends_the_loop(error_of(a)) /\ ~is_fail_open_eligible(error_of(a))
PROOF
  <1>1. \/ a = "denied" \/ a = "client_error" \/ a = "cap_header" \/ a = "cap_body"
        \/ a = "busy" \/ a = "fault" \/ a = "garbled" \/ a = "moved"
    BY DEF Responses, Refusals, Transients
  <1> QED
    BY <1>1 DEF error_of, Errors, ends_the_loop, is_fail_open_eligible, is_retryable, Refusals

(* Every outcome a caller sees has the outcome type.                       *)
LEMMA SeenTyped ==
    ASSUME NEW c \in Calls, NEW o \in Outcomes \ {"none"}
    PROVE  caller_sees(c, o) \subseteq Outcomes \ {"none"}
PROOF BY DEF caller_sees, plan_sees, Outcomes

LEMMA FailedTyped ==
    ASSUME NEW e PROVE FailedCall(e) \in {"fail_open", "error"}
PROOF BY DEF FailedCall

(* What Return leaves behind.                                              *)
LEMMA ReturnStep ==
    ASSUME TypeOK, NEW c \in Calls, NEW o \in Outcomes \ {"none"}, NEW d \in Calls,
           Return(c, o, d)
    PROVE  /\ outcome' \in [Calls -> Outcomes]
           /\ author' \in [Calls -> Calls]
           /\ pc' \in [Calls -> Phases]
           /\ pc'[c] = "done" /\ outcome'[c] \in caller_sees(c, o) /\ author'[c] = d
           /\ \A b \in Calls \ {c} :
                 pc'[b] = pc[b] /\ outcome'[b] = outcome[b] /\ author'[b] = author[b]
PROOF
  <1>1. PICK seen \in caller_sees(c, o) : outcome' = [outcome EXCEPT ![c] = seen]
    BY DEF Return
  <1>2. seen \in Outcomes
    BY <1>1, SeenTyped
  <1>3. author' = [author EXCEPT ![c] = d] /\ pc' = [pc EXCEPT ![c] = "done"]
    BY DEF Return
  <1> QED
    BY <1>1, <1>2, <1>3 DEF TypeOK, Phases

(* What a failing attempt leaves behind.                                   *)
LEMMA FailStep ==
    ASSUME TypeOK, NEW c \in Calls, NEW e \in Errors, FailAttempt(c, e)
    PROVE  /\ outcome' \in [Calls -> Outcomes]
           /\ author' \in [Calls -> Calls]
           /\ pc' \in [Calls -> Phases]
           /\ attempt' \in [Calls -> 0 .. max_attempts - 1]
           /\ last_err' \in [Calls -> Errors]
           /\ \A b \in Calls \ {c} :
                 /\ pc'[b] = pc[b] /\ outcome'[b] = outcome[b] /\ author'[b] = author[b]
                 /\ attempt'[b] = attempt[b] /\ last_err'[b] = last_err[b]
           /\ \/ /\ Retries(c, e)
                 /\ pc'[c] = "sleeping" /\ attempt'[c] = attempt[c] + 1
                 /\ outcome'[c] = outcome[c] /\ author'[c] = author[c]
              \/ /\ ~Retries(c, e)
                 /\ pc'[c] = "done" /\ attempt'[c] = attempt[c]
                 /\ outcome'[c] \in caller_sees(c, FailedCall(e)) /\ author'[c] = c
PROOF
  <1>1. last_err' = [last_err EXCEPT ![c] = e]
    BY DEF FailAttempt
  <1>2. CASE Retries(c, e) /\ attempt' = [attempt EXCEPT ![c] = @ + 1]
             /\ pc' = [pc EXCEPT ![c] = "sleeping"] /\ UNCHANGED <<outcome, author>>
    <2>1. attempt[c] + 1 \in 0 .. max_attempts - 1
      BY <1>2, CallAssumption DEF Retries, TypeOK
    <2> QED
      BY <1>1, <1>2, <2>1 DEF TypeOK, Phases
  <1>3. CASE ~Retries(c, e) /\ Return(c, FailedCall(e), c) /\ UNCHANGED attempt
    <2>1. FailedCall(e) \in Outcomes \ {"none"}
      BY FailedTyped DEF Outcomes
    <2> QED
      BY <1>1, <1>3, <2>1, ReturnStep DEF TypeOK
  <1> QED
    BY <1>2, <1>3 DEF FailAttempt

-----------------------------------------------------------------------------
(* Type correctness *)

(* A response that is being read has been given.                           *)
Answered == \A c \in Calls : pc[c] = "reading" => ruling[c] # "none"

Typed == TypeOK /\ Answered

LEMMA TypeInit == Init => Typed
PROOF
  <1> SUFFICES ASSUME Init PROVE Typed
    OBVIOUS
  <1> USE CallAssumption DEF Init
  <1>1. 0 \in 0 .. max_attempts - 1
    OBVIOUS
  <1>2. cache \in [DOMAIN cache -> Calls] /\ DOMAIN cache = {}
    OBVIOUS
  <1>3. TypeOK
    BY <1>1, <1>2 DEF TypeOK, Phases, Errors, Outcomes
  <1> QED
    BY <1>3 DEF Typed, Answered

(* Insertion keeps the cache a map from keys to calls.                     *)
LEMMA InsertTyped ==
    ASSUME TypeOK, NEW c \in Calls, Insert(c)
    PROVE  /\ DOMAIN cache' \subseteq {build_cache_key(d) : d \in Calls}
           /\ cache' \in [DOMAIN cache' -> Calls]
PROOF
  <1> DEFINE K == DOMAIN cache \cup {build_cache_key(c)}
  <1>1. cache' = [k \in K |-> IF k = build_cache_key(c) THEN c ELSE cache[k]]
    BY DEF Insert
  <1>2. \A k \in K : k # build_cache_key(c) => cache[k] \in Calls
    BY DEF TypeOK
  <1>3. DOMAIN cache' = K
    BY <1>1
  <1>4. K \subseteq {build_cache_key(d) : d \in Calls}
    BY DEF TypeOK
  <1>5. cache' \in [K -> Calls]
    BY <1>1, <1>2
  <1> QED
    BY <1>3, <1>4, <1>5

LEMMA TypeStep ==
    ASSUME Typed, NEW c \in Calls, CallStep(c)
    PROVE  Typed' /\ \A d \in Calls \ {c} : Quiet(d)
PROOF
  <1> USE DEF Typed
  <1>1. CASE ServeFromCache(c)
    <2>1. cache[build_cache_key(c)] \in Calls
      BY <1>1 DEF ServeFromCache, TypeOK
    <2>2. "verdict" \in Outcomes \ {"none"}
      BY DEF Outcomes
    <2>3. /\ outcome' \in [Calls -> Outcomes] /\ author' \in [Calls -> Calls]
          /\ pc' \in [Calls -> Phases] /\ pc'[c] = "done"
          /\ \A b \in Calls \ {c} :
                pc'[b] = pc[b] /\ outcome'[b] = outcome[b] /\ author'[b] = author[b]
      BY <1>1, <2>1, <2>2, ReturnStep DEF ServeFromCache
    <2>4. UNCHANGED <<attempt, last_err, cache, ruling, stray, sent, handled, heard>>
      BY <1>1 DEF ServeFromCache, wire
    <2> QED
      BY <2>3, <2>4 DEF TypeOK, Answered, Quiet
  <1>2. CASE Ask(c)
    BY <1>2 DEF Ask, wire, TypeOK, Answered, Quiet, Phases
  <1>3. CASE RejectToken(c) \/ Unreachable(c)
    <2>1. PICK e \in {"config", "http_connect"} : FailAttempt(c, e)
      BY <1>3 DEF RejectToken, Unreachable
    <2>2. e \in Errors
      BY DEF Errors
    <2>3. UNCHANGED <<cache, ruling, stray, sent, handled, heard>>
      BY <1>3 DEF RejectToken, Unreachable, wire
    <2> QED
      BY <2>1, <2>2, <2>3, FailStep DEF TypeOK, Answered, Quiet
  <1>4. CASE Send(c)
    BY <1>4 DEF Send, TypeOK, Answered, Quiet, Phases
  <1>5. CASE Head(c)
    BY <1>5 DEF Head, wire, TypeOK, Answered, Quiet, Phases
  <1>6. CASE HearResponse(c)
    <2>1. ruling[c] \in Answers /\ heard' \in [Calls -> SUBSET Answers]
          /\ \A b \in Calls \ {c} : heard'[b] = heard[b]
      BY <1>6 DEF HearResponse, Hear, TypeOK, Answered
    <2>2. "verdict" \in Outcomes \ {"none"}
      BY DEF Outcomes
    <2>3. UNCHANGED <<attempt, last_err, cache, ruling, stray, sent, handled>>
      BY <1>6 DEF HearResponse, Hear
    <2>4. CASE pc' = [pc EXCEPT ![c] = "filling"] /\ UNCHANGED <<outcome, author>>
      BY <2>1, <2>3, <2>4 DEF TypeOK, Answered, Quiet, Phases
    <2>5. CASE Return(c, "verdict", c)
      BY ZenonT(30), <2>1, <2>2, <2>3, <2>5, ReturnStep DEF TypeOK, Answered, Quiet
    <2> QED
      BY <1>6, <2>4, <2>5 DEF HearResponse
  <1>7. CASE HearError(c)
    <2>1. ruling[c] \in Answers /\ heard' \in [Calls -> SUBSET Answers]
          /\ \A b \in Calls \ {c} : heard'[b] = heard[b]
      BY <1>7 DEF HearError, Hear, TypeOK, Answered
    <2>2. error_of(ruling[c]) \in Errors
      BY <1>7, <2>1, CallAssumption, ErrorOfAnswer DEF HearError
    <2>3. UNCHANGED <<cache, ruling, stray, sent, handled>> /\ FailAttempt(c, error_of(ruling[c]))
      BY <1>7 DEF HearError, Hear
    <2> QED
      BY <2>1, <2>2, <2>3, FailStep DEF TypeOK, Answered, Quiet
  <1>8. CASE TimeOut(c) \/ Reset(c)
    <2>1. PICK e \in {"http_timeout", "http_other"} : FailAttempt(c, e)
      BY <1>8 DEF TimeOut, Reset, BreakOff
    <2>2. e \in Errors
      BY DEF Errors
    <2>3. LeaveBehind(c) /\ UNCHANGED cache
      BY <1>8 DEF TimeOut, Reset, BreakOff
    <2>4. stray' \in [Calls -> Nat] /\ \A b \in Calls \ {c} : stray'[b] = stray[b]
      BY <2>3 DEF LeaveBehind, TypeOK
    <2>5. UNCHANGED <<cache, ruling, sent, handled, heard>>
      BY <2>3 DEF LeaveBehind
    <2> QED
      BY <2>1, <2>2, <2>4, <2>5, FailStep DEF TypeOK, Answered, Quiet
  <1>9. CASE Wake(c)
    BY <1>9 DEF Wake, wire, TypeOK, Answered, Quiet, Phases
  <1>10. CASE Fill(c)
    <2>1. "verdict" \in Outcomes \ {"none"}
      BY DEF Outcomes
    <2>2. Insert(c) /\ Return(c, "verdict", c)
          /\ UNCHANGED <<attempt, last_err, ruling, stray, sent, handled, heard>>
      BY <1>10 DEF Fill, wire
    <2> QED
      BY <2>1, <2>2, InsertTyped, ReturnStep DEF TypeOK, Answered, Quiet
  <1>11. CASE Handle(c)
    <2>1. PICK a \in Answers : ruling' = [ruling EXCEPT ![c] = a]
      BY <1>11 DEF Handle
    <2>2. pc[c] # "reading"
      BY <1>11 DEF Handle
    <2> QED
      BY <1>11, <2>1, <2>2 DEF Handle, TypeOK, Answered, Quiet
  <1>12. CASE HandleStray(c)
    <2>1. stray[c] - 1 \in Nat
      BY <1>12 DEF HandleStray, TypeOK
    <2> QED
      BY <1>12, <2>1 DEF HandleStray, TypeOK, Answered, Quiet
  <1>13. CASE Drop(c)
    <2>1. stray' \in [Calls -> Nat] /\ \A b \in Calls \ {c} : stray'[b] = stray[b]
      BY <1>13 DEF Drop, LeaveBehind, TypeOK
    <2>2. UNCHANGED <<attempt, last_err, author, ruling, sent, handled, heard>>
      BY <1>13 DEF Drop, LeaveBehind
    <2>3. /\ DOMAIN cache' \subseteq {build_cache_key(d) : d \in Calls}
          /\ cache' \in [DOMAIN cache' -> Calls]
      <3>1. CASE UNCHANGED cache
        BY <3>1 DEF TypeOK
      <3>2. CASE Insert(c)
        BY <3>2, InsertTyped
      <3> QED
        BY <1>13, <3>1, <3>2 DEF Drop
    <2>4. pc' = [pc EXCEPT ![c] = "done"] /\ outcome' = [outcome EXCEPT ![c] = "dropped"]
      BY <1>13 DEF Drop
    <2> QED
      BY <2>1, <2>2, <2>3, <2>4 DEF TypeOK, Answered, Quiet, Phases, Outcomes
  <1> QED
    BY <1>1, <1>2, <1>3, <1>4, <1>5, <1>6, <1>7, <1>8, <1>9, <1>10, <1>11, <1>12, <1>13
       DEF CallStep, Proceed

LEMMA EvictStep ==
    ASSUME Typed, NEW k, Evict(k)
    PROVE  Typed' /\ \A d \in Calls : Quiet(d)
PROOF
  <1>1. UNCHANGED <<pc, attempt, last_err, outcome, author, ruling, stray, sent, handled, heard>>
    BY DEF Evict, wire
  <1>2. cache' = [j \in DOMAIN cache \ {k} |-> cache[j]]
    BY DEF Evict
  <1>3. DOMAIN cache' = DOMAIN cache \ {k} /\ cache' \in [DOMAIN cache \ {k} -> Calls]
    BY <1>2 DEF Typed, TypeOK
  <1> QED
    BY <1>1, <1>3 DEF Typed, TypeOK, Answered, Quiet

LEMMA TypeNext == Typed /\ [Next]_vars => Typed'
PROOF
  <1> SUFFICES ASSUME Typed, [Next]_vars PROVE Typed'
    OBVIOUS
  <1>1. CASE \E c \in Calls : CallStep(c)
    BY <1>1, TypeStep
  <1>2. CASE \E k \in DOMAIN cache : Evict(k)
    BY <1>2, EvictStep
  <1>3. CASE UNCHANGED vars
    BY <1>3 DEF vars, wire, Typed, TypeOK, Answered
  <1> QED
    BY <1>1, <1>2, <1>3 DEF Next

LEMMA TypedAlways == Spec => []Typed
PROOF BY TypeInit, TypeNext, PTL DEF Spec

(* Every variable keeps its type: no attempt number outside the budget, no *)
(* key in the cache that is not some call's, no unknown answer heard.      *)
THEOREM CallsTypeCorrect == Spec => []TypeOK
PROOF
  <1>1. Typed => TypeOK
    BY DEF Typed
  <1> QED
    BY <1>1, TypedAlways, PTL

-----------------------------------------------------------------------------
(* Requests on the wire *)

(* The request of the current attempt, if the platform has not taken it up.*)
Outstanding(c) == IF pc[c] = "waiting" /\ ruling[c] = "none" THEN 1 ELSE 0

(* An attempt sends once; every request taken up, still on its way or      *)
(* outstanding was sent; and only a retried call has a second attempt.     *)
CountInv(c) ==
    /\ pc[c] \in {"idle", "gated", "sleeping"} => sent[c] <= attempt[c]
    /\ sent[c] <= attempt[c] + 1
    /\ attempt[c] # 0 => RetryEnabled /\ ~is_mutation(c)
    /\ handled[c] + stray[c] + Outstanding(c) <= sent[c]

Counted == \A c \in Calls : CountInv(c)

LEMMA CountQuiet ==
    ASSUME NEW d \in Calls, CountInv(d), Quiet(d) PROVE CountInv(d)'
PROOF BY DEF CountInv, Outstanding, Quiet

(* A failing attempt that leaves the wire as it is keeps the count, given  *)
(* that its own request is accounted for.                                  *)
LEMMA CountFail ==
    ASSUME Typed, NEW c \in Calls, CountInv(c), NEW e \in Errors, FailAttempt(c, e),
           sent' = sent, handled' = handled, stray'[c] \in Nat,
           stray'[c] <= stray[c] + Outstanding(c)
    PROVE  CountInv(c)'
PROOF
  <1>1. \/ Retries(c, e) /\ pc'[c] = "sleeping" /\ attempt'[c] = attempt[c] + 1
        \/ pc'[c] = "done" /\ attempt'[c] = attempt[c]
    BY FailStep DEF Typed
  <1>2. Retries(c, e) => RetryEnabled /\ ~is_mutation(c)
    BY DEF Retries
  <1>3. sent[c] \in Nat /\ handled[c] \in Nat /\ stray[c] \in Nat /\ attempt[c] \in Nat
    BY CallAssumption DEF Typed, TypeOK
  <1>4. Outstanding(c)' = 0
    BY <1>1 DEF Outstanding
  <1>5. Outstanding(c) \in {0, 1}
    BY DEF Outstanding
  <1>6. handled'[c] + stray'[c] + Outstanding(c)' <= sent'[c]
    BY <1>3, <1>4, <1>5 DEF CountInv
  <1>7. CASE pc'[c] = "sleeping" /\ attempt'[c] = attempt[c] + 1 /\ Retries(c, e)
    BY <1>2, <1>3, <1>6, <1>7 DEF CountInv
  <1>8. CASE pc'[c] = "done" /\ attempt'[c] = attempt[c]
    BY <1>3, <1>6, <1>8 DEF CountInv
  <1> QED
    BY <1>1, <1>7, <1>8

LEMMA CountStep ==
    ASSUME Typed, NEW c \in Calls, CountInv(c), CallStep(c)
    PROVE  CountInv(c)'
PROOF
  <1> USE DEF Typed
  <1>0. sent[c] \in Nat /\ handled[c] \in Nat /\ stray[c] \in Nat /\ attempt[c] \in Nat
        /\ Outstanding(c) \in {0, 1}
    BY CallAssumption DEF TypeOK, Outstanding
  <1>1. CASE ServeFromCache(c)
    <2>1. pc' = [pc EXCEPT ![c] = "done"]
          /\ UNCHANGED <<attempt, ruling, sent, stray, handled>> /\ pc[c] = "idle"
      BY <1>1 DEF ServeFromCache, Return, wire
    <2> QED
      BY <1>0, <2>1 DEF TypeOK, CountInv, Outstanding
  <1>2. CASE Ask(c) \/ Head(c) \/ Wake(c)
    BY <1>0, <1>2 DEF Ask, Head, Wake, wire, TypeOK, CountInv, Outstanding
  <1>3. CASE RejectToken(c) \/ Unreachable(c)
    <2>1. PICK e \in {"config", "http_connect"} : FailAttempt(c, e)
      BY <1>3 DEF RejectToken, Unreachable
    <2>2. e \in Errors
      BY DEF Errors
    <2>3. UNCHANGED <<sent, handled, stray>>
      BY <1>3 DEF RejectToken, Unreachable, wire
    <2> QED
      BY <1>0, <2>1, <2>2, <2>3, CountFail
  <1>4. CASE Send(c)
    BY <1>0, <1>4 DEF Send, TypeOK, CountInv, Outstanding
  <1>5. CASE HearResponse(c)
    <2>1. /\ UNCHANGED <<attempt, sent, stray, handled>>
          /\ pc[c] = "reading" /\ pc'[c] \in {"filling", "done"}
      BY <1>5 DEF HearResponse, Hear, Return, TypeOK
    <2> QED
      BY <1>0, <2>1 DEF CountInv, Outstanding
  <1>6. CASE HearError(c)
    <2>1. ruling[c] \in Answers \ Responses
      BY <1>6 DEF HearError, Hear, TypeOK, Answered
    <2>2. error_of(ruling[c]) \in Errors
      BY <2>1, CallAssumption, ErrorOfAnswer
    <2>3. UNCHANGED <<sent, stray, handled>> /\ FailAttempt(c, error_of(ruling[c]))
      BY <1>6 DEF HearError, Hear
    <2> QED
      BY <1>0, <2>2, <2>3, CountFail
  <1>7. CASE TimeOut(c) \/ Reset(c)
    <2>1. PICK e \in {"http_timeout", "http_other"} : FailAttempt(c, e)
      BY <1>7 DEF TimeOut, Reset, BreakOff
    <2>2. e \in Errors
      BY DEF Errors
    <2>3. LeaveBehind(c)
      BY <1>7 DEF TimeOut, Reset, BreakOff
    <2>4. UNCHANGED <<sent, handled>> /\ stray'[c] = stray[c] + Outstanding(c)
      BY <1>0, <2>3 DEF LeaveBehind, Outstanding, TypeOK
    <2> QED
      BY <1>0, <2>1, <2>2, <2>4, CountFail
  <1>8. CASE Fill(c)
    <2>1. pc' = [pc EXCEPT ![c] = "done"]
          /\ UNCHANGED <<attempt, ruling, sent, stray, handled>> /\ pc[c] = "filling"
      BY <1>8 DEF Fill, Return, wire
    <2> QED
      BY <1>0, <2>1 DEF TypeOK, CountInv, Outstanding
  <1>9. CASE Handle(c)
    <2>1. PICK a \in Answers : ruling' = [ruling EXCEPT ![c] = a]
      BY <1>9 DEF Handle
    <2>2. a # "none"
      BY CallAssumption DEF Responses, Refusals, Transients
    <2>3. Outstanding(c) = 1 /\ Outstanding(c)' = 0
      BY <1>9, <2>1, <2>2 DEF Handle, Outstanding, TypeOK
    <2>4. handled'[c] = handled[c] + 1 /\ UNCHANGED <<pc, attempt, sent, stray>>
      BY <1>9 DEF Handle, TypeOK
    <2> QED
      BY <1>0, <2>3, <2>4 DEF CountInv
  <1>10. CASE HandleStray(c)
    <2>1. handled'[c] = handled[c] + 1 /\ stray'[c] = stray[c] - 1
          /\ UNCHANGED <<pc, attempt, sent, ruling>>
      BY <1>10 DEF HandleStray, TypeOK
    <2> QED
      BY <1>0, <2>1 DEF CountInv, Outstanding
  <1>11. CASE Drop(c)
    <2>1. LeaveBehind(c) /\ pc' = [pc EXCEPT ![c] = "done"] /\ UNCHANGED attempt
      BY <1>11 DEF Drop
    <2>2. UNCHANGED <<sent, handled, ruling>> /\ stray'[c] = stray[c] + Outstanding(c)
      BY <1>0, <2>1 DEF LeaveBehind, Outstanding, TypeOK
    <2>3. pc'[c] = "done" /\ Outstanding(c)' = 0
      BY <2>1 DEF TypeOK, Outstanding
    <2> QED
      BY <1>0, <2>1, <2>2, <2>3 DEF CountInv
  <1> QED
    BY <1>1, <1>2, <1>3, <1>4, <1>5, <1>6, <1>7, <1>8, <1>9, <1>10, <1>11 DEF CallStep, Proceed

LEMMA CountNext == Typed /\ Counted /\ [Next]_vars => Counted'
PROOF
  <1> SUFFICES ASSUME Typed, Counted, [Next]_vars PROVE Counted'
    OBVIOUS
  <1>1. CASE \E c \in Calls : CallStep(c)
    <2>1. PICK c \in Calls : CallStep(c)
      BY <1>1
    <2>2. CountInv(c)'
      BY <2>1, CountStep DEF Counted
    <2>3. \A d \in Calls \ {c} : CountInv(d)'
      BY <2>1, TypeStep, CountQuiet DEF Counted
    <2> QED
      BY <2>2, <2>3 DEF Counted
  <1>2. CASE \E k \in DOMAIN cache : Evict(k)
    BY <1>2, EvictStep, CountQuiet DEF Counted
  <1>3. CASE UNCHANGED vars
    BY <1>3 DEF vars, wire, Counted, CountInv, Outstanding
  <1> QED
    BY <1>1, <1>2, <1>3 DEF Next

LEMMA CountedAlways == Spec => []Counted
PROOF
  <1>1. Init => Counted
    <2> SUFFICES ASSUME Init, NEW c \in Calls PROVE CountInv(c)
      BY DEF Counted
    <2>1. pc[c] = "idle" /\ sent[c] = 0 /\ attempt[c] = 0 /\ handled[c] = 0 /\ stray[c] = 0
      BY DEF Init
    <2> QED
      BY <2>1 DEF CountInv, Outstanding
  <1> QED
    BY <1>1, CountNext, TypedAlways, PTL DEF Spec

(* The retry budget holds for every schedule of answers, breaks and drops. *)
THEOREM RetryBudget == Spec => []AttemptsBounded
PROOF
  <1>1. Typed /\ Counted => AttemptsBounded
    <2> SUFFICES ASSUME Typed, Counted, NEW c \in Calls
                 PROVE sent[c] <= IF RetryEnabled /\ ~is_mutation(c) THEN max_attempts ELSE 1
      BY DEF AttemptsBounded
    <2>1. attempt[c] \in 0 .. max_attempts - 1 /\ sent[c] \in Nat
      BY DEF Typed, TypeOK
    <2> QED
      BY <2>1, CallAssumption DEF Counted, CountInv
  <1> QED
    BY <1>1, TypedAlways, CountedAlways, PTL

(* A mutation is taken up at most once, whatever is lost on the way.       *)
THEOREM MutationsRunOnce == Spec => []MutationOnce
PROOF
  <1>1. Typed /\ Counted => MutationOnce
    <2> SUFFICES ASSUME Typed, Counted, NEW c \in Calls, is_mutation(c)
                 PROVE handled[c] <= 1
      BY DEF MutationOnce
    <2>1. attempt[c] = 0 /\ sent[c] <= 1 /\ handled[c] + stray[c] + Outstanding(c) <= sent[c]
      BY DEF Typed, TypeOK, Counted, CountInv
    <2>2. handled[c] \in Nat /\ stray[c] \in Nat /\ sent[c] \in Nat /\ Outstanding(c) \in {0, 1}
      BY DEF Typed, TypeOK, Outstanding
    <2> QED
      BY <2>1, <2>2
  <1> QED
    BY <1>1, TypedAlways, CountedAlways, PTL

-----------------------------------------------------------------------------
(* Refusals *)

RefusedInv(c) ==
    heard[c] \cap Refusals # {} => pc[c] = "done" /\ outcome[c] = "error"

LEMMA RefusedStep ==
    ASSUME Typed, NEW c \in Calls, RefusedInv(c), CallStep(c)
    PROVE  RefusedInv(c)'
PROOF
  <1> USE DEF Typed
  <1>1. CASE pc[c] # "done" /\ heard' = heard
    BY <1>1 DEF RefusedInv
  <1>2. CASE HearResponse(c)
    <2>1. pc[c] # "done" /\ heard'[c] = heard[c] \cup {ruling[c]} /\ ruling[c] \in Responses
      BY <1>2 DEF HearResponse, Hear, TypeOK
    <2>2. heard[c] \cap Refusals = {}
      BY <2>1 DEF RefusedInv
    <2>3. ruling[c] \notin Refusals
      BY <2>1 DEF Responses, Refusals
    <2> QED
      BY <2>1, <2>2, <2>3 DEF RefusedInv
  <1>3. CASE HearError(c)
    <2>1. /\ pc[c] # "done" /\ heard'[c] = heard[c] \cup {ruling[c]}
          /\ ruling[c] \in Answers \ Responses
      BY <1>3 DEF HearError, Hear, TypeOK, Answered
    <2>2. heard[c] \cap Refusals = {}
      BY <2>1 DEF RefusedInv
    <2>3. CASE ruling[c] \in Refusals
      <3> DEFINE e == error_of(ruling[c])
      <3>1. e \in Errors /\ ends_the_loop(e) /\ ~is_fail_open_eligible(e)
        BY <2>1, <2>3, CallAssumption, ErrorOfAnswer
      <3>2. FailAttempt(c, e) /\ ~Retries(c, e) /\ FailedCall(e) = "error"
        BY <1>3, <3>1 DEF HearError, Retries, FailedCall
      <3>3. pc'[c] = "done" /\ outcome'[c] \in caller_sees(c, "error")
        BY <3>1, <3>2, FailStep
      <3> QED
        BY <3>3 DEF RefusedInv, caller_sees, plan_sees
    <2>4. CASE ruling[c] \notin Refusals
      BY <2>1, <2>2, <2>4 DEF RefusedInv
    <2> QED
      BY <2>3, <2>4
  <1>4. CASE HandleStray(c)
    BY <1>4 DEF HandleStray, RefusedInv
  <1> QED
    BY <1>1, <1>2, <1>3, <1>4
       DEF CallStep, Proceed, ServeFromCache, Ask, RejectToken, Unreachable, Send, Head,
           TimeOut, Reset, BreakOff, LeaveBehind, Wake, Fill, Handle, Drop, wire

LEMMA RefusedNext == Typed /\ RefusalStands /\ [Next]_vars => RefusalStands'
PROOF
  <1> SUFFICES ASSUME Typed, RefusalStands, [Next]_vars PROVE RefusalStands'
    OBVIOUS
  <1>0. \A c \in Calls : RefusedInv(c)
    BY DEF RefusalStands, RefusedInv
  <1>1. CASE \E c \in Calls : CallStep(c)
    <2>1. PICK c \in Calls : CallStep(c)
      BY <1>1
    <2>2. RefusedInv(c)'
      BY <1>0, <2>1, RefusedStep
    <2>3. \A d \in Calls \ {c} : RefusedInv(d)'
      BY <1>0, <2>1, TypeStep DEF RefusedInv, Quiet
    <2> QED
      BY <2>2, <2>3 DEF RefusalStands, RefusedInv
  <1>2. CASE \E k \in DOMAIN cache : Evict(k)
    BY <1>2, EvictStep DEF RefusalStands, Quiet
  <1>3. CASE UNCHANGED vars
    BY <1>3 DEF vars, wire, RefusalStands
  <1> QED
    BY <1>1, <1>2, <1>3 DEF Next

(* A refusal the SDK has received ends the call as an error, whatever came *)
(* before and in whichever mode; it is never retried into a fail-open.     *)
THEOREM RefusalsAreFinal == Spec => []RefusalStands
PROOF
  <1>1. Init => RefusalStands
    BY DEF Init, RefusalStands
  <1> QED
    BY <1>1, RefusedNext, TypedAlways, PTL DEF Spec

-----------------------------------------------------------------------------
(* The shared cache *)

(* A success the platform gave to d, whose key is k and which is over.     *)
Storable(d, k) ==
    /\ build_cache_key(d) = k
    /\ ~is_mutation(d)
    /\ "allow" \in heard[d]
    /\ pc[d] = "done"
    /\ outcome[d] \in {"verdict", "dropped"}

Filling(c) == pc[c] = "filling" => ~is_mutation(c) /\ "allow" \in heard[c]

Served(c) ==
    outcome[c] = "verdict" /\ author[c] # c =>
       /\ build_cache_key(author[c]) = build_cache_key(c)
       /\ ~is_mutation(c) /\ ~is_mutation(author[c])

StoreInv ==
    /\ \A k \in DOMAIN cache : Storable(cache[k], k)
    /\ \A c \in Calls : Filling(c) /\ Served(c)

(* What is over stays over.                                                *)
LEMMA DoneStays ==
    ASSUME Typed, NEW c \in Calls, CallStep(c), pc[c] = "done"
    PROVE  pc'[c] = "done" /\ outcome'[c] = outcome[c] /\ heard'[c] = heard[c]
PROOF
  BY DEF CallStep, Proceed, ServeFromCache, Ask, RejectToken, Unreachable, Send, Head, Hear,
         HearResponse, HearError, TimeOut, Reset, BreakOff, Wake, Fill, Handle, HandleStray, Drop

(* The same of the next state.                                             *)
StorableNext(d, k) ==
    /\ build_cache_key(d) = k
    /\ ~is_mutation(d)
    /\ "allow" \in heard'[d]
    /\ pc'[d] = "done"
    /\ outcome'[d] \in {"verdict", "dropped"}

LEMMA StorableStays ==
    ASSUME Typed, NEW c \in Calls, CallStep(c), NEW d \in Calls, NEW k, Storable(d, k)
    PROVE  StorableNext(d, k)
PROOF
  <1>1. pc'[d] = "done" /\ outcome'[d] = outcome[d] /\ heard'[d] = heard[d]
    BY DoneStays, TypeStep DEF Storable, Quiet
  <1> QED
    BY <1>1 DEF Storable, StorableNext

(* The outcome of a query whose response came is that response.            *)
LEMMA QuerySees ==
    ASSUME NEW c \in Calls, ~is_mutation(c) PROVE caller_sees(c, "verdict") = {"verdict"}
PROOF BY CallAssumption DEF caller_sees, is_mutation, CallKinds

LEMMA InsertStores ==
    ASSUME StoreInv, Typed, NEW c \in Calls, CallStep(c), Insert(c),
           StorableNext(c, build_cache_key(c))
    PROVE  \A k \in DOMAIN cache' : StorableNext(cache'[k], k)
PROOF
  <1> SUFFICES ASSUME NEW k \in DOMAIN cache' PROVE StorableNext(cache'[k], k)
    OBVIOUS
  <1>1. CASE k = build_cache_key(c)
    <2>1. cache'[k] = c
      BY <1>1 DEF Insert
    <2> QED
      BY <1>1, <2>1
  <1>2. CASE k # build_cache_key(c)
    <2>1. k \in DOMAIN cache /\ cache'[k] = cache[k]
      BY <1>2 DEF Insert
    <2>2. cache[k] \in Calls /\ Storable(cache[k], k)
      BY <2>1 DEF StoreInv, Typed, TypeOK
    <2>3. StorableNext(cache[k], k)
      BY <2>2, StorableStays
    <2> QED
      BY <2>1, <2>3
  <1> QED
    BY <1>1, <1>2

LEMMA KeepStores ==
    ASSUME StoreInv, Typed, NEW c \in Calls, CallStep(c), cache' = cache
    PROVE  \A k \in DOMAIN cache' : StorableNext(cache'[k], k)
PROOF
  <1> SUFFICES ASSUME NEW k \in DOMAIN cache PROVE StorableNext(cache[k], k)
    OBVIOUS
  <1>1. cache[k] \in Calls /\ Storable(cache[k], k)
    BY DEF StoreInv, Typed, TypeOK
  <1> QED
    BY <1>1, StorableStays

LEMMA StoreStep ==
    ASSUME StoreInv, Typed, NEW c \in Calls, CallStep(c)
    PROVE  \A k \in DOMAIN cache' : StorableNext(cache'[k], k)
PROOF
  <1>1. CASE cache' = cache
    BY <1>1, KeepStores
  <1>2. CASE Fill(c)
    <2>1. ~is_mutation(c) /\ "allow" \in heard[c]
      BY <1>2 DEF Fill, StoreInv, Filling
    <2>2. pc'[c] = "done" /\ outcome'[c] = "verdict"
      <3>1. "verdict" \in Outcomes \ {"none"} /\ Return(c, "verdict", c)
        BY <1>2 DEF Fill, Outcomes
      <3> QED
        BY <2>1, <3>1, ReturnStep, QuerySees DEF Typed
    <2>3. StorableNext(c, build_cache_key(c)) /\ Insert(c)
      BY <1>2, <2>1, <2>2 DEF Fill, wire, StorableNext
    <2> QED
      BY <2>3, InsertStores
  <1>3. CASE Drop(c) /\ pc[c] = "filling" /\ Insert(c)
    <2>1. ~is_mutation(c) /\ "allow" \in heard[c]
      BY <1>3 DEF StoreInv, Filling
    <2>2. pc'[c] = "done" /\ outcome'[c] = "dropped" /\ heard' = heard
      BY <1>3 DEF Drop, LeaveBehind, Typed, TypeOK
    <2>3. StorableNext(c, build_cache_key(c))
      BY <2>1, <2>2 DEF StorableNext
    <2> QED
      BY <1>3, <2>3, InsertStores
  <1> QED
    BY <1>1, <1>2, <1>3
       DEF CallStep, Proceed, ServeFromCache, Ask, RejectToken, Unreachable, Send, Head,
           HearResponse, HearError, TimeOut, Reset, BreakOff, Wake, Handle, HandleStray, Drop

(* Who got which response: a fill or a cached verdict, or nothing new.     *)
LEMMA ServedStep ==
    ASSUME StoreInv, Typed, NEW c \in Calls, CallStep(c)
    PROVE  (Filling(c) /\ Served(c))'
PROOF
  <1> USE DEF Typed
  <1>1. CASE ServeFromCache(c)
    <2> DEFINE k == build_cache_key(c)
    <2>1. k \in DOMAIN cache /\ ~is_mutation(c) /\ cache[k] \in Calls
          /\ Return(c, "verdict", cache[k])
      BY <1>1 DEF ServeFromCache, UsesCache, TypeOK
    <2>2. build_cache_key(cache[k]) = k /\ ~is_mutation(cache[k])
      BY <2>1 DEF StoreInv, Storable
    <2>3. pc'[c] = "done" /\ author'[c] = cache[k]
      <3>1. "verdict" \in Outcomes \ {"none"}
        BY DEF Outcomes
      <3> QED
        BY <2>1, <3>1, ReturnStep
    <2> QED
      BY <2>1, <2>2, <2>3 DEF Filling, Served
  <1>2. CASE HearResponse(c)
    <2>1. CASE Fillable(c) /\ pc' = [pc EXCEPT ![c] = "filling"] /\ UNCHANGED <<outcome, author>>
      <3>1. heard'[c] = heard[c] \cup {"allow"} /\ ~is_mutation(c)
        BY <1>2, <2>1 DEF HearResponse, Hear, Fillable, UsesCache, TypeOK
      <3> QED
        BY <2>1, <3>1 DEF StoreInv, Filling, Served
    <2>2. CASE Return(c, "verdict", c)
      <3>1. "verdict" \in Outcomes \ {"none"}
        BY DEF Outcomes
      <3>2. pc'[c] = "done" /\ author'[c] = c
        BY <2>2, <3>1, ReturnStep
      <3> QED
        BY <3>2 DEF Filling, Served
    <2> QED
      BY <1>2, <2>1, <2>2 DEF HearResponse
  <1>3. CASE Fill(c)
    <2>1. "verdict" \in Outcomes \ {"none"} /\ Return(c, "verdict", c)
      BY <1>3 DEF Fill, Outcomes
    <2>2. pc'[c] = "done" /\ author'[c] = c
      BY <2>1, ReturnStep
    <2> QED
      BY <2>2 DEF Filling, Served
  <1>4. CASE \E e \in Errors : FailAttempt(c, e)
    <2>1. \/ pc'[c] = "sleeping" /\ outcome'[c] = outcome[c] /\ author'[c] = author[c]
          \/ pc'[c] = "done" /\ author'[c] = c
      BY <1>4, FailStep
    <2> QED
      BY <2>1 DEF StoreInv, Filling, Served
  <1>5. CASE Drop(c)
    <2>1. pc'[c] = "done" /\ outcome'[c] = "dropped"
      BY <1>5 DEF Drop, TypeOK
    <2> QED
      BY <2>1 DEF Filling, Served
  <1>6. CASE Ask(c) \/ Send(c) \/ Head(c) \/ Wake(c) \/ Handle(c) \/ HandleStray(c)
    <2>1. pc'[c] # "filling" \/ (pc'[c] = pc[c] /\ heard' = heard)
      BY <1>6 DEF Ask, Send, Head, Wake, Handle, HandleStray, wire, TypeOK
    <2>2. outcome' = outcome /\ author' = author
      BY <1>6 DEF Ask, Send, Head, Wake, Handle, HandleStray
    <2> QED
      BY <2>1, <2>2 DEF StoreInv, Filling, Served
  <1>7. RejectToken(c) \/ Unreachable(c) \/ TimeOut(c) \/ Reset(c)
           => \E e \in Errors : FailAttempt(c, e)
    BY DEF RejectToken, Unreachable, TimeOut, Reset, BreakOff, Errors
  <1>8. HearError(c) => \E e \in Errors : FailAttempt(c, e)
    BY CallAssumption, ErrorOfAnswer DEF HearError, Hear, TypeOK, Answered
  <1> QED
    BY <1>1, <1>2, <1>3, <1>4, <1>5, <1>6, <1>7, <1>8 DEF CallStep, Proceed

LEMMA StoreNext == Typed /\ StoreInv /\ [Next]_vars => StoreInv'
PROOF
  <1> SUFFICES ASSUME Typed, StoreInv, [Next]_vars PROVE StoreInv'
    OBVIOUS
  <1>1. CASE \E c \in Calls : CallStep(c)
    <2>1. PICK c \in Calls : CallStep(c)
      BY <1>1
    <2>2. \A k \in DOMAIN cache' : StorableNext(cache'[k], k)
      BY <2>1, StoreStep
    <2>3. (Filling(c) /\ Served(c))'
      BY <2>1, ServedStep
    <2>4. \A d \in Calls \ {c} : (Filling(d) /\ Served(d))'
      BY <2>1, TypeStep DEF StoreInv, Filling, Served, Quiet
    <2> QED
      BY <2>2, <2>3, <2>4 DEF StoreInv, Storable, StorableNext
  <1>2. CASE \E k \in DOMAIN cache : Evict(k)
    <2>1. PICK k \in DOMAIN cache : Evict(k)
      BY <1>2
    <2>2. \A d \in Calls : Quiet(d)
      BY <2>1, EvictStep
    <2>3. \A j \in DOMAIN cache' : j \in DOMAIN cache /\ cache'[j] = cache[j] /\ cache[j] \in Calls
      BY <2>1 DEF Evict, Typed, TypeOK
    <2>4. \A j \in DOMAIN cache' : StorableNext(cache'[j], j)
      BY <2>2, <2>3 DEF StoreInv, Storable, StorableNext, Quiet
    <2>5. \A d \in Calls : (Filling(d) /\ Served(d))'
      BY <2>2 DEF StoreInv, Filling, Served, Quiet
    <2> QED
      BY <2>4, <2>5 DEF StoreInv, Storable, StorableNext
  <1>3. CASE UNCHANGED vars
    BY <1>3 DEF vars, wire, StoreInv, Storable, Filling, Served
  <1> QED
    BY <1>1, <1>2, <1>3 DEF Next

LEMMA StoreAlways == Spec => []StoreInv
PROOF
  <1>1. Init => StoreInv
    BY DEF Init, StoreInv, Filling, Served
  <1> QED
    BY <1>1, StoreNext, TypedAlways, PTL DEF Spec

(* The cache holds only what the platform granted, for ever and through    *)
(* dropped and racing insertions.                                          *)
THEOREM CacheIsFaithful == Spec => []CacheHoldsSuccess
PROOF
  <1>1. StoreInv => CacheHoldsSuccess
    BY DEF StoreInv, Storable, CacheHoldsSuccess
  <1> QED
    BY <1>1, StoreAlways, PTL

(* Clients derived with as_user share the cache and never each other's     *)
(* verdicts.                                                               *)
THEOREM VerdictsAreOwn == Spec => []OwnVerdict
PROOF
  <1>1. Typed /\ StoreInv => OwnVerdict
    <2> SUFFICES ASSUME Typed, StoreInv, NEW c \in Calls,
                        outcome[c] = "verdict", c # author[c]
                 PROVE  /\ SameAsk(c, author[c])
                        /\ ~is_mutation(c) /\ ~is_mutation(author[c])
      BY DEF OwnVerdict
    <2>1. build_cache_key(author[c]) = build_cache_key(c)
          /\ ~is_mutation(c) /\ ~is_mutation(author[c])
      BY DEF StoreInv, Served
    <2> QED
      BY <2>1 DEF build_cache_key, SameAsk
  <1> QED
    BY <1>1, TypedAlways, StoreAlways, PTL

-----------------------------------------------------------------------------
(* The promise *)

(* A call that is not over is unsettled and has heard no decision, save a  *)
(* response it is about to store; an answer comes from a request taken up. *)
OpenInv(c) ==
    /\ pc[c] # "done" => outcome[c] = "none" /\ author[c] = c
    /\ pc[c] \notin {"filling", "done"} => heard[c] \cap (Responses \cup Refusals) = {}
    /\ pc[c] \in {"waiting", "reading"} /\ ruling[c] # "none" => handled[c] > 0

AllOpen == \A c \in Calls : OpenInv(c)

LEMMA OpenStep ==
    ASSUME Typed, NEW c \in Calls, OpenInv(c), CallStep(c)
    PROVE  OpenInv(c)'
PROOF
  <1> USE DEF Typed
  <1>1. CASE ServeFromCache(c) \/ Drop(c)
    <2>1. pc'[c] = "done"
      BY <1>1 DEF ServeFromCache, Return, Drop, TypeOK
    <2> QED
      BY <2>1 DEF OpenInv
  <1>2. CASE Ask(c) \/ Head(c) \/ Wake(c)
    BY <1>2 DEF Ask, Head, Wake, wire, TypeOK, OpenInv
  <1>3. CASE Send(c)
    BY <1>3 DEF Send, TypeOK, OpenInv
  <1>4. CASE RejectToken(c) \/ Unreachable(c) \/ TimeOut(c) \/ Reset(c)
    <2>1. PICK e \in Errors : FailAttempt(c, e)
      BY <1>4 DEF RejectToken, Unreachable, TimeOut, Reset, BreakOff, Errors
    <2>2. heard' = heard /\ pc[c] \in {"gated", "waiting", "reading"}
      BY <1>4 DEF RejectToken, Unreachable, TimeOut, Reset, BreakOff, LeaveBehind, wire
    <2>3. \/ pc'[c] = "done"
          \/ pc'[c] = "sleeping" /\ outcome'[c] = outcome[c] /\ author'[c] = author[c]
      BY <2>1, FailStep
    <2> QED
      BY <2>2, <2>3 DEF OpenInv
  <1>5. CASE HearResponse(c)
    <2>1. pc[c] = "reading" /\ pc'[c] \in {"filling", "done"}
      BY <1>5 DEF HearResponse, Hear, Return, TypeOK
    <2>2. pc'[c] = "filling" => outcome' = outcome /\ author' = author
      BY <1>5 DEF HearResponse, Return, TypeOK
    <2> QED
      BY <2>1, <2>2 DEF OpenInv
  <1>6. CASE HearError(c)
    <2>1. /\ pc[c] = "reading" /\ heard'[c] = heard[c] \cup {ruling[c]}
          /\ ruling[c] \in Answers \ Responses
          /\ FailAttempt(c, error_of(ruling[c]))
      BY <1>6 DEF HearError, Hear, TypeOK, Answered
    <2>2. error_of(ruling[c]) \in Errors
          /\ (ruling[c] \in Refusals => ends_the_loop(error_of(ruling[c])))
      BY <2>1, CallAssumption, ErrorOfAnswer
    <2>3. \/ pc'[c] = "done"
          \/ /\ Retries(c, error_of(ruling[c])) /\ pc'[c] = "sleeping"
             /\ outcome'[c] = outcome[c] /\ author'[c] = author[c]
      BY <2>1, <2>2, FailStep
    <2>4. CASE ruling[c] \in Refusals
      BY <2>2, <2>3, <2>4 DEF Retries, OpenInv
    <2>5. CASE ruling[c] \notin Refusals
      BY <2>1, <2>3, <2>5 DEF OpenInv
    <2> QED
      BY <2>4, <2>5
  <1>7. CASE Fill(c)
    <2>1. pc'[c] = "done"
      BY <1>7 DEF Fill, Return, TypeOK
    <2> QED
      BY <2>1 DEF OpenInv
  <1>8. CASE Handle(c) \/ HandleStray(c)
    <2>1. handled'[c] = handled[c] + 1 /\ UNCHANGED <<pc, outcome, author, heard>>
      BY <1>8 DEF Handle, HandleStray, TypeOK
    <2>2. handled[c] \in Nat
      BY DEF TypeOK
    <2> QED
      BY <2>1, <2>2 DEF OpenInv
  <1> QED
    BY <1>1, <1>2, <1>3, <1>4, <1>5, <1>6, <1>7, <1>8 DEF CallStep, Proceed

LEMMA OpenAlways == Spec => []AllOpen
PROOF
  <1>1. Init => AllOpen
    <2> SUFFICES ASSUME Init, NEW c \in Calls PROVE OpenInv(c)
      BY DEF AllOpen
    <2>1. pc[c] = "idle" /\ outcome[c] = "none" /\ author[c] = c /\ heard[c] = {}
      BY DEF Init
    <2> QED
      BY <2>1 DEF OpenInv
  <1>2. Typed /\ AllOpen /\ [Next]_vars => AllOpen'
    <2> SUFFICES ASSUME Typed, AllOpen, [Next]_vars PROVE AllOpen'
      OBVIOUS
    <2>1. CASE \E c \in Calls : CallStep(c)
      <3>1. PICK c \in Calls : CallStep(c)
        BY <2>1
      <3>2. OpenInv(c)'
        BY <3>1, OpenStep DEF AllOpen
      <3>3. \A d \in Calls \ {c} : OpenInv(d)'
        BY <3>1, TypeStep DEF AllOpen, OpenInv, Quiet
      <3> QED
        BY <3>2, <3>3 DEF AllOpen
    <2>2. CASE \E k \in DOMAIN cache : Evict(k)
      BY <2>2, EvictStep DEF AllOpen, OpenInv, Quiet
    <2>3. CASE UNCHANGED vars
      BY <2>3 DEF vars, wire, AllOpen, OpenInv
    <2> QED
      BY <2>1, <2>2, <2>3 DEF Next
  <1> QED
    BY <1>1, <1>2, TypedAlways, PTL DEF Spec

Kept == Typed /\ Counted /\ StoreInv /\ AllOpen

(* A call that fails settles as the promise allows, or is tried again.     *)
LEMMA FailKeeps ==
    ASSUME Kept, NEW c \in Calls, NEW e \in Errors, FailAttempt(c, e),
           pc[c] \notin {"filling", "done"}
    PROVE  Promise!Unanswered(c) \/ UNCHANGED <<outcome, author>>
PROOF
  <1>1. CASE ~Retries(c, e) /\ Return(c, FailedCall(e), c)
    <2>1. PICK seen \in caller_sees(c, FailedCall(e)) : outcome' = [outcome EXCEPT ![c] = seen]
      BY <1>1 DEF Return
    <2>2. author' = [author EXCEPT ![c] = c] /\ outcome[c] = "none"
      BY <1>1 DEF Return, Kept, AllOpen, OpenInv
    <2>3. Promise!Settle(c, seen, c)
      BY <2>1, <2>2 DEF Promise!Settle, Promise!Open
    <2>4. FailedCall(e) \in {"fail_open", "error"}
      BY FailedTyped
    <2>5. seen \in {"error", "empty"} \/ (seen = "fail_open" /\ FailedCall(e) = "fail_open")
      BY <2>1, <2>4 DEF caller_sees, plan_sees
    <2>6. FailedCall(e) = "fail_open" => Mode = "Production"
      BY DEF FailedCall
    <2>7. ~Promise!Decided(c)
      BY DEF Promise!Decided, Kept, AllOpen, OpenInv
    <2> QED
      BY <2>3, <2>5, <2>6, <2>7 DEF Promise!Unanswered
  <1> QED
    BY <1>1 DEF FailAttempt

(* Every step is a step of the promise or changes nothing it speaks of.    *)
LEMMA PromiseStep ==
    ASSUME Kept, NEW c \in Calls, CallStep(c)
    PROVE  Promise!PromiseNext \/ UNCHANGED <<handled, heard, outcome, author>>
PROOF
  <1>1. CASE ServeFromCache(c)
    <2> DEFINE d == cache[build_cache_key(c)]
    <2>1. build_cache_key(c) \in DOMAIN cache /\ ~is_mutation(c) /\ d \in Calls /\ pc[c] = "idle"
          /\ Return(c, "verdict", d) /\ UNCHANGED <<handled, heard>>
      BY <1>1 DEF ServeFromCache, UsesCache, wire, Kept, Typed, TypeOK
    <2>2. build_cache_key(d) = build_cache_key(c) /\ "allow" \in heard[d]
      BY <2>1 DEF Kept, StoreInv, Storable
    <2>3. SameAsk(c, d) /\ heard[d] \cap Responses # {}
      BY <2>2 DEF SameAsk, build_cache_key, Responses
    <2>4. Promise!Settle(c, "verdict", d)
      <3>1. outcome' = [outcome EXCEPT ![c] = "verdict"] /\ author' = [author EXCEPT ![c] = d]
        BY <2>1, QuerySees DEF Return
      <3>2. Promise!Open(c)
        BY <2>1 DEF Promise!Open, Kept, AllOpen, OpenInv
      <3> QED
        BY <3>1, <3>2 DEF Promise!Settle
    <2>5. Promise!Answer(c)
      BY <2>1, <2>3, <2>4 DEF Promise!Answer
    <2> QED
      BY <2>5 DEF Promise!PromiseNext
  <1>2. CASE Ask(c) \/ Send(c) \/ Head(c) \/ Wake(c)
    BY <1>2 DEF Ask, Send, Head, Wake, wire
  <1>3. CASE RejectToken(c) \/ Unreachable(c) \/ TimeOut(c) \/ Reset(c)
    <2>1. PICK e \in Errors : FailAttempt(c, e)
      BY <1>3 DEF RejectToken, Unreachable, TimeOut, Reset, BreakOff, Errors
    <2>2. pc[c] \notin {"filling", "done"} /\ UNCHANGED <<handled, heard>>
      BY <1>3 DEF RejectToken, Unreachable, TimeOut, Reset, BreakOff, LeaveBehind, wire
    <2>3. Promise!GiveUp(c) \/ UNCHANGED <<handled, heard, outcome, author>>
      BY <2>1, <2>2, FailKeeps DEF Promise!GiveUp
    <2> QED
      BY <2>3 DEF Promise!PromiseNext
  <1>4. CASE HearResponse(c)
    <2>1. /\ ruling[c] \in Responses /\ pc[c] = "reading"
          /\ heard' = [heard EXCEPT ![c] = @ \cup {ruling[c]}] /\ UNCHANGED handled
      BY <1>4 DEF HearResponse, Hear
    <2>2. outcome[c] = "none" /\ handled[c] > 0
      BY <2>1 DEF Kept, AllOpen, OpenInv, Responses
    <2>3. Promise!Hear(c, ruling[c])
      BY <2>1, <2>2 DEF Promise!Hear, Promise!Open
    <2>4. CASE Return(c, "verdict", c)
      <3>1. PICK seen \in caller_sees(c, "verdict") : outcome' = [outcome EXCEPT ![c] = seen]
        BY <2>4 DEF Return
      <3>2. seen \in {"verdict", "empty", "error"} /\ author' = [author EXCEPT ![c] = c]
        BY <2>4, <3>1 DEF Return, caller_sees, plan_sees
      <3>3. Promise!Settle(c, seen, c)
        BY <2>2, <3>1, <3>2 DEF Promise!Settle, Promise!Open
      <3> QED
        BY <2>1, <2>3, <3>2, <3>3 DEF Promise!HearResponse, Promise!PromiseNext
    <2>5. CASE UNCHANGED <<outcome, author>>
      BY <2>1, <2>3, <2>5 DEF Promise!HearResponse, Promise!PromiseNext
    <2> QED
      BY <1>4, <2>4, <2>5 DEF HearResponse
  <1>5. CASE HearError(c)
    <2> DEFINE a == ruling[c]
               e == error_of(a)
    <2>1. /\ a \in Answers \ Responses /\ pc[c] = "reading" /\ FailAttempt(c, e)
          /\ heard' = [heard EXCEPT ![c] = @ \cup {a}] /\ UNCHANGED handled
      BY <1>5 DEF HearError, Hear, Kept, Typed, TypeOK, Answered
    <2>2. outcome[c] = "none" /\ handled[c] > 0
      BY <1>5, <2>1, CallAssumption DEF Kept, AllOpen, OpenInv, Typed, Answered
    <2>3. Promise!Hear(c, a)
      BY <2>1, <2>2 DEF Promise!Hear, Promise!Open
    <2>4. e \in Errors /\ (a \in Refusals => ends_the_loop(e) /\ ~is_fail_open_eligible(e))
      BY <2>1, CallAssumption, ErrorOfAnswer
    <2>5. CASE a \in Refusals
      <3>1. ~Retries(c, e) /\ FailedCall(e) = "error"
        BY <2>4, <2>5 DEF Retries, FailedCall
      <3>2. Return(c, "error", c) /\ caller_sees(c, "error") = {"error"}
        BY <2>1, <3>1 DEF FailAttempt, caller_sees, plan_sees
      <3>3. Promise!Settle(c, "error", c)
        BY <2>2, <3>2 DEF Return, Promise!Settle, Promise!Open
      <3> QED
        BY <2>3, <2>5, <3>3 DEF Promise!HearRefusal, Promise!PromiseNext
    <2>6. CASE a \notin Refusals
      <3>1. a \in Transients
        BY <2>1, <2>6, CallAssumption
      <3>2. Promise!Unanswered(c) \/ UNCHANGED <<outcome, author>>
        BY <2>1, <2>4, FailKeeps
      <3> QED
        BY <2>3, <3>1, <3>2 DEF Promise!HearTransient, Promise!PromiseNext
    <2> QED
      BY <2>5, <2>6
  <1>6. CASE Fill(c)
    <2>1. pc[c] = "filling" /\ Return(c, "verdict", c) /\ UNCHANGED <<handled, heard>>
      BY <1>6 DEF Fill, wire
    <2>2. ~is_mutation(c) /\ heard[c] \cap Responses # {} /\ outcome[c] = "none"
      BY <2>1 DEF Kept, StoreInv, Filling, AllOpen, OpenInv, Responses
    <2>3. Promise!Settle(c, "verdict", c)
      BY <2>1, <2>2, QuerySees DEF Return, Promise!Settle, Promise!Open
    <2>4. SameAsk(c, c)
      BY DEF SameAsk
    <2> QED
      BY <2>1, <2>2, <2>3, <2>4 DEF Promise!Answer, Promise!PromiseNext
  <1>7. CASE Handle(c) \/ HandleStray(c)
    <2>1. handled' = [handled EXCEPT ![c] = @ + 1] /\ UNCHANGED <<heard, outcome, author>>
      BY <1>7 DEF Handle, HandleStray
    <2>2. is_mutation(c) => attempt[c] = 0
      BY DEF Kept, Counted, CountInv
    <2>3. stray[c] + Outstanding(c) > 0
      BY <1>7 DEF Handle, HandleStray, Outstanding, Kept, Typed, TypeOK
    <2>4. is_mutation(c) => handled[c] = 0
      BY <2>2, <2>3 DEF Kept, Counted, CountInv, Outstanding, Typed, TypeOK
    <2> QED
      BY <2>1, <2>4 DEF Promise!Handle, Promise!PromiseNext
  <1>8. CASE Drop(c)
    <2>1. pc[c] # "done" /\ outcome' = [outcome EXCEPT ![c] = "dropped"]
          /\ UNCHANGED <<author, handled, heard>>
      BY <1>8 DEF Drop, LeaveBehind
    <2>2. outcome[c] = "none" /\ author' = [author EXCEPT ![c] = c]
      BY <2>1 DEF Kept, AllOpen, OpenInv, Typed, TypeOK
    <2>3. Promise!Settle(c, "dropped", c)
      BY <2>1, <2>2 DEF Promise!Settle, Promise!Open
    <2> QED
      BY <2>1, <2>3 DEF Promise!Unanswered, Promise!GiveUp, Promise!PromiseNext
  <1> QED
    BY <1>1, <1>2, <1>3, <1>4, <1>5, <1>6, <1>7, <1>8 DEF CallStep, Proceed

(* The cache, the retry loop, the awaits and the fail-open decision keep   *)
(* the promise made to callers.                                            *)
THEOREM CallsKeepPromise == Spec => KeepsPromise
PROOF
  <1>1. Init => Promise!PromiseInit
    BY DEF Init, Promise!PromiseInit
  <1>2. Kept /\ [Next]_vars => [Promise!PromiseNext]_<<handled, heard, outcome, author>>
    <2> SUFFICES ASSUME Kept, [Next]_vars
                 PROVE Promise!PromiseNext \/ UNCHANGED <<handled, heard, outcome, author>>
      OBVIOUS
    <2>1. CASE \E c \in Calls : CallStep(c)
      BY <2>1, PromiseStep
    <2>2. CASE \E k \in DOMAIN cache : Evict(k)
      BY <2>2 DEF Evict, wire
    <2>3. CASE UNCHANGED vars
      BY <2>3 DEF vars, wire
    <2> QED
      BY <2>1, <2>2, <2>3 DEF Next
  <1>3. Kept <=> Typed /\ Counted /\ StoreInv /\ AllOpen
    BY DEF Kept
  <1> QED
    BY <1>1, <1>2, <1>3, TypedAlways, CountedAlways, StoreAlways, OpenAlways, PTL
       DEF Spec, KeepsPromise, Promise!PromiseSpec, Promise!promised
=============================================================================
