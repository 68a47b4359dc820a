------------------------- MODULE InterceptorProofs -------------------------
(***************************************************************************)
(* Proofs about Interceptor for every set of calls, wrapped and not, every *)
(* behaviour of the platform, the provider and the process.                *)
(***************************************************************************)
EXTENDS Interceptor, GovernedCallProofs

(* Where a verdict comes from: a call that is over and whose ruling it is. *)
Ruled(c) ==
    /\ pc[c] = "filling" => ruling[c] = "allow"
    /\ pc[c] = "done" => outcome[c] # "none"
    /\ ~is_mutation(c) => outcome[c] # "empty"
    /\ outcome[c] = "verdict" => pc[author[c]] = "done" /\ ruling[author[c]] \in Responses

RulingInv ==
    /\ \A k \in DOMAIN cache : pc[cache[k]] = "done" /\ ruling[cache[k]] = "allow"
    /\ \A c \in Calls : Ruled(c)

(* The wrapper acts on a call that is over and on what it returned.        *)
Acted(c) ==
    /\ model[c] # "none" =>
          pc[c] = "done" /\ outcome[c] \in {"verdict", "fail_open"} /\ ~Blocked(c)
    /\ audit[c] # "none" => pc[c] = "done" /\ outcome[c] = "verdict"
    /\ model[c] = "answered" =>
          outcome[c] = "fail_open" \/ author[c] \in Unnumbered \/ audit[c] # "none"
    /\ audit[c] = "lost" => ~alive

InterceptorTyped ==
    model \in [Wrapped -> ModelPhases] /\ audit \in [Wrapped -> AuditPhases] /\ alive \in BOOLEAN

WrapperInv == \A c \in Wrapped : Acted(c)

-----------------------------------------------------------------------------
(* A wrapped client makes governed calls and nothing else                  *)

(* What holds of governed calls holds of those a wrapped client makes.     *)
THEOREM WrappedIsGoverned == InterceptorSpec => Spec
<1>1. InterceptorInit => Init
  BY DEF InterceptorInit
<1>2. [InterceptorNext]_<<vars, ivars>> => [Next]_vars
  BY DEF InterceptorNext
<1> QED
  BY <1>1, <1>2, PTL DEF InterceptorSpec, Spec

-----------------------------------------------------------------------------
(* Rulings *)

(* The ruling of a call stays once its response has been heard.            *)
LEMMA RulingStays ==
    ASSUME Typed, NEW c \in Calls, CallStep(c), NEW d \in Calls, pc[d] = "done"
    PROVE  /\ pc'[d] = "done" /\ ruling'[d] = ruling[d]
           /\ outcome'[d] = outcome[d] /\ author'[d] = author[d]
<1>1. CASE d = c
  BY <1>1 DEF CallStep, Proceed, ServeFromCache, Ask, RejectToken, Unreachable, Send, Head, Hear,
              HearResponse, HearError, TimeOut, Reset, BreakOff, Wake, Fill, Handle, HandleStray,
              Drop
<1>2. CASE d # c
  BY <1>2, TypeStep DEF Quiet
<1> QED
  BY <1>1, <1>2

(* A query sees the outcome its call came to.                              *)
LEMMA QueryIsNotEmpty ==
    ASSUME NEW c \in Calls, NEW o \in {"verdict", "fail_open", "error"},
           NEW seen \in caller_sees(c, o)
    PROVE  /\ seen # "none"
           /\ ~is_mutation(c) => seen # "empty"
           /\ seen = "verdict" => o = "verdict"
BY CallAssumption DEF caller_sees, plan_sees, is_mutation

(* A call that returns o, with the ruling of d, is ruled.                  *)
LEMMA ReturnRules ==
    ASSUME Typed, NEW c \in Calls, NEW d \in Calls, NEW o \in {"verdict", "fail_open", "error"},
           Return(c, o, d),
           o = "verdict" => pc'[d] = "done" /\ ruling'[d] \in Responses
    PROVE  Ruled(c)'
<1>1. o \in Outcomes \ {"none"}
  BY DEF Outcomes
<1>2. pc'[c] = "done" /\ outcome'[c] \in caller_sees(c, o) /\ author'[c] = d
  BY <1>1, ReturnStep DEF Typed
<1>3. /\ outcome'[c] # "none"
      /\ ~is_mutation(c) => outcome'[c] # "empty"
      /\ outcome'[c] = "verdict" => o = "verdict"
  BY <1>2, QueryIsNotEmpty
<1> QED
  BY <1>2, <1>3 DEF Ruled

(* A failing attempt leaves its call ruled.                                *)
LEMMA FailRules ==
    ASSUME Typed, NEW c \in Calls, Ruled(c), pc[c] # "done", OpenInv(c),
           NEW e \in Errors, FailAttempt(c, e)
    PROVE  Ruled(c)'
<1>1. CASE Return(c, FailedCall(e), c)
  <2>1. FailedCall(e) \in {"fail_open", "error"}
    BY FailedTyped
  <2> QED
    BY <1>1, <2>1, ReturnRules
<1>2. CASE pc' = [pc EXCEPT ![c] = "sleeping"] /\ UNCHANGED <<outcome, author>>
  <2>1. pc'[c] = "sleeping" /\ outcome'[c] = "none"
    BY <1>2 DEF Typed, TypeOK, OpenInv
  <2> QED
    BY <2>1 DEF Ruled
<1> QED
  BY <1>1, <1>2 DEF FailAttempt

(* The call that takes a step is ruled after it.                           *)
LEMMA RuledStep ==
    ASSUME Typed, RulingInv, NEW c \in Calls, OpenInv(c), CallStep(c)
    PROVE  Ruled(c)'
<1> USE DEF Typed
<1>1. CASE ServeFromCache(c)
  <2> DEFINE d == cache[build_cache_key(c)]
  <2>1. d \in Calls /\ pc[d] = "done" /\ ruling[d] = "allow" /\ Return(c, "verdict", d)
    BY <1>1 DEF ServeFromCache, RulingInv, TypeOK
  <2>2. pc'[d] = "done" /\ ruling'[d] = "allow"
    BY <2>1, RulingStays
  <2> QED
    BY <2>1, <2>2, ReturnRules DEF Responses
<1>2. CASE HearResponse(c)
  <2>1. ruling[c] \in Responses /\ ruling'[c] = ruling[c]
    BY <1>2 DEF HearResponse, Hear
  <2>2. CASE Fillable(c) /\ pc' = [pc EXCEPT ![c] = "filling"] /\ UNCHANGED <<outcome, author>>
    <3>1. pc'[c] = "filling" /\ ruling'[c] = "allow" /\ outcome'[c] = "none"
      BY <1>2, <2>1, <2>2 DEF HearResponse, Hear, Fillable, TypeOK, OpenInv
    <3> QED
      BY <3>1 DEF Ruled
  <2>3. CASE Return(c, "verdict", c)
    <3>1. pc'[c] = "done"
      BY <2>3, ReturnStep DEF Outcomes
    <3> QED
      BY <2>1, <2>3, <3>1, ReturnRules
  <2> QED
    BY <1>2, <2>2, <2>3 DEF HearResponse
<1>3. CASE Fill(c)
  <2>1. Return(c, "verdict", c) /\ ruling'[c] = "allow"
    BY <1>3 DEF Fill, RulingInv, Ruled, wire
  <2>2. pc'[c] = "done"
    BY <2>1, ReturnStep DEF Outcomes
  <2> QED
    BY <2>1, <2>2, ReturnRules DEF Responses
<1>4. CASE RejectToken(c) \/ Unreachable(c) \/ TimeOut(c) \/ Reset(c) \/ HearError(c)
  <2>1. pc[c] # "done"
    BY <1>4 DEF RejectToken, Unreachable, TimeOut, Reset, BreakOff, HearError, Hear
  <2>2. PICK e \in Errors : FailAttempt(c, e)
    <3>1. CASE HearError(c)
      BY <3>1, CallAssumption, ErrorOfAnswer DEF HearError, Hear, TypeOK, Answered
    <3> QED
      BY <1>4, <3>1 DEF RejectToken, Unreachable, TimeOut, Reset, BreakOff, Errors
  <2> QED
    BY <2>1, <2>2, FailRules DEF RulingInv
<1>5. CASE Drop(c)
  <2>1. pc'[c] = "done" /\ outcome'[c] = "dropped"
    BY <1>5 DEF Drop, TypeOK
  <2> QED
    BY <2>1 DEF Ruled
<1>6. CASE Ask(c) \/ Send(c) \/ Head(c) \/ Wake(c) \/ Handle(c)
  <2>1. pc'[c] \notin {"filling", "done"} /\ outcome'[c] = "none"
    BY <1>6 DEF Ask, Send, Head, Wake, Handle, TypeOK, OpenInv
  <2> QED
    BY <2>1 DEF Ruled
<1>7. CASE HandleStray(c)
  BY <1>7 DEF HandleStray, RulingInv, Ruled
<1> QED
  BY <1>1, <1>2, <1>3, <1>4, <1>5, <1>6, <1>7 DEF CallStep, Proceed

(* A step inserts its own call, if any: it is over, and was allowed.       *)
LEMMA CachedStep ==
    ASSUME Typed, RulingInv, NEW c \in Calls, CallStep(c), NEW k \in DOMAIN cache'
    PROVE  pc'[cache'[k]] = "done" /\ ruling'[cache'[k]] = "allow"
<1>1. CASE k \in DOMAIN cache /\ cache'[k] = cache[k]
  <2>1. cache[k] \in Calls /\ pc[cache[k]] = "done" /\ ruling[cache[k]] = "allow"
    BY <1>1 DEF RulingInv, Typed, TypeOK
  <2> QED
    BY <1>1, <2>1, RulingStays
<1>2. CASE pc[c] = "filling" /\ Insert(c)
  <2>1. (k \in DOMAIN cache /\ cache'[k] = cache[k]) \/ cache'[k] = c
    BY <1>2 DEF Insert
  <2>2. ruling[c] = "allow"
    BY <1>2 DEF RulingInv, Ruled
  <2>3. CASE Fill(c) \/ Drop(c)
    <3>1. ruling' = ruling /\ pc' = [pc EXCEPT ![c] = "done"]
      BY <2>3 DEF Fill, Drop, LeaveBehind, Return, wire
    <3> QED
      BY <1>1, <2>1, <2>2, <3>1 DEF Typed, TypeOK
  <2>4. CASE HandleStray(c)
    BY <1>1, <2>4 DEF HandleStray
  <2> QED
    BY <1>2, <2>3, <2>4
       DEF CallStep, Proceed, ServeFromCache, Ask, RejectToken, Unreachable, Send, Head, Hear,
           HearResponse, HearError, TimeOut, Reset, BreakOff, Wake, Handle
<1>3. cache' = cache \/ (pc[c] = "filling" /\ Insert(c))
  BY DEF CallStep, Proceed, ServeFromCache, Ask, RejectToken, Unreachable, Send, Head, Hear,
         HearResponse, HearError, TimeOut, Reset, BreakOff, Wake, Fill, Handle, HandleStray, Drop,
         LeaveBehind
<1> QED
  BY <1>1, <1>2, <1>3

(* Every step keeps it.                                                    *)
LEMMA RulingNext ==
    ASSUME Typed, RulingInv, AllOpen, [Next]_vars
    PROVE  RulingInv'
<1>1. ASSUME NEW c \in Calls, CallStep(c)
      PROVE  RulingInv'
  <2>1. Ruled(c)'
    BY <1>1, RuledStep DEF AllOpen
  <2>2. ASSUME NEW d \in Calls \ {c}
        PROVE  Ruled(d)'
    <3>1. Quiet(d) /\ author[d] \in Calls
      BY <1>1, TypeStep DEF Typed, TypeOK
    <3>2. outcome[d] = "verdict" =>
             pc'[author[d]] = "done" /\ ruling'[author[d]] \in Responses
      BY <1>1, <3>1, RulingStays DEF RulingInv, Ruled
    <3> QED
      BY <3>1, <3>2 DEF Quiet, RulingInv, Ruled
  <2> QED
    BY <1>1, <2>1, <2>2, CachedStep DEF RulingInv
<1>2. ASSUME NEW k \in DOMAIN cache, Evict(k)
      PROVE  RulingInv'
  <2>1. UNCHANGED <<pc, ruling, outcome, author>>
    BY <1>2 DEF Evict, wire
  <2>2. \A j \in DOMAIN cache' : j \in DOMAIN cache /\ cache'[j] = cache[j]
    BY <1>2 DEF Evict
  <2> QED
    BY <2>1, <2>2 DEF RulingInv, Ruled
<1>3. CASE UNCHANGED vars
  BY <1>3 DEF vars, wire, RulingInv, Ruled
<1> QED
  BY <1>1, <1>2, <1>3 DEF Next

(* A verdict is the ruling of a call that is over, for every call.         *)
LEMMA RulingAlways == Spec => []RulingInv
<1>1. Init => RulingInv
  BY DEF Init, RulingInv, Ruled
<1> QED
  BY <1>1, RulingNext, TypedAlways, OpenAlways, PTL DEF Spec

-----------------------------------------------------------------------------
(* The wrapper *)

(* A step of the calls takes nothing back from what the wrapper acted on.  *)
LEMMA ActedStays ==
    ASSUME Typed, RulingInv, WrapperInv, [Next]_vars, UNCHANGED ivars
    PROVE  WrapperInv'
<1> SUFFICES ASSUME NEW c \in Wrapped
             PROVE  Acted(c)'
  BY DEF WrapperInv
<1>1. c \in Calls /\ author[c] \in Calls
  BY WrappedAssumption DEF Typed, TypeOK
<1>2. \A d \in Calls : pc[d] = "done" =>
         /\ pc'[d] = "done" /\ ruling'[d] = ruling[d]
         /\ outcome'[d] = outcome[d] /\ author'[d] = author[d]
  <2>1. ASSUME NEW e \in Calls, CallStep(e), NEW d \in Calls, pc[d] = "done"
        PROVE  /\ pc'[d] = "done" /\ ruling'[d] = ruling[d]
               /\ outcome'[d] = outcome[d] /\ author'[d] = author[d]
    BY <2>1, RulingStays
  <2>2. ASSUME NEW k \in DOMAIN cache, Evict(k)
        PROVE  UNCHANGED <<pc, ruling, outcome, author>>
    BY <2>2 DEF Evict, wire
  <2>3. CASE UNCHANGED vars
    BY <2>3 DEF vars, wire
  <2> QED
    BY <2>1, <2>2, <2>3 DEF Next
<1>3. outcome[c] = "verdict" => pc[author[c]] = "done"
  BY <1>1 DEF RulingInv, Ruled
<1> QED
  BY <1>1, <1>2, <1>3 DEF ivars, WrapperInv, Acted, Blocked

(* The wrapper acts only on a call that is over: it calls the model unless *)
(* the call failed or was blocked, and audits what answered a verdict.     *)
LEMMA WrapperStep ==
    ASSUME Typed, RulingInv, InterceptorTyped, WrapperInv, InterceptorStep, UNCHANGED vars
    PROVE  WrapperInv'
<1> SUFFICES ASSUME NEW c \in Wrapped
             PROVE  Acted(c)'
  BY DEF WrapperInv
<1> USE DEF InterceptorTyped
<1>1. /\ pc' = pc /\ ruling' = ruling /\ outcome' = outcome /\ author' = author
      /\ Acted(c) /\ model[c] \in ModelPhases
  BY DEF vars, wire, WrapperInv
<1>2. ASSUME NEW d \in Wrapped, CallModel(d)
      PROVE  Acted(c)'
  <2>1. CASE d = c
    <3>1. outcome[c] \in {"verdict", "fail_open"}
      <4>1. c \in Calls /\ ~is_mutation(c) /\ pc[c] = "done" /\ outcome[c] \in Outcomes
        BY <1>2, <2>1, WrappedAssumption DEF CallModel, Typed, TypeOK
      <4>2. outcome[c] # "none" /\ outcome[c] # "empty"
        BY <4>1 DEF RulingInv, Ruled
      <4> QED
        BY <1>2, <2>1, <4>1, <4>2 DEF CallModel, Declined, Outcomes
    <3> QED
      BY <1>1, <1>2, <2>1, <3>1 DEF CallModel, Declined, Blocked, Acted
  <2>2. CASE d # c
    BY <1>1, <1>2, <2>2 DEF CallModel, Acted, Blocked
  <2> QED
    BY <2>1, <2>2
<1>3. ASSUME NEW d \in Wrapped, ModelAnswers(d)
      PROVE  Acted(c)'
  <2>1. CASE d = c
    BY <1>1, <1>3, <2>1 DEF ModelAnswers, spawn_audit, has_request_id, Acted, Blocked
  <2>2. CASE d # c
    BY <1>1, <1>3, <2>2 DEF ModelAnswers, spawn_audit, Acted, Blocked
  <2> QED
    BY <2>1, <2>2
<1>4. ASSUME NEW d \in Wrapped, ModelFails(d)
      PROVE  Acted(c)'
  BY <1>1, <1>4 DEF ModelFails, Acted, Blocked
<1>5. ASSUME NEW d \in Wrapped, audit_llm_call(d)
      PROVE  Acted(c)'
  BY <1>1, <1>5 DEF audit_llm_call, Acted, Blocked
<1>6. CASE Exit
  BY <1>1, <1>6 DEF Exit, Acted, Blocked
<1> QED
  BY <1>2, <1>3, <1>4, <1>5, <1>6 DEF InterceptorStep

-----------------------------------------------------------------------------
(* Every step of the calls and of the wrappers keeps the wrappers' types.  *)
LEMMA InterceptorTypedNext == InterceptorTyped /\ [InterceptorNext]_<<vars, ivars>>
                                 => InterceptorTyped'
<1> SUFFICES ASSUME InterceptorTyped, [InterceptorNext]_<<vars, ivars>>
             PROVE  InterceptorTyped'
  OBVIOUS
<1> USE DEF InterceptorTyped, ModelPhases, AuditPhases
<1>1. ASSUME NEW c \in Wrapped,
             CallModel(c) \/ ModelAnswers(c) \/ ModelFails(c) \/ audit_llm_call(c)
      PROVE  InterceptorTyped'
  BY <1>1 DEF CallModel, ModelAnswers, spawn_audit, ModelFails, audit_llm_call
<1>2. CASE Exit
  BY <1>2 DEF Exit
<1>3. CASE UNCHANGED ivars
  BY <1>3 DEF ivars
<1> QED
  BY <1>1, <1>2, <1>3 DEF InterceptorNext, InterceptorStep

(* All that a wrapped client's calls and tasks rest on.                    *)
LEMMA WrapperAlways == InterceptorSpec => [](Typed /\ RulingInv /\ InterceptorTyped /\ WrapperInv)
<1>1. InterceptorInit => InterceptorTyped /\ WrapperInv
  BY DEF InterceptorInit, InterceptorTyped, ModelPhases, AuditPhases, WrapperInv, Acted
<1>2. ASSUME Typed, RulingInv, InterceptorTyped, WrapperInv, [InterceptorNext]_<<vars, ivars>>
      PROVE  WrapperInv'
  <2>1. CASE UNCHANGED vars /\ InterceptorStep
    BY <1>2, <2>1, WrapperStep
  <2>2. CASE [Next]_vars /\ UNCHANGED ivars
    BY <1>2, <2>2, ActedStays
  <2> QED
    BY <1>2, <2>1, <2>2 DEF InterceptorNext
<1> QED
  BY <1>1, <1>2, InterceptorTypedNext, WrappedIsGoverned, TypedAlways, RulingAlways, PTL
     DEF InterceptorSpec

(* The cache stays faithful under wrapped clients, and their verdicts own. *)
THEOREM WrappedVerdictsAreOwn == InterceptorSpec => [](OwnVerdict /\ CacheHoldsSuccess)
BY WrappedIsGoverned, VerdictsAreOwn, CacheIsFaithful, PTL

(* What the governed call promises its caller it promises a wrapper: the   *)
(* caller that runs the model on what the call returned.                   *)
THEOREM WrappedKeepsPromise == InterceptorSpec => KeepsPromise
BY WrappedIsGoverned, CallsKeepPromise, PTL

(* The model is never called over a block, on a verdict for somebody else  *)
(* or on nothing: whatever the cache, the retries and the transport did.   *)
THEOREM ModelIsGoverned == InterceptorSpec => []ModelGoverned
<1>1. Typed /\ RulingInv /\ WrapperInv /\ OwnVerdict => ModelGoverned
  <2> SUFFICES ASSUME Typed, RulingInv, WrapperInv, OwnVerdict,
                      NEW c \in Wrapped, model[c] # "none", outcome[c] # "fail_open"
               PROVE  /\ outcome[c] = "verdict"
                      /\ ruling[author[c]] \in {"allow", "refuse"}
                      /\ SameAsk(c, author[c])
    BY DEF ModelGoverned
  <2>1. c \in Calls /\ outcome[c] = "verdict" /\ ruling[author[c]] # "blocked"
    BY WrappedAssumption DEF WrapperInv, Acted, Blocked
  <2>2. ruling[author[c]] \in Responses
    BY <2>1 DEF RulingInv, Ruled
  <2>3. SameAsk(c, author[c])
    BY <2>1 DEF OwnVerdict, SameAsk
  <2> QED
    BY <2>1, <2>2, <2>3 DEF Responses
<1> QED
  BY <1>1, WrapperAlways, WrappedVerdictsAreOwn, PTL

(* Model calls audited under one context_id are the same question of the   *)
(* same user.                                                              *)
THEOREM AuditsAreAttributed == InterceptorSpec => []AuditAttribution
<1>1. WrapperInv /\ OwnVerdict => AuditAttribution
  <2> SUFFICES ASSUME WrapperInv, OwnVerdict, NEW c \in Wrapped, NEW d \in Wrapped,
                      audit[c] # "none", audit[d] # "none", author[c] = author[d]
               PROVE  SameAsk(c, d)
    BY DEF AuditAttribution
  <2>1. \A e \in {c, d} : e \in Calls /\ outcome[e] = "verdict"
    BY WrappedAssumption DEF WrapperInv, Acted
  <2>2. \A e \in {c, d} : SameAsk(e, author[e])
    BY <2>1 DEF OwnVerdict, SameAsk
  <2> QED
    BY <2>2 DEF SameAsk
<1> QED
  BY <1>1, WrapperAlways, WrappedVerdictsAreOwn, PTL

(* An answer of the model is missing from the trail only when the check    *)
(* gave no request_id, the audit call failed, or the process ended.        *)
THEOREM GapsAreExplained == InterceptorSpec => []UnauditedIsExplained
<1>1. InterceptorTyped /\ WrapperInv => UnauditedIsExplained
  BY DEF InterceptorTyped, AuditPhases, WrapperInv, Acted, UnauditedIsExplained
<1> QED
  BY <1>1, WrapperAlways, PTL

(* The calls, the model and the audit tasks keep their types.              *)
THEOREM WrapperTypes == InterceptorSpec => []InterceptorTypeOK
<1>1. Typed /\ InterceptorTyped => InterceptorTypeOK
  BY DEF Typed, InterceptorTyped, InterceptorTypeOK
<1> QED
  BY <1>1, WrapperAlways, PTL
=============================================================================
