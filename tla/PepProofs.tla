----------------------------- MODULE PepProofs -----------------------------
(***************************************************************************)
(* Proofs about Pep for every set of PII items, every set of decisions the *)
(* platform may give, and every policy change.                             *)
(***************************************************************************)
EXTENDS Pep, TLAPS

(* Obligation n is discharged: the engine ran, and what it detected is out.*)
Discharged(n) == ran[n] # Off /\ content \cap ran[n] = {}

(* The reply under way is what the engine makes of the content submitted.  *)
Honest ==
    pc = "asked" /\ reply.given /\ reply.evaluated =>
       /\ ran[i] # Off
       /\ reply.redacted => reply.masked = content \ ran[i]
       /\ ~reply.redacted => content \cap ran[i] = {}

(* The loop has discharged every redaction before its current turn.        *)
LoopInv ==
    /\ pc # "done" => outcome = "none"
    /\ pc = "asked" => i \in 1 .. Len(decision.obligations)
    /\ pc \in {"fulfilling", "asked"} =>
          \A n \in Redactions : n < i => Discharged(n)
    /\ outcome = "forward" => pc = "done"
    /\ outcome = "forward" /\ Fulfills(decision) => \A n \in Redactions : Discharged(n)
    /\ Honest

(* Content only shrinks, and did_redact tells whether it has.              *)
Told == content \subseteq statement /\ (did_redact <=> content # statement)

Inv == TypeOK /\ LoopInv /\ Told

LEMMA Lengths ==
    ASSUME NEW d \in Decisions \cup {NoDecision} PROVE Len(d.obligations) \in Nat
PROOF BY PepAssumption DEF NoDecision

LEMMA PepInit == Init => Inv
PROOF
  <1> SUFFICES ASSUME Init PROVE Inv
    OBVIOUS
  <1>1. decision = NoDecision /\ Len(decision.obligations) = 0
    BY DEF Init, NoDecision
  <1>2. i \in 1 .. Len(decision.obligations) + 1
    BY <1>1 DEF Init
  <1>3. ran \in [1 .. Len(decision.obligations) -> Policies]
    BY <1>1 DEF Init
  <1>4. reply \in Replies
    BY DEF Init, NoReply, Replies
  <1>5. TypeOK
    BY <1>1, <1>2, <1>3, <1>4, PepAssumption DEF TypeOK, Init, Steps, Outcomes
  <1> QED
    BY <1>5 DEF Inv, LoopInv, Honest, Told, Init

(* Every step keeps the loop's invariant.                                  *)
LEMMA PepNext ==
    ASSUME Inv, [Next]_vars PROVE Inv'
PROOF
  <1> DEFINE n0 == Len(decision.obligations)
  <1>0. n0 \in Nat /\ i \in 1 .. n0 + 1
    BY Lengths DEF Inv, TypeOK
  <1> USE DEF Inv
  <1>1. CASE Ask
    BY <1>1 DEF Ask, call, TypeOK, LoopInv, Honest, Steps, Redactions, Discharged, Fulfills, Told
  <1>2. CASE DecideFails \/ Refuse \/ NotFulfilled \/ BodyLost \/ Drop
    <2>1. /\ pc' = "done" /\ outcome' \in {"error", "not_fulfillable", "dropped"}
          /\ UNCHANGED <<path, decision, i, content, did_redact, policy, reply, ran>>
      BY <1>2 DEF DecideFails, Refuse, NotFulfilled, BodyLost, Drop, Settle
    <2> QED
      BY <2>1 DEF TypeOK, LoopInv, Honest, Told, Steps, Outcomes
  <1>3. CASE Decided
    <2>1. decision' \in Decisions /\ Len(decision'.obligations) \in Nat /\ i' = 1
      BY <1>3, Lengths DEF Decided
    <2>2. ran' \in [1 .. Len(decision'.obligations) -> Policies]
      BY <1>3 DEF Decided, Policies
    <2>3. \/ pc' = "done" /\ outcome' = "block"
          \/ pc' = "done" /\ outcome' = "forward" /\ ~Fulfills(decision')
          \/ pc' = "fulfilling" /\ outcome' = outcome
      BY <1>3 DEF Decided, Settle
    <2>4. UNCHANGED <<path, content, did_redact, policy, reply>> /\ outcome = "none"
      BY <1>3 DEF Decided, LoopInv
    <2>5. i' \in 1 .. Len(decision'.obligations) + 1
      BY <2>1
    <2>6. TypeOK'
      BY <2>1, <2>2, <2>3, <2>4, <2>5 DEF TypeOK, Steps, Outcomes
    <2>7. \A n \in Redactions' : ~(n < i')
      BY <2>1 DEF Redactions
    <2> QED
      BY <2>3, <2>4, <2>6, <2>7 DEF LoopInv, Honest, Fulfills, Told
  <1>4. CASE Skip
    <2>1. i \in 1 .. n0 /\ i' = i + 1 /\ i \notin Redactions /\ pc = "fulfilling"
      BY <1>0, <1>4 DEF Skip, HasCurrent, Current, Redactions
    <2>2. UNCHANGED <<path, pc, decision, content, did_redact, outcome, policy, reply, ran>>
      BY <1>4 DEF Skip
    <2>3. i' \in 1 .. n0 + 1
      BY <1>0, <2>1
    <2>4. \A n \in Redactions : n < i' => n < i
      BY <1>0, <2>1 DEF Redactions
    <2> QED
      BY <2>1, <2>2, <2>3, <2>4 DEF TypeOK, LoopInv, Honest, Redactions, Discharged, Fulfills, Told
  <1>5. CASE Submit
    <2>1. i \in 1 .. n0 /\ pc = "fulfilling" /\ pc' = "asked" /\ reply' = NoReply
          /\ UNCHANGED <<path, decision, i, content, did_redact, outcome, policy, ran>>
      BY <1>0, <1>5 DEF Submit, HasCurrent, call
    <2>2. NoReply \in Replies /\ ~NoReply.given
      BY DEF NoReply, Replies
    <2> QED
      BY <2>1, <2>2 DEF TypeOK, LoopInv, Honest, Steps, Redactions, Discharged, Fulfills, Told
  <1>6. CASE Finish
    <2>1. /\ pc = "fulfilling" /\ i > n0 /\ pc' = "done" /\ outcome' = "forward"
          /\ UNCHANGED <<path, decision, i, content, did_redact, policy, reply, ran>>
      BY <1>6 DEF Finish, Settle
    <2>2. \A n \in Redactions : n < i
      BY <1>0, <2>1 DEF Redactions
    <2> QED
      BY <2>1, <2>2 DEF TypeOK, LoopInv, Honest, Steps, Outcomes, Redactions, Discharged, Fulfills, Told
  <1>7. CASE Fulfilled
    <2>1. /\ pc = "asked" /\ pc' = "fulfilling" /\ i \in 1 .. n0 /\ i' = i + 1
          /\ reply.given /\ reply.evaluated
          /\ UNCHANGED <<path, decision, outcome, policy, reply, ran>>
      BY <1>7 DEF Fulfilled, Forwardable, LoopInv
    <2>2. content' = IF reply.redacted THEN reply.masked ELSE content
      BY <1>7 DEF Fulfilled, Adopt
    <2>3. did_redact' \in BOOLEAN
      BY <1>7 DEF Fulfilled, TypeOK
    <2>4. reply.masked \in SUBSET Pii /\ reply.redacted \in BOOLEAN
      BY DEF TypeOK, Replies
    <2>5. content' \in SUBSET Pii
      BY <2>2, <2>4 DEF TypeOK
    <2>6. i' \in 1 .. n0 + 1
      BY <1>0, <2>1
    <2>7. TypeOK'
      BY <2>1, <2>3, <2>5, <2>6 DEF TypeOK, Steps
    <2>11. Told'
      <3>1. content' \subseteq content
        BY <2>1, <2>2, <2>4 DEF LoopInv, Honest
      <3>2. did_redact' <=> did_redact \/ content' # statement
        BY <1>7 DEF Fulfilled
      <3> QED
        BY <3>1, <3>2 DEF Told
    <2>8. ran[i] # Off /\ content' \cap ran[i] = {} /\ content' \subseteq content
      BY <2>1, <2>2, <2>4 DEF LoopInv, Honest
    <2>9. ASSUME NEW n \in Redactions, n < i' PROVE Discharged(n)'
      <3>1. CASE n = i
        BY <2>1, <2>8, <3>1 DEF Discharged
      <3>2. CASE n # i
        <4>1. n < i
          BY <1>0, <2>1, <2>9, <3>2 DEF Redactions
        <4>2. Discharged(n)
          BY <2>1, <4>1 DEF LoopInv
        <4> QED
          BY <2>1, <2>8, <4>2 DEF Discharged
      <3> QED
        BY <3>1, <3>2
    <2>10. Redactions' = Redactions
      BY <2>1 DEF Redactions
    <2> QED
      BY <2>1, <2>7, <2>9, <2>10, <2>11 DEF LoopInv, Honest, Fulfills
  <1>8. CASE Evaluate
    <2>1. /\ pc = "asked" /\ i \in 1 .. n0 /\ ~reply.given /\ reply' \in Replies
          /\ UNCHANGED <<path, pc, decision, i, content, did_redact, outcome, policy>>
      <3>1. CASE policy = Off
        BY <1>8, <3>1 DEF Evaluate, call, LoopInv, NoReply, Replies
      <3>2. CASE policy # Off
        <4>1. reply' = [evaluated |-> TRUE, redacted |-> content \cap policy # {},
                        masked |-> content \ policy, given |-> TRUE]
          BY <1>8, <3>2 DEF Evaluate, Submitted
        <4>2. (content \cap policy # {}) \in BOOLEAN /\ content \ policy \in SUBSET Pii
          BY DEF TypeOK
        <4>3. reply' \in Replies
          BY <4>1, <4>2, Zenon DEF Replies
        <4> QED
          BY <1>8, <4>3 DEF Evaluate, call, LoopInv
      <3> QED
        BY <3>1, <3>2
    <2>2. CASE policy = Off
      <3>1. ran' = ran /\ reply'.evaluated = FALSE
        BY <1>8, <2>2 DEF Evaluate, NoReply
      <3> QED
        BY <2>1, <3>1 DEF TypeOK, LoopInv, Honest, Redactions, Discharged, Fulfills, Told
    <2>3. CASE policy # Off
      <3>1. ran' = [ran EXCEPT ![i] = policy] /\ ran' \in [1 .. n0 -> Policies]
        BY <1>8, <2>1, <2>3 DEF Evaluate, TypeOK
      <3>2. reply' = [evaluated |-> TRUE, redacted |-> content \cap policy # {},
                      masked |-> content \ policy, given |-> TRUE]
        BY <1>8, <2>3 DEF Evaluate, Submitted
      <3>3. ran'[i] = policy /\ \A n \in 1 .. n0 : n # i => ran'[n] = ran[n]
        BY <2>1, <3>1 DEF TypeOK
      <3>4. reply'.masked = content \ policy /\ (reply'.redacted <=> content \cap policy # {})
        BY <3>2
      <3>5. Honest'
        BY <2>1, <2>3, <3>3, <3>4 DEF Honest
      <3>6. TypeOK'
        BY <2>1, <3>1 DEF TypeOK
      <3>7. \A n \in Redactions : n < i => Discharged(n)'
        BY <1>0, <2>1, <3>3 DEF LoopInv, Redactions, Discharged, Fulfills, Told
      <3>8. Redactions' = Redactions /\ outcome' = "none" /\ pc' = "asked"
        BY <2>1 DEF LoopInv, Redactions
      <3> QED
        BY <2>1, <3>5, <3>6, <3>7, <3>8 DEF LoopInv, Told
    <2> QED
      BY <2>2, <2>3
  <1>9. CASE Reconfigure
    BY <1>9 DEF Reconfigure, call, TypeOK, LoopInv, Honest, Redactions, Discharged, Fulfills, Told
  <1>10. CASE UNCHANGED vars
    BY <1>10 DEF vars, call, TypeOK, LoopInv, Honest, Redactions, Discharged, Fulfills, Told
  <1> QED
    BY <1>1, <1>2, <1>3, <1>4, <1>5, <1>6, <1>7, <1>8, <1>9, <1>10 DEF Next, Proceed

(* The invariant holds of every reachable state.                           *)
LEMMA InvAlways == Spec => []Inv
PROOF
  <1>1. Inv /\ [Next]_vars => Inv'
    BY PepNext
  <1> QED
    BY <1>1, PepInit, PTL DEF Spec

(* The enforcement point's state is well typed under any decision.         *)
THEOREM PepTypeCorrect == Spec => []TypeOK
PROOF
  <1>1. Inv => TypeOK
    BY DEF Inv
  <1> QED
    BY <1>1, InvAlways, PTL

(* fulfill_request hands out nothing the engine would have masked, under   *)
(* any decision, any list of obligations and any change of policy.         *)
THEOREM FulfilledIsScrubbed == Spec => []ForwardsScrubbed
PROOF
  <1>1. Inv => ForwardsScrubbed
    BY DEF Inv, LoopInv, ForwardsScrubbed, Scrubbed, Discharged
  <1> QED
    BY <1>1, InvAlways, PTL

(* did_redact tells exactly whether the content handed out was changed.    *)
THEOREM RedactionIsTold == Spec => []TellsRedaction
PROOF
  <1>1. Inv => TellsRedaction
    BY DEF Inv, Told, TellsRedaction
  <1> QED
    BY <1>1, InvAlways, PTL
=============================================================================
