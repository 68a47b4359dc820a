--------------------------- MODULE PingPassProofs ---------------------------
(***************************************************************************)
(* Proofs about PingPass for every budget that leaves room for the POST,   *)
(* every set of relayed members and stalls of any length.                  *)
(***************************************************************************)
EXTENDS PingPass, TLAPS

(* What an unstalled pass has used, and what it has set aside: the probe   *)
(* never runs past its cap, and the POST has all that is left.             *)
OnSchedule ==
    ~stalled =>
       /\ step \in {"off", "begun"} => elapsed = 0
       /\ step = "probing" => elapsed + budget <= HEALTH_BUDGET_CAP
       /\ step = "probed" => elapsed <= HEALTH_BUDGET_CAP
       /\ step \in {"posting", "answered"} => elapsed + budget = HEARTBEAT_TIMEOUT
       /\ step \in Over => elapsed <= HEARTBEAT_TIMEOUT
       /\ step # "skipped"

(* A payload is made before it is posted, and is the one taken.            *)
PostedIsMade ==
    /\ step \in {"posting", "answered", "delivered"} => payload # <<>>
    /\ step \in {"answered", "delivered"} => accepted

-----------------------------------------------------------------------------
(* Types *)

LEMMA RemainingInRange ==
    ASSUME elapsed \in Nat
    PROVE  /\ remaining \in 0 .. HEARTBEAT_TIMEOUT
           /\ health_budget \in 0 .. HEALTH_BUDGET_CAP
           /\ health_budget <= remaining
BY BudgetAssumption DEF remaining, health_budget, Least

(* Whatever the platform answers, what is learned are relayed members.     *)
LEMMA LearnedAreMembers ==
    ASSUME NEW answer
    PROVE  learned(answer) \subseteq Members
BY DEF learned

LEMMA NoPayloadIsTyped == <<>> \in Seq(SUBSET Members) /\ Len(<<>>) <= 1
OBVIOUS

(* The initial state has the declared types.                               *)
LEMMA PassTypeInit == PassInit => PassTypeOK
<1> SUFFICES ASSUME PassInit
             PROVE  PassTypeOK
  OBVIOUS
<1>1. 0 \in 0 .. HEARTBEAT_TIMEOUT
  BY BudgetAssumption
<1> QED
  BY <1>1, NoPayloadIsTyped DEF PassInit, PassTypeOK, Steps

(* Every step keeps the declared types.                                    *)
LEMMA PassTypeNext == PassTypeOK /\ [PassNext]_pass => PassTypeOK'
<1> USE BudgetAssumption
<1> SUFFICES ASSUME PassTypeOK, [PassNext]_pass
             PROVE  PassTypeOK'
  OBVIOUS
<1>1. CASE BeginPass
  BY <1>1 DEF BeginPass, PassTypeOK, Steps, clock, sent
<1>2. CASE ClientFails
  BY <1>2 DEF ClientFails, PassTypeOK, Steps, clock, sent
<1>3. CASE Probe
  BY <1>3, RemainingInRange DEF Probe, PassTypeOK, Steps, sent
<1>4. CASE Healthy
  BY <1>4, LearnedAreMembers DEF Healthy, PassTypeOK, Steps, clock, sent
<1>5. CASE Unhealthy
  BY <1>5 DEF Unhealthy, PassTypeOK, Steps, clock, sent
<1>6. CASE PostPayload
  BY <1>6, RemainingInRange DEF PostPayload, PassTypeOK, Steps
<1>7. CASE Accept
  BY <1>7 DEF Accept, PassTypeOK, Steps, clock
<1>8. CASE Delivered
  BY <1>8 DEF Delivered, PassTypeOK, Steps, clock, sent
<1>9. CASE Refused
  BY <1>9 DEF Refused, PassTypeOK, Steps, clock, sent
<1>10. CASE PostFails
  BY <1>10 DEF PostFails, PassTypeOK, Steps, clock, sent
<1>11. CASE Tick
  BY <1>11 DEF Tick, PassTypeOK, sent
<1>12. CASE Stall
  BY <1>12 DEF Stall, PassTypeOK, sent
<1>13. CASE step \in Over /\ EndPass
  <2>1. 0 \in 0 .. HEARTBEAT_TIMEOUT
    OBVIOUS
  <2> QED
    BY <1>13, <2>1, NoPayloadIsTyped DEF EndPass, PassTypeOK, Steps
<1>14. CASE UNCHANGED pass
  BY <1>14 DEF pass, clock, sent, PassTypeOK
<1> QED
  BY <1>1, <1>2, <1>3, <1>4, <1>5, <1>6, <1>7, <1>8, <1>9, <1>10, <1>11, <1>12, <1>13, <1>14
     DEF PassNext

(* Every member the pass keeps is of its type: what it learned and relays  *)
(* are the members it disclosed, whatever the platform answered.           *)
THEOREM PassTypes == PassSpec => []PassTypeOK
BY PassTypeInit, PassTypeNext, PTL DEF PassSpec

-----------------------------------------------------------------------------
(* The budgets *)

(* Setting out on the probe or the POST sets its budget aside in time.     *)
LEMMA BudgetsFit ==
    ASSUME PassTypeOK, OnSchedule, ~stalled, Probe \/ PostPayload
    PROVE  OnSchedule'
<1> USE BudgetAssumption
<1>1. CASE Probe
  BY <1>1 DEF Probe, OnSchedule, PassTypeOK, Over, sent, remaining, health_budget, Least
<1>2. CASE PostPayload
  BY <1>2 DEF PostPayload, OnSchedule, PassTypeOK, Over, remaining
<1> QED
  BY <1>1, <1>2

(* Every step keeps an unstalled pass on schedule.                         *)
LEMMA OnScheduleNext == PassTypeOK /\ OnSchedule /\ [PassNext]_pass => OnSchedule'
<1> USE BudgetAssumption
<1> SUFFICES ASSUME PassTypeOK, OnSchedule, [PassNext]_pass, ~stalled'
             PROVE  OnSchedule'
  BY DEF OnSchedule
<1>1. CASE BeginPass
  BY <1>1 DEF BeginPass, OnSchedule, Over, clock
<1>2. CASE ClientFails
  BY <1>2 DEF ClientFails, OnSchedule, Over, clock
<1>3. CASE Probe \/ PostPayload
  <2>1. ~stalled
    BY <1>3 DEF Probe, PostPayload
  <2> QED
    BY <1>3, <2>1, BudgetsFit
<1>4. CASE Healthy
  BY <1>4 DEF Healthy, OnSchedule, PassTypeOK, Over, clock
<1>5. CASE Unhealthy
  BY <1>5 DEF Unhealthy, OnSchedule, PassTypeOK, Over, clock
<1>6. CASE Accept
  BY <1>6 DEF Accept, OnSchedule, Over, clock
<1>7. CASE Delivered
  BY <1>7 DEF Delivered, OnSchedule, PassTypeOK, Over, clock
<1>8. CASE Refused
  BY <1>8 DEF Refused, OnSchedule, PassTypeOK, Over, clock
<1>9. CASE PostFails
  BY <1>9 DEF PostFails, OnSchedule, PassTypeOK, Over, clock
<1>10. CASE Tick
  BY <1>10 DEF Tick, OnSchedule, PassTypeOK, Over
<1>11. CASE Stall
  BY <1>11 DEF Stall
<1>12. CASE step \in Over /\ EndPass
  BY <1>12 DEF EndPass, OnSchedule, Over
<1>13. CASE UNCHANGED pass
  BY <1>13 DEF pass, clock, sent, OnSchedule, Over
<1> QED
  BY <1>1, <1>2, <1>3, <1>4, <1>5, <1>6, <1>7, <1>8, <1>9, <1>10, <1>11, <1>12, <1>13
     DEF PassNext

(* On schedule there is room for the POST.                                 *)
LEMMA OnScheduleMakesRoom == PassTypeOK /\ OnSchedule => RoomForThePost
BY BudgetAssumption DEF PassTypeOK, OnSchedule, RoomForThePost, Steps, Over

(* Whatever the platform does with its probe, a pass the scheduler leaves  *)
(* alone ends within its timeout and posts with its minimum.               *)
THEOREM PostHasRoom == PassSpec => []RoomForThePost
<1>1. PassInit => OnSchedule
  BY DEF PassInit, OnSchedule, Over
<1> QED
  BY <1>1, PassTypes, OnScheduleNext, OnScheduleMakesRoom, PTL DEF PassSpec

-----------------------------------------------------------------------------
(* Deliveries *)

(* Every step keeps it: the payload is there to be taken.                  *)
LEMMA PostedIsMadeNext == PostedIsMade /\ [PassNext]_pass => PostedIsMade'
<1> SUFFICES ASSUME PostedIsMade, [PassNext]_pass
             PROVE  PostedIsMade'
  OBVIOUS
<1>1. CASE BeginPass \/ ClientFails \/ Probe \/ Healthy \/ Unhealthy \/ PostFails
  BY <1>1 DEF BeginPass, ClientFails, Probe, Healthy, Unhealthy, PostFails, PostedIsMade
<1>2. CASE PostPayload
  <2>1. <<probe>> # <<>>
    OBVIOUS
  <2> QED
    BY <1>2, <2>1 DEF PostPayload, PostedIsMade
<1>3. CASE Accept
  BY <1>3 DEF Accept, PostedIsMade
<1>4. CASE Delivered
  BY <1>4 DEF Delivered, PostedIsMade, sent
<1>5. CASE Refused
  BY <1>5 DEF Refused, answered, PostedIsMade, sent
<1>6. CASE Tick \/ Stall
  BY <1>6 DEF Tick, Stall, PostedIsMade, sent
<1>7. CASE EndPass
  BY <1>7 DEF EndPass, PostedIsMade
<1>8. CASE UNCHANGED pass
  BY <1>8 DEF pass, sent, PostedIsMade
<1> QED
  BY <1>1, <1>2, <1>3, <1>4, <1>5, <1>6, <1>7, <1>8 DEF PassNext

(* A heartbeat that counts as delivered was taken by the checkpoint        *)
(* service: no redirect, refusal or lost answer passes for a delivery.     *)
THEOREM DeliveryIsPosted == PassSpec => []DeliveredMeansPosted
<1>1. PassInit => PostedIsMade
  BY DEF PassInit, PostedIsMade
<1>2. PostedIsMade => DeliveredMeansPosted
  BY DEF PostedIsMade, DeliveredMeansPosted
<1> QED
  BY <1>1, <1>2, PostedIsMadeNext, PTL DEF PassSpec
=============================================================================
