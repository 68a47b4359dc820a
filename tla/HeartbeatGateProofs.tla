------------------------ MODULE HeartbeatGateProofs ------------------------
(***************************************************************************)
(* Proofs about HeartbeatGate for every number of processes and calls,     *)
(* every interval and every set of faults.                                 *)
(***************************************************************************)
EXTENDS HeartbeatGate, Integers, TLAPS

(* A pass that is past its stamp check has been counted in lost, so a      *)
(* failure it records cannot take consecutiveFailures beyond lost.         *)
PendingCounted ==
    \A c \in Calls :
        pc[c] \in {"probing", "posting", "accepted"} =>
            Clamp(consecutiveFailures[Home[c]] + 1, MAX_DOUBLINGS) <= lost[Home[c]]

(* From its claim to the 2xx a pass runs in a process whose last delivery  *)
(* is an interval ago.                                                     *)
PassDue ==
    \A c \in Calls :
        pc[c] \in {"claimed", "probing", "posting", "accepted"} =>
            ~Within(lastDelivered[Home[c]], HEARTBEAT_INTERVAL)

KnownIsDelivered == known = lastDelivered

-----------------------------------------------------------------------------
(* Types *)

(* A counter bumped by a saturating addition stays within its bound.       *)
LEMMA BumpInRange ==
    ASSUME NEW n \in 0 .. MAX_DOUBLINGS
    PROVE  Clamp(n + 1, MAX_DOUBLINGS) \in 0 .. MAX_DOUBLINGS
BY GateAssumption DEF Clamp

(* An age grows to an age.                                                 *)
LEMMA OlderIsAge ==
    ASSUME NEW age \in Age \cup {Never}
    PROVE  Older(age) \in Age \cup {Never}
BY GateAssumption DEF Older, Age

(* record_attempt, spelled out for each of its two arguments.              *)
LEMMA RecordFailure ==
    ASSUME NEW p \in Procs
    PROVE  record_attempt(p, "failed") <=>
              /\ consecutiveFailures' = [consecutiveFailures EXCEPT
                     ![p] = Clamp(consecutiveFailures[p] + 1, MAX_DOUBLINGS)]
              /\ lastDelivered' = [lastDelivered EXCEPT ![p] = lastDelivered[p]]
BY DEF record_attempt

LEMMA RecordDelivery ==
    ASSUME NEW p \in Procs
    PROVE  record_attempt(p, "delivered") <=>
              /\ consecutiveFailures' = [consecutiveFailures EXCEPT ![p] = 0]
              /\ lastDelivered' = [lastDelivered EXCEPT ![p] = 0]
BY DEF record_attempt

(* What is recorded of an attempt has the declared types.                  *)
LEMMA RecordTyped ==
    ASSUME TypeOK, NEW p \in Procs,
           record_attempt(p, "failed") \/ record_attempt(p, "delivered")
    PROVE  /\ consecutiveFailures' \in [Procs -> 0 .. MAX_DOUBLINGS]
           /\ lastDelivered' \in [Procs -> Age \cup {Never}]
<1>1. Clamp(consecutiveFailures[p] + 1, MAX_DOUBLINGS) \in 0 .. MAX_DOUBLINGS
  BY BumpInRange DEF TypeOK
<1>2. 0 \in Age /\ 0 \in 0 .. MAX_DOUBLINGS
  BY GateAssumption DEF Age
<1>3. CASE record_attempt(p, "failed")
  BY <1>1, <1>3, RecordFailure DEF TypeOK
<1>4. CASE record_attempt(p, "delivered")
  BY <1>2, <1>4, RecordDelivery DEF TypeOK
<1> QED
  BY <1>3, <1>4

(* The initial state has the declared types.                               *)
LEMMA TypeInit == Init => TypeOK
BY GateAssumption DEF Init, TypeOK, Age, Phases

(* Every step keeps the declared types.                                    *)
LEMMA TypeNext == TypeOK /\ [Next]_vars => TypeOK'
<1> USE GateAssumption
<1> SUFFICES ASSUME TypeOK, [Next]_vars
             PROVE  TypeOK'
  OBVIOUS
<1>0. 0 \in Age
  BY DEF Age
<1>1. ASSUME NEW c \in Calls, Claim(c)
      PROVE  TypeOK'
  BY <1>0, <1>1 DEF Claim, TypeOK, Phases, world, observed
<1>2. ASSUME NEW c \in Calls, StampFresh(c)
      PROVE  TypeOK'
  BY <1>2 DEF StampFresh, ReleaseSlot, TypeOK, Phases, world, observed
<1>3. ASSUME NEW c \in Calls, Probe(c)
      PROVE  TypeOK'
  BY <1>0, <1>3, BumpInRange DEF Probe, CountAttempt, TypeOK, Phases, gate, world
<1>4. ASSUME NEW c \in Calls, ClientBuildFails(c)
      PROVE  TypeOK'
  BY <1>0, <1>4, BumpInRange, RecordTyped
     DEF ClientBuildFails, CountAttempt, ReleaseSlot, TypeOK, Phases, world
<1>5. ASSUME NEW c \in Calls, Post(c)
      PROVE  TypeOK'
  BY <1>5 DEF Post, TypeOK, Phases, gate, world, observed
<1>6. ASSUME NEW c \in Calls, Accept(c)
      PROVE  TypeOK'
  BY <1>0, <1>6 DEF Accept, TypeOK, Phases, gate, observed
<1>7. ASSUME NEW c \in Calls, Delivered(c)
      PROVE  TypeOK'
  BY <1>0, <1>7, RecordTyped DEF Delivered, TypeOK, Phases, world
<1>8. ASSUME NEW c \in Calls, Undelivered(c)
      PROVE  TypeOK'
  BY <1>8, RecordTyped DEF Undelivered, ReleaseSlot, TypeOK, Phases, world, observed
<1>9. ASSUME NEW c \in Calls, write_stamp(c)
      PROVE  TypeOK'
  BY <1>0, <1>9 DEF write_stamp, ReleaseSlot, TypeOK, Phases, observed
<1>10. ASSUME NEW c \in Calls, Cancel(c)
       PROVE  TypeOK'
  BY <1>0, <1>10 DEF Cancel, StampMayLand, ReleaseSlot, TypeOK, Phases, observed
<1>11. ASSUME NEW p \in Procs, Restart(p)
       PROVE  TypeOK'
  <2>1. pc' \in [Calls -> Phases]
    BY <1>11 DEF Restart, TypeOK, Phases
  <2>2. stamp' \in Age \cup {Never, Ahead}
    BY <1>0, <1>11 DEF Restart, StampMayLand, TypeOK
  <2>3. 0 \in 0 .. MAX_DOUBLINGS
    OBVIOUS
  <2> QED
    BY <1>11, <2>1, <2>2, <2>3 DEF Restart, TypeOK
<1>12. CASE Tick
  <2>1. stamp' \in Age \cup {Never, Ahead}
    BY <1>12, <1>0, OlderIsAge DEF Tick, TypeOK
  <2>2. sinceAccepted' \in Age \cup {Never}
    BY <1>12, OlderIsAge DEF Tick, TypeOK
  <2>3. /\ lastChecked' \in [Procs -> Age \cup {Never}]
        /\ lastDelivered' \in [Procs -> Age \cup {Never}]
        /\ known' \in [Procs -> Age \cup {Never}]
        /\ sinceAttempt' \in [Procs -> Age \cup {Never}]
    BY <1>12, OlderIsAge DEF Tick, TypeOK
  <2> QED
    BY <1>12, <2>1, <2>2, <2>3 DEF Tick, TypeOK
<1>13. CASE ClockStep
  BY <1>13 DEF ClockStep, TypeOK, gate, observed
<1>14. CASE Outage
  BY <1>14 DEF Outage, TypeOK, gate, observed
<1>15. ASSUME NEW p \in Procs, SetTelemetry(p)
       PROVE  TypeOK'
  BY <1>15 DEF SetTelemetry, TypeOK, gate, world, observed
<1>16. CASE UNCHANGED vars
  BY <1>16 DEF vars, TypeOK, gate, world, observed
<1> QED
  BY <1>1, <1>2, <1>3, <1>4, <1>5, <1>6, <1>7, <1>8, <1>9, <1>10, <1>11, <1>12,
     <1>13, <1>14, <1>15, <1>16 DEF Next, Progress

(* The declared types hold in every reachable state.                       *)
THEOREM TypeCorrect == Spec => []TypeOK
BY TypeInit, TypeNext, PTL DEF Spec

-----------------------------------------------------------------------------
(* The slot *)

(* A pass that ends takes the slot with it.                                *)
LEMMA SlotEnds ==
    ASSUME TypeOK, OneLiveSlot, NEW c \in Calls, pc[c] # "idle",
           ReleaseSlot(Home[c]), pc' = [pc EXCEPT ![c] = "idle"]
    PROVE  OneLiveSlot'
BY GateAssumption DEF TypeOK, OneLiveSlot, PassesInFlight, ReleaseSlot

(* A pass that moves on keeps the slot.                                    *)
LEMMA SlotMoves ==
    ASSUME TypeOK, OneLiveSlot, NEW c \in Calls, pc[c] # "idle",
           NEW next \in Phases \ {"idle"},
           pc' = [pc EXCEPT ![c] = next], UNCHANGED inFlight
    PROVE  OneLiveSlot'
BY GateAssumption DEF TypeOK, OneLiveSlot, PassesInFlight

(* Every step keeps one slot for at most one pass of a process.            *)
LEMMA SlotNext == TypeOK /\ OneLiveSlot /\ [Next]_vars => OneLiveSlot'
<1> USE GateAssumption
<1> SUFFICES ASSUME TypeOK, OneLiveSlot, [Next]_vars
             PROVE  OneLiveSlot'
  OBVIOUS
<1>1. ASSUME NEW c \in Calls, Claim(c)
      PROVE  OneLiveSlot'
  BY <1>1 DEF Claim, GateOpen, TypeOK, OneLiveSlot, PassesInFlight
<1>2. ASSUME NEW c \in Calls,
             StampFresh(c) \/ ClientBuildFails(c) \/ Undelivered(c)
                \/ write_stamp(c) \/ Cancel(c)
      PROVE  OneLiveSlot'
  BY <1>2, SlotEnds DEF StampFresh, ClientBuildFails, Undelivered, write_stamp, Cancel
<1>3. ASSUME NEW c \in Calls, Probe(c) \/ Post(c) \/ Accept(c) \/ Delivered(c)
      PROVE  OneLiveSlot'
  BY <1>3, SlotMoves DEF Probe, Post, Accept, Delivered, gate, Phases
<1>4. ASSUME NEW p \in Procs, Restart(p)
      PROVE  OneLiveSlot'
  BY <1>4 DEF Restart, TypeOK, OneLiveSlot, PassesInFlight
<1>5. CASE UNCHANGED <<pc, inFlight>>
  BY <1>5 DEF OneLiveSlot, PassesInFlight
<1>6. ASSUME Tick \/ ClockStep \/ Outage \/ (\E p \in Procs : SetTelemetry(p))
                \/ UNCHANGED vars
      PROVE  UNCHANGED <<pc, inFlight>>
  BY <1>6 DEF Tick, ClockStep, Outage, SetTelemetry, vars, gate
<1> QED
  BY <1>1, <1>2, <1>3, <1>4, <1>5, <1>6 DEF Next, Progress

(* However passes end and calls race, a process has at most one pass, and  *)
(* its in_flight flag is never left behind.                                *)
THEOREM SlotIsExact == Spec => []OneLiveSlot
<1>1. Init => OneLiveSlot
  BY GateAssumption DEF Init, OneLiveSlot, PassesInFlight
<1> QED
  BY <1>1, TypeCorrect, SlotNext, PTL DEF Spec

-----------------------------------------------------------------------------
(* The backoff *)

(* Counting a failure that was pending keeps the counter within lost.      *)
LEMMA BumpMonotone ==
    ASSUME NEW m \in 0 .. MAX_DOUBLINGS, NEW n \in 0 .. MAX_DOUBLINGS, m <= n
    PROVE  /\ m <= Clamp(n + 1, MAX_DOUBLINGS)
           /\ Clamp(m + 1, MAX_DOUBLINGS) <= Clamp(n + 1, MAX_DOUBLINGS)
BY GateAssumption DEF Clamp

Widens == OnlyAttemptsWiden /\ PendingCounted

(* Every step keeps the backoff within the attempts that were made.        *)
LEMMA WidensNext == TypeOK /\ OneLiveSlot /\ Widens /\ [Next]_vars => Widens'
<1> USE GateAssumption
<1> SUFFICES ASSUME TypeOK, OneLiveSlot, Widens, [Next]_vars
             PROVE  Widens'
  OBVIOUS
<1> USE DEF Widens, OnlyAttemptsWiden, PendingCounted
<1>1. ASSUME NEW c \in Calls, Claim(c)
      PROVE  Widens'
  BY <1>1 DEF Claim, TypeOK, observed
<1>2. ASSUME NEW c \in Calls, StampFresh(c) \/ write_stamp(c) \/ Cancel(c)
      PROVE  Widens'
  BY <1>2 DEF StampFresh, write_stamp, Cancel, TypeOK, observed
<1>3. ASSUME NEW c \in Calls, Post(c) \/ Accept(c)
      PROVE  Widens'
  BY <1>3 DEF Post, Accept, TypeOK, gate, observed
<1>4. ASSUME NEW c \in Calls, Probe(c)
      PROVE  Widens'
  <2>1. \A p \in Procs :
           /\ consecutiveFailures[p] <= Clamp(lost[p] + 1, MAX_DOUBLINGS)
           /\ Clamp(consecutiveFailures[p] + 1, MAX_DOUBLINGS)
                 <= Clamp(lost[p] + 1, MAX_DOUBLINGS)
    BY BumpMonotone DEF TypeOK
  <2>2. /\ consecutiveFailures' = consecutiveFailures
        /\ lost' = [lost EXCEPT ![Home[c]] = Clamp(lost[Home[c]] + 1, MAX_DOUBLINGS)]
        /\ pc' = [pc EXCEPT ![c] = "probing"]
    BY <1>4 DEF Probe, CountAttempt, gate
  <2>3. \A d \in Calls \ {c} : Home[d] = Home[c] => pc[d] = "idle"
    BY <1>4 DEF Probe, OneLiveSlot, PassesInFlight
  <2> QED
    BY <2>1, <2>2, <2>3 DEF TypeOK
<1>5. ASSUME NEW c \in Calls, ClientBuildFails(c)
      PROVE  Widens'
  <2>1. \A p \in Procs :
           Clamp(consecutiveFailures[p] + 1, MAX_DOUBLINGS) <= Clamp(lost[p] + 1, MAX_DOUBLINGS)
    BY BumpMonotone DEF TypeOK
  <2>2. /\ consecutiveFailures' = [consecutiveFailures EXCEPT
               ![Home[c]] = Clamp(consecutiveFailures[Home[c]] + 1, MAX_DOUBLINGS)]
        /\ lost' = [lost EXCEPT ![Home[c]] = Clamp(lost[Home[c]] + 1, MAX_DOUBLINGS)]
        /\ pc' = [pc EXCEPT ![c] = "idle"]
    BY <1>5, RecordFailure DEF ClientBuildFails, CountAttempt
  <2>3. \A d \in Calls \ {c} : Home[d] = Home[c] => pc[d] = "idle"
    BY <1>5 DEF ClientBuildFails, OneLiveSlot, PassesInFlight
  <2> QED
    BY <2>1, <2>2, <2>3 DEF TypeOK
<1>6. ASSUME NEW c \in Calls, Undelivered(c)
      PROVE  Widens'
  <2>1. /\ consecutiveFailures' = [consecutiveFailures EXCEPT
               ![Home[c]] = Clamp(consecutiveFailures[Home[c]] + 1, MAX_DOUBLINGS)]
        /\ lost' = lost
        /\ pc' = [pc EXCEPT ![c] = "idle"]
        /\ pc[c] \in {"posting", "accepted"}
    BY <1>6, RecordFailure DEF Undelivered, observed
  <2>2. \A d \in Calls \ {c} : Home[d] = Home[c] => pc[d] = "idle"
    BY <1>6 DEF Undelivered, OneLiveSlot, PassesInFlight
  <2> QED
    BY <2>1, <2>2 DEF TypeOK
<1>7. ASSUME NEW c \in Calls, Delivered(c)
      PROVE  Widens'
  <2>1. /\ consecutiveFailures' = [consecutiveFailures EXCEPT ![Home[c]] = 0]
        /\ lost' = [lost EXCEPT ![Home[c]] = 0]
        /\ pc' = [pc EXCEPT ![c] = "stamping"]
    BY <1>7, RecordDelivery DEF Delivered
  <2>2. \A d \in Calls \ {c} : Home[d] = Home[c] => pc[d] = "idle"
    BY <1>7 DEF Delivered, OneLiveSlot, PassesInFlight
  <2> QED
    BY <2>1, <2>2 DEF TypeOK
<1>8. ASSUME NEW p \in Procs, Restart(p)
      PROVE  Widens'
  BY <1>8 DEF Restart, TypeOK
<1>9. ASSUME Tick \/ ClockStep \/ Outage \/ (\E p \in Procs : SetTelemetry(p))
                \/ UNCHANGED vars
      PROVE  Widens'
  BY <1>9 DEF Tick, ClockStep, Outage, SetTelemetry, vars, gate, observed
<1> QED
  BY <1>1, <1>2, <1>3, <1>4, <1>5, <1>6, <1>7, <1>8, <1>9 DEF Next, Progress

(* No pass widens the re-check interval unless it attempted a delivery.    *)
THEOREM BackoffCountsAttempts == Spec => []OnlyAttemptsWiden
<1>1. Init => Widens
  BY GateAssumption DEF Init, Widens, OnlyAttemptsWiden, PendingCounted
<1>2. Widens => OnlyAttemptsWiden
  BY DEF Widens
<1> QED
  BY <1>1, <1>2, TypeCorrect, SlotIsExact, WidensNext, PTL DEF Spec

-----------------------------------------------------------------------------
(* The cadence *)

DueInv == PassDue /\ KnownIsDelivered

(* Every step keeps a pass due until its 2xx, and last_delivered the time  *)
(* of the last 2xx.                                                        *)
LEMMA DueNext == TypeOK /\ OneLiveSlot /\ DueInv /\ [Next]_vars => DueInv'
<1> USE GateAssumption
<1> SUFFICES ASSUME TypeOK, OneLiveSlot, DueInv, [Next]_vars
             PROVE  DueInv'
  OBVIOUS
<1> USE DEF DueInv, PassDue, KnownIsDelivered
<1>1. ASSUME NEW c \in Calls, Claim(c)
      PROVE  DueInv'
  BY <1>1 DEF Claim, GateOpen, TypeOK, observed
<1>2. ASSUME NEW c \in Calls,
             StampFresh(c) \/ Probe(c) \/ Post(c) \/ Accept(c) \/ write_stamp(c) \/ Cancel(c)
      PROVE  DueInv'
  BY <1>2 DEF StampFresh, Probe, CountAttempt, Post, Accept, write_stamp, Cancel,
              TypeOK, gate, observed
<1>3. ASSUME NEW c \in Calls, ClientBuildFails(c) \/ Undelivered(c)
      PROVE  DueInv'
  BY <1>3, RecordFailure DEF ClientBuildFails, CountAttempt, Undelivered, TypeOK, observed
<1>4. ASSUME NEW c \in Calls, Delivered(c)
      PROVE  DueInv'
  <2>1. /\ lastDelivered' = [lastDelivered EXCEPT ![Home[c]] = 0]
        /\ known' = [known EXCEPT ![Home[c]] = 0]
        /\ pc' = [pc EXCEPT ![c] = "stamping"]
    BY <1>4, RecordDelivery DEF Delivered
  <2>2. \A d \in Calls \ {c} : Home[d] = Home[c] => pc[d] = "idle"
    BY <1>4 DEF Delivered, OneLiveSlot, PassesInFlight
  <2> QED
    BY <2>1, <2>2 DEF TypeOK
<1>5. ASSUME NEW p \in Procs, Restart(p)
      PROVE  DueInv'
  BY <1>5 DEF Restart, TypeOK
<1>6. CASE Tick
  <2>1. \A p \in Procs :
           ~Within(lastDelivered[p], HEARTBEAT_INTERVAL)
              => ~Within(Older(lastDelivered[p]), HEARTBEAT_INTERVAL)
    BY DEF Within, Older, TypeOK, Age
  <2> QED
    BY <1>6, <2>1 DEF Tick, TypeOK
<1>7. ASSUME ClockStep \/ Outage \/ (\E p \in Procs : SetTelemetry(p)) \/ UNCHANGED vars
      PROVE  DueInv'
  BY <1>7 DEF ClockStep, Outage, SetTelemetry, vars, gate, observed
<1> QED
  BY <1>1, <1>2, <1>3, <1>4, <1>5, <1>6, <1>7 DEF Next, Progress

(* Every step of the gate is a step of the promise, or none.               *)
LEMMA CadenceStep ==
    TypeOK /\ OneLiveSlot /\ DueInv /\ [Next]_vars
        => [Cadence!CadenceNext]_(Cadence!cadenceVars)
<1> USE GateAssumption
<1> SUFFICES ASSUME TypeOK, OneLiveSlot, DueInv, [Next]_vars
             PROVE  [Cadence!CadenceNext]_(Cadence!cadenceVars)
  OBVIOUS
<1> USE DEF Cadence!CadenceNext, Cadence!cadenceVars, DueInv, KnownIsDelivered
<1>0. \A c \in Calls : pc[c] # "idle" => inFlight[Home[c]]
  BY DEF OneLiveSlot, PassesInFlight, TypeOK
<1>1. ASSUME NEW c \in Calls, Claim(c)
      PROVE  Cadence!Begin(Home[c])
  BY <1>1 DEF Claim, GateOpen, Within, TypeOK, Age, observed, Cadence!Begin, Cadence!Due
<1>2. ASSUME NEW c \in Calls,
             StampFresh(c) \/ ClientBuildFails(c) \/ Undelivered(c)
                \/ write_stamp(c) \/ Cancel(c)
      PROVE  Cadence!Finish(Home[c])
  BY <1>0, <1>2 DEF StampFresh, ClientBuildFails, CountAttempt, Undelivered, write_stamp,
                    Cancel, ReleaseSlot, observed, Cadence!Finish
<1>3. ASSUME NEW c \in Calls, Probe(c) \/ Post(c) \/ Accept(c)
      PROVE  UNCHANGED Cadence!cadenceVars
  BY <1>3 DEF Probe, CountAttempt, Post, Accept, gate, observed
<1>4. ASSUME NEW c \in Calls, Delivered(c)
      PROVE  Cadence!Deliver(Home[c])
  BY <1>0, <1>4 DEF Delivered, PassDue, Within, TypeOK, Age, Cadence!Deliver, Cadence!Due
<1>5. ASSUME NEW p \in Procs, Restart(p)
      PROVE  Cadence!Replace(p)
  BY <1>5 DEF Restart, Cadence!Replace
<1>6. CASE Tick
  BY <1>6 DEF Tick, Older, Cadence!Elapse
<1>7. ASSUME ClockStep \/ Outage \/ (\E p \in Procs : SetTelemetry(p)) \/ UNCHANGED vars
      PROVE  UNCHANGED Cadence!cadenceVars
  BY <1>7 DEF ClockStep, Outage, SetTelemetry, vars, gate, observed
<1> QED
  BY <1>1, <1>2, <1>3, <1>4, <1>5, <1>6, <1>7 DEF Next, Progress

(* The gate keeps the promise of PingCadence to every process: one attempt *)
(* at a time, and none within the interval of a delivery it knows of,      *)
(* whatever the stamp, the clock, the network and the callers do.          *)
THEOREM GateImplementsCadence == Spec => ProcessCadence
<1>1. Init => DueInv
  BY GateAssumption DEF Init, DueInv, PassDue, KnownIsDelivered, Within
<1>2. Init => Cadence!CadenceInit
  BY DEF Init, Cadence!CadenceInit
<1>3. Spec => []DueInv
  BY <1>1, DueNext, TypeCorrect, SlotIsExact, PTL DEF Spec
<1> QED
  BY <1>2, <1>3, CadenceStep, TypeCorrect, SlotIsExact, PTL
     DEF Spec, ProcessCadence, Cadence!CadenceSpec

-----------------------------------------------------------------------------
(* The stamp *)

(* Every pass can write the stamp, sees its own end and takes no hours.    *)
PassesComplete ==
    /\ \A c \in Calls : Home[c] \in StampHosts
    /\ Faults \subseteq {"outage", "build", "exit", "optout"}

Recording(c) == pc[c] \in {"accepted", "stamping"}

(* A ping is recorded within the hour in which it was accepted.            *)
RecordedPromptly == (\E c \in Calls : Recording(c)) => sinceAccepted = 0

(* A pass that found the stamp old is due, unless a pass that overlaps it  *)
(* was accepted first.                                                     *)
SenderDue ==
    \A c \in Calls :
        pc[c] \in {"probing", "posting"} =>
            sinceAccepted = 0 \/ ~Within(sinceAccepted, HEARTBEAT_INTERVAL)

StampInv == StampRecordsAcceptance /\ RecordedPromptly /\ SenderDue

(* A stamp that is not fresh, while it tells of every ping accepted, means *)
(* that none was accepted within the interval.                             *)
LEMMA NotFreshIsDue ==
    ASSUME PassesComplete, TypeOK, StampInv, NEW c \in Calls, ~stamp_is_fresh(Home[c])
    PROVE  sinceAccepted = 0 \/ ~Within(sinceAccepted, HEARTBEAT_INTERVAL)
<1>1. CASE \E d \in Calls : Recording(d)
  BY <1>1 DEF StampInv, RecordedPromptly
<1>2. CASE ~ \E d \in Calls : Recording(d)
  <2>1. stamp = sinceAccepted
    BY <1>2 DEF StampInv, StampRecordsAcceptance, Recording
  <2>2. stamp \in {Never, Ahead} \/ ~(stamp < HEARTBEAT_INTERVAL)
    BY DEF stamp_is_fresh, PassesComplete
  <2> QED
    BY <2>1, <2>2, GateAssumption DEF Within, TypeOK, Age
<1> QED
  BY <1>1, <1>2

(* Every step that completes keeps the stamp a record of what was accepted. *)
LEMMA StampNext ==
    ASSUME PassesComplete, TypeOK, TypeOK', StampInv, [Next]_vars
    PROVE  StampInv'
<1> USE GateAssumption DEF StampInv, StampRecordsAcceptance, RecordedPromptly, SenderDue, Recording
<1>1. ASSUME NEW c \in Calls, Claim(c) \/ StampFresh(c) \/ ClientBuildFails(c)
      PROVE  StampInv'
  BY <1>1 DEF Claim, StampFresh, ClientBuildFails, TypeOK, world
<1>2. ASSUME NEW c \in Calls, Probe(c)
      PROVE  StampInv'
  BY <1>2, NotFreshIsDue DEF Probe, TypeOK, world
<1>3. ASSUME NEW c \in Calls, Post(c) \/ Delivered(c)
      PROVE  StampInv'
  BY <1>3 DEF Post, Delivered, TypeOK, world
<1>4. ASSUME NEW c \in Calls, Accept(c)
      PROVE  StampInv'
  BY <1>4 DEF Accept, TypeOK
<1>5. ASSUME NEW c \in Calls, Undelivered(c)
      PROVE  StampInv'
  BY <1>5 DEF Undelivered, PassesComplete, TypeOK, world
<1>6. ASSUME NEW c \in Calls, write_stamp(c)
      PROVE  StampInv'
  BY <1>6 DEF write_stamp, PassesComplete, TypeOK
<1>7. ASSUME NEW p \in Procs, Restart(p)
      PROVE  StampInv'
  BY <1>7 DEF Restart, StampMayLand, PassesComplete, TypeOK
<1>8. CASE Tick
  <2>1. \A c \in Calls : pc[c] = "idle" /\ pc'[c] = "idle"
    BY <1>8 DEF Tick, PassesInFlight, PassesComplete
  <2>2. stamp = sinceAccepted /\ stamp # Ahead
    BY <2>1 DEF TypeOK, Age
  <2> QED
    BY <1>8, <2>1, <2>2 DEF Tick
<1>9. ASSUME Outage \/ (\E p \in Procs : SetTelemetry(p)) \/ UNCHANGED vars
      PROVE  StampInv'
  BY <1>9 DEF Outage, SetTelemetry, vars, world, TypeOK
<1>10. ~ClockStep /\ \A c \in Calls : ~Cancel(c)
  BY DEF ClockStep, Cancel, PassesComplete
<1> QED
  BY <1>1, <1>2, <1>3, <1>4, <1>5, <1>6, <1>7, <1>8, <1>9, <1>10 DEF Next, Progress

LEMMA StampInvariant == ASSUME PassesComplete PROVE Spec => []StampInv
<1>1. Init => StampInv
  BY DEF Init, StampInv, StampRecordsAcceptance, RecordedPromptly, SenderDue, Recording
<1>2. TypeOK /\ TypeOK' /\ StampInv /\ [Next]_vars => StampInv'
  BY StampNext
<1> QED
  BY <1>1, <1>2, TypeCorrect, PTL DEF Spec

(* While every pass completes, the stamp the processes of a machine share  *)
(* tells when its last ping was accepted, however many processes there are *)
(* and however they are restarted between passes.                          *)
THEOREM StampTellsLastAcceptance ==
    ASSUME PassesComplete
    PROVE  Spec => []StampRecordsAcceptance
<1>1. StampInv => StampRecordsAcceptance
  BY DEF StampInv
<1> QED
  BY <1>1, StampInvariant, PTL

(* Under the same conditions only passes that overlap can get two pings of *)
(* a machine accepted within the interval.                                 *)
THEOREM SecondPingOverlaps ==
    ASSUME PassesComplete
    PROVE  Spec => OverlapOnly
<1>1. StampInv =>
         [\A c \in Calls :
             pc[c] = "posting" /\ pc'[c] = "accepted" /\ sinceAccepted # 0
                 => ~Within(sinceAccepted, HEARTBEAT_INTERVAL)]_vars
  BY DEF StampInv, SenderDue
<1> QED
  BY <1>1, StampInvariant, PTL DEF OverlapOnly

-----------------------------------------------------------------------------
(* The spacing of attempts *)

(* No pass is dropped between its attempt and its record, and none is      *)
(* suspended for hours.                                                    *)
PassesPrompt == Faults \cap {"cancel", "stall"} = {}

Pending(p) == \E c \in Calls : Home[c] = p /\ pc[c] \in {"probing", "posting", "accepted"}

(* consecutive_failures counts every attempt since the last 2xx, except    *)
(* the one that is under way.                                              *)
FailuresAreAttempts ==
    \A p \in Procs :
        lost[p] = IF Pending(p) THEN Clamp(consecutiveFailures[p] + 1, MAX_DOUBLINGS)
                                ELSE consecutiveFailures[p]

(* The hour of a pass is the hour of its claim.                            *)
PassIsBrief == \A c \in PassesInFlight : lastChecked[Home[c]] = 0

(* A process checks no earlier than it attempts, so the guard interval of  *)
(* last_checked also spaces the attempts.                                  *)
AttemptsAreChecked ==
    \A p \in Procs :
        sinceAttempt[p] # Never => lastChecked[p] # Never /\ lastChecked[p] <= sinceAttempt[p]

ClaimIsSpaced ==
    \A c \in Calls :
        pc[c] = "claimed" => ~Within(sinceAttempt[Home[c]], Spacing(lost[Home[c]]))

SpacingInv == FailuresAreAttempts /\ PassIsBrief /\ AttemptsAreChecked /\ ClaimIsSpaced

(* What the gate waits for is the spacing that the attempts call for.      *)
LEMMA GuardIsSpacing ==
    ASSUME NEW n \in 0 .. MAX_DOUBLINGS
    PROVE  guard_interval_for(n) = Spacing(n)
<1>1. Clamp(n, MAX_DOUBLINGS) = n
  BY GateAssumption DEF Clamp
<1> QED
  BY <1>1 DEF guard_interval_for, Spacing

(* The spacing is a number of hours.                                       *)
LEMMA SpacingIsInt ==
    ASSUME NEW n \in 0 .. MAX_DOUBLINGS
    PROVE  Spacing(n) \in Int
<1>1. 2 ^ n \in Int
  OBVIOUS
<1> QED
  BY <1>1, GateAssumption DEF Spacing, Clamp

(* While a pass is under way no other pass of its process is.              *)
LEMMA OthersIdle ==
    ASSUME TypeOK, OneLiveSlot, NEW c \in Calls, pc[c] # "idle"
    PROVE  \A d \in Calls \ {c} : Home[d] = Home[c] => pc[d] = "idle"
BY DEF OneLiveSlot, PassesInFlight

(* Every step of passes that are neither dropped nor suspended keeps the   *)
(* attempts counted and spaced.                                            *)
LEMMA SpacingNext ==
    ASSUME PassesPrompt, TypeOK, OneLiveSlot, SpacingInv, [Next]_vars
    PROVE  SpacingInv'
<1> USE GateAssumption
<1> USE DEF SpacingInv, FailuresAreAttempts, Pending, PassIsBrief, PassesInFlight,
            AttemptsAreChecked, ClaimIsSpaced
<1>1. ASSUME NEW c \in Calls, Claim(c)
      PROVE  SpacingInv'
  <2> DEFINE p == Home[c]
  <2>1. /\ lastChecked' = [lastChecked EXCEPT ![p] = 0]
        /\ pc' = [pc EXCEPT ![c] = "claimed"]
        /\ UNCHANGED <<consecutiveFailures, sinceAttempt, lost>>
        /\ pc[c] = "idle"
    BY <1>1 DEF Claim, observed
  <2>2. \A d \in Calls : Home[d] = p => pc[d] = "idle"
    BY <1>1 DEF Claim, GateOpen, OneLiveSlot
  <2>3. FailuresAreAttempts' /\ PassIsBrief'
    BY <2>1, <2>2 DEF TypeOK
  <2>4. AttemptsAreChecked'
    BY <2>1 DEF TypeOK, Age
  <2>5. lost[p] = consecutiveFailures[p] /\ consecutiveFailures[p] \in 0 .. MAX_DOUBLINGS
    BY <2>2 DEF TypeOK
  <2>6. ~Within(lastChecked[p], Spacing(lost[p])) /\ Spacing(lost[p]) \in Int
    BY <1>1, <2>5, GuardIsSpacing, SpacingIsInt DEF Claim, GateOpen
  <2>7. ~Within(sinceAttempt[p], Spacing(lost[p]))
    BY <2>6 DEF Within, TypeOK, Age
  <2>8. ClaimIsSpaced'
    BY <2>1, <2>2, <2>7 DEF TypeOK, Within
  <2> QED
    BY <2>3, <2>4, <2>8
<1>2. ASSUME NEW c \in Calls, StampFresh(c) \/ write_stamp(c)
      PROVE  SpacingInv'
  BY <1>2, OthersIdle DEF StampFresh, write_stamp, TypeOK, observed
<1>3. ASSUME NEW c \in Calls, Post(c) \/ Accept(c)
      PROVE  SpacingInv'
  BY <1>3 DEF Post, Accept, TypeOK, gate, observed
<1>4. ASSUME NEW c \in Calls, Probe(c)
      PROVE  SpacingInv'
  <2>1. /\ UNCHANGED <<lastChecked, consecutiveFailures>>
        /\ sinceAttempt' = [sinceAttempt EXCEPT ![Home[c]] = 0]
        /\ lost' = [lost EXCEPT ![Home[c]] = Clamp(lost[Home[c]] + 1, MAX_DOUBLINGS)]
        /\ pc' = [pc EXCEPT ![c] = "probing"]
        /\ pc[c] = "claimed"
    BY <1>4 DEF Probe, CountAttempt, gate
  <2>2. \A d \in Calls \ {c} : Home[d] = Home[c] => pc[d] = "idle"
    BY <2>1, OthersIdle
  <2> QED
    BY <2>1, <2>2 DEF TypeOK, Age
<1>5. ASSUME NEW c \in Calls, ClientBuildFails(c)
      PROVE  SpacingInv'
  <2>1. /\ UNCHANGED lastChecked
        /\ consecutiveFailures' = [consecutiveFailures EXCEPT
               ![Home[c]] = Clamp(consecutiveFailures[Home[c]] + 1, MAX_DOUBLINGS)]
        /\ sinceAttempt' = [sinceAttempt EXCEPT ![Home[c]] = 0]
        /\ lost' = [lost EXCEPT ![Home[c]] = Clamp(lost[Home[c]] + 1, MAX_DOUBLINGS)]
        /\ pc' = [pc EXCEPT ![c] = "idle"]
        /\ pc[c] = "claimed"
    BY <1>5, RecordFailure DEF ClientBuildFails, CountAttempt
  <2>2. \A d \in Calls \ {c} : Home[d] = Home[c] => pc[d] = "idle"
    BY <2>1, OthersIdle
  <2> QED
    BY <2>1, <2>2 DEF TypeOK, Age
<1>6. ASSUME NEW c \in Calls, Undelivered(c)
      PROVE  SpacingInv'
  <2>1. /\ UNCHANGED <<lastChecked, sinceAttempt, lost>>
        /\ consecutiveFailures' = [consecutiveFailures EXCEPT
               ![Home[c]] = Clamp(consecutiveFailures[Home[c]] + 1, MAX_DOUBLINGS)]
        /\ pc' = [pc EXCEPT ![c] = "idle"]
        /\ pc[c] \in {"posting", "accepted"}
    BY <1>6, RecordFailure DEF Undelivered, observed
  <2>2. \A d \in Calls \ {c} : Home[d] = Home[c] => pc[d] = "idle"
    BY <2>1, OthersIdle
  <2> QED
    BY <2>1, <2>2 DEF TypeOK
<1>7. ASSUME NEW c \in Calls, Delivered(c)
      PROVE  SpacingInv'
  <2>1. /\ UNCHANGED <<lastChecked, sinceAttempt>>
        /\ consecutiveFailures' = [consecutiveFailures EXCEPT ![Home[c]] = 0]
        /\ lost' = [lost EXCEPT ![Home[c]] = 0]
        /\ pc' = [pc EXCEPT ![c] = "stamping"]
        /\ pc[c] = "accepted"
    BY <1>7, RecordDelivery DEF Delivered
  <2>2. \A d \in Calls \ {c} : Home[d] = Home[c] => pc[d] = "idle"
    BY <2>1, OthersIdle
  <2> QED
    BY <2>1, <2>2 DEF TypeOK
<1>8. ASSUME NEW p \in Procs, Restart(p)
      PROVE  SpacingInv'
  BY <1>8 DEF Restart, TypeOK
<1>9. CASE Tick
  <2>1. \A c \in Calls : pc[c] = "idle"
    BY <1>9 DEF Tick, PassesPrompt
  <2>2. /\ lastChecked' = [p \in Procs |-> Older(lastChecked[p])]
        /\ sinceAttempt' = [p \in Procs |-> Older(sinceAttempt[p])]
        /\ UNCHANGED <<consecutiveFailures, pc, lost>>
    BY <1>9 DEF Tick
  <2>3. AttemptsAreChecked'
    BY <2>2 DEF Older, TypeOK, Age
  <2> QED
    BY <2>1, <2>2, <2>3
<1>10. ASSUME ClockStep \/ Outage \/ (\E p \in Procs : SetTelemetry(p)) \/ UNCHANGED vars
      PROVE  SpacingInv'
  BY <1>10 DEF ClockStep, Outage, SetTelemetry, vars, gate, observed
<1>11. \A c \in Calls : ~Cancel(c)
  BY DEF Cancel, PassesPrompt
<1> QED
  BY <1>1, <1>2, <1>3, <1>4, <1>5, <1>6, <1>7, <1>8, <1>9, <1>10, <1>11 DEF Next, Progress

(* After n attempts in a row without a delivery the next attempt of the    *)
(* process is at least guard * 2^n away, up to the heartbeat interval,     *)
(* whatever became of the stamp, the answers and the opt-out between them. *)
THEOREM UnreachableIsSpaced ==
    ASSUME PassesPrompt
    PROVE  Spec => UnreachableBacksOff
<1>1. Init => SpacingInv
  BY GateAssumption DEF Init, SpacingInv, FailuresAreAttempts, Pending, PassIsBrief,
                        PassesInFlight, AttemptsAreChecked, ClaimIsSpaced
<1>2. TypeOK /\ OneLiveSlot /\ SpacingInv /\ [Next]_vars => SpacingInv'
  BY SpacingNext
<1>3. SpacingInv =>
         [\A c \in Calls :
             LET p == Home[c] IN
             pc[c] = "claimed" /\ pc'[c] = "probing"
                 => ~Within(sinceAttempt[p], Spacing(lost[p]))]_vars
  BY DEF SpacingInv, ClaimIsSpaced
<1> QED
  BY <1>1, <1>2, <1>3, TypeCorrect, SlotIsExact, PTL DEF Spec, UnreachableBacksOff
=============================================================================
