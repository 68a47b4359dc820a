--------------------------- MODULE HeartbeatGate ---------------------------
(***************************************************************************)
(* The telemetry heartbeat of the SDK (src/src/heartbeat.rs): the          *)
(* process-wide gate, the stamp file the processes of a machine share, and *)
(* the checkpoint service that receives the pings.                         *)
(*                                                                         *)
(* Each call of a client is a member of Calls and runs in process Home[c]. *)
(* A call that the gate lets through carries the whole pass: claim, stamp  *)
(* check, /health probe, POST, record_attempt, write_stamp, slot release.  *)
(* Two steps of one call are separated exactly where the code awaits, so a *)
(* call can be dropped there, and other calls and processes can run there. *)
(*                                                                         *)
(* Time is discrete (one unit is an hour of the code).  Every instant the  *)
(* code keeps is compared only with bounds up to HEARTBEAT_INTERVAL, so    *)
(* the model keeps its age, saturated at HEARTBEAT_INTERVAL.               *)
(***************************************************************************)
EXTENDS Naturals, FiniteSets

CONSTANTS
    Procs, Calls, Home,
    HEARTBEAT_INTERVAL, HEARTBEAT_GUARD_INTERVAL,
    MAX_DOUBLINGS,  \* the clamp on consecutive_failures (16 in the code)
    StampHosts,     \* processes for which resolve_stamp_path gives a path
    Faults,         \* which of FaultKinds may happen
    Never,          \* an instant or a file that does not exist
    Ahead           \* a stamp whose mtime is in the future

FaultKinds ==
    {"outage",      \* the checkpoint service cannot be reached for a while
     "lostAnswer",  \* it accepts a ping and its answer does not arrive
     "build",       \* telemetry_client() fails
     "readonly",    \* the stamp cannot be written
     "cancel",      \* a pass is dropped at an await
     "exit",        \* a process ends between passes and is started again
     "crash",       \* a process ends at any point and is started again
     "stall",       \* hours pass while a pass is suspended
     "clock",       \* the wall clock is stepped
     "optout"}      \* AXONFLOW_TELEMETRY changes while the process runs

ASSUME GateAssumption ==
    /\ Home \in [Calls -> Procs]
    /\ HEARTBEAT_GUARD_INTERVAL \in Nat \ {0}
    /\ HEARTBEAT_INTERVAL \in Nat \ {0}
    /\ MAX_DOUBLINGS \in Nat
    /\ StampHosts \subseteq Procs
    /\ Faults \subseteq FaultKinds
    /\ Never \notin Nat
    /\ Ahead \notin Nat \cup {Never}

VARIABLES
    lastChecked, inFlight, consecutiveFailures, lastDelivered, \* GateInner
    telemetryOff,   \* [Procs -> BOOLEAN], the environment variable
    pc,             \* [Calls -> Phases], where each call's pass is
    stamp,          \* age of the machine's stamp file
    checkpointUp,   \* whether the checkpoint service can be reached
    sinceAccepted,  \* age of the last ping it accepted from this machine
    known,          \* [Procs -> ], age of the last 2xx the process received
    sinceAttempt,   \* [Procs -> ], age of its last attempt
    lost            \* [Procs -> ], its attempts since that 2xx

gate     == <<lastChecked, inFlight, consecutiveFailures, lastDelivered>>
observed == <<known, sinceAttempt, lost>>
world    == <<stamp, checkpointUp, sinceAccepted>>
vars     == <<gate, telemetryOff, pc, world, observed>>

Phases == {"idle", "claimed", "probing", "posting", "accepted", "stamping"}

Age == 0 .. HEARTBEAT_INTERVAL

TypeOK ==
    /\ lastChecked \in [Procs -> Age \cup {Never}]
    /\ inFlight \in [Procs -> BOOLEAN]
    /\ consecutiveFailures \in [Procs -> 0 .. MAX_DOUBLINGS]
    /\ lastDelivered \in [Procs -> Age \cup {Never}]
    /\ telemetryOff \in [Procs -> BOOLEAN]
    /\ pc \in [Calls -> Phases]
    /\ stamp \in Age \cup {Never, Ahead}
    /\ checkpointUp \in BOOLEAN
    /\ sinceAccepted \in Age \cup {Never}
    /\ known \in [Procs -> Age \cup {Never}]
    /\ sinceAttempt \in [Procs -> Age \cup {Never}]
    /\ lost \in [Procs -> 0 .. MAX_DOUBLINGS]

-----------------------------------------------------------------------------
(* Ages *)

Within(age, bound) == age # Never /\ age < bound

Older(age) == IF age # Never /\ age < HEARTBEAT_INTERVAL THEN age + 1 ELSE age

Clamp(n, max) == IF n < max THEN n ELSE max

Mutant_guard_interval_for(failures) == HEARTBEAT_GUARD_INTERVAL

(* Doubling from the guard interval, capped at the heartbeat interval.     *)
guard_interval_for(failures) ==
    Clamp(HEARTBEAT_GUARD_INTERVAL * 2 ^ Clamp(failures, MAX_DOUBLINGS),
          HEARTBEAT_INTERVAL)

-----------------------------------------------------------------------------
(* The gate *)

Mutant_GateOpen(p) ==
    /\ ~inFlight[p]
    /\ ~Within(lastChecked[p], guard_interval_for(consecutiveFailures[p]))

(* The three conditions under which claim_gate_slot gives out the slot.    *)
GateOpen(p) ==
    /\ ~inFlight[p]
    /\ ~Within(lastChecked[p], guard_interval_for(consecutiveFailures[p]))
    /\ ~Within(lastDelivered[p], HEARTBEAT_INTERVAL)

Mutant_ReleaseSlot(p) == UNCHANGED inFlight

(* GateSlot::drop                                                          *)
ReleaseSlot(p) == inFlight' = [inFlight EXCEPT ![p] = FALSE]

Mutant_record_attempt(p, outcome) ==
    /\ consecutiveFailures' = [consecutiveFailures EXCEPT
           ![p] = IF outcome = "delivered" THEN 0 ELSE Clamp(@ + 1, MAX_DOUBLINGS)]
    /\ UNCHANGED lastDelivered

Mutant2_record_attempt(p, outcome) ==
    /\ consecutiveFailures' = [consecutiveFailures EXCEPT
           ![p] = IF outcome = "delivered" THEN 0 ELSE @ + 1]
    /\ lastDelivered' = [lastDelivered EXCEPT ![p] = IF outcome = "delivered" THEN 0 ELSE @]

(* The counter of the code saturates at u32::MAX; guard_interval_for looks *)
(* at it only up to MAX_DOUBLINGS.                                         *)
record_attempt(p, outcome) ==
    /\ consecutiveFailures' = [consecutiveFailures EXCEPT
           ![p] = IF outcome = "delivered" THEN 0 ELSE Clamp(@ + 1, MAX_DOUBLINGS)]
    /\ lastDelivered' = [lastDelivered EXCEPT ![p] = IF outcome = "delivered" THEN 0 ELSE @]

Mutant_stamp_is_fresh(p) ==
    /\ p \in StampHosts
    /\ stamp \notin {Never, Ahead}
    /\ stamp < HEARTBEAT_GUARD_INTERVAL

(* A mtime in the future makes duration_since fail, which is "not fresh".  *)
stamp_is_fresh(p) ==
    /\ p \in StampHosts
    /\ stamp \notin {Never, Ahead}
    /\ stamp < HEARTBEAT_INTERVAL

PassesInFlight == {c \in Calls : pc[c] # "idle"}

-----------------------------------------------------------------------------
(* One pass *)

(* prepare_heartbeat: the opt-out first, then the claim; last_checked is   *)
(* stamped before anything is sent.                                        *)
Claim(c) ==
    LET p == Home[c] IN
    /\ pc[c] = "idle"
    /\ ~telemetryOff[p]
    /\ GateOpen(p)
    /\ lastChecked' = [lastChecked EXCEPT ![p] = 0]
    /\ inFlight' = [inFlight EXCEPT ![p] = TRUE]
    /\ pc' = [pc EXCEPT ![c] = "claimed"]
    /\ UNCHANGED <<consecutiveFailures, lastDelivered, telemetryOff, world, observed>>

Mutant_StampFresh(c) ==
    LET p == Home[c] IN
    /\ pc[c] = "claimed"
    /\ stamp_is_fresh(p)
    /\ record_attempt(p, "failed")
    /\ ReleaseSlot(p)
    /\ pc' = [pc EXCEPT ![c] = "idle"]
    /\ UNCHANGED <<lastChecked, telemetryOff, world, observed>>

(* gated_send returns at a fresh stamp: nothing is sent or recorded.       *)
StampFresh(c) ==
    LET p == Home[c] IN
    /\ pc[c] = "claimed"
    /\ stamp_is_fresh(p)
    /\ ReleaseSlot(p)
    /\ pc' = [pc EXCEPT ![c] = "idle"]
    /\ UNCHANGED <<lastChecked, consecutiveFailures, lastDelivered,
                   telemetryOff, world, observed>>

(* An attempt starts; lost counts it until a 2xx arrives.                  *)
CountAttempt(p) ==
    /\ lost' = [lost EXCEPT ![p] = Clamp(@ + 1, MAX_DOUBLINGS)]
    /\ sinceAttempt' = [sinceAttempt EXCEPT ![p] = 0]
    /\ UNCHANGED known

(* send_heartbeat up to the probe's await.                                 *)
Probe(c) ==
    LET p == Home[c] IN
    /\ pc[c] = "claimed"
    /\ ~stamp_is_fresh(p)
    /\ CountAttempt(p)
    /\ pc' = [pc EXCEPT ![c] = "probing"]
    /\ UNCHANGED <<gate, telemetryOff, world>>

ClientBuildFails(c) ==
    LET p == Home[c] IN
    /\ "build" \in Faults
    /\ pc[c] = "claimed"
    /\ ~stamp_is_fresh(p)
    /\ CountAttempt(p)
    /\ record_attempt(p, "failed")
    /\ ReleaseSlot(p)
    /\ pc' = [pc EXCEPT ![c] = "idle"]
    /\ UNCHANGED <<lastChecked, telemetryOff, world>>

(* Whatever the probe did, the POST follows.                               *)
Post(c) ==
    /\ pc[c] = "probing"
    /\ pc' = [pc EXCEPT ![c] = "posting"]
    /\ UNCHANGED <<gate, telemetryOff, world, observed>>

(* The checkpoint service takes the ping and answers 2xx.                  *)
Accept(c) ==
    /\ pc[c] = "posting"
    /\ checkpointUp
    /\ sinceAccepted' = 0
    /\ pc' = [pc EXCEPT ![c] = "accepted"]
    /\ UNCHANGED <<gate, telemetryOff, stamp, checkpointUp, observed>>

(* The 2xx arrives: record_attempt(true), then write_stamp starts.         *)
Delivered(c) ==
    LET p == Home[c] IN
    /\ pc[c] = "accepted"
    /\ record_attempt(p, "delivered")
    /\ known' = [known EXCEPT ![p] = 0]
    /\ lost' = [lost EXCEPT ![p] = 0]
    /\ pc' = [pc EXCEPT ![c] = "stamping"]
    /\ UNCHANGED <<lastChecked, inFlight, telemetryOff, world, sinceAttempt>>

(* Refused, redirected, unreachable or out of budget; or accepted with the *)
(* answer lost: record_attempt(false) and the pass ends.                   *)
Undelivered(c) ==
    LET p == Home[c] IN
    /\ \/ pc[c] = "posting" /\ ~checkpointUp
       \/ pc[c] = "accepted" /\ "lostAnswer" \in Faults
    /\ record_attempt(p, "failed")
    /\ ReleaseSlot(p)
    /\ pc' = [pc EXCEPT ![c] = "idle"]
    /\ UNCHANGED <<lastChecked, telemetryOff, world, observed>>

Mutant_write_stamp(c) ==
    LET p == Home[c] IN
    /\ pc[c] = "stamping"
    /\ ReleaseSlot(p)
    /\ pc' = [pc EXCEPT ![c] = "idle"]
    /\ UNCHANGED <<lastChecked, consecutiveFailures, lastDelivered, telemetryOff, 
                   world, observed>>

(* The stamp moves to now, unless it cannot be written; the pass is over.  *)
write_stamp(c) ==
    LET p == Home[c] IN
    /\ pc[c] = "stamping"
    /\ \/ p \in StampHosts /\ stamp' = 0
       \/ (p \notin StampHosts \/ "readonly" \in Faults) /\ UNCHANGED stamp
    /\ ReleaseSlot(p)
    /\ pc' = [pc EXCEPT ![c] = "idle"]
    /\ UNCHANGED <<lastChecked, consecutiveFailures, lastDelivered, telemetryOff,
                   checkpointUp, sinceAccepted, observed>>

(* A write that was started may land although nobody waits for it.         *)
StampMayLand(p, wasStamping) ==
    \/ UNCHANGED stamp
    \/ wasStamping /\ p \in StampHosts /\ stamp' = 0

Mutant_Cancel(c) ==
    LET p == Home[c] IN
    /\ "cancel" \in Faults
    /\ pc[c] # "idle"
    /\ StampMayLand(p, pc[c] = "stamping")
    /\ pc' = [pc EXCEPT ![c] = "idle"]
    /\ UNCHANGED <<gate, telemetryOff, checkpointUp, sinceAccepted, observed>>

(* The future is dropped at an await: the caller gave up on the request,   *)
(* the outer timeout fired, or the runtime shut a spawned pass down.  The  *)
(* slot is released and nothing is recorded.                               *)
Cancel(c) ==
    LET p == Home[c] IN
    /\ "cancel" \in Faults
    /\ pc[c] # "idle"
    /\ StampMayLand(p, pc[c] = "stamping")
    /\ ReleaseSlot(p)
    /\ pc' = [pc EXCEPT ![c] = "idle"]
    /\ UNCHANGED <<lastChecked, consecutiveFailures, lastDelivered, telemetryOff,
                   checkpointUp, sinceAccepted, observed>>

-----------------------------------------------------------------------------
(* The surroundings *)

(* The process ends and another is started: a fresh gate, the same stamp.  *)
Restart(p) ==
    LET calls == {c \in Calls : Home[c] = p} IN
    /\ \/ "crash" \in Faults
       \/ "exit" \in Faults /\ \A c \in calls : pc[c] = "idle"
    /\ lastChecked' = [lastChecked EXCEPT ![p] = Never]
    /\ inFlight' = [inFlight EXCEPT ![p] = FALSE]
    /\ consecutiveFailures' = [consecutiveFailures EXCEPT ![p] = 0]
    /\ lastDelivered' = [lastDelivered EXCEPT ![p] = Never]
    /\ StampMayLand(p, \E c \in calls : pc[c] = "stamping")
    /\ pc' = [c \in Calls |-> IF c \in calls THEN "idle" ELSE pc[c]]
    /\ known' = [known EXCEPT ![p] = Never]
    /\ sinceAttempt' = [sinceAttempt EXCEPT ![p] = Never]
    /\ lost' = [lost EXCEPT ![p] = 0]
    /\ UNCHANGED <<telemetryOff, checkpointUp, sinceAccepted>>

(* An hour passes.  A pass takes seconds, so none is under way unless it   *)
(* was suspended.  A stamp ahead of the clock may be caught up with.       *)
Tick ==
    /\ "stall" \in Faults \/ PassesInFlight = {}
    /\ lastChecked' = [p \in Procs |-> Older(lastChecked[p])]
    /\ lastDelivered' = [p \in Procs |-> Older(lastDelivered[p])]
    /\ \/ stamp # Ahead /\ stamp' = Older(stamp)
       \/ stamp = Ahead /\ stamp' \in {Ahead, 0}
    /\ sinceAccepted' = Older(sinceAccepted)
    /\ known' = [p \in Procs |-> Older(known[p])]
    /\ sinceAttempt' = [p \in Procs |-> Older(sinceAttempt[p])]
    /\ UNCHANGED <<inFlight, consecutiveFailures, telemetryOff, pc, checkpointUp, lost>>

ClockStep ==
    /\ "clock" \in Faults
    /\ stamp # Never
    /\ stamp' \in Age \cup {Ahead}
    /\ UNCHANGED <<gate, telemetryOff, pc, checkpointUp, sinceAccepted, observed>>

Outage ==
    /\ "outage" \in Faults
    /\ checkpointUp' = ~checkpointUp
    /\ UNCHANGED <<gate, telemetryOff, pc, stamp, sinceAccepted, observed>>

SetTelemetry(p) ==
    /\ "optout" \in Faults
    /\ telemetryOff' = [telemetryOff EXCEPT ![p] = ~@]
    /\ UNCHANGED <<gate, pc, world, observed>>

-----------------------------------------------------------------------------
Init ==
    /\ lastChecked = [p \in Procs |-> Never]
    /\ inFlight = [p \in Procs |-> FALSE]
    /\ consecutiveFailures = [p \in Procs |-> 0]
    /\ lastDelivered = [p \in Procs |-> Never]
    /\ telemetryOff = [p \in Procs |-> FALSE]
    /\ pc = [c \in Calls |-> "idle"]
    /\ stamp = Never
    /\ checkpointUp \in BOOLEAN /\ ("outage" \notin Faults => checkpointUp)
    /\ sinceAccepted = Never
    /\ known = [p \in Procs |-> Never]
    /\ sinceAttempt = [p \in Procs |-> Never]
    /\ lost = [p \in Procs |-> 0]

Progress(c) ==
    \/ StampFresh(c)
    \/ Probe(c)
    \/ ClientBuildFails(c)
    \/ Post(c)
    \/ Accept(c)
    \/ Delivered(c)
    \/ Undelivered(c)
    \/ write_stamp(c)

Next ==
    \/ \E c \in Calls : Claim(c) \/ Progress(c) \/ Cancel(c)
    \/ \E p \in Procs : Restart(p) \/ SetTelemetry(p)
    \/ Tick
    \/ ClockStep
    \/ Outage

Spec == Init /\ [][Next]_vars

(* Time passes however often passes begin or processes are replaced, every *)
(* process keeps issuing requests, and the awaits of a pass all end: they  *)
(* share the 3 s budget.                                                   *)
FairSpec ==
    /\ Spec
    /\ SF_vars(Tick)
    /\ \A c \in Calls : WF_vars(Progress(c))
    /\ \A p \in Procs : WF_vars(\E c \in Calls : Home[c] = p /\ Claim(c))

-----------------------------------------------------------------------------
(* Properties *)

(* GateSlot: the flag is set exactly while a pass of the process runs, and *)
(* never for two of them, however passes end (return, drop, outer timeout, *)
(* crash) and whichever calls race for the gate.                           *)
OneLiveSlot ==
    /\ \A p \in Procs :
          inFlight[p] <=> \E c \in PassesInFlight : Home[c] = p
    /\ \A c, d \in PassesInFlight : Home[c] = Home[d] => c = d

(* record_attempt: the re-check interval never widens beyond what the      *)
(* attempts the process really made since its last delivery account for;   *)
(* a pass that stopped at the fresh stamp is not a failure.                *)
OnlyAttemptsWiden == \A p \in Procs : consecutiveFailures[p] <= lost[p]

(* How far apart two attempts are after n attempts without a delivery.     *)
Spacing(n) == Clamp(HEARTBEAT_GUARD_INTERVAL * 2 ^ n, HEARTBEAT_INTERVAL)

(* guard_interval_for and record_attempt together: after n attempts in a   *)
(* row without a delivery the next one is Spacing(n) away from the last.   *)
UnreachableBacksOff ==
    [][\A c \in Calls :
          LET p == Home[c] IN
          pc[c] = "claimed" /\ pc'[c] = "probing"
              => ~Within(sinceAttempt[p], Spacing(lost[p]))]_vars

(* "At most one ping per machine per 7 days": the checkpoint service does  *)
(* not accept a second ping of the machine within the interval.            *)
MachineCadence ==
    [][\A c \in Calls :
          pc[c] = "posting" /\ pc'[c] = "accepted"
              => ~Within(sinceAccepted, HEARTBEAT_INTERVAL)]_vars

(* Passes that overlap are the only way to a second ping within the        *)
(* interval: once the hour in which one was accepted is over, no process   *)
(* of the machine gets another accepted before the interval is.            *)
OverlapOnly ==
    [][\A c \in Calls :
          pc[c] = "posting" /\ pc'[c] = "accepted" /\ sinceAccepted # 0
              => ~Within(sinceAccepted, HEARTBEAT_INTERVAL)]_vars

(* write_stamp: once the passes that got a ping accepted are over, the     *)
(* stamp that every process of the machine reads tells when that was.      *)
StampRecordsAcceptance ==
    (\A c \in Calls : pc[c] \notin {"accepted", "stamping"}) => stamp = sinceAccepted

(* The gate implements the promise made to each process: one attempt at a  *)
(* time, none within HEARTBEAT_INTERVAL of a delivery it knows of.         *)
Cadence == INSTANCE PingCadence WITH attempting <- inFlight, since <- known

ProcessCadence == Cadence!CadenceSpec

(* A machine that keeps using the SDK stays visible: once the checkpoint   *)
(* service is reachable and telemetry on for good, pings keep being        *)
(* accepted.                                                               *)
StaysVisible ==
    <>[](checkpointUp /\ \A p \in Procs : ~telemetryOff[p]) => []<>(sinceAccepted = 0)
=============================================================================
