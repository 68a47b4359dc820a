---------------------------- MODULE PingCadence ----------------------------
(***************************************************************************)
(* What the telemetry heartbeat promises about ONE process, whatever the   *)
(* machine's stamp file, clock, network and callers do: at most one        *)
(* attempt at a time, and no attempt within HEARTBEAT_INTERVAL of a        *)
(* delivery the process knows of.  HeartbeatGate implements it.            *)
(***************************************************************************)
EXTENDS Naturals

CONSTANTS Procs, HEARTBEAT_INTERVAL, Never

VARIABLES attempting,  \* attempting[p]: a ping attempt of p is under way
          since        \* since[p]: hours since p learnt of a delivery, or Never

cadenceVars == <<attempting, since>>

Due(p) == since[p] = Never \/ since[p] >= HEARTBEAT_INTERVAL

Begin(p) ==
    /\ ~attempting[p]
    /\ Due(p)
    /\ attempting' = [attempting EXCEPT ![p] = TRUE]
    /\ UNCHANGED since

Deliver(p) ==
    /\ attempting[p]
    /\ Due(p)
    /\ since' = [since EXCEPT ![p] = 0]
    /\ UNCHANGED attempting

Finish(p) ==
    /\ attempting[p]
    /\ attempting' = [attempting EXCEPT ![p] = FALSE]
    /\ UNCHANGED since

(* The process is replaced by a fresh one, which knows of no delivery.     *)
Replace(p) ==
    /\ attempting' = [attempting EXCEPT ![p] = FALSE]
    /\ since' = [since EXCEPT ![p] = Never]

(* Ages past HEARTBEAT_INTERVAL are all alike.                             *)
Elapse ==
    /\ since' = [p \in Procs |->
                    IF since[p] # Never /\ since[p] < HEARTBEAT_INTERVAL
                    THEN since[p] + 1 ELSE since[p]]
    /\ UNCHANGED attempting

CadenceInit ==
    /\ attempting = [p \in Procs |-> FALSE]
    /\ since = [p \in Procs |-> Never]

CadenceNext ==
    \/ \E p \in Procs : Begin(p) \/ Deliver(p) \/ Finish(p) \/ Replace(p)
    \/ Elapse

CadenceSpec == CadenceInit /\ [][CadenceNext]_cadenceVars
=============================================================================
