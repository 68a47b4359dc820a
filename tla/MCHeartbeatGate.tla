-------------------------- MODULE MCHeartbeatGate --------------------------
(* Small instances of HeartbeatGate: processes and calls are numbers, and  *)
(* call c runs in process (c mod number of processes) + 1.                 *)
EXTENDS HeartbeatGate

MCHome == [c \in Calls |-> (c % Cardinality(Procs)) + 1]
=============================================================================
