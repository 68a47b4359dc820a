------------------------------ MODULE PingPass ------------------------------
(***************************************************************************)
(* One heartbeat pass, from the inside: send_heartbeat,                    *)
(* probe_platform_health and the payload (src/src/heartbeat.rs).           *)
(*                                                                         *)
(* The request that triggers it waits for it, so the probe of the          *)
(* application's platform and the POST to the checkpoint service share one *)
(* deadline.  What the platform says of itself is relayed member by        *)
(* member.  Time is in units of which MIN_BUDGET is a number; the process  *)
(* loses any of it wherever the scheduler leaves it (Stall).               *)
(***************************************************************************)
EXTENDS Naturals, Sequences

CONSTANTS
    HEARTBEAT_TIMEOUT, HEALTH_BUDGET_CAP, MIN_BUDGET,
    Members,     \* the members of /health that are relayed
    MaxStall     \* bound: what one Stall takes

(* budget_split_leaves_room_for_the_post                                   *)
ASSUME BudgetAssumption ==
    /\ HEARTBEAT_TIMEOUT \in Nat /\ HEALTH_BUDGET_CAP \in Nat /\ MIN_BUDGET \in Nat \ {0}
    /\ HEALTH_BUDGET_CAP + MIN_BUDGET < HEARTBEAT_TIMEOUT
    /\ MIN_BUDGET < HEALTH_BUDGET_CAP
    /\ MaxStall \in Nat

VARIABLES
    step,        \* where the pass is
    elapsed,     \* since its deadline was set
    budget,      \* what the request under way has left
    probe,       \* the members learned
    payload,     \* the members it relays, once it is made: <<>> or <<set>>
    accepted,    \* the checkpoint service has taken the payload
    stalled      \* the scheduler took time from the pass

clock == <<elapsed, budget, stalled>>
sent == <<payload, accepted>>
pass == <<step, clock, probe, sent>>

Steps == {"off", "begun", "probing", "probed", "posting", "answered",
          "unbuilt", "skipped", "delivered", "undelivered"}

Over == {"unbuilt", "skipped", "delivered", "undelivered"}

(* A member of /health: a string to relay, one that is empty or too long,  *)
(* something that is no string, or nothing.                                *)
Values == {"good", "empty", "long", "number", "none"}

PassTypeOK ==
    /\ step \in Steps
    /\ elapsed \in Nat
    /\ budget \in 0 .. HEARTBEAT_TIMEOUT
    /\ probe \subseteq Members
    /\ payload \in Seq(SUBSET Members) /\ Len(payload) <= 1
    /\ accepted \in BOOLEAN
    /\ stalled \in BOOLEAN

-----------------------------------------------------------------------------
Least(n, m) == IF n < m THEN n ELSE m

(* saturating_duration_since                                               *)
remaining == IF elapsed < HEARTBEAT_TIMEOUT THEN HEARTBEAT_TIMEOUT - elapsed ELSE 0

Mutant_health_budget == remaining

health_budget == Least(remaining, HEALTH_BUDGET_CAP)

(* Each member on its own, so that one badly typed does not lose another.  *)
learned(answer) == {m \in Members : answer[m] = "good"}

-----------------------------------------------------------------------------
BeginPass ==
    /\ step = "off"
    /\ step' = "begun"
    /\ UNCHANGED <<clock, probe, sent>>

ClientFails ==
    /\ step = "begun"
    /\ step' = "unbuilt"
    /\ UNCHANGED <<clock, probe, sent>>

Probe ==
    /\ step = "begun"
    /\ IF health_budget > MIN_BUDGET
       THEN step' = "probing" /\ budget' = health_budget
       ELSE step' = "probed" /\ UNCHANGED budget
    /\ UNCHANGED <<elapsed, stalled, probe, sent>>

(* A 2xx with a JSON body that is not too large.                           *)
Healthy ==
    /\ step = "probing"
    /\ \E answer \in [Members -> Values] : probe' = learned(answer)
    /\ step' = "probed"
    /\ UNCHANGED <<clock, sent>>

(* Anything else, a redirect and the timeout included, teaches nothing.    *)
Unhealthy ==
    /\ step = "probing"
    /\ step' = "probed"
    /\ UNCHANGED <<clock, probe, sent>>

PostPayload ==
    /\ step = "probed"
    /\ payload' = <<probe>>
    /\ IF remaining < MIN_BUDGET
       THEN step' = "skipped" /\ UNCHANGED budget
       ELSE step' = "posting" /\ budget' = remaining
    /\ UNCHANGED <<elapsed, stalled, probe, accepted>>

(* The checkpoint service takes the payload; its answer is on the way.     *)
Accept ==
    /\ step = "posting" /\ ~accepted
    /\ accepted' = TRUE
    /\ step' = "answered"
    /\ UNCHANGED <<clock, probe, payload>>

Delivered ==
    /\ step = "answered"
    /\ step' = "delivered"
    /\ UNCHANGED <<clock, probe, sent>>

Mutant_answered(status) == IF status = 302 THEN 200 ELSE status

(* A redirect is not followed: it is itself the answer.  Followed, the POST*)
(* would arrive as a GET without a body, to a page that answers 200.       *)
answered(status) == status

Refused ==
    /\ step = "posting"
    /\ \E status \in {302, 500} :
          step' = IF answered(status) \in 200 .. 299 THEN "delivered" ELSE "undelivered"
    /\ UNCHANGED <<clock, probe, sent>>

(* No connection, or the timeout, before the payload or its answer arrived.*)
PostFails ==
    /\ step \in {"posting", "answered"}
    /\ step' = "undelivered"
    /\ UNCHANGED <<clock, probe, sent>>

Tick ==
    /\ step \in {"probing", "posting", "answered"}
    /\ budget > 0
    /\ budget' = budget - 1
    /\ elapsed' = elapsed + 1
    /\ UNCHANGED <<step, stalled, probe, sent>>

(* Once in a pass.                                                         *)
Stall ==
    /\ step \notin Over \cup {"off"}
    /\ ~stalled
    /\ \E n \in 1 .. MaxStall :
          /\ elapsed' = elapsed + n
          /\ budget' = IF budget > n THEN budget - n ELSE 0
    /\ stalled' = TRUE
    /\ UNCHANGED <<step, probe, sent>>

PassInit ==
    /\ step = "off"
    /\ elapsed = 0
    /\ budget = 0
    /\ probe = {}
    /\ payload = <<>>
    /\ accepted = FALSE
    /\ stalled = FALSE

(* The next pass starts from nothing.                                      *)
EndPass ==
    /\ step' = "off" /\ elapsed' = 0 /\ budget' = 0 /\ probe' = {}
    /\ payload' = <<>> /\ accepted' = FALSE /\ stalled' = FALSE

PassNext ==
    \/ BeginPass
    \/ ClientFails
    \/ Probe
    \/ Healthy
    \/ Unhealthy
    \/ PostPayload
    \/ Accept
    \/ Delivered
    \/ Refused
    \/ PostFails
    \/ Tick
    \/ Stall
    \/ step \in Over /\ EndPass

PassSpec == PassInit /\ [][PassNext]_pass

-----------------------------------------------------------------------------
(* Properties *)

(* A pass the scheduler leaves alone holds its request up for no longer    *)
(* than HEARTBEAT_TIMEOUT, and a platform that answers its probe slowly or *)
(* not at all never costs the ping: the POST has its minimum.              *)
RoomForThePost ==
    ~stalled =>
       /\ elapsed <= HEARTBEAT_TIMEOUT
       /\ step # "skipped"
       /\ step = "posting" /\ elapsed <= HEALTH_BUDGET_CAP => budget >= MIN_BUDGET

(* A heartbeat counts as delivered, and stamps the machine for a week,     *)
(* only if the checkpoint service took its payload.                        *)
DeliveredMeansPosted == step = "delivered" => accepted /\ payload # <<>>
=============================================================================
