-------------------------- MODULE GovernedPromise --------------------------
(***************************************************************************)
(* What a governed call promises its caller, with no cache, no attempts,   *)
(* no transport and no await: the platform takes requests up, what it says *)
(* may reach the SDK, and every call is settled at most once.              *)
(***************************************************************************)
EXTENDS Naturals

CONSTANTS
    Calls,
    Mutation(_),     \* the call changes something on the platform
    SameAsk(_, _),   \* two calls ask the same, in the name of the same user
    Responses,       \* answers that are the platform's verdict on the call
    Refusals,        \* answers that refuse the call for good
    Transients,      \* the other answers
    Production       \* whether the client may fail open

VARIABLES
    handled,   \* [Calls -> Nat], how often the platform took the call up
    heard,     \* [Calls -> sets of answers], what reached the SDK whole
    outcome,   \* [Calls -> ], what the caller was told
    author     \* [Calls -> Calls], whose verdict that was

promised == <<handled, heard, outcome, author>>

Open(c) == outcome[c] = "none"

Decided(c) == heard[c] \cap (Responses \cup Refusals) # {}

PromiseInit ==
    /\ handled = [c \in Calls |-> 0]
    /\ heard = [c \in Calls |-> {}]
    /\ outcome = [c \in Calls |-> "none"]
    /\ author = [c \in Calls |-> c]

Settle(c, o, d) ==
    /\ Open(c)
    /\ outcome' = [outcome EXCEPT ![c] = o]
    /\ author' = [author EXCEPT ![c] = d]

(* A mutation is taken up once, whether or not anybody still waits for it. *)
Handle(c) ==
    /\ Mutation(c) => handled[c] = 0
    /\ handled' = [handled EXCEPT ![c] = @ + 1]
    /\ UNCHANGED <<heard, outcome, author>>

(* The call is not settled by the platform: an error, or, in production    *)
(* and only if the platform never decided, an invented success.            *)
Unanswered(c) ==
    \/ \E o \in {"error", "empty", "dropped"} : Settle(c, o, c)
    \/ Production /\ ~Decided(c) /\ Settle(c, "fail_open", c)

GiveUp(c) == Unanswered(c) /\ UNCHANGED <<handled, heard>>

Hear(c, a) ==
    /\ Open(c)
    /\ handled[c] > 0
    /\ heard' = [heard EXCEPT ![c] = @ \cup {a}]
    /\ UNCHANGED handled

HearResponse(c) ==
    \E a \in Responses :
       /\ Hear(c, a)
       /\ \/ \E o \in {"verdict", "empty", "error"} : Settle(c, o, c)
          \/ UNCHANGED <<outcome, author>>

(* A refusal that arrived ends the call there and then.                    *)
HearRefusal(c) == \E a \in Refusals : Hear(c, a) /\ Settle(c, "error", c)

HearTransient(c) ==
    \E a \in Transients :
       Hear(c, a) /\ (Unanswered(c) \/ UNCHANGED <<outcome, author>>)

(* The caller gets the verdict the platform gave to the same ask; only a   *)
(* mutation's own verdict will do.                                         *)
Answer(c) ==
    \E d \in Calls :
       /\ heard[d] \cap Responses # {}
       /\ SameAsk(c, d)
       /\ Mutation(c) => c = d
       /\ Settle(c, "verdict", d)
       /\ UNCHANGED <<handled, heard>>

PromiseNext ==
    \E c \in Calls :
       \/ Handle(c)
       \/ HearResponse(c)
       \/ HearRefusal(c)
       \/ HearTransient(c)
       \/ Answer(c)
       \/ GiveUp(c)

PromiseSpec == PromiseInit /\ [][PromiseNext]_promised
=============================================================================
