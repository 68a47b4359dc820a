---------------------------- MODULE CallPromise ----------------------------
(***************************************************************************)
(* What one call of the client promises the application that makes it,     *)
(* with no tokens, redirects, bodies or status codes: the request speaks   *)
(* for the person the call was made for, it goes out again only while      *)
(* nothing was done or an answer was lost, and what the application is     *)
(* told agrees with what the platform did and meant.                       *)
(***************************************************************************)
EXTENDS Naturals

CONSTANT People   \* whom a call can be made for, nobody among them

VARIABLES
    named,     \* <<>> between two calls, or <<whom the call is made for>>
    speaking,  \* <<>> or <<whom the request under way speaks for>>
    acted,     \* how often the platform did what the call asks for
    unheard,   \* whether an answer to the call was lost
    word,      \* what the last answer means
    told       \* what the application was told of it

promised == <<named, speaking, acted, unheard, word, told>>

(* "limited" is a word on how often one may ask: a surface may take it for *)
(* the platform's last one or for a failure that will pass.                *)
Words == {"done", "final", "limited", "transient"}

PromiseInit ==
    /\ named = <<>> /\ speaking = <<>>
    /\ acted = 0 /\ unheard = FALSE
    /\ word = "none" /\ told = "none"

Make(p) ==
    /\ named = <<>>
    /\ named' = <<p>>
    /\ UNCHANGED <<speaking, acted, unheard, word, told>>

(* What was done and answered is not asked for again.                      *)
Speak ==
    /\ named # <<>> /\ speaking = <<>> /\ told = "none"
    /\ acted = 0 \/ unheard
    /\ speaking' = named
    /\ word' = "none"
    /\ UNCHANGED <<named, acted, unheard, told>>

Act ==
    /\ speaking # <<>> /\ word = "none"
    /\ acted' = acted + 1
    /\ word' \in Words
    /\ UNCHANGED <<named, speaking, unheard, told>>

AnswerInItsPlace ==
    /\ speaking # <<>> /\ word = "none"
    /\ word' \in Words
    /\ UNCHANGED <<named, speaking, acted, unheard, told>>

Supplant ==
    /\ speaking # <<>> /\ word # "none"
    /\ word' \in {"limited", "transient"}
    /\ unheard' = TRUE
    /\ UNCHANGED <<named, speaking, acted, told>>

(* "performed" is the success of a change that comes with its record; the  *)
(* bare claim of one, "claimed", is anybody's, and never all that is heard *)
(* of what was done and answered; "ok" says nothing of a change.           *)
Tell(t) ==
    /\ speaking # <<>> /\ word # "none"
    /\ word = "final" => t # "again"
    /\ word = "transient" => t = "again"
    /\ word = "limited" => t \in {"again", "failed"}
    /\ t = "performed" => acted > 0
    /\ acted > 0 /\ ~unheard => t \in {"performed", "ok"}
    /\ speaking' = <<>>
    /\ told' = t
    /\ UNCHANGED <<named, acted, unheard, word>>

Lose ==
    /\ speaking # <<>> /\ word # "none"
    /\ speaking' = <<>>
    /\ unheard' = TRUE
    /\ word' = "none"
    /\ told' \in {"again", "failed"}
    /\ UNCHANGED <<named, acted>>

(* What nobody answered has not been done, unless an earlier answer was    *)
(* lost.                                                                   *)
Fail ==
    /\ speaking # <<>> /\ word = "none"
    /\ acted = 0 \/ unheard
    /\ speaking' = <<>>
    /\ told' \in {"again", "failed"}
    /\ UNCHANGED <<named, acted, unheard, word>>

(* What is refused before it is sent is never worth repeating.             *)
Refuse ==
    /\ named # <<>> /\ speaking = <<>> /\ told = "none"
    /\ told' = "failed"
    /\ word' = "none"
    /\ UNCHANGED <<named, speaking, acted, unheard>>

Again ==
    /\ told = "again"
    /\ told' = "none"
    /\ UNCHANGED <<named, speaking, acted, unheard, word>>

Close ==
    /\ told # "none"
    /\ named' = <<>> /\ speaking' = <<>>
    /\ acted' = 0 /\ unheard' = FALSE
    /\ word' = "none" /\ told' = "none"

PromiseNext ==
    \/ \E p \in People : Make(p)
    \/ Speak
    \/ Act
    \/ AnswerInItsPlace
    \/ Supplant
    \/ \E t \in {"performed", "claimed", "ok", "again", "failed"} : Tell(t)
    \/ Lose
    \/ Fail
    \/ Refuse
    \/ Again
    \/ Close

PromiseSpec == PromiseInit /\ [][PromiseNext]_promised
=============================================================================
