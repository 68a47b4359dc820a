------------------------------ MODULE HitlWalk ------------------------------
(***************************************************************************)
(* Paging through the approval queue: list_hitl_queue (src/src/hitl.rs),   *)
(* repeated with the next offset while it says has_more.                   *)
(*                                                                         *)
(* The queue is the platform's: while an application pages through it,     *)
(* requests arrive at its end and reviewers take them out of it.  A page   *)
(* can also be the document of somebody else, which decodes to defaults.   *)
(***************************************************************************)
EXTENDS Naturals, Sequences, FiniteSets, SequencesExt, Documents

CONSTANTS
    Requests,    \* bound: the requests there are, numbered as they arrive
    Limit,       \* the limit an application asks for, when it names one
    DefaultLimit \* the platform's, for a request that names none

ASSUME WalkAssumption ==
    Requests \in Nat /\ Limit \in Nat \ {0} /\ DefaultLimit \in Nat \ {0}

VARIABLES
    queue,       \* the platform's pending requests
    arrived,     \* the number of the last one that arrived
    walk         \* what the application is doing with it

walking == <<queue, arrived, walk>>

(* shown, total and more are what the last page came with: the number of   *)
(* its items, its total and its has_more.                                  *)
NoWalk == [on |-> FALSE, offset |-> 0, seen |-> {}, pending |-> {}, taken |-> {},
           limit |-> <<>>, echoes |-> TRUE, shown |-> <<>>, total |-> 0, more |-> FALSE]

WalkTypeOK ==
    /\ ToSet(queue) \subseteq 1 .. Requests
    /\ arrived \in 0 .. Requests
    /\ walk.seen \subseteq 1 .. arrived

Arrives ==
    /\ arrived < Requests
    /\ arrived' = arrived + 1
    /\ queue' = Append(queue, arrived + 1)
    /\ UNCHANGED walk

Taken ==
    /\ \E i \in DOMAIN queue :
          /\ queue' = RemoveAt(queue, i)
          /\ walk' = IF walk.on THEN [walk EXCEPT !.taken = @ \cup {queue[i]}] ELSE walk
    /\ UNCHANGED arrived

(* A platform may leave the offset out of meta.                            *)
StartWalk ==
    /\ ~walk.on
    /\ \E echoes \in BOOLEAN, limit \in {<<>>, <<Limit>>} :
          walk' = [NoWalk EXCEPT !.on = TRUE, !.pending = ToSet(queue), !.limit = limit,
                                 !.echoes = echoes, !.more = TRUE]
    /\ UNCHANGED <<queue, arrived>>

(* HITLQueueListOptions: an application names an offset only past the      *)
(* first page.                                                             *)
Options == [limit |-> walk.limit, offset |-> IF walk.offset = 0 THEN <<>> ELSE <<walk.offset>>]

(* The query names only what the options name.                             *)
build_list_query(opts) ==
    [name \in {n \in DOMAIN opts : opts[n] # <<>>} |-> Head(opts[name])]

Named(query, name, default) == IF name \in DOMAIN query THEN query[name] ELSE default

Page(query) ==
    LET from == Named(query, "offset", 0)
        upto == from + Named(query, "limit", DefaultLimit)
    IN SubSeq(queue, from + 1, Min({upto, Len(queue)}))

Mutant_has_more(offset, returned, total) == offset + returned + 1 < total

has_more(offset, returned, total) == offset + returned < total

Queued(data, total, offset) == [data |-> data, total |-> total, offset |-> offset]

(* HitlListEnvelope: data, meta and the members of meta have defaults, and *)
(* so a 200 of somebody else, if it decodes, is an empty page of nothing.  *)
Envelopes ==
    {Queued(Page(build_list_query(Options)), Len(queue), IF walk.echoes THEN walk.offset ELSE 0)}
    \cup {Queued(<<>>, 0, 0) :
             stray \in {s \in DOMAIN StrayMembers : Decodes("queue", HitlListEnvelope, s)}}

(* One page; one that fails, or that does not decode, is asked for again   *)
(* at the same offset.                                                     *)
list_hitl_queue ==
    /\ walk.on /\ walk.more
    /\ \E page \in Envelopes :
          walk' = [walk EXCEPT !.seen = @ \cup ToSet(page.data),
                               !.offset = @ + Len(page.data),
                               !.shown = <<Len(page.data)>>,
                               !.total = page.total,
                               !.more = has_more(page.offset, Len(page.data), page.total)]
    /\ UNCHANGED <<queue, arrived>>

EndWalk ==
    /\ walk.on /\ ~walk.more
    /\ walk' = NoWalk
    /\ UNCHANGED <<queue, arrived>>

WalkInit == queue = <<>> /\ arrived = 0 /\ walk = NoWalk

WalkNext == Arrives \/ Taken \/ StartWalk \/ list_hitl_queue \/ EndWalk

WalkSpec == WalkInit /\ [][WalkNext]_walking

-----------------------------------------------------------------------------
(* Properties *)

Missed == walk.pending \ (walk.seen \cup walk.taken)

(* An application that pages until has_more is false has seen the requests *)
(* that were pending when it began and that nobody took meanwhile: each    *)
(* one taken moves the later ones up and can cost it one of them, no more. *)
(* A last page whose total is 0 promises nothing: it is what a foreign     *)
(* document decodes to, wherever the walk was.                             *)
SeenToTheEnd ==
    walk.on /\ ~walk.more /\ walk.total > 0 => Cardinality(Missed) <= Cardinality(walk.taken)

(* It is not sent on past the end: from a platform that says where a page  *)
(* begins, a page after which there is more has shown something.           *)
SentOnByWhatIsLeft == walk.more /\ walk.echoes => walk.shown # <<0>>

(* A walk through the queue, with requests arriving and taken under it and *)
(* foreign documents among its pages, misses little and does not circle.   *)
WalkComplete == SeenToTheEnd /\ SentOnByWhatIsLeft
=============================================================================
