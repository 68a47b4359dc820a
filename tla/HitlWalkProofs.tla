--------------------------- MODULE HitlWalkProofs ---------------------------
(***************************************************************************)
(* Proofs about HitlWalk for every number of requests and every size of a  *)
(* page: what a walk through a queue that changes under it may miss.       *)
(***************************************************************************)
EXTENDS HitlWalk, Integers, FiniteSetTheorems, SequenceTheorems, TLAPS

(* The queue is a line of different requests, and a walk is what the       *)
(* application has of it.                                                  *)
QueueOK ==
    /\ queue \in Seq(1 .. Requests)
    /\ \A i, j \in 1 .. Len(queue) : queue[i] = queue[j] => i = j
    /\ \A i \in 1 .. Len(queue) : queue[i] <= arrived
    /\ arrived \in 0 .. Requests

WalkOK ==
    /\ walk \in [on : BOOLEAN, offset : Nat, seen : SUBSET (1 .. arrived),
                 pending : SUBSET (1 .. arrived), taken : SUBSET (1 .. arrived),
                 limit : {<<>>, <<Limit>>}, echoes : BOOLEAN,
                 shown : Seq(Nat), total : Nat, more : BOOLEAN]
    /\ \A i \in 1 .. Len(queue) : queue[i] \notin walk.taken
    /\ ~walk.on => walk = NoWalk

(* The places up to the offset of which the application has seen nothing,  *)
(* the empty ones at the end included.                                     *)
Skipped == {i \in 1 .. walk.offset : i \in 1 .. Len(queue) => queue[i] \notin walk.seen}

(* One place is skipped at most for each request that was taken.           *)
SkipsAreTaken == Cardinality(Skipped) <= Cardinality(walk.taken)

(* What was pending and was not taken is still in line.                    *)
StillInLine ==
    \A r \in walk.pending \ walk.taken : \E i \in 1 .. Len(queue) : queue[i] = r

(* A walk that is over, but for one that a foreign document may have ended,*)
(* has gone past everything that was pending.                              *)
WentPast ==
    walk.on /\ ~walk.more /\ walk.total > 0 =>
        \A i \in 1 .. Len(queue) : queue[i] \in walk.pending => i <= walk.offset

WalkInv ==
    QueueOK /\ WalkOK /\ SkipsAreTaken /\ StillInLine /\ WentPast /\ SentOnByWhatIsLeft

-----------------------------------------------------------------------------
(* The operators the walk is built from *)

(* What is left of a line when one in it is taken out.                     *)
LEMMA RemoveAtShifts ==
    ASSUME NEW S, NEW s \in Seq(S), NEW k \in 1 .. Len(s)
    PROVE  /\ RemoveAt(s, k) \in Seq(S)
           /\ Len(RemoveAt(s, k)) = Len(s) - 1
           /\ \A i \in 1 .. Len(s) - 1 :
                 RemoveAt(s, k)[i] = IF i < k THEN s[i] ELSE s[i + 1]
<1> DEFINE front == SubSeq(s, 1, k - 1)
           back == SubSeq(s, k + 1, Len(s))
<1>1. /\ front \in Seq(S) /\ Len(front) = k - 1
      /\ \A i \in 1 .. k - 1 : front[i] = s[i]
  OBVIOUS
<1>2. /\ back \in Seq(S) /\ Len(back) = Len(s) - k
      /\ \A i \in 1 .. Len(s) - k : back[i] = s[k + i]
  OBVIOUS
<1>3. RemoveAt(s, k) = front \o back
  BY DEF RemoveAt
<1> HIDE DEF front, back
<1>4. Len(s) \in Nat /\ k \in Nat /\ k >= 1 /\ k <= Len(s)
  OBVIOUS
<1>5. /\ front \o back \in Seq(S)
      /\ Len(front \o back) = Len(front) + Len(back)
      /\ \A i \in 1 .. Len(front) + Len(back) :
            (front \o back)[i] = IF i <= Len(front) THEN front[i] ELSE back[i - Len(front)]
  BY <1>1, <1>2, ConcatProperties
<1>6. \A i \in 1 .. Len(s) - 1 :
         (front \o back)[i] = IF i < k THEN s[i] ELSE s[i + 1]
  <2> TAKE i \in 1 .. Len(s) - 1
  <2>1. CASE i < k
    BY <1>1, <1>2, <1>4, <1>5, <2>1
  <2>2. CASE ~(i < k)
    <3>1. i - (k - 1) \in 1 .. Len(s) - k /\ k + (i - (k - 1)) = i + 1
      BY <1>4, <2>2
    <3>2. (front \o back)[i] = back[i - (k - 1)]
      BY <1>1, <1>2, <1>4, <1>5, <2>2
    <3> QED
      BY <1>2, <2>2, <3>1, <3>2
  <2> QED
    BY <2>1, <2>2
<1> QED
  BY <1>1, <1>2, <1>3, <1>4, <1>5, <1>6

(* The lesser of two numbers.                                              *)
LEMMA MinOfTwo ==
    ASSUME NEW m \in Nat, NEW n \in Nat
    PROVE  /\ Min({m, n}) \in {m, n}
           /\ Min({m, n}) <= m /\ Min({m, n}) <= n
<1>1. \E x \in {m, n} : \A y \in {m, n} : x <= y
  <2>1. CASE m <= n
    BY <2>1
  <2>2. CASE n <= m
    BY <2>2
  <2> QED
    BY <2>1, <2>2
<1>2. Min({m, n}) \in {m, n} /\ \A y \in {m, n} : Min({m, n}) <= y
  BY <1>1 DEF Min
<1> QED
  BY <1>2

(* A page is the part of the line after the offset, as far as it goes.     *)
LEMMA PageIsNext ==
    ASSUME QueueOK, WalkOK
    PROVE  LET items == Page(build_list_query(Options)) IN
           /\ Len(items) \in Nat
           /\ Len(items) > 0 => walk.offset + Len(items) <= Len(queue)
           /\ Len(items) = 0 => Len(queue) <= walk.offset
           /\ ToSet(items) = {queue[i] : i \in walk.offset + 1 .. walk.offset + Len(items)}
<1> DEFINE query == build_list_query(Options)
           upto == Named(query, "offset", 0) + Named(query, "limit", DefaultLimit)
           last == Min({upto, Len(queue)})
           items == SubSeq(queue, walk.offset + 1, last)
<1>1. Named(query, "offset", 0) = walk.offset
  BY DEF Named, build_list_query, Options, WalkOK
<1>2. Named(query, "limit", DefaultLimit) \in Nat \ {0}
  BY WalkAssumption DEF Named, build_list_query, Options, WalkOK
<1>3. walk.offset \in Nat /\ Len(queue) \in Nat
  BY DEF WalkOK, QueueOK
<1>4. last \in Nat /\ last <= Len(queue) /\ (last = Len(queue) \/ last > walk.offset)
  BY <1>1, <1>2, <1>3, MinOfTwo
<1>5. Page(query) = items
  BY <1>1 DEF Page
<1> HIDE DEF query, last
<1>6. /\ items \in Seq(1 .. Requests)
      /\ Len(items) = IF walk.offset + 1 <= last THEN last - walk.offset ELSE 0
      /\ \A i \in 1 .. last - walk.offset : items[i] = queue[walk.offset + i]
  <2>0. \A i \in 1 .. Len(queue) : queue[i] \in 1 .. Requests
    BY ElementOfSeq DEF QueueOK
  <2>1. \A i \in walk.offset + 1 .. last : queue[i] \in 1 .. Requests
    BY <1>3, <1>4, <2>0
  <2>2. /\ items \in Seq(1 .. Requests)
        /\ Len(items) = IF walk.offset + 1 <= last THEN last - (walk.offset + 1) + 1 ELSE 0
        /\ \A i \in 1 .. last - (walk.offset + 1) + 1 :
              items[i] = queue[(walk.offset + 1) + i - 1]
    BY SMTT(30), <1>3, <1>4, <2>1, SubSeqProperties
  <2> HIDE DEF items
  <2>3. Len(items) = IF walk.offset + 1 <= last THEN last - walk.offset ELSE 0
    BY <1>3, <1>4, <2>2
  <2>4. \A i \in 1 .. last - walk.offset : items[i] = queue[walk.offset + i]
    BY SMTT(30), <1>3, <1>4, <2>2
  <2> QED
    BY <2>2, <2>3, <2>4
<1> HIDE DEF items
<1>7. ToSet(items) = {items[i] : i \in 1 .. Len(items)}
  BY <1>6 DEF ToSet
<1>8. \A i \in 1 .. Len(items) : items[i] = queue[walk.offset + i]
  BY <1>3, <1>4, <1>6
<1>9. ToSet(items) = {queue[i] : i \in walk.offset + 1 .. walk.offset + Len(items)}
  <2>1. ASSUME NEW i \in 1 .. Len(items)
        PROVE  \E j \in walk.offset + 1 .. walk.offset + Len(items) : items[i] = queue[j]
    <3>1. walk.offset + i \in walk.offset + 1 .. walk.offset + Len(items)
      BY <1>3, <1>6
    <3> QED
      BY <1>8, <3>1
  <2>2. ASSUME NEW j \in walk.offset + 1 .. walk.offset + Len(items)
        PROVE  \E i \in 1 .. Len(items) : queue[j] = items[i]
    <3>1. j - walk.offset \in 1 .. Len(items) /\ walk.offset + (j - walk.offset) = j
      BY <1>3
    <3> QED
      BY <1>8, <3>1
  <2> DEFINE places == walk.offset + 1 .. walk.offset + Len(items)
             steps == 1 .. Len(items)
  <2>3. \A i \in steps : \E j \in places : items[i] = queue[j]
    BY <2>1
  <2>4. \A j \in places : \E i \in steps : queue[j] = items[i]
    BY <2>2
  <2> HIDE DEF places, steps
  <2>5. {items[i] : i \in steps} = {queue[j] : j \in places}
    BY <2>3, <2>4
  <2> QED
    BY <1>7, <2>5 DEF places, steps
<1> QED
  BY <1>3, <1>4, <1>5, <1>6, <1>9 DEF query

-----------------------------------------------------------------------------
(* Counting *)

(* The places skipped can be counted.                                      *)
LEMMA SkippedIsFinite ==
    ASSUME WalkOK
    PROVE  /\ IsFiniteSet(Skipped)
           /\ Cardinality(Skipped) \in Nat
<1>1. IsFiniteSet(1 .. walk.offset)
  BY FS_Interval DEF WalkOK
<1>2. Skipped \subseteq 1 .. walk.offset
  BY DEF Skipped
<1>3. IsFiniteSet(Skipped)
  BY <1>1, <1>2, FS_Subset
<1> QED
  BY <1>3, FS_CardinalityType

(* So can the requests taken.                                              *)
LEMMA TakenIsFinite ==
    ASSUME WalkOK, QueueOK
    PROVE  /\ IsFiniteSet(walk.taken)
           /\ Cardinality(walk.taken) \in Nat
<1>1. IsFiniteSet(1 .. arrived)
  BY FS_Interval DEF QueueOK
<1>2. walk.taken \subseteq 1 .. arrived
  BY DEF WalkOK
<1>3. IsFiniteSet(walk.taken)
  BY <1>1, <1>2, FS_Subset
<1> QED
  BY <1>3, FS_CardinalityType

(* When the k-th in line leaves, every place that is skipped afterwards    *)
(* was skipped before, at or one behind where it is, but for the last one. *)
LEMMA OneMoreSkipped ==
    ASSUME QueueOK, WalkOK, NEW k \in 1 .. Len(queue),
           queue' = RemoveAt(queue, k),
           UNCHANGED <<walk.offset, walk.seen>>
    PROVE  /\ Cardinality(Skipped') \in Nat
           /\ Cardinality(Skipped') <= Cardinality(Skipped) + 1
<1> DEFINE shift == [i \in Skipped |-> IF i < k THEN i ELSE i - 1]
           shifted == {shift[i] : i \in Skipped}
<1>1. /\ Len(queue') = Len(queue) - 1
      /\ \A i \in 1 .. Len(queue) - 1 : queue'[i] = IF i < k THEN queue[i] ELSE queue[i + 1]
  BY RemoveAtShifts DEF QueueOK
<1>2. walk.offset \in Nat /\ Len(queue) \in Nat
  BY DEF QueueOK, WalkOK
<1>3. ASSUME NEW i \in Skipped', i # walk.offset
      PROVE  \E j \in Skipped : i = IF j < k THEN j ELSE j - 1
  <2>1. /\ i \in 1 .. walk.offset
        /\ i \in 1 .. Len(queue) - 1 => queue'[i] \notin walk.seen
    BY <1>1 DEF Skipped
  <2>2. CASE i < k
    <3>1. i \in Skipped
      BY <1>1, <1>2, <2>1, <2>2 DEF Skipped
    <3> QED
      BY <2>2, <3>1
  <2>3. CASE ~(i < k)
    <3>1. i + 1 \in 1 .. walk.offset
      BY <1>2, <1>3, <2>1
    <3>2. i + 1 \in 1 .. Len(queue) => i \in 1 .. Len(queue) - 1
      BY <1>2, <2>1
    <3>3. i + 1 \in 1 .. Len(queue) => queue[i + 1] \notin walk.seen
      BY <1>1, <2>1, <2>3, <3>2
    <3>4. i + 1 \in Skipped
      BY <3>1, <3>3 DEF Skipped
    <3>5. ~(i + 1 < k) /\ (i + 1) - 1 = i
      BY <2>1, <2>3
    <3> QED
      BY <3>4, <3>5
  <2> QED
    BY <2>2, <2>3
<1>4. Skipped' \subseteq shifted \cup {walk.offset}
  BY <1>3
<1>5. shift \in Surjection(Skipped, shifted)
  BY DEF Surjection
<1> HIDE DEF shift, shifted
<1>6. /\ IsFiniteSet(shifted) /\ Cardinality(shifted) <= Cardinality(Skipped)
      /\ Cardinality(shifted) \in Nat
  BY <1>5, SkippedIsFinite, FS_Surjection, FS_CardinalityType
<1>7. /\ IsFiniteSet(shifted \cup {walk.offset})
      /\ Cardinality(shifted \cup {walk.offset}) \in Nat
      /\ Cardinality(shifted \cup {walk.offset}) <= Cardinality(shifted) + 1
  <2>1. /\ IsFiniteSet(shifted \cup {walk.offset})
        /\ Cardinality(shifted \cup {walk.offset}) =
              IF walk.offset \in shifted THEN Cardinality(shifted) ELSE Cardinality(shifted) + 1
    BY <1>6, FS_AddElement
  <2> QED
    BY <1>6, <2>1
<1>8. /\ Cardinality(Skipped') <= Cardinality(shifted \cup {walk.offset})
      /\ Cardinality(Skipped') \in Nat
  BY <1>4, <1>7, FS_Subset, FS_CardinalityType
<1> QED
  BY <1>6, <1>7, <1>8, SkippedIsFinite

(* What a walk that is over has missed was skipped.                        *)
LEMMA MissedWasSkipped ==
    ASSUME WalkInv, walk.on, ~walk.more, walk.total > 0
    PROVE  Cardinality(walk.pending \ (walk.seen \cup walk.taken)) <= Cardinality(walk.taken)
<1> DEFINE missed == walk.pending \ (walk.seen \cup walk.taken)
           places == {i \in Skipped : i \in 1 .. Len(queue) /\ queue[i] \in missed}
           held == [i \in places |-> queue[i]]
<1> USE DEF WalkInv
<1>1. \A r \in missed : \E i \in places : queue[i] = r
  <2> TAKE r \in missed
  <2>1. PICK i \in 1 .. Len(queue) : queue[i] = r
    BY DEF StillInLine
  <2>2. i <= walk.offset
    BY <2>1 DEF WentPast
  <2>3. i \in Skipped
    BY <2>1, <2>2 DEF Skipped, WalkOK
  <2> QED
    BY <2>1, <2>3
<1>2. held \in Surjection(places, missed)
  BY <1>1 DEF Surjection
<1>3. places \subseteq Skipped
  OBVIOUS
<1> HIDE DEF held, places, missed
<1>4. IsFiniteSet(places) /\ Cardinality(places) <= Cardinality(Skipped)
  BY <1>3, SkippedIsFinite, FS_Subset
<1>5. IsFiniteSet(missed) /\ Cardinality(missed) <= Cardinality(places)
  BY <1>2, <1>4, FS_Surjection
<1>6. Cardinality(missed) \in Nat /\ Cardinality(places) \in Nat
  BY <1>4, <1>5, FS_CardinalityType
<1>7. Cardinality(missed) <= Cardinality(walk.taken)
  BY <1>4, <1>5, <1>6, SkippedIsFinite, TakenIsFinite DEF SkipsAreTaken
<1> QED
  BY <1>7 DEF missed

-----------------------------------------------------------------------------
(* The walk *)

(* What is in line is numbered up to the last arrival.                     *)
LEMMA QueuePlaces ==
    ASSUME QueueOK
    PROVE  /\ Len(queue) \in Nat
           /\ \A i \in 1 .. Len(queue) : queue[i] \in 1 .. arrived
           /\ ToSet(queue) = {queue[i] : i \in 1 .. Len(queue)}
<1>1. \A i \in 1 .. Len(queue) : queue[i] \in 1 .. Requests
  BY ElementOfSeq DEF QueueOK
<1> QED
  BY <1>1 DEF QueueOK, ToSet

(* A walk that has not begun has skipped nothing.                          *)
LEMMA WalkInvInit == WalkInit => WalkInv
<1> SUFFICES ASSUME WalkInit
             PROVE  WalkInv
  OBVIOUS
<1> USE WalkAssumption DEF WalkInit
<1>1. QueueOK
  BY DEF QueueOK
<1>2. WalkOK
  BY DEF WalkOK, NoWalk
<1>3. Skipped = {} /\ walk.taken = {}
  BY DEF Skipped, NoWalk
<1>4. SkipsAreTaken
  BY <1>3, FS_EmptySet DEF SkipsAreTaken
<1> QED
  BY <1>1, <1>2, <1>4 DEF WalkInv, StillInLine, WentPast, SentOnByWhatIsLeft, NoWalk

(* A request that arrives goes to the end of the line.                     *)
LEMMA ArrivesKeeps ==
    ASSUME WalkInv, Arrives
    PROVE  WalkInv'
<1> USE DEF WalkInv
<1>1. /\ Len(queue) \in Nat /\ arrived \in Nat
      /\ \A i \in 1 .. Len(queue) : queue[i] \in 1 .. arrived
  BY QueuePlaces, WalkAssumption DEF QueueOK
<1>2. /\ queue' \in Seq(1 .. Requests)
      /\ Len(queue') = Len(queue) + 1
      /\ \A i \in 1 .. Len(queue) : queue'[i] = queue[i]
      /\ queue'[Len(queue) + 1] = arrived + 1
  <2>1. arrived + 1 \in 1 .. Requests
    BY WalkAssumption DEF Arrives, QueueOK
  <2> QED
    BY <2>1, AppendProperties DEF Arrives, QueueOK
<1>3. arrived' = arrived + 1 /\ walk' = walk
  BY DEF Arrives
<1>4. QueueOK'
  <2>1. \A i, j \in 1 .. Len(queue) + 1 : queue'[i] = queue'[j] => i = j
    BY SMTT(30), <1>1, <1>2 DEF QueueOK
  <2>2. \A i \in 1 .. Len(queue) + 1 : queue'[i] <= arrived + 1
    BY <1>1, <1>2
  <2> QED
    BY <1>2, <1>3, <2>1, <2>2, WalkAssumption DEF QueueOK, Arrives
<1>5. WalkOK'
  <2>1. walk' \in [on : BOOLEAN, offset : Nat, seen : SUBSET (1 .. arrived'),
                   pending : SUBSET (1 .. arrived'), taken : SUBSET (1 .. arrived'),
                   limit : {<<>>, <<Limit>>}, echoes : BOOLEAN,
                   shown : Seq(Nat), total : Nat, more : BOOLEAN]
    BY <1>1, <1>3 DEF WalkOK
  <2>2. \A i \in 1 .. Len(queue') : queue'[i] \notin walk'.taken
    <3>1. /\ walk.taken \subseteq 1 .. arrived
          /\ \A i \in 1 .. Len(queue) : queue[i] \notin walk.taken
      BY <1>1 DEF WalkOK
    <3>2. arrived + 1 \notin walk.taken
      BY <1>1, <3>1
    <3> QED
      BY SMTT(30), <1>1, <1>2, <1>3, <3>1, <3>2
  <2> QED
    BY <1>3, <2>1, <2>2 DEF WalkOK
<1>6. SkipsAreTaken'
  <2>1. Skipped' \subseteq Skipped
    BY <1>1, <1>2, <1>3 DEF Skipped
  <2>2. Cardinality(Skipped') <= Cardinality(Skipped) /\ Cardinality(Skipped') \in Nat
    BY <2>1, SkippedIsFinite, FS_Subset, FS_CardinalityType
  <2> QED
    BY <1>3, <2>2, SkippedIsFinite, TakenIsFinite DEF SkipsAreTaken
<1>7. StillInLine'
  BY <1>1, <1>2, <1>3 DEF StillInLine
<1>8. WentPast'
  <2>1. arrived + 1 \notin walk.pending
    BY <1>1 DEF WalkOK
  <2> QED
    BY <1>1, <1>2, <1>3, <2>1 DEF WentPast
<1>9. SentOnByWhatIsLeft'
  BY <1>3 DEF SentOnByWhatIsLeft
<1> QED
  BY <1>4, <1>5, <1>6, <1>7, <1>8, <1>9

(* A reviewer takes a request out of the line.                             *)
LEMMA TakenKeeps ==
    ASSUME WalkInv, Taken
    PROVE  WalkInv'
<1> USE DEF WalkInv
<1>0. DOMAIN queue = 1 .. Len(queue)
  BY DEF QueueOK
<1>1. PICK k \in 1 .. Len(queue) :
         /\ queue' = RemoveAt(queue, k)
         /\ walk' = IF walk.on THEN [walk EXCEPT !.taken = @ \cup {queue[k]}] ELSE walk
  BY <1>0, Zenon DEF Taken
<1>2. /\ Len(queue) \in Nat /\ arrived \in Nat /\ arrived' = arrived
      /\ \A i \in 1 .. Len(queue) : queue[i] \in 1 .. arrived
  BY QueuePlaces, WalkAssumption DEF QueueOK, Taken
<1>3. /\ queue' \in Seq(1 .. Requests)
      /\ Len(queue') = Len(queue) - 1
      /\ \A i \in 1 .. Len(queue) - 1 : queue'[i] = IF i < k THEN queue[i] ELSE queue[i + 1]
  BY <1>1, RemoveAtShifts DEF QueueOK
<1>4. \A i \in 1 .. Len(queue) - 1 :
         \E j \in 1 .. Len(queue) : queue'[i] = queue[j] /\ j # k /\ i <= j
                                    /\ j = IF i < k THEN i ELSE i + 1
  BY <1>2, <1>3
<1>5. QueueOK'
  <2>1. \A i, j \in 1 .. Len(queue) - 1 : queue'[i] = queue'[j] => i = j
    BY <1>2, <1>4 DEF QueueOK
  <2>2. \A i \in 1 .. Len(queue) - 1 : queue'[i] <= arrived
    BY <1>4 DEF QueueOK
  <2> QED
    BY <1>2, <1>3, <2>1, <2>2 DEF QueueOK
<1>6. CASE ~walk.on
  <2>1. walk = NoWalk /\ walk' = NoWalk
    BY <1>1, <1>6 DEF WalkOK
  <2>2. Skipped' = {} /\ walk'.taken = {} /\ ~walk'.on /\ walk'.pending = {}
    BY <2>1 DEF Skipped, NoWalk
  <2>3. WalkOK'
    BY <2>1 DEF WalkOK, NoWalk
  <2> QED
    BY <1>5, <2>1, <2>2, <2>3, FS_EmptySet
    DEF SkipsAreTaken, StillInLine, WentPast, SentOnByWhatIsLeft, NoWalk
<1>7. CASE walk.on
  <2>1. /\ walk'.taken = walk.taken \cup {queue[k]} /\ walk'.on
        /\ UNCHANGED <<walk.offset, walk.seen, walk.pending, walk.echoes, walk.shown,
                       walk.total, walk.more>>
        /\ walk' = [walk EXCEPT !.taken = @ \cup {queue[k]}]
    BY <1>1, <1>7 DEF WalkOK
  <2>2. WalkOK'
    <3>1. walk'.taken \in SUBSET (1 .. arrived)
      BY <1>2, <2>1 DEF WalkOK
    <3>2. \A i \in 1 .. Len(queue) - 1 : queue'[i] \notin walk'.taken
      <4>1. \A j \in 1 .. Len(queue) : queue[j] \notin walk.taken
        BY DEF WalkOK
      <4>2. \A j \in 1 .. Len(queue) : queue[j] = queue[k] => j = k
        BY DEF QueueOK
      <4> QED
        BY <1>4, <2>1, <4>1, <4>2
    <3> QED
      BY <1>2, <1>3, <2>1, <3>1, <3>2 DEF WalkOK
  <2>3. SkipsAreTaken'
    <3>1. Cardinality(walk'.taken) = Cardinality(walk.taken) + 1
      <4>1. queue[k] \notin walk.taken
        BY DEF WalkOK
      <4> QED
        BY <2>1, <4>1, TakenIsFinite, FS_AddElement
    <3>2. /\ Cardinality(Skipped') \in Nat
          /\ Cardinality(Skipped') <= Cardinality(Skipped) + 1
      BY <1>1, <2>1, OneMoreSkipped
    <3> QED
      BY <3>1, <3>2, SkippedIsFinite, TakenIsFinite DEF SkipsAreTaken
  <2>4. StillInLine'
    <3> SUFFICES ASSUME NEW r \in walk.pending \ walk.taken, r # queue[k]
                 PROVE  \E i \in 1 .. Len(queue) - 1 : queue'[i] = r
      BY <1>3, <2>1 DEF StillInLine
    <3>1. PICK j \in 1 .. Len(queue) : queue[j] = r /\ j # k
      BY DEF StillInLine
    <3>2. CASE j < k
      <4>1. j \in 1 .. Len(queue) - 1
        BY <1>2, <3>1, <3>2
      <4> QED
        BY <1>3, <3>1, <3>2, <4>1
    <3>3. CASE j > k
      <4>1. j - 1 \in 1 .. Len(queue) - 1 /\ ~(j - 1 < k) /\ (j - 1) + 1 = j
        BY <1>2, <3>3
      <4> QED
        BY <1>3, <3>1, <4>1
    <3> QED
      BY <1>2, <3>1, <3>2, <3>3
  <2>5. WentPast'
    <3>1. walk.offset \in Nat
      BY DEF WalkOK
    <3>2. /\ Len(queue') = Len(queue) - 1
          /\ walk'.on /\ walk'.pending = walk.pending
          /\ walk'.more = walk.more /\ walk'.total = walk.total
          /\ walk'.offset = walk.offset
      BY <1>3, <1>4, <2>1
    <3>3. ASSUME ~walk.more, walk.total > 0, NEW i \in 1 .. Len(queue) - 1, queue'[i] \in walk.pending
          PROVE  i <= walk.offset
      <4>1. i \in 1 .. Len(queue) /\ i + 1 \in 1 .. Len(queue)
        BY <1>2
      <4>2. queue'[i] = queue[i] \/ queue'[i] = queue[i + 1]
        BY <1>3
      <4>3. i <= walk.offset \/ i + 1 <= walk.offset
        BY <1>7, <3>3, <4>1, <4>2 DEF WentPast
      <4> QED
        BY <3>1, <4>1, <4>3
    <3> QED
      BY <3>2, <3>3 DEF WentPast
  <2>6. SentOnByWhatIsLeft'
    BY <2>1 DEF SentOnByWhatIsLeft
  <2> QED
    BY <1>5, <2>2, <2>3, <2>4, <2>5, <2>6
<1> QED
  BY <1>6, <1>7

(* A walk begins with what is in line.                                     *)
LEMMA StartKeeps ==
    ASSUME WalkInv, StartWalk
    PROVE  WalkInv'
<1> USE DEF WalkInv
<1>1. PICK echoes \in BOOLEAN, limit \in {<<>>, <<Limit>>} :
         walk' = [NoWalk EXCEPT !.on = TRUE, !.pending = ToSet(queue), !.limit = limit,
                                !.echoes = echoes, !.more = TRUE]
  BY DEF StartWalk
<1>2. queue' = queue /\ arrived' = arrived
  BY DEF StartWalk
<1>3. /\ walk'.on /\ walk'.more /\ walk'.offset = 0 /\ walk'.taken = {}
      /\ walk'.pending = ToSet(queue)
  BY <1>1 DEF NoWalk
<1>4. ToSet(queue) = {queue[i] : i \in 1 .. Len(queue)} /\ ToSet(queue) \subseteq 1 .. arrived
  BY QueuePlaces
<1>5. QueueOK'
  BY <1>2 DEF QueueOK
<1>6. WalkOK'
  <2>1. walk' \in [on : BOOLEAN, offset : Nat, seen : SUBSET (1 .. arrived),
                   pending : SUBSET (1 .. arrived), taken : SUBSET (1 .. arrived),
                   limit : {<<>>, <<Limit>>}, echoes : BOOLEAN,
                   shown : Seq(Nat), total : Nat, more : BOOLEAN]
    <3>1. /\ <<>> \in Seq(Nat) /\ 0 \in Nat /\ limit \in {<<>>, <<Limit>>}
          /\ {} \in SUBSET (1 .. arrived) /\ ToSet(queue) \in SUBSET (1 .. arrived)
      BY <1>4
    <3> QED
      BY <1>1, <3>1 DEF NoWalk
  <2> QED
    BY <1>2, <1>3, <2>1 DEF WalkOK
<1>7. SkipsAreTaken'
  <2>1. Skipped' = {}
    BY <1>3 DEF Skipped
  <2> QED
    BY <1>3, <2>1, FS_EmptySet DEF SkipsAreTaken
<1>8. StillInLine' /\ WentPast' /\ SentOnByWhatIsLeft'
  BY <1>1, <1>2, <1>3, <1>4 DEF StillInLine, WentPast, SentOnByWhatIsLeft, NoWalk
<1> QED
  BY <1>5, <1>6, <1>7, <1>8

(* A walk that ends is forgotten.                                          *)
LEMMA EndKeeps ==
    ASSUME WalkInv, EndWalk
    PROVE  WalkInv'
<1> USE DEF WalkInv
<1>1. walk' = NoWalk /\ queue' = queue /\ arrived' = arrived
  BY DEF EndWalk
<1>2. QueueOK' /\ WalkOK'
  BY <1>1 DEF QueueOK, WalkOK, NoWalk
<1>3. Skipped' = {} /\ walk'.taken = {}
  BY <1>1 DEF Skipped, NoWalk
<1> QED
  BY <1>1, <1>2, <1>3, FS_EmptySet
  DEF SkipsAreTaken, StillInLine, WentPast, SentOnByWhatIsLeft, NoWalk

(* What is listed is the next part of the line, and when there is no more  *)
(* of it the line has been gone through; or it is nothing, of a total of 0.*)
LEMMA ListedIsNext ==
    ASSUME QueueOK, WalkOK, NEW page \in Envelopes
    PROVE  LET items == page.data
               more == has_more(page.offset, Len(page.data), page.total) IN
           /\ Len(items) \in Nat /\ page.total \in Nat /\ more \in BOOLEAN
           /\ Len(items) > 0 => walk.offset + Len(items) <= Len(queue)
           /\ ToSet(items) = {queue[i] : i \in walk.offset + 1 .. walk.offset + Len(items)}
           /\ ~more /\ page.total > 0 => Len(queue) <= walk.offset + Len(items)
           /\ more /\ walk.echoes => Len(items) # 0
<1>1. Len(queue) \in Nat /\ walk.offset \in Nat
  BY DEF QueueOK, WalkOK
<1>2. has_more(page.offset, Len(page.data), page.total) \in BOOLEAN
  BY DEF has_more
<1>3. CASE page = Queued(Page(build_list_query(Options)), Len(queue),
                         IF walk.echoes THEN walk.offset ELSE 0)
  <2> DEFINE items == Page(build_list_query(Options))
  <2>1. /\ Len(items) \in Nat
        /\ Len(items) > 0 => walk.offset + Len(items) <= Len(queue)
        /\ Len(items) = 0 => Len(queue) <= walk.offset
        /\ ToSet(items) = {queue[i] : i \in walk.offset + 1 .. walk.offset + Len(items)}
    BY PageIsNext
  <2> HIDE DEF items
  <2>2. /\ page.data = items /\ page.total = Len(queue)
        /\ page.offset = IF walk.echoes THEN walk.offset ELSE 0
    BY <1>3 DEF Queued, items
  <2>3. has_more(page.offset, Len(page.data), page.total) <=>
           (IF walk.echoes THEN walk.offset ELSE 0) + Len(items) < Len(queue)
    BY <2>2 DEF has_more
  <2>4. ~has_more(page.offset, Len(page.data), page.total) =>
           Len(queue) <= walk.offset + Len(items)
    BY <1>1, <2>1, <2>3
  <2>5. has_more(page.offset, Len(page.data), page.total) /\ walk.echoes => Len(items) # 0
    BY <1>1, <2>1, <2>3
  <2> QED
    BY <1>1, <1>2, <2>1, <2>2, <2>4, <2>5
<1>4. CASE page = Queued(<<>>, 0, 0)
  <2>1. page.data = <<>> /\ page.total = 0 /\ page.offset = 0
    BY <1>4 DEF Queued
  <2>2. Len(page.data) = 0 /\ ToSet(page.data) = {}
    BY <2>1 DEF ToSet
  <2>3. {queue[i] : i \in walk.offset + 1 .. walk.offset + 0} = {}
    BY <1>1
  <2>4. ~has_more(page.offset, Len(page.data), page.total)
    BY <2>1, <2>2 DEF has_more
  <2>5. /\ ToSet(page.data) =
              {queue[i] : i \in walk.offset + 1 .. walk.offset + Len(page.data)}
        /\ Len(page.data) \in Nat /\ ~(Len(page.data) > 0)
    BY <2>2, <2>3
  <2>6. page.total \in Nat /\ ~(page.total > 0)
    BY <2>1
  <2> QED
    BY <1>2, <2>4, <2>5, <2>6
<1> QED
  BY <1>3, <1>4 DEF Envelopes

(* A page skips nothing: the offset moves past what the page showed.       *)
LEMMA ListKeeps ==
    ASSUME WalkInv, list_hitl_queue
    PROVE  WalkInv'
<1> USE DEF WalkInv
<1>0. PICK page \in Envelopes :
         walk' = [walk EXCEPT !.seen = @ \cup ToSet(page.data),
                              !.offset = @ + Len(page.data),
                              !.shown = <<Len(page.data)>>,
                              !.total = page.total,
                              !.more = has_more(page.offset, Len(page.data), page.total)]
  BY DEF list_hitl_queue
<1> DEFINE items == page.data
           total == page.total
           left == has_more(page.offset, Len(page.data), page.total)
<1>1. /\ walk' = [walk EXCEPT !.seen = @ \cup ToSet(items), !.offset = @ + Len(items),
                              !.shown = <<Len(items)>>, !.total = total, !.more = left]
      /\ queue' = queue /\ arrived' = arrived /\ walk.on
  BY <1>0 DEF list_hitl_queue
<1>2. /\ Len(items) \in Nat /\ total \in Nat /\ left \in BOOLEAN
      /\ Len(items) > 0 => walk.offset + Len(items) <= Len(queue)
      /\ ToSet(items) = {queue[i] : i \in walk.offset + 1 .. walk.offset + Len(items)}
      /\ ~left /\ total > 0 => Len(queue) <= walk.offset + Len(items)
      /\ left /\ walk.echoes => Len(items) # 0
  BY ListedIsNext
<1> HIDE DEF items, total, left
<1>3. /\ Len(queue) \in Nat /\ walk.offset \in Nat
      /\ \A i \in 1 .. Len(queue) : queue[i] \in 1 .. arrived
  BY QueuePlaces DEF WalkOK
<1>4. /\ walk'.seen = walk.seen \cup ToSet(items)
      /\ walk'.offset = walk.offset + Len(items)
      /\ walk'.more = left /\ walk'.total = total /\ walk'.shown = <<Len(items)>>
      /\ walk'.on /\ UNCHANGED <<walk.taken, walk.pending, walk.echoes>>
  BY <1>1 DEF WalkOK
<1>5. QueueOK'
  BY <1>1 DEF QueueOK
<1>6. WalkOK'
  <2>1. \A i \in walk.offset + 1 .. walk.offset + Len(items) : i \in 1 .. Len(queue)
    BY <1>2, <1>3
  <2>2. ToSet(items) \subseteq 1 .. arrived
    BY <1>2, <1>3, <2>1
  <2>3. walk.seen \cup ToSet(items) \in SUBSET (1 .. arrived)
    BY <2>2 DEF WalkOK
  <2> DEFINE seen == walk.seen \cup ToSet(items)
             next == walk.offset + Len(items)
             shown == <<Len(items)>>
  <2>5. walk' = [walk EXCEPT !.seen = seen, !.offset = next, !.shown = shown,
                             !.total = total, !.more = left]
    BY <1>1
  <2>6. /\ seen \in SUBSET (1 .. arrived) /\ next \in Nat /\ shown \in Seq(Nat)
        /\ total \in Nat /\ left \in BOOLEAN
    BY <1>2, <1>3, <2>3
  <2> HIDE DEF seen, next, shown
  <2>7. walk' \in [on : BOOLEAN, offset : Nat, seen : SUBSET (1 .. arrived),
                   pending : SUBSET (1 .. arrived), taken : SUBSET (1 .. arrived),
                   limit : {<<>>, <<Limit>>}, echoes : BOOLEAN,
                   shown : Seq(Nat), total : Nat, more : BOOLEAN]
    BY <2>5, <2>6 DEF WalkOK
  <2> QED
    BY <1>1, <1>4, <2>7 DEF WalkOK
<1>7. SkipsAreTaken'
  <2>1. ASSUME NEW i \in Skipped'
        PROVE  i \in Skipped
    <3>1. /\ i \in 1 .. walk.offset + Len(items)
          /\ i \in 1 .. Len(queue) => queue[i] \notin walk.seen \cup ToSet(items)
      BY <1>1, <1>4 DEF Skipped
    <3>2. CASE i <= walk.offset
      BY <1>3, <3>1, <3>2 DEF Skipped
    <3>3. CASE i > walk.offset
      <4>1. i \in walk.offset + 1 .. walk.offset + Len(items) /\ i \in 1 .. Len(queue)
        BY <1>2, <1>3, <3>1, <3>3
      <4> QED
        BY <1>2, <3>1, <4>1
    <3> QED
      BY <1>3, <3>1, <3>2, <3>3
  <2>2. Cardinality(Skipped') <= Cardinality(Skipped) /\ Cardinality(Skipped') \in Nat
    BY <2>1, SkippedIsFinite, FS_Subset, FS_CardinalityType
  <2> QED
    BY <1>4, <2>2, SkippedIsFinite, TakenIsFinite DEF SkipsAreTaken
<1>8. StillInLine'
  BY <1>1, <1>4 DEF StillInLine
<1>9. WentPast'
  <2>1. ~walk'.more /\ walk'.total > 0 => Len(queue) <= walk'.offset
    BY <1>2, <1>4
  <2>2. walk'.offset \in Nat
    BY <1>2, <1>3, <1>4
  <2> QED
    BY <1>1, <1>3, <1>4, <2>1, <2>2 DEF WentPast
<1>10. SentOnByWhatIsLeft'
  BY <1>2, <1>4 DEF SentOnByWhatIsLeft
<1> QED
  BY <1>5, <1>6, <1>7, <1>8, <1>9, <1>10

(* Every step keeps the walk as it should be.                              *)
LEMMA WalkInvNext == WalkInv /\ [WalkNext]_walking => WalkInv'
<1> SUFFICES ASSUME WalkInv, [WalkNext]_walking
             PROVE  WalkInv'
  OBVIOUS
<1>1. CASE UNCHANGED walking
  BY <1>1 DEF walking, WalkInv, QueueOK, WalkOK, SkipsAreTaken, Skipped, StillInLine, WentPast,
              SentOnByWhatIsLeft
<1> QED
  BY <1>1, ArrivesKeeps, TakenKeeps, StartKeeps, EndKeeps, ListKeeps DEF WalkNext

(* The invariant that the theorem rests on.                                *)
LEMMA WalkInvariant == WalkSpec => []WalkInv
BY WalkInvInit, WalkInvNext, PTL DEF WalkSpec

(* However requests arrive and are taken while an application pages, what- *)
(* ever the size of its pages and wherever a foreign document turns up as  *)
(* one: a walk whose last page knows of requests has seen all that were    *)
(* pending when it began and that nobody took, but for one per request     *)
(* that was taken; and where the offset is echoed none is sent on past the *)
(* end.                                                                    *)
THEOREM WalkMissesOnlyTaken == WalkSpec => []WalkComplete
<1>1. WalkInv => WalkComplete
  BY MissedWasSkipped DEF WalkComplete, SeenToTheEnd, Missed, WalkInv
<1> QED
  BY <1>1, WalkInvariant, PTL
=============================================================================
