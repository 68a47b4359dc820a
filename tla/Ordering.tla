------------------------------ MODULE Ordering ------------------------------
(***************************************************************************)
(* A finite set listed in an order, given as the set of its pairs: what    *)
(* sorting a vector and iterating over a BTreeSet come to.  (SortSeq and   *)
(* SelectSeq are opaque to the proof system.)                              *)
(***************************************************************************)
EXTENDS Naturals, FiniteSets

Preceding(S, before, a) == {b \in S : <<b, a>> \in before}

(* Each element comes after those that precede it.                         *)
InOrder(S, before) ==
    [n \in 1 .. Cardinality(S) |->
       CHOOSE a \in S : Cardinality(Preceding(S, before, a)) = n - 1]
=============================================================================
