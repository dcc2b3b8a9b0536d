---------------------------- MODULE Arrangements ----------------------------
(***************************************************************************)
(* Lists that are made from a set by an order, or from a list by leaving   *)
(* elements out.  SelectSeq, SortSeq and the folds are recursive; these    *)
(* operators say the same of a list by counting, so that facts about them  *)
(* can be proved (ArrangementsProofs).                                     *)
(***************************************************************************)
EXTENDS Integers, Sequences, FiniteSets

\* The elements of a finite set that an order, a set of pairs, puts before x.
Before(I, R, x) == {y \in I : <<y, x>> \in R}

Place(I, R, x) == Cardinality(Before(I, R, x)) + 1

\* The elements of a finite set in that order.
Arranged(I, R) ==
  [n \in 1..Cardinality(I) |-> CHOOSE x \in I : Place(I, R, x) = n]

Ascending(I) == Arranged(I, {p \in I \X I : p[1] < p[2]})

\* The elements of the sequence s at the positions I, in their order.
Picked(s, I) == [n \in 1..Cardinality(I) |-> s[Ascending(I)[n]]]
=============================================================================
