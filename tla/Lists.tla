------------------------------- MODULE Lists -------------------------------
(***************************************************************************)
(* What is left of a list when some of it goes (Vec::retain,               *)
(* Iterator::filter).  SelectSeq says it with a test on elements; here it  *)
(* is said of places, without recursion, so that it can be reasoned about. *)
(***************************************************************************)
EXTENDS Integers, Sequences, FiniteSets

\* The j-th of a set of places.
Nth(places, j) == CHOOSE k \in places : Cardinality({i \in places : i <= k}) = j

\* The elements of a list at some places, in the order they have there.
Picked(list, places) == [j \in 1 .. Cardinality(places) |-> list[Nth(places, j)]]
=============================================================================
