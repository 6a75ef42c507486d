------------------------------ MODULE Ordering ------------------------------
(***************************************************************************)
(* What sort.Sort and sort.Slice of Go's library do: RunStore and Views    *)
(* list file names and points with them.  It is said with sets and not     *)
(* with SortSeq, of which the proof system has no definition.              *)
(***************************************************************************)
EXTENDS Naturals, FiniteSets

(* How many elements of S are before x; before is a set of pairs.          *)
Place(x, S, before) == Cardinality({y \in S : <<y, x>> \in before})

(* The elements of S, each at its place.                                   *)
InOrder(S, before) == [k \in 1..Cardinality(S) |-> CHOOSE x \in S : Place(x, S, before) = k - 1]
==============================================================================
