-------------------------------- MODULE Orders --------------------------------
(***************************************************************************)
(* Sorting.  An order is a set R of pairs <<y, x>> that says which of two  *)
(* elements of a set S comes first, so that facts about sorting can be     *)
(* stated once for every order; the operators of the community modules     *)
(* take the comparison as an operator.                                     *)
(***************************************************************************)
EXTENDS Integers, Sequences, FiniteSets

Before(S, R, x) == {y \in S : <<y, x>> \in R}

(* The elements of S, each after those before it. *)
Sorted(S, R) ==
  [i \in 1 .. Cardinality(S) |->
     CHOOSE x \in S : Cardinality(Before(S, R, x)) = i - 1]
==============================================================================
