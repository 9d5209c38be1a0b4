------------------------------- MODULE Sorting -------------------------------
(***************************************************************************)
(* What Array.prototype.sort comes to.                                     *)
(***************************************************************************)
EXTENDS Integers, FiniteSets, Functions

(* The elements of S from the first to the last, where <<a, b>> \in order  *)
(* says that a comes before b: each stands where the number of those before*)
(* it says.                                                                *)
Sorted(S, order) ==
  [i \in 1 .. Cardinality(S) |->
     CHOOSE a \in S : Cardinality({b \in S : <<b, a>> \in order}) = i - 1]
=============================================================================
