-------------------------------- MODULE Lists --------------------------------
(***************************************************************************)
(* What is left of a list by a loop that erases or passes over entries.    *)
(* The entries are chosen by their positions and keep their order.  There  *)
(* is no recursion here, so that the models that use it can be proved      *)
(* about; ListProofs has what the proofs need.                             *)
(***************************************************************************)
EXTENDS Naturals, Sequences, FiniteSets

(* A sequence of whatever entries *)
IsList(x) == Len(x) \in Nat /\ x = [i \in 1..Len(x) |-> x[i]]

(* How many of the positions are not after i *)
Rank(positions, i) == Cardinality({k \in positions : k <= i})

Picked(list, positions) ==
  [j \in 1..Cardinality(positions) |->
     list[CHOOSE i \in positions : Rank(positions, i) = j]]

(* A list with every entry of x erased *)
Without(list, x) == Picked(list, {i \in DOMAIN list : list[i] # x})
=============================================================================
