----------------------------- MODULE Subsequences -----------------------------
(***************************************************************************)
(* What filter(), splice() and delete leave of a list: the elements at     *)
(* some of its positions, in their order.  It is SelectSeq of Sequences    *)
(* without its recursion, so that what it keeps of a list can be proved.   *)
(***************************************************************************)
EXTENDS Naturals, Sequences, FiniteSets

\* The i-th smallest of the positions.
Nth(positions, i) ==
    CHOOSE p \in positions : Cardinality({k \in positions : k <= p}) = i

Picked(s, positions) == [i \in 1..Cardinality(positions) |-> s[Nth(positions, i)]]
===============================================================================
