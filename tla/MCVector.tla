------------------------------ MODULE MCVector ------------------------------
(***************************************************************************)
(* Vector for TLC: the items are interchangeable.                          *)
(***************************************************************************)
EXTENDS Vector, TLC

\* Every valid index, and one on either side.
AllIndices == -1..MaxTotal

Symmetry == Permutations(Items)
=============================================================================
