----------------------------- MODULE MCFastHash -----------------------------
(***************************************************************************)
(* Instances of FastHash.  Keys 1 and 2 have the same index and the same   *)
(* mini hash, so that only the comparison of the strings tells them apart; *)
(* key 3 has another index, and at the larger dimension another lock.      *)
(***************************************************************************)
EXTENDS FastHash, TLC

MCLowBits == [k \in Keys |-> IF k = 3 THEN 3 ELSE 0]
MCTopByte == [k \in Keys |-> CASE k = 1 -> 0 [] k = 2 -> 5 [] k = 3 -> 9]

CONSTANTS d1, d2
MCBlocks == [k \in Keys |-> CASE k = 1 -> {d1} [] k = 2 -> {d2} [] k = 3 -> {d1, d2}]

\* A failed allocation that leaves a half made entry, or a table that is not
\* cleaned, ends a behaviour: what follows reads NULL.
WithinMemory == ~no_memory

Symmetry == Permutations(Threads) \cup Permutations(Ptrs)
=============================================================================
