----------------------------- MODULE MCChannel -----------------------------
(***************************************************************************)
(* Channel for TLC: symmetry of the threads, of the addresses and of the   *)
(* blocks (they are only compared for equality).                           *)
(***************************************************************************)
EXTENDS ChannelRefinement, TLC

Symmetry == Permutations(Threads) \cup Permutations(Elements)
                \cup Permutations(Blocks)
=============================================================================
