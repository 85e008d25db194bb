------------------------------- MODULE MCAvl -------------------------------
(***************************************************************************)
(* Avl for TLC.  Neighbouring keys have different data, so that data which *)
(* ends up at the wrong key is seen; one key is inserted with either.      *)
(***************************************************************************)
EXTENDS Avl

CONSTANTS a, b
MCValues == [k \in Keys |-> CASE k = 2 -> {a, b}
                              [] k % 2 = 1 -> {a}
                              [] OTHER -> {b}]
=============================================================================
