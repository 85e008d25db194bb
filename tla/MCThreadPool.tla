---------------------------- MODULE MCThreadPool ----------------------------
(***************************************************************************)
(* ThreadPool for TLC: clients are interchangeable, and so are workers,    *)
(* jobs whose function adds a job, and the other jobs.                     *)
(***************************************************************************)
EXTENDS ThreadPool, TLC

Symmetry == Permutations(Clients) \cup Permutations(Workers)
                \cup Permutations(Adders)
                \cup Permutations(Jobs \ Adders)
=============================================================================
