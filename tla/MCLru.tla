------------------------------- MODULE MCLru -------------------------------
(***************************************************************************)
(* Lru for TLC.  A hashtable for 64 entries or fewer has one lock, and its *)
(* keys are interchangeable, as the threads always are.  A larger one has  *)
(* several: then keys are numbers, and two of them share a lock.           *)
(***************************************************************************)
EXTENDS Lru, TLC

OneLock  == [k \in Keys |-> 0]
TwoLocks == [k \in Keys |-> k % 2]

ThreadSymmetry == Permutations(Threads)
OneLockSymmetry == Permutations(Threads) \cup Permutations(Keys)
=============================================================================
