------------------------------ MODULE HashMap ------------------------------
(***************************************************************************)
(* What fh.h promises of a hashtable that several threads use: a map from  *)
(* keys to data.  Every call takes effect at one instant.  A thread may    *)
(* keep an entry locked (fh_searchlock, fh_insertlock) until it releases   *)
(* it; meanwhile nobody else reads or changes that entry.                  *)
(* FastHash implements this specification, and Lru relies on it.           *)
(***************************************************************************)
CONSTANTS Threads, Keys,
          Data,     \* what clients store
          ABSENT,   \* a key that is not in the table
          NONE

VARIABLES map,      \* the data of a key, or ABSENT
          holds,    \* the key of the entry a thread has locked, or NONE
          res       \* the result of a thread's call, as long as it matters

vars == <<map, holds, res>>

Result(call, k, code, val) == [call |-> call, key |-> k, code |-> code, val |-> val]
NoResult == Result("none", NONE, "none", NONE)

Init ==
    /\ map = [k \in Keys |-> ABSENT]
    /\ holds = [t \in Threads |-> NONE]
    /\ res = [t \in Threads |-> NoResult]

Reachable(t, k) == \A u \in Threads \ {t} : holds[u] # k

\* A result may be forgotten at any step.
Fading(threads) == \A t \in threads : res'[t] \in {res[t], NoResult}

Quiet == DOMAIN res' = Threads /\ Fading(Threads)

Answer(t, call, k, code, val) ==
    /\ DOMAIN res' = Threads
    /\ res'[t] = Result(call, k, code, val)
    /\ Fading(Threads \ {t})

\* fh_insert and, when it keeps the entry locked, fh_insertlock
Insert(t, k, d, keep) ==
    LET call == IF keep THEN "insertlock" ELSE "insert" IN
    /\ \/ /\ Answer(t, call, k, "FH_OK", d)
          /\ map[k] = ABSENT
          /\ map' = [map EXCEPT ![k] = d]
          /\ holds' = IF keep THEN [holds EXCEPT ![t] = k] ELSE holds
       \/ /\ Answer(t, call, k, "FH_DUPLICATED_ELEMENT", NONE)
          /\ map[k] # ABSENT
          /\ UNCHANGED <<map, holds>>
       \/ /\ Answer(t, call, k, "FH_NO_MEMORY", NONE)
          /\ UNCHANGED <<map, holds>>
    /\ holds[t] = NONE /\ Reachable(t, k)

\* fh_search, fh_get and, when it keeps the entry locked, fh_searchlock
Search(t, k, keep) ==
    LET call == IF keep THEN "searchlock" ELSE "search" IN
    /\ \/ /\ Answer(t, call, k, "FH_OK", map[k])
          /\ map[k] # ABSENT
          /\ holds' = IF keep THEN [holds EXCEPT ![t] = k] ELSE holds
       \/ /\ Answer(t, call, k, "FH_ELEMENT_NOT_FOUND", NONE)
          /\ map[k] = ABSENT
          /\ UNCHANGED holds
    /\ holds[t] = NONE /\ Reachable(t, k)
    /\ UNCHANGED map

\* fh_del, and fh_dellocked of the entry that the thread has locked
Delete(t, k, locked) ==
    LET call == IF locked THEN "dellocked" ELSE "del" IN
    /\ \/ Answer(t, call, k, "FH_OK", NONE) /\ map[k] # ABSENT
       \/ Answer(t, call, k, "FH_ELEMENT_NOT_FOUND", NONE) /\ map[k] = ABSENT
    /\ holds[t] = IF locked THEN k ELSE NONE
    /\ Reachable(t, k)
    /\ map' = [map EXCEPT ![k] = ABSENT]
    /\ UNCHANGED holds

\* The client changes the data of the entry that it has locked.
Modify(t, d) ==
    /\ holds[t] # NONE /\ map[holds[t]] # ABSENT
    /\ map' = [map EXCEPT ![holds[t]] = d]
    /\ Quiet /\ UNCHANGED holds

\* fh_releaselock
Release(t) ==
    /\ holds[t] # NONE
    /\ holds' = [holds EXCEPT ![t] = NONE]
    /\ Quiet /\ UNCHANGED map

Forget == Quiet /\ UNCHANGED <<map, holds>>

Call(t) ==
    \/ \E k \in Keys, d \in Data, keep \in BOOLEAN : Insert(t, k, d, keep)
    \/ \E k \in Keys, keep \in BOOLEAN : Search(t, k, keep)
    \/ \E k \in Keys, locked \in BOOLEAN : Delete(t, k, locked)

Hold(t) == (\E d \in Data : Modify(t, d)) \/ Release(t)

\* A call is seen by the result it leaves.
Next == Forget \/ \E t \in Threads : Hold(t) \/ (res'[t] # NoResult /\ Call(t))

Spec == Init /\ [][Next]_vars
=============================================================================
