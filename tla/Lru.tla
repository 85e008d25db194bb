-------------------------------- MODULE Lru --------------------------------
(***************************************************************************)
(* liblru/lru.c: an LRU cache made of a libfh hashtable, which finds the   *)
(* slot of a key, and of the list of ll.c, which orders the slots by use.  *)
(* Each has its own locks and no lock spans an operation of lru.c, so a    *)
(* step is one call of fh or of ll, with the accesses to private memory    *)
(* around it.  The hashtable is the map it implements, the lock of a key   *)
(* is LockOf[key]; only fh_searchlock returns with a lock held.            *)
(* A key string is named by the slot whose payload points to it: fh_key[s] *)
(* is its text, NULL once it is freed.  The payload that clients add for a *)
(* key is the key itself, as in the tests.                                 *)
(***************************************************************************)
EXTENDS LruList, FiniteSets

CONSTANTS Threads, Keys,
          Calls,          \* the entry points the clients use
          Locks, LockOf,  \* fh->h_lock, and the lock of a key's bucket
          MemoryFails     \* malloc may fail

EntryPoints == {"add", "check", "clear", "destroy"}

ASSUME LruAssumption ==
    /\ IsFiniteSet(Threads) /\ NULL \notin Threads \cup Keys
    /\ Calls \subseteq EntryPoints
    /\ LockOf \in [Keys -> Locks]
    /\ MemoryFails \in BOOLEAN

VARIABLES fh,               \* the hashtable: the slot of a key, or NULL
          h_lock,           \* the thread that holds a lock, or NULL
          fh_key, payload,  \* lru_payload_t of a slot
          pc, op, key, slot,  \* per thread: position, call and locals
          ret               \* what the last step returned

hash  == <<fh, h_lock>>
pload == <<fh_key, payload>>
vars  == <<top, last, freelist, next, prev, status, order, free,
           fh, h_lock, fh_key, payload, pc, op, key, slot, ret>>

NoReturn == [code |-> "none", val |-> NULL]
PCs == {"idle", "new", "fill", "insert", "undo_dup", "undo_mem", "top",
        "remove", "del", "release", "search", "touch", "destroyed"}

Init ==
    /\ llInit
    /\ fh = [k \in Keys |-> NULL] /\ h_lock = [l \in Locks |-> NULL]
    /\ fh_key = [s \in Slots |-> NULL] /\ payload = [s \in Slots |-> NULL]
    /\ pc = [t \in Threads |-> "idle"] /\ op = [t \in Threads |-> "none"]
    /\ key = [t \in Threads |-> NULL] /\ slot = [t \in Threads |-> NULL]
    /\ ret = NoReturn

\* The threads are joined before one of them calls lru_destroy.
MayCall(t, call) ==
    /\ pc[t] = "idle" /\ call \in Calls
    /\ \A u \in Threads : /\ op[u] # "destroy" /\ pc[u] # "destroyed"
                          /\ call = "destroy" => pc[u] = "idle"

Enter(t, call, k, at) ==
    /\ MayCall(t, call)
    /\ pc' = [pc EXCEPT ![t] = at]
    /\ op' = [op EXCEPT ![t] = call]
    /\ key' = [key EXCEPT ![t] = k]
    /\ ret' = NoReturn
    /\ UNCHANGED <<llvars, hash, pload, slot>>

Goto(t, at) ==
    pc' = [pc EXCEPT ![t] = at] /\ ret' = NoReturn /\ UNCHANGED <<op, key>>

Leave(t, at, code, val) ==
    /\ pc' = [pc EXCEPT ![t] = at]
    /\ op' = [op EXCEPT ![t] = "none"]
    /\ key' = [key EXCEPT ![t] = NULL]
    /\ slot' = [slot EXCEPT ![t] = NULL]
    /\ ret' = [code |-> code, val |-> val]

Return(t, code, val) == Leave(t, "idle", code, val)

Unlocked(k) == h_lock[LockOf[k]] = NULL

(***************************************************************************)
(* Removing the least recently used entry: the loop of lru_add when no     *)
(* slot is free, and the loop of lru_clear.                                *)
(***************************************************************************)
\* lru_clear returns to its caller, or to lru_destroy, which frees the rest.
ClearReturns(t, code) ==
    IF op[t] = "destroy" THEN Leave(t, "destroyed", "LRU_OK", NULL)
                         ELSE Return(t, code, NULL)

\* ll_remove_last found the list empty: lru_add gives up, lru_clear is done.
ListEmpty(t) ==
    \/ op[t] = "add" /\ Return(t, "LRU_NO_MEMORY", NULL)
    \/ op[t] # "add" /\ ClearReturns(t, "LRU_OK")

Remove(t) ==
    /\ pc[t] = "remove"
    /\ \/ /\ RemoveLast
          /\ slot' = [slot EXCEPT ![t] = last]
          /\ Goto(t, "del")
       \/ /\ last = NULL
          /\ ListEmpty(t)
          /\ UNCHANGED llvars
    /\ UNCHANGED <<hash, pload>>

\* fh_del by the key of the slot.  lru_add carries on when it is not found.
Del(t) ==
    LET k == fh_key[slot[t]] IN
    /\ pc[t] = "del"
    /\ Unlocked(k)
    /\ fh' = [fh EXCEPT ![k] = NULL]
    /\ IF fh[k] = NULL /\ op[t] # "add"
       THEN ClearReturns(t, "LRU_ELEMENT_NOT_FOUND")
       ELSE Goto(t, "release") /\ UNCHANGED slot
    /\ UNCHANGED <<llvars, h_lock, pload>>

\* Defect: lru_add goes on evicting.
BadAfterRelease(t) == "remove"
\* Back to the head of the loop.
AfterRelease(t) == IF op[t] = "add" THEN "new" ELSE "remove"

\* free(hashpayload->fh_key) and ll_slot_free
Release(t) ==
    /\ pc[t] = "release"
    /\ fh_key' = [fh_key EXCEPT ![slot[t]] = NULL]
    /\ SlotFree(slot[t])
    /\ slot' = [slot EXCEPT ![t] = NULL]
    /\ Goto(t, AfterRelease(t))
    /\ UNCHANGED <<hash, payload>>

(***************************************************************************)
(* lru_add                                                                 *)
(***************************************************************************)
AddCall(t, k) == Enter(t, "add", k, "new")

AddNew(t) ==
    /\ pc[t] = "new"
    /\ \/ /\ SlotNew
          /\ slot' = [slot EXCEPT ![t] = freelist]
          /\ Goto(t, "fill")
       \/ /\ freelist = NULL
          /\ Goto(t, "remove")
          /\ UNCHANGED <<llvars, slot>>
    /\ UNCHANGED <<hash, pload>>

\* Defect: the slot is not returned to the freelist.
BadGiveBack(s) == UNCHANGED llvars
GiveBack(s) == SlotFree(s)

\* The payload and the copy of the key; without memory the slot is returned.
AddFill(t) ==
    /\ pc[t] = "fill"
    /\ payload' = [payload EXCEPT ![slot[t]] = key[t]]
    /\ \/ /\ fh_key' = [fh_key EXCEPT ![slot[t]] = key[t]]
          /\ Goto(t, "insert")
          /\ UNCHANGED <<llvars, slot>>
       \/ /\ MemoryFails
          /\ fh_key' = [fh_key EXCEPT ![slot[t]] = NULL]
          /\ GiveBack(slot[t])
          /\ Return(t, "LRU_NO_MEMORY", NULL)
    /\ UNCHANGED hash

\* Defect: an entry for the same key is overwritten.
BadDuplicate(k) == FALSE
Duplicate(k) == fh[k] # NULL

\* fh_insert.  From here lru_check finds the slot, before it is in the list.
AddInsert(t) ==
    LET k == key[t] IN
    /\ pc[t] = "insert"
    /\ Unlocked(k)
    /\ \/ Duplicate(k) /\ Goto(t, "undo_dup") /\ UNCHANGED fh
       \/ MemoryFails /\ ~Duplicate(k) /\ Goto(t, "undo_mem") /\ UNCHANGED fh
       \/ ~Duplicate(k) /\ fh' = [fh EXCEPT ![k] = slot[t]] /\ Goto(t, "top")
    /\ UNCHANGED <<llvars, h_lock, pload, slot>>

FreeKey(s) == fh_key' = [fh_key EXCEPT ![s] = NULL]

\* fh_insert failed: free(new->fh_key) and ll_slot_free
AddUndo(t) ==
    /\ pc[t] \in {"undo_dup", "undo_mem"}
    /\ FreeKey(slot[t])
    /\ GiveBack(slot[t])
    /\ Return(t, IF pc[t] = "undo_dup" THEN "LRU_DUPLICATED_ELEMENT"
                                       ELSE "LRU_NO_MEMORY", NULL)
    /\ UNCHANGED <<hash, payload>>

AddTop(t) ==
    /\ pc[t] = "top"
    /\ AddToTop(slot[t])
    /\ Return(t, "LRU_OK", NULL)
    /\ UNCHANGED <<hash, pload>>

(***************************************************************************)
(* lru_check, lru_clear, lru_destroy                                       *)
(***************************************************************************)
CheckCall(t, k) == Enter(t, "check", k, "search")

\* Defect: fh_get in place of fh_searchlock, no lock is kept.
BadKeepLock(t, k) == UNCHANGED h_lock
KeepLock(t, k) == h_lock' = [h_lock EXCEPT ![LockOf[k]] = t]

\* fh_searchlock keeps the lock when it finds the key.
Search(t) ==
    LET k == key[t] IN
    /\ pc[t] = "search"
    /\ Unlocked(k)
    /\ \/ /\ fh[k] = NULL
          /\ Return(t, "LRU_ELEMENT_NOT_FOUND", NULL)
          /\ UNCHANGED h_lock
       \/ /\ fh[k] # NULL
          /\ KeepLock(t, k)
          /\ slot' = [slot EXCEPT ![t] = fh[k]]
          /\ Goto(t, "touch")
    /\ UNCHANGED <<llvars, fh, pload>>

\* The payload is read, the slot moved to the top, the lock released.
Touch(t) ==
    /\ pc[t] = "touch"
    /\ MoveToTop(slot[t])
    /\ h_lock' = [h_lock EXCEPT ![LockOf[key[t]]] = NULL]
    /\ Return(t, "LRU_OK", payload[slot[t]])
    /\ UNCHANGED <<fh, pload>>

ClearCall(t) == Enter(t, "clear", NULL, "remove")

\* lru_destroy begins with a call of lru_clear.
DestroyEntry == "remove"
DestroyCall(t) == Enter(t, "destroy", NULL, DestroyEntry)

\* The cache is gone and nothing runs any more.
Destroyed == (\E t \in Threads : pc[t] = "destroyed") /\ UNCHANGED vars

-----------------------------------------------------------------------------
AddStep(t)  == AddNew(t) \/ AddFill(t) \/ AddInsert(t) \/ AddUndo(t) \/ AddTop(t)
EvictStep(t) == Remove(t) \/ Del(t) \/ Release(t)
Step(t) == AddStep(t) \/ EvictStep(t) \/ Search(t) \/ Touch(t)
Start(t) == \/ \E k \in Keys : AddCall(t, k) \/ CheckCall(t, k)
            \/ ClearCall(t) \/ DestroyCall(t)

Next == Destroyed \/ \E t \in Threads : Start(t) \/ Step(t)

Spec == Init /\ [][Next]_vars
-----------------------------------------------------------------------------
At(pcs) == {t \in Threads : pc[t] \in pcs}
\* The threads that hold a dangling slot, and among them those whose entry is
\* in the hashtable: inserted and not yet in the list, or the reverse.
Holders == At({"fill", "insert", "undo_dup", "undo_mem", "top", "del", "release"})
Halfway == At({"top", "del"})

\* Every variable of the list, of the hashtable and of the threads has its type.
TypeOK ==
    /\ llTypeOK
    /\ fh \in [Keys -> Slots \cup {NULL}]
    /\ h_lock \in [Locks -> Threads \cup {NULL}]
    /\ fh_key \in [Slots -> Keys \cup {NULL}]
    /\ payload \in [Slots -> Keys \cup {NULL}]
    /\ pc \in [Threads -> PCs] /\ op \in [Threads -> EntryPoints \cup {"none"}]
    /\ key \in [Threads -> Keys \cup {NULL}]
    /\ slot \in [Threads -> Slots \cup {NULL}]

\* Every slot is in the list, on the freelist or held by exactly one thread:
\* none is lost, and no two threads fill, add or free the same one.
SlotConservation ==
    /\ \A s \in Slots :
          (status[s] = DANGLING) <=> (\E t \in Holders : slot[t] = s)
    /\ \A t, u \in Holders : slot[t] = slot[u] => t = u
    /\ \A s \in Slots : ~(s \in Elems(order) /\ s \in Elems(free))

\* The hashtable and the list hold the same entries, but for those that a
\* thread is adding or removing; the hashtable never refers to a key string
\* that lru_add or lru_clear has freed, nor to a slot that was handed out again.
HashAgreesWithList ==
    /\ \A k \in Keys : fh[k] # NULL =>
          /\ fh_key[fh[k]] = k
          /\ fh[k] \in Elems(order) \cup {slot[t] : t \in Halfway}
    /\ \A s \in Elems(order) : fh_key[s] # NULL /\ fh[fh_key[s]] = s
    /\ \A t \in Halfway : fh_key[slot[t]] # NULL /\ fh[fh_key[slot[t]]] = slot[t]

\* lru_check returns the payload that was added with its key, even when the
\* entry is being evicted while it is read: from fh_searchlock until it reads
\* the payload its slot is not given to another key.
RightPayload == \A t \in At({"touch"}) : payload[slot[t]] = key[t]

\* A key string is freed by the one thread that owns it, and none is leaked:
\* those allocated belong to a slot in the list or to a thread.
KeysOwned ==
    \A s \in Slots :
        fh_key[s] # NULL <=>
            \/ s \in Elems(order)
            \/ \E t \in Holders : slot[t] = s /\ pc[t] # "fill"

\* lru_destroy frees every entry: all slots are free, no key string is left.
DestroyedClean ==
    At({"destroyed"}) # {} =>
        /\ Elems(free) = Slots
        /\ \A s \in Slots : fh_key[s] = NULL
        /\ \A k \in Keys : fh[k] = NULL

\* Every slot and every key string is in one place, which its status tells, and
\* the freelist is the chain of the free ones, through duplicates, evictions and
\* failing allocations, up to lru_destroy, which leaves nothing.
SlotsSound ==
    /\ TypeOK /\ FreeChain /\ StatusTells
    /\ SlotConservation /\ KeysOwned /\ DestroyedClean

\* With no more threads than slots, and nobody clearing the cache, lru_add
\* always finds a slot or an entry to evict (the comment in lru_add reports
\* LRU_NO_MEMORY "with lru size 3 and 4 threads doing add").
EvictionFinds ==
    Cardinality(Threads) <= Dim /\ Calls \cap {"clear", "destroy"} = {} =>
        \A t \in At({"remove"}) : last # NULL

\* What the last call of fh returned to a thread, as its position tells.
Fh(t) ==
    LET R(call, k, code, val) ==
            [call |-> call, key |-> k, code |-> code, val |-> val] IN
    CASE pc[t] = "undo_dup" -> R("insert", key[t], "FH_DUPLICATED_ELEMENT", NULL)
      [] pc[t] = "undo_mem" -> R("insert", key[t], "FH_NO_MEMORY", NULL)
      [] pc[t] = "top"      -> R("insert", key[t], "FH_OK", slot[t])
      [] pc[t] = "release"  -> R("del", fh_key[slot[t]], "FH_OK", NULL)
      [] pc[t] = "touch"    -> R("searchlock", key[t], "FH_OK", slot[t])
      [] OTHER              -> R("none", NULL, "none", NULL)

Map == INSTANCE HashMap WITH
    Data <- Slots, ABSENT <- NULL, NONE <- NULL,
    map <- fh,
    holds <- [t \in Threads |-> IF pc[t] = "touch" THEN key[t] ELSE NULL],
    res <- [t \in Threads |-> Fh(t)]

\* lru.c goes through the hashtable only by the steps that libfh provides: what
\* it does with fh is a behaviour of the map that FastHash implements, and it
\* takes the branch that fits the answer.  In particular fh_del always finds the
\* entry of the slot that ll_remove_last gave.
UsesHashMap == Map!Spec
=============================================================================
