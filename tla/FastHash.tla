------------------------------ MODULE FastHash ------------------------------
(***************************************************************************)
(* libfh/fh.c: a hashtable of bucket chains.  The buckets share n_lock     *)
(* locks, mutexes or read/write locks; the counter h_elements has a lock   *)
(* of its own and is changed after the bucket is unlocked.  Threads call   *)
(* the entry points of fh.h in any order.  A step ends where another       *)
(* thread may interfere: when a bucket lock is taken, when it is released, *)
(* at the counter, and between the reservation of a slot and its filling.  *)
(* What a call does before it has its lock only reads its arguments.       *)
(* hash_table[i] is the chain of fh_bucket of index i as a sequence.  Key  *)
(* strings are pointers: text[p] is NULL once p is freed.  With            *)
(* FH_SETATTR_DONTCOPYKEY a slot points to the client's own string, named  *)
(* by its text.  Data are opaque values.  h_collision, a statistic that    *)
(* nothing reads, is left out.                                             *)
(* An operator named Bad... is a defective variant of the one it precedes. *)
(***************************************************************************)
EXTENDS Integers, Sequences, FiniteSets, SequencesExt

CONSTANTS Threads, Keys, Data, Ptrs, NULL, ABSENT,
          Blocks,                   \* the data that clients store for a key
          LowBits, TopByte,         \* of the hash of a key
          BUCKET_SIZE, SIZE_LIMIT_SINGLE_MUTEX,
          Width,                    \* of unsigned int, in bits
          Dims,                     \* the dimensions asked of fh_create
          Calls,                    \* the entry points the clients use
          Guarded   \* clients do not delete while others enumerate or clean

EntryPoints == {"insert", "insertlock", "search", "searchlock", "del",
                "enum", "clean", "destroy", "setattr"}

ASSUME FastHashAssumption ==
    /\ IsFiniteSet(Threads) /\ IsFiniteSet(Keys) /\ IsFiniteSet(Ptrs)
    /\ NULL \notin Keys \cup Ptrs \cup Threads /\ Keys \cap Ptrs = {}
    /\ Blocks \in [Keys -> SUBSET (Data \ {NULL, ABSENT})]
    /\ LowBits \in [Keys -> Nat] /\ TopByte \in [Keys -> 0..255]
    /\ BUCKET_SIZE \in Nat \ {0} /\ Width \in Nat \ {0}
    /\ Dims \subseteq Nat /\ Calls \subseteq EntryPoints
    /\ Guarded \in BOOLEAN

VARIABLES
    h_dim, n_lock, use_rw, dont_copy, h_elements, hash_table,  \* fh_t
    text,                      \* the heap of key strings
    no_memory,                 \* an allocation failed and left something behind
    writer, readers,           \* per lock: who holds it
    pc, op, key, block, at,    \* per thread: position, call and locals
    fhe,                       \* per thread: its enumerator, or NULL
    res                        \* per thread: what its call has just returned

fixed == <<h_dim, n_lock>>
attrs == <<use_rw, dont_copy>>
table == <<hash_table, text>>
locks == <<writer, readers>>
args  == <<op, key, block>>
vars  == <<fixed, attrs, h_elements, table, no_memory, locks, pc, args, at, fhe, res>>
-----------------------------------------------------------------------------
(***************************************************************************)
(* Sizes, indices and locks                                                *)
(***************************************************************************)
\* Defect: the loop stops at the largest power of two below s.
BadReached(i, s) == 2 * i > s
Reached(i, s) == i >= s

\* fh_hash_size.  Once the shift has lost its bit, i = 0 and the loop does not
\* end: the result 0 stands for that.
HashSize(dim) ==
    LET s == (dim + dim \div 2) % 2^Width
        Shift[i \in 0..(2^Width - 1)] ==
            IF i = 0 \/ Reached(i, s) THEN i ELSE Shift[(2 * i) % 2^Width]
    IN  Shift[1]

\* The loop of fh_create that counts the binary digits of dim.
LockCount(dim) ==
    LET Digits[n \in Nat] == IF n = 0 THEN 0 ELSE 1 + Digits[n \div 2]
    IN  IF dim > SIZE_LIMIT_SINGLE_MUTEX THEN Digits[dim] ELSE 1

\* The dimensions for which fh_hash_size ends, and some lock is allocated.
ASSUME SizeAssumption ==
    \A dim \in Dims : HashSize(dim) \in Nat \ {0} /\ LockCount(dim) \in Nat \ {0}

\* h_dim is a power of two: the code masks with h_dim - 1.
Index(k) == LowBits[k] % h_dim
LockOf(i) == i % n_lock

\* MAKE_MINIHASH: 0 marks an empty slot and is never the mini hash of a key.
MIN_MINIHASH == 5
MiniHash(k) == IF TopByte[k] < MIN_MINIHASH THEN TopByte[k] + MIN_MINIHASH
                                            ELSE TopByte[k]

\* rlock_f, wlock_f and unlock_f, as fh_create and fh_setattr choose them.
Free(l) == writer[l] = NULL /\ readers[l] = {}

WLock(t, i) ==
    /\ Free(LockOf(i))
    /\ writer' = [writer EXCEPT ![LockOf(i)] = t]
    /\ UNCHANGED readers

\* Defect: readers do not wait for a writer.
BadRLock(t, i) ==
    /\ readers' = [readers EXCEPT ![LockOf(i)] = @ \cup {t}]
    /\ UNCHANGED writer
RLock(t, i) ==
    \/ ~use_rw /\ WLock(t, i)
    \/ /\ use_rw /\ writer[LockOf(i)] = NULL
       /\ readers' = [readers EXCEPT ![LockOf(i)] = @ \cup {t}]
       /\ UNCHANGED writer

Unlock(t, i) ==
    /\ writer' = [writer EXCEPT ![LockOf(i)] = IF @ = t THEN NULL ELSE @]
    /\ readers' = [readers EXCEPT ![LockOf(i)] = @ \ {t}]
-----------------------------------------------------------------------------
(***************************************************************************)
(* Chains                                                                  *)
(***************************************************************************)
EmptySlot == [mini |-> 0, key |-> NULL, obj |-> NULL]
EmptyBucket == [j \in 1..BUCKET_SIZE |-> EmptySlot]

Text(p) == IF p \in Ptrs THEN text[p] ELSE p

Positions(chain) == (1..Len(chain)) \X (1..BUCKET_SIZE)
SlotAt(chain, p) == chain[p[1]][p[2]]

SlotsOf(chain) == {SlotAt(chain, p) : p \in Positions(chain)}

\* Buckets are scanned along the chain, slots in the order of the array.
Upto(p, q) == p[1] < q[1] \/ (p[1] = q[1] /\ p[2] <= q[2])
Nth(positions, n) ==
    CHOOSE p \in positions : Cardinality({q \in positions : Upto(q, p)}) = n
First(positions) == Nth(positions, 1)

\* Defect: the mini hash alone decides.
BadMatches(slot, k) == slot.mini = MiniHash(k)
Matches(slot, k) == slot.mini = MiniHash(k) /\ Text(slot.key) = k

\* _fh_find_slot_in_bucket
FoundAt(chain, k) == {p \in Positions(chain) : Matches(SlotAt(chain, p), k)}
\* _fh_return_empty_slot_in_bucket
HolesOf(chain) == {p \in Positions(chain) : SlotAt(chain, p).mini = 0}

WithSlot(chain, p, slot) == [chain EXCEPT ![p[1]][p[2]] = slot]

\* Defect: empty buckets stay in the chain.
BadTrimmed(chain, b) == chain
\* _deallocate_bucket_if_empty
Trimmed(chain, b) == IF chain[b] = EmptyBucket THEN RemoveAt(chain, b) ELSE chain

Chain(t) == hash_table[Index(key[t])]
-----------------------------------------------------------------------------
Result(call, k, code, val) == [call |-> call, key |-> k, code |-> code, val |-> val]
NoResult == Result("none", NULL, "none", NULL)
NoResults == [t \in Threads |-> NoResult]

\* fh_create
Init ==
    /\ \E dim \in Dims : h_dim = HashSize(dim) /\ n_lock = LockCount(dim)
    /\ use_rw = FALSE /\ dont_copy = FALSE
    /\ h_elements = 0
    /\ hash_table = [i \in 0..(h_dim - 1) |-> <<>>]
    /\ text = [p \in Ptrs |-> NULL] /\ no_memory = FALSE
    /\ writer = [l \in 0..(n_lock - 1) |-> NULL]
    /\ readers = [l \in 0..(n_lock - 1) |-> {}]
    /\ pc = [t \in Threads |-> "idle"] /\ op = [t \in Threads |-> "none"]
    /\ key = [t \in Threads |-> NULL] /\ block = [t \in Threads |-> NULL]
    /\ at = [t \in Threads |-> NULL] /\ fhe = [t \in Threads |-> NULL]
    /\ res = NoResults

Goto(t, where) == pc' = [pc EXCEPT ![t] = where]

\* A call ends and leaves its locals.
Leave(t, where) ==
    /\ Goto(t, where)
    /\ op' = [op EXCEPT ![t] = "none"]
    /\ key' = [key EXCEPT ![t] = NULL]
    /\ block' = [block EXCEPT ![t] = NULL]

\* It returns, but the bucket of its key stays locked.
LeaveHolding(t) ==
    /\ Goto(t, "held")
    /\ op' = [op EXCEPT ![t] = "none"]
    /\ block' = [block EXCEPT ![t] = NULL]
    /\ UNCHANGED key

Answer(t, code, val) ==
    LET call == IF op[t] \in {"clean", "destroy"} THEN "del" ELSE op[t] IN
    res' = [NoResults EXCEPT ![t] = Result(call, key[t], code, val)]

Quiet == res' = NoResults

Deleting    == {"del", "dellocked", "clean", "destroy"}
Enumerating == {"enum", "clean", "destroy"}
Alone       == {"destroy", "setattr"}

\* Threads are joined before fh_destroy, and fh_setattr comes before they
\* start.  The tests never delete while another thread enumerates.
MayCall(t, call) ==
    /\ pc[t] # "destroyed"
    /\ \A u \in Threads \ {t} :
          /\ op[u] \notin Alone /\ pc[u] # "destroyed"
          /\ call \in Alone => pc[u] = "idle"
          /\ Guarded => /\ ~(call \in Deleting /\ op[u] \in Enumerating)
                        /\ ~(call \in Enumerating /\ op[u] \in Deleting)

Enter(t, call, k, d, where) ==
    /\ pc[t] = "idle" /\ call \in Calls /\ MayCall(t, call)
    /\ op' = [op EXCEPT ![t] = call]
    /\ key' = [key EXCEPT ![t] = k]
    /\ block' = [block EXCEPT ![t] = d]
    /\ Goto(t, where) /\ Quiet
    /\ UNCHANGED <<no_memory, fixed, attrs, h_elements, table, at, fhe>>
-----------------------------------------------------------------------------
(***************************************************************************)
(* fh_insert, fh_insertlock                                                *)
(***************************************************************************)
InsertCall(t, call, k, d) ==
    /\ call \in {"insert", "insertlock"}
    /\ WLock(t, Index(k))
    /\ Enter(t, call, k, d, "reserve")

Duplicate(t) == FoundAt(Chain(t), key[t]) # {}

\* The call ends inside the critical section, without effect.
Refuse(t, code) ==
    /\ Answer(t, code, NULL)
    /\ Unlock(t, Index(key[t]))
    /\ Leave(t, "idle")
    /\ UNCHANGED <<hash_table, at>>

\* The duplicate check, and the mini hash in the first empty slot of the chain
\* or of a new bucket.
Reserve(t) ==
    /\ pc[t] = "reserve"
    /\ \/ Duplicate(t) /\ Refuse(t, "FH_DUPLICATED_ELEMENT")
       \/ /\ ~Duplicate(t) /\ HolesOf(Chain(t)) = {}
          /\ Refuse(t, "FH_NO_MEMORY")   \* no memory for a bucket
       \/ /\ ~Duplicate(t)
          /\ LET chain == IF HolesOf(Chain(t)) = {} THEN Append(Chain(t), EmptyBucket)
                                                    ELSE Chain(t)
                 p == First(HolesOf(chain))
             IN  /\ at' = [at EXCEPT ![t] = p]
                 /\ hash_table' = [hash_table EXCEPT ![Index(key[t])] =
                        [chain EXCEPT ![p[1]][p[2]].mini = MiniHash(key[t])]]
          /\ Goto(t, "fill")
          /\ Quiet /\ UNCHANGED <<locks, args>>
    /\ UNCHANGED <<no_memory, fixed, attrs, h_elements, text, fhe>>

\* strdup(key), unless keys are not copied.
KeyCopy(t, p) ==
    \/ dont_copy /\ p = key[t] /\ UNCHANGED text
    \/ /\ ~dont_copy /\ p \in Ptrs /\ text[p] = NULL
       /\ text' = [text EXCEPT ![p] = key[t]]

\* strdup fails after the slot was reserved, or the copy of the data fails
\* after the key was stored: the slot stays as it is then.
FillFails(t) ==
    /\ pc[t] = "fill"
    /\ \/ ~dont_copy /\ UNCHANGED table
       \/ \E p \in Ptrs \cup {key[t]} :
             /\ KeyCopy(t, p)
             /\ hash_table' = [hash_table EXCEPT ![Index(key[t])] =
                    WithSlot(@, at[t], [SlotAt(@, at[t]) EXCEPT !.key = p])]
    /\ no_memory' = TRUE
    /\ at' = [at EXCEPT ![t] = NULL]
    /\ Answer(t, "FH_NO_MEMORY", NULL)
    /\ Unlock(t, Index(key[t]))
    /\ Leave(t, "idle")
    /\ UNCHANGED <<fixed, attrs, h_elements, fhe>>

\* Key and data go into the slot.  fh_insert unlocks, then counts;
\* fh_insertlock counts and keeps the lock.
Fill(t) ==
    /\ pc[t] = "fill"
    /\ \E p \in Ptrs \cup {key[t]} :
          /\ KeyCopy(t, p)
          /\ hash_table' = [hash_table EXCEPT ![Index(key[t])] =
                WithSlot(@, at[t], [mini |-> MiniHash(key[t]), key |-> p,
                                    obj |-> block[t]])]
    /\ at' = [at EXCEPT ![t] = NULL]
    /\ Answer(t, "FH_OK", block[t])
    /\ \/ /\ op[t] = "insert"
          /\ Unlock(t, Index(key[t]))
          /\ Goto(t, "count")
          /\ UNCHANGED <<h_elements, args>>
       \/ /\ op[t] = "insertlock"
          /\ h_elements' = h_elements + 1
          /\ LeaveHolding(t)
          /\ UNCHANGED locks
    /\ UNCHANGED <<no_memory, fixed, attrs, fhe>>

\* _fh_inc_elem of fh_insert
Count(t) ==
    /\ pc[t] = "count"
    /\ h_elements' = h_elements + 1
    /\ Leave(t, "idle")
    /\ Quiet /\ UNCHANGED <<no_memory, fixed, attrs, table, locks, at, fhe>>
-----------------------------------------------------------------------------
(***************************************************************************)
(* fh_search and fh_get, fh_searchlock, and what a client does with a lock *)
(***************************************************************************)
SearchCall(t, k) == RLock(t, Index(k)) /\ Enter(t, "search", k, NULL, "find")
SearchLockCall(t, k) == WLock(t, Index(k)) /\ Enter(t, "searchlock", k, NULL, "find")

Find(t) ==
    LET found == FoundAt(Chain(t), key[t]) IN
    /\ pc[t] = "find"
    /\ \/ /\ found = {}
          /\ Refuse(t, "FH_ELEMENT_NOT_FOUND")
       \/ /\ found # {}
          /\ Answer(t, "FH_OK", SlotAt(Chain(t), First(found)).obj)
          /\ \/ /\ op[t] = "search"
                /\ Unlock(t, Index(key[t]))
                /\ Leave(t, "idle")
             \/ /\ op[t] = "searchlock"
                /\ LeaveHolding(t)
                /\ UNCHANGED locks
          /\ UNCHANGED <<hash_table, at>>
    /\ UNCHANGED <<no_memory, fixed, attrs, h_elements, text, fhe>>

\* The client writes to the entry it holds, through the returned pointer.
Modify(t) ==
    LET found == FoundAt(Chain(t), key[t]) IN
    /\ pc[t] = "held" /\ found # {}
    /\ \E d \in Blocks[key[t]] :
          hash_table' = [hash_table EXCEPT ![Index(key[t])] =
            WithSlot(@, First(found), [SlotAt(@, First(found)) EXCEPT !.obj = d])]
    /\ Quiet /\ UNCHANGED <<no_memory, fixed, attrs, h_elements, text, locks, pc, args, at, fhe>>

DelLockedCall(t) ==
    /\ pc[t] = "held" /\ "del" \in Calls /\ MayCall(t, "dellocked")
    /\ op' = [op EXCEPT ![t] = "dellocked"]
    /\ Goto(t, "remove") /\ Quiet
    /\ UNCHANGED <<no_memory, fixed, attrs, h_elements, table, locks, key, block, at, fhe>>

\* fh_releaselock
ReleaseLock(t) ==
    /\ pc[t] = "held"
    /\ Unlock(t, Index(key[t]))
    /\ Leave(t, "idle") /\ Quiet
    /\ UNCHANGED <<no_memory, fixed, attrs, h_elements, table, at, fhe>>
-----------------------------------------------------------------------------
(***************************************************************************)
(* fh_del, fh_dellocked                                                    *)
(***************************************************************************)
DelCall(t, k) == WLock(t, Index(k)) /\ Enter(t, "del", k, NULL, "remove")

\* fh_enum_move_next
MovedOn(e) == [e EXCEPT !.idx = @ + 1, !.is_valid = e.idx + 1 <= Len(e.elem_list)]

\* fh_del returns to its caller, or to the loop of fh_clean.
DelReturns(t) ==
    \/ op[t] = "del" /\ Leave(t, "idle") /\ UNCHANGED fhe
    \/ op[t] = "dellocked" /\ LeaveHolding(t) /\ UNCHANGED fhe
    \/ /\ op[t] \in {"clean", "destroy"}
       /\ fhe' = [fhe EXCEPT ![t] = MovedOn(@)]
       /\ Goto(t, "next") /\ UNCHANGED args

Freed(p) == IF dont_copy \/ p \notin Ptrs THEN text ELSE [text EXCEPT ![p] = NULL]

\* _fh_del and the unlock of fh_del
Unlink(t) ==
    LET found == FoundAt(Chain(t), key[t])
        p == First(found)
    IN
    /\ pc[t] = "remove"
    /\ \/ /\ found = {}
          /\ Answer(t, "FH_ELEMENT_NOT_FOUND", NULL)
          /\ DelReturns(t)
          /\ UNCHANGED table
       \/ /\ found # {}
          /\ Answer(t, "FH_OK", NULL)
          /\ text' = Freed(SlotAt(Chain(t), p).key)
          /\ hash_table' = [hash_table EXCEPT ![Index(key[t])] =
                Trimmed(WithSlot(@, p, EmptySlot), p[1])]
          /\ Goto(t, "uncount")
          /\ UNCHANGED <<args, fhe>>
    /\ IF op[t] = "dellocked" THEN UNCHANGED locks ELSE Unlock(t, Index(key[t]))
    /\ UNCHANGED <<no_memory, fixed, attrs, h_elements, at>>

\* Defect: the counter is only decremented by fh_del itself.
BadUncounted(t) == IF op[t] = "dellocked" THEN h_elements ELSE h_elements - 1
Uncounted(t) == h_elements - 1

\* _fh_dec_elem
Uncount(t) ==
    /\ pc[t] = "uncount"
    /\ h_elements' = Uncounted(t)
    /\ DelReturns(t)
    /\ Quiet /\ UNCHANGED <<no_memory, fixed, attrs, table, locks, at>>
-----------------------------------------------------------------------------
(***************************************************************************)
(* Enumerators, fh_clean, fh_destroy                                       *)
(***************************************************************************)
\* The caller of fh_enum_create, or of fh_clean, is done.
Finished(t) ==
    /\ Leave(t, IF op[t] = "destroy" THEN "destroyed" ELSE "idle")
    /\ Quiet

\* fh_enum_create reads the counter: as many elements will be listed at most.
EnumCall(t, call) ==
    /\ call \in Enumerating
    /\ pc[t] = "idle" /\ call \in Calls /\ MayCall(t, call)
    /\ \/ \* FH_EMPTY_HASHTABLE or FH_NO_MEMORY, which fh_destroy ignores
          /\ Goto(t, IF call = "destroy" THEN "destroyed" ELSE "idle")
          /\ no_memory' = (no_memory \/ (h_elements >= 1 /\ call = "destroy"))
          /\ UNCHANGED <<op, fhe>>
       \/ /\ h_elements >= 1
          /\ fhe' = [fhe EXCEPT ![t] = [max |-> h_elements, bucket |-> 0,
                        elem_list |-> <<>>, idx |-> 1, is_valid |-> TRUE]]
          /\ op' = [op EXCEPT ![t] = call]
          /\ Goto(t, "scan")
          /\ UNCHANGED no_memory
    /\ Quiet /\ UNCHANGED <<fixed, attrs, h_elements, table, locks, key, block, at>>

\* The key pointers of the used slots, in the order of the chain.  The data
\* pointers listed with them are only handed on.
Elements(chain) ==
    LET used == Positions(chain) \ HolesOf(chain)
    IN  [n \in 1..Cardinality(used) |-> SlotAt(chain, Nth(used, n)).key]

\* Defect: the check for overrun is missing.
BadFitting(list, max) == list
Fitting(list, max) == IF Len(list) > max THEN SubSeq(list, 1, max) ELSE list

\* The next bucket is locked, listed and unlocked; the scan ends when the list
\* is full or after the last bucket.
EnumScan(t) ==
    LET e == fhe[t]
        list == Fitting(e.elem_list \o Elements(hash_table[e.bucket]), e.max)
        more == e.bucket + 1 < h_dim /\ Len(list) < e.max
    IN
    /\ pc[t] = "scan"
    /\ Free(LockOf(e.bucket))
    /\ fhe' = [fhe EXCEPT ![t].bucket = @ + 1, ![t].elem_list = list]
    /\ Goto(t, IF more THEN "scan" ELSE IF op[t] = "enum" THEN "sort" ELSE "next")
    /\ Quiet /\ UNCHANGED <<no_memory, fixed, attrs, h_elements, table, locks, args, at>>

\* qsort compares key strings, the buckets being unlocked.  The order is left
\* as it is: nothing depends on it.
EnumSort(t) ==
    /\ pc[t] = "sort"
    /\ Goto(t, "have")
    /\ Quiet /\ UNCHANGED <<no_memory, fixed, attrs, h_elements, table, locks, args, at, fhe>>

\* The client's loop: fh_enum_get_value and fh_enum_move_next, until the
\* enumerator is not valid any more, then fh_enum_destroy.
EnumNext(t) ==
    /\ pc[t] = "have"
    /\ \/ /\ fhe[t].is_valid
          /\ fhe' = [fhe EXCEPT ![t] = MovedOn(@)]
          /\ Quiet /\ UNCHANGED <<pc, args>>
       \/ /\ ~fhe[t].is_valid
          /\ fhe' = [fhe EXCEPT ![t] = NULL]
          /\ Finished(t)
    /\ UNCHANGED <<no_memory, fixed, attrs, h_elements, table, locks, at>>

\* The key of the current element; an empty list was allocated with zeros.
Current(e) == IF e.idx <= Len(e.elem_list) THEN e.elem_list[e.idx] ELSE NULL

\* The loop of fh_clean: fh_del(element->key), which refuses a NULL key.
CleanNext(t) ==
    LET e == fhe[t] IN
    /\ pc[t] = "next"
    /\ \/ /\ e.is_valid
          /\ IF Current(e) = NULL
             THEN /\ fhe' = [fhe EXCEPT ![t] = MovedOn(@)]
                  /\ UNCHANGED <<pc, key>>
             ELSE /\ Text(Current(e)) # NULL
                  /\ key' = [key EXCEPT ![t] = Text(Current(e))]
                  /\ Goto(t, "wlock") /\ UNCHANGED fhe
          /\ Quiet /\ UNCHANGED <<op, block>>
       \/ /\ ~e.is_valid
          /\ fhe' = [fhe EXCEPT ![t] = NULL]
          /\ Finished(t)
    /\ UNCHANGED <<no_memory, fixed, attrs, h_elements, table, locks, at>>

\* wlock_f of that fh_del
CleanLock(t) ==
    /\ pc[t] = "wlock"
    /\ WLock(t, Index(key[t]))
    /\ Goto(t, "remove")
    /\ Quiet /\ UNCHANGED <<no_memory, fixed, attrs, h_elements, table, args, at, fhe>>
-----------------------------------------------------------------------------
(***************************************************************************)
(* fh_setattr                                                              *)
(***************************************************************************)
\* Defect: keys may cease to be copied while copies are in the table.
BadMayStopCopying == TRUE
MayStopCopying == ~(h_elements > 0)

SetAttr(t) ==
    /\ pc[t] = "idle" /\ "setattr" \in Calls /\ MayCall(t, "setattr")
    /\ \/ MayStopCopying /\ dont_copy' = TRUE /\ UNCHANGED use_rw
       \/ ~use_rw /\ use_rw' = TRUE /\ UNCHANGED dont_copy
    /\ Quiet /\ UNCHANGED <<no_memory, fixed, h_elements, table, locks, pc, args, at, fhe>>

\* The table is gone and nothing runs any more.
Destroyed == (\E t \in Threads : pc[t] = "destroyed") /\ UNCHANGED vars

Start(t) ==
    \/ \E k \in Keys, call \in EntryPoints : \E d \in Blocks[k] : InsertCall(t, call, k, d)
    \/ \E k \in Keys : SearchCall(t, k) \/ SearchLockCall(t, k) \/ DelCall(t, k)
    \/ \E call \in EntryPoints : EnumCall(t, call)
    \/ SetAttr(t)

Hold(t) == Modify(t) \/ DelLockedCall(t) \/ ReleaseLock(t)

Step(t) ==
    \/ Reserve(t) \/ Fill(t) \/ FillFails(t) \/ Count(t)
    \/ Find(t) \/ Unlink(t) \/ Uncount(t)
    \/ EnumScan(t) \/ EnumSort(t) \/ EnumNext(t)
    \/ CleanNext(t) \/ CleanLock(t)

Next == Destroyed \/ \E t \in Threads : Start(t) \/ Hold(t) \/ Step(t)

Spec == Init /\ [][Next]_vars
-----------------------------------------------------------------------------
(***************************************************************************)
(* Properties                                                              *)
(***************************************************************************)
Slot == [mini : 0..255, key : Ptrs \cup Keys \cup {NULL}, obj : Data \cup {NULL}]
ChainPositions == (1..Cardinality(Keys)) \X (1..BUCKET_SIZE)

\* Every variable stays in its domain; the counter, changed outside of the
\* bucket locks, is off by at most one for each thread (and may be negative);
\* fh_enum_create does not write past the array it allocated.
TypeOK ==
    /\ h_dim \in Nat \ {0} /\ n_lock \in Nat \ {0}
    /\ use_rw \in BOOLEAN /\ dont_copy \in BOOLEAN /\ no_memory \in BOOLEAN
    /\ LET n == Cardinality(Threads) IN h_elements \in (0 - n)..(Cardinality(Keys) + n)
    /\ DOMAIN hash_table = 0..(h_dim - 1)
    /\ \A i \in DOMAIN hash_table : \A b \in DOMAIN hash_table[i] :
          hash_table[i][b] \in [1..BUCKET_SIZE -> Slot]
    /\ text \in [Ptrs -> Keys \cup {NULL}]
    /\ writer \in [0..(n_lock - 1) -> Threads \cup {NULL}]
    /\ readers \in [0..(n_lock - 1) -> SUBSET Threads]
    /\ op \in [Threads -> EntryPoints \cup {"none", "dellocked"}]
    /\ key \in [Threads -> Keys \cup {NULL}]
    /\ block \in [Threads -> Data \cup {NULL}]
    /\ at \in [Threads -> ChainPositions \cup {NULL}]
    /\ \A t \in Threads : fhe[t] # NULL =>
          Len(fhe[t].elem_list) <= fhe[t].max /\ fhe[t].idx \in 1..(fhe[t].max + 1)

InSection(t) == pc[t] \in {"reserve", "fill", "find", "remove", "held"}
                    \/ (pc[t] = "uncount" /\ op[t] = "dellocked")

\* Lock discipline: of two threads that work on buckets of the same lock at the
\* same time, both only read (fh_search, fh_get).
MutualExclusion ==
    \A t, u \in Threads :
        (/\ t # u /\ InSection(t) /\ InSection(u)
         /\ LockOf(Index(key[t])) = LockOf(Index(key[u])))
            => op[t] = "search" /\ op[u] = "search"

\* The places of the table: bucket chain, bucket and slot.
Places == UNION {{<<i, p>> : p \in Positions(hash_table[i])} : i \in DOMAIN hash_table}
At(pl) == SlotAt(hash_table[pl[1]], pl[2])
Reserved == {<<Index(key[t]), at[t]>> : t \in {u \in Threads : pc[u] = "fill"}}
Used == {pl \in Places : At(pl).mini # 0}
\* The entries whose insertion was completed.
Entries == {pl \in Used : At(pl).key # NULL /\ At(pl).obj # NULL}

\* The chains stay sound while inserts and deletes interleave, since only readers
\* work on buckets of one lock at the same time: an entry is where the search for
\* its key looks, with its mini hash, and no key is there twice; an empty bucket
\* does not stay in a chain; a slot that is taken but not filled belongs to an
\* fh_insert that still holds the lock.
ChainsSound ==
    /\ MutualExclusion
    /\ \A pl \in Entries :
          /\ pl[1] = Index(Text(At(pl).key))
          /\ At(pl).mini = MiniHash(Text(At(pl).key))
    /\ \A pl, ql \in Entries : Text(At(pl).key) = Text(At(ql).key) => pl = ql
    /\ \A i \in DOMAIN hash_table : EmptyBucket \notin Range(hash_table[i])
    /\ no_memory \/ Used \ Entries = Reserved

\* h_elements, changed after the bucket is unlocked, is the number of entries
\* but for the calls that are between the unlock and the counter.
ElementsCounted ==
    h_elements = Cardinality(Entries)
                    + Cardinality({t \in Threads : pc[t] = "uncount"})
                    - Cardinality({t \in Threads : pc[t] = "count"})

\* fh_destroy leaves no entry and no key string behind.
DestroyedClean ==
    (\E t \in Threads : pc[t] = "destroyed") /\ ~no_memory
        => Used = {} /\ \A p \in Ptrs : text[p] = NULL

\* A key string of the heap belongs to exactly one slot: _fh_del frees it once,
\* none is lost, and none outlives fh_destroy.
StringsOwned ==
    /\ \A p \in Ptrs : Cardinality({pl \in Used : At(pl).key = p})
                            = IF text[p] = NULL THEN 0 ELSE 1
    /\ DestroyedClean

\* The key strings that a thread is about to read.
Reads(t) ==
    CASE pc[t] \in {"reserve", "find"} \/ (pc[t] = "remove" /\ op[t] \notin Enumerating) ->
            {At(pl).key : pl \in {q \in Used : /\ q[1] = Index(key[t])
                                              /\ At(q).mini = MiniHash(key[t])}}
      [] pc[t] = "next" -> IF fhe[t].is_valid THEN {Current(fhe[t])} ELSE {}
      [] pc[t] = "remove" /\ op[t] \in Enumerating -> {Current(fhe[t])}
      [] pc[t] = "sort" -> Range(fhe[t].elem_list)
      [] pc[t] = "have" -> IF fhe[t].is_valid THEN {Current(fhe[t])} ELSE {}
      [] OTHER -> {}

\* No string is read that is not there: the keys compared along a chain, and
\* those an enumerator points to while it is sorted, walked or cleaned from,
\* when no bucket is locked.
DerefSafe == \A t \in Threads : \A p \in Reads(t) : p # NULL /\ Text(p) # NULL

\* An enumerator lists as many elements as the counter said, no key twice, none
\* that is not in the table, and all of them if none was inserted meanwhile.
EnumExact ==
    \A t \in Threads : pc[t] = "have" /\ op[t] = "enum" =>
        LET list == [j \in DOMAIN fhe[t].elem_list |-> Text(fhe[t].elem_list[j])]
            present == {Text(At(pl).key) : pl \in Entries}
        IN  /\ Len(list) = fhe[t].max
            /\ IsInjective(list)
            /\ Range(list) \subseteq present
            /\ Cardinality(present) = fhe[t].max => Range(list) = present

\* fh_hash_size gives the least power of two that leaves half as much room
\* again, for every dimension for which that fits in half the range.
HashSizeBounds ==
    \A s \in {d \in 0..(2^Width - 1) : d + d \div 2 <= 2^(Width - 1)} :
        /\ \E e \in 0..(Width - 1) : HashSize(s) = 2^e
        /\ HashSize(s) >= s + s \div 2
        /\ HashSize(s) = 1 \/ HashSize(s) \div 2 < s + s \div 2
        /\ h_dim # 0

\* Every call takes effect at one instant on a map from keys to data, with the
\* answer that the map gives, and a locked entry is its holder's alone.
DataOf(k) ==
    LET data == {s.obj : s \in {c \in SlotsOf(hash_table[Index(k)]) : Text(c.key) = k}}
    IN  IF data \subseteq {NULL} THEN ABSENT ELSE CHOOSE d \in data : d # NULL
HeldBy(t) == IF pc[t] = "held" \/ op[t] = "dellocked" THEN key[t] ELSE NULL
Map == INSTANCE HashMap WITH
    NONE <- NULL,
    map <- [k \in Keys |-> DataOf(k)],
    holds <- [t \in Threads |-> HeldBy(t)]
ImplementsMap == Map!Spec
=============================================================================
