--------------------------- MODULE FastHashProofs ---------------------------
(***************************************************************************)
(* Theorems about FastHash, for any number of threads, keys, buckets,      *)
(* slots and locks.                                                        *)
(***************************************************************************)
EXTENDS FastHash, FiniteSetTheorems, TLAPS

PCs == {"idle", "reserve", "fill", "count", "find", "held", "remove", "uncount",
        "scan", "sort", "have", "next", "wlock", "destroyed"}
Bucket == [1..BUCKET_SIZE -> Slot]
KeyPtrs == Ptrs \cup Keys \cup {NULL}
Enum == [max : Nat \ {0}, bucket : Nat, elem_list : Seq(KeyPtrs), idx : Nat \ {0},
         is_valid : BOOLEAN]

(***************************************************************************)
(* The inductive invariant.  It is about tables on which no allocation has *)
(* failed half way: a slot without a key is one that an insert will fill.  *)
(***************************************************************************)
Types ==
    /\ h_dim \in Nat \ {0} /\ n_lock \in Nat \ {0}
    /\ use_rw \in BOOLEAN /\ dont_copy \in BOOLEAN /\ no_memory \in BOOLEAN
    /\ h_elements \in Int
    /\ hash_table \in [0..(h_dim - 1) -> Seq(Bucket)]
    /\ text \in [Ptrs -> Keys \cup {NULL}]
    /\ writer \in [0..(n_lock - 1) -> Threads \cup {NULL}]
    /\ readers \in [0..(n_lock - 1) -> SUBSET Threads]
    /\ pc \in [Threads -> PCs]
    /\ op \in [Threads -> EntryPoints \cup {"none", "dellocked"}]
    /\ key \in [Threads -> Keys \cup {NULL}]
    /\ block \in [Threads -> Data \cup {NULL}]
    /\ at \in [Threads -> (Nat \X (1..BUCKET_SIZE)) \cup {NULL}]
    /\ fhe \in [Threads -> Enum \cup {NULL}]

\* What the position of a thread tells of its call and of its locals.
Locals(t) ==
    /\ pc[t] \in {"idle", "destroyed", "held"} => op[t] = "none"
    /\ pc[t] \in {"reserve", "fill"} => op[t] \in {"insert", "insertlock"}
                                        /\ key[t] \in Keys /\ block[t] \in Blocks[key[t]]
    /\ pc[t] = "count" => op[t] = "insert"
    /\ pc[t] = "find" => op[t] \in {"search", "searchlock"}
    /\ pc[t] \in {"remove", "uncount"} => op[t] \in Deleting
    /\ pc[t] \in {"wlock", "next"} => op[t] \in {"clean", "destroy"}
    /\ pc[t] = "scan" => op[t] \in Enumerating
    /\ pc[t] \in {"sort", "have"} => op[t] = "enum"
    /\ pc[t] \in {"find", "held", "remove", "uncount", "wlock"} => key[t] \in Keys
    /\ pc[t] # "fill" => at[t] = NULL
    /\ IF op[t] \in Enumerating THEN fhe[t] \in Enum ELSE fhe[t] = NULL
    /\ pc[t] = "scan" => fhe[t].bucket < h_dim

\* A thread in a critical section has the lock of its bucket; a lock that is
\* held for writing is not held for reading.
LockAt(t) == LockOf(Index(key[t]))
HasLock(t) ==
    InSection(t) => \/ writer[LockAt(t)] = t
                    \/ op[t] = "search" /\ t \in readers[LockAt(t)]
Locked ==
    /\ \A t \in Threads : HasLock(t)
    /\ \A l \in 0..(n_lock - 1) : writer[l] # NULL => readers[l] = {}

\* fh_destroy runs alone.
DestroysAlone ==
    \A t, u \in Threads : t # u /\ (op[t] \in Alone \/ pc[t] = "destroyed") => pc[u] = "idle"

Control == Types /\ (\A t \in Threads : Locals(t)) /\ Locked /\ DestroysAlone

\* The slots of a chain that are not empty: each in one place, and some in
\* each bucket.
UsedIn(chain) == {s \in SlotsOf(chain) : s.mini # 0}
WellFormed(chain) ==
    /\ \A p \in Positions(chain) : SlotAt(chain, p).mini = 0 => SlotAt(chain, p) = EmptySlot
    /\ \A p, q \in Positions(chain) :
          SlotAt(chain, p) = SlotAt(chain, q) /\ SlotAt(chain, p).mini # 0 => p = q
    /\ \A b \in 1..Len(chain) : chain[b] # EmptyBucket

Chains == 0..(h_dim - 1)
UsedAt(i) == UsedIn(hash_table[i])

\* A slot with a key is an entry of this chain, one without will be filled.
SlotSound(i, s) ==
    IF s.key # NULL
    THEN /\ s.obj \notin {NULL, ABSENT} /\ Text(s.key) \in Keys
         /\ i = Index(Text(s.key)) /\ s.mini = MiniHash(Text(s.key))
    ELSE /\ s.obj = NULL
         /\ \E t \in Threads : /\ pc[t] = "fill" /\ Index(key[t]) = i
                               /\ s.mini = MiniHash(key[t])

ReservedSlot(k) == [mini |-> MiniHash(k), key |-> NULL, obj |-> NULL]

\* What an insert between the reservation and the filling has.
Fills(t) ==
    /\ at[t] \in Positions(Chain(t))
    /\ SlotAt(Chain(t), at[t]) = ReservedSlot(key[t])
    /\ \A s \in UsedAt(Index(key[t])) : Text(s.key) # key[t]

TableSound ==
    /\ \A i \in Chains : WellFormed(hash_table[i])
    /\ \A i \in Chains : \A s \in UsedAt(i) : SlotSound(i, s)
    /\ \A i \in Chains : \A r, s \in UsedAt(i) :
          r.key # NULL /\ Text(r.key) = Text(s.key) => r = s
    /\ \A t \in Threads : pc[t] = "fill" => Fills(t)

\* Every key string of the heap is in the table.
StringsInTable ==
    /\ \A p \in Ptrs : text[p] # NULL => \E s \in UsedAt(Index(text[p])) : s.key = p
    /\ dont_copy => \A p \in Ptrs : text[p] = NULL

\* The keys in the table, and the counter.
Present == {k \in Keys : \E s \in UsedAt(Index(k)) : Text(s.key) = k}
Uncounting == {t \in Threads : pc[t] = "uncount"}
Counting == {t \in Threads : pc[t] = "count"}
Counted == h_elements = Cardinality(Present) + Cardinality(Uncounting) - Cardinality(Counting)

\* What is stored for a key.
Stored(k, d) == \E s \in UsedAt(Index(k)) : Text(s.key) = k /\ s.obj = d

TableInv == TableSound /\ StringsInTable /\ Counted
HashInv == Control /\ (~no_memory => TableInv)

\* The bounds of an enumerator.
Walks(t) ==
    LET e == fhe[t] IN
    /\ Len(e.elem_list) <= e.max /\ e.idx <= e.max + 1
    /\ e.is_valid => e.idx <= e.max
    /\ pc[t] \in {"wlock", "remove", "uncount"} => e.is_valid
EnumBounds == \A t \in Threads : op[t] \in Enumerating => Walks(t)

\* The list of an enumerator, from the element on that it visits next.
Calm(t) == Guarded \/ op[t] = "destroy"
From(t) == IF op[t] = "enum" THEN 1
           ELSE IF pc[t] = "uncount" THEN fhe[t].idx + 1 ELSE fhe[t].idx
Name(e, n) == Text(e.elem_list[n])
Beyond(b) == {k \in Present : Index(k) >= b}

\* No key twice, and none that is not in the table.
Named(e, from) ==
    /\ \A n \in from..Len(e.elem_list) : e.elem_list[n] # NULL /\ Name(e, n) \in Present
    /\ \A m, n \in from..Len(e.elem_list) : Name(e, m) = Name(e, n) => m = n
\* While the buckets are scanned, enough keys are still ahead to fill the list.
Scanned(e) ==
    /\ e.idx = 1 /\ e.is_valid
    /\ \A n \in 1..Len(e.elem_list) : Index(Name(e, n)) < e.bucket
    /\ e.max <= Len(e.elem_list) + Cardinality(Beyond(e.bucket))
Walked(e) == Len(e.elem_list) = e.max /\ (e.is_valid <=> e.idx <= Len(e.elem_list))
Covers(e, from) == \A k \in Present : \E n \in from..Len(e.elem_list) : Name(e, n) = k

Listing(t) ==
    LET e == fhe[t] IN
    /\ Named(e, From(t))
    /\ pc[t] = "scan" => Scanned(e) /\ (op[t] = "destroy" => Cardinality(Present) = e.max)
    /\ pc[t] # "scan" => Walked(e) /\ (op[t] = "destroy" => Covers(e, From(t)))
    /\ pc[t] \in {"wlock", "remove", "uncount"} => e.idx <= Len(e.elem_list)
    /\ pc[t] \in {"wlock", "remove"} => Name(e, e.idx) = key[t]

\* Clients that are guarded do not delete while others enumerate; fh_destroy
\* leaves nothing in the table.
Polite == Guarded => \A t, u \in Threads : t # u /\ op[t] \in Enumerating => op[u] \notin Deleting
EnumInv ==
    /\ \A t \in Threads : op[t] \in Enumerating /\ Calm(t) => Listing(t)
    /\ \A t \in Threads : pc[t] = "destroyed" => Present = {}

-----------------------------------------------------------------------------
(***************************************************************************)
(* Scanning order                                                          *)
(***************************************************************************)
LEMMA UptoOrder ==
  ASSUME NEW p \in Nat \X Nat, NEW q \in Nat \X Nat
  PROVE  /\ Upto(p, p) /\ (Upto(p, q) \/ Upto(q, p))
         /\ Upto(p, q) /\ Upto(q, p) => p = q
         /\ \A r \in Nat \X Nat : Upto(r, p) /\ Upto(p, q) => Upto(r, q)
  BY DEF Upto

\* There is an n-th position, for every n up to the number of positions: the
\* ranks are different, so they are all the numbers up to that one.
LEMMA NthIn ==
  ASSUME NEW S \in SUBSET (Nat \X Nat), IsFiniteSet(S), NEW n \in 1..Cardinality(S)
  PROVE  /\ Nth(S, n) \in S
         /\ Cardinality({q \in S : Upto(q, Nth(S, n))}) = n
  <1> DEFINE below(p) == {q \in S : Upto(q, p)}
             rank == [p \in S |-> Cardinality(below(p))]
             top == Cardinality(S)
  <1>0. top \in Nat
    BY FS_CardinalityType
  <1>1. ASSUME NEW p \in S
        PROVE  IsFiniteSet(below(p)) /\ Cardinality(below(p)) \in 1..top
    <2>1. below(p) \in SUBSET S /\ p \in below(p)
      BY UptoOrder
    <2> HIDE DEF below
    <2>2. IsFiniteSet(below(p)) /\ Cardinality(below(p)) <= top
      BY <2>1, FS_Subset
    <2>3. Cardinality(below(p)) \in Nat
      BY <2>2, FS_CardinalityType
    <2>4. Cardinality(below(p)) # 0
      BY <2>1, <2>2, FS_EmptySet
    <2> QED
      BY <1>0, <2>2, <2>3, <2>4
  <1>2. ASSUME NEW p \in S, NEW q \in S, Upto(p, q), Cardinality(below(p)) = Cardinality(below(q))
        PROVE  p = q
    <2>1. below(p) \in SUBSET below(q) /\ q \in below(q)
      BY <1>2, UptoOrder
    <2>2. below(p) = below(q)
      <3> HIDE DEF below
      <3> QED
        BY <1>1, <1>2, <2>1, FS_Subset
    <2> QED
      BY <1>2, <2>1, <2>2, UptoOrder
  <1>3. rank \in [S -> 1..top]
    BY <1>1
  <1>4. \A p, q \in S : rank[p] = rank[q] => p = q
    BY <1>2, UptoOrder
  <1>5. \E p \in S : rank[p] = n
    <2> HIDE DEF rank, top
    <2>1. rank \in Injection(S, 1..top)
      BY <1>3, <1>4 DEF Injection, IsInjective
    <2>2. IsFiniteSet(1..top) /\ Cardinality(1..top) = top
      BY <1>0, FS_Interval
    <2>3. rank \in Surjection(S, 1..top)
      BY <2>1, <2>2, FS_Injection DEF top
    <2> QED
      BY <2>3 DEF Surjection, top
  <1> QED
    BY <1>5 DEF Nth

\* The first of a nonempty finite set of positions is one of them.
LEMMA FirstIn ==
  ASSUME NEW S \in SUBSET (Nat \X Nat), IsFiniteSet(S), S # {}
  PROVE  First(S) \in S
  <1>1. Cardinality(S) \in Nat /\ Cardinality(S) # 0
    BY FS_CardinalityType, FS_EmptySet
  <1>2. 1 \in 1..Cardinality(S)
    BY <1>1
  <1> QED
    BY <1>2, NthIn DEF First

\* The n-th positions, for all n, are all positions, each once.
LEMMA NthAll ==
  ASSUME NEW S \in SUBSET (Nat \X Nat), IsFiniteSet(S)
  PROVE  /\ \A p \in S : \E n \in 1..Cardinality(S) : Nth(S, n) = p
         /\ \A m, n \in 1..Cardinality(S) : Nth(S, m) = Nth(S, n) => m = n
  <1> DEFINE top == Cardinality(S)
             nth == [n \in 1..top |-> Nth(S, n)]
  <1>1. top \in Nat
    BY FS_CardinalityType
  <1>2. nth \in [1..top -> S] /\ \A m, n \in 1..top : nth[m] = nth[n] => m = n
    <2>1. \A n \in 1..top : Nth(S, n) \in S /\ Cardinality({q \in S : Upto(q, Nth(S, n))}) = n
      BY NthIn
    <2> HIDE DEF top
    <2> QED
      BY <2>1
  <1>3. IsFiniteSet(1..top) /\ Cardinality(1..top) = top
    BY <1>1, FS_Interval
  <1>4. nth \in Injection(1..top, S)
    <2> HIDE DEF nth, top
    <2> QED
      BY <1>2 DEF Injection, IsInjective
  <1>5. nth \in Surjection(1..top, S)
    <2> HIDE DEF nth
    <2> QED
      BY <1>3, <1>4, FS_Injection
  <1> QED
    BY <1>2, <1>5 DEF Surjection
-----------------------------------------------------------------------------
(***************************************************************************)
(* Chains                                                                  *)
(***************************************************************************)
LEMMA EmptyBucketTyped == EmptySlot \in Slot /\ EmptyBucket \in Bucket
  <1>1. EmptySlot \in Slot
    BY DEF EmptySlot, Slot
  <1> QED
    BY <1>1 DEF EmptyBucket, Bucket

\* The positions of a chain are finitely many pairs of numbers.
LEMMA PositionsFinite ==
  ASSUME NEW chain \in Seq(Bucket)
  PROVE  IsFiniteSet(Positions(chain)) /\ Positions(chain) \in SUBSET (Nat \X Nat)
  <1>1. IsFiniteSet(1..Len(chain)) /\ IsFiniteSet(1..BUCKET_SIZE)
    BY FS_Interval, FastHashAssumption
  <1>2. IsFiniteSet(Positions(chain))
    BY <1>1, FS_Product DEF Positions
  <1> QED
    BY <1>2, FastHashAssumption DEF Positions

\* A position of a chain is a slot of one of its buckets.
LEMMA SlotAtTyped ==
  ASSUME NEW chain \in Seq(Bucket), NEW p \in Positions(chain)
  PROVE  /\ p[1] \in 1..Len(chain) /\ p[2] \in 1..BUCKET_SIZE /\ p = <<p[1], p[2]>>
         /\ chain[p[1]] \in Bucket /\ SlotAt(chain, p) \in Slot
  <1>1. p[1] \in 1..Len(chain) /\ p[2] \in 1..BUCKET_SIZE /\ p = <<p[1], p[2]>>
    BY DEF Positions
  <1>2. chain[p[1]] \in Bucket
    BY <1>1
  <1> QED
    BY <1>1, <1>2 DEF SlotAt, Bucket

\* A change of one slot, wherever it is.
LEMMA WithSlotTyped ==
  ASSUME NEW chain \in Seq(Bucket), NEW p, NEW slot,
         p[1] \in 1..Len(chain) /\ p[2] \in 1..BUCKET_SIZE => slot \in Slot
  PROVE  WithSlot(chain, p, slot) \in Seq(Bucket) /\ Len(WithSlot(chain, p, slot)) = Len(chain)
  <1>1. p[1] \in 1..Len(chain) => \A f \in Bucket : [f EXCEPT ![p[2]] = slot] \in Bucket
    BY DEF Bucket
  <1> DEFINE v == [chain[p[1]] EXCEPT ![p[2]] = slot]
             D == 1..Len(chain)
  <1>2. chain \in [D -> Bucket] /\ Len(chain) \in Nat
    OBVIOUS
  <1>3. \A b \in D : chain[b] \in Bucket
    OBVIOUS
  <1>4. p[1] \in D => v \in Bucket
    BY <1>1, <1>3
  <1>5. [chain EXCEPT ![p[1]] = v] \in [D -> Bucket]
    <2> HIDE DEF D, v
    <2> QED
      BY <1>2, <1>4
  <1>6. WithSlot(chain, p, slot) = [chain EXCEPT ![p[1]] = v]
    BY DEF WithSlot
  <1>7. \A f \in [D -> Bucket] : f \in Seq(Bucket) /\ Len(f) = Len(chain)
    BY <1>2
  <1> QED
    BY <1>5, <1>6, <1>7

\* Freeing a bucket that has become empty leaves a chain.
LEMMA TrimmedTyped ==
  ASSUME NEW chain \in Seq(Bucket), NEW b \in 1..Len(chain)
  PROVE  Trimmed(chain, b) \in Seq(Bucket)
  BY DEF Trimmed, RemoveAt

\* fh_insert takes the first free slot, if there is one.
LEMMA HolesIn ==
  ASSUME NEW chain \in Seq(Bucket)
  PROVE  /\ HolesOf(chain) \in SUBSET Positions(chain) /\ IsFiniteSet(HolesOf(chain))
         /\ HolesOf(chain) # {} => First(HolesOf(chain)) \in HolesOf(chain)
  <1>1. HolesOf(chain) \in SUBSET Positions(chain)
    BY DEF HolesOf
  <1>2. IsFiniteSet(HolesOf(chain)) /\ HolesOf(chain) \in SUBSET (Nat \X Nat)
    BY <1>1, PositionsFinite, FS_Subset
  <1> QED
    BY <1>1, <1>2, FirstIn

\* The search of a chain finds the first slot that has the key.
LEMMA FoundIn ==
  ASSUME NEW chain \in Seq(Bucket), NEW k
  PROVE  /\ FoundAt(chain, k) \in SUBSET Positions(chain)
         /\ FoundAt(chain, k) # {} => First(FoundAt(chain, k)) \in FoundAt(chain, k)
  <1>1. FoundAt(chain, k) \in SUBSET Positions(chain)
    BY DEF FoundAt
  <1>2. IsFiniteSet(FoundAt(chain, k)) /\ FoundAt(chain, k) \in SUBSET (Nat \X Nat)
    BY <1>1, PositionsFinite, FS_Subset
  <1> QED
    BY <1>1, <1>2, FirstIn

\* The listing of a chain.
LEMMA ElementsList ==
  ASSUME NEW chain \in Seq(Bucket)
  PROVE  LET used == Positions(chain) \ HolesOf(chain) IN
         /\ Elements(chain) \in Seq(KeyPtrs) /\ Len(Elements(chain)) = Cardinality(used)
         /\ Cardinality(used) \in Nat
         /\ \A n \in 1..Cardinality(used) : /\ Nth(used, n) \in used
                                           /\ Elements(chain)[n] = SlotAt(chain, Nth(used, n)).key
         /\ \A p \in used : \E n \in 1..Cardinality(used) : Nth(used, n) = p
         /\ \A m, n \in 1..Cardinality(used) : Nth(used, m) = Nth(used, n) => m = n
  <1> DEFINE used == Positions(chain) \ HolesOf(chain)
             nth(n) == Nth(used, n)
             top == Cardinality(used)
  <1>1. IsFiniteSet(used) /\ used \in SUBSET (Nat \X Nat) /\ top \in Nat
    BY PositionsFinite, FS_Subset, FS_CardinalityType
  <1>2. \A n \in 1..top : nth(n) \in used
    BY <1>1, NthIn
  <1>3. \A n \in 1..top : SlotAt(chain, nth(n)).key \in KeyPtrs
    BY <1>2, SlotAtTyped DEF Slot, KeyPtrs
  <1>4. Elements(chain) = [n \in 1..top |-> SlotAt(chain, nth(n)).key]
    BY DEF Elements
  <1>5. Elements(chain) \in Seq(KeyPtrs) /\ Len(Elements(chain)) = top
    <2> HIDE DEF top, nth
    <2> QED
      BY <1>1, <1>3, <1>4
  <1>6. \A n \in 1..top : Elements(chain)[n] = SlotAt(chain, nth(n)).key
    BY <1>4
  <1> QED
    BY <1>1, <1>2, <1>5, <1>6, NthAll
-----------------------------------------------------------------------------
(***************************************************************************)
(* Control: types, locals and locks                                        *)
(***************************************************************************)
LEMMA LockIn ==
  ASSUME Types, NEW i \in Chains
  PROVE  LockOf(i) \in 0..(n_lock - 1)
  <1>1. \A a \in Nat, b \in Nat \ {0} : a % b \in 0..(b - 1)
    OBVIOUS
  <1> QED
    BY <1>1 DEF Types, LockOf, Chains

\* A key hashes to a chain of the table, and the chain to a lock.
LEMMA IndexIn ==
  ASSUME Types, NEW k \in Keys
  PROVE  Index(k) \in Chains /\ LockOf(Index(k)) \in 0..(n_lock - 1)
  <1>1. \A a \in Nat, b \in Nat \ {0} : a % b \in 0..(b - 1)
    OBVIOUS
  <1>2. Index(k) \in Chains
    BY <1>1, FastHashAssumption DEF Types, Index, Chains
  <1> QED
    BY <1>2, LockIn

\* The mini hash of a key is never the 0 that marks a free slot.
LEMMA MiniHashIn ==
  ASSUME NEW k \in Keys
  PROVE  MiniHash(k) \in 1..255
  BY FastHashAssumption DEF MiniHash, MIN_MINIHASH

\* A step of t, as far as the others can tell.
Others(t) ==
    \A u \in Threads \ {t} :
        /\ pc'[u] = pc[u] /\ op'[u] = op[u] /\ key'[u] = key[u]
        /\ block'[u] = block[u] /\ at'[u] = at[u] /\ fhe'[u] = fhe[u]
LockMove(t) ==
    \/ UNCHANGED locks
    \/ \E i \in Chains : WLock(t, i) \/ RLock(t, i) \/ Unlock(t, i)
Moves(t) ==
    /\ UNCHANGED fixed /\ Others(t) /\ LockMove(t)
    /\ (op'[t] \in Alone \/ pc'[t] = "destroyed") => \A u \in Threads \ {t} : pc[u] = "idle"
    /\ (\E u \in Threads \ {t} : op[u] \in Alone \/ pc[u] = "destroyed") => pc'[t] = "idle"

\* A step of one thread keeps Control if it leaves that thread in order.
LEMMA MovesControl ==
  ASSUME Control, NEW t \in Threads, Moves(t), Types', Locals(t)', HasLock(t)'
  PROVE  Control'
  <1>1. \A u \in Threads : Locals(u)'
    <2> SUFFICES ASSUME NEW u \in Threads \ {t} PROVE Locals(u)'
      OBVIOUS
    <2>1. Locals(u)
      BY DEF Control
    <2> QED
      BY <2>1 DEF Locals, Moves, Others, fixed
  <1>2. DestroysAlone'
    BY DEF Control, DestroysAlone, Moves, Others
  <1>3. ASSUME NEW u \in Threads \ {t}
        PROVE  HasLock(u)'
    <2>1. InSection(u)' = InSection(u) /\ LockAt(u)' = LockAt(u) /\ op'[u] = op[u]
      BY DEF Moves, Others, InSection, LockAt, LockOf, Index, fixed
    <2> DEFINE l == LockAt(u)
    <2>2. SUFFICES ASSUME InSection(u)
                   PROVE  writer'[l] = u \/ (op[u] = "search" /\ u \in readers'[l])
      BY <2>1 DEF HasLock
    <2>3. l \in 0..(n_lock - 1)
      <3>1. key[u] \in Keys
        BY <2>2 DEF Control, Locals, InSection
      <3> QED
        BY <3>1, IndexIn DEF Control, LockAt
    <2>4. /\ writer[l] = u \/ (op[u] = "search" /\ u \in readers[l])
          /\ ~Free(l) /\ (writer[l] # NULL => readers[l] = {})
      BY <2>2, <2>3, FastHashAssumption DEF Control, Locked, HasLock, Free
    <2> HIDE DEF l
    <2>5. CASE UNCHANGED locks
      BY <2>4, <2>5 DEF locks
    <2>6. ASSUME NEW i \in Chains, WLock(t, i) \/ RLock(t, i) \/ Unlock(t, i)
          PROVE  writer'[l] = u \/ (op[u] = "search" /\ u \in readers'[l])
      <3>1. LockOf(i) \in 0..(n_lock - 1)
        BY LockIn DEF Control
      <3>2. CASE WLock(t, i)
        BY <2>3, <2>4, <3>1, <3>2 DEF WLock, Control, Types
      <3>3. CASE RLock(t, i)
        <4>1. CASE WLock(t, i)
          BY <3>2, <4>1
        <4>2. CASE /\ readers' = [readers EXCEPT ![LockOf(i)] = @ \cup {t}]
                   /\ UNCHANGED writer
          BY <2>3, <2>4, <3>1, <4>2 DEF Control, Types
        <4> QED
          BY <3>3, <4>1, <4>2 DEF RLock
      <3>4. CASE Unlock(t, i)
        BY <2>3, <2>4, <3>1, <3>4 DEF Unlock, Control, Types
      <3> QED
        BY <2>6, <3>2, <3>3, <3>4
    <2> QED
      BY <2>5, <2>6 DEF Moves, LockMove
  <1>4. ASSUME NEW l \in 0..(n_lock - 1), writer'[l] # NULL
        PROVE  readers'[l] = {}
    <2>1. CASE UNCHANGED locks
      BY <1>4, <2>1 DEF locks, Control, Locked
    <2>2. ASSUME NEW i \in Chains, WLock(t, i) \/ RLock(t, i) \/ Unlock(t, i)
          PROVE  readers'[l] = {}
      <3>1. LockOf(i) \in 0..(n_lock - 1)
        BY LockIn DEF Control
      <3>2. CASE WLock(t, i)
        BY <1>4, <3>1, <3>2 DEF WLock, Free, Control, Types, Locked
      <3>3. CASE RLock(t, i)
        BY <1>4, <3>1, <3>3 DEF RLock, WLock, Free, Control, Types, Locked
      <3>4. CASE Unlock(t, i)
        BY <1>4, <3>1, <3>4 DEF Unlock, Control, Types, Locked
      <3> QED
        BY <2>2, <3>2, <3>3, <3>4
    <2> QED
      BY <2>1, <2>2 DEF Moves, LockMove
  <1>5. Locked'
    BY <1>3, <1>4 DEF Locked, Moves, fixed
  <1> QED
    BY <1>1, <1>2, <1>5 DEF Control

\* A call that has taken the lock of its key.
LEMMA EnterControl ==
  ASSUME Control, NEW t \in Threads, NEW k \in Keys, NEW call, NEW d, NEW where,
         Enter(t, call, k, d, where),
         \/ call \in {"insert", "insertlock"} /\ where = "reserve" /\ d \in Blocks[k] /\ WLock(t, Index(k))
         \/ call = "search" /\ where = "find" /\ d = NULL /\ RLock(t, Index(k))
         \/ call = "searchlock" /\ where = "find" /\ d = NULL /\ WLock(t, Index(k))
         \/ call = "del" /\ where = "remove" /\ d = NULL /\ WLock(t, Index(k))
  PROVE  Control'
  <1> DEFINE l == LockOf(Index(k))
  <1>1. Index(k) \in Chains /\ l \in 0..(n_lock - 1)
    BY IndexIn DEF Control
  <1>2. /\ pc[t] = "idle" /\ op[t] = "none" /\ at[t] = NULL /\ fhe[t] = NULL
        /\ call \in EntryPoints /\ where \in {"reserve", "find", "remove"} /\ d \in Data \cup {NULL}
    <2>1. d \in Data \cup {NULL}
      BY FastHashAssumption
    <2> QED
      BY <2>1 DEF Enter, Control, Locals, Enumerating, EntryPoints
  <1>3. /\ pc' = [pc EXCEPT ![t] = where] /\ op' = [op EXCEPT ![t] = call]
        /\ key' = [key EXCEPT ![t] = k] /\ block' = [block EXCEPT ![t] = d]
        /\ UNCHANGED <<no_memory, h_dim, n_lock, use_rw, dont_copy, h_elements, hash_table, text, at, fhe>>
    BY DEF Enter, Goto, fixed, attrs, table
  <1>4. /\ writer' \in [0..(n_lock - 1) -> Threads \cup {NULL}]
        /\ readers' \in [0..(n_lock - 1) -> SUBSET Threads]
        /\ writer'[l] = t \/ (call = "search" /\ t \in readers'[l])
    <2>1. CASE WLock(t, Index(k))
      BY <1>1, <2>1 DEF WLock, Control, Types
    <2>2. CASE /\ call = "search" /\ UNCHANGED writer
               /\ readers' = [readers EXCEPT ![LockOf(Index(k))] = @ \cup {t}]
      BY <1>1, <2>2 DEF Control, Types
    <2> QED
      BY <2>1, <2>2 DEF RLock
  <1>5. Types'
    BY <1>2, <1>3, <1>4 DEF Control, Types, PCs
  <1>6. pc'[t] = where /\ op'[t] = call /\ key'[t] = k /\ block'[t] = d /\ at'[t] = NULL /\ fhe'[t] = NULL
    BY <1>2, <1>3 DEF Control, Types
  <1>7. Locals(t)'
    BY <1>6 DEF Locals, Deleting, Enumerating
  <1>8. HasLock(t)'
    <2>1. LockAt(t)' = l
      BY <1>3, <1>6 DEF LockAt, LockOf, Index
    <2> QED
      BY <1>4, <1>6, <2>1 DEF HasLock
  <1>9. Moves(t)
    <2>1. LockMove(t)
      BY <1>1 DEF LockMove
    <2>2. Others(t) /\ UNCHANGED fixed
      BY <1>3 DEF Others, Control, Types, fixed
    <2>3. op'[t] \notin Alone /\ pc'[t] # "destroyed"
      BY <1>6 DEF Alone
    <2>4. \A u \in Threads \ {t} : op[u] \notin Alone /\ pc[u] # "destroyed"
      BY DEF Enter, MayCall
    <2> QED
      BY <2>1, <2>2, <2>3, <2>4 DEF Moves
  <1> QED
    BY <1>5, <1>7, <1>8, <1>9, MovesControl

\* What a thread inside of a call finds.
LEMMA Inside ==
  ASSUME Control, NEW t \in Threads, pc[t] \notin {"idle", "destroyed"}
  PROVE  /\ \A u \in Threads \ {t} : op[u] \notin Alone /\ pc[u] # "destroyed"
         /\ op[t] \in Alone => \A u \in Threads \ {t} : pc[u] = "idle"
  BY DEF Control, DestroysAlone

\* The lock of its key, that a thread releases.
LEMMA UnlockTyped ==
  ASSUME Control, NEW t \in Threads, key[t] \in Keys, Unlock(t, Index(key[t]))
  PROVE  /\ LockMove(t)
         /\ writer' \in [0..(n_lock - 1) -> Threads \cup {NULL}]
         /\ readers' \in [0..(n_lock - 1) -> SUBSET Threads]
  <1>1. Index(key[t]) \in Chains
    BY IndexIn DEF Control
  <1> QED
    BY <1>1, FastHashAssumption DEF Control, Types, LockMove, Unlock

\* A step that ends outside of the critical sections and leaves the table alone.
LEMMA OutsideControl ==
  ASSUME Control, NEW t \in Threads, pc[t] \notin {"idle", "destroyed"}, ~InSection(t)',
         UNCHANGED fixed, LockMove(t), Others(t), Types', Locals(t)',
         op'[t] \in Alone \/ pc'[t] = "destroyed" => op[t] \in Alone
  PROVE  Control'
  <1>1. Moves(t)
    BY Inside DEF Moves
  <1> QED
    BY <1>1, MovesControl DEF HasLock

\* A call that returns keeps Control.
LEMMA LeaveControl ==
  ASSUME Control, NEW t \in Threads, NEW where \in {"idle", "destroyed"}, Leave(t, where),
         pc[t] \notin {"idle", "destroyed"}, where = "destroyed" => op[t] = "destroy",
         UNCHANGED fixed, LockMove(t), at'[t] = NULL, fhe'[t] = NULL,
         \A u \in Threads \ {t} : at'[u] = at[u] /\ fhe'[u] = fhe[u],
         Types'
  PROVE  Control'
  <1>1. /\ pc' = [pc EXCEPT ![t] = where] /\ op' = [op EXCEPT ![t] = "none"]
        /\ key' = [key EXCEPT ![t] = NULL] /\ block' = [block EXCEPT ![t] = NULL]
    BY DEF Leave, Goto
  <1>2. pc'[t] = where /\ op'[t] = "none"
    BY <1>1 DEF Control, Types
  <1>3. Others(t)
    BY <1>1 DEF Others, Control, Types
  <1>4. Locals(t)'
    BY <1>2 DEF Locals, Enumerating
  <1>5. ~InSection(t)'
    BY <1>2 DEF InSection
  <1>6. op'[t] \in Alone \/ pc'[t] = "destroyed" => op[t] \in Alone
    BY <1>2 DEF Alone
  <1> QED
    BY <1>3, <1>4, <1>5, <1>6, OutsideControl

\* The chain in which a slot is reserved, and where.
Extended(chain) == IF HolesOf(chain) = {} THEN Append(chain, EmptyBucket) ELSE chain
HoleIn(chain) == First(HolesOf(Extended(chain)))
Taken(chain, k) == WithSlot(Extended(chain), HoleIn(chain),
                            [SlotAt(Extended(chain), HoleIn(chain)) EXCEPT !.mini = MiniHash(k)])

\* With a bucket added when it is full, a chain has a free slot.
LEMMA ExtendedTyped ==
  ASSUME NEW chain \in Seq(Bucket)
  PROVE  /\ Extended(chain) \in Seq(Bucket)
         /\ HoleIn(chain) \in HolesOf(Extended(chain))
         /\ HoleIn(chain) \in Positions(Extended(chain))
  <1>1. Extended(chain) \in Seq(Bucket)
    BY EmptyBucketTyped DEF Extended
  <1>2. HolesOf(Extended(chain)) # {}
    <2>1. CASE HolesOf(chain) # {}
      BY <2>1 DEF Extended
    <2>2. CASE HolesOf(chain) = {}
      <3> DEFINE c == Append(chain, EmptyBucket)
                 p == <<Len(chain) + 1, 1>>
      <3>1. /\ p[1] = Len(chain) + 1 /\ p[2] = 1 /\ Len(c) = Len(chain) + 1 /\ Len(chain) \in Nat
            /\ c[Len(chain) + 1] = EmptyBucket
        BY EmptyBucketTyped
      <3>2. p \in Positions(c)
        BY <3>1, FastHashAssumption DEF Positions
      <3>3. SlotAt(c, p).mini = 0
        BY <3>1, FastHashAssumption DEF SlotAt, EmptyBucket, EmptySlot
      <3>4. p \in HolesOf(c)
        BY <3>2, <3>3 DEF HolesOf
      <3> QED
        BY <2>2, <3>4 DEF Extended
    <2> QED
      BY <2>1, <2>2
  <1>3. HoleIn(chain) \in HolesOf(Extended(chain))
    BY <1>1, <1>2, HolesIn DEF HoleIn
  <1> QED
    BY <1>1, <1>3 DEF HolesOf

\* Taking a slot leaves a chain.
LEMMA TakenTyped ==
  ASSUME NEW chain \in Seq(Bucket), NEW k \in Keys
  PROVE  Taken(chain, k) \in Seq(Bucket)
  <1>1. SlotAt(Extended(chain), HoleIn(chain)) \in Slot
    BY ExtendedTyped, SlotAtTyped
  <1>2. [SlotAt(Extended(chain), HoleIn(chain)) EXCEPT !.mini = MiniHash(k)] \in Slot
    BY <1>1, MiniHashIn DEF Slot
  <1> QED
    BY <1>2, ExtendedTyped, WithSlotTyped DEF Taken

\* The three ways of Reserve.
LEMMA ReserveCases ==
  ASSUME NEW t \in Threads, Reserve(t)
  PROVE  /\ pc[t] = "reserve"
         /\ UNCHANGED <<no_memory, h_dim, n_lock, use_rw, dont_copy, h_elements, text, fhe>>
         /\ \/ Duplicate(t) /\ Refuse(t, "FH_DUPLICATED_ELEMENT")
            \/ ~Duplicate(t) /\ HolesOf(Chain(t)) = {} /\ Refuse(t, "FH_NO_MEMORY")
            \/ /\ ~Duplicate(t)
               /\ at' = [at EXCEPT ![t] = HoleIn(Chain(t))]
               /\ hash_table' = [hash_table EXCEPT ![Index(key[t])] = Taken(Chain(t), key[t])]
               /\ pc' = [pc EXCEPT ![t] = "fill"]
               /\ Quiet /\ UNCHANGED <<writer, readers, op, key, block>>
  BY DEF Reserve, Goto, fixed, attrs, locks, args, HoleIn, Extended, Taken, WithSlot, SlotAt

\* A call that is refused under its lock keeps Control.
LEMMA RefuseControl ==
  ASSUME Control, NEW t \in Threads, key[t] \in Keys, pc[t] \in {"reserve", "find"},
         NEW code, Refuse(t, code),
         UNCHANGED <<no_memory, h_dim, n_lock, use_rw, dont_copy, h_elements, text, fhe>>
  PROVE  Control'
  <1>1. UNCHANGED <<hash_table, at>> /\ Unlock(t, Index(key[t])) /\ Leave(t, "idle")
    BY DEF Refuse
  <1>2. Types'
    BY <1>1, UnlockTyped DEF Control, Types, Leave, Goto, PCs
  <1>3. fhe[t] = NULL /\ at[t] = NULL
    BY DEF Control, Locals, Enumerating
  <1>4. LockMove(t)
    BY <1>1, UnlockTyped
  <1> QED
    BY <1>1, <1>2, <1>3, <1>4, LeaveControl DEF fixed

\* The step of fh_insert that takes a slot keeps Control.
LEMMA ReserveControl ==
  ASSUME Control, NEW t \in Threads, Reserve(t)
  PROVE  Control'
  <1>1. pc[t] = "reserve" /\ op[t] \in {"insert", "insertlock"} /\ key[t] \in Keys
        /\ block[t] \in Blocks[key[t]] /\ fhe[t] = NULL
    BY ReserveCases DEF Control, Locals, Enumerating
  <1>2. CASE \E code : Refuse(t, code)
    BY <1>1, <1>2, ReserveCases, RefuseControl
  <1>3. CASE /\ at' = [at EXCEPT ![t] = HoleIn(Chain(t))]
             /\ hash_table' = [hash_table EXCEPT ![Index(key[t])] = Taken(Chain(t), key[t])]
             /\ pc' = [pc EXCEPT ![t] = "fill"]
             /\ UNCHANGED <<writer, readers, op, key, block>>
    <2>1. Index(key[t]) \in Chains /\ Chain(t) \in Seq(Bucket)
      BY <1>1, IndexIn DEF Control, Types, Chain, Chains
    <2>2. Taken(Chain(t), key[t]) \in Seq(Bucket) /\ HoleIn(Chain(t)) \in Nat \X (1..BUCKET_SIZE)
      BY <1>1, <2>1, TakenTyped, ExtendedTyped, SlotAtTyped
    <2>3. UNCHANGED <<no_memory, h_dim, n_lock, use_rw, dont_copy, h_elements, text, fhe>>
      BY ReserveCases
    <2>4. Types'
      BY <1>3, <2>1, <2>2, <2>3 DEF Control, Types, PCs, Chains
    <2>5. pc'[t] = "fill" /\ op'[t] = op[t] /\ key'[t] = key[t] /\ block'[t] = block[t] /\ fhe'[t] = NULL
      BY <1>1, <1>3, <2>3 DEF Control, Types
    <2>6. Locals(t)'
      BY <1>1, <2>5 DEF Locals, Enumerating
    <2>7. HasLock(t)'
      BY <1>1, <1>3, <2>3, <2>5 DEF Control, Locked, HasLock, InSection, LockAt, LockOf, Index
    <2>8. Moves(t)
      BY <1>1, <1>3, <2>3, <2>5, Inside DEF Moves, Others, LockMove, locks, Control, Types, fixed, Alone
    <2> QED
      BY <2>4, <2>6, <2>7, <2>8, MovesControl
  <1> QED
    BY <1>2, <1>3, ReserveCases

\* The copy of a key is an address that holds the key.
LEMMA KeyCopyTyped ==
  ASSUME Control, NEW t \in Threads, key[t] \in Keys, NEW p \in Ptrs \cup {key[t]}, KeyCopy(t, p)
  PROVE  text' \in [Ptrs -> Keys \cup {NULL}] /\ p \in KeyPtrs
  BY DEF KeyCopy, Control, Types, KeyPtrs

\* What the step that fills a slot finds and leaves.
LEMMA FillTypes ==
  ASSUME Control, NEW t \in Threads, pc[t] = "fill", Fill(t) \/ FillFails(t)
  PROVE  /\ key[t] \in Keys /\ block[t] \in Data /\ op[t] \in {"insert", "insertlock"} /\ fhe[t] = NULL
         /\ hash_table' \in [0..(h_dim - 1) -> Seq(Bucket)]
         /\ text' \in [Ptrs -> Keys \cup {NULL}]
  <1>1. key[t] \in Keys /\ block[t] \in Data /\ op[t] \in {"insert", "insertlock"} /\ fhe[t] = NULL
    BY FastHashAssumption DEF Control, Locals, Enumerating
  <1>2. hash_table[Index(key[t])] \in Seq(Bucket) /\ Index(key[t]) \in 0..(h_dim - 1)
    BY <1>1, IndexIn DEF Control, Types, Chains
  <1>3. ASSUME NEW p \in Ptrs \cup {key[t]}, KeyCopy(t, p), NEW slot, 
               at[t][1] \in 1..Len(hash_table[Index(key[t])]) /\ at[t][2] \in 1..BUCKET_SIZE => slot \in Slot,
               hash_table' = [hash_table EXCEPT ![Index(key[t])] = WithSlot(@, at[t], slot)]
        PROVE  /\ hash_table' \in [0..(h_dim - 1) -> Seq(Bucket)]
               /\ text' \in [Ptrs -> Keys \cup {NULL}]
    <2>1. WithSlot(hash_table[Index(key[t])], at[t], slot) \in Seq(Bucket)
      BY <1>2, <1>3, WithSlotTyped
    <2> QED
      BY <1>1, <1>2, <1>3, <2>1, KeyCopyTyped DEF Control, Types
  <1>4. CASE Fill(t)
    <2>1. PICK p \in Ptrs \cup {key[t]} :
             /\ KeyCopy(t, p)
             /\ hash_table' = [hash_table EXCEPT ![Index(key[t])] =
                    WithSlot(@, at[t], [mini |-> MiniHash(key[t]), key |-> p, obj |-> block[t]])]
      BY <1>4 DEF Fill
    <2>2. [mini |-> MiniHash(key[t]), key |-> p, obj |-> block[t]] \in Slot
      BY <1>1, <2>1, MiniHashIn DEF Slot
    <2> QED
      BY <1>1, <1>3, <2>1, <2>2
  <1>5. CASE FillFails(t)
    <2>1. CASE UNCHANGED table
      BY <1>1, <2>1 DEF table, Control, Types
    <2>2. CASE ~UNCHANGED table
      <3> DEFINE chain == hash_table[Index(key[t])]
      <3>1. PICK p \in Ptrs \cup {key[t]} :
               /\ KeyCopy(t, p)
               /\ hash_table' = [hash_table EXCEPT ![Index(key[t])] =
                      WithSlot(@, at[t], [SlotAt(@, at[t]) EXCEPT !.key = p])]
        BY <1>5, <2>2 DEF FillFails
      <3>2. at[t][1] \in 1..Len(chain) /\ at[t][2] \in 1..BUCKET_SIZE =>
                [SlotAt(chain, at[t]) EXCEPT !.key = p] \in Slot
        <4> SUFFICES ASSUME at[t][1] \in 1..Len(chain), at[t][2] \in 1..BUCKET_SIZE
                     PROVE  [SlotAt(chain, at[t]) EXCEPT !.key = p] \in Slot
          OBVIOUS
        <4>1. chain[at[t][1]] \in Bucket
          BY <1>2
        <4>2. SlotAt(chain, at[t]) \in Slot
          BY <4>1 DEF SlotAt, Bucket
        <4> QED
          BY <1>1, <4>2 DEF Slot
      <3> QED
        BY <1>1, <1>3, <3>1, <3>2
    <2> QED
      BY <2>1, <2>2
  <1> QED
    BY <1>1, <1>4, <1>5

\* The step of fh_insert that fills its slot keeps Control.
LEMMA FillControl ==
  ASSUME Control, NEW t \in Threads, Fill(t)
  PROVE  Control'
  <1>1. /\ pc[t] = "fill" /\ at' = [at EXCEPT ![t] = NULL]
        /\ UNCHANGED <<no_memory, h_dim, n_lock, use_rw, dont_copy, fhe>>
    BY DEF Fill, fixed, attrs
  <1>2. key[t] \in Keys /\ block[t] \in Data /\ op[t] \in {"insert", "insertlock"} /\ fhe[t] = NULL
    BY <1>1, FillTypes
  <1>3. CASE op[t] = "insert"
    <2>1. Unlock(t, Index(key[t])) /\ pc' = [pc EXCEPT ![t] = "count"] /\ UNCHANGED <<h_elements, op, key, block>>
      BY <1>3 DEF Fill, Goto, args
    <2>2. Types'
      BY <1>1, <1>2, <2>1, FillTypes, UnlockTyped DEF Control, Types, PCs
    <2>3. pc'[t] = "count" /\ op'[t] = "insert" /\ at'[t] = NULL /\ fhe'[t] = NULL
      BY <1>1, <1>2, <1>3, <2>1 DEF Control, Types
    <2>4. Locals(t)' /\ ~InSection(t)'
      BY <2>3 DEF Locals, InSection, Enumerating
    <2>5. Others(t) /\ UNCHANGED fixed
      BY <1>1, <2>1 DEF Others, Control, Types, fixed
    <2>6. LockMove(t)
      BY <1>2, <2>1, UnlockTyped
    <2>7. op'[t] \notin Alone /\ pc'[t] # "destroyed"
      BY <2>3 DEF Alone
    <2> QED
      BY <1>1, <2>2, <2>4, <2>5, <2>6, <2>7, OutsideControl
  <1>4. CASE op[t] = "insertlock"
    <2>1. /\ h_elements' = h_elements + 1 /\ UNCHANGED <<writer, readers, key>>
          /\ pc' = [pc EXCEPT ![t] = "held"] /\ op' = [op EXCEPT ![t] = "none"]
          /\ block' = [block EXCEPT ![t] = NULL]
      BY <1>4 DEF Fill, LeaveHolding, Goto, locks
    <2>2. Types'
      BY <1>1, <1>2, <2>1, FillTypes DEF Control, Types, PCs
    <2>3. pc'[t] = "held" /\ op'[t] = "none" /\ key'[t] = key[t] /\ at'[t] = NULL /\ fhe'[t] = NULL
      BY <1>1, <1>2, <1>4, <2>1 DEF Control, Types
    <2>4. Locals(t)'
      BY <1>2, <2>3 DEF Locals, Enumerating
    <2>5. HasLock(t)'
      BY <1>1, <1>4, <2>1, <2>3 DEF Control, Locked, HasLock, InSection, LockAt, LockOf, Index
    <2>6. Moves(t)
      BY <1>1, <2>1, <2>3, Inside DEF Moves, Others, LockMove, locks, Control, Types, fixed, Alone
    <2> QED
      BY <2>2, <2>4, <2>5, <2>6, MovesControl
  <1> QED
    BY <1>2, <1>3, <1>4

\* The step of fh_insert that finds no memory keeps Control.
LEMMA FillFailsControl ==
  ASSUME Control, NEW t \in Threads, FillFails(t)
  PROVE  Control'
  <1>1. /\ pc[t] = "fill" /\ at' = [at EXCEPT ![t] = NULL] /\ no_memory' = TRUE
        /\ UNCHANGED <<h_dim, n_lock, use_rw, dont_copy, h_elements, fhe>>
        /\ Unlock(t, Index(key[t])) /\ Leave(t, "idle")
    BY DEF FillFails, fixed, attrs
  <1>2. key[t] \in Keys /\ fhe[t] = NULL
    BY <1>1, FillTypes
  <1>3. Types'
    BY <1>1, <1>2, FillTypes, UnlockTyped DEF Control, Types, PCs, Leave, Goto
  <1>4. at'[t] = NULL /\ \A u \in Threads \ {t} : at'[u] = at[u] /\ fhe'[u] = fhe[u]
    BY <1>1 DEF Control, Types
  <1>5. LockMove(t)
    BY <1>1, <1>2, UnlockTyped
  <1> QED
    BY <1>1, <1>2, <1>3, <1>4, <1>5, LeaveControl DEF fixed

\* The step of fh_insert that counts the element keeps Control.
LEMMA CountControl ==
  ASSUME Control, NEW t \in Threads, Count(t)
  PROVE  Control'
  <1>1. /\ pc[t] = "count" /\ h_elements' = h_elements + 1 /\ Leave(t, "idle") /\ UNCHANGED locks
        /\ UNCHANGED <<no_memory, h_dim, n_lock, use_rw, dont_copy, hash_table, text, writer, readers, at, fhe>>
    BY DEF Count, fixed, attrs, table, locks
  <1>2. at[t] = NULL /\ fhe[t] = NULL
    BY <1>1 DEF Control, Locals, Enumerating
  <1>3. Types'
    BY <1>1 DEF Control, Types, PCs, Leave, Goto
  <1> QED
    BY <1>1, <1>2, <1>3, LeaveControl DEF fixed, LockMove

\* A lookup, or a change through the entry that is held, leaves the lock with
\* its holder.
LEMMA HoldsControl ==
  ASSUME Control, NEW t \in Threads, pc[t] \in {"find", "held", "remove", "uncount"}, InSection(t),
         op[t] # "search", key[t] \in Keys, NEW where \in {"held", "remove", "uncount"}, NEW call,
         where = "held" => call = "none", where # "held" => call = "dellocked",
         pc' = [pc EXCEPT ![t] = where], op' = [op EXCEPT ![t] = call],
         UNCHANGED <<h_dim, n_lock, writer, readers, key, at, fhe>>,
         \A u \in Threads \ {t} : block'[u] = block[u],
         at[t] = NULL, fhe[t] = NULL, Types'
  PROVE  Control'
  <1>1. pc'[t] = where /\ op'[t] = call /\ key'[t] = key[t] /\ at'[t] = NULL /\ fhe'[t] = NULL
    BY DEF Control, Types
  <1>2. Locals(t)'
    BY <1>1 DEF Locals, Deleting, Enumerating
  <1>3. writer[LockAt(t)] = t
    BY DEF Control, Locked, HasLock
  <1>4. HasLock(t)'
    BY <1>1, <1>3 DEF HasLock, LockAt, LockOf, Index
  <1>5. Moves(t)
    BY <1>1, Inside DEF Moves, Others, LockMove, locks, Control, Types, fixed, Alone
  <1> QED
    BY <1>2, <1>4, <1>5, MovesControl

\* The search of a chain keeps Control.
LEMMA FindControl ==
  ASSUME Control, NEW t \in Threads, Find(t)
  PROVE  Control'
  <1>1. /\ pc[t] = "find"
        /\ UNCHANGED <<no_memory, h_dim, n_lock, use_rw, dont_copy, h_elements, text, fhe>>
    BY DEF Find, fixed, attrs
  <1>2. op[t] \in {"search", "searchlock"} /\ key[t] \in Keys /\ at[t] = NULL /\ fhe[t] = NULL
    BY <1>1 DEF Control, Locals, Enumerating
  <1>3. CASE Refuse(t, "FH_ELEMENT_NOT_FOUND")
    BY <1>1, <1>2, <1>3, RefuseControl
  <1>4. CASE /\ op[t] = "search" /\ Unlock(t, Index(key[t])) /\ Leave(t, "idle")
             /\ UNCHANGED <<hash_table, at>>
    <2>1. Types'
      BY <1>1, <1>2, <1>4, UnlockTyped DEF Control, Types, PCs, Leave, Goto
    <2>2. LockMove(t)
      BY <1>2, <1>4, UnlockTyped
    <2> QED
      BY <1>1, <1>2, <1>4, <2>1, <2>2, LeaveControl DEF fixed
  <1>5. CASE op[t] = "searchlock" /\ LeaveHolding(t) /\ UNCHANGED <<writer, readers, hash_table, at>>
    <2>1. /\ pc' = [pc EXCEPT ![t] = "held"] /\ op' = [op EXCEPT ![t] = "none"]
          /\ block' = [block EXCEPT ![t] = NULL] /\ key' = key
      BY <1>5 DEF LeaveHolding, Goto
    <2>2. Types'
      BY <1>1, <1>5, <2>1 DEF Control, Types, PCs
    <2>3. InSection(t) /\ \A u \in Threads \ {t} : block'[u] = block[u]
      BY <1>1, <2>1 DEF InSection, Control, Types
    <2> QED
      BY <1>1, <1>2, <1>5, <2>1, <2>2, <2>3, HoldsControl
  <1> QED
    BY <1>3, <1>4, <1>5 DEF Find, locks

\* The write of a caller that holds the lock keeps Control.
LEMMA ModifyControl ==
  ASSUME Control, NEW t \in Threads, Modify(t)
  PROVE  Control'
  <1> DEFINE chain == Chain(t)
             p == First(FoundAt(chain, key[t]))
  <1>1. /\ pc[t] = "held" /\ FoundAt(chain, key[t]) # {}
        /\ UNCHANGED <<no_memory, h_dim, n_lock, use_rw, dont_copy, h_elements, text, writer, readers,
                       pc, op, key, block, at, fhe>>
    BY DEF Modify, fixed, attrs, locks, args
  <1>2. key[t] \in Keys /\ op[t] = "none" /\ at[t] = NULL /\ fhe[t] = NULL
    BY <1>1 DEF Control, Locals, Enumerating
  <1>3. chain \in Seq(Bucket) /\ Index(key[t]) \in 0..(h_dim - 1)
    BY <1>2, IndexIn DEF Control, Types, Chains, Chain
  <1>4. PICK d \in Blocks[key[t]] : hash_table' = [hash_table EXCEPT ![Index(key[t])] =
                                      WithSlot(@, p, [SlotAt(@, p) EXCEPT !.obj = d])]
    BY DEF Modify
  <1>5. SlotAt(chain, p) \in Slot
    BY <1>1, <1>3, FoundIn, SlotAtTyped
  <1>6. [SlotAt(chain, p) EXCEPT !.obj = d] \in Slot
    BY <1>2, <1>4, <1>5, FastHashAssumption DEF Slot
  <1>7. WithSlot(chain, p, [SlotAt(chain, p) EXCEPT !.obj = d]) \in Seq(Bucket)
    BY <1>3, <1>6, WithSlotTyped
  <1>8. hash_table' \in [0..(h_dim - 1) -> Seq(Bucket)]
    <2> HIDE DEF p
    <2> QED
      BY <1>3, <1>4, <1>7 DEF Control, Types, Chain
  <1>9. Types'
    BY <1>1, <1>8 DEF Control, Types
  <1>10. InSection(t) /\ pc' = [pc EXCEPT ![t] = "held"] /\ op' = [op EXCEPT ![t] = "none"]
    BY <1>1, <1>2 DEF InSection, Control, Types
  <1> QED
    BY <1>1, <1>2, <1>9, <1>10, HoldsControl

\* The call of fh_dellocked keeps Control.
LEMMA DelLockedCallControl ==
  ASSUME Control, NEW t \in Threads, DelLockedCall(t)
  PROVE  Control'
  <1>1. /\ pc[t] = "held" /\ pc' = [pc EXCEPT ![t] = "remove"] /\ op' = [op EXCEPT ![t] = "dellocked"]
        /\ UNCHANGED <<no_memory, h_dim, n_lock, use_rw, dont_copy, h_elements, hash_table, text,
                       writer, readers, key, block, at, fhe>>
    BY DEF DelLockedCall, fixed, attrs, locks, args, Goto, table
  <1>2. key[t] \in Keys /\ op[t] = "none" /\ at[t] = NULL /\ fhe[t] = NULL
    BY <1>1 DEF Control, Locals, Enumerating
  <1>3. Types' /\ InSection(t)
    BY <1>1 DEF Control, Types, PCs, InSection
  <1> QED
    BY <1>1, <1>2, <1>3, HoldsControl

\* fh_releaselock keeps Control.
LEMMA ReleaseLockControl ==
  ASSUME Control, NEW t \in Threads, ReleaseLock(t)
  PROVE  Control'
  <1>1. /\ pc[t] = "held" /\ Unlock(t, Index(key[t])) /\ Leave(t, "idle")
        /\ UNCHANGED <<no_memory, h_dim, n_lock, use_rw, dont_copy, h_elements, hash_table, text, at, fhe>>
    BY DEF ReleaseLock, fixed, attrs, table
  <1>2. key[t] \in Keys /\ op[t] = "none" /\ at[t] = NULL /\ fhe[t] = NULL
    BY <1>1 DEF Control, Locals, Enumerating
  <1>3. Types'
    BY <1>1, <1>2, UnlockTyped DEF Control, Types, PCs, Leave, Goto
  <1>4. LockMove(t)
    BY <1>1, <1>2, UnlockTyped
  <1> QED
    BY <1>1, <1>2, <1>3, <1>4, LeaveControl DEF fixed

\* An enumerator that moves on only changes its index and its validity.
LEMMA MovedOnTyped ==
  ASSUME NEW e \in Enum
  PROVE  /\ MovedOn(e) \in Enum
         /\ MovedOn(e).idx = e.idx + 1 /\ MovedOn(e).is_valid = (e.idx + 1 <= Len(e.elem_list))
         /\ MovedOn(e).max = e.max /\ MovedOn(e).bucket = e.bucket /\ MovedOn(e).elem_list = e.elem_list
  <1> DEFINE v == e.idx + 1 <= Len(e.elem_list)
             i == e.idx + 1
             m == [e EXCEPT !.idx = i, !.is_valid = v]
  <1>1. MovedOn(e) = m
    BY DEF MovedOn
  <1>2. v \in BOOLEAN /\ i \in Nat \ {0}
    BY DEF Enum
  <1> HIDE DEF v, i
  <1>3. m \in Enum /\ m.idx = i
    BY <1>2 DEF Enum
  <1>4. m.is_valid = v /\ m.max = e.max /\ m.bucket = e.bucket /\ m.elem_list = e.elem_list
    BY DEF Enum
  <1> QED
    BY <1>1, <1>3, <1>4 DEF v, i

\* The end of fh_del, fh_dellocked and of the fh_del of fh_clean.
LEMMA DelReturnsControl ==
  ASSUME Control, NEW t \in Threads, pc[t] \in {"remove", "uncount"}, DelReturns(t),
         UNCHANGED <<no_memory, h_dim, n_lock, use_rw, dont_copy, hash_table, text, at>>,
         h_elements' \in Int,
         \/ UNCHANGED <<writer, readers>> /\ (op[t] = "dellocked" \/ pc[t] = "uncount")
         \/ op[t] # "dellocked" /\ Unlock(t, Index(key[t]))
  PROVE  Control'
  <1>1. key[t] \in Keys /\ op[t] \in Deleting /\ at[t] = NULL
    BY DEF Control, Locals
  <1>2. /\ LockMove(t)
        /\ writer' \in [0..(n_lock - 1) -> Threads \cup {NULL}]
        /\ readers' \in [0..(n_lock - 1) -> SUBSET Threads]
    <2>1. CASE UNCHANGED <<writer, readers>>
      BY <2>1 DEF Control, Types, LockMove, locks
    <2> QED
      BY <1>1, <2>1, UnlockTyped
  <1>3. CASE op[t] = "del"
    <2>1. Leave(t, "idle") /\ UNCHANGED fhe
      BY <1>3 DEF DelReturns
    <2>2. Types' /\ fhe[t] = NULL
      BY <1>2, <1>3, <2>1 DEF Control, Types, PCs, Leave, Goto, Locals, Enumerating
    <2> QED
      BY <1>1, <1>2, <2>1, <2>2, LeaveControl DEF fixed
  <1>4. CASE op[t] = "dellocked"
    <2>1. /\ pc' = [pc EXCEPT ![t] = "held"] /\ op' = [op EXCEPT ![t] = "none"]
          /\ block' = [block EXCEPT ![t] = NULL] /\ UNCHANGED <<key, fhe>>
      BY <1>4 DEF DelReturns, LeaveHolding, Goto
    <2>2. Types' /\ fhe[t] = NULL
      BY <1>2, <1>4, <2>1 DEF Control, Types, PCs, Locals, Enumerating
    <2>3. InSection(t) /\ \A u \in Threads \ {t} : block'[u] = block[u]
      BY <1>4, <2>1 DEF InSection, Control, Types
    <2> QED
      BY <1>1, <1>4, <2>1, <2>2, <2>3, HoldsControl
  <1>5. CASE op[t] \in {"clean", "destroy"}
    <2>1. /\ pc' = [pc EXCEPT ![t] = "next"] /\ UNCHANGED <<op, key, block>>
          /\ fhe' = [fhe EXCEPT ![t] = MovedOn(@)]
      BY <1>5 DEF DelReturns, Goto, args
    <2>2. fhe[t] \in Enum /\ MovedOn(fhe[t]) \in Enum
      BY <1>5, MovedOnTyped DEF Control, Locals, Enumerating
    <2>3. Types'
      BY <1>2, <2>1, <2>2 DEF Control, Types, PCs
    <2>4. pc'[t] = "next" /\ op'[t] = op[t] /\ at'[t] = NULL /\ fhe'[t] = MovedOn(fhe[t])
      BY <1>1, <2>1 DEF Control, Types
    <2>5. Locals(t)' /\ ~InSection(t)'
      BY <1>5, <2>2, <2>4 DEF Locals, Enumerating, InSection
    <2>6. Others(t) /\ (op'[t] \in Alone \/ pc'[t] = "destroyed" => op[t] \in Alone)
      BY <2>1, <2>4 DEF Others, Control, Types
    <2> QED
      BY <1>2, <2>3, <2>5, <2>6, OutsideControl DEF fixed
  <1> QED
    BY <1>1, <1>3, <1>4, <1>5 DEF Deleting

\* What fh_del does to a chain.
Unlinked(chain, k) == LET p == First(FoundAt(chain, k))
                      IN  Trimmed(WithSlot(chain, p, EmptySlot), p[1])

\* Removing an element leaves a chain.
LEMMA UnlinkedTyped ==
  ASSUME NEW chain \in Seq(Bucket), NEW k, FoundAt(chain, k) # {}
  PROVE  Unlinked(chain, k) \in Seq(Bucket)
  <1> DEFINE p == First(FoundAt(chain, k))
  <1>1. p[1] \in 1..Len(chain)
    BY FoundIn, SlotAtTyped
  <1>2. WithSlot(chain, p, EmptySlot) \in Seq(Bucket) /\ Len(WithSlot(chain, p, EmptySlot)) = Len(chain)
    BY WithSlotTyped, EmptyBucketTyped
  <1> HIDE DEF p
  <1>3. Trimmed(WithSlot(chain, p, EmptySlot), p[1]) \in Seq(Bucket)
    BY <1>1, <1>2, TrimmedTyped
  <1> QED
    BY <1>3 DEF Unlinked, p

\* fh_del finds the key and removes it, or returns an error.
LEMMA UnlinkCases ==
  ASSUME Control, NEW t \in Threads, Unlink(t)
  PROVE  /\ pc[t] = "remove" /\ key[t] \in Keys /\ op[t] \in Deleting
         /\ Chain(t) \in Seq(Bucket) /\ Index(key[t]) \in Chains
         /\ UNCHANGED <<no_memory, h_dim, n_lock, use_rw, dont_copy, h_elements, at>>
         /\ IF op[t] = "dellocked" THEN UNCHANGED locks ELSE Unlock(t, Index(key[t]))
         /\ \/ /\ FoundAt(Chain(t), key[t]) = {}
               /\ Answer(t, "FH_ELEMENT_NOT_FOUND", NULL)
               /\ DelReturns(t) /\ UNCHANGED <<hash_table, text>>
            \/ /\ FoundAt(Chain(t), key[t]) # {}
               /\ Answer(t, "FH_OK", NULL)
               /\ text' = Freed(SlotAt(Chain(t), First(FoundAt(Chain(t), key[t]))).key)
               /\ hash_table' = [hash_table EXCEPT ![Index(key[t])] = Unlinked(Chain(t), key[t])]
               /\ pc' = [pc EXCEPT ![t] = "uncount"] /\ UNCHANGED <<op, key, block, fhe>>
  <1>1. pc[t] = "remove"
    BY DEF Unlink
  <1>2. key[t] \in Keys /\ op[t] \in Deleting
    BY <1>1 DEF Control, Locals
  <1>3. Chain(t) \in Seq(Bucket) /\ Index(key[t]) \in Chains
    BY <1>2, IndexIn DEF Control, Types, Chains, Chain
  <1> QED
    BY <1>1, <1>2, <1>3 DEF Unlink, fixed, attrs, table, args, Goto, Unlinked, Chain

\* The step of fh_del that empties a slot keeps Control.
LEMMA UnlinkControl ==
  ASSUME Control, NEW t \in Threads, Unlink(t)
  PROVE  Control'
  <1>1. /\ pc[t] = "remove" /\ key[t] \in Keys /\ op[t] \in Deleting /\ at[t] = NULL
        /\ Chain(t) \in Seq(Bucket) /\ Index(key[t]) \in Chains
        /\ UNCHANGED <<no_memory, h_dim, n_lock, use_rw, dont_copy, h_elements, at>>
    BY UnlinkCases DEF Control, Locals
  <1>2. \/ UNCHANGED <<writer, readers>> /\ op[t] = "dellocked"
        \/ op[t] # "dellocked" /\ Unlock(t, Index(key[t]))
    BY UnlinkCases DEF locks
  <1>3. CASE DelReturns(t) /\ UNCHANGED <<hash_table, text>>
    <2>1. h_elements' \in Int
      BY <1>1 DEF Control, Types
    <2> QED
      BY <1>1, <1>2, <1>3, <2>1, DelReturnsControl
  <1>4. CASE /\ FoundAt(Chain(t), key[t]) # {}
             /\ text' = Freed(SlotAt(Chain(t), First(FoundAt(Chain(t), key[t]))).key)
             /\ hash_table' = [hash_table EXCEPT ![Index(key[t])] = Unlinked(Chain(t), key[t])]
             /\ pc' = [pc EXCEPT ![t] = "uncount"] /\ UNCHANGED <<op, key, block, fhe>>
    <2>1. Unlinked(Chain(t), key[t]) \in Seq(Bucket)
      BY <1>1, <1>4, UnlinkedTyped
    <2>2. hash_table' \in [0..(h_dim - 1) -> Seq(Bucket)]
      BY <1>1, <1>4, <2>1 DEF Control, Types, Chains
    <2>3. text' \in [Ptrs -> Keys \cup {NULL}]
      BY <1>4 DEF Freed, Control, Types
    <2>4. /\ LockMove(t)
          /\ writer' \in [0..(n_lock - 1) -> Threads \cup {NULL}]
          /\ readers' \in [0..(n_lock - 1) -> SUBSET Threads]
      <3>1. CASE UNCHANGED <<writer, readers>>
        BY <3>1 DEF Control, Types, LockMove, locks
      <3> QED
        BY <1>1, <1>2, <3>1, UnlockTyped
    <2>5. Types'
      BY <1>1, <1>4, <2>2, <2>3, <2>4 DEF Control, Types, PCs
    <2>6. CASE op[t] = "dellocked"
      <3>1. fhe[t] = NULL /\ InSection(t) /\ op' = [op EXCEPT ![t] = "dellocked"]
        BY <1>1, <1>4, <2>6 DEF Control, Types, Locals, Enumerating, InSection
      <3> QED
        BY <1>1, <1>2, <1>4, <2>5, <2>6, <3>1, HoldsControl
    <2>7. CASE op[t] # "dellocked"
      <3>1. pc'[t] = "uncount" /\ op'[t] = op[t] /\ key'[t] = key[t] /\ at'[t] = NULL /\ fhe'[t] = fhe[t]
        BY <1>1, <1>4 DEF Control, Types
      <3>2. Locals(t)' /\ ~InSection(t)'
        BY <1>1, <2>7, <3>1 DEF Control, Locals, Enumerating, InSection
      <3>3. Others(t) /\ (op'[t] \in Alone \/ pc'[t] = "destroyed" => op[t] \in Alone)
        BY <1>1, <1>4, <3>1 DEF Others, Control, Types
      <3> QED
        BY <1>1, <2>4, <2>5, <3>2, <3>3, OutsideControl DEF fixed
    <2> QED
      BY <2>6, <2>7
  <1> QED
    BY <1>3, <1>4, UnlinkCases

\* The step of fh_del that discounts the element keeps Control.
LEMMA UncountControl ==
  ASSUME Control, NEW t \in Threads, Uncount(t)
  PROVE  Control'
  <1>1. /\ pc[t] = "uncount" /\ h_elements' = h_elements - 1 /\ DelReturns(t)
        /\ UNCHANGED <<no_memory, h_dim, n_lock, use_rw, dont_copy, hash_table, text, writer, readers, at>>
    BY DEF Uncount, Uncounted, fixed, attrs, table, locks
  <1>2. h_elements' \in Int
    BY <1>1 DEF Control, Types
  <1> QED
    BY <1>1, <1>2, DelReturnsControl

-----------------------------------------------------------------------------
\* Enumerators
LEMMA EnumCallControl ==
  ASSUME Control, NEW t \in Threads, NEW call \in EntryPoints, EnumCall(t, call)
  PROVE  Control'
  <1>1. /\ pc[t] = "idle" /\ call \in Enumerating /\ MayCall(t, call)
        /\ UNCHANGED <<h_dim, n_lock, use_rw, dont_copy, h_elements, hash_table, text,
                       writer, readers, key, block, at>>
    BY DEF EnumCall, fixed, attrs, table, locks
  <1>2. op[t] = "none" /\ at[t] = NULL /\ fhe[t] = NULL
    BY <1>1 DEF Control, Locals, Enumerating
  <1>3. \A u \in Threads \ {t} : /\ op[u] \notin Alone /\ pc[u] # "destroyed"
                                 /\ call \in Alone => pc[u] = "idle"
    BY <1>1 DEF MayCall
  <1>4. CASE /\ pc' = [pc EXCEPT ![t] = IF call = "destroy" THEN "destroyed" ELSE "idle"]
             /\ no_memory' = (no_memory \/ (h_elements >= 1 /\ call = "destroy"))
             /\ UNCHANGED <<op, fhe>>
    <2> DEFINE where == IF call = "destroy" THEN "destroyed" ELSE "idle"
    <2>1. where \in {"destroyed", "idle"} /\ (where = "destroyed" => call \in Alone)
      BY DEF Alone
    <2>2. no_memory' \in BOOLEAN
      BY <1>4
    <2> HIDE DEF where
    <2>3. Types'
      BY <1>1, <1>4, <2>1, <2>2 DEF Control, Types, PCs, where
    <2>4. pc'[t] = where /\ op'[t] = "none" /\ at'[t] = NULL /\ fhe'[t] = NULL
      BY <1>1, <1>2, <1>4 DEF Control, Types, where
    <2>5. Locals(t)' /\ ~InSection(t)'
      BY <2>1, <2>4 DEF Locals, Enumerating, InSection
    <2>6. Others(t) /\ LockMove(t) /\ UNCHANGED fixed
      BY <1>1, <1>4 DEF Others, LockMove, locks, fixed, Control, Types, where
    <2>7. Moves(t)
      BY <1>3, <2>1, <2>4, <2>6 DEF Moves, Alone
    <2> QED
      BY <2>3, <2>5, <2>7, MovesControl DEF HasLock
  <1>5. CASE /\ h_elements >= 1 /\ UNCHANGED no_memory
             /\ fhe' = [fhe EXCEPT ![t] = [max |-> h_elements, bucket |-> 0,
                           elem_list |-> <<>>, idx |-> 1, is_valid |-> TRUE]]
             /\ op' = [op EXCEPT ![t] = call]
             /\ pc' = [pc EXCEPT ![t] = "scan"]
    <2> DEFINE yes == TRUE
               e == [max |-> h_elements, bucket |-> 0, elem_list |-> <<>>, idx |-> 1, is_valid |-> yes]
    <2>1. yes \in BOOLEAN /\ h_elements \in Nat \ {0} /\ <<>> \in Seq(KeyPtrs)
      BY <1>5 DEF Control, Types
    <2>2. /\ fhe' = [fhe EXCEPT ![t] = e] /\ UNCHANGED no_memory
          /\ op' = [op EXCEPT ![t] = call] /\ pc' = [pc EXCEPT ![t] = "scan"]
      BY <1>5
    <2> HIDE DEF yes
    <2>3. e \in Enum /\ e.bucket = 0
      BY <2>1 DEF Enum
    <2> HIDE DEF e
    <2>4. Types'
      BY <1>1, <2>2, <2>3 DEF Control, Types, PCs
    <2>5. pc'[t] = "scan" /\ op'[t] = call /\ at'[t] = NULL /\ fhe'[t] = e
      BY <1>1, <1>2, <2>2 DEF Control, Types
    <2>6. h_dim' \in Nat \ {0}
      BY <2>4 DEF Types
    <2>7. Locals(t)' /\ ~InSection(t)'
      BY <1>1, <2>3, <2>5, <2>6 DEF Locals, Enumerating, InSection
    <2>8. Others(t) /\ LockMove(t) /\ UNCHANGED fixed
      BY <1>1, <2>2 DEF Others, LockMove, locks, fixed, Control, Types
    <2>9. Moves(t)
      BY <1>3, <2>5, <2>8 DEF Moves
    <2> QED
      BY <2>4, <2>7, <2>9, MovesControl DEF HasLock
  <1> QED
    BY <1>4, <1>5 DEF EnumCall, Goto

\* The list after one more bucket.
Longer(e) == Fitting(e.elem_list \o Elements(hash_table[e.bucket]), e.max)

\* The list of an enumerator never outgrows the room it allocated.
LEMMA LongerTyped ==
  ASSUME Types, NEW e \in Enum, e.bucket < h_dim
  PROVE  Longer(e) \in Seq(KeyPtrs) /\ Len(Longer(e)) <= e.max
  <1>1. hash_table[e.bucket] \in Seq(Bucket) /\ e.max \in Nat /\ e.elem_list \in Seq(KeyPtrs)
    BY DEF Types, Enum
  <1>2. Elements(hash_table[e.bucket]) \in Seq(KeyPtrs)
    BY <1>1, ElementsList
  <1>3. e.elem_list \o Elements(hash_table[e.bucket]) \in Seq(KeyPtrs)
    BY <1>1, <1>2
  <1>4. \A s \in Seq(KeyPtrs), m \in Nat : Fitting(s, m) \in Seq(KeyPtrs) /\ Len(Fitting(s, m)) <= m
    BY DEF Fitting
  <1> QED
    BY <1>1, <1>3, <1>4 DEF Longer

\* A step of an enumerator outside of the critical sections.
LEMMA WalkControl ==
  ASSUME Control, NEW t \in Threads, op[t] \in Enumerating, pc[t] \notin {"idle", "destroyed"},
         NEW where \in {"scan", "sort", "have", "next"},
         where \in {"sort", "have"} => op[t] = "enum",
         where = "next" => op[t] \in {"clean", "destroy"},
         pc' = [pc EXCEPT ![t] = where], UNCHANGED op, at[t] = NULL,
         NEW e \in Enum, fhe' = [fhe EXCEPT ![t] = e], where = "scan" => e.bucket < h_dim,
         UNCHANGED <<no_memory, h_dim, n_lock, use_rw, dont_copy, h_elements, hash_table, text,
                     writer, readers, key, block, at>>
  PROVE  Control'
  <1>1. Types'
    BY DEF Control, Types, PCs
  <1>2. pc'[t] = where /\ op'[t] = op[t] /\ at'[t] = NULL /\ fhe'[t] = e
    BY DEF Control, Types
  <1>3. Locals(t)' /\ ~InSection(t)'
    BY <1>2 DEF Locals, Enumerating, InSection
  <1>4. Others(t) /\ LockMove(t) /\ UNCHANGED fixed
    BY DEF Others, LockMove, locks, fixed, Control, Types
  <1>5. op'[t] \in Alone \/ pc'[t] = "destroyed" => op[t] \in Alone
    BY <1>2
  <1> QED
    BY <1>1, <1>3, <1>4, <1>5, OutsideControl

\* EnumScan, in terms of Longer.
LEMMA EnumScanCases ==
  ASSUME Control, NEW t \in Threads, EnumScan(t)
  PROVE  LET e == fhe[t]
             more == e.bucket + 1 < h_dim /\ Len(Longer(e)) < e.max
             w == [e EXCEPT !.bucket = @ + 1, !.elem_list = Longer(e)]
         IN  /\ pc[t] = "scan" /\ op[t] \in Enumerating /\ e \in Enum /\ e.bucket < h_dim /\ at[t] = NULL
             /\ Free(LockOf(e.bucket))
             /\ w \in Enum /\ w.bucket = e.bucket + 1 /\ w.elem_list = Longer(e)
             /\ w.max = e.max /\ w.idx = e.idx /\ w.is_valid = e.is_valid
             /\ fhe' = [fhe EXCEPT ![t] = w]
             /\ pc' = [pc EXCEPT ![t] = IF more THEN "scan" ELSE IF op[t] = "enum" THEN "sort" ELSE "next"]
             /\ UNCHANGED <<no_memory, h_dim, n_lock, use_rw, dont_copy, h_elements, hash_table, text,
                            writer, readers, op, key, block, at>>
  <1> DEFINE e == fhe[t]
             w == [e EXCEPT !.bucket = @ + 1, !.elem_list = Longer(e)]
  <1>1. pc[t] = "scan"
    BY DEF EnumScan
  <1>2. op[t] \in Enumerating /\ e \in Enum /\ e.bucket < h_dim /\ at[t] = NULL
    BY <1>1 DEF Control, Locals, Enumerating
  <1>3. Longer(e) \in Seq(KeyPtrs)
    BY <1>2, LongerTyped DEF Control
  <1>4. /\ w \in Enum /\ w.bucket = e.bucket + 1 /\ w.elem_list = Longer(e)
        /\ w.max = e.max /\ w.idx = e.idx /\ w.is_valid = e.is_valid
    <2> HIDE DEF e
    <2> DEFINE list == Longer(e)
               b == e.bucket + 1
               v == [e EXCEPT !.bucket = b, !.elem_list = list]
    <2>1. list \in Seq(KeyPtrs) /\ b \in Nat /\ w = v
      BY <1>2, <1>3 DEF Enum
    <2> HIDE DEF list, b, w
    <2>2. v \in Enum
      BY <1>2, <2>1 DEF Enum
    <2>3. v.bucket = b /\ v.elem_list = list /\ v.max = e.max /\ v.idx = e.idx
      BY <1>2, <2>1 DEF Enum
    <2>4. v.is_valid = e.is_valid
      BY <1>2, <2>1 DEF Enum
    <2> HIDE DEF v
    <2> QED
      BY <2>1, <2>2, <2>3, <2>4 DEF list, b
  <1>5. fhe' = [fhe EXCEPT ![t] = w]
    BY DEF EnumScan, Longer, Control, Types
  <1>6. /\ Free(LockOf(e.bucket))
        /\ UNCHANGED <<no_memory, h_dim, n_lock, use_rw, dont_copy, h_elements, hash_table, text,
                       writer, readers, op, key, block, at>>
    BY DEF EnumScan, fixed, attrs, table, locks, args
  <1>7. LET more == e.bucket + 1 < h_dim /\ Len(Longer(e)) < e.max IN
        pc' = [pc EXCEPT ![t] = IF more THEN "scan" ELSE IF op[t] = "enum" THEN "sort" ELSE "next"]
    BY DEF EnumScan, Longer, Goto
  <1> QED
    BY <1>1, <1>2, <1>4, <1>5, <1>6, <1>7

\* The scan of one chain by fh_enum_create keeps Control.
LEMMA EnumScanControl ==
  ASSUME Control, NEW t \in Threads, EnumScan(t)
  PROVE  Control'
  <1> DEFINE e == fhe[t]
             more == e.bucket + 1 < h_dim /\ Len(Longer(e)) < e.max
             w == [e EXCEPT !.bucket = @ + 1, !.elem_list = Longer(e)]
             where == IF more THEN "scan" ELSE IF op[t] = "enum" THEN "sort" ELSE "next"
  <1>1. /\ pc[t] = "scan" /\ op[t] \in Enumerating /\ at[t] = NULL
        /\ w \in Enum /\ w.bucket = e.bucket + 1 /\ fhe' = [fhe EXCEPT ![t] = w]
        /\ pc' = [pc EXCEPT ![t] = where]
        /\ UNCHANGED <<no_memory, h_dim, n_lock, use_rw, dont_copy, h_elements, hash_table, text,
                       writer, readers, op, key, block, at>>
    BY EnumScanCases
  <1>2. /\ where \in {"scan", "sort", "have", "next"} /\ (where = "scan" => w.bucket < h_dim)
        /\ where \in {"sort", "have"} => op[t] = "enum"
        /\ where = "next" => op[t] \in {"clean", "destroy"}
    <2>1. more => w.bucket < h_dim
      BY <1>1
    <2> HIDE DEF more, w
    <2> QED
      BY <1>1, <2>1 DEF Enumerating
  <1> HIDE DEF where, w
  <1> QED
    BY <1>1, <1>2, WalkControl

\* The sort of fh_enum_create keeps Control.
LEMMA EnumSortControl ==
  ASSUME Control, NEW t \in Threads, EnumSort(t)
  PROVE  Control'
  <1>1. /\ pc[t] = "sort" /\ pc' = [pc EXCEPT ![t] = "have"]
        /\ UNCHANGED <<no_memory, h_dim, n_lock, use_rw, dont_copy, h_elements, hash_table, text,
                       writer, readers, op, key, block, at, fhe>>
    BY DEF EnumSort, Goto, fixed, attrs, table, locks, args
  <1>2. op[t] = "enum" /\ at[t] = NULL /\ fhe[t] \in Enum
    BY <1>1 DEF Control, Locals, Enumerating
  <1>3. fhe' = [fhe EXCEPT ![t] = fhe[t]]
    BY <1>1 DEF Control, Types
  <1> QED
    BY <1>1, <1>2, <1>3, WalkControl DEF Enumerating

\* The loop of the client or of fh_clean is over.
LEMMA FinishedControl ==
  ASSUME Control, NEW t \in Threads, pc[t] \in {"have", "next"}, Finished(t),
         fhe' = [fhe EXCEPT ![t] = NULL],
         UNCHANGED <<no_memory, h_dim, n_lock, use_rw, dont_copy, h_elements, hash_table, text,
                     writer, readers, at>>
  PROVE  Control'
  <1> DEFINE where == IF op[t] = "destroy" THEN "destroyed" ELSE "idle"
  <1>1. Leave(t, where) /\ where \in {"idle", "destroyed"} /\ (where = "destroyed" => op[t] = "destroy")
    BY DEF Finished
  <1> HIDE DEF where
  <1>2. at[t] = NULL /\ LockMove(t) /\ UNCHANGED fixed
    BY DEF Control, Locals, LockMove, locks, fixed
  <1>3. Types'
    BY <1>1 DEF Control, Types, Leave, Goto, PCs
  <1>4. fhe'[t] = NULL /\ \A u \in Threads \ {t} : fhe'[u] = fhe[u]
    BY DEF Control, Types
  <1> QED
    BY <1>1, <1>2, <1>3, <1>4, LeaveControl

\* fh_enum_move_next keeps Control.
LEMMA EnumNextControl ==
  ASSUME Control, NEW t \in Threads, EnumNext(t)
  PROVE  Control'
  <1>1. /\ pc[t] = "have"
        /\ UNCHANGED <<no_memory, h_dim, n_lock, use_rw, dont_copy, h_elements, hash_table, text,
                       writer, readers, at>>
    BY DEF EnumNext, fixed, attrs, table, locks
  <1>2. op[t] = "enum" /\ at[t] = NULL /\ fhe[t] \in Enum
    BY <1>1 DEF Control, Locals, Enumerating
  <1>3. CASE fhe' = [fhe EXCEPT ![t] = MovedOn(@)] /\ UNCHANGED <<pc, op, key, block>>
    <2>1. pc' = [pc EXCEPT ![t] = "have"] /\ MovedOn(fhe[t]) \in Enum
      BY <1>1, <1>2, <1>3, MovedOnTyped DEF Control, Types
    <2> QED
      BY <1>1, <1>2, <1>3, <2>1, WalkControl DEF Enumerating
  <1>4. CASE fhe' = [fhe EXCEPT ![t] = NULL] /\ Finished(t)
    BY <1>1, <1>4, FinishedControl
  <1> QED
    BY <1>3, <1>4 DEF EnumNext, args

\* An enumerator stands at an address of a key.
LEMMA CurrentIn ==
  ASSUME NEW e \in Enum
  PROVE  Current(e) \in KeyPtrs
  BY DEF Current, Enum, KeyPtrs

\* One turn of the loop of fh_clean keeps Control.
LEMMA CleanNextControl ==
  ASSUME Control, NEW t \in Threads, CleanNext(t)
  PROVE  Control'
  <1>1. /\ pc[t] = "next"
        /\ UNCHANGED <<no_memory, h_dim, n_lock, use_rw, dont_copy, h_elements, hash_table, text,
                       writer, readers, at>>
    BY DEF CleanNext, fixed, attrs, table, locks
  <1>2. op[t] \in {"clean", "destroy"} /\ at[t] = NULL /\ fhe[t] \in Enum
    BY <1>1 DEF Control, Locals, Enumerating
  <1>3. CASE fhe' = [fhe EXCEPT ![t] = MovedOn(@)] /\ UNCHANGED <<pc, op, key, block>>
    <2>1. pc' = [pc EXCEPT ![t] = "next"] /\ MovedOn(fhe[t]) \in Enum
      BY <1>1, <1>2, <1>3, MovedOnTyped DEF Control, Types
    <2> QED
      BY <1>1, <1>2, <1>3, <2>1, WalkControl DEF Enumerating
  <1>4. CASE fhe' = [fhe EXCEPT ![t] = NULL] /\ Finished(t)
    BY <1>1, <1>4, FinishedControl
  <1>5. CASE /\ Text(Current(fhe[t])) # NULL /\ key' = [key EXCEPT ![t] = Text(Current(fhe[t]))]
             /\ pc' = [pc EXCEPT ![t] = "wlock"] /\ UNCHANGED <<op, block, fhe>>
    <2>1. Text(Current(fhe[t])) \in Keys
      BY <1>2, <1>5, CurrentIn DEF Text, KeyPtrs, Control, Types
    <2>2. Types'
      BY <1>1, <1>5, <2>1 DEF Control, Types, PCs
    <2>3. pc'[t] = "wlock" /\ op'[t] = op[t] /\ key'[t] \in Keys /\ at'[t] = NULL /\ fhe'[t] = fhe[t]
      BY <1>1, <1>2, <1>5, <2>1 DEF Control, Types
    <2>4. Locals(t)' /\ ~InSection(t)'
      BY <1>2, <2>3 DEF Locals, Enumerating, InSection
    <2>5. Others(t) /\ LockMove(t) /\ UNCHANGED fixed
      BY <1>1, <1>5 DEF Others, LockMove, locks, fixed, Control, Types
    <2>6. op'[t] \in Alone \/ pc'[t] = "destroyed" => op[t] \in Alone
      BY <2>3
    <2> QED
      BY <1>1, <2>2, <2>4, <2>5, <2>6, OutsideControl
  <1> QED
    BY <1>3, <1>4, <1>5 DEF CleanNext, args, Goto

\* fh_clean keeps Control when it takes the lock of a key to delete.
LEMMA CleanLockControl ==
  ASSUME Control, NEW t \in Threads, CleanLock(t)
  PROVE  Control'
  <1>1. /\ pc[t] = "wlock" /\ WLock(t, Index(key[t])) /\ pc' = [pc EXCEPT ![t] = "remove"]
        /\ UNCHANGED <<no_memory, h_dim, n_lock, use_rw, dont_copy, h_elements, hash_table, text,
                       op, key, block, at, fhe>>
    BY DEF CleanLock, Goto, fixed, attrs, table, args
  <1>2. op[t] \in {"clean", "destroy"} /\ key[t] \in Keys /\ at[t] = NULL /\ fhe[t] \in Enum
    BY <1>1 DEF Control, Locals, Enumerating
  <1>3. Index(key[t]) \in Chains /\ LockAt(t) \in 0..(n_lock - 1)
    BY <1>2, IndexIn DEF Control, LockAt
  <1>4. Types' /\ writer'[LockAt(t)] = t
    BY <1>1, <1>3 DEF Control, Types, PCs, WLock, LockAt
  <1>5. pc'[t] = "remove" /\ op'[t] = op[t] /\ key'[t] = key[t] /\ at'[t] = NULL /\ fhe'[t] = fhe[t]
    BY <1>1, <1>2 DEF Control, Types
  <1>6. Locals(t)'
    BY <1>2, <1>5 DEF Locals, Enumerating, Deleting
  <1>7. HasLock(t)'
    BY <1>1, <1>4, <1>5 DEF HasLock, LockAt, LockOf, Index
  <1>8. Others(t) /\ LockMove(t) /\ UNCHANGED fixed
    BY <1>1, <1>3 DEF Others, LockMove, fixed, Control, Types
  <1>9. Moves(t)
    BY <1>1, <1>5, <1>8, Inside DEF Moves
  <1> QED
    BY <1>4, <1>6, <1>7, <1>9, MovesControl

\* fh_setattr keeps Control.
LEMMA SetAttrControl ==
  ASSUME Control, NEW t \in Threads, SetAttr(t)
  PROVE  Control'
  <1>1. /\ dont_copy' \in BOOLEAN /\ use_rw' \in BOOLEAN /\ pc[t] = "idle"
        /\ UNCHANGED <<no_memory, h_dim, n_lock, h_elements, hash_table, text, writer, readers,
                       pc, op, key, block, at, fhe>>
    BY DEF SetAttr, fixed, table, locks, args, Control, Types
  <1>2. Types'
    BY <1>1 DEF Control, Types
  <1> QED
    BY <1>1, <1>2 DEF Control, Locals, Locked, HasLock, InSection, LockAt, LockOf, Index, DestroysAlone

\* A new table satisfies Control.
LEMMA ControlInit == Init => Control
  <1> SUFFICES ASSUME Init PROVE Control
    OBVIOUS
  <1>1. h_dim \in Nat \ {0} /\ n_lock \in Nat \ {0}
    BY SizeAssumption DEF Init
  <1>2. hash_table \in [0..(h_dim - 1) -> Seq(Bucket)]
    BY DEF Init
  <1>3. Types
    <2>1. use_rw \in BOOLEAN /\ dont_copy \in BOOLEAN /\ no_memory \in BOOLEAN
      BY DEF Init
    <2>2. text \in [Ptrs -> Keys \cup {NULL}] /\ h_elements \in Int
      BY DEF Init
    <2>3. writer \in [0..(n_lock - 1) -> Threads \cup {NULL}] /\ readers \in [0..(n_lock - 1) -> SUBSET Threads]
      BY DEF Init
    <2>4. /\ pc \in [Threads -> PCs] /\ op \in [Threads -> EntryPoints \cup {"none", "dellocked"}]
          /\ key \in [Threads -> Keys \cup {NULL}] /\ block \in [Threads -> Data \cup {NULL}]
          /\ at \in [Threads -> (Nat \X (1..BUCKET_SIZE)) \cup {NULL}] /\ fhe \in [Threads -> Enum \cup {NULL}]
      BY DEF Init, PCs
    <2> QED
      BY <1>1, <1>2, <2>1, <2>2, <2>3, <2>4 DEF Types
  <1>4. \A t \in Threads : pc[t] = "idle" /\ op[t] = "none" /\ at[t] = NULL /\ fhe[t] = NULL
    BY DEF Init
  <1>5. \A t \in Threads : Locals(t) /\ HasLock(t)
    BY <1>4 DEF Locals, Enumerating, HasLock, InSection
  <1>6. Locked /\ DestroysAlone
    BY <1>4, <1>5 DEF Init, Locked, DestroysAlone, Alone
  <1> QED
    BY <1>3, <1>5, <1>6 DEF Control

\* The start of a call keeps Control.
LEMMA ControlStart ==
  ASSUME Control, NEW t \in Threads, Start(t)
  PROVE  Control'
  <1>1. ASSUME NEW k \in Keys, NEW call \in EntryPoints, NEW d \in Blocks[k], InsertCall(t, call, k, d)
        PROVE  Control'
    BY <1>1, EnterControl DEF InsertCall
  <1>2. ASSUME NEW k \in Keys, SearchCall(t, k) \/ SearchLockCall(t, k) \/ DelCall(t, k)
        PROVE  Control'
    BY <1>2, EnterControl DEF SearchCall, SearchLockCall, DelCall
  <1>3. ASSUME NEW call \in EntryPoints, EnumCall(t, call)
        PROVE  Control'
    BY <1>3, EnumCallControl
  <1> QED
    BY <1>1, <1>2, <1>3, SetAttrControl DEF Start

\* Every step keeps Control.
LEMMA ControlNext == Control /\ [Next]_vars => Control'
  <1> SUFFICES ASSUME Control, [Next]_vars PROVE Control'
    OBVIOUS
  <1>1. CASE UNCHANGED vars
    <2>1. UNCHANGED <<h_dim, n_lock, use_rw, dont_copy, no_memory, h_elements, hash_table, text,
                      writer, readers, pc, op, key, block, at, fhe>>
      BY <1>1 DEF vars, fixed, attrs, table, locks, args
    <2>2. Types'
      BY <2>1 DEF Control, Types
    <2> QED
      BY <2>1, <2>2 DEF Control, Locals, Locked, HasLock, InSection, LockAt, LockOf, Index, DestroysAlone
  <1>2. ASSUME NEW t \in Threads, Hold(t)
        PROVE  Control'
    BY <1>2, ModifyControl, DelLockedCallControl, ReleaseLockControl DEF Hold
  <1>3. ASSUME NEW t \in Threads, Step(t)
        PROVE  Control'
    BY <1>3, ReserveControl, FillControl, FillFailsControl, CountControl, FindControl, UnlinkControl,
       UncountControl, EnumScanControl, EnumSortControl, EnumNextControl, CleanNextControl,
       CleanLockControl DEF Step
  <1> QED
    BY <1>1, <1>2, <1>3, ControlStart DEF Next, Destroyed

\* Control says who holds which lock.
LEMMA ControlGives ==
  ASSUME Control
  PROVE  MutualExclusion
  <1> SUFFICES ASSUME NEW t \in Threads, NEW u \in Threads, t # u, InSection(t), InSection(u),
                      LockAt(t) = LockAt(u)
               PROVE  op[t] = "search" /\ op[u] = "search"
    BY DEF MutualExclusion, LockAt
  <1>1. LockAt(t) \in 0..(n_lock - 1)
    <2>1. key[t] \in Keys
      BY DEF Control, Locals, InSection
    <2> QED
      BY <2>1, IndexIn DEF Control, LockAt
  <1> QED
    BY <1>1, FastHashAssumption DEF Control, Locked, HasLock

\* Of two threads that work on buckets of the same lock at the same time, both
\* only read: fh_insert, fh_del, fh_searchlock and the others exclude each other,
\* also after the client has changed mutexes for read/write locks, whether or
\* not an allocation fails.
THEOREM LockDiscipline == Spec => []MutualExclusion
  <1>1. Control => MutualExclusion
    BY ControlGives
  <1> QED
    BY <1>1, ControlInit, ControlNext, PTL DEF Spec

-----------------------------------------------------------------------------
(***************************************************************************)
(* What the operations do to the used slots of a chain                     *)
(***************************************************************************)
LEMMA WithSlotAt ==
  ASSUME NEW chain \in Seq(Bucket), NEW p \in Positions(chain), NEW slot \in Slot
  PROVE  LET c == WithSlot(chain, p, slot) IN
         /\ c \in Seq(Bucket) /\ Len(c) = Len(chain) /\ Positions(c) = Positions(chain)
         /\ SlotAt(c, p) = slot
         /\ \A q \in Positions(chain) : q # p => SlotAt(c, q) = SlotAt(chain, q)
         /\ \A b \in 1..Len(chain) : b # p[1] => c[b] = chain[b]
  <1> DEFINE c == WithSlot(chain, p, slot)
             v == [chain[p[1]] EXCEPT ![p[2]] = slot]
  <1>1. c \in Seq(Bucket) /\ Len(c) = Len(chain)
    BY WithSlotTyped
  <1>2. Positions(c) = Positions(chain)
    BY <1>1 DEF Positions
  <1>3. p[1] \in 1..Len(chain) /\ p[2] \in 1..BUCKET_SIZE /\ p = <<p[1], p[2]>> /\ chain[p[1]] \in Bucket
    BY SlotAtTyped
  <1>4. c = [chain EXCEPT ![p[1]] = v]
    BY DEF WithSlot
  <1>5. v \in Bucket /\ v[p[2]] = slot /\ \A j \in 1..BUCKET_SIZE : j # p[2] => v[j] = chain[p[1]][j]
    BY <1>3 DEF Bucket
  <1>6. c[p[1]] = v /\ \A b \in 1..Len(chain) : b # p[1] => c[b] = chain[b]
    <2> HIDE DEF v, c
    <2> QED
      BY <1>3, <1>4, <1>5
  <1> HIDE DEF v, c
  <1>7. SlotAt(c, p) = slot
    BY <1>5, <1>6 DEF SlotAt
  <1>8. ASSUME NEW q \in Positions(chain), q # p
        PROVE  SlotAt(c, q) = SlotAt(chain, q)
    <2>1. q[1] \in 1..Len(chain) /\ q[2] \in 1..BUCKET_SIZE /\ q = <<q[1], q[2]>>
      BY SlotAtTyped
    <2>2. q[1] # p[1] \/ q[2] # p[2]
      BY <1>3, <1>8, <2>1
    <2> QED
      BY <1>5, <1>6, <2>1, <2>2 DEF SlotAt
  <1> QED
    BY <1>1, <1>2, <1>6, <1>7, <1>8 DEF c

\* A bucket with a used slot is not empty.
LEMMA BucketUsed ==
  ASSUME NEW chain \in Seq(Bucket), NEW p \in Positions(chain), SlotAt(chain, p).mini # 0
  PROVE  chain[p[1]] # EmptyBucket
  <1>1. p[2] \in 1..BUCKET_SIZE
    BY SlotAtTyped
  <1>2. EmptyBucket[p[2]].mini = 0
    BY <1>1 DEF EmptyBucket, EmptySlot
  <1> QED
    BY <1>2 DEF SlotAt

\* A used slot changes, or an empty one is taken.
LEMMA SlotReplaced ==
  ASSUME NEW chain \in Seq(Bucket), NEW p \in Positions(chain), NEW slot \in Slot,
         slot.mini # 0,
         \A q \in Positions(chain) : SlotAt(chain, q).mini = 0 => SlotAt(chain, q) = EmptySlot,
         \A q, r \in Positions(chain) :
            SlotAt(chain, q) = SlotAt(chain, r) /\ SlotAt(chain, q).mini # 0 => q = r,
         \A b \in 1..Len(chain) : b # p[1] => chain[b] # EmptyBucket,
         slot \notin UsedIn(chain) \ {SlotAt(chain, p)}
  PROVE  LET c == WithSlot(chain, p, slot) IN
         /\ WellFormed(c) /\ UsedIn(c) = (UsedIn(chain) \ {SlotAt(chain, p)}) \cup {slot}
         /\ p \in Positions(c) /\ SlotAt(c, p) = slot
  <1> DEFINE c == WithSlot(chain, p, slot)
             old == SlotAt(chain, p)
             P == Positions(chain)
  <1>1. /\ c \in Seq(Bucket) /\ Len(c) = Len(chain) /\ Positions(c) = P /\ SlotAt(c, p) = slot
        /\ \A q \in P : q # p => SlotAt(c, q) = SlotAt(chain, q)
        /\ \A b \in 1..Len(chain) : b # p[1] => c[b] = chain[b]
    BY WithSlotAt
  <1> HIDE DEF c
  <1>2. \A q \in P : q # p => SlotAt(chain, q) # slot
    <2> SUFFICES ASSUME NEW q \in P, q # p, SlotAt(chain, q) = slot PROVE FALSE
      OBVIOUS
    <2>1. slot \in UsedIn(chain)
      BY DEF UsedIn, SlotsOf
    <2>2. slot = old
      BY <2>1
    <2> QED
      BY <2>2
  <1>3. \A q \in Positions(c) : SlotAt(c, q).mini = 0 => SlotAt(c, q) = EmptySlot
    BY <1>1
  <1>4. \A q, r \in Positions(c) : SlotAt(c, q) = SlotAt(c, r) /\ SlotAt(c, q).mini # 0 => q = r
    BY <1>1, <1>2
  <1>5. \A b \in 1..Len(c) : c[b] # EmptyBucket
    BY <1>1, BucketUsed
  <1>6. WellFormed(c)
    BY <1>3, <1>4, <1>5 DEF WellFormed
  <1>7. UsedIn(c) = (UsedIn(chain) \ {old}) \cup {slot}
    <2>1. ASSUME NEW s \in UsedIn(c) PROVE s \in (UsedIn(chain) \ {old}) \cup {slot}
      <3>1. PICK q \in P : s = SlotAt(c, q) /\ s.mini # 0
        BY <1>1 DEF UsedIn, SlotsOf
      <3>2. CASE q = p
        BY <1>1, <3>1, <3>2
      <3>3. CASE q # p
        <4>1. s = SlotAt(chain, q) /\ s \in UsedIn(chain)
          BY <1>1, <3>1, <3>3 DEF UsedIn, SlotsOf
        <4>2. s # old
          BY <3>1, <3>3, <4>1
        <4> QED
          BY <4>1, <4>2
      <3> QED
        BY <3>2, <3>3
    <2>2. slot \in UsedIn(c)
      BY <1>1 DEF UsedIn, SlotsOf
    <2>3. ASSUME NEW s \in UsedIn(chain), s # old PROVE s \in UsedIn(c)
      <3>1. PICK q \in P : s = SlotAt(chain, q) /\ s.mini # 0
        BY DEF UsedIn, SlotsOf
      <3>2. q # p /\ SlotAt(c, q) = s
        BY <1>1, <2>3, <3>1
      <3> QED
        BY <1>1, <3>1, <3>2 DEF UsedIn, SlotsOf
    <2> QED
      BY <2>1, <2>2, <2>3
  <1> QED
    BY <1>1, <1>6, <1>7 DEF c

\* A reserved slot is a used one.
LEMMA ReservedTyped ==
  ASSUME NEW k \in Keys
  PROVE  ReservedSlot(k) \in Slot /\ ReservedSlot(k).mini # 0
  <1> DEFINE m == MiniHash(k)
  <1>1. m \in 0..255 /\ m # 0
    BY MiniHashIn
  <1> HIDE DEF m
  <1>2. [mini |-> m, key |-> NULL, obj |-> NULL] \in Slot
    BY <1>1 DEF Slot
  <1> QED
    BY <1>1, <1>2 DEF ReservedSlot, m

\* The reservation of a slot, where no slot is reserved yet.
LEMMA TakenSound ==
  ASSUME NEW chain \in Seq(Bucket), WellFormed(chain), NEW k \in Keys,
         ReservedSlot(k) \notin UsedIn(chain)
  PROVE  /\ WellFormed(Taken(chain, k))
         /\ UsedIn(Taken(chain, k)) = UsedIn(chain) \cup {ReservedSlot(k)}
         /\ HoleIn(chain) \in Positions(Taken(chain, k))
         /\ SlotAt(Taken(chain, k), HoleIn(chain)) = ReservedSlot(k)
  <1> DEFINE c == Extended(chain)
             p == HoleIn(chain)
             slot == [SlotAt(c, p) EXCEPT !.mini = MiniHash(k)]
  <1>1. c \in Seq(Bucket) /\ p \in Positions(c) /\ SlotAt(c, p).mini = 0
    BY ExtendedTyped DEF HolesOf
  <1>2. /\ \A q \in Positions(c) : SlotAt(c, q).mini = 0 => SlotAt(c, q) = EmptySlot
        /\ \A q, r \in Positions(c) : SlotAt(c, q) = SlotAt(c, r) /\ SlotAt(c, q).mini # 0 => q = r
        /\ \A b \in 1..Len(c) : b # p[1] => c[b] # EmptyBucket
        /\ UsedIn(c) = UsedIn(chain)
    <2>1. CASE HolesOf(chain) # {}
      BY <2>1 DEF Extended, WellFormed
    <2>2. CASE HolesOf(chain) = {}
      <3>1. c = Append(chain, EmptyBucket) /\ Len(c) = Len(chain) + 1 /\ Len(chain) \in Nat
            /\ c[Len(c)] = EmptyBucket /\ \A b \in 1..Len(chain) : c[b] = chain[b]
        BY <2>2, EmptyBucketTyped DEF Extended
      <3> HIDE DEF c
      <3>2. ASSUME NEW q \in Positions(c)
            PROVE  \/ q \in Positions(chain) /\ SlotAt(c, q) = SlotAt(chain, q) /\ SlotAt(c, q).mini # 0
                   \/ q \notin Positions(chain) /\ SlotAt(c, q) = EmptySlot /\ q[1] = Len(c)
        <4>1. q[1] \in 1..Len(c) /\ q[2] \in 1..BUCKET_SIZE /\ q = <<q[1], q[2]>>
          BY <1>1, SlotAtTyped
        <4>2. CASE q[1] = Len(c)
          <5>1. SlotAt(c, q) = EmptySlot
            BY <3>1, <4>1, <4>2 DEF SlotAt, EmptyBucket
          <5>2. q \notin Positions(chain)
            BY <3>1, <4>1, <4>2 DEF Positions
          <5> QED
            BY <4>2, <5>1, <5>2
        <4>3. CASE q[1] # Len(c)
          <5>1. q[1] \in 1..Len(chain)
            BY <3>1, <4>1, <4>3
          <5>2. q \in Positions(chain) /\ SlotAt(c, q) = SlotAt(chain, q)
            BY <3>1, <4>1, <5>1 DEF Positions, SlotAt
          <5> QED
            BY <2>2, <5>2 DEF HolesOf
        <4> QED
          BY <4>2, <4>3
      <3>3. Positions(chain) \subseteq Positions(c)
        BY <3>1 DEF Positions
      <3>4. EmptySlot.mini = 0
        BY DEF EmptySlot
      <3>5. p[1] = Len(c)
        BY <1>1, <3>2
      <3>6. \A b \in 1..Len(c) : b # p[1] => c[b] # EmptyBucket
        BY <3>1, <3>5 DEF WellFormed
      <3>7. UsedIn(c) = UsedIn(chain)
        BY <3>2, <3>3, <3>4 DEF UsedIn, SlotsOf
      <3>8. \A q \in Positions(c) : SlotAt(c, q).mini = 0 => SlotAt(c, q) = EmptySlot
        BY <3>2
      <3>9. \A q, r \in Positions(c) : SlotAt(c, q) = SlotAt(c, r) /\ SlotAt(c, q).mini # 0 => q = r
        BY <3>2, <3>4 DEF WellFormed
      <3> QED
        BY <3>6, <3>7, <3>8, <3>9
    <2> QED
      BY <2>1, <2>2
  <1>3. slot = ReservedSlot(k)
    BY <1>1, <1>2 DEF EmptySlot, ReservedSlot
  <1>4. slot \in Slot /\ slot.mini # 0
    BY <1>3, ReservedTyped
  <1>5. SlotAt(c, p) \notin UsedIn(c)
    BY <1>1 DEF UsedIn
  <1>6. Taken(chain, k) = WithSlot(c, p, slot)
    BY DEF Taken
  <1> HIDE DEF c, p, slot
  <1>7. /\ WellFormed(WithSlot(c, p, slot))
        /\ UsedIn(WithSlot(c, p, slot)) = (UsedIn(c) \ {SlotAt(c, p)}) \cup {slot}
        /\ p \in Positions(WithSlot(c, p, slot)) /\ SlotAt(WithSlot(c, p, slot), p) = slot
    BY <1>1, <1>2, <1>3, <1>4, SlotReplaced
  <1> QED
    BY <1>2, <1>3, <1>5, <1>6, <1>7 DEF p

\* A bucket that has become empty is taken out of the chain.
LEMMA TrimmedSound ==
  ASSUME NEW chain \in Seq(Bucket), NEW b \in 1..Len(chain),
         \A q \in Positions(chain) : SlotAt(chain, q).mini = 0 => SlotAt(chain, q) = EmptySlot,
         \A q, r \in Positions(chain) :
            SlotAt(chain, q) = SlotAt(chain, r) /\ SlotAt(chain, q).mini # 0 => q = r,
         \A c \in 1..Len(chain) : c # b => chain[c] # EmptyBucket
  PROVE  WellFormed(Trimmed(chain, b)) /\ UsedIn(Trimmed(chain, b)) = UsedIn(chain)
  <1>1. CASE chain[b] # EmptyBucket
    BY <1>1 DEF Trimmed, WellFormed
  <1>2. CASE chain[b] = EmptyBucket
    <2> DEFINE c == RemoveAt(chain, b)
               up(q) == IF q[1] < b THEN q ELSE <<q[1] + 1, q[2]>>
    <2>1. /\ c \in Seq(Bucket) /\ Len(c) = Len(chain) - 1 /\ Trimmed(chain, b) = c
          /\ \A a \in 1..Len(c) : c[a] = IF a < b THEN chain[a] ELSE chain[a + 1]
      <3> DEFINE l == SubSeq(chain, 1, b - 1)
                 r == SubSeq(chain, b + 1, Len(chain))
      <3>1. l \in Seq(Bucket) /\ Len(l) = b - 1 /\ \A a \in 1..(b - 1) : l[a] = chain[a]
        OBVIOUS
      <3>2. /\ r \in Seq(Bucket) /\ Len(r) = Len(chain) - b
            /\ \A a \in 1..(Len(chain) - b) : r[a] = chain[b + a]
        OBVIOUS
      <3>3. c = l \o r /\ Trimmed(chain, b) = c
        BY <1>2 DEF RemoveAt, Trimmed
      <3> HIDE DEF c, l, r
      <3>4. c \in Seq(Bucket) /\ Len(c) = Len(chain) - 1
        <4>0. l \in Seq(Bucket) /\ r \in Seq(Bucket)
          BY <3>1, <3>2
        <4>1. l \o r \in Seq(Bucket) /\ Len(l \o r) = Len(l) + Len(r)
          BY <4>0
        <4>2. (b - 1) + (Len(chain) - b) = Len(chain) - 1
          OBVIOUS
        <4> QED
          BY <3>1, <3>2, <3>3, <4>1, <4>2
      <3>5. ASSUME NEW a \in 1..Len(c)
            PROVE  c[a] = IF a < b THEN chain[a] ELSE chain[a + 1]
        <4>1. CASE a < b
          BY <3>1, <3>2, <3>3, <3>4, <4>1
        <4>2. CASE ~(a < b)
          <5>1. c[a] = r[a - (b - 1)]
            BY <3>1, <3>2, <3>3, <3>4, <4>2
          <5>2. a - (b - 1) \in 1..(Len(chain) - b) /\ b + (a - (b - 1)) = a + 1
            BY <3>4, <4>2
          <5> QED
            BY <3>2, <4>2, <5>1, <5>2
        <4> QED
          BY <4>1, <4>2
      <3> QED
        BY <3>3, <3>4, <3>5
    <2> HIDE DEF c
    <2>2. ASSUME NEW q \in Positions(c)
          PROVE  up(q) \in Positions(chain) /\ SlotAt(c, q) = SlotAt(chain, up(q))
      <3>1. q[1] \in 1..Len(c) /\ q[2] \in 1..BUCKET_SIZE /\ q = <<q[1], q[2]>>
        BY <2>1, SlotAtTyped
      <3>2. CASE q[1] < b
        <4>1. q[1] \in 1..Len(chain)
          BY <2>1, <3>1, <3>2
        <4> QED
          BY <2>1, <3>1, <3>2, <4>1 DEF Positions, SlotAt
      <3>3. CASE ~(q[1] < b)
        <4> DEFINE r == <<q[1] + 1, q[2]>>
        <4>1. r[1] \in 1..Len(chain) /\ r[1] = q[1] + 1 /\ r[2] = q[2] /\ r = up(q)
          BY <2>1, <3>1, <3>3
        <4> QED
          BY <2>1, <3>1, <3>3, <4>1 DEF Positions, SlotAt
      <3> QED
        BY <3>2, <3>3
    <2>3. \A q, r \in Positions(c) : up(q) = up(r) => q = r
      <3> SUFFICES ASSUME NEW q \in Positions(c), NEW r \in Positions(c), up(q) = up(r)
                   PROVE  q = r
        OBVIOUS
      <3>1. /\ q[1] \in 1..Len(c) /\ q = <<q[1], q[2]>>
            /\ r[1] \in 1..Len(c) /\ r = <<r[1], r[2]>>
        BY <2>1, SlotAtTyped
      <3>2. up(q)[1] = up(r)[1] /\ up(q)[2] = up(r)[2]
        OBVIOUS
      <3>3. /\ up(q)[1] = IF q[1] < b THEN q[1] ELSE q[1] + 1
            /\ up(r)[1] = IF r[1] < b THEN r[1] ELSE r[1] + 1
            /\ up(q)[2] = q[2] /\ up(r)[2] = r[2]
        OBVIOUS
      <3> HIDE DEF up
      <3>4. q[1] = r[1] /\ q[2] = r[2]
        BY <2>1, <3>1, <3>2, <3>3
      <3> QED
        BY <3>1, <3>4
    <2>4. ASSUME NEW q \in Positions(chain), SlotAt(chain, q).mini # 0
          PROVE  \E r \in Positions(c) : up(r) = q
      <3>1. q[1] \in 1..Len(chain) /\ q[2] \in 1..BUCKET_SIZE /\ q = <<q[1], q[2]>>
        BY SlotAtTyped
      <3>2. q[1] # b
        BY <1>2, <2>4, BucketUsed
      <3>3. CASE q[1] < b
        <4>1. q[1] \in 1..Len(c)
          BY <2>1, <3>1, <3>3
        <4>2. q \in Positions(c)
          BY <3>1, <4>1 DEF Positions
        <4> QED
          BY <3>3, <4>2
      <3>4. CASE q[1] > b
        <4> DEFINE r == <<q[1] - 1, q[2]>>
        <4>1. r[1] \in 1..Len(c) /\ r[2] \in 1..BUCKET_SIZE /\ r[1] = q[1] - 1 /\ r[2] = q[2] /\ ~(r[1] < b)
          BY <2>1, <3>1, <3>4
        <4>2. r \in Positions(c)
          BY <4>1 DEF Positions
        <4>3. up(r) = <<r[1] + 1, r[2]>>
          BY <4>1
        <4>4. up(r) = q
          BY <3>1, <4>1, <4>3
        <4> QED
          BY <4>2, <4>4
      <3> QED
        BY <3>1, <3>2, <3>3, <3>4
    <2> HIDE DEF up
    <2>5. \A q \in Positions(c) : SlotAt(c, q).mini = 0 => SlotAt(c, q) = EmptySlot
      BY <2>2
    <2>6. \A q, r \in Positions(c) : SlotAt(c, q) = SlotAt(c, r) /\ SlotAt(c, q).mini # 0 => q = r
      BY <2>2, <2>3
    <2>7. \A a \in 1..Len(c) : c[a] # EmptyBucket
      BY <2>1
    <2>8. UsedIn(c) = UsedIn(chain)
      <3>1. ASSUME NEW s \in UsedIn(c) PROVE s \in UsedIn(chain)
        BY <2>2 DEF UsedIn, SlotsOf
      <3>2. ASSUME NEW s \in UsedIn(chain) PROVE s \in UsedIn(c)
        BY <2>2, <2>4 DEF UsedIn, SlotsOf
      <3> QED
        BY <3>1, <3>2
    <2> QED
      BY <2>1, <2>5, <2>6, <2>7, <2>8 DEF WellFormed
  <1> QED
    BY <1>1, <1>2

\* The removal of a slot.
LEMMA UnlinkedSound ==
  ASSUME NEW chain \in Seq(Bucket), WellFormed(chain), NEW k, FoundAt(chain, k) # {},
         SlotAt(chain, First(FoundAt(chain, k))).mini # 0
  PROVE  /\ WellFormed(Unlinked(chain, k))
         /\ UsedIn(Unlinked(chain, k)) = UsedIn(chain) \ {SlotAt(chain, First(FoundAt(chain, k)))}
  <1> DEFINE p == First(FoundAt(chain, k))
             c == WithSlot(chain, p, EmptySlot)
             old == SlotAt(chain, p)
  <1>1. p \in Positions(chain) /\ p[1] \in 1..Len(chain) /\ old.mini # 0
    BY FoundIn, SlotAtTyped
  <1>2. /\ c \in Seq(Bucket) /\ Len(c) = Len(chain) /\ Positions(c) = Positions(chain)
        /\ SlotAt(c, p) = EmptySlot /\ EmptySlot.mini = 0
        /\ \A q \in Positions(chain) : q # p => SlotAt(c, q) = SlotAt(chain, q)
        /\ \A b \in 1..Len(chain) : b # p[1] => c[b] = chain[b]
    <2> HIDE DEF p
    <2>1. EmptySlot.mini = 0
      BY DEF EmptySlot
    <2> QED
      BY <1>1, <2>1, WithSlotAt, EmptyBucketTyped
  <1>3. Unlinked(chain, k) = Trimmed(c, p[1])
    BY DEF Unlinked
  <1> HIDE DEF p, c
  <1>4. \A q \in Positions(c) : SlotAt(c, q).mini = 0 => SlotAt(c, q) = EmptySlot
    BY <1>2 DEF WellFormed
  <1>5. \A q, r \in Positions(c) : SlotAt(c, q) = SlotAt(c, r) /\ SlotAt(c, q).mini # 0 => q = r
    BY <1>2 DEF WellFormed
  <1>6. \A b \in 1..Len(c) : b # p[1] => c[b] # EmptyBucket
    BY <1>2 DEF WellFormed
  <1>7. UsedIn(c) = UsedIn(chain) \ {old}
    <2>1. ASSUME NEW s \in UsedIn(c) PROVE s \in UsedIn(chain) \ {old}
      <3>1. PICK q \in Positions(chain) : s = SlotAt(c, q) /\ s.mini # 0
        BY <1>2 DEF UsedIn, SlotsOf
      <3>2. q # p /\ s = SlotAt(chain, q)
        BY <1>2, <3>1
      <3>3. s # old
        BY <1>1, <3>1, <3>2 DEF WellFormed
      <3> QED
        BY <3>1, <3>2, <3>3 DEF UsedIn, SlotsOf
    <2>2. ASSUME NEW s \in UsedIn(chain), s # old PROVE s \in UsedIn(c)
      <3>1. PICK q \in Positions(chain) : s = SlotAt(chain, q) /\ s.mini # 0
        BY DEF UsedIn, SlotsOf
      <3>2. SlotAt(c, q) = s
        BY <1>2, <2>2, <3>1
      <3> QED
        BY <1>2, <3>1, <3>2 DEF UsedIn, SlotsOf
    <2> QED
      BY <2>1, <2>2
  <1>8. WellFormed(Trimmed(c, p[1])) /\ UsedIn(Trimmed(c, p[1])) = UsedIn(c)
    BY <1>1, <1>2, <1>4, <1>5, <1>6, TrimmedSound
  <1> QED
    BY <1>3, <1>7, <1>8 DEF p

-----------------------------------------------------------------------------
(***************************************************************************)
(* The table: its slots, its keys and the strings of the heap              *)
(***************************************************************************)
LEMMA TextTyped ==
  ASSUME Types
  PROVE  /\ Text(NULL) = NULL /\ \A k \in Keys : Text(k) = k /\ k # NULL
         /\ \A p \in KeyPtrs : Text(p) \in Keys \cup {NULL}
  BY FastHashAssumption DEF Types, Text, KeyPtrs

\* The used slots of a chain have their types.
LEMMA UsedTyped ==
  ASSUME Types, NEW i \in Chains
  PROVE  /\ hash_table[i] \in Seq(Bucket) /\ UsedAt(i) \subseteq Slot
         /\ \A s \in UsedAt(i) : s.key \in KeyPtrs /\ s.mini # 0
  <1>1. hash_table[i] \in Seq(Bucket)
    BY DEF Types, Chains
  <1>2. UsedAt(i) \subseteq Slot
    BY <1>1, SlotAtTyped DEF UsedAt, UsedIn, SlotsOf
  <1>3. \A s \in UsedAt(i) : s.key \in KeyPtrs
    BY <1>2 DEF Slot, KeyPtrs
  <1> QED
    BY <1>1, <1>2, <1>3 DEF UsedAt, UsedIn

\* The slot of an entry is found by the mini hash and the text of its key, and
\* nothing else is.
LEMMA FoundUsed ==
  ASSUME Control, TableSound, NEW k \in Keys
  PROVE  LET i == Index(k)
             found == FoundAt(hash_table[i], k)
             s == SlotAt(hash_table[i], First(found))
         IN  /\ found # {} <=> \E r \in UsedAt(i) : Text(r.key) = k
             /\ found # {} => /\ First(found) \in Positions(hash_table[i])
                              /\ s \in UsedAt(i) /\ s.mini # 0 /\ s.key # NULL /\ Text(s.key) = k
                              /\ \A r \in UsedAt(i) : Text(r.key) = k => r = s
             /\ k \in Present <=> found # {}
  <1> DEFINE i == Index(k)
             chain == hash_table[i]
             found == FoundAt(chain, k)
             s == SlotAt(chain, First(found))
  <1>0. Types
    BY DEF Control
  <1>1. i \in Chains /\ chain \in Seq(Bucket) /\ MiniHash(k) # 0 /\ k # NULL /\ Text(NULL) = NULL
    <2>1. i \in Chains
      BY <1>0, IndexIn
    <2>2. chain \in Seq(Bucket)
      BY <1>0, <2>1, UsedTyped
    <2>3. MiniHash(k) # 0
      BY MiniHashIn
    <2> QED
      BY <1>0, <2>1, <2>2, <2>3, TextTyped
  <1> HIDE DEF i
  <1>2. ASSUME NEW q \in found
        PROVE  /\ q \in Positions(chain) /\ SlotAt(chain, q) \in UsedAt(i)
               /\ SlotAt(chain, q).mini # 0 /\ Text(SlotAt(chain, q).key) = k
    <2>1. q \in Positions(chain) /\ SlotAt(chain, q).mini = MiniHash(k) /\ Text(SlotAt(chain, q).key) = k
      BY DEF FoundAt, Matches
    <2> QED
      BY <1>1, <2>1 DEF UsedAt, UsedIn, SlotsOf
  <1>3. ASSUME NEW r \in UsedAt(i), Text(r.key) = k
        PROVE  found # {} /\ r.key # NULL
    <2>1. r.key # NULL
      BY <1>1, <1>3
    <2>2. r.mini = MiniHash(k)
      BY <1>1, <1>3, <2>1 DEF TableSound, SlotSound
    <2>3. PICK q \in Positions(chain) : r = SlotAt(chain, q)
      BY DEF UsedAt, UsedIn, SlotsOf
    <2> QED
      BY <1>3, <2>1, <2>2, <2>3 DEF FoundAt, Matches
  <1>4. found # {} => First(found) \in found
    BY <1>1, FoundIn
  <1>5. found # {} => /\ First(found) \in Positions(chain) /\ s \in UsedAt(i)
                      /\ s.mini # 0 /\ Text(s.key) = k
    BY <1>2, <1>4
  <1>6. found # {} => s.key # NULL /\ \A r \in UsedAt(i) : Text(r.key) = k => r = s
    BY <1>1, <1>3, <1>5 DEF TableSound
  <1>7. found # {} <=> \E r \in UsedAt(i) : Text(r.key) = k
    BY <1>3, <1>5
  <1> QED
    BY <1>5, <1>6, <1>7 DEF Present, i

\* Nobody else fills a slot of the chain on which a thread works.
LEMMA NoOtherFill ==
  ASSUME Control, NEW t \in Threads, InSection(t)
  PROVE  \A u \in Threads \ {t} : pc[u] = "fill" => Index(key[u]) # Index(key[t])
  <1> SUFFICES ASSUME NEW u \in Threads \ {t}, pc[u] = "fill", Index(key[u]) = Index(key[t])
               PROVE  FALSE
    OBVIOUS
  <1>1. InSection(u) /\ op[u] # "search"
    BY DEF InSection, Control, Locals
  <1> QED
    BY <1>1, ControlGives DEF MutualExclusion

\* Steps that leave the table, and those that fill its slots, alone.
LEMMA TableKept ==
  ASSUME Control, TableSound, StringsInTable,
         UNCHANGED <<h_dim, hash_table, text, dont_copy>>,
         \A u \in Threads : /\ pc'[u] = "fill" <=> pc[u] = "fill"
                            /\ pc[u] = "fill" => key'[u] = key[u] /\ at'[u] = at[u]
  PROVE  TableSound' /\ StringsInTable' /\ Present' = Present
  <1>1. Chains' = Chains /\ \A k : Index(k)' = Index(k) /\ Text(k)' = Text(k)
    BY DEF Chains, Index, Text
  <1>2. \A i : UsedAt(i)' = UsedAt(i) /\ hash_table'[i] = hash_table[i]
    BY DEF UsedAt
  <1>3. ASSUME NEW i \in Chains, NEW s \in UsedAt(i)
        PROVE  SlotSound(i, s)'
    <2>1. SlotSound(i, s)
      BY DEF TableSound
    <2> QED
      BY <2>1 DEF SlotSound, Index, Text
  <1>4. ASSUME NEW u \in Threads, pc'[u] = "fill"
        PROVE  Fills(u)'
    <2>1. Fills(u) /\ key'[u] = key[u] /\ at'[u] = at[u]
      BY <1>4 DEF TableSound
    <2> QED
      BY <2>1 DEF Fills, Chain, UsedAt, Index, Text
  <1>5. TableSound'
    BY <1>1, <1>2, <1>3, <1>4 DEF TableSound
  <1>6. StringsInTable'
    BY <1>1, <1>2 DEF StringsInTable
  <1> QED
    BY <1>1, <1>2, <1>5, <1>6 DEF Present

\* A slot is reserved for the key of t.
LEMMA TableReserved ==
  ASSUME Control, TableSound, StringsInTable, NEW t \in Threads, pc[t] = "reserve", ~Duplicate(t),
         at' = [at EXCEPT ![t] = HoleIn(Chain(t))],
         hash_table' = [hash_table EXCEPT ![Index(key[t])] = Taken(Chain(t), key[t])],
         pc' = [pc EXCEPT ![t] = "fill"], UNCHANGED <<h_dim, text, dont_copy, key>>
  PROVE  TableSound' /\ StringsInTable' /\ Present' = Present
         /\ \A x \in Keys : \A d : Stored(x, d) => Stored(x, d)'
  <1> PICK k : k = key[t]
    OBVIOUS
  <1> PICK j : j = Index(k)
    OBVIOUS
  <1> DEFINE new == ReservedSlot(k)
  <1>1. k \in Keys /\ op[t] # "search" /\ InSection(t) /\ j \in Chains /\ Chain(t) \in Seq(Bucket)
    BY IndexIn, UsedTyped DEF Control, Locals, InSection, Chain
  <1>2. Text(NULL) = NULL /\ (\A x \in Keys : Text(x) = x /\ x # NULL) /\ new.key = NULL /\ new.obj = NULL
        /\ new.mini = MiniHash(k)
    BY TextTyped DEF Control, ReservedSlot
  <1>3. \A s \in UsedAt(j) : Text(s.key) # k
    BY <1>1, FoundUsed DEF Duplicate, Chain
  <1>4. \A u \in Threads \ {t} : pc[u] = "fill" => Index(key[u]) # j
    BY <1>1, NoOtherFill
  <1>5. \A s \in UsedAt(j) : s.key # NULL
    <2> SUFFICES ASSUME NEW s \in UsedAt(j), s.key = NULL PROVE FALSE
      OBVIOUS
    <2>1. SlotSound(j, s)
      BY <1>1 DEF TableSound
    <2> QED
      BY <1>4, <2>1 DEF SlotSound
  <1>6. new \notin UsedAt(j)
    BY <1>2, <1>5
  <1> HIDE DEF new
  <1>7. /\ WellFormed(Taken(Chain(t), k)) /\ UsedIn(Taken(Chain(t), k)) = UsedAt(j) \cup {new}
        /\ HoleIn(Chain(t)) \in Positions(Taken(Chain(t), k))
        /\ SlotAt(Taken(Chain(t), k), HoleIn(Chain(t))) = new
    BY <1>1, <1>6, TakenSound DEF TableSound, Chain, UsedAt, new
  <1>8. Chains' = Chains /\ \A x : Index(x)' = Index(x) /\ Text(x)' = Text(x)
    BY DEF Chains, Index, Text
  <1>9. /\ hash_table'[j] = Taken(Chain(t), k) /\ UsedAt(j)' = UsedAt(j) \cup {new}
        /\ \A i \in Chains : i # j => hash_table'[i] = hash_table[i] /\ UsedAt(i)' = UsedAt(i)
    <2>1. hash_table'[j] = Taken(Chain(t), k) /\ \A i \in Chains : i # j => hash_table'[i] = hash_table[i]
      BY <1>1 DEF Control, Types, Chains
    <2> QED
      BY <1>7, <2>1 DEF UsedAt
  <1>10. pc'[t] = "fill" /\ \A u \in Threads \ {t} : pc'[u] = pc[u] /\ at'[u] = at[u]
    BY DEF Control, Types
  <1>11. at'[t] = HoleIn(Chain(t))
    BY DEF Control, Types
  <1>12. ASSUME NEW i \in Chains, NEW s \in UsedAt(i)'
         PROVE  SlotSound(i, s)'
    <2>1. CASE s \in UsedAt(i)
      <3>1. SlotSound(i, s)
        BY <2>1 DEF TableSound
      <3>2. CASE s.key # NULL
        BY <3>1, <3>2 DEF SlotSound, Index, Text
      <3>3. CASE s.key = NULL
        <4>1. PICK u \in Threads : pc[u] = "fill" /\ Index(key[u]) = i /\ s.mini = MiniHash(key[u])
          BY <3>1, <3>3 DEF SlotSound
        <4>2. pc'[u] = "fill" /\ key'[u] = key[u]
          BY <1>10, <4>1
        <4> QED
          BY <1>8, <3>1, <3>3, <4>1, <4>2 DEF SlotSound
      <3> QED
        BY <3>2, <3>3
    <2>2. CASE s \notin UsedAt(i)
      <3>1. i = j /\ s = new
        BY <1>9, <2>2
      <3> QED
        BY <1>2, <1>8, <1>10, <3>1 DEF SlotSound
    <2> QED
      BY <2>1, <2>2
  <1>13. ASSUME NEW i \in Chains, NEW r \in UsedAt(i)', NEW s \in UsedAt(i)',
                r.key # NULL, Text(r.key) = Text(s.key)
         PROVE  r = s
    <2>1. r \in UsedAt(i)
      BY <1>2, <1>9, <1>13
    <2>2. Text(r.key) \in Keys
      BY <1>13, <2>1 DEF TableSound, SlotSound
    <2>3. s.key # NULL
      BY <1>2, <1>13, <2>2
    <2>4. s \in UsedAt(i)
      BY <1>2, <1>9, <2>3
    <2> QED
      BY <1>13, <2>1, <2>4 DEF TableSound
  <1>14. ASSUME NEW i \in Chains
         PROVE  WellFormed(hash_table'[i])
    BY <1>7, <1>9 DEF TableSound
  <1>15. ASSUME NEW u \in Threads, pc'[u] = "fill"
         PROVE  Fills(u)'
    <2>1. CASE u = t
      <3>1. Chain(t)' = Taken(Chain(t), k)
        BY <1>8, <1>9 DEF Chain
      <3>2. \A s \in UsedAt(j)' : Text(s.key) # k
        BY <1>1, <1>2, <1>3, <1>9
      <3>3. at'[t] \in Positions(Chain(t)') /\ SlotAt(Chain(t)', at'[t]) = new
        BY <1>7, <1>11, <3>1
      <3> QED
        BY <1>8, <2>1, <3>2, <3>3 DEF Fills, new
    <2>2. CASE u # t
      <3>1. Fills(u) /\ pc[u] = "fill" /\ at'[u] = at[u] /\ key[u] \in Keys /\ Index(key[u]) # j
        BY <1>4, <1>10, <1>15, <2>2 DEF TableSound, Control, Locals
      <3>2. Index(key[u]) \in Chains
        BY <3>1, IndexIn DEF Control
      <3>3. Chain(u)' = Chain(u) /\ UsedAt(Index(key[u]))' = UsedAt(Index(key[u]))
        BY <1>8, <1>9, <3>1, <3>2 DEF Chain
      <3> QED
        BY <1>8, <3>1, <3>3 DEF Fills
    <2> QED
      BY <2>1, <2>2
  <1>16. TableSound'
    BY <1>8, <1>12, <1>13, <1>14, <1>15 DEF TableSound
  <1>17. \A x \in Keys : Index(x) \in Chains
    BY IndexIn DEF Control
  <1>18. StringsInTable'
    <2>1. ASSUME NEW p \in Ptrs, text'[p] # NULL
          PROVE  \E s \in UsedAt(Index(text[p]))' : s.key = p
      <3>1. text[p] \in Keys /\ Index(text[p]) \in Chains
        BY <1>17, <2>1 DEF Control, Types
      <3>2. \E s \in UsedAt(Index(text[p])) : s.key = p
        BY <2>1 DEF StringsInTable
      <3> QED
        BY <1>8, <1>9, <3>1, <3>2
    <2> QED
      BY <1>8, <2>1 DEF StringsInTable
  <1>19. ASSUME NEW x \in Keys
         PROVE  (\E s \in UsedAt(Index(x))' : Text(s.key) = x) <=> (\E s \in UsedAt(Index(x)) : Text(s.key) = x)
    BY <1>2, <1>8, <1>9, <1>17
  <1>20. ASSUME NEW x \in Keys, NEW d, Stored(x, d)
         PROVE  Stored(x, d)'
    <2>1. PICK s \in UsedAt(Index(x)) : Text(s.key) = x /\ s.obj = d
      BY <1>20 DEF Stored
    <2>2. s \in UsedAt(Index(x))'
      BY <1>8, <1>9, <1>17, <2>1
    <2> QED
      BY <1>8, <2>1, <2>2 DEF Stored
  <1>21. Present' = Present
    BY <1>8, <1>19 DEF Present
  <1> QED
    BY <1>16, <1>18, <1>20, <1>21

\* The slot that t has reserved is filled.
LEMMA TableFilled ==
  ASSUME Control, TableSound, StringsInTable, NEW t \in Threads, pc[t] = "fill",
         NEW p \in Ptrs \cup {key[t]}, KeyCopy(t, p),
         hash_table' = [hash_table EXCEPT ![Index(key[t])] =
            WithSlot(@, at[t], [mini |-> MiniHash(key[t]), key |-> p, obj |-> block[t]])],
         pc'[t] # "fill", UNCHANGED <<h_dim, dont_copy>>,
         \A u \in Threads \ {t} : pc'[u] = pc[u] /\ key'[u] = key[u] /\ at'[u] = at[u]
  PROVE  /\ TableSound' /\ StringsInTable'
         /\ key[t] \notin Present /\ Present' = Present \cup {key[t]}
         /\ \E k, d : k = key[t] /\ d = block[t] /\ Stored(k, d)'
         /\ \A x \in Keys : \A d : Stored(x, d) => Stored(x, d)'
  <1> PICK k : k = key[t]
    OBVIOUS
  <1> PICK j : j = Index(k)
    OBVIOUS
  <1> PICK d : d = block[t]
    OBVIOUS
  <1> DEFINE new == [mini |-> MiniHash(k), key |-> p, obj |-> d]
             old == ReservedSlot(k)
             chain == hash_table[j]
  <1>0. Types
    BY DEF Control
  <1>1. k \in Keys /\ op[t] # "search" /\ InSection(t) /\ d \in Data /\ d \notin {NULL, ABSENT}
    BY FastHashAssumption DEF Control, Locals, InSection
  <1>2. j \in Chains /\ \A x \in Keys : Index(x) \in Chains
    BY <1>0, <1>1, IndexIn
  <1>3. chain \in Seq(Bucket) /\ Text(NULL) = NULL /\ (\A x \in Keys : Text(x) = x /\ x # NULL)
    BY <1>0, <1>2, UsedTyped, TextTyped
  <1>4. MiniHash(k) \in 0..255 /\ MiniHash(k) # 0
    BY <1>1, MiniHashIn
  <1>5. new \in Slot /\ new.mini # 0 /\ new.key = p /\ new.obj = d /\ new.mini = MiniHash(k) /\ p # NULL
    BY <1>1, <1>4, FastHashAssumption DEF Slot
  <1>6. at[t] \in Positions(chain) /\ SlotAt(chain, at[t]) = old /\ \A s \in UsedAt(j) : Text(s.key) # k
    BY DEF TableSound, Fills, Chain
  <1>7. Chains' = Chains /\ \A x : Index(x)' = Index(x)
    BY DEF Chains, Index
  <1>8. \A i \in Chains : \A s \in UsedAt(i) : s.key # NULL => Text(s.key) \in Keys /\ i = Index(Text(s.key))
    BY DEF TableSound, SlotSound
  <1>9. Text(p)' = k /\ \A i \in Chains : \A s \in UsedAt(i) : Text(s.key)' = Text(s.key)
    <2>1. CASE dont_copy
      <3>1. p = k /\ text' = text
        BY <2>1 DEF KeyCopy
      <3> QED
        BY <1>1, <1>3, <3>1 DEF Text
    <2>2. CASE ~dont_copy
      <3>1. p \in Ptrs /\ text[p] = NULL /\ text' = [text EXCEPT ![p] = k]
        BY <2>2 DEF KeyCopy
      <3>2. text'[p] = k /\ \A q \in Ptrs : q # p => text'[q] = text[q]
        BY <1>0, <3>1 DEF Types
      <3>3. ASSUME NEW i \in Chains, NEW s \in UsedAt(i)
            PROVE  s.key # p
        <4>1. Text(p) = NULL /\ NULL \notin Keys
          BY <3>1, FastHashAssumption DEF Text
        <4> QED
          BY <1>5, <1>8, <4>1
      <3> QED
        BY <3>1, <3>2, <3>3 DEF Text
    <2> QED
      BY <1>0, <2>1, <2>2 DEF Types
  <1>10. \A u \in Threads \ {t} : pc[u] = "fill" => Index(key[u]) # j
    BY <1>1, NoOtherFill
  <1>11. \A s \in UsedAt(j) : s.key = NULL => s = old
    <2> SUFFICES ASSUME NEW s \in UsedAt(j), s.key = NULL PROVE s = old
      OBVIOUS
    <2>1. SlotSound(j, s) /\ s \in Slot
      BY <1>0, <1>2, UsedTyped DEF TableSound
    <2>2. s.obj = NULL /\ s.mini = MiniHash(k)
      BY <1>10, <2>1 DEF SlotSound
    <2> QED
      BY <2>1, <2>2 DEF Slot, ReservedSlot
  <1>12. new \notin UsedAt(j)
    <2>1. CASE dont_copy
      BY <1>1, <1>3, <1>5, <1>6, <2>1 DEF KeyCopy
    <2>2. CASE ~dont_copy
      <3>1. Text(p) = NULL /\ NULL \notin Keys
        BY <2>2, FastHashAssumption DEF KeyCopy, Text
      <3> QED
        BY <1>2, <1>5, <1>8, <3>1
    <2> QED
      BY <2>1, <2>2
  <1> HIDE DEF new, old
  <1>13. /\ WellFormed(WithSlot(chain, at[t], new))
         /\ UsedIn(WithSlot(chain, at[t], new)) = (UsedAt(j) \ {old}) \cup {new}
    <2>1. WellFormed(chain)
      BY <1>2 DEF TableSound
    <2> QED
      BY <1>3, <1>5, <1>6, <1>12, <2>1, SlotReplaced DEF WellFormed, UsedAt
  <1>14. /\ WellFormed(hash_table'[j]) /\ UsedAt(j)' = (UsedAt(j) \ {old}) \cup {new}
         /\ \A i \in Chains : i # j => hash_table'[i] = hash_table[i] /\ UsedAt(i)' = UsedAt(i)
    <2>1. hash_table'[j] = WithSlot(chain, at[t], new) /\ \A i \in Chains : i # j => hash_table'[i] = hash_table[i]
      BY <1>0, <1>2 DEF Types, Chains, new
    <2> QED
      BY <1>13, <2>1 DEF UsedAt
  <1>15. old.key = NULL
    BY DEF old, ReservedSlot
  <1>16. ASSUME NEW i \in Chains, NEW s \in UsedAt(i)'
         PROVE  SlotSound(i, s)'
    <2>1. CASE s = new /\ i = j
      BY <1>1, <1>5, <1>7, <1>9, <2>1 DEF SlotSound
    <2>2. CASE ~(s = new /\ i = j)
      <3>1. s \in UsedAt(i) /\ (i = j => s # old)
        BY <1>14, <2>2
      <3>2. SlotSound(i, s)
        BY <3>1 DEF TableSound
      <3>3. CASE s.key # NULL
        BY <1>7, <1>9, <3>1, <3>2, <3>3 DEF SlotSound
      <3>4. CASE s.key = NULL
        <4>1. PICK u \in Threads : pc[u] = "fill" /\ Index(key[u]) = i /\ s.mini = MiniHash(key[u])
          BY <3>2, <3>4 DEF SlotSound
        <4>2. i # j
          BY <1>11, <3>1, <3>4
        <4>3. pc'[u] = "fill" /\ key'[u] = key[u]
          BY <4>1, <4>2
        <4> QED
          BY <1>7, <3>2, <3>4, <4>1, <4>3 DEF SlotSound
      <3> QED
        BY <3>3, <3>4
    <2> QED
      BY <2>1, <2>2
  <1>17. ASSUME NEW i \in Chains, NEW r \in UsedAt(i)', NEW s \in UsedAt(i)',
                r.key # NULL, Text(r.key)' = Text(s.key)'
         PROVE  r = s
    <2>1. \A q \in UsedAt(i)' : (q = new /\ i = j) \/ q \in UsedAt(i)
      BY <1>14
    <2>2. CASE i = j /\ r = new
      BY <1>5, <1>6, <1>9, <1>17, <2>1, <2>2, <1>2
    <2>3. CASE i = j /\ s = new
      BY <1>5, <1>6, <1>9, <1>17, <2>1, <2>3, <1>2
    <2>4. CASE r \in UsedAt(i) /\ s \in UsedAt(i)
      BY <1>9, <1>17, <2>4 DEF TableSound
    <2> QED
      BY <2>1, <2>2, <2>3, <2>4
  <1>18. ASSUME NEW u \in Threads, pc'[u] = "fill"
         PROVE  Fills(u)'
    <2>1. u # t /\ pc[u] = "fill" /\ at'[u] = at[u] /\ key'[u] = key[u]
      BY <1>18
    <2>2. Fills(u) /\ key[u] \in Keys /\ Index(key[u]) # j
      BY <1>10, <2>1 DEF TableSound, Control, Locals
    <2>3. Index(key[u]) \in Chains
      BY <1>2, <2>2
    <2>4. Chain(u)' = Chain(u) /\ UsedAt(Index(key[u]))' = UsedAt(Index(key[u]))
      BY <1>7, <1>14, <2>1, <2>2, <2>3 DEF Chain
    <2>5. \A s \in UsedAt(Index(key[u])) : Text(s.key)' # key[u]
      BY <1>9, <2>2, <2>3 DEF Fills
    <2> QED
      BY <1>7, <2>1, <2>2, <2>4, <2>5 DEF Fills
  <1>19. TableSound'
    <2>1. \A i \in Chains : WellFormed(hash_table'[i])
      BY <1>14 DEF TableSound
    <2> QED
      BY <1>7, <1>16, <1>17, <1>18, <2>1 DEF TableSound
  <1>20. StringsInTable'
    <2>1. ASSUME NEW q \in Ptrs, text'[q] # NULL
          PROVE  \E s \in UsedAt(Index(text[q]))' : s.key = q
      <3>1. CASE q = p
        <4>1. text'[q] = k
          BY <1>9, <3>1 DEF Text
        <4>2. new \in UsedAt(j)'
          BY <1>14
        <4> QED
          BY <1>5, <1>7, <3>1, <4>1, <4>2
      <3>2. CASE q # p
        <4>1. text'[q] = text[q]
          BY <3>2, <1>0 DEF KeyCopy, Types
        <4>2. PICK s \in UsedAt(Index(text[q])) : s.key = q
          BY <2>1, <4>1 DEF StringsInTable
        <4>3. text[q] \in Keys /\ Index(text[q]) \in Chains /\ q # NULL
          BY <1>0, <1>2, <2>1, <4>1, FastHashAssumption DEF Types
        <4>4. s \in UsedAt(Index(text[q]))'
          BY <1>7, <1>14, <1>15, <4>1, <4>2, <4>3
        <4> QED
          BY <4>2, <4>4
      <3> QED
        BY <3>1, <3>2
    <2>2. dont_copy' => \A q \in Ptrs : text'[q] = NULL
      BY DEF StringsInTable, KeyCopy
    <2> QED
      BY <1>7, <2>1, <2>2 DEF StringsInTable
  <1>21. ASSUME NEW x \in Keys
         PROVE  (\E s \in UsedAt(Index(x))' : Text(s.key)' = x)
                    <=> x = k \/ (\E s \in UsedAt(Index(x)) : Text(s.key) = x)
    <2>1. Index(x) \in Chains /\ x # NULL
      BY <1>2, <1>3
    <2>2. CASE x = k
      BY <1>5, <1>7, <1>9, <1>14, <2>2
    <2>3. CASE x # k
      <3>1. ASSUME NEW s \in UsedAt(Index(x))', Text(s.key)' = x
            PROVE  s \in UsedAt(Index(x)) /\ Text(s.key) = x
        BY <1>5, <1>7, <1>9, <1>14, <2>1, <2>3, <3>1
      <3>2. ASSUME NEW s \in UsedAt(Index(x)), Text(s.key) = x
            PROVE  s \in UsedAt(Index(x))' /\ Text(s.key)' = x
        BY <1>3, <1>7, <1>9, <1>14, <1>15, <2>1, <2>3, <3>2
      <3> QED
        BY <2>3, <3>1, <3>2
    <2> QED
      BY <2>2, <2>3
  <1>22. k \notin Present
    BY <1>6 DEF Present
  <1>23. ASSUME NEW x \in Keys, NEW c, Stored(x, c)
         PROVE  Stored(x, c)'
    <2>1. PICK s \in UsedAt(Index(x)) : Text(s.key) = x /\ s.obj = c
      BY <1>23 DEF Stored
    <2>2. s.key # NULL /\ Index(x) \in Chains
      BY <1>2, <1>3, <2>1
    <2>3. s \in UsedAt(Index(x))'
      BY <1>7, <1>14, <1>15, <2>1, <2>2
    <2> QED
      BY <1>7, <1>9, <2>1, <2>2, <2>3 DEF Stored
  <1>24. Stored(k, d)'
    BY <1>5, <1>7, <1>9, <1>14 DEF Stored
  <1>25. Present' = Present \cup {k}
    BY <1>1, <1>21 DEF Present
  <1> QED
    BY <1>19, <1>20, <1>22, <1>23, <1>24, <1>25

\* The entry of the key of t is removed, and its string freed.
LEMMA TableUnlinked ==
  ASSUME Control, TableSound, StringsInTable, NEW t \in Threads, pc[t] = "remove",
         FoundAt(Chain(t), key[t]) # {},
         text' = Freed(SlotAt(Chain(t), First(FoundAt(Chain(t), key[t]))).key),
         hash_table' = [hash_table EXCEPT ![Index(key[t])] = Unlinked(Chain(t), key[t])],
         pc'[t] # "fill", UNCHANGED <<h_dim, dont_copy>>,
         \A u \in Threads \ {t} : pc'[u] = pc[u] /\ key'[u] = key[u] /\ at'[u] = at[u]
  PROVE  /\ TableSound' /\ StringsInTable'
         /\ key[t] \in Present /\ Present' = Present \ {key[t]}
         /\ \A x \in Keys \ {key[t]} : \A d : Stored(x, d) => Stored(x, d)'
  <1> PICK k : k = key[t]
    OBVIOUS
  <1> PICK j : j = Index(k)
    OBVIOUS
  <1> PICK chain : chain = hash_table[j]
    OBVIOUS
  <1> PICK old : old = SlotAt(chain, First(FoundAt(chain, k)))
    OBVIOUS
  <1>0. Types /\ Chain(t) = chain
    BY DEF Control, Chain
  <1>1. k \in Keys /\ op[t] # "search" /\ InSection(t)
    BY DEF Control, Locals, InSection, Deleting
  <1>2. j \in Chains /\ \A x \in Keys : Index(x) \in Chains
    BY <1>0, <1>1, IndexIn
  <1>3. chain \in Seq(Bucket) /\ Text(NULL) = NULL /\ (\A x \in Keys : Text(x) = x /\ x # NULL)
    BY <1>0, <1>2, UsedTyped, TextTyped
  <1>4. /\ old \in UsedAt(j) /\ old.mini # 0 /\ old.key # NULL /\ Text(old.key) = k /\ k \in Present
        /\ \A r \in UsedAt(j) : Text(r.key) = k => r = old
    BY <1>0, <1>1, FoundUsed
  <1>5. Chains' = Chains /\ \A x : Index(x)' = Index(x)
    BY DEF Chains, Index
  <1>6. WellFormed(Unlinked(chain, k)) /\ UsedIn(Unlinked(chain, k)) = UsedAt(j) \ {old}
    <2>1. WellFormed(chain)
      BY <1>2 DEF TableSound
    <2> QED
      BY <1>0, <1>3, <1>4, <2>1, UnlinkedSound DEF UsedAt
  <1>7. /\ WellFormed(hash_table'[j]) /\ UsedAt(j)' = UsedAt(j) \ {old}
        /\ \A i \in Chains : i # j => hash_table'[i] = hash_table[i] /\ UsedAt(i)' = UsedAt(i)
    <2>1. hash_table'[j] = Unlinked(chain, k) /\ \A i \in Chains : i # j => hash_table'[i] = hash_table[i]
      BY <1>0, <1>2 DEF Types, Chains
    <2> QED
      BY <1>6, <2>1 DEF UsedAt
  <1>8. \A i \in Chains : \A s \in UsedAt(i) : s.key # NULL => Text(s.key) \in Keys /\ i = Index(Text(s.key))
    BY DEF TableSound, SlotSound
  <1>9. \A i \in Chains : \A s \in UsedAt(i)' : s \in UsedAt(i) /\ s.key # old.key
    <2> SUFFICES ASSUME NEW i \in Chains, NEW s \in UsedAt(i)', s.key = old.key PROVE FALSE
      BY <1>7
    <2>1. s \in UsedAt(i) /\ Text(s.key) = k /\ i = j
      BY <1>4, <1>7, <1>8
    <2> QED
      BY <1>4, <1>7, <2>1
  <1>10. \A i \in Chains : \A s \in UsedAt(i)' : s \in UsedAt(i) /\ Text(s.key)' = Text(s.key)
    <2>1. text' = Freed(old.key)
      BY <1>0
    <2>2. \A q \in Ptrs : q # old.key => text'[q] = text[q]
      BY <1>0, <2>1 DEF Freed, Types
    <2> QED
      BY <1>9, <2>2 DEF Text
  <1>11. \A u \in Threads \ {t} : pc[u] = "fill" => Index(key[u]) # j
    BY <1>1, NoOtherFill
  <1>12. ASSUME NEW i \in Chains, NEW s \in UsedAt(i)'
         PROVE  SlotSound(i, s)'
    <2>1. SlotSound(i, s) /\ Text(s.key)' = Text(s.key)
      BY <1>10 DEF TableSound
    <2>2. CASE s.key # NULL
      BY <1>5, <2>1, <2>2 DEF SlotSound
    <2>3. CASE s.key = NULL
      <3>1. PICK u \in Threads : pc[u] = "fill" /\ Index(key[u]) = i /\ s.mini = MiniHash(key[u])
        BY <2>1, <2>3 DEF SlotSound
      <3>2. u # t /\ pc'[u] = "fill" /\ key'[u] = key[u]
        BY <3>1
      <3> QED
        BY <1>5, <2>1, <2>3, <3>1, <3>2 DEF SlotSound
    <2> QED
      BY <2>2, <2>3
  <1>13. ASSUME NEW i \in Chains, NEW r \in UsedAt(i)', NEW s \in UsedAt(i)',
                r.key # NULL, Text(r.key)' = Text(s.key)'
         PROVE  r = s
    BY <1>10, <1>13 DEF TableSound
  <1>14. ASSUME NEW u \in Threads, pc'[u] = "fill"
         PROVE  Fills(u)'
    <2>1. u # t /\ pc[u] = "fill" /\ at'[u] = at[u] /\ key'[u] = key[u]
      BY <1>14
    <2>2. Fills(u) /\ key[u] \in Keys /\ Index(key[u]) # j
      BY <1>11, <2>1 DEF TableSound, Control, Locals
    <2>3. Index(key[u]) \in Chains
      BY <1>2, <2>2
    <2>4. Chain(u)' = Chain(u) /\ UsedAt(Index(key[u]))' = UsedAt(Index(key[u]))
      BY <1>5, <1>7, <2>1, <2>2, <2>3 DEF Chain
    <2>5. \A s \in UsedAt(Index(key[u]))' : Text(s.key)' # key[u]
      <3>1. \A s \in UsedAt(Index(key[u])) : Text(s.key) # key[u]
        BY <2>2 DEF Fills
      <3>2. \A s \in UsedIn(hash_table'[Index(key[u])]) : s \in UsedAt(Index(key[u])) /\ Text(s.key)' = Text(s.key)
        BY <1>10, <2>3 DEF UsedAt
      <3>3. UsedAt(Index(key[u]))' = UsedIn(hash_table'[Index(key[u])])
        BY <1>5, <2>1 DEF UsedAt
      <3> QED
        BY <3>1, <3>2, <3>3
    <2> QED
      BY <1>5, <2>1, <2>2, <2>4, <2>5 DEF Fills
  <1>15. TableSound'
    <2>1. \A i \in Chains : WellFormed(hash_table'[i])
      BY <1>7 DEF TableSound
    <2> QED
      BY <1>5, <1>12, <1>13, <1>14, <2>1 DEF TableSound
  <1>16. StringsInTable'
    <2>1. ASSUME NEW q \in Ptrs, text'[q] # NULL
          PROVE  \E s \in UsedAt(Index(text[q]))' : s.key = q
      <3>1. text[q] = text'[q] /\ q # old.key
        <4>1. text' = Freed(old.key) /\ ~dont_copy
          BY <1>0, <2>1 DEF Freed, StringsInTable, Types
        <4> QED
          BY <1>0, <2>1, <4>1 DEF Freed, Types
      <3>2. PICK s \in UsedAt(Index(text[q])) : s.key = q
        BY <2>1, <3>1 DEF StringsInTable
      <3>3. Index(text[q]) \in Chains
        BY <1>0, <1>2, <2>1, <3>1 DEF Types
      <3> QED
        BY <1>5, <1>7, <3>1, <3>2, <3>3
    <2>2. dont_copy' => \A q \in Ptrs : text'[q] = NULL
      BY <1>0 DEF StringsInTable, Freed, Types
    <2> QED
      BY <1>5, <2>1, <2>2 DEF StringsInTable
  <1>17. ASSUME NEW x \in Keys
         PROVE  (\E s \in UsedAt(Index(x))' : Text(s.key)' = x)
                    <=> x # k /\ (\E s \in UsedAt(Index(x)) : Text(s.key) = x)
    <2>1. Index(x) \in Chains
      BY <1>2
    <2>2. UsedAt(Index(x))' = UsedIn(hash_table'[Index(x)])
      BY <1>5 DEF UsedAt
    <2>3. \A s \in UsedIn(hash_table'[Index(x)]) : s \in UsedAt(Index(x)) /\ Text(s.key)' = Text(s.key)
      BY <1>10, <2>1 DEF UsedAt
    <2>4. CASE x = k
      <3>1. UsedIn(hash_table'[Index(x)]) = UsedAt(j) \ {old}
        BY <1>7, <2>4 DEF UsedAt
      <3> QED
        BY <1>4, <2>2, <2>3, <2>4, <3>1
    <2>5. CASE x # k
      <3>1. \A s \in UsedAt(Index(x)) : Text(s.key) = x => s \in UsedIn(hash_table'[Index(x)])
        BY <1>4, <1>7, <2>1, <2>5 DEF UsedAt
      <3> QED
        BY <2>2, <2>3, <2>5, <3>1
    <2> QED
      BY <2>4, <2>5
  <1>18. ASSUME NEW x \in Keys \ {k}, NEW d, Stored(x, d)
         PROVE  Stored(x, d)'
    <2>1. PICK s \in UsedAt(Index(x)) : Text(s.key) = x /\ s.obj = d
      BY <1>18 DEF Stored
    <2>2. s # old /\ Index(x) \in Chains
      BY <1>2, <1>4, <2>1
    <2>3. s \in UsedAt(Index(x))'
      BY <1>5, <1>7, <2>1, <2>2
    <2>4. Text(s.key)' = Text(s.key)
      <3>1. PICK i : i = Index(x)
        OBVIOUS
      <3>2. i \in Chains /\ s \in UsedAt(i)'
        BY <1>5, <2>2, <2>3, <3>1
      <3> QED
        BY <1>10, <3>2
    <2> QED
      BY <2>1, <2>3, <2>4 DEF Stored
  <1>19. k \in Present /\ Present' = Present \ {k}
    BY <1>4, <1>17 DEF Present
  <1> QED
    BY <1>15, <1>16, <1>18, <1>19

\* The client changes the data of the entry that it holds.
LEMMA TableModified ==
  ASSUME Control, TableSound, StringsInTable, NEW t \in Threads, Modify(t)
  PROVE  /\ TableSound' /\ StringsInTable' /\ Present' = Present /\ key[t] \in Present
         /\ \E k : k = key[t] /\ \E d \in Data \ {NULL, ABSENT} : Stored(k, d)'
         /\ \A x \in Keys \ {key[t]} : \A d : Stored(x, d) => Stored(x, d)'
  <1> PICK k : k = key[t]
    OBVIOUS
  <1> PICK j : j = Index(k)
    OBVIOUS
  <1> PICK chain : chain = hash_table[j]
    OBVIOUS
  <1> PICK p : p = First(FoundAt(chain, k))
    OBVIOUS
  <1> PICK old : old = SlotAt(chain, p)
    OBVIOUS
  <1>0. /\ Types /\ Chain(t) = chain /\ FoundAt(chain, k) # {}
        /\ UNCHANGED <<h_dim, text, dont_copy, pc, key, at>>
    BY DEF Control, Chain, Modify, fixed, attrs, args
  <1>1. k \in Keys /\ op[t] # "search" /\ InSection(t)
    BY DEF Control, Locals, InSection, Modify
  <1>2. j \in Chains /\ \A x \in Keys : Index(x) \in Chains
    BY <1>0, <1>1, IndexIn
  <1>3. chain \in Seq(Bucket) /\ Text(NULL) = NULL
    BY <1>0, <1>2, UsedTyped, TextTyped
  <1>4. /\ old \in UsedAt(j) /\ old.mini # 0 /\ old.key # NULL /\ Text(old.key) = k /\ k \in Present
        /\ p \in Positions(chain) /\ \A r \in UsedAt(j) : Text(r.key) = k => r = old
    BY <1>0, <1>1, FoundUsed
  <1>5. PICK d \in Blocks[k] : hash_table' = [hash_table EXCEPT ![j] = WithSlot(@, p, [SlotAt(@, p) EXCEPT !.obj = d])]
    BY <1>0 DEF Modify
  <1>n. PICK new : new = [old EXCEPT !.obj = d]
    OBVIOUS
  <1>6. old \in Slot /\ d \in Data \ {NULL, ABSENT}
    BY <1>0, <1>1, <1>2, <1>4, UsedTyped, FastHashAssumption
  <1>7. new \in Slot /\ new.mini = old.mini /\ new.key = old.key /\ new.obj = d
    BY <1>6, <1>n DEF Slot
  <1>8. Chains' = Chains /\ \A x : Index(x)' = Index(x) /\ Text(x)' = Text(x)
    BY <1>0 DEF Chains, Index, Text
  <1>9. /\ WellFormed(WithSlot(chain, p, new))
        /\ UsedIn(WithSlot(chain, p, new)) = (UsedAt(j) \ {old}) \cup {new}
    <2>1. WellFormed(chain)
      BY <1>2 DEF TableSound
    <2>2. new \notin UsedAt(j) \ {old}
      BY <1>4, <1>7
    <2>3. UsedAt(j) = UsedIn(chain) /\ new.mini # 0
      BY <1>4, <1>7 DEF UsedAt
    <2>4. /\ \A q \in Positions(chain) : SlotAt(chain, q).mini = 0 => SlotAt(chain, q) = EmptySlot
          /\ \A q, r \in Positions(chain) :
                SlotAt(chain, q) = SlotAt(chain, r) /\ SlotAt(chain, q).mini # 0 => q = r
          /\ \A b \in 1..Len(chain) : b # p[1] => chain[b] # EmptyBucket
      BY <2>1 DEF WellFormed
    <2> QED
      <3>1. /\ chain \in Seq(Bucket) /\ p \in Positions(chain) /\ new \in Slot /\ new.mini # 0
            /\ new \notin UsedIn(chain) \ {SlotAt(chain, p)}
        BY <1>3, <1>4, <1>7, <2>2, <2>3
      <3>2. /\ WellFormed(WithSlot(chain, p, new))
            /\ UsedIn(WithSlot(chain, p, new)) = (UsedIn(chain) \ {SlotAt(chain, p)}) \cup {new}
        BY <2>4, <3>1, SlotReplaced
      <3> QED
        BY <2>3, <3>2
  <1>10. /\ WellFormed(hash_table'[j]) /\ UsedAt(j)' = (UsedAt(j) \ {old}) \cup {new}
         /\ \A i \in Chains : i # j => hash_table'[i] = hash_table[i] /\ UsedAt(i)' = UsedAt(i)
    <2>1. hash_table'[j] = WithSlot(chain, p, new) /\ \A i \in Chains : i # j => hash_table'[i] = hash_table[i]
      <3>1. hash_table' = [hash_table EXCEPT ![j] = WithSlot(chain, p, new)]
        BY <1>5, <1>n
      <3> QED
        BY <1>0, <1>2, <3>1 DEF Types, Chains
    <2> QED
      BY <1>9, <2>1 DEF UsedAt
  <1>11. \A i \in Chains : \A s \in UsedAt(i)' : (i = j /\ s = new) \/ s \in UsedAt(i)
    BY <1>10
  <1>12. ASSUME NEW i \in Chains, NEW s \in UsedAt(i)'
         PROVE  SlotSound(i, s)'
    <2>1. CASE i = j /\ s = new
      <3>1. SlotSound(j, old)
        BY <1>2, <1>4 DEF TableSound
      <3> QED
        BY <1>4, <1>6, <1>7, <1>8, <2>1, <3>1 DEF SlotSound
    <2>2. CASE s \in UsedAt(i)
      <3>1. SlotSound(i, s)
        BY <2>2 DEF TableSound
      <3> QED
        BY <1>0, <3>1 DEF SlotSound, Index, Text
    <2> QED
      BY <1>11, <2>1, <2>2
  <1>13. ASSUME NEW i \in Chains, NEW r \in UsedAt(i)', NEW s \in UsedAt(i)',
                r.key # NULL, Text(r.key) = Text(s.key)
         PROVE  r = s
    <2>1. CASE i = j /\ r = new
      BY <1>4, <1>7, <1>10, <1>13, <2>1
    <2>2. CASE i = j /\ s = new
      BY <1>4, <1>7, <1>10, <1>13, <2>2
    <2>3. CASE r \in UsedAt(i) /\ s \in UsedAt(i)
      BY <1>13, <2>3 DEF TableSound
    <2> QED
      BY <1>11, <2>1, <2>2, <2>3
  <1>14. ASSUME NEW u \in Threads, pc'[u] = "fill"
         PROVE  Fills(u)'
    <2>1. u # t /\ pc[u] = "fill"
      BY <1>0, <1>14 DEF Modify
    <2>2. Fills(u) /\ key[u] \in Keys /\ Index(key[u]) # j
      BY <1>1, <2>1, NoOtherFill DEF TableSound, Control, Locals
    <2>3. Index(key[u]) \in Chains
      BY <1>2, <2>2
    <2>4. Chain(u)' = Chain(u) /\ UsedAt(Index(key[u]))' = UsedAt(Index(key[u]))
      BY <1>0, <1>8, <1>10, <2>2, <2>3 DEF Chain
    <2> QED
      BY <1>0, <1>8, <2>2, <2>4 DEF Fills
  <1>15. TableSound'
    <2>1. \A i \in Chains : WellFormed(hash_table'[i])
      BY <1>10 DEF TableSound
    <2> QED
      BY <1>8, <1>12, <1>13, <1>14, <2>1 DEF TableSound
  <1>16. \A i \in Chains : \A q : (\E s \in UsedAt(i)' : s.key = q) <=> (\E s \in UsedAt(i) : s.key = q)
    <2>1. \A q : (\E s \in UsedAt(j)' : s.key = q) <=> (\E s \in UsedAt(j) : s.key = q)
      <3>1. new.key = old.key /\ old \in UsedAt(j) /\ new \in UsedAt(j)'
        BY <1>4, <1>7, <1>10
      <3>2. \A s : s # old => (s \in UsedAt(j) => s \in UsedAt(j)')
        BY <1>10
      <3>3. \A s : s # new => (s \in UsedAt(j)' => s \in UsedAt(j))
        BY <1>10
      <3> QED
        BY <3>1, <3>2, <3>3
    <2> QED
      BY <1>10, <2>1
  <1>17. StringsInTable'
    <2>1. ASSUME NEW q \in Ptrs, text[q] # NULL
          PROVE  \E s \in UsedAt(Index(text[q]))' : s.key = q
      <3>1. Index(text[q]) \in Chains
        BY <1>0, <1>2, <2>1 DEF Types
      <3> QED
        BY <1>0, <1>8, <1>16, <2>1, <3>1 DEF StringsInTable
    <2> QED
      BY <1>0, <1>8, <2>1 DEF StringsInTable
  <1>18. ASSUME NEW x \in Keys
         PROVE  (\E s \in UsedAt(Index(x))' : Text(s.key) = x) <=> (\E s \in UsedAt(Index(x)) : Text(s.key) = x)
    BY <1>2, <1>8, <1>16
  <1>19. Present' = Present
    BY <1>8, <1>18 DEF Present
  <1>20. Stored(k, d)'
    BY <1>4, <1>7, <1>8, <1>10 DEF Stored
  <1>21. ASSUME NEW x \in Keys \ {k}, NEW c, Stored(x, c)
         PROVE  Stored(x, c)'
    <2>1. PICK s \in UsedAt(Index(x)) : Text(s.key) = x /\ s.obj = c
      BY <1>21 DEF Stored
    <2>2. s # old /\ Index(x) \in Chains
      BY <1>2, <1>4, <2>1
    <2>3. s \in UsedAt(Index(x))'
      BY <1>8, <1>10, <2>1, <2>2
    <2> QED
      BY <1>8, <2>1, <2>3 DEF Stored
  <1> QED
    BY <1>4, <1>6, <1>15, <1>17, <1>19, <1>20, <1>21

-----------------------------------------------------------------------------
(***************************************************************************)
(* The counter, and the steps                                              *)
(***************************************************************************)
\* No step concerns the locals of two threads.
LEMMA StepOthers ==
  ASSUME Types, NEW t \in Threads, Start(t) \/ Hold(t) \/ Step(t)
  PROVE  Others(t) /\ UNCHANGED fixed
  <1> USE DEF Types, Others, fixed, attrs, args, Goto, Leave, LeaveHolding
  <1>1. CASE Start(t)
    BY <1>1 DEF Start, InsertCall, SearchCall, SearchLockCall, DelCall, Enter, EnumCall, SetAttr
  <1>2. CASE Hold(t)
    BY <1>2 DEF Hold, Modify, DelLockedCall, ReleaseLock
  <1>3. CASE Reserve(t) \/ Fill(t) \/ FillFails(t) \/ Count(t)
    <2>1. CASE Reserve(t)
      BY <2>1 DEF Reserve, Refuse
    <2>2. CASE Fill(t)
      BY <2>2 DEF Fill
    <2>3. CASE FillFails(t)
      BY <2>3 DEF FillFails
    <2>4. CASE Count(t)
      BY <2>4 DEF Count
    <2> QED
      BY <1>3, <2>1, <2>2, <2>3, <2>4
  <1>4. CASE Find(t) \/ Unlink(t) \/ Uncount(t)
    BY <1>4 DEF Find, Refuse, Unlink, Uncount, DelReturns
  <1>5. CASE EnumScan(t)
    BY <1>5 DEF EnumScan
  <1>6. CASE EnumSort(t) \/ EnumNext(t) \/ CleanNext(t) \/ CleanLock(t)
    BY <1>6 DEF EnumSort, EnumNext, CleanNext, CleanLock, Finished
  <1> QED
    BY <1>1, <1>2, <1>3, <1>4, <1>5, <1>6 DEF Step

\* Keys and threads are finitely many, so the counts are numbers.
LEMMA CountsTyped ==
  /\ IsFiniteSet(Present) /\ Cardinality(Present) \in Nat /\ Cardinality(Present) <= Cardinality(Keys)
  /\ IsFiniteSet(Uncounting) /\ Cardinality(Uncounting) \in Nat
  /\ Cardinality(Uncounting) <= Cardinality(Threads)
  /\ IsFiniteSet(Counting) /\ Cardinality(Counting) \in Nat
  /\ Cardinality(Counting) <= Cardinality(Threads)
  <1>1. Present \in SUBSET Keys /\ Uncounting \in SUBSET Threads /\ Counting \in SUBSET Threads
    BY DEF Present, Uncounting, Counting
  <1>2. IsFiniteSet(Keys) /\ IsFiniteSet(Threads)
    BY FastHashAssumption
  <1>3. IsFiniteSet(Present) /\ Cardinality(Present) <= Cardinality(Keys)
    BY <1>1, <1>2, FS_Subset
  <1>4. IsFiniteSet(Uncounting) /\ Cardinality(Uncounting) <= Cardinality(Threads)
    BY <1>1, <1>2, FS_Subset
  <1>5. IsFiniteSet(Counting) /\ Cardinality(Counting) <= Cardinality(Threads)
    BY <1>1, <1>2, FS_Subset
  <1> QED
    BY <1>3, <1>4, <1>5, FS_CardinalityType

\* How many calls are between the bucket and the counter after a step of t.
LEMMA CountsMove ==
  ASSUME NEW t \in Threads, \A u \in Threads \ {t} : pc'[u] = pc[u]
  PROVE  /\ (pc[t] = "count" <=> pc'[t] = "count") => Cardinality(Counting)' = Cardinality(Counting)
         /\ pc[t] = "count" /\ pc'[t] # "count" => Cardinality(Counting)' = Cardinality(Counting) - 1
         /\ pc[t] # "count" /\ pc'[t] = "count" => Cardinality(Counting)' = Cardinality(Counting) + 1
         /\ (pc[t] = "uncount" <=> pc'[t] = "uncount") => Cardinality(Uncounting)' = Cardinality(Uncounting)
         /\ pc[t] = "uncount" /\ pc'[t] # "uncount" => Cardinality(Uncounting)' = Cardinality(Uncounting) - 1
         /\ pc[t] # "uncount" /\ pc'[t] = "uncount" => Cardinality(Uncounting)' = Cardinality(Uncounting) + 1
  <1>1. (pc[t] = "count" <=> pc'[t] = "count") => Counting' = Counting
    BY DEF Counting
  <1>2. pc[t] = "count" /\ pc'[t] # "count" => t \in Counting /\ Counting' = Counting \ {t}
    BY DEF Counting
  <1>3. pc[t] # "count" /\ pc'[t] = "count" => t \notin Counting /\ Counting' = Counting \cup {t}
    BY DEF Counting
  <1>4. (pc[t] = "uncount" <=> pc'[t] = "uncount") => Uncounting' = Uncounting
    BY DEF Uncounting
  <1>5. pc[t] = "uncount" /\ pc'[t] # "uncount" => t \in Uncounting /\ Uncounting' = Uncounting \ {t}
    BY DEF Uncounting
  <1>6. pc[t] # "uncount" /\ pc'[t] = "uncount" => t \notin Uncounting /\ Uncounting' = Uncounting \cup {t}
    BY DEF Uncounting
  <1>7. /\ Cardinality(Counting \ {t}) = IF t \in Counting THEN Cardinality(Counting) - 1 ELSE Cardinality(Counting)
        /\ Cardinality(Counting \cup {t}) = IF t \in Counting THEN Cardinality(Counting) ELSE Cardinality(Counting) + 1
    BY CountsTyped, FS_RemoveElement, FS_AddElement
  <1>8. /\ Cardinality(Uncounting \ {t}) = IF t \in Uncounting THEN Cardinality(Uncounting) - 1 ELSE Cardinality(Uncounting)
        /\ Cardinality(Uncounting \cup {t}) = IF t \in Uncounting THEN Cardinality(Uncounting) ELSE Cardinality(Uncounting) + 1
    BY CountsTyped, FS_RemoveElement, FS_AddElement
  <1> QED
    BY <1>1, <1>2, <1>3, <1>4, <1>5, <1>6, <1>7, <1>8

\* The steps that neither touch the table nor count.
LEMMA KeptInv ==
  ASSUME Control, TableInv, NEW t \in Threads, Others(t),
         UNCHANGED <<h_dim, hash_table, text, dont_copy, h_elements>>,
         pc[t] \notin {"fill", "count", "uncount"}, pc'[t] \notin {"fill", "count", "uncount"}
  PROVE  TableInv'
  <1>1. \A u \in Threads : /\ pc'[u] = "fill" <=> pc[u] = "fill"
                           /\ pc[u] = "fill" => key'[u] = key[u] /\ at'[u] = at[u]
    BY DEF Others
  <1>2. TableSound' /\ StringsInTable' /\ Present' = Present
    BY <1>1, TableKept DEF TableInv
  <1>3. Cardinality(Counting)' = Cardinality(Counting) /\ Cardinality(Uncounting)' = Cardinality(Uncounting)
    BY CountsMove DEF Others
  <1>4. Cardinality(Present)' = Cardinality(Present)
    BY <1>2
  <1>5. Counted'
    BY <1>3, <1>4 DEF TableInv, Counted
  <1> QED
    BY <1>2, <1>5 DEF TableInv

\* The start of a call keeps what is known of the table.
LEMMA StartInv ==
  ASSUME Control, TableInv, NEW t \in Threads, Start(t)
  PROVE  TableInv'
  <1>1. Others(t) /\ pc[t] = "idle" /\ pc'[t] \notin {"fill", "count", "uncount"}
        /\ UNCHANGED <<h_dim, hash_table, text, h_elements>>
    <2>1. Others(t) /\ UNCHANGED h_dim
      BY StepOthers DEF Control, fixed
    <2>2. pc[t] = "idle" /\ UNCHANGED <<hash_table, text, h_elements>>
      BY DEF Start, InsertCall, SearchCall, SearchLockCall, DelCall, Enter, EnumCall, SetAttr, table
    <2>3. pc'[t] \notin {"fill", "count", "uncount"}
      BY <2>2 DEF Start, InsertCall, SearchCall, SearchLockCall, DelCall, Enter, EnumCall, SetAttr,
                  Goto, Control, Types
    <2> QED
      BY <2>1, <2>2, <2>3
  <1>2. CASE dont_copy' = dont_copy
    BY <1>1, <1>2, KeptInv
  <1>3. CASE dont_copy' # dont_copy
    <2>1. /\ SetAttr(t) /\ ~(h_elements > 0) /\ MayCall(t, "setattr")
          /\ UNCHANGED <<pc, key, at>>
      BY <1>3 DEF Start, InsertCall, SearchCall, SearchLockCall, DelCall, Enter, EnumCall, SetAttr,
                  attrs, args, MayStopCopying
    <2>2. \A u \in Threads : pc[u] = "idle"
      BY <1>1, <2>1 DEF MayCall, Alone
    <2>3. Counting = {} /\ Uncounting = {} /\ Counting' = Counting /\ Uncounting' = Uncounting
      BY <2>1, <2>2 DEF Counting, Uncounting
    <2>4. Cardinality(Present) = 0
      BY <2>1, <2>3, FS_EmptySet, CountsTyped DEF TableInv, Counted, Control, Types
    <2>5. Present = {}
      BY <2>4, FS_EmptySet, CountsTyped
    <2>6. \A p \in Ptrs : text[p] = NULL
      <3> SUFFICES ASSUME NEW p \in Ptrs, text[p] # NULL PROVE FALSE
        OBVIOUS
      <3>1. PICK s \in UsedAt(Index(text[p])) : s.key = p
        BY DEF TableInv, StringsInTable
      <3>2. text[p] \in Keys /\ Text(s.key) = text[p]
        BY <3>1 DEF Text, Control, Types
      <3> QED
        BY <2>5, <3>2 DEF Present
    <2>7. StringsInTable'
      BY <1>1, <2>6 DEF StringsInTable
    <2>8. Chains' = Chains /\ (\A x : Index(x)' = Index(x) /\ Text(x)' = Text(x))
          /\ \A i : UsedAt(i)' = UsedAt(i) /\ hash_table'[i] = hash_table[i]
      BY <1>1 DEF Chains, Index, Text, UsedAt
    <2>9. \A i, s : SlotSound(i, s)' <=> SlotSound(i, s)
      BY <2>1, <2>8 DEF SlotSound
    <2>10. TableSound'
      BY <2>1, <2>2, <2>8, <2>9 DEF TableInv, TableSound
    <2>11. Present' = Present
      BY <2>8 DEF Present
    <2>12. Counted'
      BY <1>1, <2>3, <2>11 DEF TableInv, Counted
    <2> QED
      BY <2>7, <2>10, <2>12 DEF TableInv
  <1> QED
    BY <1>2, <1>3

\* The steps of a caller that holds a lock keep what is known of the table.
LEMMA HoldInv ==
  ASSUME Control, TableInv, NEW t \in Threads, Hold(t)
  PROVE  TableInv'
  <1>1. Others(t) /\ UNCHANGED h_dim
    BY StepOthers DEF Control, fixed
  <1>2. CASE Modify(t)
    <2>1. TableSound' /\ StringsInTable' /\ Present' = Present
      BY <1>2, TableModified DEF TableInv
    <2>2. UNCHANGED <<pc, h_elements>>
      BY <1>2 DEF Modify
    <2>3. Counting' = Counting /\ Uncounting' = Uncounting
      BY <2>2 DEF Counting, Uncounting
    <2>4. Counted'
      BY <2>1, <2>2, <2>3 DEF TableInv, Counted
    <2> QED
      BY <2>1, <2>4 DEF TableInv
  <1>3. CASE DelLockedCall(t) \/ ReleaseLock(t)
    <2>1. /\ UNCHANGED <<hash_table, text, dont_copy, h_elements>>
          /\ pc[t] = "held" /\ pc'[t] \in {"remove", "idle"}
      BY <1>3 DEF DelLockedCall, ReleaseLock, Leave, Goto, table, attrs, Control, Types
    <2> QED
      BY <1>1, <2>1, KeptInv
  <1> QED
    BY <1>2, <1>3 DEF Hold

\* Taking a slot keeps what is known of the table.
LEMMA ReserveInv ==
  ASSUME Control, TableInv, NEW t \in Threads, Reserve(t)
  PROVE  TableInv'
  <1>1. Others(t) /\ UNCHANGED <<h_dim, text, dont_copy, h_elements>> /\ pc[t] = "reserve"
    BY ReserveCases, StepOthers DEF Control, Step
  <1>2. CASE \E code : Refuse(t, code)
    <2>1. UNCHANGED hash_table /\ pc'[t] = "idle"
      BY <1>2 DEF Refuse, Leave, Goto, Control, Types
    <2> QED
      BY <1>1, <2>1, KeptInv
  <1>3. CASE /\ ~Duplicate(t)
             /\ at' = [at EXCEPT ![t] = HoleIn(Chain(t))]
             /\ hash_table' = [hash_table EXCEPT ![Index(key[t])] = Taken(Chain(t), key[t])]
             /\ pc' = [pc EXCEPT ![t] = "fill"] /\ UNCHANGED key
    <2>1. TableSound' /\ StringsInTable' /\ Present' = Present
      BY <1>1, <1>3, TableReserved DEF TableInv
    <2>2. pc'[t] = "fill"
      BY <1>3 DEF Control, Types
    <2>3. Cardinality(Counting)' = Cardinality(Counting) /\ Cardinality(Uncounting)' = Cardinality(Uncounting)
      BY <1>1, <2>2, CountsMove DEF Others
    <2>4. Counted'
      BY <1>1, <2>1, <2>3 DEF TableInv, Counted
    <2> QED
      BY <2>1, <2>4 DEF TableInv
  <1> QED
    BY <1>2, <1>3, ReserveCases

\* Filling a slot keeps what is known of the table.
LEMMA FillInv ==
  ASSUME Control, TableInv, NEW t \in Threads, Fill(t)
  PROVE  TableInv'
  <1>1. Others(t) /\ UNCHANGED <<h_dim, dont_copy>> /\ pc[t] = "fill"
    BY StepOthers DEF Control, fixed, Fill, Step, attrs
  <1>2. PICK p \in Ptrs \cup {key[t]} :
           /\ KeyCopy(t, p)
           /\ hash_table' = [hash_table EXCEPT ![Index(key[t])] =
                  WithSlot(@, at[t], [mini |-> MiniHash(key[t]), key |-> p, obj |-> block[t]])]
    BY DEF Fill
  <1>3. \/ pc'[t] = "count" /\ h_elements' = h_elements
        \/ pc'[t] = "held" /\ h_elements' = h_elements + 1
    BY DEF Fill, LeaveHolding, Goto, Control, Types
  <1>4. TableSound' /\ StringsInTable' /\ key[t] \notin Present /\ Present' = Present \cup {key[t]}
    BY <1>1, <1>2, <1>3, TableFilled DEF TableInv, Others
  <1>5. Cardinality(Present)' = Cardinality(Present) + 1
    BY <1>4, CountsTyped, FS_AddElement
  <1>6. h_elements \in Int
    BY DEF Control, Types
  <1>7. Counted'
    <2>1. CASE pc'[t] = "count" /\ h_elements' = h_elements
      <3>1. Cardinality(Counting)' = Cardinality(Counting) + 1 /\ Cardinality(Uncounting)' = Cardinality(Uncounting)
        BY <1>1, <2>1, CountsMove DEF Others
      <3> QED
        BY <1>5, <1>6, <2>1, <3>1, CountsTyped DEF TableInv, Counted
    <2>2. CASE pc'[t] = "held" /\ h_elements' = h_elements + 1
      <3>1. Cardinality(Counting)' = Cardinality(Counting) /\ Cardinality(Uncounting)' = Cardinality(Uncounting)
        BY <1>1, <2>2, CountsMove DEF Others
      <3> QED
        BY <1>5, <1>6, <2>2, <3>1, CountsTyped DEF TableInv, Counted
    <2> QED
      BY <1>3, <2>1, <2>2
  <1> QED
    BY <1>4, <1>7 DEF TableInv

\* Counting an element in or out keeps what is known of the table.
LEMMA CountInv ==
  ASSUME Control, TableInv, NEW t \in Threads, Count(t) \/ Uncount(t)
  PROVE  TableInv'
  <1>1. Others(t) /\ UNCHANGED <<h_dim, dont_copy, hash_table, text>> /\ pc[t] \in {"count", "uncount"}
    BY StepOthers DEF Control, fixed, Count, Uncount, Step, attrs, table
  <1>2. pc'[t] \notin {"count", "uncount", "fill"}
    BY DEF Count, Uncount, DelReturns, Leave, LeaveHolding, Goto, Control, Types
  <1>3. \A u \in Threads : /\ pc'[u] = "fill" <=> pc[u] = "fill"
                           /\ pc[u] = "fill" => key'[u] = key[u] /\ at'[u] = at[u]
    BY <1>1, <1>2 DEF Others
  <1>4. TableSound' /\ StringsInTable' /\ Present' = Present
    BY <1>1, <1>3, TableKept DEF TableInv
  <1>5. h_elements \in Int /\ Cardinality(Present)' = Cardinality(Present)
    BY <1>4 DEF Control, Types
  <1>6. Counted'
    <2>1. CASE Count(t)
      <3>1. pc[t] = "count" /\ h_elements' = h_elements + 1
        BY <2>1 DEF Count
      <3>2. Cardinality(Counting)' = Cardinality(Counting) - 1 /\ Cardinality(Uncounting)' = Cardinality(Uncounting)
        BY <1>1, <1>2, <3>1, CountsMove DEF Others
      <3> QED
        BY <1>5, <3>1, <3>2, CountsTyped DEF TableInv, Counted
    <2>2. CASE Uncount(t)
      <3>1. pc[t] = "uncount" /\ h_elements' = h_elements - 1
        BY <2>2 DEF Uncount, Uncounted
      <3>2. Cardinality(Counting)' = Cardinality(Counting) /\ Cardinality(Uncounting)' = Cardinality(Uncounting) - 1
        BY <1>1, <1>2, <3>1, CountsMove DEF Others
      <3> QED
        BY <1>5, <3>1, <3>2, CountsTyped DEF TableInv, Counted
    <2> QED
      BY <2>1, <2>2
  <1> QED
    BY <1>4, <1>6 DEF TableInv

\* Emptying a slot keeps what is known of the table.
LEMMA UnlinkInv ==
  ASSUME Control, TableInv, NEW t \in Threads, Unlink(t)
  PROVE  TableInv'
  <1>1. Others(t) /\ UNCHANGED <<h_dim, dont_copy, h_elements>> /\ pc[t] = "remove"
    BY UnlinkCases, StepOthers DEF Control, Step
  <1>2. CASE DelReturns(t) /\ UNCHANGED <<hash_table, text>>
    <2>1. pc'[t] \in {"idle", "held", "next"}
      BY <1>2 DEF DelReturns, Leave, LeaveHolding, Goto, Control, Types
    <2> QED
      BY <1>1, <1>2, <2>1, KeptInv
  <1>3. CASE /\ FoundAt(Chain(t), key[t]) # {}
             /\ text' = Freed(SlotAt(Chain(t), First(FoundAt(Chain(t), key[t]))).key)
             /\ hash_table' = [hash_table EXCEPT ![Index(key[t])] = Unlinked(Chain(t), key[t])]
             /\ pc' = [pc EXCEPT ![t] = "uncount"]
    <2>1. pc'[t] = "uncount"
      BY <1>3 DEF Control, Types
    <2>2. TableSound' /\ StringsInTable' /\ key[t] \in Present /\ Present' = Present \ {key[t]}
      BY <1>1, <1>3, <2>1, TableUnlinked DEF TableInv, Others
    <2>3. Cardinality(Present)' = Cardinality(Present) - 1
      BY <2>2, CountsTyped, FS_RemoveElement
    <2>4. Cardinality(Counting)' = Cardinality(Counting) /\ Cardinality(Uncounting)' = Cardinality(Uncounting) + 1
      BY <1>1, <2>1, CountsMove DEF Others
    <2>5. h_elements \in Int
      BY DEF Control, Types
    <2>6. Counted'
      BY <1>1, <2>3, <2>4, <2>5, CountsTyped DEF TableInv, Counted
    <2> QED
      BY <2>2, <2>6 DEF TableInv
  <1> QED
    BY <1>2, <1>3, UnlinkCases

\* A search, and the steps of an enumerator.
LEMMA WalkInv ==
  ASSUME Control, TableInv, NEW t \in Threads,
         Find(t) \/ EnumScan(t) \/ EnumSort(t) \/ EnumNext(t) \/ CleanNext(t) \/ CleanLock(t)
  PROVE  TableInv'
  <1>1. Others(t) /\ UNCHANGED h_dim
    BY StepOthers DEF Control, fixed, Step
  <1>2. UNCHANGED <<hash_table, text, dont_copy, h_elements>>
    BY DEF Find, Refuse, EnumScan, EnumSort, EnumNext, CleanNext, CleanLock, table, attrs
  <1>3. pc[t] \in {"find", "scan", "sort", "have", "next", "wlock"}
    BY DEF Find, EnumScan, EnumSort, EnumNext, CleanNext, CleanLock
  <1>4. pc'[t] \notin {"fill", "count", "uncount"}
    <2>1. CASE Find(t)
      BY <2>1 DEF Find, Refuse, Leave, LeaveHolding, Goto, Control, Types
    <2>2. CASE EnumScan(t)
      BY <2>2 DEF EnumScan, Goto, Control, Types
    <2>3. CASE EnumSort(t) \/ CleanLock(t)
      BY <2>3 DEF EnumSort, CleanLock, Goto, Control, Types
    <2>4. CASE EnumNext(t) \/ CleanNext(t)
      BY <1>3, <2>4 DEF EnumNext, CleanNext, Finished, Leave, Goto, Control, Types
    <2> QED
      BY <2>1, <2>2, <2>3, <2>4
  <1> QED
    BY <1>1, <1>2, <1>3, <1>4, KeptInv

\* A new table satisfies the invariant.
LEMMA HashInit == Init => HashInv
  <1> SUFFICES ASSUME Init PROVE HashInv
    OBVIOUS
  <1>1. Control
    BY ControlInit
  <1>2. Chains = 0..(h_dim - 1) /\ \A i \in Chains : hash_table[i] = <<>>
    BY DEF Init, Chains
  <1>3. \A i \in Chains : Positions(hash_table[i]) = {} /\ UsedAt(i) = {}
    BY <1>2 DEF Positions, UsedAt, UsedIn, SlotsOf
  <1>4. \A t \in Threads : pc[t] = "idle"
    BY DEF Init
  <1>5. TableSound
    BY <1>2, <1>3, <1>4 DEF TableSound, WellFormed
  <1>6. StringsInTable
    BY DEF Init, StringsInTable
  <1>7. Present = {}
    BY <1>1, <1>3, IndexIn DEF Present, Control
  <1>8. Uncounting = {} /\ Counting = {}
    BY <1>4 DEF Uncounting, Counting
  <1>9. h_elements = 0
    BY DEF Init
  <1>10. Counted
    BY <1>7, <1>8, <1>9, FS_EmptySet DEF Counted
  <1> QED
    BY <1>1, <1>5, <1>6, <1>10 DEF HashInv, TableInv

\* Every step keeps the invariant.
LEMMA HashNext == HashInv /\ [Next]_vars => HashInv'
  <1> SUFFICES ASSUME HashInv, [Next]_vars PROVE HashInv'
    OBVIOUS
  <1>1. Control'
    BY ControlNext DEF HashInv
  <1> SUFFICES ASSUME ~no_memory' PROVE TableInv'
    BY <1>1 DEF HashInv
  <1>2. CASE UNCHANGED vars
    <2>1. UNCHANGED <<h_dim, hash_table, text, dont_copy, h_elements, no_memory, pc, key, at>>
      BY <1>2 DEF vars, fixed, attrs, table, args
    <2>2. TableInv
      BY <2>1 DEF HashInv
    <2>3. TableSound' /\ StringsInTable' /\ Present' = Present
      BY <2>1, <2>2, TableKept DEF TableInv, HashInv
    <2>4. Counted'
      BY <2>1, <2>2, <2>3 DEF TableInv, Counted, Counting, Uncounting
    <2> QED
      BY <2>3, <2>4 DEF TableInv
  <1>3. ASSUME NEW t \in Threads, Start(t)
        PROVE  TableInv'
    <2>1. ~no_memory
      BY <1>3 DEF Start, InsertCall, SearchCall, SearchLockCall, DelCall, Enter, EnumCall, SetAttr
    <2> QED
      BY <1>3, <2>1, StartInv DEF HashInv
  <1>4. ASSUME NEW t \in Threads, Hold(t)
        PROVE  TableInv'
    <2>1. ~no_memory
      BY <1>4 DEF Hold, Modify, DelLockedCall, ReleaseLock
    <2> QED
      BY <1>4, <2>1, HoldInv DEF HashInv
  <1>5. ASSUME NEW t \in Threads, Step(t)
        PROVE  TableInv'
    <2>1. ~FillFails(t)
      BY DEF FillFails
    <2>2. ~no_memory
      BY <1>5, <2>1 DEF Step, Reserve, Fill, Count, Find, Unlink, Uncount, EnumScan, EnumSort, EnumNext,
                        CleanNext, CleanLock
    <2> QED
      BY <1>5, <2>1, <2>2, ReserveInv, FillInv, CountInv, UnlinkInv, WalkInv DEF HashInv, Step
  <1> QED
    BY <1>2, <1>3, <1>4, <1>5 DEF Next, Destroyed

-----------------------------------------------------------------------------
(***************************************************************************)
(* What the invariant says of the places of the table                      *)
(***************************************************************************)
LEMMA PlacesAt ==
  ASSUME Types, NEW pl
  PROVE  /\ pl \in Places <=> /\ pl = <<pl[1], pl[2]>> /\ pl[1] \in Chains
                              /\ pl[2] \in Positions(hash_table[pl[1]])
         /\ pl \in Used <=> pl \in Places /\ At(pl) \in UsedAt(pl[1]) /\ At(pl).mini # 0
  <1>1. DOMAIN hash_table = Chains
    BY DEF Types, Chains
  <1>2. pl \in Places <=> \E i \in Chains : \E p \in Positions(hash_table[i]) : pl = <<i, p>>
    BY <1>1 DEF Places
  <1>3. pl \in Places <=> /\ pl = <<pl[1], pl[2]>> /\ pl[1] \in Chains
                          /\ pl[2] \in Positions(hash_table[pl[1]])
    BY <1>2
  <1> QED
    BY <1>3 DEF Used, At, UsedAt, UsedIn, SlotsOf

\* A used slot of a chain has a place in the table.
LEMMA PlaceOf ==
  ASSUME Types, NEW i \in Chains, NEW s \in UsedAt(i)
  PROVE  \E pl \in Used : pl[1] = i /\ At(pl) = s
  <1>1. PICK p \in Positions(hash_table[i]) : s = SlotAt(hash_table[i], p) /\ s.mini # 0
    BY DEF UsedAt, UsedIn, SlotsOf
  <1> PICK pl : pl = <<i, p>>
    OBVIOUS
  <1>2. pl[1] = i /\ pl[2] = p /\ At(pl) = s
    BY <1>1 DEF At
  <1>3. pl \in Used
    BY <1>1, <1>2, PlacesAt DEF Used
  <1> QED
    BY <1>2, <1>3

\* What TableSound says of the slot at a place.
LEMMA EntriesAt ==
  ASSUME Control, TableSound, NEW pl \in Used
  PROVE  /\ At(pl) \in UsedAt(pl[1]) /\ At(pl) \in Slot /\ pl[1] \in Chains
         /\ SlotSound(pl[1], At(pl)) /\ (pl \in Entries <=> At(pl).key # NULL)
  <1>1. Types
    BY DEF Control
  <1>2. At(pl) \in UsedAt(pl[1]) /\ pl[1] \in Chains
    BY <1>1, PlacesAt
  <1>3. SlotSound(pl[1], At(pl)) /\ At(pl) \in Slot
    BY <1>1, <1>2, UsedTyped DEF TableSound
  <1> QED
    BY <1>2, <1>3 DEF Entries, SlotSound

\* A slot has one place.
LEMMA OnePlace ==
  ASSUME Control, TableSound, NEW pl \in Used, NEW ql \in Used, pl[1] = ql[1], At(pl) = At(ql)
  PROVE  pl = ql
  <1>1. /\ pl = <<pl[1], pl[2]>> /\ ql = <<ql[1], ql[2]>> /\ pl[1] \in Chains
        /\ pl[2] \in Positions(hash_table[pl[1]]) /\ ql[2] \in Positions(hash_table[pl[1]])
        /\ At(pl).mini # 0
    BY PlacesAt DEF Control
  <1>2. pl[2] = ql[2]
    BY <1>1 DEF TableSound, WellFormed, At
  <1> QED
    BY <1>1, <1>2

\* No key has two entries.
LEMMA EntriesOnce ==
  ASSUME Control, TableSound, NEW pl \in Entries, NEW ql \in Entries, Text(At(pl).key) = Text(At(ql).key)
  PROVE  pl = ql
  <1>1. pl \in Used /\ ql \in Used /\ At(pl).key # NULL /\ At(ql).key # NULL
    BY DEF Entries
  <1>2. /\ pl[1] = Index(Text(At(pl).key)) /\ ql[1] = Index(Text(At(ql).key))
        /\ At(pl) \in UsedAt(pl[1]) /\ At(ql) \in UsedAt(ql[1]) /\ pl[1] \in Chains
    BY <1>1, EntriesAt DEF SlotSound
  <1>3. pl[1] = ql[1] /\ At(pl) = At(ql)
    BY <1>1, <1>2 DEF TableSound
  <1> QED
    BY <1>1, <1>3, OnePlace

\* A slot that is not filled has its insert.
LEMMA UnfilledReserved ==
  ASSUME Control, TableSound
  PROVE  Used \ Entries = Reserved
  <1>1. ASSUME NEW pl \in Used, pl \notin Entries
        PROVE  pl \in Reserved
    <2>1. At(pl).key = NULL /\ SlotSound(pl[1], At(pl)) /\ At(pl) \in Slot /\ At(pl) \in UsedAt(pl[1])
      BY <1>1, EntriesAt
    <2>2. PICK t \in Threads : pc[t] = "fill" /\ Index(key[t]) = pl[1] /\ At(pl).mini = MiniHash(key[t])
      BY <2>1 DEF SlotSound
    <2>3. At(pl) = ReservedSlot(key[t])
      BY <2>1, <2>2 DEF SlotSound, ReservedSlot, Slot
    <2>4. at[t] \in Positions(hash_table[pl[1]]) /\ SlotAt(hash_table[pl[1]], at[t]) = ReservedSlot(key[t])
      BY <2>2 DEF TableSound, Fills, Chain
    <2>5. pl = <<pl[1], pl[2]>> /\ pl[1] \in Chains /\ pl[2] \in Positions(hash_table[pl[1]]) /\ At(pl).mini # 0
      BY PlacesAt DEF Control
    <2>6. at[t] = pl[2]
      BY <2>3, <2>4, <2>5 DEF TableSound, WellFormed, At
    <2> QED
      BY <2>2, <2>5, <2>6 DEF Reserved
  <1>2. ASSUME NEW t \in Threads, pc[t] = "fill"
        PROVE  <<Index(key[t]), at[t]>> \in Used \ Entries
    <2> PICK pl : pl = <<Index(key[t]), at[t]>>
      OBVIOUS
    <2>1. key[t] \in Keys /\ Index(key[t]) \in Chains
      BY <1>2, IndexIn DEF Control, Locals
    <2>2. pl[1] = Index(key[t]) /\ pl[2] = at[t]
      OBVIOUS
    <2>3. at[t] \in Positions(hash_table[pl[1]]) /\ At(pl) = ReservedSlot(key[t])
      BY <1>2, <2>2 DEF TableSound, Fills, Chain, At
    <2>4. At(pl).mini # 0 /\ At(pl).key = NULL
      BY <2>1, <2>3, ReservedTyped DEF ReservedSlot
    <2>5. pl \in Places
      BY <2>1, <2>2, <2>3, PlacesAt DEF Control
    <2> QED
      BY <2>4, <2>5 DEF Used, Entries
  <1> QED
    BY <1>1, <1>2 DEF Reserved

\* The invariant implies ChainsSound.
LEMMA TableGives ==
  ASSUME Control, TableSound
  PROVE  ChainsSound
  <1>1. MutualExclusion
    BY ControlGives
  <1>2. \A pl \in Entries : /\ pl[1] = Index(Text(At(pl).key))
                            /\ At(pl).mini = MiniHash(Text(At(pl).key))
    BY EntriesAt DEF Entries, SlotSound
  <1>3. \A pl, ql \in Entries : Text(At(pl).key) = Text(At(ql).key) => pl = ql
    BY EntriesOnce
  <1>4. ASSUME NEW i \in DOMAIN hash_table
        PROVE  EmptyBucket \notin Range(hash_table[i])
    <2>1. i \in Chains /\ hash_table[i] \in Seq(Bucket)
      BY DEF Control, Types, Chains
    <2>2. \A b \in 1..Len(hash_table[i]) : hash_table[i][b] # EmptyBucket
      BY <2>1 DEF TableSound, WellFormed
    <2>3. DOMAIN hash_table[i] = 1..Len(hash_table[i])
      BY <2>1
    <2> QED
      BY <2>2, <2>3 DEF Range
  <1>5. Used \ Entries = Reserved
    BY UnfilledReserved
  <1> QED
    BY <1>1, <1>2, <1>3, <1>4, <1>5 DEF ChainsSound

\* The keys of the table are those of its entries, and as many.
LEMMA PresentEntries ==
  ASSUME Control, TableSound
  PROVE  Present = {Text(At(pl).key) : pl \in Entries}
  <1>1. ASSUME NEW pl \in Entries PROVE Text(At(pl).key) \in Present
    <2>1. /\ Text(At(pl).key) \in Keys /\ pl[1] = Index(Text(At(pl).key)) /\ At(pl) \in UsedAt(pl[1])
      BY EntriesAt DEF Entries, SlotSound
    <2> QED
      BY <2>1 DEF Present
  <1>2. ASSUME NEW k \in Present PROVE \E pl \in Entries : Text(At(pl).key) = k
    <2>1. Types /\ k \in Keys /\ Index(k) \in Chains /\ k # NULL /\ Text(NULL) = NULL
      BY IndexIn, TextTyped DEF Control, Present
    <2>2. PICK s \in UsedAt(Index(k)) : Text(s.key) = k
      BY DEF Present
    <2>3. PICK pl \in Used : At(pl) = s
      BY <2>1, PlaceOf
    <2> QED
      BY <2>1, <2>2, <2>3, EntriesAt
  <1> QED
    BY <1>1, <1>2

\* There are as many entries as keys present.
LEMMA EntriesCounted ==
  ASSUME Control, TableSound
  PROVE  IsFiniteSet(Entries) /\ Cardinality(Entries) = Cardinality(Present)
  <1> DEFINE f == [pl \in Entries |-> Text(At(pl).key)]
  <1>1. f \in [Entries -> Present] /\ \A k \in Present : \E pl \in Entries : f[pl] = k
    BY PresentEntries
  <1>2. \A pl, ql \in Entries : f[pl] = f[ql] => pl = ql
    BY EntriesOnce
  <1> HIDE DEF f
  <1>3. f \in Injection(Entries, Present) /\ f \in Surjection(Entries, Present)
    BY <1>1, <1>2 DEF Injection, IsInjective, Surjection
  <1> QED
    BY <1>3, FS_Injection, CountsTyped

\* The invariant implies ElementsCounted.
LEMMA CountGives ==
  ASSUME Control, TableInv
  PROVE  ElementsCounted
  BY EntriesCounted DEF TableInv, Counted, ElementsCounted, Uncounting, Counting

\* The chains stay sound while inserts and deletes of any number of threads
\* interleave: every entry is where the search for its key looks, none is there
\* twice, no empty bucket stays, and a slot without a key belongs to an fh_insert
\* that still has the lock; as long as no allocation has failed half way.
THEOREM SoundChains == Spec => [](no_memory \/ ChainsSound)
  <1>1. HashInv => no_memory \/ ChainsSound
    BY TableGives DEF HashInv, TableInv
  <1> QED
    BY <1>1, HashInit, HashNext, PTL DEF Spec

\* h_elements, which fh_insert and fh_del change after they unlock the bucket, is
\* the number of entries but for the calls in between.
THEOREM CountedElements == Spec => [](no_memory \/ ElementsCounted)
  <1>1. HashInv => no_memory \/ ElementsCounted
    BY CountGives DEF HashInv
  <1> QED
    BY <1>1, HashInit, HashNext, PTL DEF Spec
-----------------------------------------------------------------------------
(***************************************************************************)
(* The strings of the heap                                                 *)
(***************************************************************************)
\* A string has one slot, and only a string that is there has one.
LEMMA StringsOnce ==
  ASSUME Control, TableInv, NEW p \in Ptrs
  PROVE  Cardinality({pl \in Used : At(pl).key = p}) = IF text[p] = NULL THEN 0 ELSE 1
  <1> DEFINE owners == {pl \in Used : At(pl).key = p}
  <1>0. Types /\ TableSound
    BY DEF Control, TableInv
  <1>1. p # NULL /\ Text(p) = text[p] /\ text[p] \in Keys \cup {NULL} /\ NULL \notin Keys
    BY <1>0, FastHashAssumption DEF Types, Text
  <1>2. ASSUME NEW pl \in owners
        PROVE  pl \in Entries /\ Text(At(pl).key) = text[p] /\ text[p] # NULL
    <2>1. pl \in Used /\ At(pl).key = p
      OBVIOUS
    <2>2. pl \in Entries /\ Text(At(pl).key) \in Keys
      BY <1>0, <1>1, <2>1, EntriesAt DEF SlotSound
    <2> QED
      BY <1>1, <2>1, <2>2
  <1>3. CASE text[p] = NULL
    <2>1. owners = {}
      BY <1>2, <1>3
    <2> QED
      BY <1>3, <2>1, FS_EmptySet
  <1>4. CASE text[p] # NULL
    <2>1. PICK s \in UsedAt(Index(text[p])) : s.key = p
      BY <1>4 DEF TableInv, StringsInTable
    <2>2. Index(text[p]) \in Chains
      BY <1>0, <1>1, <1>4, IndexIn
    <2>3. PICK pl \in Used : At(pl) = s
      BY <1>0, <2>1, <2>2, PlaceOf
    <2>4. pl \in owners
      BY <2>1, <2>3
    <2>5. \A ql \in owners : ql = pl
      <3> SUFFICES ASSUME NEW ql \in owners PROVE ql = pl
        OBVIOUS
      <3>1. ql \in Entries /\ pl \in Entries /\ Text(At(ql).key) = Text(At(pl).key)
        BY <1>2, <2>4
      <3> HIDE DEF owners
      <3> QED
        BY <1>0, <3>1, EntriesOnce
    <2>6. owners = {pl}
      BY <2>4, <2>5
    <2> QED
      BY <1>4, <2>6, FS_Singleton
  <1> QED
    BY <1>3, <1>4
-----------------------------------------------------------------------------
(***************************************************************************)
(* The steps of an enumerator                                              *)
(***************************************************************************)
Fresh(n) == [max |-> n, bucket |-> 0, elem_list |-> <<>>, idx |-> 1, is_valid |-> TRUE]

EnumStarts(t) ==
    /\ pc[t] = "idle" /\ pc'[t] = "scan" /\ UNCHANGED table
    /\ h_elements >= 1 /\ fhe'[t] = Fresh(h_elements) /\ MayCall(t, op'[t])
EnumStays(t) ==
    /\ fhe'[t] = fhe[t]
    /\ \/ pc[t] = "sort" /\ pc'[t] = "have" /\ UNCHANGED table
       \/ /\ pc[t] = "next" /\ pc'[t] = "wlock" /\ UNCHANGED table
          /\ fhe[t].is_valid /\ key'[t] = Text(Current(fhe[t]))
       \/ pc[t] = "wlock" /\ pc'[t] = "remove" /\ key'[t] = key[t] /\ UNCHANGED table
       \/ pc[t] = "remove" /\ pc'[t] = "uncount"
EnumAdvances(t) ==
    /\ fhe'[t] = MovedOn(fhe[t]) /\ UNCHANGED table
    /\ \/ pc[t] = "have" /\ pc'[t] = "have" /\ fhe[t].is_valid
       \/ pc[t] = "next" /\ pc'[t] = "next" /\ fhe[t].is_valid /\ Current(fhe[t]) = NULL
       \/ pc[t] = "remove" /\ pc'[t] = "next" /\ FoundAt(Chain(t), key[t]) = {}
       \/ pc[t] = "uncount" /\ pc'[t] = "next"
EnumMoves(t) == op'[t] = op[t] /\ (EnumScan(t) \/ EnumStays(t) \/ EnumAdvances(t))

\* The call of an enumerating function starts with a fresh enumerator.
LEMMA EnumCallCases ==
  ASSUME Control, NEW t \in Threads, Start(t), op'[t] \in Enumerating
  PROVE  EnumStarts(t)
  <1>1. PICK call \in EntryPoints : EnumCall(t, call)
    BY DEF Start, InsertCall, SearchCall, SearchLockCall, DelCall, Enter, SetAttr, Enumerating,
           Control, Types, Locals, args
  <1>2. pc[t] = "idle" /\ op[t] = "none" /\ MayCall(t, call) /\ UNCHANGED table
    BY <1>1 DEF EnumCall, Control, Locals
  <1>3. op' # op
    BY <1>2 DEF Enumerating
  <1>4. /\ h_elements >= 1 /\ fhe' = [fhe EXCEPT ![t] = Fresh(h_elements)]
        /\ op' = [op EXCEPT ![t] = call] /\ pc' = [pc EXCEPT ![t] = "scan"]
    BY <1>1, <1>3 DEF EnumCall, Goto, Fresh
  <1>5. fhe'[t] = Fresh(h_elements) /\ op'[t] = call /\ pc'[t] = "scan"
    BY <1>4 DEF Control, Types
  <1> QED
    BY <1>2, <1>4, <1>5 DEF EnumStarts

\* A step of an enumerating thread starts, or moves, its enumerator.
LEMMA EnumCases ==
  ASSUME Control, NEW t \in Threads, Start(t) \/ Hold(t) \/ Step(t), op'[t] \in Enumerating
  PROVE  EnumStarts(t) \/ (op[t] \in Enumerating /\ EnumMoves(t))
  <1>0. Types /\ Locals(t)
    BY DEF Control
  <1>1. CASE Start(t)
    BY <1>1, EnumCallCases
  <1>2. CASE Hold(t)
    BY <1>0, <1>2 DEF Hold, Modify, DelLockedCall, ReleaseLock, Leave, args, Enumerating, Types, Locals
  <1>3. CASE Reserve(t) \/ Fill(t) \/ FillFails(t) \/ Count(t) \/ Find(t)
    <2>1. pc[t] \in {"reserve", "fill", "count", "find"}
      BY <1>3 DEF Reserve, Fill, FillFails, Count, Find
    <2>2. op[t] \notin Enumerating
      BY <1>0, <2>1 DEF Locals, Enumerating
    <2>3. op' = op \/ op' = [op EXCEPT ![t] = "none"]
      BY <1>3 DEF Reserve, Refuse, Fill, FillFails, Count, Find, Leave, LeaveHolding, args
    <2>4. op'[t] = op[t] \/ op'[t] = "none"
      BY <1>0, <2>3 DEF Types
    <2> QED
      BY <2>2, <2>4 DEF Enumerating
  <1>4. CASE Unlink(t) \/ Uncount(t)
    <2>1. pc[t] \in {"remove", "uncount"} /\ op[t] \in Deleting
      BY <1>0, <1>4 DEF Unlink, Uncount, Locals
    <2>2. CASE /\ DelReturns(t) /\ UNCHANGED table
               /\ pc[t] = "uncount" \/ FoundAt(Chain(t), key[t]) = {}
      <3>1. op[t] \in {"clean", "destroy"}
        BY <1>0, <2>1, <2>2 DEF DelReturns, Leave, LeaveHolding, Types, Enumerating
      <3>2. fhe' = [fhe EXCEPT ![t] = MovedOn(@)] /\ pc' = [pc EXCEPT ![t] = "next"] /\ op' = op
        BY <2>2, <3>1 DEF DelReturns, Goto, args
      <3>3. fhe'[t] = MovedOn(fhe[t]) /\ pc'[t] = "next"
        BY <1>0, <3>2 DEF Types
      <3> QED
        BY <2>1, <2>2, <3>1, <3>2, <3>3 DEF EnumMoves, EnumAdvances, Enumerating
    <2>3. CASE pc[t] = "remove" /\ pc' = [pc EXCEPT ![t] = "uncount"] /\ UNCHANGED <<op, fhe>>
      <3>1. pc'[t] = "uncount"
        BY <1>0, <2>3 DEF Types
      <3> QED
        BY <2>3, <3>1 DEF EnumMoves, EnumStays
    <2> QED
      BY <1>4, <2>2, <2>3 DEF Unlink, Uncount, Goto, args
  <1>5. CASE EnumScan(t)
    BY <1>5, EnumScanCases DEF EnumMoves
  <1>6. CASE EnumSort(t) \/ CleanLock(t)
    <2>1. /\ UNCHANGED <<op, key, fhe, table>>
          /\ \/ pc[t] = "sort" /\ pc' = [pc EXCEPT ![t] = "have"]
             \/ pc[t] = "wlock" /\ pc' = [pc EXCEPT ![t] = "remove"]
      BY <1>6 DEF EnumSort, CleanLock, Goto, args
    <2>2. (pc[t] = "sort" /\ pc'[t] = "have") \/ (pc[t] = "wlock" /\ pc'[t] = "remove")
      BY <1>0, <2>1 DEF Types
    <2> QED
      BY <2>1, <2>2 DEF EnumMoves, EnumStays
  <1>7. CASE EnumNext(t) \/ CleanNext(t)
    <2>1. pc[t] \in {"have", "next"} /\ UNCHANGED table
      BY <1>7 DEF EnumNext, CleanNext
    <2>2. ~Finished(t)
      BY <1>0, <2>1 DEF Finished, Leave, Types, Enumerating
    <2>3. op[t] \in Enumerating /\ fhe[t].is_valid /\ op' = op
      BY <1>0, <1>7, <2>1, <2>2 DEF EnumNext, CleanNext, args, Locals, Enumerating
    <2>4. CASE /\ fhe' = [fhe EXCEPT ![t] = MovedOn(@)] /\ UNCHANGED pc
               /\ pc[t] = "next" => Current(fhe[t]) = NULL
      <3>1. fhe'[t] = MovedOn(fhe[t]) /\ pc'[t] = pc[t]
        BY <1>0, <2>4 DEF Types
      <3> QED
        BY <2>1, <2>3, <2>4, <3>1 DEF EnumMoves, EnumAdvances
    <2>5. CASE /\ key' = [key EXCEPT ![t] = Text(Current(fhe[t]))] /\ pc' = [pc EXCEPT ![t] = "wlock"]
               /\ UNCHANGED fhe /\ pc[t] = "next"
      <3>1. key'[t] = Text(Current(fhe[t])) /\ pc'[t] = "wlock"
        BY <1>0, <2>5 DEF Types
      <3> QED
        BY <2>1, <2>3, <2>5, <3>1 DEF EnumMoves, EnumStays
    <2> QED
      BY <1>7, <2>2, <2>4, <2>5 DEF EnumNext, CleanNext, Goto
  <1> QED
    BY <1>1, <1>2, <1>3, <1>4, <1>5, <1>6, <1>7 DEF Step

\* A fresh enumerator has listed nothing.
LEMMA FreshTyped ==
  ASSUME NEW n \in Nat \ {0}
  PROVE  /\ Fresh(n).max = n /\ Fresh(n).bucket = 0 /\ Fresh(n).elem_list = <<>>
         /\ Fresh(n).idx = 1 /\ Fresh(n).is_valid
  BY DEF Fresh

\* The array that fh_enum_create allocated is not overrun, when it is filled and
\* when it is walked.
LEMMA BoundsNext ==
  ASSUME Control, EnumBounds, [Next]_vars
  PROVE  EnumBounds'
  <1>1. CASE UNCHANGED vars
    BY <1>1 DEF vars, args, EnumBounds, Walks
  <1>2. ASSUME NEW t \in Threads, Start(t) \/ Hold(t) \/ Step(t)
        PROVE  EnumBounds'
    <2>1. Others(t)
      BY <1>2, StepOthers DEF Control
    <2>2. ASSUME NEW u \in Threads \ {t}, op'[u] \in Enumerating
          PROVE  Walks(u)'
      <3>1. op'[u] = op[u] /\ pc'[u] = pc[u] /\ fhe'[u] = fhe[u]
        BY <2>1 DEF Others
      <3>2. Walks(u)
        BY <2>2, <3>1 DEF EnumBounds
      <3> QED
        BY <3>1, <3>2 DEF Walks
    <2>3. ASSUME op'[t] \in Enumerating
          PROVE  Walks(t)'
      <3>1. CASE EnumStarts(t)
        <4>1. h_elements \in Nat \ {0}
          BY <3>1 DEF EnumStarts, Control, Types
        <4>2. /\ fhe'[t].max = h_elements /\ fhe'[t].elem_list = <<>>
              /\ fhe'[t].idx = 1 /\ pc'[t] = "scan"
          BY <3>1, <4>1, FreshTyped DEF EnumStarts
        <4> QED
          BY <4>1, <4>2 DEF Walks
      <3>2. CASE op[t] \in Enumerating /\ EnumMoves(t)
        <4> PICK e : e = fhe[t]
          OBVIOUS
        <4>1. e \in Enum
          BY <3>2 DEF Control, Locals
        <4>2. /\ Len(e.elem_list) <= e.max /\ e.idx <= e.max + 1
              /\ e.is_valid => e.idx <= e.max
              /\ pc[t] \in {"wlock", "remove", "uncount"} => e.is_valid
          BY <3>2 DEF EnumBounds, Walks
        <4>3. e.max \in Nat /\ e.idx \in Nat /\ Len(e.elem_list) \in Nat
          BY <4>1 DEF Enum
        <4>4. CASE EnumScan(t)
          <5> DEFINE w == [e EXCEPT !.bucket = @ + 1, !.elem_list = Longer(e)]
          <5>1. /\ e.bucket < h_dim /\ w.elem_list = Longer(e) /\ w.max = e.max /\ w.idx = e.idx
                /\ w.is_valid = e.is_valid /\ fhe' = [fhe EXCEPT ![t] = w]
                /\ pc' = [pc EXCEPT ![t] = IF e.bucket + 1 < h_dim /\ Len(Longer(e)) < e.max THEN "scan"
                                           ELSE IF op[t] = "enum" THEN "sort" ELSE "next"]
            BY <4>4, EnumScanCases
          <5>2. Len(Longer(e)) <= e.max
            BY <4>1, <5>1, LongerTyped DEF Control
          <5>3. fhe'[t] = w /\ pc'[t] \in {"scan", "sort", "next"}
            BY <5>1 DEF Control, Types
          <5> HIDE DEF w
          <5> QED
            BY <4>2, <5>1, <5>2, <5>3 DEF Walks
        <4>5. CASE EnumStays(t)
          BY <4>2, <4>5 DEF Walks, EnumStays
        <4>6. CASE EnumAdvances(t)
          <5> PICK m : m = MovedOn(e)
            OBVIOUS
          <5>1. /\ m.idx = e.idx + 1 /\ m.is_valid = (e.idx + 1 <= Len(e.elem_list))
                /\ m.max = e.max /\ m.elem_list = e.elem_list
            BY <4>1, MovedOnTyped
          <5>2. fhe'[t] = m /\ pc'[t] \in {"have", "next"} /\ e.is_valid
            BY <4>2, <4>6 DEF EnumAdvances
          <5>3. m.is_valid => m.idx <= m.max
            <6>1. m.is_valid => e.idx + 1 <= Len(e.elem_list)
              BY <5>1, Zenon
            <6>2. m.idx = e.idx + 1 /\ m.max = e.max
              BY <5>1
            <6> QED
              BY <4>2, <4>3, <6>1, <6>2
          <5>4. Len(m.elem_list) <= m.max /\ m.idx <= m.max + 1
            BY <4>2, <4>3, <5>1, <5>2
          <5> QED
            BY <5>2, <5>3, <5>4 DEF Walks
        <4> QED
          BY <3>2, <4>4, <4>5, <4>6 DEF EnumMoves
      <3> QED
        BY <1>2, <2>3, <3>1, <3>2, EnumCases
    <2> QED
      BY <2>2, <2>3 DEF EnumBounds
  <1> QED
    BY <1>1, <1>2 DEF Next, Destroyed

\* A thread goes on with its call, ends it, or makes a call it may make.
LEMMA CallMoves ==
  ASSUME Control, NEW t \in Threads, Start(t) \/ Hold(t) \/ Step(t)
  PROVE  op'[t] = op[t] \/ op'[t] = "none" \/ MayCall(t, op'[t])
  <1>0. Types
    BY DEF Control
  <1>1. CASE op'[t] \in Enumerating
    BY <1>1, EnumCases DEF EnumStarts, EnumMoves
  <1>2. CASE Start(t) /\ op'[t] \notin Enumerating
    <2>1. CASE \E call \in EntryPoints : EnumCall(t, call)
      BY <1>0, <1>2, <2>1 DEF EnumCall, Types
    <2>2. CASE SetAttr(t)
      BY <2>2 DEF SetAttr, args
    <2>3. CASE \E call, k, d, where : Enter(t, call, k, d, where)
      BY <1>0, <2>3 DEF Enter, Types
    <2> QED
      BY <1>2, <2>1, <2>2, <2>3 DEF Start, InsertCall, SearchCall, SearchLockCall, DelCall
  <1>3. CASE Hold(t)
    BY <1>0, <1>3 DEF Hold, Modify, DelLockedCall, ReleaseLock, Leave, args, Types
  <1>4. CASE Step(t) /\ op'[t] \notin Enumerating
    <2>1. op' = op \/ op' = [op EXCEPT ![t] = "none"]
      BY <1>4 DEF Step, Reserve, Refuse, Fill, FillFails, Count, Find, Unlink, Uncount, DelReturns,
                  EnumScan, EnumSort, EnumNext, CleanNext, CleanLock, Finished, Leave, LeaveHolding, args
    <2> QED
      BY <1>0, <2>1 DEF Types
  <1> QED
    BY <1>1, <1>2, <1>3, <1>4

\* Every step keeps Polite.
LEMMA PoliteNext ==
  ASSUME Control, Polite, [Next]_vars
  PROVE  Polite'
  <1>1. CASE UNCHANGED vars
    BY <1>1 DEF vars, args, Polite
  <1>2. ASSUME NEW t \in Threads, Start(t) \/ Hold(t) \/ Step(t)
        PROVE  Polite'
    <2>1. \A u \in Threads \ {t} : op'[u] = op[u]
      BY <1>2, StepOthers DEF Control, Others
    <2>2. CASE op'[t] = op[t]
      BY <2>1, <2>2 DEF Polite
    <2>3. CASE op'[t] = "none"
      BY <2>1, <2>3 DEF Polite, Enumerating, Deleting
    <2>4. CASE MayCall(t, op'[t])
      BY <2>1, <2>4 DEF Polite, MayCall
    <2> QED
      BY <1>2, <2>2, <2>3, <2>4, CallMoves
  <1> QED
    BY <1>1, <1>2 DEF Next, Destroyed

\* What a step does to the keys of the table and to the strings.
LEMMA PresentKept ==
  ASSUME UNCHANGED <<h_dim, table>>
  PROVE  Present' = Present /\ \A p : Text(p)' = Text(p) /\ Index(p)' = Index(p)
  <1>1. \A p : Text(p)' = Text(p) /\ Index(p)' = Index(p) /\ UsedAt(p)' = UsedAt(p)
    BY DEF table, Text, Index, UsedAt
  <1> QED
    BY <1>1 DEF Present

\* A step other than the removal of fh_del loses no key and no string.
LEMMA StepGrows ==
  ASSUME Control, TableInv, NEW t \in Threads, Start(t) \/ Hold(t) \/ Step(t), ~no_memory',
         pc[t] # "remove"
  PROVE  Present \subseteq Present' /\ \A p : Text(p) # NULL => Text(p)' = Text(p)
  <1>0. Types /\ UNCHANGED h_dim
    BY StepOthers DEF Control, fixed
  <1>1. CASE UNCHANGED table
    BY <1>0, <1>1, PresentKept
  <1>2. CASE Modify(t)
    BY <1>2, TableModified DEF TableInv, Modify, Text
  <1>3. CASE Reserve(t)
    <2>1. UNCHANGED text
      BY <1>3, ReserveCases
    <2>2. CASE \E code : Refuse(t, code)
      BY <1>1, <2>1, <2>2 DEF Refuse, table
    <2>3. CASE /\ ~Duplicate(t)
               /\ at' = [at EXCEPT ![t] = HoleIn(Chain(t))]
               /\ hash_table' = [hash_table EXCEPT ![Index(key[t])] = Taken(Chain(t), key[t])]
               /\ pc' = [pc EXCEPT ![t] = "fill"] /\ UNCHANGED key
      <3>1. Present' = Present
        BY <1>3, <2>3, ReserveCases, TableReserved DEF TableInv
      <3> QED
        BY <2>1, <3>1 DEF Text
    <2> QED
      BY <1>3, <2>2, <2>3, ReserveCases
  <1>4. CASE Fill(t)
    <2>1. Others(t) /\ UNCHANGED <<h_dim, dont_copy>> /\ pc[t] = "fill"
      BY <1>4, StepOthers DEF Control, fixed, Fill, Step, attrs
    <2>2. PICK p \in Ptrs \cup {key[t]} :
             /\ KeyCopy(t, p)
             /\ hash_table' = [hash_table EXCEPT ![Index(key[t])] =
                    WithSlot(@, at[t], [mini |-> MiniHash(key[t]), key |-> p, obj |-> block[t]])]
      BY <1>4 DEF Fill
    <2>3. pc'[t] # "fill"
      BY <1>0, <1>4 DEF Fill, LeaveHolding, Goto, Types
    <2>4. Present' = Present \cup {key[t]}
      BY <2>1, <2>2, <2>3, TableFilled DEF TableInv, Others
    <2>5. \A q : Text(q) # NULL => Text(q)' = Text(q)
      BY <1>0, <2>2 DEF KeyCopy, Text, Types
    <2> QED
      BY <2>4, <2>5
  <1>5. CASE Start(t) \/ DelLockedCall(t) \/ ReleaseLock(t)
    BY <1>1, <1>5 DEF Start, InsertCall, SearchCall, SearchLockCall, DelCall, Enter, EnumCall, SetAttr,
                      DelLockedCall, ReleaseLock
  <1>6. CASE Step(t) /\ ~Reserve(t) /\ ~Fill(t)
    <2>1. UNCHANGED table
      BY <1>6 DEF Step, FillFails, Count, Find, Refuse, Unlink, Uncount, EnumScan, EnumSort, EnumNext,
                  CleanNext, CleanLock, table
    <2> QED
      BY <1>1, <2>1
  <1> QED
    BY <1>2, <1>3, <1>4, <1>5, <1>6 DEF Hold

\* The removal of fh_del takes one key away and the string that held it.
LEMMA UnlinkShrinks ==
  ASSUME Control, TableInv, NEW t \in Threads, Unlink(t), pc'[t] = "uncount"
  PROVE  /\ key[t] \in Present /\ Present' = Present \ {key[t]}
         /\ \A p : Text(p) # key[t] => Text(p)' = Text(p)
  <1> PICK old : old = SlotAt(Chain(t), First(FoundAt(Chain(t), key[t])))
    OBVIOUS
  <1>0. Types
    BY DEF Control
  <1>1. ~DelReturns(t)
    BY <1>0 DEF DelReturns, Leave, LeaveHolding, Goto, Types
  <1>2. /\ FoundAt(Chain(t), key[t]) # {} /\ pc[t] = "remove" /\ key[t] \in Keys
        /\ text' = Freed(old.key)
        /\ hash_table' = [hash_table EXCEPT ![Index(key[t])] = Unlinked(Chain(t), key[t])]
        /\ pc' = [pc EXCEPT ![t] = "uncount"] /\ UNCHANGED <<h_dim, dont_copy>>
    BY <1>1, UnlinkCases
  <1>3. Others(t)
    BY StepOthers DEF Control, Step
  <1>4. key[t] \in Present /\ Present' = Present \ {key[t]}
    BY <1>2, <1>3, TableUnlinked DEF TableInv, Others
  <1>5. Text(old.key) = key[t]
    BY <1>2, FoundUsed DEF Chain, TableInv
  <1>6. \A p : Text(p) # key[t] => Text(p)' = Text(p)
    BY <1>0, <1>2, <1>5 DEF Freed, Text, Types
  <1> QED
    BY <1>4, <1>6
-----------------------------------------------------------------------------
(***************************************************************************)
(* What an enumerator lists                                                *)
(***************************************************************************)
\* Keys that come do not disturb a list.
LEMMA ListingGrows ==
  ASSUME Types, UNCHANGED h_dim, Present \subseteq Present', \A p : Text(p) # NULL => Text(p)' = Text(p),
         NEW e \in Enum, NEW from \in Nat, Named(e, from)
  PROVE  /\ Named(e, from)' /\ \A n \in from..Len(e.elem_list) : Name(e, n)' = Name(e, n)
         /\ from = 1 /\ Scanned(e) => Scanned(e)'
  <1> DEFINE ahead == from..Len(e.elem_list)
  <1>1. \A n \in ahead : e.elem_list[n] # NULL /\ Name(e, n) \in Present
    BY DEF Named
  <1>2. \A m, n \in ahead : Name(e, m) = Name(e, n) => m = n
    BY DEF Named
  <1>3. Present \subseteq Keys /\ NULL \notin Keys /\ Present' \subseteq Keys /\ IsFiniteSet(Keys)
    BY FastHashAssumption DEF Present
  <1>4. \A n \in ahead : Name(e, n)' = Name(e, n)
    <2> SUFFICES ASSUME NEW n \in ahead PROVE Name(e, n)' = Name(e, n)
      OBVIOUS
    <2>1. Text(e.elem_list[n]) # NULL
      BY <1>1, <1>3 DEF Name
    <2> QED
      BY <2>1 DEF Name
  <1> HIDE DEF ahead
  <1>5. Named(e, from)'
    <2>1. \A n \in ahead : e.elem_list[n] # NULL /\ Name(e, n)' \in Present'
      BY <1>1, <1>4
    <2>2. \A m, n \in ahead : Name(e, m)' = Name(e, n)' => m = n
      BY <1>2, <1>4
    <2> QED
      BY <2>1, <2>2 DEF Named, ahead
  <1>6. ASSUME from = 1, Scanned(e)
        PROVE  Scanned(e)'
    <2>1. /\ e.idx = 1 /\ e.is_valid
          /\ \A n \in ahead : Index(Name(e, n)) < e.bucket
          /\ e.max <= Len(e.elem_list) + Cardinality(Beyond(e.bucket))
      BY <1>6 DEF Scanned, ahead
    <2>2. \A k : Index(k)' = Index(k)
      BY DEF Index
    <2>3. \A n \in ahead : Index(Name(e, n))' = Index(Name(e, n))
      BY <1>4, <2>2
    <2>4. \A n \in ahead : Index(Name(e, n))' < e.bucket
      BY <2>1, <2>3
    <2>5. Beyond(e.bucket) \subseteq Beyond(e.bucket)'
      BY <2>2 DEF Beyond
    <2>6. IsFiniteSet(Beyond(e.bucket)')
      BY <1>3, FS_Subset DEF Beyond
    <2> PICK b, bb : b = Beyond(e.bucket) /\ bb = Beyond(e.bucket)'
      OBVIOUS
    <2>7. Cardinality(b) \in Nat /\ Cardinality(bb) \in Nat /\ Cardinality(b) <= Cardinality(bb)
      BY <2>5, <2>6, FS_Subset, FS_CardinalityType
    <2>8. e.max \in Nat /\ Len(e.elem_list) \in Nat
      BY DEF Enum
    <2>9. e.max <= Len(e.elem_list) + Cardinality(Beyond(e.bucket)')
      BY <2>1, <2>7, <2>8
    <2> QED
      BY <1>6, <2>1, <2>4, <2>9 DEF Scanned, ahead
  <1> QED
    BY <1>4, <1>5, <1>6 DEF ahead

\* The elements of a chain that nobody has locked: the keys of the table that
\* belong there, each once.
LEMMA ChainListed ==
  ASSUME Control, TableSound, NEW b \in Chains, Free(LockOf(b))
  PROVE  LET list == Elements(hash_table[b])
             here == {k \in Present : Index(k) = b}
         IN  /\ list \in Seq(KeyPtrs) /\ Len(list) = Cardinality(here) /\ IsFiniteSet(here)
             /\ \A n \in 1..Len(list) : list[n] # NULL /\ Text(list[n]) \in here
             /\ \A m, n \in 1..Len(list) : Text(list[m]) = Text(list[n]) => m = n
  <1> DEFINE chain == hash_table[b]
             used == Positions(chain) \ HolesOf(chain)
             top == Cardinality(used)
             list == Elements(chain)
             here == {k \in Present : Index(k) = b}
             slot(n) == SlotAt(chain, Nth(used, n))
  <1>0. Types
    BY DEF Control
  <1>1. chain \in Seq(Bucket)
    BY <1>0, UsedTyped
  <1>2. /\ list \in Seq(KeyPtrs) /\ Len(list) = top /\ top \in Nat
        /\ \A n \in 1..top : Nth(used, n) \in used /\ list[n] = slot(n).key
        /\ \A p \in used : \E n \in 1..top : Nth(used, n) = p
        /\ \A m, n \in 1..top : Nth(used, m) = Nth(used, n) => m = n
    BY <1>1, ElementsList
  <1>3. \A p \in used : p \in Positions(chain) /\ SlotAt(chain, p).mini # 0 /\ SlotAt(chain, p) \in UsedAt(b)
    BY DEF HolesOf, UsedAt, UsedIn, SlotsOf
  <1>4. \A s \in UsedAt(b) : s.key # NULL
    <2> SUFFICES ASSUME NEW s \in UsedAt(b), s.key = NULL PROVE FALSE
      OBVIOUS
    <2>1. PICK u \in Threads : pc[u] = "fill" /\ Index(key[u]) = b
      BY DEF TableSound, SlotSound
    <2>2. InSection(u) /\ op[u] # "search" /\ LockAt(u) = LockOf(b)
      BY <2>1 DEF InSection, Control, Locals, LockAt
    <2>3. writer[LockOf(b)] = u
      BY <2>2 DEF Control, Locked, HasLock
    <2> QED
      BY <2>3, FastHashAssumption DEF Free
  <1>5. \A s \in UsedAt(b) : Text(s.key) \in here
    <2> SUFFICES ASSUME NEW s \in UsedAt(b) PROVE Text(s.key) \in here
      OBVIOUS
    <2>1. Text(s.key) \in Keys /\ b = Index(Text(s.key))
      BY <1>4 DEF TableSound, SlotSound
    <2> QED
      BY <2>1 DEF Present
  <1>6. \A n \in 1..top : /\ slot(n) \in UsedAt(b) /\ slot(n).mini # 0 /\ list[n] = slot(n).key
                          /\ Nth(used, n) \in Positions(chain)
    <2> HIDE DEF used
    <2> QED
      BY <1>2, <1>3
  <1>7. \A n \in 1..top : list[n] # NULL /\ Text(list[n]) \in here
    <2> HIDE DEF slot, here
    <2> QED
      BY <1>4, <1>5, <1>6
  <1>8. \A m, n \in 1..top : Text(list[m]) = Text(list[n]) => m = n
    <2> SUFFICES ASSUME NEW m \in 1..top, NEW n \in 1..top, Text(list[m]) = Text(list[n]) PROVE m = n
      OBVIOUS
    <2>1. slot(m) \in UsedAt(b) /\ slot(n) \in UsedAt(b) /\ list[m] = slot(m).key /\ list[n] = slot(n).key
      BY <1>6
    <2>2. slot(m) = slot(n)
      <3> HIDE DEF slot
      <3> QED
        BY <1>4, <2>1 DEF TableSound
    <2>3. Nth(used, m) = Nth(used, n)
      <3>1. Nth(used, m) \in Positions(chain) /\ Nth(used, n) \in Positions(chain) /\ slot(m).mini # 0
        BY <1>6
      <3> HIDE DEF used
      <3> QED
        BY <2>2, <3>1 DEF TableSound, WellFormed
    <2> QED
      BY <1>2, <2>3
  <1>9. ASSUME NEW k \in here PROVE \E n \in 1..top : Text(list[n]) = k
    <2>1. PICK s \in UsedAt(b) : Text(s.key) = k
      BY DEF Present
    <2>2. PICK p \in Positions(chain) : s = SlotAt(chain, p) /\ s.mini # 0
      BY DEF UsedAt, UsedIn, SlotsOf
    <2>3. p \in used
      BY <2>2 DEF HolesOf
    <2>4. PICK n \in 1..top : Nth(used, n) = p
      BY <1>2, <2>3
    <2>5. list[n] = s.key
      BY <1>2, <2>2, <2>4
    <2> QED
      BY <2>1, <2>5
  <1>10. IsFiniteSet(here)
    BY CountsTyped, FS_Subset
  <1>11. top = Cardinality(here)
    <2> DEFINE f == [n \in 1..top |-> Text(list[n])]
    <2> HIDE DEF top, list, here
    <2>1. f \in [1..top -> here] /\ (\A m, n \in 1..top : f[m] = f[n] => m = n)
          /\ \A k \in here : \E n \in 1..top : f[n] = k
      BY <1>7, <1>8, <1>9
    <2>2. IsFiniteSet(1..top) /\ Cardinality(1..top) = top
      BY <1>2, FS_Interval
    <2> HIDE DEF f
    <2>3. f \in Injection(1..top, here) /\ f \in Surjection(1..top, here)
      BY <2>1 DEF Injection, IsInjective, Surjection
    <2> QED
      BY <1>10, <2>2, <2>3, FS_Injection
  <1> HIDE DEF list, here, top
  <1>12. /\ list \in Seq(KeyPtrs) /\ Len(list) = Cardinality(here) /\ IsFiniteSet(here)
         /\ \A n \in 1..Len(list) : list[n] # NULL /\ Text(list[n]) \in here
         /\ \A m, n \in 1..Len(list) : Text(list[m]) = Text(list[n]) => m = n
    BY <1>2, <1>7, <1>8, <1>10, <1>11
  <1> QED
    BY <1>12 DEF list, here

\* A list and the next one, as far as they fit.
LEMMA JoinAt ==
  ASSUME NEW l \in Seq(KeyPtrs), NEW r \in Seq(KeyPtrs), NEW j, j = l \o r
  PROVE  /\ j \in Seq(KeyPtrs) /\ Len(j) = Len(l) + Len(r)
         /\ \A n \in 1..Len(j) : \/ n \in 1..Len(l) /\ j[n] = l[n]
                                 \/ n - Len(l) \in 1..Len(r) /\ j[n] = r[n - Len(l)]
  <1>1. j \in Seq(KeyPtrs) /\ Len(j) = Len(l) + Len(r)
    OBVIOUS
  <1>2. ASSUME NEW n \in 1..Len(j)
        PROVE  \/ n \in 1..Len(l) /\ j[n] = l[n]
               \/ n - Len(l) \in 1..Len(r) /\ j[n] = r[n - Len(l)]
    BY <1>1
  <1> QED
    BY <1>1, <1>2

\* The part of a list for which an enumerator has room.
LEMMA FittingAt ==
  ASSUME NEW s \in Seq(KeyPtrs), NEW max \in Nat
  PROVE  /\ Fitting(s, max) \in Seq(KeyPtrs)
         /\ Len(s) <= max => Len(Fitting(s, max)) = Len(s)
         /\ Len(s) > max => Len(Fitting(s, max)) = max
         /\ \A n \in 1..Len(Fitting(s, max)) : n \in 1..Len(s) /\ Fitting(s, max)[n] = s[n]
  BY DEF Fitting

\* One more bucket is listed.
LEMMA ScanLists ==
  ASSUME Control, TableSound, NEW e \in Enum, e.bucket < h_dim, Free(LockOf(e.bucket)),
         Named(e, 1), Scanned(e),
         NEW w \in Enum, w.elem_list = Longer(e), w.bucket = e.bucket + 1,
         w.max = e.max, w.idx = e.idx, w.is_valid = e.is_valid
  PROVE  /\ Named(w, 1) /\ Scanned(w)
         /\ ~(w.bucket < h_dim /\ Len(w.elem_list) < w.max) => Len(w.elem_list) = w.max
  <1>a. PICK b, l, r, list, max : /\ b = e.bucket /\ l = e.elem_list /\ r = Elements(hash_table[b])
                                  /\ list = w.elem_list /\ max = e.max
    OBVIOUS
  <1>b. PICK here : here = {k \in Present : Index(k) = b}
    OBVIOUS
  <1>0. Types
    BY DEF Control
  <1>1. b \in Nat /\ l \in Seq(KeyPtrs) /\ max \in Nat /\ b \in Chains /\ h_dim \in Nat
    BY <1>0, <1>a DEF Enum, Chains, Types
  <1>2. /\ r \in Seq(KeyPtrs) /\ Len(r) = Cardinality(here) /\ IsFiniteSet(here)
        /\ \A n \in 1..Len(r) : r[n] # NULL /\ Text(r[n]) \in here
        /\ \A m, n \in 1..Len(r) : Text(r[m]) = Text(r[n]) => m = n
    BY <1>1, <1>a, <1>b, ChainListed
  <1>c. PICK j : j = l \o r
    OBVIOUS
  <1>3. list = Fitting(j, max)
    BY <1>a, <1>c DEF Longer
  <1>4. /\ list \in Seq(KeyPtrs) /\ Len(list) \in Nat /\ Len(list) <= max
        /\ Len(list) = max \/ Len(list) = Len(l) + Len(r)
        /\ \A n \in 1..Len(list) : \/ n \in 1..Len(l) /\ list[n] = l[n]
                                   \/ n - Len(l) \in 1..Len(r) /\ list[n] = r[n - Len(l)]
    <2>1. l \in Seq(KeyPtrs) /\ r \in Seq(KeyPtrs) /\ max \in Nat
      BY <1>1, <1>2
    <2>2. /\ j \in Seq(KeyPtrs) /\ Len(j) = Len(l) + Len(r)
          /\ \A n \in 1..Len(j) : \/ n \in 1..Len(l) /\ j[n] = l[n]
                                  \/ n - Len(l) \in 1..Len(r) /\ j[n] = r[n - Len(l)]
      BY <1>c, <2>1, JoinAt
    <2>3. /\ list \in Seq(KeyPtrs)
          /\ Len(j) <= max => Len(list) = Len(j)
          /\ Len(j) > max => Len(list) = max
          /\ \A n \in 1..Len(list) : n \in 1..Len(j) /\ list[n] = j[n]
      BY <1>3, <2>1, <2>2, FittingAt
    <2>4. Len(list) \in Nat /\ Len(j) \in Nat
      BY <2>2, <2>3
    <2>5. Len(list) <= max /\ (Len(list) = max \/ Len(list) = Len(l) + Len(r))
      BY <2>1, <2>2, <2>3, <2>4
    <2>6. ASSUME NEW n \in 1..Len(list)
          PROVE  \/ n \in 1..Len(l) /\ list[n] = l[n]
                 \/ n - Len(l) \in 1..Len(r) /\ list[n] = r[n - Len(l)]
      <3>1. n \in 1..Len(j) /\ list[n] = j[n]
        BY <2>3
      <3> QED
        BY <2>2, <3>1
    <2> QED
      BY <2>3, <2>4, <2>5, <2>6
  <1>5. /\ \A n \in 1..Len(l) : l[n] # NULL /\ Text(l[n]) \in Present /\ Index(Text(l[n])) < b
        /\ \A m, n \in 1..Len(l) : Text(l[m]) = Text(l[n]) => m = n
        /\ max <= Len(l) + Cardinality(Beyond(b))
    BY <1>a DEF Named, Scanned, Name
  <1>6. \A k \in here : k \in Present /\ Index(k) = b
    BY <1>b
  <1>7. \A k \in Present : Index(k) \in Nat /\ Index(k) < h_dim
    BY <1>0, IndexIn DEF Present, Chains, Types
  <1>8. \A n \in 1..Len(list) : list[n] # NULL /\ Text(list[n]) \in Present /\ Index(Text(list[n])) < b + 1
    <2> SUFFICES ASSUME NEW n \in 1..Len(list)
                 PROVE  list[n] # NULL /\ Text(list[n]) \in Present /\ Index(Text(list[n])) < b + 1
      OBVIOUS
    <2>1. CASE n \in 1..Len(l) /\ list[n] = l[n]
      <3>1. list[n] # NULL /\ Text(list[n]) \in Present /\ Index(Text(list[n])) < b
        BY <1>5, <2>1
      <3> QED
        BY <1>1, <1>7, <3>1
    <2>2. CASE n - Len(l) \in 1..Len(r) /\ list[n] = r[n - Len(l)]
      <3>1. list[n] # NULL /\ Text(list[n]) \in here
        BY <1>2, <2>2
      <3> QED
        BY <1>1, <1>6, <3>1
    <2> QED
      BY <1>4, <2>1, <2>2
  <1>9. ASSUME NEW m \in 1..Len(list), NEW n \in 1..Len(list), Text(list[m]) = Text(list[n])
        PROVE  m = n
    <2> DEFINE left(x) == x \in 1..Len(l) /\ list[x] = l[x]
               right(x) == x - Len(l) \in 1..Len(r) /\ list[x] = r[x - Len(l)]
    <2>1. \A x : left(x) => Index(Text(list[x])) < b /\ Text(list[x]) \in Present
      BY <1>5
    <2>2. \A x : right(x) => Index(Text(list[x])) = b
      BY <1>2, <1>6
    <2>3. (left(m) \/ right(m)) /\ (left(n) \/ right(n))
      BY <1>4
    <2>4. ~(left(m) /\ right(n)) /\ ~(right(m) /\ left(n))
      <3> HIDE DEF left, right
      <3> QED
        BY <1>1, <1>7, <1>9, <2>1, <2>2
    <2>5. CASE left(m) /\ left(n)
      BY <1>5, <1>9, <2>5
    <2>6. CASE right(m) /\ right(n)
      <3>1. m - Len(l) = n - Len(l)
        BY <1>2, <1>9, <2>6
      <3>2. m \in Int /\ n \in Int /\ Len(l) \in Int
        BY <1>1
      <3> QED
        BY <3>1, <3>2
    <2> HIDE DEF left, right
    <2> QED
      BY <2>3, <2>4, <2>5, <2>6
  <1>10. Named(w, 1)
    BY <1>8, <1>9, <1>a DEF Named, Name
  <1>11. max <= Len(list) + Cardinality(Beyond(b + 1)) /\ Cardinality(Beyond(b + 1)) \in Nat
    <2>1. here \subseteq Beyond(b) /\ Beyond(b + 1) = Beyond(b) \ here
      BY <1>1, <1>7, <1>b DEF Beyond
    <2>2. IsFiniteSet(Beyond(b)) /\ IsFiniteSet(Beyond(b + 1))
      BY CountsTyped, FS_Subset DEF Beyond
    <2>3. Beyond(b) \cap here = here
      BY <2>1
    <2>4. Cardinality(Beyond(b) \ here) = Cardinality(Beyond(b)) - Cardinality(here)
      BY <1>2, <2>2, <2>3, FS_Difference
    <2>5. Cardinality(here) \in Nat /\ Cardinality(Beyond(b)) \in Nat /\ Cardinality(Beyond(b + 1)) \in Nat
      BY <1>2, <2>2, FS_CardinalityType
    <2>6. Cardinality(Beyond(b + 1)) = Cardinality(Beyond(b)) - Len(r)
      BY <1>2, <2>1, <2>4
    <2>7. Len(l) \in Nat /\ Len(r) \in Nat
      BY <1>1, <1>2
    <2> QED
      BY <1>1, <1>4, <1>5, <2>5, <2>6, <2>7
  <1>12. Scanned(w)
    BY <1>8, <1>11, <1>a DEF Scanned, Name
  <1>13. ASSUME ~(w.bucket < h_dim /\ Len(list) < max)
         PROVE  Len(list) = max
    <2>1. CASE ~(Len(list) < max)
      BY <1>1, <1>4, <2>1
    <2>2. CASE ~(b + 1 < h_dim)
      <3>1. Beyond(b + 1) = {}
        BY <1>1, <1>7, <2>2 DEF Beyond
      <3>2. Cardinality(Beyond(b + 1)) = 0
        BY <3>1, FS_EmptySet
      <3> QED
        BY <1>1, <1>4, <1>11, <3>2
    <2> QED
      BY <1>13, <1>a, <2>1, <2>2
  <1> QED
    BY <1>10, <1>12, <1>13, <1>a

\* A fresh enumerator has scanned nothing and listed nothing.
LEMMA ListingStarts ==
  ASSUME Control, TableInv, NEW t \in Threads, EnumStarts(t), op'[t] \in Enumerating, Calm(t)',
         UNCHANGED h_dim
  PROVE  Listing(t)'
  <1>a. PICK e : e = fhe'[t]
    OBVIOUS
  <1>0. Types /\ h_elements \in Nat \ {0}
    BY DEF Control, Types, EnumStarts
  <1>1. /\ e.max = h_elements /\ e.bucket = 0 /\ e.elem_list = <<>> /\ e.idx = 1 /\ e.is_valid
        /\ pc[t] = "idle" /\ pc'[t] = "scan" /\ MayCall(t, op'[t])
    BY <1>0, <1>a, FreshTyped DEF EnumStarts
  <1>2. Present' = Present /\ \A k : Index(k)' = Index(k)
    BY PresentKept DEF EnumStarts
  <1>3. From(t)' = 1 /\ \A x : x \notin 1..Len(e.elem_list)
    BY <1>1, <1>a DEF From
  <1>4. Uncounting = {}
    <2> SUFFICES ASSUME NEW u \in Threads, pc[u] = "uncount" PROVE FALSE
      BY DEF Uncounting
    <2>1. u # t /\ op[u] \in Deleting
      BY <1>1 DEF Control, Locals
    <2> QED
      BY <1>1, <2>1 DEF MayCall, Calm, Alone
  <1>5. op'[t] = "destroy" => Counting = {}
    <2> SUFFICES ASSUME NEW u \in Threads, pc[u] = "count", op'[t] = "destroy" PROVE FALSE
      BY DEF Counting
    <2> QED
      BY <1>1 DEF MayCall, Alone
  <1>6. e.max <= Cardinality(Present) /\ (op'[t] = "destroy" => Cardinality(Present) = e.max)
    BY <1>0, <1>1, <1>4, <1>5, CountsTyped, FS_EmptySet DEF TableInv, Counted
  <1>7. Beyond(0)' = Present
    <2>1. \A k \in Present : Index(k) >= 0
      BY <1>0, IndexIn DEF Present, Chains, Types
    <2> QED
      BY <1>2, <2>1 DEF Beyond
  <1>8. Named(e, 1)'
    BY <1>3 DEF Named
  <1>9. Scanned(e)'
    <2>1. Beyond(e.bucket)' = Present
      BY <1>1, <1>7
    <2>2. e.max <= Len(e.elem_list) + Cardinality(Present)
      BY <1>1, <1>6, CountsTyped
    <2> QED
      BY <1>1, <1>3, <2>1, <2>2 DEF Scanned
  <1> QED
    BY <1>1, <1>2, <1>3, <1>6, <1>8, <1>9, <1>a DEF Listing

\* When as many elements are listed as there are keys, all are.
LEMMA ListsAll ==
  ASSUME NEW e \in Enum, Named(e, 1), Len(e.elem_list) = Cardinality(Present)
  PROVE  Covers(e, 1)
  <1>a. PICK top : top = Len(e.elem_list)
    OBVIOUS
  <1> DEFINE f == [n \in 1..top |-> Name(e, n)]
  <1>1. top \in Nat
    BY <1>a DEF Enum
  <1>2. f \in [1..top -> Present] /\ \A m, n \in 1..top : f[m] = f[n] => m = n
    BY <1>a DEF Named
  <1>3. IsFiniteSet(1..top) /\ Cardinality(1..top) = top
    BY <1>1, FS_Interval
  <1> HIDE DEF f
  <1>4. f \in Injection(1..top, Present)
    BY <1>2 DEF Injection, IsInjective
  <1>5. f \in Surjection(1..top, Present)
    BY <1>3, <1>4, <1>a, FS_Injection, CountsTyped
  <1>6. \A k \in Present : \E n \in 1..top : f[n] = k
    BY <1>5 DEF Surjection
  <1> QED
    BY <1>6, <1>a DEF Covers, f

\* What leaves the table alone leaves the meaning of a list alone.
LEMMA ListingKept ==
  ASSUME UNCHANGED <<h_dim, table>>, NEW e, NEW m, m.elem_list = e.elem_list, NEW from
  PROVE  /\ Named(e, from) => Named(m, from)'
         /\ Covers(e, from) => Covers(m, from)'
         /\ Scanned(e) => Scanned(e)'
         /\ \A n : Name(m, n)' = Name(e, n)
  <1>1. Present' = Present /\ \A p : Text(p)' = Text(p) /\ Index(p)' = Index(p)
    BY PresentKept
  <1>2. \A n : Name(m, n)' = Name(e, n) /\ Name(e, n)' = Name(e, n)
    BY <1>1 DEF Name
  <1>3. \A b : Beyond(b)' = Beyond(b)
    BY <1>1 DEF Beyond
  <1>4. Named(e, from) => Named(m, from)'
    BY <1>1, <1>2 DEF Named
  <1>5. Covers(e, from) => Covers(m, from)'
    BY <1>1, <1>2 DEF Covers
  <1>6. Scanned(e) => Scanned(e)'
    BY <1>1, <1>2, <1>3 DEF Scanned
  <1> QED
    BY <1>2, <1>4, <1>5, <1>6

\* The scan of a chain adds the keys of that chain, each once.
LEMMA ListingScans ==
  ASSUME Control, TableInv, NEW t \in Threads, EnumScan(t), Listing(t)
  PROVE  Listing(t)'
  <1>a. PICK e : e = fhe[t]
    OBVIOUS
  <1>b. PICK w : w = [e EXCEPT !.bucket = @ + 1, !.elem_list = Longer(e)]
    OBVIOUS
  <1> DEFINE more == e.bucket + 1 < h_dim /\ Len(Longer(e)) < e.max
  <1>1. /\ pc[t] = "scan" /\ op[t] \in Enumerating /\ e \in Enum /\ e.bucket < h_dim
        /\ Free(LockOf(e.bucket))
        /\ w \in Enum /\ w.bucket = e.bucket + 1 /\ w.elem_list = Longer(e)
        /\ w.max = e.max /\ w.idx = e.idx /\ w.is_valid = e.is_valid
        /\ fhe' = [fhe EXCEPT ![t] = w]
        /\ pc' = [pc EXCEPT ![t] = IF more THEN "scan" ELSE IF op[t] = "enum" THEN "sort" ELSE "next"]
        /\ UNCHANGED <<h_dim, hash_table, text, op>>
    BY <1>a, <1>b, EnumScanCases
  <1>2. fhe'[t] = w /\ pc'[t] \in {"scan", "sort", "next"} /\ (pc'[t] = "scan" <=> more) /\ op'[t] = op[t]
    BY <1>1 DEF Control, Types
  <1>3. /\ e.idx = 1 /\ e.is_valid /\ From(t) = 1 /\ From(t)' = 1
        /\ Named(e, 1) /\ Scanned(e) /\ (op[t] = "destroy" => Cardinality(Present) = e.max)
    <2>1. Scanned(e) /\ Named(e, From(t)) /\ (op[t] = "destroy" => Cardinality(Present) = e.max)
      BY <1>1, <1>a DEF Listing
    <2>2. e.idx = 1 /\ e.is_valid
      BY <2>1 DEF Scanned
    <2>3. From(t) = 1 /\ From(t)' = 1
      BY <1>1, <1>2, <1>a, <2>2 DEF From
    <2> QED
      BY <2>1, <2>2, <2>3
  <1>4. /\ Named(w, 1) /\ Scanned(w)
        /\ ~(w.bucket < h_dim /\ Len(w.elem_list) < w.max) => Len(w.elem_list) = w.max
    BY <1>1, <1>3, ScanLists DEF TableInv
  <1>5. UNCHANGED <<h_dim, table>> /\ Present' = Present
    BY <1>1, PresentKept DEF table
  <1>6. Named(w, 1)' /\ Scanned(w)' /\ (Covers(w, 1) => Covers(w, 1)')
    BY <1>4, <1>5, ListingKept
  <1>7. ASSUME pc'[t] # "scan"
        PROVE  Walked(w) /\ (op[t] = "destroy" => Covers(w, 1))
    <2>1. Len(w.elem_list) = w.max
      BY <1>1, <1>2, <1>4, <1>7
    <2>2. w.max \in Nat \ {0} /\ w.idx = 1 /\ w.is_valid
      BY <1>1, <1>3 DEF Enum
    <2>3. Walked(w)
      BY <2>1, <2>2 DEF Walked
    <2> QED
      BY <1>1, <1>3, <1>4, <2>1, <2>3, ListsAll
  <1>8. Walked(w)' <=> Walked(w)
    BY DEF Walked
  <1> HIDE DEF more
  <1> QED
    BY <1>1, <1>2, <1>3, <1>5, <1>6, <1>7, <1>8 DEF Listing

\* A step that does not move an enumerator keeps its list exact.
LEMMA ListingStays ==
  ASSUME Control, TableInv, NEW t \in Threads, Start(t) \/ Hold(t) \/ Step(t), op[t] \in Enumerating,
         op'[t] = op[t], EnumStays(t), Listing(t)
  PROVE  Listing(t)'
  <1>a. PICK e : e = fhe[t]
    OBVIOUS
  <1>b. PICK from : from = From(t)
    OBVIOUS
  <1>1. fhe'[t] = e /\ e \in Enum /\ UNCHANGED h_dim /\ pc[t] # "scan"
    BY <1>a, StepOthers DEF EnumStays, Control, Locals, fixed
  <1>2. /\ Named(e, from) /\ Walked(e) /\ (op[t] = "destroy" => Covers(e, from))
        /\ pc[t] \in {"wlock", "remove", "uncount"} => e.idx <= Len(e.elem_list)
        /\ pc[t] \in {"wlock", "remove"} => Name(e, e.idx) = key[t]
    BY <1>1, <1>a, <1>b DEF Listing
  <1>3. Walked(e)'
    BY <1>2 DEF Walked
  <1>4. e.idx \in Nat \ {0} /\ Len(e.elem_list) \in Nat
    BY <1>1 DEF Enum
  <1>5. CASE UNCHANGED table /\ pc[t] # "remove"
    <2>1. /\ Named(e, from)' /\ (op[t] = "destroy" => Covers(e, from)')
          /\ \A n : Name(e, n)' = Name(e, n)
      BY <1>1, <1>2, <1>5, ListingKept
    <2>2. From(t)' = from /\ pc'[t] \in {"have", "wlock", "remove"}
      BY <1>1, <1>5, <1>a, <1>b DEF EnumStays, From
    <2>3. CASE pc'[t] = "have"
      BY <1>1, <1>3, <2>1, <2>2, <2>3 DEF Listing
    <2>4. CASE pc'[t] = "remove"
      <3>1. pc[t] = "wlock" /\ key'[t] = key[t]
        BY <2>4 DEF EnumStays
      <3> QED
        BY <1>1, <1>2, <1>3, <2>1, <2>2, <2>4, <3>1 DEF Listing
    <2>5. CASE pc'[t] = "wlock"
      <3>1. e.is_valid /\ key'[t] = Text(Current(e))
        BY <1>a, <2>5 DEF EnumStays
      <3>2. e.idx <= Len(e.elem_list)
        BY <1>2, <3>1 DEF Walked
      <3>3. Name(e, e.idx) = key'[t]
        BY <3>1, <3>2 DEF Current, Name
      <3> QED
        BY <1>1, <1>3, <2>1, <2>2, <2>5, <3>2, <3>3 DEF Listing
    <2> QED
      BY <2>2, <2>3, <2>4, <2>5
  <1>6. CASE pc[t] = "remove" /\ pc'[t] = "uncount"
    <2>1. Unlink(t) /\ op[t] \in {"clean", "destroy"}
      <3>1. op[t] \in Deleting
        BY <1>6 DEF Control, Locals
      <3> QED
        BY <1>6, <3>1 DEF Start, InsertCall, SearchCall, SearchLockCall, DelCall, Enter, EnumCall, SetAttr,
               Hold, Modify, DelLockedCall, ReleaseLock,
               Step, Reserve, Fill, FillFails, Count, Find, Uncount, EnumScan, EnumSort, EnumNext,
               CleanNext, CleanLock, Deleting, Enumerating
    <2>b. PICK k : k = key[t]
      OBVIOUS
    <2>2. k \in Present /\ Present' = Present \ {k} /\ \A p : Text(p) # k => Text(p)' = Text(p)
      BY <1>6, <2>1, <2>b, UnlinkShrinks
    <2>3. from = e.idx /\ From(t)' = e.idx + 1 /\ e.idx <= Len(e.elem_list) /\ Name(e, e.idx) = k
      BY <1>1, <1>2, <1>6, <1>a, <1>b, <2>1, <2>b DEF From
    <2> DEFINE ahead == (e.idx + 1)..Len(e.elem_list)
    <2>4. e.idx \in from..Len(e.elem_list) /\ \A n \in ahead : n \in from..Len(e.elem_list) /\ n # e.idx
      BY <1>4, <2>3
    <2>5. /\ \A n \in ahead : e.elem_list[n] # NULL /\ Name(e, n) \in Present /\ Name(e, n) # k
          /\ \A m, n \in ahead : Name(e, m) = Name(e, n) => m = n
      BY <1>2, <2>3, <2>4 DEF Named
    <2>6. \A n \in ahead : Name(e, n)' = Name(e, n)
      BY <2>2, <2>5 DEF Name
    <2>7. ASSUME op[t] = "destroy", NEW x \in Present, x # k
          PROVE  \E n \in ahead : Name(e, n) = x
      <3>1. PICK n \in from..Len(e.elem_list) : Name(e, n) = x
        BY <1>2, <2>7 DEF Covers
      <3>2. n # e.idx
        BY <2>3, <2>7, <3>1
      <3>3. n \in ahead
        BY <1>4, <2>3, <3>1, <3>2
      <3> QED
        BY <3>1, <3>3
    <2> HIDE DEF ahead
    <2>8. Named(e, e.idx + 1)'
      <3>1. \A n \in ahead : e.elem_list[n] # NULL /\ Name(e, n)' \in Present'
        BY <2>2, <2>5, <2>6
      <3>2. \A m, n \in ahead : Name(e, m)' = Name(e, n)' => m = n
        BY <2>5, <2>6
      <3> QED
        BY <3>1, <3>2 DEF Named, ahead
    <2>9. op[t] = "destroy" => Covers(e, e.idx + 1)'
      <3> SUFFICES ASSUME op[t] = "destroy" PROVE Covers(e, e.idx + 1)'
        OBVIOUS
      <3>1. \A x \in Present' : \E n \in ahead : Name(e, n)' = x
        BY <2>2, <2>6, <2>7
      <3> QED
        BY <3>1 DEF Covers, ahead
    <2> QED
      BY <1>1, <1>3, <1>6, <2>3, <2>8, <2>9 DEF Listing
  <1> QED
    BY <1>5, <1>6 DEF EnumStays

\* A step to the next key keeps the list exact.
LEMMA ListingAdvances ==
  ASSUME Control, TableInv, NEW t \in Threads, UNCHANGED h_dim, op[t] \in Enumerating,
         op'[t] = op[t], EnumAdvances(t), Listing(t)
  PROVE  Listing(t)'
  <1>a. PICK e : e = fhe[t]
    OBVIOUS
  <1>b. PICK from : from = From(t)
    OBVIOUS
  <1>c. PICK m : m = MovedOn(e)
    OBVIOUS
  <1>1. e \in Enum /\ pc[t] # "scan" /\ fhe'[t] = m /\ UNCHANGED table
    BY <1>a, <1>c DEF EnumAdvances, Control, Locals
  <1>2. /\ Named(e, from) /\ Walked(e) /\ (op[t] = "destroy" => Covers(e, from))
        /\ pc[t] = "remove" => e.idx <= Len(e.elem_list) /\ Name(e, e.idx) = key[t]
    BY <1>1, <1>a, <1>b DEF Listing
  <1>3. e.idx \in Nat \ {0} /\ Len(e.elem_list) \in Nat /\ Len(e.elem_list) = e.max
    BY <1>1, <1>2 DEF Enum, Walked
  <1>4. /\ m.idx = e.idx + 1 /\ m.is_valid = (e.idx + 1 <= Len(e.elem_list))
        /\ m.max = e.max /\ m.elem_list = e.elem_list
    BY <1>1, <1>c, MovedOnTyped
  <1>5. Walked(m)'
    <2>1. m.is_valid <=> e.idx + 1 <= Len(e.elem_list)
      BY <1>4, Zenon
    <2>2. m.is_valid <=> m.idx <= Len(m.elem_list)
      BY <1>4, <2>1, Zenon
    <2>3. Len(m.elem_list) = m.max
      BY <1>3, <1>4
    <2> QED
      BY <2>2, <2>3 DEF Walked
  <1>6. Named(m, from)' /\ (op[t] = "destroy" => Covers(m, from)')
    BY <1>1, <1>2, <1>4, ListingKept
  <1>7. ~(pc[t] = "next" /\ e.is_valid /\ Current(e) = NULL)
    <2> SUFFICES ASSUME pc[t] = "next", e.is_valid, Current(e) = NULL PROVE FALSE
      OBVIOUS
    <2>1. op[t] # "enum"
      BY DEF Control, Locals
    <2>2. from = e.idx /\ e.idx <= Len(e.elem_list)
      BY <1>2, <1>a, <1>b, <2>1 DEF From, Walked
    <2>3. e.idx \in from..Len(e.elem_list)
      BY <1>3, <2>2
    <2> QED
      BY <1>2, <2>2, <2>3 DEF Named, Current
  <1>8. ~(pc[t] = "remove" /\ FoundAt(Chain(t), key[t]) = {})
    <2> SUFFICES ASSUME pc[t] = "remove", FoundAt(Chain(t), key[t]) = {} PROVE FALSE
      OBVIOUS
    <2>1. op[t] # "enum" /\ key[t] \in Keys
      BY DEF Control, Locals, Deleting
    <2>2. from = e.idx
      BY <1>a, <1>b, <2>1 DEF From
    <2>3. e.idx \in from..Len(e.elem_list)
      BY <1>2, <1>3, <2>2
    <2>4. key[t] \in Present
      BY <1>2, <2>3 DEF Named
    <2> QED
      BY <2>1, <2>4, FoundUsed DEF TableInv, Chain
  <1>9. /\ pc'[t] = "have" \/ pc'[t] = "next"
        /\ From(t)' = from
    <2>1. CASE pc[t] = "have" /\ pc'[t] = "have"
      <3>1. op[t] = "enum"
        BY <2>1 DEF Control, Locals
      <3> QED
        BY <1>b, <2>1, <3>1 DEF From
    <2>2. CASE pc[t] = "uncount" /\ pc'[t] = "next"
      <3>1. op[t] # "enum"
        BY <2>2 DEF Control, Locals, Deleting
      <3> QED
        BY <1>1, <1>4, <1>a, <1>b, <2>2, <3>1 DEF From
    <2> QED
      BY <1>7, <1>8, <1>a, <2>1, <2>2 DEF EnumAdvances
  <1> QED
    BY <1>1, <1>5, <1>6, <1>9 DEF Listing

\* Nobody moves beside fh_destroy.
LEMMA MovesBeside ==
  ASSUME Control, NEW t \in Threads, Start(t) \/ Hold(t) \/ Step(t), NEW u \in Threads \ {t}
  PROVE  op[u] \notin Alone /\ pc[u] # "destroyed"
  <1> SUFFICES ASSUME op[u] \in Alone \/ pc[u] = "destroyed" PROVE FALSE
    OBVIOUS
  <1>1. pc[t] = "idle"
    BY DEF Control, DestroysAlone
  <1>2. ~Hold(t) /\ ~Step(t)
    BY <1>1 DEF Hold, Modify, DelLockedCall, ReleaseLock, Step, Reserve, Fill, FillFails, Count, Find,
                Unlink, Uncount, EnumScan, EnumSort, EnumNext, CleanNext, CleanLock
  <1>3. \E call : MayCall(t, call)
    BY <1>2 DEF Start, InsertCall, SearchCall, SearchLockCall, DelCall, Enter, EnumCall, SetAttr
  <1> QED
    BY <1>3 DEF MayCall

\* The steps of other threads keep the list of a calm enumerator exact.
LEMMA ListingOthers ==
  ASSUME Control, TableInv, Polite, NEW t \in Threads, Start(t) \/ Hold(t) \/ Step(t), ~no_memory',
         NEW u \in Threads \ {t}, op[u] \in Enumerating, Calm(u), Listing(u)
  PROVE  Listing(u)'
  <1>a. PICK e : e = fhe[u]
    OBVIOUS
  <1>b. PICK from : from = From(u)
    OBVIOUS
  <1>1. /\ pc'[u] = pc[u] /\ op'[u] = op[u] /\ key'[u] = key[u] /\ fhe'[u] = e
        /\ e \in Enum /\ op[u] # "destroy" /\ UNCHANGED h_dim
    BY <1>a, StepOthers, MovesBeside DEF Others, Control, Locals, Alone, fixed
  <1>2. pc[t] # "remove"
    BY <1>1 DEF Control, Locals, Polite, Calm
  <1>3. Types /\ Present \subseteq Present' /\ \A p : Text(p) # NULL => Text(p)' = Text(p)
    BY <1>2, StepGrows DEF Control
  <1>4. /\ Named(e, from)
        /\ pc[u] = "scan" => Scanned(e)
        /\ pc[u] # "scan" => Walked(e)
        /\ pc[u] \in {"wlock", "remove", "uncount"} => e.idx <= Len(e.elem_list)
        /\ pc[u] \in {"wlock", "remove"} => Name(e, e.idx) = key[u]
    BY <1>a, <1>b DEF Listing
  <1>5. from \in Nat /\ From(u)' = from /\ e.idx \in Nat \ {0} /\ Len(e.elem_list) \in Nat
    BY <1>1, <1>a, <1>b DEF From, Enum
  <1>6. pc[u] = "scan" => from = 1
    BY <1>4, <1>a, <1>b DEF From, Scanned
  <1>7. /\ Named(e, from)' /\ \A n \in from..Len(e.elem_list) : Name(e, n)' = Name(e, n)
        /\ pc[u] = "scan" => Scanned(e)'
    BY <1>1, <1>3, <1>4, <1>5, <1>6, ListingGrows
  <1>8. pc[u] # "scan" => Walked(e)'
    BY <1>4 DEF Walked
  <1>9. pc[u] \in {"wlock", "remove"} => Name(e, e.idx)' = key[u]
    <2> SUFFICES ASSUME pc[u] \in {"wlock", "remove"} PROVE Name(e, e.idx)' = key[u]
      OBVIOUS
    <2>1. op[u] # "enum"
      BY DEF Control, Locals, Deleting
    <2>2. from = e.idx
      BY <1>a, <1>b, <2>1 DEF From
    <2>3. e.idx \in from..Len(e.elem_list)
      BY <1>4, <1>5, <2>2
    <2> QED
      BY <1>4, <1>7, <2>3
  <1> QED
    BY <1>1, <1>4, <1>5, <1>7, <1>8, <1>9 DEF Listing

\* fh_destroy ends with an empty table.
LEMMA DestroyEnds ==
  ASSUME Control, TableInv, EnumInv, NEW t \in Threads, Start(t) \/ Hold(t) \/ Step(t), ~no_memory',
         pc'[t] = "destroyed"
  PROVE  Present' = {}
  <1>0. Types /\ UNCHANGED h_dim
    BY StepOthers DEF Control, fixed
  <1>1. CASE Start(t)
    <2>1. PICK call \in EntryPoints : EnumCall(t, call)
      BY <1>0, <1>1 DEF Start, InsertCall, SearchCall, SearchLockCall, DelCall, Enter, SetAttr, Goto, Types
    <2>2. /\ pc[t] = "idle" /\ call = "destroy" /\ ~(h_elements >= 1)
          /\ UNCHANGED table /\ MayCall(t, call)
      BY <1>0, <2>1 DEF EnumCall, Goto, Types
    <2>3. \A u \in Threads : pc[u] = "idle"
      BY <2>2 DEF MayCall, Alone
    <2>4. Counting = {} /\ Uncounting = {}
      BY <2>3 DEF Counting, Uncounting
    <2>5. Cardinality(Present) = 0
      BY <1>0, <2>2, <2>4, FS_EmptySet, CountsTyped DEF TableInv, Counted, Types
    <2>6. Present = {}
      BY <2>5, FS_EmptySet, CountsTyped
    <2> QED
      BY <1>0, <2>2, <2>6, PresentKept
  <1>2. CASE Hold(t)
    BY <1>0, <1>2 DEF Hold, Modify, DelLockedCall, ReleaseLock, Leave, Goto, Types
  <1>3. CASE Step(t)
    <2>1. /\ pc[t] = "next" /\ ~fhe[t].is_valid /\ UNCHANGED table /\ op[t] = "destroy"
      <3>1. CASE Reserve(t) \/ Fill(t) \/ FillFails(t) \/ Count(t) \/ Find(t)
        BY <1>0, <3>1 DEF Reserve, Refuse, Fill, FillFails, Count, Find, Leave, LeaveHolding, Goto, Types
      <3>2. CASE Unlink(t) \/ Uncount(t)
        BY <1>0, <3>2 DEF Unlink, Uncount, DelReturns, Leave, LeaveHolding, Goto, Types
      <3>3. CASE EnumScan(t) \/ EnumSort(t) \/ CleanLock(t)
        BY <1>0, <3>3 DEF EnumScan, EnumSort, CleanLock, Goto, Types
      <3>4. CASE EnumNext(t)
        <4>1. op[t] = "enum"
          BY <3>4 DEF EnumNext, Control, Locals
        <4> QED
          BY <1>0, <3>4, <4>1 DEF EnumNext, Finished, Leave, Goto, Types
      <3>5. CASE CleanNext(t)
        BY <1>0, <3>5 DEF CleanNext, Finished, Leave, Goto, Types
      <3> QED
        BY <1>3, <3>1, <3>2, <3>3, <3>4, <3>5 DEF Step
    <2>a. PICK e : e = fhe[t]
      OBVIOUS
    <2>2. e \in Enum /\ Walked(e) /\ Covers(e, e.idx)
      BY <2>1, <2>a DEF Control, Locals, Enumerating, EnumInv, Calm, Listing, From
    <2>3. e.idx \in Nat /\ Len(e.elem_list) \in Nat /\ ~(e.idx <= Len(e.elem_list))
      BY <2>1, <2>2, <2>a DEF Enum, Walked
    <2>4. \A n : n \notin e.idx..Len(e.elem_list)
      BY <2>3
    <2>5. Present = {}
      BY <2>2, <2>4 DEF Covers
    <2> QED
      BY <1>0, <2>1, <2>5, PresentKept
  <1> QED
    BY <1>1, <1>2, <1>3

\* Every step keeps what is known of the enumerators.
LEMMA EnumInvNext ==
  ASSUME Control, TableInv, Polite, EnumInv, [Next]_vars, ~no_memory'
  PROVE  EnumInv'
  <1>1. CASE UNCHANGED vars
    <2>1. UNCHANGED <<h_dim, table, pc, op, key, fhe>>
      BY <1>1 DEF vars, fixed, args
    <2>2. Present' = Present
      BY <2>1, PresentKept
    <2>3. ASSUME NEW t \in Threads, op[t] \in Enumerating, Calm(t)
          PROVE  Listing(t)'
      <3>a. PICK e : e = fhe[t]
        OBVIOUS
      <3>b. PICK from : from = From(t)
        OBVIOUS
      <3>1. Listing(t)
        BY <2>3 DEF EnumInv
      <3>2. /\ Named(e, from) => Named(e, from)'
            /\ Covers(e, from) => Covers(e, from)'
            /\ Scanned(e) => Scanned(e)'
            /\ Walked(e) => Walked(e)'
            /\ Name(e, e.idx)' = Name(e, e.idx)
        <4>1. Walked(e) => Walked(e)'
          BY DEF Walked
        <4> QED
          BY <2>1, <4>1, ListingKept
      <3>3. From(t)' = from
        BY <2>1, <3>b DEF From
      <3> QED
        BY <2>1, <2>2, <3>1, <3>2, <3>3, <3>a, <3>b DEF Listing
    <2> QED
      BY <2>1, <2>2, <2>3 DEF EnumInv, Calm
  <1>2. ASSUME NEW t \in Threads, Start(t) \/ Hold(t) \/ Step(t)
        PROVE  EnumInv'
    <2>1. Others(t) /\ UNCHANGED h_dim
      BY <1>2, StepOthers DEF Control, fixed
    <2>2. ASSUME NEW u \in Threads, op'[u] \in Enumerating, Calm(u)'
          PROVE  Listing(u)'
      <3>1. CASE u # t
        <4>1. op[u] \in Enumerating /\ Calm(u)
          BY <2>1, <2>2, <3>1 DEF Others, Calm
        <4> QED
          BY <1>2, <3>1, <4>1, ListingOthers DEF EnumInv
      <3>2. CASE u = t /\ EnumStarts(t)
        BY <2>1, <2>2, <3>2, ListingStarts
      <3>3. CASE u = t /\ op[t] \in Enumerating /\ EnumMoves(t)
        <4>1. op'[t] = op[t] /\ Calm(t)
          BY <2>2, <3>3 DEF EnumMoves, Calm
        <4>2. Listing(t)
          BY <3>3, <4>1 DEF EnumInv
        <4> QED
          BY <1>2, <2>1, <3>3, <4>1, <4>2, ListingScans, ListingStays, ListingAdvances DEF EnumMoves
      <3> QED
        BY <1>2, <2>2, <3>1, <3>2, <3>3, EnumCases
    <2>3. ASSUME NEW u \in Threads, pc'[u] = "destroyed"
          PROVE  Present' = {}
      <3>1. CASE u # t
        BY <1>2, <2>1, <2>3, <3>1, MovesBeside DEF Others
      <3>2. CASE u = t
        BY <1>2, <2>3, <3>2, DestroyEnds
      <3> QED
        BY <3>1, <3>2
    <2> QED
      BY <2>2, <2>3 DEF EnumInv
  <1> QED
    BY <1>1, <1>2 DEF Next, Destroyed
-----------------------------------------------------------------------------
(***************************************************************************)
(* The theorems on strings and enumerators                                 *)
(***************************************************************************)
LEMMA MemoryStays ==
  ASSUME [Next]_vars, ~no_memory'
  PROVE  ~no_memory
  <1>1. CASE UNCHANGED vars
    BY <1>1 DEF vars
  <1>2. ASSUME NEW t \in Threads, Start(t) \/ Hold(t) \/ Step(t)
        PROVE  ~no_memory
    BY <1>2 DEF Start, InsertCall, SearchCall, SearchLockCall, DelCall, Enter, EnumCall, SetAttr,
                Hold, Modify, DelLockedCall, ReleaseLock,
                Step, Reserve, Fill, FillFails, Count, Find, Unlink, Uncount, EnumScan, EnumSort, EnumNext,
                CleanNext, CleanLock
  <1> QED
    BY <1>1, <1>2 DEF Next, Destroyed

FhInv == HashInv /\ EnumBounds /\ Polite /\ (~no_memory => EnumInv)

\* A new table satisfies the whole invariant.
LEMMA FhInit == Init => FhInv
  <1> SUFFICES ASSUME Init PROVE FhInv
    OBVIOUS
  <1>1. \A t \in Threads : op[t] = "none" /\ pc[t] = "idle"
    BY DEF Init
  <1>2. EnumBounds /\ Polite /\ EnumInv
    BY <1>1 DEF EnumBounds, Polite, EnumInv, Enumerating
  <1> QED
    BY <1>2, HashInit DEF FhInv

\* Every step keeps the whole invariant.
LEMMA FhNext == FhInv /\ [Next]_vars => FhInv'
  <1> SUFFICES ASSUME FhInv, [Next]_vars PROVE FhInv'
    OBVIOUS
  <1>1. HashInv /\ Control
    BY DEF FhInv, HashInv
  <1>2. HashInv' /\ EnumBounds' /\ Polite'
    BY <1>1, HashNext, BoundsNext, PoliteNext DEF FhInv
  <1>3. ~no_memory' => EnumInv'
    BY <1>1, MemoryStays, EnumInvNext DEF FhInv, HashInv
  <1> QED
    BY <1>2, <1>3 DEF FhInv

\* The invariant implies StringsOwned.
LEMMA StringsGives ==
  ASSUME Control, TableInv, EnumInv
  PROVE  StringsOwned
  <1>0. Types /\ TableSound
    BY DEF Control, TableInv
  <1>1. ASSUME NEW t \in Threads, pc[t] = "destroyed"
        PROVE  Used = {} /\ \A p \in Ptrs : text[p] = NULL
    <2>1. Present = {}
      BY <1>1 DEF EnumInv
    <2>2. \A u \in Threads : pc[u] # "fill"
      BY <1>1 DEF Control, DestroysAlone
    <2>3. Entries = {}
      BY <1>0, <2>1, PresentEntries
    <2>4. Used \ Entries = {}
      BY <1>0, <2>2, UnfilledReserved DEF Reserved
    <2>5. \A p \in Ptrs : text[p] = NULL
      <3> SUFFICES ASSUME NEW p \in Ptrs, text[p] # NULL PROVE FALSE
        OBVIOUS
      <3>1. PICK s \in UsedAt(Index(text[p])) : s.key = p
        BY DEF TableInv, StringsInTable
      <3>2. text[p] \in Keys /\ Text(s.key) = text[p]
        BY <1>0, <3>1 DEF Text, Types
      <3> QED
        BY <2>1, <3>2 DEF Present
    <2> QED
      BY <2>3, <2>4, <2>5
  <1> QED
    BY <1>1, StringsOnce DEF StringsOwned, DestroyedClean

\* An element that an enumerator will still visit is a string of the table.
LEMMA AheadSafe ==
  ASSUME NEW e \in Enum, NEW from, Named(e, from), NEW n \in from..Len(e.elem_list)
  PROVE  e.elem_list[n] # NULL /\ Text(e.elem_list[n]) # NULL
  <1>1. e.elem_list[n] # NULL /\ Text(e.elem_list[n]) \in Present
    BY DEF Named, Name
  <1> QED
    BY <1>1, FastHashAssumption DEF Present

\* The invariant implies DerefSafe for guarded callers.
LEMMA DerefGives ==
  ASSUME Guarded, Control, TableInv, EnumInv
  PROVE  DerefSafe
  <1> SUFFICES ASSUME NEW t \in Threads, NEW p \in Reads(t) PROVE p # NULL /\ Text(p) # NULL
    BY DEF DerefSafe
  <1>0. Types /\ TableSound /\ Locals(t)
    BY DEF Control, TableInv
  <1>1. CASE pc[t] \in {"reserve", "find"} \/ (pc[t] = "remove" /\ op[t] \notin Enumerating)
    <2>1. PICK q \in Used : q[1] = Index(key[t]) /\ p = At(q).key
      BY <1>1 DEF Reads
    <2>2. SlotSound(q[1], At(q))
      BY <1>0, <2>1, EntriesAt
    <2>3. InSection(t) /\ pc[t] # "fill"
      BY <1>1 DEF InSection
    <2>4. \A u \in Threads : pc[u] = "fill" => Index(key[u]) # Index(key[t])
      BY <2>3, NoOtherFill
    <2>5. p # NULL /\ Text(p) \in Keys
      BY <2>1, <2>2, <2>4 DEF SlotSound
    <2> QED
      BY <2>5, FastHashAssumption
  <1>2. CASE /\ pc[t] \in {"next", "sort", "have"} \/ (pc[t] = "remove" /\ op[t] \in Enumerating)
    <2>a. PICK e : e = fhe[t]
      OBVIOUS
    <2>1. op[t] \in Enumerating /\ e \in Enum
      BY <1>0, <1>2, <2>a DEF Locals, Enumerating
    <2>2. Named(e, From(t)) /\ Walked(e) /\ (pc[t] = "remove" => e.idx <= Len(e.elem_list))
      BY <1>2, <2>1, <2>a DEF EnumInv, Calm, Listing
    <2>3. e.idx \in Nat \ {0} /\ Len(e.elem_list) \in Nat /\ DOMAIN e.elem_list = 1..Len(e.elem_list)
      BY <2>1 DEF Enum
    <2>4. CASE pc[t] = "sort"
      <3>1. op[t] = "enum" /\ p \in Range(e.elem_list)
        BY <1>0, <2>4, <2>a DEF Reads, Locals
      <3>2. PICK n \in 1..Len(e.elem_list) : p = e.elem_list[n]
        BY <2>3, <3>1 DEF Range
      <3>3. From(t) = 1
        BY <3>1 DEF From
      <3> QED
        BY <2>1, <2>2, <3>2, <3>3, AheadSafe
    <2>5. CASE pc[t] # "sort"
      <3>1. p = Current(e) /\ (pc[t] # "remove" => e.is_valid)
        BY <1>2, <2>5, <2>a DEF Reads
      <3>2. e.idx <= Len(e.elem_list)
        BY <2>2, <3>1 DEF Walked
      <3>3. From(t) = 1 \/ From(t) = e.idx
        BY <1>2, <2>a DEF From
      <3>4. e.idx \in From(t)..Len(e.elem_list)
        BY <2>3, <3>2, <3>3
      <3>5. p = e.elem_list[e.idx]
        BY <3>1, <3>2 DEF Current
      <3> QED
        BY <2>1, <2>2, <3>4, <3>5, AheadSafe
    <2> QED
      BY <2>4, <2>5
  <1> QED
    BY <1>1, <1>2 DEF Reads

\* The invariant implies EnumExact for guarded callers.
LEMMA ExactGives ==
  ASSUME Guarded, Control, TableInv, EnumInv
  PROVE  EnumExact
  <1> SUFFICES ASSUME NEW t \in Threads, pc[t] = "have", op[t] = "enum"
               PROVE  LET list == [j \in DOMAIN fhe[t].elem_list |-> Text(fhe[t].elem_list[j])]
                          present == {Text(At(pl).key) : pl \in Entries}
                      IN  /\ Len(list) = fhe[t].max
                          /\ IsInjective(list)
                          /\ Range(list) \subseteq present
                          /\ Cardinality(present) = fhe[t].max => Range(list) = present
    BY DEF EnumExact
  <1>a. PICK e : e = fhe[t]
    OBVIOUS
  <1>b. PICK list : list = [j \in DOMAIN e.elem_list |-> Text(e.elem_list[j])]
    OBVIOUS
  <1>1. e \in Enum /\ Named(e, 1) /\ Walked(e)
    BY <1>a DEF Control, Locals, Enumerating, EnumInv, Calm, Listing, From
  <1>2. Present = {Text(At(pl).key) : pl \in Entries}
    BY PresentEntries DEF TableInv
  <1>3. DOMAIN e.elem_list = 1..Len(e.elem_list) /\ Len(e.elem_list) = e.max /\ e.max \in Nat
    BY <1>1 DEF Enum, Walked
  <1>4. DOMAIN list = 1..e.max /\ Len(list) = e.max /\ \A n \in 1..e.max : list[n] = Name(e, n)
    <2>1. list = [j \in 1..e.max |-> Text(e.elem_list[j])]
      BY <1>3, <1>b
    <2> QED
      BY <1>3, <2>1 DEF Name
  <1>5. IsInjective(list) /\ Range(list) \subseteq Present
    BY <1>1, <1>3, <1>4 DEF Named, IsInjective, Range
  <1>6. ASSUME Cardinality(Present) = e.max
        PROVE  Range(list) = Present
    <2>1. Covers(e, 1)
      BY <1>1, <1>3, <1>6, ListsAll
    <2> QED
      BY <1>3, <1>4, <1>5, <2>1 DEF Covers, Range
  <1> QED
    BY <1>2, <1>4, <1>5, <1>6, <1>a, <1>b

\* A key string of the heap is in exactly one slot of the table, from the strdup
\* of fh_insert to the free of _fh_del, whatever the clients do; fh_destroy leaves
\* none behind.
THEOREM OwnedStrings == Spec => [](no_memory \/ StringsOwned)
  <1>1. FhInv => no_memory \/ StringsOwned
    BY StringsGives DEF FhInv, HashInv
  <1> QED
    BY <1>1, FhInit, FhNext, PTL DEF Spec

\* With clients that do not delete while others enumerate, neither a search along
\* a chain nor an enumerator, which has no lock when it sorts, walks or cleans,
\* reads a string that was freed.
THEOREM SafeReads == Spec => [](Guarded /\ ~no_memory => DerefSafe)
  <1>1. FhInv => (Guarded /\ ~no_memory => DerefSafe)
    BY DerefGives DEF FhInv, HashInv
  <1> QED
    BY <1>1, FhInit, FhNext, PTL DEF Spec

\* With such clients an enumerator has as many elements as h_elements said when
\* fh_enum_create read it, none twice and none that is not in the table, although
\* inserts go on while it scans the buckets.
THEOREM ExactEnumerators == Spec => [](Guarded /\ ~no_memory => EnumExact)
  <1>1. FhInv => (Guarded /\ ~no_memory => EnumExact)
    BY ExactGives DEF FhInv, HashInv
  <1> QED
    BY <1>1, FhInit, FhNext, PTL DEF Spec
-----------------------------------------------------------------------------
(***************************************************************************)
(* The domains of the variables                                            *)
(***************************************************************************)
\* A chain has no more buckets than there are keys: each bucket has a slot in
\* use, and the keys of two such slots, stored or about to be, are different.
LEMMA ChainShort ==
  ASSUME Control, TableSound, NEW i \in Chains
  PROVE  Len(hash_table[i]) <= Cardinality(Keys)
  <1>a. PICK chain : chain = hash_table[i]
    OBVIOUS
  <1>b. PICK top : top = Len(chain)
    OBVIOUS
  <1> DEFINE place(b) == CHOOSE p \in Positions(chain) : p[1] = b /\ SlotAt(chain, p).mini # 0
             slot(b) == SlotAt(chain, place(b))
             filler == CHOOSE u \in Threads : pc[u] = "fill" /\ Index(key[u]) = i
             owner(s) == IF s.key # NULL THEN Text(s.key) ELSE key[filler]
             f == [b \in 1..top |-> owner(slot(b))]
  <1>0. Types
    BY DEF Control
  <1>1. chain \in Seq(Bucket) /\ top \in Nat /\ WellFormed(chain)
    BY <1>0, <1>a, <1>b, UsedTyped DEF TableSound
  <1>2. ASSUME NEW b \in 1..top
        PROVE  /\ place(b) \in Positions(chain) /\ place(b)[1] = b
               /\ slot(b) \in UsedAt(i) /\ slot(b).mini # 0
    <2>1. chain[b] # EmptyBucket /\ chain[b] \in Bucket
      BY <1>1, <1>b DEF WellFormed
    <2>2. PICK j \in 1..BUCKET_SIZE : chain[b][j] # EmptySlot
      BY <2>1 DEF EmptyBucket, Bucket
    <2>a. PICK p : p = <<b, j>>
      OBVIOUS
    <2>3. p \in Positions(chain) /\ p[1] = b /\ SlotAt(chain, p) = chain[b][j]
      BY <1>b, <2>a DEF Positions, SlotAt
    <2>4. SlotAt(chain, p).mini # 0
      BY <1>1, <2>2, <2>3 DEF WellFormed
    <2>5. place(b) \in Positions(chain) /\ place(b)[1] = b /\ slot(b).mini # 0
      BY <2>3, <2>4
    <2> HIDE DEF place
    <2> QED
      BY <1>a, <2>5 DEF UsedAt, UsedIn, SlotsOf
  <1> HIDE DEF place, slot
  <1>3. ASSUME NEW s \in UsedAt(i), s.key = NULL
        PROVE  /\ filler \in Threads /\ pc[filler] = "fill" /\ Index(key[filler]) = i
               /\ key[filler] \in Keys /\ s = ReservedSlot(key[filler])
    <2>1. PICK u \in Threads : pc[u] = "fill" /\ Index(key[u]) = i /\ s.mini = MiniHash(key[u])
      BY <1>3 DEF TableSound, SlotSound
    <2>2. filler \in Threads /\ pc[filler] = "fill" /\ Index(key[filler]) = i
      BY <2>1
    <2> HIDE DEF filler
    <2>3. InSection(u)
      BY <2>1 DEF InSection
    <2>4. filler = u
      BY <2>1, <2>2, <2>3, NoOtherFill
    <2>5. key[u] \in Keys
      BY <2>1 DEF Control, Locals
    <2>6. s.obj = NULL /\ s \in Slot
      BY <1>0, <1>3, UsedTyped DEF TableSound, SlotSound
    <2>7. s = ReservedSlot(key[u])
      BY <1>3, <2>1, <2>6 DEF ReservedSlot, Slot
    <2> QED
      BY <2>2, <2>4, <2>5, <2>7
  <1>4. ASSUME NEW s \in UsedAt(i), s.key # NULL
        PROVE  Text(s.key) \in Keys /\ (pc[filler] = "fill" /\ filler \in Threads /\ Index(key[filler]) = i
                                            => Text(s.key) # key[filler])
    BY <1>4 DEF TableSound, SlotSound, Fills
  <1> HIDE DEF filler
  <1>5. \A s \in UsedAt(i) : owner(s) \in Keys
    BY <1>3, <1>4
  <1>6. ASSUME NEW r \in UsedAt(i), NEW s \in UsedAt(i), owner(r) = owner(s)
        PROVE  r = s
    <2>1. CASE r.key = NULL /\ s.key = NULL
      BY <1>3, <2>1
    <2>2. CASE r.key = NULL /\ s.key # NULL
      BY <1>3, <1>4, <1>6, <2>2
    <2>3. CASE r.key # NULL /\ s.key = NULL
      BY <1>3, <1>4, <1>6, <2>3
    <2>4. CASE r.key # NULL /\ s.key # NULL
      BY <1>6, <2>4 DEF TableSound
    <2> QED
      BY <2>1, <2>2, <2>3, <2>4
  <1> HIDE DEF owner
  <1>7. f \in [1..top -> Keys]
    BY <1>2, <1>5
  <1>8. ASSUME NEW b \in 1..top, NEW c \in 1..top, f[b] = f[c]
        PROVE  b = c
    <2>1. owner(slot(b)) = owner(slot(c))
      BY <1>8
    <2>2. slot(b) = slot(c)
      BY <1>2, <1>6, <2>1
    <2>3. SlotAt(chain, place(b)) = SlotAt(chain, place(c)) /\ SlotAt(chain, place(b)).mini # 0
      BY <1>2, <2>2 DEF slot
    <2>4. place(b) = place(c)
      BY <1>1, <1>2, <2>3 DEF WellFormed
    <2> QED
      BY <1>2, <2>4
  <1> HIDE DEF f
  <1>9. f \in Injection(1..top, Keys)
    BY <1>7, <1>8 DEF Injection, IsInjective
  <1>10. IsFiniteSet(Keys) /\ Cardinality(1..top) = top
    BY <1>1, FS_Interval, FastHashAssumption
  <1> QED
    BY <1>9, <1>10, <1>a, <1>b, FS_Injection

\* The invariant implies TypeOK.
LEMMA TypesGive ==
  ASSUME Control, TableInv, EnumBounds
  PROVE  TypeOK
  <1>0. Types
    BY DEF Control
  <1>a. PICK keys, threads : keys = Cardinality(Keys) /\ threads = Cardinality(Threads)
    OBVIOUS
  <1>1. keys \in Nat /\ threads \in Nat
    BY <1>a, FS_CardinalityType, FastHashAssumption
  <1>2. h_elements \in (0 - threads)..(keys + threads)
    <2>a. PICK p, u, c : p = Cardinality(Present) /\ u = Cardinality(Uncounting) /\ c = Cardinality(Counting)
      OBVIOUS
    <2>1. p \in Nat /\ u \in Nat /\ c \in Nat /\ p <= keys /\ u <= threads /\ c <= threads
      BY <1>a, <2>a, CountsTyped
    <2>2. h_elements = p + u - c
      BY <2>a DEF TableInv, Counted
    <2> QED
      BY <1>1, <2>1, <2>2
  <1>3. /\ DOMAIN hash_table = 0..(h_dim - 1)
        /\ \A i \in DOMAIN hash_table : \A b \in DOMAIN hash_table[i] :
              hash_table[i][b] \in [1..BUCKET_SIZE -> Slot]
    <2>1. DOMAIN hash_table = 0..(h_dim - 1) /\ \A i \in DOMAIN hash_table : hash_table[i] \in Seq(Bucket)
      BY <1>0 DEF Types
    <2>2. \A chain \in Seq(Bucket) : \A b \in DOMAIN chain : chain[b] \in Bucket
      OBVIOUS
    <2> QED
      BY <2>1, <2>2 DEF Bucket
  <1>4. at \in [Threads -> ChainPositions \cup {NULL}]
    <2> SUFFICES ASSUME NEW t \in Threads PROVE at[t] \in ChainPositions \cup {NULL}
      BY <1>0 DEF Types
    <2>1. CASE pc[t] # "fill"
      BY <2>1 DEF Control, Locals
    <2>2. CASE pc[t] = "fill"
      <3>1. Index(key[t]) \in Chains /\ at[t] \in Positions(Chain(t))
        BY <1>0, <2>2, IndexIn DEF Control, Locals, TableInv, TableSound, Fills
      <3>2. Chain(t) \in Seq(Bucket) /\ Len(Chain(t)) <= keys
        BY <1>0, <1>a, <3>1, UsedTyped, ChainShort DEF Chain, TableInv
      <3>3. at[t] \in (1..Len(Chain(t))) \X (1..BUCKET_SIZE)
        BY <3>1 DEF Positions
      <3>4. Len(Chain(t)) \in Nat
        BY <3>2
      <3>5. \A x \in 1..Len(Chain(t)) : x \in 1..keys
        BY <1>1, <3>2, <3>4
      <3> QED
        BY <1>a, <3>3, <3>5 DEF ChainPositions
    <2> QED
      BY <2>1, <2>2
  <1>5. \A t \in Threads : fhe[t] # NULL =>
           Len(fhe[t].elem_list) <= fhe[t].max /\ fhe[t].idx \in 1..(fhe[t].max + 1)
    <2> SUFFICES ASSUME NEW t \in Threads, fhe[t] # NULL
                 PROVE  Len(fhe[t].elem_list) <= fhe[t].max /\ fhe[t].idx \in 1..(fhe[t].max + 1)
      OBVIOUS
    <2>1. op[t] \in Enumerating /\ fhe[t] \in Enum
      BY DEF Control, Locals
    <2>2. Len(fhe[t].elem_list) <= fhe[t].max /\ fhe[t].idx <= fhe[t].max + 1
      BY <2>1 DEF EnumBounds, Walks
    <2>3. fhe[t].idx \in Nat \ {0} /\ fhe[t].max \in Nat
      BY <2>1 DEF Enum
    <2> QED
      BY <2>2, <2>3
  <1>6. /\ h_dim \in Nat \ {0} /\ n_lock \in Nat \ {0}
        /\ use_rw \in BOOLEAN /\ dont_copy \in BOOLEAN /\ no_memory \in BOOLEAN
    BY <1>0 DEF Types
  <1>7. /\ text \in [Ptrs -> Keys \cup {NULL}]
        /\ writer \in [0..(n_lock - 1) -> Threads \cup {NULL}]
        /\ readers \in [0..(n_lock - 1) -> SUBSET Threads]
        /\ op \in [Threads -> EntryPoints \cup {"none", "dellocked"}]
        /\ key \in [Threads -> Keys \cup {NULL}]
        /\ block \in [Threads -> Data \cup {NULL}]
    BY <1>0 DEF Types
  <1> QED
    BY <1>2, <1>3, <1>4, <1>5, <1>6, <1>7, <1>a DEF TypeOK

\* Every variable stays in its domain: the counter, changed outside of the bucket
\* locks, is off by at most one for each thread, no chain has more buckets than
\* there are keys, and fh_enum_create does not write past its array although the
\* table changes while it lists it.
THEOREM Typing == Spec => [](no_memory \/ TypeOK)
  <1>1. FhInv => no_memory \/ TypeOK
    BY TypesGive DEF FhInv, HashInv
  <1> QED
    BY <1>1, FhInit, FhNext, PTL DEF Spec
-----------------------------------------------------------------------------
(***************************************************************************)
(* The table is a map                                                      *)
(***************************************************************************)
TheMap == [k \in Keys |-> DataOf(k)]
TheHolds == [t \in Threads |-> HeldBy(t)]

\* The map has what is stored for a key.
Shows(k) ==
    /\ k \notin Present => DataOf(k) = ABSENT
    /\ k \in Present => DataOf(k) # ABSENT /\ Stored(k, DataOf(k))
    /\ \A d : Stored(k, d) => DataOf(k) = d

\* The map shows, for each key, the data of the slot that has it.
LEMMA MapShows == Control /\ TableSound => \A k \in Keys : Shows(k)
  <1> SUFFICES ASSUME Control, TableSound, NEW k \in Keys PROVE Shows(k)
    OBVIOUS
  <1> DEFINE i == Index(k)
             chain == hash_table[i]
             S == {c \in SlotsOf(chain) : Text(c.key) = k}
             data == {s.obj : s \in S}
  <1>0. Types
    BY DEF Control
  <1>1. i \in Chains /\ Text(NULL) = NULL /\ k # NULL
    BY <1>0, IndexIn, TextTyped
  <1>2. \A c \in S : c \in UsedAt(i)
    <2> SUFFICES ASSUME NEW c \in S, c.mini = 0 PROVE FALSE
      BY DEF UsedAt, UsedIn
    <2>1. PICK p \in Positions(chain) : c = SlotAt(chain, p)
      BY DEF SlotsOf
    <2>2. c = EmptySlot
      BY <1>1, <2>1 DEF TableSound, WellFormed
    <2> QED
      BY <1>1, <2>2 DEF EmptySlot
  <1>3. S = {s \in UsedAt(i) : Text(s.key) = k}
    BY <1>2 DEF UsedAt, UsedIn
  <1>4. DataOf(k) = IF data \subseteq {NULL} THEN ABSENT ELSE CHOOSE d \in data : d # NULL
    BY DEF DataOf
  <1>5. CASE S = {}
    <2>1. k \notin Present /\ \A d : ~Stored(k, d)
      BY <1>3, <1>5 DEF Present, Stored
    <2>2. DataOf(k) = ABSENT
      BY <1>4, <1>5
    <2> QED
      BY <2>1, <2>2 DEF Shows
  <1>6. CASE S # {}
    <2>1. PICK s \in UsedAt(i) : Text(s.key) = k
      BY <1>3, <1>6
    <2>2. s.key # NULL
      BY <1>1, <2>1
    <2>3. s.obj \notin {NULL, ABSENT} /\ \A r \in UsedAt(i) : Text(r.key) = k => r = s
      BY <1>1, <2>1, <2>2 DEF TableSound, SlotSound
    <2>4. S = {s}
      BY <1>3, <2>1, <2>3
    <2>5. data = {s.obj}
      BY <2>4
    <2> HIDE DEF data
    <2>6. DataOf(k) = s.obj
      BY <1>4, <2>3, <2>5
    <2>7. k \in Present /\ Stored(k, s.obj) /\ \A d : Stored(k, d) => d = s.obj
      BY <2>1, <2>3 DEF Present, Stored
    <2> QED
      BY <2>3, <2>6, <2>7 DEF Shows
  <1> QED
    BY <1>5, <1>6

\* The map changes where the stored data do.
LEMMA DataKept ==
  ASSUME NEW x, Shows(x), Shows(x)', x \in Present' <=> x \in Present,
         \A d : Stored(x, d) => Stored(x, d)'
  PROVE  DataOf(x)' = DataOf(x)
  <1>1. CASE x \in Present
    <2>1. PICK d : d = DataOf(x)
      OBVIOUS
    <2>2. Stored(x, d)'
      BY <1>1, <2>1 DEF Shows
    <2>3. DataOf(x)' = d
      BY <2>2 DEF Shows
    <2> QED
      BY <2>1, <2>3
  <1>2. CASE x \notin Present
    BY <1>2 DEF Shows
  <1> QED
    BY <1>1, <1>2

\* The map is unchanged when keys and data are.
LEMMA MapKept ==
  ASSUME \A x \in Keys : Shows(x), \A x \in Keys : Shows(x)',
         Present' = Present, \A x \in Keys : \A d : Stored(x, d) => Stored(x, d)'
  PROVE  TheMap' = TheMap
  <1>1. \A x \in Keys : DataOf(x)' = DataOf(x)
    BY DataKept
  <1> QED
    BY <1>1 DEF TheMap

\* The map after a key has been given its data.
LEMMA MapPut ==
  ASSUME \A x \in Keys : Shows(x), \A x \in Keys : Shows(x)', NEW k \in Keys, NEW c, Stored(k, c)',
         Present' = Present \cup {k}, \A x \in Keys \ {k} : \A d : Stored(x, d) => Stored(x, d)'
  PROVE  TheMap' = [TheMap EXCEPT ![k] = c]
  <1>1. DataOf(k)' = c
    BY DEF Shows
  <1>2. \A x \in Keys \ {k} : DataOf(x)' = DataOf(x)
    BY DataKept
  <1> QED
    BY <1>1, <1>2 DEF TheMap

\* The map after a key has been removed.
LEMMA MapCut ==
  ASSUME \A x \in Keys : Shows(x), \A x \in Keys : Shows(x)', NEW k \in Keys,
         Present' = Present \ {k}, \A x \in Keys \ {k} : \A d : Stored(x, d) => Stored(x, d)'
  PROVE  TheMap' = [TheMap EXCEPT ![k] = ABSENT]
  <1>1. DataOf(k)' = ABSENT
    BY DEF Shows
  <1>2. \A x \in Keys \ {k} : DataOf(x)' = DataOf(x)
    BY DataKept
  <1> QED
    BY <1>1, <1>2 DEF TheMap

\* The map is unchanged when the table is.
LEMMA MapUntouched ==
  ASSUME UNCHANGED <<h_dim, table>>
  PROVE  TheMap' = TheMap
  <1>1. \A x : DataOf(x)' = DataOf(x)
    BY DEF DataOf, Text, Index, table
  <1> QED
    BY <1>1 DEF TheMap

\* What a thread holds.
LEMMA HeldTyped ==
  ASSUME Control, NEW t \in Threads
  PROVE  /\ HeldBy(t) = NULL <=> pc[t] # "held" /\ op[t] # "dellocked"
         /\ HeldBy(t) # NULL => HeldBy(t) = key[t] /\ key[t] \in Keys /\ InSection(t) /\ op[t] # "search"
  <1>1. Types /\ Locals(t) /\ NULL \notin Keys
    BY FastHashAssumption DEF Control
  <1>2. pc[t] = "held" => key[t] \in Keys /\ InSection(t) /\ op[t] = "none"
    BY <1>1 DEF Locals, InSection
  <1>3. op[t] = "dellocked" => pc[t] \in {"remove", "uncount"}
    BY <1>1 DEF Locals, Types, PCs, Enumerating
  <1>4. op[t] = "dellocked" => key[t] \in Keys /\ InSection(t)
    BY <1>1, <1>3 DEF Locals, InSection
  <1> QED
    BY <1>1, <1>2, <1>4 DEF HeldBy

\* A step of a thread changes what this thread holds, at most.
LEMMA HoldsMove ==
  ASSUME NEW t \in Threads, Others(t)
  PROVE  TheHolds' = [TheHolds EXCEPT ![t] = HeldBy(t)']
  <1>1. \A u \in Threads \ {t} : HeldBy(u)' = HeldBy(u)
    BY DEF Others, HeldBy
  <1> QED
    BY <1>1 DEF TheHolds

\* If it does not, nothing changes in what is held.
LEMMA HoldsKept ==
  ASSUME NEW t \in Threads, Others(t), HeldBy(t)' = HeldBy(t)
  PROVE  TheHolds' = TheHolds
  BY HoldsMove DEF TheHolds

\* A thread in its critical section has the entry for itself.
LEMMA KeyReachable ==
  ASSUME Control, NEW t \in Threads, InSection(t)
  PROVE  Map!Reachable(t, key[t])
  <1>1. \A u \in Threads \ {t} : HeldBy(u) # key[t]
    <2> SUFFICES ASSUME NEW u \in Threads \ {t}, HeldBy(u) = key[t] PROVE FALSE
      OBVIOUS
    <2>1. key[t] # NULL
      BY FastHashAssumption DEF Control, Locals, InSection
    <2>2. HeldBy(u) = key[u] /\ InSection(u) /\ op[u] # "search"
      BY <2>1, HeldTyped
    <2> QED
      BY <2>2, ControlGives DEF MutualExclusion
  <1> QED
    BY <1>1 DEF Map!Reachable

\* A step that answers nothing answers nothing in HashMap.
LEMMA QuietShown ==
  ASSUME Quiet
  PROVE  Map!Quiet
  BY DEF Quiet, NoResults, NoResult, Result, Map!Quiet, Map!Fading, Map!NoResult, Map!Result

\* An answer of the table is the same answer of HashMap.
LEMMA AnswerShown ==
  ASSUME NEW t \in Threads, NEW code, NEW val, NEW call, Answer(t, code, val), call # "none",
         call = IF op[t] \in {"clean", "destroy"} THEN "del" ELSE op[t]
  PROVE  Map!Answer(t, call, key[t], code, val) /\ res'[t] # Map!NoResult
  <1>1. res' = [NoResults EXCEPT ![t] = Result(call, key[t], code, val)]
    BY DEF Answer
  <1>2. /\ DOMAIN res' = Threads /\ res'[t] = Result(call, key[t], code, val)
        /\ \A u \in Threads \ {t} : res'[u] = NoResult
    BY <1>1 DEF NoResults
  <1>3. Map!NoResult = NoResult /\ Map!Result(call, key[t], code, val) = Result(call, key[t], code, val)
    BY DEF NoResult, Result, Map!NoResult, Map!Result
  <1>4. Result(call, key[t], code, val) # NoResult
    BY DEF Result, NoResult
  <1> QED
    BY <1>2, <1>3, <1>4 DEF Map!Answer, Map!Fading

\* A step that shows nothing but the end of an answer is a step of HashMap.
LEMMA ForgetStep ==
  ASSUME Quiet, TheMap' = TheMap, TheHolds' = TheHolds
  PROVE  Map!Next
  <1>1. Map!Forget
    BY QuietShown DEF Map!Forget, TheMap, TheHolds
  <1> QED
    BY <1>1 DEF Map!Next

\* An answered call is a step of HashMap.
LEMMA CallStep ==
  ASSUME NEW t \in Threads, res'[t] # Map!NoResult,
         \/ \E k \in Keys, d \in Data, keep \in BOOLEAN : Map!Insert(t, k, d, keep)
         \/ \E k \in Keys, keep \in BOOLEAN : Map!Search(t, k, keep)
         \/ \E k \in Keys, locked \in BOOLEAN : Map!Delete(t, k, locked)
  PROVE  Map!Next
  BY DEF Map!Next, Map!Call

\* fh_insert and fh_insertlock take effect when the slot is filled, or when
\* they refuse.
LEMMA FillMaps ==
  ASSUME Control, TableInv, \A x \in Keys : Shows(x), \A x \in Keys : Shows(x)',
         NEW t \in Threads, Fill(t)
  PROVE  Map!Next
  <1>k. PICK k : k = key[t]
    OBVIOUS
  <1>d. PICK d : d = block[t]
    OBVIOUS
  <1>0. Types /\ Locals(t)
    BY DEF Control
  <1>1. Others(t) /\ UNCHANGED <<h_dim, dont_copy>> /\ pc[t] = "fill"
    BY StepOthers DEF Control, fixed, Fill, Step, attrs
  <1>2. k \in Keys /\ d \in Data /\ op[t] \in {"insert", "insertlock"} /\ InSection(t) /\ k # NULL
    BY <1>0, <1>1, <1>k, <1>d, FastHashAssumption DEF Locals, InSection
  <1>3. PICK p \in Ptrs \cup {key[t]} :
           /\ KeyCopy(t, p)
           /\ hash_table' = [hash_table EXCEPT ![Index(key[t])] =
                  WithSlot(@, at[t], [mini |-> MiniHash(key[t]), key |-> p, obj |-> block[t]])]
    BY DEF Fill
  <1>4. pc'[t] # "fill"
    BY <1>0 DEF Fill, LeaveHolding, Goto, Types
  <1>5. /\ k \notin Present /\ Present' = Present \cup {k} /\ Stored(k, d)'
        /\ \A x \in Keys : \A c : Stored(x, c) => Stored(x, c)'
    BY <1>1, <1>3, <1>4, <1>k, <1>d, TableFilled DEF TableInv, Others
  <1>6. TheMap' = [TheMap EXCEPT ![k] = d] /\ TheMap[k] = ABSENT
    <2>1. DataOf(k) = ABSENT
      BY <1>2, <1>5 DEF Shows
    <2> QED
      BY <1>2, <1>5, <2>1, MapPut DEF TheMap
  <1>7. HeldBy(t) = NULL
    BY <1>1, <1>2 DEF HeldBy
  <1>8. Map!Reachable(t, k)
    BY <1>2, <1>k, KeyReachable
  <1>9. Map!Answer(t, op[t], k, "FH_OK", d) /\ res'[t] # Map!NoResult
    BY <1>2, <1>k, <1>d, AnswerShown DEF Fill
  <1>10. CASE op[t] = "insert"
    <2>1. pc'[t] = "count" /\ op'[t] = "insert"
      BY <1>0, <1>10 DEF Fill, Goto, args, Types
    <2>2. HeldBy(t)' = NULL
      BY <2>1 DEF HeldBy
    <2>3. TheHolds' = TheHolds
      BY <1>1, <1>7, <2>2, HoldsKept
    <2>4. Map!Insert(t, k, d, FALSE)
      BY <1>6, <1>7, <1>8, <1>9, <1>10, <2>3 DEF Map!Insert, TheMap, TheHolds
    <2> QED
      BY <1>2, <1>9, <2>4, CallStep
  <1>11. CASE op[t] = "insertlock"
    <2>1. pc'[t] = "held" /\ key'[t] = k
      BY <1>0, <1>11, <1>k DEF Fill, LeaveHolding, Goto, Types
    <2>2. HeldBy(t)' = k
      BY <2>1 DEF HeldBy
    <2>3. TheHolds' = [TheHolds EXCEPT ![t] = k]
      BY <1>1, <2>2, HoldsMove
    <2>4. Map!Insert(t, k, d, TRUE)
      BY <1>6, <1>7, <1>8, <1>9, <1>11, <2>3 DEF Map!Insert, TheMap, TheHolds
    <2> QED
      BY <1>2, <1>9, <2>4, CallStep
  <1> QED
    BY <1>2, <1>10, <1>11

\* The first step of fh_insert is a step of HashMap: an answer, or nothing yet.
LEMMA ReserveMaps ==
  ASSUME Control, TableInv, \A x \in Keys : Shows(x), \A x \in Keys : Shows(x)',
         NEW t \in Threads, Reserve(t)
  PROVE  Map!Next
  <1>k. PICK k : k = key[t]
    OBVIOUS
  <1>d. PICK d : d = block[t]
    OBVIOUS
  <1>0. Types /\ Locals(t)
    BY DEF Control
  <1>1. Others(t) /\ UNCHANGED <<h_dim, text, dont_copy>> /\ pc[t] = "reserve"
    BY ReserveCases, StepOthers DEF Control, Step
  <1>2. k \in Keys /\ d \in Data /\ op[t] \in {"insert", "insertlock"} /\ InSection(t)
    BY <1>0, <1>1, <1>k, <1>d, FastHashAssumption DEF Locals, InSection
  <1>3. HeldBy(t) = NULL
    BY <1>1, <1>2 DEF HeldBy
  <1>4. CASE \/ Duplicate(t) /\ Refuse(t, "FH_DUPLICATED_ELEMENT")
             \/ ~Duplicate(t) /\ Refuse(t, "FH_NO_MEMORY")
    <2>1. PICK code \in {"FH_DUPLICATED_ELEMENT", "FH_NO_MEMORY"} :
             Refuse(t, code) /\ (code = "FH_DUPLICATED_ELEMENT" => Duplicate(t))
      BY <1>4
    <2>2. Map!Answer(t, op[t], k, code, NULL) /\ res'[t] # Map!NoResult
      BY <1>2, <1>k, <2>1, AnswerShown DEF Refuse
    <2>3. TheMap' = TheMap
      BY <1>1, <2>1, MapUntouched DEF Refuse, table
    <2>4. pc'[t] = "idle" /\ op'[t] = "none"
      BY <1>0, <2>1 DEF Refuse, Leave, Goto, Types
    <2>5. HeldBy(t)' = NULL
      BY <2>4 DEF HeldBy
    <2>6. TheHolds' = TheHolds
      BY <1>1, <1>3, <2>5, HoldsKept
    <2>7. code = "FH_DUPLICATED_ELEMENT" => TheMap[k] # ABSENT
      <3>1. Duplicate(t) => k \in Present
        BY <1>2, <1>k, FoundUsed DEF Duplicate, Chain, TableInv
      <3> QED
        BY <1>2, <2>1, <3>1 DEF Shows, TheMap
    <2>8. Map!Reachable(t, k)
      BY <1>2, <1>k, KeyReachable
    <2>9. PICK keep \in BOOLEAN : op[t] = IF keep THEN "insertlock" ELSE "insert"
      BY <1>2
    <2>10. Map!Insert(t, k, d, keep)
      BY <1>3, <2>1, <2>2, <2>3, <2>6, <2>7, <2>8, <2>9 DEF Map!Insert, TheMap, TheHolds
    <2> QED
      BY <1>2, <2>2, <2>10, CallStep
  <1>5. CASE /\ ~Duplicate(t) /\ Quiet /\ UNCHANGED op
             /\ at' = [at EXCEPT ![t] = HoleIn(Chain(t))]
             /\ hash_table' = [hash_table EXCEPT ![Index(key[t])] = Taken(Chain(t), key[t])]
             /\ pc' = [pc EXCEPT ![t] = "fill"] /\ UNCHANGED key
    <2>1. Present' = Present /\ \A x \in Keys : \A c : Stored(x, c) => Stored(x, c)'
      BY <1>1, <1>5, TableReserved DEF TableInv
    <2>2. TheMap' = TheMap
      BY <2>1, MapKept
    <2>3. pc'[t] = "fill" /\ op'[t] = op[t]
      BY <1>0, <1>5 DEF Types
    <2>4. HeldBy(t)' = NULL
      BY <1>2, <2>3 DEF HeldBy
    <2> QED
      BY <1>1, <1>3, <1>5, <2>2, <2>4, HoldsKept, ForgetStep
  <1> QED
    BY <1>4, <1>5, ReserveCases

\* fh_search, fh_get and fh_searchlock take effect when they scan the chain.
LEMMA FindMaps ==
  ASSUME Control, TableInv, \A x \in Keys : Shows(x), NEW t \in Threads, Find(t)
  PROVE  Map!Next
  <1>k. PICK k : k = key[t]
    OBVIOUS
  <1>0. Types /\ Locals(t)
    BY DEF Control
  <1>1. Others(t) /\ UNCHANGED <<h_dim, table>> /\ pc[t] = "find"
    BY StepOthers DEF Control, fixed, Find, Refuse, Step, table
  <1>2. k \in Keys /\ op[t] \in {"search", "searchlock"} /\ InSection(t) /\ k # NULL
    BY <1>0, <1>1, <1>k, FastHashAssumption DEF Locals, InSection
  <1>3. HeldBy(t) = NULL
    BY <1>1, <1>2 DEF HeldBy
  <1>4. TheMap' = TheMap
    BY <1>1, MapUntouched
  <1>5. Map!Reachable(t, k)
    BY <1>2, <1>k, KeyReachable
  <1>6. PICK keep \in BOOLEAN : op[t] = IF keep THEN "searchlock" ELSE "search"
    BY <1>2
  <1>7. CASE FoundAt(Chain(t), key[t]) = {} /\ Refuse(t, "FH_ELEMENT_NOT_FOUND")
    <2>1. Map!Answer(t, op[t], k, "FH_ELEMENT_NOT_FOUND", NULL) /\ res'[t] # Map!NoResult
      BY <1>2, <1>7, <1>k, AnswerShown DEF Refuse
    <2>2. pc'[t] = "idle" /\ op'[t] = "none"
      BY <1>0, <1>7 DEF Refuse, Leave, Goto, Types
    <2>3. HeldBy(t)' = NULL
      BY <2>2 DEF HeldBy
    <2>4. TheHolds' = TheHolds
      BY <1>1, <1>3, <2>3, HoldsKept
    <2>5. k \notin Present
      BY <1>2, <1>7, <1>k, FoundUsed DEF Chain, TableInv
    <2>6. TheMap[k] = ABSENT
      BY <1>2, <2>5 DEF Shows, TheMap
    <2>7. Map!Search(t, k, keep)
      BY <1>3, <1>4, <1>5, <1>6, <2>1, <2>4, <2>6 DEF Map!Search, TheMap, TheHolds
    <2> QED
      BY <1>2, <2>1, <2>7, CallStep
  <1>8. CASE FoundAt(Chain(t), key[t]) # {} /\ Answer(t, "FH_OK", SlotAt(Chain(t), First(FoundAt(Chain(t), key[t]))).obj)
    <2>1. PICK s : s = SlotAt(Chain(t), First(FoundAt(Chain(t), key[t])))
      OBVIOUS
    <2>2. Map!Answer(t, op[t], k, "FH_OK", s.obj) /\ res'[t] # Map!NoResult
      BY <1>2, <1>8, <1>k, <2>1, AnswerShown
    <2>3. k \in Present /\ s \in UsedAt(Index(k)) /\ Text(s.key) = k
      BY <1>2, <1>8, <1>k, <2>1, FoundUsed DEF Chain, TableInv
    <2>4. Stored(k, s.obj)
      BY <2>3 DEF Stored
    <2>5. TheMap[k] = s.obj /\ TheMap[k] # ABSENT
      BY <1>2, <2>3, <2>4 DEF Shows, TheMap
    <2>6. CASE op[t] = "search"
      <3>1. pc'[t] = "idle" /\ op'[t] = "none"
        BY <1>0, <1>8, <2>6 DEF Find, Leave, Goto, Types
      <3>2. HeldBy(t)' = NULL
        BY <3>1 DEF HeldBy
      <3>3. TheHolds' = TheHolds
        BY <1>1, <1>3, <3>2, HoldsKept
      <3>4. Map!Search(t, k, FALSE)
        BY <1>3, <1>4, <1>5, <2>2, <2>5, <2>6, <3>3 DEF Map!Search, TheMap, TheHolds
      <3> QED
        BY <1>2, <2>2, <3>4, CallStep
    <2>7. CASE op[t] = "searchlock"
      <3>1. pc'[t] = "held" /\ key'[t] = k
        BY <1>0, <1>8, <1>k, <2>7 DEF Find, LeaveHolding, Goto, Types
      <3>2. HeldBy(t)' = k
        BY <3>1 DEF HeldBy
      <3>3. TheHolds' = [TheHolds EXCEPT ![t] = k]
        BY <1>1, <3>2, HoldsMove
      <3>4. Map!Search(t, k, TRUE)
        BY <1>3, <1>4, <1>5, <2>2, <2>5, <2>7, <3>3 DEF Map!Search, TheMap, TheHolds
      <3> QED
        BY <1>2, <2>2, <3>4, CallStep
    <2> QED
      BY <1>2, <2>6, <2>7
  <1> QED
    BY <1>7, <1>8 DEF Find

\* fh_del and fh_dellocked take effect when the entry is unlinked.
LEMMA UnlinkMaps ==
  ASSUME Control, TableInv, \A x \in Keys : Shows(x), \A x \in Keys : Shows(x)',
         NEW t \in Threads, Unlink(t)
  PROVE  Map!Next
  <1>k. PICK k : k = key[t]
    OBVIOUS
  <1>0. Types
    BY DEF Control
  <1>1. /\ Others(t) /\ UNCHANGED <<h_dim, dont_copy>> /\ pc[t] = "remove"
        /\ k \in Keys /\ op[t] \in Deleting
    BY <1>k, UnlinkCases, StepOthers DEF Control, Step
  <1>2. Map!Reachable(t, k)
    BY <1>1, <1>k, KeyReachable DEF InSection
  <1>3. PICK locked \in BOOLEAN : locked <=> op[t] = "dellocked"
    OBVIOUS
  <1>4. HeldBy(t) = IF locked THEN k ELSE NULL
    BY <1>1, <1>3, <1>k DEF HeldBy
  <1>5. PICK call : call = IF op[t] \in {"clean", "destroy"} THEN "del" ELSE op[t]
    OBVIOUS
  <1>6. call # "none" /\ call = IF locked THEN "dellocked" ELSE "del"
    BY <1>1, <1>3, <1>5 DEF Deleting
  <1>7. CASE /\ FoundAt(Chain(t), key[t]) = {} /\ Answer(t, "FH_ELEMENT_NOT_FOUND", NULL)
             /\ DelReturns(t) /\ UNCHANGED <<hash_table, text>>
    <2>1. Map!Answer(t, call, k, "FH_ELEMENT_NOT_FOUND", NULL) /\ res'[t] # Map!NoResult
      BY <1>5, <1>6, <1>7, <1>k, AnswerShown
    <2>2. k \notin Present
      BY <1>1, <1>7, <1>k, FoundUsed DEF Chain, TableInv
    <2>3. TheMap[k] = ABSENT
      BY <1>1, <2>2 DEF Shows, TheMap
    <2>4. TheMap' = TheMap
      BY <1>1, <1>7, MapUntouched DEF table
    <2>5. TheMap' = [TheMap EXCEPT ![k] = ABSENT]
      BY <2>3, <2>4 DEF TheMap
    <2>6. HeldBy(t)' = HeldBy(t)
      <3>1. \/ ~locked /\ pc'[t] # "held" /\ op'[t] # "dellocked"
            \/ locked /\ pc'[t] = "held" /\ key'[t] = k
        BY <1>0, <1>1, <1>3, <1>7, <1>k DEF DelReturns, Leave, LeaveHolding, Goto, args, Types
      <3> QED
        BY <1>4, <3>1 DEF HeldBy
    <2>7. TheHolds' = TheHolds
      BY <1>1, <2>6, HoldsKept
    <2>8. Map!Delete(t, k, locked)
      BY <1>2, <1>4, <1>6, <2>1, <2>3, <2>5, <2>7 DEF Map!Delete, TheMap, TheHolds
    <2> QED
      BY <1>1, <2>1, <2>8, CallStep
  <1>8. CASE /\ FoundAt(Chain(t), key[t]) # {} /\ Answer(t, "FH_OK", NULL)
             /\ text' = Freed(SlotAt(Chain(t), First(FoundAt(Chain(t), key[t]))).key)
             /\ hash_table' = [hash_table EXCEPT ![Index(key[t])] = Unlinked(Chain(t), key[t])]
             /\ pc' = [pc EXCEPT ![t] = "uncount"] /\ UNCHANGED <<op, key>>
    <2>1. Map!Answer(t, call, k, "FH_OK", NULL) /\ res'[t] # Map!NoResult
      BY <1>5, <1>6, <1>8, <1>k, AnswerShown
    <2>2. pc'[t] = "uncount"
      BY <1>0, <1>8 DEF Types
    <2>3. /\ k \in Present /\ Present' = Present \ {k}
          /\ \A x \in Keys \ {k} : \A d : Stored(x, d) => Stored(x, d)'
      BY <1>1, <1>8, <1>k, <2>2, TableUnlinked DEF TableInv, Others
    <2>4. TheMap' = [TheMap EXCEPT ![k] = ABSENT]
      BY <1>1, <2>3, MapCut
    <2>5. TheMap[k] # ABSENT
      BY <1>1, <2>3 DEF Shows, TheMap
    <2>6. HeldBy(t)' = HeldBy(t)
      BY <1>1, <1>8, <2>2 DEF HeldBy
    <2>7. TheHolds' = TheHolds
      BY <1>1, <2>6, HoldsKept
    <2>8. Map!Delete(t, k, locked)
      BY <1>2, <1>4, <1>6, <2>1, <2>4, <2>5, <2>7 DEF Map!Delete, TheMap, TheHolds
    <2> QED
      BY <1>1, <2>1, <2>8, CallStep
  <1> QED
    BY <1>7, <1>8, UnlinkCases

\* What a client does with the entry that it has locked.
LEMMA HoldMaps ==
  ASSUME Control, TableInv, \A x \in Keys : Shows(x), \A x \in Keys : Shows(x)',
         NEW t \in Threads, Hold(t)
  PROVE  Map!Next
  <1>k. PICK k : k = key[t]
    OBVIOUS
  <1>0. Types /\ Locals(t) /\ Others(t) /\ UNCHANGED h_dim
    BY StepOthers DEF Control, fixed
  <1>1. pc[t] = "held" /\ k \in Keys /\ k # NULL /\ HeldBy(t) = k
    BY <1>0, <1>k, FastHashAssumption DEF Hold, Modify, DelLockedCall, ReleaseLock, Locals, HeldBy
  <1>2. TheHolds[t] = k
    BY <1>1 DEF TheHolds
  <1>3. CASE Modify(t)
    <2>1. PICK d \in Data \ {NULL, ABSENT} :
             /\ Stored(k, d)' /\ k \in Present /\ Present' = Present \cup {k}
             /\ \A x \in Keys \ {k} : \A c : Stored(x, c) => Stored(x, c)'
      BY <1>3, <1>k, TableModified DEF TableInv
    <2>2. TheMap' = [TheMap EXCEPT ![k] = d]
      BY <1>1, <2>1, MapPut
    <2>3. TheMap[k] # ABSENT
      BY <1>1, <2>1 DEF Shows, TheMap
    <2>4. TheHolds' = TheHolds
      BY <1>3 DEF Modify, args, TheHolds, HeldBy
    <2>5. Map!Quiet
      BY <1>3, QuietShown DEF Modify
    <2>6. Map!Modify(t, d)
      BY <1>1, <1>2, <2>2, <2>3, <2>4, <2>5 DEF Map!Modify, TheMap, TheHolds
    <2> QED
      BY <2>6 DEF Map!Next, Map!Hold
  <1>4. CASE DelLockedCall(t)
    <2>1. Quiet /\ UNCHANGED table /\ op'[t] = "dellocked" /\ key'[t] = k
      BY <1>0, <1>4, <1>k DEF DelLockedCall, Types
    <2>2. HeldBy(t)' = HeldBy(t)
      BY <1>1, <2>1 DEF HeldBy
    <2> QED
      BY <1>0, <2>1, <2>2, HoldsKept, MapUntouched, ForgetStep
  <1>5. CASE ReleaseLock(t)
    <2>1. Quiet /\ UNCHANGED table /\ op'[t] = "none" /\ pc'[t] = "idle"
      BY <1>0, <1>5 DEF ReleaseLock, Leave, Goto, Types
    <2>2. HeldBy(t)' = NULL
      BY <2>1 DEF HeldBy
    <2>3. TheHolds' = [TheHolds EXCEPT ![t] = NULL]
      BY <1>0, <2>2, HoldsMove
    <2>4. TheMap' = TheMap
      BY <1>0, <2>1, MapUntouched
    <2>5. Map!Release(t)
      BY <1>1, <1>2, <2>1, <2>3, <2>4, QuietShown DEF Map!Release, TheMap, TheHolds
    <2> QED
      BY <2>5 DEF Map!Next, Map!Hold
  <1> QED
    BY <1>3, <1>4, <1>5 DEF Hold

\* The steps that the map does not see: before a call has its lock, after it
\* has taken effect, and those of the enumerators.
LEMMA HiddenMaps ==
  ASSUME Control, NEW t \in Threads,
         \/ Start(t) \/ Count(t) \/ Uncount(t) \/ EnumScan(t) \/ EnumSort(t) \/ EnumNext(t)
         \/ CleanNext(t) \/ CleanLock(t)
  PROVE  Map!Next
  <1>0. Types /\ Locals(t)
    BY DEF Control
  <1>1. Others(t) /\ UNCHANGED h_dim
    BY StepOthers DEF Control, fixed, Step
  <1>2. Quiet /\ UNCHANGED table
    BY DEF Start, InsertCall, SearchCall, SearchLockCall, DelCall, Enter, EnumCall, SetAttr, Count, Uncount,
           EnumScan, EnumSort, EnumNext, CleanNext, CleanLock, Finished
  <1>3. HeldBy(t)' = HeldBy(t)
    <2>1. CASE Start(t)
      <3>1. pc[t] = "idle" /\ op[t] = "none"
        BY <1>0, <2>1 DEF Start, InsertCall, SearchCall, SearchLockCall, DelCall, Enter, EnumCall, SetAttr,
                          Locals
      <3>2. pc'[t] # "held" /\ op'[t] # "dellocked"
        BY <1>0, <2>1, <3>1 DEF Start, InsertCall, SearchCall, SearchLockCall, DelCall, Enter, EnumCall, SetAttr,
                                EntryPoints, Goto, args, Types
      <3> QED
        BY <3>1, <3>2 DEF HeldBy
    <2>2. CASE Count(t)
      <3>1. pc[t] = "count" /\ op[t] = "insert" /\ pc'[t] = "idle" /\ op'[t] = "none"
        BY <1>0, <2>2 DEF Count, Leave, Goto, Locals, Types
      <3> QED
        BY <3>1 DEF HeldBy
    <2>3. CASE Uncount(t)
      <3>1. pc[t] = "uncount"
        BY <2>3 DEF Uncount
      <3>2. \/ op[t] # "dellocked" /\ pc'[t] # "held" /\ op'[t] # "dellocked"
            \/ op[t] = "dellocked" /\ pc'[t] = "held" /\ key'[t] = key[t]
        BY <1>0, <2>3 DEF Uncount, DelReturns, Leave, LeaveHolding, Goto, args, Types
      <3> QED
        BY <3>1, <3>2 DEF HeldBy
    <2>4. CASE EnumScan(t) \/ EnumSort(t) \/ EnumNext(t) \/ CleanNext(t) \/ CleanLock(t)
      <3>1. pc[t] # "held" /\ op[t] # "dellocked"
        BY <1>0, <2>4 DEF EnumScan, EnumSort, EnumNext, CleanNext, CleanLock, Locals, Enumerating
      <3>2. op'[t] \in {op[t], "none"}
        BY <1>0, <2>4 DEF EnumScan, EnumSort, EnumNext, CleanNext, CleanLock, Finished, Leave, args, Types
      <3>3. pc'[t] # "held"
        BY <1>0, <2>4, <3>1 DEF EnumScan, EnumSort, EnumNext, CleanNext, CleanLock, Finished, Leave, Goto, Types
      <3> QED
        BY <3>1, <3>2, <3>3 DEF HeldBy
    <2> QED
      BY <2>1, <2>2, <2>3, <2>4
  <1> QED
    BY <1>1, <1>2, <1>3, HoldsKept, MapUntouched, ForgetStep

\* Every step of the table is a step of HashMap, or changes nothing there.
LEMMA StepMaps ==
  ASSUME HashInv, \A x \in Keys : Shows(x), \A x \in Keys : Shows(x)', [Next]_vars, ~no_memory, ~no_memory'
  PROVE  [Map!Next]_(Map!vars)
  <1>1. Control /\ TableInv
    BY DEF HashInv
  <1>2. CASE UNCHANGED vars
    <2>1. UNCHANGED <<h_dim, table, pc, op, key, res>>
      BY <1>2 DEF vars, fixed, args
    <2>2. TheMap' = TheMap /\ TheHolds' = TheHolds
      BY <2>1, MapUntouched DEF TheHolds, HeldBy
    <2> QED
      BY <2>1, <2>2 DEF Map!vars, TheMap, TheHolds
  <1>3. ASSUME NEW t \in Threads, Start(t) \/ Hold(t) \/ Step(t)
        PROVE  Map!Next
    <2>1. ~FillFails(t)
      BY DEF FillFails
    <2> QED
      BY <1>1, <1>3, <2>1, FillMaps, ReserveMaps, FindMaps, UnlinkMaps, HoldMaps, HiddenMaps DEF Step
  <1> QED
    BY <1>2, <1>3 DEF Next, Destroyed

\* As long as no allocation fails half way through an insert, the calls of fh.c
\* take effect at one instant each on a map from keys to data, with the answers
\* of that map, and a locked entry is its holder's alone.
THEOREM TableIsAMap == Spec /\ []~no_memory => ImplementsMap
  <1>1. Init => Map!Init
    <2> SUFFICES ASSUME Init PROVE Map!Init
      OBVIOUS
    <2>1. HashInv /\ ~no_memory
      BY HashInit DEF Init
    <2>2. \A x \in Keys : Shows(x)
      BY <2>1, MapShows DEF HashInv, TableInv
    <2>3. Present = {}
      <3>1. \A i \in Chains : UsedAt(i) = {}
        BY DEF Init, Chains, Positions, UsedAt, UsedIn, SlotsOf
      <3> QED
        BY <2>1, <3>1, IndexIn DEF Present, HashInv, Control
    <2>4. \A x \in Keys : DataOf(x) = ABSENT
      BY <2>2, <2>3 DEF Shows
    <2>5. \A t \in Threads : HeldBy(t) = NULL
      BY DEF Init, HeldBy
    <2>6. NoResult = Map!NoResult
      BY DEF NoResult, Result, Map!NoResult, Map!Result
    <2> QED
      BY <2>4, <2>5, <2>6 DEF Init, Map!Init, NoResults
  <1>2. HashInv /\ ~no_memory => \A x \in Keys : Shows(x)
    BY MapShows DEF HashInv, TableInv
  <1>3. HashInv /\ (\A x \in Keys : Shows(x)) /\ (\A x \in Keys : Shows(x))' /\ ~no_memory /\ ~no_memory'
            /\ [Next]_vars => [Map!Next]_(Map!vars)
    BY StepMaps
  <1> QED
    BY <1>1, <1>2, <1>3, HashInit, HashNext, PTL DEF Spec, ImplementsMap, Map!Spec
=============================================================================
