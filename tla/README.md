# A TLA+ model of clibs

clibs (`src/`) is a set of C libraries: channels, a thread pool, an LRU cache, a
hashtable, a vector, an AVL tree and a timer.  `src/README.md:7` promises that
"the collection methods (excluding create/destroy) can be used safely by
different threads".  This project models all the libraries but the timer, checks
them with TLC on small instances and proves with TLAPS, for every number of threads,
elements and keys, the safety properties of all but the tree and, of the channel, the
hashtable and the vector, that they implement what their headers promise.

## 1. Inventory

| Component | State | Operations | Uses | What makes it correct |
|---|---|---|---|---|
| libchannel (`ch.c`) | handle: mode, size, count, head/tail, waiting counters; mutex, two condition variables; heap elements linked by `prev` | `ch_create`, `ch_put`, `ch_put_head`, `ch_get`, `ch_peek`, `ch_setattr`, `ch_getattr`, `ch_clean`, `ch_destroy` | pthreads, malloc | it is one FIFO whatever the interleaving; list and heap agree; no lost wakeup; size respected; nothing leaked |
| libthp (`thp.c`) | two channels, `submitted`, `to_be_waited`, `wait_running`, one mutex, worker threads, `thp_job_t` objects | `thp_create`, `thp_add`, `thp_wait`, `thp_destroy`, `thp_queue_runner` | libchannel, pthreads | each job runs once and is freed once; `to_be_waited` counts what is left; `thp_wait` and `thp_destroy` return |
| liblru (`lru.c`, `ll.c`) | a hashtable from key to slot, a doubly linked list of slots by use, a freelist, key strings | `lru_create`, `lru_add`, `lru_check`, `lru_clear`, `lru_destroy`; six functions of `ll.c` | libfh | list and hashtable agree up to operations in progress; the least recently used entry is evicted; a lookup returns its own payload; no slot or key lost or freed twice |
| libfh (`fh.c`) | array of bucket chains, sharded locks, element counter, enumerators | insert, delete, search, get, locked variants, enumerate, clean, attributes | pthreads, wyhash | a map from keys to data; counter and chains agree; enumerators see live data |
| libvector (`vector.c`) | array, total, capacity, lock | create, add, set, get, delete, destroy | malloc/realloc | a sequence; total never exceeds capacity |
| libavl (`avl.c`, `avl_internal.c`) | a binary tree of keys | insert, search, delete, destroy | malloc | search tree, balanced, keys owned by one node |
| libtiming (`timing.c`) | two readings of the clock | start, end | clock | pure I/O, left out |
| libnlru | | | | a list of ideas without code |
| tests, googletest, googlebenchmark, makefiles | | | | third party or drivers, left out; the N-writers-M-readers test is used as a client |

How they interact: libthp calls libchannel from clients (under its own mutex)
and from workers (without it), and frees in `thp_wait` what `thp_add` allocated.
liblru calls libfh and `ll.c` in turn, each with its own locks; `lru_check` keeps
a bucket lock of libfh while it moves a slot in the list.  Nothing is persistent
and nothing is sent over a network, so there are no crashes, lost messages or
timeouts to model; the difficult behaviours are interleavings, condition
variables, memory that cannot be allocated half way through an operation, and
memory that one thread frees while another still has a pointer to it.
`PROJECT.json` lists these hazards by line.

## 2. Modules

| Module | Models | State and actions |
|---|---|---|
| `Channel` | `ch.c` | The fields of `ch_h` and `ch_elem_t` under their own names, `pc`/`op`/`element` per thread. One action for each stretch of code between two points where another thread may interfere: `PutCall`, `PutLock`, `PutWait`, `PutReacquire`, `PutRoom`, `PutFull`, `PutLink` are `_ch_put`; `GetCall`, `GetLock`, `GetWait`, `GetReacquire`, `GetTake` are `ch_get`; `Peek`, `SetAttr`, `GetAttr`; `CleanLock`, `CleanStep`; `DestroyCall`, `DestroyMagic`, `DestroySpin`, `DestroyEnd`. `SpuriousWakeup` is `pthread_cond_wait` returning without a signal. `ch_setattr` and the loop of `ch_destroy` do not take the mutex in the code and do not in the model. |
| `ChannelSpec` | what `ch.h` promises | A queue of blocks; each call takes effect in one step between its start and its return. |
| `ChannelRefinement` | | The refinement mapping from `Channel` to `ChannelSpec`. |
| `ChannelClients` | `TestCH.cpp`, `MT_N_Writer_M_Reader` | Writers, readers and one end of transmission for each reader, on top of the actions of `Channel`. The test puts one string again and again; here message number i of a writer is a block of its own, so that a lost message and one delivered twice can be told. `received` counts how often each reader got each message. |
| `ChannelProofs`, `ChannelWakeProofs` | | Theorems about `Channel`: the list and the heap; the mutex, the counters and the signals. |
| `ChannelRefinementProofs` | | `Channel` implements `ChannelSpec`. |
| `ChannelClientsProofs` | | The writers and readers lose and duplicate nothing. |
| `ThreadPool` | `thp.c` | Clients and workers; the channels are the atomic queues that `ChannelRefinement` justifies (blocking, unlimited size, pointers). |
| `LruList` | `ll.c` | `top`, `last`, `freelist`, `next`, `prev`, `status`; one action for each function, since each is one critical section. |
| `Lru` | `lru.c` | Threads that call libfh and `LruList` in turn; the hashtable is a map with a lock for each group of keys. |
| `HashMap` | what `fh.h` promises | A map from keys to data; each call takes effect at once and a thread may keep an entry locked. `FastHash` implements it; what `Lru` does with its hashtable is one of its behaviours. |
| `FastHash` | `fh.c` | `hash_table` as sequences of buckets of slots with mini hash, key pointer and data; the heap of key strings; the locks, mutexes or read/write locks; `h_elements`; per thread the call, its key and its enumerator. `InsertCall`, `Reserve`, `Fill`, `FillFails`, `Count` are `fh_insert` and `fh_insertlock`; `SearchCall`, `SearchLockCall`, `Find` the three lookups; `Modify`, `DelLockedCall`, `ReleaseLock` what a client does with a locked entry; `DelCall`, `Unlink`, `Uncount` are `fh_del` and `fh_dellocked`; `EnumCall`, `EnumScan` (one bucket), `EnumSort`, `EnumNext` the enumerators; `CleanNext`, `CleanLock` the loop of `fh_clean`, also for `fh_destroy`; `SetAttr`. |
| `VectorSpec` | what `vector.h` promises | A sequence; an index out of range reads NULL and changes nothing. |
| `Vector` | `vector.c` | `items`, `capacity`, `total`; one action for each function. |
| `Avl` | `avl.c`, `avl_internal.c` | A tree value; `Insert`, `Search`, `Delete` and the rotations as (recursive) operators, the entry points as actions. `alive` tells whether the key string of a node is allocated. |
| `ThreadPoolProofs`, `LruProofs`, `FastHashProofs`, `VectorProofs` | | Theorems about these components, for every value of their constants. |
| `MCChannel`, `MCChannelClients`, `MCThreadPool`, `MCLru`, `MCFastHash`, `MCVector`, `MCAvl` | | Symmetry sets and constants for TLC. |

`queue` (Channel), `order` and `free` (LruList), `runs` and `used` (ThreadPool)
are history variables: no guard reads them.  `ret` records what the last step
returned.  Operators named `Bad...` are defective variants of the operator that
follows them; nothing uses them.  They show, by replacing the operator, that the
properties notice such a defect.

Abstractions: blocks, keys and payloads are opaque values; the contents of a
freed element are NULL (and `Ownership` shows that nobody reads them); `lru_check`
reads the payload, moves the slot and unlocks the bucket in one step, which is
sound because it holds the bucket's lock throughout and `ll->lock` for the move; a
key of `FastHash` has a given hash, of which index and mini hash are computed as in
the code; a chain of buckets is a sequence; `Vector` and `Avl` stop where the code
writes or reads memory that it does not own.
Not modelled anywhere: a NULL handle (each entry point returns at once), use of a
handle after its memory is freed (undefined), failures inside the `_create`
functions, printing and the test-only readers of liblru.

## 3. Runs

| Run | Instance | Shows |
|---|---|---|
| `channel_list` | 3 threads, 3 elements, all entry points, both modes, sizes 0 and 1, `ch_setattr` at any time, `ch_destroy` while others are inside | types, mutual exclusion, list shape, ownership and no leak, waiting counters |
| `channel_refines` | 3 threads, 3 elements, 2 blocks, both modes, sizes 0, 1, 2, puts at both ends, `ch_clean`, `ch_destroy`, spurious wakeups, failing malloc; no end of transmission | `Channel` implements `ChannelSpec`; the list never exceeds the size; one signal for each put suffices |
| `channel_peek` | 3 threads, 3 elements, both modes, sizes 0, 1, 2, puts at both ends, `ch_peek`, end of transmission, spurious wakeups | although `ch_peek` breaks `count`, nothing follows a dangling pointer |
| `channel_clients` | 2 writers with two messages each, 2 readers, 6 elements, sizes 0 and 2 | every thread returns, every message is delivered to one reader, once, before that reader's end of transmission, one signal for each get suffices |
| `pool_safety` | 2 clients, 2 workers, 4 jobs, one of them calling `thp_add`, malloc failing | jobs are counted (`Accounting`), run once, freed once (`JobsSound`); `thp_wait` drains; the only ways in which everyone waits for everyone |
| `pool_liveness` | 2 clients, 2 workers, 3 jobs | waits and `thp_destroy` return, each job runs, nothing is left behind |
| `lru_consistency` | 3 threads, 2 slots, 3 keys, 2 locks, malloc failing | hashtable, list, freelist and key strings agree at every step; right payloads; the hashtable is used as `HashMap` allows |
| `lru_recency` | 3 threads, 3 slots, 3 keys | list in order of use; with no more threads than slots `lru_add` never lacks a slot |
| `hash_table` | 2 threads, 3 keys (2 of them with the same index and mini hash), 4 buckets, 2 locks, buckets of one slot, every entry point | lock discipline, sound chains, the counter, owned key strings, no read of a freed string, enumerators, `fh_hash_size` in 4 bits; `FastHash` implements `HashMap` |
| `vector` | up to 7 items of 2 values, capacities from 1 and from 3, realloc failing | a sequence in spite of growing and shrinking; only a failed growth overruns; no resize at every step |
| `avl` | 7 keys, operations in any order up to one that would read a freed key string | balance, order, heights; each operation does to the map what it says |
| `avl_delete` (violation) | 3 keys | deleting a node with one child frees a key string that stays in the tree |

Bounds.  A lost wakeup needs two sleepers of one kind and somebody who signals too
little.  In `channel_refines` two getters sleep while the third thread puts twice.  In
`channel_clients` the first messages of both writers fill a channel of size 2, both
writers sleep with their second ones and both readers take before either writer runs
again; or a writer that was woken finds the place taken by the other and sleeps again
(`BadWokenByGet`, a signal only when the channel stops being full, is found there).
There malloc returns the first free address (`FirstFree`): `ch.c` compares addresses
with NULL only, so another choice gives the same behaviour with other names.
A list of three elements has an end, a middle and another end.  Three threads let two
interfere with the steps of a third.  In `pool_safety` two workers can finish jobs in
either order while one client is between queueing and counting a job and the other
waits.  `lru_consistency` has fewer slots than threads (all slots may be in flight) and
fewer slots than keys; `lru_recency` has a middle slot to move.  In `hash_table` a
bucket holds one key, so that two keys of one index make a chain with a head and an
end to unlink; the third key has another bucket and lock; two threads suffice, since
calls on one lock exclude one another and the counter is a sum.  This instance does not
reuse a hole in a bucket that stays, unlinks no bucket in the middle of a chain, and no
two buckets in use share a lock: the proofs, which are for every `BUCKET_SIZE` and every
number of buckets and locks, cover these.  `Width` = 4 makes the
wrap of `fh_hash_size` reachable (the bounds are stated for all dimensions that fit).
A tree of seven keys reaches height four and all eight rotations.  `Jobs` bounds how
many jobs are ever added, `Messages` how many a writer sends, `MaxTotal` the length of
the vector, `Ptrs` the key strings, `MaxSpurious` the spurious wakeups of
`channel_clients` (without a bound fairness would not stop a thread from being woken
for ever).

`WithinMemory` (`hash_table`) ends a behaviour after a failed allocation that leaves a
half made slot, or a table that `fh_destroy` could not clean: the next search would
read a NULL key.  Allocations that fail without leaving anything are followed.
`Guarded` states what the tests ask of clients, not to delete while others enumerate or
clean (`src/libfh/test/TestThread.cpp:48` "DON'T USE THIS FUNCTION WITH
del_and_insert()"), and `MayCall` that `fh_setattr` and `fh_destroy` have the table for
themselves.

Deadlock is checked except in `pool_safety`, where the code does block for ever;
`StuckOnlyThere` says in which states.  A destroyed object, and a vector or tree whose
behaviour is undefined, stutter.

Fairness.  `FairSpec` of the pool and `CSpec` of the channel's clients assume weak
fairness of each thread inside a call: the scheduler runs a thread that can go on.
Nothing is assumed about clients starting calls (except in `ChannelClients`, where the
test program makes them) nor about mutexes being granted in order.

## 4. Proofs

Every theorem is about the specification that the runs check, under the named
assumptions of its module and for every value of its constants: any finite set of
threads, any addresses, blocks, sizes, slots, keys.  `Init => Inv`, one lemma for each
action that can disturb the invariant, and one for all steps; the theorems follow by
temporal reasoning.

### The list of the channel (`ChannelProofs`)

| Theorem | Property | Hypotheses |
|---|---|---|
| `TypeCorrect`, `ListIntegrity`, `SoleOwner` | `TypeOK`, `ListShape`, `Ownership` | `NoPeekAtEOT` |
| `NothingLeaks` | `NoLeak` | `NoPeekAtEOT`, `~CopyBlocks` |

`NoPeekAtEOT`: the clients do not both use `ch_peek` and send an end of transmission.
The code needs it (`ch.c:337`, section 5).  `~CopyBlocks`: a channel of pointers; when
the copy of a block cannot be allocated, the element is lost (`ch.c:105`).

None of the properties is inductive alone: a put that links its element needs it to be
unlinked and allocated (`Ownership`), which needs the list to be the chain
(`ListShape`), which needs that no other thread is changing it (`MutualExclusion`).
`Inv` is their conjunction.  Its part without `count`, `Base`, is preserved by every
step from a state where `count # 0` implies a list that is not empty (`Covers`), hence
also where `ch_peek` has falsified `count`; `CountStep` adds `count` where it has not.
Most actions touch neither the list nor the heap: `Quiet` settles them from the
variables they leave alone.  `AppendFacts`, `PrependFacts`, `TailFacts` and `OneFacts`
describe the four ways in which the chain changes, `WokenFacts` what a signal does.

### The mutex, the counters and the signals (`ChannelWakeProofs`)

| Theorem | Property | Hypotheses |
|---|---|---|
| `Exclusion` | `MutualExclusion` | none |
| `CountersExact` | `WaitCounters` | none |
| `CapacityKept` | `CapacityRespected` | `NoPeekAtEOT`, no `ch_setattr` |
| `GettersWoken` | `NoLostGetWakeup` | `NoPeekAtEOT`, no `ch_setattr` |
| `PuttersWoken` | `NoLostPutWakeup` | `NoPeekAtEOT`, no `ch_setattr`, `ch_clean`, `ch_destroy` |
| `NoDanglingEnds` | `DerefSafe` | no `ch_clean`, `ch_destroy` |

The first two, and the steps of the next three, are about `pc`, `ch_mutex` and `count`,
which is what the code tests; that `count` is the length of the list, of which the
properties speak, is part of `Inv` (`CountIsLength`) and needs `NoPeekAtEOT`: without it
both `CapacityRespected` and `NoLostGetWakeup` are false (section 5).  `Control`, the types of these and
`MutualExclusion`, is inductive by itself, and `Kinds` sorts the actions into seven
kinds of step whose effect on them is stated once each.  `CountersExact` follows the
cardinality of the set of waiting threads as threads enter and leave it.
`CapacityKept` needs that a putter past its test still has room (`Room`): it keeps the
mutex from the test to the link.  The wakeup theorems compare the number of elements
(free places) with the number of threads awake that will take (fill) one; a getter past
its test needs an element left for it, and in non blocking mode nobody waits
(`NobodyWaits`).  `ch_setattr` may change size and mode under waiting threads, and
`ch_clean` signals no putter: the hypotheses are what the code needs (section 5).
`NoDanglingEnds` is the case that `NoPeekAtEOT` excludes elsewhere: `ch_peek` may leave
`count` behind the length of the list (`Lags`), never ahead of it.

### The channel is a queue (`ChannelRefinementProofs`)

`ChannelIsAQueue`: `Spec => ImplementsQueue`, under `NoPeekAtEOT` and without
`ch_setattr`.  Beside `Inv` and `Room` it needs `Ops`, that the call of a thread follows
from where it is.  The abstract queue is `View(block, queue)`, or empty from the moment
in which `ch_clean` takes the mutex; `ViewAppend`, `ViewPrepend` and `ViewTail` show
that linking or freeing an element is a step of that queue, `OthersUnmoved` that no
other thread's call is affected.  There is a lemma for each abstract action
(`PutStep`, `PutFullStep`, `GetStep`, `GetEmptyStep`, `LookSteps`, `WipeStep`,
`DestroyReturns`, `CallSteps`, `RejectSteps`); all other steps are silent
(`SilentSteps`, `FreeStep`).

### The writers and readers (`ChannelClientsProofs`)

`EveryMessageOnce`: `CSpec => []AllDelivered`, for any numbers of writers, readers and
messages and any size of the channel; `ClientsAssumption` (pointers, blocking mode, puts
and gets only, memory enough) describes the test program.  `ClientSteps` shows that the
program uses the channel as `Channel` allows, so `Inv` and `NoLeak` of `ChannelProofs`
hold; `Kinds` sorts its steps into those that send a message, put an end of
transmission, link an element, take one, or touch no message.  On top of them
`ClientInv` has three parts.  `Roles`: writers are in `_ch_put`, readers in `ch_get`.
`Delivery`: a message that was sent is in one element of the heap or was received once,
by one reader, never both.  `Endings`: the ends of transmission in the heap and the
readers that stopped add up to those that were put; once one was put, no message is
sent, and none is behind it in the queue or in the hands of a putter, so a reader that
stops leaves nothing but ends of transmission behind.  `NoLeak` is needed here: the heap
is the queue and the elements of putters.  When all readers have stopped, the sum leaves
no end of transmission, hence nothing at all, in the heap, and what was sent was received.

### The thread pool (`ThreadPoolProofs`)

| Theorem | Property | Hypotheses |
|---|---|---|
| `EachJobOnce` | `JobsSound` | none |
| `CountIsRight` | `Accounting` | none |
| `WaitWaitsForAll` | `WaitDrains` | none |
| `DestroyLeavesNothing` | `DestroyedClean` | `~MemoryFails` |

`PoolInv`: the positions of the threads (`Positions`), each allocated job in one place
(`Places`) and run as often as its place says (`Runs`).  `Balance` is `Accounting` in
terms of `Owed`, a set that changes by one job at a time; a worker that completes a job
moves it inside `Owed`.  For `DestroyedClean`, `CloseInv` adds that `thp_destroy` runs
once (`Closing`), that no allocated job is forgotten, that the ends of transmission in
the channel and the workers that took one add up to those that were put, and that all
owed jobs are gone in the end.  When malloc fails an end of transmission may be missing,
and a completed job may be lost: hence the hypothesis.

### The cache (`LruProofs`)

| Theorem | Property | Hypotheses |
|---|---|---|
| `NothingLost` | `SlotsSound` | none |
| `HashAndListAgree` | `HashAgreesWithList` | none |
| `CheckReadsItsPayload` | `RightPayload` | none |
| `ListInOrderOfUse` | `RecencyList` | none |
| `LruUsesTheMap` | `UsesHashMap` | none |
| `EvictionAlwaysFinds` | `EvictionFinds` | none (the property itself is about no more threads than slots) |

Each function of `ll.c` preserves `ListInv`: list and
freelist are chains, disjoint, told by `status`.  For `ll_slot_move_to_top` the links
of the slot, of its neighbours and of the old top change at once; the proof
distinguishes the last slot from a slot in the middle.  `LruInv` adds for each position
of a thread what it holds: a dangling slot has one holder (`HeldOnce`), the hashtable
leads to slots in the list or in the hands of a thread that adds or removes them
(`HashTells`), a thread that has found its key keeps the lock and so the slot
(`Pinned`).  `LruUsesTheMap` maps each step to one of `HashMap`; that `fh_del` finds its
key is where `HashTells` is needed.  `EvictionAlwaysFinds` counts: the slots in the
list are at least as many as the threads that look for one to evict.

### The hashtable (`FastHashProofs`)

| Theorem | Property | Hypotheses |
|---|---|---|
| `LockDiscipline` | `MutualExclusion` | none |
| `SoundChains`, `CountedElements`, `OwnedStrings`, `Typing` | `ChainsSound`, `ElementsCounted`, `StringsOwned`, `TypeOK` | in states where `~no_memory` |
| `SafeReads`, `ExactEnumerators` | `DerefSafe`, `EnumExact` | `Guarded`, in states where `~no_memory` |
| `TableIsAMap` | `ImplementsMap` | `[]~no_memory` |

They hold for any set of keys and any hashes (index and mini hash may collide), any
number of threads, locks, buckets and slots for each bucket, with mutexes and with
read/write locks, with and without copies of the keys.  `no_memory` becomes true when
an allocation fails and leaves a half made slot or a table that `fh_destroy` did not
clean; what follows is undefined in the code (section 5), and the run stops there with
`WithinMemory`.  Allocations that fail without leaving anything are part of the
behaviours.  `Guarded` is the discipline that the tests ask of clients (section 3);
without it `DerefSafe` is false.

The invariant is built in four layers, each a conjunction of parts.

1. `Control`: types, what each position of a thread says of its call and its locals
   (`Locals`), which locks are held and by whom (`Locked`), and that `fh_destroy` runs
   alone.  It needs nothing of the contents of the chains and is inductive by itself;
   `MovesControl` reduces a step to the thread that makes it.
2. `TableInv`: every used slot is sound (`SlotSound`: right chain, right mini hash, a
   string that exists), no two have the same key, no bucket is empty, and a slot
   without a key is the one that a thread at `fill` has reserved; every string is in the
   table; the counter is the number of keys present and of calls on their way to it.
   The parts need each other: a deletion frees the one slot with the key because keys
   are unique, and uniqueness survives an insertion because the lock is held from the
   search for a duplicate to the slot.  The proofs speak of the set of used slots of a
   chain, `UsedAt(i)`; a lemma for each way in which a chain changes (extended,
   reserved, filled, unlinked, trimmed) tells what it does to that set, once.
3. `EnumInv`: what the list of an enumerator says of the table (`Listing`): from the
   element on that is visited next, its strings exist and its keys are present and
   distinct; while the chains are scanned its keys are those of chains behind, and list
   and chains ahead together have enough keys to fill the array (`Scanned`); after the
   scan the array is full (`Walked`).  It is an argument by counting: nothing is deleted
   meanwhile, so there are at least as many keys as the counter said when the array was
   allocated.  `Polite` states what `Guarded` clients do not do at the same time; the
   enumerator of `fh_destroy` runs alone and lists every key (`Covers`), which is why
   nothing is left behind.
4. `Shows` for the refinement: the map of a key is the data of the one slot that has it.
   An insertion takes effect when it fills its slot, a deletion when it unlinks it, a
   search when it has found; there is a lemma for each (`FillMaps`, `UnlinkMaps`,
   `FindMaps`, `ReserveMaps`, `HoldMaps`) and one for the steps no client sees
   (`HiddenMaps`).  `fh_clean` appears as deletions, one for each key.

`Nth` and `Elements` of `FastHash` are defined by counting the positions before one
instead of by recursion, so that the order in which `fh_enum_create` lists a chain can
be reasoned about.

### The vector (`VectorProofs`)

`TypeCorrect` and `OverrunNeedsFailure` have the inductive invariant `TypeOK` and
`OverrunOnlyWithoutMemory` together: a vector that wrote past its end is not touched
again.  `NoThrashing` (`ResizeLeavesRoom`) is an action property and rests on the
arithmetic of halving and doubling.  `VectorIsASequence` (`ImplementsSequence`) maps
the first `total` places to a sequence; the shift of `v_delete`, a growth and a
shrinking leave the sequence that `VectorSpec` says.  No hypotheses.

### Only model-checked

* Liveness (`CallsReturn`, `EveryJobRuns`, `EveryoneReturns`) and
  `StuckOnlyThere`, which is about ENABLED: out of the prover's reach.
* `Avl` (`IsAvlTree`, `ActsAsMap`): its operators are RECURSIVE, and so is what its
  properties say of a tree.
* `HashSizeBounds` of `FastHash`: what the loop of `fh_hash_size` computes, for every
  dimension, is an induction over data.

## 5. Observations

Behaviour of the code that the model documents.  The first is the finding of
`avl_delete`; the others the runs avoid by their constants or admit in a property.

* `avl_delete_node` of a node with one child (`avl.c:218`, `:221`) frees the key string
  that the node has just taken over and leaks its own.  The tests pass because none of
  them deletes a node with one child.
* `ch_peek` ("look at first without dequeing", `ch.c:318`) decrements `count` at an end
  of transmission (`ch.c:337`) and leaves the element.  Then the list can exceed the size:
  with size 2, a put of the end of transmission, another put, a peek, and a third put,
  which finds `count` = 1 (`CapacityRespected` fails with `peek` and `EOT`, in fourteen
  states); a put that finds `count` = 0 forgets the element that was left.  A wakeup is lost: a getter that comes, or was woken, after the peek
  finds `count` = 0 and sleeps beside the end of transmission, with nobody awake to take
  it (`NoLostGetWakeup` fails, in eight states).  And a later `ch_clean` makes `count`
  negative.  With puts, gets and peeks `DerefSafe` holds; with `clean` in `Calls` it
  fails.
* `ch_destroy` ("destroys and signals waiting threads", `ch.c:484`) wakes getters that find
  `count` = 0 and sleep again: it may spin for ever.  A put that passed its checks before
  and links its element after the `ch_clean` of `ch_destroy` (`ch.c:488`) loses that
  element with the handle; in the model it is still in the list, so `NoLeak` does not
  report it.
* `_ch_put` loses its element when the copy of the block cannot be allocated (`ch.c:105`,
  `:118`; `NoLeak` fails with `CopyBlocks`); `ch_clean` wakes no putter (`ch.c:437`;
  `NoLostPutWakeup` fails with `clean`); `ch_setattr` to non blocking mode leaves sleeping
  getters without signals (`ch.c:377`, `:184`).
* `thp_wait` keeps the mutex while it waits (`thp.c:174`): a job that calls `thp_add`
  never finishes.  A job that calls `thp_add` during `thp_destroy` is queued behind the
  ends of transmission, is never run, and the `thp_wait` of `thp_destroy` waits for it
  (`thp.c:202`).  A failing `ch_put` of a completion (`thp.c:66`) or of an end of
  transmission (`thp.c:192`) has the same effect.  `StuckOnlyThere` lists these four cases
  and excludes every other.
* `lru_add` returns `LRU_NO_MEMORY` ("malloc/calloc fails" in `lru.h:23`) when all slots
  are held by other threads, or when another thread empties the cache between
  `ll_slot_new` and `ll_remove_last`, although then every slot is free.
* `fh_clean`, and every user of an enumerator, reads key pointers that a concurrent
  `fh_del` may have freed (`fh.c:1154`): with `Guarded` = FALSE `DerefSafe` fails in nine
  steps.  `h_elements` may be -1 for a moment (`fh.c:580`, `:787`), which `fh_getattr`
  shows.  An enumerator may miss an element that was there all along when others insert
  meanwhile, since its size was fixed before the scan (`fh.h:176` says so).
* `fh_insert` that cannot copy key or data leaves the slot taken (`fh.c:540`, `:555`): a
  NULL key that the next search passes to `strcmp`, or an uncounted entry without data.
  `fh_destroy` ignores a failing `fh_clean` and leaks all entries (`fh.c:418`).
  `fh_hash_size` does not end for dimensions above two thirds of 2^31 (`fh.c:62`).
* `v_add` writes past its array when realloc fails (`vector.c:70`, `:85`).

## 6. Not modelled

googletest, googlebenchmark and their copies are third-party code vendored for the
tests; they are nine tenths of the lines of the repository and no part of what the
libraries promise.  libtiming is two clock readings.  libnlru has no code.  wyhash and the other hash functions are arithmetic
on strings of which the table needs only that equal keys have equal hashes.  In the
modelled libraries: NULL handles, keys and blocks, which the entry points refuse at once
(`fh_insert` accepts NULL data, `fh.c:549`, and stores it as it stores any other value);
use of a handle after its memory is freed; failures inside the `_create` functions and
the allocations of libavl and `v_create` that the code does not test; printing,
`fh_getattr` and the test-only readers of liblru, which change nothing; the `main`
functions under `#ifdef TEST`.

## 7. Plan

1. Done: all libraries with state modelled, with abstract specifications of the channel,
   the hashtable and the vector.
2. Done: the safety invariants, action properties and refinements of the channel, its
   clients, the thread pool, the cache, the hashtable and the vector proved.
3. Left: what section 4 lists as only model-checked.  A proof about libavl would need its
   tree as a heap of nodes with left and right fields, and the invariants of the tree as
   statements about these fields instead of recursion over values.
