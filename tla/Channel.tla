------------------------------ MODULE Channel ------------------------------
(***************************************************************************)
(* libchannel/ch.c: a FIFO of blocks shared by threads, a singly linked    *)
(* list of ch_elem_t under one mutex, with a condition variable for        *)
(* getters and one for putters.  A thread's position in the code is pc[t]; *)
(* a step runs from one point where another thread may interfere to the    *)
(* next: taking the mutex, a condition wait, or an unlocked read or write  *)
(* of the handle.  queue is a history variable, the chain that starts at   *)
(* head; no guard reads it.  ret is the value returned by the last step.   *)
(* An operator named Bad... is a defective variant of the one it precedes: *)
(* nothing uses it, it is there to show that the properties detect it.     *)
(***************************************************************************)
EXTENDS Integers, Sequences, FiniteSets

CONSTANTS Threads,      \* the threads that use the channel
          Elements,     \* addresses malloc can return for a ch_elem_t
          Blocks,       \* what clients send, apart from CH_ENDOFTRANSMISSION
          EOT,          \* CH_ENDOFTRANSMISSION
          NULL,
          Calls,        \* the entry points the clients use
          Payloads,     \* the blocks the clients put
          Modes,        \* values of CH_BLOCKING_MODE the clients set
          Sizes,        \* values of CH_FIXED_SIZE the clients set
          CopyBlocks,   \* datalen # CH_DATALEN_VOIDP: a put copies its block
          JoinFirst     \* the other threads are joined before ch_destroy

BLOCKING     == 1   \* CH_ATTR_BLOCKING_GETPUT
NON_BLOCKING == 0   \* CH_ATTR_NON_BLOCKING_GETPUT

EntryPoints == {"put", "put_head", "get", "peek", "setattr", "getattr",
                "clean", "destroy"}

ASSUME ConstantsAssumption ==
    /\ IsFiniteSet(Threads) /\ IsFiniteSet(Elements)
    /\ NULL \notin Threads \cup Elements \cup Blocks \cup {EOT}
    /\ EOT \notin Blocks
    /\ Calls \subseteq EntryPoints
    /\ Payloads \subseteq Blocks \cup {EOT}
    /\ Modes \subseteq {BLOCKING, NON_BLOCKING}
    /\ Sizes \subseteq Nat
    /\ CopyBlocks \in BOOLEAN /\ JoinFirst \in BOOLEAN

VARIABLES magic, attr, max_size,      \* ch_h: set once, or by ch_setattr
          count, head, tail,          \* ch_h: the list
          get_waiting_threads,        \* ch_h: threads inside the wait of ch_get
          put_waiting_threads,        \* ch_h: threads inside the wait of ch_put
          ch_mutex,                   \* the thread that holds it, or NULL
          prev, block, heap,          \* ch_elem_t fields; the elements allocated
          pc, op, element,            \* per thread: position, call, local
          ret,                        \* what the last step returned, and to whom
          queue                       \* history: the chain from head

handle  == <<magic, attr, max_size>>
waiting == <<get_waiting_threads, put_waiting_threads>>
list    == <<count, head, tail, prev, block, heap, queue>>
vars    == <<magic, attr, max_size, count, head, tail, get_waiting_threads,
             put_waiting_threads, ch_mutex, prev, block, heap, pc, op, element,
             ret, queue>>

(***************************************************************************)
(* Results.  A put that succeeds returns the new count; the others return  *)
(* a code, and a get or a peek also delivers a block.                      *)
(***************************************************************************)
Codes == {"CH_OK", "CH_BAD_HANDLE", "CH_NO_MEMORY", "CH_WRONG_PARAM",
          "CH_WRONG_ATTR", "CH_WRONG_VALUE",
          "CH_GET_NODATA", "CH_GET_ENDOFTRANSMISSION",
          "CH_FREE_NOT_REQUESTED", "CH_PUT_CHANNEL_FULL"}
NoReturn == [thread |-> NULL, call |-> "none", code |-> "CH_OK", val |-> NULL]
Return(t, call, code, val) ==
    ret' = [thread |-> t, call |-> call, code |-> code, val |-> val]

GetPCs  == {"get_lock", "get_loop", "get_wait", "get_woken"}
PutPCs  == {"put_lock", "put_mode", "put_loop", "put_wait", "put_woken",
            "put_link"}
WipePCs == {"clean_lock", "clean_loop", "destroy_magic", "destroy_spin"}
PCs     == {"idle"} \cup GetPCs \cup PutPCs \cup WipePCs
HoldsMutex == {"put_mode", "put_loop", "put_link", "get_loop", "clean_loop"}

(***************************************************************************)
(* The handle after ch_create and the creator's calls of ch_setattr.       *)
(***************************************************************************)
Init ==
    /\ magic = "CH_MAGIC_ID"
    /\ attr \in Modes
    /\ max_size \in Sizes
    /\ count = 0 /\ head = NULL /\ tail = NULL
    /\ get_waiting_threads = 0 /\ put_waiting_threads = 0
    /\ ch_mutex = NULL
    /\ prev = [e \in Elements |-> NULL]
    /\ block = [e \in Elements |-> NULL]
    /\ heap = {}
    /\ pc = [t \in Threads |-> "idle"]
    /\ op = [t \in Threads |-> "none"]
    /\ element = [t \in Threads |-> NULL]
    /\ ret = NoReturn
    /\ queue = <<>>

(***************************************************************************)
(* Calls.  The other threads are joined before ch_destroy when JoinFirst.  *)
(***************************************************************************)
MayCall(t, call) ==
    /\ pc[t] = "idle"
    /\ call \in Calls
    /\ JoinFirst => \A u \in Threads :
          op[u] # "destroy" /\ (call = "destroy" => op[u] = "none")

Enter(t, call, at, e) ==
    /\ pc' = [pc EXCEPT ![t] = at]
    /\ op' = [op EXCEPT ![t] = call]
    /\ element' = [element EXCEPT ![t] = e]
    /\ ret' = NoReturn

Goto(t, at) ==
    /\ pc' = [pc EXCEPT ![t] = at]
    /\ ret' = NoReturn
    /\ UNCHANGED <<op, element>>

\* The call of t ends; f is pc after what its last step woke.
Leave(t, f, code, val) ==
    /\ pc' = [f EXCEPT ![t] = "idle"]
    /\ op' = [op EXCEPT ![t] = "none"]
    /\ element' = [element EXCEPT ![t] = NULL]
    /\ Return(t, op[t], code, val)

\* A call that ends in the step in which it starts.
AtOnce(t, call, code, val) ==
    /\ Return(t, call, code, val)
    /\ UNCHANGED <<pc, op, element>>

\* ch_setattr or ch_getattr with an unknown attribute, or a wrong mode.
WrongAttr(t) ==
    /\ \/ \E call \in {"setattr", "getattr"} :
             MayCall(t, call) /\ AtOnce(t, call, "CH_WRONG_ATTR", NULL)
       \/ MayCall(t, "setattr") /\ AtOnce(t, "setattr", "CH_WRONG_VALUE", NULL)
    /\ magic = "CH_MAGIC_ID"
    /\ UNCHANGED <<handle, list, waiting, ch_mutex>>

\* CH_CHECK and CH_CHECK_BLOCK: a destroyed handle or a NULL block.
Refused(t) ==
    \E call \in EntryPoints :
        LET takesBlock == call \in {"put", "put_head", "get", "peek"} IN
        /\ MayCall(t, call)
        /\ magic # "CH_MAGIC_ID" \/ takesBlock
        /\ AtOnce(t, call, IF takesBlock THEN "CH_WRONG_PARAM"
                                         ELSE "CH_BAD_HANDLE", NULL)
        /\ UNCHANGED <<handle, list, waiting, ch_mutex>>

(***************************************************************************)
(* The mutex, the condition variables and memory.                          *)
(***************************************************************************)
\* Defect: _ch_lock does not wait for the holder.
BadLock(t) == ch_mutex' = t
\* _ch_lock, in a step that does not also unlock.
Lock(t) == ch_mutex = NULL /\ ch_mutex' = t

\* pthread_cond_signal wakes one of the threads that wait, if any; Woken is
\* the set of the values pc may then have.
Woken(asleep, awake) ==
    LET W == {t \in Threads : pc[t] = asleep}
    IN  IF W = {} THEN {pc} ELSE {[pc EXCEPT ![t] = awake] : t \in W}

\* Defect: a signal only when the channel stops being full.
BadWokenByGet ==
    IF max_size # 0 /\ put_waiting_threads > 0 /\ count >= max_size
    THEN Woken("put_wait", "put_woken") ELSE {pc}
\* ch_get signals putters only on a fixed size channel with a waiting putter.
WokenByGet ==
    IF max_size # 0 /\ put_waiting_threads > 0
    THEN Woken("put_wait", "put_woken") ELSE {pc}

\* Defect: a signal only when the channel stops being empty.
BadWokenByPut ==
    IF attr = BLOCKING /\ count = 0
    THEN Woken("get_wait", "get_woken") ELSE {pc}
\* ch_put signals getters only in blocking mode.
WokenByPut ==
    IF attr = BLOCKING THEN Woken("get_wait", "get_woken") ELSE {pc}

\* A condition wait may return without a signal.
SpuriousWakeup(t) ==
    /\ \/ pc[t] = "get_wait" /\ Goto(t, "get_woken")
       \/ pc[t] = "put_wait" /\ Goto(t, "put_woken")
    /\ UNCHANGED <<handle, list, waiting, ch_mutex>>

\* The fields of a freed element have no meaning: NULL stands for any content,
\* and by Ownership nobody reads them.
Free(e) ==
    /\ heap' = heap \ {e}
    /\ prev' = [prev EXCEPT ![e] = NULL]
    /\ block' = [block EXCEPT ![e] = NULL]

(***************************************************************************)
(* ch_put and ch_put_head                                                  *)
(***************************************************************************)
PutCall(t, call, b) ==
    /\ MayCall(t, call)
    /\ magic = "CH_MAGIC_ID"
    /\ \E e \in Elements \ heap :
          /\ heap' = heap \cup {e}
          /\ prev' = [prev EXCEPT ![e] = NULL]
          /\ block' = [block EXCEPT ![e] = b]
          /\ Enter(t, call, "put_lock", e)
    /\ UNCHANGED <<handle, waiting, ch_mutex, count, head, tail, queue>>

\* malloc of the element fails, or malloc of the copy of the block does; in
\* the second case the element stays allocated and nobody points to it.
PutNoMemory(t, call, b) ==
    /\ MayCall(t, call)
    /\ magic = "CH_MAGIC_ID"
    /\ \/ UNCHANGED heap
       \/ /\ CopyBlocks /\ b # EOT
          /\ \E e \in Elements \ heap : heap' = heap \cup {e}
    /\ AtOnce(t, call, "CH_NO_MEMORY", NULL)
    /\ UNCHANGED <<handle, waiting, ch_mutex, count, head, tail, prev, block,
                   queue>>

PutLock(t) ==
    /\ pc[t] = "put_lock"
    /\ Lock(t)
    /\ Goto(t, IF max_size > 0 THEN "put_mode" ELSE "put_link")
    /\ UNCHANGED <<handle, list, waiting>>

Full == count >= max_size

\* Defect: if instead of while around pthread_cond_wait.
BadAfterPutWait == "put_link"
\* Where a putter goes on when its wait ends: it tests for room again.
AfterPutWait == "put_loop"

\* Defect: put_waiting_threads is not decremented.
BadPutWaitEnds == put_waiting_threads
PutWaitEnds == put_waiting_threads - 1

\* Defect: the element is not freed.
BadDiscard(e) == UNCHANGED <<heap, prev, block>>
Discard(e) == Free(e)

\* Non blocking mode: a full channel refuses the element, which is freed.
PutFull(t) ==
    /\ pc[t] = "put_mode" /\ attr = NON_BLOCKING /\ Full
    /\ Discard(element[t])
    /\ ch_mutex' = NULL
    /\ Leave(t, pc, "CH_PUT_CHANNEL_FULL", NULL)
    /\ UNCHANGED <<handle, waiting, count, head, tail, queue>>

\* Blocking mode: the test of the while loop that waits for room.
AtPutLoop(t) ==
    \/ pc[t] = "put_mode" /\ attr = BLOCKING
    \/ pc[t] = "put_loop"

PutWait(t) ==
    /\ AtPutLoop(t)
    /\ Full
    /\ put_waiting_threads' = put_waiting_threads + 1
    /\ ch_mutex' = NULL
    /\ Goto(t, "put_wait")
    /\ UNCHANGED <<handle, list, get_waiting_threads>>

PutRoom(t) ==
    /\ pc[t] \in {"put_mode", "put_loop"}
    /\ ~Full
    /\ Goto(t, "put_link")
    /\ UNCHANGED <<handle, list, waiting, ch_mutex>>

PutReacquire(t) ==
    /\ pc[t] = "put_woken"
    /\ Lock(t)
    /\ put_waiting_threads' = PutWaitEnds
    /\ Goto(t, AfterPutWait)
    /\ UNCHANGED <<handle, list, get_waiting_threads>>

LinkLast(e) ==
    /\ tail' = e
    /\ IF count = 0
       THEN head' = e /\ queue' = <<e>> /\ UNCHANGED prev
       ELSE /\ prev' = [prev EXCEPT ![tail] = e]
            /\ queue' = Append(queue, e)
            /\ UNCHANGED head

LinkFirst(e) ==
    /\ head' = e
    /\ IF count = 0
       THEN tail' = e /\ queue' = <<e>> /\ UNCHANGED prev
       ELSE /\ prev' = [prev EXCEPT ![e] = head]
            /\ queue' = <<e>> \o queue
            /\ UNCHANGED tail

\* Defect: ch_put jumps the queue as ch_put_head does.
BadAtEnd(t) == FALSE
\* where == CH_PUT_STD
AtEnd(t) == op[t] = "put"

PutLink(t) ==
    /\ pc[t] = "put_link"
    /\ IF AtEnd(t) THEN LinkLast(element[t]) ELSE LinkFirst(element[t])
    /\ count' = count + 1
    /\ ch_mutex' = NULL
    /\ \E f \in WokenByPut : Leave(t, f, "CH_OK", count + 1)
    /\ UNCHANGED <<handle, waiting, block, heap>>

(***************************************************************************)
(* ch_get                                                                  *)
(***************************************************************************)
GetCall(t) ==
    /\ MayCall(t, "get")
    /\ magic = "CH_MAGIC_ID"
    /\ Enter(t, "get", "get_lock", NULL)
    /\ UNCHANGED <<handle, list, waiting, ch_mutex>>

GetLock(t) ==
    /\ pc[t] = "get_lock"
    /\ ch_mutex = NULL
    /\ IF count = 0 /\ attr = NON_BLOCKING
       THEN Leave(t, pc, "CH_GET_NODATA", NULL) /\ UNCHANGED ch_mutex
       ELSE Goto(t, "get_loop") /\ ch_mutex' = t
    /\ UNCHANGED <<handle, list, waiting>>

GetWait(t) ==
    /\ pc[t] = "get_loop"
    /\ count = 0
    /\ get_waiting_threads' = get_waiting_threads + 1
    /\ ch_mutex' = NULL
    /\ Goto(t, "get_wait")
    /\ UNCHANGED <<handle, list, put_waiting_threads>>

GetReacquire(t) ==
    /\ pc[t] = "get_woken"
    /\ Lock(t)
    /\ get_waiting_threads' = get_waiting_threads - 1
    /\ Goto(t, "get_loop")
    /\ UNCHANGED <<handle, list, put_waiting_threads>>

Delivered(t, f, b) ==
    IF b = EOT THEN Leave(t, f, "CH_GET_ENDOFTRANSMISSION", NULL)
               ELSE Leave(t, f, "CH_OK", b)

\* Defect: tail keeps pointing to the element that is freed.
BadTailAfterGet == tail
TailAfterGet == IF prev[head] = NULL THEN NULL ELSE tail

\* Defect: the wrong end is freed.
BadTaken == tail
Taken == head

GetTake(t) ==
    /\ pc[t] = "get_loop"
    /\ count # 0
    /\ head' = prev[head]
    /\ tail' = TailAfterGet
    /\ queue' = Tail(queue)
    /\ Free(Taken)
    /\ count' = count - 1
    /\ ch_mutex' = NULL
    /\ \E f \in WokenByGet : Delivered(t, f, block[head])
    /\ UNCHANGED <<handle, waiting>>

(***************************************************************************)
(* ch_peek, ch_setattr, ch_getattr                                         *)
(***************************************************************************)
Peek(t) ==
    /\ MayCall(t, "peek")
    /\ magic = "CH_MAGIC_ID"
    /\ ch_mutex = NULL
    /\ \/ /\ count = 0
          /\ AtOnce(t, "peek", "CH_GET_NODATA", NULL)
          /\ UNCHANGED count
       \/ /\ count # 0 /\ block[head] = EOT
          /\ AtOnce(t, "peek", "CH_GET_ENDOFTRANSMISSION", NULL)
          /\ count' = count - 1
       \/ /\ count # 0 /\ block[head] # EOT
          /\ AtOnce(t, "peek", "CH_OK", block[head])
          /\ UNCHANGED count
    /\ UNCHANGED <<handle, waiting, ch_mutex, head, tail, prev, block, heap,
                   queue>>

\* Defect: a negative size is accepted.
BadValidSize(val) == TRUE
ValidSize(val) == val >= 0

\* Does not take the mutex, so it may run between any two steps of a put.  A
\* negative size is ignored.
SetAttr(t) ==
    /\ MayCall(t, "setattr")
    /\ magic = "CH_MAGIC_ID"
    /\ \/ attr' \in Modes /\ UNCHANGED max_size
       \/ /\ \E val \in Sizes \cup {-1} :
                max_size' = IF ValidSize(val) THEN val ELSE max_size
          /\ UNCHANGED attr
    /\ AtOnce(t, "setattr", "CH_OK", NULL)
    /\ UNCHANGED <<magic, list, waiting, ch_mutex>>

\* CH_COUNT is read under the mutex, the other two attributes without it.
GetAttr(t) ==
    /\ MayCall(t, "getattr")
    /\ magic = "CH_MAGIC_ID"
    /\ \/ ch_mutex = NULL /\ AtOnce(t, "getattr", "CH_OK", count)
       \/ AtOnce(t, "getattr", "CH_OK", attr)
       \/ AtOnce(t, "getattr", "CH_OK", max_size)
    /\ UNCHANGED <<handle, list, waiting, ch_mutex>>

(***************************************************************************)
(* ch_clean and ch_destroy                                                 *)
(***************************************************************************)
CleanCall(t) ==
    /\ MayCall(t, "clean")
    /\ magic = "CH_MAGIC_ID"
    /\ \/ Enter(t, "clean", "clean_lock", NULL)
       \/ CopyBlocks /\ AtOnce(t, "clean", "CH_FREE_NOT_REQUESTED", NULL)
    /\ UNCHANGED <<handle, list, waiting, ch_mutex>>

\* ch_destroy begins with a call of ch_clean.
DestroyEntry == "clean_lock"

DestroyCall(t) ==
    /\ MayCall(t, "destroy")
    /\ magic = "CH_MAGIC_ID"
    /\ Enter(t, "destroy", DestroyEntry, NULL)
    /\ UNCHANGED <<handle, list, waiting, ch_mutex>>

\* Where ch_clean returns to: its caller, or ch_destroy.
CleanReturn(t) ==
    IF op[t] = "destroy" THEN Goto(t, "destroy_magic")
                         ELSE Leave(t, pc, "CH_OK", NULL)

CleanLock(t) ==
    /\ pc[t] = "clean_lock"
    /\ ch_mutex = NULL
    /\ IF count = 0
       THEN CleanReturn(t) /\ UNCHANGED ch_mutex
       ELSE /\ pc' = [pc EXCEPT ![t] = "clean_loop"]
            /\ element' = [element EXCEPT ![t] = head]
            /\ ret' = NoReturn
            /\ ch_mutex' = t
            /\ UNCHANGED op
    /\ UNCHANGED <<handle, list, waiting>>

\* One turn of the loop: free the element and go on to the next one.
CleanStep(t) ==
    LET e == element[t] next == prev[e] IN
    /\ pc[t] = "clean_loop"
    /\ Free(e)
    /\ count' = count - 1
    /\ queue' = Tail(queue)
    /\ IF next # NULL
       THEN /\ element' = [element EXCEPT ![t] = next]
            /\ ret' = NoReturn
            /\ UNCHANGED <<pc, op, ch_mutex, head, tail>>
       ELSE /\ head' = NULL /\ tail' = NULL
            /\ ch_mutex' = NULL
            /\ CleanReturn(t)
    /\ UNCHANGED <<handle, waiting>>

DestroyMagic(t) ==
    /\ pc[t] = "destroy_magic"
    /\ magic' = "0xD"
    /\ IF attr = BLOCKING THEN Goto(t, "destroy_spin")
                          ELSE Leave(t, pc, "CH_OK", NULL)
    /\ UNCHANGED <<attr, max_size, list, waiting, ch_mutex>>

Broadcast == [u \in Threads |->
                IF pc[u] = "get_wait" THEN "get_woken" ELSE pc[u]]

\* get_waiting_threads is read without the mutex.
DestroySpin(t) ==
    /\ pc[t] = "destroy_spin"
    /\ get_waiting_threads > 0
    /\ pc' = Broadcast
    /\ ret' = NoReturn
    /\ UNCHANGED <<handle, list, waiting, ch_mutex, op, element>>

DestroyEnd(t) ==
    /\ pc[t] = "destroy_spin"
    /\ get_waiting_threads <= 0
    /\ Leave(t, pc, "CH_OK", NULL)
    /\ UNCHANGED <<handle, list, waiting, ch_mutex>>

-----------------------------------------------------------------------------
PutSteps(t) == \/ PutLock(t) \/ PutFull(t) \/ PutWait(t)
               \/ PutRoom(t) \/ PutReacquire(t) \/ PutLink(t)
GetSteps(t) == GetLock(t) \/ GetWait(t) \/ GetReacquire(t) \/ GetTake(t)
CleanSteps(t) == CleanLock(t) \/ CleanStep(t)
DestroySteps(t) == DestroyMagic(t) \/ DestroySpin(t) \/ DestroyEnd(t)

\* What a thread inside a call does next.
Step(t) == PutSteps(t) \/ GetSteps(t) \/ CleanSteps(t) \/ DestroySteps(t)

StartPut(t) == \E call \in {"put", "put_head"}, b \in Payloads :
                  PutCall(t, call, b) \/ PutNoMemory(t, call, b)

\* A thread outside the library makes a call.
Start(t) == \/ Refused(t) \/ WrongAttr(t) \/ StartPut(t) \/ GetCall(t) \/ Peek(t)
            \/ SetAttr(t) \/ GetAttr(t) \/ CleanCall(t) \/ DestroyCall(t)

Next == \E t \in Threads : Start(t) \/ Step(t) \/ SpuriousWakeup(t)

Spec == Init /\ [][Next]_vars

-----------------------------------------------------------------------------
(***************************************************************************)
(* Properties.                                                             *)
(***************************************************************************)
At(pcs)   == {t \in Threads : pc[t] \in pcs}
Cleaning  == At({"clean_loop"}) # {}
Linked    == {queue[i] : i \in 1..Len(queue)}

\* The clients never use ch_peek on a channel that carries EOT.
NoPeekAtEOT == "peek" \notin Calls \/ EOT \notin Payloads

\* Every variable of the handle, of the heap and of the threads has its type.
TypeOK ==
    /\ magic \in {"CH_MAGIC_ID", "0xD"}
    /\ attr \in Modes /\ max_size \in Sizes
    /\ count \in Int
    /\ head \in Elements \cup {NULL} /\ tail \in Elements \cup {NULL}
    /\ get_waiting_threads \in Int /\ put_waiting_threads \in Int
    /\ ch_mutex \in Threads \cup {NULL}
    /\ prev \in [Elements -> Elements \cup {NULL}]
    /\ block \in [Elements -> Payloads \cup {NULL}]
    /\ heap \subseteq Elements
    /\ pc \in [Threads -> PCs]
    /\ op \in [Threads -> EntryPoints \cup {"none"}]
    /\ element \in [Threads -> Elements \cup {NULL}]
    /\ queue \in Seq(Elements)

\* The critical sections of ch.c exclude one another: exactly the thread
\* between _ch_lock and _ch_unlock holds ch_mutex.
MutualExclusion ==
    \A t \in Threads : (pc[t] \in HoldsMutex) <=> (ch_mutex = t)

\* head, tail, prev and count describe one list, whichever puts, gets and
\* cleans have been interleaved: count is its length, prev chains it without
\* a cycle, and head and tail are its ends.  While ch_clean frees the list
\* its cursor, and not yet head, is the first element left.
ListShape ==
    /\ count = Len(queue)
    /\ \A i, j \in 1..Len(queue) : queue[i] = queue[j] => i = j
    /\ \A i \in 1..Len(queue) :
          prev[queue[i]] = IF i = Len(queue) THEN NULL ELSE queue[i + 1]
    /\ Len(queue) = 0 => head = NULL /\ tail = NULL
    /\ Len(queue) > 0 => tail = queue[Len(queue)]
    /\ Len(queue) > 0 /\ ~Cleaning => head = queue[1]
    /\ \A t \in At({"clean_loop"}) : Len(queue) > 0 /\ element[t] = queue[1]

\* Every ch_elem_t a thread may dereference is allocated and has one owner:
\* it is in the list, or it is the element of one thread inside _ch_put.
Ownership ==
    /\ \A i \in 1..Len(queue) : queue[i] \in heap /\ block[queue[i]] # NULL
    /\ \A t \in At(PutPCs) :
          /\ element[t] \in heap \ Linked
          /\ prev[element[t]] = NULL /\ block[element[t]] # NULL
    /\ \A t, u \in At(PutPCs) : element[t] = element[u] => t = u

\* Nothing else is allocated: no path through _ch_put, ch_get or ch_clean
\* forgets to free an element.
NoLeak == heap \subseteq Linked \cup {element[t] : t \in At(PutPCs)}

\* The waiting counters count the threads between the ++ and the -- around
\* pthread_cond_wait, those that were woken and still need the mutex included.
WaitCounters ==
    /\ get_waiting_threads = Cardinality(At({"get_wait", "get_woken"}))
    /\ put_waiting_threads = Cardinality(At({"put_wait", "put_woken"}))

\* A fixed size channel never holds more than max_size elements: the list that
\* starts at head is no longer than that, although _ch_put tests count, and the
\* room a putter saw before it waited may be gone when it is woken.
CapacityRespected == max_size > 0 => Len(queue) <= max_size

\* pthread_cond_signal in _ch_put suffices: while a getter sleeps there is,
\* for every element in the list, a getter that is awake and will take it.
NoLostGetWakeup ==
    At({"get_wait"}) # {} =>
        Len(queue) <= Cardinality(At({"get_woken", "get_loop"}))

\* pthread_cond_signal in ch_get suffices: while a putter sleeps on a fixed
\* size channel there is, for every place the list leaves free, a putter that
\* is awake.
NoLostPutWakeup ==
    At({"put_wait"}) # {} /\ max_size > 0 =>
        max_size - Len(queue) <=
            Cardinality(At({"put_woken", "put_mode", "put_loop", "put_link"}))

\* Whatever ch_peek does to count, a get, put or peek that finds count # 0
\* dereferences allocated elements: the list is never shorter than count.
DerefSafe == count # 0 /\ ~Cleaning => head \in heap /\ tail \in heap
=============================================================================
