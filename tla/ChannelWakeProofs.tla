------------------------- MODULE ChannelWakeProofs -------------------------
(***************************************************************************)
(* Theorems about the waiting threads of Channel: the waiting counters are *)
(* exact, one signal for each put and each get suffices, and a fixed size  *)
(* channel is never overfull.  The code tests count, so the invariants of  *)
(* the steps are about count; that count is the length of the list, which  *)
(* the properties are about, is Inv, and needs NoPeekAtEOT.                *)
(***************************************************************************)
EXTENDS ChannelProofs, FiniteSetTheorems

USE DEF PutPCs, GetPCs, WipePCs, PCs, HoldsMutex, BLOCKING, NON_BLOCKING

(***************************************************************************)
(* What the positions of the threads need of the types.                    *)
(***************************************************************************)
Control ==
    /\ pc \in [Threads -> PCs] /\ ch_mutex \in Threads \cup {NULL}
    /\ MutualExclusion
    /\ count \in Int /\ max_size \in Nat /\ attr \in {BLOCKING, NON_BLOCKING}

GetWaiting == At({"get_wait", "get_woken"})
PutWaiting == At({"put_wait", "put_woken"})

\* The steps that leave pc, the mutex and the counters alone.
Still(t) == \/ WrongAttr(t) \/ Refused(t) \/ SetAttr(t) \/ GetAttr(t) \/ Peek(t)
            \/ \E call \in {"put", "put_head"}, b \in Payloads : PutNoMemory(t, call, b)
            \/ CleanCall(t) /\ UNCHANGED pc

\* The calls that enter the library.
Entering(t) == \/ \E call \in {"put", "put_head"}, b \in Payloads : PutCall(t, call, b)
               \/ GetCall(t) \/ DestroyCall(t)
               \/ CleanCall(t) /\ pc' # pc

\* What such steps do to the shared variables.
LEMMA StillFacts ==
  ASSUME Control, NEW t \in Threads, Still(t)
  PROVE  /\ UNCHANGED <<pc, ch_mutex, get_waiting_threads, put_waiting_threads>>
         /\ count' = count \/ (count' = count - 1 /\ ch_mutex = NULL /\ Peek(t))
         /\ max_size' \in Nat /\ attr' \in {BLOCKING, NON_BLOCKING}
         /\ "setattr" \notin Calls => UNCHANGED <<max_size, attr>>
  <1> USE ConstantsAssumption DEF Control, handle, waiting, list, AtOnce
  <1>1. CASE WrongAttr(t) \/ Refused(t) \/ GetAttr(t)
    BY <1>1 DEF WrongAttr, Refused, GetAttr
  <1>2. CASE SetAttr(t)
    <2>1. UNCHANGED <<pc, ch_mutex, get_waiting_threads, put_waiting_threads, count>>
          /\ "setattr" \in Calls
      BY <1>2 DEF SetAttr, MayCall
    <2>2. attr' \in {BLOCKING, NON_BLOCKING}
      BY <1>2 DEF SetAttr
    <2>3. max_size' \in Nat
      BY <1>2 DEF SetAttr, ValidSize
    <2> QED
      BY <2>1, <2>2, <2>3
  <1>3. CASE Peek(t)
    BY <1>3 DEF Peek
  <1>4. CASE \E call \in {"put", "put_head"}, b \in Payloads : PutNoMemory(t, call, b)
    BY <1>4 DEF PutNoMemory
  <1>5. CASE CleanCall(t) /\ UNCHANGED pc
    BY <1>5 DEF CleanCall
  <1> QED
    BY <1>1, <1>2, <1>3, <1>4, <1>5 DEF Still

\* And what calls do.
LEMMA EnteringFacts ==
  ASSUME Control, NEW t \in Threads, Entering(t)
  PROVE  /\ pc[t] = "idle" /\ pc'[t] \in {"put_lock", "get_lock", "clean_lock"}
         /\ pc' = [pc EXCEPT ![t] = pc'[t]]
         /\ pc'[t] = "clean_lock" => "clean" \in Calls \/ "destroy" \in Calls
         /\ UNCHANGED <<ch_mutex, get_waiting_threads, put_waiting_threads, count, max_size, attr>>
  <1> USE DEF Control, handle, waiting, list, AtOnce, Enter, MayCall
  <1>1. CASE \E call \in {"put", "put_head"}, b \in Payloads : PutCall(t, call, b)
    BY <1>1 DEF PutCall
  <1>2. CASE GetCall(t) \/ DestroyCall(t)
    BY <1>2 DEF GetCall, DestroyCall, DestroyEntry
  <1>3. CASE CleanCall(t) /\ pc' # pc
    BY <1>3 DEF CleanCall
  <1> QED
    BY <1>1, <1>2, <1>3 DEF Entering

\* A step of a thread inside the library that is about no wait.
Moving(t) == PutLock(t) \/ PutFull(t) \/ PutRoom(t) \/ GetLock(t) \/ CleanLock(t) \/ CleanStep(t)
             \/ DestroyMagic(t) \/ DestroyEnd(t)

\* It moves that thread alone, and at most takes one off count.
LEMMA MovingFacts ==
  ASSUME Control, NEW t \in Threads, Moving(t)
  PROVE  /\ pc' = [pc EXCEPT ![t] = pc'[t]]
         /\ \/ pc[t] = "put_lock" /\ pc'[t] \in {"put_mode", "put_link"}
               /\ (pc'[t] = "put_link" => max_size = 0) /\ count' = count
            \/ pc[t] = "put_mode" /\ pc'[t] = "idle" /\ attr = NON_BLOCKING /\ Full
               /\ count' = count
            \/ pc[t] \in {"put_mode", "put_loop"} /\ pc'[t] = "put_link" /\ ~Full /\ count' = count
            \/ pc[t] = "get_lock" /\ pc'[t] = "idle" /\ count' = count
            \/ pc[t] = "get_lock" /\ pc'[t] = "get_loop" /\ count' = count
               /\ (attr = NON_BLOCKING => count # 0)
            \/ pc[t] \in WipePCs /\ pc'[t] \in {"idle"} \cup WipePCs
               /\ (count' = count \/ (count' = count - 1 /\ pc[t] = "clean_loop"))
         /\ pc[t] \notin HoldsMutex /\ pc'[t] \in HoldsMutex => ch_mutex = NULL
         /\ ch_mutex' = IF pc'[t] \in HoldsMutex THEN t
                        ELSE IF pc[t] \in HoldsMutex THEN NULL ELSE ch_mutex
         /\ UNCHANGED <<get_waiting_threads, put_waiting_threads, max_size, attr>>
  <1> USE ConstantsAssumption DEF Control, MutualExclusion, handle, waiting, list, Goto, Leave, Lock
  <1>1. CASE PutLock(t)
    BY <1>1 DEF PutLock
  <1>2. CASE PutFull(t)
    BY <1>2 DEF PutFull
  <1>3. CASE PutRoom(t)
    BY <1>3 DEF PutRoom
  <1>4. CASE GetLock(t)
    BY <1>4 DEF GetLock
  <1>5. CASE CleanLock(t)
    BY <1>5 DEF CleanLock, CleanReturn
  <1>6. CASE CleanStep(t)
    BY <1>6 DEF CleanStep, CleanReturn
  <1>7. CASE DestroyMagic(t)
    BY <1>7 DEF DestroyMagic
  <1>8. CASE DestroyEnd(t)
    BY <1>8 DEF DestroyEnd
  <1> QED
    BY <1>1, <1>2, <1>3, <1>4, <1>5, <1>6, <1>7, <1>8 DEF Moving

\* A signal wakes one sleeping thread, or there is none.
LEMMA SignalFacts ==
  ASSUME Control, NEW asleep, NEW awake \in PCs, NEW f \in Woken(asleep, awake)
  PROVE  /\ f \in [Threads -> PCs]
         /\ \/ f = pc /\ \A u \in Threads : pc[u] # asleep
            \/ \E u \in Threads : pc[u] = asleep /\ f = [pc EXCEPT ![u] = awake]
  BY DEF Control, Woken

\* What the last step of a put does to the waiting threads.
LEMMA PutLinkFacts ==
  ASSUME Control, NEW t \in Threads, PutLink(t)
  PROVE  /\ pc[t] = "put_link" /\ ch_mutex = t /\ ch_mutex' = NULL /\ count' = count + 1
         /\ UNCHANGED <<get_waiting_threads, put_waiting_threads, max_size, attr>>
         /\ \/ /\ pc' = [pc EXCEPT ![t] = "idle"]
               /\ attr = NON_BLOCKING \/ \A u \in Threads : pc[u] # "get_wait"
            \/ \E u \in Threads \ {t} : /\ pc[u] = "get_wait"
                  /\ pc' = [pc EXCEPT ![u] = "get_woken", ![t] = "idle"]
  <1> USE DEF Control
  <1>1. /\ pc[t] = "put_link" /\ ch_mutex = t /\ ch_mutex' = NULL /\ count' = count + 1
        /\ UNCHANGED <<get_waiting_threads, put_waiting_threads, max_size, attr>>
    BY DEF PutLink, handle, waiting, MutualExclusion
  <1>2. PICK f \in WokenByPut : pc' = [f EXCEPT ![t] = "idle"]
    BY DEF PutLink, Leave
  <1>3. CASE attr = BLOCKING
    <2>1. f \in Woken("get_wait", "get_woken")
      BY <1>2, <1>3 DEF WokenByPut
    <2>2. \/ f = pc /\ \A u \in Threads : pc[u] # "get_wait"
          \/ \E u \in Threads : pc[u] = "get_wait" /\ f = [pc EXCEPT ![u] = "get_woken"]
      BY <2>1, SignalFacts
    <2> QED
      BY <1>1, <1>2, <2>2
  <1>4. CASE attr # BLOCKING
    BY <1>1, <1>2, <1>4 DEF WokenByPut
  <1> QED
    BY <1>3, <1>4

\* What the last step of a get does to the waiting threads.
LEMMA GetTakeFacts ==
  ASSUME Control, NEW t \in Threads, GetTake(t)
  PROVE  /\ pc[t] = "get_loop" /\ ch_mutex = t /\ ch_mutex' = NULL
         /\ count # 0 /\ count' = count - 1
         /\ UNCHANGED <<get_waiting_threads, put_waiting_threads, max_size, attr>>
         /\ \/ /\ pc' = [pc EXCEPT ![t] = "idle"]
               /\ \/ max_size = 0 \/ ~(put_waiting_threads > 0)
                  \/ \A u \in Threads : pc[u] # "put_wait"
            \/ \E u \in Threads \ {t} : /\ pc[u] = "put_wait"
                  /\ pc' = [pc EXCEPT ![u] = "put_woken", ![t] = "idle"]
  <1> USE DEF Control
  <1>1. /\ pc[t] = "get_loop" /\ ch_mutex = t /\ ch_mutex' = NULL
        /\ count # 0 /\ count' = count - 1
        /\ UNCHANGED <<get_waiting_threads, put_waiting_threads, max_size, attr>>
    BY DEF GetTake, handle, waiting, MutualExclusion
  <1>2. PICK f \in WokenByGet : pc' = [f EXCEPT ![t] = "idle"]
    BY DEF GetTake, Delivered, Leave
  <1>3. CASE max_size # 0 /\ put_waiting_threads > 0
    <2>1. f \in Woken("put_wait", "put_woken")
      BY <1>2, <1>3 DEF WokenByGet
    <2>2. \/ f = pc /\ \A u \in Threads : pc[u] # "put_wait"
          \/ \E u \in Threads : pc[u] = "put_wait" /\ f = [pc EXCEPT ![u] = "put_woken"]
      BY <2>1, SignalFacts
    <2> QED
      BY <1>1, <1>2, <2>2
  <1>4. CASE ~(max_size # 0 /\ put_waiting_threads > 0)
    BY <1>1, <1>2, <1>4 DEF WokenByGet
  <1> QED
    BY <1>3, <1>4

\* The steps into and out of the two waits.
Waiting(t) == PutWait(t) \/ PutReacquire(t) \/ GetWait(t) \/ GetReacquire(t) \/ SpuriousWakeup(t)

\* They move one thread, and the counters with it.
LEMMA WaitingFacts ==
  ASSUME Control, NEW t \in Threads, Waiting(t)
  PROVE  /\ pc' = [pc EXCEPT ![t] = pc'[t]]
         /\ \/ /\ pc[t] \in {"put_mode", "put_loop"} /\ pc'[t] = "put_wait" /\ Full
               /\ ch_mutex = t /\ ch_mutex' = NULL
               /\ put_waiting_threads' = put_waiting_threads + 1
               /\ UNCHANGED get_waiting_threads
            \/ /\ pc[t] = "put_woken" /\ pc'[t] = "put_loop"
               /\ ch_mutex = NULL /\ ch_mutex' = t
               /\ put_waiting_threads' = put_waiting_threads - 1
               /\ UNCHANGED get_waiting_threads
            \/ /\ pc[t] = "get_loop" /\ pc'[t] = "get_wait" /\ count = 0
               /\ ch_mutex = t /\ ch_mutex' = NULL
               /\ get_waiting_threads' = get_waiting_threads + 1
               /\ UNCHANGED put_waiting_threads
            \/ /\ pc[t] = "get_woken" /\ pc'[t] = "get_loop"
               /\ ch_mutex = NULL /\ ch_mutex' = t
               /\ get_waiting_threads' = get_waiting_threads - 1
               /\ UNCHANGED put_waiting_threads
            \/ /\ \/ pc[t] = "get_wait" /\ pc'[t] = "get_woken"
                  \/ pc[t] = "put_wait" /\ pc'[t] = "put_woken"
               /\ UNCHANGED <<ch_mutex, get_waiting_threads, put_waiting_threads>>
         /\ UNCHANGED <<count, max_size, attr>>
  <1> USE DEF Control, MutualExclusion, handle, waiting, list, Goto, Lock
  <1>1. CASE PutWait(t)
    BY <1>1 DEF PutWait, AtPutLoop
  <1>2. CASE PutReacquire(t)
    BY <1>2 DEF PutReacquire, PutWaitEnds, AfterPutWait
  <1>3. CASE GetWait(t)
    BY <1>3 DEF GetWait
  <1>4. CASE GetReacquire(t)
    BY <1>4 DEF GetReacquire
  <1>5. CASE SpuriousWakeup(t)
    BY <1>5 DEF SpuriousWakeup
  <1> QED
    BY <1>1, <1>2, <1>3, <1>4, <1>5 DEF Waiting

\* The broadcast of ch_destroy.
LEMMA SpinFacts ==
  ASSUME Control, NEW t \in Threads, DestroySpin(t)
  PROVE  /\ pc[t] = "destroy_spin"
         /\ pc' = [u \in Threads |-> IF pc[u] = "get_wait" THEN "get_woken" ELSE pc[u]]
         /\ UNCHANGED <<ch_mutex, get_waiting_threads, put_waiting_threads, count, max_size, attr>>
  BY DEF DestroySpin, Broadcast, handle, waiting, list

\* Every step is of one of these kinds.
LEMMA Kinds ==
  ASSUME Next
  PROVE  \E t \in Threads : \/ Still(t) \/ Entering(t) \/ Moving(t) \/ Waiting(t)
                            \/ PutLink(t) \/ GetTake(t) \/ DestroySpin(t)
  <1>1. PICK t \in Threads : Start(t) \/ Step(t) \/ SpuriousWakeup(t)
    BY DEF Next
  <1>2. CleanCall(t) => Still(t) \/ Entering(t)
    BY DEF Still, Entering
  <1>3. StartPut(t) => Still(t) \/ Entering(t)
    BY DEF StartPut, Still, Entering
  <1>4. Start(t) => Still(t) \/ Entering(t)
    BY <1>2, <1>3 DEF Start, Still, Entering
  <1>5. Step(t) => Moving(t) \/ Waiting(t) \/ PutLink(t) \/ GetTake(t) \/ DestroySpin(t)
    BY DEF Step, PutSteps, GetSteps, CleanSteps, DestroySteps, Moving, Waiting
  <1> QED
    BY <1>1, <1>4, <1>5 DEF Waiting

\* The positions of the threads and the mutex agree, whatever the list does.
LEMMA ControlNext == Control /\ [Next]_vars => Control'
  <1> SUFFICES ASSUME Control, [Next]_vars PROVE Control'
    OBVIOUS
  <1> USE ConstantsAssumption
  <1>1. CASE UNCHANGED vars
    BY <1>1 DEF vars, Control, MutualExclusion
  <1>2. CASE Next
    <2>1. PICK t \in Threads : \/ Still(t) \/ Entering(t) \/ Moving(t) \/ Waiting(t)
                               \/ PutLink(t) \/ GetTake(t) \/ DestroySpin(t)
      BY <1>2, Kinds
    <2>2. CASE Still(t)
      BY <2>2, StillFacts DEF Control, MutualExclusion
    <2>3. CASE Entering(t)
      BY <2>3, EnteringFacts DEF Control, MutualExclusion
    <2>4. CASE Moving(t)
      BY <2>4, MovingFacts DEF Control, MutualExclusion
    <2>5. CASE Waiting(t)
      BY <2>5, WaitingFacts DEF Control, MutualExclusion
    <2>6. CASE PutLink(t)
      BY <2>6, PutLinkFacts DEF Control, MutualExclusion
    <2>7. CASE GetTake(t)
      BY <2>7, GetTakeFacts DEF Control, MutualExclusion
    <2>8. CASE DestroySpin(t)
      BY <2>8, SpinFacts DEF Control, MutualExclusion
    <2> QED
      BY <2>1, <2>2, <2>3, <2>4, <2>5, <2>6, <2>7, <2>8
  <1> QED
    BY <1>1, <1>2

\* At the start.
LEMMA InitControl == Init => Control
  BY ConstantsAssumption DEF Init, Control, MutualExclusion

\* Two threads are never both between _ch_lock and _ch_unlock, whatever the
\* calls and whatever ch_peek did to count.
THEOREM Exclusion == Spec => []MutualExclusion
  <1>1. Control => MutualExclusion
    BY DEF Control
  <1> QED
    BY <1>1, InitControl, ControlNext, PTL DEF Spec

-----------------------------------------------------------------------------
(***************************************************************************)
(* The waiting counters.                                                   *)
(***************************************************************************)
USE DEF At

\* The threads at some positions, before and after one thread moves.
LEMMA Count ==
  ASSUME Control, NEW pcs, NEW t \in Threads, NEW at, pc' = [pc EXCEPT ![t] = at]
  PROVE  /\ IsFiniteSet(At(pcs)) /\ Cardinality(At(pcs)) \in Nat
         /\ (pc[t] \in pcs <=> at \in pcs) => At(pcs)' = At(pcs)
         /\ pc[t] \notin pcs /\ at \in pcs =>
               Cardinality(At(pcs)') = Cardinality(At(pcs)) + 1
         /\ pc[t] \in pcs /\ at \notin pcs =>
               Cardinality(At(pcs)') = Cardinality(At(pcs)) - 1
  <1>1. IsFiniteSet(At(pcs))
    BY ConstantsAssumption, FS_Subset
  <1>2. Cardinality(At(pcs)) \in Nat
    BY <1>1, FS_CardinalityType
  <1>3. \A u \in Threads : pc'[u] = IF u = t THEN at ELSE pc[u]
    BY DEF Control
  <1>4. (pc[t] \in pcs <=> at \in pcs) => At(pcs)' = At(pcs)
    BY <1>3
  <1>5. ASSUME pc[t] \notin pcs, at \in pcs
        PROVE  Cardinality(At(pcs)') = Cardinality(At(pcs)) + 1
    <2>1. At(pcs)' = At(pcs) \cup {t} /\ t \notin At(pcs)
      BY <1>3, <1>5
    <2> HIDE DEF At
    <2> QED
      BY <1>1, <2>1, FS_AddElement
  <1>6. ASSUME pc[t] \in pcs, at \notin pcs
        PROVE  Cardinality(At(pcs)') = Cardinality(At(pcs)) - 1
    <2>1. At(pcs)' = At(pcs) \ {t} /\ t \in At(pcs)
      BY <1>3, <1>6
    <2> HIDE DEF At
    <2> QED
      BY <1>1, <2>1, FS_RemoveElement
  <1> HIDE DEF At
  <1> QED
    BY <1>1, <1>2, <1>4, <1>5, <1>6

\* The steps that move nobody into or out of a wait.
LEMMA SameCounters ==
  ASSUME WaitCounters, UNCHANGED <<get_waiting_threads, put_waiting_threads>>,
         \A u \in Threads :
            /\ pc'[u] \in {"get_wait", "get_woken"} <=> pc[u] \in {"get_wait", "get_woken"}
            /\ pc'[u] \in {"put_wait", "put_woken"} <=> pc[u] \in {"put_wait", "put_woken"}
  PROVE  WaitCounters'
  <1>1. /\ At({"get_wait", "get_woken"})' = At({"get_wait", "get_woken"})
        /\ At({"put_wait", "put_woken"})' = At({"put_wait", "put_woken"})
    OBVIOUS
  <1> HIDE DEF At
  <1> QED
    BY <1>1 DEF WaitCounters

\* One step keeps the counters exact.
LEMMA CountersNext == Control /\ WaitCounters /\ [Next]_vars => WaitCounters'
  <1> SUFFICES ASSUME Control, WaitCounters, [Next]_vars PROVE WaitCounters'
    OBVIOUS
  <1> DEFINE Same == /\ UNCHANGED <<get_waiting_threads, put_waiting_threads>>
                     /\ \A u \in Threads :
                          /\ pc'[u] \in {"get_wait", "get_woken"} <=>
                                pc[u] \in {"get_wait", "get_woken"}
                          /\ pc'[u] \in {"put_wait", "put_woken"} <=>
                                pc[u] \in {"put_wait", "put_woken"}
  <1>0. Same => WaitCounters'
    BY SameCounters
  <1>1. CASE UNCHANGED vars
    BY <1>0, <1>1 DEF vars
  <1>2. CASE Next
    <2>1. PICK t \in Threads : \/ Still(t) \/ Entering(t) \/ Moving(t) \/ Waiting(t)
                               \/ PutLink(t) \/ GetTake(t) \/ DestroySpin(t)
      BY <1>2, Kinds
    <2>2. CASE Still(t)
      BY <1>0, <2>2, StillFacts
    <2>3. CASE Entering(t)
      <3>1. Same BY <2>3, EnteringFacts DEF Control
      <3> QED BY <1>0, <3>1
    <2>4. CASE Moving(t)
      <3>1. Same BY <2>4, MovingFacts DEF Control
      <3> QED BY <1>0, <3>1
    <2>5. CASE PutLink(t)
      <3>1. Same BY <2>5, PutLinkFacts DEF Control
      <3> QED BY <1>0, <3>1
    <2>6. CASE GetTake(t)
      <3>1. Same BY <2>6, GetTakeFacts DEF Control
      <3> QED BY <1>0, <3>1
    <2>7. CASE DestroySpin(t)
      <3>1. Same BY <2>7, SpinFacts DEF Control
      <3> QED BY <1>0, <3>1
    <2>8. CASE Waiting(t)
      <3> DEFINE G == {"get_wait", "get_woken"}
      <3> DEFINE P == {"put_wait", "put_woken"}
      <3>1. /\ IsFiniteSet(At(G)) /\ Cardinality(At(G)) \in Nat
            /\ (pc[t] \in G <=> pc'[t] \in G) => At(G)' = At(G)
            /\ pc[t] \notin G /\ pc'[t] \in G =>
                  Cardinality(At(G)') = Cardinality(At(G)) + 1
            /\ pc[t] \in G /\ pc'[t] \notin G =>
                  Cardinality(At(G)') = Cardinality(At(G)) - 1
        BY <2>8, WaitingFacts, Count
      <3>2. /\ IsFiniteSet(At(P)) /\ Cardinality(At(P)) \in Nat
            /\ (pc[t] \in P <=> pc'[t] \in P) => At(P)' = At(P)
            /\ pc[t] \notin P /\ pc'[t] \in P =>
                  Cardinality(At(P)') = Cardinality(At(P)) + 1
            /\ pc[t] \in P /\ pc'[t] \notin P =>
                  Cardinality(At(P)') = Cardinality(At(P)) - 1
        BY <2>8, WaitingFacts, Count
      <3> HIDE DEF At
      <3>3. get_waiting_threads = Cardinality(At(G)) /\ put_waiting_threads = Cardinality(At(P))
        BY DEF WaitCounters
      <3>4. get_waiting_threads' = Cardinality(At(G)')
        BY <2>8, <3>1, <3>3, WaitingFacts
      <3>5. put_waiting_threads' = Cardinality(At(P)')
        BY <2>8, <3>2, <3>3, WaitingFacts
      <3> QED
        BY <3>4, <3>5 DEF WaitCounters
    <2> QED
      BY <2>1, <2>2, <2>3, <2>4, <2>5, <2>6, <2>7, <2>8
  <1> QED
    BY <1>1, <1>2

\* get_waiting_threads and put_waiting_threads are exact, for all threads,
\* modes and sizes, ch_setattr, ch_clean and ch_destroy included.
THEOREM CountersExact == Spec => []WaitCounters
  <1>1. Init => WaitCounters
    <2> SUFFICES ASSUME Init PROVE WaitCounters
      OBVIOUS
    <2>1. At({"get_wait", "get_woken"}) = {} /\ At({"put_wait", "put_woken"}) = {}
      BY DEF Init
    <2> HIDE DEF At
    <2> QED
      BY <2>1, FS_EmptySet DEF Init, WaitCounters
  <1> QED
    BY <1>1, InitControl, ControlNext, CountersNext, PTL DEF Spec

\* Without ch_peek at EOT the number the code tests is the length of the list.
LEMMA CountIsLength == Inv => count = Len(queue)
  BY DEF Inv, ListShape

-----------------------------------------------------------------------------
(***************************************************************************)
(* The size of the channel.  A putter at put_link has seen room under the  *)
(* mutex it still holds.                                                   *)
(***************************************************************************)
Room == max_size > 0 => /\ count <= max_size
                        /\ \A t \in Threads : pc[t] = "put_link" => count < max_size

\* One step leaves room for the putter that saw it.
LEMMA RoomNext ==
  ASSUME "setattr" \notin Calls
  PROVE  Control /\ Room /\ [Next]_vars => Room'
  <1> SUFFICES ASSUME Control, Room, [Next]_vars PROVE Room'
    OBVIOUS
  <1> USE DEF Room, Control
  <1>1. CASE UNCHANGED vars
    BY <1>1 DEF vars
  <1>2. CASE Next
    <2>1. PICK t \in Threads : \/ Still(t) \/ Entering(t) \/ Moving(t) \/ Waiting(t)
                               \/ PutLink(t) \/ GetTake(t) \/ DestroySpin(t)
      BY <1>2, Kinds
    <2>2. CASE Still(t)
      <3>1. /\ UNCHANGED <<pc, max_size>> /\ (count' = count \/ count' = count - 1)
        BY <2>2, StillFacts
      <3> QED BY <3>1
    <2>3. CASE Entering(t)
      BY <2>3, EnteringFacts
    <2>4. CASE Moving(t)
      <3>1. /\ count' = count \/ count' = count - 1
            /\ UNCHANGED max_size
            /\ \A u \in Threads : u # t => pc'[u] = pc[u]
            /\ pc'[t] = "put_link" => max_size = 0 \/ (~Full /\ count' = count)
        BY <2>4, MovingFacts
      <3> QED BY <3>1 DEF Full
    <2>5. CASE Waiting(t)
      <3>1. /\ UNCHANGED <<max_size, count>>
            /\ \A u \in Threads : u # t => pc'[u] = pc[u]
            /\ pc'[t] # "put_link"
        BY <2>5, WaitingFacts
      <3> QED BY <3>1
    <2>6. CASE PutLink(t)
      <3>1. \A u \in Threads : u # t => pc[u] # "put_link"
        BY <2>6, PutLinkFacts DEF MutualExclusion
      <3>2. \A u \in Threads : pc'[u] # "put_link"
        BY <2>6, <3>1, PutLinkFacts
      <3> QED BY <2>6, <3>2, PutLinkFacts
    <2>7. CASE GetTake(t)
      <3>1. \A u \in Threads : pc'[u] = "put_link" => pc[u] = "put_link"
        BY <2>7, GetTakeFacts
      <3> QED BY <2>7, <3>1, GetTakeFacts
    <2>8. CASE DestroySpin(t)
      BY <2>8, SpinFacts
    <2> QED
      BY <2>1, <2>2, <2>3, <2>4, <2>5, <2>6, <2>7, <2>8
  <1> QED
    BY <1>1, <1>2

\* The list of a channel whose size its creator fixed is never longer than
\* that, however many putters wait and whoever is woken, for clients that do
\* not call ch_peek on a channel that carries EOT.
THEOREM CapacityKept ==
  ASSUME NoPeekAtEOT, "setattr" \notin Calls
  PROVE  Spec => []CapacityRespected
  <1>1. Init => Room
    BY ConstantsAssumption DEF Init, Room
  <1>2. Inv /\ Room => CapacityRespected
    BY CountIsLength DEF Room, CapacityRespected
  <1> QED
    BY <1>1, <1>2, Invariance, InitControl, ControlNext, RoomNext, PTL DEF Spec

-----------------------------------------------------------------------------
(***************************************************************************)
(* The getters.  In non blocking mode nobody waits, and a getter that      *)
(* passed the test for data keeps the mutex until it has taken it.         *)
(***************************************************************************)
NobodyWaits ==
    attr = NON_BLOCKING =>
        \A t \in Threads : /\ pc[t] \notin {"get_wait", "get_woken"}
                           /\ pc[t] = "get_loop" => count # 0

\* One step in non blocking mode.
LEMMA NobodyWaitsNext ==
  ASSUME "setattr" \notin Calls
  PROVE  Control /\ NobodyWaits /\ [Next]_vars => NobodyWaits'
  <1> SUFFICES ASSUME Control, NobodyWaits, [Next]_vars PROVE NobodyWaits'
    OBVIOUS
  <1> USE DEF NobodyWaits, Control
  <1>1. CASE UNCHANGED vars
    BY <1>1 DEF vars
  <1>2. CASE Next
    <2>1. PICK t \in Threads : \/ Still(t) \/ Entering(t) \/ Moving(t) \/ Waiting(t)
                               \/ PutLink(t) \/ GetTake(t) \/ DestroySpin(t)
      BY <1>2, Kinds
    <2>2. CASE Still(t)
      BY <2>2, StillFacts, ConstantsAssumption DEF MutualExclusion
    <2>3. CASE Entering(t)
      BY <2>3, EnteringFacts
    <2>4. CASE Moving(t)
      BY <2>4, MovingFacts DEF MutualExclusion
    <2>5. CASE Waiting(t)
      BY <2>5, WaitingFacts
    <2>6. CASE PutLink(t)
      BY <2>6, PutLinkFacts DEF MutualExclusion
    <2>7. CASE GetTake(t)
      BY <2>7, GetTakeFacts DEF MutualExclusion
    <2>8. CASE DestroySpin(t)
      BY <2>8, SpinFacts
    <2> QED
      BY <2>1, <2>2, <2>3, <2>4, <2>5, <2>6, <2>7, <2>8
  <1> QED
    BY <1>1, <1>2

\* Adding threads to a set of threads, one at a time or all at once.
LEMMA More ==
  ASSUME NEW S, NEW T, S \subseteq T, T \subseteq Threads
  PROVE  Cardinality(S) \in Nat /\ Cardinality(T) \in Nat /\ Cardinality(S) <= Cardinality(T)
  <1>1. IsFiniteSet(T) /\ IsFiniteSet(S)
    BY ConstantsAssumption, FS_Subset
  <1> QED
    BY <1>1, FS_Subset, FS_CardinalityType

\* A set of threads that gains one.
LEMMA OneMore ==
  ASSUME NEW S, S \subseteq Threads, NEW u \in Threads, u \notin S,
         NEW T, S \cup {u} \subseteq T, T \subseteq Threads
  PROVE  Cardinality(S) \in Nat /\ Cardinality(T) \in Nat
         /\ Cardinality(S) + 1 <= Cardinality(T)
  <1>1. IsFiniteSet(S)
    BY ConstantsAssumption, FS_Subset
  <1>2. Cardinality(S \cup {u}) = Cardinality(S) + 1 /\ Cardinality(S) \in Nat
    BY <1>1, FS_AddElement, FS_CardinalityType
  <1>3. Cardinality(S \cup {u}) <= Cardinality(T) /\ Cardinality(T) \in Nat
    BY More
  <1> QED
    BY <1>2, <1>3

\* A set of threads that may lose one.
LEMMA OneLess ==
  ASSUME NEW S, S \subseteq Threads, NEW t \in Threads,
         NEW T, S \ {t} \subseteq T, T \subseteq Threads
  PROVE  Cardinality(S) \in Nat /\ Cardinality(T) \in Nat
         /\ Cardinality(S) - 1 <= Cardinality(T)
  <1>1. IsFiniteSet(S)
    BY ConstantsAssumption, FS_Subset
  <1>2. Cardinality(S) \in Nat
    BY <1>1, FS_CardinalityType
  <1>3. Cardinality(S \ {t}) <= Cardinality(T) /\ Cardinality(T) \in Nat
        /\ Cardinality(S \ {t}) \in Nat
    BY More
  <1>4. CASE t \in S
    <2>1. Cardinality(S \ {t}) = Cardinality(S) - 1
      BY <1>1, <1>4, FS_RemoveElement
    <2> QED
      BY <1>2, <1>3, <2>1
  <1>5. CASE t \notin S
    <2>1. S \ {t} = S
      BY <1>5
    <2> QED
      BY <1>2, <1>3, <2>1
  <1> QED
    BY <1>4, <1>5

\* What NoLostGetWakeup says, of count.
GettersAwake ==
    At({"get_wait"}) # {} => count <= Cardinality(At({"get_woken", "get_loop"}))

\* One step keeps a getter awake for every element that count counts.
LEMMA GettersNext ==
  ASSUME "setattr" \notin Calls
  PROVE  Control /\ NobodyWaits /\ GettersAwake /\ [Next]_vars => GettersAwake'
  <1> SUFFICES ASSUME Control, NobodyWaits, GettersAwake, [Next]_vars,
                      NEW s \in Threads, pc'[s] = "get_wait"
               PROVE  count' <= Cardinality(At({"get_woken", "get_loop"})')
    BY DEF GettersAwake
  <1> DEFINE A == At({"get_woken", "get_loop"})
  <1> DEFINE B == At({"get_woken", "get_loop"})'
  <1>0. /\ A = {u \in Threads : pc[u] \in {"get_woken", "get_loop"}}
        /\ B = {u \in Threads : pc'[u] \in {"get_woken", "get_loop"}}
    OBVIOUS
  <1>1. pc[s] = "get_wait" => count <= Cardinality(A)
    BY DEF GettersAwake
  <1> HIDE DEF A, B
  <1>2. A \subseteq Threads /\ B \subseteq Threads
    BY <1>0
  <1>3. Cardinality(A) \in Nat /\ Cardinality(B) \in Nat
    BY <1>2, More
  <1> USE DEF Control
  <1>4. CASE UNCHANGED vars
    <2>1. A = B
      BY <1>0, <1>4 DEF vars
    <2> QED
      BY <1>1, <1>4, <2>1 DEF vars, B
  <1>5. CASE Next
    <2>1. PICK t \in Threads : \/ Still(t) \/ Entering(t) \/ Moving(t) \/ Waiting(t)
                               \/ PutLink(t) \/ GetTake(t) \/ DestroySpin(t)
      BY <1>5, Kinds
    <2>2. ASSUME A \subseteq B, pc[s] = "get_wait", count' \in Int, count' <= count
          PROVE  count' <= Cardinality(B)
      <3>1. Cardinality(A) <= Cardinality(B)
        BY <1>2, <2>2, More
      <3> QED
        BY <1>1, <1>3, <2>2, <3>1
    <2>3. CASE Still(t)
      <3>1. A \subseteq B /\ pc[s] = "get_wait" /\ count' \in Int /\ count' <= count
        BY <1>0, <2>3, StillFacts
      <3> QED BY <2>2, <3>1 DEF B
    <2>4. CASE Entering(t)
      <3>1. A \subseteq B /\ pc[s] = "get_wait" /\ count' \in Int /\ count' <= count
        BY <1>0, <2>4, EnteringFacts
      <3> QED BY <2>2, <3>1 DEF B
    <2>5. CASE Moving(t)
      <3>1. A \subseteq B /\ pc[s] = "get_wait" /\ count' \in Int /\ count' <= count
        BY <1>0, <2>5, MovingFacts
      <3> QED BY <2>2, <3>1 DEF B
    <2>6. CASE Waiting(t)
      <3>1. CASE s = t
        <4>1. count' = 0
          BY <2>6, <3>1, WaitingFacts
        <4> QED BY <1>3, <4>1 DEF B
      <3>2. CASE s # t
        <4>1. CASE pc[t] = "get_loop"
          <5>1. count' = 0
            BY <2>6, <4>1, WaitingFacts
          <5> QED BY <1>3, <5>1 DEF B
        <4>2. CASE pc[t] # "get_loop"
          <5>1. A \subseteq B /\ pc[s] = "get_wait" /\ count' \in Int /\ count' <= count
            BY <1>0, <2>6, <3>2, <4>2, WaitingFacts
          <5> QED BY <2>2, <5>1 DEF B
        <4> QED BY <4>1, <4>2
      <3> QED BY <3>1, <3>2
    <2>7. CASE PutLink(t)
      <3>1. pc[s] = "get_wait" /\ s # t
        BY <2>7, PutLinkFacts
      <3>2. attr = BLOCKING
        BY <3>1 DEF NobodyWaits
      <3>3. PICK u \in Threads \ {t} : /\ pc[u] = "get_wait"
                  /\ pc' = [pc EXCEPT ![u] = "get_woken", ![t] = "idle"]
        BY <2>7, <3>1, <3>2, PutLinkFacts
      <3>4. u \notin A /\ A \cup {u} \subseteq B
        <4>1. \A v \in Threads :
                 pc'[v] = IF v = t THEN "idle" ELSE IF v = u THEN "get_woken" ELSE pc[v]
          BY <3>3
        <4>2. pc[t] = "put_link" /\ pc[u] = "get_wait" /\ u \in Threads /\ u # t
          BY <2>7, <3>3, PutLinkFacts
        <4> HIDE DEF Control
        <4> QED BY <1>0, <4>1, <4>2
      <3>5. Cardinality(A) + 1 <= Cardinality(B)
        BY <1>2, <3>3, <3>4, OneMore
      <3>6. count' = count + 1
        BY <2>7, PutLinkFacts
      <3> QED BY <1>1, <1>3, <3>1, <3>5, <3>6 DEF B
    <2>8. CASE GetTake(t)
      <3>1. pc[s] = "get_wait" /\ count' = count - 1
        BY <2>8, GetTakeFacts
      <3>2. A \ {t} \subseteq B
        BY <1>0, <2>8, GetTakeFacts
      <3>3. Cardinality(A) - 1 <= Cardinality(B)
        BY <1>2, <3>2, OneLess
      <3> QED BY <1>1, <1>3, <3>1, <3>3 DEF B
    <2>9. CASE DestroySpin(t)
      BY <2>9, SpinFacts
    <2> QED
      BY <2>1, <2>3, <2>4, <2>5, <2>6, <2>7, <2>8, <2>9
  <1> QED
    BY <1>4, <1>5

\* One pthread_cond_signal for each put is enough: no getter sleeps beside an
\* element of the list that nobody awake will take, for any number of threads,
\* although ch_get takes the mutex again only after other getters may have, for
\* clients that do not call ch_peek on a channel that carries EOT.
THEOREM GettersWoken ==
  ASSUME NoPeekAtEOT, "setattr" \notin Calls
  PROVE  Spec => []NoLostGetWakeup
  <1>1. Init => NobodyWaits /\ GettersAwake
    BY DEF Init, NobodyWaits, GettersAwake
  <1>2. Inv /\ GettersAwake => NoLostGetWakeup
    BY CountIsLength DEF GettersAwake, NoLostGetWakeup
  <1> QED
    BY <1>1, <1>2, Invariance, InitControl, ControlNext, NobodyWaitsNext, GettersNext,
       PTL DEF Spec

-----------------------------------------------------------------------------
(***************************************************************************)
(* The putters.  ch_get signals them only when put_waiting_threads says    *)
(* that one waits, so this rests on the counters; ch_clean signals nobody. *)
(***************************************************************************)
NobodyWipes == \A t \in Threads : pc[t] \notin WipePCs

\* Nobody enters ch_clean or ch_destroy.
LEMMA NobodyWipesNext ==
  ASSUME "clean" \notin Calls, "destroy" \notin Calls
  PROVE  Control /\ NobodyWipes /\ [Next]_vars => NobodyWipes'
  <1> SUFFICES ASSUME Control, NobodyWipes, [Next]_vars PROVE NobodyWipes'
    OBVIOUS
  <1> USE DEF NobodyWipes, Control
  <1>1. CASE UNCHANGED vars
    BY <1>1 DEF vars
  <1>2. CASE Next
    <2>1. PICK t \in Threads : \/ Still(t) \/ Entering(t) \/ Moving(t) \/ Waiting(t)
                               \/ PutLink(t) \/ GetTake(t) \/ DestroySpin(t)
      BY <1>2, Kinds
    <2>2. CASE Still(t)
      BY <2>2, StillFacts
    <2>3. CASE Entering(t)
      BY <2>3, EnteringFacts
    <2>4. CASE Moving(t)
      BY <2>4, MovingFacts
    <2>5. CASE Waiting(t)
      BY <2>5, WaitingFacts
    <2>6. CASE PutLink(t)
      BY <2>6, PutLinkFacts
    <2>7. CASE GetTake(t)
      BY <2>7, GetTakeFacts
    <2>8. CASE DestroySpin(t)
      BY <2>8, SpinFacts
    <2> QED
      BY <2>1, <2>2, <2>3, <2>4, <2>5, <2>6, <2>7, <2>8
  <1> QED
    BY <1>1, <1>2

\* What NoLostPutWakeup says, of count.
PuttersAwake ==
    At({"put_wait"}) # {} /\ max_size > 0 =>
        max_size - count <=
            Cardinality(At({"put_woken", "put_mode", "put_loop", "put_link"}))

\* One step keeps a putter awake for every free place.
LEMMA PuttersNext ==
  ASSUME NoPeekAtEOT, "setattr" \notin Calls
  PROVE  Inv /\ Control /\ WaitCounters /\ NobodyWipes /\ PuttersAwake /\ [Next]_vars
            => PuttersAwake'
  <1> SUFFICES ASSUME Inv, Control, WaitCounters, NobodyWipes, PuttersAwake, [Next]_vars,
                      NEW s \in Threads, pc'[s] = "put_wait", max_size' > 0
               PROVE  max_size' - count' <=
                         Cardinality(At({"put_woken", "put_mode", "put_loop", "put_link"})')
    BY DEF PuttersAwake
  <1> DEFINE Q == {"put_woken", "put_mode", "put_loop", "put_link"}
  <1> DEFINE A == At(Q)
  <1> DEFINE B == At(Q)'
  <1>0. /\ A = {u \in Threads : pc[u] \in Q}
        /\ B = {u \in Threads : pc'[u] \in Q}
    OBVIOUS
  <1>1. pc[s] = "put_wait" /\ max_size > 0 => max_size - count <= Cardinality(A)
    BY DEF PuttersAwake
  <1> SUFFICES max_size' - count' <= Cardinality(B)
    OBVIOUS
  <1> HIDE DEF A, B
  <1>2. A \subseteq Threads /\ B \subseteq Threads
    BY <1>0
  <1>3. Cardinality(A) \in Nat /\ Cardinality(B) \in Nat
    BY <1>2, More
  <1> USE DEF Control
  <1>4. CASE UNCHANGED vars
    <2>1. A = B
      BY <1>0, <1>4 DEF vars
    <2> QED
      BY <1>1, <1>4, <2>1 DEF vars
  <1>5. CASE Next
    <2>1. PICK t \in Threads : \/ Still(t) \/ Entering(t) \/ Moving(t) \/ Waiting(t)
                               \/ PutLink(t) \/ GetTake(t) \/ DestroySpin(t)
      BY <1>5, Kinds
    <2>2. ASSUME A \subseteq B, pc[s] = "put_wait", UNCHANGED <<max_size, count>>
          PROVE  max_size' - count' <= Cardinality(B)
      <3>1. Cardinality(A) <= Cardinality(B)
        BY <1>2, <2>2, More
      <3> QED
        BY <1>1, <1>3, <2>2, <3>1
    <2>3. CASE Still(t)
      <3>1. A \subseteq B /\ pc[s] = "put_wait" /\ UNCHANGED <<max_size, count>>
        BY <1>0, <2>3, StillFacts, InvCovers, PeekKeepsCount
      <3> QED BY <2>2, <3>1
    <2>4. CASE Entering(t)
      <3>1. A \subseteq B /\ pc[s] = "put_wait" /\ UNCHANGED <<max_size, count>>
        BY <1>0, <2>4, EnteringFacts
      <3> QED BY <2>2, <3>1
    <2>5. CASE Moving(t)
      <3>1. pc[s] = "put_wait" /\ UNCHANGED <<max_size, count>>
        BY <2>5, MovingFacts DEF NobodyWipes
      <3>2. CASE pc'[t] # "idle"
        <4>1. A \subseteq B
          BY <1>0, <2>5, <3>2, MovingFacts
        <4> QED BY <2>2, <3>1, <4>1
      <3>3. CASE pc'[t] = "idle" /\ pc[t] = "put_mode"
        <4>1. count >= max_size
          BY <2>5, <3>3, MovingFacts DEF Full
        <4> QED BY <1>3, <3>1, <4>1
      <3>4. CASE pc'[t] = "idle" /\ pc[t] # "put_mode"
        <4>1. A \subseteq B
          BY <1>0, <2>5, <3>4, MovingFacts
        <4> QED BY <2>2, <3>1, <4>1
      <3> QED BY <3>2, <3>3, <3>4
    <2>6. CASE Waiting(t)
      <3>1. CASE pc[t] \in {"put_mode", "put_loop"}
        <4>1. count >= max_size /\ UNCHANGED <<max_size, count>>
          BY <2>6, <3>1, WaitingFacts DEF Full
        <4> QED BY <1>3, <4>1
      <3>2. CASE pc[t] \notin {"put_mode", "put_loop"}
        <4>1. A \subseteq B /\ pc[s] = "put_wait" /\ UNCHANGED <<max_size, count>>
          BY <1>0, <2>6, <3>2, WaitingFacts
        <4> QED BY <2>2, <4>1
      <3> QED BY <3>1, <3>2
    <2>7. CASE PutLink(t)
      <3>1. pc[s] = "put_wait" /\ count' = count + 1 /\ max_size' = max_size
        BY <2>7, PutLinkFacts
      <3>2. A \ {t} \subseteq B
        BY <1>0, <2>7, PutLinkFacts
      <3>3. Cardinality(A) - 1 <= Cardinality(B)
        BY <1>2, <3>2, OneLess
      <3> QED BY <1>1, <1>3, <3>1, <3>3
    <2>8. CASE GetTake(t)
      <3>1. pc[s] = "put_wait" /\ s # t /\ max_size' = max_size /\ count' = count - 1
        BY <2>8, GetTakeFacts
      <3>2. put_waiting_threads > 0
        <4>1. s \in At({"put_wait", "put_woken"}) /\ At({"put_wait", "put_woken"}) \subseteq Threads
          BY <3>1
        <4> HIDE DEF At
        <4>2. {} \cup {s} \subseteq At({"put_wait", "put_woken"}) /\ Cardinality({}) = 0
          BY <4>1, FS_EmptySet
        <4>3. Cardinality({}) + 1 <= Cardinality(At({"put_wait", "put_woken"}))
              /\ Cardinality(At({"put_wait", "put_woken"})) \in Nat
          BY <4>1, <4>2, OneMore
        <4> QED BY <4>2, <4>3 DEF WaitCounters
      <3>3. PICK u \in Threads \ {t} : /\ pc[u] = "put_wait"
                  /\ pc' = [pc EXCEPT ![u] = "put_woken", ![t] = "idle"]
        BY <2>8, <3>1, <3>2, GetTakeFacts
      <3>4. u \notin A /\ A \cup {u} \subseteq B
        <4>1. \A v \in Threads :
                 pc'[v] = IF v = t THEN "idle" ELSE IF v = u THEN "put_woken" ELSE pc[v]
          BY <3>3
        <4>2. pc[t] = "get_loop" /\ pc[u] = "put_wait" /\ u \in Threads /\ u # t
          BY <2>8, <3>3, GetTakeFacts
        <4> HIDE DEF Control
        <4> QED BY <1>0, <4>1, <4>2
      <3>5. Cardinality(A) + 1 <= Cardinality(B)
        BY <1>2, <3>3, <3>4, OneMore
      <3> QED BY <1>1, <1>3, <3>1, <3>5
    <2>9. CASE DestroySpin(t)
      BY <2>9, SpinFacts DEF NobodyWipes
    <2> QED
      BY <2>1, <2>3, <2>4, <2>5, <2>6, <2>7, <2>8, <2>9
  <1> QED
    BY <1>4, <1>5

\* One pthread_cond_signal for each get is enough: no putter of a fixed size
\* channel sleeps beside a free place that nobody awake will fill, although
\* ch_get skips the signal when put_waiting_threads is 0.
THEOREM PuttersWoken ==
  ASSUME NoPeekAtEOT, "setattr" \notin Calls, "clean" \notin Calls, "destroy" \notin Calls
  PROVE  Spec => []NoLostPutWakeup
  <1>1. Init => NobodyWipes /\ PuttersAwake
    BY DEF Init, NobodyWipes, PuttersAwake
  <1>2. Inv /\ PuttersAwake => NoLostPutWakeup
    BY CountIsLength DEF PuttersAwake, NoLostPutWakeup
  <1> QED
    BY <1>1, <1>2, InitControl, ControlNext, Invariance, CountersExact, NobodyWipesNext,
       PuttersNext, PTL DEF Spec

-----------------------------------------------------------------------------
(***************************************************************************)
(* The list when ch_peek has taken EOT off count: count then lags behind   *)
(* the length of the chain, and the rest of the shape is as before.        *)
(***************************************************************************)
Lags == count \in Nat /\ count <= Len(queue)

\* One step without ch_clean.
LEMMA LagsNext ==
  Base /\ Lags /\ NobodyWipes /\ [Next]_vars => (Base /\ Lags)'
  <1> SUFFICES ASSUME Base, Lags, NobodyWipes, [Next]_vars PROVE Base' /\ Lags'
    OBVIOUS
  <1>1. Len(queue) \in Nat /\ Covers
    BY DEF Base, TypeOK, Lags, Covers
  <1>2. Base'
    BY <1>1, NextBase
  <1>3. CASE UNCHANGED vars
    BY <1>2, <1>3 DEF vars, Lags
  <1>4. CASE Next
    <2>1. ~Cleaning
      BY DEF NobodyWipes, Cleaning
    <2>2. \/ count' = count /\ Len(queue') = Len(queue)
          \/ count' = 1 /\ Len(queue') = 1
          \/ count' = count + 1 /\ Len(queue') = Len(queue) + 1
          \/ count # 0 /\ count' = count - 1 /\ Len(queue') = Len(queue) - 1
          \/ count # 0 /\ count' = count - 1 /\ Len(queue') = Len(queue)
      BY <1>1, <1>4, <2>1, CountStep
    <2>3. count \in Nat /\ Len(queue) \in Nat /\ count <= Len(queue)
      BY <1>1 DEF Lags
    <2>4. \A c, n \in Nat : c <= n =>
             /\ c + 1 \in Nat /\ c + 1 <= n + 1
             /\ c # 0 => c - 1 \in Nat /\ c - 1 <= n - 1 /\ c - 1 <= n
      OBVIOUS
    <2>5. count' \in Nat /\ count' <= Len(queue')
      BY <2>2, <2>3, <2>4
    <2> QED
      BY <1>2, <2>5 DEF Lags
  <1> QED
    BY <1>3, <1>4

\* With ch_peek on a channel that carries EOT, count no longer says how long
\* the list is, but a get, a put or a peek that finds count # 0 still
\* dereferences allocated elements.  Only ch_clean, which empties the list and
\* takes one off count for each element, breaks that.
THEOREM NoDanglingEnds ==
  ASSUME "clean" \notin Calls, "destroy" \notin Calls
  PROVE  Spec => []DerefSafe
  <1>1. Init => Base /\ Lags /\ NobodyWipes
    <2>1. Init => Base
      BY InitBase
    <2>2. Init => Lags /\ NobodyWipes
      BY DEF Init, Lags, NobodyWipes
    <2> QED
      BY <2>1, <2>2
  <1>2. Base /\ Lags => DerefSafe
    <2> SUFFICES ASSUME Base, Lags, count # 0, ~Cleaning PROVE head \in heap /\ tail \in heap
      BY DEF DerefSafe
    <2>1. Len(queue) \in Nat /\ Len(queue) > 0
      BY DEF Base, TypeOK, Lags
    <2>2. head = queue[1] /\ tail = queue[Len(queue)]
      BY <2>1 DEF Base, Chain
    <2>3. 1 \in 1..Len(queue) /\ Len(queue) \in 1..Len(queue)
      BY <2>1
    <2> QED
      BY <2>2, <2>3 DEF Base, Ownership
  <1> QED
    BY <1>1, <1>2, InitControl, ControlNext, NobodyWipesNext, LagsNext, PTL DEF Spec
=============================================================================
