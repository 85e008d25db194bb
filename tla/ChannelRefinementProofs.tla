---------------------- MODULE ChannelRefinementProofs ----------------------
(***************************************************************************)
(* ch.c implements ChannelSpec, for any number of threads and addresses,   *)
(* any blocks and sizes, and any calls but ch_setattr on a channel in use: *)
(* every step of a thread is one step of the abstract queue, or none that  *)
(* a client can see.                                                       *)
(***************************************************************************)
EXTENDS ChannelRefinement, ChannelWakeProofs

USE DEF At, Linked, PutPCs, GetPCs, WipePCs, PCs, HoldsMutex, BLOCKING, NON_BLOCKING

(***************************************************************************)
(* The call a thread is in follows from where it is.                       *)
(***************************************************************************)
OpOf(t) ==
    /\ pc[t] = "idle" => op[t] = "none"
    /\ pc[t] \in PutPCs => op[t] \in {"put", "put_head"}
    /\ pc[t] \in GetPCs => op[t] = "get"
    /\ pc[t] \in {"clean_lock", "clean_loop"} => op[t] \in {"clean", "destroy"}
    /\ pc[t] \in {"destroy_magic", "destroy_spin"} => op[t] = "destroy"
    /\ pc[t] = "put_mode" => max_size > 0

Ops == \A t \in Threads : OpOf(t)

\* A step of t moves t, and wakes at most threads of the same call.
LEMMA OpsOfOne ==
  ASSUME Ops, NEW t \in Threads, OpOf(t)', UNCHANGED max_size,
         \A u \in Threads \ {t} :
            /\ op'[u] = op[u]
            /\ \/ pc'[u] = pc[u]
               \/ pc[u] = "get_wait" /\ pc'[u] = "get_woken"
               \/ pc[u] = "put_wait" /\ pc'[u] = "put_woken"
  PROVE  Ops'
  <1>1. \A u \in Threads \ {t} : OpOf(u)'
    BY DEF Ops, OpOf
  <1> QED
    BY <1>1 DEF Ops

\* One step.
LEMMA OpsNext ==
  ASSUME "setattr" \notin Calls
  PROVE  Inv /\ Ops /\ [Next]_vars => Ops'
  <1> SUFFICES ASSUME Inv, Ops, [Next]_vars PROVE Ops'
    OBVIOUS
  <1> USE ConstantsAssumption
  <1>1. CASE UNCHANGED vars
    BY <1>1 DEF vars, Ops, OpOf
  <1>2. CASE Next
    <2>1. PICK t \in Threads : Start(t) \/ Step(t) \/ SpuriousWakeup(t)
      BY <1>2 DEF Next
    <2> DEFINE Others == \A u \in Threads \ {t} :
            /\ op'[u] = op[u]
            /\ \/ pc'[u] = pc[u]
               \/ pc[u] = "get_wait" /\ pc'[u] = "get_woken"
               \/ pc[u] = "put_wait" /\ pc'[u] = "put_woken"
    <2>2. OpOf(t)
      BY DEF Ops
    <2>3. OpOf(t)' /\ UNCHANGED max_size /\ Others => Ops'
      BY OpsOfOne
    <2> HIDE DEF Ops
    <2> USE DEF OpOf, Inv, TypeOK, handle
    <2>4. CASE \/ Refused(t) \/ WrongAttr(t) \/ Peek(t) \/ GetAttr(t) \/ SetAttr(t)
               \/ \E call \in {"put", "put_head"}, b \in Payloads : PutNoMemory(t, call, b)
      <3>1. OpOf(t)' /\ UNCHANGED max_size /\ Others
        BY <2>2, <2>4 DEF Refused, WrongAttr, Peek, GetAttr, SetAttr, PutNoMemory, AtOnce, MayCall
      <3> QED BY <2>3, <3>1
    <2>5. CASE \E call \in {"put", "put_head"}, b \in Payloads : PutCall(t, call, b)
      <3>1. OpOf(t)' /\ UNCHANGED max_size /\ Others
        BY <2>5 DEF PutCall, Enter
      <3> QED BY <2>3, <3>1
    <2>6. CASE GetCall(t) \/ DestroyCall(t)
      <3>1. OpOf(t)' /\ UNCHANGED max_size /\ Others
        BY <2>6 DEF GetCall, DestroyCall, DestroyEntry, Enter
      <3> QED BY <2>3, <3>1
    <2>7. CASE CleanCall(t)
      <3>1. OpOf(t)' /\ UNCHANGED max_size /\ Others
        BY <2>2, <2>7 DEF CleanCall, Enter, AtOnce
      <3> QED BY <2>3, <3>1
    <2>8. CASE PutLock(t) \/ PutFull(t) \/ PutWait(t)
      <3>1. OpOf(t)' /\ UNCHANGED max_size /\ Others
        BY <2>2, <2>8 DEF PutLock, PutFull, PutWait, AtPutLoop, Goto, Leave
      <3> QED BY <2>3, <3>1
    <2>9. CASE PutRoom(t) \/ PutReacquire(t)
      <3>1. OpOf(t)' /\ UNCHANGED max_size /\ Others
        BY <2>2, <2>9 DEF PutRoom, PutReacquire, AfterPutWait, Goto
      <3> QED BY <2>3, <3>1
    <2>10. CASE PutLink(t)
      <3>1. PICK f \in WokenByPut : Leave(t, f, "CH_OK", count + 1)
        BY <2>10 DEF PutLink
      <3>2. /\ f \in [Threads -> PCs]
            /\ \A u \in Threads : f[u] = pc[u] \/ (pc[u] = "get_wait" /\ f[u] = "get_woken")
        BY WokenFacts, <3>1 DEF WokenByPut
      <3>3. OpOf(t)' /\ UNCHANGED max_size /\ Others
        BY <3>1, <3>2, <2>10 DEF Leave, PutLink
      <3> QED BY <2>3, <3>3
    <2>11. CASE GetTake(t)
      <3>1. PICK f \in WokenByGet : Delivered(t, f, block[head])
        BY <2>11 DEF GetTake
      <3>2. /\ f \in [Threads -> PCs]
            /\ \A u \in Threads : f[u] = pc[u] \/ (pc[u] = "put_wait" /\ f[u] = "put_woken")
        BY WokenFacts, <3>1 DEF WokenByGet
      <3>3. OpOf(t)' /\ UNCHANGED max_size /\ Others
        BY <3>1, <3>2, <2>11 DEF Delivered, Leave, GetTake
      <3> QED BY <2>3, <3>3
    <2>12. CASE GetLock(t) \/ GetWait(t) \/ GetReacquire(t) \/ SpuriousWakeup(t)
      <3>1. OpOf(t)' /\ UNCHANGED max_size /\ Others
        BY <2>2, <2>12 DEF GetLock, GetWait, GetReacquire, SpuriousWakeup, Goto, Leave
      <3> QED BY <2>3, <3>1
    <2>13. CASE CleanLock(t) \/ CleanStep(t)
      <3>1. OpOf(t)' /\ UNCHANGED max_size /\ Others
        BY <2>2, <2>13 DEF CleanLock, CleanStep, CleanReturn, Goto, Leave
      <3> QED BY <2>3, <3>1
    <2>14. CASE DestroyMagic(t) \/ DestroyEnd(t)
      <3>1. OpOf(t)' /\ UNCHANGED max_size /\ Others
        BY <2>2, <2>14 DEF DestroyMagic, DestroyEnd, Goto, Leave
      <3> QED BY <2>3, <3>1
    <2>15. CASE DestroySpin(t)
      <3>1. OpOf(t)' /\ UNCHANGED max_size /\ Others
        BY <2>2, <2>15 DEF DestroySpin, Broadcast
      <3> QED BY <2>3, <3>1
    <2> QED
      BY <2>1, <2>4, <2>5, <2>6, <2>7, <2>8, <2>9, <2>10, <2>11, <2>12, <2>13, <2>14, <2>15
         DEF Start, StartPut, Step, PutSteps, GetSteps, CleanSteps, DestroySteps
  <1> QED
    BY <1>1, <1>2

-----------------------------------------------------------------------------
(***************************************************************************)
(* The abstract state before and after a step.                             *)
(***************************************************************************)
PendOf(t) == [call |-> op[t],
              arg  |-> IF pc[t] \in PutPCs THEN block[element[t]] ELSE NULL,
              done |-> pc[t] \in Wiped]

\* What a client sees of a thread depends on that thread alone.
LEMMA PendIs ==
  /\ pendbar = [t \in Threads |-> PendOf(t)]
  /\ pendbar' = [t \in Threads |-> PendOf(t)']
  BY DEF pendbar, PendOf

\* A step that no client can see.
LEMMA PendSame ==
  ASSUME \A u \in Threads : PendOf(u)' = PendOf(u)
  PROVE  pendbar' = pendbar
  BY PendIs

\* A step that changes the call of one thread.
LEMMA PendOne ==
  ASSUME NEW t \in Threads, NEW p, PendOf(t)' = p,
         \A u \in Threads \ {t} : PendOf(u)' = PendOf(u)
  PROVE  pendbar' = [pendbar EXCEPT ![t] = p]
  <1>1. pendbar' = [u \in Threads |-> IF u = t THEN p ELSE PendOf(u)]
    BY PendIs
  <1>2. [pendbar EXCEPT ![t] = p] = [u \in Threads |-> IF u = t THEN p ELSE PendOf(u)]
    BY PendIs
  <1> QED
    BY <1>1, <1>2

\* A thread whose call, position and block do not change.
LEMMA PendUnmoved ==
  ASSUME NEW u, op'[u] = op[u], pc'[u] \in PutPCs <=> pc[u] \in PutPCs,
         pc'[u] \in Wiped <=> pc[u] \in Wiped,
         pc[u] \in PutPCs => block'[element'[u]] = block[element[u]]
  PROVE  PendOf(u)' = PendOf(u)
  BY DEF PendOf

\* The queue as the client sees it.
LEMMA QueueIs ==
  ASSUME Inv
  PROVE  /\ Cleaning => qbar = <<>>
         /\ ~Cleaning => /\ qbar \in Seq(Payloads \cup {NULL}) /\ Len(qbar) = Len(queue)
                         /\ \A i \in 1..Len(queue) : qbar[i] = block[queue[i]]
                         /\ Len(queue) = 0 => qbar = <<>>
                         /\ Len(queue) > 0 => qbar # <<>> /\ Head(qbar) = block[queue[1]]
  <1>1. queue \in Seq(Elements) /\ Len(queue) \in Nat
        /\ \A i \in 1..Len(queue) : queue[i] \in Elements
    BY DEF Inv, TypeOK
  <1>2. \A i \in 1..Len(queue) : block[queue[i]] \in Payloads \cup {NULL}
    BY <1>1 DEF Inv, TypeOK
  <1> HIDE DEF Cleaning
  <1>3. Cleaning => qbar = <<>>
    BY DEF qbar
  <1>4. ASSUME ~Cleaning
        PROVE  /\ qbar = [i \in 1..Len(queue) |-> block[queue[i]]]
               /\ qbar \in Seq(Payloads \cup {NULL}) /\ Len(qbar) = Len(queue)
               /\ \A i \in 1..Len(queue) : qbar[i] = block[queue[i]]
    BY <1>1, <1>2, <1>4 DEF qbar
  <1>5. ~Cleaning /\ Len(queue) = 0 => qbar = <<>>
    BY <1>1, <1>4
  <1>6. ~Cleaning /\ Len(queue) > 0 => qbar # <<>> /\ Head(qbar) = block[queue[1]]
    BY <1>1, <1>4
  <1> QED
    BY <1>3, <1>4, <1>5, <1>6

\* A step that leaves the list and the blocks in it alone.
LEMMA QueueSame ==
  ASSUME Inv, queue' = queue, Cleaning' <=> Cleaning,
         \A i \in 1..Len(queue) : block'[queue[i]] = block[queue[i]]
  PROVE  qbar' = qbar
  <1> HIDE DEF Cleaning
  <1>1. [i \in 1..Len(queue) |-> block'[queue[i]]] = [i \in 1..Len(queue) |-> block[queue[i]]]
    OBVIOUS
  <1> QED
    BY <1>1 DEF qbar

\* The abstract steps, in terms of qbar and pendbar.
LEMMA SilentStep ==
  ASSUME UNCHANGED <<qbar, pendbar, attr, max_size>>, ret' = NoReturn
  PROVE  Abstract!Next
  BY DEF Abstract!Next, Abstract!Silent, Abstract!NoReturn, NoReturn

\* A thread outside the library, as the client sees it.
LEMMA IdlePend ==
  ASSUME Ops, NEW t \in Threads, pc[t] = "idle"
  PROVE  PendOf(t) = Abstract!Idle /\ pendbar[t] = Abstract!Idle
  <1>0. op[t] = "none" /\ pc[t] \notin PutPCs /\ (pc[t] \in Wiped) = FALSE
    BY DEF Ops, OpOf, Wiped
  <1>1. PendOf(t) = Abstract!Idle
    <2> HIDE DEF PutPCs
    <2> QED BY <1>0, Zenon DEF PendOf, Abstract!Idle
  <1> QED
    BY <1>1, PendIs

\* The steps between the lock and the unlock, and the waits.
LEMMA SilentSteps ==
  ASSUME Inv, Ops, NEW t \in Threads,
         \/ PutLock(t) \/ PutWait(t) \/ PutRoom(t) \/ PutReacquire(t)
         \/ GetWait(t) \/ GetReacquire(t) \/ SpuriousWakeup(t) \/ DestroySpin(t)
         \/ GetLock(t) /\ ret' = NoReturn
         \/ DestroyMagic(t) /\ ret' = NoReturn
  PROVE  Abstract!Next
  <1> USE ConstantsAssumption
  <1>1. /\ UNCHANGED <<op, element, block, queue, attr, max_size>> /\ ret' = NoReturn
        /\ \A u \in Threads : /\ pc'[u] \in PutPCs <=> pc[u] \in PutPCs
                              /\ pc'[u] \in Wiped <=> pc[u] \in Wiped
                              /\ pc'[u] = "clean_loop" <=> pc[u] = "clean_loop"
    <2> USE DEF Inv, TypeOK, Wiped, handle, list, Goto
    <2>1. CASE PutLock(t) \/ PutWait(t) \/ PutRoom(t) \/ PutReacquire(t)
      BY <2>1 DEF PutLock, PutWait, PutRoom, PutReacquire, AfterPutWait, AtPutLoop
    <2>2. CASE GetWait(t) \/ GetReacquire(t) \/ SpuriousWakeup(t)
      BY <2>2 DEF GetWait, GetReacquire, SpuriousWakeup
    <2>3. CASE DestroySpin(t)
      BY <2>3 DEF DestroySpin, Broadcast
    <2>4. CASE GetLock(t) /\ ret' = NoReturn
      <3>1. NoReturn.thread # t
        BY DEF NoReturn
      <3>2. Goto(t, "get_loop")
        BY <2>4, <3>1 DEF GetLock, Leave, Return
      <3> QED BY <2>4, <3>2 DEF GetLock
    <2>5. CASE DestroyMagic(t) /\ ret' = NoReturn
      <3>1. NoReturn.thread # t
        BY DEF NoReturn
      <3>2. Goto(t, "destroy_spin")
        BY <2>5, <3>1 DEF DestroyMagic, Leave, Return
      <3> QED BY <2>5, <3>2 DEF DestroyMagic
    <2> QED
      BY <2>1, <2>2, <2>3, <2>4, <2>5
  <1>2. \A u \in Threads : PendOf(u)' = PendOf(u)
    BY <1>1, PendUnmoved
  <1>3. pendbar' = pendbar
    BY <1>2, PendSame
  <1>4. Cleaning' <=> Cleaning
    BY <1>1 DEF Cleaning
  <1>5. qbar' = qbar
    BY <1>1, <1>4, QueueSame
  <1> QED
    BY <1>1, <1>3, <1>5, SilentStep

\* The calls that enter the library.
LEMMA CallSteps ==
  ASSUME Inv, Ops, NEW t \in Threads, Entering(t)
  PROVE  Abstract!Next
  <1> USE ConstantsAssumption
  <1>1. PICK call \in Abstract!BlockedCalls, b \in Blocks \cup {EOT, NULL} :
           /\ (b # NULL) <=> (call \in {"put", "put_head"})
           /\ pc[t] = "idle" /\ op' = [op EXCEPT ![t] = call]
           /\ pc'[t] = IF b # NULL THEN "put_lock" ELSE IF call = "get" THEN "get_lock"
                                                   ELSE "clean_lock"
           /\ pc' = [pc EXCEPT ![t] = pc'[t]]
           /\ b # NULL => block'[element'[t]] = b
           /\ \A u \in Threads \ {t} : /\ element'[u] = element[u]
                                       /\ pc[u] \in PutPCs => block'[element[u]] = block[element[u]]
           /\ \A i \in 1..Len(queue) : block'[queue[i]] = block[queue[i]]
           /\ UNCHANGED <<queue, attr, max_size>> /\ ret' = NoReturn
    <2> USE DEF Inv, TypeOK, handle, list, Enter, MayCall, Abstract!BlockedCalls
    <2>1. CASE \E call \in {"put", "put_head"}, b \in Payloads : PutCall(t, call, b)
      <3>1. PICK call \in {"put", "put_head"}, b \in Payloads : PutCall(t, call, b)
        BY <2>1
      <3>2. PICK e \in Elements \ heap :
               /\ heap' = heap \cup {e} /\ block' = [block EXCEPT ![e] = b]
               /\ Enter(t, call, "put_lock", e)
        BY <3>1 DEF PutCall
      <3>3. b \in Blocks \cup {EOT, NULL} /\ b # NULL /\ call \in Abstract!BlockedCalls
        OBVIOUS
      <3>4. \A i \in 1..Len(queue) : queue[i] \in heap
        BY DEF Ownership
      <3>5. \A u \in Threads : pc[u] \in PutPCs => element[u] \in heap
        BY DEF Ownership
      <3>6. /\ pc[t] = "idle" /\ op' = [op EXCEPT ![t] = call] /\ pc'[t] = "put_lock"
            /\ pc' = [pc EXCEPT ![t] = pc'[t]] /\ ret' = NoReturn
            /\ block'[element'[t]] = b
            /\ \A u \in Threads \ {t} : element'[u] = element[u]
            /\ UNCHANGED <<queue, attr, max_size>>
        BY <3>1, <3>2 DEF PutCall
      <3>7. \A d \in heap : block'[d] = block[d]
        BY <3>2
      <3> HIDE DEF Inv, TypeOK, Enter, Abstract!BlockedCalls
      <3> QED BY <3>3, <3>4, <3>5, <3>6, <3>7
    <2>2. CASE GetCall(t)
      <3> WITNESS "get" \in Abstract!BlockedCalls, NULL \in Blocks \cup {EOT, NULL}
      <3> QED BY <2>2 DEF GetCall
    <2>3. CASE DestroyCall(t)
      <3> WITNESS "destroy" \in Abstract!BlockedCalls, NULL \in Blocks \cup {EOT, NULL}
      <3> QED BY <2>3 DEF DestroyCall, DestroyEntry
    <2>4. CASE CleanCall(t) /\ pc' # pc
      <3> WITNESS "clean" \in Abstract!BlockedCalls, NULL \in Blocks \cup {EOT, NULL}
      <3> QED BY <2>4 DEF CleanCall, AtOnce
    <2> QED
      BY <2>1, <2>2, <2>3, <2>4 DEF Entering
  <1>2. \A u \in Threads \ {t} : PendOf(u)' = PendOf(u)
    <2>1. ASSUME NEW u \in Threads \ {t}
          PROVE  op'[u] = op[u] /\ pc'[u] = pc[u]
                 /\ (pc[u] \in PutPCs => block'[element'[u]] = block[element[u]])
      BY <1>1 DEF Inv, TypeOK
    <2> QED BY <2>1, PendUnmoved
  <1>3. PendOf(t)' = [call |-> call, arg |-> b, done |-> FALSE]
    <2>1. op'[t] = call /\ pc'[t] \notin Wiped /\ (pc'[t] \in PutPCs <=> b # NULL)
      BY <1>1 DEF Inv, TypeOK, Wiped
    <2>2. (pc'[t] \in Wiped) = FALSE
      BY <2>1
    <2>3. (IF pc'[t] \in PutPCs THEN block'[element'[t]] ELSE NULL) = b
      BY <1>1, <2>1
    <2> HIDE DEF PutPCs
    <2> QED BY <2>1, <2>2, <2>3, Zenon DEF PendOf
  <1>4. pendbar' = [pendbar EXCEPT ![t] = [call |-> call, arg |-> b, done |-> FALSE]]
    BY <1>2, <1>3, PendOne
  <1>5. Cleaning' <=> Cleaning
    BY <1>1 DEF Cleaning, Inv, TypeOK
  <1>6. qbar' = qbar
    BY <1>1, <1>5, QueueSame
  <1>7. pendbar[t] = Abstract!Idle
    BY <1>1, IdlePend
  <1>8. Abstract!Call(t)
    BY <1>1, <1>4, <1>6, <1>7 DEF Abstract!Call, Abstract!NoReturn, NoReturn
  <1> QED
    BY <1>1, <1>8 DEF Abstract!Next

\* The calls that return at once and change nothing.
LEMMA RejectSteps ==
  ASSUME "setattr" \notin Calls, Inv, Ops, NEW t \in Threads,
         \/ Refused(t) \/ WrongAttr(t)
         \/ \E call \in {"put", "put_head"}, b \in Payloads : PutNoMemory(t, call, b)
         \/ CleanCall(t) /\ UNCHANGED pc
  PROVE  Abstract!Next
  <1> USE ConstantsAssumption
  <1>1. PICK call \in Abstract!BlockedCalls \cup {"peek", "setattr", "getattr"},
             code \in {"CH_BAD_HANDLE", "CH_WRONG_PARAM", "CH_NO_MEMORY",
                       "CH_WRONG_ATTR", "CH_FREE_NOT_REQUESTED"} :
           /\ Return(t, call, code, NULL) /\ pc[t] = "idle"
           /\ UNCHANGED <<pc, op, element, block, queue, attr, max_size>>
    <2> USE DEF AtOnce, MayCall, handle, list, Abstract!BlockedCalls
    <2>1. CASE Refused(t)
      <3>1. PICK call \in EntryPoints :
              LET takesBlock == call \in {"put", "put_head", "get", "peek"} IN
              /\ MayCall(t, call)
              /\ AtOnce(t, call, IF takesBlock THEN "CH_WRONG_PARAM" ELSE "CH_BAD_HANDLE", NULL)
              /\ UNCHANGED <<handle, list, waiting, ch_mutex>>
        BY <2>1 DEF Refused
      <3>2. call \in Abstract!BlockedCalls \cup {"peek", "setattr", "getattr"}
        BY DEF EntryPoints
      <3> QED BY <3>1, <3>2
    <2>2. CASE WrongAttr(t)
      BY <2>2 DEF WrongAttr
    <2>3. CASE \E call \in {"put", "put_head"}, b \in Payloads : PutNoMemory(t, call, b)
      BY <2>3 DEF PutNoMemory
    <2>4. CASE CleanCall(t) /\ UNCHANGED pc
      <3>1. pc[t] = "idle" /\ pc \in [Threads -> PCs]
        BY <2>4 DEF CleanCall, Inv, TypeOK
      <3>2. AtOnce(t, "clean", "CH_FREE_NOT_REQUESTED", NULL)
        BY <2>4, <3>1 DEF CleanCall, Enter
      <3> QED BY <2>4, <3>1, <3>2 DEF CleanCall
    <2> QED
      BY <2>1, <2>2, <2>3, <2>4
  <1>2. pendbar' = pendbar
    BY <1>1, PendUnmoved, PendSame
  <1>3. qbar' = qbar
    BY <1>1 DEF qbar, Cleaning
  <1>4. pendbar[t] = Abstract!Idle
    BY <1>1, IdlePend
  <1>5. Abstract!Reject(t)
    BY <1>1, <1>2, <1>3, <1>4 DEF Abstract!Reject, Abstract!Answer, Return
  <1> QED
    BY <1>1, <1>5 DEF Abstract!Next

\* Nobody is in ch_clean while the mutex is free or another thread's.
LEMMA NotCleaning ==
  ASSUME Inv, ch_mutex = NULL \/ \E t \in Threads : ch_mutex = t /\ pc[t] # "clean_loop"
  PROVE  ~Cleaning
  BY ConstantsAssumption DEF Inv, TypeOK, MutualExclusion, Cleaning

\* The calls that look at the channel.
LEMMA LookSteps ==
  ASSUME Inv, Ops, NEW t \in Threads, Peek(t) \/ GetAttr(t)
  PROVE  Abstract!Next
  <1> USE ConstantsAssumption
  <1>1. /\ UNCHANGED <<pc, op, element, block, queue, attr, max_size>> /\ pc[t] = "idle"
    BY DEF Peek, GetAttr, AtOnce, MayCall, handle, list
  <1>2. pendbar' = pendbar
    BY <1>1, PendUnmoved, PendSame
  <1>3. qbar' = qbar
    BY <1>1 DEF qbar, Cleaning
  <1>4. pendbar[t] = Abstract!Idle
    BY <1>1, IdlePend
  <1>5. ch_mutex = NULL => ~Cleaning
    BY NotCleaning
  <1>6. count = Len(queue) /\ Len(queue) \in Nat
    BY DEF Inv, TypeOK, ListShape
  <1>7. ch_mutex = NULL => /\ Len(qbar) = count
                           /\ count = 0 => qbar = <<>>
                           /\ count # 0 => qbar # <<>> /\ Head(qbar) = block[head]
    <2>1. ~Cleaning /\ Len(queue) > 0 => head = queue[1]
      BY DEF Inv, ListShape
    <2> HIDE DEF Cleaning
    <2> QED BY <1>5, <1>6, <2>1, QueueIs
  <1>8. CASE Peek(t)
    <2>1. Abstract!Peek(t)
      BY <1>2, <1>3, <1>4, <1>7, <1>8 DEF Peek, AtOnce, Return, Abstract!Peek, Abstract!Answer
    <2> QED BY <1>1, <2>1 DEF Abstract!Next
  <1>9. CASE GetAttr(t)
    <2>1. Abstract!GetAttr(t)
      BY <1>2, <1>3, <1>4, <1>7, <1>9
         DEF GetAttr, AtOnce, Return, Abstract!GetAttr, Abstract!Answer
    <2> QED BY <1>1, <2>1 DEF Abstract!Next
  <1> QED
    BY <1>8, <1>9

\* The end of a call, as the client sees it.
LEMMA Finishes ==
  ASSUME NEW t \in Threads, pc'[t] = "idle", op'[t] = "none",
         \A u \in Threads \ {t} : PendOf(u)' = PendOf(u)
  PROVE  /\ pendbar' = [pendbar EXCEPT ![t] = Abstract!Idle]
         /\ pendbar[t].call = op[t]
         /\ pendbar[t].arg = IF pc[t] \in PutPCs THEN block[element[t]] ELSE NULL
         /\ pendbar[t].done <=> pc[t] \in Wiped
  <1>1. pc'[t] \notin PutPCs /\ (pc'[t] \in Wiped) = FALSE
    BY DEF Wiped
  <1>2. PendOf(t)' = Abstract!Idle
    <2> HIDE DEF PutPCs
    <2> QED BY <1>1, Zenon DEF PendOf, Abstract!Idle
  <1>3. pendbar' = [pendbar EXCEPT ![t] = Abstract!Idle]
    BY <1>2, PendOne
  <1>4. pendbar[t] = PendOf(t)
    BY PendIs
  <1>5. /\ pendbar[t].call = op[t]
        /\ pendbar[t].arg = IF pc[t] \in PutPCs THEN block[element[t]] ELSE NULL
        /\ pendbar[t].done = (pc[t] \in Wiped)
    <2> DEFINE a == IF pc[t] \in PutPCs THEN block[element[t]] ELSE NULL
               d == pc[t] \in Wiped
    <2>1. pendbar[t] = [call |-> op[t], arg |-> a, done |-> d]
      BY <1>4 DEF PendOf
    <2> HIDE DEF a, d
    <2>2. pendbar[t].call = op[t] /\ pendbar[t].arg = a /\ pendbar[t].done = d
      BY <2>1
    <2> QED BY <2>2 DEF a, d
  <1> QED
    BY <1>3, <1>5

-----------------------------------------------------------------------------
(***************************************************************************)
(* The list as a sequence of blocks, for any list and any contents.        *)
(***************************************************************************)
Contents == Payloads \cup {NULL}
View(blk, chain) == [i \in 1..Len(chain) |-> blk[chain[i]]]

\* An empty list, and a list of one element.
LEMMA ViewShort ==
  ASSUME NEW blk, NEW chain \in Seq(Elements)
  PROVE  /\ Len(chain) = 0 => View(blk, chain) = <<>>
         /\ \A e \in Elements : View(blk, <<e>>) = <<blk[e]>>
  BY DEF View

\* Its type.
LEMMA ViewType ==
  ASSUME NEW blk \in [Elements -> Contents], NEW chain \in Seq(Elements)
  PROVE  /\ View(blk, chain) \in Seq(Contents) /\ Len(View(blk, chain)) = Len(chain)
         /\ \A i \in 1..Len(chain) : View(blk, chain)[i] = blk[chain[i]]
  <1>1. \A i \in 1..Len(chain) : chain[i] \in Elements
    OBVIOUS
  <1>2. Len(chain) \in Nat
    OBVIOUS
  <1> QED
    BY <1>1, <1>2 DEF View

\* ch_put
LEMMA ViewAppend ==
  ASSUME NEW blk \in [Elements -> Contents], NEW chain \in Seq(Elements), NEW e \in Elements
  PROVE  View(blk, Append(chain, e)) = Append(View(blk, chain), blk[e])
  <1> DEFINE a == Append(chain, e)
             v == View(blk, chain)
  <1>1. a \in Seq(Elements) /\ Len(a) = Len(chain) + 1 /\ a[Len(chain) + 1] = e
        /\ \A i \in 1..Len(chain) : a[i] = chain[i]
    BY AppendFacts
  <1>2. v \in Seq(Contents) /\ Len(v) = Len(chain) /\ \A i \in 1..Len(chain) : v[i] = blk[chain[i]]
    BY ViewType
  <1>3. View(blk, a) \in Seq(Contents) /\ Len(View(blk, a)) = Len(a)
        /\ \A i \in 1..Len(a) : View(blk, a)[i] = blk[a[i]]
    BY <1>1, ViewType
  <1>4. Append(v, blk[e]) \in Seq(Contents) /\ Len(Append(v, blk[e])) = Len(v) + 1
        /\ Append(v, blk[e])[Len(v) + 1] = blk[e]
        /\ \A i \in 1..Len(v) : Append(v, blk[e])[i] = v[i]
    <2>1. blk[e] \in Contents
      OBVIOUS
    <2> HIDE DEF v
    <2> QED BY <1>2, <2>1, AppendFacts
  <1>5. Len(chain) \in Nat
    OBVIOUS
  <1>6. \A s1, s2 \in Seq(Contents) : Len(s1) = Len(s2) /\ (\A i \in 1..Len(s1) : s1[i] = s2[i]) => s1 = s2
    OBVIOUS
  <1> HIDE DEF a, v
  <1>7. \A i \in 1..(Len(chain) + 1) : View(blk, a)[i] = Append(v, blk[e])[i]
    BY <1>1, <1>2, <1>3, <1>4, <1>5
  <1>8. View(blk, a) = Append(v, blk[e])
    BY <1>1, <1>2, <1>3, <1>4, <1>6, <1>7
  <1> QED
    BY <1>8 DEF a, v

\* ch_put_head
LEMMA ViewPrepend ==
  ASSUME NEW blk \in [Elements -> Contents], NEW chain \in Seq(Elements), NEW e \in Elements
  PROVE  View(blk, <<e>> \o chain) = <<blk[e]>> \o View(blk, chain)
  <1> DEFINE a == <<e>> \o chain
             v == View(blk, chain)
             w == <<blk[e]>> \o v
  <1>1. a \in Seq(Elements) /\ Len(a) = Len(chain) + 1 /\ a[1] = e
        /\ \A i \in 1..Len(chain) : a[i + 1] = chain[i]
    BY PrependFacts
  <1>2. v \in Seq(Contents) /\ Len(v) = Len(chain) /\ \A i \in 1..Len(chain) : v[i] = blk[chain[i]]
    BY ViewType
  <1>3. View(blk, a) \in Seq(Contents) /\ Len(View(blk, a)) = Len(a)
        /\ \A i \in 1..Len(a) : View(blk, a)[i] = blk[a[i]]
    BY <1>1, ViewType
  <1>4. w \in Seq(Contents) /\ Len(w) = Len(v) + 1 /\ w[1] = blk[e]
        /\ \A i \in 1..Len(v) : w[i + 1] = v[i]
    <2>1. blk[e] \in Contents
      OBVIOUS
    <2> HIDE DEF v
    <2> QED BY <1>2, <2>1, PrependFacts
  <1>5. Len(chain) \in Nat
    OBVIOUS
  <1>6. \A s1, s2 \in Seq(Contents) : Len(s1) = Len(s2) /\ (\A i \in 1..Len(s1) : s1[i] = s2[i]) => s1 = s2
    OBVIOUS
  <1> HIDE DEF a, v, w
  <1>7. ASSUME NEW i \in 1..(Len(chain) + 1) PROVE View(blk, a)[i] = w[i]
    <2>1. CASE i = 1
      BY <1>1, <1>3, <1>4, <1>5, <2>1
    <2>2. CASE i # 1
      <3>1. i - 1 \in 1..Len(chain) /\ i - 1 + 1 = i
        BY <1>5, <2>2
      <3>2. w[i] = v[i - 1] /\ a[i] = chain[i - 1]
        BY <1>1, <1>2, <1>4, <3>1
      <3> QED BY <1>1, <1>2, <1>3, <3>1, <3>2
    <2> QED BY <2>1, <2>2
  <1>8. View(blk, a) = w
    BY <1>1, <1>2, <1>3, <1>4, <1>6, <1>7
  <1> QED
    BY <1>8 DEF a, v, w

\* ch_get: the first element may change when it is freed.
LEMMA ViewTail ==
  ASSUME NEW blk \in [Elements -> Contents], NEW freed \in [Elements -> Contents], NEW chain \in Seq(Elements),
         Len(chain) > 0, \A i \in 2..Len(chain) : freed[chain[i]] = blk[chain[i]]
  PROVE  View(freed, Tail(chain)) = Tail(View(blk, chain))
  <1> DEFINE a == Tail(chain)
             v == View(blk, chain)
  <1>1. a \in Seq(Elements) /\ Len(a) = Len(chain) - 1
        /\ \A i \in 1..(Len(chain) - 1) : a[i] = chain[i + 1]
    BY TailFacts
  <1>2. v \in Seq(Contents) /\ Len(v) = Len(chain) /\ \A i \in 1..Len(chain) : v[i] = blk[chain[i]]
    BY ViewType
  <1>3. View(freed, a) \in Seq(Contents) /\ Len(View(freed, a)) = Len(a)
        /\ \A i \in 1..Len(a) : View(freed, a)[i] = freed[a[i]]
    BY <1>1, ViewType
  <1>4. Tail(v) \in Seq(Contents) /\ Len(Tail(v)) = Len(v) - 1
        /\ \A i \in 1..(Len(v) - 1) : Tail(v)[i] = v[i + 1]
    <2> HIDE DEF v
    <2> QED BY <1>2, TailFacts
  <1>5. Len(chain) \in Nat
    OBVIOUS
  <1>6. \A s1, s2 \in Seq(Contents) : Len(s1) = Len(s2) /\ (\A i \in 1..Len(s1) : s1[i] = s2[i]) => s1 = s2
    OBVIOUS
  <1> HIDE DEF a, v
  <1>7. ASSUME NEW i \in 1..(Len(chain) - 1) PROVE View(freed, a)[i] = Tail(v)[i]
    <2>1. i + 1 \in 2..Len(chain) /\ i + 1 \in 1..Len(chain)
      BY <1>5
    <2>2. a[i] = chain[i + 1] /\ View(freed, a)[i] = freed[a[i]] /\ Tail(v)[i] = v[i + 1]
      BY <1>1, <1>2, <1>3, <1>4
    <2> QED BY <1>2, <2>1, <2>2
  <1>8. View(freed, a) = Tail(v)
    BY <1>1, <1>2, <1>3, <1>4, <1>6, <1>7
  <1> QED
    BY <1>8 DEF a, v

\* The queue is the list, unless ch_clean has started.
LEMMA QueueView ==
  /\ qbar = IF Cleaning THEN <<>> ELSE View(block, queue)
  /\ qbar' = IF Cleaning' THEN <<>> ELSE View(block', queue')
  BY DEF qbar, View

-----------------------------------------------------------------------------
(***************************************************************************)
(* The steps in which a call takes effect.                                 *)
(***************************************************************************)
\* The other threads see nothing when t frees or links an element that is not
\* theirs and wakes at most threads of the same call.
LEMMA OthersUnmoved ==
  ASSUME NEW t \in Threads,
         \A u \in Threads \ {t} :
            /\ op'[u] = op[u] /\ element'[u] = element[u]
            /\ \/ pc'[u] = pc[u]
               \/ pc[u] = "get_wait" /\ pc'[u] = "get_woken"
               \/ pc[u] = "put_wait" /\ pc'[u] = "put_woken",
         \A u \in Threads \ {t} : pc[u] \in PutPCs => block'[element[u]] = block[element[u]]
  PROVE  \A u \in Threads \ {t} : PendOf(u)' = PendOf(u)
  <1> SUFFICES ASSUME NEW u \in Threads \ {t} PROVE PendOf(u)' = PendOf(u)
    OBVIOUS
  <1>1. /\ op'[u] = op[u] /\ element'[u] = element[u]
        /\ pc'[u] \in PutPCs <=> pc[u] \in PutPCs
        /\ pc'[u] \in Wiped <=> pc[u] \in Wiped
    BY DEF Wiped
  <1>2. pc[u] \in PutPCs => block'[element'[u]] = block[element[u]]
    BY <1>1
  <1> QED
    BY <1>1, <1>2, PendUnmoved

\* ch_put refuses an element.
LEMMA PutFullStep ==
  ASSUME Inv, Ops, NEW t \in Threads, PutFull(t) PROVE Abstract!Next
  <1> USE ConstantsAssumption
  <1>1. /\ pc[t] = "put_mode" /\ attr = NON_BLOCKING /\ count >= max_size
        /\ block' = [block EXCEPT ![element[t]] = NULL]
        /\ UNCHANGED <<queue, attr, max_size>>
        /\ Leave(t, pc, "CH_PUT_CHANNEL_FULL", NULL)
    BY DEF PutFull, Discard, Free, Full, handle
  <1>2. /\ op[t] \in {"put", "put_head"} /\ max_size > 0
    BY <1>1 DEF Ops, OpOf
  <1>3. /\ pc'[t] = "idle" /\ op'[t] = "none"
        /\ \A u \in Threads \ {t} : op'[u] = op[u] /\ element'[u] = element[u] /\ pc'[u] = pc[u]
    BY <1>1 DEF Leave, Inv, TypeOK
  <1>4. \A u \in Threads \ {t} : pc[u] \in PutPCs => block'[element[u]] = block[element[u]]
    BY <1>1 DEF Inv, TypeOK, Ownership
  <1>5. \A u \in Threads \ {t} : PendOf(u)' = PendOf(u)
    BY <1>3, <1>4, OthersUnmoved
  <1>6. /\ pendbar' = [pendbar EXCEPT ![t] = Abstract!Idle]
        /\ pendbar[t].call = op[t] /\ ~pendbar[t].done
    BY <1>1, <1>3, <1>5, Finishes DEF Wiped
  <1>7. ~Cleaning /\ ~Cleaning'
    BY <1>1, <1>3, NotCleaning DEF Inv, MutualExclusion, Cleaning
  <1>8. qbar' = qbar
    <2>1. \A i \in 1..Len(queue) : block'[queue[i]] = block[queue[i]]
      BY <1>1 DEF Inv, TypeOK, Ownership
    <2> HIDE DEF Cleaning
    <2> QED BY <1>1, <1>7, <2>1, QueueSame
  <1>9. Len(qbar) = count /\ count \in Nat /\ max_size \in Nat
    <2>1. count = Len(queue) /\ Len(queue) \in Nat /\ max_size \in Nat
      BY DEF Inv, TypeOK, ListShape
    <2> HIDE DEF Cleaning
    <2> QED BY <1>7, <2>1, QueueIs
  <1>10. ~Abstract!Room
    BY <1>1, <1>2, <1>9 DEF Abstract!Room
  <1>11. Abstract!PutFull(t)
    BY <1>1, <1>2, <1>6, <1>8, <1>10 DEF Abstract!PutFull, Abstract!Pending, Abstract!Finish,
       Abstract!Answer, Abstract!NonBlocking, Leave, Return
  <1> QED
    BY <1>1, <1>11 DEF Abstract!Next

\* ch_put and ch_put_head link an element.
LEMMA PutStep ==
  ASSUME Inv, Ops, Room, NEW t \in Threads, PutLink(t) PROVE Abstract!Next
  <1> USE ConstantsAssumption
  <1> DEFINE e == element[t]
  <1>1. PICK f \in WokenByPut : Leave(t, f, "CH_OK", count + 1)
    BY DEF PutLink
  <1>2. /\ f \in [Threads -> PCs]
        /\ \A u \in Threads : f[u] = pc[u] \/ (pc[u] = "get_wait" /\ f[u] = "get_woken")
    BY WokenFacts, <1>1 DEF WokenByPut, Inv, TypeOK
  <1>3. /\ pc[t] = "put_link" /\ UNCHANGED <<block, attr, max_size>>
    BY DEF PutLink, handle
  <1>4. op[t] \in {"put", "put_head"}
    BY <1>3 DEF Ops, OpOf
  <1>5. /\ pc'[t] = "idle" /\ op'[t] = "none"
        /\ \A u \in Threads \ {t} :
              /\ op'[u] = op[u] /\ element'[u] = element[u]
              /\ pc'[u] = pc[u] \/ (pc[u] = "get_wait" /\ pc'[u] = "get_woken")
    BY <1>1, <1>2 DEF Leave, Inv, TypeOK
  <1>6. \A u \in Threads \ {t} : pc[u] \in PutPCs => block'[element[u]] = block[element[u]]
    BY <1>3
  <1>7. \A u \in Threads \ {t} : PendOf(u)' = PendOf(u)
    BY <1>5, <1>6, OthersUnmoved
  <1>8. /\ pendbar' = [pendbar EXCEPT ![t] = Abstract!Idle]
        /\ pendbar[t].call = op[t] /\ pendbar[t].arg = block[e] /\ ~pendbar[t].done
    BY <1>3, <1>5, <1>7, Finishes DEF Wiped
  <1>9. ~Cleaning /\ ~Cleaning'
    <2>1. ~Cleaning
      BY <1>3, NotCleaning DEF Inv, MutualExclusion
    <2> QED BY <1>5, <2>1 DEF Cleaning
  <1>10. /\ queue \in Seq(Elements) /\ e \in Elements /\ block \in [Elements -> Contents]
         /\ count = Len(queue) /\ Len(queue) \in Nat /\ max_size \in Nat
    BY <1>3 DEF Inv, TypeOK, ListShape, Ownership, Contents
  <1>11. qbar = View(block, queue) /\ qbar' = View(block, queue')
         /\ qbar \in Seq(Contents) /\ Len(qbar) = count
    <2>1. qbar = View(block, queue) /\ qbar' = View(block, queue')
      <3> HIDE DEF Cleaning
      <3> QED BY <1>3, <1>9, QueueView
    <2> QED BY <1>10, <2>1, ViewType
  <1>12. qbar' = IF op[t] = "put" THEN Append(qbar, block[e]) ELSE <<block[e]>> \o qbar
    <2>1. CASE count = 0
      <3>1. queue' = <<e>>
        BY <2>1 DEF PutLink, LinkLast, LinkFirst
      <3>2. qbar' = <<block[e]>> /\ qbar = <<>>
        BY <1>10, <1>11, <2>1, <3>1, ViewShort
      <3>3. Append(<<>>, block[e]) = <<block[e]>> /\ <<block[e]>> \o <<>> = <<block[e]>>
        OBVIOUS
      <3> QED BY <3>2, <3>3
    <2>2. CASE count # 0 /\ op[t] = "put"
      <3>1. queue' = Append(queue, e)
        BY <2>2 DEF PutLink, LinkLast, AtEnd
      <3> QED BY <1>10, <1>11, <2>2, <3>1, ViewAppend
    <2>3. CASE count # 0 /\ op[t] # "put"
      <3>1. queue' = <<e>> \o queue
        BY <2>3 DEF PutLink, LinkFirst, AtEnd
      <3> QED BY <1>10, <1>11, <2>3, <3>1, ViewPrepend
    <2> QED
      BY <2>1, <2>2, <2>3
  <1>13. Abstract!Room
    BY <1>3, <1>10, <1>11 DEF Abstract!Room, Room
  <1> HIDE DEF e
  <1>14. Abstract!Put(t)
    BY <1>1, <1>4, <1>8, <1>11, <1>12, <1>13 DEF Abstract!Put, Abstract!Pending, Abstract!Finish,
       Abstract!Answer, Leave, Return
  <1> QED
    BY <1>3, <1>14 DEF Abstract!Next

\* ch_get takes the first block.
LEMMA GetStep ==
  ASSUME Inv, Ops, NEW t \in Threads, GetTake(t) PROVE Abstract!Next
  <1> USE ConstantsAssumption
  <1>1. PICK f \in WokenByGet : Delivered(t, f, block[head])
    BY DEF GetTake
  <1>2. /\ f \in [Threads -> PCs]
        /\ \A u \in Threads : f[u] = pc[u] \/ (pc[u] = "put_wait" /\ f[u] = "put_woken")
    BY WokenFacts, <1>1 DEF WokenByGet, Inv, TypeOK
  <1>3. /\ pc[t] = "get_loop" /\ count # 0 /\ queue' = Tail(queue) /\ UNCHANGED <<attr, max_size>>
        /\ block' = [block EXCEPT ![head] = NULL]
    BY DEF GetTake, Free, Taken, handle
  <1>4. op[t] = "get"
    BY <1>3 DEF Ops, OpOf
  <1>5. /\ pc'[t] = "idle" /\ op'[t] = "none"
        /\ \A u \in Threads \ {t} :
              /\ op'[u] = op[u] /\ element'[u] = element[u]
              /\ pc'[u] = pc[u] \/ (pc[u] = "put_wait" /\ pc'[u] = "put_woken")
    BY <1>1, <1>2 DEF Delivered, Leave, Inv, TypeOK
  <1>6. ~Cleaning /\ ~Cleaning'
    <2>1. ~Cleaning
      BY <1>3, NotCleaning DEF Inv, MutualExclusion
    <2> QED BY <1>5, <2>1 DEF Cleaning
  <1>7. /\ queue \in Seq(Elements) /\ block \in [Elements -> Contents]
        /\ count = Len(queue) /\ Len(queue) \in Nat /\ Len(queue) > 0 /\ head = queue[1]
        /\ head \in Elements
    <2> HIDE DEF Cleaning
    <2> QED BY <1>3, <1>6 DEF Inv, TypeOK, ListShape, Contents
  <1>8. \A u \in Threads \ {t} : pc[u] \in PutPCs => block'[element[u]] = block[element[u]]
    BY <1>3, <1>7 DEF Inv, TypeOK, Ownership
  <1>9. \A u \in Threads \ {t} : PendOf(u)' = PendOf(u)
    BY <1>5, <1>8, OthersUnmoved
  <1>10. /\ pendbar' = [pendbar EXCEPT ![t] = Abstract!Idle]
         /\ pendbar[t].call = op[t] /\ ~pendbar[t].done
    BY <1>3, <1>5, <1>9, Finishes DEF Wiped
  <1>11. qbar = View(block, queue) /\ qbar' = View(block', queue')
    <2> HIDE DEF Cleaning
    <2> QED BY <1>6, QueueView
  <1>12. qbar' = Tail(qbar)
    <2>1. \A i \in 2..Len(queue) : queue[i] # head /\ queue[i] \in Elements
      BY <1>7 DEF Inv, ListShape
    <2>2. block' \in [Elements -> Contents]
      BY <1>3, <1>7 DEF Contents
    <2>3. \A i \in 2..Len(queue) : block'[queue[i]] = block[queue[i]]
      BY <1>3, <1>7, <2>1
    <2>4. View(block', Tail(queue)) = Tail(View(block, queue))
      BY <1>7, <2>2, <2>3, ViewTail
    <2> QED BY <1>3, <1>11, <2>4, Zenon
  <1>13. qbar # <<>> /\ Head(qbar) = block[head]
    <2> HIDE DEF Cleaning
    <2> QED BY <1>6, <1>7, QueueIs
  <1>14. Abstract!Get(t)
    BY <1>1, <1>4, <1>10, <1>12, <1>13 DEF Abstract!Get, Abstract!Pending, Abstract!Finish,
       Abstract!Answer, Delivered, Leave, Return
  <1> QED
    BY <1>3, <1>14 DEF Abstract!Next

\* ch_get finds nothing and does not wait.
LEMMA GetEmptyStep ==
  ASSUME Inv, Ops, NEW t \in Threads, GetLock(t), ret' # NoReturn PROVE Abstract!Next
  <1> USE ConstantsAssumption
  <1>1. /\ pc[t] = "get_lock" /\ ch_mutex = NULL /\ count = 0 /\ attr = NON_BLOCKING
        /\ Leave(t, pc, "CH_GET_NODATA", NULL)
        /\ UNCHANGED <<queue, block, attr, max_size>>
    BY DEF GetLock, Goto, handle, list
  <1>2. op[t] = "get"
    BY <1>1 DEF Ops, OpOf
  <1>3. /\ pc'[t] = "idle" /\ op'[t] = "none"
        /\ \A u \in Threads \ {t} : op'[u] = op[u] /\ element'[u] = element[u] /\ pc'[u] = pc[u]
    BY <1>1 DEF Leave, Inv, TypeOK
  <1>4. \A u \in Threads \ {t} : PendOf(u)' = PendOf(u)
    BY <1>1, <1>3, PendUnmoved
  <1>5. /\ pendbar' = [pendbar EXCEPT ![t] = Abstract!Idle]
        /\ pendbar[t].call = op[t] /\ ~pendbar[t].done
    BY <1>1, <1>3, <1>4, Finishes DEF Wiped
  <1>6. ~Cleaning /\ ~Cleaning'
    <2>1. ~Cleaning
      BY <1>1, NotCleaning
    <2> QED BY <1>3, <2>1 DEF Cleaning
  <1> HIDE DEF Cleaning
  <1>7. qbar' = qbar
    BY <1>1, <1>6, QueueSame
  <1>8. qbar = <<>>
    BY <1>1, <1>6, QueueIs DEF Inv, ListShape
  <1>9. Abstract!GetEmpty(t)
    BY <1>1, <1>2, <1>5, <1>7, <1>8 DEF Abstract!GetEmpty, Abstract!Pending, Abstract!Finish,
       Abstract!Answer, Abstract!NonBlocking, Leave, Return
  <1> QED
    BY <1>1, <1>9 DEF Abstract!Next

-----------------------------------------------------------------------------
(***************************************************************************)
(* ch_clean and ch_destroy.                                                *)
(***************************************************************************)
\* A call of t that has taken effect and has not returned.
LEMMA TakesEffect ==
  ASSUME NEW t \in Threads, op'[t] = op[t], pc[t] = "clean_lock", pc'[t] \in Wiped,
         \A u \in Threads \ {t} : PendOf(u)' = PendOf(u)
  PROVE  /\ pendbar' = [pendbar EXCEPT ![t].done = TRUE]
         /\ pendbar[t].call = op[t] /\ ~pendbar[t].done
  <1>1. /\ pc[t] \notin PutPCs /\ (pc[t] \in Wiped) = FALSE
        /\ pc'[t] \notin PutPCs /\ (pc'[t] \in Wiped) = TRUE
    BY DEF Wiped
  <1>2. /\ PendOf(t) = [call |-> op[t], arg |-> NULL, done |-> FALSE]
        /\ PendOf(t)' = [call |-> op[t], arg |-> NULL, done |-> TRUE]
    <2> HIDE DEF PutPCs
    <2> QED BY <1>1, Zenon DEF PendOf
  <1> DEFINE before == FALSE
             after == TRUE
  <1>3. /\ pendbar[t] = [call |-> op[t], arg |-> NULL, done |-> before]
        /\ PendOf(t)' = [call |-> op[t], arg |-> NULL, done |-> after]
    BY <1>2, PendIs
  <1> HIDE DEF before, after
  <1>4. /\ [pendbar[t] EXCEPT !.done = after] = [call |-> op[t], arg |-> NULL, done |-> after]
        /\ pendbar[t].call = op[t] /\ pendbar[t].done = before
    BY <1>3
  <1>5. pendbar' = [pendbar EXCEPT ![t] = [call |-> op[t], arg |-> NULL, done |-> after]]
    BY <1>3, PendOne
  <1>6. pendbar' = [pendbar EXCEPT ![t].done = after]
    BY <1>4, <1>5
  <1> QED
    BY <1>4, <1>6 DEF before, after

\* ch_clean takes the mutex: the queue is empty from here on.
LEMMA WipeStep ==
  ASSUME Inv, Ops, NEW t \in Threads, CleanLock(t) PROVE Abstract!Next
  <1> USE ConstantsAssumption
  <1>1. /\ pc[t] = "clean_lock" /\ ch_mutex = NULL
        /\ UNCHANGED <<queue, block, attr, max_size>>
    BY DEF CleanLock, handle, list
  <1>2. op[t] \in {"clean", "destroy"}
    BY <1>1 DEF Ops, OpOf
  <1>3. ~Cleaning
    BY <1>1, NotCleaning
  <1>4. \/ /\ count = 0 /\ Leave(t, pc, "CH_OK", NULL)
        \/ /\ count = 0 /\ op' = op /\ ret' = NoReturn /\ element' = element
           /\ pc' = [pc EXCEPT ![t] = "destroy_magic"]
        \/ /\ count # 0 /\ op' = op /\ ret' = NoReturn
           /\ \E e : element' = [element EXCEPT ![t] = e]
           /\ pc' = [pc EXCEPT ![t] = "clean_loop"]
    BY DEF CleanLock, CleanReturn, Goto
  <1>5. \A u \in Threads \ {t} : op'[u] = op[u] /\ element'[u] = element[u] /\ pc'[u] = pc[u]
    BY <1>4 DEF Leave, Inv, TypeOK
  <1>6. \A u \in Threads \ {t} : PendOf(u)' = PendOf(u)
    BY <1>1, <1>5, PendUnmoved
  <1>7. qbar' = <<>>
    <2>1. CASE count = 0
      <3>1. pc'[t] # "clean_loop"
        BY <2>1, <1>4 DEF Leave, Inv, TypeOK
      <3>2. ~Cleaning'
        BY <1>3, <1>5, <3>1 DEF Cleaning
      <3>3. Len(queue) = 0
        BY <2>1 DEF Inv, ListShape
      <3> HIDE DEF Cleaning
      <3>4. qbar' = qbar
        BY <1>1, <1>3, <3>2, QueueSame
      <3> QED BY <1>3, <3>3, <3>4, QueueIs
    <2>2. CASE count # 0
      <3>1. pc'[t] = "clean_loop"
        BY <2>2, <1>4 DEF Inv, TypeOK
      <3>2. Cleaning'
        BY <3>1 DEF Cleaning
      <3> HIDE DEF Cleaning
      <3> QED BY <3>2, QueueView
    <2> QED
      BY <2>1, <2>2
  <1>8. CASE Leave(t, pc, "CH_OK", NULL)
    <2>1. pc'[t] = "idle" /\ op'[t] = "none"
      BY <1>8 DEF Leave, Inv, TypeOK
    <2>2. /\ pendbar' = [pendbar EXCEPT ![t] = Abstract!Idle]
          /\ pendbar[t].call = op[t] /\ ~pendbar[t].done
      BY <1>1, <1>6, <2>1, Finishes DEF Wiped
    <2>3. Abstract!Wipe(t)
      BY <1>2, <1>7, <1>8, <2>2 DEF Abstract!Wipe, Abstract!Pending, Abstract!Finish,
         Abstract!Answer, Leave, Return
    <2> QED BY <1>1, <2>3 DEF Abstract!Next
  <1>9. CASE op' = op /\ ret' = NoReturn
             /\ (pc' = [pc EXCEPT ![t] = "destroy_magic"] \/ pc' = [pc EXCEPT ![t] = "clean_loop"])
    <2>1. pc'[t] \in Wiped
      BY <1>9 DEF Wiped, Inv, TypeOK
    <2>2. /\ pendbar' = [pendbar EXCEPT ![t].done = TRUE]
          /\ pendbar[t].call = op[t] /\ ~pendbar[t].done
      BY <1>1, <1>6, <1>9, <2>1, TakesEffect
    <2>3. Abstract!Wipe(t)
      BY <1>2, <1>7, <1>9, <2>2 DEF Abstract!Wipe, Abstract!Pending, Abstract!NoReturn, NoReturn
    <2> QED BY <1>1, <2>3 DEF Abstract!Next
  <1> QED
    BY <1>4, <1>8, <1>9

\* The end of ch_clean or ch_destroy, when the queue has been empty for long.
LEMMA WipeEnds ==
  ASSUME Inv, Ops, NEW t \in Threads, pc[t] \in Wiped, Leave(t, pc, "CH_OK", NULL),
         \A u \in Threads \ {t} : pc[u] \in PutPCs => block'[element[u]] = block[element[u]],
         UNCHANGED <<qbar, attr, max_size>>
  PROVE  Abstract!Next
  <1>1. /\ pc'[t] = "idle" /\ op'[t] = "none"
        /\ \A u \in Threads \ {t} : op'[u] = op[u] /\ element'[u] = element[u] /\ pc'[u] = pc[u]
    BY DEF Leave, Inv, TypeOK
  <1>2. \A u \in Threads \ {t} : PendOf(u)' = PendOf(u)
    BY <1>1, OthersUnmoved
  <1>3. /\ pendbar' = [pendbar EXCEPT ![t] = Abstract!Idle]
        /\ pendbar[t].call = op[t] /\ pendbar[t].done
    BY <1>1, <1>2, Finishes
  <1>4. Abstract!WipeReturn(t)
    BY <1>3 DEF Abstract!WipeReturn, Abstract!Finish, Abstract!Answer, Leave, Return
  <1> QED
    BY <1>4 DEF Abstract!Next

\* ch_destroy returns.
LEMMA DestroyReturns ==
  ASSUME Inv, Ops, NEW t \in Threads, DestroyEnd(t) \/ (DestroyMagic(t) /\ ret' # NoReturn)
  PROVE  Abstract!Next
  <1> USE ConstantsAssumption
  <1>1. /\ pc[t] \in {"destroy_magic", "destroy_spin"} /\ Leave(t, pc, "CH_OK", NULL)
        /\ UNCHANGED <<queue, block, attr, max_size>>
    BY DEF DestroyEnd, DestroyMagic, Goto, handle, list
  <1>2. pc'[t] = "idle" /\ \A u \in Threads \ {t} : pc'[u] = pc[u]
    BY <1>1 DEF Leave, Inv, TypeOK
  <1>3. Cleaning' <=> Cleaning
    BY <1>1, <1>2 DEF Cleaning
  <1>4. qbar' = qbar
    BY <1>1, <1>3, QueueSame
  <1>5. pc[t] \in Wiped
    BY <1>1 DEF Wiped
  <1>6. \A u \in Threads \ {t} : pc[u] \in PutPCs => block'[element[u]] = block[element[u]]
    BY <1>1
  <1> QED
    BY <1>1, <1>4, <1>5, <1>6, WipeEnds

\* ch_clean frees an element of a list that no client sees any more.
LEMMA FreeStep ==
  ASSUME Inv, Ops, NEW t \in Threads, CleanStep(t) PROVE Abstract!Next
  <1> USE ConstantsAssumption
  <1>1. /\ pc[t] = "clean_loop" /\ block' = [block EXCEPT ![element[t]] = NULL]
        /\ queue' = Tail(queue) /\ UNCHANGED <<attr, max_size>>
    BY DEF CleanStep, Free, handle
  <1>2. Cleaning
    BY <1>1 DEF Cleaning
  <1>3. qbar = <<>>
    <2> HIDE DEF Cleaning
    <2> QED BY <1>2, QueueIs
  <1>4. /\ Len(queue) \in Nat /\ Len(queue) > 0 /\ element[t] = queue[1] /\ queue \in Seq(Elements)
        /\ element[t] \in Elements
        /\ prev[element[t]] = IF Len(queue) = 1 THEN NULL ELSE queue[2]
    <2>1. Len(queue) > 0 /\ element[t] = queue[1] /\ queue \in Seq(Elements) /\ Len(queue) \in Nat
      BY <1>1 DEF Inv, ListShape, TypeOK
    <2>2. 1 \in 1..Len(queue)
      BY <2>1
    <2>3. queue[1] \in Elements
      BY <2>1, <2>2
    <2>4. prev[queue[1]] = IF 1 = Len(queue) THEN NULL ELSE queue[1 + 1]
      BY <2>2 DEF Inv, ListShape
    <2> QED BY <2>1, <2>3, <2>4
  <1>5. \A u \in Threads \ {t} : pc[u] \in PutPCs => block'[element[u]] = block[element[u]]
    <2>1. element[t] \in Linked
      BY <1>4
    <2> QED BY <1>1, <1>4, <2>1 DEF Inv, TypeOK, Ownership
  <1>6. CASE prev[element[t]] # NULL
    <2>1. /\ pc' = pc /\ op' = op /\ ret' = NoReturn
          /\ \A u \in Threads \ {t} : element'[u] = element[u]
      BY <1>6 DEF CleanStep, Inv, TypeOK
    <2>2. \A u \in Threads : PendOf(u)' = PendOf(u)
      <3>1. \A u \in Threads \ {t} : PendOf(u)' = PendOf(u)
        BY <1>5, <2>1, PendUnmoved
      <3>2. PendOf(t)' = PendOf(t)
        BY <1>1, <2>1, PendUnmoved
      <3> QED BY <3>1, <3>2
    <2>3. pendbar' = pendbar
      BY <2>2, PendSame
    <2>4. Cleaning'
      BY <1>1, <2>1 DEF Cleaning
    <2>5. qbar' = <<>>
      <3> HIDE DEF Cleaning
      <3> QED BY <2>4, QueueView
    <2> QED BY <1>1, <1>3, <2>1, <2>3, <2>5, SilentStep
  <1>7. CASE prev[element[t]] = NULL
    <2>1. CleanReturn(t)
      BY <1>7 DEF CleanStep
    <2>2. \A u \in Threads \ {t} : op'[u] = op[u] /\ element'[u] = element[u] /\ pc'[u] = pc[u]
      BY <2>1 DEF CleanReturn, Goto, Leave, Inv, TypeOK
    <2>3. ~Cleaning'
      <3>1. pc'[t] # "clean_loop"
        BY <2>1 DEF CleanReturn, Goto, Leave, Inv, TypeOK
      <3>2. \A u \in Threads \ {t} : pc[u] # "clean_loop"
        BY <1>1 DEF Inv, MutualExclusion
      <3> QED BY <2>2, <3>1, <3>2 DEF Cleaning
    <2>4. Len(queue) = 1
      <3>1. Len(queue) # 1 => 2 \in 1..Len(queue)
        <4>1. Len(queue) \in Nat /\ Len(queue) > 0
          BY <1>4
        <4>2. \A n \in Nat : n > 0 /\ n # 1 => 2 \in 1..n
          OBVIOUS
        <4> QED BY <4>1, <4>2
      <3>2. \A i \in 1..Len(queue) : queue[i] \in Elements
        BY DEF Inv, TypeOK
      <3>3. Len(queue) # 1 => queue[2] \in Elements
        BY <3>1, <3>2
      <3> QED BY <1>4, <1>7, <3>3
    <2>5. Tail(queue) \in Seq(Elements) /\ Len(Tail(queue)) = 0
      BY <1>4, <2>4
    <2>6. Tail(queue) = <<>>
      <3>1. \A s \in Seq(Elements) : Len(s) = 0 => s = <<>>
        OBVIOUS
      <3> QED BY <2>5, <3>1
    <2>7. View(block', <<>>) = <<>>
      BY DEF View
    <2>8. qbar' = <<>>
      <3>1. qbar' = View(block', queue')
        <4> HIDE DEF Cleaning
        <4> QED BY <2>3, QueueView
      <3> QED BY <1>1, <2>6, <2>7, <3>1, Zenon
    <2>9. CASE op[t] = "destroy"
      <3>1. pc'[t] = "destroy_magic" /\ op' = op /\ element' = element /\ ret' = NoReturn
        BY <2>1, <2>9 DEF CleanReturn, Goto, Inv, TypeOK
      <3>2. \A u \in Threads \ {t} : PendOf(u)' = PendOf(u)
        BY <1>5, <2>2, OthersUnmoved
      <3>3. /\ pc'[t] \in PutPCs <=> pc[t] \in PutPCs
            /\ pc'[t] \in Wiped <=> pc[t] \in Wiped
            /\ pc[t] \in PutPCs => block'[element'[t]] = block[element[t]]
        BY <1>1, <3>1 DEF Wiped
      <3>4. PendOf(t)' = PendOf(t)
        BY <3>1, <3>3, PendUnmoved
      <3>5. pendbar' = pendbar
        BY <3>2, <3>4, PendSame
      <3> QED BY <1>1, <1>3, <2>8, <3>1, <3>5, SilentStep
    <2>10. CASE op[t] # "destroy"
      <3>1. Leave(t, pc, "CH_OK", NULL)
        BY <2>1, <2>10 DEF CleanReturn
      <3>2. pc[t] \in Wiped
        BY <1>1 DEF Wiped
      <3> QED BY <1>1, <1>3, <1>5, <2>8, <3>1, <3>2, WipeEnds
    <2> QED
      BY <2>9, <2>10
  <1> QED
    BY <1>6, <1>7

-----------------------------------------------------------------------------
(***************************************************************************)
(* All together.                                                           *)
(***************************************************************************)
\* ch_create creates an empty queue.
LEMMA StartsEmpty == Init => Abstract!Init /\ Ops
  <1> SUFFICES ASSUME Init PROVE Abstract!Init /\ Ops
    OBVIOUS
  <1>1. \A t \in Threads : pc[t] = "idle" /\ op[t] = "none"
    BY DEF Init
  <1>2. Ops
    BY <1>1 DEF Ops, OpOf
  <1>3. \A t \in Threads : PendOf(t) = Abstract!Idle
    BY <1>1, <1>2, IdlePend
  <1>4. pendbar = [t \in Threads |-> Abstract!Idle]
    BY <1>3, PendIs
  <1>5. ~Cleaning
    BY <1>1 DEF Cleaning
  <1>6. qbar = <<>>
    <2>1. Len(queue) = 0
      BY DEF Init
    <2> HIDE DEF Cleaning
    <2> QED BY <1>5, <2>1, InitInv, QueueIs
  <1> QED
    BY <1>2, <1>4, <1>6 DEF Init, Abstract!Init, Abstract!NoReturn, NoReturn

\* Every step of ch.c is a step of the queue.
LEMMA StepImplements ==
  ASSUME "setattr" \notin Calls
  PROVE  Inv /\ Ops /\ Room /\ [Next]_vars => [Abstract!Next]_(Abstract!vars)
  <1> SUFFICES ASSUME Inv, Ops, Room, [Next]_vars
               PROVE  Abstract!Next \/ UNCHANGED <<qbar, attr, max_size, pendbar, ret>>
    BY DEF Abstract!vars
  <1>1. CASE UNCHANGED vars
    BY <1>1 DEF vars, qbar, pendbar, Cleaning
  <1>2. CASE Next
    <2>1. PICK t \in Threads : Start(t) \/ Step(t) \/ SpuriousWakeup(t)
      BY <1>2 DEF Next
    <2>2. ~SetAttr(t)
      BY DEF SetAttr, MayCall
    <2>3. CASE Start(t)
      <3>1. CleanCall(t) => UNCHANGED pc \/ Entering(t)
        BY DEF CleanCall, AtOnce, Entering
      <3>2. \/ Entering(t) \/ Peek(t) \/ GetAttr(t) \/ Refused(t) \/ WrongAttr(t)
            \/ \E call \in {"put", "put_head"}, b \in Payloads : PutNoMemory(t, call, b)
            \/ CleanCall(t) /\ UNCHANGED pc
        BY <2>2, <2>3, <3>1 DEF Start, StartPut, Entering
      <3> QED BY <3>2, CallSteps, LookSteps, RejectSteps
    <2>4. CASE PutSteps(t) \/ SpuriousWakeup(t)
      BY <2>4, SilentSteps, PutFullStep, PutStep DEF PutSteps
    <2>5. CASE GetSteps(t)
      BY <2>5, SilentSteps, GetStep, GetEmptyStep DEF GetSteps
    <2>6. CASE CleanSteps(t)
      BY <2>6, WipeStep, FreeStep DEF CleanSteps
    <2>7. CASE DestroySteps(t)
      BY <2>7, SilentSteps, DestroyReturns DEF DestroySteps
    <2> QED
      BY <2>1, <2>3, <2>4, <2>5, <2>6, <2>7 DEF Step
  <1> QED
    BY <1>1, <1>2

\* The pointers, the mutex and the condition variables of ch.c behave as one
\* atomic queue, for any number of threads, addresses, blocks and sizes: the
\* clients must not use ch_peek on a channel that carries EOT, nor ch_setattr
\* while it is in use.
THEOREM ChannelIsAQueue ==
  ASSUME NoPeekAtEOT, "setattr" \notin Calls
  PROVE  Spec => ImplementsQueue
  <1>1. Init => Room
    BY ConstantsAssumption DEF Init, Room
  <1>2. Control /\ Room /\ [Next]_vars => Room'
    BY RoomNext
  <1>3. Inv /\ Ops /\ [Next]_vars => Ops'
    BY OpsNext
  <1>4. Inv /\ Ops /\ Room /\ [Next]_vars => [Abstract!Next]_(Abstract!vars)
    BY StepImplements
  <1>5. Spec => []Inv
    BY Invariance
  <1> QED
    BY <1>1, <1>2, <1>3, <1>4, <1>5, StartsEmpty, InitControl, ControlNext, PTL
       DEF Spec, ImplementsQueue, Abstract!Spec
=============================================================================
