--------------------------- MODULE ChannelProofs ---------------------------
(***************************************************************************)
(* Proofs about Channel: for any number of threads, addresses and blocks,  *)
(* any sizes, and any interleaving of the calls, ch_setattr and ch_destroy *)
(* included, the list of ch.c stays well formed and every element has one  *)
(* owner.  The only hypothesis is NoPeekAtEOT.                             *)
(***************************************************************************)
EXTENDS Channel, TLAPS

\* A sequence with an element appended, as queue after ch_put.
LEMMA AppendFacts ==
    ASSUME NEW S, NEW s \in Seq(S), NEW e \in S
    PROVE  /\ Append(s, e) \in Seq(S)
           /\ Len(Append(s, e)) = Len(s) + 1
           /\ \A i \in 1..Len(s) : Append(s, e)[i] = s[i]
           /\ Append(s, e)[Len(s) + 1] = e
    OBVIOUS

\* A sequence with an element in front, as queue after ch_put_head.
LEMMA PrependFacts ==
    ASSUME NEW S, NEW s \in Seq(S), NEW e \in S
    PROVE  /\ <<e>> \o s \in Seq(S)
           /\ Len(<<e>> \o s) = Len(s) + 1
           /\ (<<e>> \o s)[1] = e
           /\ \A i \in 1..Len(s) : (<<e>> \o s)[i + 1] = s[i]
    OBVIOUS

\* A sequence without its first element, as queue after ch_get.
LEMMA TailFacts ==
    ASSUME NEW S, NEW s \in Seq(S), Len(s) > 0
    PROVE  /\ Tail(s) \in Seq(S)
           /\ Len(Tail(s)) = Len(s) - 1
           /\ \A i \in 1..(Len(s) - 1) : Tail(s)[i] = s[i + 1]
    OBVIOUS

\* Its first element then, if any.
LEMMA TailFirst ==
    ASSUME NEW S, NEW s \in Seq(S), Len(s) > 0
    PROVE  /\ 1 \in 1..Len(s)
           /\ 1 = Len(s) => Len(Tail(s)) = 0
           /\ 1 # Len(s) => Len(Tail(s)) # 0 /\ Tail(s)[1] = s[1 + 1]
  <1>1. Len(s) \in Nat
    OBVIOUS
  <1>2. Len(Tail(s)) = Len(s) - 1 /\ \A i \in 1..(Len(s) - 1) : Tail(s)[i] = s[i + 1]
    BY TailFacts
  <1>3. ASSUME NEW n \in Nat, n > 0, n # 1
        PROVE  n - 1 # 0 /\ 1 \in 1..(n - 1)
    BY <1>3
  <1>4. ASSUME 1 # Len(s)
        PROVE  Len(s) - 1 # 0 /\ 1 \in 1..(Len(s) - 1)
    BY <1>1, <1>3, <1>4
  <1>5. 1 # Len(s) => Len(Tail(s)) # 0 /\ Tail(s)[1] = s[1 + 1]
    BY <1>2, <1>4
  <1>6. 1 = Len(s) => Len(Tail(s)) = 0
    BY <1>2
  <1>7. 1 \in 1..Len(s)
    BY <1>1
  <1>. QED BY <1>5, <1>6, <1>7, Zenon

\* The chain of prev from the first element of a sequence leads to its tail.
LEMMA TailChain ==
    ASSUME NEW S, NEW s \in Seq(S), Len(s) > 0, NEW next, NEW end,
           \A i \in 1..Len(s) : next[s[i]] = IF i = Len(s) THEN end ELSE s[i + 1]
    PROVE  next[s[1]] = IF Len(Tail(s)) = 0 THEN end ELSE Tail(s)[1]
  <1>1. next[s[1]] = IF 1 = Len(s) THEN end ELSE s[1 + 1]
    BY TailFirst
  <1>. QED BY <1>1, TailFirst, Zenon

\* The sequence of one element, as queue after a put on an empty channel.
LEMMA OneFacts ==
    ASSUME NEW S, NEW e \in S
    PROVE  /\ <<e>> \in Seq(S)
           /\ Len(<<e>>) = 1
           /\ <<e>>[1] = e
    OBVIOUS

-----------------------------------------------------------------------------
(***************************************************************************)
(* The inductive invariant.  The types are not inductive by themselves:    *)
(* ch_get reads prev of head, so the types rest on the shape of the list,  *)
(* the shape on who owns which element, and both on the mutex.             *)
(***************************************************************************)
Inv == TypeOK /\ MutualExclusion /\ ListShape /\ Ownership

\* ListShape without count, which ch_peek can take away from the list: this
\* part needs only that a list with count # 0 is not empty.
Chain ==
    /\ \A i, j \in 1..Len(queue) : queue[i] = queue[j] => i = j
    /\ \A i \in 1..Len(queue) :
          prev[queue[i]] = IF i = Len(queue) THEN NULL ELSE queue[i + 1]
    /\ Len(queue) = 0 => head = NULL /\ tail = NULL
    /\ Len(queue) > 0 => tail = queue[Len(queue)]
    /\ Len(queue) > 0 /\ ~Cleaning => head = queue[1]
    /\ \A t \in At({"clean_loop"}) : Len(queue) > 0 /\ element[t] = queue[1]

Base   == TypeOK /\ MutualExclusion /\ Chain /\ Ownership
Covers == count # 0 => Len(queue) > 0

USE DEF At, Linked, Cleaning, PutPCs, GetPCs, WipePCs, PCs, HoldsMutex

\* ch_create establishes the invariant.
LEMMA InitBase == Init => Base
  BY ConstantsAssumption DEF Init, Base, TypeOK, MutualExclusion, Chain,
     Ownership, EntryPoints

\* A step that leaves the list alone, and lets no thread into the loop of
\* ch_clean or into _ch_put, keeps the list and its owners.
LEMMA Quiet ==
    ASSUME Base, UNCHANGED list,
           \A u \in Threads :
              /\ pc'[u] = "clean_loop" <=> pc[u] = "clean_loop"
              /\ pc'[u] \in PutPCs => pc[u] \in PutPCs
              /\ pc'[u] \in PutPCs \cup {"clean_loop"} => element'[u] = element[u]
    PROVE  Chain' /\ Ownership'
  <1>0. UNCHANGED <<count, head, tail, prev, block, heap, queue>>
    BY DEF list
  <1>1. Chain'
    <2>1. Cleaning' <=> Cleaning
      OBVIOUS
    <2>2. \A u \in Threads : pc'[u] = "clean_loop" =>
             Len(queue) > 0 /\ element'[u] = queue[1]
      BY DEF Base, Chain
    <2>. HIDE DEF Cleaning
    <2>. QED BY <1>0, <2>1, <2>2 DEF Base, Chain
  <1>2. Ownership'
    BY <1>0 DEF Base, Ownership
  <1>. QED BY <1>1, <1>2

\* A signal moves at most one sleeping thread to its wakeup.
LEMMA WokenFacts ==
    ASSUME TypeOK, NEW asleep, NEW awake \in PCs, NEW f \in Woken(asleep, awake)
    PROVE  /\ f \in [Threads -> PCs]
           /\ \A u \in Threads : \/ f[u] = pc[u]
                                 \/ pc[u] = asleep /\ f[u] = awake
  BY DEF Woken, TypeOK

\* The thread between _ch_lock and _ch_unlock is the only one.
LEMMA OneHolder ==
    ASSUME MutualExclusion, NEW t \in Threads, pc[t] \in HoldsMutex,
           NEW u \in Threads, u # t
    PROVE  pc[u] \notin HoldsMutex
  BY DEF MutualExclusion

\* The actions that neither link nor free an element nor start a clean: what
\* they change is the position of one thread, the mutex, a counter, the mode.
LEMMA QuietActions ==
    ASSUME Base, Covers, NEW t \in Threads,
           \/ WrongAttr(t) \/ Refused(t) \/ SpuriousWakeup(t) \/ PutLock(t)
           \/ PutWait(t) \/ PutRoom(t) \/ PutReacquire(t) \/ GetCall(t)
           \/ GetLock(t) \/ GetWait(t) \/ GetReacquire(t) \/ SetAttr(t)
           \/ GetAttr(t) \/ CleanCall(t) \/ DestroyCall(t) \/ DestroyMagic(t)
           \/ DestroySpin(t) \/ DestroyEnd(t)
    PROVE  Base'
  <1>. USE ConstantsAssumption DEF handle, list, waiting
  <1>. DEFINE Calm == UNCHANGED list /\ \A u \in Threads :
                /\ pc'[u] = "clean_loop" <=> pc[u] = "clean_loop"
                /\ pc'[u] \in PutPCs => pc[u] \in PutPCs
                /\ pc'[u] \in PutPCs \cup {"clean_loop"} =>
                      element'[u] = element[u]
  <1>1. CASE WrongAttr(t)
    <2>. USE <1>1 DEF WrongAttr, AtOnce
    <2>1. TypeOK' BY DEF Base, TypeOK
    <2>2. MutualExclusion' BY DEF Base, TypeOK, MutualExclusion
    <2>3. Calm BY DEF Base, TypeOK
    <2>. QED BY <2>1, <2>2, <2>3, Quiet DEF Base
  <1>2. CASE Refused(t)
    <2>. USE <1>2 DEF Refused, AtOnce
    <2>1. TypeOK' BY DEF Base, TypeOK
    <2>2. MutualExclusion' BY DEF Base, TypeOK, MutualExclusion
    <2>3. Calm BY DEF Base, TypeOK
    <2>. QED BY <2>1, <2>2, <2>3, Quiet DEF Base
  <1>3. CASE SpuriousWakeup(t)
    <2>. USE <1>3 DEF SpuriousWakeup, Goto
    <2>1. TypeOK' BY DEF Base, TypeOK
    <2>2. MutualExclusion' BY DEF Base, TypeOK, MutualExclusion
    <2>3. Calm BY DEF Base, TypeOK
    <2>. QED BY <2>1, <2>2, <2>3, Quiet DEF Base
  <1>4. CASE PutLock(t)
    <2>. USE <1>4 DEF PutLock, Lock, Goto
    <2>1. TypeOK' BY DEF Base, TypeOK
    <2>2. MutualExclusion' BY DEF Base, TypeOK, MutualExclusion
    <2>3. Calm BY DEF Base, TypeOK
    <2>. QED BY <2>1, <2>2, <2>3, Quiet DEF Base
  <1>5. CASE PutWait(t)
    <2>. USE <1>5 DEF PutWait, AtPutLoop, Goto
    <2>1. TypeOK' BY DEF Base, TypeOK
    <2>2. MutualExclusion' BY DEF Base, TypeOK, MutualExclusion
    <2>3. Calm BY DEF Base, TypeOK
    <2>. QED BY <2>1, <2>2, <2>3, Quiet DEF Base
  <1>6. CASE PutRoom(t)
    <2>. USE <1>6 DEF PutRoom, Goto
    <2>1. TypeOK' BY DEF Base, TypeOK
    <2>2. MutualExclusion' BY DEF Base, TypeOK, MutualExclusion
    <2>3. Calm BY DEF Base, TypeOK
    <2>. QED BY <2>1, <2>2, <2>3, Quiet DEF Base
  <1>7. CASE PutReacquire(t)
    <2>. USE <1>7 DEF PutReacquire, Lock, PutWaitEnds, AfterPutWait, Goto
    <2>1. TypeOK' BY DEF Base, TypeOK
    <2>2. MutualExclusion' BY DEF Base, TypeOK, MutualExclusion
    <2>3. Calm BY DEF Base, TypeOK
    <2>. QED BY <2>1, <2>2, <2>3, Quiet DEF Base
  <1>8. CASE GetCall(t)
    <2>. USE <1>8 DEF GetCall, Enter, MayCall, EntryPoints
    <2>1. TypeOK' BY DEF Base, TypeOK
    <2>2. MutualExclusion' BY DEF Base, TypeOK, MutualExclusion
    <2>3. Calm BY DEF Base, TypeOK
    <2>. QED BY <2>1, <2>2, <2>3, Quiet DEF Base
  <1>9. CASE GetLock(t)
    <2>. USE <1>9 DEF GetLock, Leave, Goto
    <2>1. TypeOK' BY DEF Base, TypeOK
    <2>2. MutualExclusion' BY DEF Base, TypeOK, MutualExclusion
    <2>3. Calm BY DEF Base, TypeOK
    <2>. QED BY <2>1, <2>2, <2>3, Quiet DEF Base
  <1>10. CASE GetWait(t)
    <2>. USE <1>10 DEF GetWait, Goto
    <2>1. TypeOK' BY DEF Base, TypeOK
    <2>2. MutualExclusion' BY DEF Base, TypeOK, MutualExclusion
    <2>3. Calm BY DEF Base, TypeOK
    <2>. QED BY <2>1, <2>2, <2>3, Quiet DEF Base
  <1>11. CASE GetReacquire(t)
    <2>. USE <1>11 DEF GetReacquire, Lock, Goto
    <2>1. TypeOK' BY DEF Base, TypeOK
    <2>2. MutualExclusion' BY DEF Base, TypeOK, MutualExclusion
    <2>3. Calm BY DEF Base, TypeOK
    <2>. QED BY <2>1, <2>2, <2>3, Quiet DEF Base
  <1>12. CASE SetAttr(t)
    <2>. USE <1>12 DEF SetAttr, ValidSize, AtOnce
    <2>1. TypeOK' BY DEF Base, TypeOK
    <2>2. MutualExclusion' BY DEF Base, TypeOK, MutualExclusion
    <2>3. Calm BY DEF Base, TypeOK
    <2>. QED BY <2>1, <2>2, <2>3, Quiet DEF Base
  <1>13. CASE GetAttr(t)
    <2>. USE <1>13 DEF GetAttr, AtOnce
    <2>1. TypeOK' BY DEF Base, TypeOK
    <2>2. MutualExclusion' BY DEF Base, TypeOK, MutualExclusion
    <2>3. Calm BY DEF Base, TypeOK
    <2>. QED BY <2>1, <2>2, <2>3, Quiet DEF Base
  <1>14. CASE CleanCall(t)
    <2>. USE <1>14 DEF CleanCall, Enter, MayCall, EntryPoints, AtOnce
    <2>1. TypeOK' BY DEF Base, TypeOK
    <2>2. MutualExclusion' BY DEF Base, TypeOK, MutualExclusion
    <2>3. Calm BY DEF Base, TypeOK
    <2>. QED BY <2>1, <2>2, <2>3, Quiet DEF Base
  <1>15. CASE DestroyCall(t)
    <2>. USE <1>15 DEF DestroyCall, DestroyEntry, Enter, MayCall, EntryPoints
    <2>1. TypeOK' BY DEF Base, TypeOK
    <2>2. MutualExclusion' BY DEF Base, TypeOK, MutualExclusion
    <2>3. Calm BY DEF Base, TypeOK
    <2>. QED BY <2>1, <2>2, <2>3, Quiet DEF Base
  <1>16. CASE DestroyMagic(t)
    <2>. USE <1>16 DEF DestroyMagic, Goto, Leave
    <2>1. TypeOK' BY DEF Base, TypeOK
    <2>2. MutualExclusion' BY DEF Base, TypeOK, MutualExclusion
    <2>3. Calm BY DEF Base, TypeOK
    <2>. QED BY <2>1, <2>2, <2>3, Quiet DEF Base
  <1>17. CASE DestroySpin(t)
    <2>. USE <1>17 DEF DestroySpin, Broadcast
    <2>1. TypeOK' BY DEF Base, TypeOK
    <2>2. MutualExclusion' BY DEF Base, TypeOK, MutualExclusion
    <2>3. Calm BY DEF Base, TypeOK
    <2>. QED BY <2>1, <2>2, <2>3, Quiet DEF Base
  <1>18. CASE DestroyEnd(t)
    <2>. USE <1>18 DEF DestroyEnd, Leave
    <2>1. TypeOK' BY DEF Base, TypeOK
    <2>2. MutualExclusion' BY DEF Base, TypeOK, MutualExclusion
    <2>3. Calm BY DEF Base, TypeOK
    <2>. QED BY <2>1, <2>2, <2>3, Quiet DEF Base
  <1>. QED
    BY <1>1, <1>2, <1>3, <1>4, <1>5, <1>6, <1>7, <1>8, <1>9, <1>10, <1>11,
       <1>12, <1>13, <1>14, <1>15, <1>16, <1>17, <1>18

\* A new element is neither in the list nor another thread's.
LEMMA PutCallBase ==
    ASSUME Base, Covers, NEW t \in Threads, NEW call \in {"put", "put_head"},
           NEW b \in Payloads, PutCall(t, call, b)
    PROVE  Base'
  <1>. USE ConstantsAssumption
  <1>1. PICK e \in Elements \ heap :
           /\ heap' = heap \cup {e}
           /\ prev' = [prev EXCEPT ![e] = NULL]
           /\ block' = [block EXCEPT ![e] = b]
           /\ Enter(t, call, "put_lock", e)
    BY DEF PutCall
  <1>2. UNCHANGED <<handle, waiting, ch_mutex, count, head, tail, queue>>
        /\ pc[t] = "idle"
    BY DEF PutCall, MayCall
  <1>3. TypeOK'
    BY <1>1, <1>2 DEF Base, TypeOK, Enter, EntryPoints, handle, waiting
  <1>4. MutualExclusion'
    BY <1>1, <1>2 DEF Base, TypeOK, MutualExclusion, Enter
  <1>5. \A i \in 1..Len(queue) : queue[i] # e
    BY <1>1 DEF Base, Ownership
  <1>6. Chain'
    BY <1>1, <1>2, <1>5 DEF Base, TypeOK, Chain, Enter
  <1>7. \A u \in Threads : pc[u] \in PutPCs => element[u] # e
    BY <1>1 DEF Base, Ownership
  <1>8. Ownership'
    BY <1>1, <1>2, <1>5, <1>7 DEF Base, TypeOK, Ownership, Enter
  <1>. QED BY <1>3, <1>4, <1>6, <1>8 DEF Base

\* An allocation that fails leaves the list and the owned elements alone.
LEMMA PutNoMemoryBase ==
    ASSUME Base, Covers, NEW t \in Threads, NEW call, NEW b, PutNoMemory(t, call, b)
    PROVE  Base'
  <1>. USE DEF PutNoMemory, AtOnce, handle, waiting
  <1>1. heap \subseteq heap' /\ heap' \subseteq Elements
    BY DEF Base, TypeOK
  <1>2. UNCHANGED <<pc, op, element, ch_mutex, count, head, tail, prev, block, queue>>
    OBVIOUS
  <1>3. TypeOK'
    BY <1>1 DEF Base, TypeOK
  <1>4. MutualExclusion' /\ Chain'
    BY <1>2 DEF Base, MutualExclusion, Chain
  <1>5. Ownership'
    BY <1>1, <1>2 DEF Base, Ownership
  <1>. QED BY <1>3, <1>4, <1>5 DEF Base

\* The element that a full channel refuses was owned by its putter only.
LEMMA PutFullBase ==
    ASSUME Base, Covers, NEW t \in Threads, PutFull(t) PROVE Base'
  <1>. USE ConstantsAssumption DEF PutFull, Discard, Free, Leave, handle, waiting
  <1>1. element[t] \in Elements
        /\ \A i \in 1..Len(queue) : queue[i] # element[t]
    BY DEF Base, TypeOK, Ownership
  <1>2. TypeOK'
    BY <1>1 DEF Base, TypeOK
  <1>3. MutualExclusion'
    BY DEF Base, TypeOK, MutualExclusion
  <1>4. Chain'
    BY <1>1 DEF Base, TypeOK, Chain
  <1>5. Ownership'
    BY <1>1 DEF Base, TypeOK, Ownership
  <1>. QED BY <1>2, <1>3, <1>4, <1>5 DEF Base

\* Linking an element at either end; its putter no longer owns it.
LEMMA PutLinkBase ==
    ASSUME Base, Covers, NEW t \in Threads, PutLink(t) PROVE Base'
  <1>. DEFINE e == element[t]
  <1>. USE ConstantsAssumption
  <1>1. /\ e \in heap /\ e \in Elements
        /\ prev[e] = NULL /\ block[e] # NULL
        /\ \A i \in 1..Len(queue) : queue[i] # e
        /\ \A u \in Threads : pc[u] \in PutPCs /\ u # t => element[u] # e
    BY DEF Base, TypeOK, Ownership, PutLink
  <1>2. \A u \in Threads : pc[u] # "clean_loop"
    BY OneHolder DEF Base, PutLink
  <1>3. PICK f \in WokenByPut : Leave(t, f, "CH_OK", count + 1)
    BY DEF PutLink
  <1>4. /\ f \in [Threads -> PCs]
        /\ \A u \in Threads : \/ f[u] = pc[u]
                              \/ pc[u] = "get_wait" /\ f[u] = "get_woken"
    BY WokenFacts, <1>3 DEF WokenByPut, Base, TypeOK
  <1>5. /\ pc' \in [Threads -> PCs] /\ pc'[t] = "idle"
        /\ \A u \in Threads : u # t =>
              \/ pc'[u] = pc[u]
              \/ pc[u] = "get_wait" /\ pc'[u] = "get_woken"
    BY <1>3, <1>4 DEF Leave
  <1>6. MutualExclusion'
    BY <1>5 DEF Base, TypeOK, MutualExclusion, PutLink
  <1>12. \A u \in Threads : pc'[u] # "clean_loop"
    BY <1>2, <1>5
  <1>7. /\ count' = count + 1 /\ UNCHANGED <<heap, block>>
        /\ element' = [element EXCEPT ![t] = NULL]
        /\ op' = [op EXCEPT ![t] = "none"]
        /\ ch_mutex' = NULL /\ UNCHANGED <<handle, waiting>>
    BY <1>3 DEF PutLink, Leave
  <1>8. queue \in Seq(Elements) /\ (count # 0 => Len(queue) > 0) /\ Len(queue) \in Nat
    BY DEF Base, TypeOK, Covers
  <1>9. CASE count = 0
    <2>1. head' = e /\ tail' = e /\ prev' = prev /\ queue' = <<e>>
      BY <1>9 DEF PutLink, LinkLast, LinkFirst
    <2>2. queue' \in Seq(Elements) /\ Len(queue') = 1 /\ queue'[1] = e
      BY <2>1, <1>1, OneFacts
    <2>3. TypeOK'
      BY <2>1, <2>2, <1>1, <1>5, <1>7 DEF Base, TypeOK, handle, waiting
    <2>4. Chain'
      <3>1. prev'[e] = NULL
        BY <2>1, <1>1
      <3>. QED BY <3>1, <2>1, <2>2, <1>7, <1>8, <1>9, <1>12 DEF Chain
    <2>5. Ownership'
      BY <2>1, <2>2, <1>1, <1>5, <1>7 DEF Base, TypeOK, Ownership
    <2>. QED BY <2>3, <2>4, <2>5, <1>6 DEF Base
  <1>10. CASE count # 0 /\ AtEnd(t)
    <2>1. head' = head /\ tail' = e /\ prev' = [prev EXCEPT ![tail] = e]
          /\ queue' = Append(queue, e)
      BY <1>10 DEF PutLink, LinkLast
    <2>2. /\ queue' \in Seq(Elements) /\ Len(queue') = Len(queue) + 1
          /\ \A i \in 1..Len(queue) : queue'[i] = queue[i]
          /\ queue'[Len(queue) + 1] = e
      BY <2>1, <1>1, <1>8, AppendFacts
    <2>3. tail = queue[Len(queue)] /\ head = queue[1] /\ Len(queue) > 0
          /\ tail \in Elements
      BY <1>2, <1>8, <1>10 DEF Base, TypeOK, Chain
    <2>4. TypeOK'
      BY <2>1, <2>2, <2>3, <1>1, <1>5, <1>7 DEF Base, TypeOK, handle, waiting
    <2>5. \A i \in 1..Len(queue) :
             prev'[queue[i]] = IF i = Len(queue) THEN e ELSE queue[i + 1]
      BY <2>1, <2>3, <1>8 DEF Base, TypeOK, Chain
    <2>6. prev'[e] = NULL
      BY <2>1, <2>3, <1>1, <1>8 DEF Base, TypeOK
    <2>7. \A i, j \in 1..Len(queue) : queue[i] = queue[j] => i = j
      BY DEF Base, Chain
    <2>8. Chain'
      <3>1. \A i, j \in 1..Len(queue') : queue'[i] = queue'[j] => i = j
        BY <2>2, <2>7, <1>1, <1>8
      <3>2. \A i \in 1..Len(queue') :
               prev'[queue'[i]] = IF i = Len(queue') THEN NULL ELSE queue'[i + 1]
        BY <2>2, <2>5, <2>6, <1>8
      <3>. QED BY <3>1, <3>2, <2>1, <2>2, <2>3, <1>7, <1>8, <1>12 DEF Chain
    <2>9. \A u \in Threads : pc[u] \in PutPCs => prev'[element[u]] = prev[element[u]]
      BY <2>1, <2>3, <1>8 DEF Base, TypeOK, Ownership
    <2>10. Ownership'
      BY <2>1, <2>2, <2>9, <1>1, <1>5, <1>7, <1>8 DEF Base, TypeOK, Ownership
    <2>. QED BY <2>4, <2>8, <2>10, <1>6 DEF Base
  <1>11. CASE count # 0 /\ ~AtEnd(t)
    <2>1. head' = e /\ tail' = tail /\ prev' = [prev EXCEPT ![e] = head]
          /\ queue' = <<e>> \o queue
      BY <1>11 DEF PutLink, LinkFirst
    <2>2. /\ queue' \in Seq(Elements) /\ Len(queue') = Len(queue) + 1
          /\ \A i \in 1..Len(queue) : queue'[i + 1] = queue[i]
          /\ queue'[1] = e
      BY <2>1, <1>1, <1>8, PrependFacts
    <2>3. tail = queue[Len(queue)] /\ head = queue[1] /\ Len(queue) > 0
      BY <1>2, <1>8, <1>11 DEF Base, TypeOK, Chain
    <2>4. TypeOK'
      BY <2>1, <2>2, <1>1, <1>5, <1>7 DEF Base, TypeOK, handle, waiting
    <2>5. \A i \in 2..Len(queue') : queue'[i] = queue[i - 1]
      BY <2>2, <1>8
    <2>6. \A i \in 1..Len(queue') :
             prev'[queue'[i]] = IF i = Len(queue') THEN NULL ELSE queue'[i + 1]
      <3>1. prev'[e] = head
        BY <2>1, <1>1 DEF Base, TypeOK
      <3>2. \A i \in 1..Len(queue) : prev'[queue[i]] = prev[queue[i]]
        BY <2>1, <1>1, <1>8 DEF Base, TypeOK
      <3>3. \A i \in 1..Len(queue) :
               prev[queue[i]] = IF i = Len(queue) THEN NULL ELSE queue[i + 1]
        BY DEF Base, Chain
      <3>4. ASSUME NEW i \in 2..Len(queue')
            PROVE  prev'[queue'[i]] = IF i = Len(queue') THEN NULL ELSE queue'[i + 1]
        <4>1. i - 1 \in 1..Len(queue) /\ queue'[i] = queue[i - 1] /\ Len(queue') = Len(queue) + 1
          BY <2>2, <2>5, <1>8
        <4>2. i # Len(queue') => i \in 1..Len(queue) /\ queue'[i + 1] = queue[i]
          BY <2>2, <4>1, <1>8
        <4>3. prev'[queue'[i]] = IF i - 1 = Len(queue) THEN NULL ELSE queue[i - 1 + 1]
          BY <3>2, <3>3, <4>1
        <4>. QED BY <4>1, <4>2, <4>3, <1>8
      <3>5. prev'[queue'[1]] = IF 1 = Len(queue') THEN NULL ELSE queue'[2]
        <4>1. 1 \in 1..Len(queue) /\ queue'[2] = queue[1] /\ Len(queue') # 1
          BY <2>2, <2>3, <2>5, <1>8
        <4>. QED BY <2>2, <2>3, <3>1, <4>1
      <3>. QED BY <3>4, <3>5, <2>2, <1>8
    <2>7. \A i, j \in 1..Len(queue') : queue'[i] = queue'[j] => i = j
      <3>1. \A i, j \in 1..Len(queue) : queue[i] = queue[j] => i = j
        BY DEF Base, Chain
      <3>. QED BY <3>1, <2>2, <2>5, <1>1, <1>8
    <2>8. queue'[Len(queue')] = tail
      BY <2>2, <2>3, <1>8
    <2>9. Chain'
      BY <2>1, <2>2, <2>6, <2>7, <2>8, <1>7, <1>8, <1>12 DEF Chain
    <2>10. Ownership'
      <3>1. \A i \in 1..Len(queue') :
               queue'[i] = e \/ \E k \in 1..Len(queue) : queue'[i] = queue[k]
        BY <2>2, <2>5, <1>8
      <3>2. \A i \in 1..Len(queue') : queue'[i] \in heap' /\ block'[queue'[i]] # NULL
        BY <3>1, <1>1, <1>7 DEF Base, Ownership
      <3>3. \A u \in Threads : pc'[u] \in PutPCs =>
               /\ pc[u] \in PutPCs /\ element'[u] = element[u] /\ element[u] # e
               /\ prev'[element[u]] = prev[element[u]]
        BY <2>1, <1>1, <1>5, <1>7 DEF Base, TypeOK, Ownership
      <3>. QED BY <3>1, <3>2, <3>3, <1>7 DEF Base, Ownership
    <2>. QED BY <2>4, <2>9, <2>10, <1>6 DEF Base
  <1>. QED BY <1>9, <1>10, <1>11

\* ch_peek changes count at most.
LEMMA PeekBase ==
    ASSUME Base, NEW t \in Threads, Peek(t) PROVE Base'
  <1>1. /\ UNCHANGED <<head, tail, prev, block, heap, queue>>
        /\ UNCHANGED <<pc, op, element, ch_mutex, handle, waiting>>
        /\ count' \in Int
    BY DEF Peek, AtOnce, Base, TypeOK
  <1>2. TypeOK' /\ MutualExclusion'
    BY <1>1 DEF Base, TypeOK, MutualExclusion, handle, waiting
  <1>3. Chain' /\ Ownership'
    BY <1>1 DEF Base, Chain, Ownership
  <1>. QED BY <1>2, <1>3 DEF Base

\* Dropping and freeing the first element keeps the rest of the list, and the
\* elements that putters own.
LEMMA FreeFirst ==
    ASSUME Base, Len(queue) > 0, queue' = Tail(queue), Free(queue[1])
    PROVE  /\ queue' \in Seq(Elements) /\ Len(queue') = Len(queue) - 1
           /\ heap' \subseteq Elements
           /\ prev' \in [Elements -> Elements \cup {NULL}]
           /\ block' \in [Elements -> Payloads \cup {NULL}]
           /\ \A i \in 1..Len(queue') : queue'[i] = queue[i + 1]
           /\ \A i, j \in 1..Len(queue') : queue'[i] = queue'[j] => i = j
           /\ \A i \in 1..Len(queue') :
                 prev'[queue'[i]] = IF i = Len(queue') THEN NULL ELSE queue'[i + 1]
           /\ \A i \in 1..Len(queue') : queue'[i] \in heap' /\ block'[queue'[i]] # NULL
           /\ \A u \in At(PutPCs) :
                 /\ element[u] \in heap' \ Linked'
                 /\ prev'[element[u]] = NULL /\ block'[element[u]] # NULL
           /\ prev[queue[1]] = IF Len(queue') = 0 THEN NULL ELSE queue'[1]
           /\ queue[1] \in Elements /\ NULL \notin Elements
  <1>. USE ConstantsAssumption
  <1>1. queue \in Seq(Elements) /\ Len(queue) \in Nat
        /\ queue[1] \in Elements
    BY DEF Base, TypeOK, Chain
  <1>2. /\ queue' \in Seq(Elements) /\ Len(queue') = Len(queue) - 1
        /\ \A i \in 1..Len(queue') : queue'[i] = queue[i + 1]
    BY <1>1, TailFacts
  <1>13. \A i \in 1..(Len(queue) - 1) : queue'[i] = queue[i + 1]
    BY <1>1, TailFacts
  <1>3. /\ heap' \subseteq Elements
        /\ prev' \in [Elements -> Elements \cup {NULL}]
        /\ block' \in [Elements -> Payloads \cup {NULL}]
    BY <1>1 DEF Base, TypeOK, Free
  <1>4. \A i, j \in 1..Len(queue) : queue[i] = queue[j] => i = j
    BY DEF Base, Chain
  <1>5. \A i, j \in 1..Len(queue') : queue'[i] = queue'[j] => i = j
    BY <1>1, <1>2, <1>4
  <1>6. \A i \in 1..Len(queue') :
           /\ queue'[i] # queue[1] /\ queue'[i] \in Elements
           /\ i + 1 \in 1..Len(queue)
    BY <1>1, <1>2, <1>4
  <1>7. \A i \in 1..Len(queue') :
           prev'[queue'[i]] = prev[queue'[i]] /\ block'[queue'[i]] = block[queue'[i]]
    BY <1>6 DEF Base, TypeOK, Free
  <1>8. \A i \in 1..Len(queue) :
           prev[queue[i]] = IF i = Len(queue) THEN NULL ELSE queue[i + 1]
    BY DEF Base, Chain
  <1>9. \A i \in 1..Len(queue') :
           prev'[queue'[i]] = IF i = Len(queue') THEN NULL ELSE queue'[i + 1]
    <2>. SUFFICES ASSUME NEW i \in 1..Len(queue')
                  PROVE  prev'[queue'[i]] = IF i = Len(queue') THEN NULL ELSE queue'[i + 1]
      OBVIOUS
    <2>1. i + 1 \in 1..Len(queue) /\ queue'[i] = queue[i + 1] /\ Len(queue') = Len(queue) - 1
      BY <1>2, <1>6
    <2>2. i # Len(queue') => queue'[i + 1] = queue[i + 1 + 1]
      BY <1>1, <1>13, <2>1
    <2>3. prev'[queue'[i]] = IF i + 1 = Len(queue) THEN NULL ELSE queue[i + 1 + 1]
      BY <1>7, <1>8, <2>1
    <2>. QED BY <1>1, <2>1, <2>2, <2>3
  <1>10. \A i \in 1..Len(queue') : queue'[i] \in heap' /\ block'[queue'[i]] # NULL
    BY <1>2, <1>6, <1>7 DEF Base, Ownership, Free
  <1>11. \A u \in At(PutPCs) :
                 /\ element[u] \in heap' \ Linked'
                 /\ prev'[element[u]] = NULL /\ block'[element[u]] # NULL
    <2>. SUFFICES ASSUME NEW u \in At(PutPCs)
                  PROVE  /\ element[u] \in heap' \ Linked'
                         /\ prev'[element[u]] = NULL /\ block'[element[u]] # NULL
      OBVIOUS
    <2>1. element[u] \in heap \ Linked /\ prev[element[u]] = NULL
          /\ block[element[u]] # NULL /\ element[u] \in Elements
      BY DEF Base, TypeOK, Ownership
    <2>2. element[u] # queue[1]
      BY <2>1, <1>1
    <2>3. element[u] \notin Linked'
      BY <2>1, <1>2, <1>6
    <2>. QED BY <2>1, <2>2, <2>3 DEF Base, TypeOK, Free
  <1>12. prev[queue[1]] = IF Len(queue') = 0 THEN NULL ELSE queue'[1]
    <2>1. prev[queue[1]] = IF Len(Tail(queue)) = 0 THEN NULL ELSE Tail(queue)[1]
      BY <1>1, <1>8, TailChain
    <2>. QED BY <2>1
  <1>. QED BY <1>1, <1>2, <1>3, <1>5, <1>9, <1>10, <1>11, <1>12

\* ch_get detaches and frees the first element.
LEMMA GetTakeBase ==
    ASSUME Base, Covers, NEW t \in Threads, GetTake(t) PROVE Base'
  <1>. USE ConstantsAssumption
  <1>1. \A u \in Threads : pc[u] # "clean_loop"
    BY OneHolder DEF Base, GetTake
  <1>2. queue \in Seq(Elements) /\ Len(queue) \in Nat
    BY DEF Base, TypeOK, Chain
  <1>3. Len(queue) > 0 /\ head = queue[1] /\ tail = queue[Len(queue)]
    BY <1>1, <1>2 DEF Base, Covers, Chain, GetTake
  <1>4. PICK f \in WokenByGet : Delivered(t, f, block[head])
    BY DEF GetTake
  <1>5. /\ f \in [Threads -> PCs]
        /\ \A u \in Threads : \/ f[u] = pc[u]
                              \/ pc[u] = "put_wait" /\ f[u] = "put_woken"
    BY WokenFacts, <1>4 DEF WokenByGet, Base, TypeOK
  <1>6. /\ pc' \in [Threads -> PCs] /\ pc'[t] = "idle"
        /\ \A u \in Threads : u # t =>
              \/ pc'[u] = pc[u]
              \/ pc[u] = "put_wait" /\ pc'[u] = "put_woken"
        /\ element' = [element EXCEPT ![t] = NULL]
        /\ op' = [op EXCEPT ![t] = "none"]
    BY <1>4, <1>5 DEF Delivered, Leave
  <1>7. MutualExclusion'
    BY <1>6 DEF Base, TypeOK, MutualExclusion, GetTake
  <1>8. \A u \in Threads : /\ pc'[u] # "clean_loop"
                           /\ pc'[u] \in PutPCs => pc[u] \in PutPCs /\ u # t
    BY <1>1, <1>6
  <1>9. queue' = Tail(queue) /\ count' = count - 1 /\ count' \in Int /\ Free(queue[1])
    BY <1>3 DEF Base, TypeOK, GetTake, Taken
  <1>10. /\ queue' \in Seq(Elements) /\ Len(queue') = Len(queue) - 1
         /\ heap' \subseteq Elements
         /\ prev' \in [Elements -> Elements \cup {NULL}]
         /\ block' \in [Elements -> Payloads \cup {NULL}]
         /\ \A i \in 1..Len(queue') : queue'[i] = queue[i + 1]
         /\ prev[queue[1]] = IF Len(queue') = 0 THEN NULL ELSE queue'[1]
         /\ queue[1] \in Elements /\ NULL \notin Elements
    BY <1>3, <1>9, FreeFirst
  <1>11. /\ head' = IF Len(queue') = 0 THEN NULL ELSE queue'[1]
         /\ tail' = IF Len(queue') = 0 THEN NULL ELSE queue'[Len(queue')]
    <2>1. Len(queue') > 0 => queue'[1] \in Elements
                             /\ queue'[Len(queue')] = queue[Len(queue)]
      BY <1>2, <1>3, <1>10
    <2>. QED BY <2>1, <1>2, <1>3, <1>10 DEF GetTake, TailAfterGet
  <1>12. TypeOK'
    <2>1. head' \in Elements \cup {NULL} /\ tail' \in Elements \cup {NULL}
      BY <1>10, <1>11
    <2>. QED BY <2>1, <1>2, <1>6, <1>10 DEF Base, TypeOK, GetTake, handle, waiting
  <1>13. Chain'
    <2>1. /\ \A i, j \in 1..Len(queue') : queue'[i] = queue'[j] => i = j
          /\ \A i \in 1..Len(queue') :
                prev'[queue'[i]] = IF i = Len(queue') THEN NULL ELSE queue'[i + 1]
      BY <1>3, <1>9, FreeFirst
    <2>. QED BY <2>1, <1>8, <1>10, <1>11 DEF Chain
  <1>14. Ownership'
    <2>1. \A u \in Threads : pc'[u] \in PutPCs =>
             u \in At(PutPCs) /\ element'[u] = element[u]
      BY <1>6, <1>8 DEF Base, TypeOK
    <2>. QED BY <2>1, <1>3, <1>9, FreeFirst DEF Base, Ownership
  <1>. QED BY <1>7, <1>12, <1>13, <1>14 DEF Base

\* ch_clean takes the mutex and starts at head.
LEMMA CleanLockBase ==
    ASSUME Base, Covers, NEW t \in Threads, CleanLock(t) PROVE Base'
  <1>. USE ConstantsAssumption
  <1>1. TypeOK'
    BY DEF Base, TypeOK, CleanLock, CleanReturn, Leave, Goto, handle, list, waiting
  <1>2. MutualExclusion'
    BY DEF Base, TypeOK, MutualExclusion, CleanLock, CleanReturn, Leave, Goto
  <1>3. CASE count = 0
    <2>1. UNCHANGED list /\ \A u \in Threads :
              /\ pc'[u] = "clean_loop" <=> pc[u] = "clean_loop"
              /\ pc'[u] \in PutPCs => pc[u] \in PutPCs
              /\ pc'[u] \in PutPCs \cup {"clean_loop"} => element'[u] = element[u]
      BY <1>3 DEF Base, TypeOK, CleanLock, CleanReturn, Leave, Goto
    <2>. QED BY <1>1, <1>2, <2>1, Quiet DEF Base
  <1>4. CASE count # 0
    <2>1. \A u \in Threads : pc[u] # "clean_loop"
      BY DEF Base, TypeOK, MutualExclusion, CleanLock
    <2>2. head = queue[1] /\ Len(queue) > 0
      BY <1>4, <2>1 DEF Base, Covers, TypeOK, Chain
    <2>3. /\ pc' = [pc EXCEPT ![t] = "clean_loop"]
          /\ element' = [element EXCEPT ![t] = head]
          /\ pc[t] = "clean_lock" /\ UNCHANGED list
      BY <1>4 DEF CleanLock
    <2>4. Chain'
      <3>1. \A u \in Threads : pc'[u] = "clean_loop" => u = t
        BY <2>1, <2>3 DEF Base, TypeOK
      <3>2. pc'[t] = "clean_loop" /\ element'[t] = queue[1]
        BY <2>2, <2>3 DEF Base, TypeOK
      <3>. QED BY <2>2, <2>3, <3>1, <3>2 DEF Base, Chain, list
    <2>5. \A u \in Threads : pc'[u] \in PutPCs =>
             pc[u] \in PutPCs /\ element'[u] = element[u]
      BY <2>3 DEF Base, TypeOK
    <2>6. Ownership'
      BY <2>3, <2>5 DEF Base, Ownership, list
    <2>. QED BY <1>1, <1>2, <2>4, <2>6 DEF Base
  <1>. QED BY <1>3, <1>4

\* One turn of the loop of ch_clean.
LEMMA CleanStepBase ==
    ASSUME Base, Covers, NEW t \in Threads, CleanStep(t) PROVE Base'
  <1>. USE ConstantsAssumption
  <1>1. \A u \in Threads : u # t => pc[u] # "clean_loop"
    BY OneHolder DEF Base, CleanStep
  <1>2. queue \in Seq(Elements) /\ Len(queue) \in Nat
    BY DEF Base, TypeOK, Chain
  <1>3. Len(queue) > 0 /\ element[t] = queue[1] /\ tail = queue[Len(queue)]
    BY <1>2 DEF Base, Chain, CleanStep
  <1>4. queue' = Tail(queue) /\ count' \in Int /\ Free(queue[1])
    BY <1>3 DEF Base, TypeOK, CleanStep
  <1>5. /\ queue' \in Seq(Elements) /\ Len(queue') = Len(queue) - 1
        /\ heap' \subseteq Elements
        /\ prev' \in [Elements -> Elements \cup {NULL}]
        /\ block' \in [Elements -> Payloads \cup {NULL}]
        /\ \A i \in 1..Len(queue') : queue'[i] = queue[i + 1]
        /\ prev[queue[1]] = IF Len(queue') = 0 THEN NULL ELSE queue'[1]
        /\ queue[1] \in Elements /\ NULL \notin Elements
    BY <1>3, <1>4, FreeFirst
  <1>6. CASE Len(queue') # 0
    <2>1. queue'[1] \in Elements /\ queue'[Len(queue')] = queue[Len(queue)]
          /\ Len(queue') > 0
      BY <1>2, <1>3, <1>5, <1>6
    <2>2. /\ element' = [element EXCEPT ![t] = queue'[1]]
          /\ UNCHANGED <<pc, op, ch_mutex, head, tail, handle, waiting>>
      BY <1>3, <1>5, <1>6, <2>1 DEF CleanStep
    <2>3. TypeOK'
      BY <1>2, <1>4, <1>5, <2>1, <2>2 DEF Base, TypeOK, handle, waiting
    <2>4. MutualExclusion'
      BY <2>2 DEF Base, MutualExclusion
    <2>5. \A u \in Threads : pc'[u] = "clean_loop" => u = t /\ element'[u] = queue'[1]
      BY <1>1, <2>2 DEF Base, TypeOK
    <2>6. pc'[t] = "clean_loop"
      BY <2>2 DEF CleanStep
    <2>7. Chain'
      BY <1>3, <1>4, <2>1, <2>2, <2>5, <2>6, FreeFirst DEF Chain
    <2>8. \A u \in Threads : pc'[u] \in PutPCs =>
             u \in At(PutPCs) /\ element'[u] = element[u]
      BY <2>2, <2>6 DEF Base, TypeOK
    <2>9. Ownership'
      BY <2>8, <1>3, <1>4, FreeFirst DEF Base, Ownership
    <2>. QED BY <2>3, <2>4, <2>7, <2>9 DEF Base
  <1>7. CASE Len(queue') = 0
    <2>1. /\ head' = NULL /\ tail' = NULL /\ ch_mutex' = NULL
          /\ CleanReturn(t) /\ UNCHANGED <<handle, waiting>>
      BY <1>3, <1>5, <1>7 DEF CleanStep
    <2>2. /\ pc' \in [Threads -> PCs] /\ pc'[t] \in {"idle", "destroy_magic"}
          /\ \A u \in Threads : u # t => pc'[u] = pc[u] /\ element'[u] = element[u]
          /\ element' \in [Threads -> Elements \cup {NULL}]
          /\ op' \in [Threads -> EntryPoints \cup {"none"}]
      BY <2>1 DEF Base, TypeOK, CleanReturn, Goto, Leave
    <2>3. TypeOK'
      BY <1>2, <1>4, <1>5, <2>1, <2>2 DEF Base, TypeOK, handle, waiting
    <2>4. MutualExclusion'
      BY <2>1, <2>2 DEF Base, TypeOK, MutualExclusion, CleanStep
    <2>5. \A u \in Threads : pc'[u] # "clean_loop"
      BY <1>1, <2>2
    <2>6. Chain'
      BY <1>3, <1>4, <1>7, <2>1, <2>5, FreeFirst DEF Chain
    <2>7. \A u \in Threads : pc'[u] \in PutPCs =>
             u \in At(PutPCs) /\ element'[u] = element[u]
      BY <2>2
    <2>8. Ownership'
      BY <2>7, <1>3, <1>4, FreeFirst DEF Base, Ownership
    <2>. QED BY <2>3, <2>4, <2>6, <2>8 DEF Base
  <1>. QED BY <1>5, <1>6, <1>7

\* Every step of every thread keeps the chain, whatever ch_peek did to count.
LEMMA NextBase ==
    ASSUME Base, Covers, [Next]_vars
    PROVE  Base'
  <1>1. CASE UNCHANGED vars
    BY <1>1 DEF vars, Base, TypeOK, MutualExclusion, Chain, Ownership
  <1>2. ASSUME NEW t \in Threads, Start(t) PROVE Base'
    <2>1. CASE StartPut(t)
      BY <2>1, PutCallBase, PutNoMemoryBase DEF StartPut
    <2>2. CASE Peek(t)
      BY <2>2, PeekBase
    <2>. QED BY <1>2, <2>1, <2>2, QuietActions DEF Start
  <1>3. ASSUME NEW t \in Threads, Step(t) PROVE Base'
    <2>1. CASE PutSteps(t)
      BY <2>1, PutFullBase, PutLinkBase, QuietActions DEF PutSteps
    <2>2. CASE GetSteps(t)
      BY <2>2, GetTakeBase, QuietActions DEF GetSteps
    <2>3. CASE CleanSteps(t)
      BY <2>3, CleanLockBase, CleanStepBase DEF CleanSteps
    <2>4. CASE DestroySteps(t)
      BY <2>4, QuietActions DEF DestroySteps
    <2>. QED BY <1>3, <2>1, <2>2, <2>3, <2>4 DEF Step
  <1>4. ASSUME NEW t \in Threads, SpuriousWakeup(t) PROVE Base'
    BY <1>4, QuietActions
  <1>. QED BY <1>1, <1>2, <1>3, <1>4 DEF Next

\* How a step changes count and the length of the list.
LEMMA CountStep ==
    ASSUME Base, Covers, Next
    PROVE  \/ UNCHANGED <<count, queue>>
           \/ count = 0 /\ count' = 1 /\ Len(queue') = 1
           \/ count # 0 /\ count' = count + 1 /\ Len(queue') = Len(queue) + 1
           \/ count # 0 /\ count' = count - 1 /\ Len(queue') = Len(queue) - 1
           \/ Cleaning /\ count' = count - 1 /\ Len(queue') = Len(queue) - 1
           \/ \E t \in Threads : Peek(t) /\ count # 0 /\ count' = count - 1 /\ queue' = queue
  <1>1. PICK t \in Threads : Start(t) \/ Step(t) \/ SpuriousWakeup(t)
    BY DEF Next
  <1>2. CASE Start(t) /\ ~Peek(t)
    BY <1>2 DEF Start, WrongAttr, Refused, StartPut, PutCall, PutNoMemory, GetCall, SetAttr,
       GetAttr, CleanCall, DestroyCall, list
  <1>3. CASE Peek(t)
    BY <1>3 DEF Peek
  <1>4. CASE PutLink(t)
    <2>1. queue \in Seq(Elements) /\ element[t] \in Elements /\ count' = count + 1
      BY <1>4 DEF Base, TypeOK, Ownership, PutLink
    <2>2. count = 0 => Len(queue') = 1
      BY <1>4, <2>1, OneFacts DEF PutLink, LinkLast, LinkFirst
    <2>3. count # 0 => Len(queue') = Len(queue) + 1
      BY <1>4, <2>1, AppendFacts, PrependFacts DEF PutLink, LinkLast, LinkFirst
    <2>. QED BY <2>1, <2>2, <2>3
  <1>5. CASE GetTake(t)
    <2>1. queue \in Seq(Elements) /\ Len(queue) > 0 /\ queue' = Tail(queue)
          /\ count # 0 /\ count' = count - 1
      BY <1>5 DEF Base, TypeOK, Covers, GetTake
    <2>. QED BY <2>1, TailFacts
  <1>6. CASE CleanStep(t)
    <2>1. queue \in Seq(Elements) /\ Len(queue) > 0 /\ queue' = Tail(queue)
          /\ Cleaning /\ count' = count - 1
      BY <1>6 DEF Base, TypeOK, Chain, CleanStep
    <2>. QED BY <2>1, TailFacts
  <1>7. CASE \/ SpuriousWakeup(t)
             \/ Step(t) /\ ~PutLink(t) /\ ~GetTake(t) /\ ~CleanStep(t)
    BY <1>7 DEF SpuriousWakeup, Step, PutSteps, GetSteps, CleanSteps, DestroySteps, PutLock,
       PutFull, PutWait, PutRoom, PutReacquire, GetLock, GetWait, GetReacquire, CleanLock,
       DestroyMagic, DestroySpin, DestroyEnd, list
  <1>. QED BY <1>1, <1>2, <1>3, <1>4, <1>5, <1>6, <1>7

\* Without EOT in the channel ch_peek leaves count alone.
LEMMA PeekKeepsCount ==
    ASSUME NoPeekAtEOT, Base, Covers, NEW t \in Threads, Peek(t)
    PROVE  count' = count
  <1>. USE ConstantsAssumption
  <1>1. count # 0 => block[head] \in Payloads
    <2>1. \A u \in Threads : pc[u] # "clean_loop"
      BY DEF Peek, Base, MutualExclusion, TypeOK
    <2>2. queue \in Seq(Elements) /\ Len(queue) \in Nat
      BY DEF Base, TypeOK
    <2>3. count # 0 => head = queue[1] /\ 1 \in 1..Len(queue)
      BY <2>1, <2>2 DEF Base, Covers, Chain
    <2>. QED BY <2>2, <2>3 DEF Base, TypeOK, Ownership
  <1>. QED BY <1>1 DEF Peek, NoPeekAtEOT, MayCall

\* Inv says of the list what the chain and an exact count do.
LEMMA InvIsBase == Inv <=> Base /\ count = Len(queue)
  BY DEF Inv, Base, ListShape, Chain

\* An exact count covers the list.
LEMMA InvCovers == Inv => Base /\ Covers
  BY InvIsBase DEF Base, TypeOK, Covers

\* ch_create establishes the invariant.
LEMMA InitInv == Init => Inv
  BY InitBase, InvIsBase DEF Init

\* Every step of every thread preserves the invariant.
LEMMA NextInv ==
    ASSUME NoPeekAtEOT, Inv, [Next]_vars
    PROVE  Inv'
  <1>1. Base /\ Covers /\ count = Len(queue) /\ Len(queue) \in Nat
    BY InvCovers, InvIsBase DEF Base, TypeOK
  <1>2. Base'
    BY <1>1, NextBase
  <1>3. count' = Len(queue')
    <2>1. CASE UNCHANGED vars
      BY <1>1, <2>1 DEF vars
    <2>2. CASE Next
      <3>1. \/ count' = count /\ Len(queue') = Len(queue)
            \/ count = 0 /\ count' = 1 /\ Len(queue') = 1
            \/ count' = count + 1 /\ Len(queue') = Len(queue) + 1
            \/ count' = count - 1 /\ Len(queue') = Len(queue) - 1
        BY <1>1, <2>2, CountStep, PeekKeepsCount
      <3>2. count = Len(queue) /\ Len(queue) \in Nat
        BY <1>1
      <3>3. CASE count' = count /\ Len(queue') = Len(queue)
        BY <3>2, <3>3
      <3>4. CASE count' = 1 /\ Len(queue') = 1
        BY <3>4
      <3>5. CASE count' = count + 1 /\ Len(queue') = Len(queue) + 1
        BY <3>2, <3>5
      <3>6. CASE count' = count - 1 /\ Len(queue') = Len(queue) - 1
        BY <3>2, <3>6
      <3>. QED BY <3>1, <3>3, <3>4, <3>5, <3>6
    <2>. QED BY <2>1, <2>2
  <1>4. Inv' <=> (Base /\ count = Len(queue))'
    BY InvIsBase, PTL
  <1>. QED BY <1>2, <1>3, <1>4

\* The invariant holds in every state of every behaviour.
THEOREM Invariance == ASSUME NoPeekAtEOT PROVE Spec => []Inv
  <1>1. Init => Inv
    BY InitInv
  <1>2. Inv /\ [Next]_vars => Inv'
    BY NextInv
  <1>. QED BY <1>1, <1>2, PTL DEF Spec

\* The variables keep their types: in particular no step reads a field of NULL.
THEOREM TypeCorrect == ASSUME NoPeekAtEOT PROVE Spec => []TypeOK
  <1>1. Inv => TypeOK
    BY DEF Inv
  <1>. QED BY <1>1, Invariance, PTL

\* head, tail, prev and count always describe one list.
THEOREM ListIntegrity == ASSUME NoPeekAtEOT PROVE Spec => []ListShape
  <1>1. Inv => ListShape
    BY DEF Inv
  <1>. QED BY <1>1, Invariance, PTL

\* Every element of the list or of a putter is allocated and has one owner.
THEOREM SoleOwner == ASSUME NoPeekAtEOT PROVE Spec => []Ownership
  <1>1. Inv => Ownership
    BY DEF Inv
  <1>. QED BY <1>1, Invariance, PTL

-----------------------------------------------------------------------------
(***************************************************************************)
(* Memory: an element leaves the list or its putter only to be freed.      *)
(***************************************************************************)
Owned(e) == \/ \E i \in 1..Len(queue) : queue[i] = e
            \/ \E t \in Threads : pc[t] \in PutPCs /\ element[t] = e

\* NoLeak element by element.
LEMMA LeakFree == NoLeak <=> \A e \in heap : Owned(e)
  BY DEF NoLeak, Owned

\* A step that allocates nothing, leaves the list alone and takes no thread
\* out of _ch_put forgets nothing.
LEMMA NothingDropped ==
    ASSUME NoLeak, heap' \subseteq heap, queue' = queue,
           \A u \in Threads : pc[u] \in PutPCs =>
              \/ pc'[u] \in PutPCs /\ element'[u] = element[u]
              \/ element[u] \notin heap'
    PROVE  NoLeak'
  <1>1. \A e \in heap' : Owned(e)
    BY LeakFree
  <1>2. \A e \in heap' : Owned(e)'
    BY <1>1 DEF Owned
  <1>3. NoLeak' <=> (\A e \in heap : Owned(e))'
    BY LeakFree, PTL
  <1>. QED BY <1>2, <1>3

\* The actions of QuietActions and the allocation that fails.
LEMMA QuietLeakFree ==
    ASSUME Inv, NoLeak, ~CopyBlocks, NEW t \in Threads,
           \/ WrongAttr(t) \/ Refused(t) \/ SpuriousWakeup(t) \/ PutLock(t)
           \/ PutWait(t) \/ PutRoom(t) \/ PutReacquire(t) \/ GetCall(t)
           \/ GetLock(t) \/ GetWait(t) \/ GetReacquire(t) \/ SetAttr(t)
           \/ GetAttr(t) \/ CleanCall(t) \/ DestroyCall(t) \/ DestroyMagic(t)
           \/ DestroySpin(t) \/ DestroyEnd(t) \/ Peek(t) \/ CleanLock(t)
           \/ \E call \in {"put", "put_head"}, b \in Payloads : PutNoMemory(t, call, b)
    PROVE  NoLeak'
  <1>. DEFINE Kept == /\ heap' \subseteq heap /\ queue' = queue
                      /\ \A u \in Threads : pc[u] \in PutPCs =>
                            pc'[u] \in PutPCs /\ element'[u] = element[u]
  <1>0. Kept => NoLeak'
    BY NothingDropped
  <1>. USE DEF Inv, TypeOK, list
  <1>1. CASE WrongAttr(t) \/ Refused(t) \/ SetAttr(t) \/ GetAttr(t) \/ Peek(t)
    <2>1. Kept BY <1>1 DEF WrongAttr, Refused, SetAttr, GetAttr, Peek, AtOnce
    <2>. QED BY <1>0, <2>1
  <1>2. CASE SpuriousWakeup(t)
    <2>1. Kept BY <1>2 DEF SpuriousWakeup, Goto
    <2>. QED BY <1>0, <2>1
  <1>3. CASE PutLock(t) \/ PutWait(t) \/ PutRoom(t) \/ PutReacquire(t)
    <2>1. Kept BY <1>3 DEF PutLock, PutWait, PutRoom, PutReacquire, AfterPutWait, Goto
    <2>. QED BY <1>0, <2>1
  <1>4. CASE GetLock(t) \/ GetWait(t) \/ GetReacquire(t)
    <2>1. Kept BY <1>4 DEF GetLock, GetWait, GetReacquire, Goto, Leave
    <2>. QED BY <1>0, <2>1
  <1>5. CASE GetCall(t) \/ CleanCall(t) \/ DestroyCall(t)
    <2>1. Kept BY <1>5 DEF GetCall, CleanCall, DestroyCall, MayCall, Enter, AtOnce
    <2>. QED BY <1>0, <2>1
  <1>6. CASE DestroyMagic(t) \/ DestroyEnd(t)
    <2>1. Kept BY <1>6 DEF DestroyMagic, DestroyEnd, Goto, Leave
    <2>. QED BY <1>0, <2>1
  <1>7. CASE DestroySpin(t)
    <2>1. Kept BY <1>7 DEF DestroySpin, Broadcast
    <2>. QED BY <1>0, <2>1
  <1>8. CASE CleanLock(t)
    <2>1. Kept BY <1>8 DEF CleanLock, CleanReturn, Goto, Leave
    <2>. QED BY <1>0, <2>1
  <1>9. CASE \E call \in {"put", "put_head"}, b \in Payloads : PutNoMemory(t, call, b)
    <2>1. Kept BY <1>9 DEF PutNoMemory, AtOnce
    <2>. QED BY <1>0, <2>1
  <1>. QED BY <1>1, <1>2, <1>3, <1>4, <1>5, <1>6, <1>7, <1>8, <1>9

\* A list without its first element, which is freed.
LEMMA FreedFirst ==
    ASSUME NoLeak, queue \in Seq(Elements), Len(queue) > 0, queue' = Tail(queue),
           heap' = heap \ {queue[1]},
           \A u \in Threads : pc[u] \in PutPCs => pc'[u] \in PutPCs /\ element'[u] = element[u]
    PROVE  NoLeak'
  <1>1. \A e \in heap' : Owned(e) /\ e # queue[1]
    BY LeakFree
  <1>2. ASSUME NEW e \in heap' PROVE Owned(e)'
    <2>1. CASE \E u \in Threads : pc[u] \in PutPCs /\ element[u] = e
      BY <2>1 DEF Owned
    <2>2. CASE \E i \in 1..Len(queue) : queue[i] = e
      <3>1. PICK i \in 1..Len(queue) : queue[i] = e
        BY <2>2
      <3>2. Len(queue) \in Nat
        OBVIOUS
      <3>3. i - 1 \in 1..(Len(queue) - 1)
        BY <1>1, <3>1, <3>2
      <3>4. Tail(queue)[i - 1] = queue[i - 1 + 1] /\ i - 1 + 1 = i
            /\ Len(Tail(queue)) = Len(queue) - 1
        BY <3>2, <3>3, TailFacts
      <3>5. \E k \in 1..Len(queue') : queue'[k] = e
        BY <3>1, <3>3, <3>4
      <3>. QED BY <3>5 DEF Owned
    <2>. QED BY <1>1, <2>1, <2>2 DEF Owned
  <1>3. NoLeak' <=> (\A e \in heap : Owned(e))'
    BY LeakFree, PTL
  <1>. QED BY <1>2, <1>3

\* One step forgets nothing.
LEMMA LeakFreeNext ==
    ASSUME ~CopyBlocks
    PROVE  Inv /\ NoLeak /\ [Next]_vars => NoLeak'
  <1>. SUFFICES ASSUME Inv, NoLeak, [Next]_vars PROVE NoLeak'
    OBVIOUS
  <1>. USE ConstantsAssumption
  <1>0. NoLeak' <=> (\A e \in heap : Owned(e))'
    BY LeakFree, PTL
  <1>1. CASE UNCHANGED vars
    BY <1>1, NothingDropped DEF vars
  <1>2. ASSUME NEW t \in Threads, NEW call \in {"put", "put_head"}, NEW b \in Payloads,
               PutCall(t, call, b)
        PROVE  NoLeak'
    <2>1. PICK e \in Elements \ heap : heap' = heap \cup {e} /\ Enter(t, call, "put_lock", e)
      BY <1>2 DEF PutCall
    <2>2. pc[t] = "idle" /\ queue' = queue
      BY <1>2 DEF PutCall, MayCall
    <2>3. /\ pc'[t] \in PutPCs /\ element'[t] = e
          /\ \A u \in Threads : pc[u] \in PutPCs => pc'[u] \in PutPCs /\ element'[u] = element[u]
      BY <2>1, <2>2 DEF Inv, TypeOK, Enter
    <2>4. \A d \in heap : Owned(d)
      BY LeakFree
    <2>5. \A d \in heap' : Owned(d)'
      BY <2>1, <2>2, <2>3, <2>4 DEF Owned
    <2>. QED BY <1>0, <2>5
  <1>3. ASSUME NEW t \in Threads, PutFull(t) PROVE NoLeak'
    <2>1. /\ heap' = heap \ {element[t]} /\ queue' = queue
          /\ \A u \in Threads \ {t} : pc'[u] = pc[u] /\ element'[u] = element[u]
      BY <1>3 DEF PutFull, Discard, Free, Leave, Inv, TypeOK
    <2>. QED BY <2>1, NothingDropped
  <1>4. ASSUME NEW t \in Threads, PutLink(t) PROVE NoLeak'
    <2>1. PICK f \in WokenByPut : Leave(t, f, "CH_OK", count + 1)
      BY <1>4 DEF PutLink
    <2>2. \A u \in Threads : \/ f[u] = pc[u]
                             \/ pc[u] = "get_wait" /\ f[u] = "get_woken"
      BY WokenFacts, <2>1 DEF WokenByPut, Inv, TypeOK
    <2>6. f \in [Threads -> PCs]
      BY WokenFacts, <2>1 DEF WokenByPut, Inv, TypeOK
    <2>3. \A u \in Threads : u # t /\ pc[u] \in PutPCs =>
             pc'[u] \in PutPCs /\ element'[u] = element[u]
      BY <2>1, <2>2, <2>6 DEF Leave, Inv, TypeOK
    <2>4. /\ \E i \in 1..Len(queue') : queue'[i] = element[t]
          /\ \A i \in 1..Len(queue) : \E k \in 1..Len(queue') : queue'[k] = queue[i]
      <3>1. queue \in Seq(Elements) /\ element[t] \in Elements /\ Len(queue) \in Nat
        BY <1>4 DEF Inv, TypeOK, Ownership, PutLink
      <3>2. CASE count = 0
        <4>1. queue' = <<element[t]>> /\ Len(queue) = 0
          BY <1>4, <3>2 DEF PutLink, LinkLast, LinkFirst, Inv, ListShape
        <4>. QED BY <3>1, <4>1, OneFacts
      <3>3. CASE count # 0 /\ AtEnd(t)
        <4>1. queue' = Append(queue, element[t])
          BY <1>4, <3>3 DEF PutLink, LinkLast
        <4>2. /\ Len(queue') = Len(queue) + 1 /\ queue'[Len(queue) + 1] = element[t]
              /\ \A i \in 1..Len(queue) : queue'[i] = queue[i]
          BY <3>1, <4>1, AppendFacts
        <4>3. \A i \in 1..Len(queue) : i \in 1..Len(queue')
          BY <3>1, <4>2
        <4>4. Len(queue) + 1 \in 1..Len(queue')
          BY <3>1, <4>2
        <4>. QED BY <4>2, <4>3, <4>4
      <3>4. CASE count # 0 /\ ~AtEnd(t)
        <4>1. queue' = <<element[t]>> \o queue
          BY <1>4, <3>4 DEF PutLink, LinkFirst
        <4>2. /\ Len(queue') = Len(queue) + 1 /\ queue'[1] = element[t]
              /\ \A i \in 1..Len(queue) : queue'[i + 1] = queue[i]
          BY <3>1, <4>1, PrependFacts
        <4>3. \A i \in 1..Len(queue) : i + 1 \in 1..Len(queue')
          BY <3>1, <4>2
        <4>4. 1 \in 1..Len(queue')
          BY <3>1, <4>2
        <4>. QED BY <4>2, <4>3, <4>4
      <3>. QED BY <3>2, <3>3, <3>4
    <2>5. \A e \in heap' : Owned(e)
      BY <1>4, LeakFree DEF PutLink
    <2>7. \A e \in heap' : Owned(e)'
      BY <2>3, <2>4, <2>5 DEF Owned
    <2>. QED BY <1>0, <2>7
  <1>5. ASSUME NEW t \in Threads, GetTake(t) PROVE NoLeak'
    <2>1. \A u \in Threads : pc[u] # "clean_loop"
      BY <1>5, OneHolder DEF Inv, GetTake
    <2>2. queue \in Seq(Elements) /\ Len(queue) > 0 /\ head = queue[1]
      BY <1>5, <2>1 DEF Inv, TypeOK, ListShape, GetTake
    <2>3. queue' = Tail(queue) /\ heap' = heap \ {queue[1]}
      BY <1>5, <2>2 DEF GetTake, Taken, Free
    <2>4. PICK f \in WokenByGet : Delivered(t, f, block[head])
      BY <1>5 DEF GetTake
    <2>5. /\ f \in [Threads -> PCs]
          /\ \A u \in Threads : \/ f[u] = pc[u]
                                \/ pc[u] = "put_wait" /\ f[u] = "put_woken"
      BY WokenFacts, <2>4 DEF WokenByGet, Inv, TypeOK
    <2>6. \A u \in Threads : pc[u] \in PutPCs => pc'[u] \in PutPCs /\ element'[u] = element[u]
      BY <1>5, <2>4, <2>5 DEF GetTake, Delivered, Leave, Inv, TypeOK
    <2>. QED BY <2>2, <2>3, <2>6, FreedFirst
  <1>6. ASSUME NEW t \in Threads, CleanStep(t) PROVE NoLeak'
    <2>1. queue \in Seq(Elements) /\ Len(queue) > 0 /\ element[t] = queue[1]
      BY <1>6 DEF Inv, TypeOK, ListShape, CleanStep
    <2>2. queue' = Tail(queue) /\ heap' = heap \ {queue[1]}
      BY <1>6, <2>1 DEF CleanStep, Free
    <2>3. \A u \in Threads : pc[u] \in PutPCs => pc'[u] \in PutPCs /\ element'[u] = element[u]
      BY <1>6 DEF CleanStep, CleanReturn, Goto, Leave, Inv, TypeOK
    <2>. QED BY <2>1, <2>2, <2>3, FreedFirst
  <1>7. CASE Next
    <2>1. PICK t \in Threads : Start(t) \/ Step(t) \/ SpuriousWakeup(t)
      BY <1>7 DEF Next
    <2>2. CASE Start(t)
      BY <2>2, <1>2, QuietLeakFree DEF Start, StartPut
    <2>3. CASE Step(t)
      BY <2>3, <1>3, <1>4, <1>5, <1>6, QuietLeakFree
         DEF Step, PutSteps, GetSteps, CleanSteps, DestroySteps
    <2>. QED BY <2>1, <2>2, <2>3, QuietLeakFree
  <1>. QED BY <1>1, <1>7

\* No path through _ch_put, ch_get, ch_clean or ch_destroy forgets an element,
\* for any number of threads: what is allocated is in the list or is the
\* element of a putter.  It needs a channel of pointers: a copy that cannot be
\* allocated loses the element.
THEOREM NothingLeaks ==
    ASSUME NoPeekAtEOT, ~CopyBlocks
    PROVE  Spec => []NoLeak
  <1>1. Init => NoLeak
    BY DEF Init, NoLeak
  <1>. QED BY <1>1, Invariance, LeakFreeNext, PTL DEF Spec
=============================================================================
