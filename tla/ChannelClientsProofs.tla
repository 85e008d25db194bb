------------------------ MODULE ChannelClientsProofs ------------------------
(***************************************************************************)
(* The writers and readers of ChannelClients: every message is delivered   *)
(* to one reader, for any number of writers, readers and messages.         *)
(***************************************************************************)
EXTENDS ChannelClients, ChannelProofs, SequenceTheorems, FiniteSetTheorems

Sent(m) == m[2] <= sent[m[1]]
Held(m) == \E e \in heap : block[e] = m
Got(m) == \E r \in Readers : received[r][m] # 0
EOTs == {e \in heap : block[e] = EOT}

(***************************************************************************)
(* The inductive invariant, on top of Inv and NoLeak of the channel.       *)
(***************************************************************************)
\* Writers put and readers get, in blocking mode.
Roles ==
    /\ sent \in [Writers -> 0..Messages] /\ eots \in 0..Cardinality(Readers)
    /\ received \in [Readers -> [Blocks -> Nat]] /\ stopped \subseteq Readers
    /\ attr = BLOCKING
    /\ \A w \in Writers : pc[w] \in {"idle"} \cup PutPCs
    /\ \A r \in Readers : pc[r] \in {"idle"} \cup GetPCs
    /\ \A r \in stopped : pc[r] = "idle"
    /\ \A t \in Threads : pc[t] # "idle" => op[t] \in {"put", "get"} /\ (pc[t] \in PutPCs => op[t] = "put")

\* A message that was sent is in one element of the heap, or was delivered to
\* one reader.
Delivery ==
    /\ \A m \in Blocks : Sent(m) <=> Held(m) \/ Got(m)
    /\ \A m \in Blocks : ~(Held(m) /\ Got(m))
    /\ \A e, f \in heap : block[e] = block[f] /\ block[e] # EOT => e = f
    /\ \A r, q \in Readers, m \in Blocks :
          received[r][m] # 0 /\ received[q][m] # 0 => r = q /\ received[r][m] = 1

\* The ends of transmission come last, and each reader takes one.
Endings ==
    /\ eots > 0 => /\ \A w \in Writers : sent[w] = Messages
                   /\ \A t \in Threads : pc[t] \in PutPCs => block[element[t]] = EOT
    /\ Cardinality(EOTs) + Cardinality(stopped) = eots
    /\ \A i, j \in 1..Len(queue) : i < j /\ block[queue[i]] = EOT => block[queue[j]] = EOT
    /\ stopped # {} => \A e \in heap : block[e] = EOT

ClientInv == Roles /\ Delivery /\ Endings

USE DEF PutPCs, GetPCs, WipePCs, PCs, BLOCKING

-----------------------------------------------------------------------------
(***************************************************************************)
(* The steps, as far as messages are concerned                             *)
(***************************************************************************)
\* No thread enters _ch_put, and none in it changes its element.
NoNewPut == \A u \in Threads : pc'[u] \in PutPCs => pc[u] \in PutPCs /\ element'[u] = element[u]

Idles == NoNewPut /\ UNCHANGED <<heap, block, queue, sent, eots, received, stopped>>

Links(t) ==
    /\ pc[t] \in PutPCs /\ queue' = Append(queue, element[t]) /\ NoNewPut
    /\ UNCHANGED <<heap, block, sent, eots, received, stopped>>

Puts(t, b) ==
    /\ pc[t] = "idle" /\ UNCHANGED <<queue, received, stopped>>
    /\ \E e \in Elements \ heap :
          /\ heap' = heap \cup {e} /\ block' = [block EXCEPT ![e] = b]
          /\ \A u \in Threads : pc'[u] \in PutPCs =>
                (u = t /\ element'[u] = e) \/ (pc[u] \in PutPCs /\ element'[u] = element[u])

Takes(t) ==
    /\ Len(queue) > 0 /\ t \in Readers \ stopped /\ NoNewPut
    /\ queue' = Tail(queue) /\ heap' = heap \ {queue[1]}
    /\ block' = [block EXCEPT ![queue[1]] = NULL]
    /\ UNCHANGED <<sent, eots>>
    /\ \/ /\ block[queue[1]] = EOT /\ stopped' = stopped \cup {t} /\ UNCHANGED received
       \/ /\ block[queue[1]] # EOT /\ UNCHANGED stopped
          /\ received' = [received EXCEPT ![t][block[queue[1]]] = @ + 1]

\* The steps that lock, wait, wake up or find room touch no message.
LEMMA QuietSteps ==
  ASSUME Inv, Roles, NEW t \in Threads, LibraryStep(t),
         PutLock(t) \/ PutWait(t) \/ PutRoom(t) \/ PutReacquire(t) \/ GetLock(t) \/ GetWait(t) \/ GetReacquire(t)
  PROVE  Idles /\ attr' = attr
  <1>1. TypeOK /\ attr = BLOCKING
    BY DEF Inv, Roles
  <1>2. UNCHANGED <<heap, block, queue, element, attr>> /\ ret' = NoReturn
    BY <1>1 DEF PutLock, PutWait, PutRoom, PutReacquire, GetLock, GetWait, GetReacquire, Goto, list, handle,
                NON_BLOCKING
  <1>3. \A u \in Threads : pc'[u] \in PutPCs => pc[u] \in PutPCs
    BY <1>1 DEF PutLock, PutWait, AtPutLoop, PutRoom, PutReacquire, AfterPutWait, GetLock, GetWait, GetReacquire,
                Goto, TypeOK, NON_BLOCKING
  <1>4. ret'.thread \notin Readers
    BY <1>2, ConstantsAssumption, ClientsAssumption DEF NoReturn
  <1> QED
    BY <1>1, <1>2, <1>3, <1>4 DEF Idles, NoNewPut, LibraryStep, Returns

\* The step of _ch_put that links its element.
LEMMA LinkSteps ==
  ASSUME Inv, Roles, NEW t \in Threads, LibraryStep(t), PutLink(t)
  PROVE  Links(t) /\ attr' = attr
  <1>1. TypeOK /\ pc[t] = "put_link" /\ op[t] = "put" /\ t \in Writers
    BY ClientsAssumption DEF Inv, Roles, PutLink
  <1>2. /\ queue \in Seq(Elements) /\ element[t] \in Elements /\ count = Len(queue)
        /\ UNCHANGED <<heap, block, attr>>
    BY <1>1 DEF Inv, Ownership, ListShape, PutLink, handle, TypeOK, At
  <1>3. queue' = Append(queue, element[t])
    <2>1. CASE count = 0
      <3>1. queue = <<>>
        BY <1>2, <2>1, EmptySeq
      <3>2. queue' = <<element[t]>>
        BY <1>1, <2>1 DEF PutLink, AtEnd, LinkLast
      <3>3. Append(<<>>, element[t]) = <<element[t]>>
        OBVIOUS
      <3> QED
        BY <3>1, <3>2, <3>3
    <2>2. CASE count # 0
      BY <1>1, <2>2 DEF PutLink, AtEnd, LinkLast
    <2> QED
      BY <2>1, <2>2
  <1>4. PICK f \in WokenByPut : Leave(t, f, "CH_OK", count + 1)
    BY DEF PutLink
  <1>5. f \in [Threads -> PCs] /\ \A u \in Threads : f[u] = pc[u] \/ f[u] = "get_woken"
    BY <1>1, <1>4, WokenFacts DEF WokenByPut, TypeOK
  <1>6. NoNewPut
    BY <1>1, <1>4, <1>5 DEF Leave, NoNewPut, TypeOK
  <1>7. t \notin Readers
    BY <1>1, ClientsAssumption
  <1> QED
    BY <1>1, <1>2, <1>3, <1>6, <1>7 DEF Links, LibraryStep, Returns

\* The step of ch_get that takes the first element, and what its reader then does.
LEMMA TakeSteps ==
  ASSUME Inv, Roles, NEW t \in Threads, LibraryStep(t), GetTake(t)
  PROVE  Takes(t) /\ attr' = attr
  <1>1. TypeOK /\ pc[t] = "get_loop" /\ count # 0 /\ t \in Readers \ stopped
    BY ClientsAssumption DEF Inv, Roles, GetTake
  <1>2. ~Cleaning
    BY <1>1, OneHolder DEF Inv, Cleaning, At, HoldsMutex
  <1>3. Len(queue) > 0 /\ head = queue[1] /\ queue \in Seq(Elements)
    BY <1>1, <1>2 DEF Inv, ListShape, TypeOK
  <1>4. /\ queue' = Tail(queue) /\ heap' = heap \ {queue[1]}
        /\ block' = [block EXCEPT ![queue[1]] = NULL] /\ UNCHANGED attr
    BY <1>3 DEF GetTake, Free, Taken, handle
  <1>5. PICK f \in WokenByGet : Delivered(t, f, block[queue[1]])
    BY <1>3 DEF GetTake
  <1>6. f \in [Threads -> PCs] /\ \A u \in Threads : f[u] = pc[u] \/ (f[u] = "put_woken" /\ pc[u] = "put_wait")
    BY <1>1, <1>5, WokenFacts DEF WokenByGet, TypeOK
  <1>7. pc' = [f EXCEPT ![t] = "idle"] /\ element' = [element EXCEPT ![t] = NULL]
    BY <1>5 DEF Delivered, Leave
  <1>8. NoNewPut
    BY <1>1, <1>6, <1>7 DEF NoNewPut, TypeOK
  <1>9. \/ block[queue[1]] = EOT /\ Return(t, op[t], "CH_GET_ENDOFTRANSMISSION", NULL)
        \/ block[queue[1]] # EOT /\ Return(t, op[t], "CH_OK", block[queue[1]])
    BY <1>5 DEF Delivered, Leave
  <1>10. \/ /\ block[queue[1]] = EOT /\ stopped' = stopped \cup {t} /\ UNCHANGED received
         \/ /\ block[queue[1]] # EOT /\ UNCHANGED stopped
            /\ received' = [received EXCEPT ![t][block[queue[1]]] = @ + 1]
    <2>1. CASE block[queue[1]] = EOT
      <3>1. ret'.thread = t /\ ret'.code = "CH_GET_ENDOFTRANSMISSION"
        BY <1>9, <2>1 DEF Return
      <3>2. Returns(t, "CH_GET_ENDOFTRANSMISSION") /\ ~Returns(t, "CH_OK")
        BY <1>1, <3>1 DEF Returns
      <3> QED
        BY <2>1, <3>2 DEF LibraryStep
    <2>2. CASE block[queue[1]] # EOT
      <3>1. ret'.thread = t /\ ret'.code = "CH_OK" /\ ret'.val = block[queue[1]]
        BY <1>9, <2>2 DEF Return
      <3>2. ~Returns(t, "CH_GET_ENDOFTRANSMISSION") /\ Returns(t, "CH_OK")
        BY <1>1, <3>1 DEF Returns
      <3> QED
        BY <2>2, <3>1, <3>2 DEF LibraryStep
    <2> QED
      BY <2>1, <2>2
  <1> QED
    BY <1>1, <1>3, <1>4, <1>8, <1>10 DEF Takes, LibraryStep

\* The call of ch_put allocates an element for its block.
LEMMA CallSteps ==
  ASSUME Inv, NEW t \in Threads, NEW b, PutCall(t, "put", b), UNCHANGED <<received, stopped>>
  PROVE  Puts(t, b) /\ attr' = attr
  <1>1. PICK e \in Elements \ heap :
           /\ heap' = heap \cup {e} /\ block' = [block EXCEPT ![e] = b]
           /\ Enter(t, "put", "put_lock", e)
    BY DEF PutCall
  <1>2. \A u \in Threads : pc'[u] \in PutPCs =>
           (u = t /\ element'[u] = e) \/ (pc[u] \in PutPCs /\ element'[u] = element[u])
    BY <1>1 DEF Enter, Inv, TypeOK
  <1> QED
    BY <1>1, <1>2 DEF Puts, PutCall, MayCall, handle

\* A writer puts its next message.
Sends(w) ==
    /\ Puts(w, <<w, sent[w] + 1>>)
    /\ sent[w] < Messages /\ sent' = [sent EXCEPT ![w] = @ + 1] /\ UNCHANGED eots

\* Writer 0 puts an EOT.
Ends ==
    /\ Puts(Writer0, EOT)
    /\ \A w \in Writers : sent[w] = Messages /\ pc[w] = "idle"
    /\ eots < Cardinality(Readers) /\ eots' = eots + 1 /\ UNCHANGED sent

\* Writer 0 is one of the writers.
LEMMA Writer0IsWriter == Writer0 \in Writers
  BY ClientsAssumption DEF Writer0

\* The threads of this program are in _ch_put or in ch_get.
LEMMA InPutOrGet ==
  ASSUME Roles, NEW t \in Threads, Step(t)
  PROVE  \/ PutLock(t) \/ PutWait(t) \/ PutRoom(t) \/ PutReacquire(t) \/ GetLock(t) \/ GetWait(t) \/ GetReacquire(t)
         \/ PutLink(t) \/ GetTake(t)
  <1>1. pc[t] \in {"idle"} \cup PutPCs \cup GetPCs /\ attr = BLOCKING
    BY ClientsAssumption DEF Roles
  <1>2. ~CleanSteps(t) /\ ~DestroySteps(t)
    BY <1>1 DEF CleanSteps, CleanLock, CleanStep, DestroySteps, DestroyMagic, DestroySpin, DestroyEnd
  <1>3. ~PutFull(t)
    BY <1>1 DEF PutFull, NON_BLOCKING
  <1> QED
    BY <1>2, <1>3 DEF Step, PutSteps, GetSteps

\* Every step of the program is one of these.
LEMMA Kinds ==
  ASSUME Inv, Roles, [CNext]_cvars
  PROVE  /\ attr' = attr
         /\ Idles \/ Ends \/ (\E t \in Threads : Links(t) \/ Takes(t)) \/ \E w \in Writers : Sends(w)
  <1>1. CASE UNCHANGED cvars
    <2>1. UNCHANGED <<pc, element, heap, block, queue, sent, eots, received, stopped, attr>>
      BY <1>1 DEF cvars, vars
    <2> QED
      BY <2>1 DEF Idles, NoNewPut
  <1>2. CASE Spurious
    <2>1. PICK t \in Threads : SpuriousWakeup(t)
      BY <1>2 DEF Spurious
    <2>2. NoNewPut /\ UNCHANGED <<heap, block, queue, attr>>
      BY <2>1 DEF SpuriousWakeup, NoNewPut, Goto, handle, list, Inv, TypeOK
    <2> QED
      BY <1>2, <2>2 DEF Idles, Spurious
  <1>3. CASE \E t \in Threads : ThreadStep(t)
    <2>1. PICK t \in Threads : ThreadStep(t)
      BY <1>3
    <2>2. CASE t \in Writers /\ WriterPut(t)
      BY <2>2, CallSteps DEF WriterPut, Sends
    <2>3. CASE t = Writer0 /\ WriterEOT
      BY <2>3, CallSteps DEF WriterEOT, Ends
    <2>4. CASE t \in Readers /\ ReaderGet(t)
      <3>1. NoNewPut /\ UNCHANGED <<heap, block, queue, attr>>
        BY <2>4 DEF ReaderGet, GetCall, Enter, NoNewPut, handle, list, Inv, TypeOK
      <3> QED
        BY <2>4, <3>1 DEF Idles, ReaderGet
    <2>5. CASE LibraryStep(t)
      <3>1. Step(t)
        BY <2>5 DEF LibraryStep
      <3> QED
        BY <2>5, <3>1, InPutOrGet, QuietSteps, LinkSteps, TakeSteps
    <2> QED
      BY <2>1, <2>2, <2>3, <2>4, <2>5 DEF ThreadStep
  <1> QED
    BY <1>1, <1>2, <1>3 DEF CNext, Joined

\* The program uses the channel as Channel lets any client use it.
LEMMA ClientSteps ==
  ASSUME Roles, [CNext]_cvars
  PROVE  [Next]_vars
  <1>1. CASE UNCHANGED cvars
    BY <1>1 DEF cvars
  <1>2. CASE Spurious
    BY <1>2 DEF Spurious, Next
  <1>3. CASE \E t \in Threads : ThreadStep(t)
    <2>1. PICK t \in Threads : ThreadStep(t)
      BY <1>3
    <2>2. CASE t \in Writers /\ WriterPut(t)
      <3>1. sent[t] + 1 \in 1..Messages
        BY <2>2, ClientsAssumption DEF WriterPut, Roles
      <3>2. <<t, sent[t] + 1>> \in Payloads
        BY <2>2, <3>1, ClientsAssumption
      <3>3. StartPut(t)
        BY <2>2, <3>2 DEF WriterPut, StartPut
      <3> QED
        BY <3>3 DEF Start, Next
    <2>3. CASE t = Writer0 /\ WriterEOT
      <3>1. StartPut(t)
        BY <2>3, ClientsAssumption DEF WriterEOT, StartPut
      <3> QED
        BY <3>1 DEF Start, Next
    <2>4. CASE t \in Readers /\ ReaderGet(t)
      BY <2>4 DEF ReaderGet, Start, Next
    <2>5. CASE LibraryStep(t)
      BY <2>5 DEF LibraryStep, Next
    <2> QED
      BY <2>1, <2>2, <2>3, <2>4, <2>5 DEF ThreadStep
  <1> QED
    BY <1>1, <1>2, <1>3 DEF CNext, Joined

-----------------------------------------------------------------------------
(***************************************************************************)
(* Roles                                                                   *)
(***************************************************************************)
\* The others at most wake up.
Moves(t) ==
    \A u \in Threads : u # t =>
       /\ op'[u] = op[u]
       /\ \/ pc'[u] = pc[u]
          \/ pc[u] = "get_wait" /\ pc'[u] = "get_woken"
          \/ pc[u] = "put_wait" /\ pc'[u] = "put_woken"

Continues(t) ==
    /\ pc[t] # "idle"
    /\ \/ pc'[t] = "idle"
       \/ /\ op'[t] = op[t]
          /\ (pc[t] \in PutPCs /\ pc'[t] \in PutPCs) \/ (pc[t] \in GetPCs /\ pc'[t] \in GetPCs)

\* A step inside the library moves its thread on, and at most wakes another.
LEMMA StepMoves ==
  ASSUME Inv, Roles, NEW t \in Threads, Step(t)
  PROVE  Moves(t) /\ Continues(t) /\ (GetTake(t) => pc'[t] = "idle")
  <1>1. TypeOK /\ attr = BLOCKING
    BY DEF Inv, Roles
  <1>2. CASE \/ PutLock(t) \/ PutWait(t) \/ PutRoom(t) \/ PutReacquire(t)
    BY <1>1, <1>2 DEF PutLock, PutWait, AtPutLoop, PutRoom, PutReacquire, AfterPutWait, Goto, Moves, Continues, TypeOK,
                      GetTake
  <1>3. CASE GetLock(t) \/ GetWait(t) \/ GetReacquire(t)
    BY <1>1, <1>3 DEF GetLock, GetWait, GetReacquire, Goto, Moves, Continues, TypeOK, GetTake, NON_BLOCKING
  <1>4. CASE PutLink(t)
    <2>1. PICK f \in WokenByPut : Leave(t, f, "CH_OK", count + 1)
      BY <1>4 DEF PutLink
    <2>2. f \in [Threads -> PCs] /\ \A u \in Threads : f[u] = pc[u] \/ (pc[u] = "get_wait" /\ f[u] = "get_woken")
      BY <1>1, <2>1, WokenFacts DEF WokenByPut, TypeOK
    <2> QED
      BY <1>1, <1>4, <2>1, <2>2 DEF Leave, Moves, Continues, PutLink, TypeOK
  <1>5. CASE GetTake(t)
    <2>1. PICK f \in WokenByGet : Delivered(t, f, block[head])
      BY <1>5 DEF GetTake
    <2>2. f \in [Threads -> PCs] /\ \A u \in Threads : f[u] = pc[u] \/ (pc[u] = "put_wait" /\ f[u] = "put_woken")
      BY <1>1, <2>1, WokenFacts DEF WokenByGet, TypeOK
    <2>3. pc' = [f EXCEPT ![t] = "idle"] /\ op' = [op EXCEPT ![t] = "none"]
      BY <2>1 DEF Delivered, Leave
    <2> QED
      BY <1>1, <1>5, <2>2, <2>3 DEF Moves, Continues, GetTake, TypeOK
  <1> QED
    BY <1>2, <1>3, <1>4, <1>5, InPutOrGet

\* What ch_get delivers is a message or EOT.
LEMMA TakenBlock ==
  ASSUME Inv, NEW t, Takes(t)
  PROVE  /\ queue[1] \in heap /\ queue[1] \in Elements
         /\ block[queue[1]] # EOT => block[queue[1]] \in Blocks
  <1>1. queue[1] \in heap /\ block[queue[1]] # NULL /\ queue[1] \in Elements
    BY DEF Inv, TypeOK, Ownership, Takes
  <1> QED
    BY <1>1, ClientsAssumption DEF Inv, TypeOK

\* Where the threads are.
Places ==
    /\ \A w \in Writers : pc[w] \in {"idle"} \cup PutPCs
    /\ \A r \in Readers : pc[r] \in {"idle"} \cup GetPCs
    /\ \A r \in stopped : pc[r] = "idle"
    /\ \A t \in Threads : pc[t] # "idle" => op[t] \in {"put", "get"} /\ (pc[t] \in PutPCs => op[t] = "put")

\* Every step keeps each thread in its role.
LEMMA PlacesNext ==
  ASSUME Inv, Roles, [CNext]_cvars
  PROVE  Places'
  <1>0. /\ TypeOK /\ Places /\ stopped \subseteq Readers
        /\ Threads = Writers \cup Readers /\ Writers \cap Readers = {}
    BY ClientsAssumption DEF Inv, Roles, Places
  <1>1. CASE UNCHANGED cvars
    BY <1>0, <1>1 DEF Places, cvars, vars
  <1>2. CASE Spurious
    <2>1. PICK t \in Threads : SpuriousWakeup(t)
      BY <1>2 DEF Spurious
    <2>2. \/ pc[t] = "get_wait" /\ pc' = [pc EXCEPT ![t] = "get_woken"]
          \/ pc[t] = "put_wait" /\ pc' = [pc EXCEPT ![t] = "put_woken"]
      BY <2>1 DEF SpuriousWakeup, Goto
    <2>3. UNCHANGED <<op, stopped>>
      BY <1>2, <2>1 DEF Spurious, SpuriousWakeup, Goto
    <2> QED
      BY <1>0, <2>2, <2>3 DEF Places, TypeOK
  <1>3. CASE \E t \in Threads : ThreadStep(t)
    <2>1. PICK t \in Threads : ThreadStep(t)
      BY <1>3
    <2>2. CASE t \in Writers /\ (WriterPut(t) \/ WriterEOT)
      <3>1. t \in Writers /\ UNCHANGED stopped
        BY <2>2 DEF WriterPut, WriterEOT
      <3>2. PICK u \in Writers : /\ pc[u] = "idle" /\ pc' = [pc EXCEPT ![u] = "put_lock"]
                                 /\ op' = [op EXCEPT ![u] = "put"]
        BY <2>2, Writer0IsWriter DEF WriterPut, WriterEOT, PutCall, MayCall, Enter
      <3> QED
        BY <1>0, <3>1, <3>2 DEF Places, TypeOK
    <2>3. CASE t \in Readers /\ ReaderGet(t)
      <3>1. /\ t \notin stopped /\ UNCHANGED stopped
            /\ pc' = [pc EXCEPT ![t] = "get_lock"] /\ op' = [op EXCEPT ![t] = "get"]
        BY <2>3 DEF ReaderGet, GetCall, MayCall, Enter
      <3> QED
        BY <1>0, <2>3, <3>1 DEF Places, TypeOK
    <2>4. CASE LibraryStep(t)
      <3>1. Step(t)
        BY <2>4 DEF LibraryStep
      <3>2. Moves(t) /\ Continues(t)
        BY <3>1, StepMoves
      <3>3. stopped' = stopped \/ (stopped' = stopped \cup {t} /\ pc'[t] = "idle")
        <4>1. CASE GetTake(t)
          BY <2>4, <3>1, <4>1, StepMoves DEF LibraryStep
        <4>2. CASE ~GetTake(t)
          BY <2>4, <3>1, <4>2, InPutOrGet, QuietSteps, LinkSteps DEF Idles, Links
        <4> QED
          BY <4>1, <4>2
      <3>4. \A r \in stopped : pc[r] = "idle" /\ r # t
        BY <1>0, <3>2 DEF Places, Continues
      <3>5. \A r \in stopped' : pc'[r] = "idle"
        BY <1>0, <3>2, <3>3, <3>4 DEF Moves
      <3>6. \A u \in Threads : pc'[u] = "idle" \/ (op'[u] = op[u] /\ pc[u] # "idle" /\
                ((pc[u] \in PutPCs /\ pc'[u] \in PutPCs) \/ (pc[u] \in GetPCs /\ pc'[u] \in GetPCs)))
        BY <1>0, <3>2 DEF Moves, Continues, Places
      <3> QED
        BY <1>0, <3>5, <3>6 DEF Places
    <2> QED
      BY <2>1, <2>2, <2>3, <2>4, Writer0IsWriter DEF ThreadStep
  <1> QED
    BY <1>1, <1>2, <1>3 DEF CNext, Joined

Tallies ==
    /\ sent \in [Writers -> 0..Messages] /\ eots \in 0..Cardinality(Readers)
    /\ received \in [Readers -> [Blocks -> Nat]] /\ stopped \subseteq Readers

\* Every step keeps Roles.
LEMMA RolesNext ==
  ASSUME Inv, Roles, [CNext]_cvars
  PROVE  Roles'
  <1>1. Places'
    BY PlacesNext
  <1>2. attr' = BLOCKING
    BY Kinds DEF Roles
  <1>3. Tallies'
    <2>0. Tallies /\ Messages \in Nat /\ Cardinality(Readers) \in Nat
      <3>1. IsFiniteSet(Readers)
        BY ConstantsAssumption, ClientsAssumption, FS_Subset
      <3> QED
        BY <3>1, ClientsAssumption, FS_CardinalityType DEF Roles, Tallies
    <2>1. CASE Idles
      BY <2>0, <2>1 DEF Idles, Tallies
    <2>2. CASE Ends
      BY <2>0, <2>2 DEF Ends, Puts, Tallies
    <2>3. ASSUME NEW t \in Threads, Links(t)
          PROVE  Tallies'
      BY <2>0, <2>3 DEF Links, Tallies
    <2>4. ASSUME NEW t \in Threads, Takes(t)
          PROVE  Tallies'
      <3>1. CASE block[queue[1]] = EOT
        BY <2>0, <2>4, <3>1 DEF Takes, Tallies
      <3>2. CASE block[queue[1]] # EOT
        <4>1. PICK b : b = block[queue[1]]
          OBVIOUS
        <4>2. b \in Blocks /\ t \in Readers /\ received' = [received EXCEPT ![t] = [received[t] EXCEPT ![b] = @ + 1]]
          BY <2>4, <3>2, <4>1, TakenBlock DEF Takes
        <4>3. received' \in [Readers -> [Blocks -> Nat]]
          BY <2>0, <4>2 DEF Tallies
        <4> QED
          BY <2>0, <2>4, <3>2, <4>3 DEF Takes, Tallies
      <3> QED
        BY <3>1, <3>2
    <2>5. ASSUME NEW w \in Writers, Sends(w)
          PROVE  Tallies'
      BY <2>0, <2>5 DEF Sends, Puts, Tallies
    <2> QED
      BY <2>1, <2>2, <2>3, <2>4, <2>5, Kinds
  <1> QED
    BY <1>1, <1>2, <1>3 DEF Roles, Places, Tallies

-----------------------------------------------------------------------------
(***************************************************************************)
(* Delivery                                                                *)
(***************************************************************************)
\* Idle steps and links touch no message.
LEMMA DeliveryKept ==
  ASSUME Delivery, UNCHANGED <<heap, block, sent, received>>
  PROVE  Delivery'
  BY DEF Delivery, Sent, Held, Got

\* A new element holds the block that is put.
LEMMA PutHeld ==
  ASSUME Inv, NEW t, NEW b, Puts(t, b)
  PROVE  \E e \in Elements \ heap :
            /\ heap' = heap \cup {e} /\ block'[e] = b
            /\ \A f \in heap : f # e /\ block'[f] = block[f]
  BY DEF Puts, Inv, TypeOK

\* A writer that sends keeps Delivery: the message is new.
LEMMA SendDelivery ==
  ASSUME Inv, Roles, Delivery, NEW w \in Writers, Sends(w)
  PROVE  Delivery'
  <1>1. PICK s \in 0..Messages : s = sent[w] /\ s < Messages
    BY DEF Roles, Sends
  <1>2. PICK b : b = <<w, s + 1>>
    OBVIOUS
  <1>3. b \in Blocks /\ b[1] = w /\ b[2] = s + 1
    BY <1>1, <1>2, ClientsAssumption
  <1>4. PICK e \in Elements \ heap : /\ heap' = heap \cup {e} /\ block'[e] = b
                                     /\ \A f \in heap : f # e /\ block'[f] = block[f]
    BY <1>1, <1>2, PutHeld DEF Sends
  <1>5. \A m \in Blocks : /\ m[1] \in Writers /\ m[2] \in 1..Messages /\ sent[m[1]] \in 0..Messages
                          /\ m = <<m[1], m[2]>>
    BY ClientsAssumption DEF Roles
  <1>6. sent' = [sent EXCEPT ![w] = s + 1] /\ UNCHANGED received
    BY <1>1 DEF Sends, Puts
  <1>7. ASSUME NEW m \in Blocks
        PROVE  Sent(m)' <=> Sent(m) \/ m = b
    <2>1. CASE m[1] # w
      BY <1>3, <1>5, <1>6, <2>1 DEF Sent, Roles
    <2>2. CASE m[1] = w
      <3>1. sent'[w] = s + 1
        BY <1>6 DEF Roles
      <3>2. m = b <=> m[2] = s + 1
        BY <1>2, <1>3, <1>5, <2>2
      <3>3. m[2] <= s + 1 <=> m[2] <= s \/ m[2] = s + 1
        BY <1>5, <1>1, ClientsAssumption
      <3> QED
        BY <1>1, <2>2, <3>1, <3>2, <3>3 DEF Sent
    <2> QED
      BY <2>1, <2>2
  <1>8. ~Sent(b)
    BY <1>1, <1>3 DEF Sent
  <1>9. ~Held(b) /\ ~Got(b)
    BY <1>3, <1>8 DEF Delivery
  <1>10. ASSUME NEW m \in Blocks
         PROVE  (Held(m)' <=> Held(m) \/ m = b) /\ (Got(m)' <=> Got(m))
    BY <1>4, <1>6 DEF Held, Got
  <1>11. \A f, g \in heap' : block'[f] = block'[g] /\ block'[f] # EOT => f = g
    <2>1. \A f \in heap : block[f] # b
      BY <1>9 DEF Held
    <2> QED
      BY <1>4, <2>1 DEF Delivery
  <1>12. \A m \in Blocks : (Sent(m)' <=> Held(m)' \/ Got(m)') /\ ~(Held(m)' /\ Got(m)')
    BY <1>7, <1>9, <1>10 DEF Delivery
  <1>13. \A r, q \in Readers, m \in Blocks :
            received'[r][m] # 0 /\ received'[q][m] # 0 => r = q /\ received'[r][m] = 1
    BY <1>6 DEF Delivery
  <1> QED
    BY <1>11, <1>12, <1>13 DEF Delivery

\* The put of an EOT keeps Delivery.
LEMMA EndDelivery ==
  ASSUME Inv, Roles, Delivery, Ends
  PROVE  Delivery'
  <1>1. PICK e \in Elements \ heap : /\ heap' = heap \cup {e} /\ block'[e] = EOT
                                     /\ \A f \in heap : f # e /\ block'[f] = block[f]
    BY PutHeld DEF Ends
  <1>2. UNCHANGED <<sent, received>>
    BY DEF Ends, Puts
  <1>3. \A m \in Blocks : m # EOT
    BY ConstantsAssumption
  <1>4. ASSUME NEW m \in Blocks
        PROVE  (Held(m)' <=> Held(m)) /\ (Got(m)' <=> Got(m)) /\ (Sent(m)' <=> Sent(m))
    BY <1>1, <1>2, <1>3 DEF Held, Got, Sent
  <1>5. \A f, g \in heap' : block'[f] = block'[g] /\ block'[f] # EOT => f = g
    BY <1>1 DEF Delivery
  <1>6. \A m \in Blocks : (Sent(m)' <=> Held(m)' \/ Got(m)') /\ ~(Held(m)' /\ Got(m)')
    BY <1>4 DEF Delivery
  <1>7. \A r, q \in Readers, m \in Blocks :
           received'[r][m] # 0 /\ received'[q][m] # 0 => r = q /\ received'[r][m] = 1
    BY <1>2 DEF Delivery
  <1> QED
    BY <1>5, <1>6, <1>7 DEF Delivery

\* An element leaves the heap with the block it holds.
LEMMA TakeHeld ==
  ASSUME Inv, NEW t, Takes(t), NEW h, h = queue[1]
  PROVE  h \in heap /\ heap' = heap \ {h} /\ \A f \in heap' : block'[f] = block[f]
  BY TakenBlock DEF Takes, Inv, TypeOK

\* The get of a message keeps Delivery: it leaves the heap as it is received.
LEMMA TakeDelivery ==
  ASSUME Inv, Roles, Delivery, NEW t \in Threads, Takes(t)
  PROVE  Delivery'
  <1>1. PICK h : h = queue[1]
    OBVIOUS
  <1>2. h \in heap /\ heap' = heap \ {h} /\ \A f \in heap' : block'[f] = block[f]
    BY <1>1, TakeHeld
  <1>3. PICK b : b = block[h]
    OBVIOUS
  <1>4. \A f, g \in heap' : block'[f] = block'[g] /\ block'[f] # EOT => f = g
    BY <1>2 DEF Delivery
  <1>5. ASSUME NEW m \in Blocks
        PROVE  (Held(m)' <=> Held(m) /\ m # b) /\ (Sent(m)' <=> Sent(m))
    <2>1. m # EOT
      BY ConstantsAssumption
    <2>2. Sent(m)' <=> Sent(m)
      BY DEF Takes, Sent
    <2>3. ASSUME Held(m)'
          PROVE  Held(m) /\ m # b
      <3>1. PICK f \in heap' : block'[f] = m
        BY <2>3 DEF Held
      <3>2. f \in heap /\ f # h /\ block[f] = m
        BY <1>2, <3>1
      <3> QED
        BY <1>2, <1>3, <2>1, <3>2 DEF Held, Delivery
    <2>4. ASSUME Held(m), m # b
          PROVE  Held(m)'
      <3>1. PICK f \in heap : block[f] = m
        BY <2>4 DEF Held
      <3>2. f \in heap' /\ block'[f] = m
        BY <1>2, <1>3, <2>4, <3>1
      <3> QED
        BY <3>2 DEF Held
    <2> QED
      BY <2>2, <2>3, <2>4
  <1>6. CASE b = EOT
    <2>1. UNCHANGED received
      BY <1>1, <1>3, <1>6 DEF Takes
    <2>2. \A m \in Blocks : (Got(m)' <=> Got(m)) /\ m # b
      BY <1>6, <2>1, ConstantsAssumption DEF Got
    <2>3. \A m \in Blocks : (Sent(m)' <=> Held(m)' \/ Got(m)') /\ ~(Held(m)' /\ Got(m)')
      BY <1>5, <2>2 DEF Delivery
    <2>4. \A r, q \in Readers, m \in Blocks :
             received'[r][m] # 0 /\ received'[q][m] # 0 => r = q /\ received'[r][m] = 1
      BY <2>1 DEF Delivery
    <2> QED
      BY <1>4, <2>3, <2>4 DEF Delivery
  <1>7. CASE b # EOT
    <2>1. b \in Blocks /\ t \in Readers /\ received \in [Readers -> [Blocks -> Nat]]
      BY <1>1, <1>3, <1>7, TakenBlock DEF Takes, Roles
    <2>2. received' = [received EXCEPT ![t] = [received[t] EXCEPT ![b] = @ + 1]]
      BY <1>1, <1>3, <1>7 DEF Takes
    <2>3. Held(b)
      BY <1>2, <1>3 DEF Held
    <2>4. \A r \in Readers : received[r][b] = 0
      BY <2>1, <2>3 DEF Delivery, Got
    <2>5. \A r \in Readers, m \in Blocks :
             received'[r][m] = IF r = t /\ m = b THEN 1 ELSE received[r][m]
      <3>1. \A r \in Readers, m \in Blocks :
               received'[r][m] = IF r = t /\ m = b THEN received[t][b] + 1 ELSE received[r][m]
        BY <2>1, <2>2
      <3>2. received[t][b] + 1 = 1
        BY <2>1, <2>4
      <3> QED
        BY <3>1, <3>2
    <2>6. ASSUME NEW m \in Blocks
          PROVE  Got(m)' <=> Got(m) \/ m = b
      BY <2>1, <2>4, <2>5 DEF Got
    <2>7. \A m \in Blocks : (Sent(m)' <=> Held(m)' \/ Got(m)') /\ ~(Held(m)' /\ Got(m)')
      BY <1>5, <2>3, <2>6 DEF Delivery
    <2>8. \A r, q \in Readers, m \in Blocks :
             received'[r][m] # 0 /\ received'[q][m] # 0 => r = q /\ received'[r][m] = 1
      BY <2>4, <2>5 DEF Delivery
    <2> QED
      BY <1>4, <2>7, <2>8 DEF Delivery
  <1> QED
    BY <1>6, <1>7

\* Every step keeps Delivery.
LEMMA DeliveryNext ==
  ASSUME Inv, Roles, Delivery, [CNext]_cvars
  PROVE  Delivery'
  <1>1. CASE Idles \/ \E t \in Threads : Links(t)
    BY <1>1, DeliveryKept DEF Idles, Links
  <1> QED
    BY <1>1, Kinds, SendDelivery, EndDelivery, TakeDelivery

-----------------------------------------------------------------------------
(***************************************************************************)
(* Endings                                                                 *)
(***************************************************************************)
LEMMA Finite ==
  ASSUME Inv, Roles
  PROVE  /\ IsFiniteSet(Readers) /\ IsFiniteSet(stopped) /\ IsFiniteSet(EOTs)
         /\ Cardinality(Readers) \in Nat /\ Cardinality(stopped) \in Nat /\ Cardinality(EOTs) \in Nat
         /\ eots \in Nat
  <1>1. Readers \subseteq Threads /\ stopped \subseteq Readers /\ EOTs \subseteq Elements
    BY ClientsAssumption DEF Roles, EOTs, Inv, TypeOK
  <1>2. IsFiniteSet(Readers) /\ IsFiniteSet(stopped) /\ IsFiniteSet(EOTs)
    BY <1>1, ConstantsAssumption, FS_Subset
  <1>3. eots \in Nat
    BY DEF Roles
  <1> QED
    BY <1>2, <1>3, FS_CardinalityType

\* An EOT in the channel, or a reader that has stopped, comes from a put.
LEMMA SomeEOT ==
  ASSUME Inv, Roles, Endings
  PROVE  /\ EOTs # {} \/ stopped # {} => eots > 0
         /\ eots = 0 => EOTs = {} /\ stopped = {}
  <1>1. Cardinality(EOTs) + Cardinality(stopped) = eots
    BY DEF Endings
  <1>2. (Cardinality(EOTs) = 0 <=> EOTs = {}) /\ (Cardinality(stopped) = 0 <=> stopped = {})
    BY Finite, FS_EmptySet
  <1> QED
    BY <1>1, <1>2, Finite

\* What the steps do to the four parts of Endings.
LastPuts ==
    eots > 0 => /\ \A w \in Writers : sent[w] = Messages
                /\ \A t \in Threads : pc[t] \in PutPCs => block[element[t]] = EOT
Tally == Cardinality(EOTs) + Cardinality(stopped) = eots
EOTsLast == \A i, j \in 1..Len(queue) : i < j /\ block[queue[i]] = EOT => block[queue[j]] = EOT
OnlyEOTs == stopped # {} => \A e \in heap : block[e] = EOT

\* A step that touches no message keeps Endings.
LEMMA IdleEndings ==
  ASSUME Endings, Idles
  PROVE  Endings'
  <1>1. UNCHANGED <<heap, block, queue, sent, eots, stopped>>
    BY DEF Idles
  <1>2. LastPuts'
    BY <1>1 DEF Idles, NoNewPut, Endings, LastPuts
  <1>3. EOTs' = EOTs
    BY <1>1 DEF EOTs
  <1>4. Tally' /\ EOTsLast' /\ OnlyEOTs'
    BY <1>1, <1>3 DEF Endings, Tally, EOTsLast, OnlyEOTs
  <1> QED
    BY <1>2, <1>4 DEF Endings, LastPuts, Tally, EOTsLast, OnlyEOTs

\* A link keeps Endings: behind an EOT only EOTs are linked.
LEMMA LinkEndings ==
  ASSUME Inv, Roles, Endings, NEW t \in Threads, Links(t)
  PROVE  Endings'
  <1>1. UNCHANGED <<heap, block, sent, eots, stopped>> /\ queue' = Append(queue, element[t])
    BY DEF Links
  <1>2. LastPuts'
    BY <1>1 DEF Links, NoNewPut, Endings, LastPuts
  <1>3. EOTs' = EOTs
    BY <1>1 DEF EOTs
  <1>4. Tally' /\ OnlyEOTs'
    BY <1>1, <1>3 DEF Endings, Tally, OnlyEOTs
  <1>5. EOTsLast'
    <2>1. queue \in Seq(Elements) /\ element[t] \in Elements
      BY DEF Inv, TypeOK, Ownership, At, Links
    <2>2. /\ Len(queue') = Len(queue) + 1 /\ queue'[Len(queue) + 1] = element[t] /\ Len(queue) \in Nat
          /\ \A i \in 1..Len(queue) : queue'[i] = queue[i]
      BY <1>1, <2>1, AppendFacts
    <2>3. ASSUME NEW i \in 1..Len(queue), block[queue[i]] = EOT
          PROVE  block[element[t]] = EOT
      <3>1. queue[i] \in EOTs
        BY <2>3 DEF EOTs, Inv, Ownership
      <3>2. eots > 0
        BY <3>1, SomeEOT
      <3> QED
        BY <3>2 DEF Endings, Links
    <2>4. ASSUME NEW i \in 1..(Len(queue) + 1), NEW j \in 1..(Len(queue) + 1), i < j, block[queue'[i]] = EOT
          PROVE  block[queue'[j]] = EOT
      <3>1. i \in 1..Len(queue) /\ queue'[i] = queue[i]
        BY <2>2, <2>4
      <3>2. CASE j = Len(queue) + 1
        BY <2>2, <2>3, <2>4, <3>1, <3>2
      <3>3. CASE j # Len(queue) + 1
        <4>1. j \in 1..Len(queue) /\ queue'[j] = queue[j]
          BY <2>2, <3>3
        <4> QED
          BY <2>4, <3>1, <4>1 DEF Endings
      <3> QED
        BY <3>2, <3>3
    <2> QED
      BY <1>1, <2>2, <2>4 DEF EOTsLast
  <1> QED
    BY <1>2, <1>4, <1>5 DEF Endings, LastPuts, Tally, EOTsLast, OnlyEOTs

\* The elements of the list are in the heap: a put does not change their blocks.
LEMMA PutQueue ==
  ASSUME Inv, NEW t, NEW b, Puts(t, b), EOTsLast
  PROVE  EOTsLast'
  <1>1. \A f \in heap : block'[f] = block[f]
    BY PutHeld
  <1>2. queue' = queue /\ \A i \in 1..Len(queue) : queue[i] \in heap
    BY DEF Puts, Inv, Ownership
  <1> QED
    BY <1>1, <1>2 DEF EOTsLast

\* A writer that sends keeps Endings: no EOT was put before.
LEMMA SendEndings ==
  ASSUME Inv, Roles, Endings, NEW w \in Writers, Sends(w)
  PROVE  Endings'
  <1>1. eots = 0 /\ eots' = 0
    BY Finite DEF Endings, Sends, Roles
  <1>2. EOTs = {} /\ stopped = {} /\ stopped' = {}
    BY <1>1, SomeEOT DEF Sends, Puts
  <1>3. PICK b : b = <<w, sent[w] + 1>>
    OBVIOUS
  <1>4. b # EOT
    <2>1. b \in Blocks
      BY <1>3, ClientsAssumption DEF Roles, Sends
    <2> QED
      BY <2>1, ConstantsAssumption
  <1>5. EOTs' = {}
    <2>1. PICK e \in Elements \ heap : /\ heap' = heap \cup {e} /\ block'[e] = b
                                       /\ \A f \in heap : f # e /\ block'[f] = block[f]
      BY <1>3, PutHeld DEF Sends
    <2> QED
      BY <1>2, <1>4, <2>1 DEF EOTs
  <1>6. LastPuts' /\ OnlyEOTs'
    BY <1>1, <1>2 DEF LastPuts, OnlyEOTs
  <1>7. Tally'
    BY <1>1, <1>2, <1>5, FS_EmptySet DEF Tally
  <1>8. EOTsLast'
    BY <1>3, PutQueue DEF Sends, Endings, EOTsLast
  <1> QED
    BY <1>6, <1>7, <1>8 DEF Endings, LastPuts, Tally, EOTsLast, OnlyEOTs

\* The put of an EOT keeps Endings: no other put is under way.
LEMMA EndEndings ==
  ASSUME Inv, Roles, Endings, Ends
  PROVE  Endings'
  <1>1. PICK e \in Elements \ heap :
           /\ heap' = heap \cup {e} /\ block' = [block EXCEPT ![e] = EOT]
           /\ \A u \in Threads : pc'[u] \in PutPCs =>
                 (u = Writer0 /\ element'[u] = e) \/ (pc[u] \in PutPCs /\ element'[u] = element[u])
    BY DEF Ends, Puts
  <1>2. block'[e] = EOT /\ \A f \in heap : f # e /\ block'[f] = block[f]
    BY <1>1 DEF Inv, TypeOK
  <1>3. UNCHANGED <<sent, stopped>> /\ eots' = eots + 1
    BY DEF Ends, Puts
  <1>4. LastPuts'
    <2>1. \A u \in Threads : pc[u] \notin PutPCs
      BY ClientsAssumption DEF Ends, Roles
    <2>2. \A u \in Threads : pc'[u] \in PutPCs => block'[element'[u]] = EOT
      BY <1>1, <1>2, <2>1
    <2> QED
      BY <1>3, <2>2 DEF LastPuts, Ends
  <1>5. Tally'
    <2>1. EOTs' = EOTs \cup {e} /\ e \notin EOTs
      BY <1>1, <1>2 DEF EOTs
    <2>2. Cardinality(EOTs') = Cardinality(EOTs) + 1
      BY <2>1, Finite, FS_AddElement
    <2> QED
      BY <1>3, <2>2, Finite DEF Tally, Endings
  <1>6. EOTsLast'
    BY PutQueue DEF Ends, Endings, EOTsLast
  <1>7. OnlyEOTs'
    BY <1>1, <1>2, <1>3 DEF OnlyEOTs, Endings
  <1> QED
    BY <1>4, <1>5, <1>6, <1>7 DEF Endings, LastPuts, Tally, EOTsLast, OnlyEOTs

\* A get keeps Endings: a reader that stops leaves only EOTs behind.
LEMMA TakeEndings ==
  ASSUME Inv, NoLeak, Roles, Endings, NEW t \in Threads, Takes(t)
  PROVE  Endings'
  <1>1. PICK h : h = queue[1]
    OBVIOUS
  <1>2. h \in heap /\ heap' = heap \ {h} /\ \A f \in heap' : block'[f] = block[f]
    BY <1>1, TakeHeld
  <1>3. /\ queue \in Seq(Elements) /\ Len(queue) > 0 /\ queue' = Tail(queue) /\ Len(queue) \in Nat
        /\ \A i \in 1..Len(queue) : queue[i] \in heap
    BY DEF Takes, Inv, TypeOK, Ownership
  <1>4. UNCHANGED <<sent, eots>> /\ t \in Readers /\ t \notin stopped
    BY DEF Takes
  <1>5. \A u \in Threads : pc[u] \in PutPCs => element[u] \in heap /\ element[u] # h
    BY <1>1, <1>3 DEF Inv, Ownership, At, Linked
  <1>6. LastPuts'
    <2>1. \A u \in Threads : pc'[u] \in PutPCs =>
             pc[u] \in PutPCs /\ element'[u] = element[u] /\ block'[element[u]] = block[element[u]]
      BY <1>2, <1>5 DEF Takes, NoNewPut
    <2> QED
      BY <1>4, <2>1 DEF Endings, LastPuts
  <1>7. EOTsLast'
    <2>1. /\ Len(queue') = Len(queue) - 1
          /\ \A i \in 1..(Len(queue) - 1) : queue'[i] = queue[i + 1]
      BY <1>3, TailFacts
    <2>2. ASSUME NEW i \in 1..(Len(queue) - 1)
          PROVE  i + 1 \in 1..Len(queue) /\ queue'[i] = queue[i + 1] /\ block'[queue'[i]] = block[queue[i + 1]]
      <3>1. i + 1 \in 1..Len(queue) /\ queue'[i] = queue[i + 1] /\ i + 1 # 1 /\ 1 \in 1..Len(queue)
        BY <1>3, <2>1
      <3>2. queue[i + 1] # h
        BY <1>1, <3>1 DEF Inv, ListShape
      <3> QED
        BY <1>2, <1>3, <3>1, <3>2
    <2>3. ASSUME NEW i \in 1..(Len(queue) - 1), NEW j \in 1..(Len(queue) - 1), i < j, block'[queue'[i]] = EOT
          PROVE  block'[queue'[j]] = EOT
      <3>1. i + 1 < j + 1 /\ i + 1 \in 1..Len(queue) /\ j + 1 \in 1..Len(queue)
        BY <2>2, <2>3
      <3>2. block[queue[i + 1]] = EOT
        BY <2>2, <2>3
      <3>3. block[queue[j + 1]] = EOT
        BY <3>1, <3>2 DEF Endings
      <3> QED
        BY <2>2, <3>3
    <2> QED
      BY <2>1, <2>3 DEF EOTsLast
  <1>8. CASE block[h] = EOT
    <2>1. stopped' = stopped \cup {t}
      BY <1>1, <1>8 DEF Takes
    <2>2. EOTs' = EOTs \ {h} /\ h \in EOTs
      BY <1>2, <1>8 DEF EOTs
    <2>3. Cardinality(EOTs') = Cardinality(EOTs) - 1 /\ Cardinality(stopped') = Cardinality(stopped) + 1
      BY <1>4, <2>1, <2>2, Finite, FS_AddElement, FS_RemoveElement
    <2>4. Tally'
      BY <1>4, <2>3, Finite DEF Tally, Endings
    <2>5. ASSUME NEW f \in heap
          PROVE  block[f] = EOT
      <3>1. CASE \E i \in 1..Len(queue) : queue[i] = f
        <4>1. PICK i \in 1..Len(queue) : queue[i] = f
          BY <3>1
        <4>2. CASE i = 1
          BY <1>1, <1>8, <4>1, <4>2
        <4>3. CASE i # 1
          <5>1. 1 \in 1..Len(queue) /\ 1 < i
            BY <1>3, <4>3
          <5> QED
            BY <1>1, <1>8, <4>1, <5>1 DEF Endings
        <4> QED
          BY <4>2, <4>3
      <3>2. CASE \E u \in Threads : pc[u] \in PutPCs /\ element[u] = f
        <4>1. eots > 0
          BY <2>2, SomeEOT
        <4> QED
          BY <3>2, <4>1 DEF Endings
      <3> QED
        BY <3>1, <3>2, LeakFree DEF Owned
    <2>6. OnlyEOTs'
      BY <1>2, <2>5 DEF OnlyEOTs
    <2> QED
      BY <1>6, <1>7, <2>4, <2>6 DEF Endings, LastPuts, Tally, EOTsLast, OnlyEOTs
  <1>9. CASE block[h] # EOT
    <2>1. stopped' = stopped
      BY <1>1, <1>9 DEF Takes
    <2>2. EOTs' = EOTs
      BY <1>2, <1>9 DEF EOTs
    <2>3. Tally' /\ OnlyEOTs'
      BY <1>2, <1>4, <2>1, <2>2 DEF Tally, OnlyEOTs, Endings
    <2> QED
      BY <1>6, <1>7, <2>3 DEF Endings, LastPuts, Tally, EOTsLast, OnlyEOTs
  <1> QED
    BY <1>8, <1>9

\* Every step keeps Endings.
LEMMA EndingsNext ==
  ASSUME Inv, NoLeak, Roles, Endings, [CNext]_cvars
  PROVE  Endings'
  BY Kinds, IdleEndings, LinkEndings, SendEndings, EndEndings, TakeEndings

-----------------------------------------------------------------------------
(***************************************************************************)
(* The theorem                                                             *)
(***************************************************************************)
LEMMA ClientsQuiet == NoPeekAtEOT /\ ~CopyBlocks
  BY ClientsAssumption DEF NoPeekAtEOT

\* The invariant holds before the first call.
LEMMA ClientInit == CInit => Inv /\ NoLeak /\ ClientInv
  <1> SUFFICES ASSUME CInit PROVE Inv /\ NoLeak /\ ClientInv
    OBVIOUS
  <1>1. Inv /\ NoLeak
    BY InitInv DEF CInit, Init, NoLeak
  <1>2. Cardinality(Readers) \in Nat
    BY ConstantsAssumption, ClientsAssumption, FS_Subset, FS_CardinalityType
  <1>3. /\ sent = [w \in Writers |-> 0] /\ eots = 0 /\ stopped = {} /\ heap = {} /\ queue = <<>>
        /\ received = [r \in Readers |-> [m \in Blocks |-> 0]] /\ pc = [t \in Threads |-> "idle"]
        /\ attr \in Modes
    BY DEF CInit, Init
  <1>4. Roles
    BY <1>2, <1>3, ClientsAssumption DEF Roles
  <1>5. Delivery
    <2>1. \A m \in Blocks : ~Sent(m)
      BY <1>3, ClientsAssumption DEF Sent
    <2>2. \A m \in Blocks : ~Held(m) /\ ~Got(m)
      BY <1>3 DEF Held, Got
    <2> QED
      BY <1>3, <2>1, <2>2 DEF Delivery
  <1>6. EOTs = {}
    BY <1>3 DEF EOTs
  <1>7. Endings
    BY <1>3, <1>6, FS_EmptySet DEF Endings
  <1> QED
    BY <1>1, <1>4, <1>5, <1>7 DEF ClientInv

\* Every step keeps the invariant.
LEMMA ClientNext == Inv /\ NoLeak /\ ClientInv /\ [CNext]_cvars => Inv' /\ NoLeak' /\ ClientInv'
  <1> SUFFICES ASSUME Inv, NoLeak, ClientInv, [CNext]_cvars
               PROVE  Inv' /\ NoLeak' /\ ClientInv'
    OBVIOUS
  <1>1. Roles /\ Delivery /\ Endings
    BY DEF ClientInv
  <1>2. [Next]_vars
    BY <1>1, ClientSteps
  <1>3. Inv' /\ NoLeak'
    BY <1>2, ClientsQuiet, NextInv, LeakFreeNext
  <1>4. Roles' /\ Delivery' /\ Endings'
    BY <1>1, RolesNext, DeliveryNext, EndingsNext
  <1> QED
    BY <1>3, <1>4 DEF ClientInv

\* Once every reader has its EOT, nothing is left of what was put.
LEMMA DeliveredAtEnd == Inv /\ ClientInv => AllDelivered
  <1> SUFFICES ASSUME Inv, ClientInv PROVE AllDelivered
    OBVIOUS
  <1>1. Roles /\ Delivery /\ Endings
    BY DEF ClientInv
  <1>2. ASSUME AllStopped
        PROVE  count = 0 /\ heap = {} /\ \A m \in Blocks : Got(m)
    <2>1. stopped = Readers /\ Readers # {}
      BY <1>2, ClientsAssumption DEF AllStopped
    <2>2. Cardinality(EOTs) = 0 /\ eots > 0
      <3>1. Cardinality(EOTs) + Cardinality(Readers) = eots /\ eots <= Cardinality(Readers)
        BY <1>1, <2>1, Finite DEF Endings, Roles
      <3> QED
        BY <1>1, <2>1, <3>1, Finite, SomeEOT
    <2>3. heap = {}
      <3>1. EOTs = {}
        BY <1>1, <2>2, Finite, FS_EmptySet
      <3> QED
        BY <1>1, <2>1, <3>1 DEF Endings, EOTs
    <2>4. count = 0
      <3>1. ~ \E i \in 1..Len(queue) : TRUE
        BY <2>3 DEF Inv, Ownership
      <3>2. Len(queue) \in Nat /\ count = Len(queue)
        BY DEF Inv, TypeOK, ListShape
      <3>3. Len(queue) > 0 => 1 \in 1..Len(queue)
        BY <3>2
      <3> QED
        BY <3>1, <3>2, <3>3
    <2>5. ASSUME NEW m \in Blocks
          PROVE  Got(m)
      <3>1. m[1] \in Writers /\ m[2] \in 1..Messages
        BY ClientsAssumption
      <3>2. sent[m[1]] = Messages
        BY <1>1, <2>2, <3>1 DEF Endings
      <3>3. Sent(m)
        BY <3>1, <3>2, ClientsAssumption DEF Sent
      <3>4. ~Held(m)
        BY <2>3 DEF Held
      <3> QED
        BY <1>1, <3>3, <3>4 DEF Delivery
    <2> QED
      BY <2>3, <2>4, <2>5
  <1> QED
    BY <1>1, <1>2 DEF AllDelivered, Delivery, Got

\* In the program of TestCH.cpp, however its threads are interleaved, a message
\* that a writer puts is given by ch_get to one reader, once, and the readers
\* stop at their CH_ENDOFTRANSMISSION only when every message has been given:
\* nothing is then left in the channel.  For any numbers of writers, readers
\* and messages and any size of the channel.
THEOREM EveryMessageOnce == CSpec => []AllDelivered
  <1>1. CInit => Inv /\ NoLeak /\ ClientInv
    BY ClientInit
  <1>2. Inv /\ NoLeak /\ ClientInv /\ [CNext]_cvars => (Inv /\ NoLeak /\ ClientInv)'
    BY ClientNext
  <1>3. Inv /\ NoLeak /\ ClientInv => AllDelivered
    BY DeliveredAtEnd
  <1> QED
    BY <1>1, <1>2, <1>3, PTL DEF CSpec
=============================================================================
