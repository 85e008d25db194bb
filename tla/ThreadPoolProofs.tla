-------------------------- MODULE ThreadPoolProofs --------------------------
(***************************************************************************)
(* Theorems about ThreadPool, for any numbers of clients, workers and      *)
(* jobs, jobs that add jobs and failing allocations included.              *)
(***************************************************************************)
EXTENDS ThreadPool, FiniteSetTheorems, TLAPS

(***************************************************************************)
(* The inductive invariant.                                                *)
(***************************************************************************)
\* A job that thp_add has allocated and not yet put.
Pending == {"add_lock", "add_put"}
Adding  == Pending \cup {"add_count"}

\* What a thread's position tells of its locals and of the mutex.
Positions ==
    /\ \A t \in Threads : /\ (pc[t] \in HoldsMutex) <=> (mutex = t)
                          /\ (pc[t] \in Adding) <=> (adding[t] # NULL)
    /\ \A w \in Workers : /\ pc[w] \in WorkerPCs \cup AddPCs
                          /\ (pc[w] \in {"get", "exit"}) <=> (tj[w] = NULL)
    /\ \A c \in Clients : pc[c] \in {"idle"} \cup AddPCs \cup WaitPCs \cup DestroyPCs

\* No job but EOT is twice in a channel.
Once(s) == \A i, j \in 1..Len(s) : s[i] = s[j] /\ s[i] # EOT => i = j

\* A job is allocated and in one place: about to be put, in one of the
\* channels, or with one worker.
Places ==
    /\ Once(in_queue) /\ Once(wait_queue)
    /\ Elems(in_queue) \ {EOT} \subseteq heap /\ Elems(wait_queue) \subseteq heap
    /\ Elems(in_queue) \cap Elems(wait_queue) = {}
    /\ \A w \in Workers : tj[w] # NULL =>
          /\ tj[w] \in heap
          /\ tj[w] \notin Elems(in_queue) /\ tj[w] \notin Elems(wait_queue)
          /\ \A v \in Workers : tj[v] = tj[w] => v = w
    /\ \A t \in Threads : pc[t] \in Pending =>
          /\ adding[t] \in heap
          /\ adding[t] \notin Elems(in_queue) /\ adding[t] \notin Elems(wait_queue)
          /\ \A w \in Workers : tj[w] # adding[t]
          /\ \A u \in Threads : pc[u] \in Pending /\ adding[u] = adding[t] => u = t

\* How often a job has run, by the place where it is.
Runs ==
    /\ \A j \in Jobs \ used : runs[j] = 0
    /\ \A t \in Threads : pc[t] \in Pending => runs[adding[t]] = 0
    /\ \A j \in Elems(in_queue) \ {EOT} : runs[j] = 0
    /\ \A w \in Workers : tj[w] # NULL => runs[tj[w]] = IF pc[w] = "run" THEN 0 ELSE 1
    /\ \A j \in Elems(wait_queue) : runs[j] = 1
    /\ \A j \in used \ heap : runs[j] = 1
    /\ \A j \in Jobs : runs[j] <= 1

PoolInv == TypeOK /\ Positions /\ Places /\ Runs


USE DEF Pending, Adding, HoldsMutex

-----------------------------------------------------------------------------
\* A channel after ch_put of a job that is not in it, or of EOT.
LEMMA AppendOnce ==
  ASSUME NEW S, NEW s \in Seq(S), NEW e \in S, Once(s), e \notin Elems(s) \/ e = EOT
  PROVE  /\ Append(s, e) \in Seq(S) /\ Once(Append(s, e))
         /\ Elems(Append(s, e)) = Elems(s) \cup {e}
  <1>1. /\ Append(s, e) \in Seq(S) /\ Len(Append(s, e)) = Len(s) + 1 /\ Len(s) \in Nat
        /\ \A i \in 1..Len(s) : Append(s, e)[i] = s[i]
        /\ Append(s, e)[Len(s) + 1] = e
    OBVIOUS
  <1> DEFINE a == Append(s, e)
             m == Len(s)
  <1> HIDE DEF a, m
  <1>2. \A i \in 1..(m + 1) : i \in 1..m \/ i = m + 1
    BY <1>1 DEF m
  <1>3. \A i \in 1..m : a[i] = s[i] /\ a[i] \in Elems(s)
    BY <1>1 DEF Elems, a, m
  <1>4. a[m + 1] = e /\ m + 1 \in 1..(m + 1)
    BY <1>1 DEF a, m
  <1>5. \A i, j \in 1..(m + 1) : a[i] = a[j] /\ a[i] # EOT => i = j
    BY <1>2, <1>3, <1>4 DEF Once, m
  <1>6. Elems(a) = Elems(s) \cup {e}
    <2>1. Elems(a) = {a[i] : i \in 1..(m + 1)} /\ Elems(s) = {s[i] : i \in 1..m}
      BY <1>1 DEF Elems, a, m
    <2>2. \A i \in 1..m : i \in 1..(m + 1)
      BY <1>1 DEF m
    <2> QED
      BY <1>2, <1>3, <1>4, <2>1, <2>2
  <1> QED
    BY <1>1, <1>5, <1>6 DEF Once, a, m

\* A channel after ch_get.
LEMMA TailOnce ==
  ASSUME NEW S, NEW s \in Seq(S), s # <<>>, Once(s)
  PROVE  /\ Tail(s) \in Seq(S) /\ Once(Tail(s))
         /\ Head(s) \in S /\ Head(s) \in Elems(s)
         /\ Elems(s) = Elems(Tail(s)) \cup {Head(s)}
         /\ Head(s) # EOT => Head(s) \notin Elems(Tail(s))
  <1>1. /\ Tail(s) \in Seq(S) /\ Len(Tail(s)) = Len(s) - 1 /\ Len(s) \in Nat /\ Len(s) > 0
        /\ \A i \in 1..(Len(s) - 1) : Tail(s)[i] = s[i + 1]
        /\ Head(s) = s[1] /\ s[1] \in S
    OBVIOUS
  <1> DEFINE a == Tail(s)
             m == Len(s) - 1
  <1>2. m \in Nat /\ Len(a) = m /\ Len(s) = m + 1
    BY <1>1
  <1> HIDE DEF a, m
  <1>3. \A i \in 1..m : a[i] = s[i + 1] /\ i + 1 \in 1..(m + 1) /\ i + 1 # 1
    BY <1>1, <1>2 DEF a, m
  <1>4. 1 \in 1..(m + 1)
    BY <1>2
  <1>5. \A i \in 1..(m + 1) : i = 1 \/ \E k \in 1..m : i = k + 1
    <2> SUFFICES ASSUME NEW i \in 1..(m + 1), i # 1 PROVE i - 1 \in 1..m /\ i = (i - 1) + 1
      OBVIOUS
    <2> QED
      BY <1>2
  <1>6. \A i, j \in 1..m : a[i] = a[j] /\ a[i] # EOT => i = j
    <2> SUFFICES ASSUME NEW i \in 1..m, NEW j \in 1..m, a[i] = a[j], a[i] # EOT PROVE i = j
      OBVIOUS
    <2>1. s[i + 1] = s[j + 1] /\ s[i + 1] # EOT
      BY <1>3
    <2>2. i + 1 = j + 1
      BY <1>2, <1>3, <2>1 DEF Once
    <2> QED
      BY <1>2, <2>2
  <1>7. Elems(s) = {s[i] : i \in 1..(m + 1)} /\ Elems(a) = {a[i] : i \in 1..m}
    BY <1>2 DEF Elems
  <1>8. Elems(s) = Elems(a) \cup {s[1]}
    BY <1>3, <1>4, <1>5, <1>7
  <1>9. s[1] # EOT => s[1] \notin Elems(a)
    <2> SUFFICES ASSUME s[1] # EOT, NEW i \in 1..m, s[1] = a[i] PROVE FALSE
      BY <1>7
    <2> QED
      BY <1>2, <1>3, <1>4 DEF Once
  <1> QED
    BY <1>1, <1>2, <1>6, <1>8, <1>9 DEF Once, a

-----------------------------------------------------------------------------
\* JobsSound is what the invariant says of the jobs.
LEMMA InvGives ==
  ASSUME PoolInv
  PROVE  JobsSound
  <1>1. OnePlace
    <2>1. \A i \in 1..Len(wait_queue) : wait_queue[i] # EOT
      BY PoolAssumption DEF PoolInv, TypeOK
    <2>2. \A i, j \in 1..Len(wait_queue) : wait_queue[i] = wait_queue[j] => i = j
      BY <2>1 DEF PoolInv, Places, Once
    <2>3. InFlight \subseteq heap
      BY DEF PoolInv, Places, InFlight, Running
    <2>4. \A i, j \in 1..Len(in_queue) :
             in_queue[i] = in_queue[j] /\ in_queue[i] # EOT => i = j
      BY DEF PoolInv, Places, Once
    <2>5. /\ \A v, w \in Running : tj[v] = tj[w] => v = w
          /\ \A w \in Running : tj[w] \notin Elems(in_queue) \cup Elems(wait_queue)
      BY DEF PoolInv, Places, Running
    <2> QED
      BY <2>2, <2>3, <2>4, <2>5 DEF OnePlace, PoolInv, Places
  <1>2. RunOnce
    BY DEF PoolInv, Positions, Runs, RunOnce
  <1> QED
    BY <1>1, <1>2 DEF PoolInv, JobsSound

\* thp_create establishes the invariant.
LEMMA PoolInit == Init => PoolInv
  <1> SUFFICES ASSUME Init PROVE PoolInv
    OBVIOUS
  <1>1. TypeOK
    BY PoolAssumption DEF Init, TypeOK, PCs, WorkerPCs, Threads
  <1>2. Elems(in_queue) = {} /\ Elems(wait_queue) = {} /\ Once(in_queue) /\ Once(wait_queue)
    BY DEF Init, Elems, Once
  <1>3. Positions
    BY PoolAssumption DEF Init, Positions, WorkerPCs, Threads
  <1>4. Places
    BY <1>2 DEF Init, Places
  <1>5. Runs
    BY <1>2 DEF Init, Runs
  <1> QED
    BY <1>1, <1>3, <1>4, <1>5 DEF PoolInv

-----------------------------------------------------------------------------
\* A step that moves no job and takes none up keeps it where it is.
LEMMA JobsStay ==
  ASSUME PoolInv, TypeOK', Positions',
         UNCHANGED <<in_queue, wait_queue, tj, memory, runs>>,
         \A u \in Threads : pc'[u] \in Pending => pc[u] \in Pending /\ adding'[u] = adding[u],
         \A w \in Workers : tj[w] # NULL => (pc'[w] = "run" <=> pc[w] = "run")
  PROVE  PoolInv'
  <1>1. Places'
    BY DEF PoolInv, Places, Once, Elems, memory
  <1>2. Runs'
    BY DEF PoolInv, Runs, Elems, memory
  <1> QED
    BY <1>1, <1>2 DEF PoolInv

\* Workers and clients are different threads, and a client has no tj.
LEMMA Apart ==
  ASSUME PoolInv, NEW t \in Threads
  PROVE  /\ t \in Clients => t \notin Workers
         /\ t \notin Workers => t \in Clients
         /\ t # NULL
         /\ pc \in [Threads -> PCs] /\ adding \in [Threads -> Jobs \cup {NULL}]
         /\ tj \in [Workers -> Jobs \cup {NULL}] /\ n \in [Threads -> Nat]
         /\ Workers \subseteq Threads /\ Clients \subseteq Threads
         /\ t \in Workers => pc[t] \in WorkerPCs \cup AddPCs
         /\ t \in Clients => pc[t] \in {"idle"} \cup AddPCs \cup WaitPCs \cup DestroyPCs
  BY PoolAssumption DEF Threads, PoolInv, TypeOK, Positions

\* The calls and steps that move no job.
LEMMA QuietInv ==
  ASSUME PoolInv, NEW t \in Threads,
         \/ AddNoMemory(t) \/ AddLock(t) \/ AddPutFails(t) \/ AddCount(t) \/ AddReturn(t)
         \/ WaitCall(t) \/ WaitLock(t) \/ DestroyCall(t) \/ DestroyJoin(t)
  PROVE  PoolInv'
  <1> USE Apart, PoolAssumption DEF totals, locals, memory, Goto, Leave, Return, Back, PCs,
          AddPCs, WaitPCs, DestroyPCs, WorkerPCs
  <1>1. CASE AddNoMemory(t)
    <2>1. TypeOK'
      BY <1>1 DEF AddNoMemory, MayCall, PoolInv, TypeOK
    <2>2. Positions'
      BY <1>1 DEF AddNoMemory, MayCall, PoolInv, Positions
    <2> QED
      BY <1>1, <2>1, <2>2, JobsStay DEF AddNoMemory, MayCall
  <1>2. CASE AddLock(t)
    <2>1. TypeOK'
      BY <1>2 DEF AddLock, PoolInv, TypeOK
    <2>2. Positions'
      BY <1>2 DEF AddLock, PoolInv, Positions
    <2> QED
      BY <1>2, <2>1, <2>2, JobsStay DEF AddLock
  <1>3. CASE AddPutFails(t)
    <2>1. TypeOK'
      BY <1>3 DEF AddPutFails, Uncounted, PoolInv, TypeOK
    <2>2. Positions'
      BY <1>3 DEF AddPutFails, PoolInv, Positions
    <2> QED
      BY <1>3, <2>1, <2>2, JobsStay DEF AddPutFails
  <1>4. CASE AddCount(t)
    <2>1. TypeOK'
      BY <1>4 DEF AddCount, PoolInv, TypeOK
    <2>2. Positions'
      BY <1>4 DEF AddCount, PoolInv, Positions
    <2> QED
      BY <1>4, <2>1, <2>2, JobsStay DEF AddCount
  <1>5. CASE AddReturn(t)
    <2>1. TypeOK'
      BY <1>5 DEF AddReturn, PoolInv, TypeOK
    <2>2. Positions'
      BY <1>5 DEF AddReturn, PoolInv, Positions
    <2> QED
      BY <1>5, <2>1, <2>2, JobsStay DEF AddReturn
  <1>6. CASE WaitCall(t)
    <2>1. TypeOK'
      BY <1>6 DEF WaitCall, MayCall, PoolInv, TypeOK
    <2>2. Positions'
      BY <1>6 DEF WaitCall, MayCall, PoolInv, Positions
    <2> QED
      BY <1>6, <2>1, <2>2, JobsStay DEF WaitCall, MayCall
  <1>7. CASE WaitLock(t)
    <2>0. /\ pc' \in [Threads -> PCs] /\ wait_running' \in {0, 1} /\ n' \in [Threads -> Nat]
          /\ mutex' \in Threads \cup {NULL}
      BY <1>7 DEF WaitLock, Holder, AfterEmptyWait, PoolInv, TypeOK
    <2>1. TypeOK'
      BY <1>7, <2>0 DEF WaitLock, PoolInv, TypeOK
    <2>2. Positions'
      BY <1>7 DEF WaitLock, Holder, AfterEmptyWait, PoolInv, Positions
    <2>3. /\ pc[t] = "wait_lock" /\ t \notin Workers
          /\ pc'[t] \notin Pending \cup {"run"} /\ \A u \in Threads \ {t} : pc'[u] = pc[u]
      BY <1>7 DEF WaitLock
    <2>4. UNCHANGED <<in_queue, wait_queue, tj, memory, runs, adding>>
      BY <1>7 DEF WaitLock
    <2> QED
      BY <2>1, <2>2, <2>3, <2>4, JobsStay
  <1>8. CASE DestroyCall(t)
    <2>1. TypeOK'
      BY <1>8 DEF DestroyCall, MayCall, PoolInv, TypeOK
    <2>2. Positions'
      BY <1>8 DEF DestroyCall, MayCall, PoolInv, Positions
    <2> QED
      BY <1>8, <2>1, <2>2, JobsStay DEF DestroyCall, MayCall
  <1>9. CASE DestroyJoin(t)
    <2>1. TypeOK'
      BY <1>9 DEF DestroyJoin, AfterJoin, PoolInv, TypeOK
    <2>2. Positions'
      BY <1>9 DEF DestroyJoin, AfterJoin, PoolInv, Positions
    <2> QED
      BY <1>9, <2>1, <2>2, JobsStay DEF DestroyJoin, AfterJoin
  <1> QED
    BY <1>1, <1>2, <1>3, <1>4, <1>5, <1>6, <1>7, <1>8, <1>9

\* thp_add allocates a job that was nowhere.
LEMMA AddCallInv ==
  ASSUME PoolInv, NEW t \in Threads, AddCall(t)
  PROVE  PoolInv'
  <1> USE Apart, PoolAssumption DEF Goto
  <1>1. PICK j \in Jobs \ used :
           heap' = heap \cup {j} /\ used' = used \cup {j} /\ adding' = [adding EXCEPT ![t] = j]
    BY DEF AddCall
  <1>2. /\ pc[t] \in {"idle", "nested"} /\ pc' = [pc EXCEPT ![t] = "add_lock"]
        /\ UNCHANGED <<in_queue, wait_queue, tj, runs, mutex>>
    BY DEF AddCall, MayCall
  <1>3. /\ j \notin heap /\ j \notin Elems(in_queue) /\ j \notin Elems(wait_queue)
        /\ \A w \in Workers : tj[w] # j
    BY DEF PoolInv, TypeOK, Places
  <1>4. TypeOK'
    BY <1>1, <1>2 DEF AddCall, totals, PoolInv, TypeOK, PCs, AddPCs
  <1>5. Positions'
    BY <1>1, <1>2 DEF PoolInv, Positions, AddPCs, WorkerPCs
  <1>6. Places'
    <2>1. \A u \in Threads : pc'[u] \in Pending =>
             \/ u = t /\ adding'[u] = j
             \/ u # t /\ pc[u] \in Pending /\ adding'[u] = adding[u] /\ adding[u] # j
      BY <1>1, <1>2, <1>3 DEF PoolInv, Places
    <2>2. /\ Elems(in_queue)' = Elems(in_queue) /\ Elems(wait_queue)' = Elems(wait_queue)
          /\ Once(in_queue)' = Once(in_queue) /\ Once(wait_queue)' = Once(wait_queue)
      BY <1>2 DEF Elems, Once
    <2> QED
      BY <1>1, <1>2, <1>3, <2>1, <2>2 DEF PoolInv, Places
  <1>7. Runs'
    BY <1>1, <1>2, <1>3 DEF PoolInv, Runs, Elems
  <1> QED
    BY <1>4, <1>5, <1>6, <1>7 DEF PoolInv

\* thp_add puts its job into in_queue.
LEMMA AddPutInv ==
  ASSUME PoolInv, NEW t \in Threads, AddPut(t)
  PROVE  PoolInv'
  <1> USE Apart, PoolAssumption DEF Goto
  <1> DEFINE j == adding[t]
  <1>1. /\ pc[t] = "add_put" /\ pc' = [pc EXCEPT ![t] = "add_count"]
        /\ in_queue' = Append(in_queue, j)
        /\ UNCHANGED <<wait_queue, tj, runs, mutex, adding, heap, used>>
    BY DEF AddPut, locals, memory
  <1>2. /\ j \in heap /\ j \notin Elems(in_queue) /\ j \notin Elems(wait_queue)
        /\ j \in Jobs /\ j # EOT /\ runs[j] = 0
        /\ \A w \in Workers : tj[w] # j
        /\ \A u \in Threads \ {t} : pc[u] \in Pending => adding[u] # j
    BY <1>1 DEF PoolInv, TypeOK, Places, Runs
  <1> HIDE DEF j
  <1>3. /\ in_queue' \in Seq(Jobs \cup {EOT}) /\ Once(in_queue)'
        /\ Elems(in_queue)' = Elems(in_queue) \cup {j} /\ Elems(wait_queue)' = Elems(wait_queue)
    <2>1. in_queue \in Seq(Jobs \cup {EOT}) /\ Once(in_queue)
      BY DEF PoolInv, TypeOK, Places
    <2>2. /\ Append(in_queue, j) \in Seq(Jobs \cup {EOT}) /\ Once(Append(in_queue, j))
          /\ Elems(Append(in_queue, j)) = Elems(in_queue) \cup {j}
      BY <1>2, <2>1, AppendOnce
    <2> QED
      BY <1>1, <2>2 DEF Once, Elems
  <1>4. TypeOK'
    BY <1>1, <1>3 DEF AddPut, totals, locals, memory, PoolInv, TypeOK, PCs, AddPCs
  <1>5. Positions'
    BY <1>1 DEF PoolInv, Positions, AddPCs, WorkerPCs
  <1>6. Places'
    BY <1>1, <1>2, <1>3 DEF PoolInv, Places, Once
  <1>7. Runs'
    BY <1>1, <1>2, <1>3 DEF PoolInv, Runs
  <1> QED
    BY <1>4, <1>5, <1>6, <1>7 DEF PoolInv

\* thp_wait collects a job and frees it.
LEMMA WaitGetInv ==
  ASSUME PoolInv, NEW t \in Threads, WaitGet(t)
  PROVE  /\ PoolInv'
         /\ Collected \in Elems(wait_queue) /\ Collected \notin Elems(wait_queue)'
         /\ Elems(wait_queue) = Elems(wait_queue)' \cup {Collected}
  <1> USE Apart, PoolAssumption
  <1> DEFINE j == Collected
  <1>1. /\ pc[t] = "wait_get" /\ t \notin Workers
        /\ pc' = [pc EXCEPT ![t] = pc'[t]] /\ pc'[t] \in {"wait_get", "idle", "destroyed"}
        /\ wait_queue' = Tail(wait_queue) /\ wait_queue # <<>>
        /\ heap' = heap \ {j}
        /\ UNCHANGED <<in_queue, tj, runs, adding, used>>
    BY DEF WaitGet, Goto, Leave, Back, WorkerPCs, AddPCs
  <1>2. mutex = t /\ (mutex' = IF pc'[t] = "wait_get" THEN t ELSE NULL)
    BY <1>1 DEF WaitGet, Goto, Leave, Back, PoolInv, Positions
  <1>3. /\ wait_queue' \in Seq(Jobs) /\ Once(wait_queue)'
        /\ j \in Jobs /\ j \in Elems(wait_queue) /\ j \notin Elems(wait_queue)'
        /\ Elems(wait_queue) = Elems(wait_queue)' \cup {j} /\ Elems(in_queue)' = Elems(in_queue)
    <2>1. wait_queue \in Seq(Jobs) /\ Once(wait_queue)
      BY DEF PoolInv, TypeOK, Places
    <2>2. /\ Tail(wait_queue) \in Seq(Jobs) /\ Once(Tail(wait_queue))
          /\ Head(wait_queue) \in Jobs /\ Head(wait_queue) \in Elems(wait_queue)
          /\ Elems(wait_queue) = Elems(Tail(wait_queue)) \cup {Head(wait_queue)}
          /\ Head(wait_queue) # EOT => Head(wait_queue) \notin Elems(Tail(wait_queue))
      BY <1>1, <2>1, TailOnce
    <2>3. Elems(wait_queue)' = Elems(Tail(wait_queue)) /\ Elems(in_queue)' = Elems(in_queue)
      BY <1>1 DEF Elems
    <2>4. Once(wait_queue)' = Once(Tail(wait_queue))
      BY <1>1 DEF Once
    <2> QED
      BY <1>1, <2>2, <2>3, <2>4 DEF Collected
  <1> HIDE DEF j
  <1>4. TypeOK'
    <2>1. to_be_waited' \in Int /\ wait_running' \in {0, 1}
      BY DEF WaitGet, PoolInv, TypeOK
    <2>3. n' \in [Threads -> Nat]
      <3>1. n[t] + 1 \in Nat
        OBVIOUS
      <3>2. \E m \in Nat : n' = [n EXCEPT ![t] = m]
        BY <3>1 DEF WaitGet
      <3> QED
        BY <3>2
    <2>2. pc' \in [Threads -> PCs] /\ mutex' \in Threads \cup {NULL}
      BY <1>1, <1>2 DEF PCs, WaitPCs, DestroyPCs
    <2> QED
      BY <1>1, <1>3, <2>1, <2>2, <2>3 DEF WaitGet, PoolInv, TypeOK
  <1>5. Positions'
    BY <1>1, <1>2 DEF PoolInv, Positions, WaitPCs, DestroyPCs
  <1>6. runs[j] = 1 /\ j \notin Elems(in_queue) /\ j \in heap
        /\ (\A w \in Workers : tj[w] # NULL => tj[w] # j)
        /\ (\A u \in Threads : pc[u] \in Pending => adding[u] # j)
    BY <1>3 DEF PoolInv, Runs, Places
  <1>7. Places'
    BY <1>1, <1>3, <1>6 DEF PoolInv, Places, Once
  <1>8. Runs'
    BY <1>1, <1>3, <1>6 DEF PoolInv, Runs
  <1> QED
    BY <1>3, <1>4, <1>5, <1>7, <1>8 DEF PoolInv, j

\* A worker takes a job, or its end, from in_queue.
LEMMA WorkerGetInv ==
  ASSUME PoolInv, NEW t \in Threads, WorkerGet(t)
  PROVE  /\ PoolInv'
         /\ Elems(in_queue) = Elems(in_queue)' \cup {Head(in_queue)}
         /\ IF Head(in_queue) = EOT THEN tj' = tj ELSE tj' = [tj EXCEPT ![t] = Head(in_queue)]
  <1> USE Apart, PoolAssumption DEF Goto
  <1> DEFINE j == Head(in_queue)
  <1>1. /\ t \in Workers /\ pc[t] = "get" /\ tj[t] = NULL
        /\ pc' = [pc EXCEPT ![t] = IF j = EOT THEN "exit" ELSE "run"]
        /\ tj' = IF j = EOT THEN tj ELSE [tj EXCEPT ![t] = j]
        /\ in_queue' = Tail(in_queue) /\ in_queue # <<>>
        /\ UNCHANGED <<wait_queue, runs, mutex, adding, heap, used>>
    BY DEF WorkerGet, IsEnd, Rest, memory, PoolInv, Positions
  <1>3. /\ in_queue' \in Seq(Jobs \cup {EOT}) /\ Once(in_queue)'
        /\ j \in Jobs \cup {EOT} /\ j \in Elems(in_queue) /\ (j # EOT => j \notin Elems(in_queue)')
        /\ Elems(in_queue) = Elems(in_queue)' \cup {j} /\ Elems(wait_queue)' = Elems(wait_queue)
    <2>1. in_queue \in Seq(Jobs \cup {EOT}) /\ Once(in_queue)
      BY DEF PoolInv, TypeOK, Places
    <2>2. /\ Tail(in_queue) \in Seq(Jobs \cup {EOT}) /\ Once(Tail(in_queue))
          /\ Head(in_queue) \in Jobs \cup {EOT} /\ Head(in_queue) \in Elems(in_queue)
          /\ Elems(in_queue) = Elems(Tail(in_queue)) \cup {Head(in_queue)}
          /\ Head(in_queue) # EOT => Head(in_queue) \notin Elems(Tail(in_queue))
      BY <1>1, <2>1, TailOnce
    <2>3. Elems(in_queue)' = Elems(Tail(in_queue)) /\ Elems(wait_queue)' = Elems(wait_queue)
      BY <1>1 DEF Elems
    <2>4. Once(in_queue)' = Once(Tail(in_queue))
      BY <1>1 DEF Once
    <2> QED
      BY <1>1, <2>2, <2>3, <2>4
  <1> HIDE DEF j
  <1>4. TypeOK'
    BY <1>1, <1>3 DEF WorkerGet, totals, memory, PoolInv, TypeOK, PCs, WorkerPCs
  <1>5. Positions'
    BY <1>1, <1>3 DEF PoolInv, Positions, WorkerPCs
  <1>6. j # EOT => /\ runs[j] = 0 /\ j \notin Elems(wait_queue) /\ j \in heap
                   /\ \A w \in Workers : tj[w] # j
                   /\ \A u \in Threads : pc[u] \in Pending => adding[u] # j
    BY <1>3 DEF PoolInv, Runs, Places
  <1>7. Places'
    BY <1>1, <1>3, <1>6 DEF PoolInv, Places, Once
  <1>8. Runs'
    BY <1>1, <1>3, <1>6 DEF PoolInv, Runs
  <1> QED
    BY <1>1, <1>3, <1>4, <1>5, <1>7, <1>8 DEF PoolInv, j

\* A worker calls the function of its job.
LEMMA WorkerRunInv ==
  ASSUME PoolInv, NEW t \in Threads, WorkerRun(t)
  PROVE  PoolInv'
  <1> USE Apart, PoolAssumption DEF Goto
  <1> DEFINE j == tj[t]
  <1>1. /\ t \in Workers /\ pc[t] = "run" /\ j \in Jobs /\ j # NULL
        /\ pc' = [pc EXCEPT ![t] = pc'[t]] /\ pc'[t] \in {"nested", "put"}
        /\ runs' = [runs EXCEPT ![j] = @ + 1]
        /\ UNCHANGED <<in_queue, wait_queue, mutex, adding, tj, heap, used>>
    BY DEF WorkerRun, locals, memory, PoolInv, Positions
  <1>2. /\ runs[j] = 0 /\ j \in heap /\ j \notin Elems(in_queue) /\ j \notin Elems(wait_queue)
        /\ \A w \in Workers \ {t} : tj[w] # j
        /\ \A u \in Threads : pc[u] \in Pending => adding[u] # j
    BY <1>1 DEF PoolInv, Runs, Places
  <1>3. Elems(in_queue)' = Elems(in_queue) /\ Elems(wait_queue)' = Elems(wait_queue)
    BY <1>1 DEF Elems
  <1> HIDE DEF j
  <1>4. runs' \in [Jobs -> Nat] /\ runs'[j] = 1 /\ \A i \in Jobs \ {j} : runs'[i] = runs[i]
    BY <1>1, <1>2 DEF PoolInv, TypeOK
  <1>5. TypeOK'
    BY <1>1, <1>4 DEF WorkerRun, totals, locals, memory, PoolInv, TypeOK, PCs, WorkerPCs
  <1>6. Positions'
    BY <1>1 DEF PoolInv, Positions, WorkerPCs
  <1>7. Places'
    BY <1>1, <1>3 DEF PoolInv, Places, Once
  <1>8. Runs'
    <2>1. /\ \A i \in Jobs \ used : runs'[i] = 0
          /\ \A i \in Elems(in_queue) \ {EOT} : runs'[i] = 0
          /\ \A i \in Elems(wait_queue) : runs'[i] = 1
          /\ \A i \in used \ heap : runs'[i] = 1
          /\ \A i \in Jobs : runs'[i] <= 1
      BY <1>1, <1>2, <1>4 DEF PoolInv, Runs, TypeOK, Places
    <2>2. \A u \in Threads : pc'[u] \in Pending => runs'[adding'[u]] = 0
      BY <1>1, <1>2, <1>4 DEF PoolInv, Runs, TypeOK, Places
    <2>3. \A w \in Workers : tj'[w] # NULL => runs'[tj'[w]] = IF pc'[w] = "run" THEN 0 ELSE 1
      BY <1>1, <1>2, <1>4 DEF PoolInv, Runs, TypeOK, Places, j
    <2> QED
      BY <1>1, <1>3, <2>1, <2>2, <2>3 DEF Runs
  <1> QED
    BY <1>5, <1>6, <1>7, <1>8 DEF PoolInv

\* A worker reports its job, or fails to.
LEMMA WorkerPutInv ==
  ASSUME PoolInv, NEW t \in Threads, WorkerPut(t)
  PROVE  /\ PoolInv'
         /\ t \in Workers /\ tj[t] \in heap /\ runs[tj[t]] = 1
         /\ \/ Elems(wait_queue)' = Elems(wait_queue) \cup {tj[t]}
            \/ MemoryFails /\ Elems(wait_queue)' = Elems(wait_queue)
  <1> USE Apart, PoolAssumption DEF Goto
  <1> DEFINE j == tj[t]
  <1>1. /\ t \in Workers /\ pc[t] = "put" /\ j \in Jobs /\ j # NULL /\ j # EOT
        /\ pc' = [pc EXCEPT ![t] = "get"] /\ tj' = [tj EXCEPT ![t] = NULL]
        /\ wait_queue' = Append(wait_queue, j) \/ (MemoryFails /\ wait_queue' = wait_queue)
        /\ UNCHANGED <<in_queue, mutex, adding, runs, heap, used>>
    BY DEF WorkerPut, memory, PoolInv, Positions
  <1>2. /\ runs[j] = 1 /\ j \in heap /\ j \notin Elems(in_queue) /\ j \notin Elems(wait_queue)
        /\ \A w \in Workers \ {t} : tj[w] # j
        /\ \A u \in Threads : pc[u] \in Pending => adding[u] # j
    BY <1>1 DEF PoolInv, Runs, Places
  <1> HIDE DEF j
  <1>3. /\ wait_queue' \in Seq(Jobs) /\ Once(wait_queue)' /\ Elems(in_queue)' = Elems(in_queue)
        /\ \/ Elems(wait_queue)' = Elems(wait_queue) \cup {j}
           \/ MemoryFails /\ Elems(wait_queue)' = Elems(wait_queue)
    <2>1. wait_queue \in Seq(Jobs) /\ Once(wait_queue)
      BY DEF PoolInv, TypeOK, Places
    <2>2. /\ Append(wait_queue, j) \in Seq(Jobs) /\ Once(Append(wait_queue, j))
          /\ Elems(Append(wait_queue, j)) = Elems(wait_queue) \cup {j}
      BY <1>1, <1>2, <2>1, AppendOnce
    <2>3. Elems(in_queue)' = Elems(in_queue)
      BY <1>1 DEF Elems
    <2>4. CASE wait_queue' = wait_queue /\ MemoryFails
      BY <2>1, <2>3, <2>4 DEF Once, Elems
    <2>5. CASE wait_queue' = Append(wait_queue, j)
      <3>1. Elems(wait_queue)' = Elems(Append(wait_queue, j))
        BY <2>5 DEF Elems
      <3>2. Once(wait_queue)' = Once(Append(wait_queue, j))
        BY <2>5 DEF Once
      <3> QED
        BY <2>2, <2>3, <2>5, <3>1, <3>2
    <2> QED
      BY <1>1, <2>4, <2>5
  <1>4. TypeOK'
    BY <1>1, <1>3 DEF WorkerPut, totals, memory, PoolInv, TypeOK, PCs, WorkerPCs
  <1>5. Positions'
    BY <1>1 DEF PoolInv, Positions, WorkerPCs
  <1>6. Places'
    <2>1. /\ Elems(wait_queue)' \subseteq heap /\ Elems(in_queue) \cap Elems(wait_queue)' = {}
          /\ \A i \in Elems(wait_queue)' : i \in Elems(wait_queue) \/ i = j
      BY <1>1, <1>2, <1>3 DEF PoolInv, Places
    <2>2. \A w \in Workers : tj'[w] # NULL => w # t /\ tj'[w] = tj[w] /\ tj[w] # j
      BY <1>1, <1>2
    <2>3. \A u \in Threads : pc'[u] \in Pending => pc[u] \in Pending /\ adding[u] # j
      BY <1>1, <1>2
    <2>4. Once(in_queue)' = Once(in_queue)
      BY <1>1 DEF Once
    <2>5. \A w \in Workers : tj'[w] # NULL =>
            /\ tj'[w] \in heap
            /\ tj'[w] \notin Elems(in_queue) /\ tj'[w] \notin Elems(wait_queue)'
            /\ \A v \in Workers : tj'[v] = tj'[w] => v = w
      BY <1>1, <2>1, <2>2 DEF PoolInv, Places
    <2>6. \A u \in Threads : pc'[u] \in Pending =>
            /\ adding[u] \in heap
            /\ adding[u] \notin Elems(in_queue) /\ adding[u] \notin Elems(wait_queue)'
            /\ \A w \in Workers : tj'[w] # adding[u]
            /\ \A v \in Threads : pc'[v] \in Pending /\ adding[v] = adding[u] => v = u
      <3>1. NULL \notin heap
        BY DEF PoolInv, TypeOK
      <3> QED
        BY <1>1, <2>1, <2>3, <3>1 DEF PoolInv, Places
    <2> QED
      BY <1>1, <1>3, <2>1, <2>4, <2>5, <2>6 DEF PoolInv, Places
  <1>7. Runs'
    BY <1>1, <1>2, <1>3 DEF PoolInv, Runs
  <1> QED
    BY <1>1, <1>2, <1>3, <1>4, <1>5, <1>6, <1>7 DEF PoolInv, j

\* thp_destroy puts ends of transmission.
LEMMA DestroyEotInv ==
  ASSUME PoolInv, NEW t \in Threads, DestroyEot(t)
  PROVE  /\ PoolInv'
         /\ Elems(in_queue)' \ {EOT} = Elems(in_queue) \ {EOT}
  <1> USE Apart, PoolAssumption DEF Goto
  <1>1. /\ pc[t] = "destroy_eot" /\ t \notin Workers
        /\ pc' = [pc EXCEPT ![t] = pc'[t]] /\ pc'[t] \in {"destroy_eot", "destroy_join"}
        /\ in_queue' = Append(in_queue, EOT) \/ in_queue' = in_queue
        /\ n' \in [Threads -> Nat]
        /\ UNCHANGED <<wait_queue, tj, mutex, adding, runs, heap, used>>
    BY DEF DestroyEot, WithEot, memory, WorkerPCs, AddPCs
  <1>2. /\ in_queue' \in Seq(Jobs \cup {EOT}) /\ Once(in_queue)'
        /\ Elems(wait_queue)' = Elems(wait_queue)
        /\ Elems(in_queue)' \in {Elems(in_queue), Elems(in_queue) \cup {EOT}}
    <2>1. in_queue \in Seq(Jobs \cup {EOT}) /\ Once(in_queue)
      BY DEF PoolInv, TypeOK, Places
    <2>2. /\ Append(in_queue, EOT) \in Seq(Jobs \cup {EOT}) /\ Once(Append(in_queue, EOT))
          /\ Elems(Append(in_queue, EOT)) = Elems(in_queue) \cup {EOT}
      BY <2>1, AppendOnce
    <2>3. Elems(wait_queue)' = Elems(wait_queue)
      BY <1>1 DEF Elems
    <2>4. CASE in_queue' = in_queue
      BY <2>1, <2>3, <2>4 DEF Once, Elems
    <2>5. CASE in_queue' = Append(in_queue, EOT)
      <3>1. Elems(in_queue)' = Elems(Append(in_queue, EOT))
        BY <2>5 DEF Elems
      <3>2. Once(in_queue)' = Once(Append(in_queue, EOT))
        BY <2>5 DEF Once
      <3> QED
        BY <2>2, <2>3, <2>5, <3>1, <3>2
    <2> QED
      BY <1>1, <2>4, <2>5
  <1>3. EOT \notin Elems(wait_queue)
    BY DEF PoolInv, TypeOK, Elems
  <1>4. TypeOK'
    BY <1>1, <1>2 DEF DestroyEot, totals, memory, PoolInv, TypeOK, PCs, DestroyPCs
  <1>5. Positions'
    BY <1>1 DEF PoolInv, Positions, DestroyPCs
  <1>6. Places'
    <2>1. \A j \in Elems(in_queue)' : j \in Elems(in_queue) \/ j = EOT
      BY <1>2
    <2>2. /\ Elems(in_queue)' \cap Elems(wait_queue) = {} /\ Elems(in_queue)' \ {EOT} \subseteq heap
          /\ EOT \notin heap /\ Once(wait_queue)' = Once(wait_queue)
      BY <1>1, <1>3, <2>1 DEF PoolInv, TypeOK, Places, Once
    <2>3. \A j \in heap : j \notin Elems(in_queue) => j \notin Elems(in_queue)'
      BY <2>1, <2>2
    <2>4. \A u \in Threads : pc'[u] \in Pending => pc[u] \in Pending
      BY <1>1
    <2> QED
      BY <1>1, <1>2, <2>2, <2>3, <2>4 DEF PoolInv, Places
  <1>7. Runs'
    BY <1>1, <1>2 DEF PoolInv, Runs
  <1> QED
    BY <1>2, <1>4, <1>5, <1>6, <1>7 DEF PoolInv

\* Every step preserves the invariant.
LEMMA PoolNext == PoolInv /\ [Next]_vars => PoolInv'
  <1> SUFFICES ASSUME PoolInv, [Next]_vars PROVE PoolInv'
    OBVIOUS
  <1>1. CASE UNCHANGED vars
    <2>1. TypeOK'
      BY <1>1 DEF vars, PoolInv, TypeOK
    <2>2. Positions'
      BY <1>1 DEF vars, PoolInv, Positions
    <2> QED
      BY <1>1, <2>1, <2>2, JobsStay DEF vars, memory
  <1>2. ASSUME NEW t \in Threads, Start(t) \/ Step(t) PROVE PoolInv'
    BY <1>2, QuietInv, AddCallInv, AddPutInv, WaitGetInv, WorkerGetInv, WorkerRunInv,
       WorkerPutInv, DestroyEotInv
    DEF Start, Step, AddStep, WaitStep, WorkerStep, DestroyStep
  <1> QED
    BY <1>1, <1>2 DEF Next, Destroyed

\* A job is allocated, queued, run, waited for and freed once, in this order.
THEOREM EachJobOnce == Spec => []JobsSound
  BY PoolInit, PoolNext, InvGives, PTL DEF Spec

-----------------------------------------------------------------------------
(***************************************************************************)
(* The count of jobs to be waited for.                                     *)
(***************************************************************************)
\* The jobs that were put and not yet freed.
Owed == {j \in heap : \/ runs[j] > 0
                      \/ j \in Elems(in_queue)
                      \/ \E w \in Workers : tj[w] = j}

Balance == to_be_waited + Cardinality(Counting) = Cardinality(Owed)

\* They are those in flight and those whose completion was lost.
LEMMA OwedIs ==
  ASSUME PoolInv
  PROVE  /\ Owed = InFlight \cup Lost
         /\ IsFiniteSet(Owed) /\ Cardinality(Owed) \in Nat
         /\ IsFiniteSet(Counting) /\ Cardinality(Counting) \in Nat
         /\ to_be_waited \in Int
  <1>1. InFlight \subseteq Owed
    <2>1. NULL \notin heap /\ EOT \notin heap
      BY PoolAssumption DEF PoolInv, TypeOK
    <2>2. \A j \in Elems(in_queue) \ {EOT} : j \in Owed
      BY DEF PoolInv, Places, Owed
    <2>3. \A w \in Running : tj[w] \in Owed
      BY DEF PoolInv, Places, Owed, Running
    <2>4. \A j \in Elems(wait_queue) : j \in Owed
      BY DEF PoolInv, Places, Runs, Owed
    <2> QED
      BY <2>2, <2>3, <2>4 DEF InFlight
  <1>2. Owed \subseteq InFlight \cup Lost
    <2> SUFFICES ASSUME NEW j \in Owed, j \notin InFlight PROVE runs[j] > 0
      BY DEF Lost, Owed
    <2>1. NULL \notin heap /\ EOT \notin heap
      BY PoolAssumption DEF PoolInv, TypeOK
    <2> QED
      BY <2>1 DEF Owed, InFlight, Running
  <1>3. Lost \subseteq Owed
    BY DEF Lost, Owed
  <1>4. Owed \subseteq Jobs /\ Counting \subseteq Threads /\ IsFiniteSet(Jobs)
    BY PoolAssumption DEF Owed, Counting, PoolInv, TypeOK
  <1>5. IsFiniteSet(Threads)
    BY PoolAssumption, FS_Union DEF Threads
  <1>6. IsFiniteSet(Owed) /\ IsFiniteSet(Counting)
    BY <1>4, <1>5, FS_Subset
  <1> QED
    BY <1>1, <1>2, <1>3, <1>6, FS_CardinalityType DEF PoolInv, TypeOK

\* Initially nothing is owed.
LEMMA BalanceInit == Init => Balance
  <1> SUFFICES ASSUME Init PROVE Balance
    OBVIOUS
  <1>1. Owed = {} /\ Counting = {} /\ to_be_waited = 0
    BY DEF Init, Owed, Counting
  <1> QED
    BY <1>1, FS_EmptySet DEF Balance

\* A step that leaves the sets alone leaves the balance.
LEMMA BalanceStays ==
  ASSUME Balance, Owed' = Owed, UNCHANGED to_be_waited,
         \A u \in Threads : (pc'[u] = "add_count") <=> (pc[u] = "add_count")
  PROVE  Balance'
  <1>1. Counting' = Counting
    BY DEF Counting
  <1> QED
    BY <1>1 DEF Balance

\* Every step keeps the balance.
LEMMA BalanceNext ==
  ASSUME PoolInv, PoolInv', Balance, [Next]_vars
  PROVE  Balance'
  <1> USE Apart, PoolAssumption DEF totals, locals, memory, Goto, Leave, Return, Back
  <1>1. CASE UNCHANGED vars
    BY <1>1 DEF vars, Balance, Owed, Counting, Elems
  <1>2. ASSUME NEW t \in Threads,
               \/ AddNoMemory(t) \/ AddLock(t) \/ AddPutFails(t) \/ AddReturn(t)
               \/ WaitCall(t) \/ WaitLock(t) \/ DestroyCall(t) \/ DestroyJoin(t)
        PROVE  Balance'
    <2>1. UNCHANGED <<heap, runs, in_queue, tj, to_be_waited>>
      BY <1>2 DEF AddNoMemory, AddLock, AddPutFails, Uncounted, AddReturn, WaitCall, WaitLock,
                  DestroyCall, DestroyJoin
    <2>2. /\ \A u \in Threads \ {t} : pc'[u] = pc[u]
          /\ pc'[t] # "add_count" /\ pc[t] # "add_count"
      <3>1. CASE AddNoMemory(t) \/ AddLock(t) \/ AddPutFails(t) \/ AddReturn(t)
        BY <3>1 DEF AddNoMemory, AddLock, AddPutFails, AddReturn, MayCall
      <3>2. CASE WaitCall(t) \/ WaitLock(t)
        BY <3>2 DEF WaitCall, WaitLock, MayCall
      <3>3. CASE DestroyCall(t) \/ DestroyJoin(t)
        BY <3>3 DEF DestroyCall, DestroyJoin, AfterJoin, MayCall
      <3> QED
        BY <1>2, <3>1, <3>2, <3>3
    <2>3. Owed' = Owed
      BY <2>1 DEF Owed, Elems
    <2> QED
      BY <2>1, <2>2, <2>3, BalanceStays
  <1>3. ASSUME NEW t \in Threads, AddCount(t) PROVE Balance'
    <2>1. /\ UNCHANGED <<heap, runs, in_queue, tj>> /\ to_be_waited' = to_be_waited + 1
          /\ pc[t] = "add_count" /\ pc' = [pc EXCEPT ![t] = "add_return"]
      BY <1>3 DEF AddCount
    <2>2. Owed' = Owed /\ Counting' = Counting \ {t} /\ t \in Counting
      BY <2>1 DEF Owed, Elems, Counting
    <2>3. Cardinality(Counting \ {t}) = Cardinality(Counting) - 1
      BY <2>2, OwedIs, FS_RemoveElement
    <2> QED
      BY <2>1, <2>2, <2>3, OwedIs DEF Balance
  <1>4. ASSUME NEW t \in Threads, AddCall(t) PROVE Balance'
    <2>1. PICK j \in Jobs \ used : heap' = heap \cup {j}
      BY <1>4 DEF AddCall
    <2>2. UNCHANGED <<runs, in_queue, tj, to_be_waited>>
      BY <1>4 DEF AddCall
    <2>3. /\ runs[j] = 0 /\ j \notin Elems(in_queue) /\ \A w \in Workers : tj[w] # j
      BY DEF PoolInv, Runs, Places, TypeOK
    <2>4. Owed' = Owed
      BY <2>1, <2>2, <2>3 DEF Owed, Elems
    <2>5. \A u \in Threads : (pc'[u] = "add_count") <=> (pc[u] = "add_count")
      BY <1>4 DEF AddCall, MayCall
    <2> QED
      BY <2>2, <2>4, <2>5, BalanceStays
  <1>5. ASSUME NEW t \in Threads, AddPut(t) PROVE Balance'
    <2>1. /\ pc[t] = "add_put" /\ pc' = [pc EXCEPT ![t] = "add_count"]
          /\ in_queue' = Append(in_queue, adding[t])
          /\ UNCHANGED <<heap, runs, tj, to_be_waited>>
      BY <1>5 DEF AddPut
    <2>2. /\ adding[t] \in heap /\ adding[t] \notin Elems(in_queue) /\ runs[adding[t]] = 0
          /\ \A w \in Workers : tj[w] # adding[t]
      BY <2>1 DEF PoolInv, Places, Runs
    <2>3. Elems(in_queue)' = Elems(in_queue) \cup {adding[t]}
      <3>1. in_queue \in Seq(Jobs \cup {EOT}) /\ Once(in_queue) /\ adding[t] \in Jobs
        BY <2>2 DEF PoolInv, TypeOK, Places
      <3>2. Elems(Append(in_queue, adding[t])) = Elems(in_queue) \cup {adding[t]}
        BY <2>2, <3>1, AppendOnce
      <3> QED
        BY <2>1, <3>2 DEF Elems
    <2>4. Owed' = Owed \cup {adding[t]} /\ adding[t] \notin Owed
      BY <2>1, <2>2, <2>3 DEF Owed
    <2>5. Counting' = Counting \cup {t} /\ t \notin Counting
      BY <2>1 DEF Counting
    <2>6. /\ Cardinality(Owed \cup {adding[t]}) = Cardinality(Owed) + 1
          /\ Cardinality(Counting \cup {t}) = Cardinality(Counting) + 1
      BY <2>4, <2>5, OwedIs, FS_AddElement
    <2> QED
      BY <2>1, <2>4, <2>5, <2>6, OwedIs DEF Balance
  <1>6. ASSUME NEW t \in Threads, WaitGet(t) PROVE Balance'
    <2>1. /\ heap' = heap \ {Collected} /\ UNCHANGED <<runs, in_queue, tj>>
          /\ to_be_waited' = to_be_waited - 1
      BY <1>6 DEF WaitGet
    <2>2. Collected \in Elems(wait_queue) /\ Collected \in Owed
      BY <1>6, WaitGetInv DEF PoolInv, Places, Runs, Owed
    <2>3. Owed' = Owed \ {Collected}
      BY <2>1 DEF Owed, Elems
    <2>4. \A u \in Threads : (pc'[u] = "add_count") <=> (pc[u] = "add_count")
      BY <1>6 DEF WaitGet
    <2>5. Counting' = Counting
      BY <2>4 DEF Counting
    <2>6. Cardinality(Owed \ {Collected}) = Cardinality(Owed) - 1
      BY <2>2, OwedIs, FS_RemoveElement
    <2> QED
      BY <2>1, <2>3, <2>5, <2>6, OwedIs DEF Balance
  <1>7. ASSUME NEW t \in Threads, WorkerGet(t) PROVE Balance'
    <2>1. /\ t \in Workers /\ pc[t] = "get" /\ tj[t] = NULL
          /\ UNCHANGED <<heap, runs, to_be_waited>>
      BY <1>7 DEF WorkerGet, PoolInv, Positions
    <2>2. /\ Elems(in_queue) = Elems(in_queue)' \cup {Head(in_queue)}
          /\ IF Head(in_queue) = EOT THEN tj' = tj ELSE tj' = [tj EXCEPT ![t] = Head(in_queue)]
      BY <1>7, WorkerGetInv
    <2>3. NULL \notin heap /\ EOT \notin heap
      BY DEF PoolInv, TypeOK
    <2>4. \A j \in heap : (j \in Elems(in_queue) \/ \E w \in Workers : tj[w] = j)
                             <=> (j \in Elems(in_queue)' \/ \E w \in Workers : tj'[w] = j)
      <3>1. CASE Head(in_queue) = EOT
        BY <2>2, <2>3, <3>1
      <3>2. CASE Head(in_queue) # EOT
        <4>1. tj'[t] = Head(in_queue) /\ \A w \in Workers \ {t} : tj'[w] = tj[w]
          BY <2>1, <2>2, <3>2
        <4> QED
          BY <2>1, <2>2, <2>3, <4>1
      <3> QED
        BY <3>1, <3>2
    <2>5. Owed' = Owed
      BY <2>1, <2>4 DEF Owed
    <2>6. \A u \in Threads : (pc'[u] = "add_count") <=> (pc[u] = "add_count")
      BY <1>7 DEF WorkerGet
    <2> QED
      BY <2>1, <2>5, <2>6, BalanceStays
  <1>8. ASSUME NEW t \in Threads, WorkerRun(t) PROVE Balance'
    <2>1. /\ t \in Workers /\ pc[t] = "run" /\ tj[t] \in Jobs
          /\ runs' = [runs EXCEPT ![tj[t]] = @ + 1]
          /\ UNCHANGED <<heap, in_queue, tj, to_be_waited>>
      BY <1>8 DEF WorkerRun, PoolInv, Positions
    <2>2. runs \in [Jobs -> Nat] /\ runs[tj[t]] = 0 /\ heap \subseteq Jobs
      BY <2>1 DEF PoolInv, TypeOK, Runs
    <2>3. \A j \in heap : j # tj[t] => runs'[j] = runs[j]
      BY <2>1, <2>2
    <2>4. Owed' = Owed
      BY <2>1, <2>3 DEF Owed, Elems
    <2>5. \A u \in Threads : (pc'[u] = "add_count") <=> (pc[u] = "add_count")
      BY <1>8 DEF WorkerRun
    <2> QED
      BY <2>1, <2>4, <2>5, BalanceStays
  <1>9. ASSUME NEW t \in Threads, WorkerPut(t) PROVE Balance'
    <2>1. /\ t \in Workers /\ pc[t] = "put" /\ tj' = [tj EXCEPT ![t] = NULL]
          /\ UNCHANGED <<heap, in_queue, runs, to_be_waited>>
      BY <1>9 DEF WorkerPut
    <2>2. runs[tj[t]] = 1 /\ NULL \notin heap
      BY <1>9, WorkerPutInv DEF PoolInv, TypeOK
    <2>3. Owed' = Owed
      BY <2>1, <2>2 DEF Owed, Elems
    <2>4. \A u \in Threads : (pc'[u] = "add_count") <=> (pc[u] = "add_count")
      BY <1>9 DEF WorkerPut
    <2> QED
      BY <2>1, <2>3, <2>4, BalanceStays
  <1>10. ASSUME NEW t \in Threads, DestroyEot(t) PROVE Balance'
    <2>1. UNCHANGED <<heap, runs, tj, to_be_waited>> /\ EOT \notin heap
      BY <1>10 DEF DestroyEot, PoolInv, TypeOK
    <2>2. Elems(in_queue)' \ {EOT} = Elems(in_queue) \ {EOT}
      BY <1>10, DestroyEotInv
    <2>3. \A j \in heap : j \in Elems(in_queue)' <=> j \in Elems(in_queue)
      BY <2>1, <2>2
    <2>4. Owed' = Owed
      BY <2>1, <2>3 DEF Owed
    <2>5. \A u \in Threads : (pc'[u] = "add_count") <=> (pc[u] = "add_count")
      BY <1>10 DEF DestroyEot
    <2> QED
      BY <2>1, <2>4, <2>5, BalanceStays
  <1>11. ASSUME NEW t \in Threads, Start(t) \/ Step(t) PROVE Balance'
    BY <1>2, <1>3, <1>4, <1>5, <1>6, <1>7, <1>8, <1>9, <1>10, <1>11
    DEF Start, Step, AddStep, WaitStep, WorkerStep, DestroyStep
  <1> QED
    BY <1>1, <1>11 DEF Next, Destroyed

\* to_be_waited is the number of jobs that thp_wait still has to collect.
THEOREM CountIsRight == Spec => []Accounting
  <1>1. PoolInv /\ Balance => Accounting
    BY OwedIs DEF Balance, Accounting
  <1>2. PoolInv /\ PoolInv' /\ Balance /\ [Next]_vars => Balance'
    BY BalanceNext
  <1> QED
    BY <1>1, <1>2, PoolInit, PoolNext, BalanceInit, PTL DEF Spec

\* When thp_wait returns a count, no job is left.
LEMMA LastCollected ==
  ASSUME PoolInv, PoolInv', Balance', NEW c \in Clients, WaitGet(c), pc'[c] # "wait_get"
  PROVE  Owed' = {}
  <1> USE Apart, PoolAssumption DEF Goto, Leave, Back
  <1>0. c \in Threads
    BY DEF Threads
  <1>1. pc[c] = "wait_get" /\ \A u \in Threads \ {c} : pc'[u] = pc[u]
    BY <1>0 DEF WaitGet
  <1>2. to_be_waited' = 0
    BY <1>0, <1>1, OwedIs DEF WaitGet, MoreToWait
  <1>3. Counting' = {}
    <2>1. \A u \in Threads : pc[u] # "add_count" /\ pc'[c] # "add_count"
      BY <1>1 DEF PoolInv, Positions, WaitGet
    <2> QED
      BY <1>1, <2>1 DEF Counting
  <1>4. Cardinality(Owed') = 0
    <2>1. Cardinality(Counting') = 0
      BY <1>3, FS_EmptySet
    <2>2. IsFiniteSet(Owed') /\ Cardinality(Owed') \in Nat
      <3>1. Owed' \subseteq Jobs
        BY DEF Owed, PoolInv, TypeOK
      <3> QED
        BY <3>1, FS_Subset, FS_CardinalityType
    <2> QED
      BY <1>2, <2>1, <2>2 DEF Balance
  <1>5. IsFiniteSet(Owed')
    <2>1. Owed' \subseteq Jobs
      BY DEF Owed, PoolInv, TypeOK
    <2> QED
      BY <2>1, FS_Subset
  <1> QED
    BY <1>4, <1>5, FS_EmptySet

\* Only the thread itself ends its wait.
LEMMA WaiterMoves ==
  ASSUME PoolInv, [Next]_vars, NEW c \in Clients, pc[c] = "wait_get", pc'[c] # "wait_get"
  PROVE  WaitGet(c)
  <1> USE Apart, PoolAssumption DEF Goto, Leave
  <1>1. c \in Threads
    BY DEF Threads
  <1>2. ASSUME NEW t \in Threads, Start(t) PROVE pc[t] = "idle" /\ pc' = [pc EXCEPT ![t] = pc'[t]]
    BY <1>2 DEF Start, AddCall, AddNoMemory, WaitCall, DestroyCall, MayCall
  <1>3. ASSUME NEW t \in Threads, AddStep(t)
        PROVE  pc[t] # "wait_get" /\ pc' = [pc EXCEPT ![t] = pc'[t]]
    BY <1>3 DEF AddStep, AddLock, AddPut, AddPutFails, AddCount, AddReturn
  <1>4. ASSUME NEW t \in Threads, WorkerStep(t)
        PROVE  pc[t] # "wait_get" /\ pc' = [pc EXCEPT ![t] = pc'[t]]
    BY <1>4 DEF WorkerStep, WorkerGet, WorkerRun, WorkerPut, AddCall, AddNoMemory, MayCall
  <1>5. ASSUME NEW t \in Threads, WaitLock(t) \/ DestroyStep(t)
        PROVE  pc[t] # "wait_get" /\ pc' = [pc EXCEPT ![t] = pc'[t]]
    BY <1>5 DEF WaitLock, DestroyStep, DestroyEot, DestroyJoin
  <1>6. ASSUME NEW t \in Threads, WaitGet(t)
        PROVE  pc' = [pc EXCEPT ![t] = pc'[t]]
    BY <1>6 DEF WaitGet
  <1>7. pc' # pc
    OBVIOUS
  <1>8. PICK t \in Threads : Start(t) \/ Step(t)
    BY <1>7 DEF Next, Destroyed, vars
  <1>9. t = c
    BY <1>1, <1>2, <1>3, <1>4, <1>5, <1>6, <1>8 DEF Step, WaitStep
  <1> QED
    BY <1>2, <1>3, <1>4, <1>5, <1>8, <1>9 DEF Step, WaitStep

\* When thp_wait returns a count, every job that was added has run and been
\* freed, whichever jobs were added while it waited for the mutex.
THEOREM WaitWaitsForAll == Spec => WaitDrains
  <1> DEFINE OwedFits == Owed = InFlight \cup Lost
             Drains == \A c \in Clients :
                          (pc[c] = "wait_get" /\ pc'[c] # "wait_get") =>
                              InFlight' = {} /\ Lost' = {}
  <1>1. PoolInv => OwedFits
    BY OwedIs
  <1>2. PoolInv /\ PoolInv' /\ Balance' /\ OwedFits' /\ [Next]_vars => [Drains]_vars
    <2> SUFFICES ASSUME PoolInv, PoolInv', Balance', OwedFits', [Next]_vars,
                        NEW c \in Clients, pc[c] = "wait_get", pc'[c] # "wait_get"
                 PROVE  InFlight' = {} /\ Lost' = {}
      OBVIOUS
    <2>1. Owed' = {}
      BY WaiterMoves, LastCollected
    <2> QED
      BY <2>1
  <1>3. PoolInv /\ PoolInv' /\ Balance /\ [Next]_vars => Balance'
    BY BalanceNext
  <1> HIDE DEF OwedFits
  <1> QED
    BY <1>1, <1>2, <1>3, PoolInit, PoolNext, BalanceInit, PTL DEF Spec, WaitDrains

-----------------------------------------------------------------------------
(***************************************************************************)
(* thp_destroy, as long as there is memory.                                *)
(***************************************************************************)
\* The destroyer is alone among the clients, and past the join the workers
\* have exited.  A loop counter is 0 outside its loop.
Closing ==
    /\ \A t \in Threads : pc[t] \notin {"wait_get", "destroy_eot"} => n[t] = 0
    /\ wait_running # 0 => \E c \in Clients : pc[c] = "wait_get"
    /\ destroyer = NULL => \A c \in Clients : pc[c] \notin DestroyPCs
    /\ destroyer # NULL =>
          /\ pc[destroyer] \in DestroyPCs \cup WaitPCs
          /\ \A c \in Clients \ {destroyer} : pc[c] = "idle"
          /\ pc[destroyer] \in WaitPCs \cup {"destroyed"} => \A w \in Workers : pc[w] = "exit"

\* Every job that is allocated was put, or is about to be.
NoneForgotten == \A j \in heap : j \in Owed \/ \E t \in Threads : pc[t] \in Pending /\ adding[t] = j

\* An EOT for each worker is put; it is in the channel until the worker exits.
Ends(s) == {i \in 1..Len(s) : s[i] = EOT}
Exited  == {w \in Workers : pc[w] = "exit"}
EotsPut == IF destroyer = NULL THEN 0
           ELSE IF pc[destroyer] = "destroy_eot" THEN n[destroyer] ELSE Cardinality(Workers)
EotForEach == /\ EotsPut <= Cardinality(Workers)
              /\ Cardinality(Ends(in_queue)) + Cardinality(Exited) = EotsPut

\* thp_destroy has collected every job.
Drained == destroyer # NULL /\ pc[destroyer] = "destroyed" => Owed = {}

CloseInv == Closing /\ NoneForgotten /\ EotForEach /\ Drained

\* The ends in a channel: finitely many, one more after EOT is put, one less
\* after it is taken, as many after a job.
LEMMA EndsFacts ==
  ASSUME NEW S, NEW s \in Seq(S)
  PROVE  /\ IsFiniteSet(Ends(s)) /\ Cardinality(Ends(s)) \in Nat
         /\ \A e \in S : Cardinality(Ends(Append(s, e)))
                            = IF e = EOT THEN Cardinality(Ends(s)) + 1 ELSE Cardinality(Ends(s))
         /\ s # <<>> => Cardinality(Ends(Tail(s)))
                            = IF Head(s) = EOT THEN Cardinality(Ends(s)) - 1
                                               ELSE Cardinality(Ends(s))
  <1> DEFINE m == Len(s)
  <1>1. m \in Nat
    OBVIOUS
  <1> HIDE DEF m
  <1>2. IsFiniteSet(Ends(s)) /\ Cardinality(Ends(s)) \in Nat
    <2>1. Ends(s) \subseteq 1..m
      BY DEF Ends, m
    <2>2. IsFiniteSet(1..m)
      BY <1>1, FS_Interval
    <2> QED
      BY <2>1, <2>2, FS_Subset, FS_CardinalityType
  <1>3. ASSUME NEW e \in S
        PROVE  Cardinality(Ends(Append(s, e)))
                  = IF e = EOT THEN Cardinality(Ends(s)) + 1 ELSE Cardinality(Ends(s))
    <2>1. /\ Len(Append(s, e)) = m + 1 /\ Append(s, e)[m + 1] = e
          /\ \A i \in 1..m : Append(s, e)[i] = s[i]
      BY DEF m
    <2>2. /\ \A i \in 1..(m + 1) : i \in 1..m \/ i = m + 1
          /\ \A i \in 1..m : i \in 1..(m + 1)
          /\ m + 1 \in 1..(m + 1) /\ m + 1 \notin 1..m
      BY <1>1
    <2>3. Ends(Append(s, e)) = IF e = EOT THEN Ends(s) \cup {m + 1} ELSE Ends(s)
      <3>1. Ends(Append(s, e)) = {i \in 1..(m + 1) : Append(s, e)[i] = EOT}
        BY <2>1 DEF Ends
      <3>2. Ends(s) = {i \in 1..m : s[i] = EOT}
        BY DEF Ends, m
      <3> QED
        BY <2>1, <2>2, <3>1, <3>2
    <2>4. m + 1 \notin Ends(s)
      BY <2>2 DEF Ends, m
    <2>5. Cardinality(Ends(s) \cup {m + 1}) = Cardinality(Ends(s)) + 1
      BY <1>2, <2>4, FS_AddElement
    <2> QED
      BY <2>3, <2>5
  <1>4. ASSUME s # <<>>
        PROVE  Cardinality(Ends(Tail(s)))
                  = IF Head(s) = EOT THEN Cardinality(Ends(s)) - 1 ELSE Cardinality(Ends(s))
    <2> DEFINE T == Ends(Tail(s))
               E == Ends(s) \ {1}
               f == [i \in T |-> i + 1]
    <2>1. /\ Len(Tail(s)) = m - 1 /\ m > 0 /\ Head(s) = s[1]
          /\ \A i \in 1..(m - 1) : Tail(s)[i] = s[i + 1]
      BY <1>4 DEF m
    <2>2. T = {i \in 1..(m - 1) : s[i + 1] = EOT}
      BY <2>1 DEF Ends
    <2>3. E = {i \in 1..m : s[i] = EOT /\ i # 1}
      BY DEF Ends, m
    <2> HIDE DEF T, E
    <2>4. \A i \in T : i \in Int /\ f[i] = i + 1 /\ f[i] \in E
      BY <1>1, <2>2, <2>3
    <2>5. \A i, j \in T : f[i] = f[j] => i = j
      BY <2>4
    <2>6. \A k \in E : k - 1 \in T /\ f[k - 1] = k
      <3> SUFFICES ASSUME NEW k \in E PROVE k - 1 \in T /\ f[k - 1] = k
        OBVIOUS
      <3>1. k \in 1..m /\ k # 1 /\ s[k] = EOT /\ k \in Int
        BY <1>1, <2>3
      <3>2. k - 1 \in 1..(m - 1) /\ (k - 1) + 1 = k
        BY <1>1, <3>1
      <3>3. k - 1 \in T
        BY <2>2, <3>1, <3>2
      <3> QED
        BY <3>2, <3>3
    <2>7. f \in Bijection(T, E)
      <3>1. f \in [T -> E] /\ \A k \in E : \E i \in T : f[i] = k
        BY <2>4, <2>6
      <3> HIDE DEF f
      <3>2. f \in Injection(T, E)
        BY <2>5, <3>1 DEF Injection, IsInjective
      <3>3. f \in Surjection(T, E)
        BY <3>1 DEF Surjection
      <3> QED
        BY <3>2, <3>3 DEF Bijection
    <2>8. IsFiniteSet(T)
      <3>0. T \subseteq 1..(m - 1)
        BY <2>2
      <3>1. m - 1 \in Int /\ 1 \in Int
        BY <1>1
      <3>2. IsFiniteSet(1..(m - 1))
        BY <3>1, FS_Interval
      <3> QED
        BY <3>0, <3>2, FS_Subset
    <2>9. ExistsBijection(T, E)
      BY <2>7 DEF ExistsBijection
    <2>10. Cardinality(T) = Cardinality(E)
      BY <2>8, <2>9, FS_Bijection
    <2>11. CASE Head(s) = EOT
      <3>1. 1 \in Ends(s)
        BY <1>1, <2>1, <2>11 DEF Ends, m
      <3> QED
        BY <1>2, <2>10, <2>11, <3>1, FS_RemoveElement DEF T, E
    <2>12. CASE Head(s) # EOT
      <3>1. E = Ends(s)
        BY <2>1, <2>12 DEF Ends, E
      <3> QED
        BY <2>10, <2>12, <3>1 DEF T
    <2> QED
      BY <2>11, <2>12
  <1> QED
    BY <1>2, <1>3, <1>4

\* What remains when thp_destroy has returned.
LEMMA CloseGives ==
  ASSUME ~MemoryFails, PoolInv, CloseInv
  PROVE  DestroyedClean
  <1> USE PoolAssumption
  <1> SUFFICES ASSUME destroyer # NULL, pc[destroyer] = "destroyed"
               PROVE  /\ heap = {} /\ \A j \in used : runs[j] = 1
                      /\ \A w \in Workers : pc[w] = "exit"
                      /\ in_queue = <<>> /\ wait_queue = <<>>
    BY DEF DestroyedClean
  <1>1. \A w \in Workers : pc[w] = "exit"
    BY DEF CloseInv, Closing
  <1>2. \A t \in Threads : pc[t] \notin Pending
    <2>1. \A c \in Clients : pc[c] \in {"idle", "destroyed"}
      BY DEF CloseInv, Closing
    <2> QED
      BY <1>1, <2>1 DEF Threads
  <1>3. heap = {}
    BY <1>2 DEF CloseInv, NoneForgotten, Drained
  <1>4. \A j \in used : runs[j] = 1
    BY <1>3 DEF PoolInv, Runs
  <1>5. Elems(in_queue) \subseteq {EOT} /\ Elems(wait_queue) = {}
    BY <1>3 DEF PoolInv, Places
  <1>6. wait_queue = <<>>
    <2>1. wait_queue \in Seq(Jobs) /\ Len(wait_queue) \in Nat
      BY DEF PoolInv, TypeOK
    <2>2. Len(wait_queue) # 0 => 1 \in 1..Len(wait_queue)
      BY <2>1
    <2>3. Len(wait_queue) = 0
      BY <1>5, <2>2 DEF Elems
    <2> QED
      BY <2>1, <2>3
  <1>7. in_queue = <<>>
    <2>1. in_queue \in Seq(Jobs \cup {EOT}) /\ Len(in_queue) \in Nat
      BY DEF PoolInv, TypeOK
    <2>2. Len(in_queue) # 0 => 1 \in 1..Len(in_queue)
      BY <2>1
    <2>3. Exited = Workers
      BY <1>1 DEF Exited
    <2>4. Cardinality(Ends(in_queue)) + Cardinality(Workers) = Cardinality(Workers)
      BY <2>3 DEF CloseInv, EotForEach, EotsPut
    <2>5. Cardinality(Workers) \in Nat
      BY FS_CardinalityType
    <2>6. IsFiniteSet(Ends(in_queue)) /\ Cardinality(Ends(in_queue)) \in Nat
      BY <2>1, EndsFacts
    <2>7. Cardinality(Ends(in_queue)) = 0
      BY <2>4, <2>5, <2>6
    <2>8. Ends(in_queue) = {}
      BY <2>6, <2>7, FS_EmptySet
    <2> QED
      BY <1>5, <2>1, <2>2, <2>8 DEF Elems, Ends
  <1> QED
    BY <1>1, <1>3, <1>4, <1>6, <1>7

\* A pool that is just created is not being destroyed.
LEMMA CloseInit == Init => CloseInv
  <1> SUFFICES ASSUME Init PROVE CloseInv
    OBVIOUS
  <1> USE PoolAssumption
  <1>1. Closing
    BY DEF Init, Closing, Threads, DestroyPCs
  <1>2. NoneForgotten /\ Drained
    BY DEF Init, NoneForgotten, Drained
  <1>3. EotForEach
    <2>1. Ends(in_queue) = {} /\ Exited = {} /\ EotsPut = 0
      BY DEF Init, Ends, Exited, EotsPut, Threads
    <2>2. Cardinality(Workers) \in Nat /\ Cardinality({}) = 0
      BY FS_CardinalityType, FS_EmptySet
    <2> QED
      BY <2>1, <2>2 DEF EotForEach
  <1> QED
    BY <1>1, <1>2, <1>3 DEF CloseInv

\* Which positions a step leads from and to.
LEMMA Moves ==
  ASSUME PoolInv, NEW t \in Threads, Start(t) \/ Step(t)
  PROVE  /\ \A u \in Threads \ {t} : pc'[u] = pc[u] /\ n'[u] = n[u]
         /\ pc' = [pc EXCEPT ![t] = pc'[t]]
         /\ \/ Start(t) /\ pc[t] = "idle" /\ t \in Clients
            \/ pc[t] \notin {"idle", "exit", "destroyed"}
  <1> USE Apart, PoolAssumption DEF locals, Goto, Leave
  <1>1. CASE Start(t)
    BY <1>1 DEF Start, AddCall, AddNoMemory, WaitCall, DestroyCall, MayCall
  <1>2. CASE AddStep(t)
    BY <1>2 DEF AddStep, AddLock, AddPut, AddPutFails, AddCount, AddReturn
  <1>3. CASE WaitLock(t) \/ WaitGet(t)
    BY <1>3 DEF WaitLock, WaitGet
  <1>4. CASE WorkerStep(t)
    BY <1>4 DEF WorkerStep, WorkerGet, WorkerRun, WorkerPut, AddCall, AddNoMemory, MayCall
  <1>5. CASE DestroyStep(t)
    BY <1>5 DEF DestroyStep, DestroyEot, DestroyJoin
  <1> QED
    BY <1>1, <1>2, <1>3, <1>4, <1>5 DEF Step, WaitStep

\* Once thp_destroy has returned, nothing moves.
LEMMA NothingMoves ==
  ASSUME PoolInv, Closing, destroyer # NULL, pc[destroyer] = "destroyed",
         NEW t \in Threads, Start(t) \/ Step(t)
  PROVE  FALSE
  <1> USE Apart, PoolAssumption
  <1>1. pc[t] \in {"idle", "exit", "destroyed"}
    BY DEF Closing
  <1>2. Start(t)
    BY <1>1, Moves
  <1> QED
    BY <1>2 DEF Start, AddCall, AddNoMemory, WaitCall, DestroyCall, MayCall

\* The positions of the destroyer and of the others.
LEMMA ClosingNext ==
  ASSUME PoolInv, Closing, NEW t \in Threads, Start(t) \/ Step(t)
  PROVE  Closing'
  <1> USE Apart, PoolAssumption DEF DestroyPCs, WaitPCs, AddPCs, WorkerPCs
  <1>1. /\ \A u \in Threads \ {t} : pc'[u] = pc[u] /\ n'[u] = n[u]
        /\ pc' = [pc EXCEPT ![t] = pc'[t]]
    BY Moves
  <1>2. pc'[t] \notin {"wait_get", "destroy_eot"} => n'[t] = 0
    <2>1. CASE WaitLock(t) \/ WaitGet(t)
      BY <2>1 DEF WaitLock, WaitGet, Goto, Leave, Back, Closing
    <2>2. CASE DestroyStep(t)
      BY <2>2 DEF DestroyStep, DestroyEot, DestroyJoin, Goto, locals, Closing
    <2>3. CASE Start(t)
      BY <2>3 DEF Start, AddCall, AddNoMemory, WaitCall, DestroyCall, MayCall, locals, Closing
    <2>4. CASE AddStep(t)
      BY <2>4 DEF AddStep, AddLock, AddPut, AddPutFails, AddCount, AddReturn, locals, Closing
    <2>5. CASE WorkerStep(t)
      BY <2>5 DEF WorkerStep, WorkerGet, WorkerRun, WorkerPut, AddCall, AddNoMemory, MayCall,
                  locals, Closing
    <2> QED
      BY <2>1, <2>2, <2>3, <2>4, <2>5 DEF Step, WaitStep
  <1>3. wait_running' # 0 => \E c \in Clients : pc'[c] = "wait_get"
    <2>1. CASE WaitLock(t) \/ WaitGet(t)
      BY <1>1, <2>1 DEF WaitLock, WaitGet, Goto, Leave, Back, Closing
    <2>2. CASE ~(WaitLock(t) \/ WaitGet(t))
      <3>1. wait_running' = wait_running /\ pc[t] # "wait_get"
        <4>1. CASE Start(t)
          BY <4>1 DEF Start, AddCall, AddNoMemory, WaitCall, DestroyCall, MayCall, totals
        <4>2. CASE AddStep(t)
          BY <4>2 DEF AddStep, AddLock, AddPut, AddPutFails, AddCount, AddReturn, totals, Uncounted
        <4>3. CASE WorkerStep(t)
          BY <4>3 DEF WorkerStep, WorkerGet, WorkerRun, WorkerPut, AddCall, AddNoMemory, MayCall,
                      totals
        <4>4. CASE DestroyStep(t)
          BY <4>4 DEF DestroyStep, DestroyEot, DestroyJoin, totals
        <4> QED
          BY <2>2, <4>1, <4>2, <4>3, <4>4 DEF Step, WaitStep
      <3> QED
        BY <1>1, <3>1 DEF Closing
    <2> QED
      BY <2>1, <2>2
  <1>4. CASE DestroyCall(t)
    <2>1. /\ t \in Clients /\ destroyer = NULL /\ destroyer' = t /\ pc'[t] = "destroy_eot"
          /\ \A d \in Clients : pc[d] = "idle"
      BY <1>4 DEF DestroyCall, MayCall, Goto
    <2> QED
      BY <1>1, <1>2, <1>3, <2>1 DEF Closing
  <1>5. CASE ~DestroyCall(t)
    <2>1. destroyer' = destroyer
      <3>1. CASE Start(t)
        BY <1>5, <3>1 DEF Start, AddCall, AddNoMemory, WaitCall
      <3>2. CASE AddStep(t)
        BY <3>2 DEF AddStep, AddLock, AddPut, AddPutFails, AddCount, AddReturn
      <3>3. CASE WorkerStep(t)
        BY <3>3 DEF WorkerStep, WorkerGet, WorkerRun, WorkerPut, AddCall, AddNoMemory
      <3>4. CASE DestroyStep(t) \/ WaitStep(t)
        BY <3>4 DEF DestroyStep, DestroyEot, DestroyJoin, WaitStep, WaitLock, WaitGet
      <3> QED
        BY <3>1, <3>2, <3>3, <3>4 DEF Step
    <2>2. CASE destroyer = NULL
      <3>1. pc'[t] \notin DestroyPCs
        <4>1. CASE Start(t)
          BY <1>5, <2>2, <4>1 DEF Start, AddCall, AddNoMemory, WaitCall, Goto, Leave, Back
        <4>2. CASE AddStep(t)
          BY <2>2, <4>2 DEF AddStep, AddLock, AddPut, AddPutFails, AddCount, AddReturn,
                            Goto, Leave, Back
        <4>3. CASE WorkerStep(t)
          BY <4>3 DEF WorkerStep, WorkerGet, WorkerRun, WorkerPut, AddCall, AddNoMemory,
                      Goto, Leave, Back
        <4>4. CASE WaitStep(t)
          BY <2>2, <4>4 DEF WaitStep, WaitLock, WaitGet, Goto, Leave, Back
        <4>5. CASE DestroyStep(t)
          BY <2>2, <4>5 DEF DestroyStep, DestroyEot, DestroyJoin, Closing
        <4> QED
          BY <4>1, <4>2, <4>3, <4>4, <4>5 DEF Step
      <3> QED
        BY <1>1, <1>2, <1>3, <2>1, <2>2, <3>1 DEF Closing
    <2>3. CASE destroyer # NULL
      <3>1. destroyer \in Clients /\ destroyer \in Threads
        BY <2>3 DEF PoolInv, TypeOK
      <3>2. t = destroyer \/ t \in Workers
        <4>1. ~Start(t)
          BY <1>5, <2>3 DEF Start, AddCall, AddNoMemory, WaitCall, MayCall
        <4>2. pc[t] # "idle"
          BY <4>1, Moves
        <4> QED
          BY <2>3, <4>2 DEF Closing
      <3>3. CASE t \in Workers
        <4>1. pc[t] # "exit" /\ t # destroyer /\ pc'[destroyer] = pc[destroyer]
              /\ \A c \in Clients : pc'[c] = pc[c]
          BY <1>1, <3>1, <3>3, Moves
        <4> QED
          BY <1>1, <1>2, <1>3, <2>1, <2>3, <3>1, <3>3, <4>1 DEF Closing
      <3>4. CASE t = destroyer
        <4>1. pc[t] \in DestroyPCs \cup WaitPCs
          BY <2>3, <3>4 DEF Closing
        <4>2. /\ pc'[t] \in DestroyPCs \cup WaitPCs
              /\ pc'[t] \in WaitPCs \cup {"destroyed"} => \A w \in Workers : pc[w] = "exit"
          <5>1. CASE WaitStep(t)
            <6>1. pc[t] \in WaitPCs /\ pc'[t] \in {"wait_get", "destroyed"}
              BY <3>1, <3>4, <5>1 DEF WaitStep, WaitLock, WaitGet, Goto, Leave, Back
            <6> QED
              BY <2>3, <3>4, <6>1 DEF Closing
          <5>2. CASE DestroyStep(t)
            BY <3>1, <3>4, <5>2 DEF DestroyStep, DestroyEot, DestroyJoin, AfterJoin, Goto
          <5>3. CASE AddStep(t)
            BY <4>1, <5>3 DEF AddStep, AddLock, AddPut, AddPutFails, AddCount, AddReturn
          <5>4. CASE WorkerStep(t)
            BY <4>1, <5>4 DEF WorkerStep, WorkerGet, WorkerRun, WorkerPut, AddCall, AddNoMemory,
                              MayCall
          <5>5. CASE Start(t)
            BY <4>1, <5>5 DEF Start, AddCall, AddNoMemory, WaitCall, DestroyCall, MayCall
          <5> QED
            BY <5>1, <5>2, <5>3, <5>4, <5>5 DEF Step
        <4>3. \A w \in Workers : w # t /\ pc'[w] = pc[w]
          BY <1>1, <3>1, <3>4
        <4> QED
          BY <1>1, <1>2, <1>3, <2>1, <2>3, <3>1, <3>4, <4>2, <4>3 DEF Closing
      <3> QED
        BY <3>2, <3>3, <3>4
    <2> QED
      BY <2>2, <2>3
  <1> QED
    BY <1>4, <1>5

\* No job is forgotten.
LEMMA NoneForgottenNext ==
  ASSUME ~MemoryFails, PoolInv, PoolInv', NoneForgotten, NEW t \in Threads, Start(t) \/ Step(t)
  PROVE  NoneForgotten'
  <1> USE Apart, PoolAssumption
  <1>1. CASE AddCall(t)
    <2>1. PICK j \in Jobs \ used : heap' = heap \cup {j} /\ adding' = [adding EXCEPT ![t] = j]
      BY <1>1 DEF AddCall
    <2>2. /\ UNCHANGED <<runs, in_queue, tj>> /\ pc[t] \notin Pending
          /\ pc' = [pc EXCEPT ![t] = "add_lock"]
      BY <1>1 DEF AddCall, MayCall, Goto
    <2>3. \A i \in Owed : i \in Owed'
      BY <2>1, <2>2 DEF Owed, Elems
    <2>4. adding'[t] = j /\ \A u \in Threads \ {t} : pc'[u] = pc[u] /\ adding'[u] = adding[u]
      BY <2>1, <2>2
    <2>5. pc'[t] \in Pending
      BY <2>2
    <2> QED
      BY <2>1, <2>2, <2>3, <2>4, <2>5 DEF NoneForgotten
  <1>2. CASE AddPut(t)
    <2>1. /\ pc[t] = "add_put" /\ pc' = [pc EXCEPT ![t] = "add_count"]
          /\ in_queue' = Append(in_queue, adding[t])
          /\ UNCHANGED <<heap, runs, tj, adding>>
      BY <1>2 DEF AddPut, memory, locals, Goto
    <2>2. Elems(in_queue)' = Elems(in_queue) \cup {adding[t]}
      <3>1. in_queue \in Seq(Jobs \cup {EOT}) /\ Once(in_queue) /\ adding[t] \in Jobs
            /\ adding[t] \notin Elems(in_queue)
        BY <2>1 DEF PoolInv, TypeOK, Places
      <3>2. Elems(Append(in_queue, adding[t])) = Elems(in_queue) \cup {adding[t]}
        BY <3>1, AppendOnce
      <3> QED
        BY <2>1, <3>2 DEF Elems
    <2>3. /\ \A i \in Owed : i \in Owed'
          /\ adding[t] \in heap => adding[t] \in Owed'
      BY <2>1, <2>2 DEF Owed
    <2>4. \A u \in Threads \ {t} : pc'[u] = pc[u]
      BY <2>1
    <2> QED
      BY <2>1, <2>3, <2>4 DEF NoneForgotten
  <1>3. CASE ~AddCall(t) /\ ~AddPut(t)
    <2>1. /\ heap' \subseteq heap
          /\ \A j \in heap' : j \in Owed => j \in Owed'
      <3>1. CASE AddNoMemory(t) \/ AddLock(t) \/ AddPutFails(t) \/ AddReturn(t) \/ AddCount(t)
                 \/ WaitCall(t) \/ WaitLock(t) \/ DestroyCall(t) \/ DestroyJoin(t)
        <4>1. UNCHANGED <<heap, runs, in_queue, tj>>
          BY <3>1 DEF AddNoMemory, AddLock, AddPutFails, AddReturn, AddCount, WaitCall, WaitLock,
                      DestroyCall, DestroyJoin, memory, locals
        <4> QED
          BY <4>1 DEF Owed, Elems
      <3>2. CASE WaitGet(t)
        <4>1. heap' = heap \ {Collected} /\ UNCHANGED <<runs, in_queue, tj>>
          BY <3>2 DEF WaitGet
        <4> QED
          BY <4>1 DEF Owed, Elems
      <3>3. CASE WorkerGet(t)
        <4>1. /\ t \in Workers /\ tj[t] = NULL /\ UNCHANGED <<heap, runs>>
          BY <3>3 DEF WorkerGet, PoolInv, Positions, memory
        <4>2. /\ Elems(in_queue) = Elems(in_queue)' \cup {Head(in_queue)}
              /\ IF Head(in_queue) = EOT THEN tj' = tj ELSE tj' = [tj EXCEPT ![t] = Head(in_queue)]
          BY <3>3, WorkerGetInv
        <4>3. NULL \notin heap /\ EOT \notin heap
          BY DEF PoolInv, TypeOK
        <4>4. \A j \in heap : (j \in Elems(in_queue) \/ \E w \in Workers : tj[w] = j)
                                 => (j \in Elems(in_queue)' \/ \E w \in Workers : tj'[w] = j)
          BY <4>1, <4>2, <4>3
        <4> QED
          BY <4>1, <4>4 DEF Owed
      <3>4. CASE WorkerRun(t)
        <4>1. /\ t \in Workers /\ tj[t] \in Jobs /\ runs' = [runs EXCEPT ![tj[t]] = @ + 1]
              /\ UNCHANGED <<heap, in_queue, tj>>
          BY <3>4 DEF WorkerRun, PoolInv, Positions, memory, locals
        <4>2. runs \in [Jobs -> Nat] /\ heap \subseteq Jobs
          BY DEF PoolInv, TypeOK
        <4>3. \A j \in heap : runs[j] > 0 => runs'[j] > 0
          BY <4>1, <4>2
        <4> QED
          BY <4>1, <4>3 DEF Owed, Elems
      <3>5. CASE WorkerPut(t)
        <4>1. t \in Workers /\ tj' = [tj EXCEPT ![t] = NULL] /\ UNCHANGED <<heap, in_queue, runs>>
          BY <3>5 DEF WorkerPut, memory
        <4>2. runs[tj[t]] = 1
          BY <3>5, WorkerPutInv
        <4> QED
          BY <4>1, <4>2 DEF Owed, Elems
      <3>6. CASE DestroyEot(t)
        <4>1. UNCHANGED <<heap, runs, tj>> /\ EOT \notin heap
          BY <3>6 DEF DestroyEot, PoolInv, TypeOK, memory
        <4>2. \A j \in heap : j \in Elems(in_queue)' <=> j \in Elems(in_queue)
          BY <3>6, <4>1, DestroyEotInv
        <4> QED
          BY <4>1, <4>2 DEF Owed
      <3> QED
        BY <1>3, <3>1, <3>2, <3>3, <3>4, <3>5, <3>6
        DEF Start, Step, AddStep, WaitStep, WorkerStep, DestroyStep
    <2>2. \A u \in Threads : pc[u] \in Pending => pc'[u] \in Pending /\ adding'[u] = adding[u]
      <3>1. CASE AddLock(t)
        BY <3>1 DEF AddLock, Goto, locals
      <3>2. CASE ~AddLock(t)
        <4>1. pc[t] \notin Pending /\ \A u \in Threads \ {t} : adding'[u] = adding[u]
          <5>1. CASE AddNoMemory(t) \/ AddReturn(t) \/ AddCount(t) \/ AddPutFails(t)
            BY <5>1 DEF AddNoMemory, AddReturn, AddCount, AddPutFails, MayCall, locals
          <5>2. CASE WaitCall(t) \/ WaitLock(t) \/ WaitGet(t)
            BY <5>2 DEF WaitCall, WaitLock, WaitGet, MayCall, locals
          <5>3. CASE DestroyCall(t) \/ DestroyJoin(t) \/ DestroyEot(t)
            BY <5>3 DEF DestroyCall, DestroyJoin, DestroyEot, MayCall, locals
          <5>4. CASE WorkerGet(t) \/ WorkerRun(t) \/ WorkerPut(t)
            BY <5>4 DEF WorkerGet, WorkerRun, WorkerPut, locals
          <5> QED
            BY <1>3, <3>2, <5>1, <5>2, <5>3, <5>4
            DEF Start, Step, AddStep, WaitStep, WorkerStep, DestroyStep
        <4> QED
          BY <4>1, Moves
      <3> QED
        BY <3>1, <3>2
    <2> QED
      BY <2>1, <2>2 DEF NoneForgotten
  <1> QED
    BY <1>1, <1>2, <1>3

\* Each worker gets one end.
LEMMA EotForEachNext ==
  ASSUME ~MemoryFails, PoolInv, Closing, Closing', EotForEach, NEW t \in Threads,
         Start(t) \/ Step(t)
  PROVE  EotForEach'
  <1> USE Apart, PoolAssumption
  <1>0. /\ Cardinality(Ends(in_queue)) \in Nat /\ Cardinality(Exited) \in Nat
        /\ IsFiniteSet(Exited) /\ Cardinality(Workers) \in Nat
        /\ in_queue \in Seq(Jobs \cup {EOT})
    <2>1. in_queue \in Seq(Jobs \cup {EOT})
      BY DEF PoolInv, TypeOK
    <2>2. Exited \subseteq Workers
      BY DEF Exited
    <2>3. IsFiniteSet(Exited)
      BY <2>2, FS_Subset
    <2> QED
      BY <2>1, <2>3, EndsFacts, FS_CardinalityType
  <1>1. /\ \A u \in Threads \ {t} : pc'[u] = pc[u] /\ n'[u] = n[u]
        /\ pc' = [pc EXCEPT ![t] = pc'[t]]
    BY Moves
  <1>2. CASE WorkerGet(t)
    <2>1. /\ t \in Workers /\ pc[t] = "get" /\ in_queue # <<>> /\ in_queue' = Tail(in_queue)
          /\ pc'[t] = (IF Head(in_queue) = EOT THEN "exit" ELSE "run") /\ destroyer' = destroyer
      BY <1>2 DEF WorkerGet, Rest, IsEnd, Goto
    <2>2. EotsPut' = EotsPut
      <3>1. destroyer # NULL => destroyer # t /\ destroyer \in Threads
        BY <2>1 DEF PoolInv, TypeOK
      <3> QED
        BY <1>1, <2>1, <3>1 DEF EotsPut
    <2>3. Exited' = IF Head(in_queue) = EOT THEN Exited \cup {t} ELSE Exited
      BY <1>1, <2>1 DEF Exited
    <2>4. t \notin Exited
      BY <2>1 DEF Exited
    <2>5. Cardinality(Exited \cup {t}) = Cardinality(Exited) + 1
      BY <1>0, <2>4, FS_AddElement
    <2>6. Cardinality(Ends(Tail(in_queue)))
             = IF Head(in_queue) = EOT THEN Cardinality(Ends(in_queue)) - 1
                                       ELSE Cardinality(Ends(in_queue))
      BY <1>0, <2>1, EndsFacts
    <2>7. Ends(in_queue)' = Ends(Tail(in_queue))
      BY <2>1 DEF Ends
    <2> QED
      BY <1>0, <2>2, <2>3, <2>5, <2>6, <2>7 DEF EotForEach
  <1>3. CASE ~WorkerGet(t)
    <2>1. Exited' = Exited
      <3>1. pc[t] # "exit"
        BY Moves
      <3>2. t \in Workers => pc'[t] # "exit"
        <4> SUFFICES ASSUME t \in Workers PROVE pc'[t] # "exit"
          OBVIOUS
        <4>1. pc[t] \in WorkerPCs \cup AddPCs
          OBVIOUS
        <4>2. AddStep(t) \/ WorkerRun(t) \/ WorkerPut(t) \/ AddCall(t) \/ AddNoMemory(t)
          BY <1>3, <4>1 DEF Start, Step, WaitStep, WaitLock, WaitGet, WorkerStep, DestroyStep,
                            DestroyEot, DestroyJoin, WorkerPCs, AddPCs
        <4> QED
          BY <4>2 DEF AddStep, AddLock, AddPut, AddPutFails, AddCount, AddReturn, WorkerRun,
                      WorkerPut, AddCall, AddNoMemory, Goto, Leave, Back
      <3> QED
        BY <1>1, <3>1, <3>2 DEF Exited
    <2>2. CASE DestroyEot(t)
      <3>1. pc[t] = "destroy_eot" /\ t = destroyer /\ destroyer' = destroyer /\ t \in Clients
            /\ destroyer # NULL
        BY <2>2 DEF DestroyEot, Closing, DestroyPCs, WorkerPCs, AddPCs
      <3>2. n[t] \in Nat /\ EotsPut = n[t]
        BY <3>1 DEF EotsPut
      <3>3. CASE EotsLeft(t)
        <4>1. in_queue' = Append(in_queue, EOT) /\ n'[t] = n[t] + 1 /\ pc'[t] = "destroy_eot"
          BY <2>2, <3>3 DEF DestroyEot, WithEot, Goto
        <4>2. EotsPut' = n[t] + 1 /\ n[t] + 1 <= Cardinality(Workers)
          BY <1>0, <3>1, <3>2, <3>3, <4>1 DEF EotsPut, EotsLeft
        <4>3. Ends(in_queue)' = Ends(Append(in_queue, EOT))
          BY <4>1 DEF Ends
        <4>4. Cardinality(Ends(Append(in_queue, EOT))) = Cardinality(Ends(in_queue)) + 1
          BY <1>0, EndsFacts
        <4> QED
          BY <1>0, <2>1, <3>2, <4>2, <4>3, <4>4 DEF EotForEach
      <3>4. CASE ~EotsLeft(t)
        <4>1. in_queue' = in_queue /\ pc'[t] = "destroy_join"
          BY <2>2, <3>4 DEF DestroyEot, Goto
        <4>2. EotsPut' = Cardinality(Workers) /\ n[t] = Cardinality(Workers)
          BY <1>0, <3>1, <3>2, <3>4, <4>1 DEF EotsPut, EotsLeft, EotForEach
        <4>3. Ends(in_queue)' = Ends(in_queue)
          BY <4>1 DEF Ends
        <4> QED
          BY <1>0, <2>1, <3>2, <4>2, <4>3 DEF EotForEach
      <3> QED
        BY <3>3, <3>4
    <2>3. CASE AddPut(t)
      <3>1. /\ in_queue' = Append(in_queue, adding[t]) /\ adding[t] \in Jobs /\ adding[t] # EOT
            /\ pc[t] = "add_put" /\ destroyer' = destroyer /\ n' = n
        BY <2>3 DEF AddPut, locals, PoolInv, Positions
      <3>2. Ends(in_queue)' = Ends(Append(in_queue, adding[t]))
        BY <3>1 DEF Ends
      <3>3. Cardinality(Ends(Append(in_queue, adding[t]))) = Cardinality(Ends(in_queue))
        BY <1>0, <3>1, EndsFacts
      <3>4. EotsPut' = EotsPut
        <4>1. destroyer # NULL => destroyer # t /\ destroyer \in Threads
          BY <3>1 DEF PoolInv, TypeOK, Closing, DestroyPCs, WaitPCs
        <4> QED
          BY <1>1, <3>1, <4>1 DEF EotsPut
      <3> QED
        BY <2>1, <3>2, <3>3, <3>4 DEF EotForEach
    <2>4. CASE DestroyCall(t)
      <3>1. /\ in_queue' = in_queue /\ n' = n /\ destroyer = NULL /\ destroyer' = t
            /\ pc[t] = "idle" /\ pc'[t] = "destroy_eot"
        BY <2>4 DEF DestroyCall, MayCall, Goto, locals
      <3>2. EotsPut' = 0 /\ EotsPut = 0
        BY <3>1 DEF EotsPut, Closing
      <3>3. Ends(in_queue)' = Ends(in_queue)
        BY <3>1 DEF Ends
      <3> QED
        BY <2>1, <3>2, <3>3 DEF EotForEach
    <2>5. CASE ~DestroyEot(t) /\ ~AddPut(t) /\ ~DestroyCall(t)
      <3>1. in_queue' = in_queue /\ destroyer' = destroyer /\ pc[t] # "destroy_eot"
            /\ pc'[t] # "destroy_eot"
        <4>1. CASE AddNoMemory(t) \/ AddLock(t) \/ AddReturn(t) \/ AddCount(t) \/ AddPutFails(t)
                   \/ AddCall(t)
          BY <4>1 DEF AddNoMemory, AddLock, AddReturn, AddCount, AddPutFails, AddCall, MayCall,
                      Goto, Leave, Back
        <4>2. CASE WaitCall(t) \/ WaitLock(t) \/ WaitGet(t)
          BY <4>2 DEF WaitCall, WaitLock, WaitGet, MayCall, Goto, Leave, Back
        <4>3. CASE DestroyJoin(t)
          BY <4>3 DEF DestroyJoin, AfterJoin, Goto
        <4>4. CASE WorkerRun(t) \/ WorkerPut(t)
          BY <4>4 DEF WorkerRun, WorkerPut, Goto
        <4> QED
          BY <1>3, <2>5, <4>1, <4>2, <4>3, <4>4
          DEF Start, Step, AddStep, WaitStep, WorkerStep, DestroyStep
      <3>2. Ends(in_queue)' = Ends(in_queue)
        BY <3>1 DEF Ends
      <3>3. EotsPut' = EotsPut
        <4>1. destroyer # NULL => destroyer \in Threads
          BY DEF PoolInv, TypeOK
        <4> QED
          BY <1>1, <3>1, <4>1 DEF EotsPut
      <3> QED
        BY <2>1, <3>2, <3>3 DEF EotForEach
    <2> QED
      BY <2>2, <2>3, <2>4, <2>5
  <1> QED
    BY <1>2, <1>3

\* When thp_destroy returns, every job has been collected.
LEMMA DrainedNext ==
  ASSUME PoolInv, PoolInv', Balance, Balance', Closing, Closing', Drained, NEW t \in Threads,
         Start(t) \/ Step(t)
  PROVE  Drained'
  <1> USE Apart, PoolAssumption
  <1> SUFFICES ASSUME destroyer' # NULL, pc'[destroyer'] = "destroyed" PROVE Owed' = {}
    BY DEF Drained
  <1>1. ~(destroyer # NULL /\ pc[destroyer] = "destroyed")
    BY NothingMoves
  <1>2. destroyer' \in Clients /\ destroyer' \in Threads
    BY DEF PoolInv, TypeOK
  <1>3. destroyer' = t
    <2>1. \A u \in Threads \ {t} : pc'[u] = pc[u]
      BY Moves
    <2>2. \A c \in Clients : pc[c] = "destroyed" => destroyer # NULL /\ c = destroyer
      BY DEF Closing, DestroyPCs
    <2> QED
      BY <1>1, <1>2, <2>1, <2>2
  <1>4. WaitLock(t) \/ WaitGet(t)
    <2>1. t \in Clients /\ pc'[t] = "destroyed"
      BY <1>2, <1>3
    <2>2. ~Start(t)
      BY <2>1 DEF Start, AddCall, AddNoMemory, WaitCall, DestroyCall, MayCall, Goto, Leave, Back
    <2>3. ~AddStep(t)
      <3> SUFFICES ASSUME AddStep(t) PROVE FALSE
        OBVIOUS
      <3>1. destroyer' = destroyer /\ pc[t] \in AddPCs
        BY DEF AddStep, AddLock, AddPut, AddPutFails, AddCount, AddReturn, AddPCs
      <3> QED
        BY <1>3, <2>1, <3>1 DEF Closing, AddPCs, DestroyPCs, WaitPCs
    <2>4. ~WorkerStep(t)
      BY <2>1 DEF WorkerStep, WorkerGet, WorkerRun, WorkerPut
    <2>5. ~DestroyStep(t)
      BY <2>1 DEF DestroyStep, DestroyEot, DestroyJoin, AfterJoin, Goto
    <2> QED
      BY <2>2, <2>3, <2>4, <2>5 DEF Step, WaitStep
  <1>5. CASE WaitGet(t)
    BY <1>2, <1>3, <1>5, LastCollected
  <1>6. CASE WaitLock(t)
    <2>1. /\ pc[t] = "wait_lock" /\ pc'[t] = "destroyed" /\ destroyer = t /\ destroyer # NULL
          /\ (wait_running # 0 \/ to_be_waited = 0)
          /\ UNCHANGED <<heap, runs, in_queue, tj, to_be_waited>>
      BY <1>3, <1>6 DEF WaitLock, Goto, memory
    <2>2. /\ \A w \in Workers : pc[w] = "exit"
          /\ \A c \in Clients : pc[c] \in {"idle", "wait_lock"}
      BY <2>1 DEF Closing, WaitPCs
    <2>3. wait_running = 0
      BY <2>2 DEF Closing
    <2>4. Counting = {}
      BY <2>2 DEF Counting, Threads
    <2>5. Cardinality(Owed) = 0
      <3>1. Cardinality(Counting) = 0
        BY <2>4, FS_EmptySet
      <3> QED
        BY <2>1, <2>3, <3>1, OwedIs DEF Balance
    <2>6. Owed = {}
      BY <2>5, OwedIs, FS_EmptySet
    <2> QED
      BY <2>1, <2>6 DEF Owed, Elems
  <1> QED
    BY <1>4, <1>5, <1>6

\* Every step keeps what thp_destroy relies on.
LEMMA CloseNext ==
  ASSUME ~MemoryFails, PoolInv, PoolInv', Balance, Balance', CloseInv, [Next]_vars
  PROVE  CloseInv'
  <1>1. CASE UNCHANGED vars
    BY <1>1 DEF vars, CloseInv, Closing, NoneForgotten, EotForEach, EotsPut, Ends, Exited, Drained,
                Owed, Elems
  <1>2. ASSUME NEW t \in Threads, Start(t) \/ Step(t) PROVE CloseInv'
    <2>1. Closing'
      BY <1>2, ClosingNext DEF CloseInv
    <2> QED
      BY <1>2, <2>1, NoneForgottenNext, EotForEachNext, DrainedNext DEF CloseInv
  <1> QED
    BY <1>1, <1>2 DEF Next, Destroyed

\* While there is memory, thp_destroy leaves nothing behind: jobs that were
\* added behind the ends of transmission keep it from returning.
THEOREM DestroyLeavesNothing == ASSUME ~MemoryFails PROVE Spec => []DestroyedClean
  <1>1. PoolInv /\ PoolInv' /\ Balance /\ [Next]_vars => Balance'
    BY BalanceNext
  <1>2. PoolInv /\ PoolInv' /\ Balance /\ Balance' /\ CloseInv /\ [Next]_vars => CloseInv'
    BY CloseNext
  <1>3. PoolInv /\ CloseInv => DestroyedClean
    BY CloseGives
  <1> QED
    BY <1>1, <1>2, <1>3, PoolInit, PoolNext, BalanceInit, CloseInit, PTL DEF Spec
=============================================================================
