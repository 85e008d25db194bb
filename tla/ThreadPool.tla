----------------------------- MODULE ThreadPool -----------------------------
(***************************************************************************)
(* libthp/thp.c: a pool of workers fed by one channel (in_queue) and       *)
(* reporting on another (wait_queue).  Both are unlimited blocking         *)
(* channels of pointers, and ChannelRefinement shows that such a channel   *)
(* is an atomic queue: here ch_put appends, ch_get waits for an element.   *)
(* A job is named by its thp_job_t; no address is used twice, so Jobs      *)
(* bounds how many jobs are ever added.                                    *)
(* An operator named Bad... is a defective variant of the one it precedes: *)
(* nothing uses it, it is there to show that the properties detect it.     *)
(***************************************************************************)
EXTENDS Integers, Sequences, FiniteSets

CONSTANTS Clients,      \* threads that use the pool
          Workers,      \* thp->threads
          Jobs,         \* thp_job_t addresses
          EOT, NULL,
          Adders,       \* jobs whose function itself calls thp_add
          MemoryFails   \* malloc may fail, in thp.c and inside ch_put

Threads == Clients \cup Workers

ASSUME PoolAssumption ==
    /\ IsFiniteSet(Clients) /\ IsFiniteSet(Workers) /\ IsFiniteSet(Jobs)
    /\ Clients \cap Workers = {}
    /\ EOT \notin Jobs /\ NULL \notin Threads \cup Jobs \cup {EOT}
    /\ Adders \subseteq Jobs
    /\ MemoryFails \in BOOLEAN

VARIABLES in_queue, wait_queue,                    \* thp_h: the channels
          wait_running, submitted, to_be_waited,   \* thp_h: under mutex
          mutex,                                   \* its holder, or NULL
          pc,            \* per thread: position
          adding,        \* per thread: the local tj of thp_add
          tj,            \* per worker: the local tj of thp_queue_runner
          n,             \* per thread: the local loop counter or count
          destroyer,     \* the client that called thp_destroy, or NULL
          heap,          \* jobs allocated
          used, runs,    \* history: jobs ever allocated; how often each ran
          ret            \* what the last step returned, and to whom

totals  == <<wait_running, submitted, to_be_waited>>
locals  == <<adding, tj, n>>
memory  == <<heap, used>>
vars    == <<in_queue, wait_queue, wait_running, submitted, to_be_waited, mutex,
             pc, adding, tj, n, destroyer, heap, used, runs, ret>>

NoReturn == [thread |-> NULL, call |-> "none", val |-> 0]
Return(t, call, val) == ret' = [thread |-> t, call |-> call, val |-> val]

\* THP_NO_MEMORY and THP_TOO_MANY_WAIT of thp.h, CH_NO_MEMORY of ch.h.
THP_NO_MEMORY == -4
THP_TOO_MANY_WAIT == -3
CH_NO_MEMORY == -2

AddPCs     == {"add_lock", "add_put", "add_count", "add_return"}
WaitPCs    == {"wait_lock", "wait_get"}
DestroyPCs == {"destroy_eot", "destroy_join", "destroyed"}
WorkerPCs  == {"get", "run", "nested", "put", "exit"}
PCs        == {"idle"} \cup AddPCs \cup WaitPCs \cup DestroyPCs \cup WorkerPCs
HoldsMutex == {"add_put", "add_count", "wait_get"}

\* The pool that thp_create returns, all its threads started.
Init ==
    /\ in_queue = <<>> /\ wait_queue = <<>>
    /\ wait_running = 0 /\ submitted = 0 /\ to_be_waited = 0
    /\ mutex = NULL
    /\ pc = [t \in Threads |-> IF t \in Workers THEN "get" ELSE "idle"]
    /\ adding = [t \in Threads |-> NULL]
    /\ tj = [w \in Workers |-> NULL]
    /\ n = [t \in Threads |-> 0]
    /\ destroyer = NULL
    /\ heap = {} /\ used = {}
    /\ runs = [j \in Jobs |-> 0]
    /\ ret = NoReturn

Goto(t, at) == pc' = [pc EXCEPT ![t] = at] /\ ret' = NoReturn

\* Where a call returns to: the client, the function of the job that the
\* worker runs, or thp_destroy.
Back(t) == IF t \in Workers THEN "put"
           ELSE IF t = destroyer THEN "destroyed" ELSE "idle"
Leave(t, call, val) ==
    pc' = [pc EXCEPT ![t] = Back(t)] /\ Return(t, call, val)

\* No client uses the pool once it is being destroyed.
MayCall(t) == \/ t \in Clients /\ pc[t] = "idle" /\ destroyer = NULL
              \/ t \in Workers /\ pc[t] = "nested"

(***************************************************************************)
(* thp_add, called by a client or by the function of a job                 *)
(***************************************************************************)
AddCall(t) ==
    /\ MayCall(t)
    /\ \E j \in Jobs \ used :
          /\ heap' = heap \cup {j} /\ used' = used \cup {j}
          /\ adding' = [adding EXCEPT ![t] = j]
    /\ Goto(t, "add_lock")
    /\ UNCHANGED <<in_queue, wait_queue, totals, mutex, tj, n, destroyer, runs>>

AddNoMemory(t) ==
    /\ MayCall(t)
    /\ MemoryFails \/ Jobs \subseteq used
    /\ Leave(t, "thp_add", THP_NO_MEMORY)
    /\ UNCHANGED <<in_queue, wait_queue, totals, mutex, locals, destroyer,
                   memory, runs>>

AddLock(t) ==
    /\ pc[t] = "add_lock"
    /\ mutex = NULL
    /\ mutex' = t
    /\ Goto(t, "add_put")
    /\ UNCHANGED <<in_queue, wait_queue, totals, locals, destroyer, memory, runs>>

\* From here a worker may run the job, before it is counted.
AddPut(t) ==
    /\ pc[t] = "add_put"
    /\ in_queue' = Append(in_queue, adding[t])
    /\ Goto(t, "add_count")
    /\ UNCHANGED <<wait_queue, totals, mutex, locals, destroyer, memory, runs>>

\* Defect: the job is counted before the result of ch_put is looked at.
BadUncounted ==
    to_be_waited' = to_be_waited + 1 /\ UNCHANGED <<wait_running, submitted>>
Uncounted == UNCHANGED totals

\* ch_put fails: its code is returned, the job is not freed.
AddPutFails(t) ==
    /\ pc[t] = "add_put"
    /\ MemoryFails
    /\ mutex' = NULL
    /\ adding' = [adding EXCEPT ![t] = NULL]
    /\ Leave(t, "thp_add", CH_NO_MEMORY)
    /\ Uncounted
    /\ UNCHANGED <<in_queue, wait_queue, tj, n, destroyer, memory, runs>>

AddCount(t) ==
    /\ pc[t] = "add_count"
    /\ submitted' = submitted + 1
    /\ to_be_waited' = to_be_waited + 1
    /\ mutex' = NULL
    /\ adding' = [adding EXCEPT ![t] = NULL]
    /\ Goto(t, "add_return")
    /\ UNCHANGED <<in_queue, wait_queue, wait_running, tj, n, destroyer, memory,
                   runs>>

\* submitted is read again after the unlock.
AddReturn(t) ==
    /\ pc[t] = "add_return"
    /\ Leave(t, "thp_add", submitted)
    /\ UNCHANGED <<in_queue, wait_queue, totals, mutex, locals, destroyer,
                   memory, runs>>

(***************************************************************************)
(* thp_wait                                                                *)
(***************************************************************************)
WaitCall(c) ==
    /\ c \in Clients /\ MayCall(c)
    /\ Goto(c, "wait_lock")
    /\ UNCHANGED <<in_queue, wait_queue, totals, mutex, locals, destroyer,
                   memory, runs>>

\* Who has the mutex while jobs are waited for.
Holder(c) == c

\* Defect: nothing to wait for, and the return without _thp_unlock.
BadAfterEmptyWait(c) == c
\* Who has the mutex after a call that found nothing to wait for.
AfterEmptyWait(c) == NULL

WaitLock(c) ==
    /\ pc[c] = "wait_lock"
    /\ mutex = NULL
    /\ IF wait_running # 0
       THEN Leave(c, "thp_wait", THP_TOO_MANY_WAIT)
            /\ UNCHANGED <<wait_running, mutex, n>>
       ELSE IF to_be_waited = 0
       THEN /\ Leave(c, "thp_wait", 0)
            /\ mutex' = AfterEmptyWait(c)
            /\ UNCHANGED <<wait_running, n>>
       ELSE /\ wait_running' = 1
            /\ mutex' = Holder(c)
            /\ n' = [n EXCEPT ![c] = 0]
            /\ Goto(c, "wait_get")
    /\ UNCHANGED <<in_queue, wait_queue, submitted, to_be_waited, adding, tj,
                   destroyer, memory, runs>>

\* Defect: the loop stops one job early.
BadMoreToWait == to_be_waited - 1 > 1
\* The test of the while loop once a job has been collected.
MoreToWait == to_be_waited - 1 # 0

Collected == Head(wait_queue)

\* One turn of the loop; the mutex is held while ch_get waits for a job.
WaitGet(c) ==
    /\ pc[c] = "wait_get"
    /\ wait_queue # <<>>
    /\ wait_queue' = Tail(wait_queue)
    /\ heap' = heap \ {Collected}
    /\ to_be_waited' = to_be_waited - 1
    /\ IF MoreToWait
       THEN /\ n' = [n EXCEPT ![c] = @ + 1]
            /\ Goto(c, "wait_get")
            /\ UNCHANGED <<wait_running, mutex>>
       ELSE /\ wait_running' = 0
            /\ mutex' = NULL
            /\ n' = [n EXCEPT ![c] = 0]
            /\ Leave(c, "thp_wait", n[c] + 1)
    /\ UNCHANGED <<in_queue, submitted, adding, tj, destroyer, used, runs>>

(***************************************************************************)
(* thp_queue_runner                                                        *)
(***************************************************************************)
IsEnd(x) == x = EOT

\* Defect: the job stays in the channel.
BadRest == in_queue
\* in_queue after ch_get.
Rest == Tail(in_queue)

WorkerGet(w) ==
    /\ w \in Workers /\ pc[w] = "get"
    /\ in_queue # <<>>
    /\ in_queue' = Rest
    /\ IF IsEnd(Head(in_queue))
       THEN Goto(w, "exit") /\ UNCHANGED tj
       ELSE Goto(w, "run") /\ tj' = [tj EXCEPT ![w] = Head(in_queue)]
    /\ UNCHANGED <<wait_queue, totals, mutex, adding, n, destroyer, memory, runs>>

WorkerRun(w) ==
    /\ w \in Workers /\ pc[w] = "run"
    /\ runs' = [runs EXCEPT ![tj[w]] = @ + 1]
    /\ Goto(w, IF tj[w] \in Adders THEN "nested" ELSE "put")
    /\ UNCHANGED <<in_queue, wait_queue, totals, mutex, locals, destroyer, memory>>

\* The result of ch_put is ignored: when it fails nobody hears of the job.
WorkerPut(w) ==
    /\ w \in Workers /\ pc[w] = "put"
    /\ \/ wait_queue' = Append(wait_queue, tj[w])
       \/ MemoryFails /\ UNCHANGED wait_queue
    /\ tj' = [tj EXCEPT ![w] = NULL]
    /\ Goto(w, "get")
    /\ UNCHANGED <<in_queue, totals, mutex, adding, n, destroyer, memory, runs>>

(***************************************************************************)
(* thp_destroy, called when the other clients have finished                *)
(***************************************************************************)
DestroyCall(c) ==
    /\ c \in Clients /\ MayCall(c)
    /\ \A d \in Clients : pc[d] = "idle"
    /\ destroyer' = c
    /\ Goto(c, "destroy_eot")
    /\ UNCHANGED <<in_queue, wait_queue, totals, mutex, locals, memory, runs>>

\* Defect: one EOT too few.
BadEotsLeft(c) == n[c] + 1 < Cardinality(Workers)
EotsLeft(c) == n[c] < Cardinality(Workers)

\* Defect: the EOT overtakes the jobs that are queued.
BadWithEot == <<EOT>> \o in_queue
WithEot == Append(in_queue, EOT)

\* One turn of the loop that puts an EOT for each worker.
DestroyEot(c) ==
    /\ pc[c] = "destroy_eot"
    /\ IF EotsLeft(c)
       THEN /\ \/ in_queue' = WithEot
               \/ MemoryFails /\ UNCHANGED in_queue
            /\ n' = [n EXCEPT ![c] = @ + 1]
            /\ Goto(c, "destroy_eot")
       ELSE /\ n' = [n EXCEPT ![c] = 0]
            /\ Goto(c, "destroy_join")
            /\ UNCHANGED in_queue
    /\ UNCHANGED <<wait_queue, totals, mutex, adding, tj, destroyer, memory, runs>>

\* Defect: thp_wait is not called.
BadAfterJoin == "destroyed"
AfterJoin == "wait_lock"

\* The workers are joined; what they completed is waited for by thp_wait.
DestroyJoin(c) ==
    /\ pc[c] = "destroy_join"
    /\ \A w \in Workers : pc[w] = "exit"
    /\ Goto(c, AfterJoin)
    /\ UNCHANGED <<in_queue, wait_queue, totals, mutex, locals, destroyer,
                   memory, runs>>

\* The pool is gone and nothing runs any more.
Destroyed ==
    /\ \E c \in Clients : pc[c] = "destroyed"
    /\ UNCHANGED vars

-----------------------------------------------------------------------------
AddStep(t)     == AddLock(t) \/ AddPut(t) \/ AddPutFails(t) \/ AddCount(t)
                  \/ AddReturn(t)
WaitStep(c)    == WaitLock(c) \/ WaitGet(c)
WorkerStep(w)  == \/ WorkerGet(w) \/ WorkerRun(w) \/ WorkerPut(w)
                  \/ w \in Workers /\ (AddCall(w) \/ AddNoMemory(w))
DestroyStep(c) == DestroyEot(c) \/ DestroyJoin(c)
Step(t)        == AddStep(t) \/ WaitStep(t) \/ WorkerStep(t) \/ DestroyStep(t)

Start(c) == c \in Clients /\ (\/ AddCall(c) \/ AddNoMemory(c)
                              \/ WaitCall(c) \/ DestroyCall(c))

Next == Destroyed \/ \E t \in Threads : Start(t) \/ Step(t)

Spec == Init /\ [][Next]_vars

\* Every thread is scheduled, and the function of a job returns.
FairSpec == Spec /\ \A t \in Threads : WF_vars(Step(t))

-----------------------------------------------------------------------------
Elems(s)  == {s[i] : i \in 1..Len(s)}
Running   == {w \in Workers : tj[w] # NULL}
\* Jobs pushed, run or run and not yet waited for.
InFlight  == (Elems(in_queue) \ {EOT}) \cup {tj[w] : w \in Running}
                \cup Elems(wait_queue)
\* Jobs that ran and whose ch_put to wait_queue failed.
Lost      == {j \in heap \ InFlight : runs[j] > 0}
Counting  == {t \in Threads : pc[t] = "add_count"}

\* The variables of the pool and of its threads have their types.
TypeOK ==
    /\ in_queue \in Seq(Jobs \cup {EOT}) /\ wait_queue \in Seq(Jobs)
    /\ wait_running \in {0, 1} /\ submitted \in Nat /\ to_be_waited \in Int
    /\ mutex \in Threads \cup {NULL}
    /\ pc \in [Threads -> PCs]
    /\ adding \in [Threads -> Jobs \cup {NULL}]
    /\ tj \in [Workers -> Jobs \cup {NULL}]
    /\ n \in [Threads -> Nat]
    /\ destroyer \in Clients \cup {NULL}
    /\ heap \subseteq used /\ used \subseteq Jobs
    /\ runs \in [Jobs -> Nat]

\* to_be_waited is the number of jobs that thp_wait still has to collect,
\* although workers move jobs through the channels without the mutex and a job
\* may be completed before thp_add has counted it.  A job whose completion
\* could not be queued stays counted.
Accounting ==
    to_be_waited + Cardinality(Counting) = Cardinality(InFlight \cup Lost)

\* No job is in two places and none that is queued, run or waited for has been
\* freed: a worker never calls through a thp_job_t that thp_wait has freed.
OnePlace ==
    /\ \A i, j \in 1..Len(in_queue) :
          in_queue[i] = in_queue[j] /\ in_queue[i] # EOT => i = j
    /\ \A i, j \in 1..Len(wait_queue) : wait_queue[i] = wait_queue[j] => i = j
    /\ \A v, w \in Running : tj[v] = tj[w] => v = w
    /\ \A w \in Running : tj[w] \notin Elems(in_queue) \cup Elems(wait_queue)
    /\ Elems(in_queue) \cap Elems(wait_queue) = {}
    /\ InFlight \subseteq heap

\* A job's function is called once: not before it is queued, never again
\* once it is in wait_queue or freed.
RunOnce ==
    /\ \A j \in Jobs : runs[j] <= 1
    /\ \A j \in Elems(in_queue) \ {EOT} : runs[j] = 0
    /\ \A j \in Elems(wait_queue) : runs[j] = 1
    /\ \A j \in used \ heap : runs[j] = 1
    /\ \A t \in Threads : adding[t] # NULL /\ pc[t] # "add_count" =>
          runs[adding[t]] = 0

\* A job is allocated, queued, run, waited for and freed once, in this order,
\* whatever workers and clients do meanwhile.
JobsSound == TypeOK /\ OnePlace /\ RunOnce

\* When thp_wait returns a count, every job that was added has run and been
\* freed: "wait that all jobs terminate" (libthp/README.md).
WaitDrains ==
    [][\A c \in Clients :
         (pc[c] = "wait_get" /\ pc'[c] # "wait_get") =>
             InFlight' = {} /\ Lost' = {}]_vars

\* Everyone waits on everyone only where the code cannot help it: thp_wait has
\* the mutex and waits for a job whose function waits in thp_add for the mutex,
\* or for a completion that could not be queued, or, in thp_destroy, for a job
\* that was added behind the ends of transmission; or thp_destroy joins a
\* worker whose end of transmission could not be queued.
StuckOnlyThere ==
    ~ENABLED Next =>
        \/ \E c \in Clients :
              /\ pc[c] = "wait_get"
              /\ \/ \E w \in Workers : pc[w] = "add_lock"
                 \/ Lost # {}
                 \/ c = destroyer /\ Elems(in_queue) \ {EOT} # {}
        \/ \E c \in Clients :
              /\ pc[c] = "destroy_join" /\ MemoryFails /\ in_queue = <<>>
              /\ \E w \in Workers : pc[w] = "get"

\* thp_destroy leaves nothing behind: every job that was added has run, its
\* memory is freed, the workers have exited and the channels are empty.
DestroyedClean ==
    destroyer # NULL /\ pc[destroyer] = "destroyed" =>
        /\ heap = {} /\ \A j \in used : runs[j] = 1
        /\ \A w \in Workers : pc[w] = "exit"
        /\ in_queue = <<>> /\ wait_queue = <<>>

\* Every thp_wait returns: its holding the mutex does not stop the workers.
WaitReturns ==
    \A c \in Clients : pc[c] \in WaitPCs ~> pc[c] \notin WaitPCs

\* thp_destroy returns: every worker receives its EOT and exits.
DestroyReturns ==
    \A c \in Clients : pc[c] = "destroy_eot" ~> pc[c] = "destroyed"

\* No caller waits for ever for workers that wait for it.
CallsReturn == WaitReturns /\ DestroyReturns

\* A job that thp_add accepted is run.
EveryJobRuns ==
    \A j \in Jobs : j \in Elems(in_queue) ~> runs[j] = 1
=============================================================================
