-------------------------- MODULE ChannelClients ---------------------------
(***************************************************************************)
(* The program that libchannel's tests MT_N_Writer_M_Reader run: writers   *)
(* put their messages, then one writer puts one CH_ENDOFTRANSMISSION for   *)
(* each reader; readers get until they receive one.  The test lets the     *)
(* other writers finish by sleeping; here that writer waits for them.      *)
(* The test puts one string again and again; here every message is a block *)
(* of its own, which tells a message that is lost, or delivered twice.     *)
(* Memory is not exhausted, and MaxSpurious bounds spurious wakeups.       *)
(***************************************************************************)
EXTENDS Channel

CONSTANTS Writers, Readers, Messages, MaxSpurious

ASSUME ClientsAssumption ==
    /\ Threads = Writers \cup Readers
    /\ Writers \cap Readers = {} /\ Writers # {} /\ Readers # {}
    /\ Messages \in Nat /\ MaxSpurious \in Nat
    \* a channel of pointers in blocking mode, as ch_create makes it
    /\ Modes = {BLOCKING} /\ ~CopyBlocks /\ Calls = {"put", "get"}
    /\ Blocks = Writers \X (1..Messages) /\ Payloads = Blocks \cup {EOT}
    \* malloc never fails: one address for each block ever put
    /\ Cardinality(Elements) >=
          Messages * Cardinality(Writers) + Cardinality(Readers)

VARIABLES sent, eots,          \* messages put by each writer, EOTs put
          received, stopped,   \* how often a reader got a message, readers done
          spurious

cvars == <<vars, sent, eots, received, stopped, spurious>>

Writer0 == CHOOSE w \in Writers : TRUE

CInit ==
    /\ Init
    /\ sent = [w \in Writers |-> 0] /\ eots = 0
    /\ received = [r \in Readers |-> [m \in Blocks |-> 0]] /\ stopped = {}
    /\ spurious = 0

\* The loop of writer().
WriterPut(w) ==
    /\ sent[w] < Messages
    /\ PutCall(w, "put", <<w, sent[w] + 1>>)
    /\ sent' = [sent EXCEPT ![w] = @ + 1]
    /\ UNCHANGED <<eots, received, stopped, spurious>>

\* Writer 0 puts an EOT for each reader once the writers have finished.
WriterEOT ==
    /\ \A w \in Writers : sent[w] = Messages /\ pc[w] = "idle"
    /\ eots < Cardinality(Readers)
    /\ PutCall(Writer0, "put", EOT)
    /\ eots' = eots + 1
    /\ UNCHANGED <<sent, received, stopped, spurious>>

\* The loop of reader().
ReaderGet(r) ==
    /\ r \notin stopped
    /\ GetCall(r)
    /\ UNCHANGED <<sent, eots, received, stopped, spurious>>

\* The call of a reader returns.
Returns(r, code) == r \in Readers /\ ret'.thread = r /\ ret'.code = code

\* A step inside the library; a reader looks at what its call returned.
LibraryStep(t) ==
    /\ Step(t)
    /\ stopped' = IF Returns(t, "CH_GET_ENDOFTRANSMISSION") THEN stopped \cup {t} ELSE stopped
    /\ received' = IF Returns(t, "CH_OK") THEN [received EXCEPT ![t][ret'.val] = @ + 1]
                                         ELSE received
    /\ UNCHANGED <<sent, eots, spurious>>

Spurious ==
    /\ spurious < MaxSpurious
    /\ \E t \in Threads : SpuriousWakeup(t)
    /\ spurious' = spurious + 1
    /\ UNCHANGED <<sent, eots, received, stopped>>

AllStopped == stopped = Readers /\ \A t \in Threads : pc[t] = "idle"

\* The threads have returned and are joined.
Joined == AllStopped /\ UNCHANGED cvars

ThreadStep(t) ==
    \/ t \in Writers /\ WriterPut(t)
    \/ t = Writer0 /\ WriterEOT
    \/ t \in Readers /\ ReaderGet(t)
    \/ LibraryStep(t)

CNext == Spurious \/ Joined \/ \E t \in Threads : ThreadStep(t)

\* Every thread is scheduled: one that can take its next step (the mutex is
\* free, it has been woken) does so unless another keeps preventing it.
CSpec == CInit /\ [][CNext]_cvars /\ \A t \in Threads : WF_cvars(ThreadStep(t))

-----------------------------------------------------------------------------
\* Every reader receives its end of transmission and every writer returns: no
\* putter and no getter of ch.c is left asleep, with one signal for each put
\* and each get, whatever the size of the channel.
EveryoneReturns == <>[]AllStopped

\* No message is delivered twice, and when all have returned, each one was
\* delivered and the channel is empty: no reader was stopped before a message
\* that was put before EOT.
AllDelivered ==
    /\ \A r, q \in Readers, m \in Blocks :
          received[r][m] # 0 /\ received[q][m] # 0 => r = q /\ received[r][m] = 1
    /\ AllStopped =>
          /\ count = 0 /\ heap = {}
          /\ \A m \in Blocks : \E r \in Readers : received[r][m] # 0
=============================================================================
