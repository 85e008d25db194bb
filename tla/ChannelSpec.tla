---------------------------- MODULE ChannelSpec ----------------------------
(***************************************************************************)
(* What ch.h promises its clients: a queue of blocks on which every call   *)
(* takes effect in one step between its start and its return.  A put on a  *)
(* full channel and a get on an empty one wait, or return at once when the *)
(* channel is not blocking.                                                *)
(***************************************************************************)
EXTENDS Integers, Sequences

CONSTANTS Threads, Blocks, EOT, NULL, Modes, Sizes

VARIABLES q,        \* the blocks in the channel, next to be delivered first
          mode,     \* CH_BLOCKING_MODE
          cap,      \* CH_FIXED_SIZE, 0 when unlimited
          pend,     \* per thread, the call it is in
          ret       \* what the last step returned

vars == <<q, mode, cap, pend, ret>>

NonBlocking == 0   \* CH_ATTR_NON_BLOCKING_GETPUT
Idle     == [call |-> "none", arg |-> NULL, done |-> FALSE]
NoReturn == [thread |-> NULL, call |-> "none", code |-> "CH_OK", val |-> NULL]
BlockedCalls == {"put", "put_head", "get", "clean", "destroy"}

Init ==
    /\ q = <<>>
    /\ mode \in Modes /\ cap \in Sizes
    /\ pend = [t \in Threads |-> Idle]
    /\ ret = NoReturn

Answer(t, call, code, val) ==
    ret' = [thread |-> t, call |-> call, code |-> code, val |-> val]

Finish(t, code, val) ==
    /\ pend' = [pend EXCEPT ![t] = Idle]
    /\ Answer(t, pend[t].call, code, val)

Pending(t, calls) == pend[t].call \in calls /\ ~pend[t].done

Call(t) ==
    /\ pend[t] = Idle
    /\ \E call \in BlockedCalls, b \in Blocks \cup {EOT, NULL} :
          /\ (b # NULL) <=> (call \in {"put", "put_head"})
          /\ pend' = [pend EXCEPT ![t] =
                        [call |-> call, arg |-> b, done |-> FALSE]]
    /\ ret' = NoReturn
    /\ UNCHANGED q

\* A call that is refused changes nothing.
Reject(t) ==
    /\ pend[t] = Idle
    /\ \E call \in BlockedCalls \cup {"peek", "setattr", "getattr"},
          code \in {"CH_BAD_HANDLE", "CH_WRONG_PARAM", "CH_NO_MEMORY",
                    "CH_WRONG_ATTR", "CH_FREE_NOT_REQUESTED"} :
             Answer(t, call, code, NULL)
    /\ UNCHANGED <<q, pend>>

Room == cap = 0 \/ Len(q) < cap

Put(t) ==
    /\ Pending(t, {"put", "put_head"})
    /\ Room
    /\ q' = IF pend[t].call = "put" THEN Append(q, pend[t].arg)
                                    ELSE <<pend[t].arg>> \o q
    /\ Finish(t, "CH_OK", Len(q) + 1)

PutFull(t) ==
    /\ Pending(t, {"put", "put_head"})
    /\ ~Room
    /\ mode = NonBlocking
    /\ Finish(t, "CH_PUT_CHANNEL_FULL", NULL)
    /\ UNCHANGED q

Get(t) ==
    /\ Pending(t, {"get"})
    /\ q # <<>>
    /\ q' = Tail(q)
    /\ IF Head(q) = EOT THEN Finish(t, "CH_GET_ENDOFTRANSMISSION", NULL)
                        ELSE Finish(t, "CH_OK", Head(q))

GetEmpty(t) ==
    /\ Pending(t, {"get"})
    /\ q = <<>>
    /\ mode = NonBlocking
    /\ Finish(t, "CH_GET_NODATA", NULL)
    /\ UNCHANGED q

Peek(t) ==
    /\ pend[t] = Idle
    /\ \/ q = <<>> /\ Answer(t, "peek", "CH_GET_NODATA", NULL)
       \/ /\ q # <<>>
          /\ IF Head(q) = EOT
             THEN Answer(t, "peek", "CH_GET_ENDOFTRANSMISSION", NULL)
             ELSE Answer(t, "peek", "CH_OK", Head(q))
    /\ UNCHANGED <<q, pend>>

GetAttr(t) ==
    /\ pend[t] = Idle
    /\ \E val \in {Len(q), mode, cap} : Answer(t, "getattr", "CH_OK", val)
    /\ UNCHANGED <<q, pend>>

\* The channel is emptied at one point of ch_clean, and so of ch_destroy.
Wipe(t) ==
    /\ Pending(t, {"clean", "destroy"})
    /\ q' = <<>>
    /\ \/ /\ pend' = [pend EXCEPT ![t].done = TRUE]
          /\ ret' = NoReturn
       \/ Finish(t, "CH_OK", NULL)

WipeReturn(t) ==
    /\ pend[t].done
    /\ Finish(t, "CH_OK", NULL)
    /\ UNCHANGED q

\* A step inside a call that no client can see.
Silent == ret' = NoReturn /\ UNCHANGED <<q, pend>>

Next ==
    /\ \/ Silent
       \/ \E t \in Threads :
             \/ Call(t) \/ Reject(t) \/ Put(t) \/ PutFull(t)
             \/ Get(t) \/ GetEmpty(t) \/ Peek(t) \/ GetAttr(t)
             \/ Wipe(t) \/ WipeReturn(t)
    /\ UNCHANGED <<mode, cap>>

Spec == Init /\ [][Next]_vars
=============================================================================
