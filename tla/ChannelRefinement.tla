------------------------- MODULE ChannelRefinement -------------------------
(***************************************************************************)
(* ch.c implements ChannelSpec: the list is the queue, and the call of a   *)
(* thread takes effect in the step that unlocks the mutex (for ch_clean,   *)
(* in the one that locks it).  Without ch_setattr on a channel in use.     *)
(***************************************************************************)
EXTENDS Channel

qbar == IF Cleaning THEN <<>> ELSE [i \in 1..Len(queue) |-> block[queue[i]]]

Wiped == {"clean_loop", "destroy_magic", "destroy_spin"}

pendbar == [t \in Threads |->
    [call |-> op[t],
     arg  |-> IF pc[t] \in PutPCs THEN block[element[t]] ELSE NULL,
     done |-> pc[t] \in Wiped]]

Abstract == INSTANCE ChannelSpec WITH
                q <- qbar, mode <- attr, cap <- max_size, pend <- pendbar

\* The pointers, the mutex and the condition variables of ch.c together
\* behave as one atomic queue: first in first out (ch_put_head first), every
\* block delivered once, full and empty reported only when they are.
ImplementsQueue == Abstract!Spec
=============================================================================
