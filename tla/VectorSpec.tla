----------------------------- MODULE VectorSpec -----------------------------
(***************************************************************************)
(* What vector.h promises: a sequence of items.  Indices start at 0; an    *)
(* index outside of the sequence reads as NULL and changes nothing.        *)
(* v_add has no error to return: once it could not get memory the vector   *)
(* is spoilt and nothing is promised any more.                             *)
(***************************************************************************)
EXTENDS Integers, Sequences, SequencesExt

CONSTANTS Items, NULL, Indices

VARIABLES seq,    \* the items
          state,  \* "alive", "spoilt" or "destroyed"
          last    \* the last call, its arguments and its result

vars == <<seq, state, last>>

Init == seq = <<>> /\ state = "alive" /\ last = <<>>

Valid(index) == index \in 0..(Len(seq) - 1)

Add(item) ==
    /\ \/ seq' = Append(seq, item) /\ state' = "alive"
       \/ seq' = seq /\ state' = "spoilt"
    /\ last' = <<"v_add", item>>

Set(index, item) ==
    /\ seq' = IF Valid(index) THEN [seq EXCEPT ![index + 1] = item] ELSE seq
    /\ last' = <<"v_set", index, item>> /\ UNCHANGED state

Get(index) ==
    /\ last' = <<"v_get", index, IF Valid(index) THEN seq[index + 1] ELSE NULL>>
    /\ UNCHANGED <<seq, state>>

GetLen == last' = <<"v_len", Len(seq)>> /\ UNCHANGED <<seq, state>>

Delete(index) ==
    /\ seq' = IF Valid(index) THEN RemoveAt(seq, index + 1) ELSE seq
    /\ last' = <<"v_delete", index>> /\ UNCHANGED state

Destroy == seq' = <<>> /\ state' = "destroyed" /\ last' = <<"v_destroy">>

Next ==
    /\ state = "alive"
    /\ \/ \E item \in Items : Add(item)
       \/ \E index \in Indices, item \in Items : Set(index, item)
       \/ \E index \in Indices : Get(index) \/ Delete(index)
       \/ GetLen \/ Destroy

Spec == Init /\ [][Next]_vars
=============================================================================
