------------------------------- MODULE Vector -------------------------------
(***************************************************************************)
(* libvector/vector.c: an array that doubles when it is full and halves    *)
(* when it is a quarter full.  Every function is one critical section of   *)
(* vh->lock, so every function is one action.  _v_resize ignores a failing *)
(* realloc: harmless when it wanted to shrink, but v_add then writes one   *)
(* item past the end.  What happens after that write is undefined, and the *)
(* model stops there.                                                      *)
(* An operator named Bad... is a defective variant of the one it precedes. *)
(***************************************************************************)
EXTENDS Integers

CONSTANTS Items, NULL,
          JUNK,           \* what uncleared memory holds
          INIT_CAPACITY,  \* VECTOR_INIT_CAPACITY
          Dims,           \* the dimensions asked of v_create
          MaxTotal,       \* bound: v_add is not called on more items
          Indices         \* the indices that clients use, valid or not

ASSUME VectorAssumption ==
    /\ INIT_CAPACITY \in Nat \ {0}
    /\ Dims \subseteq Int /\ Indices \subseteq Int /\ MaxTotal \in Nat
    /\ NULL \notin Items /\ JUNK \notin Items \cup {NULL}

VARIABLES items, capacity, total,  \* struct vector
          destroyed,               \* v_destroy was called
          no_memory,               \* history: a growing realloc has failed
          last                     \* the last call, its arguments and its result

vars == <<items, capacity, total, destroyed, no_memory, last>>

\* v_create
InitialCapacity(dim) == IF dim > INIT_CAPACITY THEN dim ELSE INIT_CAPACITY

Init ==
    /\ \E dim \in Dims : capacity = InitialCapacity(dim)
    /\ items = [i \in 0..(capacity - 1) |-> JUNK]
    /\ total = 0
    /\ destroyed = FALSE /\ no_memory = FALSE /\ last = <<>>

\* After a write out of bounds, and after v_destroy, nothing is defined.
Usable == ~destroyed /\ total <= capacity

\* _v_resize when realloc succeeds: the first items are kept.
Resized(array, n) ==
    [i \in 0..(n - 1) |-> IF i \in DOMAIN array THEN array[i] ELSE JUNK]

\* Defect: the vector grows one item too late.
BadFull == total > capacity
Full == capacity = total

\* v_add
Add(item) ==
    /\ Usable /\ total < MaxTotal
    /\ \/ /\ ~Full
          /\ items' = [items EXCEPT ![total] = item]
          /\ UNCHANGED <<capacity, no_memory>>
       \/ /\ Full
          /\ capacity' = capacity * 2
          /\ items' = [Resized(items, capacity * 2) EXCEPT ![total] = item]
          /\ UNCHANGED no_memory
       \/ /\ Full
          /\ no_memory' = TRUE
          /\ UNCHANGED <<items, capacity>>
    /\ total' = total + 1
    /\ last' = <<"v_add", item>> /\ UNCHANGED destroyed

\* Defect: the index one past the last item is accepted.
BadInRange(index) == index >= 0 /\ index <= total
InRange(index) == index >= 0 /\ index < total

\* v_set
Set(index, item) ==
    /\ Usable
    /\ items' = IF InRange(index) THEN [items EXCEPT ![index] = item] ELSE items
    /\ last' = <<"v_set", index, item>>
    /\ UNCHANGED <<capacity, total, destroyed, no_memory>>

\* v_get
Get(index) ==
    /\ Usable
    /\ last' = <<"v_get", index, IF InRange(index) THEN items[index] ELSE NULL>>
    /\ UNCHANGED <<items, capacity, total, destroyed, no_memory>>

\* v_len
GetLen ==
    /\ Usable
    /\ last' = <<"v_len", total>>
    /\ UNCHANGED <<items, capacity, total, destroyed, no_memory>>

\* Defect: the first of them is not moved.
BadShifted(index) ==
    [i \in DOMAIN items |->
        IF i = total - 1 THEN NULL
        ELSE IF i \in (index + 1)..(total - 2) THEN items[i + 1] ELSE items[i]]
\* The loop of v_delete moves the items behind index down by one.
Shifted(index) ==
    [i \in DOMAIN items |->
        IF i = total - 1 THEN NULL
        ELSE IF i \in index..(total - 2) THEN items[i + 1] ELSE items[i]]

\* Defect: all free places are given back at once.
BadShrunkTo(cap) == cap \div 4
ShrunkTo(cap) == cap \div 2

\* A quarter full, and not empty.
Shrinks(left) == left > 0 /\ left = capacity \div 4

\* v_delete
Delete(index) ==
    /\ Usable
    /\ \/ ~InRange(index) /\ UNCHANGED <<items, capacity, total>>
       \/ /\ InRange(index)
          /\ total' = total - 1
          /\ \/ /\ items' = Shifted(index)  \* nothing to shrink, or no memory
                /\ UNCHANGED capacity
             \/ /\ Shrinks(total - 1)
                /\ capacity' = ShrunkTo(capacity)
                /\ items' = Resized(Shifted(index), ShrunkTo(capacity))
    /\ last' = <<"v_delete", index>>
    /\ UNCHANGED <<destroyed, no_memory>>

\* v_destroy
Destroy ==
    /\ Usable
    /\ destroyed' = TRUE /\ last' = <<"v_destroy">>
    /\ UNCHANGED <<items, capacity, total, no_memory>>

Stopped == ~Usable /\ UNCHANGED vars

Next ==
    \/ \E item \in Items : Add(item)
    \/ \E index \in Indices, item \in Items : Set(index, item)
    \/ \E index \in Indices : Get(index) \/ Delete(index)
    \/ GetLen \/ Destroy \/ Stopped

Spec == Init /\ [][Next]_vars
-----------------------------------------------------------------------------
\* The array has capacity places, and what was never written is never counted:
\* the first total places hold items.
TypeOK ==
    /\ capacity \in Nat \ {0} /\ total \in Nat
    /\ items \in [0..(capacity - 1) -> Items \cup {NULL, JUNK}]
    /\ \A i \in 0..(total - 1) : i < capacity => items[i] \in Items
    /\ destroyed \in BOOLEAN /\ no_memory \in BOOLEAN

\* The vector writes outside of its array only when a growing realloc failed,
\* and then by one place; no other failure and no shrinking leads there.
OverrunOnlyWithoutMemory ==
    /\ total > capacity => no_memory /\ total = capacity + 1
    /\ no_memory => total > capacity

\* Growing and shrinking leave the vector neither full nor ready to shrink:
\* alternating v_add and v_delete at a boundary does not copy it every time.
ResizeLeavesRoom ==
    [][capacity' # capacity =>
          /\ total' > capacity' \div 4
          /\ capacity' > 2 => total' < capacity']_vars

\* Whatever was grown and shrunk, the vector is the sequence of vector.h.
Abstract == INSTANCE VectorSpec
    WITH seq <- [i \in 1..(IF total > capacity THEN capacity ELSE
                           IF destroyed THEN 0 ELSE total) |-> items[i - 1]],
         state <- IF total > capacity THEN "spoilt"
                  ELSE IF destroyed THEN "destroyed" ELSE "alive"

ImplementsSequence == Abstract!Spec
=============================================================================
