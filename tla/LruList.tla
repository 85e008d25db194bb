------------------------------ MODULE LruList ------------------------------
(***************************************************************************)
(* liblru/ll.c: the slots of an LRU cache, linked by next and prev from    *)
(* last (least recently used) to top, or by next on the freelist.  Every   *)
(* function of ll.c is one critical section of ll->lock and so one action. *)
(* order and free are history variables, the two chains as sequences; no   *)
(* guard reads them.                                                       *)
(* An operator named Bad... is a defective variant of the one it precedes: *)
(* nothing uses it, it is there to show that the properties detect it.     *)
(***************************************************************************)
EXTENDS Integers, Sequences

CONSTANT Dim    \* the number of slots

ASSUME DimAssumption == Dim \in Nat \ {0}

Slots == 1..Dim     \* the array that ll_create allocates
NULL  == 0

VARIABLES top, last, freelist,   \* ll_t
          next, prev, status,    \* ll_slot_t
          order, free            \* history: last ... top, and the freelist

llvars == <<top, last, freelist, next, prev, status, order, free>>

\* IN_LIST is the status 0 of the code.
IN_FREELIST == "LL_SLOT_IN_FREELIST"
DANGLING    == "LL_SLOT_DANGLING"
IN_LIST     == "in list"

FreeLink(s) == IF s = Dim THEN NULL ELSE s + 1

\* ll_create: every slot is on the freelist, in the order of the array.
llInit ==
    /\ top = NULL /\ last = NULL
    /\ freelist = 1
    /\ next = [s \in Slots |-> FreeLink(s)]
    /\ prev = [s \in Slots |-> NULL]
    /\ status = [s \in Slots |-> IN_FREELIST]
    /\ order = <<>>
    /\ free = [s \in Slots |-> s]

\* ll_slot_new; the slot is the value of freelist before the step.
SlotNew ==
    /\ freelist # NULL
    /\ freelist' = next[freelist]
    /\ next' = [next EXCEPT ![freelist] = NULL]
    /\ prev' = [prev EXCEPT ![freelist] = NULL]
    /\ status' = [status EXCEPT ![freelist] = DANGLING]
    /\ free' = Tail(free)
    /\ UNCHANGED <<top, last, order>>

FreedStatus(s) == IN_FREELIST

FreedNext(s) == freelist

\* ll_slot_free
SlotFree(s) ==
    /\ freelist' = s
    /\ next' = [next EXCEPT ![s] = FreedNext(s)]
    /\ status' = [status EXCEPT ![s] = FreedStatus(s)]
    /\ free' = <<s>> \o free
    /\ UNCHANGED <<top, last, prev, order>>

UnlinkLast == [s \in Slots |-> IF s = next[last] THEN NULL ELSE prev[s]]

\* ll_remove_last; the slot is the value of last before the step.
RemoveLast ==
    /\ last # NULL
    /\ last' = next[last]
    /\ prev' = UnlinkLast
    /\ top' = IF next[last] = NULL THEN NULL ELSE top
    /\ status' = [status EXCEPT ![last] = DANGLING]
    /\ order' = Tail(order)
    /\ UNCHANGED <<freelist, next, free>>

\* The slot s becomes the new top, above the old one.
LinkTop(s) ==
    /\ top' = s
    /\ next' = IF top = NULL THEN next ELSE [next EXCEPT ![top] = s]
    /\ prev' = IF top = NULL THEN prev ELSE [prev EXCEPT ![s] = top]
    /\ last' = IF last = NULL THEN s ELSE last
    /\ order' = Append(order, s)

\* ll_slot_add_to_top refuses a slot that is not dangling.
AddToTop(s) ==
    IF status[s] # DANGLING
    THEN UNCHANGED llvars
    ELSE /\ LinkTop(s)
         /\ status' = [status EXCEPT ![s] = IN_LIST]
         /\ UNCHANGED <<freelist, free>>

\* Defect: a slot that was evicted meanwhile is moved all the same.
BadMovable(s) == TRUE
\* lru_check may come with a slot that another thread has just evicted.
Movable(s) == status[s] \notin {IN_FREELIST, DANGLING}

\* A sequence with s moved, or added, to its end.
Raised(seq, s) ==
    LET at == {i \in 1..Len(seq) : seq[i] = s}
        p  == CHOOSE i \in at : TRUE
        n  == Len(seq) IN
    IF at = {} THEN Append(seq, s)
    ELSE [i \in 1..n |-> IF i < p THEN seq[i] ELSE IF i < n THEN seq[i + 1] ELSE s]

\* s, in the middle of the list or last in it, is unlinked and put on top.
Relink(s) ==
    /\ top' = s
    /\ last' = IF prev[s] = NULL THEN next[s] ELSE last
    /\ next' = [x \in Slots |-> IF x = s THEN NULL
                                ELSE IF x = top THEN s
                                ELSE IF x = prev[s] THEN next[s] ELSE next[x]]
    /\ prev' = [x \in Slots |-> IF x = s THEN top
                                ELSE IF x = next[s] THEN prev[s] ELSE prev[x]]
    /\ order' = Raised(order, s)

\* ll_slot_move_to_top
MoveToTop(s) ==
    IF ~Movable(s) \/ top = s \/ (next[s] = NULL /\ prev[s] # NULL)
    THEN UNCHANGED llvars
    ELSE /\ IF next[s] = NULL THEN LinkTop(s) ELSE Relink(s)
         /\ UNCHANGED <<freelist, status, free>>

-----------------------------------------------------------------------------
Elems(seq) == {seq[i] : i \in 1..Len(seq)}

llTypeOK ==
    /\ top \in Slots \cup {NULL} /\ last \in Slots \cup {NULL}
    /\ freelist \in Slots \cup {NULL}
    /\ next \in [Slots -> Slots \cup {NULL}]
    /\ prev \in [Slots -> Slots \cup {NULL}]
    /\ status \in [Slots -> {IN_FREELIST, DANGLING, IN_LIST}]
    /\ order \in Seq(Slots) /\ free \in Seq(Slots)

\* last, top, next and prev form one doubly linked list in the order of use,
\* least recently used first: what ll_remove_last takes is the slot that was
\* added or moved to the top longest ago.
RecencyList ==
    LET n == Len(order) IN
    /\ \A i, j \in 1..n : order[i] = order[j] => i = j
    /\ last = IF n = 0 THEN NULL ELSE order[1]
    /\ top  = IF n = 0 THEN NULL ELSE order[n]
    /\ \A i \in 1..n : /\ next[order[i]] = IF i = n THEN NULL ELSE order[i + 1]
                       /\ prev[order[i]] = IF i = 1 THEN NULL ELSE order[i - 1]

\* freelist and next chain the free slots, none of them twice.
FreeChain ==
    LET n == Len(free) IN
    /\ \A i, j \in 1..n : free[i] = free[j] => i = j
    /\ freelist = IF n = 0 THEN NULL ELSE free[1]
    /\ \A i \in 1..n : next[free[i]] = IF i = n THEN NULL ELSE free[i + 1]

\* The status that ll_slot_move_to_top relies on tells where a slot really is:
\* in the list, on the freelist, or held by one thread.
StatusTells ==
    \A s \in Slots : /\ (status[s] = IN_LIST) <=> (s \in Elems(order))
                     /\ (status[s] = IN_FREELIST) <=> (s \in Elems(free))
=============================================================================
