---------------------------- MODULE VectorProofs ----------------------------
(***************************************************************************)
(* Theorems about Vector, for every capacity, bound and set of items.      *)
(***************************************************************************)
EXTENDS Vector, SequenceTheorems, TLAPS

\* The inductive invariant: only together, for a vector that wrote past its end
\* is never touched again.
Inv == TypeOK /\ OverrunOnlyWithoutMemory

\* Halving a capacity of four or more.
LEMMA HalfFacts ==
  ASSUME NEW n \in Nat, n \div 4 > 0
  PROVE  /\ n \div 2 \in Nat \ {0}
         /\ n \div 4 < n \div 2
         /\ n \div 4 > (n \div 2) \div 4
         /\ n \div 2 < n
  BY SMT

\* Resizing keeps the items that fit, and yields a type-correct array.
LEMMA ResizedFacts ==
  ASSUME NEW m \in Nat, NEW n \in Nat,
         NEW array \in [0..(m - 1) -> Items \cup {NULL, JUNK}]
  PROVE  /\ Resized(array, n) \in [0..(n - 1) -> Items \cup {NULL, JUNK}]
         /\ \A i \in 0..(n - 1) : i < m => Resized(array, n)[i] = array[i]
  BY DEF Resized

\* v_delete moves the items behind index down and leaves all others alone.
LEMMA ShiftedFacts ==
  ASSUME TypeOK, Usable, NEW index \in Int, InRange(index)
  PROVE  /\ Shifted(index) \in [0..(capacity - 1) -> Items \cup {NULL, JUNK}]
         /\ \A i \in 0..(total - 2) : /\ Shifted(index)[i] \in Items
                                      /\ Shifted(index)[i] = IF i < index THEN items[i] ELSE items[i + 1]
  <1>1. \A i \in 0..(total - 2) : Shifted(index)[i] = IF i < index THEN items[i] ELSE items[i + 1]
    BY DEF TypeOK, Usable, InRange, Shifted
  <1>2. \A i \in 0..(total - 1) : items[i] \in Items
    BY DEF TypeOK, Usable
  <1>3. Shifted(index) \in [0..(capacity - 1) -> Items \cup {NULL, JUNK}]
    BY DEF TypeOK, Usable, InRange, Shifted
  <1> QED
    BY <1>1, <1>2, <1>3 DEF TypeOK, InRange

\* v_create establishes the invariant.
LEMMA InitInv == Init => Inv
  BY VectorAssumption DEF Init, Inv, TypeOK, OverrunOnlyWithoutMemory, InitialCapacity

\* v_add keeps the invariant: it writes inside, grows, or spoils the vector.
LEMMA AddInv ==
  ASSUME Inv, NEW item \in Items, Add(item)
  PROVE  Inv'
  <1> USE DEF Inv, Usable, Full
  <1>1. /\ total \in Nat /\ capacity \in Nat \ {0} /\ total <= capacity /\ ~no_memory
        /\ total' = total + 1 /\ destroyed' = destroyed /\ ~destroyed
        /\ items \in [0..(capacity - 1) -> Items \cup {NULL, JUNK}]
        /\ \A i \in 0..(total - 1) : items[i] \in Items
    BY DEF Add, TypeOK, OverrunOnlyWithoutMemory
  <1>2. CASE ~Full /\ items' = [items EXCEPT ![total] = item]
                   /\ UNCHANGED <<capacity, no_memory>>
    BY <1>1, <1>2 DEF TypeOK, OverrunOnlyWithoutMemory
  <1>3. CASE /\ Full /\ capacity' = capacity * 2 /\ UNCHANGED no_memory
             /\ items' = [Resized(items, capacity * 2) EXCEPT ![total] = item]
    <2> DEFINE a == Resized(items, capacity * 2)
    <2>1. /\ a \in [0..(capacity * 2 - 1) -> Items \cup {NULL, JUNK}]
          /\ \A i \in 0..(capacity * 2 - 1) : i < capacity => a[i] = items[i]
      <3>1. capacity * 2 \in Nat
        BY <1>1
      <3> QED
        BY <1>1, <3>1, ResizedFacts
    <2> HIDE DEF a
    <2>2. items' = [a EXCEPT ![total] = item]
      BY <1>3 DEF a
    <2>3. /\ items' \in [0..(capacity * 2 - 1) -> Items \cup {NULL, JUNK}]
          /\ \A i \in 0..total : items'[i] \in Items
      <3>1. total \in 0..(capacity * 2 - 1) /\ 0..total \subseteq 0..(capacity * 2 - 1)
        BY <1>1, <1>3
      <3>2. \A i \in 0..total : i = total \/ (i \in 0..(total - 1) /\ i < capacity)
        BY <1>1, <1>3
      <3>3. items' \in [0..(capacity * 2 - 1) -> Items \cup {NULL, JUNK}]
        BY <2>1, <2>2
      <3>4. ASSUME NEW i \in 0..total PROVE items'[i] = IF i = total THEN item ELSE a[i]
        BY <2>1, <2>2, <3>1
      <3> QED
        BY <1>1, <2>1, <3>1, <3>2, <3>3, <3>4
    <2> QED
      BY <1>1, <1>3, <2>3 DEF TypeOK, OverrunOnlyWithoutMemory
  <1>4. CASE Full /\ no_memory' = TRUE /\ UNCHANGED <<items, capacity>>
    BY <1>1, <1>4 DEF TypeOK, OverrunOnlyWithoutMemory
  <1> QED
    BY <1>2, <1>3, <1>4 DEF Add

\* v_delete keeps the invariant: what it leaves fits into half of the array.
LEMMA DeleteInv ==
  ASSUME Inv, NEW index \in Int, Delete(index)
  PROVE  Inv'
  <1> USE DEF Inv, Usable
  <1>1. /\ total \in Nat /\ capacity \in Nat \ {0} /\ total <= capacity /\ ~no_memory
        /\ no_memory' = no_memory /\ destroyed' = destroyed /\ ~destroyed
    BY DEF Delete, TypeOK, OverrunOnlyWithoutMemory
  <1>2. CASE ~InRange(index) /\ UNCHANGED <<items, capacity, total>>
    BY <1>1, <1>2 DEF TypeOK, OverrunOnlyWithoutMemory
  <1>3. CASE InRange(index) /\ total' = total - 1 /\ items' = Shifted(index)
                            /\ UNCHANGED capacity
    BY <1>1, <1>3, ShiftedFacts DEF TypeOK, OverrunOnlyWithoutMemory, InRange
  <1>4. CASE /\ InRange(index) /\ total' = total - 1 /\ Shrinks(total - 1)
             /\ capacity' = ShrunkTo(capacity)
             /\ items' = Resized(Shifted(index), ShrunkTo(capacity))
    <2> DEFINE s == Shifted(index)
    <2>1. /\ s \in [0..(capacity - 1) -> Items \cup {NULL, JUNK}]
          /\ \A i \in 0..(total - 2) : s[i] \in Items
      BY <1>1, <1>4, ShiftedFacts DEF Delete
    <2>2. /\ capacity' \in Nat \ {0} /\ capacity' < capacity
          /\ total' \in Nat /\ total' < capacity'
      BY <1>1, <1>4, HalfFacts DEF Shrinks, ShrunkTo, InRange
    <2> HIDE DEF s
    <2>3. /\ Resized(s, ShrunkTo(capacity)) \in [0..(ShrunkTo(capacity) - 1) -> Items \cup {NULL, JUNK}]
          /\ \A i \in 0..(ShrunkTo(capacity) - 1) : i < capacity => Resized(s, ShrunkTo(capacity))[i] = s[i]
      BY <1>1, <1>4, <2>1, <2>2, ResizedFacts
    <2>4. /\ items' \in [0..(capacity' - 1) -> Items \cup {NULL, JUNK}]
          /\ \A i \in 0..(capacity' - 1) : i < capacity => items'[i] = s[i]
      BY <1>4, <2>3 DEF s
    <2> QED
      BY <1>1, <1>4, <2>1, <2>2, <2>4 DEF TypeOK, OverrunOnlyWithoutMemory
  <1> QED
    BY <1>2, <1>3, <1>4 DEF Delete

\* Every function keeps the invariant.
LEMMA NextInv == Inv /\ [Next]_vars => Inv'
  <1> SUFFICES ASSUME Inv, [Next]_vars PROVE Inv'
    OBVIOUS
  <1>1. ASSUME NEW item \in Items, Add(item) PROVE Inv'
    BY <1>1, AddInv
  <1>2. ASSUME NEW index \in Indices, NEW item \in Items, Set(index, item) PROVE Inv'
    <2>1. index \in Int
      BY VectorAssumption
    <2>2. /\ items \in [0..(capacity - 1) -> Items \cup {NULL, JUNK}]
          /\ items' \in [0..(capacity - 1) -> Items \cup {NULL, JUNK}]
          /\ \A i \in 0..(capacity - 1) : items'[i] \in {items[i], item}
      BY <1>2, <2>1 DEF Inv, TypeOK, Set
    <2> QED
      BY <1>2, <2>2 DEF Inv, TypeOK, OverrunOnlyWithoutMemory, Set
  <1>3. ASSUME NEW index \in Indices, Delete(index) PROVE Inv'
    BY <1>3, DeleteInv, VectorAssumption
  <1>4. ASSUME UNCHANGED <<items, capacity, total, no_memory>>, destroyed' \in BOOLEAN PROVE Inv'
    BY <1>4 DEF Inv, TypeOK, OverrunOnlyWithoutMemory
  <1>5. destroyed \in BOOLEAN
    BY DEF Inv, TypeOK
  <1> QED
    BY <1>1, <1>2, <1>3, <1>4, <1>5 DEF Next, Get, GetLen, Destroy, Stopped, vars

\* The array always has capacity places, and the places that count hold items.
THEOREM TypeCorrect == Spec => []TypeOK
  <1>1. Inv => TypeOK
    BY DEF Inv
  <1> QED
    BY <1>1, InitInv, NextInv, PTL DEF Spec

\* v_add is the only function that writes outside of the array, once, and only
\* when the realloc of _v_resize failed.
THEOREM OverrunNeedsFailure == Spec => []OverrunOnlyWithoutMemory
  <1>1. Inv => OverrunOnlyWithoutMemory
    BY DEF Inv
  <1> QED
    BY <1>1, InitInv, NextInv, PTL DEF Spec

\* The thresholds of v_add and v_delete are apart: no resize is undone by the
\* next call.
THEOREM NoThrashing == Spec => ResizeLeavesRoom
  <1> DEFINE Room == capacity' # capacity =>
                       /\ total' > capacity' \div 4
                       /\ capacity' > 2 => total' < capacity'
  <1>1. Inv /\ [Next]_vars => [Room]_vars
    <2> SUFFICES ASSUME Inv, Next, capacity' # capacity
                 PROVE  /\ total' > capacity' \div 4
                        /\ capacity' > 2 => total' < capacity'
      BY DEF vars
    <2>1. total \in Nat /\ capacity \in Nat \ {0}
      BY DEF Inv, TypeOK
    <2>2. ASSUME NEW item \in Items, Add(item)
          PROVE  capacity' = capacity * 2 /\ total = capacity /\ total' = total + 1
      BY <2>2 DEF Add, Full
    <2>3. ASSUME NEW index \in Indices, Delete(index)
          PROVE  capacity' = capacity \div 2 /\ total' = capacity \div 4 /\ total' > 0
      BY <2>3 DEF Delete, Shrinks, ShrunkTo
    <2>4. CASE \E item \in Items : Add(item)
      BY <2>1, <2>2, <2>4
    <2>5. CASE \E index \in Indices : Delete(index)
      BY <2>1, <2>3, <2>5, HalfFacts
    <2> QED
      BY <2>4, <2>5 DEF Next, Set, Get, GetLen, Destroy, Stopped, vars
  <1> QED
    BY <1>1, InitInv, NextInv, PTL DEF Spec, ResizeLeavesRoom

-----------------------------------------------------------------------------
(***************************************************************************)
(* The refinement.  View(array, n) is what the mapping of Vector makes of *)
(* the first n places of an array.                                         *)
(***************************************************************************)
View(array, n) == [i \in 1..n |-> array[i - 1]]

\* The length and the state of the sequence that the vector stands for.
Shown == IF total > capacity THEN capacity ELSE IF destroyed THEN 0 ELSE total
Mode == IF total > capacity THEN "spoilt" ELSE IF destroyed THEN "destroyed" ELSE "alive"

\* Places that hold items are a sequence of items.
LEMMA ViewFacts ==
  ASSUME NEW n \in Nat, NEW array, \A i \in 0..(n - 1) : array[i] \in Items
  PROVE  /\ View(array, n) \in Seq(Items)
         /\ Len(View(array, n)) = n
         /\ \A i \in 1..n : View(array, n)[i] = array[i - 1]
  <1>1. \A i \in 1..n : i - 1 \in 0..(n - 1)
    OBVIOUS
  <1> QED
    BY <1>1, IsASeq DEF View

\* A sequence without one element.
LEMMA RemoveFacts ==
  ASSUME NEW S, NEW s \in Seq(S), NEW i \in 1..Len(s)
  PROVE  /\ Abstract!RemoveAt(s, i) \in Seq(S)
         /\ Len(Abstract!RemoveAt(s, i)) = Len(s) - 1
         /\ \A j \in 1..(Len(s) - 1) :
               Abstract!RemoveAt(s, i)[j] = IF j < i THEN s[j] ELSE s[j + 1]
  <1> DEFINE a == SubSeq(s, 1, i - 1)
             b == SubSeq(s, i + 1, Len(s))
  <1>1. /\ a \in Seq(S) /\ Len(a) = i - 1
        /\ \A j \in 1..(i - 1) : a[j] = s[j]
    OBVIOUS
  <1>2. /\ b \in Seq(S) /\ Len(b) = Len(s) - i
        /\ \A j \in 1..(Len(s) - i) : b[j] = s[i + j]
    <2>1. \A j \in (i + 1)..Len(s) : s[j] \in S
      OBVIOUS
    <2> QED
      BY <2>1, SubSeqProperties, i + 1 \in Int, Len(s) \in Nat
  <1> HIDE DEF a, b
  <1>3. /\ a \o b \in Seq(S) /\ Len(a \o b) = Len(s) - 1
        /\ \A j \in 1..(Len(s) - 1) : (a \o b)[j] = IF j < i THEN a[j] ELSE b[j - (i - 1)]
    <2>1. /\ a \o b \in Seq(S) /\ Len(a \o b) = Len(a) + Len(b)
          /\ \A j \in 1..(Len(a) + Len(b)) :
                (a \o b)[j] = IF j <= Len(a) THEN a[j] ELSE b[j - Len(a)]
      BY <1>1, <1>2, ConcatProperties
    <2>2. Len(a) + Len(b) = Len(s) - 1 /\ \A j \in Int : j < i <=> j <= Len(a)
      BY <1>1, <1>2
    <2> QED
      BY <1>1, <2>1, <2>2
  <1>4. \A j \in 1..(Len(s) - 1) : (a \o b)[j] = IF j < i THEN s[j] ELSE s[j + 1]
    <2> SUFFICES ASSUME NEW j \in 1..(Len(s) - 1)
                 PROVE  (a \o b)[j] = IF j < i THEN s[j] ELSE s[j + 1]
      OBVIOUS
    <2>1. CASE j < i
      BY <1>1, <1>3, <2>1
    <2>2. CASE ~(j < i)
      <3>1. j - (i - 1) \in 1..(Len(s) - i) /\ i + (j - (i - 1)) = j + 1
        BY <2>2
      <3> QED
        BY <1>2, <1>3, <2>2, <3>1
    <2> QED
      BY <2>1, <2>2
  <1> QED
    BY <1>3, <1>4 DEF Abstract!RemoveAt, a, b

\* A vector that is alive stands for its first total items.
LEMMA AliveFacts ==
  ASSUME Inv, Usable
  PROVE  /\ total \in Nat /\ capacity \in Nat \ {0} /\ total <= capacity /\ ~destroyed
         /\ items \in [0..(capacity - 1) -> Items \cup {NULL, JUNK}]
         /\ \A i \in 0..(total - 1) : items[i] \in Items
         /\ Shown = total /\ Mode = "alive"
  BY DEF Inv, TypeOK, Usable, Shown, Mode

\* A step that keeps the vector alive turns the sequence into the one that has
\* the same length and the same items as the new array.
LEMMA ShownAfter ==
  ASSUME NEW n \in Nat, NEW s \in Seq(Items), Len(s) = n, total' = n,
         capacity' \in Nat, n <= capacity', ~destroyed',
         \A i \in 1..n : items'[i - 1] = s[i]
  PROVE  View(items, Shown)' = s /\ Mode' = "alive"
  <1>1. Shown' = n /\ Mode' = "alive"
    BY DEF Shown, Mode
  <1>2. \A i \in 0..(n - 1) : items'[i] \in Items
    <2> SUFFICES ASSUME NEW i \in 0..(n - 1) PROVE items'[i] \in Items
      OBVIOUS
    <2>1. i + 1 \in 1..n /\ (i + 1) - 1 = i
      OBVIOUS
    <2> QED
      BY <2>1
  <1> DEFINE W == View(items', n)
  <1>3. W \in Seq(Items) /\ Len(W) = n /\ \A i \in 1..n : W[i] = items'[i - 1]
    BY <1>2, ViewFacts
  <1> HIDE DEF W
  <1>4. W = s
    BY <1>3, SeqEqual
  <1> QED
    BY <1>1, <1>4 DEF W

\* v_add appends, or spoils the vector and changes no item.
LEMMA AddRefines ==
  ASSUME Inv, NEW item \in Items, Add(item)
  PROVE  Abstract!Next
  <1>1. Usable /\ total' = total + 1 /\ ~destroyed' /\ last' = <<"v_add", item>>
    BY DEF Add, Usable
  <1> DEFINE V == View(items, total)
             A == Append(V, item)
  <1>2. V \in Seq(Items) /\ Len(V) = total /\ \A i \in 1..total : V[i] = items[i - 1]
    BY <1>1, AliveFacts, ViewFacts
  <1>3. /\ A \in Seq(Items) /\ Len(A) = total + 1
        /\ \A i \in 1..total : A[i] = V[i]
        /\ A[total + 1] = item
    BY <1>2, AppendProperties
  <1> HIDE DEF V, A
  <1>4. CASE ~(Full /\ UNCHANGED <<items, capacity>>)
    <2>1. /\ items'[total] = item
          /\ \A i \in 0..(total - 1) : items'[i] = items[i]
          /\ capacity' \in Nat /\ total + 1 <= capacity'
      <3>1. CASE ~Full
        BY <1>1, <3>1, AliveFacts DEF Add, Full
      <3>2. CASE Full
        <4>1. /\ capacity * 2 \in Nat /\ total \in 0..(capacity * 2 - 1)
              /\ \A i \in 0..(total - 1) : i \in 0..(capacity * 2 - 1) /\ i < capacity /\ i # total
          BY <1>1, <3>2, AliveFacts DEF Full
        <4> DEFINE r == Resized(items, capacity * 2)
        <4>2. items' = [r EXCEPT ![total] = item] /\ capacity' = capacity * 2
          BY <1>4, <3>2 DEF Add
        <4>3. /\ r \in [0..(capacity * 2 - 1) -> Items \cup {NULL, JUNK}]
              /\ \A i \in 0..(capacity * 2 - 1) : i < capacity => r[i] = items[i]
          BY <1>1, <4>1, AliveFacts, ResizedFacts
        <4> HIDE DEF r
        <4>4. items'[total] = item
          BY <4>1, <4>2, <4>3
        <4>5. ASSUME NEW i \in 0..(total - 1) PROVE items'[i] = items[i]
          BY <4>1, <4>2, <4>3
        <4>6. capacity' \in Nat /\ total + 1 <= capacity'
          BY <1>1, <3>2, <4>2, AliveFacts DEF Full
        <4> QED
          BY <4>4, <4>5, <4>6
      <3> QED
        BY <3>1, <3>2
    <2>2. ASSUME NEW i \in 1..(total + 1) PROVE items'[i - 1] = A[i]
      <3>1. total \in Nat
        BY <1>1, AliveFacts
      <3>2. CASE i = total + 1
        BY <1>3, <2>1, <3>1, <3>2
      <3>3. CASE i \in 1..total
        <4>1. i - 1 \in 0..(total - 1)
          BY <3>1, <3>3
        <4> QED
          BY <1>2, <1>3, <2>1, <3>3, <4>1
      <3> QED
        BY <3>1, <3>2, <3>3
    <2>3. View(items, Shown)' = A /\ Mode' = "alive"
      <3>1. total + 1 \in Nat
        BY <1>1, AliveFacts
      <3> QED
        BY <1>1, <1>3, <2>1, <2>2, <3>1, ShownAfter
    <2>4. View(items, Shown)' = Append(View(items, Shown), item)
      BY <1>1, <2>3, AliveFacts DEF A, V
    <2> QED
      BY <1>1, <2>3, <2>4, AliveFacts DEF Abstract!Next, Abstract!Add, View, Shown, Mode
  <1>5. CASE Full /\ UNCHANGED <<items, capacity>>
    <2>1. Shown' = total /\ Mode' = "spoilt"
      BY <1>1, <1>5, AliveFacts DEF Shown, Mode, Full
    <2>2. View(items, Shown)' = View(items, Shown)
      BY <1>1, <1>5, <2>1, AliveFacts
    <2> QED
      BY <1>1, <2>1, <2>2, AliveFacts DEF Abstract!Next, Abstract!Add, View, Shown, Mode
  <1> QED
    BY <1>4, <1>5

\* v_set changes the item that the sequence has at this place, or nothing.
LEMMA SetRefines ==
  ASSUME Inv, NEW index \in Indices, NEW item \in Items, Set(index, item)
  PROVE  Abstract!Next
  <1>1. /\ Usable /\ total' = total /\ capacity' = capacity /\ ~destroyed'
        /\ last' = <<"v_set", index, item>> /\ index \in Int
        /\ items' = IF InRange(index) THEN [items EXCEPT ![index] = item] ELSE items
    BY VectorAssumption DEF Set, Usable
  <1> DEFINE V == View(items, total)
             E == IF InRange(index) THEN [V EXCEPT ![index + 1] = item] ELSE V
  <1>2. V \in Seq(Items) /\ Len(V) = total /\ \A i \in 1..total : V[i] = items[i - 1]
    BY <1>1, AliveFacts, ViewFacts
  <1>3. total \in Nat /\ capacity \in Nat /\ total <= capacity
    BY <1>1, AliveFacts
  <1> HIDE DEF V
  <1>4. InRange(index) => index + 1 \in 1..Len(V)
    BY <1>1, <1>2, <1>3 DEF InRange
  <1>5. /\ E \in Seq(Items) /\ Len(E) = total
        /\ \A i \in 1..total : E[i] = IF InRange(index) /\ i = index + 1 THEN item ELSE V[i]
    BY <1>1, <1>2, <1>3, <1>4, ExceptSeq
  <1> HIDE DEF E
  <1>6. ASSUME NEW i \in 1..total PROVE items'[i - 1] = E[i]
    <2>1. i - 1 \in 0..(capacity - 1) /\ (i = index + 1 <=> i - 1 = index)
      BY <1>1, <1>3
    <2> QED
      BY <1>1, <1>2, <1>5, <2>1, AliveFacts
  <1>7. View(items, Shown)' = E /\ Mode' = "alive"
    BY <1>1, <1>3, <1>5, <1>6, ShownAfter
  <1>8. InRange(index) <=> index \in 0..(Len(View(items, Shown)) - 1)
    BY <1>1, <1>2, <1>3, AliveFacts DEF InRange, V
  <1>9. View(items, Shown)' = IF index \in 0..(Len(View(items, Shown)) - 1)
                              THEN [View(items, Shown) EXCEPT ![index + 1] = item]
                              ELSE View(items, Shown)
    BY <1>1, <1>7, <1>8, AliveFacts DEF E, V
  <1> QED
    BY <1>1, <1>7, <1>9, AliveFacts DEF Abstract!Next, Abstract!Set, Abstract!Valid, View, Shown, Mode

\* v_delete takes the item out, whether or not the array shrinks.
LEMMA DeleteRefines ==
  ASSUME Inv, NEW index \in Indices, Delete(index)
  PROVE  Abstract!Next
  <1>1. /\ Usable /\ ~destroyed' /\ last' = <<"v_delete", index>> /\ index \in Int
    BY VectorAssumption DEF Delete, Usable
  <1>2. total \in Nat /\ capacity \in Nat /\ total <= capacity
    BY <1>1, AliveFacts
  <1> DEFINE V == View(items, total)
             R == Abstract!RemoveAt(V, index + 1)
  <1>3. V \in Seq(Items) /\ Len(V) = total /\ \A i \in 1..total : V[i] = items[i - 1]
    BY <1>1, AliveFacts, ViewFacts
  <1>4. InRange(index) <=> index \in 0..(Len(View(items, Shown)) - 1)
    BY <1>1, <1>2, <1>3, AliveFacts DEF InRange
  <1> HIDE DEF V
  <1>5. CASE ~InRange(index)
    <2>1. UNCHANGED <<items, capacity, total>>
      BY <1>5 DEF Delete
    <2>2. View(items, Shown)' = View(items, Shown) /\ Mode' = "alive"
      BY <1>1, <2>1, AliveFacts DEF Shown, Mode
    <2> QED
      BY <1>1, <1>4, <1>5, <2>2, AliveFacts
      DEF Abstract!Next, Abstract!Delete, Abstract!Valid, View, Shown, Mode
  <1>6. CASE InRange(index)
    <2>1. index + 1 \in 1..total /\ total - 1 \in Nat
      BY <1>1, <1>2, <1>6 DEF InRange
    <2>2. /\ R \in Seq(Items) /\ Len(R) = total - 1
          /\ \A i \in 1..(total - 1) : R[i] = IF i < index + 1 THEN V[i] ELSE V[i + 1]
      BY <1>3, <2>1, RemoveFacts
    <2> HIDE DEF R
    <2>3. /\ Shifted(index) \in [0..(capacity - 1) -> Items \cup {NULL, JUNK}]
          /\ \A i \in 0..(total - 2) :
                Shifted(index)[i] = IF i < index THEN items[i] ELSE items[i + 1]
      BY <1>1, <1>6, ShiftedFacts DEF Inv
    <2>4. /\ total' = total - 1 /\ capacity' \in Nat /\ total - 1 <= capacity'
          /\ \A i \in 0..(total - 2) : items'[i] = Shifted(index)[i]
      <3>1. CASE items' = Shifted(index) /\ UNCHANGED capacity
        BY <1>2, <1>6, <3>1 DEF Delete
      <3>2. CASE /\ Shrinks(total - 1) /\ capacity' = ShrunkTo(capacity)
                 /\ items' = Resized(Shifted(index), ShrunkTo(capacity))
        <4>1. /\ ShrunkTo(capacity) \in Nat /\ total - 1 < ShrunkTo(capacity)
              /\ ShrunkTo(capacity) < capacity
          BY <1>2, <3>2, HalfFacts DEF Shrinks, ShrunkTo
        <4>2. \A i \in 0..(ShrunkTo(capacity) - 1) :
                 i < capacity => Resized(Shifted(index), ShrunkTo(capacity))[i] = Shifted(index)[i]
          BY <1>2, <2>3, <4>1, ResizedFacts
        <4>3. \A i \in 0..(total - 2) : i \in 0..(ShrunkTo(capacity) - 1) /\ i < capacity
          BY <1>2, <4>1
        <4> QED
          BY <1>2, <1>6, <3>2, <4>1, <4>2, <4>3 DEF Delete
      <3> QED
        BY <1>6, <3>1, <3>2 DEF Delete
    <2>5. ASSUME NEW i \in 1..(total - 1) PROVE items'[i - 1] = R[i]
      <3>1. /\ i - 1 \in 0..(total - 2) /\ i \in 1..total /\ i + 1 \in 1..total
            /\ (i - 1) + 1 = i /\ (i + 1) - 1 = i /\ (i < index + 1 <=> i - 1 < index)
        BY <1>1, <1>2
      <3>2. items'[i - 1] = IF i - 1 < index THEN items[i - 1] ELSE items[i]
        BY <2>3, <2>4, <3>1
      <3> QED
        BY <1>3, <2>2, <3>1, <3>2
    <2>6. View(items, Shown)' = R /\ Mode' = "alive"
      BY <1>1, <2>1, <2>2, <2>4, <2>5, ShownAfter
    <2>7. View(items, Shown)' = Abstract!RemoveAt(View(items, Shown), index + 1)
      BY <1>1, <2>6, AliveFacts DEF R, V
    <2> QED
      BY <1>1, <1>4, <1>6, <2>6, <2>7, AliveFacts
      DEF Abstract!Next, Abstract!Delete, Abstract!Valid, View, Shown, Mode
  <1> QED
    BY <1>5, <1>6

\* v_get and v_len answer from the sequence.
LEMMA ReadRefines ==
  ASSUME Inv, (\E index \in Indices : Get(index)) \/ GetLen
  PROVE  Abstract!Next
  <1>1. Usable /\ UNCHANGED <<items, capacity, total, destroyed>>
    BY DEF Get, GetLen
  <1>2. View(items, Shown)' = View(items, Shown) /\ Mode' = Mode
    BY <1>1 DEF Shown, Mode
  <1> DEFINE V == View(items, Shown)
  <1>3. V \in Seq(Items) /\ Len(V) = total /\ \A i \in 1..total : V[i] = items[i - 1]
    BY <1>1, AliveFacts, ViewFacts
  <1>4. CASE GetLen
    <2>1. last' = <<"v_len", Len(View(items, Shown))>>
      BY <1>3, <1>4 DEF GetLen
    <2> QED
      BY <1>1, <1>2, <2>1, AliveFacts DEF Abstract!Next, Abstract!GetLen, View, Shown, Mode
  <1>5. ASSUME NEW index \in Indices, Get(index) PROVE Abstract!Next
    <2>1. total \in Nat /\ index \in Int
      BY <1>1, AliveFacts, VectorAssumption
    <2>2. InRange(index) <=> index \in 0..(Len(V) - 1)
      BY <1>3, <2>1 DEF InRange
    <2>3. InRange(index) => items[index] = V[index + 1]
      <3>1. InRange(index) => index + 1 \in 1..total /\ (index + 1) - 1 = index
        BY <2>1 DEF InRange
      <3> QED
        BY <1>3, <3>1
    <2>4. last' = <<"v_get", index, IF index \in 0..(Len(V) - 1) THEN V[index + 1] ELSE NULL>>
      BY <1>5, <2>2, <2>3 DEF Get
    <2> QED
      BY <1>1, <1>2, <2>4, AliveFacts
      DEF Abstract!Next, Abstract!Get, Abstract!Valid, View, Shown, Mode
  <1> QED
    BY <1>4, <1>5

\* Whatever is done to the array, its clients see the sequence of vector.h:
\* every behaviour of vector.c is one of VectorSpec.
THEOREM VectorIsASequence == Spec => ImplementsSequence
  <1>1. Init => Abstract!Init
    <2> SUFFICES ASSUME Init PROVE Abstract!Init
      OBVIOUS
    <2>1. total = 0 /\ ~destroyed /\ capacity \in Nat \ {0} /\ last = <<>>
      BY InitInv DEF Init, Inv, TypeOK
    <2>2. Shown = 0 /\ Mode = "alive"
      BY <2>1 DEF Shown, Mode
    <2>3. View(items, Shown) = <<>>
      BY <2>2 DEF View
    <2> QED
      BY <2>1, <2>2, <2>3 DEF Abstract!Init, View, Shown, Mode
  <1>2. Inv /\ [Next]_vars => [Abstract!Next]_(Abstract!vars)
    <2> SUFFICES ASSUME Inv, [Next]_vars
                 PROVE  Abstract!Next \/ UNCHANGED Abstract!vars
      OBVIOUS
    <2>1. CASE Destroy
      <3>1. /\ Usable /\ UNCHANGED <<items, capacity, total>> /\ destroyed'
            /\ last' = <<"v_destroy">>
        BY <2>1 DEF Destroy
      <3>2. Mode = "alive" /\ Shown' = 0 /\ Mode' = "destroyed"
        BY <3>1, AliveFacts DEF Shown, Mode
      <3>3. View(items, Shown)' = <<>>
        BY <3>2 DEF View
      <3> QED
        BY <3>1, <3>2, <3>3 DEF Abstract!Next, Abstract!Destroy, View, Shown, Mode
    <2>2. CASE UNCHANGED vars
      BY <2>2 DEF vars, Abstract!vars
    <2> QED
      BY <2>1, <2>2, AddRefines, SetRefines, DeleteRefines, ReadRefines DEF Next, Stopped
  <1> QED
    BY <1>1, <1>2, InitInv, NextInv, PTL DEF Spec, ImplementsSequence, Abstract!Spec
=============================================================================
