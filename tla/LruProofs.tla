----------------------------- MODULE LruProofs -----------------------------
(***************************************************************************)
(* Theorems about Lru, for every number of slots, threads, keys and locks. *)
(* First, what every function of ll.c keeps of the two chains of LruList:  *)
(* the hypotheses of such a lemma are what lru.c has to see to before the  *)
(* call.  Then lru.c, which does.                                          *)
(***************************************************************************)
EXTENDS Lru, SequenceTheorems, FiniteSetTheorems, TLAPS

\* The shape of the list, of the freelist, and the status that tells them apart.
ListInv == llTypeOK /\ RecencyList /\ FreeChain /\ StatusTells

-----------------------------------------------------------------------------
(***************************************************************************)
(* Sequences without duplicates.                                           *)
(***************************************************************************)
Injective(seq) == \A i, j \in 1..Len(seq) : seq[i] = seq[j] => i = j

\* A new slot at the end, as order after LinkTop.
LEMMA AppendFacts ==
  ASSUME NEW S, NEW s \in Seq(S), NEW e \in S, Injective(s), e \notin Elems(s)
  PROVE  /\ Append(s, e) \in Seq(S) /\ Len(Append(s, e)) = Len(s) + 1
         /\ \A i \in 1..Len(s) : Append(s, e)[i] = s[i]
         /\ Append(s, e)[Len(s) + 1] = e
         /\ Injective(Append(s, e))
         /\ Elems(Append(s, e)) = Elems(s) \cup {e}
  <1> DEFINE a == Append(s, e)
  <1>1. /\ a \in Seq(S) /\ Len(a) = Len(s) + 1 /\ Len(s) \in Nat
        /\ \A i \in 1..Len(s) : a[i] = s[i]
        /\ a[Len(s) + 1] = e
    BY AppendProperties
  <1> HIDE DEF a
  <1>2. \A i \in 1..Len(a) : i = Len(s) + 1 \/ i \in 1..Len(s)
    BY <1>1
  <1>3. Injective(a)
    BY <1>1, <1>2 DEF Injective, Elems
  <1>4. Elems(a) = Elems(s) \cup {e}
    <2>1. \A i \in 1..Len(s) : i \in 1..Len(a)
      BY <1>1
    <2>2. Len(s) + 1 \in 1..Len(a)
      BY <1>1
    <2> QED
      BY <1>1, <1>2, <2>1, <2>2 DEF Elems
  <1> QED
    BY <1>1, <1>3, <1>4 DEF a

\* A new slot in front, as free after ll_slot_free.
LEMMA PrependFacts ==
  ASSUME NEW S, NEW s \in Seq(S), NEW e \in S, Injective(s), e \notin Elems(s)
  PROVE  /\ <<e>> \o s \in Seq(S) /\ Len(<<e>> \o s) = Len(s) + 1
         /\ \A i \in 1..Len(s) : (<<e>> \o s)[i + 1] = s[i]
         /\ (<<e>> \o s)[1] = e
         /\ Injective(<<e>> \o s)
         /\ Elems(<<e>> \o s) = Elems(s) \cup {e}
  <1> DEFINE a == <<e>> \o s
  <1>1. /\ a \in Seq(S) /\ Len(a) = Len(s) + 1 /\ Len(s) \in Nat
        /\ \A i \in 1..Len(s) : a[i + 1] = s[i]
        /\ a[1] = e
    OBVIOUS
  <1> HIDE DEF a
  <1>2. \A i \in 1..Len(a) : i = 1 \/ (i - 1 \in 1..Len(s) /\ a[i] = s[i - 1])
    <2> SUFFICES ASSUME NEW i \in 1..Len(a), i # 1
                 PROVE  i - 1 \in 1..Len(s) /\ a[i] = s[i - 1]
      OBVIOUS
    <2>1. i - 1 \in 1..Len(s) /\ (i - 1) + 1 = i
      BY <1>1
    <2> QED
      BY <1>1, <2>1
  <1>3. Injective(a)
    <2> SUFFICES ASSUME NEW i \in 1..Len(a), NEW j \in 1..Len(a), a[i] = a[j] PROVE i = j
      BY DEF Injective
    <2>1. CASE i = 1 \/ j = 1
      BY <1>1, <1>2, <2>1 DEF Elems
    <2>2. CASE i # 1 /\ j # 1
      <3>1. i - 1 = j - 1
        BY <1>2, <2>2 DEF Injective
      <3> QED
        BY <1>1, <3>1
    <2> QED
      BY <2>1, <2>2
  <1>4. Elems(a) = Elems(s) \cup {e}
    <2>1. \A i \in 1..Len(s) : i + 1 \in 1..Len(a)
      BY <1>1
    <2>2. 1 \in 1..Len(a)
      BY <1>1
    <2>3. ASSUME NEW x \in Elems(a) PROVE x \in Elems(s) \cup {e}
      BY <1>1, <1>2, <2>3 DEF Elems
    <2>4. ASSUME NEW x \in Elems(s) PROVE x \in Elems(a)
      <3>1. PICK i \in 1..Len(s) : x = s[i]
        BY <2>4 DEF Elems
      <3> QED
        BY <1>1, <2>1, <3>1 DEF Elems
    <2>5. e \in Elems(a)
      BY <1>1, <2>2 DEF Elems
    <2> QED
      BY <2>3, <2>4, <2>5
  <1> QED
    BY <1>1, <1>3, <1>4 DEF a

\* Without the first slot, as order after ll_remove_last, free after ll_slot_new.
LEMMA TailFacts ==
  ASSUME NEW S, NEW s \in Seq(S), Len(s) > 0, Injective(s)
  PROVE  /\ Tail(s) \in Seq(S) /\ Len(Tail(s)) = Len(s) - 1
         /\ \A i \in 1..(Len(s) - 1) : Tail(s)[i] = s[i + 1]
         /\ Injective(Tail(s))
         /\ Elems(Tail(s)) = Elems(s) \ {s[1]}
  <1> DEFINE a == Tail(s)
  <1>1. /\ a \in Seq(S) /\ Len(a) = Len(s) - 1 /\ Len(s) \in Nat
        /\ \A i \in 1..(Len(s) - 1) : a[i] = s[i + 1]
    OBVIOUS
  <1> HIDE DEF a
  <1>2. \A i \in 1..Len(a) : i + 1 \in 1..Len(s) /\ i + 1 # 1 /\ a[i] = s[i + 1]
    BY <1>1
  <1>3. Injective(a)
    <2> SUFFICES ASSUME NEW i \in 1..Len(a), NEW j \in 1..Len(a), a[i] = a[j] PROVE i = j
      BY DEF Injective
    <2>1. i + 1 = j + 1
      BY <1>2 DEF Injective
    <2> QED
      BY <1>1, <2>1
  <1>4. Elems(a) = Elems(s) \ {s[1]}
    <2>1. ASSUME NEW x \in Elems(s), x # s[1] PROVE x \in Elems(a)
      <3>1. PICK i \in 1..Len(s) : x = s[i] /\ i # 1
        BY <2>1 DEF Elems
      <3>2. i - 1 \in 1..Len(a) /\ a[i - 1] = s[i]
        BY <1>1, <3>1
      <3> QED
        BY <3>1, <3>2 DEF Elems
    <2>2. ASSUME NEW x \in Elems(a) PROVE x \in Elems(s) /\ x # s[1]
      <3>1. 1 \in 1..Len(s)
        BY <1>1
      <3> QED
        BY <1>2, <2>2, <3>1 DEF Elems, Injective
    <2> QED
      BY <2>1, <2>2
  <1> QED
    BY <1>1, <1>3, <1>4 DEF a

\* The slot at place p moved to the end, as order after ll_slot_move_to_top.
LEMMA RaisedFacts ==
  ASSUME NEW S, NEW s \in Seq(S), Injective(s), NEW p \in 1..Len(s)
  PROVE  /\ Raised(s, s[p]) \in Seq(S) /\ Len(Raised(s, s[p])) = Len(s)
         /\ \A i \in 1..(p - 1) : Raised(s, s[p])[i] = s[i]
         /\ \A i \in p..(Len(s) - 1) : Raised(s, s[p])[i] = s[i + 1]
         /\ Raised(s, s[p])[Len(s)] = s[p]
         /\ Injective(Raised(s, s[p]))
         /\ Elems(Raised(s, s[p])) = Elems(s)
  <1> DEFINE r == [i \in 1..Len(s) |-> IF i < p THEN s[i] ELSE IF i < Len(s) THEN s[i + 1] ELSE s[p]]
  <1>1. Raised(s, s[p]) = r
    <2>1. {i \in 1..Len(s) : s[i] = s[p]} = {p}
      BY DEF Injective
    <2>2. (CHOOSE i \in {p} : TRUE) = p
      OBVIOUS
    <2> QED
      BY <2>1, <2>2 DEF Raised
  <1>2. Len(s) \in Nat /\ p \in 1..Len(s) /\ p \in Int
    OBVIOUS
  <1>3. /\ \A i \in 1..(p - 1) : i \in 1..Len(s) /\ i < p
        /\ \A i \in p..(Len(s) - 1) : i \in 1..Len(s) /\ ~(i < p) /\ i < Len(s) /\ i + 1 \in 1..Len(s)
        /\ Len(s) \in 1..Len(s) /\ ~(Len(s) < p) /\ ~(Len(s) < Len(s))
        /\ \A i \in 1..Len(s) : i \in 1..(p - 1) \/ i \in p..(Len(s) - 1) \/ i = Len(s)
    BY <1>2
  <1>4. /\ \A i \in 1..(p - 1) : r[i] = s[i]
        /\ \A i \in p..(Len(s) - 1) : r[i] = s[i + 1]
        /\ r[Len(s)] = s[p]
    BY <1>3
  <1>5. r \in Seq(S) /\ Len(r) = Len(s)
    <2>1. \A i \in 1..Len(s) : r[i] \in S
      BY <1>3, <1>4
    <2> QED
      BY <1>2, <2>1, IsASeq
  <1> HIDE DEF r
  <1>6. Injective(r)
    <2> SUFFICES ASSUME NEW i \in 1..Len(s), NEW j \in 1..Len(s), r[i] = r[j] PROVE i = j
      BY <1>5 DEF Injective
    <2> DEFINE f(k) == IF k < p THEN k ELSE IF k < Len(s) THEN k + 1 ELSE p
    <2>1. r[i] = s[f(i)] /\ r[j] = s[f(j)] /\ f(i) \in 1..Len(s) /\ f(j) \in 1..Len(s)
      BY <1>2, <1>3, <1>4
    <2>2. f(i) = f(j)
      BY <2>1 DEF Injective
    <2> QED
      BY <1>2, <2>2
  <1>7. Elems(r) = Elems(s)
    <2>1. ASSUME NEW x \in Elems(r) PROVE x \in Elems(s)
      BY <1>3, <1>4, <1>5, <2>1 DEF Elems
    <2>2. ASSUME NEW i \in 1..Len(s) PROVE s[i] \in Elems(r)
      <3>1. CASE i < p
        BY <1>2, <1>3, <1>4, <1>5, <3>1 DEF Elems
      <3>2. CASE i = p
        BY <1>2, <1>3, <1>4, <1>5, <3>2 DEF Elems
      <3>3. CASE i > p
        <4>1. i - 1 \in p..(Len(s) - 1) /\ (i - 1) + 1 = i
          BY <1>2, <3>3
        <4>2. r[i - 1] = s[i] /\ i - 1 \in 1..Len(r)
          BY <1>3, <1>4, <1>5, <4>1
        <4> QED
          BY <4>2 DEF Elems
      <3> QED
        BY <1>2, <3>1, <3>2, <3>3
    <2> QED
      BY <2>1, <2>2 DEF Elems
  <1> QED
    BY <1>1, <1>4, <1>5, <1>6, <1>7

-----------------------------------------------------------------------------
\* No slot is in the list and on the freelist.
LEMMA Apart ==
  ASSUME ListInv
  PROVE  /\ order \in Seq(Slots) /\ free \in Seq(Slots) /\ Len(order) \in Nat /\ Len(free) \in Nat
         /\ Injective(order) /\ Injective(free)
         /\ \A i \in 1..Len(order) : order[i] \in Elems(order) /\ order[i] \in Slots
         /\ \A i \in 1..Len(free) : free[i] \in Elems(free) /\ free[i] \in Slots
         /\ \A s \in Elems(order) : s \in Slots /\ s \notin Elems(free) /\ status[s] = IN_LIST
         /\ \A s \in Elems(free) : s \in Slots /\ s \notin Elems(order) /\ status[s] = IN_FREELIST
         /\ NULL \notin Slots
         /\ IN_LIST # IN_FREELIST /\ IN_LIST # DANGLING /\ IN_FREELIST # DANGLING
  <1>1. IN_LIST # IN_FREELIST /\ IN_LIST # DANGLING /\ IN_FREELIST # DANGLING
    BY DEF IN_LIST, IN_FREELIST, DANGLING
  <1>2. order \in Seq(Slots) /\ free \in Seq(Slots) /\ Len(order) \in Nat /\ Len(free) \in Nat
    BY DEF ListInv, llTypeOK
  <1>3. Injective(order) /\ Injective(free)
    BY DEF ListInv, RecencyList, FreeChain, Injective
  <1>4. /\ \A i \in 1..Len(order) : order[i] \in Elems(order) /\ order[i] \in Slots
        /\ \A i \in 1..Len(free) : free[i] \in Elems(free) /\ free[i] \in Slots
    BY <1>2, ElementOfSeq DEF Elems
  <1>5. Elems(order) \subseteq Slots /\ Elems(free) \subseteq Slots
    BY <1>4 DEF Elems
  <1>6. NULL \notin Slots
    BY DimAssumption DEF NULL, Slots
  <1> QED
    BY <1>1, <1>2, <1>3, <1>4, <1>5, <1>6 DEF ListInv, StatusTells

\* ll_create: every slot is on the freelist.
LEMMA ListInit == llInit => ListInv
  <1> SUFFICES ASSUME llInit PROVE ListInv
    OBVIOUS
  <1>1. Dim \in Nat /\ Dim > 0
    BY DimAssumption
  <1>2. /\ free \in Seq(Slots) /\ Len(free) = Dim
        /\ \A i \in 1..Dim : free[i] = i
    <2> DEFINE f == [i \in 1..Dim |-> i]
    <2>1. free = f
      BY DEF llInit, Slots
    <2>2. \A i \in 1..Dim : f[i] = i /\ f[i] \in Slots
      BY DEF Slots
    <2>3. f \in Seq(Slots) /\ Len(f) = Dim
      BY <1>1, <2>2, IsASeq
    <2> QED
      BY <2>1, <2>2, <2>3
  <1>3. order = <<>> /\ order \in Seq(Slots) /\ Len(order) = 0
    BY DEF llInit
  <1>4. Elems(free) = Slots /\ Elems(order) = {}
    BY <1>2, <1>3 DEF Elems, Slots
  <1>5. llTypeOK
    BY <1>1, <1>2, <1>3 DEF llInit, llTypeOK, Slots, NULL, FreeLink, IN_FREELIST, DANGLING, IN_LIST
  <1>6. RecencyList
    BY <1>3 DEF llInit, RecencyList
  <1>7. FreeChain
    <2>1. freelist = 1 /\ \A i \in 1..Dim : next[i] = IF i = Dim THEN NULL ELSE i + 1
      BY DEF llInit, FreeLink, Slots
    <2>2. \A i \in 1..Dim : i # Dim => i + 1 \in 1..Dim
      BY <1>1
    <2> QED
      BY <1>1, <1>2, <2>1, <2>2 DEF FreeChain
  <1>8. StatusTells
    BY <1>4 DEF llInit, StatusTells, IN_FREELIST, IN_LIST
  <1> QED
    BY <1>5, <1>6, <1>7, <1>8 DEF ListInv

\* The list stays what it is when a step leaves its slots alone.
LEMMA OrderKept ==
  ASSUME ListInv, UNCHANGED <<order, top, last>>,
         \A s \in Elems(order) : next'[s] = next[s] /\ prev'[s] = prev[s]
  PROVE  RecencyList'
  <1>1. \A i \in 1..Len(order) : next'[order[i]] = next[order[i]] /\ prev'[order[i]] = prev[order[i]]
    BY Apart
  <1> QED
    BY <1>1 DEF ListInv, RecencyList

\* So does the freelist.
LEMMA FreeKept ==
  ASSUME ListInv, UNCHANGED <<free, freelist>>,
         \A s \in Elems(free) : next'[s] = next[s]
  PROVE  FreeChain'
  <1>1. \A i \in 1..Len(free) : next'[free[i]] = next[free[i]]
    BY Apart
  <1> QED
    BY <1>1 DEF ListInv, FreeChain

\* ll_slot_new takes the first free slot.
LEMMA SlotNewInv ==
  ASSUME ListInv, SlotNew
  PROVE  /\ ListInv'
         /\ freelist \in Elems(free) /\ Elems(free)' = Elems(free) \ {freelist}
         /\ next'[freelist] = NULL /\ prev'[freelist] = NULL
  <1>1. /\ freelist # NULL /\ freelist' = next[freelist] /\ free' = Tail(free)
        /\ next' = [next EXCEPT ![freelist] = NULL]
        /\ prev' = [prev EXCEPT ![freelist] = NULL]
        /\ status' = [status EXCEPT ![freelist] = DANGLING]
        /\ UNCHANGED <<top, last, order>>
    BY DEF SlotNew
  <1>2. Len(free) > 0 /\ freelist = free[1] /\ 1 \in 1..Len(free)
    BY <1>1, Apart DEF ListInv, FreeChain
  <1>3. freelist \in Elems(free) /\ freelist \in Slots
    BY <1>2, Apart
  <1>4. /\ free' \in Seq(Slots) /\ Len(free') = Len(free) - 1
        /\ \A i \in 1..(Len(free) - 1) : free'[i] = free[i + 1]
        /\ Injective(free')
        /\ Elems(free') = Elems(free) \ {freelist}
    BY <1>1, <1>2, Apart, TailFacts
  <1>5. llTypeOK'
    BY <1>1, <1>3, <1>4 DEF ListInv, llTypeOK
  <1>6. /\ \A s \in Slots \ {freelist} : next'[s] = next[s] /\ prev'[s] = prev[s] /\ status'[s] = status[s]
        /\ next'[freelist] = NULL /\ prev'[freelist] = NULL /\ status'[freelist] = DANGLING
    BY <1>1, <1>3 DEF ListInv, llTypeOK
  <1>7. RecencyList'
    BY <1>1, <1>3, <1>6, Apart, OrderKept
  <1>8. FreeChain'
    <2>1. \A i \in 1..(Len(free) - 1) :
             next'[free'[i]] = IF i = Len(free) - 1 THEN NULL ELSE free'[i + 1]
      <3> SUFFICES ASSUME NEW i \in 1..(Len(free) - 1)
                   PROVE  next'[free'[i]] = IF i = Len(free) - 1 THEN NULL ELSE free'[i + 1]
        OBVIOUS
      <3>1. i + 1 \in 1..Len(free) /\ i + 1 # 1 /\ (i + 1 = Len(free) <=> i = Len(free) - 1)
        BY Apart
      <3>2. free[i + 1] # freelist /\ free[i + 1] \in Slots
        BY <1>2, <3>1, Apart DEF Injective
      <3>3. next'[free[i + 1]] = IF i + 1 = Len(free) THEN NULL ELSE free[(i + 1) + 1]
        BY <1>6, <3>1, <3>2 DEF ListInv, FreeChain
      <3>4. i # Len(free) - 1 => free'[i + 1] = free[(i + 1) + 1]
        <4>1. i # Len(free) - 1 => i + 1 \in 1..(Len(free) - 1)
          BY Apart
        <4> QED
          BY <1>4, <4>1
      <3> QED
        BY <1>4, <3>1, <3>3, <3>4
    <2>2. freelist' = IF Len(free) - 1 = 0 THEN NULL ELSE free'[1]
      <3>0. Len(free) \in Nat
        BY Apart
      <3>1. next[free[1]] = IF 1 = Len(free) THEN NULL ELSE free[1 + 1]
        BY <1>2 DEF ListInv, FreeChain
      <3>2. Len(free) # 1 => 1 \in 1..(Len(free) - 1)
        BY <1>2, <3>0
      <3> QED
        BY <1>1, <1>2, <1>4, <3>0, <3>1, <3>2
    <2> QED
      BY <1>4, <2>1, <2>2 DEF FreeChain, Injective
  <1>9. StatusTells'
    BY <1>1, <1>3, <1>4, <1>6, Apart DEF ListInv, StatusTells
  <1> QED
    BY <1>3, <1>4, <1>5, <1>6, <1>7, <1>8, <1>9 DEF ListInv

\* ll_slot_free, of a slot that a thread has taken out of the list or gave up.
LEMMA SlotFreeInv ==
  ASSUME ListInv, NEW s \in Slots, status[s] = DANGLING, SlotFree(s)
  PROVE  /\ ListInv'
         /\ Elems(free)' = Elems(free) \cup {s}
         /\ status' = [status EXCEPT ![s] = IN_FREELIST]
         /\ \A x \in Slots \ {s} : next'[x] = next[x]
  <1>1. /\ freelist' = s /\ free' = <<s>> \o free
        /\ next' = [next EXCEPT ![s] = freelist]
        /\ status' = [status EXCEPT ![s] = IN_FREELIST]
        /\ UNCHANGED <<top, last, prev, order>>
    BY DEF SlotFree, FreedNext, FreedStatus
  <1>2. s \notin Elems(order) /\ s \notin Elems(free)
    BY Apart
  <1>3. /\ free' \in Seq(Slots) /\ Len(free') = Len(free) + 1
        /\ \A i \in 1..Len(free) : free'[i + 1] = free[i]
        /\ free'[1] = s
        /\ Injective(free')
        /\ Elems(free') = Elems(free) \cup {s}
    BY <1>1, <1>2, Apart, PrependFacts
  <1>4. llTypeOK'
    BY <1>1, <1>3 DEF ListInv, llTypeOK
  <1>5. /\ \A x \in Slots \ {s} : next'[x] = next[x] /\ status'[x] = status[x]
        /\ next'[s] = freelist /\ status'[s] = IN_FREELIST
    BY <1>1 DEF ListInv, llTypeOK
  <1>6. RecencyList'
    BY <1>1, <1>2, <1>5, Apart, OrderKept
  <1>7. FreeChain'
    <2>0. Len(free) \in Nat
      BY Apart
    <2>1. ASSUME NEW i \in 1..(Len(free) + 1)
          PROVE  next'[free'[i]] = IF i = Len(free) + 1 THEN NULL ELSE free'[i + 1]
      <3>1. CASE i = 1
        <4>1. freelist = IF Len(free) = 0 THEN NULL ELSE free[1]
          BY DEF ListInv, FreeChain
        <4>2. Len(free) # 0 => 1 \in 1..Len(free)
          BY <2>0
        <4> QED
          BY <1>3, <1>5, <2>0, <3>1, <4>1, <4>2
      <3>2. CASE i # 1
        <4>1. i - 1 \in 1..Len(free) /\ (i - 1) + 1 = i /\ (i - 1 = Len(free) <=> i = Len(free) + 1)
          BY <2>0, <3>2
        <4>2. free'[i] = free[i - 1] /\ free[i - 1] # s /\ free[i - 1] \in Slots
          BY <1>2, <1>3, <4>1, Apart
        <4>3. next[free[i - 1]] = IF i - 1 = Len(free) THEN NULL ELSE free[(i - 1) + 1]
          BY <4>1 DEF ListInv, FreeChain
        <4>4. i # Len(free) + 1 => i \in 1..Len(free)
          BY <2>0
        <4> QED
          BY <1>3, <1>5, <4>1, <4>2, <4>3, <4>4
      <3> QED
        BY <3>1, <3>2
    <2> QED
      BY <1>1, <1>3, <2>0, <2>1 DEF FreeChain, Injective
  <1>8. StatusTells'
    BY <1>1, <1>2, <1>3, <1>5, Apart DEF ListInv, StatusTells
  <1> QED
    BY <1>1, <1>3, <1>4, <1>5, <1>6, <1>7, <1>8 DEF ListInv

\* ll_remove_last takes the least recently used slot.
LEMMA RemoveLastInv ==
  ASSUME ListInv, RemoveLast
  PROVE  /\ ListInv'
         /\ last \in Elems(order) /\ Elems(order)' = Elems(order) \ {last}
         /\ status' = [status EXCEPT ![last] = DANGLING]
         /\ \A x \in Slots : x \notin Elems(order) => prev'[x] = prev[x]
  <1>1. /\ last # NULL /\ last' = next[last] /\ order' = Tail(order)
        /\ prev' = [s \in Slots |-> IF s = next[last] THEN NULL ELSE prev[s]]
        /\ top' = IF next[last] = NULL THEN NULL ELSE top
        /\ status' = [status EXCEPT ![last] = DANGLING]
        /\ UNCHANGED <<freelist, next, free>>
    BY DEF RemoveLast, UnlinkLast
  <1>0. Len(order) \in Nat
    BY Apart
  <1>2. Len(order) > 0 /\ last = order[1] /\ 1 \in 1..Len(order)
    BY <1>0, <1>1 DEF ListInv, RecencyList
  <1>3. last \in Elems(order) /\ last \in Slots
    BY <1>2, Apart
  <1>4. /\ order' \in Seq(Slots) /\ Len(order') = Len(order) - 1
        /\ \A i \in 1..(Len(order) - 1) : order'[i] = order[i + 1]
        /\ Injective(order')
        /\ Elems(order') = Elems(order) \ {last}
    BY <1>1, <1>2, Apart, TailFacts
  <1>5. llTypeOK'
    BY <1>1, <1>3, <1>4 DEF ListInv, llTypeOK
  <1>6. next[last] = IF Len(order) = 1 THEN NULL ELSE order[1 + 1]
    BY <1>2 DEF ListInv, RecencyList
  <1>7. Len(order) # 1 => /\ 1 + 1 \in 1..Len(order) /\ 1 \in 1..(Len(order) - 1)
                          /\ Len(order) - 1 \in 1..(Len(order) - 1)
    <2> DEFINE n == Len(order)
    <2>1. n \in Nat /\ n > 0
      BY <1>0, <1>2
    <2> HIDE DEF n
    <2>2. n # 1 => 1 + 1 \in 1..n /\ 1 \in 1..(n - 1) /\ n - 1 \in 1..(n - 1)
      BY <2>1
    <2> QED
      BY <2>2 DEF n
  <1>8. \A x \in Slots : x \notin Elems(order) => prev'[x] = prev[x]
    <2>1. next[last] \in Elems(order) \cup {NULL}
      BY <1>6, <1>7, Apart
    <2> QED
      BY <1>1, <2>1, Apart
  <1>9. RecencyList'
    <2>1. ASSUME NEW i \in 1..(Len(order) - 1)
          PROVE  /\ next'[order'[i]] = IF i = Len(order) - 1 THEN NULL ELSE order'[i + 1]
                 /\ prev'[order'[i]] = IF i = 1 THEN NULL ELSE order'[i - 1]
      <3>1. /\ i + 1 \in 1..Len(order) /\ i \in 1..Len(order) /\ i + 1 # 1 /\ (i + 1) - 1 = i
            /\ (i + 1 = Len(order) <=> i = Len(order) - 1) /\ (i + 1 = 1 + 1 <=> i = 1)
            /\ i # Len(order) - 1 => i + 1 \in 1..(Len(order) - 1)
            /\ i # 1 => i - 1 \in 1..(Len(order) - 1) /\ (i - 1) + 1 = i
        BY <1>0
      <3>2. /\ next[order[i + 1]] = IF i + 1 = Len(order) THEN NULL ELSE order[(i + 1) + 1]
            /\ prev[order[i + 1]] = IF i + 1 = 1 THEN NULL ELSE order[(i + 1) - 1]
        BY <3>1 DEF ListInv, RecencyList
      <3>3. order'[i] = order[i + 1] /\ order[i + 1] \in Slots
        BY <1>4, <3>1, Apart
      <3>4. i # Len(order) - 1 => order'[i + 1] = order[(i + 1) + 1]
        BY <1>4, <3>1
      <3>5. i # 1 => order'[i - 1] = order[i]
        BY <1>4, <3>1
      <3>6. next'[order'[i]] = IF i = Len(order) - 1 THEN NULL ELSE order'[i + 1]
        BY <1>1, <3>1, <3>2, <3>3, <3>4
      <3>7. order[i + 1] = order[1 + 1] <=> i = 1
        BY <1>7, <3>1, Apart DEF Injective
      <3>8. prev'[order'[i]] = IF i = 1 THEN NULL ELSE prev[order[i + 1]]
        BY <1>0, <1>1, <1>6, <3>3, <3>7
      <3> QED
        BY <3>1, <3>2, <3>5, <3>6, <3>8
    <2>2. last' = IF Len(order) - 1 = 0 THEN NULL ELSE order'[1]
      BY <1>0, <1>1, <1>4, <1>6, <1>7
    <2>3. top' = IF Len(order) - 1 = 0 THEN NULL ELSE order'[Len(order) - 1]
      <3>1. top = order[Len(order)]
        BY <1>2 DEF ListInv, RecencyList
      <3>2. next[last] = NULL <=> Len(order) = 1
        BY <1>6, <1>7, Apart
      <3>3. Len(order) # 1 => order'[Len(order) - 1] = order[(Len(order) - 1) + 1]
        BY <1>4, <1>7
      <3>4. (Len(order) - 1) + 1 = Len(order) /\ (Len(order) - 1 = 0 <=> Len(order) = 1)
        BY <1>0
      <3> QED
        BY <1>1, <3>1, <3>2, <3>3, <3>4
    <2> QED
      BY <1>4, <2>1, <2>2, <2>3 DEF RecencyList, Injective
  <1>10. FreeChain'
    BY <1>1, FreeKept
  <1>11. StatusTells'
    <2>1. /\ \A x \in Slots \ {last} : status'[x] = status[x]
          /\ status'[last] = DANGLING
      BY <1>1, <1>3 DEF ListInv, llTypeOK
    <2> QED
      BY <1>1, <1>3, <1>4, <2>1, Apart DEF ListInv, StatusTells
  <1> QED
    BY <1>1, <1>3, <1>4, <1>5, <1>8, <1>9, <1>10, <1>11 DEF ListInv

\* ll_slot_add_to_top, of a slot fresh from ll_slot_new.
LEMMA AddToTopInv ==
  ASSUME ListInv, NEW s \in Slots, status[s] = DANGLING, next[s] = NULL, prev[s] = NULL,
         AddToTop(s)
  PROVE  /\ ListInv'
         /\ Elems(order)' = Elems(order) \cup {s} /\ Elems(free)' = Elems(free)
         /\ status' = [status EXCEPT ![s] = IN_LIST]
         /\ \A x \in Slots \ {s} : x \notin Elems(order) => next'[x] = next[x] /\ prev'[x] = prev[x]
  <1>0. Len(order) \in Nat
    BY Apart
  <1>1. /\ top' = s
        /\ next' = IF top = NULL THEN next ELSE [next EXCEPT ![top] = s]
        /\ prev' = IF top = NULL THEN prev ELSE [prev EXCEPT ![s] = top]
        /\ last' = IF last = NULL THEN s ELSE last
        /\ order' = Append(order, s)
        /\ status' = [status EXCEPT ![s] = IN_LIST]
        /\ UNCHANGED <<freelist, free>>
    BY DEF AddToTop, LinkTop
  <1>2. s \notin Elems(order) /\ s \notin Elems(free) /\ s # NULL
    BY Apart
  <1>3. /\ order' \in Seq(Slots) /\ Len(order') = Len(order) + 1
        /\ \A i \in 1..Len(order) : order'[i] = order[i]
        /\ order'[Len(order) + 1] = s
        /\ Injective(order')
        /\ Elems(order') = Elems(order) \cup {s}
    BY <1>1, <1>2, Apart, AppendFacts
  <1>4. llTypeOK'
    BY <1>1, <1>3 DEF ListInv, llTypeOK
  <1>5. /\ Len(order) = 0 => top = NULL /\ last = NULL
        /\ Len(order) # 0 => /\ 1 \in 1..Len(order) /\ Len(order) \in 1..Len(order)
                             /\ top = order[Len(order)] /\ last = order[1]
                             /\ top # NULL /\ last # NULL /\ top \in Elems(order)
    <2>1. Len(order) # 0 => 1 \in 1..Len(order) /\ Len(order) \in 1..Len(order)
      BY <1>0
    <2> QED
      BY <2>1, Apart DEF ListInv, RecencyList
  <1>6. \A x \in Slots \ {s} : x # top => next'[x] = next[x] /\ prev'[x] = prev[x]
    BY <1>1 DEF ListInv, llTypeOK
  <1>7. RecencyList'
    <2>1. ASSUME NEW i \in 1..(Len(order) + 1)
          PROVE  /\ next'[order'[i]] = IF i = Len(order) + 1 THEN NULL ELSE order'[i + 1]
                 /\ prev'[order'[i]] = IF i = 1 THEN NULL ELSE order'[i - 1]
      <3>1. CASE i = Len(order) + 1
        <4>1. order'[i] = s /\ (i = 1 <=> Len(order) = 0) /\ i - 1 = Len(order)
          BY <1>0, <1>3, <3>1
        <4>2. next'[s] = NULL
          BY <1>1, <1>2, <1>5 DEF ListInv, llTypeOK
        <4>3. prev'[s] = IF Len(order) = 0 THEN NULL ELSE order[Len(order)]
          BY <1>1, <1>5 DEF ListInv, llTypeOK
        <4> QED
          BY <1>3, <1>5, <3>1, <4>1, <4>2, <4>3
      <3>2. CASE i \in 1..Len(order)
        <4>1. order'[i] = order[i] /\ order[i] \in Slots /\ order[i] # s /\ Len(order) # 0
          BY <1>0, <1>2, <1>3, <3>2, Apart
        <4>2. /\ next[order[i]] = IF i = Len(order) THEN NULL ELSE order[i + 1]
              /\ prev[order[i]] = IF i = 1 THEN NULL ELSE order[i - 1]
          BY <3>2 DEF ListInv, RecencyList
        <4>3. order[i] = top <=> i = Len(order)
          BY <1>5, <3>2, <4>1, Apart DEF Injective
        <4>4. /\ i # Len(order) => i + 1 \in 1..Len(order)
              /\ i # 1 => i - 1 \in 1..Len(order)
              /\ i # Len(order) + 1
          BY <1>0, <3>2
        <4>5. next'[order[i]] = IF i = Len(order) THEN s ELSE next[order[i]]
          BY <1>1, <1>5, <4>1, <4>3 DEF ListInv, llTypeOK
        <4>6. prev'[order[i]] = prev[order[i]]
          BY <1>1, <4>1 DEF ListInv, llTypeOK
        <4> QED
          BY <1>3, <4>1, <4>2, <4>4, <4>5, <4>6
      <3> QED
        BY <1>0, <3>1, <3>2
    <2>2. last' = order'[1]
      BY <1>0, <1>1, <1>2, <1>3, <1>5
    <2> QED
      BY <1>0, <1>1, <1>3, <2>1, <2>2 DEF RecencyList, Injective
  <1>8. FreeChain'
    BY <1>1, <1>2, <1>5, <1>6, Apart, FreeKept
  <1>9. StatusTells'
    <2>1. /\ \A x \in Slots \ {s} : status'[x] = status[x]
          /\ status'[s] = IN_LIST
      BY <1>1 DEF ListInv, llTypeOK
    <2> QED
      BY <1>1, <1>2, <1>3, <2>1, Apart DEF ListInv, StatusTells
  <1> QED
    BY <1>1, <1>3, <1>4, <1>5, <1>6, <1>7, <1>8, <1>9 DEF ListInv

\* ll_slot_move_to_top, of any slot, even one that was evicted meanwhile.
LEMMA MoveToTopInv ==
  ASSUME ListInv, NEW s \in Slots, MoveToTop(s)
  PROVE  /\ ListInv'
         /\ Elems(order)' = Elems(order) /\ UNCHANGED <<status, free, freelist>>
         /\ Len(order') = Len(order)
         /\ \A x \in Slots : x \notin Elems(order) => next'[x] = next[x] /\ prev'[x] = prev[x]
  <1>1. CASE UNCHANGED llvars
    BY <1>1 DEF llvars, ListInv, llTypeOK, RecencyList, FreeChain, StatusTells, Elems
  <1>2. CASE ~UNCHANGED llvars
    <2>0. Len(order) \in Nat
      BY Apart
    <2>1. Movable(s) /\ top # s /\ ~(next[s] = NULL /\ prev[s] # NULL)
      BY <1>2 DEF MoveToTop
    <2>2. s \in Elems(order)
      BY <2>1 DEF Movable, ListInv, llTypeOK, StatusTells
    <2>3. PICK p \in 1..Len(order) : s = order[p]
      BY <2>2 DEF Elems
    <2>4. /\ next[s] = IF p = Len(order) THEN NULL ELSE order[p + 1]
          /\ prev[s] = IF p = 1 THEN NULL ELSE order[p - 1]
          /\ top = order[Len(order)] /\ last = order[1]
      BY <2>0, <2>3 DEF ListInv, RecencyList
    <2>5. p # Len(order) /\ p + 1 \in 1..Len(order) /\ 1 \in 1..Len(order) /\ Len(order) \in 1..Len(order)
      BY <2>0, <2>1, <2>3, <2>4
    <2>6. next[s] \in Elems(order) /\ next[s] # NULL /\ top \in Elems(order)
      BY <2>4, <2>5, Apart
    <2>7. prev[s] = NULL <=> p = 1
      <3>1. p # 1 => p - 1 \in 1..Len(order)
        BY <2>0
      <3> QED
        BY <2>4, <3>1, Apart
    <2>8. /\ top' = s
          /\ last' = IF p = 1 THEN next[s] ELSE last
          /\ next' = [x \in Slots |-> IF x = s THEN NULL ELSE IF x = top THEN s
                                      ELSE IF x = prev[s] THEN next[s] ELSE next[x]]
          /\ prev' = [x \in Slots |-> IF x = s THEN top
                                      ELSE IF x = next[s] THEN prev[s] ELSE prev[x]]
          /\ order' = Raised(order, s)
          /\ UNCHANGED <<freelist, status, free>>
      <3>1. Relink(s) /\ UNCHANGED <<freelist, status, free>>
        BY <1>2, <2>6 DEF MoveToTop
      <3>2. last' = IF prev[s] = NULL THEN next[s] ELSE last
        BY <3>1 DEF Relink
      <3>3. last' = IF p = 1 THEN next[s] ELSE last
        BY <2>7, <3>2
      <3> QED
        BY <3>1, <3>3 DEF Relink
    <2>9. /\ order' \in Seq(Slots) /\ Len(order') = Len(order)
          /\ \A i \in 1..(p - 1) : order'[i] = order[i]
          /\ \A i \in p..(Len(order) - 1) : order'[i] = order[i + 1]
          /\ order'[Len(order)] = s
          /\ Injective(order')
          /\ Elems(order') = Elems(order)
      <3> DEFINE r == Raised(order, order[p])
      <3>1. order \in Seq(Slots) /\ Injective(order)
        BY Apart
      <3>2. /\ r \in Seq(Slots) /\ Len(r) = Len(order)
            /\ \A i \in 1..(p - 1) : r[i] = order[i]
            /\ \A i \in p..(Len(order) - 1) : r[i] = order[i + 1]
            /\ r[Len(order)] = order[p]
            /\ Injective(r)
            /\ Elems(r) = Elems(order)
        BY <3>1, RaisedFacts
      <3>3. order' = r
        BY <2>3, <2>8
      <3> HIDE DEF r
      <3> QED
        BY <2>3, <3>2, <3>3
    <2>10. llTypeOK'
      BY <2>6, <2>8, <2>9, Apart DEF ListInv, llTypeOK
    <2>11. \A x \in Slots : x \notin Elems(order) => next'[x] = next[x] /\ prev'[x] = prev[x]
      <3>1. prev[s] \in Elems(order) \cup {NULL}
        <4>1. p # 1 => p - 1 \in 1..Len(order)
          BY <2>0
        <4> QED
          BY <2>4, <4>1, Apart
      <3> QED
        BY <2>2, <2>6, <2>8, <3>1, Apart
    <2>12. StatusTells'
      BY <2>8, <2>9 DEF ListInv, StatusTells
    <2>13. FreeChain'
      BY <2>8, <2>11, Apart, FreeKept
    <2>14. RecencyList'
      <3> DEFINE n == Len(order)
      <3>0. n \in Nat /\ p \in 1..n /\ p # n
        BY <2>0, <2>5
      <3>a. /\ \A i \in 1..n : order[i] \in Slots
            /\ \A i, j \in 1..n : order[i] = order[j] => i = j
            /\ \A i \in 1..n : next[order[i]] = IF i = n THEN NULL ELSE order[i + 1]
            /\ \A i \in 1..n : prev[order[i]] = IF i = 1 THEN NULL ELSE order[i - 1]
            /\ \A i \in 1..n : order[i] # NULL
        BY Apart DEF ListInv, RecencyList
      <3>b. /\ \A i \in 1..(p - 1) : order'[i] = order[i]
            /\ \A i \in p..(n - 1) : order'[i] = order[i + 1]
            /\ order'[n] = order[p]
        BY <2>3, <2>9
      <3>c. /\ \A x \in Slots : next'[x] = IF x = order[p] THEN NULL ELSE IF x = order[n] THEN order[p]
                                           ELSE IF p # 1 /\ x = order[p - 1] THEN order[p + 1] ELSE next[x]
            /\ \A x \in Slots : prev'[x] = IF x = order[p] THEN order[n]
                                           ELSE IF x = order[p + 1] THEN prev[order[p]] ELSE prev[x]
        BY <2>3, <2>4, <2>5, <2>7, <2>8, Apart
      <3> HIDE DEF n
      <3>1. ASSUME NEW i \in 1..n
            PROVE  /\ next'[order'[i]] = IF i = n THEN NULL ELSE order'[i + 1]
                   /\ prev'[order'[i]] = IF i = 1 THEN NULL ELSE order'[i - 1]
        <4>1. CASE i = n
          <5>1. n - 1 \in p..(n - 1) /\ (n - 1) + 1 = n /\ n # 1
            BY <3>0
          <5>2. order'[n] = order[p] /\ order'[n - 1] = order[n]
            BY <3>b, <5>1
          <5> QED
            BY <3>0, <3>a, <3>c, <4>1, <5>1, <5>2
        <4>2. CASE i \in p..(n - 1)
          <5>1. /\ i + 1 \in 1..n /\ i \in 1..n /\ p + 1 \in 1..n /\ n \in 1..n /\ i # n
                /\ i + 1 # p /\ i + 1 # 1 /\ (i + 1) - 1 = i
                /\ (i + 1 = p + 1 <=> i = p)
                /\ i + 1 # n => i + 1 \in p..(n - 1)
                /\ i # p => i - 1 \in p..(n - 1) /\ (i - 1) + 1 = i /\ i # 1
            BY <3>0, <4>2
          <5>8. p # 1 => p - 1 \in 1..n /\ p - 1 \in 1..(p - 1) /\ i + 1 # p - 1
            BY <3>0, <4>2
          <5>2. order'[i] = order[i + 1]
            BY <3>b, <4>2
          <5>3. next'[order[i + 1]] = IF i + 1 = n THEN order[p] ELSE order[(i + 1) + 1]
            BY <3>0, <3>a, <3>c, <5>1, <5>8
          <5>4. order'[i + 1] = IF i + 1 = n THEN order[p] ELSE order[(i + 1) + 1]
            BY <3>b, <5>1
          <5>5. prev'[order[i + 1]] = IF i = p THEN prev[order[p]] ELSE order[i]
            <6>1. order[i + 1] \in Slots /\ order[i + 1] # order[p]
              BY <3>0, <3>a, <5>1
            <6>2. order[i + 1] = order[p + 1] <=> i = p
              BY <3>a, <5>1
            <6>3. prev[order[i + 1]] = order[(i + 1) - 1]
              BY <3>a, <5>1
            <6> QED
              BY <3>c, <5>1, <6>1, <6>2, <6>3
          <5>6. i # p => order'[i - 1] = order[i]
            BY <3>b, <5>1
          <5>7. p # 1 => order'[p - 1] = order[p - 1]
            BY <3>b, <5>8
          <5>9. prev[order[p]] = IF p = 1 THEN NULL ELSE order[p - 1]
            BY <3>0, <3>a
          <5> QED
            BY <5>1, <5>2, <5>3, <5>4, <5>5, <5>6, <5>7, <5>9
        <4>3. CASE i \in 1..(p - 1)
          <5>1. /\ i + 1 \in 1..n /\ p + 1 \in 1..n /\ n \in 1..n /\ i # n /\ i # p /\ i # p + 1 /\ p # 1
                /\ p - 1 \in 1..n /\ (i = p - 1 <=> i + 1 = p)
                /\ i + 1 # p => i + 1 \in 1..(p - 1)
                /\ i # 1 => i - 1 \in 1..(p - 1)
                /\ p \in p..(n - 1)
            BY <3>0, <4>3
          <5>2. order'[i] = order[i]
            BY <3>b, <4>3
          <5>3. next'[order[i]] = IF i + 1 = p THEN order[p + 1] ELSE order[i + 1]
            BY <3>0, <3>a, <3>c, <5>1
          <5>4. order'[i + 1] = IF i + 1 = p THEN order[p + 1] ELSE order[i + 1]
            BY <3>b, <5>1
          <5>5. prev'[order[i]] = prev[order[i]]
            BY <3>0, <3>a, <3>c, <5>1
          <5>6. i # 1 => order'[i - 1] = order[i - 1]
            BY <3>b, <5>1
          <5> QED
            BY <3>a, <5>1, <5>2, <5>3, <5>4, <5>5, <5>6
        <4> QED
          BY <3>0, <4>1, <4>2, <4>3
      <3>2. last' = order'[1]
        <4>1. CASE p = 1
          <5>1. 1 \in p..(n - 1)
            BY <3>0, <4>1
          <5>2. order'[1] = order[1 + 1] /\ next[s] = order[1 + 1] /\ last' = next[s]
            BY <2>4, <2>5, <2>8, <3>b, <4>1, <5>1
          <5> QED
            BY <5>2
        <4>2. CASE p # 1
          <5>1. 1 \in 1..(p - 1)
            BY <3>0, <4>2
          <5> QED
            BY <2>4, <2>8, <3>b, <4>2, <5>1
        <4> QED
          BY <4>1, <4>2
      <3>3. n # 0 /\ top' = order'[n]
        BY <2>8, <2>9, <3>0 DEF n
      <3> QED
        BY <2>9, <3>1, <3>2, <3>3 DEF RecencyList, Injective, n
    <2> QED
      BY <2>8, <2>9, <2>10, <2>11, <2>12, <2>13, <2>14 DEF ListInv
  <1> QED
    BY <1>1, <1>2

-----------------------------------------------------------------------------
(***************************************************************************)
(* The functions of lru.c.                                                 *)
(***************************************************************************)

Filling == {"fill", "insert", "undo_dup", "undo_mem", "top"}
Filled  == {"insert", "undo_dup", "undo_mem", "top"}
HoldPCs == Filling \cup {"del", "release"}

(***************************************************************************)
(* The inductive invariant.  What it says of slots, it says in terms of    *)
(* their status; ListInv tells what the status means for the list and the  *)
(* freelist.                                                               *)
(***************************************************************************)
\* What a thread's position tells of its call and of its locals.
Locals ==
    \A t \in Threads :
        /\ pc[t] \in HoldPCs \cup {"touch"} => slot[t] \in Slots
        /\ pc[t] \in Filling \cup {"new", "search", "touch"} => key[t] \in Keys
        /\ pc[t] \in Filling \cup {"new"} => op[t] = "add"
        /\ pc[t] \in {"search", "touch"} => op[t] = "check"
        /\ pc[t] \in {"remove", "del", "release"} =>
              op[t] \in {"add", "clear", "destroy"} /\ (op[t] = "add" => key[t] \in Keys)
        /\ pc[t] \in {"idle", "destroyed"} => op[t] = "none"

\* lru_destroy runs alone.
Alone ==
    \A t, u \in Threads :
        t # u /\ (op[t] = "destroy" \/ pc[t] = "destroyed") => pc[u] = "idle"

\* A dangling slot is held by one thread.
HeldOnce ==
    /\ \A s \in Slots :
          status[s] = DANGLING <=> \E t \in Threads : pc[t] \in HoldPCs /\ slot[t] = s
    /\ \A t, u \in Threads :
          pc[t] \in HoldPCs /\ pc[u] \in HoldPCs /\ slot[t] = slot[u] => t = u

\* A slot fresh from ll_slot_new is linked to nothing.
Fresh == \A t \in Threads : pc[t] \in Filling => next[slot[t]] = NULL /\ prev[slot[t]] = NULL

\* A key of the hashtable leads to a slot that has this key, and is in the list
\* or about to be added or removed; all those slots are found by their key.
HashTells ==
    /\ \A k \in Keys : fh[k] # NULL =>
          /\ fh_key[fh[k]] = k
          /\ \/ status[fh[k]] = IN_LIST
             \/ \E t \in Threads : pc[t] \in {"top", "del"} /\ slot[t] = fh[k]
    /\ \A s \in Slots : status[s] = IN_LIST => fh_key[s] # NULL /\ fh[fh_key[s]] = s
    /\ \A t \in Threads : pc[t] \in {"top", "del"} =>
          fh_key[slot[t]] # NULL /\ fh[fh_key[slot[t]]] = slot[t]

\* Slots in the list, and those of a thread that has copied the key, have one.
KeysTell ==
    \A s \in Slots :
        fh_key[s] # NULL <=>
            \/ status[s] = IN_LIST
            \/ \E t \in Threads : pc[t] \in HoldPCs \ {"fill"} /\ slot[t] = s

\* A slot with a key holds the payload of that key, the one that lru_add was
\* called with.
PayloadFits ==
    /\ \A s \in Slots : fh_key[s] # NULL => payload[s] = fh_key[s]
    /\ \A t \in Threads : pc[t] \in Filled => fh_key[slot[t]] = key[t]

\* Between fh_searchlock and fh_releaselock the entry stays in the hashtable.
Pinned ==
    \A t \in Threads :
        pc[t] = "touch" => fh[key[t]] = slot[t] /\ h_lock[LockOf[key[t]]] = t

\* lru_destroy has left nothing.
NothingLeft ==
    (\E t \in Threads : pc[t] = "destroyed") =>
        /\ \A s \in Slots : status[s] = IN_FREELIST /\ fh_key[s] = NULL
        /\ \A k \in Keys : fh[k] = NULL

Control == TypeOK /\ Locals /\ Alone
Entries == HeldOnce /\ Fresh /\ HashTells /\ KeysTell /\ PayloadFits /\ Pinned /\ NothingLeft

LruInv == ListInv /\ Control /\ Entries

USE DEF Filling, Filled, HoldPCs

-----------------------------------------------------------------------------
\* The invariant says what the runs check.
LEMMA InvGives ==
  ASSUME LruInv
  PROVE  SlotsSound /\ HashAgreesWithList /\ RightPayload /\ RecencyList
  <1>1. /\ \A s \in Slots : /\ s \in Elems(order) <=> status[s] = IN_LIST
                            /\ s \in Elems(free) <=> status[s] = IN_FREELIST
        /\ Elems(order) \subseteq Slots /\ Elems(free) \subseteq Slots
    BY Apart DEF LruInv, ListInv, StatusTells
  <1>2. SlotConservation
    BY <1>1, Apart DEF LruInv, Control, Entries, HeldOnce, SlotConservation, Holders, At
  <1>3. KeysOwned
    BY <1>1 DEF LruInv, Entries, KeysTell, KeysOwned, Holders, At
  <1>4. DestroyedClean
    BY <1>1 DEF LruInv, Entries, NothingLeft, DestroyedClean, At
  <1>5. HashAgreesWithList
    <2>1. \A k \in Keys : fh[k] # NULL => fh[k] \in Slots
      BY DEF LruInv, Control, TypeOK
    <2> QED
      BY <1>1, <2>1 DEF LruInv, Entries, HashTells, HashAgreesWithList, Halfway, At
  <1>6. RightPayload
    <2> SUFFICES ASSUME NEW t \in Threads, pc[t] = "touch" PROVE payload[slot[t]] = key[t]
      BY DEF RightPayload, At
    <2>1. key[t] \in Keys /\ slot[t] \in Slots /\ fh[key[t]] = slot[t]
      BY DEF LruInv, Control, Locals, Entries, Pinned
    <2>2. fh_key[slot[t]] = key[t] /\ key[t] # NULL
      BY <2>1, Apart, LruAssumption DEF LruInv, Entries, HashTells
    <2> QED
      BY <2>1, <2>2 DEF LruInv, Entries, PayloadFits
  <1> QED
    BY <1>2, <1>3, <1>4, <1>5, <1>6 DEF LruInv, ListInv, Control, SlotsSound

\* lru_create establishes the invariant.
LEMMA LruInit == Init => LruInv
  <1> SUFFICES ASSUME Init PROVE LruInv
    OBVIOUS
  <1>1. ListInv
    BY ListInit DEF Init
  <1>2. Control
    BY <1>1 DEF Init, Control, ListInv, TypeOK, Locals, Alone, PCs, EntryPoints
  <1>3. \A s \in Slots : status[s] = IN_FREELIST /\ IN_FREELIST # DANGLING /\ IN_FREELIST # IN_LIST
    BY <1>1, Apart DEF Init, llInit
  <1>4. Entries
    BY <1>3 DEF Init, Entries, HeldOnce, Fresh, HashTells, KeysTell, PayloadFits, Pinned, NothingLeft
  <1> QED
    BY <1>1, <1>2, <1>4 DEF LruInv

-----------------------------------------------------------------------------
\* A step that leaves the list alone keeps what ListInv says.
LEMMA ListKept ==
  ASSUME ListInv, UNCHANGED llvars
  PROVE  ListInv'
  BY DEF llvars, ListInv, llTypeOK, RecencyList, FreeChain, StatusTells, Elems

\* Nobody runs beside a thread that is inside of lru_destroy, nor after it.
LEMMA Undisturbed ==
  ASSUME LruInv, NEW t \in Threads, pc[t] \notin {"idle", "destroyed"}
  PROVE  \A u \in Threads \ {t} : op[u] # "destroy" /\ pc[u] # "destroyed"
  BY DEF LruInv, Control, Alone

\* When ll_remove_last finds nothing, no slot is in the list.
LEMMA EmptyList ==
  ASSUME ListInv, last = NULL
  PROVE  \A s \in Slots : status[s] # IN_LIST
  <1>1. Len(order) \in Nat /\ (Len(order) # 0 => 1 \in 1..Len(order))
    BY Apart
  <1>2. Len(order) = 0
    BY <1>1, Apart DEF ListInv, RecencyList
  <1> QED
    BY <1>2 DEF ListInv, StatusTells, Elems

\* The calls of lru.h.
LEMMA StartInv ==
  ASSUME LruInv, NEW t \in Threads, Start(t)
  PROVE  LruInv'
  <1>1. PICK call \in EntryPoints, k \in Keys \cup {NULL}, at \in {"new", "search", "remove"} :
           /\ Enter(t, call, k, at)
           /\ call = "add" => at = "new" /\ k \in Keys
           /\ call = "check" => at = "search" /\ k \in Keys
           /\ call \in {"clear", "destroy"} => at = "remove"
    BY DEF Start, AddCall, CheckCall, ClearCall, DestroyCall, DestroyEntry, EntryPoints
  <1>2. /\ pc[t] = "idle" /\ UNCHANGED <<llvars, hash, pload, slot>>
        /\ pc' = [pc EXCEPT ![t] = at]
        /\ op' = [op EXCEPT ![t] = call]
        /\ key' = [key EXCEPT ![t] = k]
        /\ \A u \in Threads : /\ op[u] # "destroy" /\ pc[u] # "destroyed"
                              /\ call = "destroy" => pc[u] = "idle"
    BY <1>1 DEF Enter, MayCall
  <1>3. ListInv'
    BY <1>2, ListKept DEF LruInv
  <1>4. /\ pc \in [Threads -> PCs] /\ op \in [Threads -> EntryPoints \cup {"none"}]
        /\ key \in [Threads -> Keys \cup {NULL}]
    BY DEF LruInv, Control, TypeOK
  <1>5. /\ pc'[t] = at /\ op'[t] = call /\ key'[t] = k
        /\ \A u \in Threads \ {t} : pc'[u] = pc[u] /\ op'[u] = op[u] /\ key'[u] = key[u]
    BY <1>2, <1>4
  <1>6. TypeOK'
    BY <1>1, <1>2, <1>3, <1>4 DEF LruInv, Control, TypeOK, ListInv, hash, pload, PCs
  <1>7. Locals' /\ Alone'
    BY <1>1, <1>2, <1>5 DEF LruInv, Control, Locals, Alone, EntryPoints
  <1>8. HeldOnce' /\ Fresh' /\ KeysTell' /\ PayloadFits'
    BY <1>1, <1>2, <1>5 DEF LruInv, Entries, HeldOnce, Fresh, KeysTell, PayloadFits, llvars, hash, pload
  <1>9. HashTells' /\ Pinned' /\ NothingLeft'
    BY <1>1, <1>2, <1>5 DEF LruInv, Entries, HashTells, Pinned, NothingLeft, llvars, hash, pload
  <1> QED
    BY <1>3, <1>6, <1>7, <1>8, <1>9 DEF LruInv, Control, Entries

\* Steps of a thread that only move it: out of the loops, or to the next step
\* after a call of fh that changed nothing.
LEMMA MoveInv ==
  ASSUME LruInv, NEW t \in Threads, NEW at \in PCs,
         UNCHANGED <<llvars, hash, pload>>,
         pc' = [pc EXCEPT ![t] = at],
         \/ /\ pc[t] = "new" /\ at = "remove" /\ UNCHANGED <<op, key, slot>>
         \/ /\ pc[t] = "insert" /\ at \in {"undo_dup", "undo_mem"}
            /\ UNCHANGED <<op, key, slot>>
         \/ /\ pc[t] \in {"search", "remove"}
            /\ at = "idle" \/ (at = "destroyed" /\ op[t] = "destroy" /\ last = NULL)
            /\ op' = [op EXCEPT ![t] = "none"] /\ key' = [key EXCEPT ![t] = NULL]
            /\ slot' = [slot EXCEPT ![t] = NULL]
  PROVE  LruInv'
  <1>1. ListInv'
    BY ListKept DEF LruInv
  <1>2. /\ pc \in [Threads -> PCs] /\ op \in [Threads -> EntryPoints \cup {"none"}]
        /\ key \in [Threads -> Keys \cup {NULL}] /\ slot \in [Threads -> Slots \cup {NULL}]
    BY DEF LruInv, Control, TypeOK
  <1>3. /\ pc'[t] = at
        /\ \A u \in Threads \ {t} :
              pc'[u] = pc[u] /\ op'[u] = op[u] /\ key'[u] = key[u] /\ slot'[u] = slot[u]
    BY <1>2
  <1>4. TypeOK'
    BY <1>1, <1>2 DEF LruInv, Control, TypeOK, ListInv, hash, pload, PCs
  <1>5. Locals' /\ Alone'
    BY <1>2, <1>3 DEF LruInv, Control, Locals, Alone
  <1>6. HeldOnce' /\ Fresh' /\ KeysTell' /\ PayloadFits'
    BY <1>2, <1>3 DEF LruInv, Entries, HeldOnce, Fresh, KeysTell, PayloadFits, llvars, hash, pload
  <1>7. HashTells' /\ Pinned'
    BY <1>2, <1>3 DEF LruInv, Entries, HashTells, Pinned, llvars, hash, pload
  <1>8. NothingLeft'
    <2>1. \A u \in Threads \ {t} : pc'[u] # "destroyed"
      BY <1>3, Undisturbed
    <2>2. CASE at # "destroyed"
      BY <1>3, <2>1, <2>2 DEF NothingLeft
    <2>3. CASE at = "destroyed"
      <3>1. pc[t] = "remove" /\ last = NULL /\ \A u \in Threads \ {t} : pc[u] = "idle"
        BY <2>3 DEF LruInv, Control, Locals, Alone
      <3>2. \A u \in Threads : pc[u] \notin HoldPCs /\ pc[u] \notin {"top", "del"}
        BY <3>1
      <3>3. \A s \in Slots : status[s] = IN_FREELIST /\ status[s] # IN_LIST
        BY <3>1, <3>2, EmptyList, Apart DEF LruInv, Entries, HeldOnce, ListInv, llTypeOK
      <3>4. \A s \in Slots : fh_key[s] = NULL
        BY <3>2, <3>3 DEF LruInv, Entries, KeysTell
      <3>5. \A k \in Keys : fh[k] = NULL
        <4>1. \A k \in Keys : fh[k] # NULL => fh[k] \in Slots
          BY DEF LruInv, Control, TypeOK
        <4> QED
          BY <3>2, <3>3, <4>1 DEF LruInv, Entries, HashTells
      <3> QED
        BY <3>3, <3>4, <3>5 DEF NothingLeft, llvars, hash, pload
    <2> QED
      BY <2>2, <2>3
  <1> QED
    BY <1>1, <1>4, <1>5, <1>6, <1>7, <1>8 DEF LruInv, Control, Entries

\* ll_slot_new gives lru_add a slot that nobody else has.
LEMMA AddNewInv ==
  ASSUME LruInv, NEW t \in Threads, AddNew(t)
  PROVE  LruInv'
  <1>1. CASE freelist = NULL
    <2>1. /\ pc[t] = "new" /\ pc' = [pc EXCEPT ![t] = "remove"]
          /\ UNCHANGED <<llvars, hash, pload>> /\ UNCHANGED <<op, key, slot>>
      BY <1>1 DEF AddNew, Goto, SlotNew
    <2> QED
      BY <2>1, MoveInv DEF PCs
  <1>2. CASE freelist # NULL
    <2> DEFINE s == freelist
    <2>1. /\ pc[t] = "new" /\ pc' = [pc EXCEPT ![t] = "fill"]
          /\ SlotNew /\ UNCHANGED <<hash, pload>> /\ UNCHANGED <<op, key>>
          /\ slot' = [slot EXCEPT ![t] = s]
      BY <1>2 DEF AddNew, Goto
    <2>2. ListInv' /\ s \in Elems(free) /\ next'[s] = NULL /\ prev'[s] = NULL
      BY <2>1, SlotNewInv DEF LruInv
    <2>3. s \in Slots /\ status[s] = IN_FREELIST
      BY <2>2, Apart DEF LruInv
    <2>4. /\ status'[s] = DANGLING
          /\ \A x \in Slots \ {s} : next'[x] = next[x] /\ prev'[x] = prev[x] /\ status'[x] = status[x]
      BY <2>1, <2>3 DEF SlotNew, LruInv, ListInv, llTypeOK
    <2> HIDE DEF s
    <2>5. /\ pc \in [Threads -> PCs] /\ slot \in [Threads -> Slots \cup {NULL}]
      BY DEF LruInv, Control, TypeOK
    <2>6. /\ pc'[t] = "fill" /\ slot'[t] = s
          /\ \A u \in Threads \ {t} : pc'[u] = pc[u] /\ slot'[u] = slot[u]
      BY <2>1, <2>5
    <2>7. TypeOK'
      BY <2>1, <2>2, <2>3, <2>5 DEF LruInv, Control, TypeOK, ListInv, hash, pload, PCs
    <2>8. Locals' /\ Alone'
      BY <2>1, <2>3, <2>6 DEF LruInv, Control, Locals, Alone
    <2>9. /\ IN_FREELIST # DANGLING /\ IN_FREELIST # IN_LIST /\ IN_LIST # DANGLING
          /\ \A u \in Threads : pc[u] \in HoldPCs => slot[u] # s /\ slot[u] \in Slots
      BY <2>3, Apart DEF LruInv, Entries, HeldOnce, Control, Locals
    <2>10. HeldOnce'
      BY <2>1, <2>3, <2>4, <2>6, <2>9 DEF LruInv, Entries, HeldOnce
    <2>11. Fresh' /\ PayloadFits'
      BY <2>1, <2>2, <2>4, <2>6, <2>9 DEF LruInv, Entries, Fresh, PayloadFits, pload
    <2>12. HashTells'
      BY <2>1, <2>3, <2>4, <2>6, <2>9 DEF LruInv, Entries, HashTells, hash, pload, Control, TypeOK
    <2>13. KeysTell'
      BY <2>1, <2>3, <2>4, <2>6, <2>9 DEF LruInv, Entries, KeysTell, pload
    <2>14. Pinned' /\ NothingLeft'
      BY <2>1, <2>6, Undisturbed DEF LruInv, Entries, Pinned, NothingLeft, hash
    <2> QED
      BY <2>2, <2>7, <2>8, <2>10, <2>11, <2>12, <2>13, <2>14 DEF LruInv, Control, Entries
  <1> QED
    BY <1>1, <1>2

\* A thread that holds a slot is the only one, and no key of the hashtable leads
\* to the slot unless it is about to be added or removed.
LEMMA HolderFacts ==
  ASSUME LruInv, NEW t \in Threads, pc[t] \in HoldPCs
  PROVE  /\ slot[t] \in Slots /\ slot[t] # NULL /\ status[slot[t]] = DANGLING
         /\ IN_FREELIST # DANGLING /\ IN_FREELIST # IN_LIST /\ IN_LIST # DANGLING
         /\ \A u \in Threads \ {t} : pc[u] \in HoldPCs => slot[u] # slot[t] /\ slot[u] \in Slots
         /\ pc[t] \notin {"top", "del"} => \A k \in Keys : fh[k] # slot[t]
         /\ \A u \in Threads \ {t} : pc[u] = "touch" /\ slot[u] = slot[t] => pc[t] \in {"top", "del"}
  <1>1. slot[t] \in Slots /\ slot[t] # NULL /\ status[slot[t]] = DANGLING
    BY Apart DEF LruInv, Control, Locals, Entries, HeldOnce
  <1>2. IN_FREELIST # DANGLING /\ IN_FREELIST # IN_LIST /\ IN_LIST # DANGLING
    BY Apart DEF LruInv
  <1>3. \A u \in Threads \ {t} : pc[u] \in HoldPCs => slot[u] # slot[t] /\ slot[u] \in Slots
    BY DEF LruInv, Control, Locals, Entries, HeldOnce
  <1>4. ASSUME pc[t] \notin {"top", "del"}, NEW k \in Keys, fh[k] = slot[t] PROVE FALSE
    <2>1. \E u \in Threads : pc[u] \in {"top", "del"} /\ slot[u] = slot[t]
      BY <1>1, <1>2, <1>4 DEF LruInv, Entries, HashTells
    <2> QED
      BY <1>3, <1>4, <2>1
  <1>5. \A u \in Threads : pc[u] = "touch" => key[u] \in Keys /\ fh[key[u]] = slot[u]
    BY DEF LruInv, Control, Locals, Entries, Pinned
  <1> QED
    BY <1>1, <1>2, <1>3, <1>4, <1>5

\* A slot is given back: at the end of an eviction, or when lru_add gives up.
LEMMA GiveBackInv ==
  ASSUME LruInv, NEW t \in Threads, NEW at \in {"new", "remove", "idle"},
         pc[t] \in {"fill", "undo_dup", "undo_mem", "release"},
         SlotFree(slot[t]), UNCHANGED hash,
         fh_key' = [fh_key EXCEPT ![slot[t]] = NULL],
         payload' \in {payload, [payload EXCEPT ![slot[t]] = key[t]]},
         pc' = [pc EXCEPT ![t] = at],
         slot' = [slot EXCEPT ![t] = NULL],
         \/ /\ at = "idle"
            /\ op' = [op EXCEPT ![t] = "none"] /\ key' = [key EXCEPT ![t] = NULL]
         \/ /\ pc[t] = "release" /\ at = (IF op[t] = "add" THEN "new" ELSE "remove")
            /\ UNCHANGED <<op, key>>
  PROVE  LruInv'
  <1> DEFINE s == slot[t]
  <1>1. /\ s \in Slots /\ s # NULL /\ status[s] = DANGLING
        /\ IN_FREELIST # DANGLING /\ IN_FREELIST # IN_LIST /\ IN_LIST # DANGLING
        /\ \A u \in Threads \ {t} : pc[u] \in HoldPCs => slot[u] # s /\ slot[u] \in Slots
        /\ \A k \in Keys : fh[k] # s
    BY HolderFacts
  <1>2. ListInv' /\ status' = [status EXCEPT ![s] = IN_FREELIST]
                 /\ UNCHANGED prev /\ \A x \in Slots \ {s} : next'[x] = next[x]
    BY <1>1, SlotFreeInv DEF LruInv, SlotFree
  <1> HIDE DEF s
  <1>3. /\ pc \in [Threads -> PCs] /\ op \in [Threads -> EntryPoints \cup {"none"}]
        /\ key \in [Threads -> Keys \cup {NULL}] /\ slot \in [Threads -> Slots \cup {NULL}]
        /\ fh_key \in [Slots -> Keys \cup {NULL}] /\ payload \in [Slots -> Keys \cup {NULL}]
        /\ status \in [Slots -> {IN_FREELIST, DANGLING, IN_LIST}]
    BY DEF LruInv, Control, TypeOK, llTypeOK
  <1>4. /\ pc'[t] = at
        /\ \A u \in Threads \ {t} :
              pc'[u] = pc[u] /\ op'[u] = op[u] /\ key'[u] = key[u] /\ slot'[u] = slot[u]
        /\ status'[s] = IN_FREELIST /\ fh_key'[s] = NULL
        /\ \A x \in Slots \ {s} : status'[x] = status[x] /\ fh_key'[x] = fh_key[x] /\ payload'[x] = payload[x]
    BY <1>1, <1>2, <1>3 DEF s
  <1>5. TypeOK'
    BY <1>2, <1>3 DEF LruInv, Control, TypeOK, ListInv, hash, PCs
  <1>6. Locals' /\ Alone'
    BY <1>3, <1>4 DEF LruInv, Control, Locals, Alone
  <1>7. HeldOnce'
    BY <1>1, <1>4 DEF LruInv, Entries, HeldOnce, s
  <1>8. Fresh' /\ PayloadFits'
    BY <1>1, <1>2, <1>4 DEF LruInv, Entries, Fresh, PayloadFits
  <1>9. HashTells'
    <2>1. \A k \in Keys : fh[k] # NULL => fh[k] \in Slots
      BY DEF LruInv, Control, TypeOK
    <2> QED
      BY <1>1, <1>4, <2>1 DEF LruInv, Entries, HashTells, hash
  <1>10. KeysTell'
    BY <1>1, <1>4 DEF LruInv, Entries, KeysTell, s
  <1>11. Pinned' /\ NothingLeft'
    BY <1>4, Undisturbed DEF LruInv, Entries, Pinned, NothingLeft, hash
  <1> QED
    BY <1>2, <1>5, <1>6, <1>7, <1>8, <1>9, <1>10, <1>11 DEF LruInv, Control, Entries

\* lru_add fills the slot; when strdup fails it gives the slot back.
LEMMA AddFillInv ==
  ASSUME LruInv, NEW t \in Threads, AddFill(t)
  PROVE  LruInv'
  <1> DEFINE s == slot[t]
  <1>0. pc[t] = "fill" /\ payload' = [payload EXCEPT ![s] = key[t]] /\ UNCHANGED hash
    BY DEF AddFill
  <1>1. CASE /\ MemoryFails /\ fh_key' = [fh_key EXCEPT ![s] = NULL]
             /\ GiveBack(s) /\ Return(t, "LRU_NO_MEMORY", NULL)
    BY <1>0, <1>1, GiveBackInv DEF GiveBack, Return, Leave
  <1>2. CASE /\ fh_key' = [fh_key EXCEPT ![s] = key[t]]
             /\ Goto(t, "insert") /\ UNCHANGED <<llvars, slot>>
    <2>1. /\ s \in Slots /\ s # NULL /\ status[s] = DANGLING /\ key[t] \in Keys /\ key[t] # NULL
          /\ IN_FREELIST # DANGLING /\ IN_FREELIST # IN_LIST /\ IN_LIST # DANGLING
          /\ \A u \in Threads \ {t} : pc[u] \in HoldPCs => slot[u] # s /\ slot[u] \in Slots
          /\ \A k \in Keys : fh[k] # s
      BY <1>0, HolderFacts, LruAssumption DEF LruInv, Control, Locals
    <2>2. ListInv'
      BY <1>2, ListKept DEF LruInv
    <2>3. /\ pc \in [Threads -> PCs]
          /\ fh_key \in [Slots -> Keys \cup {NULL}] /\ payload \in [Slots -> Keys \cup {NULL}]
      BY DEF LruInv, Control, TypeOK
    <2>4. UNCHANGED <<op, key, slot, fh, h_lock, status, next, prev>>
      BY <1>0, <1>2 DEF Goto, hash, llvars
    <2>5. /\ pc'[t] = "insert" /\ \A u \in Threads \ {t} : pc'[u] = pc[u]
          /\ fh_key'[s] = key[t] /\ payload'[s] = key[t]
          /\ \A x \in Slots \ {s} : fh_key'[x] = fh_key[x] /\ payload'[x] = payload[x]
      BY <1>0, <1>2, <2>1, <2>3 DEF Goto
    <2>6. TypeOK'
      BY <1>0, <1>2, <2>1, <2>2, <2>3, <2>4 DEF LruInv, Control, TypeOK, ListInv, PCs, Goto
    <2>7. Locals' /\ Alone'
      BY <1>0, <2>1, <2>4, <2>5 DEF LruInv, Control, Locals, Alone
    <2>8. HeldOnce' /\ Fresh' /\ PayloadFits'
      BY <1>0, <2>1, <2>4, <2>5 DEF LruInv, Entries, HeldOnce, Fresh, PayloadFits
    <2>9. HashTells'
      <3>1. \A k \in Keys : fh[k] # NULL => fh[k] \in Slots
        BY DEF LruInv, Control, TypeOK
      <3> QED
        BY <1>0, <2>1, <2>4, <2>5, <3>1 DEF LruInv, Entries, HashTells
    <2>10. KeysTell'
      BY <1>0, <2>1, <2>4, <2>5 DEF LruInv, Entries, KeysTell
    <2>11. Pinned' /\ NothingLeft'
      BY <1>0, <2>4, <2>5, Undisturbed DEF LruInv, Entries, Pinned, NothingLeft
    <2> QED
      BY <2>2, <2>6, <2>7, <2>8, <2>9, <2>10, <2>11 DEF LruInv, Control, Entries
  <1> QED
    BY <1>1, <1>2 DEF AddFill

\* fh_insert: the entry appears in the hashtable before it is in the list.
LEMMA AddInsertInv ==
  ASSUME LruInv, NEW t \in Threads, AddInsert(t)
  PROVE  LruInv'
  <1> DEFINE s == slot[t]
             k == key[t]
  <1>0. pc[t] = "insert" /\ Unlocked(k) /\ UNCHANGED <<llvars, h_lock, pload, slot>>
    BY DEF AddInsert
  <1>1. CASE fh' = fh /\ (Goto(t, "undo_dup") \/ Goto(t, "undo_mem"))
    <2>1. PICK at \in {"undo_dup", "undo_mem"} : Goto(t, at)
      BY <1>1
    <2>2. /\ UNCHANGED <<llvars, hash, pload>> /\ UNCHANGED <<op, key, slot>>
          /\ pc' = [pc EXCEPT ![t] = at] /\ at \in PCs
      BY <1>0, <1>1, <2>1 DEF Goto, hash, PCs
    <2> QED
      BY <1>0, <2>2, MoveInv
  <1>2. CASE ~Duplicate(k) /\ fh' = [fh EXCEPT ![k] = s] /\ Goto(t, "top")
    <2>1. /\ s \in Slots /\ s # NULL /\ status[s] = DANGLING /\ k \in Keys /\ k # NULL
          /\ IN_FREELIST # DANGLING /\ IN_FREELIST # IN_LIST /\ IN_LIST # DANGLING
          /\ \A u \in Threads \ {t} : pc[u] \in HoldPCs => slot[u] # s /\ slot[u] \in Slots
          /\ \A j \in Keys : fh[j] # s
          /\ fh[k] = NULL /\ fh_key[s] = k
      BY <1>0, <1>2, HolderFacts, LruAssumption
      DEF LruInv, Control, Locals, Entries, PayloadFits, Duplicate
    <2>2. ListInv'
      BY <1>0, ListKept DEF LruInv
    <2>3. /\ pc \in [Threads -> PCs] /\ fh \in [Keys -> Slots \cup {NULL}]
          /\ fh_key \in [Slots -> Keys \cup {NULL}]
      BY DEF LruInv, Control, TypeOK
    <2>4. UNCHANGED <<op, key, slot, fh_key, payload, h_lock, status, next, prev>>
      BY <1>0, <1>2 DEF Goto, pload, llvars
    <2>5. /\ pc'[t] = "top" /\ \A u \in Threads \ {t} : pc'[u] = pc[u]
          /\ fh'[k] = s /\ \A j \in Keys \ {k} : fh'[j] = fh[j]
      BY <1>2, <2>1, <2>3 DEF Goto
    <2> HIDE DEF s, k
    <2>6. TypeOK'
      BY <1>2, <2>1, <2>2, <2>3, <2>4 DEF LruInv, Control, TypeOK, ListInv, PCs, Goto
    <2>7. Locals' /\ Alone'
      BY <1>0, <2>1, <2>4, <2>5 DEF LruInv, Control, Locals, Alone
    <2>8. HeldOnce' /\ Fresh' /\ PayloadFits' /\ KeysTell'
      BY <1>0, <2>4, <2>5 DEF LruInv, Entries, HeldOnce, Fresh, PayloadFits, KeysTell
    <2>9. HashTells'
      <3>1. ASSUME NEW x \in Slots, fh_key[x] # NULL, fh[fh_key[x]] = x PROVE fh'[fh_key[x]] = x
        BY <2>1, <2>3, <2>5, <3>1, Apart DEF LruInv
      <3>2. ASSUME NEW j \in Keys, fh'[j] # NULL
            PROVE  /\ fh_key[fh'[j]] = j
                   /\ \/ status[fh'[j]] = IN_LIST
                      \/ \E u \in Threads : pc'[u] \in {"top", "del"} /\ slot[u] = fh'[j]
        <4>1. CASE j = k
          BY <2>1, <2>5, <4>1 DEF s
        <4>2. CASE j # k
          BY <1>0, <2>1, <2>5, <3>2, <4>2 DEF LruInv, Entries, HashTells, s
        <4> QED
          BY <4>1, <4>2
      <3>3. ASSUME NEW u \in Threads, pc'[u] \in {"top", "del"}
            PROVE  fh_key[slot[u]] # NULL /\ fh'[fh_key[slot[u]]] = slot[u]
        BY <1>0, <2>1, <2>5, <3>1, <3>3 DEF LruInv, Entries, HashTells, s
      <3> QED
        BY <2>4, <3>1, <3>2, <3>3 DEF LruInv, Entries, HashTells
    <2>10. Pinned'
      <3>1. ASSUME NEW u \in Threads, pc[u] = "touch" PROVE key[u] # k /\ key[u] \in Keys
        BY <1>0, <2>1, <3>1, LruAssumption DEF LruInv, Entries, Pinned, Unlocked, Control, Locals
      <3> QED
        BY <1>0, <2>4, <2>5, <3>1 DEF LruInv, Entries, Pinned
    <2>11. NothingLeft'
      BY <1>0, <2>5, Undisturbed DEF NothingLeft
    <2> QED
      BY <2>2, <2>6, <2>7, <2>8, <2>9, <2>10, <2>11 DEF LruInv, Control, Entries
  <1> QED
    BY <1>1, <1>2 DEF AddInsert

\* ll_slot_add_to_top
LEMMA AddTopInv ==
  ASSUME LruInv, NEW t \in Threads, AddTop(t)
  PROVE  LruInv'
  <1> DEFINE s == slot[t]
  <1>0. /\ pc[t] = "top" /\ AddToTop(s) /\ UNCHANGED <<hash, pload>>
        /\ pc' = [pc EXCEPT ![t] = "idle"] /\ op' = [op EXCEPT ![t] = "none"]
        /\ key' = [key EXCEPT ![t] = NULL] /\ slot' = [slot EXCEPT ![t] = NULL]
    BY DEF AddTop, Return, Leave
  <1>1. /\ s \in Slots /\ s # NULL /\ status[s] = DANGLING
        /\ IN_FREELIST # DANGLING /\ IN_FREELIST # IN_LIST /\ IN_LIST # DANGLING
        /\ \A u \in Threads \ {t} : pc[u] \in HoldPCs => slot[u] # s /\ slot[u] \in Slots
    BY <1>0, HolderFacts
  <1>2. next[s] = NULL /\ prev[s] = NULL
    BY <1>0 DEF LruInv, Entries, Fresh
  <1>3. /\ ListInv' /\ status' = [status EXCEPT ![s] = IN_LIST]
        /\ \A x \in Slots \ {s} : x \notin Elems(order) => next'[x] = next[x] /\ prev'[x] = prev[x]
    BY <1>0, <1>1, <1>2, AddToTopInv DEF LruInv
  <1>4. /\ pc \in [Threads -> PCs] /\ op \in [Threads -> EntryPoints \cup {"none"}]
        /\ key \in [Threads -> Keys \cup {NULL}] /\ slot \in [Threads -> Slots \cup {NULL}]
        /\ status \in [Slots -> {IN_FREELIST, DANGLING, IN_LIST}]
    BY DEF LruInv, Control, TypeOK, llTypeOK
  <1>5. /\ pc'[t] = "idle"
        /\ \A u \in Threads \ {t} :
              pc'[u] = pc[u] /\ op'[u] = op[u] /\ key'[u] = key[u] /\ slot'[u] = slot[u]
        /\ status'[s] = IN_LIST /\ \A x \in Slots \ {s} : status'[x] = status[x]
    BY <1>0, <1>1, <1>3, <1>4
  <1> HIDE DEF s
  <1>6. TypeOK'
    BY <1>0, <1>3, <1>4 DEF LruInv, Control, TypeOK, ListInv, hash, pload, PCs
  <1>7. Locals' /\ Alone'
    BY <1>0, <1>4, <1>5 DEF LruInv, Control, Locals, Alone
  <1>8. HeldOnce'
    BY <1>0, <1>1, <1>5 DEF LruInv, Entries, HeldOnce, s
  <1>9. Fresh' /\ PayloadFits'
    <2>1. ASSUME NEW u \in Threads \ {t}, pc[u] \in HoldPCs
          PROVE  slot[u] \in Slots \ {s} /\ slot[u] \notin Elems(order)
      BY <1>1, <2>1, Apart, HolderFacts DEF LruInv
    <2> QED
      BY <1>0, <1>3, <1>5, <2>1 DEF LruInv, Entries, Fresh, PayloadFits, pload
  <1>10. HashTells'
    <2>1. \A k \in Keys : fh[k] # NULL => fh[k] \in Slots
      BY DEF LruInv, Control, TypeOK
    <2> QED
      BY <1>0, <1>1, <1>5, <2>1 DEF LruInv, Entries, HashTells, hash, pload, s
  <1>11. KeysTell'
    BY <1>0, <1>1, <1>5 DEF LruInv, Entries, KeysTell, pload, s
  <1>12. Pinned' /\ NothingLeft'
    BY <1>0, <1>5, Undisturbed DEF LruInv, Entries, Pinned, NothingLeft, hash
  <1> QED
    BY <1>3, <1>6, <1>7, <1>8, <1>9, <1>10, <1>11, <1>12 DEF LruInv, Control, Entries

\* ll_remove_last: the entry leaves the list before the hashtable.
LEMMA RemoveInv ==
  ASSUME LruInv, NEW t \in Threads, Remove(t)
  PROVE  LruInv'
  <1>0. pc[t] = "remove" /\ UNCHANGED <<hash, pload>>
    BY DEF Remove
  <1>1. CASE last = NULL
    <2>1. UNCHANGED llvars /\ ListEmpty(t)
      BY <1>1 DEF Remove, RemoveLast
    <2>2. PICK at \in {"idle", "destroyed"} :
             /\ at = "destroyed" => op[t] = "destroy"
             /\ pc' = [pc EXCEPT ![t] = at] /\ op' = [op EXCEPT ![t] = "none"]
             /\ key' = [key EXCEPT ![t] = NULL] /\ slot' = [slot EXCEPT ![t] = NULL]
      BY <2>1 DEF ListEmpty, ClearReturns, Return, Leave
    <2> QED
      BY <1>0, <1>1, <2>1, <2>2, MoveInv DEF PCs
  <1>2. CASE last # NULL
    <2> DEFINE s == last
    <2>1. /\ RemoveLast /\ slot' = [slot EXCEPT ![t] = s]
          /\ pc' = [pc EXCEPT ![t] = "del"] /\ UNCHANGED <<op, key>>
      BY <1>2 DEF Remove, Goto
    <2>2. /\ ListInv' /\ s \in Elems(order) /\ status' = [status EXCEPT ![s] = DANGLING]
          /\ \A x \in Slots : x \notin Elems(order) => prev'[x] = prev[x]
          /\ UNCHANGED next
      BY <2>1, RemoveLastInv DEF LruInv, RemoveLast
    <2>3. /\ s \in Slots /\ status[s] = IN_LIST
          /\ IN_FREELIST # DANGLING /\ IN_FREELIST # IN_LIST /\ IN_LIST # DANGLING
      BY <2>2, Apart DEF LruInv
    <2> HIDE DEF s
    <2>4. /\ pc \in [Threads -> PCs] /\ slot \in [Threads -> Slots \cup {NULL}]
          /\ status \in [Slots -> {IN_FREELIST, DANGLING, IN_LIST}]
      BY DEF LruInv, Control, TypeOK, llTypeOK
    <2>5. /\ pc'[t] = "del" /\ slot'[t] = s
          /\ \A u \in Threads \ {t} : pc'[u] = pc[u] /\ slot'[u] = slot[u]
          /\ status'[s] = DANGLING /\ \A x \in Slots \ {s} : status'[x] = status[x]
      BY <2>1, <2>2, <2>3, <2>4
    <2>6. TypeOK'
      BY <1>0, <2>1, <2>2, <2>3, <2>4 DEF LruInv, Control, TypeOK, ListInv, hash, pload, PCs
    <2>7. Locals' /\ Alone'
      BY <1>0, <2>1, <2>3, <2>5 DEF LruInv, Control, Locals, Alone
    <2>8. \A u \in Threads : pc[u] \in HoldPCs =>
             slot[u] \in Slots /\ slot[u] # s /\ slot[u] \notin Elems(order)
      BY <2>3, HolderFacts, Apart DEF LruInv
    <2>9. HeldOnce'
      BY <1>0, <2>3, <2>5, <2>8 DEF LruInv, Entries, HeldOnce
    <2>10. Fresh' /\ PayloadFits'
      BY <1>0, <2>1, <2>2, <2>5, <2>8 DEF LruInv, Entries, Fresh, PayloadFits, pload
    <2>11. HashTells'
      <3>1. \A k \in Keys : fh[k] # NULL => fh[k] \in Slots
        BY DEF LruInv, Control, TypeOK
      <3>2. fh_key[s] # NULL /\ fh[fh_key[s]] = s
        BY <2>3 DEF LruInv, Entries, HashTells
      <3> QED
        BY <1>0, <2>3, <2>5, <2>8, <3>1, <3>2 DEF LruInv, Entries, HashTells, hash, pload
    <2>12. KeysTell'
      BY <1>0, <2>3, <2>5, <2>8 DEF LruInv, Entries, KeysTell, pload
    <2>13. Pinned' /\ NothingLeft'
      BY <1>0, <2>1, <2>5, Undisturbed DEF LruInv, Entries, Pinned, NothingLeft, hash
    <2> QED
      BY <2>2, <2>6, <2>7, <2>9, <2>10, <2>11, <2>12, <2>13 DEF LruInv, Control, Entries
  <1> QED
    BY <1>1, <1>2

\* fh_del finds the entry of the slot, whatever happened since ll_remove_last.
LEMMA DelFinds ==
  ASSUME LruInv, NEW t \in Threads, pc[t] = "del"
  PROVE  /\ slot[t] \in Slots /\ fh_key[slot[t]] \in Keys
         /\ fh[fh_key[slot[t]]] = slot[t] /\ slot[t] # NULL
  BY HolderFacts DEF LruInv, Control, TypeOK, Entries, HashTells

\* fh_del
LEMMA DelInv ==
  ASSUME LruInv, NEW t \in Threads, Del(t)
  PROVE  LruInv'
  <1> DEFINE s == slot[t]
             k == fh_key[s]
  <1>0. pc[t] = "del" /\ Unlocked(k) /\ fh' = [fh EXCEPT ![k] = NULL]
        /\ UNCHANGED <<llvars, h_lock, pload>>
    BY DEF Del
  <1>1. s \in Slots /\ k \in Keys /\ fh[k] = s /\ s # NULL
    BY <1>0, DelFinds
  <1>2. Goto(t, "release") /\ UNCHANGED slot
    BY <1>1 DEF Del
  <1>3. ListInv'
    BY <1>0, ListKept DEF LruInv
  <1>4. /\ IN_FREELIST # DANGLING /\ IN_FREELIST # IN_LIST /\ IN_LIST # DANGLING
        /\ status[s] = DANGLING
        /\ \A u \in Threads \ {t} : pc[u] \in HoldPCs => slot[u] # s /\ slot[u] \in Slots
    BY <1>0, HolderFacts
  <1>5. pc \in [Threads -> PCs] /\ fh \in [Keys -> Slots \cup {NULL}] /\ fh_key \in [Slots -> Keys \cup {NULL}]
    BY DEF LruInv, Control, TypeOK
  <1>6. UNCHANGED <<op, key, slot, fh_key, payload, h_lock, status, next, prev>>
    BY <1>0, <1>2 DEF Goto, pload, llvars
  <1>7. /\ pc'[t] = "release" /\ \A u \in Threads \ {t} : pc'[u] = pc[u]
        /\ fh'[k] = NULL /\ \A j \in Keys \ {k} : fh'[j] = fh[j]
    BY <1>0, <1>1, <1>2, <1>5 DEF Goto
  <1>8. TypeOK'
    BY <1>0, <1>2, <1>3, <1>5, <1>6 DEF LruInv, Control, TypeOK, ListInv, PCs, Goto
  <1>9. k = fh_key[s]
    OBVIOUS
  <1> HIDE DEF k
  <1>10. Locals' /\ Alone'
    BY <1>0, <1>1, <1>6, <1>7 DEF LruInv, Control, Locals, Alone
  <1>11. HeldOnce' /\ Fresh' /\ PayloadFits' /\ KeysTell'
    BY <1>0, <1>6, <1>7 DEF LruInv, Entries, HeldOnce, Fresh, PayloadFits, KeysTell
  <1>12. HashTells'
    <2>1. ASSUME NEW x \in Slots \ {s}, fh_key[x] # NULL, fh[fh_key[x]] = x PROVE fh'[fh_key[x]] = x
      BY <1>1, <1>5, <1>7, <2>1
    <2>2. ASSUME NEW j \in Keys, fh'[j] # NULL
          PROVE  /\ fh_key[fh'[j]] = j
                 /\ \/ status[fh'[j]] = IN_LIST
                    \/ \E u \in Threads : pc'[u] \in {"top", "del"} /\ slot[u] = fh'[j]
      <3>1. j # k /\ fh'[j] = fh[j] /\ fh[j] # s
        BY <1>1, <1>7, <1>9, <2>2 DEF LruInv, Entries, HashTells
      <3> QED
        BY <1>7, <2>2, <3>1 DEF LruInv, Entries, HashTells
    <2>3. ASSUME NEW u \in Threads, pc'[u] \in {"top", "del"}
          PROVE  fh_key[slot[u]] # NULL /\ fh'[fh_key[slot[u]]] = slot[u]
      <3>1. u # t /\ pc[u] \in {"top", "del"} /\ slot[u] \in Slots \ {s}
        BY <1>4, <1>7, <2>3
      <3> QED
        BY <2>1, <3>1 DEF LruInv, Entries, HashTells
    <2>4. ASSUME NEW x \in Slots, status[x] = IN_LIST
          PROVE  fh_key[x] # NULL /\ fh'[fh_key[x]] = x
      BY <1>4, <2>1, <2>4 DEF LruInv, Entries, HashTells
    <2> QED
      BY <1>6, <2>2, <2>3, <2>4 DEF HashTells
  <1>13. Pinned'
    <2>1. ASSUME NEW u \in Threads, pc[u] = "touch" PROVE key[u] # k /\ key[u] \in Keys
      BY <1>0, <2>1, LruAssumption DEF LruInv, Entries, Pinned, Unlocked, Control, Locals
    <2> QED
      BY <1>0, <1>6, <1>7, <2>1 DEF LruInv, Entries, Pinned
  <1>14. NothingLeft'
    BY <1>0, <1>7, Undisturbed DEF NothingLeft
  <1> QED
    BY <1>3, <1>8, <1>10, <1>11, <1>12, <1>13, <1>14 DEF LruInv, Control, Entries

\* fh_searchlock
LEMMA SearchInv ==
  ASSUME LruInv, NEW t \in Threads, Search(t)
  PROVE  LruInv'
  <1> DEFINE k == key[t]
  <1>0. pc[t] = "search" /\ Unlocked(k) /\ UNCHANGED <<llvars, fh, pload>> /\ k \in Keys
    BY DEF Search, LruInv, Control, Locals
  <1>1. CASE fh[k] = NULL
    <2>1. /\ UNCHANGED <<llvars, hash, pload>>
          /\ pc' = [pc EXCEPT ![t] = "idle"] /\ op' = [op EXCEPT ![t] = "none"]
          /\ key' = [key EXCEPT ![t] = NULL] /\ slot' = [slot EXCEPT ![t] = NULL]
      BY <1>0, <1>1 DEF Search, Return, Leave, hash
    <2> QED
      BY <1>0, <2>1, MoveInv DEF PCs
  <1>2. CASE fh[k] # NULL
    <2>1. /\ h_lock' = [h_lock EXCEPT ![LockOf[k]] = t]
          /\ slot' = [slot EXCEPT ![t] = fh[k]]
          /\ pc' = [pc EXCEPT ![t] = "touch"] /\ UNCHANGED <<op, key>>
      BY <1>2 DEF Search, KeepLock, Goto
    <2>2. ListInv'
      BY <1>0, ListKept DEF LruInv
    <2>3. /\ pc \in [Threads -> PCs] /\ slot \in [Threads -> Slots \cup {NULL}]
          /\ h_lock \in [Locks -> Threads \cup {NULL}] /\ LockOf[k] \in Locks
          /\ fh[k] \in Slots
      BY <1>0, <1>2, LruAssumption DEF LruInv, Control, TypeOK
    <2>4. UNCHANGED <<op, key, fh, fh_key, payload, status, next, prev>>
      BY <1>0, <2>1 DEF pload, llvars
    <2>5. /\ pc'[t] = "touch" /\ slot'[t] = fh[k] /\ h_lock'[LockOf[k]] = t
          /\ \A u \in Threads \ {t} : pc'[u] = pc[u] /\ slot'[u] = slot[u]
          /\ \A l \in Locks \ {LockOf[k]} : h_lock'[l] = h_lock[l]
      BY <2>1, <2>3
    <2>6. TypeOK'
      BY <1>0, <2>1, <2>2, <2>3, <2>4 DEF LruInv, Control, TypeOK, ListInv, PCs
    <2>7. Locals' /\ Alone'
      BY <1>0, <2>3, <2>4, <2>5 DEF LruInv, Control, Locals, Alone
    <2>8. HeldOnce' /\ Fresh' /\ PayloadFits' /\ KeysTell'
      BY <1>0, <2>4, <2>5 DEF LruInv, Entries, HeldOnce, Fresh, PayloadFits, KeysTell
    <2>9. HashTells' /\ NothingLeft'
      BY <1>0, <2>4, <2>5, Undisturbed DEF LruInv, Entries, HashTells, NothingLeft
    <2>10. Pinned'
      <3>1. ASSUME NEW u \in Threads \ {t}, pc[u] = "touch"
            PROVE  LockOf[key[u]] \in Locks /\ LockOf[key[u]] # LockOf[k]
        <4>1. key[u] \in Keys /\ h_lock[LockOf[key[u]]] = u /\ u # NULL
          BY <3>1, LruAssumption DEF LruInv, Entries, Pinned, Control, Locals
        <4> QED
          BY <1>0, <4>1, LruAssumption DEF Unlocked
      <3> QED
        BY <2>4, <2>5, <3>1 DEF LruInv, Entries, Pinned
    <2> QED
      BY <2>2, <2>6, <2>7, <2>8, <2>9, <2>10 DEF LruInv, Control, Entries
  <1> QED
    BY <1>1, <1>2

\* ll_slot_move_to_top and fh_releaselock
LEMMA TouchInv ==
  ASSUME LruInv, NEW t \in Threads, Touch(t)
  PROVE  LruInv'
  <1> DEFINE k == key[t]
  <1>0. /\ pc[t] = "touch" /\ MoveToTop(slot[t]) /\ UNCHANGED <<fh, pload>>
        /\ h_lock' = [h_lock EXCEPT ![LockOf[k]] = NULL]
        /\ pc' = [pc EXCEPT ![t] = "idle"] /\ op' = [op EXCEPT ![t] = "none"]
        /\ key' = [key EXCEPT ![t] = NULL] /\ slot' = [slot EXCEPT ![t] = NULL]
    BY DEF Touch, Return, Leave
  <1>1. slot[t] \in Slots /\ k \in Keys /\ LockOf[k] \in Locks /\ h_lock[LockOf[k]] = t
    BY <1>0, LruAssumption DEF LruInv, Control, Locals, Entries, Pinned
  <1>2. /\ ListInv' /\ UNCHANGED status
        /\ \A x \in Slots : x \notin Elems(order) => next'[x] = next[x] /\ prev'[x] = prev[x]
    BY <1>0, <1>1, MoveToTopInv DEF LruInv
  <1>3. /\ pc \in [Threads -> PCs] /\ op \in [Threads -> EntryPoints \cup {"none"}]
        /\ key \in [Threads -> Keys \cup {NULL}] /\ slot \in [Threads -> Slots \cup {NULL}]
        /\ h_lock \in [Locks -> Threads \cup {NULL}]
    BY DEF LruInv, Control, TypeOK
  <1>4. /\ pc'[t] = "idle"
        /\ \A u \in Threads \ {t} :
              pc'[u] = pc[u] /\ op'[u] = op[u] /\ key'[u] = key[u] /\ slot'[u] = slot[u]
        /\ \A l \in Locks \ {LockOf[k]} : h_lock'[l] = h_lock[l]
    BY <1>0, <1>3
  <1>5. TypeOK'
    BY <1>0, <1>2, <1>3 DEF LruInv, Control, TypeOK, ListInv, pload, PCs
  <1>6. Locals' /\ Alone'
    BY <1>0, <1>3, <1>4 DEF LruInv, Control, Locals, Alone
  <1>7. HeldOnce' /\ KeysTell' /\ PayloadFits'
    BY <1>0, <1>2, <1>4 DEF LruInv, Entries, HeldOnce, KeysTell, PayloadFits, pload
  <1>8. Fresh'
    <2>1. ASSUME NEW u \in Threads, pc[u] \in HoldPCs
          PROVE  slot[u] \in Slots /\ slot[u] \notin Elems(order)
      BY <2>1, Apart, HolderFacts DEF LruInv
    <2> QED
      BY <1>0, <1>2, <1>4, <2>1 DEF LruInv, Entries, Fresh
  <1>9. HashTells' /\ NothingLeft'
    BY <1>0, <1>2, <1>4, Undisturbed DEF LruInv, Entries, HashTells, NothingLeft, pload
  <1>10. Pinned'
    <2>1. ASSUME NEW u \in Threads \ {t}, pc[u] = "touch"
          PROVE  LockOf[key[u]] \in Locks /\ LockOf[key[u]] # LockOf[k]
      BY <1>1, <2>1, LruAssumption DEF LruInv, Entries, Pinned, Control, Locals
    <2> QED
      BY <1>0, <1>4, <2>1 DEF LruInv, Entries, Pinned
  <1> QED
    BY <1>2, <1>5, <1>6, <1>7, <1>8, <1>9, <1>10 DEF LruInv, Control, Entries

\* Every step keeps the invariant.
LEMMA LruNext == LruInv /\ [Next]_vars => LruInv'
  <1> SUFFICES ASSUME LruInv, [Next]_vars PROVE LruInv'
    OBVIOUS
  <1>1. CASE UNCHANGED vars
    <2>1. ListInv'
      BY <1>1, ListKept DEF vars, llvars, LruInv
    <2>2. Control'
      BY <1>1, <2>1 DEF vars, LruInv, Control, TypeOK, Locals, Alone, ListInv
    <2>3. Entries'
      BY <1>1 DEF vars, LruInv, Entries, HeldOnce, Fresh, HashTells, KeysTell, PayloadFits,
                  Pinned, NothingLeft
    <2> QED
      BY <2>1, <2>2, <2>3 DEF LruInv
  <1>2. ASSUME NEW t \in Threads, AddUndo(t) PROVE LruInv'
    BY <1>2, GiveBackInv DEF AddUndo, FreeKey, GiveBack, Return, Leave
  <1>3. ASSUME NEW t \in Threads, Release(t) PROVE LruInv'
    <2>1. (IF op[t] = "add" THEN "new" ELSE "remove") \in {"new", "remove", "idle"}
      OBVIOUS
    <2> QED
      BY <1>3, <2>1, GiveBackInv DEF Release, Goto, AfterRelease
  <1> QED
    BY <1>1, <1>2, <1>3, StartInv, AddNewInv, AddFillInv, AddInsertInv, AddTopInv,
       RemoveInv, DelInv, SearchInv, TouchInv
    DEF Next, Destroyed, Step, AddStep, EvictStep

\* Every slot and every key string has one owner, through duplicates, evictions
\* and failing allocations, and lru_destroy leaves nothing.
THEOREM NothingLost == Spec => []SlotsSound
  BY LruInit, LruNext, InvGives, PTL DEF Spec

\* The hashtable and the list hold the same entries.
THEOREM HashAndListAgree == Spec => []HashAgreesWithList
  BY LruInit, LruNext, InvGives, PTL DEF Spec

\* lru_check returns the payload that was added with its key.
THEOREM CheckReadsItsPayload == Spec => []RightPayload
  BY LruInit, LruNext, InvGives, PTL DEF Spec

\* The list is in the order of use.
THEOREM ListInOrderOfUse == Spec => []RecencyList
  BY LruInit, LruNext, InvGives, PTL DEF Spec

-----------------------------------------------------------------------------
(***************************************************************************)
(* The refinement: what lru.c does with the hashtable is what the map of   *)
(* HashMap allows.                                                         *)
(***************************************************************************)
HoldsOf == [t \in Threads |-> IF pc[t] = "touch" THEN key[t] ELSE NULL]
ResOf   == [t \in Threads |-> Fh(t)]
Nothing == Map!NoResult

\* The positions at which the result of a call of fh still matters.
Answered == {"undo_dup", "undo_mem", "top", "release", "touch"}

\* What the other threads see of themselves.
OthersKept(t) ==
    \A u \in Threads \ {t} :
        /\ pc'[u] = pc[u] /\ key'[u] = key[u] /\ slot'[u] = slot[u]
        /\ pc[u] = "release" => fh_key'[slot[u]] = fh_key[slot[u]]

\* A step of one thread leaves the locks and results of the others.
LEMMA OthersFh ==
  ASSUME NEW t, OthersKept(t)
  PROVE  \A u \in Threads \ {t} : HoldsOf'[u] = HoldsOf[u] /\ ResOf'[u] = ResOf[u]
  <1> SUFFICES ASSUME NEW u \in Threads \ {t}
               PROVE  HoldsOf'[u] = HoldsOf[u] /\ ResOf'[u] = ResOf[u]
    OBVIOUS
  <1>1. Fh(u)' = Fh(u)
    BY DEF OthersKept, Fh
  <1> QED
    BY <1>1 DEF OthersKept, HoldsOf, ResOf

\* A step after which the answer of fh does not matter any more.
LEMMA Forgets ==
  ASSUME NEW t \in Threads, OthersKept(t), UNCHANGED fh,
         pc[t] # "touch", pc'[t] \notin Answered
  PROVE  Map!Next
  <1>1. HoldsOf' = HoldsOf
    <2>1. HoldsOf'[t] = HoldsOf[t]
      BY DEF HoldsOf, Answered
    <2> QED
      BY <2>1, OthersFh DEF HoldsOf
  <1>2. ResOf'[t] = Nothing
    BY DEF ResOf, Fh, Nothing, Map!NoResult, Map!Result, Answered
  <1>3. DOMAIN ResOf' = Threads /\ \A u \in Threads : ResOf'[u] \in {ResOf[u], Nothing}
    BY <1>2, OthersFh DEF ResOf
  <1> QED
    BY <1>1, <1>3 DEF Map!Next, Map!Forget, Map!Quiet, Map!Fading, HoldsOf, ResOf, Nothing

\* A step that calls fh and goes where the answer tells.
LEMMA Answers ==
  ASSUME NEW t \in Threads, OthersKept(t), pc'[t] \in Answered,
         NEW call, NEW k, NEW code, NEW val, Fh(t)' = Map!Result(call, k, code, val)
  PROVE  /\ Map!Answer(t, call, k, code, val)
         /\ call # "none" => ResOf'[t] # Nothing
  <1>1. DOMAIN ResOf' = Threads /\ ResOf'[t] = Map!Result(call, k, code, val)
    BY DEF ResOf
  <1>2. \A u \in Threads \ {t} : ResOf'[u] \in {ResOf[u], Nothing}
    BY OthersFh
  <1>3. call # "none" => Map!Result(call, k, code, val) # Nothing
    BY DEF Nothing, Map!NoResult, Map!Result
  <1> QED
    BY <1>1, <1>2, <1>3 DEF Map!Answer, Map!Fading, ResOf, Nothing

\* Every step of a thread leaves the others where they are.
LEMMA StepOthers ==
  ASSUME LruInv, NEW t \in Threads, Start(t) \/ Step(t)
  PROVE  OthersKept(t)
  <1> USE DEF OthersKept
  <1>0. /\ pc \in [Threads -> PCs] /\ key \in [Threads -> Keys \cup {NULL}]
        /\ slot \in [Threads -> Slots \cup {NULL}] /\ fh_key \in [Slots -> Keys \cup {NULL}]
    BY DEF LruInv, Control, TypeOK
  <1>1. \A u \in Threads \ {t} : pc[t] \in HoldPCs /\ pc[u] = "release" => slot[u] \in Slots \ {slot[t]}
    BY HolderFacts
  <1>2. CASE Start(t)
    BY <1>0, <1>2 DEF Start, AddCall, CheckCall, ClearCall, DestroyCall, Enter, pload
  <1>3. CASE AddStep(t)
    BY <1>0, <1>1, <1>3 DEF AddStep, AddNew, AddFill, AddInsert, AddUndo, AddTop, FreeKey,
                            Goto, Return, Leave, pload
  <1>4. CASE EvictStep(t)
    BY <1>0, <1>1, <1>4 DEF EvictStep, Remove, Del, Release, ListEmpty, ClearReturns, Goto,
                            Return, Leave, pload
  <1>5. CASE Search(t) \/ Touch(t)
    BY <1>0, <1>5 DEF Search, Touch, Goto, Return, Leave, pload
  <1> QED
    BY <1>2, <1>3, <1>4, <1>5 DEF Step

\* Nobody else has locked the entry of a key whose lock is free.
LEMMA UnlockedReachable ==
  ASSUME LruInv, NEW t \in Threads, NEW k \in Keys, Unlocked(k), pc[t] # "touch"
  PROVE  HoldsOf[t] = NULL /\ Map!Reachable(t, k)
  <1>1. HoldsOf[t] = NULL
    BY DEF HoldsOf
  <1>2. ASSUME NEW u \in Threads PROVE HoldsOf[u] # k
    BY LruAssumption DEF LruInv, Entries, Pinned, Unlocked, HoldsOf
  <1> QED
    BY <1>1, <1>2 DEF Map!Reachable, HoldsOf

\* fh_insert of lru_add
LEMMA InsertRefines ==
  ASSUME LruInv, NEW t \in Threads, AddInsert(t)
  PROVE  Map!Next
  <1> DEFINE k == key[t]
  <1>1. /\ pc[t] = "insert" /\ k \in Keys /\ slot[t] \in Slots /\ slot[t] # NULL
        /\ HoldsOf[t] = NULL /\ Map!Reachable(t, k) /\ UNCHANGED <<key, slot>>
    BY HolderFacts, UnlockedReachable DEF AddInsert, LruInv, Control, Locals, Goto
  <1>2. OthersKept(t) /\ pc \in [Threads -> PCs]
    BY StepOthers DEF Step, AddStep, LruInv, Control, TypeOK
  <1>3. pc'[t] \in Answered /\ pc'[t] # "touch" /\ HoldsOf' = HoldsOf
    <2>1. pc'[t] \in Answered /\ pc'[t] # "touch"
      BY <1>2 DEF AddInsert, Goto, Answered
    <2>2. HoldsOf'[t] = HoldsOf[t]
      BY <1>1, <2>1 DEF HoldsOf
    <2> QED
      BY <1>2, <2>1, <2>2, OthersFh DEF HoldsOf
  <1>4. CASE Duplicate(k) /\ Goto(t, "undo_dup") /\ UNCHANGED fh
    <2>1. Fh(t)' = Map!Result("insert", k, "FH_DUPLICATED_ELEMENT", NULL)
      BY <1>1, <1>2, <1>4 DEF Fh, Map!Result, Goto
    <2>2. Map!Answer(t, "insert", k, "FH_DUPLICATED_ELEMENT", NULL) /\ ResOf'[t] # Nothing
      BY <1>2, <1>3, <2>1, Answers
    <2>3. Map!Insert(t, k, slot[t], FALSE)
      BY <1>1, <1>3, <1>4, <2>2 DEF Map!Insert, Duplicate, HoldsOf
    <2> QED
      BY <1>1, <2>2, <2>3 DEF Map!Next, Map!Call, ResOf, Nothing
  <1>5. CASE Goto(t, "undo_mem") /\ UNCHANGED fh
    <2>1. Fh(t)' = Map!Result("insert", k, "FH_NO_MEMORY", NULL)
      BY <1>1, <1>2, <1>5 DEF Fh, Map!Result, Goto
    <2>2. Map!Answer(t, "insert", k, "FH_NO_MEMORY", NULL) /\ ResOf'[t] # Nothing
      BY <1>2, <1>3, <2>1, Answers
    <2>3. Map!Insert(t, k, slot[t], FALSE)
      BY <1>1, <1>3, <1>5, <2>2 DEF Map!Insert, HoldsOf
    <2> QED
      BY <1>1, <2>2, <2>3 DEF Map!Next, Map!Call, ResOf, Nothing
  <1>6. CASE ~Duplicate(k) /\ fh' = [fh EXCEPT ![k] = slot[t]] /\ Goto(t, "top")
    <2>1. Fh(t)' = Map!Result("insert", k, "FH_OK", slot[t])
      BY <1>1, <1>2, <1>6 DEF Fh, Map!Result, Goto
    <2>2. Map!Answer(t, "insert", k, "FH_OK", slot[t]) /\ ResOf'[t] # Nothing
      BY <1>2, <1>3, <2>1, Answers
    <2>3. Map!Insert(t, k, slot[t], FALSE)
      BY <1>1, <1>3, <1>6, <2>2 DEF Map!Insert, Duplicate, HoldsOf
    <2> QED
      BY <1>1, <2>2, <2>3 DEF Map!Next, Map!Call, ResOf, Nothing
  <1> QED
    BY <1>4, <1>5, <1>6 DEF AddInsert

\* fh_del of lru_add and lru_clear always finds its entry.
LEMMA DelRefines ==
  ASSUME LruInv, NEW t \in Threads, Del(t)
  PROVE  Map!Next
  <1> DEFINE k == fh_key[slot[t]]
  <1>1. /\ pc[t] = "del" /\ k \in Keys /\ fh[k] # NULL
        /\ HoldsOf[t] = NULL /\ Map!Reachable(t, k)
        /\ fh' = [fh EXCEPT ![k] = NULL] /\ UNCHANGED <<fh_key, slot>>
        /\ Goto(t, "release")
    BY DelFinds, UnlockedReachable DEF Del, pload
  <1>2. OthersKept(t) /\ pc \in [Threads -> PCs]
    BY StepOthers DEF Step, EvictStep, LruInv, Control, TypeOK
  <1>3. pc'[t] \in Answered /\ HoldsOf' = HoldsOf
    <2>1. pc'[t] = "release"
      BY <1>1, <1>2 DEF Goto
    <2>2. HoldsOf'[t] = HoldsOf[t]
      BY <1>1, <2>1 DEF HoldsOf
    <2> QED
      BY <1>2, <2>1, <2>2, OthersFh DEF HoldsOf, Answered
  <1>4. Fh(t)' = Map!Result("del", k, "FH_OK", NULL)
    BY <1>1, <1>2 DEF Fh, Map!Result, Goto
  <1>5. Map!Answer(t, "del", k, "FH_OK", NULL) /\ ResOf'[t] # Nothing
    BY <1>2, <1>3, <1>4, Answers
  <1>6. Map!Delete(t, k, FALSE)
    BY <1>1, <1>3, <1>5 DEF Map!Delete, HoldsOf
  <1> QED
    BY <1>1, <1>5, <1>6 DEF Map!Next, Map!Call, ResOf, Nothing

\* fh_searchlock of lru_check
LEMMA SearchRefines ==
  ASSUME LruInv, NEW t \in Threads, Search(t)
  PROVE  Map!Next
  <1> DEFINE k == key[t]
  <1>1. /\ pc[t] = "search" /\ k \in Keys /\ HoldsOf[t] = NULL /\ Map!Reachable(t, k)
        /\ UNCHANGED fh
    BY UnlockedReachable DEF Search, LruInv, Control, Locals
  <1>2. OthersKept(t) /\ pc \in [Threads -> PCs] /\ slot \in [Threads -> Slots \cup {NULL}]
    BY StepOthers DEF Step, LruInv, Control, TypeOK
  <1>3. CASE fh[k] = NULL
    <2>1. pc'[t] = "idle"
      BY <1>2, <1>3 DEF Search, Return, Leave
    <2> QED
      BY <1>1, <1>2, <2>1, Forgets DEF Answered
  <1>4. CASE fh[k] # NULL
    <2>1. pc'[t] = "touch" /\ UNCHANGED key /\ slot'[t] = fh[k]
      BY <1>2, <1>4 DEF Search, Goto
    <2>2. Fh(t)' = Map!Result("searchlock", k, "FH_OK", fh[k])
      BY <2>1 DEF Fh, Map!Result
    <2>3. Map!Answer(t, "searchlock", k, "FH_OK", fh[k]) /\ ResOf'[t] # Nothing
      BY <1>2, <2>1, <2>2, Answers DEF Answered
    <2>4. HoldsOf' = [HoldsOf EXCEPT ![t] = k]
      <3>1. HoldsOf'[t] = k
        BY <2>1 DEF HoldsOf
      <3>2. \A u \in Threads \ {t} : HoldsOf'[u] = HoldsOf[u]
        BY <1>2, OthersFh
      <3> HIDE DEF k
      <3> QED
        BY <3>1, <3>2 DEF HoldsOf
    <2>5. Map!Search(t, k, TRUE)
      BY <1>1, <1>4, <2>3, <2>4 DEF Map!Search, HoldsOf
    <2> QED
      BY <1>1, <2>3, <2>5 DEF Map!Next, Map!Call, ResOf, Nothing
  <1> QED
    BY <1>3, <1>4

\* fh_releaselock of lru_check
LEMMA TouchRefines ==
  ASSUME LruInv, NEW t \in Threads, Touch(t)
  PROVE  Map!Next
  <1>1. pc[t] = "touch" /\ key[t] # NULL /\ UNCHANGED fh
    BY LruAssumption DEF Touch, LruInv, Control, Locals
  <1>2. OthersKept(t) /\ pc'[t] = "idle"
    BY StepOthers DEF Step, Touch, Return, Leave, LruInv, Control, TypeOK
  <1>3. HoldsOf[t] # NULL /\ HoldsOf' = [HoldsOf EXCEPT ![t] = NULL]
    <2>1. HoldsOf'[t] = NULL /\ HoldsOf[t] # NULL
      BY <1>1, <1>2 DEF HoldsOf
    <2> QED
      BY <1>2, <2>1, OthersFh DEF HoldsOf
  <1>4. ResOf'[t] = Nothing
    BY <1>2 DEF ResOf, Fh, Nothing, Map!NoResult, Map!Result
  <1>5. DOMAIN ResOf' = Threads /\ \A u \in Threads : ResOf'[u] \in {ResOf[u], Nothing}
    BY <1>2, <1>4, OthersFh DEF ResOf
  <1>6. Map!Release(t)
    BY <1>1, <1>3, <1>5 DEF Map!Release, Map!Quiet, Map!Fading, HoldsOf, ResOf, Nothing
  <1> QED
    BY <1>6 DEF Map!Next, Map!Hold

\* lru.c uses the hashtable as HashMap, which FastHash implements, allows; in
\* particular fh_del always finds what ll_remove_last gave.
THEOREM LruUsesTheMap == Spec => UsesHashMap
  <1>1. Init => Map!Init
    <2> SUFFICES ASSUME Init PROVE Map!Init
      OBVIOUS
    <2>1. \A t \in Threads : pc[t] = "idle"
      BY DEF Init
    <2>2. HoldsOf = [t \in Threads |-> NULL] /\ ResOf = [t \in Threads |-> Nothing]
      BY <2>1 DEF HoldsOf, ResOf, Fh, Nothing, Map!NoResult, Map!Result
    <2> QED
      BY <2>2 DEF Init, Map!Init, HoldsOf, ResOf, Nothing
  <1>2. LruInv /\ [Next]_vars => [Map!Next]_(Map!vars)
    <2> SUFFICES ASSUME LruInv, [Next]_vars PROVE Map!Next \/ UNCHANGED Map!vars
      OBVIOUS
    <2>1. CASE UNCHANGED vars
      BY <2>1 DEF vars, Map!vars, Fh
    <2>2. ASSUME NEW t \in Threads,
                 \/ Start(t) \/ AddNew(t) \/ AddFill(t) \/ AddUndo(t) \/ AddTop(t)
                 \/ Remove(t) \/ Release(t)
          PROVE  Map!Next
      <3>1. OthersKept(t)
        BY <2>2, StepOthers DEF Step, AddStep, EvictStep
      <3>2. pc \in [Threads -> PCs]
        BY DEF LruInv, Control, TypeOK
      <3>3. UNCHANGED fh /\ pc[t] # "touch" /\ pc'[t] \notin Answered
        <4>1. CASE Start(t)
          BY <3>2, <4>1 DEF Start, AddCall, CheckCall, ClearCall, DestroyCall, DestroyEntry,
                            Enter, MayCall, hash, Answered
        <4>2. CASE AddNew(t) \/ AddTop(t) \/ AddUndo(t)
          BY <3>2, <4>2 DEF AddNew, AddTop, AddUndo, Goto, Return, Leave, hash, Answered
        <4>3. CASE AddFill(t)
          BY <3>2, <4>3 DEF AddFill, Goto, Return, Leave, hash, Answered
        <4>4. CASE Remove(t) \/ Release(t)
          BY <3>2, <4>4 DEF Remove, Release, AfterRelease, ListEmpty, ClearReturns,
                            Goto, Return, Leave, hash, Answered
        <4> QED
          BY <2>2, <4>1, <4>2, <4>3, <4>4
      <3> QED
        BY <3>1, <3>3, Forgets
    <2> QED
      BY <2>1, <2>2, InsertRefines, DelRefines, SearchRefines, TouchRefines
      DEF Next, Destroyed, Step, AddStep, EvictStep
  <1> QED
    BY <1>1, <1>2, LruInit, LruNext, PTL DEF Spec, UsesHashMap, Map!Spec

-----------------------------------------------------------------------------
(***************************************************************************)
(* Why lru_add finds an entry to evict.  The threads in the eviction loop  *)
(* never outnumber the entries in the list.                                *)
(***************************************************************************)
AddsAndChecks == Cardinality(Threads) <= Dim /\ Calls \cap {"clear", "destroy"} = {}

Removers == At({"remove"})

\* One entry for each of them.
EntryForEach ==
    /\ Cardinality(Removers) <= Len(order)
    /\ \A t \in Threads : op[t] \notin {"clear", "destroy"}

\* When no slot is free, all are in the list or held.
LEMMA AllInUse ==
  ASSUME LruInv, freelist = NULL
  PROVE  /\ IsFiniteSet(Holders) /\ Cardinality(Holders) \in Nat
         /\ Dim <= Len(order) + Cardinality(Holders)
  <1> DEFINE O == Elems(order)
             H == {slot[t] : t \in Holders}
  <1>1. Holders \subseteq Threads /\ \A t \in Holders : pc[t] \in HoldPCs
    BY DEF Holders, At
  <1>2. IsFiniteSet(Threads)
    BY LruAssumption
  <1>3. IsFiniteSet(Holders) /\ Cardinality(Holders) \in Nat
    BY <1>1, <1>2, FS_Subset, FS_CardinalityType
  <1>4. Elems(free) = {}
    <2>1. Len(free) \in Nat /\ (Len(free) # 0 => 1 \in 1..Len(free))
      BY Apart DEF LruInv
    <2>2. Len(free) = 0
      BY <2>1, Apart DEF LruInv, ListInv, FreeChain
    <2> QED
      BY <2>2 DEF Elems
  <1>5. Slots \subseteq O \cup H
    <2> SUFFICES ASSUME NEW s \in Slots, s \notin O PROVE s \in H
      OBVIOUS
    <2>1. status[s] = DANGLING
      BY <1>4 DEF LruInv, ListInv, StatusTells, llTypeOK
    <2>2. PICK t \in Threads : pc[t] \in HoldPCs /\ slot[t] = s
      BY <2>1 DEF LruInv, Entries, HeldOnce
    <2> QED
      BY <2>2 DEF Holders, At
  <1>6. IsFiniteSet(O) /\ Cardinality(O) <= Len(order) /\ Cardinality(O) \in Nat
    <2>1. order \in Surjection(1..Len(order), O) /\ Len(order) \in Nat
      BY Apart DEF LruInv, Surjection, Elems
    <2>2. IsFiniteSet(1..Len(order)) /\ Cardinality(1..Len(order)) = Len(order)
      BY <2>1, FS_Interval
    <2> QED
      BY <2>1, <2>2, FS_Surjection, FS_CardinalityType
  <1>7. IsFiniteSet(H) /\ Cardinality(H) <= Cardinality(Holders) /\ Cardinality(H) \in Nat
    <2> DEFINE f == [t \in Holders |-> slot[t]]
    <2>1. f \in Surjection(Holders, H)
      BY DEF Surjection
    <2> HIDE DEF f, H
    <2> QED
      BY <1>3, <2>1, FS_Surjection, FS_CardinalityType
  <1> HIDE DEF O, H
  <1>8. IsFiniteSet(O \cup H) /\ Cardinality(O \cup H) <= Cardinality(O) + Cardinality(H)
        /\ Cardinality(O \cup H) \in Nat
    <2>1. IsFiniteSet(O \cap H) /\ Cardinality(O \cap H) \in Nat
      BY <1>6, FS_Intersection, FS_CardinalityType
    <2>2. IsFiniteSet(O \cup H) /\ Cardinality(O \cup H) \in Nat
      BY <1>6, <1>7, FS_Union, FS_CardinalityType
    <2>3. Cardinality(O \cup H) = Cardinality(O) + Cardinality(H) - Cardinality(O \cap H)
      BY <1>6, <1>7, FS_Union
    <2> QED
      BY <1>6, <1>7, <2>1, <2>2, <2>3
  <1>9. Cardinality(Slots) = Dim /\ Dim \in Nat
    BY DimAssumption, FS_Interval DEF Slots
  <1>10. Cardinality(Slots) <= Cardinality(O \cup H)
    BY <1>5, <1>8, FS_Subset
  <1> QED
    BY <1>3, <1>6, <1>7, <1>8, <1>9, <1>10, Apart DEF LruInv

\* A thread enters the loop only when no slot is free.
LEMMA RoomForOneMore ==
  ASSUME LruInv, AddsAndChecks, freelist = NULL, NEW t \in Threads, pc[t] = "new"
  PROVE  Cardinality(Removers \cup {t}) <= Len(order)
  <1> DEFINE R == Removers \cup {t}
  <1>1. /\ IsFiniteSet(Holders) /\ Cardinality(Holders) \in Nat
        /\ Dim <= Len(order) + Cardinality(Holders)
    BY AllInUse
  <1>2. R \subseteq Threads /\ Holders \subseteq Threads /\ R \cap Holders = {}
    BY DEF Removers, Holders, At
  <1> HIDE DEF R
  <1>3. IsFiniteSet(Threads) /\ Cardinality(Threads) \in Nat
    BY LruAssumption, FS_CardinalityType
  <1>4. IsFiniteSet(R) /\ Cardinality(R) \in Nat
    BY <1>2, <1>3, FS_Subset, FS_CardinalityType
  <1>5. /\ IsFiniteSet(R \cup Holders)
        /\ Cardinality(R \cup Holders) = Cardinality(R) + Cardinality(Holders)
    <2>1. Cardinality(R \cap Holders) = 0
      BY <1>2, FS_EmptySet
    <2>2. /\ IsFiniteSet(R \cup Holders)
          /\ Cardinality(R \cup Holders)
                = Cardinality(R) + Cardinality(Holders) - Cardinality(R \cap Holders)
      BY <1>1, <1>4, FS_Union
    <2> QED
      BY <1>1, <1>4, <2>1, <2>2
  <1>6. Cardinality(R \cup Holders) <= Cardinality(Threads)
    BY <1>2, <1>3, FS_Subset
  <1>7. Len(order) \in Nat /\ Dim \in Nat
    BY DimAssumption, Apart DEF LruInv
  <1> QED
    BY <1>1, <1>3, <1>4, <1>5, <1>6, <1>7 DEF AddsAndChecks, R

\* Every step keeps an entry for each thread in the loop.
LEMMA EntryForEachNext ==
  ASSUME LruInv, LruInv', AddsAndChecks, EntryForEach, [Next]_vars
  PROVE  EntryForEach'
  <1>0. IsFiniteSet(Removers) /\ Cardinality(Removers) \in Nat /\ Len(order) \in Nat
    <2>1. Removers \subseteq Threads /\ IsFiniteSet(Threads)
      BY LruAssumption DEF Removers, At
    <2> QED
      BY <2>1, FS_Subset, FS_CardinalityType, Apart DEF LruInv
  <1>1. pc \in [Threads -> PCs] /\ op \in [Threads -> EntryPoints \cup {"none"}]
    BY DEF LruInv, Control, TypeOK
  <1>2. ASSUME Removers' = Removers, Len(order') \in Nat, Len(order') >= Len(order),
               \A t \in Threads : op'[t] \notin {"clear", "destroy"}
        PROVE  EntryForEach'
    BY <1>0, <1>2 DEF EntryForEach
  <1>3. CASE UNCHANGED vars
    BY <1>3 DEF vars, EntryForEach, Removers, At
  <1>4. ASSUME NEW t \in Threads, Start(t) \/ Step(t) PROVE EntryForEach'
    <2>1. \A u \in Threads \ {t} : pc'[u] = pc[u]
      BY <1>4, StepOthers DEF OthersKept
    <2>2. \A u \in Threads : op'[u] \notin {"clear", "destroy"}
      <3>1. op'[t] = op[t] \/ op'[t] \in Calls \cup {"none"}
        <4>1. CASE Start(t)
          BY <1>1, <4>1 DEF Start, AddCall, CheckCall, ClearCall, DestroyCall, Enter, MayCall
        <4>2. CASE AddNew(t) \/ AddFill(t) \/ AddInsert(t) \/ AddUndo(t) \/ AddTop(t)
          BY <1>1, <4>2 DEF AddNew, AddFill, AddInsert, AddUndo, AddTop, Goto, Return, Leave
        <4>3. CASE Remove(t) \/ Del(t) \/ Release(t) \/ Search(t) \/ Touch(t)
          BY <1>1, <4>3 DEF Remove, Del, Release, Search, Touch, ListEmpty, ClearReturns,
                            Goto, Return, Leave
        <4> QED
          BY <1>4, <4>1, <4>2, <4>3 DEF Step, AddStep, EvictStep
      <3>2. \A u \in Threads \ {t} : op'[u] = op[u]
        <4>1. CASE Start(t)
          BY <1>1, <4>1 DEF Start, AddCall, CheckCall, ClearCall, DestroyCall, Enter
        <4>2. CASE AddNew(t) \/ AddFill(t) \/ AddInsert(t) \/ AddUndo(t) \/ AddTop(t)
          BY <1>1, <4>2 DEF AddNew, AddFill, AddInsert, AddUndo, AddTop, Goto, Return, Leave
        <4>3. CASE Remove(t) \/ Del(t) \/ Release(t) \/ Search(t) \/ Touch(t)
          BY <1>1, <4>3 DEF Remove, Del, Release, Search, Touch, ListEmpty, ClearReturns,
                            Goto, Return, Leave
        <4> QED
          BY <1>4, <4>1, <4>2, <4>3 DEF Step, AddStep, EvictStep
      <3> QED
        BY <3>1, <3>2 DEF EntryForEach, AddsAndChecks
    <2>3. pc[t] # "remove" /\ pc'[t] # "remove" => Removers' = Removers
      BY <2>1 DEF Removers, At
    <2>4. CASE Remove(t)
      <3>1. t \in Removers
        BY <2>4 DEF Remove, Removers, At
      <3>2. Cardinality(Removers) # 0
        BY <1>0, <3>1, FS_EmptySet
      <3>3. Len(order) > 0
        BY <1>0, <3>2 DEF EntryForEach
      <3>4. last # NULL
        BY <3>3, Apart DEF LruInv, ListInv, RecencyList
      <3>5. pc' = [pc EXCEPT ![t] = "del"] /\ order' = Tail(order)
        BY <2>4, <3>4 DEF Remove, RemoveLast, Goto
      <3>6. Len(order') = Len(order) - 1
        BY <3>3, <3>5, Apart, TailFacts DEF LruInv
      <3>7. Removers' = Removers \ {t}
        BY <1>1, <3>5 DEF Removers, At
      <3>8. Cardinality(Removers \ {t}) = Cardinality(Removers) - 1
        BY <1>0, <3>1, FS_RemoveElement
      <3> QED
        BY <1>0, <2>2, <3>6, <3>7, <3>8 DEF EntryForEach
    <2>5. CASE AddNew(t) /\ pc'[t] = "remove"
      <3>1. pc[t] = "new" /\ freelist = NULL /\ order' = order
        BY <1>1, <2>5 DEF AddNew, Goto, llvars
      <3>2. Removers' = Removers \cup {t}
        BY <2>1, <2>5 DEF Removers, At
      <3>3. Cardinality(Removers \cup {t}) <= Len(order)
        BY <3>1, RoomForOneMore
      <3> QED
        BY <2>2, <3>1, <3>2, <3>3 DEF EntryForEach
    <2>6. CASE ~Remove(t) /\ ~(AddNew(t) /\ pc'[t] = "remove")
      <3>1. pc[t] # "remove" /\ pc'[t] # "remove"
        <4>1. CASE Start(t)
          BY <1>1, <2>2, <4>1 DEF Start, AddCall, CheckCall, ClearCall, DestroyCall, Enter, MayCall
        <4>2. CASE AddNew(t)
          BY <2>6, <4>2 DEF AddNew
        <4>3. CASE AddFill(t) \/ AddInsert(t) \/ AddUndo(t) \/ AddTop(t)
          BY <1>1, <4>3 DEF AddFill, AddInsert, AddUndo, AddTop, Goto, Return, Leave
        <4>4. CASE Del(t)
          BY <1>1, <4>4 DEF Del, ClearReturns, Goto, Return, Leave
        <4>5. CASE Release(t)
          <5>1. pc[t] = "release" /\ op[t] = "add"
            BY <4>5 DEF Release, LruInv, Control, Locals, EntryForEach
          <5> QED
            BY <1>1, <4>5, <5>1 DEF Release, AfterRelease, Goto
        <4>6. CASE Search(t) \/ Touch(t)
          BY <1>1, <4>6 DEF Search, Touch, Goto, Return, Leave
        <4> QED
          BY <1>4, <2>6, <4>1, <4>2, <4>3, <4>4, <4>5, <4>6 DEF Step, AddStep, EvictStep
      <3>2. Len(order') \in Nat /\ Len(order') >= Len(order)
        <4>1. Len(order') \in Nat
          BY DEF LruInv, ListInv, llTypeOK
        <4>2. CASE AddTop(t)
          <5>1. pc[t] = "top" /\ AddToTop(slot[t])
            BY <4>2 DEF AddTop
          <5>2. slot[t] \in Slots /\ status[slot[t]] = DANGLING
            BY <5>1, HolderFacts DEF HoldPCs, Filling
          <5>3. order' = Append(order, slot[t])
            BY <5>1, <5>2 DEF AddToTop, LinkTop
          <5>4. Len(order') = Len(order) + 1
            BY <5>2, <5>3, Apart DEF LruInv
          <5> QED
            BY <1>0, <5>4
        <4>3. CASE Touch(t)
          <5>1. MoveToTop(slot[t]) /\ slot[t] \in Slots
            BY <4>3 DEF Touch, LruInv, Control, Locals
          <5>2. Len(order') = Len(order)
            BY <5>1, MoveToTopInv DEF LruInv
          <5> QED
            BY <1>0, <5>2
        <4>4. CASE Start(t)
          BY <1>0, <4>4 DEF Start, AddCall, CheckCall, ClearCall, DestroyCall, Enter, llvars
        <4>5. CASE AddNew(t) \/ AddFill(t) \/ AddInsert(t) \/ AddUndo(t)
          BY <1>0, <4>5 DEF AddNew, AddFill, AddInsert, AddUndo, SlotNew, GiveBack, SlotFree, llvars
        <4>6. CASE Del(t) \/ Release(t) \/ Search(t)
          BY <1>0, <4>6 DEF Del, Release, Search, SlotFree, llvars
        <4> QED
          BY <1>4, <2>6, <4>2, <4>3, <4>4, <4>5, <4>6, <4>1 DEF Step, AddStep, EvictStep
      <3> QED
        BY <1>2, <2>2, <2>3, <3>1, <3>2
    <2> QED
      BY <2>4, <2>5, <2>6
  <1> QED
    BY <1>3, <1>4 DEF Next, Destroyed

\* With no more threads than slots, and nobody clearing the cache, the loop of
\* lru_add finds an entry whenever it finds no free slot.
THEOREM EvictionAlwaysFinds == Spec => []EvictionFinds
  <1>1. Init => (AddsAndChecks => EntryForEach)
    <2> SUFFICES ASSUME Init PROVE EntryForEach
      OBVIOUS
    <2>1. Removers = {} /\ order = <<>> /\ \A t \in Threads : op[t] = "none"
      BY DEF Init, llInit, Removers, At
    <2>2. Cardinality(Removers) = 0
      BY <2>1, FS_EmptySet
    <2> QED
      BY <2>1, <2>2 DEF EntryForEach
  <1>2. LruInv /\ LruInv' /\ (AddsAndChecks => EntryForEach) /\ [Next]_vars
           => (AddsAndChecks => EntryForEach)'
    <2> SUFFICES ASSUME LruInv, LruInv', AddsAndChecks => EntryForEach, [Next]_vars, AddsAndChecks
                 PROVE  EntryForEach'
      BY DEF AddsAndChecks
    <2> QED
      BY EntryForEachNext
  <1>3. LruInv /\ (AddsAndChecks => EntryForEach) => EvictionFinds
    <2> SUFFICES ASSUME LruInv, EntryForEach, NEW t \in Removers PROVE last # NULL
      BY DEF EvictionFinds, AddsAndChecks, Removers
    <2>1. IsFiniteSet(Removers) /\ Cardinality(Removers) \in Nat
      <3>1. Removers \subseteq Threads /\ IsFiniteSet(Threads)
        BY LruAssumption DEF Removers, At
      <3> QED
        BY <3>1, FS_Subset, FS_CardinalityType
    <2>2. Cardinality(Removers) # 0
      BY <2>1, FS_EmptySet
    <2>3. Len(order) > 0
      BY <2>1, <2>2, Apart DEF EntryForEach, LruInv
    <2> QED
      BY <2>3, Apart DEF LruInv, ListInv, RecencyList
  <1> QED
    BY <1>1, <1>2, <1>3, LruInit, LruNext, PTL DEF Spec
=============================================================================
