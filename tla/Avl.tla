-------------------------------- MODULE Avl --------------------------------
(***************************************************************************)
(* libavl/avl.c and avl_internal.c: a balanced search tree, used by one    *)
(* thread.  A tree is NULL or a node with its two subtrees; keys are       *)
(* numbers, strcmp their order.  alive tells whether the key string of a   *)
(* node is still allocated: avl_delete_node frees one that a node goes on  *)
(* using.  An operation that would read a freed string has no defined      *)
(* outcome and ends the behaviour.  The handle comes from avl_create(NULL) *)
(* and malloc succeeds (the code does not test it).                        *)
(* An operator named Bad... is a defective variant of the one it precedes. *)
(***************************************************************************)
EXTENDS Integers, Sequences, FiniteSets

CONSTANTS Keys, NULL,
          Values   \* the data that clients store for a key

ASSUME AvlAssumption ==
    /\ Keys \subseteq Int /\ IsFiniteSet(Keys)
    /\ DOMAIN Values = Keys /\ \A k \in Keys : NULL \notin Values[k]

VARIABLES root,   \* ah->root
          last,   \* the last operation, its arguments and what it returned
          phase   \* "open", "destroyed" or "undefined"

vars == <<root, last, phase>>
-----------------------------------------------------------------------------
(***************************************************************************)
(* avl_internal.c                                                          *)
(***************************************************************************)
Node(k, d) == [key |-> k, alive |-> TRUE, data |-> d, height |-> 1,
               left |-> NULL, right |-> NULL]

Height(n) == IF n = NULL THEN 0 ELSE n.height

UpdateHeight(n) ==
    LET l == Height(n.left)
        r == Height(n.right)
    IN  [n EXCEPT !.height = 1 + (IF l > r THEN l ELSE r)]

Balance(n) == IF n = NULL THEN 0 ELSE Height(n.left) - Height(n.right)

\* Defect: the middle subtree is dropped.
BadRotateRight(y) ==
    UpdateHeight([y.left EXCEPT !.right = UpdateHeight([y EXCEPT !.left = NULL])])
RotateRight(y) ==
    UpdateHeight([y.left EXCEPT !.right = UpdateHeight([y EXCEPT !.left = y.left.right])])

RotateLeft(x) ==
    UpdateHeight([x.right EXCEPT !.left = UpdateHeight([x EXCEPT !.right = x.right.left])])

LeftRight(n) == RotateRight([n EXCEPT !.left = RotateLeft(@)])
RightLeft(n) == RotateLeft([n EXCEPT !.right = RotateRight(@)])
-----------------------------------------------------------------------------
(***************************************************************************)
(* avl.c                                                                   *)
(***************************************************************************)
\* The rotations of avl_insert_node, told apart by the new key.
InsertBalanced(n, k) ==
    CASE Balance(n) > 1  /\ k < n.left.key  -> RotateRight(n)
      [] Balance(n) < -1 /\ k > n.right.key -> RotateLeft(n)
      [] Balance(n) > 1  /\ k > n.left.key  -> LeftRight(n)
      [] Balance(n) < -1 /\ k < n.right.key -> RightLeft(n)
      [] OTHER -> n

RECURSIVE Insert(_, _, _)
Insert(n, k, d) ==
    IF n = NULL THEN Node(k, d)
    ELSE IF k = n.key THEN n
    ELSE InsertBalanced(UpdateHeight(
            IF k < n.key THEN [n EXCEPT !.left = Insert(@, k, d)]
                         ELSE [n EXCEPT !.right = Insert(@, k, d)]), k)

RECURSIVE Search(_, _)
Search(n, k) ==
    IF n = NULL THEN NULL
    ELSE IF k = n.key THEN n.data
    ELSE Search(IF k < n.key THEN n.left ELSE n.right, k)

RECURSIVE MinValueNode(_)
MinValueNode(n) == IF n.left = NULL THEN n ELSE MinValueNode(n.left)

\* Defect: the left right case is taken for a left left case when the child
\* leans to the right.
BadDeleteBalanced(n) ==
    CASE Balance(n) > 1 -> RotateRight(n)
      [] Balance(n) < -1 -> RotateLeft(n)
      [] OTHER -> n
\* The rotations of avl_delete_node, told apart by the balance of the child.
DeleteBalanced(n) ==
    CASE Balance(n) > 1  /\ Balance(n.left) >= 0  -> RotateRight(n)
      [] Balance(n) > 1  /\ Balance(n.left) < 0   -> LeftRight(n)
      [] Balance(n) < -1 /\ Balance(n.right) <= 0 -> RotateLeft(n)
      [] Balance(n) < -1 /\ Balance(n.right) > 0  -> RightLeft(n)
      [] OTHER -> n

\* The node with one child takes over the contents of the child, whose key
\* string is then freed with the child.
OneChild(n) ==
    [(IF n.left # NULL THEN n.left ELSE n.right) EXCEPT !.alive = FALSE]

RECURSIVE Delete(_, _)
Delete(n, k) ==
    CASE n = NULL -> NULL
      [] n # NULL /\ k < n.key ->
            DeleteBalanced(UpdateHeight([n EXCEPT !.left = Delete(@, k)]))
      [] n # NULL /\ k > n.key ->
            DeleteBalanced(UpdateHeight([n EXCEPT !.right = Delete(@, k)]))
      [] n # NULL /\ k = n.key /\ n.left = NULL /\ n.right = NULL -> NULL
      [] n # NULL /\ k = n.key /\ (n.left = NULL) # (n.right = NULL) ->
            DeleteBalanced(UpdateHeight(OneChild(n)))
      [] OTHER ->
            LET temp == MinValueNode(n.right) IN
            DeleteBalanced(UpdateHeight(
                [n EXCEPT !.key = temp.key, !.alive = TRUE, !.data = temp.data,
                          !.right = Delete(@, temp.key)]))

\* The key strings that the descent to k compares are all allocated.
RECURSIVE Readable(_, _)
Readable(n, k) ==
    n # NULL => /\ n.alive
                /\ k # n.key => Readable(IF k < n.key THEN n.left ELSE n.right, k)

\* With two children avl_delete_node also descends to the successor.
RECURSIVE DeleteReadable(_, _)
DeleteReadable(n, k) ==
    n # NULL => /\ n.alive
                /\ IF k = n.key
                   THEN n.left = NULL \/ n.right = NULL
                            \/ Readable(n.right, MinValueNode(n.right).key)
                   ELSE DeleteReadable(IF k < n.key THEN n.left ELSE n.right, k)

\* avl_destroy_node frees the key string of every node.
RECURSIVE AllAlive(_)
AllAlive(n) == n # NULL => (n.alive /\ AllAlive(n.left) /\ AllAlive(n.right))
-----------------------------------------------------------------------------
Op(name, k, d, ret) == [op |-> name, key |-> k, data |-> d, ret |-> ret]

\* avl_create
Init == root = NULL /\ last = Op("create", NULL, NULL, NULL) /\ phase = "open"

avl_insert(k, d) ==
    /\ phase = "open" /\ Readable(root, k)
    /\ root' = Insert(root, k, d)
    /\ last' = Op("insert", k, d, 0)
    /\ UNCHANGED phase

avl_search(k) ==
    /\ phase = "open" /\ Readable(root, k)
    /\ last' = Op("search", k, NULL, Search(root, k))
    /\ UNCHANGED <<root, phase>>

avl_del(k) ==
    /\ phase = "open" /\ DeleteReadable(root, k)
    /\ root' = Delete(root, k)
    /\ last' = Op("del", k, NULL, Search(root, k))
    /\ UNCHANGED phase

avl_destroy ==
    /\ phase = "open" /\ AllAlive(root)
    /\ phase' = "destroyed"
    /\ root' = NULL
    /\ last' = Op("destroy", NULL, NULL, NULL)

\* An operation reads, or frees again, a string that was freed.
Undefined ==
    /\ phase = "open"
    /\ \/ \E k \in Keys : ~Readable(root, k) \/ ~DeleteReadable(root, k)
       \/ ~AllAlive(root)
    /\ phase' = "undefined"
    /\ UNCHANGED <<root, last>>

Stopped == phase # "open" /\ UNCHANGED vars

Next ==
    \/ \E k \in Keys : \E d \in Values[k] : avl_insert(k, d)
    \/ \E k \in Keys : avl_search(k) \/ avl_del(k)
    \/ avl_destroy \/ Undefined \/ Stopped

Spec == Init /\ [][Next]_vars
-----------------------------------------------------------------------------
RECURSIVE InOrder(_)
InOrder(n) == IF n = NULL THEN <<>>
              ELSE InOrder(n.left) \o <<n>> \o InOrder(n.right)

RECURSIVE TrueHeight(_)
TrueHeight(n) ==
    IF n = NULL THEN 0
    ELSE LET l == TrueHeight(n.left)
             r == TrueHeight(n.right)
         IN  1 + (IF l > r THEN l ELSE r)

Nodes == {InOrder(root)[i] : i \in DOMAIN InOrder(root)}

\* After any sequence of insertions and deletions every stored height is the
\* true one and no node is out of balance, so that the depth stays logarithmic.
Balanced == \A n \in Nodes : n.height = TrueHeight(n) /\ Balance(n) \in -1..1

\* The keys are in order along the tree and none is there twice.
SearchTree ==
    LET nodes == InOrder(root) IN
    \A i, j \in DOMAIN nodes : i < j => nodes[i].key < nodes[j].key

\* What avl.c builds is an AVL tree.
IsAvlTree == Balanced /\ SearchTree

\* The map that the tree stands for, read without looking at the order.
Map == {<<n.key, n.data>> : n \in Nodes}

At(map, k) == {p[2] : p \in {q \in map : q[1] = k}}

\* Every operation does to the map what avl.h says, and returns what was there:
\* avl_insert keeps an entry that exists, avl_del removes one key and nothing
\* else, in spite of the rotations and of the successor that moves up.
ActsAsMap ==
    [][LET k == last'.key
           old == At(Map, k)
       IN  CASE last'.op = "insert" ->
                    Map' = IF old = {} THEN Map \cup {<<k, last'.data>>} ELSE Map
             [] last'.op = "search" ->
                    Map' = Map /\ last'.ret = IF old = {} THEN NULL ELSE CHOOSE d \in old : TRUE
             [] last'.op = "del" ->
                    /\ Map' = {p \in Map : p[1] # k}
                    /\ last'.ret = IF old = {} THEN NULL ELSE CHOOSE d \in old : TRUE
             [] last'.op = "destroy" -> Map' = {}]_<<root, last>>

\* A key that was inserted and not deleted can still be looked up: no string on
\* the way to it was freed (the test DeleteKeyAndCheckOthers deletes a key and
\* looks up the others).
KeysStay == \A n \in Nodes : Readable(root, n.key)
=============================================================================
