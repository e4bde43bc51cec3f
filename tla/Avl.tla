--------------------------------- MODULE Avl ---------------------------------
(***************************************************************************)
(* The AVL trees of the C library (src/src/gigatron/libc: _avladd.c,       *)
(* _avldel.c, and the rebalancing in _avlbal.s, whose C text _avladd.c     *)
(* keeps).  A tree is its links and heights.  A place is where a link is   *)
(* stored, what the code calls avlnode_t **: the root, or a side of a node. *)
(* The descent records the places it went through, the deepest first, in   *)
(* an array of StackSize pointers that a null pointer ends.                *)
(* The operators named Bad... are mistakes one could make in the one that  *)
(* follows: the checks must tell them apart.                               *)
(***************************************************************************)
EXTENDS Integers, Sequences, FiniteSets, SequencesExt, FiniteSetsExt

CONSTANTS Nodes,       \* the nodes a program links into trees
          Key,         \* their keys, what cmp compares
          StackSize    \* AVL_STKSIZE
ASSUME AvlAssumption == Nodes \subseteq Nat \ {0} /\ Key \in [Nodes -> Nat] /\ StackSize \in Nat

NULL == 0
Root == <<NULL, "root">>
Left(n) == <<n, "left">>
Right(n) == <<n, "right">>
Empty == [at |-> [p \in {Root} \cup (Nodes \X {"left", "right"}) |-> NULL],
          height |-> [n \in Nodes |-> 0]]
Put(t, p, n) == [t EXCEPT !.at[p] = n]

-----------------------------------------------------------------------------
Height(t, n) == IF n = NULL THEN 0 ELSE t.height[n]
lh(t, n) == Height(t, t.at[Left(n)])
rh(t, n) == Height(t, t.at[Right(n)])
CALC(t, n) == [t EXCEPT !.height[n] = 1 + Max({lh(t, n), rh(t, n)})]

(* The node at place r goes down, and its child at Far(n) takes the place. *)
Rotate(t, r, Far(_), Near(_)) ==
    LET n == t.at[r]
        child == t.at[Far(n)]
        u == Put(Put(t, Far(n), t.at[Near(child)]), Near(child), n)
    IN  Put(CALC(CALC(u, n), child), r, child)
LROT(t, r) == Rotate(t, r, Right, Left)
RROT(t, r) == Rotate(t, r, Left, Right)

Rebalance(t, p) ==
    LET n == t.at[p]
        u == CALC(t, n)
        tilt == rh(u, n) - lh(u, n)
        l == u.at[Left(n)]
        r == u.at[Right(n)]
    IN  CASE n = NULL -> t
          [] tilt = -2 -> RROT(IF rh(u, l) > lh(u, l) THEN LROT(u, Left(n)) ELSE u, p)
          [] tilt = 2 -> LROT(IF rh(u, r) < lh(u, r) THEN RROT(u, Right(n)) ELSE u, p)
          [] OTHER -> u
Badrebal(t, stack) == FoldLeft(Rebalance, t, Tail(stack))
rebal(t, stack) == FoldLeft(Rebalance, t, stack)

-----------------------------------------------------------------------------
(* The places from p down to the node with this key, or to the empty place    *)
(* where it belongs, the deepest first, before the ones in stack.            *)
RECURSIVE Descend(_, _, _, _)
Descend(t, p, key, stack) ==
    LET n == t.at[p]
        s == <<p>> \o stack
    IN  CASE n = NULL \/ Key[n] = key -> s
          [] key < Key[n] -> Descend(t, Left(n), key, s)
          [] OTHER -> Descend(t, Right(n), key, s)
Path(t, key) == Descend(t, Root, key, <<>>)

(* The tree with elt, unless a node has its key: then that node is returned. *)
avl_add(t, elt) ==
    LET stack == Path(t, Key[elt])
        p == stack[1]
    IN  IF t.at[p] # NULL THEN [tree |-> t, ret |-> t.at[p], stack |-> stack]
        ELSE [tree |-> rebal(Put(Put(Put(t, Left(elt), NULL), Right(elt), NULL), p, elt), stack),
              ret |-> NULL, stack |-> stack]

RECURSIVE Leftmost(_, _)
Leftmost(t, p) == IF t.at[Left(t.at[p])] = NULL THEN p ELSE Leftmost(t, Left(t.at[p]))

(* The node at p trades places with the next one in order, which has no left *)
(* child.  Storing elt there overwrites its right link, if it was that one,  *)
(* before the link is copied.                                                *)
Exchange(t, p) ==
    LET elt == t.at[p]
        q == Leftmost(t, Right(elt))
        next == t.at[q]
        t1 == Put(Put(t, p, next), q, elt)
        t2 == Put(Put(t1, Left(next), t1.at[Left(elt)]), Right(next), t1.at[Right(elt)])
    IN  Put(Put(t2, Left(elt), NULL), Right(elt), t.at[Right(next)])

(* The tree without the node that has this key.  A node with two children    *)
(* goes down first, and the descent resumes below its new place.             *)
RECURSIVE Delete(_, _)
Delete(t, stack) ==
    LET p == stack[1]
        elt == t.at[p]
        l == t.at[Left(elt)]
        r == t.at[Right(elt)]
        u == Exchange(t, p)
    IN  CASE elt = NULL -> [tree |-> t, ret |-> NULL, stack |-> stack]
          [] elt # NULL /\ l = NULL -> [tree |-> rebal(Put(t, p, r), stack), ret |-> elt, stack |-> stack]
          [] elt # NULL /\ l # NULL /\ r = NULL ->
               [tree |-> rebal(Put(t, p, l), stack), ret |-> elt, stack |-> stack]
          [] OTHER -> Delete(u, Descend(u, Right(u.at[p]), Key[elt], stack))
avl_del(t, key) == Delete(t, Path(t, key))

-----------------------------------------------------------------------------
RECURSIVE InOrder(_, _)
InOrder(t, n) == IF n = NULL THEN <<>>
                 ELSE InOrder(t, t.at[Left(n)]) \o <<n>> \o InOrder(t, t.at[Right(n)])
Linked(t) == Range(InOrder(t, t.at[Root]))
(* The links of the other nodes are of no use: their memory is the caller's. *)
Clean(t) == LET L == Linked(t) IN
    [at |-> [p \in DOMAIN t.at |-> IF p = Root \/ p[1] \in L THEN t.at[p] ELSE NULL],
     height |-> [n \in Nodes |-> IF n \in L THEN t.height[n] ELSE 0]]

(* The tree holds exactly the nodes in use, each once, in the order of their *)
(* keys: no call loses one or links one twice (_avldel.c:40, "possibly       *)
(* overwriting elt->right!").                                                *)
HoldsExactly(t, used) ==
    LET s == InOrder(t, t.at[Root])
    IN  /\ Len(s) = Cardinality(used) /\ Range(s) = used
        /\ \A i \in 1 .. Len(s) - 1 : Key[s[i]] < Key[s[i + 1]]

(* Heights are right and the sides of a node differ by one at most: the      *)
(* rotations after a removal restore the whole path (_avladd.c:60-82).       *)
Balanced(t) ==
    \A n \in Linked(t) : /\ t.height[n] = 1 + Max({lh(t, n), rh(t, n)})
                         /\ rh(t, n) - lh(t, n) \in -1 .. 1

(* The fewest nodes of a balanced tree of height h. *)
Fewest[h \in Nat] == IF h < 2 THEN h ELSE Fewest[h - 1] + Fewest[h - 2] + 1
(* The places a call records, and the null pointer, fit in the array on the  *)
(* stack as long as the tree, before it, has fewer nodes than the smallest   *)
(* one of height StackSize - 1 has (_avladd.c:90): 1596 for an array of 16.  *)
PathFits(stack, nodes) == nodes >= Fewest[StackSize - 1] \/ Len(stack) < StackSize
=============================================================================
