-------------------------------- MODULE Dags --------------------------------
(***************************************************************************)
(* The intermediate code of an expression (src/src/dag.c).  listnodes makes *)
(* one node of the values that are certain to be equal, and lists the ones  *)
(* with effects and the jumps; undag stores in a temporary a node used      *)
(* several times, where it is first used; prune drops the temporaries that  *)
(* only copy a register variable.                                          *)
(*                                                                         *)
(* Every operator takes the state d of the compiler and returns the new one, *)
(* with the node it is about in d.p; 0 is the null pointer.                 *)
(* The operators named Bad... are mistakes one could make in the one that  *)
(* follows: the checks must tell them apart.                               *)
(***************************************************************************)
EXTENDS Trees

NULL == 0
First == 5000       \* temporaries follow

Begin == [node |-> <<>>,      \* a node: op, kids, sym, count, tmp (syms[2])
          buckets |-> {}, forest |-> <<>>, depth |-> 0,
          node_of |-> <<>>,   \* tp->node
          label |-> 10, equatedto |-> <<>>,
          cse |-> <<>>, keep |-> {},   \* of a temporary: u.t.cse, u.t.replace < 0
          p |-> NULL]

newnode(d, op, kids, sym) ==
    LET n == Len(d.node) + 1
        Used(i) == Cardinality({j \in DOMAIN kids : kids[j] = i})
    IN  [d EXCEPT !.node = Append([i \in 1 .. Len(@) |-> [@[i] EXCEPT !.count = @ + Used(i)]] \o <<>>,
                                  [op |-> op, kids |-> kids, sym |-> sym, count |-> 0, tmp |-> 0]),
                  !.p = n]
Same(d, op, kids, sym) ==
    {n \in d.buckets : d.node[n].op = op /\ d.node[n].kids = kids /\ d.node[n].sym = sym}
node(d, op, kids, sym) ==
    IF Same(d, op, kids, sym) # {} THEN [d EXCEPT !.p = CHOOSE n \in Same(d, op, kids, sym) : TRUE]
    ELSE LET e == newnode(d, op, kids, sym) IN [e EXCEPT !.buckets = @ \cup {e.p}]

reset(d) == [d EXCEPT !.buckets = {}]
isaddrop(op) == op \in {"ADDRG", "ADDRL"}
killnodes(d, sym) ==
    [d EXCEPT !.buckets = {n \in @ : LET q == d.node[n] IN
         ~(q.op = "INDIR" /\ (isaddrop(d.node[q.kids[1]].op) => d.node[q.kids[1]].sym = sym))}]

list(d, n) == IF n = NULL \/ n \in Range(d.forest) THEN d ELSE [d EXCEPT !.forest = Append(@, n)]
Root(d, op, kids, sym) == LET e == newnode(d, op, kids, sym) IN list(e, e.p)
EndsInLabel(d) == d.forest # <<>> /\ d.node[Last(d.forest)].op = "LABEL"
equatelab(d, old, new) == [d EXCEPT !.equatedto = [l \in DOMAIN @ \cup {old} |->
                                                     IF l = old THEN new ELSE @[l]]]
labelnode(d, lab) ==
    reset(IF EndsInLabel(d) THEN equatelab(d, lab, d.node[Last(d.forest)].sym)
          ELSE Root(d, "LABEL", <<>>, lab))
genlabel(d, n) == [d EXCEPT !.label = @ + n]

(* An arm of a conditional that ends with a label joins the others there. *)
Joined(d, lab) == IF EndsInLabel(d)
                  THEN [equatelab(d, d.node[Last(d.forest)].sym, lab) EXCEPT !.forest = Front(@)] ELSE d

(* Lists the tree t; one that is a condition jumps to tlab if it is true or  *)
(* to flab if it is false.                                                  *)
RECURSIVE listnodes(_, _, _, _)
listnodes(d, t, tlab, flab) ==
    LET Value(e, i) == listnodes(e, t.kids[i], 0, 0)
        Enter(e) == [(IF e.depth = 0 THEN reset(e) ELSE e) EXCEPT !.depth = @ + 1]
        Leave(e) == [e EXCEPT !.depth = @ - 1]
        new == d.label
        (* && and ||: over is where its first operand may jump to. *)
        Logical(over) ==
          LET to == IF over = 0 THEN new ELSE over
              first == listnodes(Enter(genlabel(d, IF over = 0 THEN 1 ELSE 0)), t.kids[1],
                                 IF t.op = "AND" THEN 0 ELSE to, IF t.op = "AND" THEN to ELSE 0)
              Second(e) == Leave(IF over = 0 THEN labelnode(e, new) ELSE e)
          IN  Second(listnodes(first, t.kids[2], tlab, flab))
        Arm(e, i) == Joined(Value(e, i), new + 1)
        Yes(test) == labelnode(Root(Arm(reset(test), 2), "JUMP", <<>>, new + 1), new)
        End(e) == IF t.sym = 0 THEN [e EXCEPT !.p = NULL] ELSE listnodes(e, idtree(t.sym), 0, 0)
        last == IF t.kids[2] # Nothing THEN 2 ELSE 1
        Unary(l) ==
          CASE t.op = "CALL" -> reset(Root(l, "CALL", <<>>, 0))
            [] t.op = "ARG" -> Root(l, "ARG", <<l.p>>, 0)
            [] t.op = "INDIR" -> node(l, "INDIR", <<l.p>>, 0)
            [] t.op = "RIGHT" -> [listnodes(list(l, l.p), t.kids[2], 0, 0) EXCEPT !.p = l.p]
        Assigned(e, p) ==
          [(IF isaddrop(t.kids[1].op) THEN killnodes(e, t.kids[1].sym) ELSE reset(e)) EXCEPT !.p = p]
        Right(l, r) ==
          CASE t.op = "NE" -> Root(r, IF tlab # 0 THEN "NE" ELSE "EQ", <<l.p, r.p>>,
                                   IF tlab # 0 THEN tlab ELSE flab)
            [] t.op = "ASGN" -> Assigned(Root(r, "ASGN", <<l.p, r.p>>, 0), r.p)
            [] t.op = "ADD" -> node(r, "ADD", <<l.p, r.p>>, 0)
        Left(l) == Right(l, Value(l, 2))
        Postfix == /\ t.kids[1].op = "INDIR" /\ t.kids[2].op = "ASGN"
                   /\ t.kids[1].kids[1].id # 0 /\ t.kids[1].kids[1] = t.kids[2].kids[1]
        Noted(e) == IF t.id = 0 THEN e
                    ELSE [e EXCEPT !.node_of = [i \in DOMAIN @ \cup {t.id} |->
                                                  IF i = t.id THEN e.p ELSE @[i]]]
    IN  IF t.id # 0 /\ t.id \in DOMAIN d.node_of THEN [d EXCEPT !.p = d.node_of[t.id]]
        ELSE Noted(
          CASE t.op = "NONE" -> [d EXCEPT !.p = NULL]
            [] t.op \in {"AND", "OR"} -> Logical(IF t.op = "AND" THEN flab ELSE tlab)
            [] t.op = "NOT" -> listnodes(d, t.kids[1], flab, tlab)
            [] t.op = "COND" ->
                 End(labelnode(Arm(Yes(listnodes(genlabel(d, 2), t.kids[1], 0, new)), 3), new + 1))
            [] t.op \in {"CNST", "ADDRG", "ADDRL"} -> node(d, t.op, <<>>, t.sym)
            [] t.op \in {"CALL", "ARG", "INDIR"} \/ (t.op = "RIGHT" /\ Postfix) -> Unary(Value(d, 1))
            [] t.op = "RIGHT" /\ ~Postfix ->
                 listnodes(IF last = 2 THEN Value(d, 1) ELSE d, t.kids[last], tlab, flab)
            [] t.op \in {"NE", "ASGN", "ADD"} -> Left(Value(d, 1)))

-----------------------------------------------------------------------------
(* From a dag to trees: d.forest is the new list so far. *)
Read(d, tmp) ==
    LET a == newnode(d, "ADDRL", <<>>, tmp)
        e == newnode(a, "INDIR", <<a.p>>, 0)
    IN  [e EXCEPT !.node[e.p].count = 1]
tmpnode(d, n) ==
    LET count == d.node[n].count - 1
        e == [d EXCEPT !.node[n].count = count, !.node[n].tmp = IF count = 0 THEN 0 ELSE @]
    IN  Read(e, d.node[n].tmp)
temporary(d) == First + Len(d.cse)

Once(q) == IF q.op = "CALL" THEN q.count = 0 ELSE q.count <= 1
RECURSIVE visit(_, _, _)
visit(d, n, listed) ==
    LET q == d.node[n]
        Kid(e, i) == LET v == visit(e, q.kids[i], FALSE) IN [v EXCEPT !.node[n].kids[i] = v.p]
        kids == [FoldLeft(Kid, d, [i \in 1 .. Len(q.kids) |-> i]) EXCEPT !.p = n]
        tmp == temporary(kids)
        addr == newnode(kids, "ADDRL", <<>>, tmp)
        asgn == newnode(addr, "ASGN", <<addr.p, n>>, 0)
        stored == [asgn EXCEPT !.node[n].tmp = tmp, !.cse = Append(@, n),
                               !.forest = Append(@, asgn.p), !.p = n]
    IN  IF q.tmp # 0 THEN tmpnode(d, n)
        ELSE IF Once(q) THEN kids
        ELSE IF q.op = "ADDRL"
        THEN LET e == newnode(d, "ADDRL", <<>>, q.sym) IN [e EXCEPT !.node[e.p].count = 1]
        ELSE IF listed THEN stored ELSE tmpnode(stored, n)

Badundag(d) ==
    LET Tree1(e, n) ==
          LET v == visit(e, n, TRUE)
          IN  IF e.node[n].op = "INDIR" \/ (e.node[n].op = "CALL" /\ e.node[n].count >= 1) THEN v
              ELSE [v EXCEPT !.forest = Append(@, n)]
    IN  FoldLeft(Tree1, [d EXCEPT !.forest = <<>>], d.forest)
undag(d) ==
    LET Tree1(e, n) ==
          LET v == visit(e, n, TRUE)
          IN  IF e.node[n].op = "INDIR" THEN [v EXCEPT !.keep = @ \cup ({v.node[n].tmp} \ {0})]
              ELSE IF e.node[n].op = "CALL" /\ e.node[n].count >= 1 THEN v
              ELSE [v EXCEPT !.forest = Append(@, n)]
    IN  FoldLeft(Tree1, [d EXCEPT !.forest = <<>>], d.forest)

(* prune: a temporary that copies a register variable is not assigned, and   *)
(* the variable is read instead of it.                                      *)
Cse(d, tmp) == d.node[d.cse[tmp - First + 1]]
Copies(d, n) ==
    LET q == d.node[n]
        to == d.node[q.kids[1]].sym
        from == d.node[q.kids[2]]
    IN  /\ q.op = "ASGN" /\ d.node[q.kids[1]].op = "ADDRL" /\ to >= First
        /\ d.cse[to - First + 1] = q.kids[2] /\ to \notin d.keep
        /\ from.op = "INDIR" /\ d.node[from.kids[1]].op = "ADDRL" /\ d.node[from.kids[1]].sym < First
replaced(d) == {d.node[d.node[n].kids[1]].sym : n \in {m \in Range(d.forest) : Copies(d, m)}}
prune(d) == [d EXCEPT !.forest = SelectSeq(@, LAMBDA n : ~Copies(d, n))]

(* walk: the code of tree t, d.forest. *)
walk(t, tlab, flab) == undag(listnodes(Begin, t, tlab, flab))

-----------------------------------------------------------------------------
(* The machine that runs the code: m is a memory with the temporaries, and    *)
(* where it jumps.  What nobody stored reads as Garbage.                     *)
Garbage == 90
Held(m, a) == IF a \in DOMAIN m.at THEN m.at[a] ELSE Garbage
RECURSIVE Computes(_, _, _)
Computes(d, n, m) ==
    LET q == d.node[n]
        a == IF q.op = "INDIR" THEN d.node[q.kids[1]] ELSE q
        K(i) == Computes(d, q.kids[i], m)
    IN  CASE q.op \in {"CNST", "ADDRG", "ADDRL"} -> q.sym
          [] q.op = "ADD" -> K(1) + K(2)
          [] q.op = "INDIR" -> IF a.op = "ADDRL" /\ a.sym \in replaced(d)
                               THEN Computes(d, d.cse[a.sym - First + 1], m) ELSE Held(m, K(1))

RECURSIVE Final(_, _)
Final(d, lab) == IF lab \in DOMAIN d.equatedto THEN Final(d, d.equatedto[lab]) ELSE lab
Steps(d, code, m, i) ==
    LET q == d.node[code[i]]
        V(k) == Computes(d, q.kids[k], m)
    IN  IF m.to # 0 THEN IF q.op = "LABEL" /\ q.sym = m.to THEN [m EXCEPT !.to = 0] ELSE m
        ELSE CASE q.op = "LABEL" -> m
               [] q.op = "JUMP" -> [m EXCEPT !.to = Final(d, q.sym)]
               [] q.op \in {"NE", "EQ"} ->
                    IF (V(1) # V(2)) = (q.op = "NE") THEN [m EXCEPT !.to = Final(d, q.sym)] ELSE m
               [] q.op = "ARG" -> [m EXCEPT !.arg = V(1)]
               [] q.op = "CALL" -> [Calling(m, m.arg).mem EXCEPT !.arg = 0]
               [] q.op = "ASGN" ->
                    IF d.node[q.kids[2]].op = "CALL"
                    THEN Stored(Calling(m, m.arg).mem, V(1), Calling(m, m.arg).val)
                    ELSE Stored(m, V(1), V(2))
Runs(d, m) ==
    LET code == prune(d).forest
    IN  FoldLeft(LAMBDA n, i : Steps(d, code, n, i),
                 [at |-> m.at, calls |-> m.calls, arg |-> 0, to |-> 0], [i \in 1 .. Len(code) |-> i])

-----------------------------------------------------------------------------
(* if (e): the code jumps exactly when e is false, and leaves the memory as   *)
(* e does, whatever the variables hold.                                      *)
Alike(at, got, c) == /\ got.to = IF c.val = 0 THEN 1 ELSE 0
                     /\ got.calls = c.mem.calls
                     /\ \A v \in DOMAIN at : got.at[v] = c.mem.at[v]
Agrees(e, memories) ==
    LET Code(d) == \A at \in memories : LET m == [at |-> at, calls |-> <<>>]
                                        IN  Alike(at, Runs(d, m), Means(e, m))
    IN  Code(walk(cond(Tree(e, 1)), 0, 1))

(* && and || in an operand of another, as a value. *)
RECURSIVE Nested(_, _, _)
Nested(e, within, asValue) ==
    \/ e.op \in {"and", "or"} /\ within /\ asValue
    \/ \E i \in DOMAIN e.kids :
         Nested(e.kids[i], within \/ e.op \in {"and", "or"},
                IF e.op = "comma" /\ i = 2 THEN asValue ELSE e.op \notin {"and", "or", "not"})
=============================================================================
