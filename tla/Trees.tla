------------------------------- MODULE Trees -------------------------------
(***************************************************************************)
(* The trees that the front end builds for an expression (src/src/expr.c,  *)
(* enode.c, tree.c), and what the C language says the expression does.      *)
(*                                                                         *)
(* An expression is [op, kids, name]: var (name), const (name), deref,      *)
(* add, asgn (=), incr (+=), post (++), comma, and, or, not, cond (? :),    *)
(* call.  A tree is [op, kids, sym, id]; two places of a tree that are the  *)
(* same one in the memory of the compiler share an id, which is not 0.      *)
(***************************************************************************)
EXTENDS Integers, Sequences, FiniteSets, SequencesExt

CONSTANTS Globals,    \* global variables, which have an address
          Locals      \* register variables

(* What an instance of this module must give. *)
TreesAssumption == Globals \cap Locals = {} /\ 1 \in Globals /\ Globals \cup Locals \subseteq 1 .. 9

Expr(op, kids, name) == [op |-> op, kids |-> kids, name |-> name]
T(op, kids, sym) == [op |-> op, kids |-> kids, sym |-> sym, id |-> 0]
Shared(t, id) == [t EXCEPT !.id = id]
Nothing == T("NONE", <<>>, 0)
Addr(sym) == T(IF sym \in Globals THEN "ADDRG" ELSE "ADDRL", <<>>, sym)
idtree(sym) == T("INDIR", <<Addr(sym)>>, 0)

RECURSIVE rightkid(_)
rightkid(t) == IF t.op # "RIGHT" THEN t
               ELSE rightkid(IF t.kids[2] # Nothing THEN t.kids[2] ELSE t.kids[1])
RECURSIVE hascall(_)
hascall(t) == t.op = "CALL" \/ \E i \in DOMAIN t.kids : hascall(t.kids[i])

(* The tree for the effects of t alone. *)
RECURSIVE root(_)
root(t) ==
    LET Both(a, b) == IF a = Nothing /\ b = Nothing THEN Nothing ELSE T("RIGHT", <<a, b>>, 0)
        Plain(arm) == root(IF t.sym # 0 /\ arm.op = "ASGN" THEN arm.kids[2] ELSE arm)
        l == t.kids[1]
    IN  CASE t.op \in {"NONE", "CNST", "ADDRG", "ADDRL"} -> Nothing
          [] t.op = "COND" ->
               LET arms == <<Plain(t.kids[2]), Plain(t.kids[3])>>
               IN  IF arms = <<Nothing, Nothing>> THEN root(l) ELSE T("COND", <<l>> \o arms, 0)
          [] t.op \in {"AND", "OR"} ->
               LET r == root(t.kids[2]) IN IF r = Nothing THEN root(l) ELSE T(t.op, <<l, r>>, 0)
          [] t.op \in {"NOT", "INDIR"} -> root(l)
          [] t.op = "RIGHT" ->
               IF t.kids[2] = Nothing THEN root(l)
               ELSE IF l.op = "RIGHT" /\ l.kids[1].id # 0 /\ l.kids[1] = t.kids[2] THEN l.kids[2]
               ELSE Both(root(l), root(t.kids[2]))
          [] t.op \in {"ADD", "NE"} -> Both(root(l), root(t.kids[2]))
          [] OTHER -> t

Tests == {"AND", "OR", "NOT", "NE"}
(* What a condition tests. *)
cond(t) == IF rightkid(t).op \in Tests THEN t ELSE T("NE", <<t, T("CNST", <<>>, 0)>>, 0)
Makes(sym, t) == T("ASGN", <<Addr(sym), t>>, 0)
(* A conditional leaves its value in a variable, that of an arm if it has one. *)
Choice(test, l, r, sym) == T("COND", <<test, root(Makes(sym, l)), root(Makes(sym, r))>>, sym)
value(t, k) == IF rightkid(t).op \in Tests
               THEN Choice(t, T("CNST", <<>>, 1), T("CNST", <<>>, 0), 1000 + k) ELSE t
condtree(test, l, r, k) ==
    Choice(cond(test), value(l, 3 * k), value(r, 3 * k + 1),
           IF r.op = "COND" /\ r.sym # 0 THEN r.sym
           ELSE IF l.op = "COND" /\ l.sym # 0 THEN l.sym ELSE 1000 + k)

(* The tree of e, where k numbers the places of expressions. *)
RECURSIVE Tree(_, _)
Tree(e, k) ==
    LET At(i) == 3 * k - 2 + i
        Kid(i) == Tree(e.kids[i], At(i))
        Val(i) == value(Kid(i), At(i))
        Left == LET v == Kid(1) IN Shared([v EXCEPT !.kids[1].id = 2 * k + 1], 2 * k)
        incr(v, by) == T("ASGN", <<v.kids[1], T("ADD", <<v, by>>, 0)>>, 0)
    IN  CASE e.op = "var"   -> idtree(e.name)
          [] e.op = "const" -> T("CNST", <<>>, e.name)
          [] e.op = "deref" -> T("INDIR", <<Val(1)>>, 0)
          [] e.op = "add"   -> T("ADD", <<Val(1), Val(2)>>, 0)
          [] e.op = "asgn"  -> T("ASGN", <<Kid(1).kids[1], Val(2)>>, 0)
          [] e.op = "incr"  -> incr(Left, Val(2))
          [] e.op = "post"  -> LET v == Left IN
                               T("RIGHT", <<T("RIGHT", <<v, incr(v, T("CNST", <<>>, 1))>>, 0), v>>, 0)
          [] e.op = "comma" -> T("RIGHT", <<root(Val(1)), Kid(2)>>, 0)
          [] e.op = "and"   -> T("AND", <<cond(Kid(1)), cond(Kid(2))>>, 0)
          [] e.op = "or"    -> T("OR", <<cond(Kid(1)), cond(Kid(2))>>, 0)
          [] e.op = "not"   -> T("NOT", <<cond(Kid(1))>>, 0)
          [] e.op = "cond"  -> condtree(Kid(1), Kid(2), Kid(3), k)
          [] e.op = "call"  -> LET q == IF hascall(Val(1)) THEN Shared(Val(1), 2 * k) ELSE Val(1)
                                   arg == T("ARG", <<q>>, 0)
                               IN  T("CALL", <<IF hascall(q) THEN T("RIGHT", <<q, arg>>, 0) ELSE arg>>, 0)

-----------------------------------------------------------------------------
(* What C says.  A memory m is [at, calls]: what the variables hold, and the *)
(* arguments of the calls so far with what the function then finds in       *)
(* variable 1, which it changes.                                            *)
Stored(m, a, v) == [m EXCEPT !.at = [b \in DOMAIN @ \cup {a} |-> IF b = a THEN v ELSE @[b]]]
Calling(m, arg) ==
    [mem |-> [Stored(m, 1, m.at[1] + 3) EXCEPT !.calls = Append(@, <<arg, m.at[1]>>)],
     val |-> arg + m.at[1]]
Truth(b) == IF b THEN 1 ELSE 0

RECURSIVE Means(_, _)
Means(e, m) ==
    LET l == Means(e.kids[1], m)
        r == Means(e.kids[2], l.mem)
        third == Means(e.kids[3], l.mem)
        To == IF e.kids[1].op = "var" THEN [mem |-> m, val |-> e.kids[1].name]
              ELSE Means(e.kids[1].kids[1], m)
        from == Means(e.kids[2], To.mem)
        old == To.mem.at[To.val]
        Got(mem, val) == [mem |-> mem, val |-> val]
    IN  CASE e.op = "var"   -> Got(m, m.at[e.name])
          [] e.op = "const" -> Got(m, e.name)
          [] e.op = "deref" -> Got(l.mem, l.mem.at[l.val])
          [] e.op = "add"   -> Got(r.mem, l.val + r.val)
          [] e.op = "asgn"  -> Got(Stored(from.mem, To.val, from.val), from.val)
          [] e.op = "incr"  -> LET v == from.mem.at[To.val] + from.val IN Got(Stored(from.mem, To.val, v), v)
          [] e.op = "post"  -> Got(Stored(To.mem, To.val, old + 1), old)
          [] e.op = "comma" -> r
          [] e.op = "and"   -> IF l.val = 0 THEN Got(l.mem, 0) ELSE Got(r.mem, Truth(r.val # 0))
          [] e.op = "or"    -> IF l.val # 0 THEN Got(l.mem, 1) ELSE Got(r.mem, Truth(r.val # 0))
          [] e.op = "not"   -> Got(l.mem, Truth(l.val = 0))
          [] e.op = "cond"  -> IF l.val # 0 THEN r ELSE third
          [] e.op = "call"  -> Calling(l.mem, l.val)

(* The variables that e reads and writes; the pointer is known to hold 1.    *)
Target(e) == IF e.op = "var" THEN e.name ELSE 1
Writing == {"asgn", "incr", "post"}
RECURSIVE Reads(_), Writes(_), Determinate(_)
Reads(e) == UNION {Reads(e.kids[i]) : i \in DOMAIN e.kids}
              \cup (CASE e.op = "var" -> {e.name} [] e.op \in {"deref", "call"} -> {1} [] OTHER -> {})
Writes(e) == UNION {Writes(e.kids[i]) : i \in DOMAIN e.kids}
               \cup (IF e.op \in Writing THEN {Target(e.kids[1])}
                     ELSE IF e.op = "call" THEN {1} ELSE {})
(* No variable is written twice, or written and read, without an order. *)
Determinate(e) ==
    /\ \A i \in DOMAIN e.kids : Determinate(e.kids[i])
    /\ e.op \in {"add", "asgn", "incr"} =>
         LET a == e.kids[1]
             left == IF e.op = "add" \/ a.op = "var" THEN a ELSE a.kids[1]
             b == e.kids[2]
         IN  /\ Writes(left) \cap (Reads(b) \cup Writes(b)) = {}
             /\ Writes(b) \cap (IF e.op = "asgn" /\ a.op = "var" THEN {} ELSE Reads(left)) = {}
    /\ e.op \in Writing =>
         Target(e.kids[1]) \notin UNION {Writes(e.kids[i]) : i \in DOMAIN e.kids}
=============================================================================
