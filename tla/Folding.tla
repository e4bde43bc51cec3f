------------------------------- MODULE Folding -------------------------------
(***************************************************************************)
(* The constant folder of the compiler front end: simplify (src/src/simp.c), *)
(* which builds every integer expression, with root (src/src/tree.c), which  *)
(* keeps only the effects of an expression whose value is not used.         *)
(*                                                                         *)
(* A tree has an operator, a type, the value of a constant, and operands.   *)
(* VAR is a variable, CALL a function call, CV a conversion.  The value of  *)
(* a constant is a long of the host: nothing keeps an "I" within an int.   *)
(* The operators named Bad... are mistakes one could make in the one that  *)
(* follows: the checks must tell them apart.                               *)
(***************************************************************************)
EXTENDS Ints, Sequences, SequencesExt

tree(op, ty, kids) == [op |-> op, ty |-> ty, v |-> 0, kids |-> kids]
cnsttree(ty, n) == [op |-> "CNST", ty |-> ty, v |-> IF Signed(ty) THEN n ELSE ones(n, ty), kids |-> <<>>]
IsCnst(t) == t.op = "CNST"
Is(t, n) == IsCnst(t) /\ t.v = n
ispow2(u) == IF \E n \in 1 .. Width : u = 2 ^ n THEN CHOOSE n \in 1 .. Width : u = 2 ^ n ELSE 0

Lo == Least("I")
Hi == Greatest("I")

-----------------------------------------------------------------------------
(* Whether a result fits, as the code decides it. *)

addi(x, y) == \/ x = 0 \/ y = 0
              \/ x < 0 /\ y < 0 /\ x >= Lo - y
              \/ (x < 0) # (y < 0)
              \/ x > 0 /\ y > 0 /\ x <= Hi - y
subi(x, y) == addi(x, -y)
divi(x, y) == y # 0 /\ ~(x = Lo /\ y = -1)
muli(x, y) == \/ x \in {0, 1} \/ y \in {0, 1}
              \/ x < 0 /\ y < 0 /\ -x <= CDiv(Hi, -y)
              \/ x < 0 /\ y > 0 /\ x >= CDiv(Lo, y)
              \/ x > 0 /\ y < 0 /\ y >= CDiv(Lo, x)
              \/ x > 0 /\ y > 0 /\ x <= CDiv(Hi, y)

(* The effects of t, as a sequence of at most one tree. *)
RECURSIVE root(_)
root(t) ==
    CASE t.op \in {"CNST", "VAR"} -> <<>>
      [] t.op = "CALL" -> <<t>>
      [] t.op \in {"AND", "OR"} ->
           LET r == root(t.kids[2])
           IN  IF r = <<>> THEN root(t.kids[1]) ELSE <<tree(t.op, "I", <<t.kids[1]>> \o r)>>
      [] OTHER -> LET es == FlattenSeq([i \in 1 .. Len(t.kids) |-> root(t.kids[i])])
                  IN  IF es = <<>> THEN <<>> ELSE <<tree("RIGHT", t.ty, es)>>

(* The value n, after the effects of t: the comma operator. *)
After(t, ty, n) == tree("RIGHT", ty, root(t) \o <<cnsttree(ty, n)>>)

Folds(l, r) == IsCnst(l) /\ IsCnst(r)
ConstantLast(l, r) == IF IsCnst(l) /\ ~IsCnst(r) THEN <<r, l>> ELSE <<l, r>>
ConstantFirst(l, r) == IF IsCnst(r) /\ ~IsCnst(l) THEN <<r, l>> ELSE <<l, r>>

-----------------------------------------------------------------------------
RECURSIVE simplify(_, _, _, _)

Sum(ty, l, r) ==
    LET k == ConstantLast(l, r)
    IN  CASE Folds(l, r) /\ (ty = "U" \/ addi(l.v, r.v)) -> cnsttree(ty, l.v + r.v)
          [] Is(k[2], 0) -> k[1]
          [] OTHER -> tree("ADD", ty, k)

Difference(ty, l, r) ==
    CASE Folds(l, r) /\ (ty = "U" \/ subi(l.v, r.v)) -> cnsttree(ty, l.v - r.v)
      [] Is(r, 0) -> l
      [] OTHER -> tree("SUB", ty, <<l, r>>)

(* MUL, with c1 * (x + c2) => c1*x + c1*c2 and 2^n * r => r << n. *)
Product(ty, l, r) ==
    LET k == ConstantFirst(l, r)
        c == k[1]
        x == k[2]
    IN  CASE Folds(l, r) /\ (ty = "U" \/ muli(l.v, r.v)) -> cnsttree(ty, l.v * r.v)
          [] ty = "I" /\ IsCnst(c) /\ x.op \in {"ADD", "SUB"} /\ IsCnst(x.kids[2]) ->
               simplify(x.op, ty, simplify("MUL", ty, c, x.kids[1]), simplify("MUL", ty, c, x.kids[2]))
          [] IsCnst(c) /\ c.v > 0 /\ ispow2(c.v) # 0 ->
               simplify("LSH", ty, x, cnsttree("I", ispow2(c.v)))
          [] Is(c, 0) -> cnsttree(ty, 0)
          [] Is(c, 1) -> x
          [] OTHER -> tree("MUL", ty, k)

Quotient(ty, l, r) ==
    CASE Is(r, 1) -> l
      [] IsCnst(r) /\ ty = "U" /\ ispow2(r.v) # 0 -> simplify("RSH", ty, l, cnsttree("I", ispow2(r.v)))
      [] Folds(l, r) /\ divi(l.v, r.v) -> cnsttree(ty, CDiv(l.v, r.v))
      [] OTHER -> tree("DIV", ty, <<l, r>>)

Remainder(ty, l, r) ==
    CASE IsCnst(r) /\ ty = "U" /\ ispow2(r.v) # 0 -> simplify("BAND", ty, l, cnsttree(ty, r.v - 1))
      [] Folds(l, r) /\ divi(l.v, r.v) -> cnsttree(ty, l.v - r.v * CDiv(l.v, r.v))
      [] ty = "I" /\ Is(r, 1) -> After(l, ty, 0)
      [] OTHER -> tree("MOD", ty, <<l, r>>)

ShiftLeft(ty, l, r) ==
    CASE Is(r, 0) -> l
      [] Folds(l, r) /\ r.v \in 0 .. Width - 1 /\ (ty = "U" \/ muli(l.v, 2 ^ r.v)) ->
           cnsttree(ty, l.v * 2 ^ r.v)
      [] OTHER -> tree("LSH", ty, <<l, r>>)

ShiftRight(ty, l, r) ==
    CASE Is(r, 0) -> l
      [] Folds(l, r) /\ r.v \in 0 .. Width - 1 -> cnsttree(ty, l.v \div 2 ^ r.v)
      [] OTHER -> tree("RSH", ty, <<l, r>>)

Masked(op, ty, l, r) ==
    LET k == ConstantLast(l, r)
    IN  CASE Folds(l, r) -> cnsttree(ty, Wrap(ty, BitOp(op, l.v, r.v)))
          [] Is(k[2], IF op = "BAND" THEN ones(-1, ty) ELSE 0) -> k[1]
          [] op = "BAND" /\ Is(k[2], 0) -> After(k[1], ty, 0)
          [] OTHER -> tree(op, ty, k)

Holds(op, x, y) == CASE op = "EQ" -> x = y
                     [] op = "NE" -> x # y
                     [] op = "LT" -> x < y
                     [] op = "LE" -> x <= y
                     [] op = "GT" -> x > y
                     [] OTHER -> x >= y
Truth(b) == IF b THEN 1 ELSE 0

(* Comparisons of two values of type ty.  Those of an unsigned value with 0   *)
(* are constants, or equalities.                                             *)
Compare(op, ty, l, r) ==
    LET k == IF op \in {"EQ", "NE"} THEN ConstantLast(l, r) ELSE <<l, r>>
        U == ty = "U"
    IN  CASE U /\ op \in {"GE", "LT"} /\ Is(r, 0) -> After(l, "I", Truth(op = "GE"))
          [] U /\ op \in {"LE", "GT"} /\ Is(l, 0) -> After(r, "I", Truth(op = "LE"))
          [] Folds(l, r) -> cnsttree("I", Truth(Holds(op, l.v, r.v)))
          [] U /\ op \in {"GE", "LT"} /\ Is(l, 0) -> simplify(IF op = "GE" THEN "EQ" ELSE "NE", ty, r, l)
          [] U /\ op \in {"LE", "GT"} /\ Is(r, 0) -> simplify(IF op = "LE" THEN "EQ" ELSE "NE", ty, l, r)
          [] OTHER -> tree(op, "I", k)

Relations == {"EQ", "NE", "LT", "LE", "GT", "GE"}
cond(t) == IF t.op \in Relations \cup {"AND", "OR", "NOT"} THEN t
           ELSE simplify("NE", t.ty, t, cnsttree(t.ty, 0))
(* l && r, l || r, of conditions. *)
Logic(op, l, r) ==
    CASE IsCnst(l) /\ op = "AND" -> IF l.v # 0 THEN cond(r) ELSE l
      [] IsCnst(l) /\ op = "OR" -> IF l.v # 0 THEN cnsttree("I", 1) ELSE cond(r)
      [] OTHER -> tree(op, "I", <<l, r>>)

(* -l, ~l and !l: r is not used. *)
Unary(op, ty, l) ==
    CASE op = "NEG" /\ IsCnst(l) /\ l.v # Lo -> cnsttree(ty, -l.v)
      [] op = "NEG" /\ l.op = "NEG" -> l.kids[1]
      [] op = "BCOM" /\ IsCnst(l) -> cnsttree(ty, Wrap(ty, -1 - l.v))
      [] op = "BCOM" /\ ty = "U" /\ l.op = "BCOM" -> l.kids[1]
      [] op = "NOT" /\ IsCnst(l) -> cnsttree("I", Truth(l.v = 0))
      [] OTHER -> tree(op, ty, <<l>>)

BadConvert(ty, l, explicitCast) ==
    IF IsCnst(l) THEN cnsttree(ty, l.v) ELSE tree("CV", ty, <<l>>)
(* A step of a conversion: CVI or CVU to ty.                                 *)
Convert(ty, l, explicitCast) ==
    IF IsCnst(l) /\ (Fits(ty, l.v) \/ (explicitCast /\ ~(l.ty = "U" /\ Signed(ty))))
    THEN cnsttree(ty, Wrap(ty, l.v)) ELSE tree("CV", ty, <<l>>)

(* The whole conversion, through int and through the wide type of ty.        *)
cast(l, ty, explicitCast) ==
    LET p == IF Wide(l.ty) THEN l ELSE Convert("I", l, explicitCast)
        super == IF Signed(ty) THEN "I" ELSE "U"
        q == IF p.ty = super THEN p ELSE Convert(super, p, explicitCast)
    IN  CASE l.ty = ty -> l
          [] q.ty = ty -> q
          [] OTHER -> Convert(ty, q, explicitCast)

simplify(op, ty, l, r) ==
    CASE op = "ADD" -> Sum(ty, l, r)
      [] op = "SUB" -> Difference(ty, l, r)
      [] op = "MUL" -> Product(ty, l, r)
      [] op = "DIV" -> Quotient(ty, l, r)
      [] op = "MOD" -> Remainder(ty, l, r)
      [] op = "LSH" -> ShiftLeft(ty, l, r)
      [] op = "RSH" -> ShiftRight(ty, l, r)
      [] op \in {"BAND", "BOR", "BXOR"} -> Masked(op, ty, l, r)
      [] op \in Relations -> Compare(op, ty, l, r)
      [] op \in {"AND", "OR"} -> Logic(op, l, r)
      [] OTHER -> Unary(op, ty, l)

-----------------------------------------------------------------------------
(* The tree the compiler builds for an expression, operands first. *)
RECURSIVE Built(_)
Built(t) ==
    LET l == Built(t.kids[1])
        r == IF Len(t.kids) = 1 THEN l ELSE Built(t.kids[2])
    IN  CASE t.kids = <<>> -> t
          [] t.op \in {"CV", "CAST"} -> cast(l, t.ty, t.op = "CAST")
          [] t.op \in {"NOT", "AND", "OR"} -> simplify(t.op, "I", cond(l), cond(r))
          [] OTHER -> simplify(t.op, l.ty, l, r)

Result(ty, val, ok, called) == [val |-> Wrap(ty, val), defined |-> ok, called |-> called]
(* What a tree does on the machine when the variable is x and the call       *)
(* returns y: its value, whether C defines it, and whether the call is made. *)
RECURSIVE Eval(_, _, _)
Eval(t, x, y) ==
    LET l == Eval(t.kids[1], x, y)
        r == Eval(t.kids[Len(t.kids)], x, y)
        a == l.val
        b == r.val
        raw == CASE t.op = "ADD" -> a + b
                 [] t.op = "SUB" -> a - b
                 [] t.op = "MUL" -> a * b
                 [] t.op = "DIV" -> CDiv(a, b)
                 [] t.op = "MOD" -> a - b * CDiv(a, b)
                 [] t.op = "LSH" -> a * 2 ^ b
                 [] t.op = "RSH" -> a \div 2 ^ b
                 [] t.op \in {"BAND", "BOR", "BXOR"} -> Wrap(t.ty, BitOp(t.op, a, b))
                 [] t.op = "AND" -> Truth(a # 0 /\ b # 0)
                 [] t.op = "OR" -> Truth(a # 0 \/ b # 0)
                 [] t.op = "NEG" -> -a
                 [] t.op = "BCOM" -> -1 - a
                 [] t.op = "NOT" -> Truth(a = 0)
                 [] t.op \in Relations -> Truth(Holds(t.op, a, b))
                 [] OTHER -> b
        wrong == \/ t.op \in {"DIV", "MOD"} /\ (b = 0 \/ (Signed(t.ty) /\ ~divi(a, b)))
                 \/ t.op \in {"LSH", "RSH"} /\ b \notin 0 .. Width - 1
        skips == (t.op = "AND" /\ a = 0) \/ (t.op = "OR" /\ a # 0)
    IN  CASE t.op = "CNST" -> Result(t.ty, t.v, TRUE, FALSE)
          [] t.op = "VAR" -> Result(t.ty, x, TRUE, FALSE)
          [] t.op = "CALL" -> Result(t.ty, y, TRUE, TRUE)
          [] t.op \in {"CV", "CAST"} -> Result(t.ty, a, l.defined, l.called)
          [] skips -> Result(t.ty, Truth(t.op = "OR"), l.defined, l.called)
          [] wrong -> Result(t.ty, 0, FALSE, l.called \/ r.called)
          [] OTHER -> Result(t.ty, raw, l.defined /\ r.defined /\ (t.ty = "I" => Fits("I", raw)),
                             l.called \/ r.called)

(* A tree the compiler builds has the value C gives the expression, on every *)
(* machine value of the variable and of the call, and makes the calls C      *)
(* makes.  A product by 0 drops those of its other operand (simp.c:293, 518: *)
(* "0 * x => 0").                                                            *)
RECURSIVE TimesZero(_)
TimesZero(t) == \/ t.op = "MUL" /\ \E i \in 1 .. 2 : Is(Built(t.kids[i]), 0)
                \/ \E i \in 1 .. Len(t.kids) : TimesZero(t.kids[i])
SameValue(t, X) ==
    LET b == Built(t) IN
    \A x \in X, y \in X :
      LET plain == Eval(t, x, y)
          built == Eval(b, x, y)
      IN  plain.defined => /\ built.val = plain.val
                           /\ built.called = plain.called \/ TimesZero(t)
=============================================================================
