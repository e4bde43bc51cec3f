----------------------------- MODULE Evaluator -----------------------------
(***************************************************************************)
(* The expressions of #if and #elif (src/cpp/eval.c): eval keeps a stack of *)
(* values and one of operators, and applies those of a higher priority when *)
(* it meets the next one.  A token is an operator, or a number with its     *)
(* type; the names that remain after the expansion of macros count as 0.    *)
(* The operators named Bad... are mistakes one could make in the one that  *)
(* follows: the checks must tell them apart.                               *)
(***************************************************************************)
EXTENDS Ints, Sequences, FiniteSets, SequencesExt

Number(n, ty) == [op |-> "num", v |-> n, ty |-> ty]
Sign(s) == [op |-> s, v |-> 0, ty |-> "SGN"]
Value(n, ty) == [v |-> extend(n, "I"), ty |-> ty]

(* struct pri priority[] *)
Priority == [END |-> 0, LP |-> 3, QUEST |-> 5, COLON |-> 5, LOR |-> 6, LAND |-> 7, AND |-> 10,
             EQ |-> 11, LT |-> 12, LSH |-> 13, MINUS |-> 14, STAR |-> 15, SLASH |-> 15,
             NOT |-> 16, UMINUS |-> 16]
Unary == {"NOT", "UMINUS"}
Arithmetic == {"AND", "MINUS", "STAR", "SLASH", "EQ", "LT"}

(* The value of an operator, and its type: SGN, UNS, or UND. *)
TypeOf(op, a, b) ==
    CASE op \in Arithmetic -> IF "UND" \in {a.ty, b.ty} THEN "UND"
                              ELSE IF "UNS" \in {a.ty, b.ty} THEN "UNS" ELSE "SGN"
      [] op = "LSH" -> IF "UND" \in {a.ty, b.ty} THEN "UND" ELSE a.ty
      [] OTHER -> a.ty
Truth(p) == IF p THEN 1 ELSE 0
Logical(decided, a, b) ==
    IF a.ty = "UND" THEN Value(a.v, "UND")
    ELSE IF (a.v # 0) = decided THEN Value(Truth(decided), "SGN")
    ELSE IF b.ty = "UND" THEN Value(a.v, "UND") ELSE Value(Truth(b.v # 0), "SGN")
Applied(op, a, b) ==
    LET ty == TypeOf(op, a, b)
        As(x) == IF ty = "UNS" THEN ones(x, "U") ELSE x
        Relation(p) == Value(Truth(p), IF ty = "UND" THEN "UND" ELSE "SGN")
    IN  CASE op = "EQ" -> Relation(a.v = b.v)
          [] op = "LT" -> Relation(As(a.v) < As(b.v))
          [] op = "LSH" -> Value(IF b.v \in 0 .. Width THEN a.v * 2 ^ b.v ELSE 0, ty)
          [] op = "LAND" -> Logical(FALSE, a, b)
          [] op = "LOR" -> Logical(TRUE, a, b)
          [] op = "AND" -> Value(BitOp("BAND", a.v, b.v), ty)
          [] op = "STAR" -> Value(a.v * b.v, ty)
          [] op = "MINUS" -> Value(a.v - b.v, ty)
          [] op = "SLASH" -> IF b.v = 0 THEN Value(a.v, "UND") ELSE Value(CDiv(As(a.v), As(b.v)), ty)
          [] op = "UMINUS" -> Value(-a.v, ty)
          [] op = "NOT" -> Value(Truth(a.v = 0), IF ty = "UND" THEN "UND" ELSE "SGN")

-----------------------------------------------------------------------------
(* The stacks, whether the last token was an operand, and whether a mistake  *)
(* was reported.                                                            *)
Empty == [vals |-> <<>>, ops |-> <<"END">>, rand |-> FALSE, told |-> FALSE]
Push(s, op) == [s EXCEPT !.ops = Append(@, op), !.rand = FALSE]
Told(s) == [s EXCEPT !.told = TRUE]

(* evalop: apply the operators of a priority above pri. *)
RECURSIVE evalop(_, _)
evalop(s, pri) ==
    LET op == Last(s.ops)
        n == Len(s.vals)
        a == IF op \in Unary THEN s.vals[n] ELSE s.vals[n - 1]
        Pop(k, v) == [s EXCEPT !.ops = Front(@), !.vals = Append(SubSeq(@, 1, n - k), v)]
    IN  IF s.told \/ pri >= Priority[op] THEN s
        ELSE IF op \in {"LP", "QUEST"} THEN Told(s)
        ELSE IF op = "COLON"
        THEN IF s.ops[Len(s.ops) - 1] # "QUEST" THEN Told(s)
             ELSE evalop([s EXCEPT !.ops = Front(Front(@)),
                                   !.vals = Append(SubSeq(@, 1, n - 3),
                                                   IF s.vals[n - 2].v = 0 THEN s.vals[n] ELSE a)], pri)
        ELSE evalop(Pop(IF op \in Unary THEN 1 ELSE 2, Applied(op, a, s.vals[n])), pri)

BadScans(s, t) ==
    CASE s.told -> s
      [] t.op = "num" -> IF s.rand THEN Told(s)
                         ELSE [s EXCEPT !.vals = Append(@, [v |-> t.v, ty |-> t.ty]), !.rand = TRUE]
      [] t.op = "NOT" \/ (t.op = "MINUS" /\ ~s.rand) ->
           IF s.rand THEN Told(s) ELSE Push(s, IF t.op = "NOT" THEN "NOT" ELSE "UMINUS")
      [] t.op = "LP" -> IF s.rand THEN Told(s) ELSE Push(s, "LP")
      [] t.op = "RP" ->
           LET u == IF s.rand THEN evalop(s, Priority["LP"]) ELSE Told(s)
           IN  IF u.told \/ Last(u.ops) # "LP" THEN Told(u) ELSE [u EXCEPT !.ops = Front(@)]
      [] OTHER -> IF s.rand THEN Push(s, t.op) ELSE Told(s)
(* One token. *)
Scans(s, t) ==
    CASE s.told -> s
      [] t.op = "num" -> IF s.rand THEN Told(s)
                         ELSE [s EXCEPT !.vals = Append(@, [v |-> t.v, ty |-> t.ty]), !.rand = TRUE]
      [] t.op = "NOT" \/ (t.op = "MINUS" /\ ~s.rand) ->
           IF s.rand THEN Told(s) ELSE Push(s, IF t.op = "NOT" THEN "NOT" ELSE "UMINUS")
      [] t.op = "LP" -> IF s.rand THEN Told(s) ELSE Push(s, "LP")
      [] t.op = "RP" ->
           LET u == IF s.rand THEN evalop(s, Priority["LP"]) ELSE Told(s)
           IN  IF u.told \/ Last(u.ops) # "LP" THEN Told(u) ELSE [u EXCEPT !.ops = Front(@)]
      [] OTHER -> IF s.rand THEN Push(evalop(s, Priority[t.op]), t.op) ELSE Told(s)

(* A line: its value, and whether a mistake was reported. *)
Scanned(row) == FoldLeft(Scans, Empty, row)
eval(row) ==
    LET s == Scanned(row)
        e == IF s.rand THEN evalop(s, Priority["END"]) ELSE Told(s)
    IN  IF e.told \/ Len(e.vals) # 1 \/ Len(e.ops) # 1 THEN [v |-> 0, told |-> TRUE]
        ELSE [v |-> e.vals[1].v, told |-> e.vals[1].ty = "UND"]

-----------------------------------------------------------------------------
(* What the language says: an expression is cut at its first ? or, without    *)
(* one, at the last of its operators of the lowest priority, outside         *)
(* parentheses; Wrong is not an expression.                                  *)
Wrong == [v |-> 0, ty |-> "WRONG"]
Count(row, i, op) == Cardinality({j \in 1 .. i : row[j].op = op})
Depth(row, i) == Count(row, i, "LP") - Count(row, i, "RP")
Outside(row) == {i \in DOMAIN row : row[i].op # "RP" /\ Depth(row, i) = 0}
Infix(row, i) == /\ i > 1 /\ row[i - 1].op \in {"num", "RP"}
                 /\ row[i].op \notin {"num", "LP", "RP", "NOT", "QUEST", "COLON"}
Balanced(row) == Depth(row, Len(row)) = 0 /\ \A i \in DOMAIN row : Depth(row, i) >= 0
(* The colons that go with the question mark at q. *)
Else(row, q) == {c \in Outside(row) : /\ c > q /\ row[c].op = "COLON"
                   /\ Cardinality({j \in Outside(row) : q <= j /\ j <= c /\ row[j].op = "QUEST"})
                      = Cardinality({j \in Outside(row) : q <= j /\ j <= c /\ row[j].op = "COLON"})}
FirstOf(S) == CHOOSE i \in S : \A j \in S : i <= j
Choose(test, a, b) ==
    IF Wrong \in {test, a, b} THEN Wrong
    ELSE LET chosen == IF test.v = 0 THEN b ELSE a
         IN  CASE "UND" \in {test.ty, chosen.ty} -> Value(0, "UND")
               [] "UNS" \in {a.ty, b.ty} -> Value(chosen.v, "UNS")
               [] OTHER -> chosen

RECURSIVE Means(_)
Means(row) ==
    LET n == Len(row)
        asks == {i \in Outside(row) : row[i].op = "QUEST"}
        q == FirstOf(asks)
        infix == {i \in Outside(row) : Infix(row, i)}
        k == CHOOSE i \in infix : \A j \in infix :
               \/ Priority[row[i].op] < Priority[row[j].op]
               \/ Priority[row[i].op] = Priority[row[j].op] /\ i >= j
        Binary(a, b) == IF Wrong \in {a, b} THEN Wrong ELSE Applied(row[k].op, a, b)
        Prefix(op, a) == IF a = Wrong THEN Wrong ELSE Applied(op, a, a)
        From(i, j) == Means(SubSeq(row, i, j))
    IN  CASE n = 0 \/ ~Balanced(row) -> Wrong
          [] asks # {} ->
               IF Else(row, q) = {} THEN Wrong
               ELSE LET c == FirstOf(Else(row, q)) IN Choose(From(1, q - 1), From(q + 1, c - 1), From(c + 1, n))
          [] asks = {} /\ infix # {} -> Binary(From(1, k - 1), From(k + 1, n))
          [] asks = {} /\ infix = {} /\ row[1].op \in {"NOT", "MINUS"} ->
               Prefix(IF row[1].op = "NOT" THEN "NOT" ELSE "UMINUS", From(2, n))
          [] asks = {} /\ infix = {} /\ row[1].op = "LP" ->
               IF row[n].op = "RP" /\ Outside(row) = {} THEN From(2, n - 1) ELSE Wrong
          [] OTHER -> IF n = 1 /\ row[1].op = "num" THEN [v |-> row[1].v, ty |-> row[1].ty] ELSE Wrong

(* Two operators of one priority next to each other, outside of && and ||,    *)
(* or a conditional between ? and its colon.                                *)
Chained(row) ==
    \E i, j \in DOMAIN row :
      /\ i < j /\ Depth(row, i) = Depth(row, j)
      /\ \A m \in i .. j : Depth(row, m) >= Depth(row, i)
      /\ \/ /\ Infix(row, i) /\ Infix(row, j) /\ Priority[row[i].op] = Priority[row[j].op]
            /\ row[i].op \notin {"LAND", "LOR"}
            /\ \A m \in i .. j : Depth(row, m) = Depth(row, i) =>
                 (Infix(row, m) \/ row[m].op \in {"QUEST", "COLON"} =>
                    Priority[row[m].op] >= Priority[row[i].op])
         \/ /\ row[i].op = "QUEST" /\ row[j].op = "QUEST"
            /\ ~ \E m \in i .. j : row[m].op = "COLON" /\ Depth(row, m) = Depth(row, i)

(* The line is worth what the language says, and a mistake is reported. *)
Evaluates(row) ==
    LET m == Means(row) IN
    IF m.ty \in {"WRONG", "UND"} THEN eval(row).told
    ELSE eval(row) = [v |-> m.v, told |-> FALSE]
=============================================================================
