-------------------------------- MODULE Macros --------------------------------
(***************************************************************************)
(* Macro expansion in the preprocessor (src/cpp/macro.c and hideset.c).    *)
(* A token is its text and its hideset; its type follows from the text.    *)
(* from, for the properties only, has the macros in whose replacements it  *)
(* is: what its hideset is there to remember.                              *)
(* ## is the operator, ##1 one that came inside an argument.  defs is the  *)
(* table of macros: the parameters, NotCalled for a macro without any, the *)
(* replacement, and whether the last parameter takes the rest.  fuel       *)
(* bounds the steps of an expansion: the code has no such bound.           *)
(* The operators named Bad... are mistakes one could make in the one that  *)
(* follows: the checks must tell them apart.                               *)
(***************************************************************************)
EXTENDS Integers, Sequences, FiniteSets, SequencesExt, FiniteSetsExt

CONSTANTS HSSIZ,   \* what the length of a hideset, its end included, stays below
          Fuel     \* bound: the macros replaced in one expansion
ASSUME MacrosAssumption == HSSIZ \in Nat /\ Fuel \in Nat

Marks == {"(", ")", ",", "#", "##", "##1"}
Token(s) == [t |-> s, hs |-> {}, from |-> {}]
Row(texts) == [i \in DOMAIN texts |-> Token(texts[i])]
Texts(row) == [i \in DOMAIN row |-> row[i].t]
IsName(tok) == tok.t \notin Marks
NotCalled == <<"not called">>

-----------------------------------------------------------------------------
(* A hideset that is full gets no further macro. *)
newhideset(hs, np) == IF Cardinality(hs \cup {np}) + 1 >= HSSIZ THEN hs ELSE hs \cup {np}
unionhideset(hs1, hs2) == FoldSet(LAMBDA np, hs : newhideset(hs, np), hs1, hs2)

-----------------------------------------------------------------------------
(* How many parentheses are open after the first n tokens from i. *)
Opened(row, i, n) ==
    FoldLeft(LAMBDA p, tok : CASE tok.t = "(" -> p + 1 [] tok.t = ")" -> p - 1 [] OTHER -> p,
             0, SubSeq(row, i, i + n - 1))

(* The commas that separate the arguments of the call between row[i] and its  *)
(* closing parenthesis n tokens later: outside of inner parentheses, and, in  *)
(* a call with dots > 0 parameters, not those of the last.                   *)
BadCuts(row, i, n, dots) ==
    LET commas == SetToSortSeq({j \in i + 1 .. i + n - 2 :
                                  row[j].t = "," /\ Opened(row, i, j - i) = 1}, <)
    IN  IF dots = 0 THEN commas ELSE SubSeq(commas, 1, Min({dots, Len(commas)}))
Cuts(row, i, n, dots) ==
    LET commas == SetToSortSeq({j \in i + 1 .. i + n - 2 :
                                  row[j].t = "," /\ Opened(row, i, j - i) = 1}, <)
    IN  IF dots = 0 THEN commas ELSE SubSeq(commas, 1, Min({dots - 1, Len(commas)}))
gatherargs(row, i, dots) ==
    LET n == Min({k \in 1 .. Len(row) - i + 1 : Opened(row, i, k) = 0})
        edges == <<i>> \o Cuts(row, i, n, dots) \o <<i + n - 1>>
        arg(a) == SubSeq(row, edges[a] + 1, edges[a + 1] - 1)
        plain(tok) == IF tok.t = "##" THEN [tok EXCEPT !.t = "##1"] ELSE tok
    IN  [n |-> n,
         args |-> IF n = 2 THEN <<>>
                  ELSE [a \in 1 .. Len(edges) - 1 |-> [j \in DOMAIN arg(a) |-> plain(arg(a)[j])] \o <<>>]]

(* The parameter a token names: its place in the list, or 0. *)
lookuparg(def, tok) ==
    IF def.va /\ tok.t = "__VA_ARGS__" THEN Len(def.ap)
    ELSE IF tok.t \in Range(def.ap) THEN CHOOSE i \in DOMAIN def.ap : def.ap[i] = tok.t
    ELSE 0

stringify(arg) == Token(FoldLeft(LAMBDA s, tok : s \o tok.t, "'", arg) \o "'")

(* The replacement with the arguments: next to ## as they are, else expanded. *)
Argument(raw, expanded, glued) == IF glued THEN raw ELSE expanded
substargs(def, args, expanded) ==
    LET vp == def.vp
        subst(out, i) ==
          LET a == lookuparg(def, vp[i])
              named == i < Len(vp) /\ vp[i].t = "#" /\ lookuparg(def, vp[i + 1]) > 0
          IN  CASE named -> Append(out, stringify(args[lookuparg(def, vp[i + 1])]))
                [] a > 0 /\ i > 1 /\ vp[i - 1].t = "#" -> out
                [] a > 0 /\ (i = 1 \/ vp[i - 1].t # "#") ->
                     out \o Argument(args[a], expanded[a],
                                     \/ i < Len(vp) /\ vp[i + 1].t = "##"
                                     \/ out # <<>> /\ Last(out).t = "##")
                [] OTHER -> Append(out, vp[i])
    IN  FoldLeft(subst, <<>>, [i \in DOMAIN vp |-> i])

(* The ## operators, from left to right; what they make is a new token. *)
doconcat(row) ==
    LET step(out, i) ==
          IF i > 1 /\ row[i - 1].t = "##" /\ Len(out) > 1 /\ Last(out).t = "##"
          THEN Append(Front(Front(out)), Token(out[Len(out) - 1].t \o row[i].t))
          ELSE Append(out, IF row[i].t = "##1" THEN [row[i] EXCEPT !.t = "##"] ELSE row[i])
    IN  FoldLeft(step, <<>>, [i \in DOMAIN row |-> i])

-----------------------------------------------------------------------------
(* Leaves a name that has a hideset the one that it has. *)
BadHidden(row, hs, tok) ==
    [k \in DOMAIN row |-> IF IsName(row[k])
                          THEN [row[k] EXCEPT !.hs = IF @ = {} THEN hs ELSE @,
                                              !.from = @ \cup tok.from \cup {tok.t}]
                          ELSE row[k]]
(* The names of the row that replaces tok get the hideset hs of the macro.    *)
Hidden(row, hs, tok) ==
    [k \in DOMAIN row |-> IF IsName(row[k])
                          THEN [row[k] EXCEPT !.hs = unionhideset(@, hs),
                                              !.from = @ \cup tok.from \cup {tok.t}]
                          ELSE row[k]]
(* A token is in the replacements of more macros than a hideset can name.     *)
Crowded(row) == \E k \in DOMAIN row : Cardinality(row[k].from) + 1 >= HSSIZ

Unclosed(row, i) == \A n \in 1 .. Len(row) - i + 1 : Opened(row, i, n) # 0

(* expandrow, from token i of x: the row, the fuel left, whether a call had   *)
(* the wrong number of arguments, and for the properties whether a token was  *)
(* crowded, and whether a macro was replaced again in its own replacement.    *)
(* What replaces a macro is scanned again with what follows.  In an argument, *)
(* inmacro, the ## of a replacement wait for the macro around.                *)
RECURSIVE expandrow(_, _, _, _)
expandrow(defs, x, i, inmacro) ==
    IF i > Len(x.row) \/ x.fuel = 0 THEN x ELSE
    LET tok == x.row[i]
        def == defs[tok.t]
        hs == newhideset(tok.hs, tok.t)
        macro == tok.t \in DOMAIN defs /\ tok.t \notin tok.hs
        object == def.ap = NotCalled
        call == IF object THEN [n |-> 0, args |-> <<>>]
                ELSE gatherargs(x.row, i + 1, IF def.va THEN Len(def.ap) ELSE 0)
        Expand1(y, arg) == LET z == expandrow(defs, [y.x EXCEPT !.row = arg], 1, TRUE)
                           IN  [rows |-> Append(y.rows, z.row), x |-> z]
        Replaced(n, args, y) ==
          LET value == substargs(def, args, y.rows)
              new == Hidden(IF inmacro THEN value ELSE doconcat(value), hs, tok)
          IN  [y.x EXCEPT !.row = SubSeq(x.row, 1, i - 1) \o new \o SubSeq(x.row, i + n + 1, Len(x.row)),
                          !.fuel = Max({@, 1}) - 1, !.crowded = @ \/ Crowded(new),
                          !.again = @ \/ tok.t \in tok.from]
        none == [rows |-> <<>>, x |-> x]
        Replace(c) ==
          IF ~object /\ Len(c.args) # Len(def.ap)
          THEN expandrow(defs, [x EXCEPT !.row[i].hs = hs, !.wrong = TRUE], i + c.n + 1, inmacro)
          ELSE expandrow(defs, Replaced(c.n, c.args, FoldLeft(Expand1, none, c.args)), i, inmacro)
        called == i < Len(x.row) /\ x.row[i + 1].t = "("
    IN  CASE ~macro \/ (~object /\ ~called) -> expandrow(defs, x, i + 1, inmacro)
          [] macro /\ ~object /\ called /\ Unclosed(x.row, i + 1) -> [x EXCEPT !.wrong = TRUE]
          [] OTHER -> Replace(call)

Expanded(defs, row) ==
    expandrow(defs, [row |-> row, fuel |-> Fuel, wrong |-> FALSE, crowded |-> FALSE, again |-> FALSE],
              1, FALSE)

-----------------------------------------------------------------------------
(* Unless a token is crowded, an expansion ends, for no macro is replaced in   *)
(* its own replacement.                                                       *)
(* And an argument is expanded before it replaces the parameter (macro.c:361): *)
(* a macro id whose replacement is its argument gives what that gives alone.  *)
(* Not so when a replacement has ##.                                         *)
Concatenates(defs) == \E m \in DOMAIN defs : "##" \in Range(Texts(defs[m].vp))
EndsAlike(alone, called) ==
    /\ alone.fuel > 0 /\ ~alone.again
    /\ ~alone.wrong => ~called.wrong /\ Texts(called.row) = Texts(alone.row)
EndsAndStandsAlone(defs, id, row) ==
    LET rows == IF Concatenates(defs) THEN <<row, row>>
                ELSE <<row, Row(<<id, "(">>) \o row \o Row(<<")">>)>>
        Both(of) == of[1].crowded \/ of[2].crowded \/ EndsAlike(of[1], of[2])
    IN  Both([k \in 1 .. 2 |-> Expanded(defs, rows[k])] \o <<>>)

(* The arguments, with the commas between them, are what the parentheses hold; *)
(* there are at most dots of them when that is not 0, and one more than the    *)
(* commas outside of inner parentheses otherwise.                             *)
ArgumentsHold(row, dots) ==
    LET args == gatherargs(row, 1, dots).args
        inside == SubSeq(row, 2, Len(row) - 1)
        Commas(r) == {j \in DOMAIN r : r[j].t = "," /\ Opened(r, 1, j) = 0}
    IN  IF inside = <<>> THEN args = <<>>
        ELSE /\ FoldLeft(LAMBDA s, a : s \o <<",">> \o Texts(a), <<>>, args)
                  = <<",">> \o Texts(inside)
             /\ IF dots = 0 THEN \A a \in DOMAIN args : Commas(args[a]) = {}
                ELSE Len(args) = Min({dots, Cardinality(Commas(inside)) + 1})
=============================================================================
