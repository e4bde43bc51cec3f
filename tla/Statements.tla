------------------------------ MODULE Statements ------------------------------
(***************************************************************************)
(* The statements of the compiler front end (src/src/stmt.c, with walk,    *)
(* fixup and equated of src/src/dag.c): labels, jumps to labels that may be *)
(* defined later, and the removal of the ones that are of no use.  The      *)
(* value of an expression is unknown here: an expression statement is an    *)
(* effect, a condition is a test unless it is a constant.                  *)
(*                                                                         *)
(* A function is read a statement at a time.  u.p is what was read: for each *)
(* statement its kind, the statement around it, which part of that one it   *)
(* is, and x: the constant of a case, the name of a label, or the condition: *)
(* "?" is tested, "1" and "0" are constants, "first" is tested but known to *)
(* be true the first time, "none" is absent.  u.c is the code.             *)
(* The operators named Bad... are mistakes one could make in the one that  *)
(* follows: the checks must tell them apart.                               *)
(***************************************************************************)
EXTENDS Integers, Sequences, FiniteSets, SequencesExt

(* The code list.  The entries below Label are left out: every loop over the  *)
(* list passes them.  A label has a count of uses and may be equated to      *)
(* another; label is the last number that was given.                        *)
Entry(kind, lab, forest) == [kind |-> kind, lab |-> lab, forest |-> forest]
NoCode == [list |-> <<Entry("Start", 0, <<>>)>>, forest |-> <<>>, label |-> 0,
           ref |-> [l \in {} |-> 0], equatedto |-> [l \in {} |-> 0], error |-> FALSE]
genlabel(c, n) == LET new == c.label + 1 .. c.label + n IN
    [c EXCEPT !.label = @ + n, !.ref = [l \in DOMAIN @ \cup new |-> IF l \in new THEN 0 ELSE @[l]]]
Error(c, wrong) == [c EXCEPT !.error = @ \/ wrong]

(* What was listed, and then more, is one entry.                             *)
walk(c, more) ==
    LET forest == c.forest \o more IN
    [c EXCEPT !.forest = <<>>,
              !.list = IF forest = <<>> THEN @ ELSE Append(@, Entry("Gen", 0, forest))]

RECURSIVE equated(_, _)
equated(c, l) == IF l \in DOMAIN c.equatedto THEN equated(c, c.equatedto[l]) ELSE l
RECURSIVE equal(_, _, _)
equal(c, l, dst) == l = dst \/ (dst \in DOMAIN c.equatedto /\ equal(c, l, c.equatedto[dst]))
equatelab(c, old, new) ==
    [c EXCEPT !.equatedto = [l \in DOMAIN @ \cup {old} |-> IF l = old THEN new ELSE @[l]],
              !.ref[new] = @ + 1]

(* A jump that would lead to the label that comes now is removed, also from   *)
(* before other labels.                                                     *)
RECURSIVE Unjumped(_, _)
Unjumped(c, lab) ==
    LET i == CHOOSE i \in DOMAIN c.list :
               c.list[i].kind # "Label" /\ \A j \in i + 1 .. Len(c.list) : c.list[j].kind = "Label"
    IN  IF c.list[i].kind = "Jump" /\ c.list[i].lab = lab
        THEN Unjumped([c EXCEPT !.list = RemoveAt(@, i), !.ref[lab] = @ - 1], lab) ELSE c
definelab(c, lab) ==
    LET w == walk(c, <<>>) IN
    Unjumped([w EXCEPT !.list = Append(@, Entry("Label", lab, <<>>))], lab)

(* A label before a jump is only another name of its target, unless it is the *)
(* target; a jump that cannot be reached is dropped.                         *)
RECURSIVE Unlabelled(_, _)
Unlabelled(c, lab) ==
    LET e == Last(c.list) IN
    IF e.kind = "Label" /\ ~equal(c, e.lab, lab)
    THEN Unlabelled(equatelab([c EXCEPT !.list = Front(@)], e.lab, lab), lab) ELSE c
branch(c, lab) ==
    LET u == Unlabelled(walk(c, <<>>), lab) IN
    IF Last(u.list).kind \in {"Jump", "Switch"} THEN u
    ELSE [u EXCEPT !.list = Append(@, Entry("Jump", lab, <<>>)), !.ref[lab] = @ + 1]
IfUsed(c, lab) == IF c.ref[lab] > 0 THEN definelab(c, lab) ELSE c

(* The instructions that test the condition x of statement n, with a jump to  *)
(* tlab if it is true or to flab if it is false, one of which is 0.          *)
Test(c, n, x, tlab, flab) ==
    LET jumps == \/ x = "1" /\ tlab # 0
                 \/ x = "0" /\ flab # 0
        tests == x \in {"?", "first"}
    IN  walk(IF tests \/ jumps THEN [c EXCEPT !.ref[tlab + flab] = @ + 1] ELSE c,
             CASE tests -> <<<<"test", n, tlab, flab>>>>
               [] jumps -> <<<<"jump", tlab + flab>>>>
               [] OTHER -> <<>>)
foldcond(x) == x = "first"

-----------------------------------------------------------------------------
(* The statements that are open, innermost last.  lab is the first label of   *)
(* one; loop is the first label of the loop around what comes next, swp the   *)
(* number of the switch around it, 0 if none; part is the part that comes     *)
(* next, "over" when only an else may; bare tells that it ends with an if     *)
(* that an else would belong to.                                            *)
Frame(kind, n, lab, loop, swp, part) ==
    [kind |-> kind, n |-> n, lab |-> lab, loop |-> loop, swp |-> swp, part |-> part, bare |-> FALSE]
Function == [c |-> genlabel(NoCode, 1), over |-> FALSE, sw |-> <<>>,
             names |-> [s \in {} |-> 0], defined |-> {},
             p |-> <<[kind |-> "{", up |-> 0, part |-> "body", x |-> "none"]>>,
             open |-> <<Frame("{", 1, 0, 0, 0, "item")>>]
Exit == 1    \* cfunc->u.f.label
Top(u) == Last(u.open)
Pop(u, c) == [u EXCEPT !.c = c, !.open = Front(@)]

(* A switch: its code goes where its head was, before the code of its cases.  *)
(* Module Switch has what the tests of swgen do; here they are one           *)
(* instruction.                                                             *)
EndSwitch(u) ==
    LET f == Top(u)
        sw == u.sw[f.swp]
        d == IfUsed(IF sw.deflab THEN u.c ELSE definelab(u.c, f.lab), f.lab + 1)
        head == [d EXCEPT !.list = SubSeq(@, 1, sw.head - 1),
                          !.forest = IF sw.cases = {} THEN @
                                     ELSE Append(@, <<"switch", f.n, sw.cases>>)]
        e == branch(head, f.lab)
    IN  [e EXCEPT !.list = @ \o SubSeq(d.list, sw.head + 1, Len(d.list))]

(* What follows the part that ends here; x is the condition. *)
EndPart(u) ==
    LET f == Top(u)
        c == u.c
        x == u.p[f.n].x
        Tested(d) == IfUsed(Test(d, f.n, x, f.lab, 0), f.lab + 2)
        Again == walk(definelab(c, f.lab + 1), <<<<"each", f.n>>>>)
    IN  CASE f.kind = "if" -> IfUsed(c, f.lab + 1)
          [] f.kind \in {"while", "do"} -> Tested(definelab(c, f.lab + 1))
          [] f.kind = "for" /\ x = "none" -> IfUsed(branch(Again, f.lab), f.lab + 2)
          [] f.kind = "for" /\ x # "none" ->
               Tested(IF foldcond(x) THEN Again ELSE definelab(Again, f.lab + 3))
          [] f.kind = "switch" -> EndSwitch(u)
          [] OTHER -> c

(* The end of a statement ends the ones that it is the last part of.         *)
RECURSIVE Ended(_, _)
Ended(u, bare) ==
    LET f == Top(u)
        last == Len(u.open)
    IN  CASE f.kind = "{" -> u
          [] f.kind = "if" /\ f.part = "then" ->
               [u EXCEPT !.open[last].part = "over", !.open[last].bare = bare]
          [] OTHER -> Ended(Pop(u, EndPart(u)), bare /\ f.kind # "do")

Closable(u) == Top(u).kind = "{" /\ Top(u).n # 1
EndBlock(u) == Ended(Pop(u, walk(u.c, <<>>)), FALSE)
CanElse(u) == Top(u).part = "over" /\ ~Top(u).bare
Else(u) == [u EXCEPT !.open[Len(u.open)].part = "else",
                     !.c = definelab(branch(u.c, Top(u).lab + 1), Top(u).lab)]
NoElse(u) == Ended(Pop(u, definelab(u.c, Top(u).lab)), TRUE)
EndFunction(u) ==
    [u EXCEPT !.over = TRUE,
              !.c = Error(definelab(walk(@, <<>>), Exit), DOMAIN u.names # u.defined)]

(* A label is known from its first use or definition. *)
Named(u, s) ==
    IF s \in DOMAIN u.names THEN u
    ELSE LET c == genlabel(u.c, 1) IN
         [u EXCEPT !.c = c, !.names = [r \in DOMAIN @ \cup {s} |-> IF r = s THEN c.label ELSE @[r]]]

(* The statements without a part. *)
Simple == {"asgn", "call", "empty", "break", "continue", "return", "goto"}
Badbreaktarget(u) == LET f == Top(u) IN
    IF f.swp # 0 THEN u.sw[f.swp].lab + 1 ELSE IF f.loop # 0 THEN f.loop + 2 ELSE 0
breaktarget(u) == LET f == Top(u) IN
    IF f.swp # 0 /\ u.sw[f.swp].lab > f.loop THEN u.sw[f.swp].lab + 1
    ELSE IF f.loop # 0 THEN f.loop + 2 ELSE 0
Branches(c, lab) == IF lab = 0 THEN Error(c, TRUE) ELSE branch(c, lab)
simple(u, kind, n, x) ==
    LET w == walk(u.c, <<>>)
        f == Top(u)
        v == Named([u EXCEPT !.c = w], x)
    IN  CASE kind = "asgn" -> [u EXCEPT !.c.forest = Append(@, <<"do", n>>)]
          [] kind = "call" -> [u EXCEPT !.c = walk(@, <<<<"do", n>>>>)]
          [] kind = "empty" -> u
          [] kind = "break" -> [u EXCEPT !.c = Branches(w, breaktarget(u))]
          [] kind = "continue" -> [u EXCEPT !.c = Branches(w, IF f.loop = 0 THEN 0 ELSE f.loop + 1)]
          [] kind = "return" -> [u EXCEPT !.c = branch(w, Exit)]
          [] kind = "goto" -> [v EXCEPT !.c = branch(@, v.names[x])]

(* The statements around another one: the code before it, and its frame.     *)
Push(u, c, f) == [u EXCEPT !.c = c, !.open = Append(@, f)]
loopstmt(u, kind, n, x) ==
    LET c == genlabel(u.c, IF kind = "for" THEN 4 ELSE 3)
        lab == u.c.label + 1
        w == walk(c, IF kind = "for" THEN <<<<"first", n>>>> ELSE <<>>)
        b == CASE kind = "do" -> c
               [] kind = "while" -> branch(w, lab + 1)
               [] kind = "for" -> IF x = "none" \/ foldcond(x) THEN w ELSE branch(w, lab + 3)
    IN  Push(u, definelab(b, lab), Frame(kind, n, lab, lab, Top(u).swp, "body"))
swstmt(u, n) ==
    LET w == walk(genlabel(u.c, 2), <<>>)
        sw == [n |-> n, lab |-> u.c.label + 1, deflab |-> FALSE, cases |-> {}, head |-> Len(w.list) + 1]
    IN  Push([u EXCEPT !.sw = Append(@, sw)],
             [w EXCEPT !.list = Append(@, Entry("Switch", 0, <<>>))],
             Frame("switch", n, sw.lab, Top(u).loop, Len(u.sw) + 1, "body"))
(* Cases that follow one another share a label. *)
casestmt(u, n, x) ==
    LET f == Top(u)
        lab == IF f.kind = "case" THEN f.lab ELSE u.c.label + 1
        c == IF f.kind = "case" THEN u.c ELSE definelab(genlabel(u.c, 1), lab)
        g == Frame("case", n, lab, f.loop, f.swp, "body")
    IN  IF f.swp = 0 THEN Push(u, Error(c, TRUE), g)
        ELSE Push([u EXCEPT !.sw[f.swp].cases = @ \cup {<<x, lab>>}],
                  Error(c, \E old \in u.sw[f.swp].cases : old[1] = x), g)
defaultstmt(u, n) ==
    LET f == Top(u)
        g == Frame("default", n, 0, f.loop, f.swp, "body")
    IN  IF f.swp = 0 \/ (f.swp # 0 /\ u.sw[f.swp].deflab) THEN Push(u, Error(u.c, TRUE), g)
        ELSE Push([u EXCEPT !.sw[f.swp].deflab = TRUE], definelab(u.c, u.sw[f.swp].lab), g)
stmtlabel(u, n, x) ==
    LET v == Named(u, x)
        f == Top(u)
    IN  Push([v EXCEPT !.defined = @ \cup {x}],
             definelab(Error(v.c, x \in u.defined), v.names[x]),
             Frame("label", n, 0, f.loop, f.swp, "body"))
around(u, kind, n, x) ==
    LET f == Top(u)
        lab == u.c.label + 1
    IN  CASE kind = "{" -> Push(u, walk(u.c, <<>>), Frame("{", n, 0, f.loop, f.swp, "item"))
          [] kind = "if" -> Push(u, Test(genlabel(u.c, 2), n, x, 0, lab),
                                 Frame("if", n, lab, f.loop, f.swp, "then"))
          [] kind \in {"while", "do", "for"} -> loopstmt(u, kind, n, x)
          [] kind = "switch" -> swstmt(u, n)
          [] kind = "case" -> casestmt(u, n, x)
          [] kind = "default" -> defaultstmt(u, n)
          [] kind = "label" -> stmtlabel(u, n, x)

Expected(u) == ~u.over /\ Top(u).part # "over"
statement(u, kind, x) ==
    LET f == Top(u)
        n == Len(u.p) + 1
        v == [u EXCEPT !.p = Append(@, [kind |-> kind, up |-> f.n, part |-> f.part, x |-> x])]
    IN  IF kind \in Simple THEN Ended(simple(v, kind, n, x), FALSE) ELSE around(v, kind, n, x)

-----------------------------------------------------------------------------
(* What the function means.  A point is before a statement ("in"), at the end *)
(* of the body of a loop ("again"), at its condition ("test"), or the end.   *)
AtEnd == <<"end", 0>>
Kids(p, n) == {m \in DOMAIN p : p[m].up = n}
Around(p, n, kinds) ==      \* the innermost statement around n of one of the kinds, 0 if none
    LET RECURSIVE Up(_)
        Up(m) == IF m = 0 \/ p[m].kind \in kinds THEN m ELSE Up(p[m].up)
    IN  Up(p[n].up)
RECURSIVE After(_, _)
After(p, n) ==
    LET up == p[n].up
        next == {m \in Kids(p, up) : m > n}
    IN  CASE up = 0 -> AtEnd
          [] up # 0 /\ p[up].kind = "{" /\ next # {} -> <<"in", CHOOSE m \in next : next \subseteq m .. Len(p)>>
          [] up # 0 /\ p[up].kind \in {"while", "do", "for"} -> <<"again", up>>
          [] OTHER -> After(p, up)
Part(p, n, part) ==
    LET kids == {m \in Kids(p, n) : p[m].part = part} IN
    IF kids = {} THEN After(p, n) ELSE <<"in", CHOOSE m \in kids : kids \subseteq m .. Len(p)>>

Loops == {"while", "do", "for"}
(* The labels of a switch that stand for the value v, and its default.        *)
CasesOf(p, n, kind) ==
    {m \in DOMAIN p : p[m].kind = kind /\ Around(p, m, {"switch"}) = n}
Chosen(p, n, v) ==
    LET same == {m \in CasesOf(p, n, "case") : p[m].x = v} IN
    IF same # {} THEN <<"in", CHOOSE m \in same : TRUE>>
    ELSE IF CasesOf(p, n, "default") # {} THEN <<"in", CHOOSE m \in CasesOf(p, n, "default") : TRUE>>
    ELSE After(p, n)

Wrong(p) ==
    \/ \E n \in DOMAIN p : LET s == p[n] IN
         CASE s.kind = "break" -> Around(p, n, Loops \cup {"switch"}) = 0
           [] s.kind = "continue" -> Around(p, n, Loops) = 0
           [] s.kind \in {"case", "default"} ->
                \/ Around(p, n, {"switch"}) = 0
                \/ \E m \in CasesOf(p, Around(p, n, {"switch"}), s.kind) : m # n /\ p[m].x = s.x
           [] s.kind = "label" -> \E m \in DOMAIN p : m # n /\ p[m].kind = "label" /\ p[m].x = s.x
           [] OTHER -> FALSE
Undefined(p) == \E n \in DOMAIN p : p[n].kind = "goto" /\
                   ~\E m \in DOMAIN p : p[m].kind = "label" /\ p[m].x = p[n].x

(* The point after a point, with the effect or the test met.                  *)
Met(point, met) == [at |-> point, met |-> met]
Silent(point) == Met(point, <<>>)
Enter(p, n, v) ==
    LET s == p[n]
        x == s.x
    IN  CASE s.kind \in {"asgn", "call"} -> Met(After(p, n), <<"do", n>>)
          [] s.kind = "empty" -> Silent(After(p, n))
          [] s.kind = "break" ->
               LET m == Around(p, n, Loops \cup {"switch"}) IN Silent(After(p, m))
          [] s.kind = "continue" -> Silent(<<"again", Around(p, n, Loops)>>)
          [] s.kind = "return" -> Silent(AtEnd)
          [] s.kind = "goto" ->
               Silent(<<"in", CHOOSE m \in DOMAIN p : p[m].kind = "label" /\ p[m].x = x>>)
          [] s.kind \in {"if", "while"} -> Silent(<<"test", n>>)
          [] s.kind = "for" ->
               Met(IF x = "first" THEN Part(p, n, "body") ELSE <<"test", n>>, <<"first", n>>)
          [] s.kind = "switch" -> Silent(Chosen(p, n, v))
          [] s.kind = "{" -> Silent(Part(p, n, "item"))
          [] OTHER -> Silent(Part(p, n, "body"))
Outcome(p, n, holds) ==
    IF p[n].kind = "if" THEN Part(p, n, IF holds THEN "then" ELSE "else")
    ELSE IF holds THEN Part(p, n, "body") ELSE After(p, n)
Asks(p, point) == point[1] = "test" /\ p[point[2]].x \in {"?", "first"}
Follow(p, point, holds, v) ==
    LET n == point[2] IN
    CASE point[1] = "in" -> Enter(p, n, v)
      [] point[1] = "again" ->
           IF p[n].kind = "for" THEN Met(<<"test", n>>, <<"each", n>>) ELSE Silent(<<"test", n>>)
      [] point[1] = "test" ->
           LET h == IF Asks(p, point) THEN holds ELSE p[n].x \in {"1", "none"} IN
           Met(Outcome(p, n, h), IF Asks(p, point) THEN <<"test", n>> ELSE <<>>)

(* What a run meets when the tests have the results of answers, up to the     *)
(* first one it has no answer for, or until it has met enough, or for ever.  *)
Enough == 6
Quiet == 25      \* more steps than these programs have: they meet nothing any more
RECURSIVE Means(_, _, _, _, _, _)
Means(p, point, answers, v, met, fuel) ==
    IF fuel = 0 \/ Len(met) = Enough \/ (answers = <<>> /\ Asks(p, point)) THEN met
    ELSE IF point = AtEnd THEN Append(met, <<"end">>)
    ELSE LET f == Follow(p, point, IF Asks(p, point) THEN Head(answers) ELSE FALSE, v) IN
         IF f.met = <<>> THEN Means(p, f.at, answers, v, met, fuel - 1)
         ELSE Means(p, f.at, IF Asks(p, point) THEN Tail(answers) ELSE answers, v,
                    Append(met, f.met), Quiet)

(* The machine that runs the code, with the labels that fixup leaves.        *)
Flat(c) == FlattenSeq([i \in DOMAIN c.list |->
              LET e == c.list[i] IN
              CASE e.kind = "Gen" -> e.forest
                [] e.kind = "Label" -> <<<<"label", e.lab>>>>
                [] e.kind = "Jump" -> <<<<"jump", e.lab>>>>
                [] OTHER -> <<>>])
Place(c, code, lab) == CHOOSE i \in DOMAIN code : code[i] = <<"label", equated(c, lab)>>
RECURSIVE Runs(_, _, _, _, _, _, _)
Runs(c, code, pc, answers, v, met, fuel) ==
    IF fuel = 0 \/ Len(met) = Enough THEN met
    ELSE IF pc > Len(code) THEN Append(met, <<"end">>)
    ELSE IF answers = <<>> /\ code[pc][1] = "test" THEN met
    ELSE LET i == code[pc]
             Goto(lab) == Runs(c, code, Place(c, code, lab), answers, v, met, fuel - 1)
             Meet(next, rest) == Runs(c, code, next, rest, v, Append(met, <<i[1], i[2]>>), Quiet)
         IN  CASE i[1] = "label" -> Runs(c, code, pc + 1, answers, v, met, fuel - 1)
               [] i[1] = "jump" -> Goto(i[2])
               [] i[1] = "switch" ->
                    IF \E case \in i[3] : case[1] = v
                    THEN Goto((CHOOSE case \in i[3] : case[1] = v)[2])
                    ELSE Runs(c, code, pc + 1, answers, v, met, fuel - 1)
               [] i[1] = "test" ->
                    Meet(CASE Head(answers) /\ i[3] # 0 -> Place(c, code, i[3])
                           [] ~Head(answers) /\ i[4] # 0 -> Place(c, code, i[4])
                           [] OTHER -> pc + 1, Tail(answers))
               [] OTHER -> Meet(pc + 1, answers)

Answers == [1 .. 3 -> BOOLEAN]
(* The code meets what the function means to meet, whatever the tests and the *)
(* value of the switches, one that has no case included.                     *)
SameFlow(u) ==
    LET code == Flat(u.c) IN
    \A answers \in Answers, v \in (IF u.sw = <<>> THEN {1} ELSE {1, 2, 3}) :
       Runs(u.c, code, 1, answers, v, <<>>, Quiet) = Means(u.p, <<"in", 1>>, answers, v, <<>>, Quiet)
(* The assertions of equatelab and fixup: a label in the list is not equated. *)
LabelsStand(c) ==
    \A i \in DOMAIN c.list : c.list[i].kind = "Label" => c.list[i].lab \notin DOMAIN c.equatedto
=============================================================================
