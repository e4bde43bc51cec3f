----------------------------- MODULE Initializers -----------------------------
(***************************************************************************)
(* The initializers of the compiler front end (src/src/init.c): the tokens  *)
(* of an initializer are read from left to right, next to the type, and the *)
(* bytes are emitted as they come, with the padding.  p is the reader: the   *)
(* tokens ts, the next one i, the bytes out, whether a mistake was told, and *)
(* the results n and v of what was called last.                             *)
(* The operators named Bad... are mistakes one could make in the one that  *)
(* follows: the checks must tell them apart.                               *)
(***************************************************************************)
EXTENDS Fields, FiniteSets

Token(t) == [t |-> t, v |-> <<>>]
Num(v) == [t |-> "num", v |-> <<v>>]
Str(chars) == [t |-> "str", v |-> chars]
Reader(ts) == [ts |-> ts, i |-> 1, out |-> <<>>, err |-> FALSE, n |-> 0, v |-> 0]
t(p) == IF p.i <= Len(p.ts) THEN p.ts[p.i].t ELSE ";"
gettok(p) == [p EXCEPT !.i = @ + 1]
Fails(p) == [p EXCEPT !.err = TRUE]
test(p, tok) == IF t(p) = tok THEN gettok(p) ELSE Fails(p)
Larger(a, b) == IF a > b THEN a ELSE b
Returns(p, n) == [p EXCEPT !.n = n]
Emit(p, bytes) == [p EXCEPT !.out = @ \o bytes]
space(p, n) == Emit(p, [i \in 1 .. n |-> 0])
defconst(p, v, size) == Emit(p, [i \in 1 .. size |-> Truncated(v \div Pow(8 * (i - 1)), 8)])

initvalue(p) == IF t(p) = "num" THEN [gettok(p) EXCEPT !.v = p.ts[p.i].v[1]] ELSE Fails(p)
initend(p, lev) == test(IF lev = 0 /\ t(p) = "," THEN gettok(p) ELSE p, "}")
(* After an item: the list ends if it has len bytes, or no comma follows, or   *)
(* only the one that may end it.                                            *)
Ends(p, len, n) == p.err \/ (len > 0 /\ n >= len) \/ t(p) # ","
Trailing(p) == t(gettok(p)) = "}"

RECURSIVE initchar(_, _, _)
NextChar(p, len, n) ==
    IF Ends(p, len, n) THEN Returns(p, n)
    ELSE IF Trailing(p) THEN Returns(gettok(p), n) ELSE initchar(gettok(p), len, n)
Byte(p) == defconst(p, p.v, 1)
initchar(p, len, n) == NextChar(Byte(initvalue(p)), len, n + 1)

(* The bit-fields F[i] to F[last] of a unit: their bits are gathered, and as   *)
(* many bytes are emitted as they reach.                                    *)
RECURSIVE initfields(_, _, _, _, _, _)
NextField(p, F, i, last, bits, n) ==
    IF p.err \/ i = last \/ t(p) # ","
    THEN Returns(defconst(p, bits, bits2bytes(n)), bits2bytes(n))
    ELSE initfields(gettok(p), F, i + 1, last, bits, n)
Gathers(p, F, i, last, bits, n) ==
    NextField(p, F, i, last, bits + Truncated(p.v, F[i].bits) * Pow(fieldright(F[i])),
              Larger(n, F[i].bits + fieldright(F[i])))
initfields(p, F, i, last, bits, n) == Gathers(initvalue(p), F, i, last, bits, n)

SameUnit(F, i) == CHOOSE q \in i .. Len(F) :
    /\ \A j \in i .. q : F[j].offset = F[i].offset
    /\ q < Len(F) => F[q + 1].offset # F[i].offset

RECURSIVE initializer(_, _, _), initarray(_, _, _, _, _), initstruct(_, _, _, _, _, _)
NextElement(p, len, ty, lev, n) ==
    IF Ends(p, len, n) THEN Returns(p, n)
    ELSE IF Trailing(p) THEN Returns(gettok(p), n) ELSE initarray(gettok(p), len, ty, lev, n)
initarray(p, len, ty, lev, n) == NextElement(initializer(p, ty, lev), len, ty, lev, n + ty.size)

NextMember(p, len, ty, lev, last, n) ==
    IF Ends(p, len, n) THEN Returns(p, n)
    ELSE IF Trailing(p) THEN Returns(gettok(p), n)
    ELSE initstruct(gettok(p), len, ty, lev, IF last < Len(ty.flist) THEN last + 1 ELSE last, n)
BadAlignAfter(ty, last) == ty.align
AlignAfter(ty, last) == IF last < Len(ty.flist) THEN ty.flist[last + 1].ty.align ELSE ty.align
Padded(p, len, ty, lev, last, n, end) == NextMember(space(p, end - n), len, ty, lev, last, end)
AfterMember(p, len, ty, lev, last, n) ==
    Padded(p, len, ty, lev, last, n, roundup(n, AlignAfter(ty, last)))
AfterFields(p, len, ty, lev, last, n) == AfterMember(p, len, ty, lev, last, n + p.n)
FromMember(p, len, ty, lev, i, n) ==
    LET f == ty.flist[i] IN
    IF f.lsb = 0 THEN AfterMember(initializer(p, f.ty, lev), len, ty, lev, i, n + f.ty.size)
    ELSE AfterFields(initfields(p, ty.flist, i, SameUnit(ty.flist, i), 0, 0),
                     len, ty, lev, SameUnit(ty.flist, i), n)
initstruct(p, len, ty, lev, i, n) ==
    LET start == Larger(n, ty.flist[i].offset) IN
    FromMember(space(p, start - n), len, ty, lev, i, start)

IsChars(ty) == ty.k = "array" /\ ty.elem[1].k = "char"
Braced(p) == t(p) = "{"
Constant(p, ty) == Returns(defconst(p, p.v, ty.size), ty.size)
scalar(p, ty, lev) ==
    Constant(IF Braced(p) THEN initend(initvalue(gettok(p)), lev) ELSE initvalue(p), ty)
string(p, ty) ==
    LET s == p.ts[p.i].v
        n == IF Len(s) = ty.size THEN ty.size ELSE Len(s) + 1
    IN  Returns(Emit(gettok(p), SubSeq(Append(s, 0), 1, n)), n)
chars(p, ty, lev) ==
    CASE t(p) = "str" -> string(p, ty)
      [] Braced(p) -> test(initchar(gettok(p), 0, 0), "}")
      [] ~Braced(p) /\ t(p) # "str" /\ lev > 0 /\ ty.size > 0 -> initchar(p, ty.size, 0)
      [] OTHER -> Fails(p)
elements(p, ty, lev) ==
    CASE Braced(p) -> test(initarray(gettok(p), 0, ty.elem[1], lev + 1, 0), "}")
      [] ~Braced(p) /\ lev > 0 /\ ty.size > 0 -> initarray(p, ty.size, ty.elem[1], lev + 1, 0)
      [] OTHER -> Fails(p)
members(p, ty, lev) ==
    LET Listed(q, len) == initstruct(q, len, ty, lev + 1, 1, 0)
        first == ty.flist[1].ty.size
    IN  CASE Braced(p) /\ ty.k = "union" -> initend(Listed(gettok(p), first), lev)
          [] Braced(p) /\ ty.k = "struct" -> test(Listed(gettok(p), 0), "}")
          [] ~Braced(p) /\ lev > 0 -> Listed(p, IF ty.k = "union" THEN first ELSE ty.size)
          [] OTHER -> Fails(p)
(* What is not given is zero.  An array whose size is not known has the size 0. *)
Completed(p, ty) ==
    IF p.err \/ ty.size = 0 THEN p
    ELSE IF p.n > ty.size THEN Fails(p) ELSE space(p, ty.size - p.n)
initializer(p, ty, lev) ==
    IF IsChars(ty) /\ Braced(p) /\ t(gettok(p)) = "str"
    THEN initend(initializer(gettok(p), ty, lev + 1), lev)
    ELSE Completed(CASE ty.k \in {"struct", "union"} -> members(p, ty, lev)
                     [] IsChars(ty) -> chars(p, ty, lev)
                     [] ty.k = "array" /\ ~IsChars(ty) -> elements(p, ty, lev)
                     [] OTHER -> scalar(p, ty, lev), ty)

(* A declaration: the initializer, and nothing after it. *)
Compiled(ts, ty) ==
    LET Whole(p) == IF t(p) = ";" THEN p ELSE Fails(p) IN Whole(initializer(Reader(ts), ty, 0))

-----------------------------------------------------------------------------
(* What an initializer means.  It is a value, a string or a list of them;     *)
(* each member takes a list, or what it needs of the list around it.         *)
Depth(ts, i) == Cardinality({j \in 1 .. i : ts[j].t = "{"}) - Cardinality({j \in 1 .. i : ts[j].t = "}"})
RECURSIVE Items(_)      \* of the tokens between two braces
Items(ts) ==
    LET cuts == {i \in DOMAIN ts : ts[i].t = "," /\ Depth(ts, i) = 0}
        cut == CHOOSE i \in cuts : \A j \in cuts : i <= j
    IN  IF ts = <<>> THEN <<>> ELSE IF cuts = {} THEN <<ts>>
        ELSE <<SubSeq(ts, 1, cut - 1)>> \o Items(SubSeq(ts, cut + 1, Len(ts)))
IsList(item) == item[1].t = "{"
Inside(item) == Items(SubSeq(item, 2, Len(item) - 1))
EndsWithComma(item) == item[Len(item) - 1].t = ","
IsStr(item) == item[1].t = "str"

(* f.at is the set of what is given: the first bit, the width and the value;  *)
(* f.items are the items that are left of a list, f.comma whether it ends     *)
(* with a comma, f.inner whether it is inside another; f.ok tells that all    *)
(* were right, and f.odd that the compiler is known to reject one that is:    *)
(* braces around a bit-field or around a char of an array, a comma at the end *)
(* of the inner list of a scalar, a string or a union, or before a bit-field   *)
(* that is not given.                                                       *)
Gives(bit, width, v) == [bit |-> bit, width |-> width, v |-> v]
Members(ty, bit) ==
    CASE ty.k = "array" -> [i \in 1 .. (IF ty.size = 0 THEN 9 ELSE ty.size \div ty.elem[1].size) |->
                              [ty |-> ty.elem[1], bit |-> bit + 8 * (i - 1) * ty.elem[1].size,
                               width |-> IF ty.elem[1].k = "char" THEN 8 ELSE 0]]
      [] OTHER -> [i \in 1 .. (IF ty.k = "union" THEN 1 ELSE Len(ty.flist)) |->
                              [ty |-> ty.flist[i].ty, bit |-> bit + FirstBit(ty.flist[i]), width |-> ty.flist[i].bits]]
GivesString(f, ty, bit, item) ==
    LET s == Append(item[1].v, 0)
        n == IF ty.size = 0 \/ Len(s) < ty.size THEN Len(s) ELSE ty.size
    IN  [f EXCEPT !.at = @ \cup {Gives(bit + 8 * (i - 1), 8, s[i]) : i \in 1 .. n},
                  !.ok = @ /\ (ty.size > 0 => Len(item[1].v) <= ty.size)]
RECURSIVE Fill(_, _, _, _), FillMembers(_, _, _)
FillMembers(f, ms, i) ==
    IF i > Len(ms) \/ ~f.ok THEN f
    ELSE IF f.items = <<>>
    THEN [f EXCEPT !.odd = @ \/ (f.comma /\ ms[i].ty.k = "int" /\ ms[i].width > 0)]
    ELSE FillMembers(Fill(f, ms[i].ty, ms[i].bit, ms[i].width), ms, i + 1)
Fill(f, ty, bit, width) ==
    LET item == Head(f.items)
        rest == [f EXCEPT !.items = Tail(@)]
        inside == Inside(item)
        list == [f EXCEPT !.items = inside, !.comma = EndsWithComma(item), !.inner = TRUE]
        Odd(g, odd) == [g EXCEPT !.odd = @ \/ (IsList(item) /\ odd)]
        oddcomma == f.inner /\ IsList(item) /\ EndsWithComma(item)
        Scalar(v) == [rest EXCEPT !.at = @ \cup {Gives(bit, IF width = 0 THEN 8 * ty.size ELSE width, v)}]
        All == FillMembers(list, Members(ty, bit), 1)
    IN  CASE ty.size > 0 /\ ty.k \notin {"array", "struct", "union"} ->
               LET value == IF IsList(item) /\ Len(inside) = 1 THEN inside[1] ELSE item IN
               IF value[1].t = "num" THEN Odd(Scalar(value[1].v[1]), width > 0 \/ oddcomma)
               ELSE [f EXCEPT !.ok = FALSE]
          [] IsChars(ty) /\ IsStr(item) -> GivesString(rest, ty, bit, item)
          [] IsChars(ty) /\ IsList(item) /\ Len(inside) = 1 /\ IsStr(inside[1]) ->
               Odd(GivesString(rest, ty, bit, inside[1]), oddcomma)
          [] IsList(item) /\ ~(IsChars(ty) /\ Len(inside) = 1 /\ IsStr(inside[1])) ->
               Odd([All EXCEPT !.items = rest.items, !.ok = @ /\ All.items = <<>>,
                               !.comma = f.comma, !.inner = f.inner], oddcomma /\ ty.k = "union")
          [] OTHER -> FillMembers(f, Members(ty, bit), 1)
Meant(ts, ty) ==
    LET f == Fill([at |-> {}, items |-> <<ts>>, comma |-> FALSE, inner |-> FALSE,
                   ok |-> TRUE, odd |-> FALSE], ty, 0, 0) IN
    [f EXCEPT !.ok = @ /\ f.items = <<>> /\ (IsList(ts) \/ ty.k = "int" \/ (IsChars(ty) /\ IsStr(ts)))]

Bit(v, j) == Truncated(v \div Pow(j), 1)
Initialized(ts, ty, known) ==
    LET p == Compiled(ts, ty)
        f == Meant(ts, ty)
        GivenBit(j) == LET here == {g \in f.at : j \in g.bit .. g.bit + g.width - 1} IN
                       IF here = {} THEN 0 ELSE LET g == CHOOSE g \in here : TRUE IN Bit(g.v, j - g.bit)
    IN  \/ f.odd /\ ~known
        \/ /\ f.ok <=> ~p.err
           /\ f.ok => /\ ty.size > 0 => Len(p.out) = ty.size
                      /\ \A g \in f.at : g.bit + g.width <= 8 * Len(p.out)
                      /\ ty.size = 0 => /\ Len(p.out) % ty.elem[1].size = 0
                                        /\ \E g \in f.at : g.bit + g.width > 8 * (Len(p.out) - ty.elem[1].size)
                      /\ \A j \in 0 .. 8 * Len(p.out) - 1 : Bit(p.out[j \div 8 + 1], j % 8) = GivenBit(j)
=============================================================================
