------------------------------- MODULE Scopes -------------------------------
(***************************************************************************)
(* The declarations of one identifier in a translation unit: the tables of *)
(* symbols of the compiler front end (src/src/sym.c), and what dclglobal,   *)
(* dcllocal, funcdefn and finalize (src/src/decl.c) enter in them and tell  *)
(* the back end.  A table is the sequence of the symbols entered in it; a   *)
(* symbol is an index, and 0 is no symbol.  The types are fun, int, open    *)
(* and sized: a function, an int, an array without and with its size.       *)
(* The operators named Bad... are mistakes one could make in the one that  *)
(* follows: the checks must tell them apart.                               *)
(***************************************************************************)
EXTENDS Integers, Sequences, FiniteSets, FiniteSetsExt, SequencesExt

CONSTANT MaxLevel    \* bound: blocks inside one another
Global == 3   \* the levels GLOBAL, PARAM and LOCAL of the source
Param == 4
Local == 5

Symbol(scope, sclass, ty) ==
    [scope |-> scope, sclass |-> sclass, ty |-> ty, defined |-> FALSE, alias |-> 0, ref |-> FALSE]

(* A unit: its symbols, the tables identifiers (a level each) and externals,  *)
(* the function being defined, what the back end was told, and whether a      *)
(* mistake was reported.                                                     *)
Unit == [sym |-> <<>>, identifiers |-> [l \in Global .. MaxLevel |-> <<>>], externals |-> <<>>,
         level |-> Global, cfunc |-> 0, told |-> <<>>, error |-> FALSE]

Latest(table) == IF table = <<>> THEN 0 ELSE Last(table)
lookup(u) ==
    LET full == {l \in Global .. u.level : u.identifiers[l] # <<>>}
    IN  IF full = {} THEN 0 ELSE Last(u.identifiers[Max(full)])
install(u, lev, symbol) ==
    [u EXCEPT !.sym = Append(@, symbol), !.identifiers[lev] = Append(@, Len(u.sym) + 1)]
relocate(u) ==
    [u EXCEPT !.identifiers[Global] = Append(@, Last(u.externals)), !.externals = <<>>]
exitscope(u) == [u EXCEPT !.identifiers[u.level] = <<>>, !.level = @ - 1]

Array(ty) == ty \in {"open", "sized"}
eqtype(a, b) == a = b \/ (Array(a) /\ Array(b))
compose(a, b) == IF a = b THEN a ELSE "sized"
Mistake(u, p) == [u EXCEPT !.error = @ \/ p]

-----------------------------------------------------------------------------
Tells(u, what, p) == [u EXCEPT !.told = Append(@, <<what, p>>)]
export(u, p) == IF u.sym[p].sclass = "STATIC" THEN u ELSE Tells(u, "export", p)
import(u, p) == IF u.sym[p].ref THEN Tells(u, "import", p) ELSE u
defglobal(u, p) == [Tells(export(u, p), "global", p) EXCEPT !.sym[p].defined = TRUE]
initglobal(u, p) ==
    [defglobal(u, p) EXCEPT !.sym[p].sclass = IF @ = "EXTERN" THEN "AUTO" ELSE @,
                            !.sym[p].ty = IF @ = "open" THEN "sized" ELSE @]

(* A declaration out of any function, or the one of a function definition.    *)
dclglobal(u, sclass, ty, init) ==
    LET p == lookup(u)
        again == p # 0 /\ u.sym[p].scope = Global
        old == u.sym[p]
        differs == again /\ (old.sclass = "TYPEDEF" \/ ~eqtype(ty, old.ty))
        declared ==
            IF again
            THEN [u EXCEPT !.sym[p].sclass = IF @ = "EXTERN" THEN sclass ELSE @,
                           !.sym[p].ty = IF differs THEN ty ELSE compose(ty, @)]
            ELSE IF u.externals # <<>>
            THEN [relocate(u) EXCEPT !.sym[Last(u.externals)].sclass = sclass,
                                     !.sym[Last(u.externals)].ty = ty]
            ELSE install(u, Global, Symbol(Global, sclass, ty))
        n == Last(declared.identifiers[Global])
        new == declared.sym[n]
    IN  Mistake(IF init /\ ty # "fun" THEN initglobal(declared, n) ELSE declared,
                \/ differs
                \/ again /\ ty # "fun" /\ old.defined /\ init
                \/ ty = "fun" /\ init
                \/ ~init /\ new.sclass = "STATIC" /\ new.ty = "open")

(* extern in a block: the symbol of the file, or one of the table externals.  *)
BadAliased(u, p) ==
    LET v == [u EXCEPT !.sym = Append(@, Symbol(Global, "EXTERN", u.sym[p].ty)),
                       !.externals = <<Len(u.sym) + 1>>]
    IN  [v EXCEPT !.sym[p].alias = Len(u.sym) + 1]
Aliased(u, p) ==
    LET g == Latest(u.identifiers[Global])
        v == IF (g # 0 /\ u.sym[g].sclass # "TYPEDEF") \/ u.externals # <<>> THEN u
             ELSE [u EXCEPT !.sym = Append(@, Symbol(Global, "EXTERN", u.sym[p].ty)),
                            !.externals = <<Len(u.sym) + 1>>]
    IN  [v EXCEPT !.sym[p].alias =
           IF g # 0 /\ u.sym[g].sclass # "TYPEDEF" THEN g ELSE Last(v.externals)]

dcllocal(u, given, ty, init) ==
    LET sclass == IF ty = "fun" THEN "EXTERN" ELSE given
        q == lookup(u)
        here == q # 0 /\ (\/ u.sym[q].scope >= u.level
                          \/ u.sym[q].scope = Param /\ u.level = Local)
        again == here /\ sclass = "EXTERN" /\ u.sym[q].sclass = "EXTERN" /\ eqtype(u.sym[q].ty, ty)
        type == CASE again -> compose(ty, u.sym[q].ty)
                  [] init /\ ty = "open" -> "sized"
                  [] OTHER -> ty
        v == install(u, u.level, Symbol(u.level, sclass, type))
        n == Len(v.sym)
    IN  Mistake(CASE sclass = "EXTERN" -> Aliased(v, n)
                  [] sclass = "STATIC" -> defglobal(v, n)
                  [] sclass = "AUTO" -> [v EXCEPT !.sym[n].defined = TRUE],
                \/ here /\ ~again
                \/ ty = "fun" /\ given = "STATIC"
                \/ sclass = "EXTERN" /\ init
                \/ sclass # "EXTERN" /\ type = "open")

Typedef(u) ==
    LET p == lookup(u)
    IN  Mistake(install(u, u.level, Symbol(u.level, "TYPEDEF", "int")),
                p # 0 /\ u.sym[p].scope = u.level)

(* The function of the identifier (own), or another one; param says whether   *)
(* the identifier names a parameter.                                         *)
funcdefn(u, sclass, own, param) ==
    LET opened == [u EXCEPT !.level = Param]
        p == IF param THEN install(opened, Param, [Symbol(Param, "AUTO", "int") EXCEPT !.defined = TRUE])
             ELSE opened
        q == lookup(p)
        v == IF ~own THEN p
             ELSE Mistake(dclglobal(p, sclass, "fun", FALSE),
                          q # 0 /\ p.sym[q].ty = "fun" /\ p.sym[q].defined)
        f == Latest(v.identifiers[Global])
    IN  IF own THEN [v EXCEPT !.sym[f].defined = TRUE, !.cfunc = f, !.level = Local]
        ELSE [v EXCEPT !.level = Local]

compound(u) == [u EXCEPT !.level = @ + 1]
EndOfBlock(u) ==
    IF u.level > Local THEN exitscope(u)
    ELSE LET v == exitscope(exitscope(u))
         IN  IF u.cfunc = 0 THEN v
             ELSE [Tells(export(v, u.cfunc), "global", u.cfunc) EXCEPT !.cfunc = 0]

(* An expression: the identifier, called if it is not declared (primary), and *)
(* the symbol it stands for (idtree).                                        *)
Implicit(u) == LET v == install(u, u.level, Symbol(u.level, "EXTERN", "fun"))
               IN  Aliased(v, Len(v.sym))
Seen(u, called) == IF lookup(u) = 0 /\ called THEN Implicit(u) ELSE u
Target(u) == LET p == lookup(u)
             IN  IF p # 0 /\ u.sym[p].scope > Param /\ u.sym[p].sclass = "EXTERN" THEN u.sym[p].alias ELSE p
idtree(u, called) ==
    LET v == Seen(u, called)
        p == Target(v)
    IN  IF p = 0 \/ v.sym[p].sclass = "TYPEDEF" THEN Mistake(v, TRUE)
        ELSE [v EXCEPT !.sym[p].ref = TRUE]

(* The end of the unit. *)
doglobal(u, p) ==
    LET s == u.sym[p]
    IN  CASE ~s.defined /\ (s.sclass = "EXTERN" \/ (s.ty = "fun" /\ s.sclass = "AUTO")) -> import(u, p)
          [] ~s.defined /\ s.ty # "fun" /\ s.sclass \in {"AUTO", "STATIC"} -> defglobal(u, p)
          [] OTHER -> u
finalize(u) ==
    LET v == FoldLeft(doglobal, FoldLeft(import, u, u.externals), u.identifiers[Global])
    IN  Mistake(v, \E i \in 1 .. Len(v.identifiers[Global]) :
                     LET s == v.sym[v.identifiers[Global][i]]
                     IN  s.sclass = "STATIC" /\ ~s.defined /\ s.ty = "fun" /\ s.ref)

-----------------------------------------------------------------------------
(* What the language says (ansi_c.txt, 3.1.2.2, 3.5, 3.7).  A declaration     *)
(* gives the identifier, in a scope, an entity: ext or int, that of the       *)
(* linkage, or one of its own.  wrong: a constraint is violated; undefined:   *)
(* the unit means nothing.                                                   *)
Outer == <<"ext", 0>>
Inner == <<"int", 0>>
Own(n) == <<"own", n>>
None == [entity |-> Own(0), kind |-> "none"]
File == [scopes |-> <<None>>, entities |-> {}, kinds |-> {}, own |-> 0, bodies |-> 0, tentative |-> FALSE,
         sized |-> FALSE, wrong |-> FALSE, undefined |-> FALSE]
Kind(ty) == IF Array(ty) THEN "array" ELSE ty
Here(f) == Last(f.scopes)
Visible(f) == LET there == {i \in DOMAIN f.scopes : f.scopes[i] # None}
              IN  IF there = {} THEN None ELSE f.scopes[Max(there)]
Linked == {Outer, Inner}
AsExtern(f) == IF Visible(f).entity \in Linked THEN Visible(f).entity ELSE Outer
Entity(f, sclass, ty) ==
    IF sclass = "STATIC" THEN Inner
    ELSE IF sclass = "EXTERN" \/ ty = "fun" THEN AsExtern(f) ELSE Outer

Enters(f, entity, kind, wrong) ==
    [f EXCEPT !.scopes[Len(f.scopes)] = [entity |-> entity, kind |-> kind], !.wrong = @ \/ wrong]
Links(f, entity, ty) ==
    LET differs == Here(f) # None /\ Here(f).kind # Kind(ty)
    IN  [Enters(f, entity, Kind(ty), differs \/ (Here(f) # None /\ Here(f).entity \notin Linked))
           EXCEPT !.entities = @ \cup {entity}, !.kinds = @ \cup {Kind(ty)},
                  !.undefined = @ \/ (f.entities \ {entity} # {}) \/ (~differs /\ f.kinds \ {Kind(ty)} # {})]
Owns(f, kind, wrong) ==
    [Enters(f, Own(f.own + 1), kind, wrong \/ Here(f) # None) EXCEPT !.own = @ + 1]
Bodied(f) == [f EXCEPT !.bodies = @ + 1, !.wrong = @ \/ f.bodies > 0]

GlobalMeans(f, sclass, ty, init) ==
    LET e == Entity(f, sclass, ty)
        g == Links(f, e, ty)
        sized == f.sized \/ ty = "sized" \/ init
    IN  CASE ty = "fun" -> [g EXCEPT !.wrong = @ \/ init]
          [] init -> [Bodied(g) EXCEPT !.sized = TRUE]
          [] OTHER -> [g EXCEPT !.sized = sized, !.tentative = @ \/ sclass # "EXTERN",
                                !.wrong = @ \/ (g.entities = {Inner} /\ Array(ty) /\ ~sized)]
LocalMeans(f, given, ty, init) ==
    CASE ty = "fun" -> [Links(f, AsExtern(f), ty) EXCEPT !.wrong = @ \/ init \/ given = "STATIC"]
      [] ty # "fun" /\ given = "EXTERN" -> [Links(f, AsExtern(f), ty) EXCEPT !.wrong = @ \/ init]
      [] OTHER -> Owns(f, Kind(ty), ty = "open" /\ ~init)
TypedefMeans(f) == Owns(f, "type", FALSE)
FunctionMeans(f, sclass, own, param) ==
    LET g == IF own THEN Bodied(Links(f, Entity(f, sclass, "fun"), "fun")) ELSE f
        h == [g EXCEPT !.scopes = Append(@, None)]
    IN  IF param THEN Owns(h, "int", FALSE) ELSE h
BlockMeans(f) == [f EXCEPT !.scopes = Append(@, None)]
EndMeans(f) == [f EXCEPT !.scopes = Front(@)]
UseMeans(f, called) ==
    LET g == IF Visible(f) = None /\ called THEN Links(f, Outer, "fun") ELSE f
    IN  [g EXCEPT !.wrong = @ \/ Visible(g).kind \in {"none", "type"}]

(* Each use of the identifier, a pair of a symbol and of the entity it should *)
(* denote, denotes it: the same one for all the instances with a linkage, a   *)
(* definition if the unit has one, an import only if it has none.            *)
Defined(f) == f.bodies > 0 \/ f.tentative
Denotes(u, f, uses) ==
    LET Told(what) == {i \in DOMAIN u.told : u.told[i][1] = what}
        Count(what, p) == Cardinality({i \in Told(what) : u.told[i][2] = p})
        Filed(p) == u.sym[p].scope = Global
    IN  /\ \A a, b \in uses : (a[1] = b[1]) <=> (a[2] = b[2])
        /\ \A a \in uses :
             LET p == a[1] IN
             CASE a[2] = Outer -> /\ Filed(p) /\ u.sym[p].sclass # "STATIC"
                                  /\ Count("import", p) = IF Defined(f) THEN 0 ELSE 1
               [] a[2] = Inner -> /\ Filed(p) /\ u.sym[p].sclass = "STATIC"
                                  /\ Count("import", p) = 0 /\ Count("global", p) = 1
               [] OTHER -> ~Filed(p)
        /\ Cardinality({u.told[i][2] : i \in {j \in DOMAIN u.told : Filed(u.told[j][2])}}) <= 1
        /\ Cardinality(Told("export")) = IF Defined(f) /\ Outer \in f.entities THEN 1 ELSE 0
        /\ \A p \in DOMAIN u.sym : Count("global", p) <= 1
UsedUndefined(f, uses) == f.kinds = {"fun"} /\ f.bodies = 0 /\ \E a \in uses : a[2] = Inner
=============================================================================
