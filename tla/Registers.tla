------------------------------ MODULE Registers ------------------------------
(***************************************************************************)
(* The register allocation of the compiler back end (src/src/gen.c), with  *)
(* the callbacks of the Gigatron target (src/src/gigatron.md).  Instruction *)
(* selection leaves a list of nodes, operands before the nodes that consume *)
(* them.  gen allocates a register to each in one pass over the list; when *)
(* none is left, or before a call, which overwrites all of them, it spills *)
(* a register: the value is stored in a local right after it is computed,  *)
(* and each use to come reloads it, by a node of its own or, where the     *)
(* instruction can read the local itself (gigatron.md:469), as part of it. *)
(*                                                                         *)
(* A register is the set of the words it covers: R8 is {8}, L8 is {8, 9}.  *)
(* The front end names the values it uses several times with temporaries.  *)
(* The operators named Bad... are mistakes one could make in the one that  *)
(* follows: the checks must tell them apart.                               *)
(***************************************************************************)
EXTENDS Integers, Sequences, FiniteSets, SequencesExt, FiniteSetsExt

CONSTANTS Words,       \* the words handed out: REGMASK_TEMPS, numbered from 1
          ArgWords,    \* the ones that pass arguments: REGMASK_ARGS
          Temps,       \* the temporaries of the front end, numbered from 1
          Wide,        \* the ones of two words: longs
          Shapes,      \* bound: the operand lists tried, 0 for a value in memory
          MaxRoots,    \* bound: statements of the function
          Earlier      \* bound: what functions compiled before may have used, as
                       \* sets of registers; {} is a compiler that starts

Reg(w) == {r \in SUBSET Words : Cardinality(r) = w /\ Max(r) - Min(r) = w - 1}
Registers == Reg(1) \cup Reg(2)

ASSUME RegistersAssumption ==
    /\ Words \subseteq Nat \ {0} /\ IsFiniteSet(Words) /\ Words = 1 .. Cardinality(Words)
    /\ ArgWords \subseteq Words /\ Earlier \subseteq SUBSET Registers
    /\ IsFiniteSet(Temps) /\ Temps = 1 .. Cardinality(Temps)
    /\ Wide \subseteq Temps /\ Shapes \subseteq Seq(Temps \cup {0}) /\ MaxRoots \in Nat

VARIABLES phase,   \* "select", "ralloc", "done", or "abort": an assertion failed
          roots,   \* statements listed so far
          here,    \* the node that gen allocates next, 0 at the end of the list
          g        \* nodes, their list, and the registers: see Init; and passed,
                   \* whether a loop of the spiller passed over an operand so far
vars == <<phase, roots, here, g>>

NULL == 0
Stale == -1        \* lastuse, left by an earlier function

(***************************************************************************)
(* A node: width of its result in words, 0 when it needs no register; nt   *)
(* (x.nt), "reg" when the node that consumes it needs it in a register;    *)
(* kids (x.kids); tmp, the temporary it defines or reads (syms[RX]), or 0; *)
(* reg, its register (syms[RX]), {} while syms[RX] is the wildcard; slot,  *)
(* the spill node that stored what it reloads; wants, the nodes whose      *)
(* values it must find in its operands; mem, those it reads in the local   *)
(* where a spill node stored them, as pairs.                               *)
(***************************************************************************)
Node(op, width, kids, tmp, reg, wants) ==
    [op |-> op, width |-> width, nt |-> "reg", kids |-> kids, tmp |-> tmp, reg |-> reg,
     registered |-> FALSE, slot |-> NULL, wants |-> wants, mem |-> {}]

Init ==
    /\ phase = "select" /\ roots = 0 /\ here = NULL
    /\ \E used \in Earlier :
         g = [node |-> <<>>, list |-> <<>>, free |-> Words, argmask |-> {}, passed |-> FALSE,
              lastuse |-> [r \in Registers |-> IF r \in used THEN Stale ELSE NULL]]

-----------------------------------------------------------------------------
(* Instruction selection, as much of it as decides what gen finds in the list. *)

Of(t) == {n \in DOMAIN g.node : g.node[n].tmp = t}
Defined == {t \in Temps : Of(t) # {}}
Shape == {os \in Shapes : Range(os) \subseteq Defined \cup {0}}
WidthOf(o) == IF o \in Wide THEN 2 ELSE 1

(* The instruction that fetches operand o, as node n, and the value it yields. *)
Fetch(o, nt) == [IF o = 0 THEN Node("leaf", 1, <<>>, 0, {}, <<>>)
                 ELSE Node("read", WidthOf(o), <<>>, o, {}, <<>>) EXCEPT !.nt = nt]
Value(o, n) == IF o = 0 THEN n ELSE Min(Of(o))
(* The operands of one instruction: the one at place needs a register, as the *)
(* count of a shift of a long; the others go through the accumulator.        *)
Fetches(os, place) == [i \in 1 .. Len(os) |-> Fetch(os[i], IF i = place THEN "reg" ELSE "iarg")]

Listed(ns) == g' = [g EXCEPT !.node = @ \o ns,
                             !.list = [i \in 1 .. Len(g.node) + Len(ns) |-> i]]
Append1(ns) == roots' = roots + 1 /\ Listed(ns) /\ UNCHANGED <<phase, here>>

(* ASGN(VREG t, x): x is computed in the register of t. *)
Assign(t, os, place) ==
    LET n == Len(g.node)
        k == Len(os)
        def == Node(IF k = 0 THEN "leaf" ELSE "op", WidthOf(t), [i \in 1 .. k |-> n + i], t, {},
                    [i \in 1 .. k |-> Value(os[i], n + i)])
    IN  /\ Defined = 1 .. t - 1
        /\ Append1(Fetches(os, place)
                     \o <<def, Node("asgn", 0, <<n + k + 1>>, 0, {}, <<n + k + 1>>)>>)

(* A store or a comparison: it consumes its operands. *)
Consume(os, place) ==
    LET n == Len(g.node) IN
    Append1(Fetches(os, place)
              \o <<Node("store", 0, [i \in 1 .. Len(os) |-> n + i], 0, {},
                        [i \in 1 .. Len(os) |-> Value(os[i], n + i)])>>)

(* The registers of arguments of these widths (argreg), {} when none is left. *)
Argreg(ws) == [i \in 1 .. Len(ws) |->
                 LET at == 1 + FoldLeft(+, 0, SubSeq(ws, 1, i - 1))
                     r == at .. at + ws[i] - 1
                 IN  IF r \subseteq ArgWords THEN r ELSE {}]

(* An argument is fetched, brought to its register (a LOAD, or the last      *)
(* instruction of an expression), and passed.                               *)
Argument(o, reg, n) ==
    <<Fetch(o, "reg"), Node("op", WidthOf(o), <<n + 1>>, 0, reg, <<Value(o, n + 1)>>),
      Node("arg", 0, <<n + 2>>, 0, reg, <<n + 2>>)>>

Call(t, width, os) ==
    LET regs == Argreg([i \in 1 .. Len(os) |-> WidthOf(os[i])])
        args == FoldLeft(LAMBDA ns, i : ns \o Argument(os[i], regs[i], Len(g.node) + Len(ns)),
                         <<>>, [i \in 1 .. Len(os) |-> i])
        call == Len(g.node) + Len(args) + 1
    IN  /\ \A i \in 1 .. Len(os) : regs[i] # {}
        /\ t = 0 \/ (Defined = 1 .. t - 1 /\ width = WidthOf(t))
        /\ Append1(args \o <<Node("call", width, <<>>, t, {}, <<>>)>>
                     \o (IF t = 0 THEN <<>> ELSE <<Node("asgn", 0, <<call>>, 0, {}, <<call>>)>>))

(* Every temporary is read: prune drops the others. *)
Selected ==
    /\ phase = "select" /\ roots > 0
    /\ \A t \in Defined : Cardinality(Of(t)) > 1
    /\ phase' = "ralloc" /\ here' = Head(g.list) /\ UNCHANGED <<roots, g>>

-----------------------------------------------------------------------------
(* Registers and the list.  Every operator takes the state s of gen and,    *)
(* when it changes it, returns the new one.                                 *)

Kids(s, n) == s.node[n].kids
Pos(s, n) == CHOOSE i \in 1 .. Len(s.list) : s.list[i] = n
From(s, n) == SubSeq(s.list, Pos(s, n), Len(s.list))
NextOf(s, n) == IF n = Last(s.list) THEN NULL ELSE s.list[Pos(s, n) + 1]
Insert(s, i, n) == [s EXCEPT !.list = SubSeq(@, 1, i - 1) \o <<n>> \o SubSeq(@, i, Len(@))]

putreg(s, r) == [s EXCEPT !.free = @ \cup r]
(* The highest free register of a class within mask, {} when there is none. *)
askreg(s, set, mask) ==
    LET can == {r \in set : r \subseteq mask \cap s.free}
    IN  IF can = {} THEN {} ELSE CHOOSE r \in can : \A q \in can : Max(r) >= Max(q)

Holds(s, k, words) == s.node[k].registered /\ s.node[k].reg \cap words # {}
uses(s, n, words) == \E k \in Range(Kids(s, n)) : Holds(s, k, words)
(* How many nodes away the first use is, at or after node n; -1: none. *)
Distance(s, n, words) ==
    LET f == From(s, n)
        d == {i \in 1 .. Len(f) : uses(s, f[i], words)}
    IN  IF d = {} THEN -1 ELSE Min(d) - 1

(* The register to spill: the one used farthest ahead; {}: there is none. *)
spillee(s, set, n) ==
    LET can == {r \in set : s.lastuse[r] # NULL /\ Distance(s, n, r) >= 0}
        best == {r \in can : \A q \in can : Distance(s, n, r) >= Distance(s, n, q)}
    IN  IF Cardinality(set) = 1 THEN CHOOSE r \in set : TRUE
        ELSE IF can = {} THEN {} ELSE CHOOSE r \in best : \A q \in best : Max(r) >= Max(q)

(* Argument registers are given back when the next node is the CALL. *)
Release(s, n) ==
    IF NextOf(s, n) # NULL /\ s.node[NextOf(s, n)].op = "call"
    THEN [s EXCEPT !.free = @ \cup s.argmask, !.argmask = {}] ELSE s

(* The node whose value node n leaves in its register. *)
ValueOf(s, n) == IF s.node[n].op = "reload" THEN s.node[n].wants[1] ELSE n

(* Store r right after its value is computed. *)
genspill(s, r, first) ==
    LET n == Len(s.node) + 1
        t == Insert([s EXCEPT !.node = Append(@, Node("spill", 0, <<>>, 0, r, <<ValueOf(s, first)>>))],
                    Pos(s, first) + 1, n)
    IN  Release(t, n)

(* The i-th operand of p, spilled in slot, is reloaded: by a new node when p *)
(* needs it in a register; else p reads the slot, and has a kid less.        *)
genreload(s, p, i, slot) ==
    LET n == Len(s.node) + 1
        k == s.node[Kids(s, p)[i]]
        reload == [Node("reload", k.width, <<>>, 0, {}, s.node[slot].wants) EXCEPT !.slot = slot]
    IN  IF k.nt = "reg"
        THEN Insert([s EXCEPT !.node = Append([@ EXCEPT ![p].kids[i] = n], reload)], Pos(s, p), n)
        ELSE [s EXCEPT !.node[p] = [@ EXCEPT !.kids = RemoveAt(@, i), !.wants = RemoveAt(@, i),
                                             !.mem = @ \cup {<<slot, s.node[slot].wants[1]>>}]]

(* The loops of spill (833) and spillr (745) over the kids of p: Do for each *)
(* that is In. Once Do has taken a kid away, the next one has its place, and *)
(* is passed over.                                                           *)
EachKid(s, p, In(_, _), Do(_, _, _)) ==
    LET Is(t, i) == i \in DOMAIN Kids(t, p) /\ In(t, Kids(t, p)[i])
        At(t, i) == IF Is(t, i)
                    THEN LET u == Do(t, p, i) IN
                         [u EXCEPT !.passed = @ \/ (Len(Kids(u, p)) < Len(Kids(t, p)) /\ Is(u, i))]
                    ELSE t
    IN  FoldLeft(At, s, [i \in DOMAIN Kids(s, p) |-> i])

(* Spill r at node n: a store, after the first node of the chain of its last *)
(* use, and a reload for each use after n.                                   *)
Reloaded(s, r, n) ==
    LET lst == s.node[s.lastuse[r]]
        first == IF lst.tmp = 0 THEN s.lastuse[r]
                 ELSE Min({m \in DOMAIN s.node : s.node[m].tmp = lst.tmp})
        t == genspill(s, r, first)
        slot == Len(t.node)
        In(u, k) == u.node[k].registered /\ u.node[k].reg = r
        Do(u, p, i) == genreload(u, p, i, slot)
    IN  FoldLeft(LAMBDA u, p : EachKid(u, p, In, Do), t, Tail(From(t, n)))
Badspillr(s, r, n) == Reloaded(s, r, n)
spillr(s, r, n) == putreg(Reloaded(s, r, n), r)

(* Spill every register in mask that n or a later node reads. *)
spill(s, mask, n) ==
    LET In(t, k) == Holds(t, k, mask)
        Do(t, p, i) == spillr(t, t.node[Kids(t, p)[i]].reg, n)
    IN  IF mask \subseteq s.free THEN s
        ELSE FoldLeft(LAMBDA t, p : EachKid(t, p, In, Do), s, From(s, n))

(* The state after a register of the class is made free for node n, and that register. *)
getreg(s, set, n) ==
    IF askreg(s, set, Words) # {} THEN <<s, askreg(s, set, Words)>>
    ELSE LET t == IF spillee(s, set, n) = {} THEN s ELSE spill(s, spillee(s, set, n), n)
         IN  <<t, askreg(t, set, Words)>>

Badclobber(s, n) ==
    LET p == s.node[n]
    IN  IF p.op = "call" THEN spill(s, Words \ p.reg, n) ELSE s
clobber(s, n) ==
    LET p == s.node[n]
        t == CASE p.op = "arg"  -> [s EXCEPT !.argmask = @ \cup p.reg, !.free = @ \ p.reg]
               [] p.op = "call" -> spill(s, Words \ p.reg, n)
               [] OTHER         -> s
    IN  Release(t, n)

BadConsumed(s, n) ==
    [s EXCEPT !.free = @ \cup UNION {s.node[k].reg : k \in Range(Kids(s, n))}]
(* Registers whose last use is here are free before the result gets one. *)
Consumed(s, n) ==
    [s EXCEPT !.free = @ \cup UNION {s.node[k].reg : k \in {j \in Range(Kids(s, n)) :
                                                      s.lastuse[s.node[j].reg] = j}}]
(* Node n, or every node of its temporary, gets register r. *)
Register(s, n, r) ==
    LET t == s.node[n].tmp
        these == IF t = 0 THEN {n} ELSE {m \in DOMAIN s.node : s.node[m].tmp = t}
    IN  [s EXCEPT !.free = @ \ r, !.lastuse[r] = Max(these),
                  !.node = [m \in DOMAIN s.node |->
                              IF m \in these THEN [s.node[m] EXCEPT !.reg = r, !.registered = TRUE]
                              ELSE s.node[m]]]

Class(p) == IF p.reg = {} THEN Reg(p.width) ELSE {p.reg}

ralloc ==
    LET s == Consumed(g, here)
        p == s.node[here]
        got == getreg(s, Class(p), here)
        needs == p.width > 0 /\ ~p.registered
        t == IF needs THEN Register(got[1], here, got[2]) ELSE s
        u == clobber([t EXCEPT !.node[here].registered = TRUE], here)
        unused == p.op = "call" /\ p.tmp = 0 /\ p.width > 0
    IN  /\ phase = "ralloc" /\ here # NULL /\ UNCHANGED roots
        /\ IF needs /\ got[2] = {}
           THEN phase' = "abort" /\ UNCHANGED <<here, g>>
           ELSE /\ g' = IF unused THEN putreg(u, u.node[here].reg) ELSE u
                /\ here' = NextOf(u, here)
                /\ phase' = IF here' = NULL THEN "done" ELSE phase

(* At most one operand, the last one named, needs a register, as the count  *)
(* of the shift of a long does (gigatron.md:751); or none does.              *)
Next == \/ /\ phase = "select" /\ roots < MaxRoots
           /\ \/ \E t \in Temps, os \in Shape : \E place \in {0, Len(os)} : Assign(t, os, place)
              \/ \E os \in Shape \ {<<>>} : \E place \in {0, Len(os)} : Consume(os, place)
              \/ \E t \in Temps \cup {0}, w \in 0 .. 2, os \in Shape : Call(t, w, os)
        \/ Selected
        \/ ralloc
Spec == Init /\ [][Next]_vars

-----------------------------------------------------------------------------
(* The machine that runs the list: the contents of the registers and of    *)
(* the spill slots, the arguments prepared, and whether every instruction  *)
(* found its operands so far.                                              *)
Has(m, r, v) == \A w \in r : m.word[w] = v

Step(m, n) ==
    LET p == g.node[n]
        found == /\ \A i \in DOMAIN p.wants : Has(m, g.node[p.kids[i]].reg, p.wants[i])
                 /\ p.mem \subseteq m.slot
        To(v) == [w \in Words |-> IF w \in p.reg THEN v ELSE m.word[w]]
    IN  CASE p.op \in {"leaf", "op"} -> [m EXCEPT !.word = To(n), !.ok = @ /\ found]
          [] p.op = "spill"  -> [m EXCEPT !.slot = @ \cup {<<n, p.wants[1]>>},
                                          !.ok = @ /\ Has(m, p.reg, p.wants[1])]
          [] p.op = "reload" -> [m EXCEPT !.word = To(p.wants[1]),
                                          !.ok = @ /\ <<p.slot, p.wants[1]>> \in m.slot]
          [] p.op = "arg"    -> [m EXCEPT !.args = @ \cup {<<p.reg, p.wants[1]>>},
                                          !.ok = @ /\ found]
          [] p.op = "call"   -> [m EXCEPT !.word = [w \in Words |-> IF w \in p.reg THEN n ELSE 0],
                                          !.args = {},
                                          !.ok = @ /\ \A a \in m.args : Has(m, a[1], a[2])]
          [] p.op \in {"store", "asgn"} -> [m EXCEPT !.ok = @ /\ found]
          [] OTHER -> m

Run == FoldLeft(Step, [word |-> [w \in Words |-> 0], slot |-> {}, args |-> {}, ok |-> TRUE], g.list)

-----------------------------------------------------------------------------
NodeType == [op : {"leaf", "op", "read", "asgn", "store", "arg", "call", "spill", "reload"},
             width : 0 .. 2, nt : {"reg", "iarg"}, kids : Seq(Nat), tmp : Temps \cup {0},
             reg : Registers \cup {{}}, registered : BOOLEAN, slot : Nat, wants : Seq(Nat),
             mem : SUBSET (Nat \X Nat)]

TypeOK == /\ phase \in {"select", "ralloc", "done", "abort"}
          /\ roots \in 0 .. MaxRoots
          /\ here \in Range(g.list) \cup {NULL}
          /\ Range(g.list) = DOMAIN g.node
          /\ \A n \in DOMAIN g.node : /\ g.node[n] \in NodeType
                                    /\ g.node[n].op = "arg" => g.node[n].reg \subseteq ArgWords
          /\ g.passed \in BOOLEAN /\ g.free \subseteq Words /\ g.argmask \subseteq ArgWords
          /\ g.lastuse \in [Registers -> DOMAIN g.node \cup {NULL, Stale}]

(* gigatron.md:292: "the register allocator spills registers to memory as  *)
(* needed for correctness".  The code computes what the list meant: when    *)
(* the instructions run, each finds in the registers of its operands, and a *)
(* call in the argument registers, the values the front end meant, whatever *)
(* was spilled, as long as no loop of the spiller has passed over an operand *)
(* (gen.c:833, 745): that one keeps a register that the call, or another     *)
(* value, overwrites, and the instruction reads the wrong value.             *)
OperandsArrive == phase = "done" /\ ~g.passed => Run.ok

(* The words with a value that a node still to come reads from a register. *)
Busy == UNION {g.node[o].reg : o \in {k \in UNION {Range(Kids(g, n)) : n \in Range(From(g, here))} :
                                       g.node[k].registered}}
(* The state is well formed and, unless an operand was passed over, freemask *)
(* agrees with the rest of the list: no register is given away while        *)
(* something will read it, and none is lost.                                *)
FreeIffIdle == TypeOK /\ (phase = "ralloc" /\ ~g.passed => g.free = (Words \ Busy) \ g.argmask)

(* assert(bestreg), gen.c:711: "Must be able to spill something".  It fails *)
(* in a compiler that starts, since a register that never held a value has  *)
(* no lastuse (696) and is passed over, even when its words are in use as   *)
(* parts of registers of another size.  Unless an operand was passed over,  *)
(* the assertions of getreg and spillee fail only for such a class: once    *)
(* all its registers were used, in this function or in an earlier one, one  *)
(* can be spilled and is then free, whatever waits in registers and in      *)
(* argument registers.                                                      *)
FailsOnlyUnused == phase = "abort" /\ ~g.passed => \E r \in Class(g.node[here]) : g.lastuse[r] = NULL
=============================================================================
