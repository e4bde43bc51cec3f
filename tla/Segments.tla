------------------------------ MODULE Segments ------------------------------
(***************************************************************************)
(* The placement of code and data in memory: one pass of gigatron/glink.py *)
(* (run_pass, the last one, when the labels have settled) followed by the  *)
(* linked lists that it builds for the C library (process_magic_symbols).  *)
(*                                                                         *)
(* A segment is a range of addresses that fills up from its start; when a  *)
(* fragment cannot go where the last one ended, the segment is cut in two. *)
(* The list of segments is kept here as a function from the start of each  *)
(* segment: a cut inserts the new segment after the old one, so that the   *)
(* order of the list is that of the rank of the segment they come from,    *)
(* then that of the addresses.                                             *)
(*                                                                         *)
(* A function that does not fit in a segment hops: it goes on in another   *)
(* one after a long jump.  Its instructions are abstracted to their sizes. *)
(***************************************************************************)
EXTENDS Integers, Sequences, FiniteSets

CONSTANTS
  Links,     \* what may be linked, records of
             \*   map    what map_segments and create_zpage_segments list
             \*   prags  the segments that pragmas define
             \*   prog   the fragments, in the order of the modules
  Page,      \* 256
  Jump,      \* size_long_jump(): 3 or 10
  Instrs,    \* the sizes of instructions, long conditional branches included
  Sfst,      \* --short-function-size-threshold (256)
  Lfss,      \* --long-function-segment-size (96)
  Rest,      \* the same for the next pieces of a function (48)
  Ldff,      \* --large-data-fragments-first
  MinHeap    \* --minimal-heap-segment-size (24)

None == -1         \* python's None, where an address is expected
NoBuffer == -1     \* a segment whose buffer is None

Flags == {"C", "D", "H", "c", "d"}
Kinds == {"CODE", "DATA", "BSS"}

Spans == [from : Nat, to : Nat, flags : SUBSET Flags]
Fragments ==
  [cseg : Kinds, size : Nat \ {0}, align : Nat, nohop : BOOLEAN,
   amin : Nat \cup {None}, amax : Nat \cup {None},
   aoff : (0 .. Page - 1) \cup {None}]

(* What check_segment_overlaps and pragma_segment reject otherwise. *)
Apart(L) ==
  \A i, j \in DOMAIN L :
    /\ L[i].from < L[i].to
    /\ i # j => L[i].to <= L[j].from \/ L[j].to <= L[i].from

ASSUME SegmentsAssumption ==
  /\ Page \in Nat \ {0} /\ Page % 4 = 0
  /\ Jump \in 3 .. Page
  /\ Instrs \subseteq 1 .. Page - Jump
  /\ Sfst \in 1 .. Page /\ Lfss \in Jump .. Sfst /\ Rest \in 1 .. Page
  /\ Ldff \in Nat /\ MinHeap \in Nat /\ MinHeap >= 24
  /\ \A link \in Links :
       /\ link.map \in Seq(Spans) /\ Apart(link.map)
       /\ link.prags \in Seq(Spans) /\ Apart(link.prags)
       /\ link.prog \in Seq(Fragments)

VARIABLES
  prog,     \* the fragments, in the order of the modules and of their code
  segs,     \* start of a segment -> [end, pc, flags, nbss, buf, rank]
  stage,    \* which call to assemble_fragments run_pass is in
  cursor,   \* where assemble_fragments is in its loop
  done,     \* the fragments that are assembled
  cur,      \* the function being assembled when hops are enabled
  pieces,   \* where the bytes of the fragments went
  chains,   \* the lists of bss and heap segments, None until they are made
  outcome   \* how the link ends

vars == <<prog, segs, stage, cursor, done, cur, pieces, chains, outcome>>

Idle == [frag |-> 0]
Stages == 16

-----------------------------------------------------------------------------
(* make_segments.  A segment of the map is [from, to, flags].              *)

(* A segment of the map loses the addresses of the pragma segments, which  *)
(* are added at the end of the list: what remains of it starts at its start *)
(* or where a pragma segment ends, and stops at its end or where the next   *)
(* pragma segment starts.                                                  *)

Within(s, a) == s.from <= a /\ a < s.to
Ends(s, prags) == {s.to} \cup {prags[j].from : j \in DOMAIN prags}

Outside(s, prags) ==
  {a \in {s.from} \cup {prags[j].to : j \in DOMAIN prags} :
     Within(s, a) /\ \A j \in DOMAIN prags : ~ Within(prags[j], a)}

Segment(from, to, flags, rank) ==
  [end |-> to, pc |-> from, flags |-> flags, nbss |-> 0, buf |-> NoBuffer,
   rank |-> rank]

(* The operators named Bad... are mistakes one could make in the one that  *)
(* follows: the checks must tell them apart.                               *)

MakeSegments(map, prags) ==
  [a \in (UNION {Outside(map[i], prags) : i \in DOMAIN map})
           \cup {prags[j].from : j \in DOMAIN prags} |->
     IF \E j \in DOMAIN prags : prags[j].from = a
     THEN LET j == CHOOSE k \in DOMAIN prags : prags[k].from = a
          IN  Segment(a, prags[j].to, prags[j].flags, Len(map) + j)
     ELSE LET i == CHOOSE k \in DOMAIN map : a \in Outside(map[k], prags)
              after == {e \in Ends(map[i], prags) : a < e}
          IN  Segment(a, CHOOSE e \in after : \A x \in after : e <= x,
                      map[i].flags, i)]

-----------------------------------------------------------------------------
(* find_segment, as functions of the segments S and a fragment f.          *)

Aligned(a, n) == IF n > 1 THEN n * ((a + n - 1) \div n) ELSE a
PageEnd(a) == a - (a % Page) + Page

Code(f) == f.cseg = "CODE"
Sign(f) == IF f.cseg = "BSS" THEN -1 ELSE 1
Align(f) == IF Code(f) THEN 1 ELSE f.align
Hard(f) == f.amin # None /\ f.amax = None

Permits(s, f) ==
  \/ (IF Code(f) THEN "C" ELSE "D") \in s.flags
  \/ f.amin # None /\ (IF Code(f) THEN "c" ELSE "d") \in s.flags

(* Mixes them. *)
BadConflict(s, f) == FALSE

(* Not to mix bss and not bss in a segment. *)
Conflict(s, f) == Sign(f) * s.nbss < 0

(* The address where size bytes of f would go in segment s. *)
Goal(s, f, size) ==
  LET start == Aligned(s.pc, Align(f))
      byOff == IF f.aoff # None /\ f.aoff >= start % Page
               THEN start - (start % Page) + f.aoff ELSE start
      byMin == IF f.amin > byOff THEN f.amin ELSE byOff
  IN  IF (f.nohop \/ Code(f)) /\ byMin + size > PageEnd(start)
      THEN PageEnd(start) ELSE byMin

Address(s, f, size, go) ==
  IF go /\ Conflict(s, f) THEN PageEnd(Aligned(s.pc, Align(f)))
  ELSE Goal(s, f, size)

(* The three errors of a fragment with a fixed address. *)
Misfit(s, f, size) ==
  /\ Hard(f)
  /\ \/ f.amin < s.pc
     \/ Goal(s, f, size) > f.amin
     \/ Goal(s, f, size) + size > s.end

(* Does not look at the largest address. *)
HighFits(s, f, addr, size) ==
  /\ addr + size <= s.end
  /\ f.aoff # None => addr % Page = f.aoff

Fits(s, f, addr, size) ==
  /\ addr + size <= s.end
  /\ f.amax # None => addr + size <= f.amax + 1
  /\ f.aoff # None => addr % Page = f.aoff

Before(S, a, b) == S[a].rank < S[b].rank \/ (S[a].rank = S[b].rank /\ a < b)
FirstOf(S, A) == CHOOSE a \in A : \A b \in A \ {a} : Before(S, a, b)

(* The assertions at the end that the tests above do not imply. *)
Refuted(f, addr, size) ==
  \/ f.amin > addr
  \/ Hard(f) /\ f.amin < addr
  \/ (f.nohop \/ Code(f)) /\ addr + size > PageEnd(addr)

NoAnswer == [kind |-> "none"]

(* What the loop of find_segment makes of the segment a: it is passed over *)
(* unless the fragment fits or has to go there.                            *)
Answer(S, a, f, size, go) ==
  LET s == S[a]
      addr == Address(s, f, size, go)
  IN  IF ~ Permits(s, f) \/ (Hard(f) /\ ~ (a <= f.amin /\ f.amin < s.end))
      THEN NoAnswer
      ELSE IF Misfit(s, f, size) THEN [kind |-> "stop"]
      ELSE IF ~ Fits(s, f, addr, size) THEN NoAnswer
      ELSE IF Refuted(f, addr, size) THEN [kind |-> "assert"]
      ELSE [kind |-> "found", seg |-> a, addr |-> addr]

(* The answer of the first segment that has one. *)
Find(S, f, size, go) ==
  LET answers == [a \in DOMAIN S |-> Answer(S, a, f, size, go)]
      hits == {a \in DOMAIN S : answers[a] # NoAnswer}
  IN  IF hits = {} THEN NoAnswer ELSE answers[FirstOf(S, hits)]

FirstAnswer(answers) ==
  LET answered == {i \in DOMAIN answers : answers[i] # NoAnswer}
  IN  IF answered = {} THEN NoAnswer
      ELSE answers[CHOOSE i \in answered : \A j \in answered : i <= j]

(* The answer to the first query [size, go] of Q that is answered. *)
FindFirst(S, f, Q) ==
  FirstAnswer([i \in DOMAIN Q |-> Find(S, f, Q[i].size, Q[i].go)])

Fresh(s, at) == [s EXCEPT !.pc = at, !.nbss = 0, !.buf = NoBuffer]
Put(S, a, s) == [b \in DOMAIN S \cup {a} |-> IF b = a THEN s ELSE S[b]]

(* The zeroes before addr are only added to a buffer that exists. *)
Padded(S, a, addr, f) ==
  IF S[a].pc < addr /\ addr < S[a].pc + 4 /\ ~ Conflict(S[a], f)
  THEN [S EXCEPT ![a].pc = addr,
                 ![a].buf = IF @ = NoBuffer THEN @ ELSE @ + addr - S[a].pc]
  ELSE S

(* A new segment starts at addr when some bytes are skipped, or not to mix *)
(* bss and not bss.                                                        *)
Cut(S, a, addr, f) == addr > S[a].pc \/ Conflict(S[a], f)

(* Lets the old segment overlap the new one. *)
BadCarved(S, a, addr, f) ==
  IF Cut(S, a, addr, f) THEN Put(S, addr, Fresh(S[a], addr)) ELSE S

Carved(S, a, addr, f) ==
  IF Cut(S, a, addr, f)
  THEN Put([S EXCEPT ![a].end = addr], addr, Fresh(S[a], addr))
  ELSE S

(* The segment of a at addr, cut at the end of the page for code. *)
BadPaged(S, a, addr, f) == S

Paged(S, a, addr, f) ==
  IF Code(f) /\ S[a].end > PageEnd(addr)
  THEN Put([S EXCEPT ![a].end = PageEnd(addr)], PageEnd(addr),
           Fresh(S[a], PageEnd(addr)))
  ELSE S

Marked(S, a, f) ==
  IF S[a].nbss = 0 THEN [S EXCEPT ![a].nbss = Sign(f)] ELSE S

(* What find_segment makes of the segment a it chose, and the segment that *)
(* it returns, whose pc is addr.                                           *)
Opened(S, a, addr, f) ==
  LET S1 == Padded(S, a, addr, f)
      b == IF Cut(S1, a, addr, f) THEN addr ELSE a
  IN  [segs |-> Marked(Paged(Carved(S1, a, addr, f), b, addr, f), b, f),
       seg |-> b]

(* emit n bytes in segment a, and move its pc. *)
Filled(S, a, n) ==
  [S EXCEPT ![a].pc = @ + n,
            ![a].buf = IF n = 0 THEN @ ELSE IF @ = NoBuffer THEN n ELSE @ + n]

(* The bytes that the image has of a segment. *)
InBuffer(s) == IF s.buf = NoBuffer THEN 0 ELSE s.buf

(* The n bytes that i emits in segment a after skipping skip bytes: the    *)
(* bytes from .. upto - 1 of the fragment, and the jump that leaves the    *)
(* segment if there is one; img is the address where the image file loads  *)
(* the first of them.                                                      *)
Piece(S, i, from, upto, a, skip, n) ==
  [frag |-> i, from |-> from, upto |-> upto, at |-> S[a].pc + skip, size |-> n,
   img |-> a + skip + InBuffer(S[a])]

-----------------------------------------------------------------------------
(* run_pass.                                                               *)

Truthy(x) == x # None /\ x # 0
Placed(f) == Truthy(f.amin)

(* The predicate of each call to assemble_fragments. *)
Selects(n, f) ==
  CASE n = 1 -> Truthy(f.amin) /\ ~ Truthy(f.amax)
    [] n = 2 -> ~ Code(f) /\ f.size >= Ldff /\ Placed(f)
    [] n = 3 -> ~ Code(f) /\ f.size >= Ldff
    [] n = 4 -> Code(f) /\ Truthy(f.aoff)
    [] n = 5 -> ~ Code(f) /\ Truthy(f.aoff)
    [] n \in {6, 8} -> Code(f) /\ Placed(f)
    [] n \in {7, 9} -> ~ Code(f) /\ Placed(f)
    [] n \in {10, 13} -> Code(f)
    [] n \in {11, 14} -> f.cseg = "DATA"
    [] n \in {12, 15} -> f.cseg = "BSS"
    [] n = 16 -> TRUE

FirstGo == stage \in 4 .. 7 \cup 10 .. 12

(* Skips the first fragment. *)
BadTodo == {i \in cursor + 1 .. Len(prog) : i \notin done /\ Selects(stage, prog[i])}

Todo == {i \in cursor .. Len(prog) : i \notin done /\ Selects(stage, prog[i])}

Init ==
  /\ \E link \in Links :
       /\ prog = link.prog
       /\ segs = MakeSegments(link.map, link.prags)
  /\ stage = 1 /\ cursor = 1
  /\ done = {} /\ cur = Idle /\ pieces = {}
  /\ chains = [bss |-> <<>>, heap |-> <<>>, made |-> {}]
  /\ outcome = "placing"

Placing(i) ==
  /\ outcome = "placing" /\ cur = Idle
  /\ i \in Todo /\ \A j \in Todo : i <= j

(* No segment: try again in a later stage, or give up. *)
Unplaced(i, kind) ==
  /\ kind # "found"
  /\ IF kind = "none" /\ FirstGo
     THEN /\ cursor' = i + 1 /\ UNCHANGED outcome
     ELSE /\ outcome' = (IF kind = "assert" THEN "assert" ELSE "stop")
          /\ UNCHANGED cursor
  /\ UNCHANGED <<prog, segs, stage, done, cur, pieces, chains>>

(* A fragment that goes in one piece.  Compiled data starts with align().  *)
Whole(i, hit) ==
  LET O == Opened(segs, hit.seg, hit.addr, prog[i])
      skip == Aligned(hit.addr, Align(prog[i])) - hit.addr
  IN  /\ segs' = Filled(O.segs, O.seg, skip + prog[i].size)
      /\ pieces' = pieces \cup
                     {Piece(O.segs, i, 0, prog[i].size, O.seg, skip, prog[i].size)}
      /\ done' = done \cup {i}
      /\ cursor' = i + 1
      /\ UNCHANGED <<prog, stage, cur, chains, outcome>>

PlaceData(i) ==
  /\ Placing(i) /\ ~ Code(prog[i])
  /\ LET hit == Find(segs, prog[i], prog[i].size, FirstGo)
     IN  IF hit.kind = "found" THEN Whole(i, hit) ELSE Unplaced(i, hit.kind)

(* find_first_code_segment: the whole function, or the start of it. *)
PlaceCode(i) ==
  LET f == prog[i]
      whole == IF f.nohop \/ f.size <= Sfst THEN Find(segs, f, f.size, FirstGo)
               ELSE [kind |-> "none"]
      start == IF f.nohop /\ ~ FirstGo THEN [kind |-> "none"]
               ELSE Find(segs, f, IF f.size < Lfss THEN f.size ELSE Lfss, FirstGo)
      O == Opened(segs, start.seg, start.addr, f)
  IN  /\ Placing(i) /\ Code(f)
      /\ IF whole.kind = "found" THEN Whole(i, whole)
         ELSE IF whole.kind # "none" THEN Unplaced(i, whole.kind)
         ELSE IF start.kind # "found" THEN Unplaced(i, start.kind)
         ELSE /\ segs' = O.segs
              /\ cur' = [frag |-> i, seg |-> O.seg, sent |-> 0, left |-> f.size]
              /\ UNCHANGED <<prog, stage, cursor, done, pieces, chains, outcome>>

Hopping == outcome = "placing" /\ cur # Idle
BytesLeft == segs[cur.seg].end - segs[cur.seg].pc - cur.sent

(* The piece that ends when `left` bytes of the function are left. *)
Pieces(extra, left) ==
  LET size == prog[cur.frag].size
  IN  IF cur.sent + extra = 0 THEN pieces
      ELSE pieces \cup {Piece(segs, cur.frag, size - cur.left - cur.sent, size - left,
                              cur.seg, 0, cur.sent + extra)}

(* hop(): goes on in another segment, with `extra` bytes more in this one. *)
HopAfter(extra, need, left) ==
  LET small(n) == IF n < Page THEN n ELSE Page
      roomy == IF need < Rest THEN Rest ELSE need
      S == Filled(segs, cur.seg, cur.sent + extra)
      hit == FindFirst(S, prog[cur.frag],
               <<[size |-> small(roomy), go |-> TRUE],
                 [size |-> small(roomy), go |-> FALSE],
                 [size |-> small(need), go |-> TRUE],
                 [size |-> small(need), go |-> FALSE]>>)
      O == Opened(S, hit.seg, hit.addr, prog[cur.frag])
  IN  /\ IF hit.kind = "found"
         THEN /\ segs' = O.segs
              /\ cur' = [cur EXCEPT !.seg = O.seg, !.sent = 0, !.left = left]
              /\ pieces' = Pieces(extra, left)
              /\ UNCHANGED outcome
         ELSE /\ outcome' = (CASE hit.kind = "none" -> "fatal"
                               [] hit.kind = "stop" -> "stop"
                               [] OTHER -> "assert")
              /\ UNCHANGED <<segs, cur, pieces>>
      /\ UNCHANGED <<prog, stage, cursor, done, chains>>

(* The room that tryhop asks for: k bytes, then a long jump. *)
Room(k) == k + Jump
Needs == {Room(k) : k \in Instrs} \cup {Room(3 + Jump)}

Hop(need) ==
  /\ Hopping /\ need \in Needs /\ BytesLeft < need
  /\ HopAfter(Jump, need, cur.left)

(* An instruction, once tryhop found enough room after it. *)
Instruction(k) ==
  /\ Hopping /\ k <= cur.left /\ BytesLeft >= Room(k)
  /\ cur' = [cur EXCEPT !.sent = @ + k, !.left = @ - k]
  /\ UNCHANGED <<prog, segs, stage, cursor, done, pieces, chains, outcome>>

(* emitjump, RET: no tryhop before, and no jump in the tryhop after.       *)
Branch(k) ==
  /\ Hopping /\ k <= cur.left
  /\ IF BytesLeft - k < Room(4)
     THEN HopAfter(k, Room(4), cur.left - k)
     ELSE /\ cur' = [cur EXCEPT !.sent = @ + k, !.left = @ - k]
          /\ UNCHANGED <<prog, segs, stage, cursor, done, pieces, chains, outcome>>

EndCode ==
  /\ Hopping /\ cur.left = 0
  /\ segs' = Filled(segs, cur.seg, cur.sent)
  /\ pieces' = Pieces(0, 0)
  /\ done' = done \cup {cur.frag}
  /\ cursor' = cur.frag + 1
  /\ cur' = Idle
  /\ UNCHANGED <<prog, stage, chains, outcome>>

NextStage ==
  /\ outcome = "placing" /\ cur = Idle /\ Todo = {}
  /\ IF stage < Stages
     THEN stage' = stage + 1 /\ cursor' = 1 /\ UNCHANGED outcome
     ELSE outcome' = "magic" /\ UNCHANGED <<stage, cursor>>
  /\ UNCHANGED <<prog, segs, done, cur, pieces, chains>>

-----------------------------------------------------------------------------
(* process_magic_symbols.                                                  *)

(* The segments of A, the last one first. *)
Backwards(A) ==
  [n \in 1 .. Cardinality(A) |->
     CHOOSE a \in A : Cardinality({b \in A : Before(segs, a, b)}) = n - 1]

Unmade(list) == outcome = "magic" /\ list \notin chains.made

(* The runtime clears the bss segments of more than 4 bytes outside page   *)
(* zero: only their first 4 bytes are in the image.                        *)
MagicBss ==
  LET A == {a \in DOMAIN segs : /\ a >= Page /\ segs[a].nbss < 0
                                /\ segs[a].pc > a + 4}
      order == Backwards(A)
  IN  /\ Unmade("bss")
      /\ segs' = [a \in DOMAIN segs |->
                    IF a \in A THEN [segs[a] EXCEPT !.buf = 4] ELSE segs[a]]
      /\ chains' = [chains EXCEPT
           !.bss = [n \in DOMAIN order |->
                      [at |-> order[n], size |-> segs[order[n]].pc - order[n]]],
           !.made = @ \cup {"bss"}]
      /\ UNCHANGED <<prog, stage, cursor, done, cur, pieces, outcome>>

HeapStart(a) == Aligned(segs[a].pc, 4)

(* Does not round it down. *)
BadHeapEnd(a) == segs[a].end
HeapEnd(a) == segs[a].end - (segs[a].end % 4)

(* What is left of a segment goes to malloc, as a segment of its own. *)
MagicHeap ==
  LET A == {a \in DOMAIN segs : /\ "H" \in segs[a].flags
                                /\ HeapEnd(a) - HeapStart(a) >= MinHeap}
      order == Backwards(A)
      cut == [a \in DOMAIN segs |->
                IF a \in A /\ HeapStart(a) > a
                THEN [segs[a] EXCEPT !.end = HeapStart(a)] ELSE segs[a]]
  IN  /\ Unmade("heap")
      /\ segs' = [b \in DOMAIN segs \cup {HeapStart(a) : a \in A} |->
                    IF \E a \in A : HeapStart(a) = b
                    THEN LET a == CHOOSE x \in A : HeapStart(x) = b
                         IN  [Fresh(segs[a], b) EXCEPT !.pc = b + 4, !.buf = 4]
                    ELSE cut[b]]
      /\ chains' = [chains EXCEPT
           !.heap = [n \in DOMAIN order |->
                       [at |-> HeapStart(order[n]),
                        size |-> HeapEnd(order[n]) - HeapStart(order[n])]],
           !.made = @ \cup {"heap"}]
      /\ UNCHANGED <<prog, stage, cursor, done, cur, pieces, outcome>>

Verify ==
  /\ outcome = "magic" /\ chains.made = {"bss", "heap"}
  /\ outcome' = IF \E a \in DOMAIN segs : segs[a].pc > segs[a].end
                THEN "fatal" ELSE "linked"
  /\ UNCHANGED <<prog, segs, stage, cursor, done, cur, pieces, chains>>

Over == outcome \notin {"placing", "magic"}

Exited == Over /\ UNCHANGED vars

Next ==
  \/ \E i \in DOMAIN prog : PlaceData(i) \/ PlaceCode(i)
  \/ \E need \in Needs : Hop(need)
  \/ \E k \in Instrs : Instruction(k)
  \/ \E k \in {2, Jump} : Branch(k)
  \/ EndCode \/ NextStage
  \/ MagicBss \/ MagicHeap \/ Verify
  \/ Exited

Spec == Init /\ [][Next]_vars

-----------------------------------------------------------------------------

Fragment(p) == prog[p.frag]
Bytes(at, size) == at .. at + size - 1

Programs == {link.prog : link \in Links}

(* Every variable keeps the values it is declared with. *)
TypeOK ==
  /\ prog \in Programs
  /\ \A a \in DOMAIN segs :
       /\ a \in Nat /\ segs[a].end \in Nat /\ segs[a].pc \in Nat
       /\ segs[a].nbss \in {-1, 0, 1}
       /\ segs[a].buf \in Nat \cup {NoBuffer}
       /\ segs[a].flags \subseteq Flags
  /\ stage \in 1 .. Stages /\ cursor \in Nat
  /\ done \subseteq DOMAIN prog
  /\ cur = Idle \/ (cur.frag \in DOMAIN prog \ done /\ cur.seg \in DOMAIN segs)
  /\ \A p \in pieces : p.frag \in DOMAIN prog
  /\ outcome \in {"placing", "magic", "linked", "stop", "fatal", "assert"}

(* Two spans of memory, [at, size] each, have no byte in common. *)
NoCommonByte(p, q) == p.at + p.size <= q.at \/ q.at + q.size <= p.at

SegmentsApart ==
  \A a \in DOMAIN segs :
    /\ a <= segs[a].pc /\ a < segs[a].end
    /\ \A b \in DOMAIN segs : a < b => segs[a].end <= b

(* Every variable keeps its values, and no byte of memory is given to two   *)
(* segments, to two fragments, or to a fragment and to the malloc heap.     *)
BytesOwnedOnce ==
  /\ TypeOK /\ SegmentsApart
  /\ \A p, q \in pieces : p # q => NoCommonByte(p, q)
  /\ \A p \in pieces, n \in DOMAIN chains.heap :
       NoCommonByte(p, chains.heap[n])

(* Code does not cross the end of a page, where vPC would wrap around, and  *)
(* a function that may hop always has room for the long jump that leaves    *)
(* the page: hop never finds "no space for a jump" (glink.py:412).          *)
CodeInPage ==
  /\ Hopping => BytesLeft >= Jump
  /\ \A p \in pieces : Code(Fragment(p)) => (p.at % Page) + p.size <= Page

Has(p, i, b) == p.frag = i /\ p.from <= b /\ b < p.upto

(* A linked program has every byte of every fragment, once.                *)
AllPlaced ==
  /\ \A p \in pieces : p.upto - p.from <= p.size
  /\ outcome = "linked" =>
       \A i \in DOMAIN prog : \A b \in 0 .. prog[i].size - 1 :
         \E p \in pieces : /\ Has(p, i, b)
                           /\ \A q \in pieces \ {p} : ~ Has(q, i, b)

(* A function that may be cut by hops: the others go in one piece, since   *)
(* find_first_code_segment asks for all of it (glink.py:2603, 2613).        *)
MayHop(f) == Code(f) /\ f.size > Lfss

(* Each piece of a fragment is where the attributes of pragma.h:89-100 say: *)
(* org at that very address, nohop in one page, place between its two       *)
(* addresses, offset at it, and aligned, whichever of the tests of          *)
(* find_segment moved the address last. pragma.h:100 and 90 say more than   *)
(* the code has: of a function that may hop, only the room for a jump is    *)
(* kept below AMAX (glink.py:2558), the instructions that follow fill the   *)
(* segment; and when no segment holds a nohop function whole, it is started *)
(* as one that hops (2613), so that nohop holds piece by piece.             *)
HonorsPlacement ==
  \A p \in pieces :
    LET f == Fragment(p)
    IN  /\ Hard(f) => p.at = f.amin
        /\ f.amin # None => f.amin <= p.at
        /\ f.amax # None => p.at + (IF MayHop(f) THEN Jump ELSE p.size) <= f.amax + 1
        /\ f.aoff # None => p.at % Page = f.aoff
        /\ f.nohop => (p.at % Page) + p.size <= Page
        /\ p.at % (IF Align(f) > 1 THEN Align(f) ELSE 1) = 0

(* The bytes of p are in memory when main starts: code and data are loaded *)
(* and not cleared, bss is loaded or cleared.                              *)
Ready(p) ==
  \A x \in Bytes(p.at, p.size) :
    LET cleared == \E n \in DOMAIN chains.bss :
                     x \in Bytes(chains.bss[n].at, chains.bss[n].size)
        loaded == \E a \in DOMAIN segs : x \in Bytes(a, segs[a].buf)
    IN  IF Fragment(p).cseg = "BSS" THEN cleared \/ loaded
        ELSE loaded /\ ~ cleared

(* When main starts, each byte of bss has been loaded or cleared, each     *)
(* other byte has been loaded, at the address it was assembled for (a pad,  *)
(* glink.py:2562, counts in the buffer as it does in the addresses), and not *)
(* cleared.                                                                *)
MemoryReady == outcome = "linked" => \A p \in pieces : p.img = p.at /\ Ready(p)

(* The heap segments are what malloc.c assumes of them: see                *)
(* MallocAssumption in Malloc.                                             *)
HeapUsable ==
  \A i \in DOMAIN chains.heap :
    LET h == chains.heap[i]
    IN  /\ h.at % 4 = 0 /\ h.size % 4 = 0 /\ h.size >= 24
        /\ \E a \in DOMAIN segs :
             "H" \in segs[a].flags /\ a <= h.at /\ h.at + h.size <= segs[a].end
        /\ \A j \in DOMAIN chains.heap : i # j => NoCommonByte(h, chains.heap[j])

-----------------------------------------------------------------------------
(* A hypothesis of MemoryIsReady, on each step of the placement: the pc of  *)
(* a segment that has no buffer only moves by the bytes that a step puts    *)
(* there. Padding (glink.py:2562) is what would skip some.                  *)
NothingSkipped ==
  outcome = "placing" =>
    \A a \in DOMAIN segs :
      segs[a].buf = NoBuffer => segs'[a].pc - segs[a].pc = InBuffer(segs'[a])

(* A hypothesis of the theorems: the addresses and offsets that constrain   *)
(* data are aligned like the data. Otherwise the bytes that align() adds    *)
(* after the segment was chosen (glink.py:2549, 2647) may end after it.     *)
PlacesAligned ==
  \A link \in Links : \A i \in DOMAIN link.prog :
    LET f == link.prog[i]
    IN  ~ Code(f) /\ f.align > 1 =>
          /\ f.align \in {2, 4}
          /\ f.amin # None => f.amin % f.align = 0
          /\ f.aoff # None => f.aoff % f.align = 0

(* A hypothesis of HeapServesMalloc: the spans of the map and of pragmas    *)
(* are of 16-bit addresses, none of them starts at 0 or is longer than an  *)
(* int. It is true of the maps of gigatron/map*.                           *)
SpansOf(map, prags) ==
  {map[i] : i \in DOMAIN map} \cup {prags[j] : j \in DOMAIN prags}

MapsForMalloc ==
  \A link \in Links : \A s \in SpansOf(link.map, link.prags) :
    1 <= s.from /\ s.to <= 65536 /\ s.to - s.from <= 32767

=============================================================================
