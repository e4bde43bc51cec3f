---------------------------- MODULE SegmentsProofs ----------------------------
(***************************************************************************)
(* Theorems about Segments, for any maps, pragmas and programs, any size   *)
(* of pages and instructions and any thresholds: the bytes of memory have  *)
(* one owner, code stays in its page, each byte of each fragment is placed *)
(* once, constraints are honored, what is placed stays on the map, and     *)
(* malloc gets areas it can use.                                           *)
(*                                                                         *)
(* First what find_segment promises of the place it returns, then what the *)
(* cuts do to the segments, then the invariant, action by action, and the  *)
(* theorems; then the cover of the fragments by the pieces, what is loaded *)
(* and cleared, and what lies where on the map.                            *)
(***************************************************************************)
EXTENDS Segments, Rings

(* The quotient and the remainder.                                         *)
LEMMA DivMod ==
  ASSUME NEW a \in Int, NEW n \in Nat, n > 0
  PROVE  /\ a % n \in 0 .. n - 1
         /\ a \div n \in Int
         /\ a = n * (a \div n) + (a % n)
OBVIOUS

(* A product of two naturals is one.                                       *)
LEMMA NatProduct ==
  ASSUME NEW x \in Nat, NEW y \in Nat
  PROVE  x * y \in Nat
OBVIOUS

(* aligned (2513) never goes down.                                         *)
LEMMA AlignedGrows ==
  ASSUME NEW a \in Nat, NEW n \in Nat
  PROVE  Aligned(a, n) \in Nat /\ Aligned(a, n) >= a
<1>1. CASE n > 1
  <2> DEFINE q == (a + n - 1) \div n
             r == (a + n - 1) % n
  <2>1. q \in Int /\ r \in 0 .. n - 1 /\ a + n - 1 = n * q + r
    BY <1>1, DivMod
  <2>2. n * q \in Int
    BY <2>1
  <2>3. n * q >= a
    BY <2>1, <2>2
  <2>4. Aligned(a, n) = n * q
    BY <1>1 DEF Aligned
  <2> QED
    BY <2>2, <2>3, <2>4
<1> QED
  BY <1>1 DEF Aligned

(* An address is before the end of its page.                               *)
LEMMA PageFacts ==
  ASSUME NEW a \in Nat
  PROVE  /\ a % Page \in 0 .. Page - 1
         /\ PageEnd(a) \in Nat /\ a < PageEnd(a) /\ PageEnd(a) = a - (a % Page) + Page
BY SegmentsAssumption, DivMod DEF PageEnd

(* Pages start and end at multiples of 2 and 4.                            *)
LEMMA PageMultiple ==
  ASSUME NEW a \in Nat, NEW n \in {2, 4}
  PROVE  /\ (a - (a % Page)) % n = 0 /\ PageEnd(a) % n = 0
         /\ Page % n = 0
<1> DEFINE k == Page \div 4
           q == a \div Page
<1>1. k \in Int /\ Page = 4 * k
  BY SegmentsAssumption, DivMod
<1>2. q \in Int /\ a = Page * q + (a % Page) /\ a % Page \in Nat
  BY SegmentsAssumption, DivMod
<1>3. k * q \in Int /\ Page * q = 4 * (k * q)
  <2>1. (4 * k) * q = 4 * (k * q)
    BY <1>1, <1>2
  <2> QED
    BY <1>1, <1>2, <2>1
<1>4. a - (a % Page) = 4 * (k * q)
  BY <1>2, <1>3
<1> HIDE DEF k, q
<1>5. (a - (a % Page)) % n = 0
  BY <1>3, <1>4
<1>6. PageEnd(a) = 4 * (k * q) + 4 * k
  BY <1>1, <1>4 DEF PageEnd
<1>7. PageEnd(a) % n = 0
  BY <1>1, <1>3, <1>6
<1> QED
  BY <1>1, <1>5, <1>7

(* aligned gives multiples, and keeps those that are.                      *)
LEMMA AlignedMultiple ==
  ASSUME NEW a \in Nat, NEW n \in {2, 4}
  PROVE  Aligned(a, n) % n = 0 /\ (a % n = 0 => Aligned(a, n) = a)
BY DEF Aligned

-----------------------------------------------------------------------------
(* Finding a segment.                                                      *)

SegRec == [end : Nat, pc : Nat, flags : SUBSET Flags, nbss : {-1, 0, 1},
           buf : Nat \cup {NoBuffer}, rank : Nat]

(* The segments S are apart, and none is empty. *)
SegsOK(S) ==
  /\ DOMAIN S \subseteq Nat /\ IsFiniteSet(DOMAIN S)
  /\ S \in [DOMAIN S -> SegRec]
  /\ \A a \in DOMAIN S :
       /\ a <= S[a].pc /\ a < S[a].end
       /\ \A b \in DOMAIN S : a < b => S[a].end <= b

(* The constraints on the address of f are aligned. *)
AlignedPlace(f) ==
  ~ Code(f) /\ f.align > 1 =>
    /\ f.align \in {2, 4}
    /\ f.amin # None => f.amin % f.align = 0
    /\ f.aoff # None => f.aoff % f.align = 0

(* What find_segment promises of the address it chose in segment a. *)
Suits(S, f, size, a, addr) ==
  /\ a \in DOMAIN S /\ addr \in Nat
  /\ S[a].pc <= addr /\ addr + size <= S[a].end
  /\ Hard(f) => addr = f.amin
  /\ f.amin # None => f.amin <= addr
  /\ f.amax # None => addr + size <= f.amax + 1
  /\ f.aoff # None => addr % Page = f.aoff
  /\ f.nohop \/ Code(f) => addr + size <= PageEnd(addr)
  /\ AlignedPlace(f) => Aligned(addr, Align(f)) = addr

(* The address that find_segment tries is not before the pc of the         *)
(* segment, and is aligned.                                                *)
LEMMA GoalFacts ==
  ASSUME NEW s \in SegRec, NEW f \in Fragments, NEW size \in Nat
  PROVE  /\ Goal(s, f, size) \in Nat /\ s.pc <= Goal(s, f, size)
         /\ AlignedPlace(f) => Aligned(Goal(s, f, size), Align(f)) = Goal(s, f, size)
<1> DEFINE start == Aligned(s.pc, Align(f))
           byOff == IF f.aoff # None /\ f.aoff >= start % Page
                    THEN start - (start % Page) + f.aoff ELSE start
           byMin == IF f.amin > byOff THEN f.amin ELSE byOff
<1>1. s.pc \in Nat /\ Align(f) \in Nat /\ f.amin \in Int /\ f.aoff \in Int
  BY DEF SegRec, Align, Fragments, None
<1>2. start \in Nat /\ s.pc <= start
  BY <1>1, AlignedGrows
<1>3. /\ start % Page \in 0 .. Page - 1 /\ start % Page <= start
      /\ PageEnd(start) \in Nat /\ start < PageEnd(start)
  <2>1. start % Page <= start
    <3> HIDE DEF start, byOff, byMin
    <3>1. (start \div Page) \in Int /\ start = Page * (start \div Page) + (start % Page)
          /\ start % Page \in 0 .. Page - 1
      BY <1>2, SegmentsAssumption, DivMod
    <3>2. start \div Page >= 0
      BY <1>2, SegmentsAssumption
    <3> DEFINE q == start \div Page
               p == Page * q
    <3>3. p \in Nat
      <4>1. q \in Nat /\ Page \in Nat
        BY <3>1, <3>2, SegmentsAssumption
      <4> HIDE DEF q
      <4> QED
        BY <4>1, NatProduct, Zenon
    <3>4. start = p + (start % Page)
      BY <3>1
    <3> HIDE DEF p
    <3> QED
      BY <3>1, <3>3, <3>4, <1>2
  <2> QED
    BY <1>2, <2>1, PageFacts
<1>4. byOff \in Nat /\ start <= byOff
  BY <1>1, <1>2, <1>3
<1>5. byMin \in Nat /\ byOff <= byMin
  BY <1>1, <1>4
<1>6. Goal(s, f, size) = IF (f.nohop \/ Code(f)) /\ byMin + size > PageEnd(start)
                         THEN PageEnd(start) ELSE byMin
  BY DEF Goal
<1>7. Goal(s, f, size) \in Nat /\ s.pc <= Goal(s, f, size)
  <2> HIDE DEF byMin, byOff, start
  <2> QED
    BY <1>1, <1>2, <1>3, <1>4, <1>5, <1>6
<1>8. ASSUME AlignedPlace(f), Align(f) > 1
      PROVE  Goal(s, f, size) % Align(f) = 0
  <2>1. ~ Code(f) /\ Align(f) = f.align /\ f.align \in {2, 4}
    BY <1>8 DEF AlignedPlace, Align
  <2> DEFINE n == f.align
  <2>2. start % n = 0 /\ PageEnd(start) % n = 0 /\ (start - (start % Page)) % n = 0
    BY <1>1, <1>2, <2>1, AlignedMultiple, PageMultiple
  <2>3. byOff % n = 0
    <3>1. f.aoff # None => f.aoff % n = 0
      BY <1>8, <2>1 DEF AlignedPlace
    <3>2. start - (start % Page) \in Int
      BY <1>2, <1>3
    <3> HIDE DEF start
    <3>3. CASE f.aoff # None /\ f.aoff >= start % Page
      <4>1. byOff = (start - (start % Page)) + f.aoff
        BY <3>3
      <4> QED
        BY <1>1, <2>1, <2>2, <3>1, <3>2, <3>3, <4>1
    <3>4. CASE ~ (f.aoff # None /\ f.aoff >= start % Page)
      BY <2>2, <3>4
    <3> QED
      BY <3>3, <3>4
  <2>4. byMin % n = 0
    <3>1. f.amin # None => f.amin % n = 0
      BY <1>8, <2>1 DEF AlignedPlace
    <3> HIDE DEF byOff
    <3> QED
      BY <3>1, <2>3, <1>1, <1>4 DEF None
  <2> HIDE DEF byMin, start
  <2> QED
    BY <1>6, <2>1, <2>2, <2>4
<1>9. AlignedPlace(f) => Aligned(Goal(s, f, size), Align(f)) = Goal(s, f, size)
  <2>1. CASE Align(f) > 1 /\ AlignedPlace(f)
    <3>1. Align(f) \in {2, 4}
      BY <2>1 DEF AlignedPlace, Align
    <3> QED
      BY <1>7, <1>8, <2>1, <3>1, AlignedMultiple
  <2> QED
    BY <2>1, <1>1 DEF Aligned
<1> QED
  BY <1>7, <1>9

(* So is the one of the first go, which may be in the next page.           *)
LEMMA AddressFacts ==
  ASSUME NEW s \in SegRec, NEW f \in Fragments, NEW size \in Nat, NEW go \in BOOLEAN
  PROVE  LET addr == Address(s, f, size, go)
         IN  /\ addr \in Nat /\ s.pc <= addr
             /\ AlignedPlace(f) => Aligned(addr, Align(f)) = addr
<1>1. CASE go /\ Conflict(s, f)
  <2> DEFINE start == Aligned(s.pc, Align(f))
             addr == PageEnd(start)
  <2>1. s.pc \in Nat /\ Align(f) \in Nat
    BY DEF SegRec, Align, Fragments
  <2>2. start \in Nat /\ s.pc <= start
    BY <2>1, AlignedGrows
  <2>3. addr \in Nat /\ s.pc <= addr
    BY <2>1, <2>2, PageFacts
  <2>4. ASSUME AlignedPlace(f)
        PROVE  Aligned(addr, Align(f)) = addr
    <3>1. CASE Align(f) > 1
      <4>1. Align(f) \in {2, 4}
        BY <2>4, <3>1 DEF AlignedPlace, Align
      <4>2. addr % Align(f) = 0
        BY <2>2, <4>1, PageMultiple
      <4> QED
        BY <2>3, <4>1, <4>2, AlignedMultiple
    <3> QED
      BY <3>1, <2>1 DEF Aligned
  <2> QED
    BY <1>1, <2>3, <2>4 DEF Address
<1>2. CASE ~ (go /\ Conflict(s, f))
  BY <1>2, GoalFacts DEF Address
<1> QED
  BY <1>1, <1>2

(* When a segment is chosen, the address has all that the rest relies on.  *)
LEMMA AnswerSuits ==
  ASSUME NEW S, SegsOK(S), NEW f \in Fragments, NEW size \in Nat, NEW go \in BOOLEAN,
         NEW a \in DOMAIN S, NEW r, r = Answer(S, a, f, size, go)
  PROVE  /\ r.kind \in {"none", "stop", "assert", "found"}
         /\ r.kind = "none" <=> r = NoAnswer
         /\ r.kind = "found" => r.seg = a /\ Suits(S, f, size, a, r.addr)
<1> DEFINE s == S[a]
           addr == Address(s, f, size, go)
<1>1. s \in SegRec
  BY DEF SegsOK
<1>2. /\ addr \in Nat /\ s.pc <= addr
      /\ AlignedPlace(f) => Aligned(addr, Align(f)) = addr
  BY <1>1, AddressFacts
<1> HIDE DEF addr
<1>3. r = IF ~ Permits(s, f) \/ (Hard(f) /\ ~ (a <= f.amin /\ f.amin < s.end))
          THEN NoAnswer
          ELSE IF Misfit(s, f, size) THEN [kind |-> "stop"]
          ELSE IF ~ Fits(s, f, addr, size) THEN NoAnswer
          ELSE IF Refuted(f, addr, size) THEN [kind |-> "assert"]
          ELSE [kind |-> "found", seg |-> a, addr |-> addr]
  BY DEF Answer, addr
<1>4. r \in {NoAnswer, [kind |-> "stop"], [kind |-> "assert"]}
      \/ /\ r = [kind |-> "found", seg |-> a, addr |-> addr]
         /\ Fits(s, f, addr, size) /\ ~ Refuted(f, addr, size)
  BY <1>3
<1>5. Fits(s, f, addr, size) /\ ~ Refuted(f, addr, size) => Suits(S, f, size, a, addr)
  <2>1. f.amin \in Int /\ PageEnd(addr) \in Nat
    BY <1>2, PageFacts DEF Fragments, None
  <2> QED
    BY <1>2, <2>1 DEF Suits, Fits, Refuted
<1> QED
  BY <1>4, <1>5 DEF NoAnswer

(* One segment comes first in the list. *)
LEMMA FirstExists ==
  ASSUME NEW S, SegsOK(S), NEW A, A \subseteq DOMAIN S, A # {}
  PROVE  FirstOf(S, A) \in A
<1>1. \A a \in A : a \in Nat /\ S[a].rank \in Nat
  BY DEF SegsOK, SegRec
<1> DEFINE R == {S[a].rank : a \in A}
<1>2. R \subseteq Nat /\ R # {}
  BY <1>1
<1>3. PICK r \in R : \A y \in R : r <= y
  BY <1>2, LeastNat
<1> DEFINE B == {a \in A : S[a].rank = r}
<1>4. B \subseteq Nat /\ B # {}
  BY <1>1, <1>3
<1>5. PICK x \in B : \A y \in B : x <= y
  BY <1>4, LeastNat
<1>6. \A b \in A \ {x} : Before(S, x, b)
  <2> SUFFICES ASSUME NEW b \in A \ {x}
               PROVE  Before(S, x, b)
    OBVIOUS
  <2>1. S[x].rank = r /\ r <= S[b].rank /\ S[b].rank \in Nat /\ r \in Nat
    BY <1>1, <1>2, <1>3, <1>5
  <2>2. S[b].rank = r => x <= b
    BY <1>5
  <2>3. x \in Nat /\ b \in Nat /\ x # b
    BY <1>1, <1>5
  <2> QED
    BY <2>1, <2>2, <2>3 DEF Before
<1> QED
  BY <1>5, <1>6 DEF FirstOf

(* So has the answer of the whole search.                                  *)
LEMMA FindSuits ==
  ASSUME NEW S, SegsOK(S), NEW f \in Fragments, NEW size \in Nat, NEW go \in BOOLEAN,
         NEW r, r = Find(S, f, size, go)
  PROVE  /\ r.kind \in {"none", "stop", "assert", "found"}
         /\ r.kind = "none" <=> r = NoAnswer
         /\ r.kind = "found" => Suits(S, f, size, r.seg, r.addr)
<1> DEFINE answers == [a \in DOMAIN S |-> Answer(S, a, f, size, go)]
           hits == {a \in DOMAIN S : answers[a] # NoAnswer}
<1>1. r = IF hits = {} THEN NoAnswer ELSE answers[FirstOf(S, hits)]
  BY DEF Find
<1>2. CASE hits = {}
  BY <1>1, <1>2 DEF NoAnswer
<1>3. CASE hits # {}
  <2>1. FirstOf(S, hits) \in hits
    BY <1>3, FirstExists
  <2>2. r = Answer(S, FirstOf(S, hits), f, size, go)
    BY <1>1, <1>3, <2>1
  <2> QED
    BY <2>1, <2>2, AnswerSuits
<1> QED
  BY <1>2, <1>3

(* The same of the four queries of hop. *)
LEMMA FindFirstSuits ==
  ASSUME NEW S, SegsOK(S), NEW f \in Fragments,
         NEW I \in SUBSET Nat, NEW Q \in [I -> [size : Nat, go : BOOLEAN]],
         NEW r, r = FindFirst(S, f, Q)
  PROVE  /\ r.kind \in {"none", "stop", "assert", "found"}
         /\ r.kind = "found" =>
              \E i \in DOMAIN Q : Suits(S, f, Q[i].size, r.seg, r.addr)
<1> DEFINE answers == [i \in DOMAIN Q |-> Find(S, f, Q[i].size, Q[i].go)]
           answered == {i \in DOMAIN Q : answers[i] # NoAnswer}
<1>1. r = IF answered = {} THEN NoAnswer
          ELSE answers[CHOOSE i \in answered : \A j \in answered : i <= j]
  BY DEF FindFirst, FirstAnswer
<1>2. CASE answered = {}
  BY <1>1, <1>2 DEF NoAnswer
<1>3. CASE answered # {}
  <2>1. answered \subseteq Nat
    OBVIOUS
  <2>2. \E i \in answered : \A j \in answered : i <= j
    BY <1>3, <2>1, LeastNat
  <2>3. PICK i \in answered : r = answers[i]
    BY <1>1, <1>3, <2>2
  <2>4. r = Find(S, f, Q[i].size, Q[i].go) /\ Q[i].size \in Nat /\ Q[i].go \in BOOLEAN
    BY <2>3
  <2>5. /\ r.kind \in {"none", "stop", "assert", "found"}
        /\ r.kind = "found" => Suits(S, f, Q[i].size, r.seg, r.addr)
    BY <2>4, FindSuits
  <2> QED
    BY <2>3, <2>5
<1> QED
  BY <1>2, <1>3

-----------------------------------------------------------------------------
(* The segments that the map and the pragmas make.                         *)

(* What a sequence gives is finite in number.                              *)
LEMMA FiniteImage ==
  ASSUME NEW A, IsFiniteSet(A), NEW f
  PROVE  IsFiniteSet({f[x] : x \in A})
<1> DEFINE B == {f[x] : x \in A}
           g == [x \in A |-> f[x]]
<1>1. g \in Surjection(A, B)
  BY DEF Surjection
<1> QED
  BY <1>1, FS_Surjection

(* So are its indices.                                                     *)
LEMMA FiniteDomain ==
  ASSUME NEW T, NEW L \in Seq(T)
  PROVE  IsFiniteSet(DOMAIN L) /\ DOMAIN L = 1 .. Len(L) /\ Len(L) \in Nat
BY FS_Interval

(* Each segment of S is inside of a span of M. *)
Mapped(M, S) ==
  \A a \in DOMAIN S : \E s \in M : s.from <= a /\ S[a].end <= s.to

(* make_segments: the map without the pragma segments, and these, are      *)
(* apart.                                                                  *)
LEMMA MadeOK ==
  ASSUME NEW map \in Seq(Spans), Apart(map), NEW prags \in Seq(Spans), Apart(prags)
  PROVE  /\ SegsOK(MakeSegments(map, prags))
         /\ \A a \in DOMAIN MakeSegments(map, prags) : MakeSegments(map, prags)[a].pc = a
         /\ Mapped(SpansOf(map, prags), MakeSegments(map, prags))
<1> DEFINE S == MakeSegments(map, prags)
           I == DOMAIN map
           J == DOMAIN prags
           Out(i) == Outside(map[i], prags)
           P == {prags[j].from : j \in J}
           D == (UNION {Out(i) : i \in I}) \cup P
<1>1. /\ \A i \in I : map[i] \in Spans
      /\ \A j \in J : prags[j] \in Spans
      /\ I \subseteq Nat /\ J \subseteq Nat /\ Len(map) \in Nat
  OBVIOUS
<1>2. DOMAIN S = D
  BY DEF MakeSegments
<1>3. IsFiniteSet(D)
  <2>1. IsFiniteSet(I) /\ IsFiniteSet(J)
    BY FiniteDomain
  <2>2. IsFiniteSet(P)
    <3> DEFINE f == [j \in J |-> prags[j].from]
    <3>1. IsFiniteSet({f[j] : j \in J})
      BY <2>1, FiniteImage
    <3>2. {f[j] : j \in J} = P
      OBVIOUS
    <3> QED
      BY <3>1, <3>2
  <2>3. \A i \in I : IsFiniteSet(Out(i))
    <3> SUFFICES ASSUME NEW i \in I
                 PROVE  IsFiniteSet(Out(i))
      OBVIOUS
    <3> DEFINE f == [j \in J |-> prags[j].to]
               T == {prags[j].to : j \in J}
    <3>1. IsFiniteSet({f[j] : j \in J})
      BY <2>1, FiniteImage
    <3>2. {f[j] : j \in J} = T
      OBVIOUS
    <3>3. IsFiniteSet({map[i].from} \cup T)
      BY <3>1, <3>2, FS_Singleton, FS_Union
    <3>4. Out(i) \in SUBSET ({map[i].from} \cup T)
      BY DEF Outside
    <3> QED
      BY <3>3, <3>4, FS_Subset
  <2>4. IsFiniteSet(UNION {Out(i) : i \in I})
    <3> DEFINE f == [i \in I |-> Out(i)]
    <3>1. IsFiniteSet({f[i] : i \in I})
      BY <2>1, FiniteImage
    <3>2. {f[i] : i \in I} = {Out(i) : i \in I}
      OBVIOUS
    <3> HIDE DEF Out
    <3>3. \A T \in {Out(i) : i \in I} : IsFiniteSet(T)
      BY <2>3
    <3>4. IsFiniteSet({Out(i) : i \in I})
      BY <3>1, <3>2
    <3> QED
      BY <3>3, <3>4, FS_UNION
  <2> QED
    BY <2>2, <2>4, FS_Union
<1> DEFINE Ours(j, a) == /\ j \in J /\ prags[j].from = a
                         /\ S[a] = Segment(a, prags[j].to, prags[j].flags, Len(map) + j)
           Theirs(i, a) == /\ i \in I /\ a \in Out(i)
                           /\ S[a].end \in Ends(map[i], prags) /\ a < S[a].end
                           /\ \A e \in Ends(map[i], prags) : a < e => S[a].end <= e
                           /\ S[a] = Segment(a, S[a].end, map[i].flags, i)
<1>4. \A i \in I : Ends(map[i], prags) \subseteq Nat /\ Out(i) \subseteq Nat
  BY <1>1 DEF Ends, Outside, Spans
<1>5. ASSUME NEW a \in D
      PROVE  \/ \E j \in J : Ours(j, a)
             \/ a \notin P /\ \E i \in I : Theirs(i, a)
  <2>1. CASE a \in P
    <3>1. PICK j \in J : j = (CHOOSE k \in J : prags[k].from = a) /\ prags[j].from = a
      BY <2>1
    <3>2. S[a] = Segment(a, prags[j].to, prags[j].flags, Len(map) + j)
      BY <2>1, <3>1 DEF MakeSegments
    <3> QED
      BY <3>1, <3>2
  <2>2. CASE a \notin P
    <3>1. PICK i \in I : i = (CHOOSE k \in I : a \in Out(k)) /\ a \in Out(i)
      BY <2>2
    <3> DEFINE after == {e \in Ends(map[i], prags) : a < e}
               least == CHOOSE e \in after : \A x \in after : e <= x
    <3>2. after \subseteq Nat /\ after # {}
      <4>1. map[i].to \in after
        BY <3>1 DEF Outside, Within, Ends
      <4> QED
        BY <1>4, <4>1
    <3>3. least \in after /\ \A x \in after : least <= x
      BY <3>2, LeastNat
    <3>4. S[a] = Segment(a, least, map[i].flags, i)
      BY <2>2, <3>1 DEF MakeSegments
    <3> HIDE DEF least
    <3>5. S[a].end = least
      BY <3>4 DEF Segment
    <3> QED
      BY <2>2, <3>1, <3>3, <3>4, <3>5
  <2> QED
    BY <2>1, <2>2
<1> HIDE DEF S, Out, P, D
<1>6. ASSUME NEW a \in D, NEW j \in J, Ours(j, a)
      PROVE  S[a] \in SegRec /\ a \in Nat /\ S[a].pc = a /\ a < S[a].end
             /\ S[a].end = prags[j].to
  <2>1. prags[j] \in Spans /\ j \in Nat /\ prags[j].from < prags[j].to
    BY <1>1 DEF Apart
  <2> QED
    BY <1>1, <1>6, <2>1 DEF Segment, SegRec, Spans
<1>7. ASSUME NEW a \in D, NEW i \in I, Theirs(i, a)
      PROVE  S[a] \in SegRec /\ a \in Nat /\ S[a].pc = a /\ a < S[a].end
             /\ S[a].end <= map[i].to /\ map[i].from <= a
             /\ \A j \in J : ~ Within(prags[j], a) /\ (a < prags[j].from => S[a].end <= prags[j].from)
  <2>1. map[i] \in Spans /\ i \in Nat /\ a \in Nat /\ S[a].end \in Nat
    BY <1>1, <1>4, <1>7
  <2>2. Within(map[i], a) /\ \A j \in J : ~ Within(prags[j], a)
    BY <1>7 DEF Out, Outside
  <2>3. map[i].to \in Ends(map[i], prags)
        /\ \A j \in J : prags[j].from \in Ends(map[i], prags)
    BY DEF Ends
  <2>4. S[a] \in SegRec /\ S[a].pc = a
    BY <1>7, <2>1 DEF Segment, SegRec, Spans
  <2> QED
    BY <1>7, <2>1, <2>2, <2>3, <2>4 DEF Within
<1>8. ASSUME NEW a \in D, NEW b \in D, a < b
      PROVE  S[a].end <= b
  <2>1. CASE \E j \in J : Ours(j, a)
    <3>1. PICK j \in J : Ours(j, a)
      BY <2>1
    <3>2. S[a].end = prags[j].to /\ prags[j].from = a /\ a \in Nat /\ prags[j] \in Spans
      BY <1>1, <1>6, <3>1
    <3>3. CASE \E k \in J : Ours(k, b)
      <4>1. PICK k \in J : Ours(k, b)
        BY <3>3
      <4>2. k # j /\ prags[k].from = b /\ prags[k] \in Spans /\ prags[k].from < prags[k].to
        BY <1>1, <1>8, <3>2, <4>1 DEF Apart, Spans
      <4>3. prags[j].to <= prags[k].from \/ prags[k].to <= prags[j].from
        BY <4>2 DEF Apart
      <4> QED
        BY <1>8, <3>2, <4>2, <4>3 DEF Spans
    <3>4. CASE \E i \in I : Theirs(i, b)
      <4>1. PICK i \in I : Theirs(i, b)
        BY <3>4
      <4>2. b \in Nat /\ ~ Within(prags[j], b)
        BY <1>7, <4>1
      <4> QED
        BY <1>8, <3>2, <4>2 DEF Within, Spans
    <3> QED
      BY <1>5, <3>3, <3>4
  <2>2. CASE \E i \in I : Theirs(i, a)
    <3>1. PICK i \in I : Theirs(i, a)
      BY <2>2
    <3>2. /\ a \in Nat /\ S[a].end \in Nat /\ S[a].end <= map[i].to /\ map[i].from <= a
          /\ \A j \in J : a < prags[j].from => S[a].end <= prags[j].from
          /\ map[i] \in Spans
      BY <1>1, <1>7, <3>1 DEF SegRec
    <3>3. CASE \E k \in J : Ours(k, b)
      BY <1>8, <3>2, <3>3
    <3>4. CASE b \notin P /\ \E k \in I : Theirs(k, b)
      <4>1. PICK k \in I : Theirs(k, b)
        BY <3>4
      <4>2. b \in Nat /\ map[k].from <= b /\ map[k] \in Spans /\ b < S[b].end
            /\ S[b].end <= map[k].to /\ S[b].end \in Nat
        BY <1>1, <1>7, <4>1 DEF SegRec
      <4>3. CASE k # i
        <5>1. map[i].to <= map[k].from \/ map[k].to <= map[i].from
          BY <4>3 DEF Apart
        <5>2. /\ map[i].from \in Nat /\ map[i].to \in Nat
              /\ map[k].from \in Nat /\ map[k].to \in Nat
          BY <3>2, <4>2 DEF Spans
        <5>3. /\ a < b /\ a \in Nat /\ S[a].end \in Nat
              /\ S[a].end <= map[i].to /\ map[i].from <= a
          BY <1>8, <3>2
        <5>4. /\ b \in Nat /\ S[b].end \in Nat /\ b < S[b].end
              /\ map[k].from <= b /\ S[b].end <= map[k].to
          BY <4>2
        <5>5. CASE map[i].to <= map[k].from
          BY <5>2, <5>3, <5>4, <5>5
        <5>6. CASE map[k].to <= map[i].from
          BY <5>2, <5>3, <5>4, <5>6
        <5> QED
          BY <5>1, <5>5, <5>6
      <4>4. CASE k = i
        <5>1. b = map[i].from \/ \E j \in J : b = prags[j].to
          BY <4>1, <4>4 DEF Out, Outside
        <5>2. b # map[i].from
          <6>1. map[i].from <= a /\ a < b /\ a \in Nat /\ b \in Nat
            BY <1>8, <3>2, <4>2
          <6> QED
            BY <6>1
        <5>3. ASSUME NEW j \in J, b = prags[j].to
              PROVE  S[a].end <= b
          <6>1. ~ Within(prags[j], a) /\ prags[j] \in Spans /\ prags[j].from < prags[j].to
            BY <1>1, <1>7, <3>1 DEF Apart
          <6>2. a < prags[j].from
            <7>1. /\ prags[j].from \in Nat /\ a < prags[j].to /\ a \in Nat
                  /\ ~ (prags[j].from <= a /\ a < prags[j].to)
              BY <1>8, <3>2, <5>3, <6>1 DEF Within, Spans
            <7> QED
              BY <7>1
          <6>3. S[a].end <= prags[j].from
            BY <3>2, <6>2
          <6>4. prags[j].from \in Nat /\ prags[j].to \in Nat
            BY <6>1 DEF Spans
          <6> QED
            BY <3>2, <5>3, <6>1, <6>3, <6>4
        <5> QED
          BY <5>1, <5>2, <5>3
      <4> QED
        BY <4>3, <4>4
    <3> QED
      BY <1>5, <3>3, <3>4
  <2> QED
    BY <1>5, <2>1, <2>2
<1>9. \A a \in D : S[a] \in SegRec /\ a \in Nat /\ S[a].pc = a /\ a < S[a].end
  BY <1>5, <1>6, <1>7
<1>10. S = [a \in DOMAIN S |-> S[a]]
  BY DEF S, MakeSegments
<1> HIDE DEF Ours, Theirs
<1>11. S \in [DOMAIN S -> SegRec]
  BY <1>2, <1>9, <1>10
<1>12. Mapped(SpansOf(map, prags), S)
  <2> SUFFICES ASSUME NEW a \in D
               PROVE  \E s \in SpansOf(map, prags) : s.from <= a /\ S[a].end <= s.to
    BY <1>2 DEF Mapped
  <2>1. CASE \E j \in J : Ours(j, a)
    <3>1. PICK j \in J : Ours(j, a)
      BY <2>1
    <3>2. prags[j].from = a /\ S[a].end = prags[j].to /\ prags[j] \in Spans
      BY <1>1, <1>6, <3>1 DEF Ours
    <3>3. prags[j].from <= a /\ S[a].end <= prags[j].to
      BY <3>2 DEF Spans
    <3> QED
      BY <3>3 DEF SpansOf
  <2>2. CASE \E i \in I : Theirs(i, a)
    <3>1. PICK i \in I : Theirs(i, a)
      BY <2>2
    <3>2. map[i].from <= a /\ S[a].end <= map[i].to
      BY <1>7, <3>1
    <3> QED
      BY <3>2 DEF SpansOf
  <2> QED
    BY <1>5, <2>1, <2>2
<1> QED
  BY <1>2, <1>3, <1>8, <1>9, <1>11, <1>12 DEF SegsOK, S

-----------------------------------------------------------------------------
(* Opening a segment at an address: the four steps of find_segment.        *)

(* What an assignment to the fields of one segment changes.                *)
LEMMA SegFields ==
  ASSUME NEW s \in SegRec
  PROVE  /\ s.end \in Nat /\ s.pc \in Nat /\ s.flags \in SUBSET Flags
         /\ s.nbss \in {-1, 0, 1} /\ s.buf \in Nat \cup {NoBuffer} /\ s.rank \in Nat
         /\ \A n \in Nat :
              /\ [s EXCEPT !.end = n] \in SegRec
              /\ [s EXCEPT !.end = n].end = n
              /\ [s EXCEPT !.end = n].pc = s.pc
              /\ [s EXCEPT !.end = n].flags = s.flags
              /\ Fresh(s, n) \in SegRec
              /\ Fresh(s, n).pc = n /\ Fresh(s, n).end = s.end
              /\ Fresh(s, n).flags = s.flags
BY DEF SegRec, Fresh

(* One segment of S gets a later pc or another kind, and keeps its end.    *)
LEMMA MovedOK ==
  ASSUME NEW S, SegsOK(S), NEW a \in DOMAIN S, NEW s \in SegRec,
         s.end = S[a].end, S[a].pc <= s.pc,
         NEW T, DOMAIN T = DOMAIN S, T = [b \in DOMAIN S |-> IF b = a THEN s ELSE S[b]]
  PROVE  SegsOK(T)
<1>1. T[a] = s /\ \A b \in DOMAIN S : b # a => T[b] = S[b]
  OBVIOUS
<1>2. T \in [DOMAIN T -> SegRec]
  BY DEF SegsOK
<1>3. \A b \in DOMAIN T : T[b].end = S[b].end /\ S[b].pc <= T[b].pc /\ S[b].pc \in Nat /\ T[b].pc \in Nat
  BY <1>1 DEF SegsOK, SegRec
<1>4. DOMAIN S \subseteq Nat
  BY DEF SegsOK
<1>5. ASSUME NEW b \in DOMAIN T
      PROVE  b <= T[b].pc
  <2>1. b <= S[b].pc /\ S[b].pc <= T[b].pc /\ b \in Nat /\ S[b].pc \in Nat /\ T[b].pc \in Nat
    BY <1>3, <1>4 DEF SegsOK
  <2> QED
    BY <2>1
<1> QED
  BY <1>2, <1>3, <1>4, <1>5 DEF SegsOK

(* Segment a is cut at the address n, where a new one starts.              *)
CutAt(S, a, n) == Put([S EXCEPT ![a].end = n], n, Fresh(S[a], n))

(* A segment that is cut in two leaves two that are apart from each other  *)
(* and from the rest.                                                      *)
LEMMA CutOK ==
  ASSUME NEW S, SegsOK(S), NEW a \in DOMAIN S, NEW n \in Nat,
         S[a].pc <= n, n < S[a].end,
         NEW T, T = CutAt(S, a, n)
  PROVE  /\ SegsOK(T) /\ DOMAIN T = DOMAIN S \cup {n}
         /\ T[n] = Fresh(S[a], n)
         /\ a # n => n \notin DOMAIN S /\ T[a] = [S[a] EXCEPT !.end = n]
         /\ \A b \in DOMAIN S : b # a => T[b] = S[b] /\ b # n
<1>1. S[a] \in SegRec /\ a \in Nat /\ a <= S[a].pc /\ a < S[a].end
      /\ S[a].end \in Nat /\ S[a].pc \in Nat
  BY SegFields DEF SegsOK
<1>2. a <= n
  BY <1>1
<1>3. n \in DOMAIN S => n = a
  <2>1. SUFFICES ASSUME n \in DOMAIN S, n # a
                 PROVE  FALSE
    OBVIOUS
  <2>2. a < n
    BY <1>1, <1>2, <2>1
  <2>3. S[a].end <= n
    BY <2>1, <2>2 DEF SegsOK
  <2> QED
    BY <1>1, <2>3
<1>4. /\ DOMAIN T = DOMAIN S \cup {n}
      /\ T[n] = Fresh(S[a], n)
      /\ a # n => T[a] = [S[a] EXCEPT !.end = n]
      /\ \A b \in DOMAIN S : b # a => T[b] = S[b] /\ b # n
      /\ T = [b \in DOMAIN T |-> T[b]]
  BY <1>3 DEF Put, CutAt
<1>5. /\ T[n] \in SegRec /\ T[n].pc = n /\ T[n].end = S[a].end
      /\ a # n => T[a] \in SegRec /\ T[a].pc = S[a].pc /\ T[a].end = n
  <2>1. /\ Fresh(S[a], n) \in SegRec /\ Fresh(S[a], n).pc = n
        /\ Fresh(S[a], n).end = S[a].end
    BY <1>1, SegFields
  <2>2. /\ [S[a] EXCEPT !.end = n] \in SegRec
        /\ [S[a] EXCEPT !.end = n].pc = S[a].pc /\ [S[a] EXCEPT !.end = n].end = n
    BY <1>1, SegFields
  <2>3. CASE a # n
    BY <1>4, <2>1, <2>2, <2>3
  <2> QED
    BY <1>4, <2>1, <2>3
<1>6. IsFiniteSet(DOMAIN T) /\ DOMAIN T \subseteq Nat
  BY <1>4, FS_AddElement DEF SegsOK
<1>7. \A b \in DOMAIN T : T[b] \in SegRec
  BY <1>4, <1>5 DEF SegsOK
<1>8. T \in [DOMAIN T -> SegRec]
  BY <1>4, <1>7
<1>9. ASSUME NEW b \in DOMAIN T
      PROVE  b <= T[b].pc /\ b < T[b].end
  <2>1. CASE b = n
    BY <1>5, <2>1
  <2>2. CASE b = a /\ b # n
    BY <1>1, <1>2, <1>5, <2>2
  <2>3. CASE b # a /\ b # n
    BY <1>4, <2>3 DEF SegsOK
  <2> QED
    BY <2>1, <2>2, <2>3
<1>10. ASSUME NEW b \in DOMAIN T, NEW c \in DOMAIN T, b < c
       PROVE  T[b].end <= c
  <2>1. b \in Nat /\ c \in Nat
    BY <1>6
  <2>2. CASE b = n
    <3>1. c \in DOMAIN S /\ a < c
      BY <1>1, <1>2, <1>4, <1>10, <2>1, <2>2
    <3>2. S[a].end <= c
      BY <3>1 DEF SegsOK
    <3> QED
      BY <1>5, <2>2, <3>2
  <2>3. CASE b = a /\ b # n
    <3>1. CASE c = n
      BY <1>5, <2>3, <3>1
    <3>2. CASE c # n
      <4>1. S[a].end <= c
        BY <1>4, <1>10, <2>3, <3>2 DEF SegsOK
      <4> QED
        BY <1>1, <1>5, <2>1, <2>3, <4>1
    <3> QED
      BY <3>1, <3>2
  <2>4. CASE b # a /\ b # n
    <3>1. b \in DOMAIN S /\ T[b] = S[b]
      BY <1>4, <2>4
    <3>2. CASE c # n
      BY <1>4, <1>10, <3>1, <3>2 DEF SegsOK
    <3>3. CASE c = n
      <4>1. a < b => S[a].end <= b
        BY <3>1 DEF SegsOK
      <4>2. b < a
        BY <1>1, <1>10, <2>1, <2>4, <3>3, <4>1
      <4>3. S[b].end <= a /\ S[b].end \in Nat
        BY <3>1, <4>2, SegFields DEF SegsOK
      <4> QED
        BY <1>1, <1>2, <3>1, <3>3, <4>3
    <3> QED
      BY <3>2, <3>3
  <2> QED
    BY <2>2, <2>3, <2>4
<1> QED
  BY <1>3, <1>4, <1>6, <1>8, <1>9, <1>10 DEF SegsOK

(* T is S where segment a was cut in a few segments, which lie where it    *)
(* lay: a itself, whose pc may have moved, and new ones.                   *)
Splits(S, T, a) ==
  /\ SegsOK(T) /\ DOMAIN S \subseteq DOMAIN T
  /\ \A b \in DOMAIN S : b # a => T[b] = S[b]
  /\ S[a].pc <= T[a].pc /\ T[a].pc <= T[a].end /\ T[a].end <= S[a].end
  /\ \A b \in DOMAIN T :
       b \notin DOMAIN S => T[b].pc = b /\ a < b /\ T[b].end <= S[a].end

(* A pad only moves the pc within the segment.                             *)
LEMMA PaddedOK ==
  ASSUME NEW S, SegsOK(S), NEW a \in DOMAIN S, NEW f \in Fragments, NEW addr \in Nat,
         S[a].pc <= addr, NEW T, T = Padded(S, a, addr, f)
  PROVE  /\ SegsOK(T) /\ DOMAIN T = DOMAIN S
         /\ \A b \in DOMAIN S : b # a => T[b] = S[b]
         /\ T[a].end = S[a].end /\ S[a].pc <= T[a].pc /\ T[a].pc <= addr
         /\ T[a].flags = S[a].flags
<1>1. S[a] \in SegRec /\ S[a].pc \in Nat
  BY SegFields DEF SegsOK
<1>2. CASE S[a].pc < addr /\ addr < S[a].pc + 4 /\ ~ Conflict(S[a], f)
  <2> DEFINE s == [S[a] EXCEPT !.pc = addr,
                     !.buf = IF @ = NoBuffer THEN @ ELSE @ + addr - S[a].pc]
  <2>1. s \in SegRec /\ s.end = S[a].end /\ s.pc = addr /\ s.flags = S[a].flags
    <3>1. S[a].buf \in Nat \cup {NoBuffer}
      BY <1>1, SegFields
    <3>2. (IF S[a].buf = NoBuffer THEN S[a].buf ELSE S[a].buf + addr - S[a].pc)
            \in Nat \cup {NoBuffer}
      BY <1>1, <1>2, <3>1
    <3> QED
      BY <1>1, <3>2 DEF SegRec
  <2>2. T = [b \in DOMAIN S |-> IF b = a THEN s ELSE S[b]]
    BY <1>2 DEF Padded
  <2>3. DOMAIN T = DOMAIN S /\ T[a] = s /\ \A b \in DOMAIN S : b # a => T[b] = S[b]
    BY <2>2
  <2> HIDE DEF s
  <2>4. SegsOK(T)
    BY <1>2, <2>1, <2>2, <2>3, MovedOK
  <2> QED
    BY <1>1, <1>2, <2>1, <2>3, <2>4
<1>3. CASE ~ (S[a].pc < addr /\ addr < S[a].pc + 4 /\ ~ Conflict(S[a], f))
  BY <1>1, <1>3 DEF Padded
<1> QED
  BY <1>2, <1>3

(* Neither does the mark of bss move anything.                             *)
LEMMA MarkedOK ==
  ASSUME NEW S, SegsOK(S), NEW a \in DOMAIN S, NEW f \in Fragments,
         NEW T, T = Marked(S, a, f)
  PROVE  /\ SegsOK(T) /\ DOMAIN T = DOMAIN S
         /\ \A b \in DOMAIN S :
              T[b].end = S[b].end /\ T[b].pc = S[b].pc /\ (b # a => T[b] = S[b])
<1>1. S[a] \in SegRec /\ S[a].pc \in Nat
  BY SegFields DEF SegsOK
<1>2. CASE S[a].nbss = 0
  <2> DEFINE s == [S[a] EXCEPT !.nbss = Sign(f)]
  <2>1. s \in SegRec /\ s.end = S[a].end /\ s.pc = S[a].pc
    BY <1>1 DEF SegRec, Sign
  <2>2. T = [b \in DOMAIN S |-> IF b = a THEN s ELSE S[b]]
    BY <1>2 DEF Marked
  <2>3. DOMAIN T = DOMAIN S /\ T[a] = s /\ \A b \in DOMAIN S : b # a => T[b] = S[b]
    BY <2>2
  <2> HIDE DEF s
  <2>4. SegsOK(T)
    BY <1>1, <2>1, <2>2, <2>3, MovedOK
  <2> QED
    BY <2>1, <2>3, <2>4
<1>3. CASE S[a].nbss # 0
  BY <1>3 DEF Marked
<1> QED
  BY <1>2, <1>3

(* What is left of segment a, and the segment where addr is its pc.        *)
Landing(S, a, addr, f) == IF Cut(S, a, addr, f) THEN addr ELSE a

Carves(S, a, addr, T, b) ==
  /\ SegsOK(T) /\ DOMAIN T = DOMAIN S \cup {b}
  /\ b \in Nat /\ a <= b /\ b <= addr
  /\ b = a \/ b \notin DOMAIN S
  /\ \A c \in DOMAIN S : c # a => T[c] = S[c] /\ c # b
  /\ T[b].pc = addr /\ T[b].end = S[a].end /\ T[b].flags = S[a].flags
  /\ b # a => T[a].pc = S[a].pc /\ T[a].end = addr /\ b = addr /\ a < b

(* The cut before the fragment.                                            *)
LEMMA CarvedOK ==
  ASSUME NEW S, SegsOK(S), NEW a \in DOMAIN S, NEW f \in Fragments, NEW addr \in Nat,
         S[a].pc <= addr, addr < S[a].end,
         NEW T, T = Carved(S, a, addr, f),
         NEW b, b = Landing(S, a, addr, f)
  PROVE  Carves(S, a, addr, T, b)
<1>1. S[a] \in SegRec /\ a \in Nat /\ a <= S[a].pc /\ S[a].pc \in Nat /\ S[a].end \in Nat
  BY SegFields DEF SegsOK
<1>2. a <= addr
  BY <1>1
<1>3. CASE Cut(S, a, addr, f)
  <2>1. b = addr
    BY <1>3 DEF Landing
  <2>2. T = CutAt(S, a, addr)
    BY <1>3 DEF Carved, CutAt
  <2>3. /\ SegsOK(T) /\ DOMAIN T = DOMAIN S \cup {addr}
        /\ T[addr] = Fresh(S[a], addr)
        /\ a # addr => addr \notin DOMAIN S /\ T[a] = [S[a] EXCEPT !.end = addr]
        /\ \A c \in DOMAIN S : c # a => T[c] = S[c] /\ c # addr
    BY <2>2, CutOK
  <2>4. /\ Fresh(S[a], addr).pc = addr /\ Fresh(S[a], addr).end = S[a].end
        /\ Fresh(S[a], addr).flags = S[a].flags
        /\ [S[a] EXCEPT !.end = addr].pc = S[a].pc /\ [S[a] EXCEPT !.end = addr].end = addr
    BY <1>1, SegFields
  <2>5. T[addr].pc = addr /\ T[addr].end = S[a].end /\ T[addr].flags = S[a].flags
    BY <2>3, <2>4
  <2>6. ASSUME a # addr
        PROVE  addr \notin DOMAIN S /\ T[a].pc = S[a].pc /\ T[a].end = addr /\ a < addr
    <3>1. a < addr
      BY <1>1, <1>2, <2>6
    <3>2. addr \notin DOMAIN S /\ T[a] = [S[a] EXCEPT !.end = addr]
      BY <2>3, <2>6
    <3>3. T[a].pc = S[a].pc /\ T[a].end = addr
      BY <2>4, <3>2, Zenon
    <3> QED
      BY <3>1, <3>2, <3>3
  <2> QED
    BY <1>2, <2>1, <2>3, <2>5, <2>6 DEF Carves
<1>4. CASE ~ Cut(S, a, addr, f)
  <2>1. b = a /\ T = S /\ S[a].pc = addr
    BY <1>1, <1>4 DEF Carved, Cut, Landing
  <2>2. T[b].pc = addr /\ T[b].end = S[a].end /\ T[b].flags = S[a].flags
    BY <2>1
  <2>3. SegsOK(T) /\ DOMAIN T = DOMAIN S \cup {b}
    BY <2>1
  <2> QED
    BY <1>1, <1>2, <2>1, <2>2, <2>3 DEF Carves
<1> QED
  BY <1>3, <1>4

(* The cut at the end of the page.                                         *)
LEMMA PagedOK ==
  ASSUME NEW S, SegsOK(S), NEW b \in DOMAIN S, NEW f \in Fragments, NEW addr \in Nat,
         S[b].pc = addr, NEW size \in Nat \ {0}, addr + size <= S[b].end,
         Code(f) => addr + size <= PageEnd(addr),
         NEW T, T = Paged(S, b, addr, f)
  PROVE  LET e == PageEnd(addr)
         IN  /\ SegsOK(T) /\ DOMAIN S \subseteq DOMAIN T /\ DOMAIN T \subseteq DOMAIN S \cup {e}
             /\ \A c \in DOMAIN S : c # b => T[c] = S[c]
             /\ T[b].pc = addr /\ addr + size <= T[b].end /\ T[b].end <= S[b].end
             /\ Code(f) => T[b].end <= e
             /\ e \notin DOMAIN S /\ e \in DOMAIN T => T[e].pc = e /\ T[e].end = S[b].end
<1> DEFINE e == PageEnd(addr)
<1>1. S[b] \in SegRec /\ b \in Nat /\ b <= addr /\ S[b].end \in Nat
  BY SegFields DEF SegsOK
<1>2. e \in Nat /\ addr < e
  BY PageFacts
<1>3. CASE Code(f) /\ S[b].end > e
  <2>1. T = CutAt(S, b, e)
    BY <1>3 DEF Paged, CutAt
  <2> HIDE DEF e
  <2>2. S[b].pc <= e /\ e < S[b].end /\ b # e
    BY <1>1, <1>2, <1>3
  <2>3. /\ SegsOK(T) /\ DOMAIN T = DOMAIN S \cup {e}
        /\ T[e] = Fresh(S[b], e)
        /\ b # e => e \notin DOMAIN S /\ T[b] = [S[b] EXCEPT !.end = e]
        /\ \A c \in DOMAIN S : c # b => T[c] = S[c] /\ c # e
    BY <1>2, <2>1, <2>2, CutOK
  <2>4. /\ Fresh(S[b], e).pc = e /\ Fresh(S[b], e).end = S[b].end
        /\ [S[b] EXCEPT !.end = e].pc = S[b].pc /\ [S[b] EXCEPT !.end = e].end = e
    BY <1>1, <1>2, SegFields
  <2>5. T[b].pc = addr /\ T[b].end = e /\ T[e].pc = e /\ T[e].end = S[b].end
    BY <2>2, <2>3, <2>4
  <2>6. addr + size <= e /\ e <= S[b].end
    BY <1>1, <1>2, <1>3, <2>2 DEF e
  <2> QED
    BY <1>2, <2>3, <2>5, <2>6 DEF e
<1>4. CASE ~ (Code(f) /\ S[b].end > e)
  <2>1. T = S
    BY <1>4 DEF Paged
  <2> HIDE DEF e
  <2>2. Code(f) => S[b].end <= e
    BY <1>1, <1>2, <1>4
  <2> QED
    BY <1>1, <2>1, <2>2 DEF e
<1> QED
  BY <1>3, <1>4

(* All of find_segment, on a segment and an address that suit: the         *)
(* segment returned has room and its pc is the address.                    *)
LEMMA OpenedOK ==
  ASSUME NEW S, SegsOK(S), NEW f \in Fragments, NEW size \in Nat \ {0}, NEW a, NEW addr,
         Suits(S, f, size, a, addr),
         NEW O, O = Opened(S, a, addr, f)
  PROVE  /\ Splits(S, O.segs, a)
         /\ O.seg \in DOMAIN O.segs /\ O.seg \in Nat /\ O.seg <= addr /\ a <= O.seg
         /\ O.seg = a \/ O.seg \notin DOMAIN S
         /\ O.segs[O.seg].pc = addr /\ addr + size <= O.segs[O.seg].end
         /\ O.segs[O.seg].end <= S[a].end
         /\ Code(f) => O.segs[O.seg].end <= PageEnd(addr)
<1> DEFINE S1 == Padded(S, a, addr, f)
           b == IF Cut(S1, a, addr, f) THEN addr ELSE a
           S2 == Carved(S1, a, addr, f)
           S3 == Paged(S2, b, addr, f)
           S4 == Marked(S3, b, f)
<1>1. O.segs = S4 /\ O.seg = b
  BY DEF Opened
<1>2. /\ a \in DOMAIN S /\ a \in Nat /\ addr \in Nat /\ S[a].pc <= addr /\ a <= S[a].pc
      /\ addr + size <= S[a].end /\ addr < S[a].end /\ S[a].pc \in Nat /\ S[a].end \in Nat
      /\ Code(f) => addr + size <= PageEnd(addr)
  <2>1. a \in DOMAIN S /\ S[a] \in SegRec
    BY DEF Suits, SegsOK
  <2>2. a \in Nat /\ a <= S[a].pc /\ S[a].pc \in Nat /\ S[a].end \in Nat
    BY <2>1, SegFields DEF SegsOK
  <2> QED
    BY <2>1, <2>2 DEF Suits
<1>3. /\ SegsOK(S1) /\ DOMAIN S1 = DOMAIN S
      /\ \A c \in DOMAIN S : c # a => S1[c] = S[c]
      /\ S1[a].end = S[a].end /\ S[a].pc <= S1[a].pc /\ S1[a].pc <= addr
  BY <1>2, PaddedOK
<1> HIDE DEF S1
<1>4. S1[a].pc \in Nat /\ S1[a].end \in Nat /\ S1[a] \in SegRec
  BY <1>2, <1>3, SegFields DEF SegsOK
<1>5. /\ SegsOK(S2) /\ DOMAIN S2 = DOMAIN S \cup {b} /\ b \in DOMAIN S2
      /\ b \in Nat /\ a <= b /\ b <= addr
      /\ b = a \/ b \notin DOMAIN S
      /\ \A c \in DOMAIN S : c # a => S2[c] = S[c] /\ c # b
      /\ S2[b].pc = addr /\ S2[b].end = S[a].end
      /\ b # a => S2[a].pc = S1[a].pc /\ S2[a].end = addr /\ b = addr /\ a < b
  <2>1. /\ SegsOK(S1) /\ a \in DOMAIN S1 /\ S1[a].pc <= addr /\ addr < S1[a].end
        /\ addr \in Nat
    BY <1>2, <1>3
  <2>2. S2 = Carved(S1, a, addr, f) /\ b = Landing(S1, a, addr, f)
    BY DEF Landing
  <2> HIDE DEF b, S2
  <2>3. Carves(S1, a, addr, S2, b)
    BY <2>1, <2>2, CarvedOK
  <2> QED
    BY <1>3, <2>3 DEF Carves
<1> HIDE DEF b, S2
<1>6. S2[b].pc \in Nat /\ S2[b].end \in Nat /\ S2[b] \in SegRec
  BY <1>5, SegFields DEF SegsOK
<1> DEFINE e == PageEnd(addr)
<1>7. e \in Nat /\ addr < e
  BY <1>2, PageFacts
<1>8. /\ SegsOK(S3) /\ DOMAIN S2 \subseteq DOMAIN S3 /\ DOMAIN S3 \subseteq DOMAIN S2 \cup {e}
      /\ \A c \in DOMAIN S2 : c # b => S3[c] = S2[c]
      /\ S3[b].pc = addr /\ addr + size <= S3[b].end /\ S3[b].end <= S[a].end
      /\ Code(f) => S3[b].end <= e
      /\ e \notin DOMAIN S2 /\ e \in DOMAIN S3 => S3[e].pc = e /\ S3[e].end = S[a].end
  <2>1. b \in DOMAIN S2 /\ addr + size <= S2[b].end /\ SegsOK(S2) /\ S2[b].pc = addr
        /\ S2[b].end = S[a].end
    BY <1>2, <1>5
  <2> QED
    BY <1>2, <2>1, PagedOK
<1> HIDE DEF S3
<1>9. /\ SegsOK(S4) /\ DOMAIN S4 = DOMAIN S3
      /\ \A c \in DOMAIN S3 :
           S4[c].end = S3[c].end /\ S4[c].pc = S3[c].pc /\ (c # b => S4[c] = S3[c])
  BY <1>5, <1>8, MarkedOK
<1> HIDE DEF S4
<1>10. b \in DOMAIN S4 /\ S4[b].pc = addr /\ addr + size <= S4[b].end /\ S4[b].end <= S[a].end
       /\ (Code(f) => S4[b].end <= e)
  BY <1>5, <1>8, <1>9
<1>11. \A c \in DOMAIN S : c # a => S4[c] = S[c]
  BY <1>5, <1>8, <1>9
<1>12. S[a].pc <= S4[a].pc /\ S4[a].pc <= S4[a].end /\ S4[a].end <= S[a].end
  <2>1. CASE b = a
    <3>1. S4[a].end \in Nat
      BY <1>10, <2>1, <1>9, SegFields DEF SegsOK
    <3> QED
      BY <1>2, <1>10, <2>1, <3>1
  <2>2. CASE b # a
    <3>1. S4[a].pc = S1[a].pc /\ S4[a].end = addr
      BY <1>2, <1>5, <1>8, <1>9, <2>2
    <3> QED
      BY <1>2, <1>3, <3>1
  <2> QED
    BY <2>1, <2>2
<1>13. ASSUME NEW c \in DOMAIN S4, c \notin DOMAIN S
       PROVE  S4[c].pc = c /\ a < c /\ S4[c].end <= S[a].end
  <2>1. CASE c = b
    <3>1. b # a
      BY <1>2, <1>13, <2>1
    <3> QED
      BY <1>5, <1>10, <2>1, <3>1
  <2>2. CASE c # b
    <3>1. c = e /\ c \notin DOMAIN S2
      BY <1>5, <1>8, <1>9, <1>13, <2>2
    <3>2. S4[c].pc = c /\ S4[c].end = S[a].end
      BY <1>8, <1>9, <1>13, <2>2, <3>1
    <3> QED
      BY <1>2, <1>7, <3>1, <3>2
  <2> QED
    BY <2>1, <2>2
<1>14. DOMAIN S \subseteq DOMAIN S4
  BY <1>5, <1>8, <1>9
<1> QED
  BY <1>1, <1>5, <1>9, <1>10, <1>11, <1>12, <1>13, <1>14 DEF Splits

-----------------------------------------------------------------------------
(* The inductive invariant.                                                *)

(* The segments S hold the pieces P, below their pc. *)
Inside(S, p) ==
  /\ p.at \in Nat /\ p.size \in Nat
  /\ \E a \in DOMAIN S : a <= p.at /\ p.at + p.size <= S[a].pc

(* No segment of S is overfull. *)
Fitted(S) == \A a \in DOMAIN S : S[a].pc <= S[a].end

Held(S, P) ==
  /\ SegsOK(S)
  /\ \A p \in P : Inside(S, p)
  /\ Fitted(S) => \A p, q \in P : p # q => NoCommonByte(p, q)

(* The piece p of the fragment f is where f may be. *)
Honored(f, p) ==
  /\ f.amin # None => f.amin <= p.at
  /\ Code(f) => (p.at % Page) + p.size <= Page
  /\ AlignedPlace(f) =>
       /\ Hard(f) => p.at = f.amin
       /\ f.amax # None => p.at + (IF MayHop(f) THEN Jump ELSE p.size) <= f.amax + 1
       /\ f.aoff # None => p.at % Page = f.aoff
       /\ f.nohop => (p.at % Page) + p.size <= Page
       /\ p.at % (IF Align(f) > 1 THEN Align(f) ELSE 1) = 0

(* A function that hops has sent bytes in a segment, and can still leave it. *)
CurRec == [frag : Nat \ {0}, seg : Nat, sent : Nat, left : Int]

Roomy(S, f, a, sent) ==
  /\ a \in DOMAIN S /\ Code(f) /\ MayHop(f)
  /\ S[a].pc + sent + Jump <= S[a].end
  /\ S[a].end <= PageEnd(S[a].pc)
  /\ Hard(f) => S[a].pc = f.amin
  /\ f.amin # None => f.amin <= S[a].pc
  /\ f.amax # None => S[a].pc + Jump <= f.amax + 1
  /\ f.aoff # None => S[a].pc % Page = f.aoff

Typed ==
  /\ prog \in Programs
  /\ stage \in 1 .. Stages /\ cursor \in Nat
  /\ done \subseteq DOMAIN prog
  /\ cur = Idle \/ cur \in CurRec
  /\ cur # Idle => cur.frag \in DOMAIN prog \ done
  /\ \A p \in pieces : p.frag \in DOMAIN prog
  /\ chains = [bss |-> chains.bss, heap |-> chains.heap, made |-> chains.made]
  /\ outcome \in {"placing", "magic", "linked", "stop", "fatal", "assert"}

PiecesHonored == \A p \in pieces : Honored(prog[p.frag], p)

CurRoomy == cur # Idle => Roomy(segs, prog[cur.frag], cur.seg, cur.sent)

StageOK ==
  /\ outcome \in {"magic", "linked"} => cur = Idle
  /\ outcome = "placing" => chains.heap = <<>>
  /\ "heap" \notin chains.made => chains.heap = <<>>

SegmentsFit == PlacesAligned \/ outcome = "linked" => Fitted(segs)

HeapApart ==
  Fitted(segs) =>
    \A p \in pieces, n \in DOMAIN chains.heap : NoCommonByte(p, chains.heap[n])

IInv ==
  /\ Typed /\ Held(segs, pieces) /\ SegmentsFit /\ PiecesHonored /\ CurRoomy
  /\ StageOK /\ HeapUsable /\ HeapApart

-----------------------------------------------------------------------------
(* What opening and filling a segment does to the pieces.                  *)

(* The fields of a segment.                                                *)
LEMMA SegFacts ==
  ASSUME NEW S, SegsOK(S), NEW a \in DOMAIN S
  PROVE  /\ a \in Nat /\ S[a].pc \in Nat /\ S[a].end \in Nat /\ S[a] \in SegRec
         /\ a <= S[a].pc /\ a < S[a].end
         /\ \A b \in DOMAIN S : a < b => S[a].end <= b
BY SegFields DEF SegsOK

(* A piece that is in the used part of a segment remains so when the       *)
(* segments are cut.                                                       *)
LEMMA SplitHeld ==
  ASSUME NEW S, NEW P, Held(S, P), NEW a \in DOMAIN S, S[a].pc <= S[a].end,
         NEW T, Splits(S, T, a)
  PROVE  Held(T, P) /\ (Fitted(T) <=> Fitted(S))
<1>1. SegsOK(S) /\ SegsOK(T) /\ DOMAIN S \subseteq DOMAIN T
  BY DEF Held, Splits
<1>2. ASSUME NEW b \in DOMAIN S
      PROVE  S[b].pc <= T[b].pc /\ S[b].pc \in Nat /\ T[b].pc \in Nat
  <2>1. S[b].pc \in Nat /\ T[b].pc \in Nat
    BY <1>1, SegFacts
  <2> QED
    BY <2>1 DEF Splits
<1>3. ASSUME NEW p \in P
      PROVE  Inside(T, p)
  <2>1. PICK b \in DOMAIN S : b <= p.at /\ p.at + p.size <= S[b].pc
    BY DEF Held, Inside
  <2>2. p.at \in Nat /\ p.size \in Nat /\ p.at + p.size <= T[b].pc
    BY <1>2, <2>1 DEF Held, Inside
  <2> QED
    BY <1>1, <2>1, <2>2 DEF Inside
<1>4. ASSUME Fitted(T)
      PROVE  Fitted(S)
  <2> SUFFICES ASSUME NEW b \in DOMAIN S
               PROVE  S[b].pc <= S[b].end
    BY DEF Fitted
  <2>1. CASE b = a
    BY <2>1
  <2>2. CASE b # a
    BY <1>1, <1>4, <2>2 DEF Fitted, Splits
  <2> QED
    BY <2>1, <2>2
<1>5. ASSUME Fitted(S)
      PROVE  Fitted(T)
  <2> SUFFICES ASSUME NEW b \in DOMAIN T
               PROVE  T[b].pc <= T[b].end
    BY DEF Fitted
  <2>1. CASE b = a
    BY <2>1 DEF Splits
  <2>2. CASE b \in DOMAIN S /\ b # a
    BY <1>5, <2>2 DEF Fitted, Splits
  <2>3. CASE b \notin DOMAIN S
    <3>1. T[b].pc = b /\ b < T[b].end /\ b \in Nat /\ T[b].end \in Nat
      BY <1>1, <2>3, SegFacts DEF Splits
    <3> QED
      BY <3>1
  <2> QED
    BY <2>1, <2>2, <2>3
<1> QED
  BY <1>1, <1>3, <1>4, <1>5 DEF Held

(* One more piece, at the end of segment a. *)
LEMMA FillHeld ==
  ASSUME NEW S, NEW P, Held(S, P), NEW a \in DOMAIN S, NEW skip \in Nat, NEW n \in Nat,
         NEW T, T = Filled(S, a, skip + n), NEW p, p.at = S[a].pc + skip, p.size = n
  PROVE  /\ Held(T, P \cup {p})
         /\ Fitted(T) => Fitted(S)
         /\ Fitted(S) /\ S[a].pc + skip + n <= S[a].end => Fitted(T)
<1>1. SegsOK(S)
  BY DEF Held
<1>2. S[a].pc \in Nat /\ a \in Nat /\ a <= S[a].pc /\ S[a].end \in Nat /\ S[a] \in SegRec
  BY <1>1, SegFacts
<1> DEFINE s == [S[a] EXCEPT !.pc = @ + (skip + n),
                   !.buf = IF skip + n = 0 THEN @ ELSE IF @ = NoBuffer THEN skip + n
                           ELSE @ + (skip + n)]
<1>3. s \in SegRec /\ s.end = S[a].end /\ s.pc = S[a].pc + (skip + n)
  <2>1. S[a].buf \in Nat \cup {NoBuffer} /\ S[a].pc + (skip + n) \in Nat
    BY <1>2, SegFields
  <2>2. (IF skip + n = 0 THEN S[a].buf ELSE IF S[a].buf = NoBuffer THEN skip + n
         ELSE S[a].buf + (skip + n)) \in Nat \cup {NoBuffer}
    BY <2>1
  <2> QED
    BY <1>2, <2>1, <2>2 DEF SegRec
<1>4. T = [b \in DOMAIN S |-> IF b = a THEN s ELSE S[b]]
  BY DEF Filled
<1> HIDE DEF s
<1>5. DOMAIN T = DOMAIN S /\ T[a] = s /\ \A b \in DOMAIN S : b # a => T[b] = S[b]
  BY <1>4
<1>6. SegsOK(T)
  BY <1>1, <1>2, <1>3, <1>4, <1>5, MovedOK
<1>7. ASSUME NEW b \in DOMAIN S
      PROVE  S[b].pc <= T[b].pc /\ S[b].pc \in Nat /\ T[b].pc \in Nat /\ b \in Nat
             /\ T[b].end = S[b].end /\ S[b].end \in Nat
  <2>1. S[b].pc \in Nat /\ b \in Nat /\ S[b].end \in Nat
    BY <1>1, SegFacts
  <2> QED
    BY <1>2, <1>3, <1>5, <2>1
<1>8. ASSUME NEW q \in P
      PROVE  /\ Inside(T, q) /\ q.at \in Nat /\ q.size \in Nat
             /\ \E b \in DOMAIN S : b <= q.at /\ q.at + q.size <= S[b].pc
  <2>1. PICK b \in DOMAIN S : b <= q.at /\ q.at + q.size <= S[b].pc
    BY DEF Held, Inside
  <2>2. q.at \in Nat /\ q.size \in Nat /\ q.at + q.size <= T[b].pc
    BY <1>7, <2>1 DEF Held, Inside
  <2> QED
    BY <1>5, <2>1, <2>2 DEF Inside
<1>9. p.at \in Nat /\ p.size \in Nat /\ a <= p.at /\ S[a].pc <= p.at /\ p.at + p.size = T[a].pc
  BY <1>2, <1>3, <1>5
<1>10. Inside(T, p)
  BY <1>5, <1>9 DEF Inside
<1>11. ASSUME Fitted(T)
       PROVE  Fitted(S)
  <2> SUFFICES ASSUME NEW b \in DOMAIN S
               PROVE  S[b].pc <= S[b].end
    BY DEF Fitted
  <2>1. T[b].pc <= T[b].end
    BY <1>5, <1>11 DEF Fitted
  <2> QED
    BY <1>7, <2>1
<1>12. ASSUME Fitted(T), NEW q \in P
       PROVE  NoCommonByte(p, q) /\ NoCommonByte(q, p)
  <2>1. PICK b \in DOMAIN S : b <= q.at /\ q.at + q.size <= S[b].pc
    BY <1>8
  <2>2. q.at \in Nat /\ q.size \in Nat
    BY <1>8
  <2>3. T[a].pc <= T[a].end /\ T[b].pc <= T[b].end
    BY <1>5, <1>12 DEF Fitted
  <2>4. (a < b => S[a].end <= b) /\ (b < a => S[b].end <= a)
    BY <1>1, SegFacts
  <2>5. CASE a = b
    <3>1. q.at + q.size <= S[a].pc /\ S[a].pc <= p.at
      BY <1>9, <2>1, <2>5
    <3>2. q.at + q.size <= p.at
      BY <1>2, <1>9, <2>2, <3>1
    <3> QED
      BY <3>2 DEF NoCommonByte
  <2>6. CASE b < a
    BY <1>2, <1>7, <1>9, <2>1, <2>2, <2>3, <2>4, <2>6 DEF NoCommonByte
  <2>7. CASE a < b
    BY <1>2, <1>7, <1>9, <2>1, <2>2, <2>3, <2>4, <2>7 DEF NoCommonByte
  <2>8. a \in Nat /\ b \in Nat
    BY <1>2, <1>7
  <2>9. a = b \/ a < b \/ b < a
    BY <2>8
  <2> QED
    BY <2>5, <2>6, <2>7, <2>9
<1>13. Fitted(T) => \A q, r \in P \cup {p} : q # r => NoCommonByte(q, r)
  BY <1>11, <1>12 DEF Held
<1>14. ASSUME Fitted(S), S[a].pc + skip + n <= S[a].end
       PROVE  Fitted(T)
  <2> SUFFICES ASSUME NEW b \in DOMAIN S
               PROVE  T[b].pc <= T[b].end
    BY <1>5 DEF Fitted
  <2>1. S[b].pc <= S[b].end
    BY <1>14 DEF Fitted
  <2> QED
    BY <1>2, <1>3, <1>5, <1>14, <2>1
<1> QED
  BY <1>6, <1>8, <1>10, <1>11, <1>13, <1>14 DEF Held

(* A fragment that goes in one piece is where it may be. *)
LEMMA WholeHonored ==
  ASSUME NEW S, SegsOK(S), NEW f \in Fragments, NEW a, NEW addr,
         Suits(S, f, f.size, a, addr),
         NEW skip, skip = Aligned(addr, Align(f)) - addr,
         NEW p, p.at = addr + skip, p.size = f.size
  PROVE  Honored(f, p) /\ skip \in Nat /\ (AlignedPlace(f) => skip = 0)
<1>1. /\ f.size \in Nat /\ f.amin \in Int /\ f.amax \in Int /\ f.align \in Nat
      /\ addr \in Nat /\ Align(f) \in Nat
  BY DEF Suits, Fragments, None, Align
<1>2. Aligned(addr, Align(f)) \in Nat /\ Aligned(addr, Align(f)) >= addr
  BY <1>1, AlignedGrows
<1>3. skip \in Nat /\ p.at = Aligned(addr, Align(f)) /\ p.at \in Nat /\ p.at >= addr
  BY <1>1, <1>2
<1>4. AlignedPlace(f) => p.at = addr /\ skip = 0
  BY <1>1, <1>3 DEF Suits
<1>5. f.amin # None => f.amin <= p.at
  BY <1>1, <1>3 DEF Suits
<1>6. Code(f) => AlignedPlace(f)
  BY DEF AlignedPlace
<1>7. ASSUME Code(f) \/ (f.nohop /\ AlignedPlace(f))
      PROVE  (p.at % Page) + p.size <= Page
  <2>1. p.at = addr /\ addr + f.size <= PageEnd(addr)
    BY <1>4, <1>6, <1>7 DEF Suits
  <2>2. addr % Page \in Nat /\ PageEnd(addr) = addr - (addr % Page) + Page /\ Page \in Nat
    BY <1>1, PageFacts, SegmentsAssumption
  <2> QED
    BY <1>1, <2>1, <2>2
<1>8. ASSUME AlignedPlace(f)
      PROVE  /\ Hard(f) => p.at = f.amin
             /\ f.amax # None => p.at + (IF MayHop(f) THEN Jump ELSE p.size) <= f.amax + 1
             /\ f.aoff # None => p.at % Page = f.aoff
  <2>1. f.amax # None => p.at + p.size <= f.amax + 1
    BY <1>4, <1>8 DEF Suits
  <2>2. MayHop(f) => Jump <= p.size
    BY <1>1, SegmentsAssumption DEF MayHop
  <2>3. f.amax # None => p.at + (IF MayHop(f) THEN Jump ELSE p.size) <= f.amax + 1
    <3>1. p.size \in Nat /\ Jump \in Nat
      BY <1>1, SegmentsAssumption
    <3>2. CASE MayHop(f)
      <4>1. p.at + Jump <= p.at + p.size
        BY <1>3, <2>2, <3>1, <3>2
      <4> QED
        BY <1>1, <1>3, <2>1, <3>1, <3>2, <4>1
    <3>3. CASE ~ MayHop(f)
      BY <2>1, <3>3
    <3> QED
      BY <3>2, <3>3
  <2> QED
    BY <1>4, <1>8, <2>3 DEF Suits
<1>9. ASSUME AlignedPlace(f)
      PROVE  p.at % (IF Align(f) > 1 THEN Align(f) ELSE 1) = 0
  <2>1. CASE Align(f) > 1
    <3>1. Align(f) \in {2, 4}
      BY <1>9, <2>1 DEF AlignedPlace, Align
    <3> QED
      BY <1>1, <1>3, <2>1, <3>1, AlignedMultiple
  <2>2. CASE ~ (Align(f) > 1)
    BY <1>3, <2>2
  <2> QED
    BY <2>1, <2>2
<1> QED
  BY <1>3, <1>4, <1>5, <1>7, <1>8, <1>9 DEF Honored

(* So is a piece of a function that hops. *)
LEMMA HopHonored ==
  ASSUME NEW S, SegsOK(S), NEW f \in Fragments, NEW a, NEW sent \in Nat,
         Roomy(S, f, a, sent), NEW n \in Nat, n <= sent + Jump,
         NEW p, p.at = S[a].pc, p.size = n
  PROVE  Honored(f, p)
<1>1. /\ a \in DOMAIN S /\ S[a].pc \in Nat /\ S[a].end \in Nat /\ Code(f)
      /\ f.amax \in Int /\ Jump \in Nat /\ Page \in Nat
  BY SegFacts, SegmentsAssumption DEF Roomy, Fragments, None
<1>2. (p.at % Page) + p.size <= Page
  <2>1. /\ S[a].pc % Page \in Nat
        /\ PageEnd(S[a].pc) = S[a].pc - (S[a].pc % Page) + Page
    <3> DEFINE x == S[a].pc
    <3>1. x \in Nat
      BY <1>1
    <3> HIDE DEF x
    <3>2. x % Page \in Nat /\ PageEnd(x) = x - (x % Page) + Page
      BY <3>1, PageFacts
    <3> QED
      BY <3>2 DEF x
  <2> QED
    BY <1>1, <2>1 DEF Roomy
<1>3. Align(f) = 1 /\ p.at % 1 = 0
  BY <1>1 DEF Align
<1> QED
  BY <1>1, <1>2, <1>3 DEF Honored, Roomy

(* The room of a segment that was opened for a function that hops. *)
LEMMA OpenedRoomy ==
  ASSUME NEW S, SegsOK(S), NEW f \in Fragments, MayHop(f), NEW size \in Nat, Jump <= size,
         NEW a, NEW addr, Suits(S, f, size, a, addr),
         NEW O, O = Opened(S, a, addr, f)
  PROVE  Roomy(O.segs, f, O.seg, 0)
<1>1. /\ Jump \in Nat /\ Jump > 0 /\ f.amax \in Int /\ addr \in Nat /\ size \in Nat \ {0}
      /\ Code(f)
  BY SegmentsAssumption DEF Fragments, None, Suits, MayHop
<1>2. /\ SegsOK(O.segs) /\ O.seg \in DOMAIN O.segs
      /\ O.segs[O.seg].pc = addr /\ addr + size <= O.segs[O.seg].end
      /\ O.segs[O.seg].end <= PageEnd(addr)
  BY <1>1, OpenedOK DEF Splits
<1>3. O.segs[O.seg].end \in Nat
  BY <1>2, SegFacts
<1> QED
  BY <1>1, <1>2, <1>3 DEF Roomy, Suits

-----------------------------------------------------------------------------
(* The steps that place fragments.                                         *)

(* The fragments of a program.                                             *)
LEMMA ProgFacts ==
  ASSUME prog \in Programs
  PROVE  /\ DOMAIN prog \subseteq Nat \ {0}
         /\ \A i \in DOMAIN prog :
              /\ prog[i] \in Fragments
              /\ PlacesAligned => AlignedPlace(prog[i])
<1>1. PICK link \in Links : prog = link.prog
  BY DEF Programs
<1>2. prog \in Seq(Fragments)
  BY <1>1, SegmentsAssumption
<1>3. PlacesAligned => \A i \in DOMAIN prog : AlignedPlace(prog[i])
  BY <1>1 DEF PlacesAligned, AlignedPlace
<1> QED
  BY <1>2, <1>3

(* Nothing moves but the outcome and the place in the loop. *)
LEMMA FrameInv ==
  ASSUME IInv, prog' = prog, segs' = segs, done' = done, cur' = cur,
         pieces' = pieces, chains' = chains, stage' \in 1 .. Stages, cursor' \in Nat,
         outcome' \in {"placing", "magic", "linked", "stop", "fatal", "assert"},
         outcome' \in {"magic", "linked"} => cur = Idle,
         outcome' = "linked" => Fitted(segs),
         outcome' = "placing" => chains.heap = <<>>
  PROVE  IInv'
<1>1. Typed'
  BY DEF IInv, Typed
<1>2. Held(segs, pieces)'
  BY DEF IInv
<1>3. SegmentsFit'
  BY DEF IInv, SegmentsFit
<1>4. PiecesHonored' /\ CurRoomy'
  BY DEF IInv, PiecesHonored, CurRoomy
<1>5. StageOK'
  BY DEF IInv, StageOK
<1>6. HeapUsable' /\ HeapApart'
  BY DEF IInv, HeapUsable, HeapApart
<1> QED
  BY <1>1, <1>2, <1>3, <1>4, <1>5, <1>6 DEF IInv

(* While fragments are placed there is no heap. *)
LEMMA PlacedInv ==
  ASSUME IInv, outcome = "placing", outcome' = "placing", chains' = chains,
         Typed', Held(segs', pieces'), PlacesAligned => Fitted(segs'),
         PiecesHonored', CurRoomy'
  PROVE  IInv'
<1>1. chains'.heap = <<>>
  BY DEF IInv, StageOK
<1>2. SegmentsFit' /\ StageOK'
  BY <1>1 DEF SegmentsFit, StageOK
<1>3. HeapUsable' /\ HeapApart'
  BY <1>1 DEF HeapUsable, HeapApart
<1>4. Held(segs, pieces)'
  OBVIOUS
<1> QED
  BY <1>2, <1>3, <1>4 DEF IInv

(* The invariant holds at the start.                                       *)
LEMMA InitInv ==
  ASSUME Init
  PROVE  IInv
<1>1. PICK link \in Links : prog = link.prog /\ segs = MakeSegments(link.map, link.prags)
  BY DEF Init
<1>2. link.map \in Seq(Spans) /\ Apart(link.map) /\ link.prags \in Seq(Spans) /\ Apart(link.prags)
  BY SegmentsAssumption
<1>3. SegsOK(segs) /\ \A a \in DOMAIN segs : segs[a].pc = a
  BY <1>1, <1>2, MadeOK
<1>4. Fitted(segs)
  <2> SUFFICES ASSUME NEW a \in DOMAIN segs
               PROVE  segs[a].pc <= segs[a].end
    BY DEF Fitted
  <2>1. a \in Nat /\ segs[a].end \in Nat /\ a < segs[a].end /\ segs[a].pc = a
    BY <1>3, SegFacts
  <2> QED
    BY <2>1
<1>5. Held(segs, pieces)
  BY <1>3 DEF Held, Init
<1>6. Typed
  BY <1>1 DEF Init, Typed, Programs, Stages
<1>7. CurRoomy /\ StageOK /\ PiecesHonored /\ SegmentsFit
  BY <1>4 DEF Init, CurRoomy, StageOK, PiecesHonored, SegmentsFit
<1>8. HeapUsable /\ HeapApart
  BY DEF Init, HeapUsable, HeapApart
<1> QED
  BY <1>5, <1>6, <1>7, <1>8 DEF IInv

(* What a segment that find_segment chose, and opened, is. *)
LEMMA OpenedInv ==
  ASSUME NEW S, NEW P, Held(S, P), NEW f \in Fragments, NEW size \in Nat \ {0},
         NEW a, NEW addr, Suits(S, f, size, a, addr),
         NEW O, O = Opened(S, a, addr, f)
  PROVE  /\ Held(O.segs, P) /\ (Fitted(O.segs) <=> Fitted(S))
         /\ SegsOK(O.segs) /\ O.seg \in DOMAIN O.segs /\ O.seg \in Nat
         /\ O.segs[O.seg].pc = addr /\ addr + size <= O.segs[O.seg].end
<1>1. SegsOK(S)
  BY DEF Held
<1>2. /\ Splits(S, O.segs, a)
      /\ O.seg \in DOMAIN O.segs /\ O.seg \in Nat
      /\ O.segs[O.seg].pc = addr /\ addr + size <= O.segs[O.seg].end
  BY <1>1, OpenedOK
<1>3. a \in DOMAIN S /\ S[a].pc <= addr /\ addr + size <= S[a].end /\ addr \in Nat
  BY DEF Suits
<1>4. S[a].pc <= S[a].end
  <2>1. S[a].pc \in Nat /\ S[a].end \in Nat
    BY <1>1, <1>3, SegFacts
  <2> QED
    BY <1>3, <2>1
<1>5. Held(O.segs, P) /\ (Fitted(O.segs) <=> Fitted(S))
  BY <1>2, <1>3, <1>4, SplitHeld
<1> QED
  BY <1>2, <1>5 DEF Held

(* A fragment placed in one piece keeps the invariant.                     *)
LEMMA WholeInv ==
  ASSUME IInv, NEW i \in DOMAIN prog, Placing(i), NEW hit,
         Suits(segs, prog[i], prog[i].size, hit.seg, hit.addr), Whole(i, hit)
  PROVE  IInv'
<1> DEFINE f == prog[i]
           O == Opened(segs, hit.seg, hit.addr, f)
           skip == Aligned(hit.addr, Align(f)) - hit.addr
           p == Piece(O.segs, i, 0, f.size, O.seg, skip, f.size)
<1>1. /\ segs' = Filled(O.segs, O.seg, skip + f.size)
      /\ pieces' = pieces \cup {p} /\ done' = done \cup {i} /\ cursor' = i + 1
      /\ prog' = prog /\ stage' = stage /\ cur' = cur /\ chains' = chains
      /\ outcome' = outcome
  BY DEF Whole
<1>2. /\ f \in Fragments /\ (PlacesAligned => AlignedPlace(f)) /\ i \in Nat \ {0}
      /\ f.size \in Nat \ {0}
  BY ProgFacts DEF IInv, Typed, Fragments
<1>3. Held(segs, pieces) /\ SegsOK(segs)
  BY DEF IInv, Held
<1>4. /\ Held(O.segs, pieces) /\ (Fitted(O.segs) <=> Fitted(segs))
      /\ SegsOK(O.segs) /\ O.seg \in DOMAIN O.segs /\ O.seg \in Nat
      /\ O.segs[O.seg].pc = hit.addr /\ hit.addr + f.size <= O.segs[O.seg].end
  BY <1>2, <1>3, OpenedInv
<1>5. p.at = hit.addr + skip /\ p.size = f.size /\ p.frag = i
  BY <1>4 DEF Piece
<1> HIDE DEF p
<1>6. Honored(f, p) /\ skip \in Nat /\ (AlignedPlace(f) => skip = 0)
  BY <1>2, <1>3, <1>5, WholeHonored
<1>7. hit.addr \in Nat
  BY DEF Suits
<1> HIDE DEF O, skip, f
<1>8. /\ Held(segs', pieces')
      /\ Fitted(O.segs) /\ O.segs[O.seg].pc + skip + f.size <= O.segs[O.seg].end => Fitted(segs')
  BY <1>1, <1>2, <1>4, <1>5, <1>6, FillHeld
<1>9. PlacesAligned => Fitted(segs')
  <2> SUFFICES ASSUME PlacesAligned
               PROVE  Fitted(segs')
    OBVIOUS
  <2>1. skip = 0 /\ Fitted(O.segs)
    BY <1>2, <1>4, <1>6 DEF IInv, SegmentsFit
  <2>2. O.segs[O.seg].pc + skip + f.size <= O.segs[O.seg].end
    BY <1>4, <1>7, <2>1
  <2> QED
    BY <1>8, <2>1, <2>2
<1>10. cur = Idle /\ outcome = "placing"
  BY DEF Placing
<1>11. Typed'
  BY <1>1, <1>2, <1>5, <1>10 DEF IInv, Typed
<1>12. PiecesHonored'
  BY <1>1, <1>5, <1>6 DEF IInv, PiecesHonored, f
<1>13. CurRoomy'
  BY <1>1, <1>10 DEF CurRoomy
<1> QED
  BY <1>1, <1>8, <1>9, <1>10, <1>11, <1>12, <1>13, PlacedInv

(* So does a fragment that is put off or ends the link.                    *)
LEMMA UnplacedInv ==
  ASSUME IInv, NEW i \in DOMAIN prog, Placing(i), NEW kind, Unplaced(i, kind)
  PROVE  IInv'
<1>1. i \in Nat \ {0} /\ cur = Idle /\ outcome = "placing" /\ chains.heap = <<>>
  BY ProgFacts DEF IInv, Typed, Placing, StageOK
<1>2. /\ prog' = prog /\ segs' = segs /\ stage' = stage /\ done' = done /\ cur' = cur
      /\ pieces' = pieces /\ chains' = chains
  BY DEF Unplaced
<1>3. outcome' \in {"placing", "stop", "assert"} /\ cursor' \in Nat
  BY <1>1 DEF Unplaced, IInv, Typed
<1>4. stage' \in 1 .. Stages
  BY <1>2 DEF IInv, Typed
<1> QED
  BY <1>1, <1>2, <1>3, <1>4, FrameInv

(* So does the placement of data.                                          *)
LEMMA PlaceDataInv ==
  ASSUME IInv, NEW i \in DOMAIN prog, PlaceData(i)
  PROVE  IInv'
<1> DEFINE hit == Find(segs, prog[i], prog[i].size, FirstGo)
<1>1. Placing(i) /\ IF hit.kind = "found" THEN Whole(i, hit) ELSE Unplaced(i, hit.kind)
  BY DEF PlaceData
<1>2. prog[i] \in Fragments /\ prog[i].size \in Nat /\ FirstGo \in BOOLEAN /\ SegsOK(segs)
  BY ProgFacts DEF IInv, Typed, Held, Fragments, FirstGo
<1>3. hit.kind = "found" => Suits(segs, prog[i], prog[i].size, hit.seg, hit.addr)
  BY <1>2, FindSuits
<1> HIDE DEF hit
<1>4. CASE hit.kind = "found"
  BY <1>1, <1>3, <1>4, WholeInv
<1>5. CASE hit.kind # "found"
  BY <1>1, <1>5, UnplacedInv
<1> QED
  BY <1>4, <1>5

(* So does the placement of a function, whole or by its start.             *)
LEMMA PlaceCodeInv ==
  ASSUME IInv, NEW i \in DOMAIN prog, PlaceCode(i)
  PROVE  IInv'
<1> DEFINE f == prog[i]
           whole == IF f.nohop \/ f.size <= Sfst THEN Find(segs, f, f.size, FirstGo)
                    ELSE [kind |-> "none"]
           query == IF f.size < Lfss THEN f.size ELSE Lfss
           start == IF f.nohop /\ ~ FirstGo THEN [kind |-> "none"]
                    ELSE Find(segs, f, query, FirstGo)
           O == Opened(segs, start.seg, start.addr, f)
<1>1. /\ Placing(i) /\ Code(f)
      /\ IF whole.kind = "found" THEN Whole(i, whole)
         ELSE IF whole.kind # "none" THEN Unplaced(i, whole.kind)
         ELSE IF start.kind # "found" THEN Unplaced(i, start.kind)
         ELSE /\ segs' = O.segs
              /\ cur' = [frag |-> i, seg |-> O.seg, sent |-> 0, left |-> f.size]
              /\ UNCHANGED <<prog, stage, cursor, done, pieces, chains, outcome>>
  BY DEF PlaceCode
<1>2. /\ f \in Fragments /\ f.size \in Nat \ {0} /\ FirstGo \in BOOLEAN /\ SegsOK(segs)
      /\ Held(segs, pieces) /\ Lfss \in Nat \ {0} /\ Jump <= Lfss /\ Lfss <= Sfst
      /\ Sfst \in Nat /\ i \in Nat \ {0}
  <2>1. prog \in Programs /\ SegsOK(segs) /\ Held(segs, pieces)
    BY DEF IInv, Typed, Held
  <2>2. f \in Fragments /\ i \in Nat \ {0}
    BY <2>1, ProgFacts
  <2>3. f.size \in Nat \ {0} /\ FirstGo \in BOOLEAN
    BY <2>2 DEF Fragments, FirstGo
  <2>4. Lfss \in Nat \ {0} /\ Jump <= Lfss /\ Lfss <= Sfst /\ Sfst \in Nat
    BY SegmentsAssumption
  <2> QED
    BY <2>1, <2>2, <2>3, <2>4
<1>3. whole.kind = "found" => Suits(segs, f, f.size, whole.seg, whole.addr)
  BY <1>2, FindSuits
<1>4. start.kind = "found" => Suits(segs, f, query, start.seg, start.addr)
  BY <1>2, FindSuits
<1>5. whole.kind = "none" /\ start.kind = "found" => query = Lfss /\ f.size > Lfss
  <2>1. CASE f.size > Lfss
    BY <1>2, <2>1
  <2>2. CASE ~ (f.size > Lfss)
    <3>1. query = f.size /\ f.size <= Sfst
      BY <1>2, <2>2
    <3>2. whole = Find(segs, f, query, FirstGo)
      BY <3>1
    <3> QED
      BY <3>2
  <2> QED
    BY <2>1, <2>2
<1>6. Placing(i)
  BY <1>1
<1>7. CASE whole.kind = "found"
  BY <1>1, <1>3, <1>7, WholeInv
<1>8. CASE whole.kind # "found" /\ ~ (whole.kind = "none" /\ start.kind = "found")
  BY <1>1, <1>8, UnplacedInv
<1>9. CASE whole.kind = "none" /\ start.kind = "found"
  <2>1. /\ segs' = O.segs
        /\ cur' = [frag |-> i, seg |-> O.seg, sent |-> 0, left |-> f.size]
        /\ UNCHANGED <<prog, stage, cursor, done, pieces, chains, outcome>>
    BY <1>1, <1>9
  <2>2. Suits(segs, f, Lfss, start.seg, start.addr)
    BY <1>4, <1>5, <1>9
  <2>3. MayHop(f)
    BY <1>1, <1>5, <1>9 DEF MayHop
  <2> HIDE DEF whole, start, query
  <2>4. /\ Held(O.segs, pieces) /\ (Fitted(O.segs) <=> Fitted(segs))
        /\ O.seg \in DOMAIN O.segs /\ O.seg \in Nat
    BY <1>2, <2>2, OpenedInv
  <2>5. Roomy(O.segs, f, O.seg, 0)
    BY <1>2, <2>2, <2>3, OpenedRoomy
  <2>6. cur = Idle /\ outcome = "placing" /\ i \notin done
    BY <1>6 DEF Placing, Todo
  <2> HIDE DEF O
  <2>7. cur' \in CurRec /\ cur'.frag = i /\ cur'.seg = O.seg /\ cur'.sent = 0
    BY <1>2, <2>1, <2>4 DEF CurRec
  <2>8. Typed'
    BY <2>1, <2>6, <2>7 DEF IInv, Typed
  <2>9. CurRoomy'
    BY <2>1, <2>5, <2>7 DEF CurRoomy
  <2>10. PiecesHonored'
    BY <2>1 DEF IInv, PiecesHonored
  <2>11. PlacesAligned => Fitted(segs')
    BY <2>1, <2>4 DEF IInv, SegmentsFit
  <2>12. Held(segs', pieces')
    BY <2>1, <2>4
  <2> QED
    BY <2>1, <2>6, <2>8, <2>9, <2>10, <2>11, <2>12, PlacedInv
<1> QED
  BY <1>7, <1>8, <1>9

-----------------------------------------------------------------------------
(* The steps of a function that hops.                                      *)

(* The bytes sent so far, and the jump that leaves the segment, fit in it. *)
LEMMA SentHeld ==
  ASSUME IInv, Hopping, NEW extra \in Nat, extra <= Jump, NEW left,
         NEW S, S = Filled(segs, cur.seg, cur.sent + extra)
  PROVE  /\ Held(S, Pieces(extra, left)) /\ (PlacesAligned => Fitted(S))
         /\ \A p \in Pieces(extra, left) : p.frag \in DOMAIN prog /\ Honored(prog[p.frag], p)
<1> DEFINE f == prog[cur.frag]
           n == cur.sent + extra
           p == Piece(segs, cur.frag, f.size - cur.left - cur.sent, f.size - left,
                      cur.seg, 0, n)
<1>1. /\ cur \in CurRec /\ cur.frag \in DOMAIN prog /\ Roomy(segs, f, cur.seg, cur.sent)
      /\ Held(segs, pieces) /\ SegsOK(segs) /\ f \in Fragments
  BY ProgFacts DEF IInv, Typed, Hopping, CurRoomy, Held
<1>2. /\ cur.sent \in Nat /\ n \in Nat /\ n <= cur.sent + Jump /\ cur.seg \in DOMAIN segs
      /\ Jump \in Nat
  BY <1>1, SegmentsAssumption DEF CurRec, Roomy
<1>3. segs[cur.seg].pc \in Nat /\ segs[cur.seg].end \in Nat
  BY <1>1, <1>2, SegFacts
<1>4. p.at = segs[cur.seg].pc + 0 /\ p.at = segs[cur.seg].pc /\ p.size = n /\ p.frag = cur.frag
  BY <1>3 DEF Piece
<1>5. S = Filled(segs, cur.seg, 0 + n) /\ Pieces(extra, left) \in {pieces, pieces \cup {p}}
  BY <1>2 DEF Pieces
<1> HIDE DEF p, n, f
<1>6. Honored(f, p)
  BY <1>1, <1>2, <1>4, HopHonored
<1>7. /\ Held(S, pieces \cup {p})
      /\ Fitted(segs) /\ segs[cur.seg].pc + 0 + n <= segs[cur.seg].end => Fitted(S)
  BY <1>1, <1>2, <1>4, <1>5, FillHeld
<1>8. Held(S, Pieces(extra, left))
  BY <1>5, <1>7 DEF Held
<1>9. segs[cur.seg].pc + 0 + n <= segs[cur.seg].end
  BY <1>1, <1>2, <1>3 DEF Roomy, n
<1>10. PlacesAligned => Fitted(S)
  BY <1>7, <1>9 DEF IInv, SegmentsFit
<1>11. \A q \in Pieces(extra, left) : q.frag \in DOMAIN prog /\ Honored(prog[q.frag], q)
  BY <1>1, <1>4, <1>5, <1>6 DEF IInv, Typed, PiecesHonored, f
<1> QED
  BY <1>8, <1>10, <1>11

(* Four elements of a set.                                                 *)
LEMMA EachOfFour ==
  ASSUME NEW Q, NEW R, Q[1] \in R, Q[2] \in R, Q[3] \in R, Q[4] \in R
  PROVE  \A j \in 1 .. 4 : Q[j] \in R
<1>1. \A j \in 1 .. 4 : j = 1 \/ j = 2 \/ j = 3 \/ j = 4
  OBVIOUS
<1> QED
  BY <1>1

(* The answer to the four queries of find_continuation_code_segment is an  *)
(* answer to one of them.                                                  *)
LEMMA FourQueries ==
  ASSUME NEW m \in Nat, Jump <= m, NEW l \in Nat, Jump <= l,
         NEW Q, Q = <<[size |-> m, go |-> TRUE], [size |-> m, go |-> FALSE],
                      [size |-> l, go |-> TRUE], [size |-> l, go |-> FALSE]>>
  PROVE  /\ Q \in [1 .. 4 -> [size : Nat, go : BOOLEAN]] /\ DOMAIN Q = 1 .. 4
         /\ \A j \in 1 .. 4 : Jump <= Q[j].size
<1>1. /\ Q[1] = [size |-> m, go |-> TRUE] /\ Q[2] = [size |-> m, go |-> FALSE]
      /\ Q[3] = [size |-> l, go |-> TRUE] /\ Q[4] = [size |-> l, go |-> FALSE]
  OBVIOUS
<1>2. DOMAIN Q = 1 .. 4 /\ Q = [j \in 1 .. 4 |-> Q[j]]
  OBVIOUS
<1>3. \A g \in BOOLEAN : /\ [size |-> m, go |-> g] \in [size : Nat, go : BOOLEAN]
                         /\ Jump <= [size |-> m, go |-> g].size
                         /\ [size |-> l, go |-> g] \in [size : Nat, go : BOOLEAN]
                         /\ Jump <= [size |-> l, go |-> g].size
  OBVIOUS
<1> DEFINE R == {q \in [size : Nat, go : BOOLEAN] : Jump <= q.size}
<1>4. Q[1] \in R /\ Q[2] \in R /\ Q[3] \in R /\ Q[4] \in R
  BY <1>1, <1>3
<1> HIDE DEF R
<1>5. \A j \in 1 .. 4 : Q[j] \in R
  BY <1>4, EachOfFour
<1>6. ASSUME NEW j \in 1 .. 4
      PROVE  Q[j] \in [size : Nat, go : BOOLEAN] /\ Jump <= Q[j].size
  BY <1>5 DEF R
<1> QED
  BY <1>2, <1>6

(* A hop keeps the invariant: the segment that is left gets its last       *)
(* bytes, the next one has room for the jump.                              *)
LEMMA HopAfterInv ==
  ASSUME IInv, Hopping, NEW extra \in Nat, extra <= Jump,
         NEW need \in Nat, Jump <= need, NEW left \in Int, HopAfter(extra, need, left)
  PROVE  IInv'
<1> DEFINE f == prog[cur.frag]
           small(n) == IF n < Page THEN n ELSE Page
           roomy == IF need < Rest THEN Rest ELSE need
           S == Filled(segs, cur.seg, cur.sent + extra)
           Q == <<[size |-> small(roomy), go |-> TRUE],
                  [size |-> small(roomy), go |-> FALSE],
                  [size |-> small(need), go |-> TRUE],
                  [size |-> small(need), go |-> FALSE]>>
           hit == FindFirst(S, f, Q)
           O == Opened(S, hit.seg, hit.addr, f)
<1>1. /\ IF hit.kind = "found"
         THEN /\ segs' = O.segs
              /\ cur' = [cur EXCEPT !.seg = O.seg, !.sent = 0, !.left = left]
              /\ pieces' = Pieces(extra, left)
              /\ UNCHANGED outcome
         ELSE /\ outcome' \in {"fatal", "stop", "assert"}
              /\ UNCHANGED <<segs, cur, pieces>>
      /\ UNCHANGED <<prog, stage, cursor, done, chains>>
  BY DEF HopAfter
<1>2. /\ cur \in CurRec /\ cur # Idle /\ outcome = "placing"
      /\ cur.frag \in DOMAIN prog \ done /\ MayHop(f) /\ f \in Fragments
  BY ProgFacts DEF IInv, Typed, Hopping, CurRoomy, Roomy
<1>3. /\ Held(S, Pieces(extra, left)) /\ (PlacesAligned => Fitted(S)) /\ SegsOK(S)
      /\ \A p \in Pieces(extra, left) : p.frag \in DOMAIN prog /\ Honored(prog[p.frag], p)
  BY SentHeld DEF Held
<1>4. Jump \in Nat \ {0} /\ Page \in Nat /\ Jump <= Page /\ Rest \in Nat
  BY SegmentsAssumption
<1>5. /\ small(roomy) \in Nat /\ Jump <= small(roomy)
      /\ small(need) \in Nat /\ Jump <= small(need)
  BY <1>4
<1> HIDE DEF S, f, small, roomy
<1>6. /\ Q \in [1 .. 4 -> [size : Nat, go : BOOLEAN]] /\ DOMAIN Q = 1 .. 4
      /\ \A j \in 1 .. 4 : Jump <= Q[j].size
  BY <1>5, FourQueries
<1> HIDE DEF Q
<1>7. CASE hit.kind = "found"
  <2>1. \E j \in DOMAIN Q : Suits(S, f, Q[j].size, hit.seg, hit.addr)
    BY <1>2, <1>3, <1>6, <1>7, FindFirstSuits
  <2>2. PICK size \in Nat \ {0} : Jump <= size /\ Suits(S, f, size, hit.seg, hit.addr)
    BY <1>4, <1>6, <2>1
  <2> HIDE DEF hit
  <2>3. /\ Held(O.segs, Pieces(extra, left)) /\ (Fitted(O.segs) <=> Fitted(S))
        /\ O.seg \in DOMAIN O.segs /\ O.seg \in Nat
    BY <1>2, <1>3, <2>2, OpenedInv
  <2>4. Roomy(O.segs, f, O.seg, 0)
    BY <1>2, <1>3, <2>2, OpenedRoomy
  <2> HIDE DEF O
  <2>5. /\ segs' = O.segs /\ pieces' = Pieces(extra, left) /\ outcome' = outcome
        /\ cur' = [cur EXCEPT !.seg = O.seg, !.sent = 0, !.left = left]
        /\ UNCHANGED <<prog, stage, cursor, done, chains>>
    BY <1>1, <1>7
  <2>6. cur' \in CurRec /\ cur'.frag = cur.frag /\ cur'.seg = O.seg /\ cur'.sent = 0
    BY <1>2, <2>3, <2>5 DEF CurRec
  <2>7. Typed'
    BY <1>2, <1>3, <2>5, <2>6 DEF IInv, Typed
  <2>8. PiecesHonored' /\ CurRoomy'
    BY <1>3, <2>4, <2>5, <2>6 DEF PiecesHonored, CurRoomy, f
  <2>9. Held(segs', pieces') /\ (PlacesAligned => Fitted(segs'))
    BY <1>3, <2>3, <2>5
  <2> QED
    BY <1>2, <2>5, <2>7, <2>8, <2>9, PlacedInv
<1>8. CASE hit.kind # "found"
  <2>1. /\ outcome' \in {"fatal", "stop", "assert"}
        /\ UNCHANGED <<segs, cur, pieces, prog, stage, cursor, done, chains>>
    BY <1>1, <1>8
  <2>2. stage \in 1 .. Stages /\ cursor \in Nat
    BY DEF IInv, Typed
  <2> QED
    BY <2>1, <2>2, FrameInv
<1> QED
  BY <1>7, <1>8

(* An instruction fits in a page with the jump that may follow it.         *)
LEMMA InstrFacts ==
  /\ Jump \in Nat \ {0} /\ 3 <= Jump
  /\ \A k \in Instrs : k \in Nat /\ Room(k) \in Nat /\ Jump <= Room(k)
  /\ \A need \in Needs : need \in Nat /\ Jump <= need
  /\ Room(4) \in Nat /\ Jump <= Room(4)
<1>1. Jump \in Nat \ {0} /\ 3 <= Jump /\ \A k \in Instrs : k \in Nat
  BY SegmentsAssumption
<1> QED
  BY <1>1 DEF Room, Needs

(* Bytes emitted in a segment that has room for them keep the invariant.   *)
LEMMA SentMore ==
  ASSUME IInv, Hopping, NEW k \in Nat, BytesLeft - k >= Jump,
         cur' = [cur EXCEPT !.sent = @ + k, !.left = @ - k],
         UNCHANGED <<prog, segs, stage, cursor, done, pieces, chains, outcome>>
  PROVE  IInv'
<1>1. /\ cur \in CurRec /\ cur # Idle /\ cur.frag \in DOMAIN prog \ done
      /\ Roomy(segs, prog[cur.frag], cur.seg, cur.sent) /\ outcome = "placing"
      /\ Held(segs, pieces) /\ SegsOK(segs)
  BY DEF IInv, Typed, Hopping, CurRoomy, Held
<1>2. /\ cur' \in CurRec /\ cur'.frag = cur.frag /\ cur'.seg = cur.seg
      /\ cur'.sent = cur.sent + k /\ cur.sent \in Nat
  <2>1. cur.sent \in Nat /\ cur.left \in Int
    BY <1>1 DEF CurRec
  <2>2. cur.sent + k \in Nat /\ cur.left - k \in Int
    BY <2>1
  <2> QED
    BY <1>1, <2>1, <2>2 DEF CurRec
<1>3. segs[cur.seg].pc \in Nat /\ segs[cur.seg].end \in Nat
  BY <1>1, SegFacts DEF Roomy
<1>4. Roomy(segs, prog[cur.frag], cur.seg, cur.sent + k)
  <2>1. segs[cur.seg].pc + (cur.sent + k) + Jump <= segs[cur.seg].end
    <3>1. BytesLeft = segs[cur.seg].end - segs[cur.seg].pc - cur.sent
      BY DEF BytesLeft
    <3>2. BytesLeft - k >= Jump /\ Jump \in Nat /\ cur.sent \in Nat
      BY <1>2, InstrFacts
    <3> QED
      BY <1>3, <3>1, <3>2
  <2> QED
    BY <1>1, <2>1 DEF Roomy
<1>5. Typed'
  BY <1>1, <1>2 DEF IInv, Typed
<1>6. CurRoomy' /\ PiecesHonored'
  BY <1>2, <1>4 DEF IInv, CurRoomy, PiecesHonored
<1>7. Held(segs', pieces') /\ (PlacesAligned => Fitted(segs'))
  BY DEF IInv, SegmentsFit
<1> QED
  BY <1>1, <1>5, <1>6, <1>7, PlacedInv

(* tryhop keeps the invariant.                                             *)
LEMMA HopInv ==
  ASSUME IInv, NEW need \in Needs, Hop(need)
  PROVE  IInv'
<1>1. Hopping /\ HopAfter(Jump, need, cur.left) /\ cur.left \in Int
  BY DEF Hop, Hopping, IInv, Typed, CurRec
<1> QED
  BY <1>1, InstrFacts, HopAfterInv

(* An instruction keeps the invariant.                                     *)
LEMMA InstructionInv ==
  ASSUME IInv, NEW k \in Instrs, Instruction(k)
  PROVE  IInv'
<1>1. /\ Hopping /\ BytesLeft >= Room(k)
      /\ cur' = [cur EXCEPT !.sent = @ + k, !.left = @ - k]
      /\ UNCHANGED <<prog, segs, stage, cursor, done, pieces, chains, outcome>>
  BY DEF Instruction
<1>2. BytesLeft \in Int
  BY <1>1, SegFacts DEF BytesLeft, Hopping, IInv, Typed, CurRec, CurRoomy, Roomy, Held
<1>3. k \in Nat /\ BytesLeft - k >= Jump
  BY <1>1, <1>2, InstrFacts DEF Room
<1> QED
  BY <1>1, <1>3, SentMore

(* A jump or a return keeps the invariant.                                 *)
LEMMA BranchInv ==
  ASSUME IInv, NEW k \in {2, Jump}, Branch(k)
  PROVE  IInv'
<1>1. k \in Nat /\ k <= Jump
  BY InstrFacts
<1>2. Hopping /\ cur.left \in Int
  BY DEF Branch, Hopping, IInv, Typed, CurRec
<1>3. CASE BytesLeft - k < Room(4)
  <2>1. HopAfter(k, Room(4), cur.left - k) /\ cur.left - k \in Int
    BY <1>1, <1>2, <1>3 DEF Branch
  <2> QED
    BY <1>1, <1>2, <2>1, InstrFacts, HopAfterInv
<1>4. CASE ~ (BytesLeft - k < Room(4))
  <2>1. /\ cur' = [cur EXCEPT !.sent = @ + k, !.left = @ - k]
        /\ UNCHANGED <<prog, segs, stage, cursor, done, pieces, chains, outcome>>
    BY <1>4 DEF Branch
  <2>2. BytesLeft \in Int
    BY <1>2, SegFacts DEF BytesLeft, Hopping, IInv, Typed, CurRec, CurRoomy, Roomy, Held
  <2>3. BytesLeft - k >= Jump
    BY <1>1, <1>4, <2>2, InstrFacts DEF Room
  <2> QED
    BY <1>1, <1>2, <2>1, <2>3, SentMore
<1> QED
  BY <1>3, <1>4

(* The end of a function keeps the invariant.                              *)
LEMMA EndCodeInv ==
  ASSUME IInv, EndCode
  PROVE  IInv'
<1>1. /\ Hopping /\ segs' = Filled(segs, cur.seg, cur.sent) /\ pieces' = Pieces(0, 0)
      /\ done' = done \cup {cur.frag} /\ cursor' = cur.frag + 1 /\ cur' = Idle
      /\ UNCHANGED <<prog, stage, chains, outcome>>
  BY DEF EndCode
<1>2. /\ cur \in CurRec /\ cur.frag \in DOMAIN prog /\ outcome = "placing"
      /\ cur.sent \in Nat /\ cur.frag \in Nat
  BY <1>1 DEF IInv, Typed, Hopping, CurRec
<1>3. segs' = Filled(segs, cur.seg, cur.sent + 0)
  BY <1>1, <1>2
<1>4. /\ Held(segs', Pieces(0, 0)) /\ (PlacesAligned => Fitted(segs'))
      /\ \A p \in Pieces(0, 0) : p.frag \in DOMAIN prog /\ Honored(prog[p.frag], p)
  BY <1>1, <1>3, InstrFacts, SentHeld
<1>5. Typed'
  BY <1>1, <1>2, <1>4 DEF IInv, Typed
<1>6. PiecesHonored' /\ CurRoomy'
  BY <1>1, <1>4 DEF PiecesHonored, CurRoomy
<1>7. Held(segs', pieces')
  BY <1>1, <1>4
<1> QED
  BY <1>1, <1>2, <1>4, <1>5, <1>6, <1>7, PlacedInv

(* The next call to assemble_fragments keeps the invariant.                *)
LEMMA NextStageInv ==
  ASSUME IInv, NextStage
  PROVE  IInv'
<1>1. /\ outcome = "placing" /\ cur = Idle
      /\ UNCHANGED <<prog, segs, done, cur, pieces, chains>>
      /\ outcome' \in {"placing", "magic"}
  BY DEF NextStage
<1>2. stage' \in 1 .. Stages /\ cursor' \in Nat
  BY DEF NextStage, IInv, Typed, Stages
<1>3. chains.heap = <<>>
  BY <1>1 DEF IInv, StageOK
<1> QED
  BY <1>1, <1>2, <1>3, FrameInv

-----------------------------------------------------------------------------
(* The lists of segments.                                                  *)

(* The lists for the library name each segment once: Backwards enumerates  *)
(* a finite set, by a pigeonhole argument.                                 *)
LEMMA BackwardsOrder ==
  ASSUME SegsOK(segs), NEW A \in SUBSET DOMAIN segs
  PROVE  /\ DOMAIN Backwards(A) \subseteq Nat
         /\ \A n \in DOMAIN Backwards(A) : Backwards(A)[n] \in A
         /\ \A m, n \in DOMAIN Backwards(A) : m # n => Backwards(A)[m] # Backwards(A)[n]
         /\ \A a \in A : \E n \in DOMAIN Backwards(A) : Backwards(A)[n] = a
<1> DEFINE After(a) == {b \in A : Before(segs, a, b)}
           N == Cardinality(A)
           g == [a \in A |-> Cardinality(After(a))]
<1>1. IsFiniteSet(A) /\ N \in Nat
  BY FS_Subset, FS_CardinalityType DEF SegsOK
<1>2. \A a \in A : a \in Nat /\ segs[a].rank \in Nat
  BY SegFields DEF SegsOK
<1>3. ASSUME NEW a \in A
      PROVE  IsFiniteSet(After(a)) /\ g[a] = Cardinality(After(a)) /\ g[a] \in 0 .. N - 1
  <2>1. a \notin After(a)
    BY <1>2 DEF Before
  <2>2. After(a) \in SUBSET (A \ {a})
    BY <2>1
  <2>3. IsFiniteSet(A \ {a}) /\ Cardinality(A \ {a}) = N - 1
    BY <1>1, FS_RemoveElement
  <2>4. IsFiniteSet(After(a)) /\ Cardinality(After(a)) <= N - 1
    BY <2>2, <2>3, FS_Subset
  <2>5. Cardinality(After(a)) \in Nat
    BY <2>4, FS_CardinalityType
  <2> QED
    BY <1>1, <2>4, <2>5
<1>4. ASSUME NEW a \in A, NEW b \in A, Before(segs, a, b)
      PROVE  g[a] # g[b]
  <2>1. b \in After(a) /\ b \notin After(b)
    BY <1>2, <1>4 DEF Before
  <2>2. ASSUME NEW c \in After(b)
        PROVE  c \in After(a)
    <3>1. c \in A /\ Before(segs, b, c)
      OBVIOUS
    <3>2. Before(segs, a, c)
      BY <1>2, <1>4, <3>1 DEF Before
    <3> QED
      BY <3>1, <3>2
  <2>3. After(b) \in SUBSET After(a) /\ After(a) # After(b)
    BY <2>1, <2>2
  <2>4. Cardinality(After(a)) # Cardinality(After(b))
    BY <1>3, <2>3, FS_Subset
  <2> QED
    BY <1>3, <2>4
<1>5. ASSUME NEW a \in A, NEW b \in A, a # b
      PROVE  g[a] # g[b]
  <2>1. Before(segs, a, b) \/ Before(segs, b, a)
    BY <1>2, <1>5 DEF Before
  <2> QED
    BY <1>4, <2>1
<1> HIDE DEF After
<1>6. g \in [A -> 0 .. N - 1]
  BY <1>3
<1>11. \A a \in A : g[a] = Cardinality({b \in A : Before(segs, a, b)})
  BY <1>3 DEF After
<1> HIDE DEF g, N
<1>7. g \in Injection(A, 0 .. N - 1)
  BY <1>5, <1>6 DEF Injection, IsInjective
<1>8. IsFiniteSet(0 .. N - 1) /\ Cardinality(0 .. N - 1) = N
  BY <1>1, FS_Interval
<1>9. g \in Surjection(A, 0 .. N - 1)
  BY <1>7, <1>8, FS_Injection DEF N
<1>10. \A n \in 1 .. N : \E a \in A : g[a] = n - 1
  <2> SUFFICES ASSUME NEW n \in 1 .. N
               PROVE  \E a \in A : g[a] = n - 1
    OBVIOUS
  <2>1. n - 1 \in 0 .. N - 1
    BY <1>1
  <2> QED
    BY <1>9, <2>1 DEF Surjection
<1> DEFINE B == Backwards(A)
           c(a) == Cardinality({b \in A : Before(segs, a, b)})
<1>12. DOMAIN B = 1 .. N
       /\ \A n \in 1 .. N : B[n] = CHOOSE a \in A : c(a) = n - 1
  BY DEF Backwards, N
<1>15. \A n \in 1 .. N : \E a \in A : c(a) = n - 1
  BY <1>10, <1>11
<1> HIDE DEF B, c
<1>13. \A n \in 1 .. N : B[n] \in A /\ c(B[n]) = n - 1
  BY <1>12, <1>15
<1>14. \A m, n \in 1 .. N : m # n => B[m] # B[n]
  <2> SUFFICES ASSUME NEW m \in 1 .. N, NEW n \in 1 .. N, B[m] = B[n]
               PROVE  m = n
    OBVIOUS
  <2>1. m - 1 = n - 1
    BY <1>13
  <2> QED
    BY <1>1, <2>1
<1>16. ASSUME NEW a \in A
       PROVE  \E n \in 1 .. N : B[n] = a
  <2>1. g[a] \in 0 .. N - 1
    BY <1>6
  <2>2. PICK n \in 1 .. N : n - 1 = g[a]
    <3>1. g[a] + 1 \in 1 .. N /\ (g[a] + 1) - 1 = g[a]
      BY <1>1, <2>1
    <3> QED
      BY <3>1
  <2>3. B[n] \in A /\ c(B[n]) = g[a]
    BY <1>13, <2>2
  <2>4. g[B[n]] = g[a]
    BY <1>11, <2>3 DEF c
  <2> QED
    BY <1>5, <2>3, <2>4
<1> QED
  BY <1>1, <1>12, <1>13, <1>14, <1>16 DEF B

(* What is left of a segment, rounded to multiples of 4, is inside of it   *)
(* and after its pc.                                                       *)
LEMMA HeapFacts ==
  ASSUME SegsOK(segs), NEW a \in DOMAIN segs, HeapEnd(a) - HeapStart(a) >= MinHeap
  PROVE  /\ HeapStart(a) \in Nat /\ HeapEnd(a) \in Int
         /\ HeapStart(a) % 4 = 0 /\ (HeapEnd(a) - HeapStart(a)) % 4 = 0
         /\ HeapEnd(a) - HeapStart(a) >= 24
         /\ a <= HeapStart(a) /\ segs[a].pc <= HeapStart(a)
         /\ HeapEnd(a) <= segs[a].end /\ HeapStart(a) + 24 <= segs[a].end
         /\ a < HeapEnd(a)
<1>1. /\ a \in Nat /\ segs[a].pc \in Nat /\ segs[a].end \in Nat
      /\ a <= segs[a].pc /\ a < segs[a].end
  BY SegFacts
<1>2. HeapStart(a) \in Nat /\ segs[a].pc <= HeapStart(a) /\ HeapStart(a) % 4 = 0
  BY <1>1, AlignedGrows, AlignedMultiple DEF HeapStart
<1>3. /\ HeapEnd(a) \in Int /\ HeapEnd(a) % 4 = 0 /\ HeapEnd(a) <= segs[a].end
  BY <1>1 DEF HeapEnd
<1>4. (HeapEnd(a) - HeapStart(a)) % 4 = 0
  BY <1>2, <1>3
<1>5. HeapEnd(a) - HeapStart(a) >= 24
  BY <1>2, <1>3, SegmentsAssumption
<1> QED
  BY <1>1, <1>2, <1>3, <1>4, <1>5

(* The segments of A are cut in order, and where no segment starts. *)
LEMMA HeapOrder ==
  ASSUME SegsOK(segs), NEW A \in SUBSET DOMAIN segs,
         \A a \in A : HeapEnd(a) - HeapStart(a) >= MinHeap
  PROVE  /\ \A a \in A, b \in DOMAIN segs : a < b => HeapStart(a) < b /\ HeapEnd(a) <= b
         /\ \A a, b \in A : HeapStart(a) = HeapStart(b) => a = b
         /\ \A a \in A : HeapStart(a) \in DOMAIN segs => HeapStart(a) = a
<1>1. ASSUME NEW a \in A
      PROVE  /\ HeapStart(a) \in Nat /\ HeapEnd(a) \in Int
             /\ a <= HeapStart(a) /\ HeapEnd(a) <= segs[a].end
             /\ HeapStart(a) + 24 <= segs[a].end
  BY HeapFacts
<1>2. ASSUME NEW a \in A, NEW b \in DOMAIN segs, a < b
      PROVE  HeapStart(a) < b /\ HeapEnd(a) <= b
  <2>1. segs[a].end <= b /\ b \in Nat /\ segs[a].end \in Nat
    BY <1>2, SegFacts
  <2> QED
    BY <1>1, <2>1
<1>3. \A a \in DOMAIN segs : a \in Nat
  BY SegFacts
<1>4. ASSUME NEW a \in A, NEW b \in A, HeapStart(a) = HeapStart(b)
      PROVE  a = b
  <2>1. a < b => HeapStart(a) < b
    BY <1>2
  <2>2. b < a => HeapStart(b) < a
    BY <1>2
  <2>3. a \in Nat /\ b \in Nat /\ HeapStart(a) \in Nat /\ a <= HeapStart(a) /\ b <= HeapStart(b)
    BY <1>1, <1>3
  <2> QED
    BY <1>4, <2>1, <2>2, <2>3
<1>5. ASSUME NEW a \in A, HeapStart(a) \in DOMAIN segs
      PROVE  HeapStart(a) = a
  <2>1. a < HeapStart(a) => HeapStart(a) < HeapStart(a)
    BY <1>2, <1>5
  <2>2. a \in Nat /\ HeapStart(a) \in Nat /\ a <= HeapStart(a)
    BY <1>1, <1>3
  <2> QED
    BY <2>1, <2>2
<1> QED
  BY <1>2, <1>4, <1>5

(* The heap takes the end of the segments of A. *)
Starts(A) == {HeapStart(a) : a \in A}

Sold(A) ==
  [b \in DOMAIN segs \cup {HeapStart(a) : a \in A} |->
     IF \E a \in A : HeapStart(a) = b
     THEN LET a == CHOOSE x \in A : HeapStart(x) = b
          IN  [Fresh(segs[a], b) EXCEPT !.pc = b + 4, !.buf = 4]
     ELSE [a \in DOMAIN segs |->
             IF a \in A /\ HeapStart(a) > a
             THEN [segs[a] EXCEPT !.end = HeapStart(a)] ELSE segs[a]][b]]

(* What process_magic_heap makes of each segment.                          *)
LEMMA SoldFields ==
  ASSUME SegsOK(segs), NEW A \in SUBSET DOMAIN segs,
         \A a \in A : HeapEnd(a) - HeapStart(a) >= MinHeap,
         NEW H, H = Starts(A), NEW T, T = Sold(A)
  PROVE  /\ DOMAIN T = DOMAIN segs \cup H
         /\ \A a \in A :
              /\ T[HeapStart(a)] \in SegRec /\ HeapStart(a) \in DOMAIN T
              /\ T[HeapStart(a)].pc = HeapStart(a) + 4
              /\ T[HeapStart(a)].end = segs[a].end
              /\ T[HeapStart(a)].flags = segs[a].flags
         /\ \A b \in DOMAIN segs : b \notin H =>
              /\ T[b] \in SegRec /\ T[b].pc = segs[b].pc
              /\ b \in A => T[b].end = HeapStart(b) /\ b < HeapStart(b)
              /\ b \notin A => T[b] = segs[b]
<1>1. DOMAIN T = DOMAIN segs \cup H
  BY DEF Sold, Starts
<1>2. ASSUME NEW a \in A, NEW b, b = HeapStart(a)
      PROVE  /\ T[b] \in SegRec /\ b \in DOMAIN T
             /\ T[b].pc = b + 4
             /\ T[b].end = segs[a].end
             /\ T[b].flags = segs[a].flags
  <2>1. (CHOOSE x \in A : HeapStart(x) = b) = a
    BY <1>2, HeapOrder
  <2>2. b \in H /\ \E x \in A : HeapStart(x) = b
    BY <1>2 DEF Starts
  <2>3. T[b] = [Fresh(segs[a], b) EXCEPT !.pc = b + 4, !.buf = 4]
    BY <1>1, <2>1, <2>2 DEF Sold
  <2>4. segs[a] \in SegRec /\ b \in Nat
    BY <1>2, SegFacts, HeapFacts
  <2>5. Fresh(segs[a], b) \in SegRec /\ Fresh(segs[a], b).end = segs[a].end
        /\ Fresh(segs[a], b).flags = segs[a].flags
    BY <2>4, SegFields
  <2>6. [Fresh(segs[a], b) EXCEPT !.pc = b + 4, !.buf = 4] \in SegRec
    <3> DEFINE r == Fresh(segs[a], b)
    <3>1. r \in SegRec /\ b + 4 \in Nat /\ 4 \in Nat \cup {NoBuffer}
      BY <2>4, <2>5
    <3> HIDE DEF r
    <3>2. [r EXCEPT !.pc = b + 4, !.buf = 4] \in SegRec
      BY <3>1 DEF SegRec
    <3> QED
      BY <3>2 DEF r
  <2>7. T[b].pc = b + 4 /\ T[b].end = segs[a].end /\ T[b].flags = segs[a].flags
    BY <2>3, <2>5 DEF SegRec
  <2> QED
    BY <1>1, <2>2, <2>3, <2>6, <2>7
<1>3. ASSUME NEW b \in DOMAIN segs, b \notin H
      PROVE  /\ T[b] \in SegRec /\ T[b].pc = segs[b].pc
             /\ b \in A => T[b].end = HeapStart(b) /\ b < HeapStart(b)
             /\ b \notin A => T[b] = segs[b]
  <2>1. ~ \E a \in A : HeapStart(a) = b
    BY <1>3 DEF Starts
  <2>2. T[b] = IF b \in A /\ HeapStart(b) > b
               THEN [segs[b] EXCEPT !.end = HeapStart(b)] ELSE segs[b]
    BY <2>1 DEF Sold
  <2>3. segs[b] \in SegRec /\ b \in Nat
    BY SegFacts
  <2>4. CASE b \in A
    <3>1. HeapStart(b) # b /\ HeapStart(b) \in Nat /\ b <= HeapStart(b)
      BY <2>1, <2>4, HeapFacts
    <3>2. b < HeapStart(b)
      BY <2>3, <3>1
    <3>3. T[b] = [segs[b] EXCEPT !.end = HeapStart(b)]
      BY <2>2, <2>4, <3>2
    <3> QED
      BY <2>3, <2>4, <3>1, <3>2, <3>3, SegFields
  <2>5. CASE b \notin A
    BY <2>2, <2>3, <2>5
  <2> QED
    BY <2>4, <2>5
<1> QED
  BY <1>1, <1>2, <1>3

(* The segments are apart after it, and the used parts where they were.    *)
LEMMA SoldOK ==
  ASSUME SegsOK(segs), NEW A \in SUBSET DOMAIN segs,
         \A a \in A : HeapEnd(a) - HeapStart(a) >= MinHeap,
         NEW H, H = Starts(A), NEW T, T = Sold(A)
  PROVE  SegsOK(T)
<1>1. /\ DOMAIN T = DOMAIN segs \cup H
      /\ \A a \in A :
           /\ T[HeapStart(a)] \in SegRec
           /\ T[HeapStart(a)].pc = HeapStart(a) + 4
           /\ T[HeapStart(a)].end = segs[a].end
      /\ \A b \in DOMAIN segs : b \notin H =>
           /\ T[b] \in SegRec /\ T[b].pc = segs[b].pc
           /\ b \in A => T[b].end = HeapStart(b) /\ b < HeapStart(b)
           /\ b \notin A => T[b] = segs[b]
  BY SoldFields
<1>2. /\ \A a \in A, b \in DOMAIN segs : a < b => HeapStart(a) < b /\ HeapEnd(a) <= b
      /\ \A a, b \in A : HeapStart(a) = HeapStart(b) => a = b
      /\ \A a \in A : HeapStart(a) \in DOMAIN segs => HeapStart(a) = a
  BY HeapOrder
<1>3. ASSUME NEW a \in A
      PROVE  /\ HeapStart(a) \in Nat /\ a <= HeapStart(a) /\ a \in DOMAIN segs
             /\ HeapStart(a) + 24 <= segs[a].end
  BY HeapFacts
<1>4. ASSUME NEW a \in DOMAIN segs
      PROVE  /\ a \in Nat /\ segs[a].pc \in Nat /\ segs[a].end \in Nat
             /\ a <= segs[a].pc /\ a < segs[a].end
             /\ \A b \in DOMAIN segs : a < b => segs[a].end <= b
  BY SegFacts
<1>5. IsFiniteSet(H) /\ H \subseteq Nat
  <2> DEFINE g == [a \in A |-> HeapStart(a)]
  <2>1. H = {g[a] : a \in A}
    BY DEF Starts
  <2>2. IsFiniteSet(A)
    BY FS_Subset DEF SegsOK
  <2> HIDE DEF g
  <2>3. IsFiniteSet({g[a] : a \in A})
    BY <2>2, FiniteImage
  <2>4. H \subseteq Nat
    BY <1>3 DEF Starts
  <2> QED
    BY <2>1, <2>3, <2>4
<1>6. IsFiniteSet(DOMAIN T) /\ DOMAIN T \subseteq Nat
  <2>1. IsFiniteSet(DOMAIN segs) /\ DOMAIN segs \subseteq Nat
    BY DEF SegsOK
  <2>2. IsFiniteSet(DOMAIN segs \cup H)
    BY <1>5, <2>1, FS_Union
  <2> QED
    BY <1>1, <1>5, <2>1, <2>2
<1>7. \A b \in H : \E a \in A : b = HeapStart(a)
  BY DEF Starts
<1>9. \A b \in DOMAIN T : T[b] \in SegRec
  BY <1>1, <1>7
<1>10. T \in [DOMAIN T -> SegRec]
  BY <1>9 DEF Sold
<1>11. ASSUME NEW b \in DOMAIN T
       PROVE  b <= T[b].pc /\ b < T[b].end
  <2>1. CASE b \in H
    <3>1. PICK a \in A : b = HeapStart(a)
      BY <1>7, <2>1
    <3>2. T[b].pc = b + 4 /\ T[b].end = segs[a].end /\ b \in Nat /\ b + 24 <= segs[a].end
          /\ segs[a].end \in Nat
      BY <1>1, <1>3, <1>4, <3>1
    <3> QED
      BY <3>2
  <2>2. CASE b \notin H
    BY <1>1, <1>4, <2>2
  <2> QED
    BY <2>1, <2>2
(* What comes after the start of a segment comes after its end. *)
<1>12. ASSUME NEW a \in DOMAIN segs, NEW c \in DOMAIN T, a < c, a \in A => c # HeapStart(a)
       PROVE  segs[a].end <= c
  <2>1. CASE c \in DOMAIN segs
    BY <1>4, <1>12, <2>1
  <2>2. CASE c \notin DOMAIN segs
    <3>1. PICK x \in A : c = HeapStart(x)
      BY <1>1, <1>7, <2>2
    <3>2. x \in DOMAIN segs /\ x \in Nat /\ a \in Nat /\ c \in Nat /\ x <= c
      BY <1>3, <1>4, <3>1
    <3>3. x < a => c < a
      BY <1>2, <3>1
    <3>4. x # a
      BY <1>12, <3>1, <3>2
    <3>5. a < x
      BY <1>12, <3>2, <3>3, <3>4
    <3>6. segs[a].end <= x /\ segs[a].end \in Nat
      BY <1>4, <3>2, <3>5
    <3> QED
      BY <3>2, <3>6
  <2> QED
    BY <2>1, <2>2
<1>13. ASSUME NEW b \in DOMAIN T, NEW c \in DOMAIN T, b < c
       PROVE  T[b].end <= c
  <2>1. b \in Nat /\ c \in Nat
    BY <1>6
  <2>2. CASE b \in H
    <3>1. PICK a \in A : b = HeapStart(a)
      BY <1>7, <2>2
    <3>2. a \in DOMAIN segs /\ a <= b /\ a \in Nat
      BY <1>3, <1>4, <3>1
    <3>3. segs[a].end <= c
      BY <1>12, <1>13, <2>1, <3>1, <3>2
    <3> QED
      BY <1>1, <3>1, <3>3
  <2>3. CASE b \notin H
    <3>1. b \in DOMAIN segs
      BY <1>1, <2>3
    <3>2. CASE b \notin A
      BY <1>1, <1>12, <1>13, <2>3, <3>1, <3>2
    <3>3. CASE b \in A
      <4>1. T[b].end = HeapStart(b) /\ HeapStart(b) \in Nat /\ HeapStart(b) + 24 <= segs[b].end
            /\ segs[b].end \in Nat
        BY <1>1, <1>3, <1>4, <2>3, <3>1, <3>3
      <4>2. CASE c # HeapStart(b)
        <5>1. segs[b].end <= c
          BY <1>12, <1>13, <3>1, <4>2
        <5> QED
          BY <2>1, <4>1, <5>1
      <4>3. CASE c = HeapStart(b)
        BY <2>1, <4>1, <4>3
      <4> QED
        BY <4>2, <4>3
    <3> QED
      BY <3>2, <3>3
  <2> QED
    BY <2>2, <2>3
<1> QED
  BY <1>6, <1>10, <1>11, <1>13 DEF SegsOK

(* The pieces stay below the pc of the segments that are cut. *)
LEMMA SoldHeld ==
  ASSUME Held(segs, pieces), NEW A \in SUBSET DOMAIN segs,
         \A a \in A : HeapEnd(a) - HeapStart(a) >= MinHeap,
         NEW T, T = Sold(A)
  PROVE  Held(T, pieces) /\ (Fitted(T) <=> Fitted(segs))
<1> DEFINE H == Starts(A)
<1>1. SegsOK(segs)
  BY DEF Held
<1>2. SegsOK(T)
  BY <1>1, SoldOK
<1>3. /\ DOMAIN T = DOMAIN segs \cup H
      /\ \A a \in A :
           /\ T[HeapStart(a)].pc = HeapStart(a) + 4
           /\ T[HeapStart(a)].end = segs[a].end
      /\ \A b \in DOMAIN segs : b \notin H =>
           /\ T[b].pc = segs[b].pc
           /\ b \in A => T[b].end = HeapStart(b)
           /\ b \notin A => T[b] = segs[b]
  BY <1>1, SoldFields
<1>4. \A a \in A : HeapStart(a) \in DOMAIN segs => HeapStart(a) = a
  BY <1>1, HeapOrder
<1>5. \A b \in H : \E a \in A : b = HeapStart(a)
  BY DEF Starts
<1> HIDE DEF H
<1>6. ASSUME NEW a \in A
      PROVE  /\ HeapStart(a) \in Nat /\ segs[a].pc <= HeapStart(a) /\ a \in DOMAIN segs
             /\ HeapStart(a) + 24 <= segs[a].end
             /\ segs[a].pc \in Nat /\ segs[a].end \in Nat
  <2>1. segs[a].pc \in Nat /\ segs[a].end \in Nat
    BY <1>1, SegFacts
  <2> QED
    BY <1>1, <2>1, HeapFacts
<1>7. ASSUME NEW a \in DOMAIN segs
      PROVE  a \in DOMAIN T /\ segs[a].pc <= T[a].pc /\ segs[a].pc \in Nat /\ T[a].pc \in Nat
  <2>1. a \in DOMAIN T /\ segs[a].pc \in Nat /\ T[a].pc \in Nat
    BY <1>1, <1>2, <1>3, SegFacts
  <2>2. CASE a \in H
    <3>1. PICK x \in A : a = HeapStart(x)
      BY <1>5, <2>2
    <3>2. x = a /\ T[a].pc = a + 4 /\ segs[a].pc <= a /\ a \in Nat
      BY <1>3, <1>4, <1>6, <3>1
    <3> QED
      BY <2>1, <3>2
  <2>3. CASE a \notin H
    BY <1>3, <2>1, <2>3
  <2> QED
    BY <2>2, <2>3
<1>8. ASSUME NEW p \in pieces
      PROVE  Inside(T, p)
  <2>1. PICK b \in DOMAIN segs : b <= p.at /\ p.at + p.size <= segs[b].pc
    BY DEF Held, Inside
  <2>2. p.at \in Nat /\ p.size \in Nat /\ p.at + p.size <= T[b].pc /\ b \in DOMAIN T
    BY <1>7, <2>1 DEF Held, Inside
  <2> QED
    BY <2>1, <2>2 DEF Inside
<1>9. ASSUME Fitted(T)
      PROVE  Fitted(segs)
  <2> SUFFICES ASSUME NEW a \in DOMAIN segs
               PROVE  segs[a].pc <= segs[a].end
    BY DEF Fitted
  <2>1. CASE a \in A
    BY <1>6, <2>1
  <2>2. CASE a \notin A
    <3>1. a \notin H
      BY <1>4, <1>5, <2>2
    <3>2. T[a] = segs[a] /\ a \in DOMAIN T
      BY <1>3, <2>2, <3>1
    <3> QED
      BY <1>9, <3>2 DEF Fitted
  <2> QED
    BY <2>1, <2>2
<1>10. ASSUME Fitted(segs)
       PROVE  Fitted(T)
  <2> SUFFICES ASSUME NEW b \in DOMAIN T
               PROVE  T[b].pc <= T[b].end
    BY DEF Fitted
  <2>1. CASE b \in H
    <3>1. PICK a \in A : b = HeapStart(a)
      BY <1>5, <2>1
    <3> QED
      BY <1>3, <1>6, <3>1
  <2>2. CASE b \notin H /\ b \in A
    BY <1>3, <1>6, <2>2
  <2>3. CASE b \notin H /\ b \notin A
    BY <1>3, <1>10, <2>3 DEF Fitted
  <2> QED
    BY <2>1, <2>2, <2>3
<1> QED
  BY <1>2, <1>8, <1>9, <1>10 DEF Held

(* process_magic_heap keeps the invariant.                                 *)
LEMMA MagicHeapInv ==
  ASSUME IInv, MagicHeap
  PROVE  IInv'
<1> DEFINE A == {a \in DOMAIN segs : /\ "H" \in segs[a].flags
                                     /\ HeapEnd(a) - HeapStart(a) >= MinHeap}
           order == Backwards(A)
           heap == [n \in DOMAIN order |->
                      [at |-> HeapStart(order[n]),
                       size |-> HeapEnd(order[n]) - HeapStart(order[n])]]
<1>1. /\ outcome = "magic" /\ segs' = Sold(A)
      /\ chains' = [chains EXCEPT !.heap = heap, !.made = @ \cup {"heap"}]
      /\ UNCHANGED <<prog, stage, cursor, done, cur, pieces, outcome>>
  BY DEF MagicHeap, Unmade, Sold
<1>2. Held(segs, pieces) /\ SegsOK(segs) /\ A \in SUBSET DOMAIN segs
      /\ \A a \in A : HeapEnd(a) - HeapStart(a) >= MinHeap /\ "H" \in segs[a].flags
  BY DEF IInv, Held
<1>3. /\ DOMAIN order \subseteq Nat
      /\ \A n \in DOMAIN order : order[n] \in A
      /\ \A m, n \in DOMAIN order : m # n => order[m] # order[n]
  BY <1>2, BackwardsOrder
<1>4. Held(segs', pieces) /\ (Fitted(segs') <=> Fitted(segs))
  BY <1>1, <1>2, SoldHeld
<1>5. /\ DOMAIN segs' = DOMAIN segs \cup Starts(A)
      /\ \A a \in A :
           /\ HeapStart(a) \in DOMAIN segs'
           /\ segs'[HeapStart(a)].end = segs[a].end
           /\ segs'[HeapStart(a)].flags = segs[a].flags
  BY <1>1, <1>2, SoldFields
<1>6. \A a \in A, b \in DOMAIN segs : a < b => HeapStart(a) < b /\ HeapEnd(a) <= b
  BY <1>2, HeapOrder
<1>7. \A a \in A :
        /\ HeapStart(a) \in Nat /\ HeapEnd(a) \in Int
        /\ HeapStart(a) % 4 = 0 /\ (HeapEnd(a) - HeapStart(a)) % 4 = 0
        /\ HeapEnd(a) - HeapStart(a) >= 24
        /\ a <= HeapStart(a) /\ segs[a].pc <= HeapStart(a)
        /\ HeapEnd(a) <= segs[a].end /\ a \in DOMAIN segs /\ a \in Nat
  BY <1>2, HeapFacts, SegFacts
<1> HIDE DEF A, order
<1>8. chains'.heap = heap
  BY <1>1 DEF IInv, Typed
<1>9. \A n \in DOMAIN heap :
        /\ heap[n].at = HeapStart(order[n]) /\ order[n] \in A /\ n \in DOMAIN order
        /\ heap[n].size = HeapEnd(order[n]) - HeapStart(order[n])
        /\ heap[n].at + heap[n].size = HeapEnd(order[n])
  BY <1>3, <1>7
<1> HIDE DEF heap
<1>10. Typed'
  <2>1. cur' = Idle /\ cur = Idle
    BY <1>1 DEF IInv, StageOK
  <2>2. chains' = [bss |-> chains'.bss, heap |-> chains'.heap, made |-> chains'.made]
    BY <1>1 DEF IInv, Typed
  <2> QED
    BY <1>1, <2>1, <2>2 DEF IInv, Typed
<1>11. SegmentsFit' /\ PiecesHonored' /\ CurRoomy'
  BY <1>1, <1>4 DEF IInv, SegmentsFit, PiecesHonored, CurRoomy, StageOK
<1>12. StageOK'
  <2>1. "heap" \in chains'.made
    BY <1>1 DEF IInv, Typed
  <2> QED
    BY <1>1, <2>1 DEF IInv, StageOK
<1>13. ASSUME NEW a \in A, NEW b \in A, a # b
       PROVE  HeapEnd(a) <= HeapStart(b) \/ HeapEnd(b) <= HeapStart(a)
  <2>1. a \in Nat /\ b \in Nat /\ HeapEnd(a) \in Int /\ HeapEnd(b) \in Int
        /\ HeapStart(a) \in Nat /\ HeapStart(b) \in Nat /\ a <= HeapStart(a) /\ b <= HeapStart(b)
    BY <1>7
  <2>2. (a < b => HeapEnd(a) <= b) /\ (b < a => HeapEnd(b) <= a)
    BY <1>6, <1>7
  <2> QED
    BY <1>13, <2>1, <2>2
<1>14. HeapUsable'
  <2> SUFFICES ASSUME NEW i \in DOMAIN heap
               PROVE  /\ heap[i].at % 4 = 0 /\ heap[i].size % 4 = 0 /\ heap[i].size >= 24
                      /\ \E a \in DOMAIN segs' :
                           /\ "H" \in segs'[a].flags /\ a <= heap[i].at
                           /\ heap[i].at + heap[i].size <= segs'[a].end
                      /\ \A j \in DOMAIN heap : i # j => NoCommonByte(heap[i], heap[j])
    BY <1>8 DEF HeapUsable
  <2> DEFINE a == order[i]
  <2>1. a \in A /\ heap[i].at = HeapStart(a) /\ heap[i].size = HeapEnd(a) - HeapStart(a)
        /\ heap[i].at + heap[i].size = HeapEnd(a) /\ i \in DOMAIN order
    BY <1>9
  <2> HIDE DEF a
  <2>2. heap[i].at % 4 = 0 /\ heap[i].size % 4 = 0 /\ heap[i].size >= 24
    BY <1>7, <2>1
  <2>3. /\ HeapStart(a) \in DOMAIN segs' /\ "H" \in segs'[HeapStart(a)].flags
        /\ HeapStart(a) <= heap[i].at
        /\ heap[i].at + heap[i].size <= segs'[HeapStart(a)].end
    BY <1>2, <1>5, <1>7, <2>1
  <2>4. ASSUME NEW j \in DOMAIN heap, i # j
        PROVE  NoCommonByte(heap[i], heap[j])
    <3>1. order[i] # order[j] /\ order[j] \in A
      BY <1>3, <1>9, <2>1, <2>4
    <3>2. HeapEnd(a) <= HeapStart(order[j]) \/ HeapEnd(order[j]) <= HeapStart(a)
      BY <1>13, <2>1, <3>1 DEF a
    <3> QED
      BY <1>9, <2>1, <3>2 DEF NoCommonByte
  <2> QED
    BY <2>2, <2>3, <2>4
<1>15. HeapApart'
  <2> SUFFICES ASSUME Fitted(segs), NEW p \in pieces, NEW n \in DOMAIN heap
               PROVE  NoCommonByte(p, heap[n])
    BY <1>1, <1>4, <1>8 DEF HeapApart
  <2> DEFINE a == order[n]
  <2>1. a \in A /\ heap[n].at = HeapStart(a) /\ heap[n].at + heap[n].size = HeapEnd(a)
    BY <1>9
  <2> HIDE DEF a
  <2>2. PICK b \in DOMAIN segs : b <= p.at /\ p.at + p.size <= segs[b].pc
    BY <1>2 DEF Held, Inside
  <2>3. p.at \in Nat /\ p.size \in Nat
    BY <1>2 DEF Held, Inside
  <2>4. /\ b \in Nat /\ segs[b].pc \in Nat /\ segs[b].end \in Nat /\ segs[b].pc <= segs[b].end
        /\ b < a => segs[b].end <= a
    BY <1>2, <1>7, <2>1, SegFacts DEF Fitted
  <2>5. /\ a \in Nat /\ a <= HeapStart(a) /\ segs[a].pc <= HeapStart(a) /\ HeapStart(a) \in Nat
        /\ HeapEnd(a) \in Int /\ (a < b => HeapEnd(a) <= b)
    BY <1>6, <1>7, <2>1
  <2>6. CASE b <= a
    <3>1. segs[b].pc <= HeapStart(a)
      BY <2>4, <2>5, <2>6
    <3>2. p.at + p.size <= heap[n].at
      BY <2>1, <2>2, <2>3, <2>4, <2>5, <3>1
    <3> QED
      BY <3>2 DEF NoCommonByte
  <2>7. CASE a < b
    <3>1. heap[n].at + heap[n].size <= p.at
      BY <2>1, <2>2, <2>3, <2>4, <2>5, <2>7
    <3> QED
      BY <3>1 DEF NoCommonByte
  <2> QED
    BY <2>4, <2>5, <2>6, <2>7
<1>16. Held(segs, pieces)'
  BY <1>1, <1>4
<1> QED
  BY <1>10, <1>11, <1>12, <1>14, <1>15, <1>16 DEF IInv

(* process_magic_bss keeps the invariant.                                  *)
LEMMA MagicBssInv ==
  ASSUME IInv, MagicBss
  PROVE  IInv'
<1> DEFINE A == {a \in DOMAIN segs : /\ a >= Page /\ segs[a].nbss < 0
                                     /\ segs[a].pc > a + 4}
<1>1. /\ outcome = "magic" /\ chains'.heap = chains.heap
      /\ segs' = [a \in DOMAIN segs |->
                    IF a \in A THEN [segs[a] EXCEPT !.buf = 4] ELSE segs[a]]
      /\ chains' = [bss |-> chains'.bss, heap |-> chains'.heap, made |-> chains'.made]
      /\ "heap" \in chains'.made <=> "heap" \in chains.made
      /\ UNCHANGED <<prog, stage, cursor, done, cur, pieces, outcome>>
  BY DEF MagicBss, Unmade, IInv, Typed
<1>2. Held(segs, pieces) /\ SegsOK(segs) /\ cur = Idle
  BY <1>1 DEF IInv, Held, StageOK
<1>3. DOMAIN segs' = DOMAIN segs
  BY <1>1
<1>4. ASSUME NEW a \in DOMAIN segs
      PROVE  /\ segs'[a] \in SegRec /\ segs'[a].pc = segs[a].pc /\ segs'[a].end = segs[a].end
             /\ segs'[a].flags = segs[a].flags
  <2>1. segs[a] \in SegRec
    BY <1>2, SegFacts
  <2>2. segs'[a] = segs[a] \/ segs'[a] = [segs[a] EXCEPT !.buf = 4]
    BY <1>1
  <2> QED
    BY <2>1, <2>2 DEF SegRec
<1> HIDE DEF A
<1>5. segs' \in [DOMAIN segs' -> SegRec]
  BY <1>1, <1>3, <1>4
<1>6. SegsOK(segs')
  BY <1>2, <1>3, <1>4, <1>5 DEF SegsOK
<1>7. Fitted(segs') <=> Fitted(segs)
  BY <1>3, <1>4 DEF Fitted
<1>8. \A p \in pieces : Inside(segs', p)
  BY <1>2, <1>3, <1>4 DEF Held, Inside
<1>9. Held(segs, pieces)'
  BY <1>1, <1>2, <1>6, <1>7, <1>8 DEF Held
<1>10. Typed'
  BY <1>1, <1>2 DEF IInv, Typed
<1>11. SegmentsFit' /\ PiecesHonored' /\ CurRoomy' /\ StageOK' /\ HeapApart'
  BY <1>1, <1>2, <1>7 DEF IInv, SegmentsFit, PiecesHonored, CurRoomy, StageOK, HeapApart
<1>12. HeapUsable'
  BY <1>1, <1>3, <1>4 DEF IInv, HeapUsable
<1> QED
  BY <1>9, <1>10, <1>11, <1>12 DEF IInv

(* The final verification keeps the invariant.                             *)
LEMMA VerifyInv ==
  ASSUME IInv, Verify
  PROVE  IInv'
<1>1. /\ outcome = "magic" /\ UNCHANGED <<prog, segs, stage, cursor, done, cur, pieces, chains>>
      /\ outcome' \in {"fatal", "linked"}
      /\ outcome' = "linked" => ~ \E a \in DOMAIN segs : segs[a].pc > segs[a].end
  BY DEF Verify
<1>2. cur = Idle /\ SegsOK(segs)
  BY <1>1 DEF IInv, StageOK, Held
<1>3. outcome' = "linked" => Fitted(segs)
  <2> SUFFICES ASSUME outcome' = "linked", NEW a \in DOMAIN segs
               PROVE  segs[a].pc <= segs[a].end
    BY DEF Fitted
  <2>1. segs[a].pc \in Nat /\ segs[a].end \in Nat
    BY <1>2, SegFacts
  <2> QED
    BY <1>1, <2>1
<1>4. stage \in 1 .. Stages /\ cursor \in Nat
  BY DEF IInv, Typed
<1> QED
  BY <1>1, <1>2, <1>3, <1>4, FrameInv

(* Every step keeps the invariant.                                         *)
LEMMA NextInv ==
  ASSUME IInv, [Next]_vars
  PROVE  IInv'
<1>1. ASSUME NEW i \in DOMAIN prog, PlaceData(i) \/ PlaceCode(i)
      PROVE  IInv'
  BY <1>1, PlaceDataInv, PlaceCodeInv
<1>2. ASSUME NEW need \in Needs, Hop(need)
      PROVE  IInv'
  BY <1>2, HopInv
<1>3. ASSUME NEW k \in Instrs, Instruction(k)
      PROVE  IInv'
  BY <1>3, InstructionInv
<1>4. ASSUME NEW k \in {2, Jump}, Branch(k)
      PROVE  IInv'
  BY <1>4, BranchInv
<1>5. CASE EndCode \/ NextStage
  BY <1>5, EndCodeInv, NextStageInv
<1>6. CASE MagicBss \/ MagicHeap \/ Verify
  BY <1>6, MagicBssInv, MagicHeapInv, VerifyInv
<1>7. CASE Exited \/ UNCHANGED vars
  <2>1. UNCHANGED vars
    BY <1>7 DEF Exited
  <2>2. /\ stage \in 1 .. Stages /\ cursor \in Nat
        /\ outcome \in {"placing", "magic", "linked", "stop", "fatal", "assert"}
        /\ outcome \in {"magic", "linked"} => cur = Idle
        /\ outcome = "linked" => Fitted(segs)
        /\ outcome = "placing" => chains.heap = <<>>
    BY DEF IInv, Typed, StageOK, SegmentsFit
  <2> QED
    BY <2>1, <2>2, FrameInv DEF vars
<1> QED
  BY <1>1, <1>2, <1>3, <1>4, <1>5, <1>6, <1>7 DEF Next

-----------------------------------------------------------------------------

(* The invariant holds of every program, map and target.                   *)
THEOREM SegmentsInvariant == Spec => []IInv
<1>1. Init => IInv
  BY InitInv
<1>2. IInv /\ [Next]_vars => IInv'
  BY NextInv
<1> QED
  BY <1>1, <1>2, PTL DEF Spec

(* Pieces in the used parts of segments that are apart have no byte in     *)
(* common.                                                                 *)
LEMMA OwnedOnce ==
  ASSUME IInv
  PROVE  /\ TypeOK /\ SegmentsApart
         /\ Fitted(segs) => BytesOwnedOnce
<1>1. SegsOK(segs) /\ Typed
  BY DEF IInv, Held
<1>2. SegmentsApart
  BY <1>1 DEF SegmentsApart, SegsOK
<1>3. TypeOK
  <2>1. \A a \in DOMAIN segs :
          /\ a \in Nat /\ segs[a].end \in Nat /\ segs[a].pc \in Nat
          /\ segs[a].nbss \in {-1, 0, 1} /\ segs[a].buf \in Nat \cup {NoBuffer}
          /\ segs[a].flags \subseteq Flags
    BY <1>1, SegFacts, SegFields
  <2>2. cur # Idle => cur.seg \in DOMAIN segs
    BY DEF IInv, CurRoomy, Roomy
  <2> QED
    BY <1>1, <2>1, <2>2 DEF TypeOK, Typed
<1>4. Fitted(segs) => BytesOwnedOnce
  BY <1>2, <1>3 DEF IInv, Held, HeapApart, BytesOwnedOnce
<1> QED
  BY <1>2, <1>3, <1>4

(* No byte is given to two segments, whatever the programs, and none to two *)
(* fragments, or to a fragment and to the heap, when the addresses that    *)
(* constrain data are aligned like the data.                               *)
THEOREM BytesOwned ==
  ASSUME PlacesAligned
  PROVE  Spec => []BytesOwnedOnce
<1>1. IInv => BytesOwnedOnce
  BY OwnedOnce DEF IInv, SegmentsFit
<1> QED
  BY <1>1, SegmentsInvariant, PTL

(* Without that hypothesis, all the same once the program is linked: the   *)
(* last check of glink.py, that no segment is overfull, is enough.         *)
THEOREM LinkedBytesOwned ==
  Spec => [](TypeOK /\ SegmentsApart /\ (outcome = "linked" => BytesOwnedOnce))
<1>1. IInv => TypeOK /\ SegmentsApart /\ (outcome = "linked" => BytesOwnedOnce)
  BY OwnedOnce DEF IInv, SegmentsFit
<1> QED
  BY <1>1, SegmentsInvariant, PTL

(* Code never crosses the end of a page, and a function that hops always   *)
(* has room for the jump that leaves a segment.                            *)
THEOREM CodeStaysInPage == Spec => []CodeInPage
<1>1. IInv => CodeInPage
  <2> SUFFICES ASSUME IInv
               PROVE  CodeInPage
    OBVIOUS
  <2>1. ASSUME Hopping
        PROVE  BytesLeft >= Jump
    <3>1. /\ cur \in CurRec /\ SegsOK(segs) /\ cur.seg \in DOMAIN segs
          /\ segs[cur.seg].pc + cur.sent + Jump <= segs[cur.seg].end
      BY <2>1 DEF IInv, Typed, Hopping, CurRoomy, Roomy, Held
    <3>2. cur.sent \in Nat /\ segs[cur.seg].pc \in Nat /\ segs[cur.seg].end \in Nat
          /\ Jump \in Nat
      BY <3>1, SegFacts, InstrFacts DEF CurRec
    <3> QED
      BY <3>1, <3>2 DEF BytesLeft
  <2>2. \A p \in pieces : Code(Fragment(p)) => (p.at % Page) + p.size <= Page
    BY DEF IInv, PiecesHonored, Honored, Fragment
  <2> QED
    BY <2>1, <2>2 DEF CodeInPage
<1> QED
  BY <1>1, SegmentsInvariant, PTL

(* What malloc.c assumes of the heap segments that the linker makes.       *)
THEOREM HeapAlwaysUsable == Spec => []HeapUsable
<1>1. IInv => HeapUsable
  BY DEF IInv
<1> QED
  BY <1>1, SegmentsInvariant, PTL

(* A fragment with org is at that very address, and the places, offsets,   *)
(* pages and alignments asked for are those of every piece, when those of  *)
(* data are aligned like the data. Of a function that may hop, only the    *)
(* room for a jump is before AMAX.                                         *)
THEOREM PlacementHonored ==
  ASSUME PlacesAligned
  PROVE  Spec => []HonorsPlacement
<1>1. IInv => HonorsPlacement
  <2> SUFFICES ASSUME IInv, NEW p \in pieces
               PROVE  LET f == Fragment(p)
                      IN  /\ Hard(f) => p.at = f.amin
                          /\ f.amin # None => f.amin <= p.at
                          /\ f.amax # None =>
                               p.at + (IF MayHop(f) THEN Jump ELSE p.size) <= f.amax + 1
                          /\ f.aoff # None => p.at % Page = f.aoff
                          /\ f.nohop => (p.at % Page) + p.size <= Page
                          /\ p.at % (IF Align(f) > 1 THEN Align(f) ELSE 1) = 0
    BY DEF HonorsPlacement
  <2>1. Honored(prog[p.frag], p) /\ AlignedPlace(prog[p.frag])
    BY ProgFacts DEF IInv, Typed, PiecesHonored
  <2> QED
    BY <2>1 DEF Honored, Fragment
<1> QED
  BY <1>1, SegmentsInvariant, PTL

-----------------------------------------------------------------------------
(* Every byte of every fragment goes to one piece.                         *)

(* The pieces P have the first n bytes of fragment i, each once. *)
Cover(P, i, n) ==
  /\ \A b \in 0 .. n - 1 : \E p \in P : Has(p, i, b)
  /\ \A p \in P : p.frag = i => p.upto <= n
  /\ \A p, q \in P : \A b \in Nat : Has(p, i, b) /\ Has(q, i, b) => p = q

Lengths(P) ==
  \A p \in P : /\ p.from \in Nat /\ p.upto \in Nat /\ p.size \in Nat
               /\ p.upto - p.from <= p.size

Emitted(i) ==
  IF i \in done THEN prog[i].size
  ELSE IF cur # Idle /\ cur.frag = i THEN prog[i].size - cur.left - cur.sent
  ELSE 0

(* In the last stage, what is behind the loop is done. *)
LastStage ==
  stage = Stages =>
    \A i \in DOMAIN prog : i < cursor \/ (cur # Idle /\ i < cur.frag) => i \in done

CoverInv ==
  /\ Lengths(pieces)
  /\ \A i \in DOMAIN prog : Cover(pieces, i, Emitted(i))
  /\ cur # Idle => cur.left \in Nat /\ cur.left + cur.sent <= prog[cur.frag].size
  /\ LastStage
  /\ outcome \in {"magic", "linked"} => done = DOMAIN prog

(* A piece that begins where the previous ones end covers more of the      *)
(* fragment.                                                               *)
LEMMA CoverMore ==
  ASSUME NEW P, Lengths(P), NEW i, NEW n \in Nat, Cover(P, i, n),
         NEW p, p.frag = i, p.from = n, p.upto \in Nat, n <= p.upto,
         p.size \in Nat, p.upto - p.from <= p.size
  PROVE  /\ Lengths(P \cup {p}) /\ Cover(P \cup {p}, i, p.upto)
         /\ \A j, k : j # i /\ Cover(P, j, k) => Cover(P \cup {p}, j, k)
<1>1. Lengths(P \cup {p})
  BY DEF Lengths
<1>2. ASSUME NEW b \in 0 .. p.upto - 1
      PROVE  \E q \in P \cup {p} : Has(q, i, b)
  <2>1. CASE b < n
    BY <2>1 DEF Cover
  <2>2. CASE n <= b
    BY <2>2 DEF Has
  <2> QED
    BY <2>1, <2>2
<1>3. ASSUME NEW q \in P, q.frag = i
      PROVE  q.upto <= n /\ q.upto \in Nat /\ q.upto <= p.upto
  BY <1>3 DEF Cover, Lengths
<1>4. ASSUME NEW q \in P, NEW b \in Nat, Has(q, i, b), Has(p, i, b)
      PROVE  FALSE
  BY <1>3, <1>4 DEF Has
<1>5. ASSUME NEW q \in P \cup {p}, NEW r \in P \cup {p}, NEW b \in Nat,
             Has(q, i, b), Has(r, i, b)
      PROVE  q = r
  BY <1>4, <1>5 DEF Cover
<1>6. Cover(P \cup {p}, i, p.upto)
  BY <1>2, <1>3, <1>5 DEF Cover
<1>7. ASSUME NEW j, NEW k, j # i, Cover(P, j, k)
      PROVE  Cover(P \cup {p}, j, k)
  <2>1. \A b : ~ Has(p, j, b)
    BY <1>7 DEF Has
  <2>2. p.frag # j
    BY <1>7
  <2> QED
    BY <1>7, <2>1, <2>2 DEF Cover
<1> QED
  BY <1>1, <1>6, <1>7

(* What has no effect on the pieces.                                       *)
LEMMA CoverFrame ==
  ASSUME CoverInv, prog' = prog, pieces' = pieces, done' = done, cur' = cur,
         LastStage', outcome' \in {"magic", "linked"} => done = DOMAIN prog
  PROVE  CoverInv'
<1>1. \A i : Emitted(i)' = Emitted(i)
  BY DEF Emitted
<1> QED
  BY <1>1 DEF CoverInv

(* Indices and sizes of the fragments.                                     *)
LEMMA ProgDomain ==
  ASSUME IInv
  PROVE  /\ Len(prog) \in Nat /\ DOMAIN prog = 1 .. Len(prog)
         /\ cursor \in Nat /\ stage \in 1 .. Stages
         /\ \A i \in DOMAIN prog : i \in Nat /\ prog[i].size \in Nat \ {0}
         /\ cur # Idle => cur \in CurRec /\ cur.frag \in DOMAIN prog \ done
<1>1. PICK link \in Links : prog = link.prog
  BY DEF Programs, IInv, Typed
<1>2. prog \in Seq(Fragments)
  BY <1>1, SegmentsAssumption
<1>3. Len(prog) \in Nat /\ DOMAIN prog = 1 .. Len(prog)
  BY <1>2
<1>4. ASSUME NEW i \in DOMAIN prog
      PROVE  i \in Nat /\ prog[i].size \in Nat \ {0}
  <2>1. prog[i] \in Fragments
    BY <1>2, <1>4
  <2> QED
    BY <1>3, <2>1 DEF Fragments
<1>5. cursor \in Nat /\ stage \in 1 .. Stages
  BY DEF IInv, Typed
<1>6. cur # Idle => cur \in CurRec /\ cur.frag \in DOMAIN prog \ done
  BY DEF IInv, Typed
<1> QED
  BY <1>3, <1>4, <1>5, <1>6

(* The fragment that is placed is the first that is left, in the last stage. *)
LEMMA LastTodo ==
  ASSUME IInv, CoverInv, stage = Stages, NEW j \in DOMAIN prog, j \notin Todo, j \notin done
  PROVE  j < cursor
<1>1. Selects(stage, prog[j])
  BY DEF Selects, Stages
<1>2. j \in Nat /\ j <= Len(prog) /\ cursor \in Nat /\ Len(prog) \in Nat
  BY ProgDomain
<1> QED
  BY <1>1, <1>2 DEF Todo

(* So what is before the fragment that is placed, in the last stage, is    *)
(* done.                                                                   *)
LEMMA PlacingLast ==
  ASSUME IInv, CoverInv, NEW i \in DOMAIN prog, Placing(i), stage = Stages,
         NEW j \in DOMAIN prog, j < i
  PROVE  j \in done
<1>1. j \notin Todo
  <2>1. j \in Nat /\ i \in Nat
    BY ProgDomain
  <2> QED
    BY <2>1 DEF Placing
<1> QED
  BY <1>1, LastTodo DEF CoverInv, LastStage

(* A fragment placed in one piece is covered.                              *)
LEMMA WholeCover ==
  ASSUME IInv, CoverInv, NEW i \in DOMAIN prog, Placing(i), NEW hit, Whole(i, hit)
  PROVE  CoverInv'
<1> DEFINE O == Opened(segs, hit.seg, hit.addr, prog[i])
           skip == Aligned(hit.addr, Align(prog[i])) - hit.addr
           p == Piece(O.segs, i, 0, prog[i].size, O.seg, skip, prog[i].size)
<1>1. /\ pieces' = pieces \cup {p} /\ done' = done \cup {i} /\ cursor' = i + 1
      /\ prog' = prog /\ stage' = stage /\ cur' = cur /\ outcome' = outcome
  BY DEF Whole
<1>2. p.frag = i /\ p.from = 0 /\ p.upto = prog[i].size /\ p.size = prog[i].size
  BY DEF Piece
<1> HIDE DEF p
<1>3. i \notin done /\ cur = Idle /\ outcome = "placing" /\ prog[i].size \in Nat /\ i \in Nat
  BY ProgDomain DEF Placing, Todo
<1>4. Emitted(i) = 0 /\ Emitted(i)' = prog[i].size
  BY <1>1, <1>3 DEF Emitted
<1>5. \A j \in DOMAIN prog : j # i => Emitted(j)' = Emitted(j)
  BY <1>1, <1>3 DEF Emitted
<1>6. /\ Lengths(pieces') /\ Cover(pieces', i, prog[i].size)
      /\ \A j, k : j # i /\ Cover(pieces, j, k) => Cover(pieces', j, k)
  <2>1. Lengths(pieces) /\ Cover(pieces, i, 0)
    BY <1>4 DEF CoverInv
  <2>2. /\ p.upto \in Nat /\ 0 \in Nat /\ 0 <= p.upto /\ p.size \in Nat
        /\ p.upto - p.from <= p.size
    BY <1>2, <1>3
  <2>3. /\ Lengths(pieces \cup {p}) /\ Cover(pieces \cup {p}, i, p.upto)
        /\ \A j, k : j # i /\ Cover(pieces, j, k) => Cover(pieces \cup {p}, j, k)
    BY <1>2, <2>1, <2>2, CoverMore
  <2>4. pieces' = pieces \cup {p}
    BY <1>1
  <2> QED
    BY <1>2, <2>3, <2>4
<1>7. \A j \in DOMAIN prog : Cover(pieces', j, Emitted(j)')
  BY <1>4, <1>5, <1>6 DEF CoverInv
<1>8. LastStage'
  <2> SUFFICES ASSUME stage = Stages, NEW j \in DOMAIN prog, j < i + 1
               PROVE  j \in done \cup {i}
    BY <1>1, <1>3 DEF LastStage
  <2>1. j < i \/ j = i
    BY <1>3, ProgDomain
  <2> QED
    BY <2>1, PlacingLast
<1> QED
  BY <1>1, <1>3, <1>6, <1>7, <1>8 DEF CoverInv

(* One that is put off is not yet, and not for ever: not in the last       *)
(* stage.                                                                  *)
LEMMA UnplacedCover ==
  ASSUME IInv, CoverInv, NEW i \in DOMAIN prog, Placing(i), NEW kind, Unplaced(i, kind)
  PROVE  CoverInv'
<1>1. /\ prog' = prog /\ stage' = stage /\ done' = done /\ cur' = cur /\ pieces' = pieces
      /\ outcome' \in {"placing", "assert", "stop"}
  BY DEF Unplaced, Placing
<1>2. stage = Stages => ~ FirstGo
  BY DEF FirstGo, Stages
<1>3. stage = Stages => cursor' = cursor
  BY <1>2 DEF Unplaced
<1>4. LastStage'
  BY <1>1, <1>3 DEF CoverInv, LastStage
<1> QED
  BY <1>1, <1>4, CoverFrame

(* The placement of data covers its bytes once.                            *)
LEMMA PlaceDataCover ==
  ASSUME IInv, CoverInv, NEW i \in DOMAIN prog, PlaceData(i)
  PROVE  CoverInv'
<1> DEFINE hit == Find(segs, prog[i], prog[i].size, FirstGo)
<1>1. Placing(i) /\ (Whole(i, hit) \/ Unplaced(i, hit.kind))
  BY DEF PlaceData
<1> HIDE DEF hit
<1> QED
  BY <1>1, WholeCover, UnplacedCover

(* A function that will hop starts with none of its bytes.                 *)
LEMMA PlaceCodeCover ==
  ASSUME IInv, CoverInv, NEW i \in DOMAIN prog, PlaceCode(i)
  PROVE  CoverInv'
<1>1. /\ Placing(i)
      /\ \/ \E hit : Whole(i, hit)
         \/ \E kind : Unplaced(i, kind)
         \/ /\ \E a : cur' = [frag |-> i, seg |-> a, sent |-> 0, left |-> prog[i].size]
            /\ UNCHANGED <<prog, stage, cursor, done, pieces, chains, outcome>>
  BY DEF PlaceCode
<1>2. CASE \E hit : Whole(i, hit)
  BY <1>1, <1>2, WholeCover
<1>3. CASE \E kind : Unplaced(i, kind)
  BY <1>1, <1>3, UnplacedCover
<1>4. CASE /\ \E a : cur' = [frag |-> i, seg |-> a, sent |-> 0, left |-> prog[i].size]
           /\ UNCHANGED <<prog, stage, cursor, done, pieces, chains, outcome>>
  <2>1. /\ cur'.frag = i /\ cur'.sent = 0 /\ cur'.left = prog[i].size
        /\ prog' = prog /\ stage' = stage /\ cursor' = cursor /\ done' = done
        /\ pieces' = pieces /\ outcome' = outcome
    BY <1>4
  <2>2. i \notin done /\ cur = Idle /\ outcome = "placing" /\ prog[i].size \in Nat /\ i \in Nat \ {0}
    BY <1>1, ProgDomain DEF Placing, Todo
  <2>3. cur' # Idle
    BY <2>1, <2>2 DEF Idle
  <2>4. \A j \in DOMAIN prog : Emitted(j)' = Emitted(j)
    BY <2>1, <2>2, <2>3 DEF Emitted
  <2>5. LastStage'
    <3> SUFFICES ASSUME stage = Stages, NEW j \in DOMAIN prog, j < cursor \/ j < i
                 PROVE  j \in done
      BY <2>1, <2>3 DEF LastStage
    <3> QED
      BY <1>1, PlacingLast DEF CoverInv, LastStage
  <2> QED
    BY <2>1, <2>2, <2>4, <2>5 DEF CoverInv
<1> QED
  BY <1>1, <1>2, <1>3, <1>4

(* The piece that ends a stay in a segment. *)
LEMMA PiecesCover ==
  ASSUME IInv, CoverInv, Hopping, NEW extra \in Nat, NEW left \in Nat,
         left <= cur.left, cur.left - left <= extra,
         NEW P, P = Pieces(extra, left)
  PROVE  /\ Lengths(P) /\ Cover(P, cur.frag, prog[cur.frag].size - left)
         /\ \A j \in DOMAIN prog : j # cur.frag => Cover(P, j, Emitted(j))
<1> DEFINE i == cur.frag
           size == prog[i].size
           n == size - cur.left - cur.sent
           p == Piece(segs, i, n, size - left, cur.seg, 0, cur.sent + extra)
<1>1. /\ i \in DOMAIN prog /\ i \notin done /\ cur # Idle
      /\ cur.sent \in Nat /\ cur.left \in Nat /\ cur.left + cur.sent <= size /\ size \in Nat
  BY ProgDomain DEF Hopping, CurRec, CoverInv
<1>2. P = IF cur.sent + extra = 0 THEN pieces ELSE pieces \cup {p}
  BY DEF Pieces
<1>3. p.frag = i /\ p.from = n /\ p.upto = size - left /\ p.size = cur.sent + extra
  BY DEF Piece
<1>4. Lengths(pieces) /\ \A j \in DOMAIN prog : Cover(pieces, j, Emitted(j))
  BY DEF CoverInv
<1>5. Emitted(i) = n
  BY <1>1 DEF Emitted
<1>6. /\ n \in Nat /\ size - left \in Nat /\ n <= size - left
      /\ cur.sent + extra \in Nat /\ (size - left) - n <= cur.sent + extra
  BY <1>1
<1> HIDE DEF p
<1>7. CASE cur.sent + extra = 0
  <2>a. cur.sent = 0 /\ extra = 0
    BY <1>1, <1>7
  <2>b. cur.left = left
    BY <1>1, <2>a
  <2>c. size - cur.left - cur.sent = size - left
    BY <1>1, <2>a, <2>b
  <2>1. n = size - left /\ P = pieces
    BY <1>2, <1>7, <2>c
  <2> QED
    BY <1>1, <1>4, <1>5, <2>1
<1>8. CASE cur.sent + extra # 0
  <2>1. P = pieces \cup {p}
    BY <1>2, <1>8
  <2>2. Cover(pieces, i, n)
    BY <1>1, <1>4, <1>5
  <2> HIDE DEF n, size, i
  <2>3. /\ Lengths(pieces \cup {p}) /\ Cover(pieces \cup {p}, i, p.upto)
        /\ \A j, k : j # i /\ Cover(pieces, j, k) => Cover(pieces \cup {p}, j, k)
    BY <1>3, <1>4, <1>6, <2>2, CoverMore
  <2> QED
    BY <1>3, <1>4, <2>1, <2>3 DEF size, i
<1> QED
  BY <1>7, <1>8

(* A hop ends a piece where the next one begins.                           *)
LEMMA HopAfterCover ==
  ASSUME IInv, CoverInv, Hopping, NEW extra \in Nat, NEW left \in Nat,
         left <= cur.left, cur.left - left <= extra,
         NEW need, HopAfter(extra, need, left)
  PROVE  CoverInv'
<1> DEFINE S == Filled(segs, cur.seg, cur.sent + extra)
<1>1. \/ /\ \E a : cur' = [cur EXCEPT !.seg = a, !.sent = 0, !.left = left]
         /\ pieces' = Pieces(extra, left)
         /\ UNCHANGED <<prog, stage, cursor, done, chains, outcome>>
      \/ /\ outcome' \in {"fatal", "stop", "assert"}
         /\ UNCHANGED <<cur, pieces, prog, stage, cursor, done, chains>>
  BY DEF HopAfter
<1>2. /\ cur \in CurRec /\ cur # Idle /\ outcome = "placing" /\ cur.frag \in DOMAIN prog \ done
      /\ cur.left \in Nat /\ cur.sent \in Nat /\ prog[cur.frag].size \in Nat
      /\ cur.left + cur.sent <= prog[cur.frag].size
  BY ProgDomain DEF Hopping, CurRec, CoverInv
<1>3. CASE /\ \E a : cur' = [cur EXCEPT !.seg = a, !.sent = 0, !.left = left]
           /\ pieces' = Pieces(extra, left)
           /\ UNCHANGED <<prog, stage, cursor, done, chains, outcome>>
  <2>1. /\ cur'.frag = cur.frag /\ cur'.sent = 0 /\ cur'.left = left
        /\ prog' = prog /\ stage' = stage /\ cursor' = cursor /\ done' = done
        /\ pieces' = Pieces(extra, left) /\ outcome' = outcome
    BY <1>2, <1>3 DEF CurRec
  <2>2. cur' # Idle
    BY <1>2, <2>1, ProgDomain DEF Idle, CurRec
  <2>3. /\ Lengths(pieces') /\ Cover(pieces', cur.frag, prog[cur.frag].size - left)
        /\ \A j \in DOMAIN prog : j # cur.frag => Cover(pieces', j, Emitted(j))
    BY <2>1, PiecesCover
  <2>4. ASSUME NEW j \in DOMAIN prog
        PROVE  Emitted(j)' = IF j = cur.frag THEN prog[j].size - left ELSE Emitted(j)
    <3>1. CASE j = cur.frag
      <4>1. Emitted(j)' = prog'[j].size - cur'.left - cur'.sent
        BY <1>2, <2>1, <2>2, <3>1 DEF Emitted
      <4> QED
        BY <1>2, <2>1, <3>1, <4>1
    <3>2. CASE j # cur.frag
      BY <1>2, <2>1, <2>2, <3>2 DEF Emitted
    <3> QED
      BY <3>1, <3>2
  <2>5. ASSUME NEW j \in DOMAIN prog
        PROVE  Cover(pieces', j, Emitted(j)')
    <3>1. CASE j = cur.frag
      BY <2>3, <2>4, <3>1
    <3>2. CASE j # cur.frag
      <4>1. Emitted(j)' = Emitted(j) /\ Cover(pieces', j, Emitted(j))
        BY <2>3, <2>4, <3>2
      <4> QED
        BY <4>1
    <3> QED
      BY <3>1, <3>2
  <2>6. LastStage'
    BY <1>2, <2>1, <2>2 DEF CoverInv, LastStage
  <2>7. cur'.left \in Nat /\ cur'.left + cur'.sent <= prog'[cur'.frag].size
    BY <1>2, <2>1
  <2> QED
    BY <1>2, <2>1, <2>3, <2>5, <2>6, <2>7 DEF CoverInv
<1>4. CASE /\ outcome' \in {"fatal", "stop", "assert"}
           /\ UNCHANGED <<cur, pieces, prog, stage, cursor, done, chains>>
  <2>1. LastStage'
    BY <1>4 DEF CoverInv, LastStage
  <2> QED
    BY <1>4, <2>1, CoverFrame
<1> QED
  BY <1>1, <1>3, <1>4

(* Bytes that are emitted are part of no piece until the stay in the       *)
(* segment ends.                                                           *)
LEMMA SentCover ==
  ASSUME IInv, CoverInv, Hopping, NEW k \in Nat, k <= cur.left,
         cur' = [cur EXCEPT !.sent = @ + k, !.left = @ - k],
         UNCHANGED <<prog, segs, stage, cursor, done, pieces, chains, outcome>>
  PROVE  CoverInv'
<1>1. /\ cur \in CurRec /\ cur # Idle /\ cur.frag \in DOMAIN prog \ done
      /\ cur.left \in Nat /\ cur.sent \in Nat /\ prog[cur.frag].size \in Nat
      /\ cur.left + cur.sent <= prog[cur.frag].size
  BY ProgDomain DEF Hopping, CurRec, CoverInv
<1>2. cur'.frag = cur.frag /\ cur'.sent = cur.sent + k /\ cur'.left = cur.left - k
  BY <1>1 DEF CurRec
<1>3. cur' # Idle
  BY <1>1, <1>2, ProgDomain DEF Idle, CurRec
<1>4. \A j \in DOMAIN prog : Emitted(j)' = Emitted(j)
  <2> SUFFICES ASSUME NEW j \in DOMAIN prog
               PROVE  Emitted(j)' = Emitted(j)
    OBVIOUS
  <2>1. CASE j = cur.frag
    <3>1. prog[j].size - (cur.left - k) - (cur.sent + k) = prog[j].size - cur.left - cur.sent
      BY <1>1, <2>1
    <3> QED
      BY <1>1, <1>2, <1>3, <2>1, <3>1 DEF Emitted
  <2>2. CASE j # cur.frag
    BY <1>1, <1>2, <1>3, <2>2 DEF Emitted
  <2> QED
    BY <2>1, <2>2
<1>5. LastStage'
  BY <1>1, <1>2, <1>3 DEF CoverInv, LastStage
<1>6. cur'.left \in Nat /\ cur'.left + cur'.sent <= prog'[cur'.frag].size
  BY <1>1, <1>2
<1> QED
  BY <1>4, <1>5, <1>6 DEF CoverInv

(* At the end of a function its last piece ends with its last byte.        *)
LEMMA EndCodeCover ==
  ASSUME IInv, CoverInv, EndCode
  PROVE  CoverInv'
<1>1. /\ Hopping /\ cur.left = 0 /\ pieces' = Pieces(0, 0)
      /\ done' = done \cup {cur.frag} /\ cursor' = cur.frag + 1 /\ cur' = Idle
      /\ UNCHANGED <<prog, stage, chains, outcome>>
  BY DEF EndCode
<1>2. /\ cur \in CurRec /\ cur # Idle /\ outcome = "placing"
      /\ cur.frag \in DOMAIN prog \ done /\ prog[cur.frag].size \in Nat /\ cur.frag \in Nat
  BY <1>1, ProgDomain DEF Hopping
<1>3. /\ Lengths(pieces') /\ Cover(pieces', cur.frag, prog[cur.frag].size - 0)
      /\ \A j \in DOMAIN prog : j # cur.frag => Cover(pieces', j, Emitted(j))
  BY <1>1, PiecesCover
<1>4. ASSUME NEW j \in DOMAIN prog
      PROVE  Emitted(j)' = IF j = cur.frag THEN prog[j].size ELSE Emitted(j)
  <2>1. prog' = prog /\ cur' = Idle /\ done' = done \cup {cur.frag}
    BY <1>1
  <2>2. Emitted(j)' = IF j \in done' THEN prog[j].size ELSE 0
    BY <2>1 DEF Emitted
  <2>3. CASE j = cur.frag
    BY <2>1, <2>2, <2>3
  <2>4. CASE j # cur.frag
    <3>1. Emitted(j) = IF j \in done THEN prog[j].size ELSE 0
      BY <1>2, <2>4 DEF Emitted
    <3> QED
      BY <2>1, <2>2, <2>4, <3>1
  <2> QED
    BY <2>3, <2>4
<1>5. prog[cur.frag].size - 0 = prog[cur.frag].size
  BY <1>2
<1>6. ASSUME NEW j \in DOMAIN prog
      PROVE  Cover(pieces', j, Emitted(j)')
  <2>1. CASE j = cur.frag
    <3>1. Emitted(j)' = prog[cur.frag].size - 0
      BY <1>4, <1>5, <2>1
    <3> QED
      BY <1>3, <2>1, <3>1
  <2>2. CASE j # cur.frag
    <3>1. Emitted(j)' = Emitted(j) /\ Cover(pieces', j, Emitted(j))
      BY <1>3, <1>4, <2>2
    <3> QED
      BY <3>1
  <2> QED
    BY <2>1, <2>2
<1>7. LastStage'
  <2> SUFFICES ASSUME stage = Stages, NEW j \in DOMAIN prog, j < cur.frag + 1
               PROVE  j \in done \cup {cur.frag}
    BY <1>1 DEF LastStage
  <2>1. j < cur.frag \/ j = cur.frag
    BY <1>2, ProgDomain
  <2> QED
    BY <1>2, <2>1 DEF CoverInv, LastStage
<1> QED
  BY <1>1, <1>2, <1>3, <1>6, <1>7 DEF CoverInv

(* After the last stage no fragment is left.                               *)
LEMMA NextStageCover ==
  ASSUME IInv, CoverInv, NextStage
  PROVE  CoverInv'
<1>1. /\ cur = Idle /\ Todo = {} /\ outcome = "placing"
      /\ UNCHANGED <<prog, segs, done, cur, pieces, chains>>
  BY DEF NextStage
<1>2. CASE stage < Stages
  <2>1. cursor' = 1 /\ outcome' = outcome
    BY <1>2 DEF NextStage
  <2>2. LastStage'
    BY <1>1, <2>1, ProgDomain DEF LastStage
  <2> QED
    BY <1>1, <2>1, <2>2, CoverFrame
<1>3. CASE ~ (stage < Stages)
  <2>1. stage = Stages /\ stage' = stage /\ cursor' = cursor
    BY <1>3, ProgDomain DEF NextStage, Stages
  <2>2. done = DOMAIN prog
    <3>1. \A j \in DOMAIN prog : j \in done
      BY <1>1, <2>1, LastTodo DEF CoverInv, LastStage
    <3> QED
      BY <3>1 DEF IInv, Typed
  <2>3. LastStage'
    BY <1>1, <2>1 DEF CoverInv, LastStage
  <2> QED
    BY <1>1, <2>2, <2>3, CoverFrame
<1> QED
  BY <1>2, <1>3

(* Every step keeps the cover.                                             *)
LEMMA NextCover ==
  ASSUME IInv, CoverInv, [Next]_vars
  PROVE  CoverInv'
<1>1. ASSUME NEW i \in DOMAIN prog, PlaceData(i) \/ PlaceCode(i)
      PROVE  CoverInv'
  BY <1>1, PlaceDataCover, PlaceCodeCover
<1>2. Hopping => cur.left \in Nat
  BY DEF Hopping, CoverInv
<1>3. ASSUME NEW need \in Needs, Hop(need)
      PROVE  CoverInv'
  <2>1. Hopping /\ HopAfter(Jump, need, cur.left)
    BY <1>3 DEF Hop
  <2>2. cur.left - cur.left <= Jump
    BY <1>2, <2>1, InstrFacts
  <2> QED
    BY <1>2, <2>1, <2>2, InstrFacts, HopAfterCover
<1>4. ASSUME NEW k \in Nat, k <= cur.left, Hopping,
             \/ HopAfter(k, Room(4), cur.left - k)
             \/ /\ cur' = [cur EXCEPT !.sent = @ + k, !.left = @ - k]
                /\ UNCHANGED <<prog, segs, stage, cursor, done, pieces, chains, outcome>>
      PROVE  CoverInv'
  <2>1. /\ cur.left - k \in Nat /\ cur.left - k <= cur.left
        /\ cur.left - (cur.left - k) <= k
    BY <1>2, <1>4
  <2>2. CASE HopAfter(k, Room(4), cur.left - k)
    BY <1>4, <2>1, <2>2, HopAfterCover
  <2>3. CASE /\ cur' = [cur EXCEPT !.sent = @ + k, !.left = @ - k]
             /\ UNCHANGED <<prog, segs, stage, cursor, done, pieces, chains, outcome>>
    BY <1>4, <2>3, SentCover
  <2> QED
    BY <1>4, <2>2, <2>3
<1>5. ASSUME NEW k \in Instrs, Instruction(k)
      PROVE  CoverInv'
  BY <1>4, <1>5, InstrFacts DEF Instruction
<1>6. ASSUME NEW k \in {2, Jump}, Branch(k)
      PROVE  CoverInv'
  <2>1. k \in Nat
    BY InstrFacts
  <2> QED
    BY <1>4, <1>6, <2>1 DEF Branch
<1>7. CASE EndCode \/ NextStage
  BY <1>7, EndCodeCover, NextStageCover
<1>8. CASE MagicBss \/ MagicHeap \/ Verify \/ Exited \/ UNCHANGED vars
  <2>1. /\ UNCHANGED <<prog, stage, cursor, done, cur, pieces>>
        /\ outcome' = outcome \/ outcome = "magic"
    BY <1>8 DEF MagicBss, MagicHeap, Verify, Exited, vars
  <2>2. LastStage'
    BY <2>1 DEF CoverInv, LastStage
  <2>3. outcome' \in {"magic", "linked"} => done = DOMAIN prog
    BY <2>1 DEF CoverInv
  <2> QED
    BY <2>1, <2>2, <2>3, CoverFrame
<1> QED
  BY <1>1, <1>3, <1>5, <1>6, <1>7, <1>8 DEF Next

(* A linked program has every byte of every fragment, once: no fragment is *)
(* left behind by the sixteen passes over the list, and a function that    *)
(* hops loses no instruction, nor emits one twice.                         *)
THEOREM EveryBytePlaced == Spec => []AllPlaced
<1>1. Init => CoverInv
  <2> SUFFICES ASSUME Init
               PROVE  CoverInv
    OBVIOUS
  <2>1. \A i \in DOMAIN prog : Emitted(i) = 0 /\ Cover(pieces, i, 0)
    BY DEF Init, Emitted, Cover
  <2>2. IInv
    BY InitInv
  <2>3. LastStage
    BY <2>2, ProgDomain DEF Init, LastStage
  <2> QED
    BY <2>1, <2>3 DEF Init, CoverInv, Lengths
<1>2. IInv /\ CoverInv /\ [Next]_vars => CoverInv'
  BY NextCover
<1>3. IInv /\ CoverInv => AllPlaced
  <2> SUFFICES ASSUME IInv, CoverInv
               PROVE  AllPlaced
    OBVIOUS
  <2>1. ASSUME outcome = "linked", NEW i \in DOMAIN prog, NEW b \in 0 .. prog[i].size - 1
        PROVE  \E p \in pieces : Has(p, i, b) /\ \A q \in pieces \ {p} : ~ Has(q, i, b)
    <3>1. i \in done /\ b \in Nat
      BY <2>1, ProgDomain DEF CoverInv
    <3>2. Cover(pieces, i, prog[i].size)
      BY <3>1 DEF CoverInv, Emitted
    <3> QED
      BY <3>1, <3>2 DEF Cover
  <2> QED
    BY <2>1 DEF AllPlaced, CoverInv, Lengths
<1> QED
  BY <1>1, <1>2, <1>3, SegmentsInvariant, PTL DEF Spec

-----------------------------------------------------------------------------
(* What the image loads, and what the runtime clears.                      *)

(* Where bytes were emitted in S, the segments T have the same kind, and   *)
(* at least the same bytes.                                                *)
Grown(S, T) ==
  \A b \in DOMAIN S : S[b].nbss # 0 /\ b < S[b].pc =>
    /\ b \in DOMAIN T /\ T[b].nbss = S[b].nbss
    /\ T[b].pc \in Nat /\ S[b].pc <= T[b].pc
    /\ T[b].buf \in Int /\ S[b].buf <= T[b].buf

(* The bytes of the piece p of f are in the buffer of a segment of its kind. *)
Stored(S, f, p) ==
  \E a \in DOMAIN S :
    /\ a <= p.at /\ p.at + p.size <= S[a].pc
    /\ S[a].nbss = Sign(f) /\ p.img + p.size <= a + S[a].buf

(* The list C for the runtime has the bytes of p. *)
Listed(C, p) ==
  \E n \in DOMAIN C : C[n].at <= p.at /\ p.at + p.size <= C[n].at + C[n].size

(* What C has is the used part of segments of bss. *)
ListsBss(S, C) ==
  \A n \in DOMAIN C :
    /\ C[n].at \in DOMAIN S /\ C[n].size \in Nat \ {0}
    /\ S[C[n].at].nbss = -1 /\ C[n].at + C[n].size <= S[C[n].at].pc

Backed(S, C, f, p) ==
  /\ p.at \in Nat /\ p.img \in Nat /\ p.size \in Nat \ {0}
  /\ Stored(S, f, p) \/ (f.cseg = "BSS" /\ Listed(C, p))

MemInv ==
  /\ \A p \in pieces : Backed(segs, chains.bss, prog[p.frag], p)
  /\ cur # Idle => segs[cur.seg].nbss = 1
  /\ outcome = "placing" \/ "bss" \notin chains.made => chains.bss = <<>>
  /\ ListsBss(segs, chains.bss)

(* The numbers of a segment. *)
LEMMA SegNumbers ==
  ASSUME NEW S, SegsOK(S), NEW a \in DOMAIN S
  PROVE  /\ a \in Nat /\ S[a].pc \in Nat /\ S[a].end \in Nat /\ S[a].nbss \in {-1, 0, 1}
         /\ S[a].buf \in Int /\ NoBuffer \in Int /\ S[a].buf \in Nat \cup {NoBuffer}
         /\ S[a] \in SegRec /\ a <= S[a].pc
BY SegFacts, SegFields DEF NoBuffer

(* Nothing changed.                                                        *)
LEMMA SameGrown ==
  ASSUME NEW S, SegsOK(S)
  PROVE  Grown(S, S)
BY SegNumbers DEF Grown

(* Two changes in a row.                                                   *)
LEMMA GrownBoth ==
  ASSUME NEW S, SegsOK(S), NEW T, NEW U, Grown(S, T), Grown(T, U)
  PROVE  Grown(S, U)
<1> SUFFICES ASSUME NEW b \in DOMAIN S, S[b].nbss # 0, b < S[b].pc
             PROVE  /\ b \in DOMAIN U /\ U[b].nbss = S[b].nbss
                    /\ U[b].pc \in Nat /\ S[b].pc <= U[b].pc
                    /\ U[b].buf \in Int /\ S[b].buf <= U[b].buf
  BY DEF Grown
<1>1. /\ b \in DOMAIN T /\ T[b].nbss = S[b].nbss
      /\ T[b].pc \in Nat /\ S[b].pc <= T[b].pc
      /\ T[b].buf \in Int /\ S[b].buf <= T[b].buf
  BY DEF Grown
<1>2. b \in Nat /\ S[b].pc \in Nat /\ S[b].buf \in Int
  BY SegNumbers
<1>3. b < T[b].pc
  BY <1>1, <1>2
<1>4. /\ b \in DOMAIN U /\ U[b].nbss = T[b].nbss
      /\ U[b].pc \in Nat /\ T[b].pc <= U[b].pc
      /\ U[b].buf \in Int /\ T[b].buf <= U[b].buf
  BY <1>1, <1>3 DEF Grown
<1> QED
  BY <1>1, <1>2, <1>4

(* A segment that changes alone. *)
LEMMA OneGrown ==
  ASSUME NEW S, SegsOK(S), NEW a \in DOMAIN S, NEW T, DOMAIN S \subseteq DOMAIN T,
         \A b \in DOMAIN S : b # a => T[b] = S[b],
         \/ S[a].nbss = 0 \/ S[a].pc = a
         \/ /\ T[a].nbss = S[a].nbss /\ T[a].pc \in Nat /\ S[a].pc <= T[a].pc
            /\ T[a].buf \in Int /\ S[a].buf <= T[a].buf
  PROVE  Grown(S, T)
<1> SUFFICES ASSUME NEW b \in DOMAIN S, S[b].nbss # 0, b < S[b].pc
             PROVE  /\ b \in DOMAIN T /\ T[b].nbss = S[b].nbss
                    /\ T[b].pc \in Nat /\ S[b].pc <= T[b].pc
                    /\ T[b].buf \in Int /\ S[b].buf <= T[b].buf
  BY DEF Grown
<1>1. b \in Nat /\ S[b].pc \in Nat /\ S[b].buf \in Int
  BY SegNumbers
<1>2. CASE b # a
  BY <1>1, <1>2
<1>3. CASE b = a
  BY <1>1, <1>3
<1> QED
  BY <1>2, <1>3

(* A cut, whichever side has the bytes.                                    *)
LEMMA CutGrown ==
  ASSUME NEW S, SegsOK(S), NEW a \in DOMAIN S, NEW n \in Nat,
         S[a].pc <= n, n < S[a].end, NEW T, T = CutAt(S, a, n)
  PROVE  Grown(S, T) /\ (a # n => T[a].nbss = S[a].nbss) /\ T[n].nbss = 0
<1>1. /\ DOMAIN T = DOMAIN S \cup {n} /\ T[n] = Fresh(S[a], n)
      /\ a # n => n \notin DOMAIN S /\ T[a] = [S[a] EXCEPT !.end = n]
      /\ \A b \in DOMAIN S : b # a => T[b] = S[b] /\ b # n
  BY CutOK
<1>2. /\ a \in Nat /\ S[a].pc \in Nat /\ S[a].buf \in Int /\ S[a] \in SegRec /\ a <= S[a].pc
  BY SegNumbers
<1>3. a = n => S[a].pc = a
  BY <1>2
<1>4. /\ [S[a] EXCEPT !.end = n].nbss = S[a].nbss /\ [S[a] EXCEPT !.end = n].pc = S[a].pc
      /\ [S[a] EXCEPT !.end = n].buf = S[a].buf /\ Fresh(S[a], n).nbss = 0
  BY <1>2 DEF SegRec, Fresh
<1>5. a # n => T[a].nbss = S[a].nbss /\ T[a].pc = S[a].pc /\ T[a].buf = S[a].buf
  BY <1>1, <1>4, Zenon
<1>6. T[n].nbss = 0
  BY <1>1, <1>4, Zenon
<1>7. Grown(S, T)
  BY <1>1, <1>2, <1>3, <1>5, OneGrown
<1> QED
  BY <1>5, <1>6, <1>7

(* A pad adds zeroes to the buffer, if there is one.                       *)
LEMMA PaddedGrown ==
  ASSUME NEW S, SegsOK(S), NEW a \in DOMAIN S, NEW f, NEW addr \in Nat,
         NEW T, T = Padded(S, a, addr, f)
  PROVE  Grown(S, T)
<1>1. S[a] \in SegRec /\ S[a].pc \in Nat /\ S[a].buf \in Int /\ NoBuffer \in Int
  BY SegNumbers
<1>2. CASE S[a].pc < addr /\ addr < S[a].pc + 4 /\ ~ Conflict(S[a], f)
  <2> DEFINE s == [S[a] EXCEPT !.pc = addr,
                     !.buf = IF @ = NoBuffer THEN @ ELSE @ + addr - S[a].pc]
  <2>1. /\ s.nbss = S[a].nbss /\ s.pc = addr
        /\ s.buf = IF S[a].buf = NoBuffer THEN S[a].buf ELSE S[a].buf + addr - S[a].pc
    BY <1>1 DEF SegRec
  <2>2. T = [b \in DOMAIN S |-> IF b = a THEN s ELSE S[b]]
    BY <1>2 DEF Padded
  <2>3. DOMAIN T = DOMAIN S /\ T[a] = s /\ \A b \in DOMAIN S : b # a => T[b] = S[b]
    BY <2>2
  <2> HIDE DEF s
  <2>4. /\ T[a].nbss = S[a].nbss /\ T[a].pc \in Nat /\ S[a].pc <= T[a].pc
        /\ T[a].buf \in Int /\ S[a].buf <= T[a].buf
    BY <1>1, <1>2, <2>1, <2>3
  <2> QED
    BY <2>3, <2>4, OneGrown
<1>3. CASE ~ (S[a].pc < addr /\ addr < S[a].pc + 4 /\ ~ Conflict(S[a], f))
  BY <1>3, SameGrown DEF Padded
<1> QED
  BY <1>2, <1>3

(* A mark that has no conflict changes the kind of a segment without       *)
(* bytes.                                                                  *)
LEMMA MarkedGrown ==
  ASSUME NEW S, SegsOK(S), NEW a \in DOMAIN S, NEW f, ~ Conflict(S[a], f),
         NEW T, T = Marked(S, a, f)
  PROVE  Grown(S, T) /\ T[a].nbss = Sign(f)
<1>1. S[a] \in SegRec /\ S[a].nbss \in {-1, 0, 1} /\ Sign(f) \in {-1, 1}
  BY SegNumbers DEF Sign
<1>2. CASE S[a].nbss = 0
  <2> DEFINE s == [S[a] EXCEPT !.nbss = Sign(f)]
  <2>1. s.nbss = Sign(f)
    BY <1>1 DEF SegRec
  <2>2. T = [b \in DOMAIN S |-> IF b = a THEN s ELSE S[b]]
    BY <1>2 DEF Marked
  <2>3. DOMAIN T = DOMAIN S /\ T[a] = s /\ \A b \in DOMAIN S : b # a => T[b] = S[b]
    BY <2>2
  <2> HIDE DEF s
  <2>4. Grown(S, T)
    BY <1>2, <2>3, OneGrown
  <2> QED
    BY <2>1, <2>3, <2>4
<1>3. CASE S[a].nbss # 0
  <2>1. T = S
    BY <1>3 DEF Marked
  <2>2. S[a].nbss = Sign(f)
    BY <1>1, <1>3 DEF Conflict
  <2> QED
    BY <2>1, <2>2, SameGrown
<1> QED
  BY <1>2, <1>3

(* find_segment keeps what segments hold, and returns one of the kind of f. *)
LEMMA OpenedGrown ==
  ASSUME NEW S, SegsOK(S), NEW f \in Fragments, NEW size \in Nat \ {0}, NEW a, NEW addr,
         Suits(S, f, size, a, addr),
         NEW O, O = Opened(S, a, addr, f)
  PROVE  Grown(S, O.segs) /\ O.segs[O.seg].nbss = Sign(f)
<1> DEFINE S1 == Padded(S, a, addr, f)
           b == IF Cut(S1, a, addr, f) THEN addr ELSE a
           S2 == Carved(S1, a, addr, f)
           S3 == Paged(S2, b, addr, f)
           S4 == Marked(S3, b, f)
           e == PageEnd(addr)
<1>1. O.segs = S4 /\ O.seg = b
  BY DEF Opened
<1>2. /\ a \in DOMAIN S /\ addr \in Nat /\ S[a].pc <= addr
      /\ addr + size <= S[a].end /\ S[a].end \in Nat
      /\ Code(f) => addr + size <= PageEnd(addr)
  BY SegNumbers DEF Suits
<1>3. /\ SegsOK(S1) /\ DOMAIN S1 = DOMAIN S /\ S1[a].end = S[a].end /\ S1[a].pc <= addr
  BY <1>2, PaddedOK
<1>4. Grown(S, S1)
  BY <1>2, PaddedGrown
<1> HIDE DEF S1
<1>5. addr < S1[a].end /\ S1[a].pc \in Nat
  BY <1>2, <1>3, SegNumbers
<1>6. Carves(S1, a, addr, S2, b)
  <2>1. /\ SegsOK(S1) /\ a \in DOMAIN S1 /\ S1[a].pc <= addr /\ addr < S1[a].end
        /\ addr \in Nat
    BY <1>2, <1>3, <1>5
  <2>2. S2 = Carved(S1, a, addr, f) /\ b = Landing(S1, a, addr, f)
    BY DEF Landing
  <2> HIDE DEF b, S2
  <2> QED
    BY <2>1, <2>2, CarvedOK
<1>7. Grown(S1, S2) /\ ~ Conflict(S2[b], f)
  <2>1. CASE Cut(S1, a, addr, f)
    <3>1. S2 = CutAt(S1, a, addr) /\ b = addr
      BY <2>1 DEF Carved, CutAt
    <3> HIDE DEF S2, b
    <3>2. Grown(S1, S2) /\ S2[addr].nbss = 0
      BY <1>2, <1>3, <1>5, <3>1, CutGrown
    <3>3. ~ Conflict(S2[addr], f)
      BY <3>2 DEF Conflict, Sign
    <3> QED
      BY <3>1, <3>2, <3>3
  <2>2. CASE ~ Cut(S1, a, addr, f)
    <3>1. S2 = S1 /\ b = a /\ ~ Conflict(S1[a], f)
      BY <2>2 DEF Carved, Cut
    <3> QED
      BY <1>3, <3>1, SameGrown
  <2> QED
    BY <2>1, <2>2
<1> HIDE DEF S2, b
<1>8. /\ SegsOK(S2) /\ b \in DOMAIN S2 /\ S2[b].pc = addr /\ S2[b].end = S[a].end
      /\ b \in Nat /\ b <= addr
  BY <1>3, <1>6 DEF Carves
<1>9. e \in Nat /\ addr < e
  BY <1>2, PageFacts
<1>10. SegsOK(S3) /\ b \in DOMAIN S3
  <2>1. b \in DOMAIN S2 /\ addr + size <= S2[b].end /\ SegsOK(S2) /\ S2[b].pc = addr
    BY <1>2, <1>8
  <2> QED
    BY <1>2, <2>1, PagedOK
<1>11. Grown(S2, S3) /\ S3[b].nbss = S2[b].nbss
  <2>1. CASE Code(f) /\ S2[b].end > e
    <3>1. S3 = CutAt(S2, b, e)
      BY <2>1 DEF Paged, CutAt
    <3>2. S2[b].pc <= e /\ e < S2[b].end /\ b # e
      BY <1>2, <1>8, <1>9, <2>1
    <3> HIDE DEF S3, e
    <3> QED
      BY <1>8, <1>9, <3>1, <3>2, CutGrown
  <2>2. CASE ~ (Code(f) /\ S2[b].end > e)
    BY <1>8, <2>2, SameGrown DEF Paged
  <2> QED
    BY <2>1, <2>2
<1> HIDE DEF S3
<1>12. ~ Conflict(S3[b], f)
  BY <1>7, <1>11 DEF Conflict
<1>13. Grown(S3, S4) /\ S4[b].nbss = Sign(f)
  BY <1>10, <1>12, MarkedGrown
<1> HIDE DEF S4
<1>14. Grown(S1, S3)
  BY <1>3, <1>7, <1>11, GrownBoth
<1>15. Grown(S1, S4)
  BY <1>3, <1>13, <1>14, GrownBoth
<1>16. Grown(S, S4)
  BY <1>4, <1>15, GrownBoth
<1> QED
  BY <1>1, <1>13, <1>16

(* Bytes emitted go to the buffer.                                         *)
LEMMA FillGrown ==
  ASSUME NEW S, SegsOK(S), NEW a \in DOMAIN S, NEW n \in Nat, NEW T, T = Filled(S, a, n)
  PROVE  /\ DOMAIN T = DOMAIN S /\ Grown(S, T)
         /\ T[a].nbss = S[a].nbss /\ T[a].pc = S[a].pc + n
         /\ n # 0 => T[a].buf = (IF S[a].buf = NoBuffer THEN 0 ELSE S[a].buf) + n
<1>1. S[a] \in SegRec /\ S[a].pc \in Nat /\ S[a].buf \in Nat \cup {NoBuffer} /\ NoBuffer = -1
  BY SegNumbers DEF NoBuffer
<1> DEFINE s == [S[a] EXCEPT !.pc = @ + n,
                   !.buf = IF n = 0 THEN @ ELSE IF @ = NoBuffer THEN n ELSE @ + n]
<1>2. /\ s.nbss = S[a].nbss /\ s.pc = S[a].pc + n
      /\ s.buf = IF n = 0 THEN S[a].buf ELSE IF S[a].buf = NoBuffer THEN n ELSE S[a].buf + n
  BY <1>1 DEF SegRec
<1>3. T = [b \in DOMAIN S |-> IF b = a THEN s ELSE S[b]]
  BY DEF Filled
<1>4. DOMAIN T = DOMAIN S /\ T[a] = s /\ \A b \in DOMAIN S : b # a => T[b] = S[b]
  BY <1>3
<1> HIDE DEF s
<1>5. /\ T[a].nbss = S[a].nbss /\ T[a].pc \in Nat /\ S[a].pc <= T[a].pc
      /\ T[a].buf \in Int /\ S[a].buf <= T[a].buf
  BY <1>1, <1>2, <1>4
<1>6. Grown(S, T)
  BY <1>4, <1>5, OneGrown
<1>7. n # 0 => T[a].buf = (IF S[a].buf = NoBuffer THEN 0 ELSE S[a].buf) + n
  BY <1>1, <1>2, <1>4
<1> QED
  BY <1>2, <1>4, <1>6, <1>7

(* What is emitted is in the buffer. *)
LEMMA PieceBacked ==
  ASSUME NEW S, SegsOK(S), NEW a \in DOMAIN S, NEW f, S[a].nbss = Sign(f),
         NEW skip \in Nat, NEW n \in Nat \ {0}, NEW T, T = Filled(S, a, skip + n),
         NEW i, NEW from, NEW upto, NEW p, p = Piece(S, i, from, upto, a, skip, n), NEW C
  PROVE  Backed(T, C, f, p)
<1> DEFINE buf == IF S[a].buf = NoBuffer THEN 0 ELSE S[a].buf
<1>1. /\ a \in Nat /\ S[a].pc \in Nat /\ a <= S[a].pc /\ buf \in Nat
  BY SegNumbers
<1>2. p.at = S[a].pc + skip /\ p.size = n /\ p.img = a + skip + buf
  BY DEF Piece, InBuffer
<1>3. /\ DOMAIN T = DOMAIN S /\ T[a].nbss = S[a].nbss /\ T[a].pc = S[a].pc + (skip + n)
      /\ T[a].buf = buf + (skip + n)
  <2>1. skip + n \in Nat /\ skip + n # 0
    OBVIOUS
  <2> QED
    BY <2>1, FillGrown
<1> HIDE DEF buf
<1>4. /\ a <= p.at /\ p.at + p.size <= T[a].pc /\ p.img + p.size <= a + T[a].buf
      /\ p.at \in Nat /\ p.img \in Nat
  BY <1>1, <1>2, <1>3
<1>5. Stored(T, f, p)
  BY <1>3, <1>4 DEF Stored
<1> QED
  BY <1>2, <1>4, <1>5 DEF Backed

(* So it stays.                                                            *)
LEMMA GrownBacked ==
  ASSUME NEW S, SegsOK(S), NEW T, Grown(S, T), NEW C, NEW f, NEW p, Backed(S, C, f, p)
  PROVE  Backed(T, C, f, p)
<1>1. CASE Stored(S, f, p)
  <2>1. PICK a \in DOMAIN S :
          /\ a <= p.at /\ p.at + p.size <= S[a].pc
          /\ S[a].nbss = Sign(f) /\ p.img + p.size <= a + S[a].buf
    BY <1>1 DEF Stored
  <2>2. /\ a \in Nat /\ S[a].pc \in Nat /\ S[a].buf \in Int /\ p.at \in Nat /\ p.img \in Nat
        /\ p.size \in Nat \ {0}
    BY SegNumbers DEF Backed
  <2>3. S[a].nbss # 0 /\ a < S[a].pc
    BY <2>1, <2>2 DEF Sign
  <2>4. /\ a \in DOMAIN T /\ T[a].nbss = S[a].nbss
        /\ T[a].pc \in Nat /\ S[a].pc <= T[a].pc
        /\ T[a].buf \in Int /\ S[a].buf <= T[a].buf
    BY <2>3 DEF Grown
  <2>5. p.at + p.size <= T[a].pc /\ p.img + p.size <= a + T[a].buf
    BY <2>1, <2>2, <2>4
  <2>6. Stored(T, f, p)
    BY <2>1, <2>4, <2>5 DEF Stored
  <2> QED
    BY <2>6 DEF Backed
<1>2. CASE ~ Stored(S, f, p)
  BY <1>2 DEF Backed
<1> QED
  BY <1>1, <1>2

(* So does the list for the runtime.                                       *)
LEMMA GrownLists ==
  ASSUME NEW S, SegsOK(S), NEW T, Grown(S, T), NEW C, ListsBss(S, C)
  PROVE  ListsBss(T, C)
<1> SUFFICES ASSUME NEW n \in DOMAIN C
             PROVE  /\ C[n].at \in DOMAIN T /\ C[n].size \in Nat \ {0}
                    /\ T[C[n].at].nbss = -1 /\ C[n].at + C[n].size <= T[C[n].at].pc
  BY DEF ListsBss
<1> DEFINE a == C[n].at
<1>1. /\ a \in DOMAIN S /\ C[n].size \in Nat \ {0}
      /\ S[a].nbss = -1 /\ a + C[n].size <= S[a].pc
  BY DEF ListsBss
<1> HIDE DEF a
<1>2. a \in Nat /\ S[a].pc \in Nat /\ a < S[a].pc
  BY <1>1, SegNumbers
<1>3. a \in DOMAIN T /\ T[a].nbss = S[a].nbss /\ T[a].pc \in Nat /\ S[a].pc <= T[a].pc
  BY <1>1, <1>2 DEF Grown
<1>4. a + C[n].size <= T[a].pc
  BY <1>1, <1>2, <1>3
<1> QED
  BY <1>1, <1>3, <1>4 DEF a

(* The steps of the placement. *)
LEMMA PlacedMem ==
  ASSUME IInv, MemInv, outcome = "placing", prog' = prog, chains' = chains,
         Grown(segs, segs'),
         \A p \in pieces' : p \in pieces \/ Backed(segs', chains.bss, prog[p.frag], p),
         cur' # Idle => segs'[cur'.seg].nbss = 1
  PROVE  MemInv'
<1>1. SegsOK(segs) /\ chains.bss = <<>>
  BY DEF IInv, Held, MemInv
<1>2. ASSUME NEW p \in pieces'
      PROVE  Backed(segs', chains.bss, prog[p.frag], p)
  BY <1>1, GrownBacked DEF MemInv
<1>3. ListsBss(segs', chains.bss)
  BY <1>1, GrownLists DEF MemInv
<1> QED
  BY <1>1, <1>2, <1>3 DEF MemInv

(* A fragment placed in one piece.                                         *)
LEMMA WholeMem ==
  ASSUME IInv, MemInv, NEW i \in DOMAIN prog, Placing(i), NEW hit,
         Suits(segs, prog[i], prog[i].size, hit.seg, hit.addr), Whole(i, hit)
  PROVE  MemInv'
<1> DEFINE f == prog[i]
           O == Opened(segs, hit.seg, hit.addr, f)
           skip == Aligned(hit.addr, Align(f)) - hit.addr
           p == Piece(O.segs, i, 0, f.size, O.seg, skip, f.size)
<1>1. /\ segs' = Filled(O.segs, O.seg, skip + f.size)
      /\ pieces' = pieces \cup {p} /\ prog' = prog /\ cur' = cur /\ chains' = chains
  BY DEF Whole
<1>2. f \in Fragments /\ f.size \in Nat \ {0} /\ SegsOK(segs) /\ hit.addr \in Nat
  BY ProgFacts DEF IInv, Typed, Held, Fragments, Suits
<1>3. /\ SegsOK(O.segs) /\ O.seg \in DOMAIN O.segs
      /\ Grown(segs, O.segs) /\ O.segs[O.seg].nbss = Sign(f)
  BY <1>2, OpenedOK, OpenedGrown DEF Splits
<1>4. skip \in Nat
  <2>1. Align(f) \in Nat
    BY <1>2 DEF Align, Fragments
  <2>2. Aligned(hit.addr, Align(f)) \in Nat /\ Aligned(hit.addr, Align(f)) >= hit.addr
    BY <1>2, <2>1, AlignedGrows
  <2> QED
    BY <1>2, <2>2
<1>5. p.frag = i
  BY DEF Piece
<1> HIDE DEF O, skip
<1>6. Backed(segs', chains.bss, f, p)
  BY <1>1, <1>2, <1>3, <1>4, PieceBacked
<1>7. Grown(O.segs, segs')
  <2>1. skip + f.size \in Nat
    BY <1>2, <1>4
  <2> HIDE DEF f
  <2> QED
    BY <1>1, <1>3, <2>1, FillGrown
<1>8. Grown(segs, segs')
  BY <1>2, <1>3, <1>7, GrownBoth
<1> HIDE DEF p
<1>9. \A q \in pieces' : q \in pieces \/ Backed(segs', chains.bss, prog[q.frag], q)
  BY <1>1, <1>5, <1>6
<1>10. outcome = "placing" /\ cur' = Idle
  BY <1>1 DEF Placing
<1> QED
  BY <1>1, <1>8, <1>9, <1>10, PlacedMem

(* An action that leaves memory alone.                                     *)
LEMMA FrameMem ==
  ASSUME MemInv, UNCHANGED <<prog, segs, cur, pieces, chains>>,
         outcome' = "placing" => outcome = "placing"
  PROVE  MemInv'
BY DEF MemInv

(* The placement of data.                                                  *)
LEMMA PlaceDataMem ==
  ASSUME IInv, MemInv, NEW i \in DOMAIN prog, PlaceData(i)
  PROVE  MemInv'
<1> DEFINE hit == Find(segs, prog[i], prog[i].size, FirstGo)
<1>1. Placing(i) /\ IF hit.kind = "found" THEN Whole(i, hit) ELSE Unplaced(i, hit.kind)
  BY DEF PlaceData
<1>2. prog[i] \in Fragments /\ prog[i].size \in Nat /\ FirstGo \in BOOLEAN /\ SegsOK(segs)
  BY ProgFacts DEF IInv, Typed, Held, Fragments, FirstGo
<1>3. hit.kind = "found" => Suits(segs, prog[i], prog[i].size, hit.seg, hit.addr)
  BY <1>2, FindSuits
<1> HIDE DEF hit
<1>4. CASE hit.kind = "found"
  BY <1>1, <1>3, <1>4, WholeMem
<1>5. CASE hit.kind # "found"
  BY <1>1, <1>5, FrameMem DEF Unplaced, Placing
<1> QED
  BY <1>4, <1>5

(* The placement of a function, whole or by its start.                     *)
LEMMA PlaceCodeMem ==
  ASSUME IInv, MemInv, NEW i \in DOMAIN prog, PlaceCode(i)
  PROVE  MemInv'
<1> DEFINE f == prog[i]
           whole == IF f.nohop \/ f.size <= Sfst THEN Find(segs, f, f.size, FirstGo)
                    ELSE [kind |-> "none"]
           query == IF f.size < Lfss THEN f.size ELSE Lfss
           start == IF f.nohop /\ ~ FirstGo THEN [kind |-> "none"]
                    ELSE Find(segs, f, query, FirstGo)
           O == Opened(segs, start.seg, start.addr, f)
<1>1. /\ Placing(i) /\ Code(f)
      /\ IF whole.kind = "found" THEN Whole(i, whole)
         ELSE IF whole.kind # "none" THEN Unplaced(i, whole.kind)
         ELSE IF start.kind # "found" THEN Unplaced(i, start.kind)
         ELSE /\ segs' = O.segs
              /\ cur' = [frag |-> i, seg |-> O.seg, sent |-> 0, left |-> f.size]
              /\ UNCHANGED <<prog, stage, cursor, done, pieces, chains, outcome>>
  BY DEF PlaceCode
<1>2. /\ f \in Fragments /\ f.size \in Nat \ {0} /\ FirstGo \in BOOLEAN /\ SegsOK(segs)
      /\ Lfss \in Nat \ {0}
  <2>1. prog \in Programs /\ SegsOK(segs) /\ Lfss \in Nat \ {0}
    BY SegmentsAssumption DEF IInv, Typed, Held
  <2>2. f \in Fragments
    BY <2>1, ProgFacts
  <2> QED
    BY <2>1, <2>2 DEF Fragments, FirstGo
<1>3. query \in Nat \ {0}
  BY <1>2
<1>4. whole.kind = "found" => Suits(segs, f, f.size, whole.seg, whole.addr)
  BY <1>2, FindSuits
<1> HIDE DEF query
<1>5. start.kind = "found" => Suits(segs, f, query, start.seg, start.addr)
  BY <1>2, <1>3, FindSuits
<1> HIDE DEF whole, start
<1>6. Placing(i) /\ outcome = "placing"
  BY <1>1 DEF Placing
<1>7. CASE whole.kind = "found"
  BY <1>1, <1>4, <1>7, WholeMem
<1>8. CASE whole.kind # "found" /\ ~ (whole.kind = "none" /\ start.kind = "found")
  <2>1. \E kind : Unplaced(i, kind)
    BY <1>1, <1>8
  <2> QED
    BY <1>6, <2>1, FrameMem DEF Unplaced
<1>9. CASE whole.kind = "none" /\ start.kind = "found"
  <2>1. Grown(segs, O.segs) /\ O.segs[O.seg].nbss = Sign(f)
    BY <1>2, <1>3, <1>5, <1>9, OpenedGrown
  <2>2. segs' = O.segs /\ cur'.seg = O.seg /\ prog' = prog /\ pieces' = pieces /\ chains' = chains
    BY <1>1, <1>9
  <2>3. Sign(f) = 1
    BY <1>1 DEF Sign, Code
  <2> HIDE DEF O
  <2> QED
    BY <1>6, <2>1, <2>2, <2>3, PlacedMem
<1> QED
  BY <1>7, <1>8, <1>9

(* The bytes sent, which a stay in a segment adds to it. *)
LEMMA SentMem ==
  ASSUME IInv, MemInv, Hopping, NEW extra \in Nat, NEW left,
         NEW S, S = Filled(segs, cur.seg, cur.sent + extra)
  PROVE  /\ Grown(segs, S)
         /\ \A p \in Pieces(extra, left) :
              p \in pieces \/ Backed(S, chains.bss, prog[p.frag], p)
<1> DEFINE f == prog[cur.frag]
           n == cur.sent + extra
           p == Piece(segs, cur.frag, f.size - cur.left - cur.sent, f.size - left,
                      cur.seg, 0, n)
<1>1. /\ cur \in CurRec /\ Roomy(segs, f, cur.seg, cur.sent) /\ SegsOK(segs)
      /\ segs[cur.seg].nbss = 1
  BY DEF IInv, Typed, Hopping, CurRoomy, Held, MemInv
<1>2. n \in Nat /\ cur.seg \in DOMAIN segs /\ Sign(f) = 1
  BY <1>1 DEF CurRec, Roomy, Sign, Code
<1>3. p.frag = cur.frag
  BY DEF Piece
<1>4. Pieces(extra, left) = IF n = 0 THEN pieces ELSE pieces \cup {p}
  BY DEF Pieces
<1>5. ASSUME n # 0
      PROVE  Backed(S, chains.bss, f, p)
  <2>1. n \in Nat \ {0} /\ S = Filled(segs, cur.seg, 0 + n) /\ segs[cur.seg].nbss = Sign(f)
    BY <1>1, <1>2, <1>5
  <2> HIDE DEF n
  <2> QED
    BY <1>1, <1>2, <2>1, PieceBacked
<1>6. Grown(segs, S)
  BY <1>1, <1>2, FillGrown
<1> HIDE DEF p, n
<1> QED
  BY <1>3, <1>4, <1>5, <1>6

(* A hop: the rest of the old segment is stored, the next one is open.     *)
LEMMA HopAfterMem ==
  ASSUME IInv, MemInv, Hopping, NEW extra \in Nat, extra <= Jump,
         NEW need \in Nat, Jump <= need, NEW left, HopAfter(extra, need, left)
  PROVE  MemInv'
<1> DEFINE f == prog[cur.frag]
           small(n) == IF n < Page THEN n ELSE Page
           roomy == IF need < Rest THEN Rest ELSE need
           S == Filled(segs, cur.seg, cur.sent + extra)
           Q == <<[size |-> small(roomy), go |-> TRUE],
                  [size |-> small(roomy), go |-> FALSE],
                  [size |-> small(need), go |-> TRUE],
                  [size |-> small(need), go |-> FALSE]>>
           hit == FindFirst(S, f, Q)
           O == Opened(S, hit.seg, hit.addr, f)
<1>1. /\ IF hit.kind = "found"
         THEN /\ segs' = O.segs
              /\ cur' = [cur EXCEPT !.seg = O.seg, !.sent = 0, !.left = left]
              /\ pieces' = Pieces(extra, left)
              /\ UNCHANGED outcome
         ELSE /\ outcome' \in {"fatal", "stop", "assert"}
              /\ UNCHANGED <<segs, cur, pieces>>
      /\ UNCHANGED <<prog, stage, cursor, done, chains>>
  BY DEF HopAfter
<1>2. /\ cur \in CurRec /\ outcome = "placing" /\ Code(f) /\ f \in Fragments /\ SegsOK(segs)
  BY ProgFacts DEF IInv, Typed, Hopping, CurRoomy, Roomy, Held
<1>3. /\ SegsOK(S) /\ Grown(segs, S)
      /\ \A p \in Pieces(extra, left) :
           p \in pieces \/ Backed(S, chains.bss, prog[p.frag], p)
  BY SentHeld, SentMem DEF Held
<1>4. Jump \in Nat \ {0} /\ Page \in Nat /\ Jump <= Page /\ Rest \in Nat
  BY SegmentsAssumption
<1>5. /\ small(roomy) \in Nat /\ Jump <= small(roomy)
      /\ small(need) \in Nat /\ Jump <= small(need)
  BY <1>4
<1> HIDE DEF S, f, small, roomy
<1>6. /\ Q \in [1 .. 4 -> [size : Nat, go : BOOLEAN]] /\ DOMAIN Q = 1 .. 4
      /\ \A j \in 1 .. 4 : Jump <= Q[j].size
  BY <1>5, FourQueries
<1> HIDE DEF Q
<1>7. CASE hit.kind = "found"
  <2>1. \E j \in DOMAIN Q : Suits(S, f, Q[j].size, hit.seg, hit.addr)
    BY <1>2, <1>3, <1>6, <1>7, FindFirstSuits
  <2>2. PICK size \in Nat \ {0} : Suits(S, f, size, hit.seg, hit.addr)
    BY <1>4, <1>6, <2>1
  <2> HIDE DEF hit
  <2>3. Grown(S, O.segs) /\ O.segs[O.seg].nbss = Sign(f) /\ Sign(f) = 1
    BY <1>2, <1>3, <2>2, OpenedGrown DEF Sign, Code
  <2> HIDE DEF O
  <2>4. /\ segs' = O.segs /\ pieces' = Pieces(extra, left)
        /\ prog' = prog /\ chains' = chains /\ cur'.seg = O.seg
    BY <1>1, <1>2, <1>7 DEF CurRec
  <2>5. \A p \in pieces' : p \in pieces \/ Backed(segs', chains.bss, prog[p.frag], p)
    BY <1>3, <2>3, <2>4, GrownBacked
  <2>6. Grown(segs, segs')
    BY <1>2, <1>3, <2>3, <2>4, GrownBoth
  <2> QED
    BY <1>2, <2>3, <2>4, <2>5, <2>6, PlacedMem
<1>8. CASE hit.kind # "found"
  BY <1>1, <1>8, FrameMem
<1> QED
  BY <1>7, <1>8

(* Instructions sent to a segment are not emitted yet.                     *)
LEMMA SentMoreMem ==
  ASSUME IInv, MemInv, Hopping, NEW k,
         cur' = [cur EXCEPT !.sent = @ + k, !.left = @ - k],
         UNCHANGED <<prog, segs, stage, cursor, done, pieces, chains, outcome>>
  PROVE  MemInv'
<1>1. cur'.seg = cur.seg /\ cur # Idle
  BY DEF IInv, Typed, Hopping, CurRec
<1> QED
  BY <1>1 DEF MemInv

(* The end of a function.                                                  *)
LEMMA EndCodeMem ==
  ASSUME IInv, MemInv, EndCode
  PROVE  MemInv'
<1>1. /\ Hopping /\ segs' = Filled(segs, cur.seg, cur.sent) /\ pieces' = Pieces(0, 0)
      /\ cur' = Idle /\ prog' = prog /\ chains' = chains /\ outcome = "placing"
  BY DEF EndCode, Hopping
<1>2. segs' = Filled(segs, cur.seg, cur.sent + 0)
  BY <1>1 DEF Hopping, IInv, Typed, CurRec
<1>3. /\ Grown(segs, segs')
      /\ \A p \in pieces' : p \in pieces \/ Backed(segs', chains.bss, prog[p.frag], p)
  BY <1>1, <1>2, SentMem
<1> QED
  BY <1>1, <1>3, PlacedMem

(* The lists. *)
LEMMA MagicBssMem ==
  ASSUME IInv, MemInv, MagicBss
  PROVE  MemInv'
<1> DEFINE A == {a \in DOMAIN segs : /\ a >= Page /\ segs[a].nbss < 0
                                     /\ segs[a].pc > a + 4}
           order == Backwards(A)
           C == [n \in DOMAIN order |->
                   [at |-> order[n], size |-> segs[order[n]].pc - order[n]]]
<1>1. /\ outcome = "magic" /\ "bss" \notin chains.made /\ prog' = prog
      /\ segs' = [a \in DOMAIN segs |->
                    IF a \in A THEN [segs[a] EXCEPT !.buf = 4] ELSE segs[a]]
      /\ chains' = [chains EXCEPT !.bss = C, !.made = @ \cup {"bss"}]
      /\ UNCHANGED <<prog, cur, pieces, outcome>>
  BY DEF MagicBss, Unmade
<1>2. /\ SegsOK(segs) /\ cur = Idle /\ chains.bss = <<>> /\ A \in SUBSET DOMAIN segs
      /\ chains = [bss |-> chains.bss, heap |-> chains.heap, made |-> chains.made]
  BY <1>1 DEF IInv, Typed, Held, StageOK, MemInv
<1>3. chains'.bss = C /\ chains'.made = chains.made \cup {"bss"}
  BY <1>1, <1>2
<1>4. ASSUME NEW a \in DOMAIN segs
      PROVE  /\ segs'[a].nbss = segs[a].nbss /\ segs'[a].pc = segs[a].pc
             /\ a \notin A => segs'[a].buf = segs[a].buf
             /\ a \in DOMAIN segs'
  <2>1. segs[a] \in SegRec
    BY <1>2, SegFacts
  <2>2. segs'[a] = IF a \in A THEN [segs[a] EXCEPT !.buf = 4] ELSE segs[a]
    BY <1>1
  <2> HIDE DEF A
  <2> QED
    BY <1>1, <2>1, <2>2 DEF SegRec
<1>5. ASSUME NEW a \in A
      PROVE  /\ a \in DOMAIN segs /\ segs[a].nbss = -1 /\ segs[a].pc - a \in Nat \ {0}
             /\ a \in Nat /\ segs[a].pc \in Nat
  <2>1. a \in Nat /\ segs[a].pc \in Nat /\ segs[a].nbss \in {-1, 0, 1}
    BY <1>2, SegNumbers
  <2> QED
    BY <2>1
<1>6. /\ \A n \in DOMAIN order : order[n] \in A
      /\ \A a \in A : \E n \in DOMAIN order : order[n] = a
  BY <1>2, BackwardsOrder
<1> HIDE DEF A, order
<1>7. ASSUME NEW n \in DOMAIN C
      PROVE  C[n].at \in A /\ C[n].size = segs[C[n].at].pc - C[n].at
  BY <1>6
<1>8. \A a \in A : \E n \in DOMAIN C : C[n].at = a
  BY <1>6
<1> HIDE DEF C
<1>9. ListsBss(segs', C)
  <2> SUFFICES ASSUME NEW n \in DOMAIN C
               PROVE  /\ C[n].at \in DOMAIN segs' /\ C[n].size \in Nat \ {0}
                      /\ segs'[C[n].at].nbss = -1
                      /\ C[n].at + C[n].size <= segs'[C[n].at].pc
    BY DEF ListsBss
  <2> DEFINE a == C[n].at
  <2>1. a \in A /\ C[n].size = segs[a].pc - a
    BY <1>7
  <2> HIDE DEF a
  <2>2. /\ a \in DOMAIN segs' /\ segs'[a].nbss = -1 /\ C[n].size \in Nat \ {0}
        /\ segs'[a].pc = segs[a].pc /\ a + C[n].size = segs[a].pc /\ segs[a].pc \in Nat
    BY <1>4, <1>5, <2>1
  <2>3. a + C[n].size <= segs'[a].pc
    BY <2>2
  <2> QED
    BY <2>2, <2>3 DEF a
<1>10. ASSUME NEW p \in pieces
       PROVE  Backed(segs', C, prog[p.frag], p)
  <2> DEFINE f == prog[p.frag]
  <2>1. /\ p.at \in Nat /\ p.img \in Nat /\ p.size \in Nat \ {0} /\ Stored(segs, f, p)
    BY <1>2 DEF MemInv, Backed, Listed
  <2>2. f.cseg \in Kinds
    BY ProgFacts DEF IInv, Typed, Fragments
  <2> HIDE DEF f
  <2>3. PICK a \in DOMAIN segs :
          /\ a <= p.at /\ p.at + p.size <= segs[a].pc
          /\ segs[a].nbss = Sign(f) /\ p.img + p.size <= a + segs[a].buf
    BY <2>1 DEF Stored
  <2>4. CASE a \in A
    <3>1. f.cseg = "BSS"
      BY <1>5, <2>3, <2>4 DEF Sign
    <3>2. PICK n \in DOMAIN C : C[n].at = a
      BY <1>8, <2>4
    <3>3. C[n].at + C[n].size = segs[a].pc
      BY <1>5, <1>7, <2>4, <3>2
    <3>4. Listed(C, p)
      BY <2>3, <3>2, <3>3 DEF Listed
    <3> QED
      BY <2>1, <3>1, <3>4 DEF Backed, f
  <2>5. CASE a \notin A
    <3>1. Stored(segs', f, p)
      BY <1>4, <2>3, <2>5 DEF Stored
    <3> QED
      BY <2>1, <3>1 DEF Backed, f
  <2> QED
    BY <2>4, <2>5
<1>11. \A p \in pieces' : Backed(segs', chains'.bss, prog'[p.frag], p)
  BY <1>1, <1>3, <1>10
<1>12. ListsBss(segs', chains'.bss)
  BY <1>3, <1>9
<1>13. cur' = Idle /\ outcome' # "placing" /\ "bss" \in chains'.made
  BY <1>1, <1>2, <1>3
<1> QED
  BY <1>11, <1>12, <1>13 DEF MemInv

(* What malloc gets is past the bytes.                                     *)
LEMMA MagicHeapMem ==
  ASSUME IInv, MemInv, MagicHeap
  PROVE  MemInv'
<1> DEFINE A == {a \in DOMAIN segs : /\ "H" \in segs[a].flags
                                     /\ HeapEnd(a) - HeapStart(a) >= MinHeap}
<1>1. /\ outcome = "magic" /\ segs' = Sold(A)
      /\ \E heap : chains' = [chains EXCEPT !.heap = heap, !.made = @ \cup {"heap"}]
      /\ UNCHANGED <<prog, stage, cursor, done, cur, pieces, outcome>>
  BY DEF MagicHeap, Unmade, Sold
<1>2. /\ SegsOK(segs) /\ A \in SUBSET DOMAIN segs /\ cur = Idle
      /\ \A a \in A : HeapEnd(a) - HeapStart(a) >= MinHeap
      /\ chains = [bss |-> chains.bss, heap |-> chains.heap, made |-> chains.made]
  BY <1>1 DEF IInv, Typed, Held, StageOK
<1>3. chains'.bss = chains.bss /\ ("bss" \in chains'.made <=> "bss" \in chains.made)
  BY <1>1, <1>2
<1> HIDE DEF A
<1>4. ASSUME NEW b \in DOMAIN segs, b < segs[b].pc
      PROVE  /\ b \in DOMAIN segs' /\ segs'[b].nbss = segs[b].nbss
             /\ segs'[b].pc = segs[b].pc /\ segs'[b].buf = segs[b].buf
  <2>1. segs[b] \in SegRec /\ b \in Nat /\ segs[b].pc \in Nat
    BY <1>2, SegNumbers
  <2>2. ASSUME NEW a \in A, HeapStart(a) = b
        PROVE  FALSE
    <3>1. a = b
      BY <1>2, <2>2, HeapOrder
    <3>2. segs[b].pc <= HeapStart(b)
      BY <1>2, <2>2, <3>1, HeapFacts
    <3> QED
      BY <1>4, <2>1, <2>2, <3>1, <3>2
  <2>3. b \in DOMAIN segs' /\ segs'[b] \in {segs[b], [segs[b] EXCEPT !.end = HeapStart(b)]}
    BY <1>1, <2>2 DEF Sold
  <2> QED
    BY <2>1, <2>3 DEF SegRec
<1>5. Grown(segs, segs')
  <2> SUFFICES ASSUME NEW b \in DOMAIN segs, segs[b].nbss # 0, b < segs[b].pc
               PROVE  /\ b \in DOMAIN segs' /\ segs'[b].nbss = segs[b].nbss
                      /\ segs'[b].pc \in Nat /\ segs[b].pc <= segs'[b].pc
                      /\ segs'[b].buf \in Int /\ segs[b].buf <= segs'[b].buf
    BY DEF Grown
  <2>1. segs[b].pc \in Nat /\ segs[b].buf \in Int
    BY <1>2, SegNumbers
  <2> QED
    BY <1>4, <2>1
<1>6. \A p \in pieces' : Backed(segs', chains'.bss, prog'[p.frag], p)
  BY <1>1, <1>2, <1>3, <1>5, GrownBacked DEF MemInv
<1>7. ListsBss(segs', chains'.bss)
  BY <1>2, <1>3, <1>5, GrownLists DEF MemInv
<1> QED
  BY <1>1, <1>2, <1>3, <1>6, <1>7 DEF MemInv

(* Every step keeps MemInv.                                                *)
LEMMA NextMem ==
  ASSUME IInv, MemInv, [Next]_vars
  PROVE  MemInv'
<1>1. ASSUME NEW i \in DOMAIN prog, PlaceData(i) \/ PlaceCode(i)
      PROVE  MemInv'
  BY <1>1, PlaceDataMem, PlaceCodeMem
<1>2. ASSUME NEW need \in Needs, Hop(need)
      PROVE  MemInv'
  BY <1>2, InstrFacts, HopAfterMem DEF Hop
<1>3. ASSUME NEW k \in Instrs, Instruction(k)
      PROVE  MemInv'
  BY <1>3, SentMoreMem DEF Instruction
<1>4. ASSUME NEW k \in {2, Jump}, Branch(k)
      PROVE  MemInv'
  <2>1. k \in Nat /\ k <= Jump /\ Hopping
    BY <1>4, InstrFacts DEF Branch
  <2>2. \/ HopAfter(k, Room(4), cur.left - k)
        \/ /\ cur' = [cur EXCEPT !.sent = @ + k, !.left = @ - k]
           /\ UNCHANGED <<prog, segs, stage, cursor, done, pieces, chains, outcome>>
    BY <1>4 DEF Branch
  <2> QED
    BY <2>1, <2>2, InstrFacts, HopAfterMem, SentMoreMem
<1>5. CASE EndCode
  BY <1>5, EndCodeMem
<1>6. CASE NextStage \/ Verify \/ Exited \/ UNCHANGED vars
  <2>1. /\ UNCHANGED <<prog, segs, cur, pieces, chains>>
        /\ outcome' = "placing" => outcome = "placing"
    BY <1>6 DEF NextStage, Verify, Exited, vars
  <2> QED
    BY <2>1, FrameMem
<1>7. CASE MagicBss \/ MagicHeap
  BY <1>7, MagicBssMem, MagicHeapMem
<1> QED
  BY <1>1, <1>2, <1>3, <1>4, <1>5, <1>6, <1>7 DEF Next

(* In a linked program, each piece that is loaded where it was assembled   *)
(* is there when main starts, code and data loaded and bss loaded or       *)
(* cleared: nothing that was loaded is cleared, whatever shares a page, and *)
(* whatever happened to the other pieces.                                  *)
THEOREM PiecesReady ==
  Spec => [](outcome = "linked" => \A p \in pieces : p.img = p.at => Ready(p))
<1>1. Init => MemInv
  BY DEF Init, MemInv, ListsBss
<1>2. IInv /\ MemInv /\ [Next]_vars => MemInv'
  BY NextMem
<1>3. ASSUME IInv, MemInv, outcome = "linked", NEW p \in pieces, p.img = p.at,
             NEW x \in Bytes(p.at, p.size)
      PROVE  LET cleared == \E n \in DOMAIN chains.bss :
                              x \in Bytes(chains.bss[n].at, chains.bss[n].size)
                 loaded == \E a \in DOMAIN segs : x \in Bytes(a, segs[a].buf)
             IN  IF Fragment(p).cseg = "BSS" THEN cleared \/ loaded
                 ELSE loaded /\ ~ cleared
  <2> DEFINE f == prog[p.frag]
             cleared == \E n \in DOMAIN chains.bss :
                          x \in Bytes(chains.bss[n].at, chains.bss[n].size)
             loaded == \E a \in DOMAIN segs : x \in Bytes(a, segs[a].buf)
  <2>1. /\ SegsOK(segs) /\ Fitted(segs) /\ p.img = p.at
        /\ Backed(segs, chains.bss, f, p) /\ ListsBss(segs, chains.bss)
    BY <1>3 DEF IInv, Held, SegmentsFit, MemInv
  <2>2. p.at \in Nat /\ p.size \in Nat \ {0} /\ x \in Nat /\ p.at <= x /\ x < p.at + p.size
    <3>1. p.at \in Nat /\ p.size \in Nat \ {0} /\ x \in p.at .. p.at + p.size - 1
      BY <1>3, <2>1 DEF Backed, Bytes
    <3> QED
      BY <3>1
  <2>3. ASSUME NEW a \in DOMAIN segs, a <= p.at, p.at + p.size <= segs[a].pc,
               segs[a].nbss = Sign(f), p.img + p.size <= a + segs[a].buf
        PROVE  loaded /\ (f.cseg # "BSS" => ~ cleared)
    <3>1. a \in Nat /\ segs[a].buf \in Int /\ segs[a].pc \in Nat /\ segs[a].end \in Nat
      BY <2>1, SegNumbers
    <3>2. a <= x /\ x <= a + segs[a].buf - 1 /\ x < segs[a].pc
      BY <2>1, <2>2, <2>3, <3>1
    <3>3. loaded
      BY <2>2, <3>1, <3>2 DEF Bytes
    <3>4. ASSUME f.cseg # "BSS", NEW n \in DOMAIN chains.bss,
                 x \in Bytes(chains.bss[n].at, chains.bss[n].size)
          PROVE  FALSE
      <4> DEFINE c == chains.bss[n].at
                 size == chains.bss[n].size
      <4>1. /\ c \in DOMAIN segs /\ size \in Nat \ {0} /\ segs[c].nbss = -1
            /\ c + size <= segs[c].pc
        BY <2>1 DEF ListsBss
      <4>2. c \in Nat /\ segs[c].pc \in Nat /\ segs[c].end \in Nat
        BY <2>1, <4>1, SegNumbers
      <4>3. x \in c .. c + size - 1
        BY <3>4 DEF Bytes
      <4> HIDE DEF c, size
      <4>4. c <= x /\ x < segs[c].pc
        BY <2>2, <4>1, <4>2, <4>3
      <4>5. c # a
        BY <2>3, <3>4, <4>1 DEF Sign
      <4>6. segs[c].pc <= segs[c].end /\ segs[a].pc <= segs[a].end
        BY <2>1, <2>3, <4>1 DEF Fitted
      <4>7. (c < a => segs[c].end <= a) /\ (a < c => segs[a].end <= c)
        BY <2>1, <2>3, <4>1, SegFacts
      <4> QED
        BY <2>2, <3>1, <3>2, <4>2, <4>4, <4>5, <4>6, <4>7
    <3> QED
      BY <3>3, <3>4
  <2>4. CASE Stored(segs, f, p)
    <3>1. loaded /\ (f.cseg # "BSS" => ~ cleared)
      BY <2>3, <2>4 DEF Stored
    <3> QED
      BY <3>1 DEF Fragment
  <2>5. CASE ~ Stored(segs, f, p)
    <3>1. f.cseg = "BSS" /\ Listed(chains.bss, p)
      BY <2>1, <2>5 DEF Backed
    <3>2. PICK n \in DOMAIN chains.bss :
            /\ chains.bss[n].at <= p.at
            /\ p.at + p.size <= chains.bss[n].at + chains.bss[n].size
      BY <3>1 DEF Listed
    <3> DEFINE c == chains.bss[n].at
               size == chains.bss[n].size
    <3>3. c \in Nat /\ size \in Nat
      BY <2>1, SegNumbers DEF ListsBss
    <3> HIDE DEF c, size
    <3>4. x \in c .. c + size - 1
      BY <2>2, <3>2, <3>3 DEF c, size
    <3>5. cleared
      BY <3>4 DEF Bytes, c, size
    <3> QED
      BY <3>1, <3>5 DEF Fragment
  <2> QED
    BY <2>4, <2>5
<1>4. IInv /\ MemInv => (outcome = "linked" => \A p \in pieces : p.img = p.at => Ready(p))
  BY <1>3 DEF Ready
<1> QED
  <2>1. Spec => []MemInv
    BY <1>1, <1>2, SegmentsInvariant, PTL DEF Spec
  <2> QED
    BY <1>4, <2>1, SegmentsInvariant, PTL

-----------------------------------------------------------------------------
(* Where the image loads what was placed.                                  *)

(* The image has all the bytes of a segment that starts at a, up to its pc. *)
Level(a, s) == s.pc = a + InBuffer(s)

(* It has in T, or the segment has no buffer and had none in S.            *)
AlmostLevel(S, T, a) ==
  \/ Level(a, T[a])
  \/ a \in DOMAIN S /\ S[a].buf = NoBuffer /\ T[a].buf = NoBuffer

AllLevel(S) == \A a \in DOMAIN S : Level(a, S[a])

LoadInv ==
  /\ outcome = "placing" => AllLevel(segs)
  /\ \A p \in pieces : p.img = p.at

(* Opening a segment for f keeps it, up to the bytes that padding skips.   *)
LEMMA OpenedLevel ==
  ASSUME NEW S, SegsOK(S), AllLevel(S), NEW f, NEW a \in DOMAIN S,
         NEW addr \in Nat, S[a].pc <= addr, NEW T, T = Opened(S, a, addr, f).segs
  PROVE  \A b \in DOMAIN T : AlmostLevel(S, T, b)
<1> DEFINE S1 == Padded(S, a, addr, f)
           b0 == IF Cut(S1, a, addr, f) THEN addr ELSE a
           S2 == Carved(S1, a, addr, f)
           S3 == Paged(S2, b0, addr, f)
           Fine(R) == \A b \in DOMAIN R :
                        /\ AlmostLevel(S, R, b)
                        /\ R[b] \in SegRec
<1>1. Fine(S1)
  <2> SUFFICES ASSUME NEW b \in DOMAIN S1
               PROVE  AlmostLevel(S, S1, b) /\ S1[b] \in SegRec
    OBVIOUS
  <2>1. DOMAIN S1 = DOMAIN S /\ (b # a => S1[b] = S[b])
    BY DEF Padded
  <2>2. S[b] \in SegRec /\ Level(b, S[b]) /\ b \in Nat
    BY <2>1 DEF SegsOK, AllLevel
  <2>3. CASE S1[b] = S[b]
    BY <2>1, <2>2, <2>3 DEF AlmostLevel
  <2>4. CASE S1[b] # S[b]
    <3> DEFINE buf == IF S[a].buf = NoBuffer THEN NoBuffer ELSE S[a].buf + addr - S[a].pc
    <3>1. b = a /\ S1[a] = [S[a] EXCEPT !.pc = addr, !.buf = buf]
      BY <2>1, <2>2, <2>4 DEF Padded, SegRec
    <3>2. S1[a].pc = addr /\ S1[a] \in SegRec /\ S1[a].buf = buf
      <4>1. buf \in Nat \cup {NoBuffer}
        BY <2>2, <3>1, SegNumbers DEF NoBuffer
      <4> HIDE DEF buf, S1
      <4> QED
        BY <2>2, <3>1, <4>1 DEF SegRec
    <3>3. CASE S[a].buf = NoBuffer
      BY <3>1, <3>2, <3>3, <2>1 DEF AlmostLevel
    <3>4. CASE S[a].buf # NoBuffer
      <4>1. S[a].pc = a + S[a].buf /\ S[a].buf \in Nat /\ S[a].pc \in Nat
        BY <2>2, <3>1, <3>4 DEF Level, InBuffer, SegRec
      <4>2. S1[a].buf = S[a].buf + addr - S[a].pc /\ S1[a].buf # NoBuffer
        BY <3>2, <3>4, <4>1 DEF NoBuffer
      <4>3. S1[a].pc = a + S1[a].buf
        BY <2>2, <3>1, <3>2, <4>1, <4>2
      <4> QED
        BY <3>1, <3>2, <4>2, <4>3 DEF AlmostLevel, Level, InBuffer
    <3> QED
      BY <3>3, <3>4
  <2> QED
    BY <2>3, <2>4
<1>2. ASSUME NEW s \in SegRec, NEW at \in Nat
      PROVE  Level(at, Fresh(s, at)) /\ Fresh(s, at) \in SegRec
  <2>1. Fresh(s, at) \in SegRec /\ Fresh(s, at).pc = at
    BY <1>2, SegFields
  <2>2. Fresh(s, at).buf = NoBuffer
    BY <1>2 DEF Fresh, SegRec
  <2> QED
    BY <1>2, <2>1, <2>2 DEF Level, InBuffer
<1>3. ASSUME NEW R, Fine(R), NEW c \in DOMAIN R, NEW at \in Nat, NEW end \in Nat
      PROVE  Fine(Put([R EXCEPT ![c].end = end], at, Fresh(R[c], at)))
  <2> DEFINE Q == Put([R EXCEPT ![c].end = end], at, Fresh(R[c], at))
  <2> SUFFICES ASSUME NEW b \in DOMAIN Q
               PROVE  AlmostLevel(S, Q, b) /\ Q[b] \in SegRec
    OBVIOUS
  <2>1. CASE b = at
    <3>1. Q[b] = Fresh(R[c], at)
      BY <2>1 DEF Put
    <3> QED
      BY <1>2, <1>3, <2>1, <3>1 DEF AlmostLevel
  <2>2. CASE b # at
    <3>1. b \in DOMAIN R /\ Q[b] \in {R[b], [R[b] EXCEPT !.end = end]}
      BY <2>2 DEF Put
    <3>2. R[b] \in SegRec /\ AlmostLevel(S, R, b)
      BY <1>3, <3>1
    <3>3. Q[b].pc = R[b].pc /\ Q[b].buf = R[b].buf /\ Q[b] \in SegRec
      BY <1>3, <3>1, <3>2 DEF SegRec
    <3> HIDE DEF Q
    <3> QED
      BY <3>2, <3>3 DEF AlmostLevel, Level, InBuffer
  <2> QED
    BY <2>1, <2>2
<1>4. DOMAIN S1 = DOMAIN S
  BY DEF Padded
<1> HIDE DEF S1
<1>5. Fine(S2) /\ b0 \in DOMAIN S2
  <2> HIDE DEF Fine
  <2>1. CASE Cut(S1, a, addr, f)
    <3>1. Fine(S2)
      BY <1>1, <1>3, <1>4, <2>1 DEF Carved
    <3> QED
      BY <2>1, <3>1 DEF Carved, Put
  <2>2. CASE ~ Cut(S1, a, addr, f)
    BY <1>1, <1>4, <2>2 DEF Carved
  <2> QED
    BY <2>1, <2>2
<1> HIDE DEF S2, b0
<1>6. Fine(S3) /\ b0 \in DOMAIN S3
  <2>1. PageEnd(addr) \in Nat
    BY PageFacts
  <2> HIDE DEF Fine
  <2>2. CASE S3 = S2
    BY <1>5, <2>2
  <2>3. CASE S3 # S2
    <3>1. S3 = Put([S2 EXCEPT ![b0].end = PageEnd(addr)], PageEnd(addr),
                   Fresh(S2[b0], PageEnd(addr)))
      BY <2>3 DEF Paged
    <3>2. Fine(S3)
      BY <1>3, <1>5, <2>1, <3>1
    <3> QED
      BY <1>5, <3>1, <3>2 DEF Put
  <2> QED
    BY <2>2, <2>3
<1> HIDE DEF S3
<1>7. T = Marked(S3, b0, f)
  BY DEF Opened, S1, S2, S3, b0
<1> SUFFICES ASSUME NEW b \in DOMAIN T
             PROVE  AlmostLevel(S, T, b)
  OBVIOUS
<1>8. b \in DOMAIN S3 /\ T[b] \in {S3[b], [S3[b] EXCEPT !.nbss = Sign(f)]}
  BY <1>6, <1>7 DEF Marked
<1>9. T[b].pc = S3[b].pc /\ T[b].buf = S3[b].buf
  BY <1>6, <1>8 DEF SegRec
<1> QED
  BY <1>6, <1>8, <1>9 DEF AlmostLevel, Level, InBuffer

(* The bytes emitted go to the buffer and move the pc.                     *)
LEMMA FilledLevel ==
  ASSUME NEW S, SegsOK(S), NEW a \in DOMAIN S, NEW n \in Nat, NEW T, T = Filled(S, a, n)
  PROVE  /\ DOMAIN T = DOMAIN S
         /\ T[a].pc = S[a].pc + n /\ T[a].pc \in Nat
         /\ n # 0 => T[a].buf = InBuffer(S[a]) + n
         /\ n # 0 => T[a].buf \in Nat /\ T[a].buf # NoBuffer
         /\ n = 0 => T[a].buf = S[a].buf
         /\ InBuffer(T[a]) = InBuffer(S[a]) + n
         /\ Level(a, S[a]) => Level(a, T[a])
         /\ \A b \in DOMAIN S : b # a => T[b] = S[b]
<1>1. /\ S[a] \in SegRec /\ S[a].pc \in Nat /\ S[a].buf \in Nat \cup {NoBuffer} /\ NoBuffer = -1
      /\ a \in Nat
  BY SegNumbers DEF NoBuffer
<1> DEFINE s == [S[a] EXCEPT !.pc = @ + n,
                   !.buf = IF n = 0 THEN @ ELSE IF @ = NoBuffer THEN n ELSE @ + n]
<1>2. /\ s.pc = S[a].pc + n
      /\ s.buf = IF n = 0 THEN S[a].buf ELSE IF S[a].buf = NoBuffer THEN n ELSE S[a].buf + n
  BY <1>1 DEF SegRec
<1>3. T = [b \in DOMAIN S |-> IF b = a THEN s ELSE S[b]]
  BY DEF Filled
<1>4. DOMAIN T = DOMAIN S /\ T[a] = s /\ \A b \in DOMAIN S : b # a => T[b] = S[b]
  BY <1>3
<1> HIDE DEF s
<1>5. /\ InBuffer(S[a]) \in Nat /\ (S[a].buf = NoBuffer => InBuffer(S[a]) = 0)
      /\ S[a].buf # NoBuffer => InBuffer(S[a]) = S[a].buf
  BY <1>1 DEF InBuffer
<1>6. /\ n # 0 => T[a].buf = InBuffer(S[a]) + n
      /\ n = 0 => T[a].buf = S[a].buf
  BY <1>1, <1>2, <1>4, <1>5
<1>7. n # 0 => T[a].buf \in Nat /\ T[a].buf # NoBuffer
  BY <1>1, <1>5, <1>6
<1>8. InBuffer(T[a]) = InBuffer(S[a]) + n
  <2>1. CASE n = 0
    BY <1>5, <1>6, <2>1 DEF InBuffer
  <2>2. CASE n # 0
    BY <1>6, <1>7, <2>2 DEF InBuffer
  <2> QED
    BY <2>1, <2>2
<1>9. Level(a, S[a]) => Level(a, T[a])
  BY <1>1, <1>2, <1>4, <1>5, <1>8 DEF Level
<1> QED
  BY <1>1, <1>2, <1>4, <1>6, <1>7, <1>8, <1>9

(* A fragment placed in one piece: where padding skips nothing, its bytes  *)
(* are loaded at their addresses.                                          *)
LEMMA WholeLoad ==
  ASSUME IInv, LoadInv, NothingSkipped, NEW i \in DOMAIN prog, Placing(i), NEW hit,
         Suits(segs, prog[i], prog[i].size, hit.seg, hit.addr), Whole(i, hit)
  PROVE  LoadInv'
<1> DEFINE f == prog[i]
           O == Opened(segs, hit.seg, hit.addr, f)
           skip == Aligned(hit.addr, Align(f)) - hit.addr
           p == Piece(O.segs, i, 0, f.size, O.seg, skip, f.size)
           n == skip + f.size
           a == O.seg
<1>1. /\ segs' = Filled(O.segs, a, n)
      /\ pieces' = pieces \cup {p}
  BY DEF Whole
<1>2. /\ f \in Fragments /\ f.size \in Nat \ {0} /\ SegsOK(segs) /\ hit.addr \in Nat
      /\ hit.seg \in DOMAIN segs /\ segs[hit.seg].pc <= hit.addr
      /\ AllLevel(segs) /\ outcome = "placing"
  BY ProgFacts DEF IInv, Typed, Held, Fragments, Suits, Placing, LoadInv
<1>3. SegsOK(O.segs) /\ a \in DOMAIN O.segs
  BY <1>2, OpenedOK DEF Splits
<1>4. \A b \in DOMAIN O.segs : AlmostLevel(segs, O.segs, b)
  BY <1>2, OpenedLevel
<1>5. n \in Nat \ {0} /\ skip \in Nat
  <2>1. Align(f) \in Nat
    BY <1>2 DEF Align, Fragments
  <2>2. Aligned(hit.addr, Align(f)) \in Nat /\ Aligned(hit.addr, Align(f)) >= hit.addr
    BY <1>2, <2>1, AlignedGrows
  <2> QED
    BY <1>2, <2>2
<1>6. p.at = O.segs[a].pc + skip /\ p.img = a + skip + InBuffer(O.segs[a])
  BY DEF Piece
<1> HIDE DEF O, skip, f, p, n, a
<1>7. ASSUME NEW b \in DOMAIN segs', ~ Level(b, O.segs[b])
      PROVE  /\ b \in DOMAIN segs /\ segs[b].buf = NoBuffer /\ O.segs[b].buf = NoBuffer
             /\ segs[b].pc = b /\ b \in Nat
             /\ segs'[b].pc - segs[b].pc = InBuffer(segs'[b])
  <2>1. b \in DOMAIN O.segs
    BY <1>1, <1>3, <1>5, FilledLevel
  <2>2. b \in DOMAIN segs /\ segs[b].buf = NoBuffer /\ O.segs[b].buf = NoBuffer
    BY <1>4, <1>7, <2>1 DEF AlmostLevel
  <2>3. b \in Nat /\ segs[b].pc = b
    BY <1>2, <2>2, SegNumbers DEF AllLevel, Level, InBuffer
  <2> QED
    BY <1>2, <2>2, <2>3 DEF NothingSkipped
<1>8. /\ DOMAIN segs' = DOMAIN O.segs
      /\ segs'[a].pc = O.segs[a].pc + n
      /\ InBuffer(segs'[a]) = InBuffer(O.segs[a]) + n
      /\ \A b \in DOMAIN O.segs : b # a => segs'[b] = O.segs[b]
      /\ Level(a, O.segs[a]) => Level(a, segs'[a])
  BY <1>1, <1>3, <1>5, FilledLevel
<1>9. Level(a, O.segs[a])
  <2> SUFFICES ASSUME ~ Level(a, O.segs[a])
               PROVE  FALSE
    OBVIOUS
  <2>1. /\ O.segs[a].buf = NoBuffer /\ segs[a].pc = a /\ a \in Nat
        /\ segs'[a].pc - segs[a].pc = InBuffer(segs'[a])
    BY <1>3, <1>7, <1>8
  <2>2. InBuffer(O.segs[a]) = 0 /\ O.segs[a].pc \in Nat
    BY <1>3, <2>1, SegNumbers DEF InBuffer
  <2>3. O.segs[a].pc = a
    BY <1>5, <1>8, <2>1, <2>2
  <2> QED
    BY <2>1, <2>2, <2>3 DEF Level
<1>10. ASSUME NEW b \in DOMAIN segs'
       PROVE  Level(b, segs'[b])
  <2>1. CASE b = a
    BY <1>8, <1>9, <2>1
  <2>2. CASE b # a
    <3>1. segs'[b] = O.segs[b]
      BY <1>8, <2>2
    <3>2. CASE Level(b, O.segs[b])
      BY <3>1, <3>2
    <3>3. CASE ~ Level(b, O.segs[b])
      <4>1. /\ segs'[b].buf = NoBuffer /\ segs[b].pc = b /\ b \in Nat
            /\ segs'[b].pc - segs[b].pc = InBuffer(segs'[b])
        BY <1>7, <3>1, <3>3
      <4>2. segs'[b].pc \in Nat
        BY <1>3, <1>8, <3>1, SegNumbers
      <4> QED
        BY <4>1, <4>2 DEF Level, InBuffer
    <3> QED
      BY <3>2, <3>3
  <2> QED
    BY <2>1, <2>2
<1>11. p.img = p.at
  <2>1. /\ a \in Nat /\ O.segs[a].pc \in Nat /\ O.segs[a].pc = a + InBuffer(O.segs[a])
        /\ InBuffer(O.segs[a]) \in Nat
    BY <1>3, <1>9, SegNumbers DEF Level, InBuffer
  <2> QED
    BY <1>5, <1>6, <2>1
<1> QED
  BY <1>1, <1>10, <1>11 DEF LoadInv, AllLevel

(* The same of a segment that is opened and not filled yet.                *)
LEMMA OpenedLoad ==
  ASSUME NothingSkipped, outcome = "placing", SegsOK(segs), AllLevel(segs),
         NEW S, SegsOK(S), AllLevel(S),
         \A b \in DOMAIN S : S[b].buf = NoBuffer => b \in DOMAIN segs /\ segs[b].buf = NoBuffer,
         NEW f \in Fragments, NEW size \in Nat \ {0},
         NEW a, NEW addr, Suits(S, f, size, a, addr),
         segs' = Opened(S, a, addr, f).segs
  PROVE  AllLevel(segs')
<1>1. a \in DOMAIN S /\ addr \in Nat /\ S[a].pc <= addr
  BY DEF Suits
<1>2. \A b \in DOMAIN segs' : AlmostLevel(S, segs', b)
  BY <1>1, OpenedLevel
<1>3. SegsOK(segs')
  BY OpenedOK DEF Splits
<1> SUFFICES ASSUME NEW b \in DOMAIN segs', ~ Level(b, segs'[b])
             PROVE  FALSE
  BY DEF AllLevel
<1>4. b \in DOMAIN segs /\ segs[b].buf = NoBuffer /\ segs'[b].buf = NoBuffer
  BY <1>2 DEF AlmostLevel
<1>5. segs'[b].pc - segs[b].pc = InBuffer(segs'[b])
  BY <1>4 DEF NothingSkipped
<1>6. segs[b].pc = b /\ b \in Nat
  BY <1>4, SegNumbers DEF AllLevel, Level, InBuffer
<1>7. segs'[b].pc \in Nat
  BY <1>3, SegNumbers
<1> QED
  BY <1>4, <1>5, <1>6, <1>7 DEF Level, InBuffer

(* The placement of data.                                                  *)
LEMMA PlaceDataLoad ==
  ASSUME IInv, LoadInv, NothingSkipped, NEW i \in DOMAIN prog, PlaceData(i)
  PROVE  LoadInv'
<1> DEFINE hit == Find(segs, prog[i], prog[i].size, FirstGo)
<1>1. Placing(i) /\ IF hit.kind = "found" THEN Whole(i, hit) ELSE Unplaced(i, hit.kind)
  BY DEF PlaceData
<1>2. prog[i] \in Fragments /\ prog[i].size \in Nat /\ FirstGo \in BOOLEAN /\ SegsOK(segs)
  BY ProgFacts DEF IInv, Typed, Held, Fragments, FirstGo
<1>3. hit.kind = "found" => Suits(segs, prog[i], prog[i].size, hit.seg, hit.addr)
  BY <1>2, FindSuits
<1> HIDE DEF hit
<1>4. CASE hit.kind = "found"
  BY <1>1, <1>3, <1>4, WholeLoad
<1>5. CASE hit.kind # "found"
  BY <1>1, <1>5 DEF Unplaced, Placing, LoadInv
<1> QED
  BY <1>4, <1>5

(* The placement of a function, whole or by its start.                     *)
LEMMA PlaceCodeLoad ==
  ASSUME IInv, LoadInv, NothingSkipped, NEW i \in DOMAIN prog, PlaceCode(i)
  PROVE  LoadInv'
<1> DEFINE f == prog[i]
           whole == IF f.nohop \/ f.size <= Sfst THEN Find(segs, f, f.size, FirstGo)
                    ELSE [kind |-> "none"]
           query == IF f.size < Lfss THEN f.size ELSE Lfss
           start == IF f.nohop /\ ~ FirstGo THEN [kind |-> "none"]
                    ELSE Find(segs, f, query, FirstGo)
           O == Opened(segs, start.seg, start.addr, f)
<1>1. /\ Placing(i) /\ Code(f)
      /\ IF whole.kind = "found" THEN Whole(i, whole)
         ELSE IF whole.kind # "none" THEN Unplaced(i, whole.kind)
         ELSE IF start.kind # "found" THEN Unplaced(i, start.kind)
         ELSE /\ segs' = O.segs
              /\ cur' = [frag |-> i, seg |-> O.seg, sent |-> 0, left |-> f.size]
              /\ UNCHANGED <<prog, stage, cursor, done, pieces, chains, outcome>>
  BY DEF PlaceCode
<1>2. /\ f \in Fragments /\ f.size \in Nat \ {0} /\ FirstGo \in BOOLEAN /\ SegsOK(segs)
      /\ Lfss \in Nat \ {0}
  <2>1. prog \in Programs /\ SegsOK(segs) /\ Lfss \in Nat \ {0}
    BY SegmentsAssumption DEF IInv, Typed, Held
  <2>2. f \in Fragments
    BY <2>1, ProgFacts
  <2> QED
    BY <2>1, <2>2 DEF Fragments, FirstGo
<1>3. query \in Nat \ {0}
  BY <1>2
<1>4. whole.kind = "found" => Suits(segs, f, f.size, whole.seg, whole.addr)
  BY <1>2, FindSuits
<1> HIDE DEF query
<1>5. start.kind = "found" => Suits(segs, f, query, start.seg, start.addr)
  BY <1>2, <1>3, FindSuits
<1> HIDE DEF whole, start
<1>6. Placing(i) /\ outcome = "placing"
  BY <1>1 DEF Placing
<1>7. CASE whole.kind = "found"
  BY <1>1, <1>4, <1>7, WholeLoad
<1>8. CASE whole.kind # "found" /\ ~ (whole.kind = "none" /\ start.kind = "found")
  <2>1. \E kind : Unplaced(i, kind)
    BY <1>1, <1>8
  <2> QED
    BY <1>6, <2>1 DEF Unplaced, LoadInv
<1>9. CASE whole.kind = "none" /\ start.kind = "found"
  <2>1. segs' = O.segs /\ pieces' = pieces
    BY <1>1, <1>9
  <2>2. AllLevel(segs)
    BY <1>6 DEF LoadInv
  <2> HIDE DEF f
  <2>3. AllLevel(segs')
    BY <1>2, <1>3, <1>5, <1>6, <1>9, <2>1, <2>2, OpenedLoad
  <2> QED
    BY <2>1, <2>3 DEF LoadInv
<1> QED
  BY <1>7, <1>8, <1>9

(* What a function that hops sent is loaded at its address. *)
LEMMA SentLoad ==
  ASSUME IInv, LoadInv, Hopping, NEW extra \in Nat, NEW left,
         NEW S, S = Filled(segs, cur.seg, cur.sent + extra)
  PROVE  /\ AllLevel(S) /\ \A p \in Pieces(extra, left) : p.img = p.at
         /\ \A b \in DOMAIN S : S[b].buf = NoBuffer => b \in DOMAIN segs /\ segs[b].buf = NoBuffer
<1> DEFINE f == prog[cur.frag]
           n == cur.sent + extra
           a == cur.seg
           p == Piece(segs, cur.frag, f.size - cur.left - cur.sent, f.size - left, a, 0, n)
<1>1. /\ cur \in CurRec /\ a \in DOMAIN segs /\ SegsOK(segs) /\ AllLevel(segs)
  BY DEF IInv, Typed, Hopping, CurRoomy, Roomy, Held, LoadInv
<1>2. n \in Nat /\ S = Filled(segs, a, n)
  BY <1>1 DEF CurRec
<1>3. Pieces(extra, left) \in {pieces, pieces \cup {p}}
  BY DEF Pieces
<1>4. p.at = segs[a].pc + 0 /\ p.img = a + 0 + InBuffer(segs[a])
  BY DEF Piece
<1> HIDE DEF p, n, a
<1>5. /\ a \in Nat /\ segs[a].pc \in Nat /\ InBuffer(segs[a]) \in Nat
      /\ segs[a].pc = a + InBuffer(segs[a])
  BY <1>1, SegNumbers DEF AllLevel, Level, InBuffer
<1>6. p.img = p.at
  BY <1>4, <1>5
<1>7. /\ DOMAIN S = DOMAIN segs /\ (Level(a, segs[a]) => Level(a, S[a]))
      /\ n # 0 => S[a].buf # NoBuffer
      /\ n = 0 => S[a].buf = segs[a].buf
      /\ \A b \in DOMAIN segs : b # a => S[b] = segs[b]
  BY <1>1, <1>2, FilledLevel
<1>8. AllLevel(S)
  BY <1>1, <1>7 DEF AllLevel
<1>9. \A b \in DOMAIN S : S[b].buf = NoBuffer => b \in DOMAIN segs /\ segs[b].buf = NoBuffer
  BY <1>1, <1>7
<1> QED
  BY <1>3, <1>6, <1>8, <1>9 DEF LoadInv

(* A hop.                                                                  *)
LEMMA HopAfterLoad ==
  ASSUME IInv, LoadInv, NothingSkipped, Hopping, NEW extra \in Nat, extra <= Jump,
         NEW need \in Nat, Jump <= need, NEW left, HopAfter(extra, need, left)
  PROVE  LoadInv'
<1> DEFINE f == prog[cur.frag]
           small(n) == IF n < Page THEN n ELSE Page
           roomy == IF need < Rest THEN Rest ELSE need
           S == Filled(segs, cur.seg, cur.sent + extra)
           Q == <<[size |-> small(roomy), go |-> TRUE],
                  [size |-> small(roomy), go |-> FALSE],
                  [size |-> small(need), go |-> TRUE],
                  [size |-> small(need), go |-> FALSE]>>
           hit == FindFirst(S, f, Q)
           O == Opened(S, hit.seg, hit.addr, f)
<1>1. /\ IF hit.kind = "found"
         THEN segs' = O.segs /\ pieces' = Pieces(extra, left) /\ outcome' = outcome
         ELSE UNCHANGED <<segs, pieces>>
  BY DEF HopAfter
<1>2. outcome = "placing" /\ f \in Fragments /\ SegsOK(segs) /\ AllLevel(segs)
  BY ProgFacts DEF IInv, Typed, Hopping, Held, LoadInv
<1>3. /\ SegsOK(S) /\ AllLevel(S) /\ \A p \in Pieces(extra, left) : p.img = p.at
      /\ \A b \in DOMAIN S : S[b].buf = NoBuffer => b \in DOMAIN segs /\ segs[b].buf = NoBuffer
  BY SentHeld, SentLoad DEF Held
<1>4. Jump \in Nat \ {0} /\ Page \in Nat /\ Jump <= Page /\ Rest \in Nat
  BY SegmentsAssumption
<1>5. /\ small(roomy) \in Nat /\ Jump <= small(roomy)
      /\ small(need) \in Nat /\ Jump <= small(need)
  BY <1>4
<1> HIDE DEF S, f, small, roomy
<1>6. /\ Q \in [1 .. 4 -> [size : Nat, go : BOOLEAN]] /\ DOMAIN Q = 1 .. 4
      /\ \A j \in 1 .. 4 : Jump <= Q[j].size
  BY <1>5, FourQueries
<1> HIDE DEF Q
<1>7. CASE hit.kind = "found"
  <2>1. \E j \in DOMAIN Q : Suits(S, f, Q[j].size, hit.seg, hit.addr)
    BY <1>2, <1>3, <1>6, <1>7, FindFirstSuits
  <2>2. PICK size \in Nat \ {0} : Suits(S, f, size, hit.seg, hit.addr)
    BY <1>4, <1>6, <2>1
  <2> HIDE DEF hit
  <2>3. AllLevel(segs')
    BY <1>1, <1>2, <1>3, <1>7, <2>2, OpenedLoad
  <2> QED
    BY <1>1, <1>3, <1>7, <2>3 DEF LoadInv
<1>8. CASE hit.kind # "found"
  BY <1>1, <1>2, <1>8 DEF LoadInv
<1> QED
  BY <1>7, <1>8

(* Every step keeps LoadInv when padding skips nothing.                    *)
LEMMA NextLoad ==
  ASSUME IInv, LoadInv, [Next]_vars, [NothingSkipped]_vars
  PROVE  LoadInv'
<1>0. CASE UNCHANGED vars
  BY <1>0 DEF vars, LoadInv
<1>1. ASSUME NothingSkipped, NEW i \in DOMAIN prog, PlaceData(i) \/ PlaceCode(i)
      PROVE  LoadInv'
  BY <1>1, PlaceDataLoad, PlaceCodeLoad
<1>2. ASSUME NothingSkipped, NEW need \in Needs, Hop(need)
      PROVE  LoadInv'
  BY <1>2, InstrFacts, HopAfterLoad DEF Hop
<1>3. ASSUME NEW k \in Instrs, Instruction(k)
      PROVE  LoadInv'
  BY <1>3 DEF Instruction, LoadInv
<1>4. ASSUME NothingSkipped, NEW k \in {2, Jump}, Branch(k)
      PROVE  LoadInv'
  <2>1. k \in Nat /\ k <= Jump /\ Hopping
    BY <1>4, InstrFacts DEF Branch
  <2>2. \/ HopAfter(k, Room(4), cur.left - k)
        \/ UNCHANGED <<segs, pieces, outcome>>
    BY <1>4 DEF Branch
  <2>3. CASE HopAfter(k, Room(4), cur.left - k)
    BY <1>4, <2>1, <2>3, InstrFacts, HopAfterLoad
  <2>4. CASE UNCHANGED <<segs, pieces, outcome>>
    BY <2>4 DEF LoadInv
  <2> QED
    BY <2>2, <2>3, <2>4
<1>5. CASE EndCode
  <2>1. Hopping /\ segs' = Filled(segs, cur.seg, cur.sent) /\ pieces' = Pieces(0, 0)
    BY <1>5 DEF EndCode
  <2>2. segs' = Filled(segs, cur.seg, cur.sent + 0)
    BY <2>1 DEF Hopping, IInv, Typed, CurRec
  <2>3. AllLevel(segs') /\ \A p \in pieces' : p.img = p.at
    BY <2>1, <2>2, SentLoad
  <2> QED
    BY <2>3 DEF LoadInv
<1>6. CASE NextStage \/ Verify \/ MagicBss \/ MagicHeap \/ Exited
  <2>1. pieces' = pieces /\ (outcome' = "placing" => outcome = "placing" /\ segs' = segs)
    BY <1>6 DEF NextStage, Verify, MagicBss, MagicHeap, Unmade, Exited, vars
  <2> QED
    BY <2>1 DEF LoadInv
<1>7. CASE NothingSkipped /\ Next
  BY <1>1, <1>2, <1>3, <1>4, <1>5, <1>6, <1>7 DEF Next
<1> QED
  BY <1>0, <1>7

(* When main starts, a program where padding skipped nothing at the start   *)
(* of a segment has its code and data loaded at the addresses of its       *)
(* labels, and its bss there, loaded or cleared: every other step, cuts,   *)
(* hops, alignment and pads in the middle of a segment, keeps the image    *)
(* and the addresses level.                                                *)
THEOREM MemoryIsReady == Spec /\ [][NothingSkipped]_vars => []MemoryReady
<1>1. Init => LoadInv
  <2> SUFFICES ASSUME Init
               PROVE  LoadInv
    OBVIOUS
  <2>1. PICK link \in Links : segs = MakeSegments(link.map, link.prags)
    BY DEF Init
  <2>2. ASSUME NEW a \in DOMAIN segs
        PROVE  Level(a, segs[a])
    <3>1. \E to, flags, rank : segs[a] = Segment(a, to, flags, rank)
      BY <2>1 DEF MakeSegments
    <3>2. a \in Nat
      BY InitInv, SegNumbers DEF IInv, Held
    <3> QED
      BY <3>1, <3>2 DEF Segment, Level, InBuffer
  <2>3. pieces = {}
    BY DEF Init
  <2> QED
    BY <2>2, <2>3 DEF LoadInv, AllLevel
<1>2. IInv /\ LoadInv /\ [Next]_vars /\ [NothingSkipped]_vars => LoadInv'
  BY NextLoad
<1>3. LoadInv /\ (outcome = "linked" => \A p \in pieces : p.img = p.at => Ready(p))
      => MemoryReady
  BY DEF LoadInv, MemoryReady
<1> QED
  BY <1>1, <1>2, <1>3, PiecesReady, SegmentsInvariant, PTL DEF Spec

-----------------------------------------------------------------------------
(* What is placed stays on the map, and malloc gets areas it can use.      *)

(* Each segment of T is inside of one of S. *)
Narrows(S, T) ==
  \A b \in DOMAIN T : \E a \in DOMAIN S : a <= b /\ T[b].end <= S[a].end

(* The same segments, to their ends.                                       *)
LEMMA SameEnds ==
  ASSUME NEW S, SegsOK(S), NEW T, DOMAIN T = DOMAIN S,
         \A a \in DOMAIN S : T[a].end = S[a].end
  PROVE  Narrows(S, T)
<1> SUFFICES ASSUME NEW a \in DOMAIN S
             PROVE  a <= a /\ T[a].end <= S[a].end
  BY DEF Narrows
<1>1. a \in Nat /\ S[a].end \in Nat /\ T[a].end = S[a].end
  BY SegFacts
<1> QED
  BY <1>1

(* Two changes in a row. *)
LEMMA NarrowsBoth ==
  ASSUME NEW S, SegsOK(S), NEW T, SegsOK(T), NEW U, SegsOK(U), Narrows(S, T), Narrows(T, U)
  PROVE  Narrows(S, U)
<1> SUFFICES ASSUME NEW c \in DOMAIN U
             PROVE  \E a \in DOMAIN S : a <= c /\ U[c].end <= S[a].end
  BY DEF Narrows
<1>1. PICK b \in DOMAIN T : b <= c /\ U[c].end <= T[b].end
  BY DEF Narrows
<1>2. PICK a \in DOMAIN S : a <= b /\ T[b].end <= S[a].end
  BY DEF Narrows
<1>3. /\ a \in Nat /\ b \in Nat /\ c \in Nat
      /\ S[a].end \in Nat /\ T[b].end \in Nat /\ U[c].end \in Nat
  BY SegFacts
<1> QED
  BY <1>1, <1>2, <1>3

(* find_segment cuts segments; bytes emitted do not move their ends.       *)
LEMMA SplitNarrows ==
  ASSUME NEW S, SegsOK(S), NEW T, NEW a \in DOMAIN S, Splits(S, T, a)
  PROVE  Narrows(S, T)
<1> SUFFICES ASSUME NEW b \in DOMAIN T
             PROVE  \E c \in DOMAIN S : c <= b /\ T[b].end <= S[c].end
  BY DEF Narrows
<1>1. SegsOK(T)
  BY DEF Splits
<1>2. b \in Nat /\ T[b].end \in Nat /\ a \in Nat
  BY <1>1, SegFacts
<1>3. CASE b \in DOMAIN S /\ b # a
  BY <1>2, <1>3 DEF Splits
<1>4. CASE b = a
  BY <1>2, <1>4 DEF Splits
<1>5. CASE b \notin DOMAIN S
  <2>1. a < b /\ T[b].end <= S[a].end
    BY <1>5 DEF Splits
  <2> QED
    BY <1>2, <2>1
<1> QED
  BY <1>3, <1>4, <1>5

(* Emitting bytes only moves the end of what is used in a segment.         *)
LEMMA FilledNarrows ==
  ASSUME NEW S, SegsOK(S), NEW a \in DOMAIN S, NEW n \in Nat, NEW T, T = Filled(S, a, n)
  PROVE  Narrows(S, T) /\ SegsOK(T)
<1> DEFINE s == [S[a] EXCEPT !.pc = @ + n,
                   !.buf = IF n = 0 THEN @ ELSE IF @ = NoBuffer THEN n ELSE @ + n]
<1>1. S[a] \in SegRec /\ S[a].pc \in Nat /\ S[a].buf \in Nat \cup {NoBuffer} /\ NoBuffer = -1
  BY SegNumbers DEF NoBuffer
<1>2. s.end = S[a].end /\ s.pc = S[a].pc + n /\ s \in SegRec
  <2>1. /\ S[a].pc + n \in Nat
        /\ (IF n = 0 THEN S[a].buf ELSE IF S[a].buf = NoBuffer THEN n ELSE S[a].buf + n)
             \in Nat \cup {NoBuffer}
    BY <1>1
  <2> QED
    BY <1>1, <2>1 DEF SegRec
<1>3. T = [b \in DOMAIN S |-> IF b = a THEN s ELSE S[b]]
  BY DEF Filled
<1> HIDE DEF s
<1>4. DOMAIN T = DOMAIN S /\ \A b \in DOMAIN S : T[b].end = S[b].end
  BY <1>2, <1>3
<1>5. S[a].pc <= s.pc
  BY <1>1, <1>2
<1> QED
  BY <1>2, <1>3, <1>4, <1>5, SameEnds, MovedOK

(* A fragment placed in one piece.                                         *)
LEMMA WholeNarrows ==
  ASSUME IInv, NEW i \in DOMAIN prog, NEW hit,
         Suits(segs, prog[i], prog[i].size, hit.seg, hit.addr), Whole(i, hit)
  PROVE  Narrows(segs, segs') /\ UNCHANGED <<prog, chains>>
<1> DEFINE f == prog[i]
           O == Opened(segs, hit.seg, hit.addr, f)
           skip == Aligned(hit.addr, Align(f)) - hit.addr
<1>1. segs' = Filled(O.segs, O.seg, skip + f.size) /\ UNCHANGED <<prog, chains>>
  BY DEF Whole
<1>2. f \in Fragments /\ f.size \in Nat \ {0} /\ SegsOK(segs) /\ hit.addr \in Nat
      /\ hit.seg \in DOMAIN segs
  BY ProgFacts DEF IInv, Typed, Held, Fragments, Suits
<1>3. Splits(segs, O.segs, hit.seg) /\ O.seg \in DOMAIN O.segs
  BY <1>2, OpenedOK
<1>4. skip + f.size \in Nat
  <2>1. Align(f) \in Nat
    BY <1>2 DEF Align, Fragments
  <2>2. Aligned(hit.addr, Align(f)) \in Nat /\ Aligned(hit.addr, Align(f)) >= hit.addr
    BY <1>2, <2>1, AlignedGrows
  <2> QED
    BY <1>2, <2>2
<1> HIDE DEF O, skip, f
<1>5. Narrows(segs, O.segs) /\ SegsOK(O.segs)
  BY <1>2, <1>3, SplitNarrows DEF Splits
<1>6. Narrows(O.segs, segs') /\ SegsOK(segs')
  BY <1>1, <1>3, <1>4, <1>5, FilledNarrows
<1> QED
  BY <1>1, <1>2, <1>5, <1>6, NarrowsBoth

(* The steps that place.                                                   *)
LEMMA PlaceNarrows ==
  ASSUME IInv, NEW i \in DOMAIN prog, PlaceData(i) \/ PlaceCode(i)
  PROVE  Narrows(segs, segs') /\ UNCHANGED <<prog, chains>>
<1> DEFINE f == prog[i]
           data == Find(segs, f, f.size, FirstGo)
           whole == IF f.nohop \/ f.size <= Sfst THEN Find(segs, f, f.size, FirstGo)
                    ELSE [kind |-> "none"]
           query == IF f.size < Lfss THEN f.size ELSE Lfss
           start == IF f.nohop /\ ~ FirstGo THEN [kind |-> "none"]
                    ELSE Find(segs, f, query, FirstGo)
           O == Opened(segs, start.seg, start.addr, f)
<1>1. \/ data.kind = "found" /\ Whole(i, data)
      \/ whole.kind = "found" /\ Whole(i, whole)
      \/ start.kind = "found" /\ segs' = O.segs /\ UNCHANGED <<prog, chains>>
      \/ \E kind : Unplaced(i, kind)
  BY DEF PlaceData, PlaceCode
<1>2. /\ f \in Fragments /\ f.size \in Nat \ {0} /\ FirstGo \in BOOLEAN /\ SegsOK(segs)
      /\ Lfss \in Nat \ {0}
  <2>1. prog \in Programs /\ SegsOK(segs) /\ Lfss \in Nat \ {0}
    BY SegmentsAssumption DEF IInv, Typed, Held
  <2>2. f \in Fragments
    BY <2>1, ProgFacts
  <2> QED
    BY <2>1, <2>2 DEF Fragments, FirstGo
<1>3. query \in Nat \ {0}
  BY <1>2
<1>4. /\ data.kind = "found" => Suits(segs, f, f.size, data.seg, data.addr)
      /\ whole.kind = "found" => Suits(segs, f, f.size, whole.seg, whole.addr)
  BY <1>2, FindSuits
<1> HIDE DEF query
<1>5. start.kind = "found" => Suits(segs, f, query, start.seg, start.addr)
  BY <1>2, <1>3, FindSuits
<1> HIDE DEF data, whole, start
<1>6. CASE \E hit : Suits(segs, f, f.size, hit.seg, hit.addr) /\ Whole(i, hit)
  BY <1>6, WholeNarrows
<1>7. CASE start.kind = "found" /\ segs' = O.segs /\ UNCHANGED <<prog, chains>>
  <2> HIDE DEF f
  <2>1. Splits(segs, O.segs, start.seg)
    BY <1>2, <1>3, <1>5, <1>7, OpenedOK
  <2>2. start.seg \in DOMAIN segs
    BY <1>5, <1>7 DEF Suits
  <2> HIDE DEF O
  <2> QED
    BY <1>2, <1>7, <2>1, <2>2, SplitNarrows
<1>8. CASE \E kind : Unplaced(i, kind)
  <2>1. UNCHANGED <<prog, segs, chains>>
    BY <1>8 DEF Unplaced
  <2> QED
    BY <1>2, <2>1, SameEnds
<1>9. CASE data.kind = "found" /\ Whole(i, data)
  BY <1>4, <1>6, <1>9
<1>10. CASE whole.kind = "found" /\ Whole(i, whole)
  BY <1>4, <1>6, <1>10
<1> QED
  BY <1>1, <1>7, <1>8, <1>9, <1>10

(* A hop.                                                                  *)
LEMMA HopNarrows ==
  ASSUME IInv, Hopping, NEW extra \in Nat, extra <= Jump,
         NEW need \in Nat, Jump <= need, NEW left, HopAfter(extra, need, left)
  PROVE  Narrows(segs, segs') /\ UNCHANGED <<prog, chains>>
<1> DEFINE f == prog[cur.frag]
           small(n) == IF n < Page THEN n ELSE Page
           roomy == IF need < Rest THEN Rest ELSE need
           S == Filled(segs, cur.seg, cur.sent + extra)
           Q == <<[size |-> small(roomy), go |-> TRUE],
                  [size |-> small(roomy), go |-> FALSE],
                  [size |-> small(need), go |-> TRUE],
                  [size |-> small(need), go |-> FALSE]>>
           hit == FindFirst(S, f, Q)
           O == Opened(S, hit.seg, hit.addr, f)
<1>1. /\ IF hit.kind = "found" THEN segs' = O.segs ELSE UNCHANGED segs
      /\ UNCHANGED <<prog, chains>>
  BY DEF HopAfter
<1>2. /\ f \in Fragments /\ SegsOK(segs) /\ cur.seg \in DOMAIN segs
      /\ cur.sent + extra \in Nat
  BY ProgFacts DEF IInv, Typed, Hopping, CurRoomy, Roomy, Held, CurRec
<1>3. Narrows(segs, S) /\ SegsOK(S)
  BY <1>2, FilledNarrows
<1>4. Jump \in Nat \ {0} /\ Page \in Nat /\ Jump <= Page /\ Rest \in Nat
  BY SegmentsAssumption
<1>5. /\ small(roomy) \in Nat /\ Jump <= small(roomy)
      /\ small(need) \in Nat /\ Jump <= small(need)
  BY <1>4
<1> HIDE DEF S, f, small, roomy
<1>6. /\ Q \in [1 .. 4 -> [size : Nat, go : BOOLEAN]] /\ DOMAIN Q = 1 .. 4
      /\ \A j \in 1 .. 4 : Jump <= Q[j].size
  BY <1>5, FourQueries
<1> HIDE DEF Q
<1>7. CASE hit.kind = "found"
  <2>1. \E j \in DOMAIN Q : Suits(S, f, Q[j].size, hit.seg, hit.addr)
    BY <1>2, <1>3, <1>6, <1>7, FindFirstSuits
  <2>2. PICK size \in Nat \ {0} : Suits(S, f, size, hit.seg, hit.addr)
    BY <1>4, <1>6, <2>1
  <2> HIDE DEF hit
  <2>3. Splits(S, O.segs, hit.seg) /\ hit.seg \in DOMAIN S
    BY <1>2, <1>3, <2>2, OpenedOK DEF Suits
  <2> HIDE DEF O
  <2>4. Narrows(S, O.segs) /\ SegsOK(O.segs)
    BY <1>3, <2>3, SplitNarrows DEF Splits
  <2>5. Narrows(segs, O.segs)
    BY <1>2, <1>3, <2>4, NarrowsBoth
  <2> QED
    BY <1>1, <1>7, <2>5
<1>8. CASE hit.kind # "found"
  BY <1>1, <1>2, <1>8, SameEnds
<1> QED
  BY <1>7, <1>8

(* A function from the first numbers is a sequence. *)
LEMMA IsSeq ==
  ASSUME NEW T, NEW n \in Nat, NEW s \in [1 .. n -> T]
  PROVE  s \in Seq(T)
OBVIOUS

(* The lists: that of bss leaves the segments where they are,              *)
LEMMA MagicBssNarrows ==
  ASSUME IInv, MagicBss
  PROVE  Narrows(segs, segs') /\ prog' = prog /\ chains'.heap = chains.heap
<1>1. SegsOK(segs) /\ DOMAIN segs' = DOMAIN segs /\ prog' = prog /\ chains'.heap = chains.heap
  BY DEF IInv, Typed, Held, MagicBss
<1>2. ASSUME NEW a \in DOMAIN segs
      PROVE  segs'[a].end = segs[a].end
  <2>1. segs[a] \in SegRec
    BY <1>1, SegFacts
  <2>2. segs'[a] = segs[a] \/ segs'[a] = [segs[a] EXCEPT !.buf = 4]
    BY DEF MagicBss
  <2> QED
    BY <2>1, <2>2 DEF SegRec
<1> QED
  BY <1>1, <1>2, SameEnds

(* that of the heap cuts off the end of some.                              *)
LEMMA MagicHeapNarrows ==
  ASSUME IInv, MagicHeap
  PROVE  /\ Narrows(segs, segs') /\ prog' = prog
         /\ chains'.heap \in Seq([at : Nat, size : Nat])
<1> DEFINE A == {a \in DOMAIN segs : /\ "H" \in segs[a].flags
                                     /\ HeapEnd(a) - HeapStart(a) >= MinHeap}
           order == Backwards(A)
           heap == [n \in DOMAIN order |->
                      [at |-> HeapStart(order[n]),
                       size |-> HeapEnd(order[n]) - HeapStart(order[n])]]
<1>1. /\ segs' = Sold(A) /\ prog' = prog
      /\ chains' = [chains EXCEPT !.heap = heap, !.made = @ \cup {"heap"}]
  BY DEF MagicHeap, Sold
<1>2. /\ SegsOK(segs) /\ A \in SUBSET DOMAIN segs
      /\ \A a \in A : HeapEnd(a) - HeapStart(a) >= MinHeap
      /\ chains = [bss |-> chains.bss, heap |-> chains.heap, made |-> chains.made]
  BY DEF IInv, Typed, Held
<1>3. IsFiniteSet(A) /\ Cardinality(A) \in Nat
  BY <1>2, FS_Subset, FS_CardinalityType DEF SegsOK
<1>4. DOMAIN order = 1 .. Cardinality(A) /\ \A n \in DOMAIN order : order[n] \in A
  BY <1>2, BackwardsOrder DEF Backwards
<1> HIDE DEF A, order
<1>5. \A a \in A : /\ HeapStart(a) \in Nat /\ HeapEnd(a) \in Int
                   /\ HeapEnd(a) - HeapStart(a) >= 24
                   /\ a \in DOMAIN segs /\ a \in Nat /\ a <= HeapStart(a)
                   /\ segs[a].end \in Nat
                   /\ HeapStart(a) + 24 <= segs[a].end
  BY <1>2, HeapFacts, SegFacts
<1>6. heap \in Seq([at : Nat, size : Nat])
  <2>1. ASSUME NEW n \in DOMAIN order
        PROVE  heap[n] \in [at : Nat, size : Nat]
    <3>1. order[n] \in A
      BY <1>4
    <3> QED
      BY <1>5, <3>1
  <2>2. heap \in [1 .. Cardinality(A) -> [at : Nat, size : Nat]]
    BY <1>4, <2>1
  <2> HIDE DEF heap
  <2> QED
    BY <1>3, <2>2, IsSeq
<1>7. chains'.heap = heap
  BY <1>1, <1>2
<1> HIDE DEF heap
<1>8. Narrows(segs, segs')
  <2> SUFFICES ASSUME NEW b \in DOMAIN segs'
               PROVE  \E a \in DOMAIN segs : a <= b /\ segs'[b].end <= segs[a].end
    BY DEF Narrows
  <2>1. /\ DOMAIN segs' = DOMAIN segs \cup Starts(A)
        /\ \A a \in A : segs'[HeapStart(a)].end = segs[a].end
        /\ \A c \in DOMAIN segs : c \notin Starts(A) =>
             /\ c \in A => segs'[c].end = HeapStart(c)
             /\ c \notin A => segs'[c] = segs[c]
    <3>1. /\ DOMAIN segs' = DOMAIN segs \cup Starts(A)
          /\ \A a \in A :
               /\ segs'[HeapStart(a)] \in SegRec /\ HeapStart(a) \in DOMAIN segs'
               /\ segs'[HeapStart(a)].pc = HeapStart(a) + 4
               /\ segs'[HeapStart(a)].end = segs[a].end
               /\ segs'[HeapStart(a)].flags = segs[a].flags
          /\ \A b1 \in DOMAIN segs : b1 \notin Starts(A) =>
               /\ segs'[b1] \in SegRec /\ segs'[b1].pc = segs[b1].pc
               /\ b1 \in A => segs'[b1].end = HeapStart(b1) /\ b1 < HeapStart(b1)
               /\ b1 \notin A => segs'[b1] = segs[b1]
      BY <1>1, <1>2, SoldFields
    <3> QED
      BY <3>1
  <2>2. CASE b \in Starts(A)
    <3>1. PICK a \in A : b = HeapStart(a)
      BY <2>2 DEF Starts
    <3>2. a \in DOMAIN segs /\ a <= b /\ segs'[b].end <= segs[a].end
      BY <1>5, <2>1, <3>1
    <3> QED
      BY <3>2
  <2>3. CASE b \notin Starts(A)
    <3>1. b \in DOMAIN segs /\ b \in Nat /\ segs[b].end \in Nat
      BY <1>2, <2>1, <2>3, SegFacts
    <3>2. segs'[b].end <= segs[b].end
      BY <1>5, <2>1, <2>3, <3>1
    <3> QED
      BY <3>1, <3>2
  <2> QED
    BY <2>2, <2>3
<1> QED
  BY <1>1, <1>6, <1>7, <1>8

(* No step makes a segment that was not inside of one, so that each segment *)
(* always lies in a span of the map or of a pragma.                        *)
OnMap ==
  /\ \E link \in Links :
       prog = link.prog /\ Mapped(SpansOf(link.map, link.prags), segs)
  /\ chains.heap \in Seq([at : Nat, size : Nat])

(* Every step of the linker only cuts segments, and gives malloc areas     *)
(* with a number for address and for size.                                 *)
LEMMA NextNarrows ==
  ASSUME IInv, [Next]_vars
  PROVE  /\ Narrows(segs, segs') /\ prog' = prog
         /\ chains'.heap = chains.heap \/ chains'.heap \in Seq([at : Nat, size : Nat])
<1>1. SegsOK(segs)
  BY DEF IInv, Held
<1>2. ASSUME NEW i \in DOMAIN prog, PlaceData(i) \/ PlaceCode(i)
      PROVE  Narrows(segs, segs') /\ UNCHANGED <<prog, chains>>
  BY <1>2, PlaceNarrows
<1>3. ASSUME NEW need \in Needs, Hop(need)
      PROVE  Narrows(segs, segs') /\ UNCHANGED <<prog, chains>>
  BY <1>3, InstrFacts, HopNarrows DEF Hop
<1>4. ASSUME NEW k \in {2, Jump}, Branch(k)
      PROVE  Narrows(segs, segs') /\ UNCHANGED <<prog, chains>>
  <2>1. k \in Nat /\ k <= Jump /\ Hopping
    BY <1>4, InstrFacts DEF Branch
  <2>2. HopAfter(k, Room(4), cur.left - k) \/ UNCHANGED <<prog, segs, chains>>
    BY <1>4 DEF Branch
  <2> QED
    BY <1>1, <2>1, <2>2, InstrFacts, HopNarrows, SameEnds
<1>5. CASE EndCode
  <2>1. segs' = Filled(segs, cur.seg, cur.sent) /\ UNCHANGED <<prog, chains>>
    BY <1>5 DEF EndCode
  <2>2. cur.seg \in DOMAIN segs /\ cur.sent \in Nat
    BY <1>5 DEF EndCode, Hopping, IInv, Typed, CurRec, CurRoomy, Roomy
  <2> QED
    BY <1>1, <2>1, <2>2, FilledNarrows
<1>6. CASE (\E k \in Instrs : Instruction(k)) \/ NextStage \/ Verify \/ Exited \/ UNCHANGED vars
  <2>1. UNCHANGED <<prog, segs, chains>>
    BY <1>6 DEF Instruction, NextStage, Verify, Exited, vars
  <2> QED
    BY <1>1, <2>1, SameEnds
<1>7. CASE MagicBss \/ MagicHeap
  BY <1>7, MagicBssNarrows, MagicHeapNarrows
<1> QED
  BY <1>2, <1>3, <1>4, <1>5, <1>6, <1>7 DEF Next

(* So the segments stay on the map that the link started from.             *)
LEMMA NextOnMap ==
  ASSUME IInv, OnMap, [Next]_vars
  PROVE  OnMap'
<1>1. PICK link \in Links :
        prog = link.prog /\ Mapped(SpansOf(link.map, link.prags), segs)
  BY DEF OnMap
<1> DEFINE M == SpansOf(link.map, link.prags)
<1>2. M \subseteq Spans
  <2>1. link.map \in Seq(Spans) /\ link.prags \in Seq(Spans)
    BY SegmentsAssumption
  <2> QED
    BY <2>1 DEF SpansOf
<1>3. SegsOK(segs) /\ SegsOK(segs')
  BY NextInv DEF IInv, Held
<1>4. /\ Narrows(segs, segs') /\ prog' = prog
      /\ chains'.heap = chains.heap \/ chains'.heap \in Seq([at : Nat, size : Nat])
  BY NextNarrows
<1> HIDE DEF M
<1>5. Mapped(M, segs')
  <2> SUFFICES ASSUME NEW b \in DOMAIN segs'
               PROVE  \E s \in M : s.from <= b /\ segs'[b].end <= s.to
    BY DEF Mapped
  <2>1. PICK a \in DOMAIN segs : a <= b /\ segs'[b].end <= segs[a].end
    BY <1>4 DEF Narrows
  <2>2. PICK s \in M : s.from <= a /\ segs[a].end <= s.to
    BY <1>1 DEF Mapped, M
  <2>3. s.from \in Nat /\ s.to \in Nat
    BY <1>2 DEF Spans
  <2>4. a \in Nat /\ b \in Nat /\ segs[a].end \in Nat /\ segs'[b].end \in Nat
    BY <1>3, SegFacts
  <2> QED
    BY <2>1, <2>2, <2>3, <2>4
<1>6. \E l \in Links : prog' = l.prog /\ Mapped(SpansOf(l.map, l.prags), segs')
  BY <1>1, <1>4, <1>5 DEF M
<1> QED
  BY <1>4, <1>6 DEF OnMap

(* At every step of every link the segments are on its map.                *)
LEMMA AlwaysOnMap == Spec => []OnMap
<1>1. Init => OnMap
  <2> SUFFICES ASSUME Init
               PROVE  OnMap
    OBVIOUS
  <2>1. PICK link \in Links : prog = link.prog /\ segs = MakeSegments(link.map, link.prags)
    BY DEF Init
  <2>2. /\ link.map \in Seq(Spans) /\ Apart(link.map)
        /\ link.prags \in Seq(Spans) /\ Apart(link.prags)
    BY SegmentsAssumption
  <2>3. Mapped(SpansOf(link.map, link.prags), segs)
    BY <2>1, <2>2, MadeOK
  <2>4. chains.heap = <<>>
    BY DEF Init
  <2> QED
    BY <2>1, <2>3, <2>4 DEF OnMap
<1>2. IInv /\ OnMap /\ [Next]_vars => OnMap'
  BY NextOnMap
<1> QED
  BY <1>1, <1>2, SegmentsInvariant, PTL DEF Spec

(* The pieces of a linked program, and the areas of the heap, lie in M.    *)
OnlyOn(M) ==
  /\ outcome = "linked" =>
       \A p \in pieces : \E s \in M : s.from <= p.at /\ p.at + p.size <= s.to
  /\ \A n \in DOMAIN chains.heap : \E s \in M :
       s.from <= chains.heap[n].at /\ chains.heap[n].at + chains.heap[n].size <= s.to

(* The items of a sequence.                                                *)
LEMMA Element ==
  ASSUME NEW T, NEW L \in Seq(T), NEW n \in DOMAIN L
  PROVE  L[n] \in T
OBVIOUS

(* The numbers of a span.                                                  *)
LEMMA SpanNumbers ==
  ASSUME NEW link \in Links, NEW s \in SpansOf(link.map, link.prags)
  PROVE  s.from \in Nat /\ s.to \in Nat
<1>1. link.map \in Seq(Spans) /\ link.prags \in Seq(Spans)
  BY SegmentsAssumption
<1>2. s \in Spans
  BY <1>1 DEF SpansOf
<1> QED
  BY <1>2 DEF Spans

(* The same of an area.                                                    *)
LEMMA AreaNumbers ==
  ASSUME NEW L \in Seq([at : Nat, size : Nat]), NEW n \in DOMAIN L
  PROVE  L[n].at \in Nat /\ L[n].size \in Nat
<1>1. L[n] \in [at : Nat, size : Nat]
  BY Element
<1> QED
  BY <1>1

(* A linked program has no byte outside of the memory that the map and the *)
(* pragmas of its link describe, and neither has its heap.                 *)
THEOREM NothingOffTheMap ==
  Spec => [](\E link \in Links :
               prog = link.prog /\ OnlyOn(SpansOf(link.map, link.prags)))
<1>1. ASSUME IInv, OnMap
      PROVE  \E link \in Links : prog = link.prog /\ OnlyOn(SpansOf(link.map, link.prags))
  <2>1. PICK link \in Links :
          prog = link.prog /\ Mapped(SpansOf(link.map, link.prags), segs)
    BY <1>1 DEF OnMap
  <2> DEFINE M == SpansOf(link.map, link.prags)
  <2>2. \A s \in M : s.from \in Nat /\ s.to \in Nat
    BY SpanNumbers
  <2>3. SegsOK(segs) /\ \A p \in pieces : Inside(segs, p)
    BY <1>1 DEF IInv, Held
  <2> HIDE DEF M
  <2>4. ASSUME outcome = "linked", NEW p \in pieces
        PROVE  \E s \in M : s.from <= p.at /\ p.at + p.size <= s.to
    <3>1. PICK a \in DOMAIN segs : a <= p.at /\ p.at + p.size <= segs[a].pc
      BY <2>3 DEF Inside
    <3>2. segs[a].pc <= segs[a].end
      BY <1>1, <2>4 DEF IInv, SegmentsFit, Fitted
    <3>3. PICK s \in M : s.from <= a /\ segs[a].end <= s.to
      BY <2>1 DEF Mapped, M
    <3>4. /\ a \in Nat /\ segs[a].pc \in Nat /\ segs[a].end \in Nat
          /\ s.from \in Nat /\ s.to \in Nat /\ p.at \in Nat /\ p.size \in Nat
      BY <2>2, <2>3, SegFacts DEF Inside
    <3> QED
      BY <3>1, <3>2, <3>3, <3>4
  <2>5. ASSUME NEW n \in DOMAIN chains.heap
        PROVE  \E s \in M :
                 /\ s.from <= chains.heap[n].at
                 /\ chains.heap[n].at + chains.heap[n].size <= s.to
    <3> DEFINE h == chains.heap[n]
    <3>1. h.at \in Nat /\ h.size \in Nat
      BY <1>1, AreaNumbers DEF OnMap
    <3>2. PICK a \in DOMAIN segs : a <= h.at /\ h.at + h.size <= segs[a].end
      BY <1>1 DEF IInv, HeapUsable
    <3>3. PICK s \in M : s.from <= a /\ segs[a].end <= s.to
      BY <2>1 DEF Mapped, M
    <3>4. a \in Nat /\ segs[a].end \in Nat /\ s.from \in Nat /\ s.to \in Nat
      BY <2>2, <2>3, SegFacts
    <3> HIDE DEF h
    <3>5. s.from <= h.at /\ h.at + h.size <= s.to
      BY <3>1, <3>2, <3>3, <3>4
    <3> QED
      BY <3>5 DEF h
  <2>6. OnlyOn(M)
    BY <2>4, <2>5 DEF OnlyOn
  <2> QED
    BY <2>1, <2>6 DEF M
<1>2. IInv /\ OnMap =>
        \E link \in Links : prog = link.prog /\ OnlyOn(SpansOf(link.map, link.prags))
  BY <1>1
<1> QED
  BY <1>2, SegmentsInvariant, AlwaysOnMap, PTL

(* What MallocAssumption supposes of an area,                              *)
MallocArea(a) ==
  /\ a.at \in Nat \ {0} /\ a.at % 4 = 0
  /\ a.size % 4 = 0 /\ a.size >= 24
  /\ a.size <= 32767 /\ a.at + a.size <= 65536

(* of the areas of a list, which do not overlap,                           *)
MallocAreas(L) ==
  /\ L \in Seq([at : Nat, size : Nat])
  /\ \A i \in 1 .. Len(L) : MallocArea(L[i])
  /\ \A i, j \in 1 .. Len(L) : i # j => NoCommonByte(L[i], L[j])

(* and of what is placed, the variable head among the rest.                *)
OutOfAreas(L, p) ==
  \A i \in 1 .. Len(L) : p.at + p.size <= L[i].at \/ p.at >= L[i].at + L[i].size

(* The list that the linker makes for malloc_init is one of areas as       *)
(* malloc.c assumes them, and no fragment has bytes in them.               *)
THEOREM HeapServesMalloc ==
  ASSUME MapsForMalloc
  PROVE  Spec => [](/\ MallocAreas(chains.heap)
                    /\ outcome = "linked" =>
                         \A p \in pieces : OutOfAreas(chains.heap, p))
<1> DEFINE L == chains.heap
<1>1. ASSUME IInv, OnMap, NEW link \in Links, OnlyOn(SpansOf(link.map, link.prags))
      PROVE  MallocAreas(L)
  <2>1. L \in Seq([at : Nat, size : Nat]) /\ DOMAIN L = 1 .. Len(L)
    BY <1>1, FiniteDomain DEF OnMap
  <2>2. \A i \in DOMAIN L : L[i].at \in Nat /\ L[i].size \in Nat
    BY <2>1, AreaNumbers
  <2>3. ASSUME NEW i \in DOMAIN L
        PROVE  /\ L[i].at \in Nat \ {0} /\ L[i].at % 4 = 0
               /\ L[i].size % 4 = 0 /\ L[i].size >= 24
               /\ L[i].size <= 32767 /\ L[i].at + L[i].size <= 65536
               /\ \A j \in DOMAIN L : i # j => NoCommonByte(L[i], L[j])
    <3>1. /\ L[i].at % 4 = 0 /\ L[i].size % 4 = 0 /\ L[i].size >= 24
          /\ \A j \in DOMAIN L : i # j => NoCommonByte(L[i], L[j])
      BY <1>1 DEF IInv, HeapUsable
    <3>2. PICK s \in SpansOf(link.map, link.prags) :
            s.from <= L[i].at /\ L[i].at + L[i].size <= s.to
      BY <1>1 DEF OnlyOn
    <3>3. 1 <= s.from /\ s.to <= 65536 /\ s.to - s.from <= 32767
      BY DEF MapsForMalloc
    <3>4. s.from \in Nat /\ s.to \in Nat
      BY SpanNumbers
    <3>5. L[i].at \in Nat /\ L[i].size \in Nat
      BY <2>2
    <3> HIDE DEF L
    <3>6. L[i].at # 0 /\ L[i].size <= 32767 /\ L[i].at + L[i].size <= 65536
      BY <3>2, <3>3, <3>4, <3>5
    <3> QED
      BY <3>1, <3>5, <3>6
  <2> HIDE DEF L
  <2>4. ASSUME NEW i \in 1 .. Len(L)
        PROVE  MallocArea(L[i])
    <3>1. i \in DOMAIN L
      BY <2>1
    <3> QED
      BY <2>3, <3>1 DEF MallocArea
  <2>5. ASSUME NEW i \in 1 .. Len(L), NEW j \in 1 .. Len(L), i # j
        PROVE  NoCommonByte(L[i], L[j])
    <3>1. i \in DOMAIN L /\ j \in DOMAIN L
      BY <2>1
    <3> QED
      BY <2>3, <2>5, <3>1
  <2> QED
    BY <2>1, <2>4, <2>5 DEF MallocAreas
<1>2. ASSUME IInv, OnMap, outcome = "linked", NEW p \in pieces
      PROVE  OutOfAreas(L, p)
  <2>1. L \in Seq([at : Nat, size : Nat]) /\ DOMAIN L = 1 .. Len(L)
    BY <1>2, FiniteDomain DEF OnMap
  <2>2. \A i \in DOMAIN L : NoCommonByte(p, L[i]) /\ L[i].at \in Nat /\ L[i].size \in Nat
    BY <1>2, <2>1, AreaNumbers DEF IInv, SegmentsFit, HeapApart
  <2>3. p.at \in Nat /\ p.size \in Nat
    BY <1>2 DEF IInv, Held, Inside
  <2> HIDE DEF L
  <2> QED
    BY <2>1, <2>2, <2>3 DEF OutOfAreas, NoCommonByte
<1>3. IInv /\ OnMap /\ (\E link \in Links :
                          prog = link.prog /\ OnlyOn(SpansOf(link.map, link.prags)))
      => /\ MallocAreas(chains.heap)
         /\ outcome = "linked" => \A p \in pieces : OutOfAreas(chains.heap, p)
  BY <1>1, <1>2
<1> QED
  BY <1>3, SegmentsInvariant, AlwaysOnMap, NothingOffTheMap, PTL

=============================================================================
