---------------------------- MODULE StreamsProofs ----------------------------
(***************************************************************************)
(* Proofs about Streams, for any slots, names, files and bounds: the types *)
(* of the streams, the ownership of the descriptors and the order of what  *)
(* is read. What ties them together is that a descriptor of the host above *)
(* 2 belongs to exactly one open stream, after each call.                  *)
(***************************************************************************)
EXTENDS Streams, Rings, SequenceTheorems

-----------------------------------------------------------------------------
(* The lesser of two numbers.                                              *)
LEMMA MinTwo ==
  ASSUME NEW a \in Int, NEW b \in Int
  PROVE  Min({a, b}) \in {a, b} /\ Min({a, b}) <= a /\ Min({a, b}) <= b
<1>1. \E x \in {a, b} : \A y \in {a, b} : x <= y
  <2>1. CASE a <= b
    BY <2>1
  <2>2. CASE b <= a
    BY <2>2
  <2> QED
    BY <2>1, <2>2
<1>2. /\ Min({a, b}) \in {a, b}
      /\ \A y \in {a, b} : Min({a, b}) <= y
  BY <1>1, Zenon DEF Min
<1> QED
  BY <1>2

(* The greater of two.                                                     *)
LEMMA MaxTwo ==
  ASSUME NEW a \in Int, NEW b \in Int
  PROVE  Max({a, b}) \in {a, b} /\ Max({a, b}) >= a /\ Max({a, b}) >= b
<1>1. \E x \in {a, b} : \A y \in {a, b} : x >= y
  <2>1. CASE a <= b
    BY <2>1
  <2>2. CASE b <= a
    BY <2>2
  <2> QED
    BY <2>1, <2>2
<1>2. /\ Max({a, b}) \in {a, b}
      /\ \A y \in {a, b} : Max({a, b}) >= y
  BY <1>1, Zenon DEF Max
<1> QED
  BY <1>2

(* The least of a set of naturals is one of them.                          *)
LEMMA MinOfNats ==
  ASSUME NEW T, T \subseteq Nat, T # {}
  PROVE  Min(T) \in T
<1>1. \E x \in T : \A y \in T : x <= y
  BY LeastNat
<1> QED
  BY <1>1, Zenon DEF Min

(* Among the descriptors from 3 on, one that is free is soon found.        *)
LEMMA LowestFree ==
  ASSUME NEW D, IsFiniteSet(D)
  PROVE  /\ Lowest(D) \in Nat /\ Lowest(D) > 2 /\ Lowest(D) \notin D
         /\ Lowest(D) <= 3 + Cardinality(D)
<1>1. PICK c \in Nat : c = Cardinality(D)
  BY FS_CardinalityType
<1> DEFINE I == 3 .. (3 + c)
           T == I \ D
<1>2. IsFiniteSet(I) /\ Cardinality(I) = c + 1
  BY FS_Interval
<1>3. T # {}
  <2>1. SUFFICES ASSUME I \subseteq D
                 PROVE  FALSE
    OBVIOUS
  <2>2. Cardinality(I) <= Cardinality(D)
    BY <2>1, FS_Subset
  <2> QED
    BY <1>1, <1>2, <2>2
<1>4. T \subseteq Nat
  OBVIOUS
<1>5. Lowest(D) = Min(T)
  BY <1>1 DEF Lowest
<1>6. Lowest(D) \in T
  BY <1>3, <1>4, <1>5, MinOfNats
<1> QED
  BY <1>1, <1>6

-----------------------------------------------------------------------------
(* How a read of cnt bytes from pos can end in a file of len bytes, n of   *)
(* them done: the bytes in all, and the bit that is set. It is short only  *)
(* with a bit.                                                             *)
Outcome(len, pos, cnt, n, o) ==
    /\ o.n \in Nat /\ n <= o.n /\ o.n <= cnt
    /\ o.n = n \/ pos + o.n <= len
    /\ o.bit \in {{}, {"EOF"}, {"ERR"}}
    /\ o.n < cnt => o.bit # {}

(* What sys_io_read may answer, of a file of which left bytes are left.    *)
Answers(left, k) == {-1} \cup (IF left <= 0 THEN {0} ELSE 1 .. Min({left, k}))
Cut(n, bit) == [n |-> n, bit |-> bit]

(* The loop of _fread, as reads states it.                                 *)
Loops(len, pos, cnt, g) ==
    g = [n \in 0 .. cnt |->
          IF n = cnt THEN {Cut(n, {})}
          ELSE UNION {IF r > 0 THEN g[n + r]
                      ELSE {Cut(n, IF r = 0 THEN {"EOF"} ELSE {"ERR"})} :
                        r \in Answers(len - (pos + n), cnt - n)}]

(* The loop of _fread ends in an outcome, whatever the host answers.       *)
LEMMA LoopOutcomes ==
  ASSUME NEW len \in Nat, NEW pos \in Nat, NEW cnt \in Nat, NEW g, Loops(len, pos, cnt, g)
  PROVE  \A n \in 0 .. cnt : \A o \in g[n] : Outcome(len, pos, cnt, n, o)
<1> DEFINE Wrong == {n \in 0 .. cnt : ~ \A o \in g[n] : Outcome(len, pos, cnt, n, o)}
<1> SUFFICES ASSUME Wrong # {}
             PROVE  FALSE
  OBVIOUS
<1>1. PICK n \in Wrong : \A k \in Wrong : k <= n
  <2>1. Wrong \subseteq Nat /\ \A k \in Wrong : k <= cnt
    OBVIOUS
  <2> HIDE DEF Wrong
  <2> QED
    BY <2>1, GreatestNat
<1>2. PICK o \in g[n] : ~ Outcome(len, pos, cnt, n, o)
  OBVIOUS
<1>3. n \in 0 .. cnt
  OBVIOUS
<1>4. \A k \in 0 .. cnt : k > n => \A p \in g[k] : Outcome(len, pos, cnt, k, p)
  BY <1>1, <1>3
<1> HIDE DEF Wrong
<1>5. CASE n = cnt
  <2>1. g[n] = {Cut(n, {})}
    BY <1>3, <1>5 DEF Loops
  <2> QED
    BY <2>1, <1>2, <1>3, <1>5 DEF Outcome, Cut
<1>6. CASE n # cnt
  <2>1. g[n] = UNION {IF r > 0 THEN g[n + r]
                      ELSE {Cut(n, IF r = 0 THEN {"EOF"} ELSE {"ERR"})} :
                        r \in Answers(len - (pos + n), cnt - n)}
    BY <1>3, <1>6 DEF Loops
  <2>2. PICK r \in Answers(len - (pos + n), cnt - n) :
               o \in (IF r > 0 THEN g[n + r]
                      ELSE {Cut(n, IF r = 0 THEN {"EOF"} ELSE {"ERR"})})
    BY <1>2, <2>1
  <2>3. CASE r > 0
    <3>1. PICK left \in Int : left = len - (pos + n)
      BY <1>3
    <3>2. PICK k \in Int : k = cnt - n
      BY <1>3
    <3>3. r \in 1 .. Min({left, k}) /\ left > 0
      BY <2>2, <2>3, <3>1, <3>2 DEF Answers
    <3>4. r \in Nat /\ r <= left /\ r <= k
      <4>1. k \in Int
        OBVIOUS
      <4>2. PICK v \in Int : v = Min({left, k})
        BY MinTwo
      <4>3. v <= left /\ v <= k
        BY <4>2, MinTwo
      <4> QED
        BY <3>3, <4>2, <4>3
    <3>5. PICK m \in Nat : m = n + r
      BY <1>3, <3>4
    <3>6. m \in 0 .. cnt /\ m > n /\ pos + m <= len
      BY <1>3, <2>3, <3>1, <3>2, <3>4, <3>5
    <3>7. o \in g[m]
      BY <2>2, <2>3, <3>5
    <3>8. Outcome(len, pos, cnt, m, o)
      BY <1>4, <3>6, <3>7
    <3> QED
      BY <3>6, <3>8, <1>2, <1>3 DEF Outcome
  <2>4. CASE ~(r > 0)
    <3>1. o = Cut(n, IF r = 0 THEN {"EOF"} ELSE {"ERR"})
      BY <2>2, <2>4
    <3>2. o.n = n /\ o.bit \in {{"EOF"}, {"ERR"}}
      BY <3>1 DEF Cut
    <3> QED
      BY <3>2, <1>2, <1>3 DEF Outcome
  <2> QED
    BY <2>3, <2>4
<1> QED
  BY <1>5, <1>6

(* The outcomes in closed form: an error may come after any part of what   *)
(* the file still holds.                                                   *)
Endings(left, cnt, n) ==
    IF n = cnt THEN {Cut(n, {})}
    ELSE IF left <= n THEN {Cut(n, {"EOF"}), Cut(n, {"ERR"})}
    ELSE {Cut(k, {"ERR"}) : k \in {j \in n .. cnt - 1 : j <= left}}
         \cup (IF cnt <= left THEN {Cut(cnt, {})} ELSE {Cut(left, {"EOF"})})

(* The outcomes do follow the loop.                                        *)
LEMMA EndingsLoop ==
  ASSUME NEW left \in Int, NEW cnt \in Nat, NEW n \in 0 .. cnt - 1
  PROVE  Endings(left, cnt, n) =
           UNION {IF r > 0 THEN Endings(left, cnt, n + r)
                  ELSE {Cut(n, IF r = 0 THEN {"EOF"} ELSE {"ERR"})} :
                    r \in Answers(left - n, cnt - n)}
<1> DEFINE Step(r) == IF r > 0 THEN Endings(left, cnt, n + r)
                      ELSE {Cut(n, IF r = 0 THEN {"EOF"} ELSE {"ERR"})}
           A == Answers(left - n, cnt - n)
<1>1. CASE left <= n
  <2>1. A = {-1, 0}
    BY <1>1 DEF Answers
  <2>2. UNION {Step(r) : r \in A} = {Cut(n, {"EOF"}), Cut(n, {"ERR"})}
    <3>1. Step(-1) = {Cut(n, {"ERR"})} /\ Step(0) = {Cut(n, {"EOF"})}
      OBVIOUS
    <3> HIDE DEF Step, A
    <3> QED
      BY <2>1, <3>1
  <2>3. Endings(left, cnt, n) = {Cut(n, {"EOF"}), Cut(n, {"ERR"})}
    BY <1>1 DEF Endings
  <2> QED
    BY <2>2, <2>3
<1>2. CASE left > n
  <2>1. PICK top \in Nat : top \in {left - n, cnt - n} /\ top <= left - n /\ top <= cnt - n
                           /\ top = Min({left - n, cnt - n})
    <3>1. left - n \in Int /\ cnt - n \in Int
      OBVIOUS
    <3>2. PICK v : v = Min({left - n, cnt - n})
      OBVIOUS
    <3>3. v \in {left - n, cnt - n} /\ v <= left - n /\ v <= cnt - n
      BY <3>1, <3>2, MinTwo
    <3> QED
      BY <1>2, <3>2, <3>3
  <2>2. A = {-1} \cup 1 .. top
    <3>1. ~(left - n <= 0)
      BY <1>2
    <3> QED
      BY <2>1, <3>1 DEF Answers
  <2> DEFINE F == IF cnt <= left THEN Cut(cnt, {}) ELSE Cut(left, {"EOF"})
             E == {Cut(k, {"ERR"}) : k \in {j \in n .. cnt - 1 : j <= left}}
  <2>3. Endings(left, cnt, n) = E \cup {F}
    BY <1>2 DEF Endings
  <2>4. ASSUME NEW r \in 1 .. top
        PROVE  /\ Step(r) = Endings(left, cnt, n + r)
               /\ Endings(left, cnt, n + r) \subseteq E \cup {F}
               /\ n + r <= cnt - 1 => Cut(n + r, {"ERR"}) \in Endings(left, cnt, n + r)
               /\ r = top => F \in Endings(left, cnt, n + r)
    <3>1. PICK m \in Nat : m = n + r
      OBVIOUS
    <3>2. n < m /\ m <= cnt /\ m <= left /\ (r = top => m = cnt \/ m = left)
      BY <2>1, <3>1
    <3>3. Step(r) = Endings(left, cnt, n + r)
      OBVIOUS
    <3>4. CASE m = cnt
      BY <3>1, <3>2, <3>3, <3>4 DEF Endings
    <3>5. CASE m < cnt /\ m = left
      <4>1. Endings(left, cnt, m) = {Cut(m, {"EOF"}), Cut(m, {"ERR"})}
        BY <3>5 DEF Endings
      <4>2. Cut(m, {"ERR"}) \in E /\ F = Cut(m, {"EOF"})
        BY <3>2, <3>5
      <4> HIDE DEF E, F
      <4> QED
        BY <3>1, <3>3, <4>1, <4>2
    <3>6. CASE m < cnt /\ m < left
      <4> DEFINE E2 == {Cut(k, {"ERR"}) : k \in {j \in m .. cnt - 1 : j <= left}}
      <4>1. Endings(left, cnt, m) = E2 \cup {F}
        BY <3>6 DEF Endings
      <4>2. E2 \subseteq E /\ Cut(m, {"ERR"}) \in E2
        BY <3>2, <3>6
      <4> HIDE DEF E, F, E2
      <4> QED
        BY <3>1, <3>3, <4>1, <4>2
    <3> QED
      BY <3>2, <3>4, <3>5, <3>6
  <2>5. Step(-1) = {Cut(n, {"ERR"})}
    OBVIOUS
  <2>6. Cut(n, {"ERR"}) \in E
    BY <1>2
  <2>7. ASSUME NEW e \in E
        PROVE  \E r \in A : e \in Step(r)
    <3>1. PICK k \in n .. cnt - 1 : k <= left /\ e = Cut(k, {"ERR"})
      OBVIOUS
    <3>2. CASE k = n
      BY <2>2, <2>5, <3>1, <3>2
    <3>3. CASE k > n
      <4>1. PICK r \in Nat : r = k - n
        BY <3>3
      <4>2. r \in 1 .. top /\ n + r = k
        BY <2>1, <3>1, <3>3, <4>1
      <4> HIDE DEF Step, A, E, F
      <4>3. Cut(k, {"ERR"}) \in Step(r)
        BY <2>4, <3>1, <4>2
      <4> QED
        BY <2>2, <3>1, <4>2, <4>3
    <3> QED
      BY <3>2, <3>3
  <2>8. \E r \in A : F \in Step(r)
    <3>1. top \in 1 .. top
      BY <1>2, <2>1
    <3> QED
      BY <2>2, <2>4, <3>1
  <2> HIDE DEF Step, A, E, F
  <2>9. UNION {Step(r) : r \in A} = E \cup {F}
    BY <2>2, <2>4, <2>5, <2>6, <2>7, <2>8
  <2> QED
    BY <2>3, <2>9 DEF Step, A
<1> QED
  BY <1>1, <1>2

(* So some function satisfies the recursive definition in reads.           *)
LEMMA LoopExists ==
  ASSUME NEW len \in Nat, NEW pos \in Nat, NEW cnt \in Nat
  PROVE  \E g : Loops(len, pos, cnt, g)
<1>1. PICK left \in Int : left = len - pos
  OBVIOUS
<1>2. PICK g : g = [n \in 0 .. cnt |-> Endings(left, cnt, n)]
  OBVIOUS
<1>3. ASSUME NEW n \in 0 .. cnt
      PROVE  g[n] = IF n = cnt THEN {Cut(n, {})}
                    ELSE UNION {IF r > 0 THEN g[n + r]
                                ELSE {Cut(n, IF r = 0 THEN {"EOF"} ELSE {"ERR"})} :
                                  r \in Answers(len - (pos + n), cnt - n)}
  <2>1. CASE n = cnt
    BY <1>2, <2>1 DEF Endings
  <2>2. CASE n # cnt
    <3>1. n \in 0 .. cnt - 1 /\ len - (pos + n) = left - n
      BY <1>1, <2>2
    <3>2. g[n] = UNION {IF r > 0 THEN Endings(left, cnt, n + r)
                        ELSE {Cut(n, IF r = 0 THEN {"EOF"} ELSE {"ERR"})} :
                          r \in Answers(left - n, cnt - n)}
      BY <1>2, <3>1, EndingsLoop
    <3>3. \A r \in Answers(left - n, cnt - n) : r > 0 => n + r \in 0 .. cnt
      <4> SUFFICES ASSUME NEW r \in Answers(left - n, cnt - n), r > 0
                   PROVE  n + r \in 0 .. cnt
        OBVIOUS
      <4>1. left - n \in Int /\ cnt - n \in Int
        OBVIOUS
      <4>2. PICK v \in Int : v = Min({left - n, cnt - n})
        BY <4>1, MinTwo
      <4>3. v <= cnt - n
        BY <4>1, <4>2, MinTwo
      <4>4. r \in 1 .. v
        BY <4>2 DEF Answers
      <4> QED
        BY <4>3, <4>4
    <3>4. \A r \in Answers(left - n, cnt - n) : r > 0 => g[n + r] = Endings(left, cnt, n + r)
      BY <1>2, <3>3
    <3>5. g[n] = UNION {IF r > 0 THEN g[n + r]
                        ELSE {Cut(n, IF r = 0 THEN {"EOF"} ELSE {"ERR"})} :
                          r \in Answers(left - n, cnt - n)}
      BY <3>2, <3>4
    <3> QED
      BY <2>2, <3>1, <3>5
  <2> QED
    BY <2>1, <2>2
<1>4. Loops(len, pos, cnt, g)
  <2> DEFINE H == [n \in 0 .. cnt |->
          IF n = cnt THEN {Cut(n, {})}
          ELSE UNION {IF r > 0 THEN g[n + r]
                      ELSE {Cut(n, IF r = 0 THEN {"EOF"} ELSE {"ERR"})} :
                        r \in Answers(len - (pos + n), cnt - n)}]
  <2>1. \A n \in 0 .. cnt : g[n] = H[n]
    BY <1>3
  <2>2. g = [n \in 0 .. cnt |-> g[n]]
    BY <1>2
  <2>3. H = [n \in 0 .. cnt |-> H[n]]
    OBVIOUS
  <2> HIDE DEF H
  <2>4. g = H
    BY <2>1, <2>2, <2>3
  <2> QED
    BY <2>4 DEF Loops, H
<1> QED
  BY <1>4

(* The reads of _fread end in outcomes.                                    *)
LEMMA ReadsEnd ==
  ASSUME NEW fp, NEW cnt \in Nat, Len(File(fp)) \in Nat, Position(fp) \in Nat,
         NEW o \in reads(fp, cnt)
  PROVE  Outcome(Len(File(fp)), Position(fp), cnt, 0, o)
<1>1. PICK len \in Nat : len = Len(File(fp))
  OBVIOUS
<1>2. PICK pos \in Nat : pos = Position(fp)
  OBVIOUS
<1>3. reads(fp, cnt) = (CHOOSE h : Loops(Len(File(fp)), Position(fp), cnt, h))[0]
  BY Zenon DEF reads, Loops, Cut, Answers, sys_io_read
<1>4. PICK g : g = CHOOSE h : Loops(len, pos, cnt, h)
  OBVIOUS
<1>5. Loops(len, pos, cnt, g)
  BY <1>4, LoopExists
<1>6. reads(fp, cnt) = g[0]
  BY <1>1, <1>2, <1>3, <1>4
<1> QED
  BY <1>1, <1>2, <1>5, <1>6, LoopOutcomes

-----------------------------------------------------------------------------
(* The flag bytes a stream may have: one that is not closed can be read or *)
(* written; a character pushed back is not hidden by an end of file.       *)
Fits(f) ==
    /\ f \in SUBSET Flags
    /\ f # {} => f \cap {"READ", "WRIT"} # {}
    /\ "EOF" \in f => "UNGET" \notin f
FlagsOK(f) == DOMAIN f = Streams /\ f = [s \in Streams |-> f[s]] /\ \A s \in Streams : Fits(f[s])

(* The files, and the descriptors of the host.                             *)
FilesOK(d) == \A f \in DOMAIN d : d[f] \in Seq(Bytes) /\ Len(d[f]) <= MaxLength
Descriptor(D) == [file : D, pos : Nat, append : BOOLEAN]
HostOK(h, D) == \A d \in DOMAIN h : h[d] \in Descriptor(D)

(* Who owns the descriptors D: each open stream has one, two do not share  *)
(* one beside the terminal's, and each of them has an owner.               *)
Owned(D, f, x) ==
    /\ 0 \in D /\ D \subseteq Nat /\ \A d \in D : d = 0 \/ d > 2
    /\ \A s \in Streams : f[s] # {} => x[s] \in D
    /\ \A s, t \in Streams : f[s] # {} /\ f[t] # {} /\ x[s] = x[t] /\ x[s] > 2 => s = t
    /\ \A d \in D : d > 2 => \E s \in Streams : f[s] # {} /\ x[s] = d

(* What is left of the descriptors D when the streams fps are closed.      *)
Remaining(D, f, x, fps) == D \ {x[s] : s \in {t \in fps : f[t] # {} /\ x[t] > 2}}

(* The invariant keeps the descriptors below this.                         *)
Reach == 3 + Cardinality(Slots) + 1
Within(D) == D \subseteq 0 .. Reach

(* The inductive invariant.                                                *)
IInv ==
    /\ FlagsOK(flag)
    /\ unget \in [Streams -> Bytes] /\ fd \in [Streams -> Int]
    /\ FilesOK(data) /\ HostOK(host, DOMAIN data) /\ Within(DOMAIN host)
    /\ running \in BOOLEAN
    /\ \A s \in Streams : flag[s] # {} => fd[s] >= 0
    /\ IF running THEN Owned(DOMAIN host, flag, fd) ELSE DOMAIN host = {0}

(* The streams are finitely many, one more than the slots.                 *)
LEMMA StreamsCount ==
  /\ IsFiniteSet(Streams) /\ Cardinality(Slots) \in Nat
  /\ Cardinality(Streams) = Cardinality(Slots) + 1
  /\ Reach \in Nat /\ stdin = 0 /\ stdin \in Streams
  /\ Streams \subseteq Nat
<1>1. IsFiniteSet(Slots) /\ Slots \subseteq Nat /\ \A s \in Slots : s > 2
  BY StreamsAssumption
<1>2. 0 \notin Slots
  BY <1>1
<1>3. Streams = Slots \cup {0} /\ stdin = 0 /\ stdin \in Streams
  BY DEF Streams, stdin
<1>4. IsFiniteSet(Slots \cup {0}) /\ Cardinality(Slots \cup {0}) = Cardinality(Slots) + 1
  BY <1>1, <1>2, FS_AddElement
<1>5. Cardinality(Slots) \in Nat
  BY <1>1, FS_CardinalityType
<1> QED
  BY <1>1, <1>3, <1>4, <1>5 DEF Reach

(* The descriptors are at most one more than the streams that may have     *)
(* one: the terminal's.                                                    *)
LEMMA OwnedCard ==
  ASSUME NEW D, NEW f, NEW x, Owned(D, f, x), NEW fp \in Streams, f[fp] = {}
  PROVE  IsFiniteSet(D) /\ Cardinality(D) <= Cardinality(Slots) + 1
<1> DEFINE owner == [d \in D \ {0} |-> CHOOSE s \in Streams : f[s] # {} /\ x[s] = d]
<1>1. \A d \in D \ {0} : /\ owner[d] \in Streams \ {fp}
                         /\ x[owner[d]] = d
  BY DEF Owned
<1>2. owner \in [D \ {0} -> Streams \ {fp}]
  BY <1>1
<1>3. owner \in Injection(D \ {0}, Streams \ {fp})
  <2>1. \A a, b \in D \ {0} : owner[a] = owner[b] => a = b
    BY <1>1, Zenon
  <2> HIDE DEF owner
  <2> QED
    BY <1>2, <2>1 DEF Injection, IsInjective
<1>4. IsFiniteSet(Streams \ {fp}) /\ Cardinality(Streams \ {fp}) = Cardinality(Slots)
  BY StreamsCount, FS_RemoveElement
<1>5. IsFiniteSet(D \ {0}) /\ Cardinality(D \ {0}) <= Cardinality(Slots)
  BY <1>3, <1>4, FS_Injection
<1>6. IsFiniteSet((D \ {0}) \cup {0}) /\ Cardinality((D \ {0}) \cup {0}) = Cardinality(D \ {0}) + 1
  BY <1>5, FS_AddElement
<1>7. (D \ {0}) \cup {0} = D
  BY DEF Owned
<1>8. Cardinality(D \ {0}) \in Nat
  BY <1>5, FS_CardinalityType
<1> QED
  BY <1>5, <1>6, <1>7, <1>8, StreamsCount

(* Flags that change without opening or closing a stream leave the owners. *)
LEMMA OwnedSame ==
  ASSUME NEW D, NEW f, NEW x, Owned(D, f, x), NEW f2,
         \A s \in Streams : f2[s] # {} <=> f[s] # {}
  PROVE  Owned(D, f2, x)
BY Zenon DEF Owned

(* So does a descriptor that changes in a stream that is closed.           *)
LEMMA OwnedMoved ==
  ASSUME NEW D, NEW f, NEW x, Owned(D, f, x), NEW x2,
         \A s \in Streams : f[s] # {} => x2[s] = x[s]
  PROVE  Owned(D, f, x2)
<1>1. 0 \in D /\ D \subseteq Nat /\ \A d \in D : d = 0 \/ d > 2
  BY DEF Owned
<1>2. \A s \in Streams : f[s] # {} => x2[s] \in D
  BY DEF Owned
<1>3. \A s, t \in Streams : f[s] # {} /\ f[t] # {} /\ x2[s] = x2[t] /\ x2[s] > 2 => s = t
  BY DEF Owned
<1>4. \A d \in D : d > 2 => \E s \in Streams : f[s] # {} /\ x2[s] = d
  BY DEF Owned
<1> QED
  BY <1>1, <1>2, <1>3, <1>4 DEF Owned

(* A stream closed: its descriptor goes with it.                           *)
LEMMA OwnedClose ==
  ASSUME NEW D, NEW f, NEW x, Owned(D, f, x), x \in [Streams -> Int], NEW fp \in Streams,
         NEW f2, \A s \in Streams : f2[s] = IF s = fp THEN {} ELSE f[s]
  PROVE  Owned(Remaining(D, f, x, {fp}), f2, x)
<1> DEFINE G == {x[s] : s \in {t \in {fp} : f[t] # {} /\ x[t] > 2}}
<1>1. \A d : d \in G <=> d = x[fp] /\ f[fp] # {} /\ x[fp] > 2
  OBVIOUS
<1> HIDE DEF G
<1>2. 0 \in D \ G /\ D \ G \subseteq Nat /\ \A d \in D \ G : d = 0 \/ d > 2
  <2>1. PICK v \in Int : v = x[fp]
    OBVIOUS
  <2>2. 0 \notin G
    BY <1>1, <2>1
  <2> QED
    BY <2>2 DEF Owned
<1>3. \A s \in Streams : f2[s] # {} => x[s] \in D \ G
  <2> SUFFICES ASSUME NEW s \in Streams, f2[s] # {}
               PROVE  x[s] \in D \ G
    OBVIOUS
  <2>1. s # fp /\ f[s] # {}
    OBVIOUS
  <2> QED
    BY <2>1, <1>1 DEF Owned
<1>4. \A s, t \in Streams : f2[s] # {} /\ f2[t] # {} /\ x[s] = x[t] /\ x[s] > 2 => s = t
  BY DEF Owned
<1>5. \A d \in D \ G : d > 2 => \E s \in Streams : f2[s] # {} /\ x[s] = d
  <2> SUFFICES ASSUME NEW d \in D \ G, d > 2
               PROVE  \E s \in Streams : f2[s] # {} /\ x[s] = d
    OBVIOUS
  <2>1. PICK s \in Streams : f[s] # {} /\ x[s] = d
    BY DEF Owned
  <2>2. s # fp
    BY <2>1, <1>1
  <2> QED
    BY <2>1, <2>2
<1> QED
  BY <1>2, <1>3, <1>4, <1>5 DEF Owned, G, Remaining

(* All of them closed, as exit does: the terminal's is left.               *)
LEMMA OwnedExit ==
  ASSUME NEW D, NEW f, NEW x, Owned(D, f, x)
  PROVE  Remaining(D, f, x, Streams) = {0}
<1> DEFINE G == {x[s] : s \in {t \in Streams : f[t] # {} /\ x[t] > 2}}
<1>1. \A d \in D : d > 2 => d \in G
  BY DEF Owned
<1>2. 0 \notin G
  OBVIOUS
<1> HIDE DEF G
<1>3. D \ G = {0}
  BY <1>1, <1>2 DEF Owned
<1> QED
  BY <1>3 DEF G, Remaining

(* A stream that is closed is given a descriptor that nobody has.          *)
LEMMA OwnedOpen ==
  ASSUME NEW D, NEW f, NEW x, Owned(D, f, x), x \in [Streams -> Int], NEW fp \in Streams,
         f[fp] = {}, NEW d \in Nat, d > 2, d \notin D, NEW f2, NEW x2,
         f2[fp] # {}, x2[fp] = d, \A s \in Streams \ {fp} : f2[s] = f[s] /\ x2[s] = x[s]
  PROVE  Owned(D \cup {d}, f2, x2)
<1>1. 0 \in D \cup {d} /\ D \cup {d} \subseteq Nat /\ \A e \in D \cup {d} : e = 0 \/ e > 2
  BY DEF Owned
<1>2. \A s \in Streams : f2[s] # {} => x2[s] \in D \cup {d}
  BY DEF Owned
<1>3. ASSUME NEW s \in Streams, NEW t \in Streams,
             f2[s] # {}, f2[t] # {}, x2[s] = x2[t], x2[s] > 2
      PROVE  s = t
  <2>1. \A u \in Streams \ {fp} : f2[u] # {} => x2[u] # d
    BY DEF Owned
  <2>2. CASE s # fp /\ t # fp
    BY <1>3, <2>2 DEF Owned
  <2> QED
    BY <1>3, <2>1, <2>2
<1>4. ASSUME NEW e \in D \cup {d}, e > 2
      PROVE  \E s \in Streams : f2[s] # {} /\ x2[s] = e
  <2>1. CASE e = d
    BY <2>1
  <2>2. CASE e # d
    <3>1. PICK s \in Streams : f[s] # {} /\ x[s] = e
      BY <1>4, <2>2 DEF Owned
    <3> QED
      BY <3>1
  <2> QED
    BY <2>1, <2>2
<1> QED
  BY <1>1, <1>2, <1>3, <1>4 DEF Owned

-----------------------------------------------------------------------------
(* The invariant holds at first.                                           *)
LEMMA InvInit ==
  ASSUME Init
  PROVE  IInv
<1> USE DEF Init
<1>1. FlagsOK(flag)
  <2>1. Fits({"READ"} \cup Buffering) /\ Fits({})
    BY DEF Fits, Flags, Buffering
  <2> QED
    BY <2>1, Zenon DEF FlagsOK
<1>2. unget \in [Streams -> Bytes] /\ fd \in [Streams -> Int]
  BY StreamsAssumption
<1>3. FilesOK(data)
  BY StreamsAssumption DEF FilesOK
<1>4. DOMAIN host = {0} /\ host[0] = [file |-> "tty", pos |-> 0, append |-> FALSE]
  OBVIOUS
<1>5. HostOK(host, DOMAIN data)
  <2>1. "tty" \in DOMAIN data
    BY StreamsAssumption
  <2> QED
    BY <1>4, <2>1 DEF HostOK, Descriptor
<1>6. Within(DOMAIN host)
  BY <1>4, StreamsCount DEF Within
<1>7. \A s \in Streams : fd[s] = 0 /\ (flag[s] # {} => s = stdin)
  OBVIOUS
<1>8. Owned(DOMAIN host, flag, fd)
  BY <1>4, <1>7, StreamsCount DEF Owned
<1> QED
  BY <1>1, <1>2, <1>3, <1>5, <1>6, <1>7, <1>8 DEF IInv

(* What the invariant gives of an open stream.                             *)
LEMMA OpenStream ==
  ASSUME IInv, running, NEW fp \in Streams, flag[fp] # {}
  PROVE  /\ fd[fp] \in DOMAIN host /\ host[fd[fp]] \in Descriptor(DOMAIN data)
         /\ host[fd[fp]].file \in DOMAIN data
         /\ File(fp) \in Seq(Bytes) /\ Len(File(fp)) \in Nat /\ Len(File(fp)) <= MaxLength
         /\ Position(fp) \in Nat
<1>1. fd[fp] \in DOMAIN host
  BY DEF IInv, Owned
<1>2. host[fd[fp]] \in Descriptor(DOMAIN data)
  BY <1>1 DEF IInv, HostOK
<1>3. host[fd[fp]].file \in DOMAIN data /\ Position(fp) \in Nat
  BY <1>2 DEF Descriptor, Position
<1>4. File(fp) \in Seq(Bytes) /\ Len(File(fp)) <= MaxLength
  BY <1>3 DEF IInv, FilesOK, File
<1> QED
  BY <1>1, <1>2, <1>3, <1>4

(* One function changed at a point, one descriptor at its position.        *)
SetTo(f, a, v) == [f EXCEPT ![a] = v]
MovedTo(h, a, p) == [h EXCEPT ![a].pos = p]

(* A descriptor that moves in its file.                                    *)
LEMMA HostMoves ==
  ASSUME NEW h, NEW D, HostOK(h, D), NEW a \in DOMAIN h, NEW p \in Nat,
         NEW h2, h2 = MovedTo(h, a, p)
  PROVE  /\ DOMAIN h2 = DOMAIN h /\ HostOK(h2, D)
         /\ h2[a].file = h[a].file /\ h2[a].pos = p
<1>1. h[a] \in Descriptor(D)
  BY DEF HostOK
<1>2. DOMAIN h2 = DOMAIN h /\ \A d \in DOMAIN h : d # a => h2[d] = h[d]
  BY DEF MovedTo
<1>3. h2[a] = [h[a] EXCEPT !.pos = p]
  BY DEF MovedTo
<1>4. h2[a] \in Descriptor(D) /\ h2[a].file = h[a].file /\ h2[a].pos = p
  BY <1>1, <1>3 DEF Descriptor
<1> QED
  BY <1>2, <1>4 DEF HostOK

(* One flag byte that changes.                                             *)
LEMMA FlagSet ==
  ASSUME NEW f, FlagsOK(f), NEW fp \in Streams, NEW v, Fits(v),
         NEW f2, f2 = SetTo(f, fp, v)
  PROVE  FlagsOK(f2) /\ f2[fp] = v /\ \A s \in Streams \ {fp} : f2[s] = f[s]
<1>1. DOMAIN f = Streams /\ \A s \in Streams : Fits(f[s])
  BY DEF FlagsOK
<1>2. DOMAIN f2 = Streams /\ f2[fp] = v /\ \A s \in Streams \ {fp} : f2[s] = f[s]
  BY <1>1 DEF SetTo
<1>3. f2 = [s \in Streams |-> f2[s]]
  BY <1>1 DEF SetTo
<1>4. \A s \in Streams : Fits(f2[s])
  BY <1>1, <1>2
<1> QED
  BY <1>2, <1>3, <1>4 DEF FlagsOK

(* The same of the step that is taken.                                     *)
LEMMA HostMoved ==
  ASSUME HostOK(host, DOMAIN data), NEW fp, fd[fp] \in DOMAIN host, NEW p \in Nat,
         host' = MovedTo(host, fd[fp], p)
  PROVE  /\ DOMAIN host' = DOMAIN host /\ HostOK(host', DOMAIN data)
         /\ host'[fd[fp]].file = host[fd[fp]].file /\ host'[fd[fp]].pos = p
<1>1. PICK h2 : h2 = host'
  OBVIOUS
<1>2. PICK a : a = fd[fp]
  OBVIOUS
<1>3. PICK D : D = DOMAIN data
  OBVIOUS
<1>4. h2 = MovedTo(host, a, p) /\ a \in DOMAIN host /\ HostOK(host, D)
  BY <1>1, <1>2, <1>3
<1>5. DOMAIN h2 = DOMAIN host /\ HostOK(h2, D) /\ h2[a].file = host[a].file /\ h2[a].pos = p
  BY <1>4, HostMoves
<1> QED
  BY <1>1, <1>2, <1>3, <1>5, Zenon

(* And of the flag byte.                                                   *)
LEMMA FlagMoved ==
  ASSUME FlagsOK(flag), NEW fp \in Streams, NEW v, Fits(v), flag' = SetTo(flag, fp, v)
  PROVE  FlagsOK(flag') /\ flag'[fp] = v /\ \A s \in Streams \ {fp} : flag'[s] = flag[s]
<1>1. PICK f2 : f2 = flag'
  OBVIOUS
<1>2. f2 = SetTo(flag, fp, v)
  BY <1>1
<1>3. FlagsOK(f2) /\ f2[fp] = v /\ \A s \in Streams \ {fp} : f2[s] = flag[s]
  BY <1>2, FlagSet
<1> QED
  BY <1>1, <1>3, Zenon

(* A call that opens and closes nothing preserves the invariant, if it     *)
(* leaves the types right.                                                 *)
LEMMA Steady ==
  ASSUME IInv, running, FlagsOK(flag'), \A s \in Streams : flag'[s] # {} <=> flag[s] # {},
         unget' \in [Streams -> Bytes], FilesOK(data'), HostOK(host', DOMAIN data'),
         DOMAIN host' = DOMAIN host, fd' = fd, running' = running
  PROVE  IInv'
<1>1. Owned(DOMAIN host', flag', fd')
  <2>1. Owned(DOMAIN host, flag, fd)
    BY DEF IInv
  <2> QED
    BY <2>1, OwnedSame
<1>2. Within(DOMAIN host') /\ fd' \in [Streams -> Int] /\ running' = TRUE
  BY DEF IInv
<1>3. \A s \in Streams : flag'[s] # {} => fd'[s] >= 0
  BY DEF IInv
<1> QED
  BY <1>1, <1>2, <1>3 DEF IInv

(* The calls that change flags only.                                       *)
LEMMA Reflagged ==
  ASSUME IInv, running, NEW fps, flag' = [s \in Streams |-> flag'[s]],
         \A s \in Streams : s \notin fps => flag'[s] = flag[s],
         \A s \in Streams : s \in fps => Fits(flag'[s]) /\ (flag'[s] # {} <=> flag[s] # {}),
         UNCHANGED <<unget, fd, host, data, running>>
  PROVE  IInv'
<1>1. FlagsOK(flag) /\ unget \in [Streams -> Bytes] /\ FilesOK(data) /\ HostOK(host, DOMAIN data)
  BY DEF IInv
<1>2. DOMAIN flag' = Streams
  BY Zenon
<1>3. FlagsOK(flag')
  BY <1>1, <1>2, Zenon DEF FlagsOK
<1>4. \A s \in Streams : flag'[s] # {} <=> flag[s] # {}
  BY Zenon
<1> QED
  BY <1>1, <1>3, <1>4, Steady

(* A read.                                                                 *)
LEMMA FreadStep ==
  ASSUME IInv, NEW fp \in Streams, NEW sz \in 1 .. MaxWant, fread(fp, sz)
  PROVE  IInv'
<1>1. running /\ _schkread(fp) /\ UNCHANGED <<unget, fd, data, running>>
  BY DEF fread
<1>2. "READ" \in flag[fp] /\ Fits(flag[fp]) /\ FlagsOK(flag)
  BY <1>1, Zenon DEF _schkread, IInv, FlagsOK
<1>3. /\ fd[fp] \in DOMAIN host /\ Len(File(fp)) \in Nat /\ Position(fp) \in Nat
      /\ HostOK(host, DOMAIN data)
  BY <1>1, <1>2, OpenStream DEF IInv
<1>4. PICK cnt \in Nat : cnt = sz - Len(Pushed(fp))
  <2>1. Len(Pushed(fp)) \in 0 .. 1
    BY DEF Pushed
  <2>2. PICK l \in 0 .. 1 : l = Len(Pushed(fp))
    BY <2>1
  <2>3. MaxWant \in Nat
    BY StreamsAssumption
  <2>4. sz - l \in Nat
    BY <2>3
  <2> QED
    BY <2>2, <2>4
<1>5. PICK r \in reads(fp, cnt) :
             /\ flag' = [flag EXCEPT ![fp] = Taken(fp) \cup r.bit]
             /\ host' = [host EXCEPT ![fd[fp]].pos = @ + r.n]
  BY <1>4 DEF fread
<1>6. Outcome(Len(File(fp)), Position(fp), cnt, 0, r)
  BY <1>3, <1>5, ReadsEnd
<1>7. PICK v : v = Taken(fp) \cup r.bit
  OBVIOUS
<1>8. Fits(v)
  <2>1. r.bit \in {{}, {"EOF"}, {"ERR"}}
    BY <1>6 DEF Outcome
  <2>2. "READ" \in v /\ "UNGET" \notin v
    BY <1>2, <1>7, <2>1 DEF Taken
  <2>3. v \in SUBSET Flags
    BY <1>2, <1>7, <2>1 DEF Taken, Fits, Flags
  <2> QED
    BY <2>2, <2>3 DEF Fits
<1>9. FlagsOK(flag') /\ \A s \in Streams : flag'[s] # {} <=> flag[s] # {}
  <2>1. FlagsOK(flag') /\ flag'[fp] = v /\ \A s \in Streams \ {fp} : flag'[s] = flag[s]
    BY <1>2, <1>5, <1>7, <1>8, FlagMoved DEF SetTo
  <2>2. v # {}
    BY <1>2, <1>7 DEF Taken
  <2> QED
    BY <1>2, <2>1, <2>2
<1>10. PICK p \in Nat : p = Position(fp) + r.n
  BY <1>3, <1>6 DEF Outcome
<1>11. host' = [host EXCEPT ![fd[fp]].pos = p]
  BY <1>5, <1>10 DEF Position
<1>12. DOMAIN host' = DOMAIN host /\ HostOK(host', DOMAIN data)
  BY <1>3, <1>11, HostMoved DEF MovedTo
<1> QED
  BY <1>1, <1>9, <1>12, Steady DEF IInv

(* A character pushed back.                                                *)
LEMMA UngetcStep ==
  ASSUME IInv, NEW fp \in Streams, NEW c \in Typed, ungetc(c, fp)
  PROVE  IInv'
<1>1. /\ running /\ _schkread(fp) /\ UNCHANGED <<fd, host, data, running>>
      /\ flag' = [flag EXCEPT ![fp] = @ \cup {"UNGET"}]
      /\ unget' = [unget EXCEPT ![fp] = c]
  BY DEF ungetc
<1>2. "READ" \in flag[fp] /\ "EOF" \notin flag[fp] /\ Fits(flag[fp]) /\ FlagsOK(flag)
  BY <1>1, Zenon DEF _schkread, IInv, FlagsOK
<1>3. PICK v : v = flag[fp] \cup {"UNGET"}
  OBVIOUS
<1>4. Fits(v) /\ v # {} /\ flag[fp] # {}
  BY <1>2, <1>3 DEF Fits, Flags
<1>5. FlagsOK(flag') /\ flag'[fp] = v /\ \A s \in Streams \ {fp} : flag'[s] = flag[s]
  BY <1>1, <1>2, <1>3, <1>4, FlagMoved DEF SetTo
<1>6. \A s \in Streams : flag'[s] # {} <=> flag[s] # {}
  BY <1>4, <1>5
<1>7. unget' \in [Streams -> Bytes]
  <2>1. c \in Bytes /\ unget \in [Streams -> Bytes]
    BY StreamsAssumption DEF IInv
  <2> QED
    BY <1>1, <2>1
<1> QED
  BY <1>1, <1>5, <1>6, <1>7, Steady DEF IInv

(* A character written in a file, past its end or not.                     *)
Written(old, pos, c) ==
    [i \in 1 .. Max({Len(old), pos + 1}) |->
       IF i = pos + 1 THEN c ELSE IF i <= Len(old) THEN old[i] ELSE 0]

(* It keeps its type, and its bound if pos is in it.                       *)
LEMMA WrittenOK ==
  ASSUME NEW old \in Seq(Bytes), Len(old) <= MaxLength, NEW pos \in Nat, pos < MaxLength,
         NEW c \in Bytes
  PROVE  Written(old, pos, c) \in Seq(Bytes) /\ Len(Written(old, pos, c)) <= MaxLength
<1>1. MaxLength \in Nat /\ 0 \in Bytes
  BY StreamsAssumption
<1>2. PICK len \in Nat : len = Len(old)
  OBVIOUS
<1>3. PICK n \in Nat : n = Max({Len(old), pos + 1}) /\ n <= MaxLength
  <2>1. len \in Int /\ pos + 1 \in Int
    OBVIOUS
  <2>2. Max({len, pos + 1}) \in {len, pos + 1}
    BY <2>1, MaxTwo
  <2>3. len <= MaxLength /\ pos + 1 <= MaxLength
    BY <1>1, <1>2
  <2> QED
    BY <1>2, <2>2, <2>3
<1>4. \A i \in 1 .. len : old[i] \in Bytes
  BY <1>2
<1>5. PICK w : w = Written(old, pos, c)
  OBVIOUS
<1>6. w = [i \in 1 .. n |-> IF i = pos + 1 THEN c ELSE IF i <= len THEN old[i] ELSE 0]
  BY <1>2, <1>3, <1>5 DEF Written
<1>7. w \in [1 .. n -> Bytes]
  BY <1>1, <1>4, <1>6
<1>8. w \in Seq(Bytes) /\ Len(w) = n
  BY <1>7
<1> QED
  BY <1>3, <1>5, <1>8

(* A write.                                                                *)
LEMMA FputcStep ==
  ASSUME IInv, NEW fp \in Streams, NEW c \in Typed, fputc(c, fp)
  PROVE  IInv'
<1>1. PICK a : a = fd[fp]
  OBVIOUS
<1>2. PICK pos : pos = IF host[a].append THEN Len(File(fp)) ELSE host[a].pos
  OBVIOUS
<1>3. PICK name : name = host[a].file
  OBVIOUS
<1>4. /\ running /\ _schkwrite(fp) /\ pos < MaxLength
      /\ data' = [data EXCEPT ![name] = Written(File(fp), pos, c)]
      /\ host' = [host EXCEPT ![a].pos = pos + 1]
      /\ UNCHANGED <<flag, unget, fd, running>>
  BY <1>1, <1>2, <1>3 DEF fputc, Written
<1>5. flag[fp] # {}
  BY <1>4 DEF _schkwrite
<1>6. /\ a \in DOMAIN host /\ name \in DOMAIN data
      /\ File(fp) \in Seq(Bytes) /\ Len(File(fp)) \in Nat /\ Len(File(fp)) <= MaxLength
      /\ host[a].pos \in Nat
  BY <1>1, <1>3, <1>4, <1>5, OpenStream DEF Position
<1>7. pos \in Nat
  BY <1>2, <1>6
<1>8. PICK new : new = Written(File(fp), pos, c)
  OBVIOUS
<1>9. new \in Seq(Bytes) /\ Len(new) <= MaxLength
  <2>1. PICK old \in Seq(Bytes) : old = File(fp)
    BY <1>6
  <2>2. c \in Bytes
    BY StreamsAssumption
  <2> QED
    BY <1>4, <1>6, <1>7, <1>8, <2>1, <2>2, WrittenOK
<1>10. DOMAIN data' = DOMAIN data /\ FilesOK(data')
  <2>1. FilesOK(data)
    BY DEF IInv
  <2>2. DOMAIN data' = DOMAIN data
    BY <1>4
  <2>3. \A f \in DOMAIN data : data'[f] = IF f = name THEN new ELSE data[f]
    BY <1>4, <1>8
  <2> QED
    BY <1>9, <2>1, <2>2, <2>3 DEF FilesOK
<1>11. PICK p \in Nat : p = pos + 1
  BY <1>7
<1>12. DOMAIN host' = DOMAIN host /\ HostOK(host', DOMAIN data)
  <2>1. HostOK(host, DOMAIN data)
    BY DEF IInv
  <2>2. host' = MovedTo(host, fd[fp], p) /\ fd[fp] \in DOMAIN host
    BY <1>1, <1>4, <1>6, <1>11 DEF MovedTo
  <2> QED
    BY <2>1, <2>2, HostMoved
<1> QED
  BY <1>4, <1>10, <1>12, Steady DEF IInv

(* A move in a file.                                                       *)
LEMMA FseekStep ==
  ASSUME IInv, NEW fp \in Streams, NEW off \in 0 .. MaxLength, fseek(fp, off)
  PROVE  IInv'
<1>1. /\ running /\ flag[fp] # {} /\ off \in 0 .. Len(File(fp))
      /\ host' = [host EXCEPT ![fd[fp]].pos = off]
      /\ flag' = [flag EXCEPT ![fp] = @ \ {"EOF", "UNGET"}]
      /\ UNCHANGED <<unget, fd, data, running>>
  BY DEF fseek, Open
<1>2. Fits(flag[fp]) /\ FlagsOK(flag)
  BY Zenon DEF IInv, FlagsOK
<1>3. PICK v : v = flag[fp] \ {"EOF", "UNGET"}
  OBVIOUS
<1>4. Fits(v) /\ v # {}
  BY <1>1, <1>2, <1>3 DEF Fits, Flags
<1>5. FlagsOK(flag') /\ flag'[fp] = v /\ \A s \in Streams \ {fp} : flag'[s] = flag[s]
  BY <1>1, <1>2, <1>3, <1>4, FlagMoved DEF SetTo
<1>6. \A s \in Streams : flag'[s] # {} <=> flag[s] # {}
  BY <1>1, <1>4, <1>5
<1>7. fd[fp] \in DOMAIN host /\ HostOK(host, DOMAIN data) /\ off \in Nat
  BY <1>1, OpenStream DEF IInv
<1>8. DOMAIN host' = DOMAIN host /\ HostOK(host', DOMAIN data)
  BY <1>1, <1>7, HostMoved DEF MovedTo
<1> QED
  BY <1>1, <1>5, <1>6, <1>8, Steady DEF IInv

(* The calls that change flags only: setvbuf, fflush and clearerr.         *)
LEMMA FlagSteps ==
  ASSUME IInv, NEW fp \in Streams
  PROVE  /\ \A mode \in Modes : setvbuf(fp, mode) => IInv'
         /\ \A fps \in SUBSET Streams : fflush(fps) => IInv'
         /\ clearerr(fp) => IInv'
<1>1. \A s \in Streams : Fits(flag[s])
  BY Zenon DEF IInv, FlagsOK
<1>2. ASSUME NEW mode \in Modes, setvbuf(fp, mode)
      PROVE  IInv'
  <2>1. /\ flag[fp] \ (Buffering \cup {"UNGET"}) # {}
        /\ running /\ UNCHANGED <<unget, fd, host, data, running>>
        /\ flag' = [s \in Streams |-> IF s \in {fp}
                      THEN (flag[s] \ (Buffering \cup {"UNGET"})) \cup mode ELSE flag[s]]
    BY <1>2 DEF setvbuf, Reflag
  <2>2. mode \subseteq {"FBF", "NBF"}
    BY ModesAssumption DEF Buffering
  <2>3. PICK v : v = (flag[fp] \ (Buffering \cup {"UNGET"})) \cup mode
    OBVIOUS
  <2>4. Fits(v) /\ v # {} /\ flag[fp] # {}
    BY <1>1, <2>1, <2>2, <2>3 DEF Fits, Flags, Buffering
  <2>5. flag'[fp] = v /\ \A s \in Streams : s \notin {fp} => flag'[s] = flag[s]
    BY <2>1, <2>3
  <2>6. flag' = [s \in Streams |-> flag'[s]]
    BY <2>1
  <2> QED
    BY <2>1, <2>4, <2>5, <2>6, Reflagged
<1>3. ASSUME NEW fps \in SUBSET Streams, fflush(fps)
      PROVE  IInv'
  <2>1. /\ running /\ UNCHANGED <<unget, fd, host, data, running>>
        /\ flag' = [s \in Streams |-> IF s \in fps THEN flag[s] \ {"UNGET"} ELSE flag[s]]
    BY <1>3 DEF fflush, Reflag
  <2>2. \A f : Fits(f) => Fits(f \ {"UNGET"}) /\ (f \ {"UNGET"} # {} <=> f # {})
    BY DEF Fits, Flags
  <2>3. \A s \in Streams : flag'[s] = IF s \in fps THEN flag[s] \ {"UNGET"} ELSE flag[s]
    BY <2>1
  <2>4. flag' = [s \in Streams |-> flag'[s]]
    BY <2>1
  <2>5. \A s \in Streams : s \in fps => Fits(flag'[s]) /\ (flag'[s] # {} <=> flag[s] # {})
    BY <1>1, <2>2, <2>3
  <2> QED
    BY <2>1, <2>3, <2>4, <2>5, Reflagged
<1>4. ASSUME clearerr(fp)
      PROVE  IInv'
  <2>1. /\ flag[fp] # {} /\ running /\ UNCHANGED <<unget, fd, host, data, running>>
        /\ flag' = [s \in Streams |-> IF s \in {fp} THEN flag[s] \ {"EOF", "ERR"} ELSE flag[s]]
    BY <1>4 DEF clearerr, Reflag, Open
  <2>2. PICK v : v = flag[fp] \ {"EOF", "ERR"}
    OBVIOUS
  <2>3. Fits(v) /\ v # {}
    BY <1>1, <2>1, <2>2 DEF Fits, Flags
  <2>4. flag'[fp] = v /\ \A s \in Streams : s \notin {fp} => flag'[s] = flag[s]
    BY <2>1, <2>2
  <2>5. flag' = [s \in Streams |-> flag'[s]]
    BY <2>1
  <2> QED
    BY <2>1, <2>3, <2>4, <2>5, Reflagged
<1> QED
  BY <1>2, <1>3, <1>4

(* What _sclose leaves.                                                    *)
LEMMA Closing ==
  ASSUME IInv, NEW fps
  PROVE  /\ DOMAIN _sclose(fps) = Remaining(DOMAIN host, flag, fd, fps)
         /\ DOMAIN _sclose(fps) \subseteq DOMAIN host
         /\ \A d \in DOMAIN _sclose(fps) : _sclose(fps)[d] = host[d]
         /\ HostOK(_sclose(fps), DOMAIN data) /\ Within(DOMAIN _sclose(fps))
<1>1. /\ DOMAIN _sclose(fps) = Remaining(DOMAIN host, flag, fd, fps)
      /\ \A d \in DOMAIN _sclose(fps) : _sclose(fps)[d] = host[d]
  BY DEF _sclose, Remaining, Open
<1>2. DOMAIN _sclose(fps) \subseteq DOMAIN host
  BY <1>1 DEF Remaining
<1>3. HostOK(host, DOMAIN data) /\ Within(DOMAIN host)
  BY DEF IInv
<1>4. HostOK(_sclose(fps), DOMAIN data)
  BY <1>1, <1>2, <1>3, Zenon DEF HostOK
<1>5. Within(DOMAIN _sclose(fps))
  BY <1>2, <1>3, Zenon DEF Within
<1> QED
  BY <1>1, <1>2, <1>4, <1>5

(* A stream closed.                                                        *)
LEMMA FcloseStep ==
  ASSUME IInv, NEW fp \in Streams, fclose(fp)
  PROVE  IInv'
<1>1. /\ running /\ host' = _sclose({fp}) /\ flag' = [flag EXCEPT ![fp] = {}]
      /\ UNCHANGED <<unget, fd, data, running>>
  BY DEF fclose
<1>2. FlagsOK(flag) /\ fd \in [Streams -> Int] /\ Owned(DOMAIN host, flag, fd)
  BY <1>1 DEF IInv
<1>3. FlagsOK(flag') /\ flag'[fp] = {} /\ \A s \in Streams \ {fp} : flag'[s] = flag[s]
  <2>1. Fits({})
    BY DEF Fits
  <2> QED
    BY <1>1, <1>2, <2>1, FlagMoved DEF SetTo
<1>4. Owned(DOMAIN host', flag', fd)
  <2>1. Owned(Remaining(DOMAIN host, flag, fd, {fp}), flag', fd)
    <3>1. PICK f2 : f2 = flag'
      OBVIOUS
    <3>2. \A s \in Streams : f2[s] = IF s = fp THEN {} ELSE flag[s]
      BY <1>3, <3>1
    <3>3. Owned(Remaining(DOMAIN host, flag, fd, {fp}), f2, fd)
      BY <1>2, <3>2, OwnedClose
    <3> QED
      BY <3>1, <3>3
  <2> QED
    BY <1>1, <2>1, Closing
<1>5. HostOK(host', DOMAIN data) /\ Within(DOMAIN host')
  BY <1>1, Closing
<1>6. \A s \in Streams : flag'[s] # {} => fd[s] >= 0
  BY <1>3 DEF IInv
<1> QED
  BY <1>1, <1>3, <1>4, <1>5, <1>6 DEF IInv

(* The flags that a mode gives.                                            *)
LEMMA ModeFits ==
  ASSUME NEW mode \in DOMAIN _sflags
  PROVE  LET b == _sflags[mode] \ {"EOF"} IN Fits(b) /\ b # {}
<1>1. /\ DOMAIN _sflags = {"r", "w", "a", "plus"}
      /\ _sflags["r"] = {"READ"} /\ _sflags["w"] = {"WRIT"}
      /\ _sflags["a"] = {"WRIT", "EOF"} /\ _sflags["plus"] = {"READ", "WRIT"}
  BY DEF _sflags
<1>2. _sflags[mode] \in {{"READ"}, {"WRIT"}, {"WRIT", "EOF"}, {"READ", "WRIT"}}
  BY <1>1
<1> QED
  BY <1>2 DEF Fits, Flags

(* A stream opened again, or for the first time: what it had is closed,    *)
(* and then the host opens or refuses.                                     *)
LEMMA FreopenStep ==
  ASSUME IInv, NEW fp \in Streams, NEW name \in Names, NEW mode \in DOMAIN _sflags,
         freopen(name, mode, fp)
  PROVE  IInv'
<1>1. PICK bits : bits = _sflags[mode]
  OBVIOUS
<1>2. PICK closed : closed = _sclose({fp})
  OBVIOUS
<1>3. PICK d : d = Lowest(DOMAIN closed)
  OBVIOUS
<1>4. running /\ UNCHANGED <<unget, running>>
  BY DEF freopen
<1>5. /\ FlagsOK(flag) /\ unget \in [Streams -> Bytes] /\ fd \in [Streams -> Int]
      /\ Owned(DOMAIN host, flag, fd) /\ FilesOK(data)
  BY <1>4 DEF IInv
<1>6. /\ HostOK(closed, DOMAIN data) /\ Within(DOMAIN closed)
      /\ DOMAIN closed = Remaining(DOMAIN host, flag, fd, {fp})
  BY <1>2, Closing
<1>7. PICK f0 : f0 = SetTo(flag, fp, {})
  OBVIOUS
<1>8. FlagsOK(f0) /\ f0[fp] = {} /\ \A s \in Streams \ {fp} : f0[s] = flag[s]
  <2>1. Fits({})
    BY DEF Fits
  <2> QED
    BY <1>5, <1>7, <2>1, FlagSet
<1>9. Owned(DOMAIN closed, f0, fd)
  <2>1. \A s \in Streams : f0[s] = IF s = fp THEN {} ELSE flag[s]
    BY <1>8
  <2>2. Owned(Remaining(DOMAIN host, flag, fd, {fp}), f0, fd)
    BY <1>5, <2>1, OwnedClose
  <2> QED
    BY <1>6, <2>2
<1>10. IsFiniteSet(DOMAIN closed) /\ Cardinality(DOMAIN closed) <= Cardinality(Slots) + 1
  BY <1>8, <1>9, OwnedCard
<1>11. d \in Nat /\ d > 2 /\ d \notin DOMAIN closed /\ d <= Reach
  <2>1. Cardinality(DOMAIN closed) \in Nat
    BY <1>10, FS_CardinalityType
  <2>2. d \in Nat /\ d > 2 /\ d \notin DOMAIN closed /\ d <= 3 + Cardinality(DOMAIN closed)
    BY <1>3, <1>10, LowestFree
  <2> QED
    BY <1>10, <2>1, <2>2, StreamsCount DEF Reach
<1>12. \A s \in Streams : f0[s] # {} => fd[s] >= 0
  BY <1>8 DEF IInv
<1>13. ASSUME host' = closed, fd' = [fd EXCEPT ![fp] = -1], flag' = [flag EXCEPT ![fp] = {}],
              data' = data
       PROVE  IInv'
  <2>1. flag' = f0
    BY <1>7, <1>13 DEF SetTo
  <2>2. fd' \in [Streams -> Int] /\ \A s \in Streams \ {fp} : fd'[s] = fd[s]
    BY <1>5, <1>13
  <2>3. Owned(DOMAIN closed, f0, fd')
    <3>1. PICK x2 : x2 = fd'
      OBVIOUS
    <3>2. \A s \in Streams : f0[s] # {} => x2[s] = fd[s]
      BY <1>8, <2>2, <3>1
    <3>3. Owned(DOMAIN closed, f0, x2)
      BY <1>9, <3>2, OwnedMoved
    <3> QED
      BY <3>1, <3>3
  <2>4. \A s \in Streams : f0[s] # {} => fd'[s] >= 0
    BY <1>8, <1>12, <2>2
  <2> QED
    BY <1>4, <1>5, <1>6, <1>8, <1>13, <2>1, <2>2, <2>3, <2>4 DEF IInv
<1>14. ASSUME name \in DOMAIN data \/ "READ" \notin bits,
              data' = sys_io_openf(name, bits),
              host' = [e \in DOMAIN closed \cup {d} |->
                        IF e = d THEN [file |-> name, pos |-> 0, append |-> "EOF" \in bits]
                        ELSE closed[e]],
              fd' = [fd EXCEPT ![fp] = d],
              flag' = [flag EXCEPT ![fp] = bits \ {"EOF"}]
       PROVE  IInv'
  <2>1. PICK b : b = bits \ {"EOF"}
    OBVIOUS
  <2>2. Fits(b) /\ b # {}
    BY <1>1, <2>1, ModeFits
  <2>3. FlagsOK(flag') /\ flag'[fp] = b /\ \A s \in Streams \ {fp} : flag'[s] = flag[s]
    BY <1>5, <1>14, <2>1, <2>2, FlagMoved DEF SetTo
  <2>4. /\ fd' \in [Streams -> Int] /\ fd'[fp] = d
        /\ \A s \in Streams \ {fp} : fd'[s] = fd[s]
    BY <1>5, <1>11, <1>14
  <2>5. DOMAIN host' = DOMAIN closed \cup {d}
    BY <1>14
  <2>6. Owned(DOMAIN host', flag', fd')
    <3>1. PICK f2 : f2 = flag'
      OBVIOUS
    <3>2. PICK x2 : x2 = fd'
      OBVIOUS
    <3>3. /\ f2[fp] # {} /\ x2[fp] = d
          /\ \A s \in Streams \ {fp} : f2[s] = f0[s] /\ x2[s] = fd[s]
      BY <1>8, <2>2, <2>3, <2>4, <3>1, <3>2
    <3>4. Owned(DOMAIN closed \cup {d}, f2, x2)
      BY <1>5, <1>8, <1>9, <1>11, <3>3, OwnedOpen
    <3> QED
      BY <2>5, <3>1, <3>2, <3>4
  <2>7. FilesOK(data') /\ DOMAIN data \cup {name} = DOMAIN data'
    <3>1. CASE "READ" \in bits
      BY <1>5, <1>14, <3>1 DEF sys_io_openf
    <3>2. CASE "READ" \notin bits
      <4>1. data' = [f \in DOMAIN data \cup {name} |-> IF f = name THEN <<>> ELSE data[f]]
        BY <1>14, <3>2 DEF sys_io_openf
      <4>2. DOMAIN data' = DOMAIN data \cup {name}
        BY <4>1
      <4>3. \A f \in DOMAIN data' : data'[f] = <<>> \/ (f \in DOMAIN data /\ data'[f] = data[f])
        BY <4>1
      <4>4. <<>> \in Seq(Bytes) /\ Len(<<>>) <= MaxLength
        BY StreamsAssumption
      <4> QED
        BY <1>5, <4>2, <4>3, <4>4 DEF FilesOK
    <3> QED
      BY <3>1, <3>2
  <2>8. HostOK(host', DOMAIN data')
    <3>1. ASSUME NEW e \in DOMAIN closed
          PROVE  closed[e] \in Descriptor(DOMAIN data')
      <4>1. closed[e] \in Descriptor(DOMAIN data)
        BY <1>6 DEF HostOK
      <4> QED
        BY <2>7, <4>1 DEF Descriptor
    <3>2. [file |-> name, pos |-> 0, append |-> "EOF" \in bits] \in Descriptor(DOMAIN data')
      <4>1. ("EOF" \in bits) \in BOOLEAN
        <5>1. CASE "EOF" \in bits
          <6>1. ("EOF" \in bits) = TRUE
            BY <5>1
          <6> QED
            BY <6>1
        <5>2. CASE "EOF" \notin bits
          <6>1. ("EOF" \in bits) = FALSE
            BY <5>2
          <6> QED
            BY <6>1
        <5> QED
          BY <5>1, <5>2
      <4>2. 0 \in Nat /\ name \in DOMAIN data'
        BY <2>7
      <4> QED
        BY <4>1, <4>2, Zenon DEF Descriptor
    <3>3. \A e \in DOMAIN host' : e = d \/ e \in DOMAIN closed
      BY <2>5
    <3>4. \A e \in DOMAIN host' : host'[e] = IF e = d
            THEN [file |-> name, pos |-> 0, append |-> "EOF" \in bits] ELSE closed[e]
      BY <1>14
    <3> QED
      BY <3>1, <3>2, <3>3, <3>4 DEF HostOK
  <2>9. Within(DOMAIN host')
    BY <1>6, <1>11, <2>5, StreamsCount DEF Within
  <2>10. \A s \in Streams : flag'[s] # {} => fd'[s] >= 0
    BY <1>8, <1>11, <1>12, <2>3, <2>4
  <2> QED
    BY <1>4, <1>5, <2>3, <2>4, <2>6, <2>7, <2>8, <2>9, <2>10 DEF IInv
<1>15. \/ /\ name \in DOMAIN data \/ "READ" \notin bits
          /\ data' = sys_io_openf(name, bits)
          /\ host' = [e \in DOMAIN closed \cup {d} |->
                        IF e = d THEN [file |-> name, pos |-> 0, append |-> "EOF" \in bits]
                        ELSE closed[e]]
          /\ fd' = [fd EXCEPT ![fp] = d]
          /\ flag' = [flag EXCEPT ![fp] = bits \ {"EOF"}]
       \/ /\ host' = closed
          /\ fd' = [fd EXCEPT ![fp] = -1]
          /\ flag' = [flag EXCEPT ![fp] = {}]
          /\ data' = data
  BY <1>1, <1>2, <1>3 DEF freopen
<1> QED
  BY <1>13, <1>14, <1>15

(* A slot found and opened.                                                *)
LEMMA FopenStep ==
  ASSUME IInv, NEW name \in Names, NEW mode \in DOMAIN _sflags, fopen(name, mode)
  PROVE  IInv'
<1>1. PICK T : T = {s \in Slots : ~Open(s)}
  OBVIOUS
<1>2. T \subseteq Nat /\ T # {} /\ T \subseteq Streams
  BY <1>1, StreamsAssumption DEF fopen, Streams
<1>3. Min(T) \in Streams
  BY <1>2, MinOfNats
<1>4. freopen(name, mode, Min(T))
  BY <1>1 DEF fopen
<1> QED
  BY <1>3, <1>4, FreopenStep

(* The end of the program.                                                 *)
LEMMA ExitStep ==
  ASSUME IInv, exit
  PROVE  IInv'
<1>1. running /\ running' = FALSE /\ host' = _sclose(Streams) /\ UNCHANGED <<flag, unget, fd, data>>
  BY DEF exit
<1>2. Owned(DOMAIN host, flag, fd)
  BY <1>1 DEF IInv
<1>3. DOMAIN host' = {0}
  BY <1>1, <1>2, OwnedExit, Closing
<1>4. HostOK(host', DOMAIN data) /\ Within(DOMAIN host')
  BY <1>1, Closing
<1> QED
  BY <1>1, <1>3, <1>4 DEF IInv

(* The invariant is inductive.                                             *)
LEMMA InvNext ==
  ASSUME IInv, [Next]_vars
  PROVE  IInv'
<1>1. CASE UNCHANGED vars
  BY <1>1 DEF vars, IInv
<1>2. ASSUME NEW name \in Names, NEW mode \in DOMAIN _sflags, fopen(name, mode)
      PROVE  IInv'
  BY <1>2, FopenStep
<1>3. ASSUME NEW fp \in Streams, NEW sz \in 1 .. MaxWant, fread(fp, sz)
      PROVE  IInv'
  BY <1>3, FreadStep
<1>4. ASSUME NEW fp \in Streams, NEW c \in Typed, ungetc(c, fp) \/ fputc(c, fp)
      PROVE  IInv'
  BY <1>4, UngetcStep, FputcStep
<1>5. ASSUME NEW fp \in Streams, NEW mode \in Modes, setvbuf(fp, mode)
      PROVE  IInv'
  BY <1>5, FlagSteps
<1>6. ASSUME NEW fps \in SUBSET Streams, fflush(fps)
      PROVE  IInv'
  BY <1>6, FlagSteps, StreamsCount
<1>7. ASSUME NEW fp \in Streams, clearerr(fp)
      PROVE  IInv'
  BY <1>7, FlagSteps
<1>8. ASSUME NEW fp \in Streams, NEW off \in 0 .. MaxLength, fseek(fp, off)
      PROVE  IInv'
  BY <1>8, FseekStep
<1>9. ASSUME NEW fp \in Streams, fclose(fp)
      PROVE  IInv'
  BY <1>9, FcloseStep
<1>10. ASSUME NEW fp \in Streams, NEW name \in Names, NEW mode \in DOMAIN _sflags,
              freopen(name, mode, fp)
       PROVE  IInv'
  BY <1>10, FreopenStep
<1>11. CASE exit
  BY <1>11, ExitStep
<1> QED
  BY <1>1, <1>2, <1>3, <1>4, <1>5, <1>6, <1>7, <1>8, <1>9, <1>10, <1>11 DEF Next

(* The invariant holds in every state.                                     *)
LEMMA InvAlways == Spec => []IInv
<1>1. Init => IInv
  BY InvInit
<1>2. IInv /\ [Next]_vars => IInv'
  BY InvNext
<1> QED
  BY <1>1, <1>2, PTL DEF Spec

-----------------------------------------------------------------------------
(* The streams keep their types, one that is open can be read or written   *)
(* and has a descriptor, and the descriptors of the host are bounded by    *)
(* the number of slots, for any sequence of calls.                         *)
THEOREM StreamsTyped == Spec => []TypeOK
<1>1. IInv => TypeOK
  <2> SUFFICES ASSUME IInv
               PROVE  TypeOK
    OBVIOUS
  <2>1. FlagsOK(flag) /\ unget \in [Streams -> Bytes] /\ FilesOK(data) /\ Within(DOMAIN host)
    BY DEF IInv
  <2>2. \A s \in Streams : Fits(flag[s])
    BY <2>1, Zenon DEF FlagsOK
  <2>3. flag \in [Streams -> SUBSET Flags]
    <3>1. flag = [s \in Streams |-> flag[s]]
      BY <2>1, Zenon DEF FlagsOK
    <3>2. \A s \in Streams : flag[s] \in SUBSET Flags
      BY <2>2, Zenon DEF Fits
    <3> QED
      BY <3>1, <3>2
  <2>4. DOMAIN host \subseteq 0 .. (3 + Cardinality(Slots) + 1)
    BY <2>1, Zenon DEF Within, Reach
  <2>5. \A f \in DOMAIN data : data[f] \in Seq(Bytes) /\ Len(data[f]) <= MaxLength
    BY <2>1, Zenon DEF FilesOK
  <2>6. \A s \in Streams : Open(s) => flag[s] \cap {"READ", "WRIT"} # {} /\ fd[s] >= 0
    BY <2>2 DEF Open, Fits, IInv
  <2>7. \A s \in Streams : "EOF" \in flag[s] => "UNGET" \notin flag[s]
    BY <2>2, Zenon DEF Fits
  <2> QED
    BY <2>1, <2>3, <2>4, <2>5, <2>6, <2>7 DEF TypeOK
<1> QED
  BY <1>1, InvAlways, PTL

(* No descriptor is lost or shared, whatever the program opens, closes and *)
(* opens again, with any number of slots; none is left when it ends.       *)
THEOREM DescriptorsKept == Spec => []DescriptorsOwned
<1>1. IInv => DescriptorsOwned
  <2> SUFFICES ASSUME IInv
               PROVE  DescriptorsOwned
    OBVIOUS
  <2>1. CASE ~running
    BY <2>1 DEF IInv, DescriptorsOwned
  <2>2. CASE running
    <3>1. Owned(DOMAIN host, flag, fd)
      BY <2>2 DEF IInv
    <3>2. ASSUME NEW d \in DOMAIN host, d > 2
          PROVE  Cardinality({s \in Streams : Open(s) /\ fd[s] = d}) = 1
      <4>1. PICK s \in Streams : flag[s] # {} /\ fd[s] = d
        BY <3>1, <3>2 DEF Owned
      <4>2. \A t \in Streams : flag[t] # {} /\ fd[t] = d => t = s
        BY <3>1, <3>2, <4>1 DEF Owned
      <4>3. {t \in Streams : Open(t) /\ fd[t] = d} = {s}
        BY <4>1, <4>2 DEF Open
      <4> QED
        BY <4>3, FS_Singleton
    <3>3. \A s \in Streams : Open(s) => fd[s] \in DOMAIN host
      BY <3>1 DEF Owned, Open
    <3> QED
      BY <2>2, <3>2, <3>3 DEF DescriptorsOwned
  <2> QED
    BY <2>1, <2>2 DEF IInv
<1> QED
  BY <1>1, InvAlways, PTL

(* A read from pos that stops at next, in a file of len bytes.             *)
Stops(F, pos, next, len) == (next = pos \/ (pos <= next /\ next <= len)) /\ len = Len(F)
Split(P, F, pos, next, len) ==
    P \o SubSeq(F, pos + 1, len) = (P \o SubSeq(F, pos + 1, next)) \o SubSeq(F, next + 1, len)

(* What is ahead in a file, split where a read of n bytes stops.           *)
LEMMA AheadSplit ==
  ASSUME NEW F \in Seq(Bytes), NEW P \in Seq(Bytes), NEW pos \in Nat, NEW next \in Nat,
         NEW len \in Nat, Stops(F, pos, next, len)
  PROVE  Split(P, F, pos, next, len)
<1> USE DEF Stops, Split
<1>1. CASE next = pos
  <2>1. SubSeq(F, pos + 1, next) = <<>>
    BY <1>1, SubSeqEmpty
  <2>2. P \o SubSeq(F, pos + 1, next) = P
    BY <2>1, ConcatEmptySeq
  <2> QED
    BY <1>1, <2>2
<1>2. CASE pos <= next /\ next <= Len(F)
  <2>1. PICK m : m = pos + 1
    OBVIOUS
  <2>2. m \in 1 .. Len(F) + 1 /\ next \in m - 1 .. Len(F) /\ len \in next .. Len(F)
    BY <1>2, <2>1
  <2>3. SubSeq(F, m, next) \o SubSeq(F, next + 1, len) = SubSeq(F, m, len)
    BY <2>2, ConcatAdjacentSubSeq
  <2>4. PICK A : A = SubSeq(F, m, next)
    OBVIOUS
  <2>5. PICK B : B = SubSeq(F, next + 1, len)
    OBVIOUS
  <2>6. A \in Seq(Bytes)
    <3>1. \A i \in m .. next : F[i] \in Bytes
      BY <1>2, <2>1
    <3> QED
      BY <2>1, <2>4, <3>1, SubSeqProperties
  <2>7. B \in Seq(Bytes)
    <3>1. PICK k \in Int : k = next + 1
      OBVIOUS
    <3>2. \A i \in k .. len : F[i] \in Bytes
      BY <3>1
    <3> QED
      BY <2>5, <3>1, <3>2, SubSeqProperties
  <2>8. (P \o A) \o B = P \o (A \o B)
    BY <2>6, <2>7, ConcatAssociative
  <2> QED
    BY <2>1, <2>3, <2>4, <2>5, <2>8
<1> QED
  BY <1>1, <1>2

(* What the program is to read next, in terms of the file's length.        *)
LEMMA AheadIs ==
  ASSUME NEW fp, Len(File(fp)) \in Nat, Position(fp) \in Nat
  PROVE  Ahead(fp) = Pushed(fp) \o SubSeq(File(fp), Position(fp) + 1, Len(File(fp)))
<1>1. PICK len \in Nat : len = Len(File(fp))
  OBVIOUS
<1>2. PICK pos \in Nat : pos = Position(fp)
  OBVIOUS
<1>3. pos + (len - pos) = len
  OBVIOUS
<1> QED
  BY <1>1, <1>2, <1>3 DEF Ahead, Next_n

(* A read gives what is ahead and leaves the rest.                         *)
LEMMA FreadInOrder ==
  ASSUME IInv, IInv', NEW fp \in Streams, NEW sz \in 1 .. MaxWant, fread(fp, sz)
  PROVE  /\ op'.fp = fp
         /\ Ahead(fp) = op'.got \o Ahead(fp)'
         /\ op'.short => flag'[fp] \cap {"EOF", "ERR"} # {}
<1>1. running /\ _schkread(fp) /\ UNCHANGED <<unget, fd, data, running>>
  BY DEF fread
<1>2. flag[fp] # {} /\ FlagsOK(flag) /\ unget \in [Streams -> Bytes]
  BY <1>1 DEF _schkread, IInv
<1>3. /\ fd[fp] \in DOMAIN host /\ host[fd[fp]] \in Descriptor(DOMAIN data)
      /\ File(fp) \in Seq(Bytes) /\ Len(File(fp)) \in Nat /\ Position(fp) \in Nat
      /\ HostOK(host, DOMAIN data)
  BY <1>1, <1>2, OpenStream DEF IInv
<1>4. PICK l \in 0 .. 1 : l = Len(Pushed(fp))
  BY DEF Pushed
<1>5. PICK cnt \in Nat : cnt = sz - l
  <2>1. MaxWant \in Nat
    BY StreamsAssumption
  <2> QED
    BY <2>1
<1>6. PICK r \in reads(fp, cnt) :
             /\ flag' = [flag EXCEPT ![fp] = Taken(fp) \cup r.bit]
             /\ host' = [host EXCEPT ![fd[fp]].pos = @ + r.n]
             /\ op' = [fp |-> fp, got |-> Pushed(fp) \o Next_n(fp, r.n),
                       short |-> Len(Pushed(fp)) + r.n < sz]
  BY <1>4, <1>5 DEF fread
<1>7. Outcome(Len(File(fp)), Position(fp), cnt, 0, r)
  BY <1>3, <1>6, ReadsEnd
<1>8. PICK n \in Nat : n = r.n
  BY <1>7 DEF Outcome
<1>9. PICK F \in Seq(Bytes) : F = File(fp)
  BY <1>3
<1>10. PICK pos \in Nat : pos = Position(fp)
  BY <1>3
<1>11. PICK next \in Nat : next = pos + n
  OBVIOUS
<1>12. PICK len \in Nat : len = Len(F)
  OBVIOUS
<1>13. Stops(F, pos, next, len)
  BY <1>7, <1>8, <1>9, <1>10, <1>11, <1>12 DEF Outcome, Stops
<1>14. PICK P \in Seq(Bytes) : P = Pushed(fp)
  <2>1. PICK b \in Bytes : b = unget[fp]
    BY <1>2
  <2>2. <<b>> \in Seq(Bytes) /\ <<>> \in Seq(Bytes)
    OBVIOUS
  <2>3. Pushed(fp) = <<b>> \/ Pushed(fp) = <<>>
    BY <2>1 DEF Pushed
  <2> QED
    BY <2>2, <2>3
<1>15. P \o SubSeq(F, pos + 1, len)
           = (P \o SubSeq(F, pos + 1, next)) \o SubSeq(F, next + 1, len)
  <2>1. Split(P, F, pos, next, len)
    BY <1>13, AheadSplit
  <2> QED
    BY <2>1 DEF Split
<1>16. Ahead(fp) = P \o SubSeq(F, pos + 1, len)
  BY <1>3, <1>9, <1>10, <1>12, <1>14, AheadIs
<1>17. op'.fp = fp /\ op'.got = P \o SubSeq(F, pos + 1, next)
  BY <1>6, <1>8, <1>9, <1>10, <1>11, <1>14 DEF Next_n
<1>18. Ahead(fp)' = SubSeq(F, next + 1, len)
  <2>1. File(fp)' = F /\ Position(fp)' = next
    <3>1. PICK a : a = fd[fp]
      OBVIOUS
    <3>2. host' = MovedTo(host, a, next)
      BY <1>6, <1>8, <1>10, <1>11, <3>1 DEF MovedTo, Position
    <3>3. host'[fd[fp]].file = host[fd[fp]].file /\ host'[fd[fp]].pos = next
      BY <1>3, <3>1, <3>2, HostMoved
    <3> QED
      BY <1>1, <1>9, <3>3 DEF File, Position
  <2>2. "UNGET" \notin flag'[fp]
    <3>1. flag'[fp] = Taken(fp) \cup r.bit
      BY <1>2, <1>6 DEF FlagsOK
    <3>2. r.bit \in {{}, {"EOF"}, {"ERR"}}
      BY <1>7 DEF Outcome
    <3> QED
      BY <3>1, <3>2 DEF Taken
  <2>3. Pushed(fp)' = <<>>
    BY <2>2 DEF Pushed
  <2>4. Next_n(fp, Len(File(fp)) - Position(fp))' = SubSeq(F, next + 1, next + (len - next))
    BY <1>12, <2>1 DEF Next_n
  <2>5. next + (len - next) = len
    OBVIOUS
  <2>6. Ahead(fp)' = <<>> \o SubSeq(F, next + 1, len)
    BY <2>3, <2>4, <2>5 DEF Ahead
  <2>7. SubSeq(F, next + 1, len) \in Seq(Bytes)
    <3>1. PICK k \in Int : k = next + 1
      OBVIOUS
    <3>2. \A i \in k .. len : F[i] \in Bytes
      BY <1>12, <3>1
    <3> QED
      BY <3>1, <3>2, SubSeqProperties
  <2> QED
    BY <2>6, <2>7, ConcatEmptySeq
<1>19. ASSUME op'.short
       PROVE  flag'[fp] \cap {"EOF", "ERR"} # {}
  <2>1. op'.short = (Len(Pushed(fp)) + r.n < sz)
    BY <1>6
  <2>2. l + n < sz
    BY <1>4, <1>8, <1>19, <2>1
  <2>3. n < cnt
    BY <1>5, <2>2, StreamsAssumption
  <2>4. r.bit \in {{"EOF"}, {"ERR"}}
    BY <1>7, <1>8, <2>3 DEF Outcome
  <2>5. flag'[fp] = Taken(fp) \cup r.bit
    BY <1>2, <1>6 DEF FlagsOK
  <2> QED
    BY <2>4, <2>5
<1> QED
  BY <1>15, <1>16, <1>17, <1>18, <1>19

(* The other calls read nothing.                                           *)
LEMMA OthersQuiet ==
  ASSUME Next
  PROVE  \/ op' = Quiet
         \/ \E fp \in Streams, sz \in 1 .. MaxWant : fread(fp, sz)
BY DEF Next, fopen, freopen, ungetc, fputc, setvbuf, fflush, clearerr, Reflag, fseek,
       fclose, exit

(* Whatever a host that reads in pieces and fails answers, a program gets  *)
(* what was ahead on the stream, the character pushed back first, and the  *)
(* rest stays ahead; and the stream tells why a read was short.            *)
THEOREM ReadsKeepOrder == Spec => ReadsInOrder
<1>1. ASSUME IInv, IInv', [Next]_vars
      PROVE  [\A fp \in Streams : op'.fp = fp =>
                /\ op'.got # <<>> => Ahead(fp) = op'.got \o Ahead(fp)'
                /\ op'.short => flag'[fp] \cap {"EOF", "ERR"} # {}]_vars
  <2> SUFFICES ASSUME Next, NEW s \in Streams, op'.fp = s
               PROVE  /\ op'.got # <<>> => Ahead(s) = op'.got \o Ahead(s)'
                      /\ op'.short => flag'[s] \cap {"EOF", "ERR"} # {}
    BY <1>1
  <2>1. CASE op' = Quiet
    BY <2>1 DEF Quiet
  <2>2. ASSUME NEW fp \in Streams, NEW sz \in 1 .. MaxWant, fread(fp, sz)
        PROVE  /\ op'.got # <<>> => Ahead(s) = op'.got \o Ahead(s)'
               /\ op'.short => flag'[s] \cap {"EOF", "ERR"} # {}
    <3>1. /\ op'.fp = fp /\ Ahead(fp) = op'.got \o Ahead(fp)'
          /\ op'.short => flag'[fp] \cap {"EOF", "ERR"} # {}
      BY <1>1, <2>2, FreadInOrder
    <3>2. fp = s
      BY <3>1
    <3> QED
      BY <3>1, <3>2
  <2> QED
    BY <2>1, <2>2, OthersQuiet
<1> QED
  BY <1>1, InvAlways, PTL DEF Spec, ReadsInOrder

=============================================================================
