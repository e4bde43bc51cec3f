---------------------------- MODULE MallocProofs ----------------------------
(***************************************************************************)
(* Theorems about Malloc: for any chain of areas and any sequence of calls *)
(* whose sizes do not wrap, the two lists agree, the blocks tile the       *)
(* areas, the objects of the callers are disjoint and left alone, and the  *)
(* allocator implements HeapSpec.                                          *)
(***************************************************************************)
EXTENDS HeapCalls

(* The objects l of the callers are the used blocks of D, m.               *)
Owned(D, m, l) ==
  /\ DOMAIN l \subseteq Int
  /\ \A p \in DOMAIN l : l[p] \in Nat
  /\ UsedIn(D, m) = {p - Header : p \in DOMAIN l}
  /\ \A p \in DOMAIN l : p + l[p] <= EndsOf(D, m)[p - Header]

HeapOK(m, l) == Well(DOMAIN m, m) /\ Owned(DOMAIN m, m, l)

MemTyped(D, m) ==
  \A p \in D :
    /\ m[p].size \in 0 .. MaxWord
    /\ \A q \in {m[p].bnext, m[p].bprev, m[p].fnext} : q \in D \cup {NULL}
    /\ m[p].fprev \in D \cup {NULL, UserData}

LiveTyped(D, l) == \A p \in DOMAIN l : l[p] \in Nat /\ p - Header \in D \ {HeadAt}

(* The fields of a well formed heap hold what they are declared to.        *)
LEMMA WellTyped ==
  ASSUME NEW D, NEW m, Well(D, m)
  PROVE  MemTyped(D, m)
<1>1. PICK h : Lists(D, Free(D, m), m, h)
  BY DEF Well
<1>2. Circular(D, Free(D, m), m) /\ Shaped(D, m)
  BY <1>1, ListsCircular DEF Well
<1> SUFFICES ASSUME NEW p \in D
             PROVE  /\ m[p].size \in 0 .. MaxWord
                    /\ \A q \in {m[p].bnext, m[p].bprev, m[p].fnext} : q \in D \cup {NULL}
                    /\ m[p].fprev \in D \cup {NULL, UserData}
  BY DEF MemTyped
<1>3. m[p].size \in 0 .. MaxWord
  <2>1. CASE p = HeadAt
    <3>1. m[p].size = 0 /\ MaxWord \in Int /\ 0 <= MaxWord
      BY <1>2, <2>1, WordFact DEF Shaped
    <3> QED
      BY <3>1
  <2>2. CASE p # HeadAt
    <3>1. PICK n : n = Unmarked(m[p].size)
      OBVIOUS
    <3>2. /\ n \in Int /\ Grained(n) /\ 0 < n /\ p + n <= MaxWord + 1 /\ p \in Int /\ 0 < p
          /\ m[p].size = n + 1 \/ m[p].size = n
      BY <1>2, <2>2, <3>1, EachBlock
    <3>3. n + 1 <= 65535
      BY <3>2, WordFact DEF Grained
    <3>4. m[p].size \in Int /\ 0 <= m[p].size /\ m[p].size <= 65535
      BY <3>2, <3>3
    <3>5. m[p].size <= MaxWord /\ MaxWord \in Int
      BY <3>4, WordFact
    <3> QED
      BY <3>4, <3>5, SMT
  <2> QED
    BY <2>1, <2>2
<1>4. m[p].bnext \in D /\ m[p].bprev \in D
  BY <1>2 DEF Circular
<1>5. CASE p \in Free(D, m)
  BY <1>2, <1>3, <1>4, <1>5 DEF Circular, Free
<1>6. CASE p \notin Free(D, m)
  <2>1. m[p].fprev = UserData /\ m[p].fnext = NULL
    BY <1>2, <1>6 DEF Free, Shaped
  <2> QED
    BY <1>3, <1>4, <2>1
<1> QED
  BY <1>5, <1>6

(* The callers' objects are in blocks.                                     *)
LEMMA OwnedTyped ==
  ASSUME NEW D, NEW m, NEW l, Well(D, m), Owned(D, m, l)
  PROVE  LiveTyped(D, l)
<1>1. HeadAt \notin UsedIn(D, m)
  BY DEF Well, Shaped, UsedIn, Used
<1> QED
  BY <1>1 DEF Owned, LiveTyped, UsedIn

(* The caller gets a block that nobody owned, long enough for the request. *)
LEMMA OwnedTake ==
  ASSUME NEW D, NEW m, NEW l, Owned(D, m, l), Well(D, m),
         NEW b \in Free(D, m) \ {HeadAt}, NEW size, Need(size), NEW n, NEW D2, NEW m2,
         TakenFrom(D, m, b, size, n, D2, m2),
         NEW want \in Nat, want + Header <= size
  PROVE  Owned(D2, m2, With(l, b + Header, want)) /\ b \in D2 /\ b + Header \notin DOMAIN l
<1>1. /\ D \subseteq D2 /\ m2[b].size = n + 1 /\ Grained(n) /\ size <= n
      /\ UsedIn(D2, m2) = UsedIn(D, m) \cup {b}
      /\ \A p \in UsedIn(D, m) : m2[p].size = m[p].size
  BY DEF TakenFrom
<1>2. b \in D /\ b \in Int /\ size \in Int /\ n \in Int /\ b \notin UsedIn(D, m)
  BY <1>1, AllInt DEF Free, UsedIn, Well, Need, Grained
<1>3. PICK q : q = b + Header
  OBVIOUS
<1>4. q \in Int /\ q - Header = b
  BY <1>2, <1>3 DEF Header
<1>5. q \notin DOMAIN l
  BY <1>2, <1>4 DEF Owned
<1>6. PICK l2 : l2 = With(l, q, want)
  OBVIOUS
<1>7. DOMAIN l2 = DOMAIN l \cup {q} /\ l2[q] = want /\ \A p \in DOMAIN l : l2[p] = l[p]
  BY <1>5, <1>6 DEF With
<1>8. EndsOf(D2, m2)[b] = b + n
  <2>1. Unmarked(n + 1) = n
    BY <1>1, GrainedMarks
  <2> QED
    BY <1>1, <1>2, <2>1 DEF EndsOf
<1>9. \A p \in UsedIn(D, m) : EndsOf(D2, m2)[p] = EndsOf(D, m)[p]
  BY <1>1 DEF EndsOf, UsedIn
<1>10. UsedIn(D2, m2) = {p - Header : p \in DOMAIN l2}
  BY <1>1, <1>4, <1>7 DEF Owned
<1>11. q + want <= EndsOf(D2, m2)[q - Header]
  BY <1>1, <1>2, <1>3, <1>4, <1>8 DEF Header
<1>12. \A p \in DOMAIN l : p + l[p] <= EndsOf(D2, m2)[p - Header]
  BY <1>9 DEF Owned
<1>13. Owned(D2, m2, l2)
  <2>1. DOMAIN l2 \subseteq Int /\ \A p \in DOMAIN l2 : l2[p] \in Nat
    BY <1>4, <1>7 DEF Owned
  <2>2. \A p \in DOMAIN l2 : p + l2[p] <= EndsOf(D2, m2)[p - Header]
    BY <1>7, <1>11, <1>12
  <2> QED
    BY <1>10, <2>1, <2>2 DEF Owned
<1> QED
  BY <1>1, <1>2, <1>3, <1>5, <1>6, <1>13

(* The caller gives a block back.                                          *)
LEMMA OwnedFree ==
  ASSUME NEW D, NEW m, NEW l, Owned(D, m, l), NEW ptr \in DOMAIN l,
         NEW D2, NEW m2, FreedTo(D, m, ptr - Header, D2, m2)
  PROVE  Owned(D2, m2, Without(l, ptr))
<1>1. /\ UsedIn(D2, m2) = UsedIn(D, m) \ {ptr - Header}
      /\ \A p \in UsedIn(D2, m2) : m2[p].size = m[p].size
      /\ D2 \subseteq D
  BY DEF FreedTo
<1>2. PICK l2 : l2 = Without(l, ptr)
  OBVIOUS
<1>3. DOMAIN l2 = DOMAIN l \ {ptr} /\ \A p \in DOMAIN l2 : l2[p] = l[p]
  BY <1>2 DEF Without
<1>4. \A p \in UsedIn(D2, m2) : EndsOf(D2, m2)[p] = EndsOf(D, m)[p]
  BY <1>1 DEF EndsOf, UsedIn
<1>5. DOMAIN l \subseteq Int /\ \A p, q \in DOMAIN l : p - Header = q - Header => p = q
  BY DEF Owned, Header
<1>6. UsedIn(D2, m2) = {p - Header : p \in DOMAIN l2}
  BY <1>1, <1>3, <1>5 DEF Owned
<1> QED
  BY <1>2, <1>3, <1>4, <1>5, <1>6 DEF Owned

(* The sizes of the blocks that are used before and after.                 *)
Keeps(m, m2) ==
  \A p \in UsedIn(DOMAIN m, m) \cap UsedIn(DOMAIN m2, m2) : m2[p].size = m[p].size

(* A heap has one set of headers.                                          *)
LEMMA WellDomain ==
  ASSUME NEW D, NEW m, Well(D, m)
  PROVE  D = DOMAIN m
BY DEF Well, Shaped, Headers

(* malloc and calloc, when there is room.                                  *)
LEMMA HeapTakes ==
  ASSUME NEW m, NEW l, HeapOK(m, l), NEW sz \in Nat, sz + Header + 3 <= MaxWord,
         NEW b, b = Candidate(m, sz), b # HeadAt, NEW m2, m2 = TakeBlock(m, b, RoundUp(sz)),
         NEW want \in Nat, want <= sz
  PROVE  /\ HeapOK(m2, With(l, b + Header, want)) /\ Keeps(m, m2)
         /\ b \in DOMAIN m2 \ {HeadAt} /\ b + Header \notin DOMAIN l
         /\ UsedIn(DOMAIN m, m) \subseteq UsedIn(DOMAIN m2, m2)
         /\ \A p \in UsedIn(DOMAIN m, m) : m2[p].size = m[p].size
         /\ b \in Free(DOMAIN m, m)
         /\ Tidy(DOMAIN m, m) => Tidy(DOMAIN m2, m2)
         /\ \E n : TakenFrom(DOMAIN m, m, b, RoundUp(sz), n, DOMAIN m2, m2)
<1>1. PICK D : D = DOMAIN m
  OBVIOUS
<1>2. PICK r : r = RoundUp(sz)
  OBVIOUS
<1>3. Well(D, m) /\ Owned(D, m, l)
  BY <1>1 DEF HeapOK
<1>4. b \in Free(D, m) \ {HeadAt} /\ Need(r) /\ Fits(m, b, r)
  BY <1>2, <1>3, CandidateIs
<1>5. sz + Header <= r /\ r \in Int
  BY <1>2, RoundUpIs DEF Grained
<1>6. PICK D2, n : TakenFrom(D, m, b, r, n, D2, m2) /\ (Tidy(D, m) => Tidy(D2, m2))
  BY <1>2, <1>3, <1>4, TakeWell
<1>7. want + Header <= r
  BY <1>5 DEF Header
<1>8. Owned(D2, m2, With(l, b + Header, want)) /\ b \in D2 /\ b + Header \notin DOMAIN l
  BY <1>3, <1>4, <1>6, <1>7, OwnedTake
<1>9. Well(D2, m2) /\ D2 = DOMAIN m2
  BY <1>6, WellDomain DEF TakenFrom
<1>10. /\ UsedIn(D2, m2) = UsedIn(D, m) \cup {b}
       /\ \A p \in UsedIn(D, m) : m2[p].size = m[p].size
  BY <1>6 DEF TakenFrom
<1> QED
  BY <1>1, <1>2, <1>4, <1>6, <1>8, <1>9, <1>10 DEF HeapOK, Keeps

(* free of an object.                                                      *)
LEMMA HeapFrees ==
  ASSUME NEW m, NEW l, HeapOK(m, l), NEW ptr \in DOMAIN l,
         NEW m2, m2 = Freed(m, ptr - Header)
  PROVE  /\ HeapOK(m2, Without(l, ptr)) /\ Keeps(m, m2)
         /\ FreedTo(DOMAIN m, m, ptr - Header, DOMAIN m2, m2)
         /\ AreasApart /\ Tidy(DOMAIN m, m) => Tidy(DOMAIN m2, m2)
<1>1. PICK D, b : D = DOMAIN m /\ b = ptr - Header
  OBVIOUS
<1>2. Well(D, m) /\ Owned(D, m, l) /\ b \in UsedIn(D, m)
  BY <1>1 DEF HeapOK, Owned
<1>3. PICK D2 : FreedTo(D, m, b, D2, m2) /\ (AreasApart /\ Tidy(D, m) => Tidy(D2, m2))
  BY <1>1, <1>2, FreedWell
<1>4. Well(D2, m2) /\ D2 = DOMAIN m2
  BY <1>3, WellDomain DEF FreedTo
<1>5. Owned(D2, m2, Without(l, ptr))
  BY <1>1, <1>2, <1>3, OwnedFree
<1>6. Keeps(m, m2)
  BY <1>1, <1>3, <1>4 DEF Keeps, FreedTo
<1> QED
  BY <1>1, <1>3, <1>4, <1>5, <1>6 DEF HeapOK

-----------------------------------------------------------------------------
(* The inductive invariant: malloc_init lists the areas one by one; then   *)
(* the heap is well formed and its used blocks are those of the callers.   *)
Invariant(m, ch, l, c, ha) ==
  /\ MemTyped(DOMAIN m, m) /\ LiveTyped(DOMAIN m, l)
  /\ ch \in 1 .. Len(Areas) + 1 /\ ha \in BOOLEAN
  /\ c.ret \in {NULL} \cup {p + Header : p \in DOMAIN m \ {HeadAt}}
  /\ ch <= Len(Areas) => \E k \in 0 .. Len(Areas) :
       ch = k + 1 /\ Linking(k, m) /\ DOMAIN l = {} /\ c.ret = NULL /\ ha = FALSE
  /\ ch > Len(Areas) /\ ~ ha => HeapOK(m, l) /\ (AreasApart => Tidy(DOMAIN m, m))
  /\ ha => c.ptr \notin DOMAIN l
Inv == Invariant(mem, chain, live, call, halted)

(* The invariant once malloc_init is done.                                 *)
LEMMA Running ==
  ASSUME NEW m, NEW ch, NEW l, NEW c, NEW ha, HeapOK(m, l),
         AreasApart => Tidy(DOMAIN m, m),
         ch \in 1 .. Len(Areas) + 1, ch > Len(Areas), ha = FALSE,
         c.ret \in {NULL} \cup {p + Header : p \in DOMAIN m \ {HeadAt}}
  PROVE  Invariant(m, ch, l, c, ha)
<1>1. MemTyped(DOMAIN m, m) /\ LiveTyped(DOMAIN m, l)
  BY WellTyped, OwnedTyped DEF HeapOK
<1>2. ~ (ch <= Len(Areas))
  BY LenNat
<1> QED
  BY <1>1, <1>2 DEF Invariant

(* The invariant while malloc_init goes through the chain.                 *)
LEMMA Beginning ==
  ASSUME HeadClear, NEW m, NEW ch, NEW l, NEW c, NEW ha, NEW k \in 0 .. Len(Areas), Linking(k, m),
         ch = k + 1, DOMAIN l = {}, c.ret = NULL, ha = FALSE
  PROVE  Invariant(m, ch, l, c, ha)
<1>1. DOMAIN m = Heads
  BY DEF Linking, Headers
<1>2. LiveTyped(DOMAIN m, l)
  BY DEF LiveTyped
<1>3. ch \in 1 .. Len(Areas) + 1 /\ ch \in Int
  BY LenNat
<1>4. CASE ch <= Len(Areas)
  <2>1. MemTyped(Heads, m)
    <3> SUFFICES ASSUME NEW p \in Heads
                 PROVE  /\ m[p].size \in 0 .. MaxWord
                        /\ \A q \in {m[p].bnext, m[p].bprev, m[p].fnext} : q \in Heads \cup {NULL}
                        /\ m[p].fprev \in Heads \cup {NULL, UserData}
      BY DEF MemTyped
    <3>1. m[p].size \in Int /\ 0 <= m[p].size /\ m[p].size <= MaxWord /\ MaxWord \in Int
      <4>1. p = HeadAt \/ \E i \in 1 .. Len(Areas) : p = Areas[i].at
        BY DEF Heads, Starts
      <4>2. CASE p = HeadAt
        BY <4>2, WordFact DEF Linking, Sized
      <4>3. ASSUME NEW i \in 1 .. Len(Areas), p = Areas[i].at
            PROVE  m[p].size \in Int /\ 0 <= m[p].size /\ m[p].size <= MaxWord
        <5>1. m[p].size = Areas[i].size
          BY <4>3 DEF Linking, Sized
        <5> QED
          BY <5>1, EachArea, WordFact DEF Area
      <4> QED
        BY <4>1, <4>2, <4>3, WordFact
    <3> QED
      BY <3>1 DEF Linking, Within
  <2>2. ~ (ch > Len(Areas))
    BY <1>3, <1>4, LenNat
  <2>3. \E j \in 0 .. Len(Areas) :
          ch = j + 1 /\ Linking(j, m) /\ DOMAIN l = {} /\ c.ret = NULL /\ ha = FALSE
    OBVIOUS
  <2>4. MemTyped(DOMAIN m, m)
    BY <1>1, <2>1
  <2> QED
    BY <1>2, <1>3, <2>2, <2>3, <2>4 DEF Invariant
<1>5. CASE ~ (ch <= Len(Areas))
  <2>1. k = Len(Areas) /\ ch > Len(Areas)
    BY <1>3, <1>5, LenNat
  <2>2. /\ Well(Heads, m) /\ UsedIn(Heads, m) = {}
        /\ AreasApart => Held(Heads, m) /\ NoTouch(Heads, m)
    BY <2>1, LinkingEnds
  <2>3. HeapOK(m, l)
    BY <1>1, <2>2 DEF HeapOK, Owned
  <2> QED
    BY <1>1, <1>3, <2>1, <2>2, <2>3, Running DEF Tidy
<1> QED
  BY <1>4, <1>5

(* The invariant holds when the program is loaded.                         *)
LEMMA InitInv ==
  ASSUME HeadClear
  PROVE  Init => Inv
<1> SUFFICES ASSUME Init
             PROVE  Inv
  OBVIOUS
<1> DEFINE rs == {Areas[i] : i \in 1 .. Len(Areas)}
<1>1. \A p \in Heads : mem[p] = IF p = HeadAt
              THEN [size |-> 0, bnext |-> HeadAt, bprev |-> HeadAt,
                    fnext |-> HeadAt, fprev |-> HeadAt]
              ELSE [size |-> (CHOOSE r \in rs : r.at = p).size,
                    bnext |-> NULL, bprev |-> NULL,
                    fnext |-> NULL, fprev |-> NULL]
  BY DEF Init, Heads, Starts
<1>2. DOMAIN mem = Heads
  BY DEF Init, Heads, Starts
<1>3. ASSUME NEW i \in 1 .. Len(Areas)
      PROVE  (CHOOSE r \in rs : r.at = Areas[i].at) = Areas[i]
  <2>1. PICK r : r = CHOOSE x \in rs : x.at = Areas[i].at
    OBVIOUS
  <2>2. r \in rs /\ r.at = Areas[i].at
    BY <2>1
  <2>3. PICK j \in 1 .. Len(Areas) : r = Areas[j]
    BY <2>2
  <2>4. i = j
    BY <2>2, <2>3, AreasDistinct
  <2> QED
    BY <2>1, <2>3, <2>4
<1> HIDE DEF rs
<1>4. mem[HeadAt] = [size |-> 0, bnext |-> HeadAt, bprev |-> HeadAt,
                     fnext |-> HeadAt, fprev |-> HeadAt]
  BY <1>1 DEF Heads
<1>5. ASSUME NEW i \in 1 .. Len(Areas)
      PROVE  mem[Areas[i].at] = [size |-> Areas[i].size, bnext |-> NULL, bprev |-> NULL,
                                 fnext |-> NULL, fprev |-> NULL]
  <2>1. PICK p : p = Areas[i].at
    OBVIOUS
  <2>2. p \in Heads /\ p # HeadAt /\ (CHOOSE r \in rs : r.at = p) = Areas[i]
    BY <1>3, <2>1, StartsNotHead DEF Heads, Starts
  <2> QED
    BY <1>1, <2>1, <2>2
<1>6. \A p \in Heads : p = HeadAt \/ \E i \in 1 .. Len(Areas) : p = Areas[i].at
  BY DEF Heads, Starts
<1>7. ASSUME NEW p \in Heads
      PROVE  /\ mem[p] \in Node /\ ~ Used(mem[p].size)
             /\ \A q \in {mem[p].bnext, mem[p].bprev, mem[p].fnext, mem[p].fprev} :
                  q \in Heads \cup {NULL}
  <2>1. CASE p = HeadAt
    BY <1>4, <2>1, HeadFacts DEF Heads, Node, Used
  <2>2. ASSUME NEW i \in 1 .. Len(Areas), p = Areas[i].at
        PROVE  /\ mem[p] \in Node /\ ~ Used(mem[p].size)
               /\ \A q \in {mem[p].bnext, mem[p].bprev, mem[p].fnext, mem[p].fprev} :
                    q \in Heads \cup {NULL}
    <3>1. mem[p] = [size |-> Areas[i].size, bnext |-> NULL, bprev |-> NULL,
                    fnext |-> NULL, fprev |-> NULL]
      BY <1>5, <2>2
    <3>2. Areas[i].size \in Int /\ ~ Used(Areas[i].size)
      BY EachArea, GrainedMarks DEF Area, Grained
    <3> QED
      BY <3>1, <3>2 DEF Node, NULL
  <2> QED
    BY <1>6, <2>1, <2>2
<1>8. Headers(Heads, mem) /\ NoneUsed(Heads, mem) /\ Sized(mem) /\ Within(Heads, mem)
  <2>1. mem = [p \in Heads |-> mem[p]]
    BY DEF Init, Heads, Starts
  <2>2. Headers(Heads, mem)
    BY <1>7, <2>1 DEF Headers
  <2>3. NoneUsed(Heads, mem) /\ Within(Heads, mem)
    BY <1>7 DEF NoneUsed, Within
  <2>4. mem[HeadAt].size = 0
    BY <1>4
  <2>5. ASSUME NEW i \in 1 .. Len(Areas)
        PROVE  mem[Areas[i].at].size = Areas[i].size
    <3>1. mem[Areas[i].at] = [size |-> Areas[i].size, bnext |-> NULL, bprev |-> NULL,
                              fnext |-> NULL, fprev |-> NULL]
      BY <1>5
    <3> QED
      BY <3>1
  <2> QED
    BY <2>2, <2>3, <2>4, <2>5 DEF Sized
<1>9. PICK H : Indexed(H)
  BY IndexExists
<1>10. Placed(0) = {HeadAt}
  BY DEF Placed
<1>11. /\ Bnexts(Heads, mem)[HeadAt] = HeadAt /\ Bprevs(Heads, mem)[HeadAt] = HeadAt
       /\ Fnexts(Heads, mem)[HeadAt] = HeadAt /\ Fprevs(Heads, mem)[HeadAt] = HeadAt
  BY <1>4 DEF Bnexts, Bprevs, Fnexts, Fprevs, Heads
<1>12. \A nxt, prv : nxt[HeadAt] = HeadAt /\ prv[HeadAt] = HeadAt
                        => Ring({HeadAt}, HeadAt, H, nxt, prv)
  BY <1>9 DEF Ring, Indexed
<1>13. Linking(0, mem)
  BY <1>8, <1>9, <1>10, <1>11, <1>12 DEF Linking
<1>14. DOMAIN live = {} /\ call.ret = NULL /\ chain = 0 + 1 /\ halted = FALSE
  BY DEF Init
<1>15. 0 \in 0 .. Len(Areas)
  BY LenNat
<1> QED
  BY <1>13, <1>14, <1>15, Beginning DEF Inv

(* malloc_init.                                                            *)
LEMMA MallocInitInv ==
  ASSUME HeadClear, Inv, MallocInit
  PROVE  Inv' /\ DOMAIN live = {}
<1>1. chain <= Len(Areas) /\ UNCHANGED <<live, call, halted>> /\ chain' = chain + 1
  BY DEF MallocInit
<1>2. PICK k \in 0 .. Len(Areas) :
        chain = k + 1 /\ Linking(k, mem) /\ DOMAIN live = {} /\ call.ret = NULL /\ halted = FALSE
  BY <1>1 DEF Inv, Invariant
<1>3. PICK p, j : p = Areas[k + 1].at /\ j = k + 1
  OBVIOUS
<1>4. j \in 0 .. Len(Areas) /\ k + 1 \in 1 .. Len(Areas) /\ j = k + 1
  BY <1>1, <1>2, <1>3, LenNat
<1>5. mem' = FreeBlock(ListBlock(mem, p, mem[HeadAt].bnext), p)
  BY <1>2, <1>3 DEF MallocInit
<1>6. Linking(j, mem')
  BY <1>2, <1>3, <1>4, <1>5, LinkingStep
<1>7. chain' = j + 1 /\ DOMAIN live' = {} /\ call'.ret = NULL /\ halted' = FALSE
  BY <1>1, <1>2, <1>4
<1>8. Inv'
  BY <1>4, <1>6, <1>7, Beginning DEF Inv
<1> QED
  BY <1>2, <1>8

(* No call writes into an object that stays with its caller.               *)
Untouched ==
  \A p \in DOMAIN live \cap DOMAIN live' :
    live'[p] = live[p] =>
      /\ mem'[p - Header].fprev = UserData
      /\ mem'[p - Header].size = mem[p - Header].size
      /\ \A b \in DOMAIN mem' : ~ (p <= b /\ b < p + live[p])

(* The headers lie outside the objects, and fprev is the callers'.         *)
LEMMA ObjectsApart ==
  ASSUME NEW m, NEW l, HeapOK(m, l), NEW p \in DOMAIN l
  PROVE  /\ m[p - Header].fprev = UserData
         /\ \A b \in DOMAIN m : ~ (p <= b /\ b < p + l[p])
<1>1. PICK D, q : D = DOMAIN m /\ q = p - Header
  OBVIOUS
<1>2. Well(D, m) /\ Owned(D, m, l)
  BY <1>1 DEF HeapOK
<1>3. /\ q \in UsedIn(D, m) /\ p \in Int /\ l[p] \in Nat /\ p + l[p] <= EndsOf(D, m)[q]
      /\ q = p - 8
  BY <1>1, <1>2 DEF Owned, Header
<1>4. /\ q \in D /\ Used(m[q].size) /\ Shaped(D, m) /\ q # HeadAt
  <2>1. q \in D /\ Used(m[q].size) /\ Shaped(D, m)
    BY <1>2, <1>3 DEF UsedIn, Well
  <2>2. m[HeadAt].size = 0
    BY <2>1 DEF Shaped
  <2>3. ~ Used(0)
    BY DEF Used
  <2> QED
    BY <2>1, <2>2, <2>3
<1>5. m[q].fprev = UserData
  BY <1>4 DEF Shaped
<1>6. Tiles(Blocked(D), EndsOf(D, m), Bnexts(D, m)) /\ q \in Blocked(D)
  BY <1>4 DEF Shaped, Blocked
<1>7. EndsOf(D, m)[q] \in Int
  BY <1>6 DEF Tiles, Grained
<1>8. ASSUME NEW b \in D, p <= b, b < p + l[p]
      PROVE  FALSE
  <2>1. b \in Int /\ q < b /\ b < EndsOf(D, m)[q]
    <3>1. b \in Int
      BY <1>4, AllInt
    <3> QED
      BY <1>3, <1>7, <1>8, <3>1
  <2>2. CASE b = HeadAt
    <3>1. HeadAt < q \/ HeadAt > EndsOf(D, m)[q]
      BY <1>6 DEF Tiles
    <3> QED
      BY <1>3, <1>7, <2>1, <2>2, <3>1
  <2>3. CASE b # HeadAt
    <3>1. EndsOf(D, m)[q] <= b
      BY <1>6, <2>1, <2>3 DEF Tiles, Blocked
    <3> QED
      BY <1>7, <2>1, <3>1
  <2> QED
    BY <2>2, <2>3
<1> QED
  BY <1>1, <1>5, <1>8

(* What no call changes, seen from the objects of the callers.             *)
LEMMA KeepsUntouched ==
  ASSUME HeapOK(mem, live), HeapOK(mem', live'), Keeps(mem, mem')
  PROVE  Untouched
<1> SUFFICES ASSUME NEW p \in DOMAIN live \cap DOMAIN live', live'[p] = live[p]
             PROVE  /\ mem'[p - Header].fprev = UserData
                    /\ mem'[p - Header].size = mem[p - Header].size
                    /\ \A b \in DOMAIN mem' : ~ (p <= b /\ b < p + live[p])
  BY DEF Untouched
<1>1. /\ mem'[p - Header].fprev = UserData
      /\ \A b \in DOMAIN mem' : ~ (p <= b /\ b < p + live'[p])
  BY ObjectsApart
<1>2. p - Header \in UsedIn(DOMAIN mem, mem) /\ p - Header \in UsedIn(DOMAIN mem', mem')
  BY DEF HeapOK, Owned
<1> QED
  BY <1>1, <1>2 DEF Keeps

(* What a call does, whatever it is, when the heap is in use.              *)
Safe == Inv' /\ Untouched

(* Calls that return NULL change nothing.                                  *)
LEMMA NothingDone ==
  ASSUME Inv, Ready, UNCHANGED <<mem, live, chain, halted>>, call'.ret = NULL
  PROVE  Safe
<1>1. HeapOK(mem, live) /\ (AreasApart => Tidy(DOMAIN mem, mem)) /\ chain > Len(Areas)
      /\ halted = FALSE /\ chain \in 1 .. Len(Areas) + 1
  BY DEF Inv, Invariant, Ready
<1>2. Keeps(mem, mem')
  BY DEF Keeps
<1>3. Untouched
  BY <1>1, <1>2, KeepsUntouched
<1>4. Inv'
  BY <1>1, Running DEF Inv
<1> QED
  BY <1>3, <1>4 DEF Safe

(* malloc and calloc keep the invariant and leave the objects alone.       *)
LEMMA AllocateSafe ==
  ASSUME Inv, NEW fn, NEW sz \in Nat, sz + Header + 3 <= MaxWord,
         NEW want \in Nat, want <= sz, Allocate(fn, sz, want)
  PROVE  Safe
<1>1. PICK b : b = Candidate(mem, sz)
  OBVIOUS
<1>2. /\ Ready /\ UNCHANGED <<chain, halted>>
      /\ IF b = HeadAt
         THEN Called(fn, NULL, sz, NULL) /\ UNCHANGED <<mem, live>>
         ELSE /\ mem' = TakeBlock(mem, b, RoundUp(sz))
              /\ live' = With(live, b + Header, want)
              /\ Called(fn, NULL, sz, b + Header)
  BY <1>1 DEF Allocate
<1>3. HeapOK(mem, live) /\ (AreasApart => Tidy(DOMAIN mem, mem)) /\ chain > Len(Areas)
      /\ halted = FALSE /\ chain \in 1 .. Len(Areas) + 1
  BY <1>2 DEF Inv, Invariant, Ready
<1>4. CASE b = HeadAt
  <2>1. call'.ret = NULL
    BY <1>2, <1>4 DEF Called
  <2> QED
    BY <1>2, <1>4, <2>1, NothingDone
<1>5. CASE b # HeadAt
  <2>1. /\ HeapOK(mem', live') /\ Keeps(mem, mem')
        /\ b \in DOMAIN mem' \ {HeadAt}
        /\ Tidy(DOMAIN mem, mem) => Tidy(DOMAIN mem', mem')
    BY <1>1, <1>2, <1>3, <1>5, HeapTakes
  <2>2. call'.ret = b + Header
    BY <1>2, <1>5 DEF Called
  <2>3. call'.ret \in {NULL} \cup {p + Header : p \in DOMAIN mem' \ {HeadAt}}
    BY <2>1, <2>2
  <2>4. Untouched
    BY <1>3, <2>1, KeepsUntouched
  <2>5. AreasApart => Tidy(DOMAIN mem', mem')
    BY <1>3, <2>1
  <2>6. chain' \in 1 .. Len(Areas) + 1 /\ chain' > Len(Areas) /\ halted' = FALSE
    BY <1>2, <1>3
  <2>7. Inv'
    BY <2>1, <2>3, <2>5, <2>6, Running DEF Inv
  <2> QED
    BY <2>4, <2>7 DEF Safe
<1> QED
  BY <1>4, <1>5

(* A block whose header free finds intact is an object of the caller.      *)
LEMMA CheckedOwned ==
  ASSUME NEW m, NEW l, HeapOK(m, l), NEW b \in DOMAIN m \ {HeadAt},
         NEW ptr, ptr = b + Header
  PROVE  /\ ptr - Header = b
         /\ CheckedSize(m, ptr - Header) # 0 <=> b \in UsedIn(DOMAIN m, m)
         /\ b \in UsedIn(DOMAIN m, m) <=> ptr \in DOMAIN l
<1>1. PICK D : D = DOMAIN m
  OBVIOUS
<1>2. Well(D, m) /\ Owned(D, m, l) /\ b \in D \ {HeadAt}
  BY <1>1 DEF HeapOK
<1>3. b \in Int
  BY <1>2, AllInt DEF Well
<1>4. CheckedSize(m, b) = IF Used(m[b].size) THEN Unmarked(m[b].size) ELSE 0
  BY <1>2, CheckedSizes
<1>5. Unmarked(m[b].size) # 0
  <2>1. Unmarked(m[b].size) \in Int /\ 0 < Unmarked(m[b].size)
    BY <1>2, EachBlock DEF Well
  <2> QED
    BY <2>1
<1>6. CheckedSize(m, b) # 0 <=> b \in UsedIn(D, m)
  BY <1>2, <1>4, <1>5 DEF UsedIn
<1>7. ptr - Header = b
  BY <1>3 DEF Header
<1>8. b \in UsedIn(D, m) <=> ptr \in DOMAIN l
  <2>1. \A p \in DOMAIN l : p - Header = b <=> p = ptr
    BY <1>2, <1>3 DEF Owned, Header
  <2> QED
    BY <1>2, <1>7, <2>1 DEF Owned
<1> QED
  BY <1>1, <1>6, <1>7, <1>8

(* So does free.                                                           *)
LEMMA FreeSafe ==
  ASSUME Inv, NEW b \in DOMAIN mem \ {HeadAt}, FreeCall(b + Header)
  PROVE  Safe
<1>1. PICK ptr : ptr = b + Header
  OBVIOUS
<1>2. HeapOK(mem, live) /\ (AreasApart => Tidy(DOMAIN mem, mem)) /\ chain > Len(Areas)
      /\ halted = FALSE /\ chain \in 1 .. Len(Areas) + 1
  BY DEF Inv, Invariant, Ready, FreeCall
<1>3. /\ CheckedSize(mem, ptr - Header) # 0 /\ mem' = Freed(mem, ptr - Header)
      /\ live' = Without(live, ptr) /\ UNCHANGED <<chain, halted>> /\ call'.ret = NULL
  BY <1>1 DEF FreeCall, Called
<1>4. ptr - Header = b /\ ptr \in DOMAIN live
  BY <1>1, <1>2, <1>3, CheckedOwned
<1>5. /\ HeapOK(mem', live') /\ Keeps(mem, mem')
      /\ AreasApart /\ Tidy(DOMAIN mem, mem) => Tidy(DOMAIN mem', mem')
  BY <1>2, <1>3, <1>4, HeapFrees
<1>6. Untouched
  BY <1>2, <1>5, KeepsUntouched
<1>7. chain' \in 1 .. Len(Areas) + 1 /\ chain' > Len(Areas) /\ halted' = FALSE
      /\ call'.ret \in {NULL} \cup {p + Header : p \in DOMAIN mem' \ {HeadAt}}
      /\ (AreasApart => Tidy(DOMAIN mem', mem'))
  BY <1>2, <1>3, <1>5
<1>8. Inv'
  BY <1>5, <1>7, Running DEF Inv
<1> QED
  BY <1>6, <1>8 DEF Safe

(* free stops the program only for what the caller does not own.           *)
LEMMA HaltSafe ==
  ASSUME Inv, NEW b \in DOMAIN mem \ {HeadAt}, FreeHalts(b + Header)
  PROVE  Safe
<1>1. PICK ptr : ptr = b + Header
  OBVIOUS
<1>2. /\ HeapOK(mem, live) /\ MemTyped(DOMAIN mem, mem) /\ LiveTyped(DOMAIN mem, live)
      /\ chain > Len(Areas) /\ chain \in 1 .. Len(Areas) + 1
  BY DEF Inv, Invariant, Ready, FreeHalts
<1>3. /\ CheckedSize(mem, ptr - Header) = 0 /\ mem' = [mem EXCEPT ![ptr - Header].size = 0]
      /\ halted' = TRUE /\ UNCHANGED <<chain, live>>
      /\ call'.ret = NULL /\ call'.ptr = ptr
  BY <1>1 DEF FreeHalts, Called
<1>4. ptr - Header = b /\ ptr \notin DOMAIN live /\ b \notin UsedIn(DOMAIN mem, mem)
  BY <1>1, <1>2, <1>3, CheckedOwned
<1>5. PICK D : D = DOMAIN mem
  OBVIOUS
<1>6. DOMAIN mem' = D /\ Headers(D, mem) /\ SizeSet(D, mem, b, 0, mem')
  <2>1. Headers(D, mem)
    BY <1>2, <1>5 DEF HeapOK, Well, Shaped
  <2>2. mem' = SetSize(mem, b, 0)
    BY <1>3, <1>4 DEF SetSize
  <2> QED
    BY <1>5, <2>1, <2>2, SetSizeSets DEF Field, Headers
<1>7. MemTyped(D, mem')
  <2>1. 0 \in 0 .. MaxWord
    <3>1. MaxWord \in Int /\ 0 <= MaxWord
      BY WordFact
    <3> QED
      BY <3>1
  <2> QED
    BY <1>2, <1>5, <1>6, <2>1 DEF MemTyped, SizeSet
<1>8. \A p \in DOMAIN live : p - Header \in D /\ p - Header # b
  <2>1. UsedIn(DOMAIN mem, mem) = {p - Header : p \in DOMAIN live}
    BY <1>2 DEF HeapOK, Owned
  <2> QED
    BY <1>4, <1>5, <2>1 DEF UsedIn
<1>9. Untouched
  <2> SUFFICES ASSUME NEW p \in DOMAIN live
               PROVE  /\ mem'[p - Header].fprev = UserData
                      /\ mem'[p - Header].size = mem[p - Header].size
                      /\ \A c \in DOMAIN mem' : ~ (p <= c /\ c < p + live[p])
    BY <1>3 DEF Untouched
  <2>1. /\ mem[p - Header].fprev = UserData
        /\ \A c \in DOMAIN mem : ~ (p <= c /\ c < p + live[p])
    BY <1>2, ObjectsApart
  <2> QED
    BY <1>5, <1>6, <1>8, <2>1 DEF SizeSet
<1>10. Inv'
  <2>1. ~ (chain' <= Len(Areas)) /\ chain' \in 1 .. Len(Areas) + 1
    BY <1>2, <1>3, LenNat
  <2>2. LiveTyped(DOMAIN mem', live')
    BY <1>2, <1>3, <1>5, <1>6
  <2> QED
    BY <1>3, <1>4, <1>6, <1>7, <2>1, <2>2 DEF Inv, Invariant
<1> QED
  BY <1>9, <1>10 DEF Safe

(* realloc: the object moves, unless malloc finds no place for it.         *)
LEMMA ReallocSafe ==
  ASSUME Inv, RequestsFit, NEW ptr \in DOMAIN live, NEW nsz \in Requests,
         ReallocCall(ptr, nsz)
  PROVE  Safe
<1>1. PICK b, old : b = Candidate(mem, nsz) /\ old = ptr - Header
  OBVIOUS
<1>2. /\ HeapOK(mem, live) /\ (AreasApart => Tidy(DOMAIN mem, mem)) /\ chain > Len(Areas)
      /\ halted = FALSE /\ chain \in 1 .. Len(Areas) + 1 /\ Ready
  BY DEF Inv, Invariant, Ready, ReallocCall
<1>3. /\ UNCHANGED <<chain, halted>>
      /\ IF b = HeadAt
         THEN Called("realloc", ptr, nsz, NULL) /\ UNCHANGED <<mem, live>>
         ELSE /\ mem' = Freed(TakeBlock(mem, b, RoundUp(nsz)), old)
              /\ live' = With(Without(live, ptr), b + Header, nsz)
              /\ Called("realloc", ptr, nsz, b + Header)
  BY <1>1 DEF ReallocCall
<1>4. nsz \in Nat /\ nsz + Header + 3 <= MaxWord
  <2>1. Requests \subseteq 0 .. MaxWord
    BY Zenon, MallocAssumption
  <2>2. nsz \in 0 .. MaxWord
    BY <2>1
  <2> QED
    BY <2>2 DEF RequestsFit
<1>5. CASE b = HeadAt
  <2>1. call'.ret = NULL
    BY <1>3, <1>5 DEF Called
  <2> QED
    BY <1>2, <1>3, <1>5, <2>1, NothingDone
<1>6. CASE b # HeadAt
  <2>1. PICK m1, l1, q : /\ m1 = TakeBlock(mem, b, RoundUp(nsz))
                         /\ q = b + Header /\ l1 = With(live, q, nsz)
    OBVIOUS
  <2>2. nsz <= nsz
    BY <1>4
  <2>3. /\ HeapOK(m1, l1) /\ Keeps(mem, m1) /\ q \notin DOMAIN live
        /\ UsedIn(DOMAIN mem, mem) \subseteq UsedIn(DOMAIN m1, m1)
        /\ Tidy(DOMAIN mem, mem) => Tidy(DOMAIN m1, m1)
    BY <1>1, <1>2, <1>4, <1>6, <2>1, <2>2, HeapTakes
  <2>4. ptr \in DOMAIN l1 /\ mem' = Freed(m1, ptr - Header)
    BY <1>1, <1>3, <1>6, <2>1 DEF With
  <2>5. live' = Without(l1, ptr)
    <3>1. ptr # q
      BY <2>3
    <3> QED
      BY <1>3, <1>6, <2>1, <3>1 DEF With, Without
  <2>6. /\ HeapOK(mem', live') /\ Keeps(m1, mem')
        /\ AreasApart /\ Tidy(DOMAIN m1, m1) => Tidy(DOMAIN mem', mem')
    BY <2>3, <2>4, <2>5, HeapFrees
  <2>7. Keeps(mem, mem')
    BY <2>3, <2>6 DEF Keeps
  <2>8. Untouched
    BY <1>2, <2>6, <2>7, KeepsUntouched
  <2>9. call'.ret = q /\ q \in DOMAIN live'
    BY <1>3, <1>6, <2>1 DEF Called, With
  <2>10. call'.ret \in {p + Header : p \in DOMAIN mem' \ {HeadAt}}
    <3>1. LiveTyped(DOMAIN mem', live') /\ q \in Int
      BY <2>6, <2>9, OwnedTyped DEF HeapOK, Owned
    <3>2. q - Header \in DOMAIN mem' \ {HeadAt} /\ q = (q - Header) + Header
      BY <2>9, <3>1 DEF LiveTyped, Header
    <3> QED
      BY <2>9, <3>2
  <2>11. chain' \in 1 .. Len(Areas) + 1 /\ chain' > Len(Areas) /\ halted' = FALSE
         /\ call'.ret \in {NULL} \cup {p + Header : p \in DOMAIN mem' \ {HeadAt}}
         /\ (AreasApart => Tidy(DOMAIN mem', mem'))
    BY <1>2, <1>3, <2>3, <2>6, <2>10
  <2>12. Inv'
    BY <2>6, <2>11, Running DEF Inv
  <2> QED
    BY <2>8, <2>12 DEF Safe
<1> QED
  BY <1>5, <1>6

(* So does every step.                                                     *)
LEMMA NextSafe ==
  ASSUME HeadClear, RequestsFit, Inv, [Next]_vars
  PROVE  Inv' /\ (Untouched \/ UNCHANGED vars)
<1>1. CASE MallocInit
  BY <1>1, MallocInitInv DEF Untouched
<1>2. ASSUME NEW sz \in Requests, MallocCall(sz)
      PROVE  Safe
  <2>1. sz \in Nat /\ sz + Header + 3 <= MaxWord /\ sz <= sz
    <3>1. Requests \subseteq 0 .. MaxWord
      BY Zenon, MallocAssumption
    <3>2. sz \in 0 .. MaxWord
      BY <3>1
    <3> QED
      BY <3>2 DEF RequestsFit
  <2> QED
    BY <1>2, <2>1, AllocateSafe DEF MallocCall
<1>3. ASSUME NEW a \in Arrays, CallocCall(a[1], a[2])
      PROVE  Safe
  <2>1. a[1] \in Nat /\ a[2] \in Nat
    <3>1. Arrays \subseteq (0 .. MaxWord) \X (0 .. MaxWord)
      BY Zenon, MallocAssumption
    <3>2. MaxWord \in Int
      BY WordFact
    <3> QED
      BY <3>1, <3>2
  <2>2. PICK q : q = a[1] * a[2]
    OBVIOUS
  <2>3. q \in Nat /\ q + Header + 3 <= MaxWord
    BY <2>1, <2>2 DEF RequestsFit
  <2>4. q % 65536 = q
    BY <2>3, WordFact DEF Header
  <2>5. Allocate("calloc", q, q) /\ q <= q
    BY <1>3, <2>2, <2>3, <2>4 DEF CallocCall
  <2> QED
    BY <2>3, <2>5, AllocateSafe
<1>4. ASSUME NEW b \in DOMAIN mem \ {HeadAt}, ReallocRejects(b + Header)
      PROVE  Safe
  BY <1>4, NothingDone DEF ReallocRejects, Called
<1>5. CASE UNCHANGED vars
  BY <1>5 DEF vars, Inv
<1> QED
  BY <1>1, <1>2, <1>3, <1>4, <1>5, ReallocSafe, FreeSafe, HaltSafe DEF Next, Safe

-----------------------------------------------------------------------------
(* The order in which the block list is walked.                            *)
LEMMA BlockOrderWalks ==
  ASSUME NEW D, D = DOMAIN mem, NEW h, Lists(D, Free(D, mem), mem, h)
  PROVE  \E g : /\ Walk(Bnexts(D, mem), HeadAt, g) /\ \A n \in Nat : g[n] \in D
                /\ \A n \in 0 .. Cardinality(Blocks) + 1 : BlockOrder[n] = g[n]
<1> DEFINE Walks(g) == g = [n \in Nat |-> IF n = 0 THEN HeadAt ELSE mem[g[n - 1]].bnext]
           order == CHOOSE g : Walks(g)
           nxt == Bnexts(D, mem)
<1>1. /\ HeadAt \in D /\ \A p \in D : mem[p].bnext \in D /\ nxt[p] = mem[p].bnext
  BY ListsCircular DEF Lists, Circular, Bnexts
<1> HIDE DEF nxt
<1>2. PICK f : Iterates(nxt, HeadAt, f)
  BY IterationExists
<1>3. f[0] = HeadAt /\ \A n \in Nat : f[n + 1] = nxt[f[n]]
  BY <1>2 DEF Iterates
<1>4. \A n \in Nat : f[n] \in D
  <2> DEFINE T == {n \in Nat : f[n] \in D}
  <2>1. 0 \in T /\ \A n \in Nat : n \in T => n + 1 \in T
    BY <1>1, <1>3
  <2> HIDE DEF T
  <2>2. Nat \subseteq T
    BY <2>1, NatInd
  <2> QED
    BY <2>2 DEF T
<1>5. Walks(f)
  <2>1. \A n \in Nat \ {0} : nxt[f[n - 1]] = mem[f[n - 1]].bnext
    BY <1>1, <1>4
  <2>2. [n \in Nat |-> IF n = 0 THEN HeadAt ELSE nxt[f[n - 1]]]
        = [n \in Nat |-> IF n = 0 THEN HeadAt ELSE mem[f[n - 1]].bnext]
    BY <2>1
  <2> QED
    BY <1>2, <2>2 DEF Iterates
<1>6. Walks(order)
  BY <1>5
<1>7. \A n \in 0 .. Cardinality(Blocks) + 1 : BlockOrder[n] = order[n]
  BY DEF BlockOrder
<1> HIDE DEF order
<1>8. order[0] = HeadAt /\ \A n \in Nat : order[n + 1] = mem[order[n]].bnext
  BY <1>6
<1>9. \A n \in Nat : order[n] \in D
  <2> DEFINE T == {n \in Nat : order[n] \in D}
  <2>1. 0 \in T /\ \A n \in Nat : n \in T => n + 1 \in T
    BY <1>1, <1>8
  <2> HIDE DEF T
  <2>2. Nat \subseteq T
    BY <2>1, NatInd
  <2> QED
    BY <2>2 DEF T
<1>10. Walk(nxt, HeadAt, order)
  BY <1>1, <1>8, <1>9 DEF Walk
<1> QED
  BY <1>7, <1>9, <1>10 DEF nxt

(* The walk from head in a well formed heap: the order that ListsAgree is  *)
(* about.                                                                  *)
LEMMA WellAgrees ==
  ASSUME NEW D, D = DOMAIN mem, Well(D, mem)
  PROVE  LET order == BlockOrder
             last == Cardinality(Blocks) + 1
             free(i) == ~ Used(mem[order[i]].size)
             follows(i, j) == /\ i < j /\ free(i) /\ free(j)
                              /\ \A k \in i + 1 .. j - 1 : ~ free(k)
         IN  /\ {order[i] : i \in 1 .. last - 1} = Blocks
             /\ order[last] = HeadAt
             /\ \A i \in 1 .. last : mem[order[i]].bprev = order[i - 1]
             /\ \A i, j \in 0 .. last : follows(i, j) =>
                  mem[order[i]].fnext = order[j] /\ mem[order[j]].fprev = order[i]
<1>1. PICK h : Lists(D, Free(D, mem), mem, h)
  BY DEF Well
<1>2. /\ Heights(D, HeadAt, h) /\ Ring(D, HeadAt, h, Bnexts(D, mem), Bprevs(D, mem))
      /\ Ring(Free(D, mem), HeadAt, h, Fnexts(D, mem), Fprevs(D, mem))
      /\ Free(D, mem) \subseteq D /\ HeadAt \in Free(D, mem)
  BY <1>1 DEF Lists
<1>3. IsFiniteSet(D)
  <2>1. MaxWord \in Int
    BY WordFact
  <2>2. D \subseteq 1 .. MaxWord
    <3>1. D \subseteq Int /\ \A p \in D : 0 < p /\ p <= MaxWord
      BY AllInt DEF Well
    <3> QED
      BY <2>1, <3>1
  <2>3. IsFiniteSet(1 .. MaxWord)
    BY <2>1, FS_Interval
  <2> QED
    BY <2>2, <2>3, FS_Subset
<1>4. PICK g : /\ Walk(Bnexts(D, mem), HeadAt, g) /\ \A n \in Nat : g[n] \in D
               /\ \A n \in 0 .. Cardinality(Blocks) + 1 : BlockOrder[n] = g[n]
  BY <1>1, BlockOrderWalks
<1>5. PICK N : N = Cardinality(D \ {HeadAt})
  OBVIOUS
<1>6. /\ N \in Nat /\ {g[n] : n \in 1 .. N} = D \ {HeadAt} /\ g[N + 1] = HeadAt
      /\ Visits(D, HeadAt, h, g, N)
  <2>1. Heights(D, HeadAt, h) /\ Ring(D, HeadAt, h, Bnexts(D, mem), Bprevs(D, mem))
        /\ Walk(Bnexts(D, mem), HeadAt, g)
    BY <1>2, <1>4
  <2>2. N \in Nat /\ Visits(D, HeadAt, h, g, N)
    BY <1>3, <1>5, <2>1, WalkVisits
  <2> QED
    BY <2>2 DEF Visits
<1>7. Blocks = D \ {HeadAt} /\ Cardinality(Blocks) = N
  BY <1>5 DEF Blocks
<1>9. \A n \in 0 .. N + 1 : BlockOrder[n] = g[n]
  BY <1>4, <1>7
<1> DEFINE order == BlockOrder
           last == Cardinality(Blocks) + 1
           free(i) == ~ Used(mem[order[i]].size)
           follows(i, j) == /\ i < j /\ free(i) /\ free(j)
                            /\ \A k \in i + 1 .. j - 1 : ~ free(k)
<1>10. {order[i] : i \in 1 .. last - 1} = Blocks /\ order[last] = HeadAt
  <2>1. last = N + 1 /\ last - 1 = N
    BY <1>6, <1>7
  <2> HIDE DEF last
  <2>2. \A i \in 1 .. N : order[i] = g[i]
    BY <1>6, <1>9
  <2>3. order[N + 1] = g[N + 1]
    BY <1>6, <1>9
  <2> HIDE DEF order
  <2> QED
    BY <1>6, <1>7, <2>1, <2>2, <2>3
<1>11. ASSUME NEW i \in 1 .. last
       PROVE  mem[order[i]].bprev = order[i - 1]
  <2>1. i \in 1 .. N + 1 /\ i - 1 \in 0 .. N + 1 /\ i - 1 \in Nat
    BY <1>6, <1>7
  <2>2. order[i] = g[i] /\ order[i - 1] = g[i - 1]
    BY <1>9, <2>1
  <2>3. PICK p : p = g[i - 1]
    OBVIOUS
  <2>4. p \in D /\ g[i] = Bnexts(D, mem)[p]
    <3>1. g[(i - 1) + 1] = Bnexts(D, mem)[g[i - 1]] /\ g[i - 1] \in D
      BY <1>4, <2>1 DEF Walk
    <3>2. (i - 1) + 1 = i
      BY <2>1
    <3> QED
      BY <2>3, <3>1, <3>2
  <2>5. Bprevs(D, mem)[g[i]] = p /\ g[i] \in D
    BY <1>2, <2>4 DEF Ring
  <2> QED
    BY <2>2, <2>3, <2>5 DEF Bprevs
<1>12. ASSUME NEW i \in 0 .. last, NEW j \in 0 .. last, follows(i, j)
       PROVE  mem[order[i]].fnext = order[j] /\ mem[order[j]].fprev = order[i]
  <2>1. i \in 0 .. N + 1 /\ j \in 0 .. N + 1
    BY <1>7
  <2>2. order[i] = g[i] /\ order[j] = g[j] /\ g[i] \in D /\ g[j] \in D
    BY <1>4, <1>6, <1>9, <2>1
  <2>3. g[i] \in Free(D, mem) /\ g[j] \in Free(D, mem) /\ i < j
    BY <1>12, <2>2 DEF Free
  <2>4. Skipped(g, Free(D, mem), i, j)
    <3> SUFFICES ASSUME NEW k \in i + 1 .. j - 1
                 PROVE  Used(mem[g[k]].size)
      BY DEF Free, Skipped
    <3>1. k \in 0 .. N + 1
      BY <1>6, <2>1
    <3>2. order[k] = g[k]
      BY <1>9, <3>1
    <3> QED
      BY <1>12, <3>2
  <2>5. Fnexts(D, mem)[g[i]] = g[j] /\ Fprevs(D, mem)[g[j]] = g[i]
    <3> HIDE DEF follows
    <3> QED
      BY <1>2, <1>6, <2>1, <2>3, <2>4, SublistOrder
  <2> QED
    BY <2>2, <2>5 DEF Fnexts, Fprevs
<1> QED
  BY <1>10, <1>11, <1>12

-----------------------------------------------------------------------------
(* What the inductive invariant means for the properties of Malloc.        *)
LEMMA InvTypeOK == Inv => TypeOK
BY DEF Inv, Invariant, MemTyped, LiveTyped, TypeOK, Blocks

(* The lists agree,                                                        *)
LEMMA InvListsAgree == Inv => ListsAgree
<1> SUFFICES ASSUME Inv
             PROVE  ListsAgree
  OBVIOUS
<1>1. TypeOK
  BY InvTypeOK
<1>2. ASSUME Ready
      PROVE  Well(DOMAIN mem, mem)
  BY <1>2 DEF Inv, Invariant, Ready, HeapOK
<1> QED
  BY <1>1, <1>2, WellAgrees DEF ListsAgree

(* objects are inside their blocks,                                        *)
LEMMA InvPayloadFits == Inv => PayloadFits
<1> SUFFICES ASSUME Inv, ~ halted, NEW p \in DOMAIN live
             PROVE  p + live[p] <= End(p - Header)
  BY DEF PayloadFits
<1>1. HeapOK(mem, live)
  <2>1. ~ (chain <= Len(Areas))
    BY DEF Inv, Invariant
  <2>2. chain > Len(Areas)
    BY <2>1, LenNat DEF Inv, Invariant
  <2> QED
    BY <2>2 DEF Inv, Invariant
<1>2. p - Header \in DOMAIN mem /\ p + live[p] <= EndsOf(DOMAIN mem, mem)[p - Header]
  BY <1>1 DEF HeapOK, Owned, UsedIn
<1> QED
  BY <1>2 DEF EndsOf, End

(* the used blocks are those of the callers,                               *)
LEMMA InvUsedIffOwned == Inv => UsedIffOwned
<1> SUFFICES ASSUME Inv, ~ halted
             PROVE  UsedBlocks = {p - Header : p \in DOMAIN live}
  BY DEF UsedIffOwned, Inv, Invariant
<1>1. CASE chain <= Len(Areas)
  <2>1. PICK k \in 0 .. Len(Areas) : Linking(k, mem) /\ DOMAIN live = {}
    BY <1>1 DEF Inv, Invariant
  <2>2. \A b \in DOMAIN mem : ~ Used(mem[b].size)
    BY <2>1 DEF Linking, NoneUsed, Headers
  <2> QED
    BY <2>1, <2>2 DEF UsedBlocks, Blocks
<1>2. CASE ~ (chain <= Len(Areas))
  <2>1. chain > Len(Areas)
    BY <1>2, LenNat DEF Inv, Invariant
  <2>2. HeapOK(mem, live)
    BY <2>1 DEF Inv, Invariant
  <2>3. ~ Used(mem[HeadAt].size)
    BY <2>2 DEF HeapOK, Well, Shaped, Used
  <2> QED
    BY <2>2, <2>3 DEF HeapOK, Owned, UsedIn, UsedBlocks, Blocks
<1> QED
  BY <1>1, <1>2

(* and the blocks tile the areas.                                          *)
LEMMA InvTiled == AreasApart /\ Inv => Tiled
<1> SUFFICES ASSUME AreasApart, Inv, Ready
             PROVE  LET starts == {Areas[i].at : i \in 1 .. Len(Areas)}
                        ends == {Areas[i].at + Areas[i].size : i \in 1 .. Len(Areas)}
                    IN  /\ \A b \in Blocks : End(b) > b /\ End(b) \in Blocks \cup ends
                        /\ \A b \in Blocks :
                             b \in starts \/ \E c \in Blocks : c < b /\ End(c) = b
                        /\ \A b, c \in Blocks : b < c => End(b) <= c
                        /\ \A a \in starts : \E b \in Blocks : b <= a /\ a < End(b)
                        /\ \A b, c \in FreeBlocks : End(b) # c
  BY DEF Tiled
<1>1. PICK D : D = DOMAIN mem
  OBVIOUS
<1>2. Well(D, mem) /\ Tidy(D, mem)
  BY <1>1 DEF Inv, Invariant, Ready, HeapOK
<1>3. Tiles(Blocked(D), EndsOf(D, mem), Bnexts(D, mem)) /\ Shaped(D, mem)
  BY <1>2 DEF Well, Shaped
<1>4. Blocks = Blocked(D) /\ \A b \in Blocks : End(b) = EndsOf(D, mem)[b]
  BY <1>1 DEF Blocks, Blocked, End, EndsOf
<1>5. \A b \in Blocks : b \in Int /\ End(b) \in Int /\ b < End(b)
  BY <1>3, <1>4 DEF Tiles, Grained
<1>6. ASSUME NEW b \in Blocks
      PROVE  End(b) > b /\ End(b) \in Blocks \cup AreaEnds
  <2>1. End(b) \in AreaEnds \/ End(b) = mem[b].bnext
    BY <1>3, <1>4 DEF Tiles, Bnexts, Blocked
  <2>2. mem[b].bnext \in D
    <3>1. PICK h : Lists(D, Free(D, mem), mem, h)
      BY <1>2 DEF Well
    <3> QED
      BY <1>4, <3>1, ListsCircular DEF Circular, Blocked
  <2>3. End(b) # HeadAt
    BY <1>3, <1>4, <1>5, HeadFacts DEF Tiles
  <2> QED
    BY <1>4, <1>5, <2>1, <2>2, <2>3 DEF Blocked
<1>7. ASSUME NEW b \in Blocks
      PROVE  b \in Starts \/ \E c \in Blocks : c < b /\ End(c) = b
  BY <1>3, <1>4, <1>5 DEF Tiles
<1>8. \A b, c \in Blocks : b < c => End(b) <= c
  BY <1>3, <1>4 DEF Tiles
<1>9. \A a \in Starts : \E b \in Blocks : b <= a /\ a < End(b)
  BY <1>3, <1>4 DEF Tiles
<1>10. ASSUME NEW b \in FreeBlocks, NEW c \in FreeBlocks, End(b) = c
       PROVE  FALSE
  <2>1. b \in D /\ c \in D /\ Touching(D, mem, b, c)
    BY <1>4, <1>10 DEF FreeBlocks, Blocked, Touching, Free
  <2> QED
    BY <1>2, <2>1 DEF Tidy, NoTouch
<1> QED
  BY <1>6, <1>7, <1>8, <1>9, <1>10 DEF Starts, AreaEnds

(* The invariant is inductive.                                             *)
THEOREM InvHolds ==
  ASSUME HeadClear, RequestsFit
  PROVE  Spec => []Inv
<1>1. Init => Inv
  BY InitInv
<1>2. Inv /\ [Next]_vars => Inv'
  BY NextSafe
<1> QED
  BY <1>1, <1>2, PTL DEF Spec

(* Every field and every result has a value that it may have: no call      *)
(* follows a link that is not one.                                         *)
THEOREM HeapTypeOK ==
  ASSUME HeadClear, RequestsFit
  PROVE  Spec => []TypeOK
BY InvHolds, InvTypeOK, PTL

(* The two lists of the heap always agree.                                 *)
THEOREM HeapListsAgree ==
  ASSUME HeadClear, RequestsFit
  PROVE  Spec => []ListsAgree
BY InvHolds, InvListsAgree, PTL

(* The blocks always tile the areas and no two free blocks touch, when the *)
(* areas do not touch.                                                     *)
THEOREM HeapTiled ==
  ASSUME HeadClear, RequestsFit, AreasApart
  PROVE  Spec => []Tiled
BY InvHolds, InvTiled, PTL

(* The bytes that a caller asked for always lie inside its block.          *)
THEOREM HeapPayloadFits ==
  ASSUME HeadClear, RequestsFit
  PROVE  Spec => []PayloadFits
BY InvHolds, InvPayloadFits, PTL

(* The used blocks are always those that the callers own.                  *)
THEOREM HeapUsedIffOwned ==
  ASSUME HeadClear, RequestsFit
  PROVE  Spec => []UsedIffOwned
BY InvHolds, InvUsedIffOwned, PTL

(* No call ever writes into an object that stays with its caller.          *)
THEOREM HeapObjectsUntouched ==
  ASSUME HeadClear, RequestsFit
  PROVE  Spec => ObjectsUntouched
<1>1. Inv /\ [Next]_vars => [Untouched]_vars
  BY NextSafe
<1>2. Spec => []Inv
  BY InvHolds
<1>3. Spec => [][Untouched]_vars
  BY <1>1, <1>2, PTL DEF Spec
<1> QED
  BY <1>3 DEF ObjectsUntouched, Untouched

-----------------------------------------------------------------------------
(* The refinement of HeapSpec.  A run of bytes of one area that meets no   *)
(* used block lies in one free block: none are left split.                 *)
Clear(D, m, a, n) == \A b \in UsedIn(D, m) : a + n <= b \/ EndsOf(D, m)[b] <= a

(* A block that ends where an area does is in that area.                   *)
LEMMA AreaOfEnd ==
  ASSUME AreasApart, NEW i \in 1 .. Len(Areas), NEW j \in 1 .. Len(Areas),
         NEW c \in Int, NEW e \in Int, Areas[j].at <= c, c < e, e <= Areas[j].at + Areas[j].size,
         e = Areas[i].at + Areas[i].size
  PROVE  i = j
<1>1. Area(i) /\ Area(j)
  BY EachArea
<1>2. i # j => \/ Areas[i].at + Areas[i].size < Areas[j].at
               \/ Areas[j].at + Areas[j].size < Areas[i].at
  BY DEF AreasApart
<1> QED
  BY <1>1, <1>2 DEF Area

(* A run of bytes of one area that meets no used block lies in one free    *)
(* block: none are left split.                                             *)
LEMMA Covered ==
  ASSUME AreasApart, NEW D, NEW m, Well(D, m), Tidy(D, m), NEW i \in 1 .. Len(Areas),
         NEW a \in Int, NEW n \in Int, n > 0,
         Areas[i].at <= a, a + n <= Areas[i].at + Areas[i].size, Clear(D, m, a, n)
  PROVE  \E c \in Free(D, m) \ {HeadAt} : c <= a /\ a + n <= EndsOf(D, m)[c]
<1>1. PICK B, e : B = Blocked(D) /\ e = EndsOf(D, m)
  OBVIOUS
<1>2. Shaped(D, m) /\ Held(D, m) /\ NoTouch(D, m)
  BY DEF Well, Tidy
<1>3. Tiles(B, e, Bnexts(D, m))
  BY <1>1, <1>2 DEF Shaped
<1>4. /\ \A b \in B : b \in Int /\ e[b] \in Int /\ b < e[b] /\ 0 < b
      /\ \A b, c \in B : b < c => e[b] <= c
  BY <1>3 DEF Tiles, Grained
<1>5. Area(i)
  BY EachArea
<1>6. PICK b0 \in B : b0 <= Areas[i].at /\ Areas[i].at < e[b0]
  <2>1. Areas[i].at \in Starts
    BY DEF Starts
  <2> QED
    BY <1>3, <2>1 DEF Tiles
<1>7. PICK c \in B : c <= a /\ \A b \in B : b <= a => b <= c
  <2> DEFINE T == {b \in B : b <= a}
  <2>1. T \subseteq Nat /\ T # {} /\ a \in Nat
    BY <1>4, <1>5, <1>6 DEF Area
  <2>2. \A b \in T : b <= a
    OBVIOUS
  <2>3. PICK c \in T : \A b \in T : b <= c
    BY <2>1, <2>2, GreatestNat
  <2> QED
    BY <2>3
<1>8. PICK j \in 1 .. Len(Areas) : Areas[j].at <= c /\ e[c] <= Areas[j].at + Areas[j].size
  BY <1>1, <1>2 DEF Held
<1>9. Area(j)
  BY EachArea
<1>10. i # j => \/ Areas[i].at + Areas[i].size < Areas[j].at
                \/ Areas[j].at + Areas[j].size < Areas[i].at
  BY DEF AreasApart
<1>11. j = i
  <2>1. SUFFICES ASSUME i # j
                 PROVE  FALSE
    OBVIOUS
  <2>2. CASE Areas[i].at + Areas[i].size < Areas[j].at
    <3>1. /\ Areas[i].at \in Int /\ Areas[i].size \in Int /\ Areas[j].at \in Int
          /\ c \in Int /\ c <= a /\ Areas[j].at <= c
      BY <1>4, <1>5, <1>7, <1>8, <1>9 DEF Area
    <3> QED
      BY <2>2, <3>1
  <2>3. CASE Areas[j].at + Areas[j].size < Areas[i].at
    <3>1. e[c] < e[b0] /\ b0 <= c
      <4>1. b0 <= a
        BY <1>4, <1>5, <1>6 DEF Area
      <4>2. b0 <= c
        BY <1>7, <4>1
      <4>3. e[c] < Areas[i].at
        <5>1. /\ Areas[i].at \in Int /\ Areas[j].at \in Int /\ Areas[j].size \in Int
              /\ e[c] \in Int
          BY <1>4, <1>5, <1>9 DEF Area
        <5> QED
          BY <1>8, <2>3, <5>1
      <4>4. e[c] < e[b0]
        <5>1. Areas[i].at \in Int /\ e[c] \in Int /\ e[b0] \in Int
          BY <1>4, <1>5 DEF Area
        <5> QED
          BY <1>6, <4>3, <5>1
      <4> QED
        BY <4>2, <4>4
    <3>2. b0 # c
      BY <1>4, <3>1
    <3> QED
      BY <1>4, <3>1, <3>2
  <2> QED
    BY <1>10, <2>1, <2>2, <2>3
<1>12. e[c] \in AreaEnds => e[c] = Areas[i].at + Areas[i].size
  <2> SUFFICES ASSUME NEW k \in 1 .. Len(Areas), e[c] = Areas[k].at + Areas[k].size
               PROVE  e[c] = Areas[i].at + Areas[i].size
    BY DEF AreaEnds
  <2>1. k = j
    BY <1>4, <1>8, AreaOfEnd
  <2> QED
    BY <1>11, <2>1
<1>13. e[c] \in AreaEnds \/ (e[c] \in D /\ e[c] # HeadAt)
  <2>1. e[c] \in AreaEnds \/ e[c] = m[c].bnext
    BY <1>1, <1>3 DEF Tiles, Bnexts, Blocked
  <2>2. m[c].bnext \in D
    <3>1. PICK h : Lists(D, Free(D, m), m, h)
      BY DEF Well
    <3> QED
      BY <1>1, <3>1, ListsCircular DEF Circular, Blocked
  <2>3. e[c] # HeadAt
    BY <1>3, <1>4, HeadFacts DEF Tiles
  <2> QED
    BY <2>1, <2>2, <2>3
<1>14. a < e[c]
  <2>1. CASE e[c] \in AreaEnds
    BY <1>5, <1>12, <2>1 DEF Area
  <2>2. CASE e[c] \in B
    BY <1>4, <1>7, <2>2
  <2> QED
    BY <1>1, <1>13, <2>1, <2>2 DEF Blocked
<1>15. c \in Free(D, m) \ {HeadAt}
  <2>1. c \notin UsedIn(D, m)
    BY <1>1, <1>4, <1>7, <1>14 DEF Clear
  <2> QED
    BY <1>1, <2>1 DEF UsedIn, Free, Blocked
<1>16. a + n <= e[c]
  <2>1. CASE e[c] \in AreaEnds
    BY <1>12, <2>1
  <2>2. CASE e[c] \in B /\ e[c] < a + n
    <3>1. PICK d : d = e[c]
      OBVIOUS
    <3>2. d \in B /\ d \in Int /\ e[d] \in Int /\ d < e[d] /\ a < d /\ d < a + n
      BY <1>4, <1>14, <2>2, <3>1
    <3>3. d \notin UsedIn(D, m)
      BY <1>1, <3>2 DEF Clear
    <3>4. d \in Free(D, m) \ {HeadAt}
      BY <1>1, <3>2, <3>3 DEF UsedIn, Free, Blocked
    <3>5. Touching(D, m, c, d)
      BY <1>1, <1>15, <3>1, <3>4 DEF Touching
    <3> QED
      BY <1>2, <1>15, <3>4, <3>5 DEF NoTouch, Free
  <2>3. CASE e[c] \in B /\ ~ (e[c] < a + n)
    BY <1>4, <2>3
  <2> QED
    BY <1>1, <1>13, <2>1, <2>2, <2>3 DEF Blocked
<1> QED
  BY <1>1, <1>7, <1>15, <1>16

(* The allocations that HeapSpec sees.                                     *)
AbsBlocks(m) == [b \in UsedIn(DOMAIN m, m) |-> Unmarked(m[b].size)]
Bl == [b \in UsedBlocks |-> Unmarked(mem[b].size)]

(* The variable head is never marked used.                                 *)
LEMMA UsedNotHead ==
  ASSUME NEW m, m[HeadAt].size = 0
  PROVE  UsedIn(DOMAIN m, m) = {b \in DOMAIN m \ {HeadAt} : Used(m[b].size)}
BY DEF UsedIn, Used

(* The allocations of HeapSpec are the used blocks,                        *)
LEMMA BlocksAre ==
  ASSUME mem[HeadAt].size = 0
  PROVE  Bl = AbsBlocks(mem) /\ UsedBlocks = UsedIn(DOMAIN mem, mem)
BY UsedNotHead DEF Bl, AbsBlocks, UsedBlocks, Blocks

(* and so they are after a step.                                           *)
LEMMA BlocksAreNext ==
  ASSUME mem'[HeadAt].size = 0
  PROVE  Bl' = AbsBlocks(mem') /\ UsedBlocks' = UsedIn(DOMAIN mem', mem')
BY UsedNotHead DEF Bl, AbsBlocks, UsedBlocks, Blocks

(* What HeapSpec calls vacant, in terms of the blocks.                     *)
LEMMA AbsVacant ==
  ASSUME HeapOK(mem, live), NEW a \in Int, NEW n \in Int
  PROVE  Abstract!Vacant(a, n) <=>
           /\ \E i \in 1 .. Len(Areas) : Areas[i].at <= a /\ a + n <= Areas[i].at + Areas[i].size
           /\ Clear(DOMAIN mem, mem, a, n)
<1>1. mem[HeadAt].size = 0
  BY DEF HeapOK, Well, Shaped
<1>2. Bl = AbsBlocks(mem) /\ UsedBlocks = UsedIn(DOMAIN mem, mem)
  BY <1>1, BlocksAre
<1>3. \A b \in UsedIn(DOMAIN mem, mem) :
        b + Unmarked(mem[b].size) = EndsOf(DOMAIN mem, mem)[b]
  BY DEF UsedIn, EndsOf
<1>4. (\A b \in UsedBlocks : a + n <= b \/ b + Unmarked(mem[b].size) <= a)
      <=> Clear(DOMAIN mem, mem, a, n)
  BY <1>2, <1>3 DEF Clear
<1> QED
  BY <1>4 DEF Abstract!Vacant, Abstract!Inside, Abstract!Apart

(* Blocks start where HeapSpec lets them.                                  *)
LEMMA AbsAddress ==
  ASSUME NEW a \in Int, Grained(a), NEW i \in 1 .. Len(Areas),
         Areas[i].at <= a, a <= Areas[i].at + Areas[i].size
  PROVE  a \in Abstract!Addresses
<1>1. Area(i)
  BY EachArea
<1>2. a \in Areas[i].at .. Areas[i].at + Areas[i].size
  BY <1>1 DEF Area
<1> QED
  BY <1>2 DEF Abstract!Addresses, Abstract!Aligned, Grained

(* The addresses HeapSpec considers are numbers.                           *)
LEMMA AbsAddressInt ==
  ASSUME NEW a \in Abstract!Addresses
  PROVE  a \in Int
<1>1. PICK i \in 1 .. Len(Areas) : a \in Areas[i].at .. Areas[i].at + Areas[i].size
  BY DEF Abstract!Addresses, Abstract!Aligned
<1> QED
  BY <1>1

(* A refusal means that no run of free bytes would do.                     *)
LEMMA AbsExhausted ==
  ASSUME AreasApart, HeapOK(mem, live), Tidy(DOMAIN mem, mem),
         NEW sz \in Nat, sz + Header + 3 <= MaxWord, Candidate(mem, sz) = HeadAt
  PROVE  Abstract!Exhausted(RoundUp(sz))
<1>1. PICK D, r, b : D = DOMAIN mem /\ r = RoundUp(sz) /\ b = Candidate(mem, sz)
  OBVIOUS
<1>2. Well(D, mem) /\ Tidy(D, mem) /\ Shaped(D, mem)
  BY <1>1 DEF HeapOK, Well
<1>3. r \in Int /\ r > 0
  BY <1>1, RoundUpIs DEF Grained
<1>4. \/ r > MaxInt
      \/ Need(r) /\ \A p \in Free(D, mem) \ {HeadAt} : ~ Fits(mem, p, r)
  BY <1>1, <1>2, CandidateIs
<1> SUFFICES ASSUME NEW a \in Abstract!Addresses, Abstract!Vacant(a, r)
             PROVE  FALSE
  BY <1>1 DEF Abstract!Exhausted
<1>5. a \in Int
  BY AbsAddressInt
<1>6. /\ \E i \in 1 .. Len(Areas) : Areas[i].at <= a /\ a + r <= Areas[i].at + Areas[i].size
      /\ Clear(D, mem, a, r)
  BY <1>1, <1>3, <1>5, AbsVacant
<1>7. PICK i \in 1 .. Len(Areas) : Areas[i].at <= a /\ a + r <= Areas[i].at + Areas[i].size
  BY <1>6
<1>8. r <= MaxInt
  <2>1. Areas[i].at \in Int /\ Areas[i].size \in Int /\ Areas[i].size <= MaxInt /\ MaxInt \in Int
    BY EachArea, WordFact DEF Area
  <2> QED
    BY <1>3, <1>5, <1>7, <2>1
<1>9. Need(r) /\ \A p \in Free(D, mem) \ {HeadAt} : ~ Fits(mem, p, r)
  <2>1. MaxInt \in Int
    BY WordFact
  <2> QED
    BY <1>3, <1>4, <1>8, <2>1
<1>10. PICK c \in Free(D, mem) \ {HeadAt} : c <= a /\ a + r <= EndsOf(D, mem)[c]
  BY <1>2, <1>3, <1>5, <1>6, <1>7, Covered
<1>11. /\ c \in Int /\ mem[c].size \in Int /\ EndsOf(D, mem)[c] = c + mem[c].size
       /\ c \in Blocked(D)
  <2>1. c \in D \ {HeadAt} /\ ~ Used(mem[c].size)
    BY <1>10 DEF Free
  <2>2. Unmarked(mem[c].size) = mem[c].size
    BY <2>1 DEF Unmarked
  <2> QED
    BY <1>2, <2>1, <2>2, EachBlock DEF Blocked
<1>12. r <= mem[c].size
  BY <1>3, <1>5, <1>10, <1>11
<1>13. mem[c].size - r <= MaxInt
  <2>1. PICK j \in 1 .. Len(Areas) :
          Areas[j].at <= c /\ EndsOf(D, mem)[c] <= Areas[j].at + Areas[j].size
    BY <1>2, <1>11 DEF Tidy, Held
  <2>2. Areas[j].at \in Int /\ Areas[j].size \in Int /\ Areas[j].size <= MaxInt /\ MaxInt \in Int
    BY EachArea, WordFact DEF Area
  <2> QED
    BY <1>3, <1>11, <2>1, <2>2
<1>14. Fits(mem, c, r)
  BY <1>2, <1>9, <1>12, <1>13, FitsMeans
<1> QED
  BY <1>9, <1>14

(* The block that a call takes is vacant and hardly longer than needed.    *)
LEMMA AbsTaken ==
  ASSUME HeapOK(mem, live), Tidy(DOMAIN mem, mem), NEW b \in Free(DOMAIN mem, mem) \ {HeadAt},
         NEW r, Grained(r), NEW n, NEW m2, TakenFrom(DOMAIN mem, mem, b, r, n, DOMAIN m2, m2)
  PROVE  \E a \in Abstract!Addresses, extra \in Abstract!Spare :
           /\ Abstract!Vacant(a, r + extra)
           /\ AbsBlocks(m2) = Abstract!With(AbsBlocks(mem), a, r + extra)
           /\ a = b
<1>1. PICK D : D = DOMAIN mem
  OBVIOUS
<1>2. Well(D, mem) /\ Tidy(D, mem) /\ Shaped(D, mem) /\ b \in D \ {HeadAt} /\ ~ Used(mem[b].size)
  BY <1>1 DEF HeapOK, Well, Free
<1>3. /\ m2[b].size = n + 1 /\ Grained(n) /\ r <= n /\ n <= mem[b].size /\ n - r < SizeOfHead
      /\ UsedIn(DOMAIN m2, m2) = UsedIn(D, mem) \cup {b}
      /\ \A p \in UsedIn(D, mem) : m2[p].size = mem[p].size
  BY <1>1 DEF TakenFrom
<1>4. /\ b \in Int /\ Grained(b) /\ mem[b].size \in Int /\ EndsOf(D, mem)[b] = b + mem[b].size
      /\ b \in Blocked(D) /\ 0 < mem[b].size
  <2>1. Unmarked(mem[b].size) = mem[b].size
    BY <1>2 DEF Unmarked
  <2> QED
    BY <1>2, <2>1, EachBlock DEF Blocked
<1>5. PICK i \in 1 .. Len(Areas) :
        Areas[i].at <= b /\ EndsOf(D, mem)[b] <= Areas[i].at + Areas[i].size
  BY <1>2, <1>4 DEF Tidy, Held
<1>6. n \in Int /\ r \in Int /\ Areas[i].at \in Int /\ Areas[i].size \in Int
  BY <1>3, EachArea DEF Grained, Area
<1>7. b \in Abstract!Addresses
  <2>1. b <= Areas[i].at + Areas[i].size
    BY <1>4, <1>5, <1>6
  <2> QED
    BY <1>4, <1>5, <2>1, AbsAddress
<1>8. PICK extra : extra = n - r
  OBVIOUS
<1>9. extra \in Abstract!Spare /\ r + extra = n
  <2>1. extra \in Int /\ 0 <= extra /\ extra < 10 /\ extra % 4 = 0
    <3>1. Grained(n - r)
      BY <1>3, GrainedSums
    <3> QED
      BY <1>3, <1>6, <1>8, <3>1 DEF SizeOfHead, Grained
  <2>2. extra \in 0 .. Header /\ extra % 4 = 0
    BY <2>1 DEF Header
  <2>3. extra \in Abstract!Spare
    BY <2>2 DEF Abstract!Spare, Abstract!Aligned
  <2> QED
    BY <1>6, <1>8, <2>3
<1>10. b + n <= Areas[i].at + Areas[i].size
  <2>1. PICK s, z : s = mem[b].size /\ z = Areas[i].at + Areas[i].size
    OBVIOUS
  <2>2. b + s <= z /\ n <= s
    BY <1>3, <1>4, <1>5, <2>1
  <2>3. b \in Int /\ n \in Int /\ s \in Int /\ z \in Int
    BY <1>4, <1>6, <2>1
  <2> QED
    BY <2>1, <2>2, <2>3
<1>11. Clear(D, mem, b, n)
  <2> SUFFICES ASSUME NEW c \in UsedIn(D, mem)
               PROVE  b + n <= c \/ EndsOf(D, mem)[c] <= b
    BY DEF Clear
  <2>1. c \in Blocked(D) /\ c # b
    BY <1>2 DEF UsedIn, Blocked, Shaped, Used
  <2>2. Tiles(Blocked(D), EndsOf(D, mem), Bnexts(D, mem))
    BY <1>2 DEF Shaped
  <2>3. c \in Int /\ (b < c => EndsOf(D, mem)[b] <= c) /\ (c < b => EndsOf(D, mem)[c] <= b)
    BY <1>4, <2>1, <2>2 DEF Tiles, Grained
  <2> QED
    BY <1>3, <1>4, <1>6, <2>1, <2>3
<1>12. Abstract!Vacant(b, n)
  <2>1. Abstract!Vacant(b, n) <=>
           /\ \E j \in 1 .. Len(Areas) : Areas[j].at <= b /\ b + n <= Areas[j].at + Areas[j].size
           /\ Clear(DOMAIN mem, mem, b, n)
    BY <1>4, <1>6, AbsVacant
  <2> QED
    BY <1>1, <1>5, <1>10, <1>11, <2>1
<1>13. AbsBlocks(m2) = Abstract!With(AbsBlocks(mem), b, n)
  <2>1. Unmarked(m2[b].size) = n
    BY <1>3, GrainedMarks
  <2>2. b \notin UsedIn(D, mem)
    BY <1>2 DEF UsedIn
  <2> QED
    BY <1>1, <1>3, <2>1, <2>2 DEF AbsBlocks, Abstract!With
<1> QED
  BY <1>7, <1>9, <1>12, <1>13

Rf == IF call.fn \in {"malloc", "calloc", "realloc"} /\ call.ret = NULL
      THEN RoundUp(call.size) ELSE 0
AbsNeeds == {RoundUp(sz) : sz \in Requests}
              \cup {RoundUp((a[1] * a[2]) % 65536) : a \in Arrays}

(* What the invariant says of a call.                                      *)
LEMMA InvReady ==
  ASSUME Inv, Ready
  PROVE  /\ HeapOK(mem, live) /\ (AreasApart => Tidy(DOMAIN mem, mem))
         /\ mem[HeadAt].size = 0 /\ Bl = AbsBlocks(mem)
<1>1. HeapOK(mem, live) /\ (AreasApart => Tidy(DOMAIN mem, mem))
  BY DEF Inv, Invariant, Ready
<1> QED
  BY <1>1, BlocksAre DEF HeapOK, Well, Shaped

(* The allocations after a call.                                           *)
LEMMA AbsBlocksNext ==
  ASSUME HeapOK(mem', live')
  PROVE  Bl' = AbsBlocks(mem')
BY BlocksAreNext DEF HeapOK, Well, Shaped

(* A call that is refused.                                                 *)
LEMMA AbsRefuse ==
  ASSUME AreasApart, Inv, Ready, NEW sz \in Nat, sz + Header + 3 <= MaxWord,
         RoundUp(sz) \in AbsNeeds, Candidate(mem, sz) = HeadAt, UNCHANGED mem,
         call'.fn \in {"malloc", "calloc", "realloc"}, call'.ret = NULL, call'.size = sz
  PROVE  Abstract!Next
<1>1. Abstract!Exhausted(RoundUp(sz))
  BY InvReady, AbsExhausted
<1>2. Rf' = RoundUp(sz)
  BY DEF Rf
<1>3. UNCHANGED Bl
  BY DEF Bl, UsedBlocks, Blocks
<1>4. Abstract!Refuse(RoundUp(sz))
  BY <1>1, <1>2, <1>3 DEF Abstract!Refuse, Rf, Bl
<1> QED
  BY <1>4 DEF Abstract!Next, AbsNeeds

(* malloc and calloc allocate a vacant run, or refuse for want of one.     *)
LEMMA AbsAllocate ==
  ASSUME AreasApart, Inv, NEW fn \in {"malloc", "calloc", "realloc"},
         NEW sz \in Nat, sz + Header + 3 <= MaxWord, RoundUp(sz) \in AbsNeeds,
         Allocate(fn, sz, sz)
  PROVE  Abstract!Next
<1>1. PICK b, r : b = Candidate(mem, sz) /\ r = RoundUp(sz)
  OBVIOUS
<1>2. /\ Ready
      /\ IF b = HeadAt
         THEN Called(fn, NULL, sz, NULL) /\ UNCHANGED <<mem, live>>
         ELSE /\ mem' = TakeBlock(mem, b, RoundUp(sz))
              /\ live' = With(live, b + Header, sz)
              /\ Called(fn, NULL, sz, b + Header)
  BY <1>1 DEF Allocate
<1>3. HeapOK(mem, live) /\ Tidy(DOMAIN mem, mem) /\ Bl = AbsBlocks(mem)
  BY <1>2, InvReady
<1>4. CASE b = HeadAt
  <2>1. call'.fn = fn /\ call'.ret = NULL /\ call'.size = sz
    BY <1>2, <1>4 DEF Called
  <2> QED
    BY <1>1, <1>2, <1>4, <2>1, AbsRefuse
<1>5. CASE b # HeadAt
  <2>1. sz <= sz
    OBVIOUS
  <2>2. /\ HeapOK(mem', live') /\ b \in Free(DOMAIN mem, mem)
        /\ \E n : TakenFrom(DOMAIN mem, mem, b, RoundUp(sz), n, DOMAIN mem', mem')
    BY <1>1, <1>2, <1>3, <1>5, <2>1, HeapTakes
  <2>3. PICK n : TakenFrom(DOMAIN mem, mem, b, r, n, DOMAIN mem', mem')
    BY <1>1, <2>2
  <2>4. Grained(r) /\ b \in Free(DOMAIN mem, mem) \ {HeadAt}
    BY <1>1, <1>5, <2>2, RoundUpIs
  <2>5. PICK a \in Abstract!Addresses, extra \in Abstract!Spare :
          /\ Abstract!Vacant(a, r + extra)
          /\ AbsBlocks(mem') = Abstract!With(AbsBlocks(mem), a, r + extra)
    BY <1>3, <2>3, <2>4, AbsTaken
  <2>6. Bl' = Abstract!With(Bl, a, r + extra)
    BY <1>3, <2>2, <2>5, AbsBlocksNext
  <2>7. Rf' = 0
    <3>1. call'.ret = b + Header
      BY <1>2, <1>5 DEF Called
    <3>2. b \in Int /\ b > 0
      BY <1>3, <2>4, AllInt DEF HeapOK, Well, Free
    <3>3. call'.ret # NULL
      BY <3>1, <3>2 DEF Header, NULL
    <3> QED
      BY <3>3 DEF Rf
  <2>8. Abstract!Allocate(r)
    BY <2>5, <2>6, <2>7 DEF Abstract!Allocate, Bl, Rf
  <2> QED
    BY <1>1, <2>8 DEF Abstract!Next, AbsNeeds
<1> QED
  BY <1>4, <1>5

(* free releases an allocation.                                            *)
LEMMA AbsFree ==
  ASSUME Inv, NEW b \in DOMAIN mem \ {HeadAt}, FreeCall(b + Header)
  PROVE  Abstract!Next
<1>1. PICK ptr : ptr = b + Header
  OBVIOUS
<1>2. HeapOK(mem, live) /\ Bl = AbsBlocks(mem) /\ mem[HeadAt].size = 0
  BY InvReady DEF FreeCall
<1>3. /\ CheckedSize(mem, ptr - Header) # 0 /\ mem' = Freed(mem, ptr - Header)
      /\ live' = Without(live, ptr) /\ call'.fn = "free"
  BY <1>1 DEF FreeCall, Called
<1>4. ptr - Header = b /\ ptr \in DOMAIN live /\ b \in UsedIn(DOMAIN mem, mem)
  BY <1>1, <1>2, <1>3, CheckedOwned
<1>5. HeapOK(mem', live') /\ FreedTo(DOMAIN mem, mem, b, DOMAIN mem', mem')
  BY <1>2, <1>3, <1>4, HeapFrees
<1>6. AbsBlocks(mem') = Abstract!Without(AbsBlocks(mem), b)
  BY <1>5 DEF FreedTo, AbsBlocks, Abstract!Without
<1>7. Bl' = Abstract!Without(Bl, b) /\ b \in DOMAIN Bl
  BY <1>2, <1>4, <1>5, <1>6, AbsBlocksNext DEF AbsBlocks
<1>8. Rf' = 0
  BY <1>3 DEF Rf
<1>9. Abstract!Release(b)
  BY <1>7, <1>8 DEF Abstract!Release, Bl, Rf
<1> QED
  BY <1>7, <1>9 DEF Abstract!Next, Bl

(* A refused realloc changes nothing; one that is served moves the block.  *)
LEMMA AbsRealloc ==
  ASSUME AreasApart, RequestsFit, Inv, NEW ptr \in DOMAIN live, NEW nsz \in Requests,
         ReallocCall(ptr, nsz)
  PROVE  Abstract!Next
<1>1. PICK b, r, old : b = Candidate(mem, nsz) /\ r = RoundUp(nsz) /\ old = ptr - Header
  OBVIOUS
<1>2. /\ Ready
      /\ IF b = HeadAt
         THEN Called("realloc", ptr, nsz, NULL) /\ UNCHANGED <<mem, live>>
         ELSE /\ mem' = Freed(TakeBlock(mem, b, RoundUp(nsz)), old)
              /\ live' = With(Without(live, ptr), b + Header, nsz)
              /\ Called("realloc", ptr, nsz, b + Header)
  BY <1>1 DEF ReallocCall
<1>3. HeapOK(mem, live) /\ Tidy(DOMAIN mem, mem) /\ Bl = AbsBlocks(mem)
  BY <1>2, InvReady
<1>4. nsz \in Nat /\ nsz + Header + 3 <= MaxWord
  <2>1. Requests \subseteq 0 .. MaxWord
    BY Zenon, MallocAssumption
  <2>2. nsz \in 0 .. MaxWord
    BY <2>1
  <2> QED
    BY <2>2 DEF RequestsFit
<1>5. RoundUp(nsz) \in AbsNeeds
  BY DEF AbsNeeds
<1>6. CASE b = HeadAt
  <2>1. call'.fn = "realloc" /\ call'.ret = NULL /\ call'.size = nsz
    BY <1>2, <1>6 DEF Called
  <2> QED
    BY <1>1, <1>2, <1>4, <1>5, <1>6, <2>1, AbsRefuse
<1>7. CASE b # HeadAt
  <2>1. PICK m1, l1, q : /\ m1 = TakeBlock(mem, b, RoundUp(nsz))
                         /\ q = b + Header /\ l1 = With(live, q, nsz)
    OBVIOUS
  <2>2. nsz <= nsz
    BY <1>4
  <2>3. /\ HeapOK(m1, l1) /\ q \notin DOMAIN live /\ b \in Free(DOMAIN mem, mem)
        /\ \E n : TakenFrom(DOMAIN mem, mem, b, RoundUp(nsz), n, DOMAIN m1, m1)
    BY <1>1, <1>3, <1>4, <1>7, <2>1, <2>2, HeapTakes
  <2>4. PICK n : TakenFrom(DOMAIN mem, mem, b, r, n, DOMAIN m1, m1)
    BY <1>1, <2>3
  <2>5. Grained(r) /\ b \in Free(DOMAIN mem, mem) \ {HeadAt}
    BY <1>1, <1>4, <1>7, <2>3, RoundUpIs
  <2>6. PICK a \in Abstract!Addresses, extra \in Abstract!Spare :
          /\ Abstract!Vacant(a, r + extra)
          /\ AbsBlocks(m1) = Abstract!With(AbsBlocks(mem), a, r + extra)
    BY <1>3, <2>4, <2>5, AbsTaken
  <2>7. ptr \in DOMAIN l1 /\ mem' = Freed(m1, ptr - Header)
    BY <1>1, <1>2, <1>7, <2>1 DEF With
  <2>8. live' = Without(l1, ptr)
    <3>1. ptr # q
      BY <2>3
    <3> QED
      BY <1>2, <1>7, <2>1, <3>1 DEF With, Without
  <2>9. HeapOK(mem', live') /\ FreedTo(DOMAIN m1, m1, old, DOMAIN mem', mem')
    BY <1>1, <2>3, <2>7, <2>8, HeapFrees
  <2>10. AbsBlocks(mem') = Abstract!Without(AbsBlocks(m1), old)
    BY <2>9 DEF FreedTo, AbsBlocks, Abstract!Without
  <2>11. Bl' = Abstract!Without(Abstract!With(Bl, a, r + extra), old)
    BY <1>3, <2>6, <2>9, <2>10, AbsBlocksNext
  <2>12. old \in DOMAIN Bl
    BY <1>1, <1>3 DEF AbsBlocks, HeapOK, Owned
  <2>13. Rf' = 0
    <3>1. call'.ret = b + Header
      BY <1>2, <1>7 DEF Called
    <3>2. b \in Int /\ b > 0
      BY <1>3, <2>5, AllInt DEF HeapOK, Well, Free
    <3>3. call'.ret # NULL
      BY <3>1, <3>2 DEF Header, NULL
    <3> QED
      BY <3>3 DEF Rf
  <2>14. Abstract!Move(old, r)
    BY <2>6, <2>11, <2>13 DEF Abstract!Move, Bl, Rf
  <2>15. r \in AbsNeeds
    BY <1>1, <1>5
  <2> QED
    BY <2>12, <2>14, <2>15 DEF Abstract!Next, AbsNeeds, Bl
<1> QED
  BY <1>6, <1>7

(* Calls for a block that the caller does not own release nothing.         *)
LEMMA AbsReject ==
  ASSUME Inv, NEW ptr, ReallocRejects(ptr)
  PROVE  Abstract!Next
<1>1. UNCHANGED Bl
  BY DEF ReallocRejects, Bl, UsedBlocks, Blocks
<1>2. Rf' = 0
  BY DEF ReallocRejects, Called, Rf
<1> QED
  BY <1>1, <1>2 DEF Abstract!Next, Abstract!Misuse, Bl, Rf

(* free of what is not owned releases nothing, and stops.                  *)
LEMMA AbsHalt ==
  ASSUME Inv, NEW b \in DOMAIN mem \ {HeadAt}, FreeHalts(b + Header)
  PROVE  Abstract!Next
<1>1. PICK ptr : ptr = b + Header
  OBVIOUS
<1>2. HeapOK(mem, live)
  BY InvReady DEF FreeHalts
<1>3. /\ CheckedSize(mem, ptr - Header) = 0 /\ mem' = [mem EXCEPT ![ptr - Header].size = 0]
      /\ call'.fn = "free"
  BY <1>1 DEF FreeHalts, Called
<1>4. ptr - Header = b /\ b \notin UsedIn(DOMAIN mem, mem)
  BY <1>1, <1>2, <1>3, CheckedOwned
<1>5. PICK D : D = DOMAIN mem
  OBVIOUS
<1>6. DOMAIN mem' = D /\ SizeSet(D, mem, b, 0, mem')
  <2>1. Headers(D, mem)
    BY <1>2, <1>5 DEF HeapOK, Well, Shaped
  <2>2. mem' = SetSize(mem, b, 0)
    BY <1>3, <1>4 DEF SetSize
  <2> QED
    BY <1>5, <2>1, <2>2, SetSizeSets DEF Field, Headers
<1>7. ~ Used(mem[b].size) /\ ~ Used(0)
  BY <1>4 DEF UsedIn, Used
<1>8. \A p \in D : mem'[p].size = IF p = b THEN 0 ELSE mem[p].size
  BY <1>6 DEF SizeSet
<1>9. UsedBlocks' = UsedBlocks /\ \A p \in UsedBlocks : mem'[p].size = mem[p].size
  BY <1>5, <1>6, <1>7, <1>8 DEF UsedBlocks, Blocks
<1>10. UNCHANGED Bl
  BY <1>9 DEF Bl
<1>11. Rf' = 0
  BY <1>3 DEF Rf
<1> QED
  BY <1>10, <1>11 DEF Abstract!Next, Abstract!Misuse, Bl, Rf

(* While nothing is allocated no block is used.                            *)
NothingUsed(m) == {b \in DOMAIN m \ {HeadAt} : Used(m[b].size)} = {}

(* No block is used when no caller owns one.                               *)
LEMMA NothingOwned ==
  ASSUME NEW m, NEW ch, NEW l, NEW c, Invariant(m, ch, l, c, FALSE), DOMAIN l = {}
  PROVE  NothingUsed(m)
<1>1. ch \in 1 .. Len(Areas) + 1
  BY DEF Invariant
<1>2. CASE ch <= Len(Areas)
  <2>1. PICK k \in 0 .. Len(Areas) : Linking(k, m)
    BY <1>2 DEF Invariant
  <2>2. DOMAIN m = Heads /\ NoneUsed(Heads, m)
    BY <2>1 DEF Linking, Headers
  <2> QED
    BY <2>2 DEF NothingUsed, NoneUsed
<1>3. CASE ch > Len(Areas)
  <2>1. Owned(DOMAIN m, m, l)
    BY <1>3 DEF Invariant, HeapOK
  <2>2. UsedIn(DOMAIN m, m) = {}
    BY <2>1 DEF Owned
  <2> QED
    BY <2>2 DEF NothingUsed, UsedIn
<1> QED
  BY <1>1, <1>2, <1>3, LenNat

(* malloc_init allocates nothing.                                          *)
LEMMA AbsStart ==
  ASSUME HeadClear, Inv, MallocInit
  PROVE  UNCHANGED <<Bl, Rf>>
<1>1. UNCHANGED <<live, call, halted>>
  BY DEF MallocInit
<1>2. DOMAIN live = {} /\ Inv'
  BY MallocInitInv
<1>3. halted = FALSE
  BY DEF MallocInit, Inv, Invariant
<1>4. Invariant(mem, chain, live, call, FALSE)
  BY <1>3 DEF Inv
<1>5. Invariant(mem', chain', live', call', FALSE) /\ DOMAIN live' = {}
  BY <1>1, <1>2, <1>3 DEF Inv
<1>6. NothingUsed(mem) /\ NothingUsed(mem')
  BY <1>2, <1>4, <1>5, NothingOwned
<1>7. UsedBlocks = {} /\ UsedBlocks' = {}
  BY <1>6 DEF NothingUsed, UsedBlocks, Blocks
<1>8. Bl' = Bl
  BY <1>7 DEF Bl
<1> QED
  BY <1>1, <1>8 DEF Rf

(* When the program is loaded nothing is allocated.                        *)
LEMMA AbsInit ==
  ASSUME HeadClear
  PROVE  Init => Abstract!Init
<1> SUFFICES ASSUME Init
             PROVE  Abstract!Init
  OBVIOUS
<1>1. Inv
  BY InitInv
<1>2. halted = FALSE /\ DOMAIN live = {} /\ call.fn = "none"
  BY DEF Init
<1>3. NothingUsed(mem)
  BY <1>1, <1>2, NothingOwned DEF Inv
<1>4. UsedBlocks = {}
  BY <1>3 DEF NothingUsed, UsedBlocks, Blocks
<1>5. Bl = [x \in {} |-> 0]
  BY <1>4 DEF Bl
<1>6. Rf = 0
  BY <1>2 DEF Rf
<1> QED
  BY <1>5, <1>6 DEF Abstract!Init, Bl, Rf

(* Every step of the allocator is one of HeapSpec, or no step at all.      *)
LEMMA AbsStep ==
  ASSUME HeadClear, RequestsFit, AreasApart, Inv, [Next]_vars
  PROVE  [Abstract!Next]_(Abstract!vars)
<1>1. CASE MallocInit
  <2>1. UNCHANGED <<Bl, Rf>>
    BY <1>1, AbsStart
  <2> QED
    BY <2>1 DEF Abstract!vars, Bl, Rf
<1>2. ASSUME NEW sz \in Requests, MallocCall(sz)
      PROVE  Abstract!Next
  <2>1. sz \in Nat /\ sz + Header + 3 <= MaxWord
    <3>1. Requests \subseteq 0 .. MaxWord
      BY Zenon, MallocAssumption
    <3>2. sz \in 0 .. MaxWord
      BY <3>1
    <3> QED
      BY <3>2 DEF RequestsFit
  <2>2. RoundUp(sz) \in AbsNeeds
    BY DEF AbsNeeds
  <2> QED
    BY <1>2, <2>1, <2>2, AbsAllocate DEF MallocCall
<1>3. ASSUME NEW a \in Arrays, CallocCall(a[1], a[2])
      PROVE  Abstract!Next
  <2>1. a[1] \in Nat /\ a[2] \in Nat
    <3>1. Arrays \subseteq (0 .. MaxWord) \X (0 .. MaxWord)
      BY Zenon, MallocAssumption
    <3>2. MaxWord \in Int
      BY WordFact
    <3> QED
      BY <3>1, <3>2
  <2>2. PICK q : q = a[1] * a[2]
    OBVIOUS
  <2>3. q \in Nat /\ q + Header + 3 <= MaxWord
    BY <2>1, <2>2 DEF RequestsFit
  <2>4. q % 65536 = q
    BY <2>3, WordFact DEF Header
  <2>5. Allocate("calloc", q, q)
    BY <1>3, <2>2, <2>3, <2>4 DEF CallocCall
  <2>6. RoundUp(q) \in AbsNeeds
    <3>1. RoundUp((a[1] * a[2]) % 65536) \in AbsNeeds
      BY DEF AbsNeeds
    <3> QED
      BY <2>2, <2>4, <3>1
  <2> QED
    BY <2>3, <2>5, <2>6, AbsAllocate
<1>4. ASSUME NEW b \in DOMAIN mem \ {HeadAt}, ReallocRejects(b + Header)
      PROVE  Abstract!Next
  BY <1>4, AbsReject
<1>5. CASE UNCHANGED vars
  <2>1. UNCHANGED <<Bl, Rf>>
    BY <1>5 DEF vars, Bl, Rf, UsedBlocks, Blocks
  <2> QED
    BY <2>1 DEF Abstract!vars, Bl, Rf
<1> QED
  BY <1>1, <1>2, <1>3, <1>4, <1>5, AbsRealloc, AbsFree, AbsHalt DEF Next

(* The allocator implements HeapSpec: what malloc, calloc, realloc and     *)
(* free do to their lists is what a caller may expect of a heap, and they  *)
(* refuse a request only when no run of free bytes is long enough.         *)
THEOREM HeapImplements ==
  ASSUME HeadClear, RequestsFit, AreasApart
  PROVE  Spec => ImplementsHeapSpec
<1>1. Spec => []Inv
  BY InvHolds
<1>2. Inv /\ [Next]_vars => [Abstract!Next]_(Abstract!vars)
  BY AbsStep
<1>3. Init => Abstract!Init
  BY AbsInit
<1> QED
  BY <1>1, <1>2, <1>3, PTL DEF Spec, ImplementsHeapSpec, Abstract!Spec

=============================================================================
