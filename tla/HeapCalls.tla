----------------------------- MODULE HeapCalls ------------------------------
(***************************************************************************)
(* The blocks cover the areas, for any heap: what a merge and a split do   *)
(* to the tiling; then the three things the library does to a heap: free   *)
(* gives a block back, malloc_init lists the areas, malloc takes a block   *)
(* or the head of one. Each leaves a well formed heap and the other blocks *)
(* alone.                                                                  *)
(***************************************************************************)
EXTENDS HeapLists

Starts == {Areas[i].at : i \in 1 .. Len(Areas)}
AreaEnds == {Areas[i].at + Areas[i].size : i \in 1 .. Len(Areas)}

(* The largest word and the largest int, for the arithmetic of the proofs. *)
LEMMA WordFact == MaxWord \in Int /\ MaxWord = 65535 /\ MaxInt \in Int /\ MaxInt = 32767
BY DEF MaxWord, MaxInt

(* The variable head has an address.                                       *)
LEMMA HeadFacts == HeadAt \in Int /\ 0 < HeadAt /\ HeadAt <= MaxWord
<1>1. HeadAt \in 1 .. MaxWord
  BY Zenon, MallocAssumption
<1> QED
  BY <1>1, WordFact

(* What is known of one area. *)
Area(i) ==
  /\ Areas[i].at \in Int /\ Areas[i].size \in Int
  /\ Areas[i].at > 0 /\ Areas[i].at % 4 = 0
  /\ Areas[i].size % 4 = 0 /\ Areas[i].size >= 24
  /\ Areas[i].size <= MaxInt
  /\ Areas[i].at + Areas[i].size <= MaxWord + 1
  /\ \/ HeadAt + SizeOfHead <= Areas[i].at
     \/ HeadAt >= Areas[i].at + Areas[i].size

(* What the linker guarantees of each area.                                *)
LEMMA EachArea ==
  ASSUME NEW i \in 1 .. Len(Areas)
  PROVE  Area(i)
<1>1. PICK S : S = [at : Nat, size : Nat]
  OBVIOUS
<1>2. Areas[i] \in [at : Nat, size : Nat]
  <2>1. Areas \in Seq(S)
    BY Zenon, <1>1, MallocAssumption
  <2>2. Areas[i] \in S
    BY <2>1
  <2> QED
    BY <1>1, <2>2
<1>3. /\ Areas[i].at \in Nat \ {0} /\ Areas[i].at % 4 = 0
      /\ Areas[i].size % 4 = 0 /\ Areas[i].size >= 24
      /\ Areas[i].size <= MaxInt
      /\ Areas[i].at + Areas[i].size <= MaxWord + 1
      /\ \/ HeadAt + SizeOfHead <= Areas[i].at
         \/ HeadAt >= Areas[i].at + Areas[i].size
  BY Zenon, MallocAssumption
<1> QED
  BY <1>2, <1>3 DEF Area

(* The bounds of the areas are numbers.                                    *)
LEMMA AreaFacts ==
  /\ \A a \in Starts : a \in Int
  /\ \A a \in AreaEnds : a \in Int
BY EachArea DEF Starts, AreaEnds, Area

(* x is a multiple of 4. *)
Grained(x) == x \in Int /\ x % 4 = 0

(* The blocks B that end at e and are followed by nx on their list tile    *)
(* the areas.                                                              *)
Tiles(B, e, nx) ==
  /\ \A b \in B : /\ Grained(b) /\ Grained(e[b])
                  /\ 0 < b /\ b < e[b] /\ e[b] <= MaxWord + 1
                  /\ HeadAt < b \/ HeadAt > e[b]
  /\ \A b, c \in B : b < c => e[b] <= c
  /\ \A b \in B : e[b] \in AreaEnds \/ e[b] = nx[b]
  /\ \A b \in B : b \in Starts \/ \E c \in B : e[c] = b
  /\ \A a \in Starts : \E b \in B : b <= a /\ a < e[b]

(* b absorbs z, or gives its tail to nb. *)
TileMerges(B, e, nx, b, z, e2, nx2) ==
  /\ \A x \in B \ {z} : e2[x] = IF x = b THEN e[z] ELSE e[x]
  /\ \A x \in B \ {z} : nx2[x] = IF x = b THEN nx[z] ELSE nx[x]
TileSplits(B, e, nx, b, nb, e2, nx2) ==
  /\ \A x \in B : e2[x] = IF x = b THEN nb ELSE e[x]
  /\ \A x \in B : nx2[x] = IF x = b THEN nb ELSE nx[x]
  /\ e2[nb] = e[b] /\ nx2[nb] = nx[b]

(* Merging two blocks that touch keeps the tiling.                         *)
LEMMA TilesMerge ==
  ASSUME NEW B, NEW e, NEW nx, Tiles(B, e, nx), NEW b \in B, NEW z \in B, e[b] = z,
         NEW e2, NEW nx2, TileMerges(B, e, nx, b, z, e2, nx2)
  PROVE  Tiles(B \ {z}, e2, nx2)
<1> DEFINE B2 == B \ {z}
<1>1. /\ HeadAt \in Int
      /\ \A x \in B : x \in Int /\ e[x] \in Int /\ x < e[x]
      /\ \A x, y \in B : x < y => e[x] <= y
  BY HeadFacts DEF Tiles, Grained
<1>2. /\ b < z /\ z < e[z] /\ b # z
      /\ e2[b] = e[z] /\ \A x \in B2 \ {b} : e2[x] = e[x]
      /\ nx2[b] = nx[z] /\ \A x \in B2 \ {b} : nx2[x] = nx[x]
  BY <1>1 DEF TileMerges
<1>3. \A x \in B2 : /\ Grained(x) /\ Grained(e2[x])
                    /\ 0 < x /\ x < e2[x] /\ e2[x] <= MaxWord + 1
  BY <1>1, <1>2 DEF Tiles
<1>4. \A x \in B2 : HeadAt < x \/ HeadAt > e2[x]
  <2>1. \A x \in B : HeadAt < x \/ HeadAt > e[x]
    BY DEF Tiles
  <2>2. HeadAt < b \/ HeadAt > e[z]
    BY <1>1, <1>2, <2>1
  <2> QED
    BY <1>2, <2>1, <2>2
<1>5. ASSUME NEW x \in B2, NEW y \in B2, x < y
      PROVE  e2[x] <= y
  <2>1. CASE x = b
    <3>1. z < y
      BY <1>1, <1>5, <2>1
    <3> QED
      BY <1>1, <1>2, <2>1, <3>1
  <2>2. CASE x # b
    BY <1>1, <1>2, <1>5, <2>2
  <2> QED
    BY <2>1, <2>2
<1>6. \A x \in B2 : e2[x] \in AreaEnds \/ e2[x] = nx2[x]
  BY <1>2 DEF Tiles
<1>7. ASSUME NEW x \in B2
      PROVE  x \in Starts \/ \E c \in B2 : e2[c] = x
  <2>1. CASE x \in Starts
    BY <2>1
  <2>2. ASSUME NEW c \in B, e[c] = x
        PROVE  \E c2 \in B2 : e2[c2] = x
    <3>1. CASE c = z
      BY <1>2, <2>2, <3>1
    <3>2. CASE c # z
      <4>1. c # b
        BY <2>2
      <4> QED
        BY <1>2, <2>2, <3>2, <4>1
    <3> QED
      BY <3>1, <3>2
  <2> QED
    BY <2>1, <2>2 DEF Tiles
<1>8. ASSUME NEW a \in Starts
      PROVE  \E x \in B2 : x <= a /\ a < e2[x]
  <2>1. PICK x \in B : x <= a /\ a < e[x]
    BY DEF Tiles
  <2>2. a \in Int
    BY AreaFacts
  <2>3. CASE x = z \/ x = b
    BY <1>1, <1>2, <2>1, <2>2, <2>3
  <2>4. CASE x # z /\ x # b
    BY <1>2, <2>1, <2>4
  <2> QED
    BY <2>3, <2>4
<1> QED
  BY <1>3, <1>4, <1>5, <1>6, <1>7, <1>8 DEF Tiles

(* So does cutting a block in two.                                         *)
LEMMA TilesSplit ==
  ASSUME NEW B, NEW e, NEW nx, Tiles(B, e, nx), NEW b \in B, NEW nb, Grained(nb),
         b < nb, nb < e[b],
         NEW e2, NEW nx2, TileSplits(B, e, nx, b, nb, e2, nx2)
  PROVE  Tiles(B \cup {nb}, e2, nx2) /\ nb \notin B /\ nb # HeadAt
<1> DEFINE B2 == B \cup {nb}
<1>1. /\ HeadAt \in Int /\ nb \in Int
      /\ \A x \in B : x \in Int /\ e[x] \in Int /\ x < e[x]
      /\ \A x, y \in B : x < y => e[x] <= y
  BY HeadFacts DEF Tiles, Grained
<1>2. nb \notin B
  BY <1>1
<1>3. /\ e2[b] = nb /\ e2[nb] = e[b] /\ \A x \in B \ {b} : e2[x] = e[x]
      /\ nx2[b] = nb /\ nx2[nb] = nx[b] /\ \A x \in B \ {b} : nx2[x] = nx[x]
  BY <1>2 DEF TileSplits
<1>4. \A x \in B2 : /\ Grained(x) /\ Grained(e2[x])
                    /\ 0 < x /\ x < e2[x] /\ e2[x] <= MaxWord + 1
  BY <1>1, <1>3, WordFact DEF Tiles
<1>5. (\A x \in B2 : HeadAt < x \/ HeadAt > e2[x]) /\ nb # HeadAt
  <2>1. \A x \in B : HeadAt < x \/ HeadAt > e[x]
    BY DEF Tiles
  <2> QED
    BY <1>1, <1>3, <2>1
<1>6. ASSUME NEW x \in B2, NEW y \in B2, x < y
      PROVE  e2[x] <= y
  <2>1. CASE x = b /\ y = nb
    BY <1>1, <1>3, <2>1
  <2>2. CASE x = b /\ y # nb
    BY <1>1, <1>3, <1>6, <2>2
  <2>3. CASE x = nb
    BY <1>1, <1>3, <1>6, <2>3
  <2>4. CASE x # b /\ x # nb /\ y = nb
    BY <1>1, <1>3, <1>6, <2>4
  <2>5. CASE x # b /\ x # nb /\ y # nb
    BY <1>1, <1>3, <1>6, <2>5
  <2> QED
    BY <2>1, <2>2, <2>3, <2>4, <2>5
<1>7. \A x \in B2 : e2[x] \in AreaEnds \/ e2[x] = nx2[x]
  BY <1>3 DEF Tiles
<1>8. ASSUME NEW x \in B2
      PROVE  x \in Starts \/ \E c \in B2 : e2[c] = x
  <2>1. CASE x = nb
    BY <1>3, <2>1
  <2>2. CASE x \in Starts
    BY <2>2
  <2>3. ASSUME NEW c \in B, e[c] = x
        PROVE  \E c2 \in B2 : e2[c2] = x
    BY <1>3, <2>3
  <2> QED
    BY <2>1, <2>2, <2>3 DEF Tiles
<1>9. ASSUME NEW a \in Starts
      PROVE  \E x \in B2 : x <= a /\ a < e2[x]
  <2>1. PICK x \in B : x <= a /\ a < e[x]
    BY DEF Tiles
  <2>2. a \in Int
    BY AreaFacts
  <2>3. CASE x = b
    BY <1>1, <1>3, <2>1, <2>2, <2>3
  <2>4. CASE x # b
    BY <1>3, <2>1, <2>4
  <2> QED
    BY <2>3, <2>4
<1> QED
  BY <1>2, <1>4, <1>5, <1>6, <1>7, <1>8, <1>9 DEF Tiles

-----------------------------------------------------------------------------
(* Sizes: a block of Grained length n has the size n, or n + 1 when used.  *)

LEMMA GrainedSums ==
  ASSUME NEW x, NEW y, Grained(x), Grained(y)
  PROVE  Grained(x + y) /\ Grained(x - y)
BY DEF Grained

(* The low bit of a size and the size itself do not mix.                   *)
LEMMA GrainedMarks ==
  ASSUME NEW x, Grained(x)
  PROVE  ~ Used(x) /\ Used(x + 1) /\ Unmarked(x) = x /\ Unmarked(x + 1) = x
<1>1. x % 2 = 0 /\ (x + 1) % 2 = 1
  BY DEF Grained
<1> QED
  BY <1>1 DEF Used, Unmarked, Grained

(* Sizes are multiples of 4, but for the mark.                             *)
LEMMA SizesGrained ==
  ASSUME NEW s \in Int, NEW b, Grained(b), Grained(b + Unmarked(s))
  PROVE  /\ Unmarked(s) \in Int /\ Grained(Unmarked(s))
         /\ Used(s) => s = Unmarked(s) + 1
         /\ ~ Used(s) => s = Unmarked(s)
<1>1. /\ Used(s) => s = Unmarked(s) + 1
      /\ ~ Used(s) => s = Unmarked(s)
      /\ Unmarked(s) \in Int
  BY DEF Unmarked
<1>2. Unmarked(s) = (b + Unmarked(s)) - b
  BY <1>1 DEF Grained
<1>3. Grained((b + Unmarked(s)) - b)
  BY GrainedSums
<1> QED
  BY <1>1, <1>2, <1>3

(* Addresses are compared in 16 bits: blocks end where they seem to.       *)
LEMMA Wraps ==
  ASSUME NEW x \in Int, 0 < x, x <= MaxWord + 1, NEW y \in Int, 0 < y, y <= MaxWord
  PROVE  x % 65536 = y <=> x = y
BY WordFact

-----------------------------------------------------------------------------
(* The heap between two calls.                                             *)

Blocked(D) == D \ {HeadAt}
EndsOf(D, m) == [b \in D |-> b + Unmarked(m[b].size)]

Shaped(D, m) ==
  /\ Headers(D, m)
  /\ m[HeadAt].size = 0
  /\ Tiles(Blocked(D), EndsOf(D, m), Bnexts(D, m))
  /\ \A b \in D : Used(m[b].size) => m[b].fprev = UserData /\ m[b].fnext = NULL

Well(D, m) == Shaped(D, m) /\ \E h : Lists(D, Free(D, m), m, h)

(* One block of a well formed heap. *)
LEMMA EachBlock ==
  ASSUME NEW D, NEW m, Shaped(D, m), NEW b \in D \ {HeadAt}
  PROVE  LET n == Unmarked(m[b].size)
         IN  /\ b \in Int /\ 0 < b /\ b <= MaxWord /\ Grained(b)
             /\ n \in Int /\ Grained(n) /\ 0 < n /\ b + n <= MaxWord + 1
             /\ Grained(b + n) /\ b + n # HeadAt
             /\ Used(m[b].size) => m[b].size = n + 1
             /\ ~ Used(m[b].size) => m[b].size = n
             /\ EndsOf(D, m)[b] = b + n
<1>1. b \in Blocked(D) /\ EndsOf(D, m)[b] = b + Unmarked(m[b].size)
  BY DEF Blocked, EndsOf
<1>2. m[b].size \in Int
  BY DEF Shaped, Headers, Node
<1>3. /\ Grained(b) /\ Grained(b + Unmarked(m[b].size))
      /\ 0 < b /\ b < b + Unmarked(m[b].size) /\ b + Unmarked(m[b].size) <= MaxWord + 1
      /\ b + Unmarked(m[b].size) # HeadAt
  <2>1. Tiles(Blocked(D), EndsOf(D, m), Bnexts(D, m))
    BY DEF Shaped
  <2>2. LET e == EndsOf(D, m)[b]
        IN  Grained(b) /\ Grained(e) /\ 0 < b /\ b < e /\ e <= MaxWord + 1
            /\ (HeadAt < b \/ HeadAt > e)
    BY <1>1, <2>1 DEF Tiles
  <2>3. EndsOf(D, m)[b] # HeadAt
    BY <2>2, HeadFacts DEF Grained
  <2> QED
    BY <1>1, <2>2, <2>3
<1>4. /\ Unmarked(m[b].size) \in Int /\ Grained(Unmarked(m[b].size))
      /\ Used(m[b].size) => m[b].size = Unmarked(m[b].size) + 1
      /\ ~ Used(m[b].size) => m[b].size = Unmarked(m[b].size)
  BY <1>2, <1>3, SizesGrained
<1>5. b \in Int /\ b <= MaxWord /\ 0 < Unmarked(m[b].size)
  BY <1>3, <1>4, WordFact DEF Grained
<1> QED
  BY <1>1, <1>3, <1>4, <1>5

(* Blocks have addresses in memory.                                        *)
LEMMA AllInt ==
  ASSUME NEW D, NEW m, Shaped(D, m)
  PROVE  D \subseteq Int /\ \A p \in D : 0 < p /\ p <= MaxWord
BY EachBlock, HeadFacts

-----------------------------------------------------------------------------
(* b has absorbed its next block z. *)
MergeStep(D, m, b, z, D2, m2) ==
  /\ b \in Free(D, m) \ {HeadAt} /\ z \in Free(D, m) \ {HeadAt} /\ b # z
  /\ EndsOf(D, m)[b] = z
  /\ D2 = D \ {z} /\ Free(D2, m2) = Free(D, m) \ {z}
  /\ EndsOf(D2, m2)[b] = EndsOf(D, m)[z]
  /\ \A x \in D2 \ {b} : m2[x].size = m[x].size /\ EndsOf(D2, m2)[x] = EndsOf(D, m)[x]
  /\ m2[b].bprev = m[b].bprev
  /\ Well(D2, m2)

(* __try_merge_with_next merges when it has to and keeps the heap well     *)
(* formed.                                                                 *)
LEMMA TryMergeWell ==
  ASSUME NEW D, NEW m, Well(D, m), NEW b \in D, b = HeadAt => m[b].bnext # HeadAt
  PROVE  LET m2 == TryMergeWithNext(m, b)
             z == m[b].bnext
         IN  \/ /\ m2 = m
                /\ ~ (/\ b \in Free(D, m) \ {HeadAt} /\ z \in Free(D, m) \ {HeadAt}
                      /\ EndsOf(D, m)[b] = z)
             \/ MergeStep(D, m, b, z, D \ {z}, m2)
<1> DEFINE m2 == TryMergeWithNext(m, b)
           z == m[b].bnext
           s == m[b].size
           F == Free(D, m)
           D2 == D \ {z}
<1>1. PICK h : Lists(D, F, m, h)
  BY DEF Well
<1>2. Circular(D, F, m) /\ F \subseteq D /\ HeadAt \in F /\ HeadAt \in D
  BY <1>1, ListsCircular DEF Lists
<1>3. z \in D /\ D \subseteq Int /\ Headers(D, m) /\ z \in Int /\ 0 < z /\ z <= MaxWord
  BY <1>2, AllInt DEF Circular, Well, Shaped
<1>4. m[HeadAt].size = 0 /\ Shaped(D, m)
  BY DEF Well, Shaped
<1>5. s \in Int /\ m[z].size \in Int
  BY <1>3 DEF Headers, Node
<1>6. b = HeadAt => (b + s) % 65536 # z
  BY <1>4, HeadFacts, WordFact
<1>7. b # HeadAt /\ ~ Used(s) => /\ (b + s) % 65536 = z <=> b + s = z
                                 /\ b + s # HeadAt
  <2> SUFFICES ASSUME b # HeadAt, ~ Used(s)
               PROVE  ((b + s) % 65536 = z <=> b + s = z) /\ b + s # HeadAt
    OBVIOUS
  <2>1. b + s \in Int /\ 0 < b + s /\ b + s <= MaxWord + 1 /\ b + s # HeadAt
    BY <1>4, <1>5, EachBlock
  <2> QED
    BY <1>3, <2>1, Wraps
<1>8. b \in F <=> ~ Used(s)
  BY DEF Free
<1>9. z \in F <=> ~ Used(m[z].size)
  BY <1>3 DEF Free
<1>10. CASE Used(s) \/ Used(m[z].size) \/ (b + s) % 65536 # z
  <2>1. m2 = m
    BY <1>10 DEF TryMergeWithNext
  <2>2. ASSUME b # HeadAt, ~ Used(s)
        PROVE  EndsOf(D, m)[b] = b + s
    BY <1>4, <2>2, EachBlock
  <2> QED
    BY <1>7, <1>8, <1>9, <1>10, <2>1, <2>2
<1>11. CASE ~ (Used(s) \/ Used(m[z].size) \/ (b + s) % 65536 # z)
  <2>1. /\ b \in F \ {HeadAt} /\ z \in F \ {HeadAt} /\ b + s = z
    BY <1>6, <1>7, <1>8, <1>9, <1>11
  <2> DEFINE sum == s + m[z].size
  <2>2. m2 = Drop(AssumeBlockPosition(m, b, z, sum), z) /\ sum \in Int
    BY <1>5, <1>11 DEF TryMergeWithNext
  <2> HIDE DEF m2, z, s, F, sum
  <2>3. Apart(D, m, b, z) /\ Linked(m, b)
    BY <1>1, <2>1, MergeNeeds DEF z
  <2>4. Headers(D2, m2) /\ Merged(D, m, b, z, sum, m2)
    BY <1>2, <1>3, <1>5, <2>1, <2>2, <2>3, MergeMerges
  <2>5. Lists(D2, F \ {z}, m2, h)
    BY <1>1, <2>1, <2>4, MergeLists DEF z
  <2>6. /\ Grained(s) /\ Grained(m[z].size) /\ 0 < s /\ 0 < m[z].size
        /\ EndsOf(D, m)[b] = z /\ EndsOf(D, m)[z] = z + m[z].size
    <3>1. /\ ~ Used(m[b].size) /\ ~ Used(m[z].size)
          /\ b \in D \ {HeadAt} /\ z \in D \ {HeadAt} /\ s = m[b].size
      BY <1>3, <1>8, <1>9, <2>1 DEF s
    <3>2. Grained(s) /\ 0 < s /\ EndsOf(D, m)[b] = b + s
      BY <1>4, <3>1, EachBlock
    <3>3. Grained(m[z].size) /\ 0 < m[z].size /\ EndsOf(D, m)[z] = z + m[z].size
      BY <1>4, <3>1, EachBlock
    <3> QED
      BY <2>1, <3>2, <3>3
  <2>7. /\ Grained(sum) /\ ~ Used(sum) /\ Unmarked(sum) = sum
        /\ b + sum = z + m[z].size
    <3>1. Grained(sum)
      BY <1>5, <2>6 DEF Grained, sum
    <3>2. b + sum = z + m[z].size
      BY <1>3, <1>5, <2>1, AllInt, <1>4 DEF sum
    <3> QED
      BY <3>1, <3>2, GrainedMarks
  <2>8. /\ m2[b].size = sum
        /\ \A p \in D2 \ {b} : m2[p].size = m[p].size
    BY <2>1, <2>3, <2>4 DEF Merged, Apart
  <2>9. Free(D2, m2) = F \ {z}
    BY <1>8, <2>1, <2>3, <2>7, <2>8 DEF Free, F, Apart
  <2>10. TileMerges(Blocked(D), EndsOf(D, m), Bnexts(D, m), b, z, EndsOf(D2, m2), Bnexts(D2, m2))
    <3>1. \A x \in Blocked(D) \ {z} :
             EndsOf(D2, m2)[x] = IF x = b THEN EndsOf(D, m)[z] ELSE EndsOf(D, m)[x]
      <4> TAKE x \in Blocked(D) \ {z}
      <4>1. CASE x = b
        BY <1>3, <1>5, <2>1, <2>6, <2>7, <2>8, <4>1 DEF EndsOf, Blocked
      <4>2. CASE x # b
        BY <2>8, <4>2 DEF EndsOf, Blocked
      <4> QED
        BY <4>1, <4>2
    <3>2. \A x \in Blocked(D) \ {z} :
             Bnexts(D2, m2)[x] = IF x = b THEN Bnexts(D, m)[z] ELSE Bnexts(D, m)[x]
      BY <1>3, <2>4 DEF Bnexts, Merged, Blocked
    <3> QED
      BY <3>1, <3>2 DEF TileMerges
  <2>11. Tiles(Blocked(D2), EndsOf(D2, m2), Bnexts(D2, m2))
    <3>1. Blocked(D2) = Blocked(D) \ {z} /\ b \in Blocked(D) /\ z \in Blocked(D)
      BY <1>3, <2>1 DEF Blocked
    <3>2. Tiles(Blocked(D), EndsOf(D, m), Bnexts(D, m))
      BY <1>4 DEF Shaped
    <3> QED
      BY <2>6, <2>10, <3>1, <3>2, TilesMerge
  <2>12. m2[HeadAt].size = 0
    BY <1>2, <1>4, <2>1, <2>8
  <2>13. ASSUME NEW p \in D2, Used(m2[p].size)
         PROVE  m2[p].fprev = UserData /\ m2[p].fnext = NULL
    <3>1. p # b /\ p \notin F /\ m[p].fprev = UserData /\ m[p].fnext = NULL
      BY <1>4, <2>7, <2>8, <2>13 DEF Shaped, Free, F
    <3>2. m[z].fnext \in F
      BY <1>2, <2>1 DEF Circular
    <3> QED
      BY <2>4, <3>1, <3>2 DEF Merged
  <2>14. Well(D2, m2)
    BY <2>4, <2>5, <2>9, <2>11, <2>12, <2>13 DEF Well, Shaped
  <2>15. \A x \in D2 \ {b} : EndsOf(D2, m2)[x] = EndsOf(D, m)[x]
    BY <2>8 DEF EndsOf
  <2>16. EndsOf(D2, m2)[b] = EndsOf(D, m)[z]
    BY <2>1, <2>3, <2>10 DEF TileMerges, Blocked, Apart
  <2>17. m2[b].bprev = m[b].bprev
    BY <1>2, <2>1, <2>3, <2>4 DEF Merged, Apart
  <2>18. MergeStep(D, m, b, z, D2, m2)
    BY <2>1, <2>3, <2>6, <2>8, <2>9, <2>14, <2>15, <2>16, <2>17
       DEF MergeStep, Apart, F
  <2> QED
    BY <2>18 DEF m2, z
<1> QED
  BY <1>10, <1>11

-----------------------------------------------------------------------------
(* 16 bits: what the comparisons of find_block mean.                       *)
LEMMA Int16Fits ==
  ASSUME NEW x \in Int, -32768 <= x, x <= 65535
  PROVE  Int16(x) >= 0 <=> 0 <= x /\ x <= 32767
<1>1. CASE x < 0
  <2>1. x % 65536 = x + 65536
    BY <1>1
  <2> QED
    BY <1>1, <2>1 DEF Int16
<1>2. CASE x >= 0
  <2>1. x % 65536 = x
    BY <1>2
  <2> QED
    BY <1>2, <2>1 DEF Int16
<1> QED
  BY <1>1, <1>2

(* The rest of a block is compared as an int.                              *)
LEMMA Int16Rest ==
  ASSUME NEW x \in Int, 0 <= x, x <= 32767
  PROVE  Int16(x - SizeOfHead) < 0 <=> x < SizeOfHead
<1>1. SizeOfHead = 10
  BY DEF SizeOfHead
<1>2. PICK y \in Int : y = x - SizeOfHead
  BY <1>1
<1>3. Int16(y) >= 0 <=> 0 <= y /\ y <= 32767
  BY <1>1, <1>2, Int16Fits
<1>4. Int16(y) \in Int
  BY DEF Int16
<1> QED
  BY <1>1, <1>2, <1>3, <1>4

(* The block length that a request can need. *)
Need(size) == Grained(size) /\ 0 < size /\ size <= MaxInt

(* The two signed comparisons of __find_block decide what they should:     *)
(* sizes are below 32768.                                                  *)
LEMMA FitsMeans ==
  ASSUME NEW D, NEW m, Shaped(D, m), NEW b \in Free(D, m) \ {HeadAt},
         NEW size, Need(size)
  PROVE  /\ Fits(m, b, size) <=> size <= m[b].size /\ m[b].size - size <= MaxInt
         /\ Fits(m, b, size) =>
              (Int16(m[b].size - size - SizeOfHead) < 0 <=> m[b].size - size < SizeOfHead)
<1>1. /\ m[b].size \in Int /\ 0 < m[b].size /\ m[b].size <= MaxWord
      /\ size \in Int /\ 0 < size /\ size <= MaxInt
  <2>1. b \in D \ {HeadAt} /\ ~ Used(m[b].size)
    BY DEF Free
  <2> QED
    BY <2>1, EachBlock, WordFact DEF Need, Grained
<1>2. PICK x \in Int : x = m[b].size - size
  BY <1>1
<1>3. Int16(x) >= 0 <=> 0 <= x /\ x <= 32767
  BY <1>1, <1>2, WordFact, Int16Fits
<1>4. 0 <= x /\ x <= 32767 => (Int16(x - SizeOfHead) < 0 <=> x < SizeOfHead)
  BY Int16Rest
<1> QED
  BY <1>1, <1>2, <1>3, <1>4, WordFact DEF Fits

-----------------------------------------------------------------------------
(* find_block and the assignments of malloc that follow it take the whole  *)
(* block, or its head, and keep the heap well formed.                      *)
LEMMA TakeBlockWell ==
  ASSUME NEW D, NEW m, Well(D, m), NEW b \in Free(D, m) \ {HeadAt},
         NEW size, Need(size), Fits(m, b, size)
  PROVE  LET m2 == TakeBlock(m, b, size)
             nb == b + size
         IN  \/ /\ m[b].size - size < SizeOfHead
                /\ TakenWhole(D, m, b, m2)
                /\ Well(D, m2)
             \/ /\ m[b].size - size >= SizeOfHead
                /\ nb \notin D
                /\ TakenHead(D, m, b, nb, size, m2)
                /\ Well(D \cup {nb}, m2)
<1> DEFINE m2 == TakeBlock(m, b, size)
           nb == b + size
           F == Free(D, m)
           s == m[b].size
<1>1. PICK h : Lists(D, F, m, h)
  BY DEF Well
<1>2. Circular(D, F, m) /\ F \subseteq D /\ HeadAt \in F /\ HeadAt \in D
  BY <1>1, ListsCircular DEF Lists
<1>3. /\ D \subseteq Int /\ Headers(D, m) /\ Shaped(D, m) /\ m[HeadAt].size = 0
      /\ Tiles(Blocked(D), EndsOf(D, m), Bnexts(D, m))
      /\ \A p \in D : Used(m[p].size) => m[p].fprev = UserData /\ m[p].fnext = NULL
  BY AllInt DEF Well, Shaped
<1>4. b \in D /\ b # HeadAt /\ ~ Used(s) /\ b \in F
  BY DEF Free
<1>5. /\ b \in Int /\ Grained(b) /\ s \in Int /\ Grained(s) /\ 0 < s
      /\ EndsOf(D, m)[b] = b + s /\ ~ Used(s) /\ Unmarked(s) = s
      /\ Used(s + 1) /\ Unmarked(s + 1) = s
  <2>1. /\ b \in Int /\ Grained(b) /\ s \in Int /\ Grained(s) /\ 0 < s
        /\ EndsOf(D, m)[b] = b + s
    BY <1>3, <1>4, EachBlock
  <2> QED
    BY <2>1, GrainedMarks
<1>6. /\ size \in Int /\ Grained(size) /\ 0 < size /\ size <= s
      /\ ~ Used(size) /\ Used(size + 1) /\ Unmarked(size + 1) = size
      /\ Int16(s - size - SizeOfHead) < 0 <=> s - size < SizeOfHead
  BY <1>3, FitsMeans, GrainedMarks DEF Need, Grained
<1>7. /\ m[b].fnext \in D \ {b} /\ m[b].fprev \in D \ {b}
      /\ m[b].bnext \in D \ {b} /\ m[b].bprev \in D \ {b}
      /\ m[b].fnext \in F /\ m[b].fprev \in F
      /\ Linked(m, b)
  BY <1>2, <1>4 DEF Circular, Linked
<1>8. CASE s - size < SizeOfHead
  <2>1. m2 = TakeMarked(Unlink(m, b), b)
    BY <1>6, <1>8 DEF TakeBlock, TakeMarked
  <2> HIDE DEF m2, F, s
  <2>2. Headers(D, m2) /\ TakenWhole(D, m, b, m2)
    BY <1>3, <1>4, <1>7, <2>1, UnlinkTakes
  <2>3. Lists(D, F \ {b}, m2, h)
    BY <1>1, <1>4, <2>2, TakeWholeLists
  <2>4. m2[b].size = s + 1 /\ \A p \in D \ {b} : m2[p].size = m[p].size
    BY <1>4, <2>2 DEF TakenWhole, s
  <2>5. Free(D, m2) = F \ {b}
    BY <1>5, <2>4 DEF Free, F
  <2>6. EndsOf(D, m2) = EndsOf(D, m) /\ Bnexts(D, m2) = Bnexts(D, m)
    <3>1. \A p \in D : Unmarked(m2[p].size) = Unmarked(m[p].size)
      BY <1>5, <2>4 DEF s
    <3> QED
      BY <2>2, <3>1 DEF EndsOf, Bnexts, TakenWhole
  <2>7. ASSUME NEW p \in D, Used(m2[p].size)
        PROVE  m2[p].fprev = UserData /\ m2[p].fnext = NULL
    <3>1. CASE p = b
      BY <2>2, <3>1 DEF TakenWhole
    <3>2. CASE p # b
      <4>1. p \notin F /\ m[p].fprev = UserData /\ m[p].fnext = NULL
        BY <1>3, <2>4, <2>7, <3>2 DEF Free, F
      <4> QED
        BY <1>7, <2>2, <3>2, <4>1 DEF TakenWhole
    <3> QED
      BY <3>1, <3>2
  <2>8. m2[HeadAt].size = 0
    BY <1>2, <1>3, <1>4, <2>4
  <2>9. Well(D, m2)
    BY <1>3, <2>2, <2>3, <2>5, <2>6, <2>7, <2>8 DEF Well, Shaped
  <2> QED
    BY <1>8, <2>2, <2>9 DEF m2, s
<1>9. CASE ~ (s - size < SizeOfHead)
  <2> DEFINE rest == s - size
             D2 == D \cup {nb}
  <2>1. m2 = TakeMarked(Split(m, b, size), b)
    BY <1>6, <1>9 DEF TakeBlock, TakeMarked
  <2>2. /\ rest \in Int /\ rest > 0 /\ s - size >= SizeOfHead /\ nb \in Int
        /\ b < nb /\ nb < b + s /\ nb + rest = b + s /\ Grained(nb) /\ Grained(rest)
    BY <1>5, <1>6, <1>9 DEF SizeOfHead, Grained
  <2>3. ~ Used(rest) /\ Unmarked(rest) = rest
    BY <2>2, GrainedMarks
  <2>4. PICK e2 : e2 = [x \in D2 |-> IF x = b THEN nb ELSE IF x = nb THEN b + s
                                     ELSE EndsOf(D, m)[x]]
    OBVIOUS
  <2>5. PICK nx2 : nx2 = [x \in D2 |-> IF x = b THEN nb ELSE IF x = nb THEN m[b].bnext
                                       ELSE m[x].bnext]
    OBVIOUS
  <2> HIDE DEF m2, F, s, rest, nb
  <2>6. b # nb
    BY <1>5, <2>2
  <2>7. nb \notin D /\ Tiles(Blocked(D) \cup {nb}, e2, nx2) /\ nb # HeadAt
    <3>1. b \in Blocked(D) /\ EndsOf(D, m)[b] = b + s
      BY <1>4, <1>5 DEF Blocked
    <3>2. ASSUME nb \notin Blocked(D)
          PROVE  TileSplits(Blocked(D), EndsOf(D, m), Bnexts(D, m), b, nb, e2, nx2)
      BY <2>4, <2>5, <2>6, <3>1, <3>2 DEF TileSplits, Bnexts, Blocked
    <3>3. nb \notin Blocked(D)
      <4>1. \A x \in Blocked(D) : x \in Int /\ (b < x => b + s <= x)
        BY <1>3, <3>1 DEF Tiles, Blocked
      <4> QED
        BY <1>5, <2>2, <4>1
    <3>4. Tiles(Blocked(D) \cup {nb}, e2, nx2) /\ nb # HeadAt
      BY <1>3, <2>2, <3>1, <3>2, <3>3, TilesSplit
    <3> QED
      BY <3>3, <3>4 DEF Blocked
  <2>8. Headers(D2, m2) /\ TakenHead(D, m, b, nb, size, m2)
    <3>1. b + size \notin D
      BY <2>7 DEF nb
    <3> QED
      BY <1>3, <1>4, <1>6, <1>7, <2>1, <3>1, SplitTakes DEF nb
  <2>9. \E h2 : Lists(D2, (F \ {b}) \cup {nb}, m2, h2)
    BY <1>1, <1>4, <2>7, <2>8, TakeHeadLists
  <2>10. /\ m2[b].size = size + 1 /\ m2[nb].size = rest
         /\ \A p \in D \ {b} : m2[p].size = m[p].size
    BY <1>4, <2>6, <2>7, <2>8 DEF TakenHead, s, rest
  <2>11. Free(D2, m2) = (F \ {b}) \cup {nb}
    BY <1>6, <2>3, <2>6, <2>7, <2>10 DEF Free, F
  <2>12. EndsOf(D2, m2) = e2
    <3>1. e2[b] = b + Unmarked(m2[b].size) /\ e2[nb] = nb + Unmarked(m2[nb].size)
      BY <1>4, <1>6, <2>2, <2>3, <2>4, <2>6, <2>10 DEF nb
    <3>2. \A p \in D \ {b} : e2[p] = p + Unmarked(m2[p].size)
      BY <2>4, <2>7, <2>10 DEF EndsOf
    <3>3. \A p \in D2 : e2[p] = p + Unmarked(m2[p].size)
      BY <3>1, <3>2
    <3> QED
      BY <2>4, <3>3 DEF EndsOf
  <2>13. Bnexts(D2, m2) = nx2
    BY <2>5, <2>7, <2>8 DEF Bnexts, TakenHead
  <2>14. Blocked(D2) = Blocked(D) \cup {nb}
    BY <2>7 DEF Blocked
  <2>15. ASSUME NEW p \in D2, Used(m2[p].size)
         PROVE  m2[p].fprev = UserData /\ m2[p].fnext = NULL
    <3>1. CASE p = b
      BY <2>8, <3>1 DEF TakenHead
    <3>2. CASE p # b
      <4>1. p \in D /\ p # nb
        BY <2>3, <2>7, <2>10, <2>15
      <4>2. p \notin F /\ m[p].fprev = UserData /\ m[p].fnext = NULL
        BY <1>3, <2>10, <2>15, <3>2, <4>1 DEF Free, F
      <4> QED
        BY <1>7, <2>8, <3>2, <4>1, <4>2 DEF TakenHead
    <3> QED
      BY <3>1, <3>2
  <2>16. m2[HeadAt].size = 0
    BY <1>2, <1>3, <1>4, <2>10
  <2>17. Well(D2, m2)
    BY <2>7, <2>8, <2>9, <2>11, <2>12, <2>13, <2>14, <2>15, <2>16 DEF Well, Shaped
  <2> QED
    BY <2>2, <2>7, <2>8, <2>17 DEF m2, s, nb
<1> QED
  BY <1>8, <1>9

-----------------------------------------------------------------------------
(* What separate areas add: every block lies in one of them, and two free  *)
(* blocks never touch.                                                     *)
Held(D, m) ==
  \A b \in Blocked(D) : \E i \in 1 .. Len(Areas) :
    Areas[i].at <= b /\ EndsOf(D, m)[b] <= Areas[i].at + Areas[i].size

Touching(D, m, a, c) ==
  /\ a \in Free(D, m) \ {HeadAt} /\ c \in Free(D, m) \ {HeadAt}
  /\ EndsOf(D, m)[a] = c

NoTouch(D, m) == \A a, c \in D : ~ Touching(D, m, a, c)

(* In separate areas, the block where another ends is its neighbour on the *)
(* block list.                                                             *)
LEMMA HeldFollows ==
  ASSUME AreasApart, NEW D, NEW m, Shaped(D, m), Held(D, m),
         NEW b \in Blocked(D), NEW c \in Blocked(D), EndsOf(D, m)[b] = c
  PROVE  m[b].bnext = c
<1>1. Tiles(Blocked(D), EndsOf(D, m), Bnexts(D, m))
  BY DEF Shaped
<1>2. EndsOf(D, m)[b] \in AreaEnds \/ EndsOf(D, m)[b] = m[b].bnext
  BY <1>1 DEF Tiles, Bnexts, Blocked
<1>3. ASSUME NEW i \in 1 .. Len(Areas), c = Areas[i].at + Areas[i].size
      PROVE  FALSE
  <2>1. PICK j \in 1 .. Len(Areas) :
          Areas[j].at <= c /\ EndsOf(D, m)[c] <= Areas[j].at + Areas[j].size
    BY DEF Held
  <2>2. c \in Int /\ EndsOf(D, m)[c] \in Int /\ c < EndsOf(D, m)[c]
    BY <1>1 DEF Tiles, Grained
  <2>3. /\ Areas[i].at \in Int /\ Areas[i].size \in Int /\ Areas[i].size > 0
        /\ Areas[j].at \in Int /\ Areas[j].size \in Int
    BY EachArea DEF Area
  <2>4. CASE i = j
    BY <1>3, <2>1, <2>2, <2>3, <2>4
  <2>5. CASE i # j
    <3>1. \/ Areas[i].at + Areas[i].size < Areas[j].at
          \/ Areas[j].at + Areas[j].size < Areas[i].at
      BY <2>5 DEF AreasApart
    <3> QED
      BY <1>3, <2>1, <2>2, <2>3, <3>1
  <2> QED
    BY <2>4, <2>5
<1> QED
  BY <1>2, <1>3 DEF AreaEnds

(* A merge leaves every block inside one area.                             *)
LEMMA MergeHeld ==
  ASSUME AreasApart, NEW D, NEW m, Shaped(D, m), Held(D, m), NEW b, NEW z, NEW D2, NEW m2,
         MergeStep(D, m, b, z, D2, m2)
  PROVE  Held(D2, m2)
<1>1. /\ b \in Blocked(D) /\ z \in Blocked(D) /\ Blocked(D2) = Blocked(D) \ {z} /\ b \in Blocked(D2)
      /\ EndsOf(D, m)[b] = z
      /\ EndsOf(D2, m2)[b] = EndsOf(D, m)[z]
      /\ \A x \in Blocked(D2) \ {b} : EndsOf(D2, m2)[x] = EndsOf(D, m)[x]
  BY DEF MergeStep, Blocked, Free
<1>2. Tiles(Blocked(D), EndsOf(D, m), Bnexts(D, m))
  BY DEF Shaped
<1>3. \E i \in 1 .. Len(Areas) :
        Areas[i].at <= b /\ EndsOf(D, m)[z] <= Areas[i].at + Areas[i].size
  <2>1. PICK i \in 1 .. Len(Areas) :
          Areas[i].at <= b /\ z <= Areas[i].at + Areas[i].size
    BY <1>1 DEF Held
  <2>2. PICK j \in 1 .. Len(Areas) :
          Areas[j].at <= z /\ EndsOf(D, m)[z] <= Areas[j].at + Areas[j].size
    BY <1>1 DEF Held
  <2>3. b \in Int /\ z \in Int /\ EndsOf(D, m)[z] \in Int /\ b < z /\ z < EndsOf(D, m)[z]
    BY <1>1, <1>2 DEF Tiles, Grained
  <2>4. /\ Areas[i].at \in Int /\ Areas[i].size \in Int
        /\ Areas[j].at \in Int /\ Areas[j].size \in Int
    BY EachArea DEF Area
  <2>5. i # j => \/ Areas[i].at + Areas[i].size < Areas[j].at
                 \/ Areas[j].at + Areas[j].size < Areas[i].at
    BY DEF AreasApart
  <2>6. i = j
    BY <2>1, <2>2, <2>3, <2>4, <2>5
  <2> QED
    BY <2>1, <2>2, <2>6
<1> QED
  BY <1>1, <1>3 DEF Held

(* Taking a block keeps the blocks in their areas and apart.               *)
LEMMA TakeHeld ==
  ASSUME NEW D, NEW m, Well(D, m), NEW b \in Free(D, m) \ {HeadAt},
         NEW size, Need(size), NEW m2,
         Held(D, m), NoTouch(D, m),
         \/ TakenWhole(D, m, b, m2) /\ Well(D, m2)
         \/ /\ m[b].size - size >= SizeOfHead /\ b + size \notin D
            /\ TakenHead(D, m, b, b + size, size, m2) /\ Well(D \cup {b + size}, m2)
  PROVE  LET D2 == IF TakenWhole(D, m, b, m2) /\ Well(D, m2) THEN D ELSE D \cup {b + size}
         IN  Held(D2, m2) /\ NoTouch(D2, m2)
<1> DEFINE nb == b + size
           D2 == D \cup {nb}
<1>1. /\ b \in D /\ b # HeadAt /\ ~ Used(m[b].size)
      /\ Shaped(D, m) /\ b \in Blocked(D) /\ HeadAt \in D
  BY DEF Free, Well, Blocked, Lists
<1>2. /\ b \in Int /\ m[b].size \in Int /\ Grained(m[b].size)
      /\ EndsOf(D, m)[b] = b + m[b].size /\ Unmarked(m[b].size) = m[b].size
      /\ Used(m[b].size + 1) /\ Unmarked(m[b].size + 1) = m[b].size
  BY <1>1, EachBlock, GrainedMarks
<1>3. size \in Int /\ 0 < size /\ Used(size + 1) /\ Unmarked(size + 1) = size
  BY GrainedMarks DEF Need, Grained
<1>4. CASE TakenWhole(D, m, b, m2) /\ Well(D, m2)
  <2>1. m2[b].size = m[b].size + 1 /\ \A p \in D \ {b} : m2[p].size = m[p].size
    BY <1>1, <1>4 DEF TakenWhole
  <2>2. EndsOf(D, m2) = EndsOf(D, m)
    <3>1. \A p \in D : Unmarked(m2[p].size) = Unmarked(m[p].size)
      BY <1>2, <2>1
    <3> QED
      BY <3>1 DEF EndsOf
  <2>3. Free(D, m2) \subseteq Free(D, m)
    BY <1>2, <2>1 DEF Free
  <2> QED
    BY <1>4, <2>2, <2>3 DEF Held, NoTouch, Touching
<1>5. CASE ~ (TakenWhole(D, m, b, m2) /\ Well(D, m2))
  <2>1. /\ m[b].size - size >= SizeOfHead /\ nb \notin D
        /\ TakenHead(D, m, b, nb, size, m2) /\ Well(D2, m2)
    BY <1>5
  <2>2. nb \in Int /\ b < nb /\ nb < b + m[b].size /\ b # nb /\ nb # HeadAt
    BY <1>1, <1>2, <1>3, <2>1 DEF SizeOfHead
  <2> HIDE DEF nb
  <2>3. /\ m2[b].size = size + 1 /\ m2[nb].size = m[b].size - size
        /\ \A p \in D \ {b} : m2[p].size = m[p].size
    BY <1>1, <2>1, <2>2 DEF TakenHead
  <2>4. /\ EndsOf(D2, m2)[b] = nb
        /\ EndsOf(D2, m2)[nb] = EndsOf(D, m)[b]
        /\ \A p \in D \ {b} : EndsOf(D2, m2)[p] = EndsOf(D, m)[p]
    <3>1. Grained(m[b].size - size)
      BY <1>2 DEF Need, Grained
    <3>2. Unmarked(m2[nb].size) = m[b].size - size
      BY <2>3, <3>1, GrainedMarks
    <3>3. nb + (m[b].size - size) = b + m[b].size
      BY <1>2, <1>3 DEF nb
    <3> QED
      BY <1>1, <1>2, <1>3, <2>1, <2>3, <3>2, <3>3 DEF EndsOf, nb
  <2>5. Free(D2, m2) \subseteq (Free(D, m) \ {b}) \cup {nb}
    BY <1>3, <2>1, <2>3 DEF Free
  <2>6. Blocked(D2) = Blocked(D) \cup {nb}
    BY <2>2 DEF Blocked
  <2>7. Held(D2, m2)
    <3> SUFFICES ASSUME NEW x \in Blocked(D2)
                 PROVE  \E i \in 1 .. Len(Areas) :
                          /\ Areas[i].at <= x
                          /\ EndsOf(D2, m2)[x] <= Areas[i].at + Areas[i].size
      BY DEF Held
    <3>1. PICK i \in 1 .. Len(Areas) :
            Areas[i].at <= b /\ EndsOf(D, m)[b] <= Areas[i].at + Areas[i].size
      BY <1>1 DEF Held
    <3>2. Areas[i].at \in Int /\ Areas[i].size \in Int
      BY EachArea DEF Area
    <3>3. CASE x = b
      BY <1>2, <2>2, <2>4, <3>1, <3>2, <3>3
    <3>4. CASE x = nb
      <4>1. Areas[i].at <= nb
        BY <1>2, <2>2, <3>1, <3>2
      <4>2. EndsOf(D2, m2)[nb] <= Areas[i].at + Areas[i].size
        BY <2>4, <3>1
      <4> QED
        BY <3>4, <4>1, <4>2
    <3>5. CASE x # b /\ x # nb
      <4>1. x \in Blocked(D) /\ x \in D \ {b}
        BY <2>6, <3>5 DEF Blocked
      <4>2. EndsOf(D2, m2)[x] = EndsOf(D, m)[x]
        BY <2>4, <4>1
      <4> QED
        BY <4>1, <4>2 DEF Held
    <3> QED
      BY <3>3, <3>4, <3>5
  <2>8. NoTouch(D2, m2)
    <3> SUFFICES ASSUME NEW x, NEW y, Touching(D2, m2, x, y)
                 PROVE  FALSE
      BY DEF NoTouch
    <3>1. /\ x \in (Free(D, m) \ {b}) \cup {nb} /\ x # HeadAt
          /\ y \in (Free(D, m) \ {b}) \cup {nb} /\ y # HeadAt
          /\ EndsOf(D2, m2)[x] = y
      BY <2>5 DEF Touching
    <3>2. Tiles(Blocked(D), EndsOf(D, m), Bnexts(D, m))
      BY <1>1 DEF Shaped
    <3>3. \A p \in Blocked(D) : /\ p \in Int /\ EndsOf(D, m)[p] \in Int /\ p < EndsOf(D, m)[p]
                                /\ b < p => EndsOf(D, m)[b] <= p
                                /\ p < b => EndsOf(D, m)[p] <= b
      BY <1>1, <3>2 DEF Tiles, Grained
    <3>4. \A p \in Free(D, m) \ {HeadAt} : p \in D /\ p \in Blocked(D)
      BY DEF Free, Blocked
    <3>5. CASE x = nb /\ y = nb
      BY <1>2, <2>2, <2>4, <3>1, <3>5
    <3>6. CASE x = nb /\ y # nb
      <4>1. Touching(D, m, b, y)
        BY <2>4, <3>1, <3>6 DEF Touching
      <4> QED
        BY <1>1, <3>1, <3>4, <3>6, <4>1 DEF NoTouch
    <3>7. CASE x # nb /\ y = nb
      <4>1. /\ x \in Free(D, m) \ {HeadAt} /\ x # b /\ x \in D \ {b} /\ x \in Blocked(D)
        BY <3>1, <3>4, <3>7
      <4>2. EndsOf(D, m)[x] = nb
        BY <2>4, <3>1, <3>7, <4>1
      <4>3. x < b => FALSE
        BY <2>2, <1>2, <3>3, <4>1, <4>2
      <4>4. b < x => FALSE
        BY <2>2, <1>2, <3>3, <4>1, <4>2
      <4> QED
        BY <1>2, <3>3, <4>1, <4>3, <4>4
    <3>8. CASE x # nb /\ y # nb
      <4>1. Touching(D, m, x, y)
        BY <2>4, <3>1, <3>4, <3>8 DEF Touching
      <4> QED
        BY <3>1, <3>4, <3>8, <4>1 DEF NoTouch
    <3> QED
      BY <3>5, <3>6, <3>7, <3>8
  <2> QED
    BY <1>5, <2>7, <2>8 DEF nb
<1> QED
  BY <1>4, <1>5

-----------------------------------------------------------------------------
(* free.                                                                   *)
UsedIn(D, m) == {p \in D : Used(m[p].size)}

(* In a well formed heap __chk_block_header accepts exactly the used       *)
(* blocks and returns their sizes.                                         *)
LEMMA CheckedSizes ==
  ASSUME NEW D, NEW m, Well(D, m), NEW b \in D \ {HeadAt}
  PROVE  CheckedSize(m, b) = IF Used(m[b].size) THEN Unmarked(m[b].size) ELSE 0
<1>1. PICK h : Lists(D, Free(D, m), m, h)
  BY DEF Well
<1>2. Circular(D, Free(D, m), m)
  BY <1>1, ListsCircular
<1>3. m[m[b].bnext].bprev = b /\ m[m[b].bprev].bnext = b
  BY <1>2 DEF Circular
<1> QED
  BY <1>3 DEF CheckedSize

(* The block is marked free and put on the free list.                      *)
Unmark(m, b) == FreeBlock([m EXCEPT ![b].size = CheckedSize(m, b)], b)

(* free first clears the mark: the block is then one of the free ones, not *)
(* yet on their list.                                                      *)
LEMMA UnmarkWell ==
  ASSUME NEW D, NEW m, Well(D, m), NEW b \in UsedIn(D, m), NEW m1, m1 = Unmark(m, b)
  PROVE  /\ Well(D, m1) /\ b # HeadAt /\ b \in Free(D, m1)
         /\ EndsOf(D, m1) = EndsOf(D, m)
         /\ \A p \in D \ {b} : m1[p].size = m[p].size
         /\ Free(D, m1) = Free(D, m) \cup {b}
<1> DEFINE n == CheckedSize(m, b)
           F == Free(D, m)
<1>1. PICK h : Lists(D, F, m, h)
  BY DEF Well
<1>2. /\ HeadAt \in D /\ Headers(D, m) /\ m[HeadAt].size = 0 /\ Shaped(D, m)
      /\ D \subseteq Int
      /\ Tiles(Blocked(D), EndsOf(D, m), Bnexts(D, m))
      /\ \A p \in D : Used(m[p].size) => m[p].fprev = UserData /\ m[p].fnext = NULL
  BY <1>1, AllInt DEF Well, Shaped, Lists, Heights
<1>3. b \in D /\ b # HeadAt /\ Used(m[b].size)
  BY <1>2 DEF UsedIn, Used
<1>4. n = Unmarked(m[b].size)
  BY <1>3, CheckedSizes
<1>5. Grained(n) /\ n \in Int /\ ~ Used(n) /\ Unmarked(n) = n
  BY <1>2, <1>3, <1>4, EachBlock, GrainedMarks
<1> HIDE DEF n, F
<1>6. PICK m0 : m0 = SetSize(m, b, n)
  OBVIOUS
<1>7. Headers(D, m0) /\ SizeSet(D, m, b, n, m0)
  <2>1. Field(n)
    BY <1>5 DEF Field
  <2> QED
    BY <1>2, <1>3, <1>6, <2>1, SetSizeSets
<1>8. m1 = FreeBlock(m0, b)
  BY <1>6 DEF Unmark, SetSize, n
<1>9. Free(D, m0) = F \cup {b} /\ b \notin F
  BY <1>3, <1>5, <1>7 DEF Free, F, SizeSet
<1>10. Lists(D, F, m0, h)
  <2>1. /\ Bnexts(D, m0) = Bnexts(D, m) /\ Bprevs(D, m0) = Bprevs(D, m)
        /\ Fnexts(D, m0) = Fnexts(D, m) /\ Fprevs(D, m0) = Fprevs(D, m)
    BY <1>7 DEF SizeSet, Bnexts, Bprevs, Fnexts, Fprevs
  <2> QED
    BY <1>1, <2>1 DEF Lists
<1>11. m0[HeadAt].size = 0
  BY <1>2, <1>3, <1>7 DEF SizeSet
<1>12. F = Free(D, m0) \ {b} /\ b \in Free(D, m0) \ {HeadAt}
  BY <1>3, <1>9
<1>13. PICK pb, pa \in F :
         /\ Headers(D, m1) /\ LinkedFree(D, m0, b, pb, pa, m1)
         /\ Lists(D, Free(D, m0), m1, h)
  <2>1. Lists(D, Free(D, m0) \ {b}, m0, h)
    BY <1>10, <1>12
  <2>2. \E pb, pa \in Free(D, m0) \ {b} :
          LET m2 == FreeBlock(m0, b)
          IN  /\ Headers(D, m2) /\ LinkedFree(D, m0, b, pb, pa, m2)
              /\ Lists(D, Free(D, m0), m2, h)
    BY <1>2, <1>7, <1>11, <1>12, <2>1, FreeBlockLists
  <2> QED
    BY <1>8, <1>12, <2>2
<1>14. \A p \in D : m1[p].size = IF p = b THEN n ELSE m[p].size
  BY <1>7, <1>13 DEF LinkedFree, SizeSet
<1>15. Free(D, m1) = F \cup {b}
  BY <1>5, <1>9, <1>14 DEF Free, F
<1>16. EndsOf(D, m1) = EndsOf(D, m)
  <2>1. \A p \in D : Unmarked(m1[p].size) = Unmarked(m[p].size)
    BY <1>4, <1>5, <1>14
  <2> QED
    BY <2>1 DEF EndsOf
<1>17. Bnexts(D, m1) = Bnexts(D, m)
  <2>1. \A p \in D : m1[p].bnext = m[p].bnext
    BY <1>7, <1>13 DEF LinkedFree, SizeSet
  <2> QED
    BY <2>1 DEF Bnexts
<1>18. ASSUME NEW p \in D, Used(m1[p].size)
       PROVE  m1[p].fprev = UserData /\ m1[p].fnext = NULL
  <2>1. p # b /\ p \notin F /\ m[p].fprev = UserData /\ m[p].fnext = NULL
    BY <1>2, <1>5, <1>14, <1>18 DEF Free, F
  <2> QED
    BY <1>7, <1>13, <2>1 DEF LinkedFree, SizeSet
<1>19. m1[HeadAt].size = 0
  BY <1>2, <1>3, <1>14
<1>20. Well(D, m1)
  BY <1>2, <1>9, <1>13, <1>15, <1>16, <1>17, <1>18, <1>19 DEF Well, Shaped
<1> QED
  BY <1>3, <1>14, <1>15, <1>16, <1>20 DEF F

-----------------------------------------------------------------------------
(* free: the block goes back to the free list and is merged with the       *)
(* blocks on both sides of it.                                             *)

(* The heap D2, m2 is D, m without its used block b.                       *)
FreedTo(D, m, b, D2, m2) ==
  /\ D2 \subseteq D /\ Well(D2, m2)
  /\ UsedIn(D2, m2) = UsedIn(D, m) \ {b}
  /\ \A p \in UsedIn(D2, m2) : m2[p].size = m[p].size

Tidy(D, m) == Held(D, m) /\ NoTouch(D, m)

(* A merge leaves the used blocks alone.                                   *)
LEMMA MergeUsed ==
  ASSUME NEW D, NEW m, NEW b, NEW z, NEW D2, NEW m2, MergeStep(D, m, b, z, D2, m2)
  PROVE  /\ D2 \subseteq D /\ b \in D2 /\ Well(D2, m2)
         /\ UsedIn(D2, m2) = UsedIn(D, m)
         /\ \A p \in UsedIn(D2, m2) : m2[p].size = m[p].size
<1>1. UsedIn(D, m) = D \ Free(D, m) /\ UsedIn(D2, m2) = D2 \ Free(D2, m2)
  BY DEF UsedIn, Free
<1>2. /\ b \in Free(D, m) /\ z \in Free(D, m) /\ b # z /\ D2 = D \ {z}
      /\ Free(D2, m2) = Free(D, m) \ {z} /\ Well(D2, m2)
      /\ \A x \in D2 \ {b} : m2[x].size = m[x].size
  BY DEF MergeStep
<1>3. b \in D /\ z \in D
  BY <1>2 DEF Free
<1> QED
  BY <1>1, <1>2, <1>3

(* Where two free blocks touch while free is at work.                      *)
OnlyAround(D, m, b) == \A x, y \in D : Touching(D, m, x, y) => x = b \/ y = b
OnlyBefore(D, m, b) == \A x, y \in D : Touching(D, m, x, y) => y = b

(* Free blocks that touch are neighbours on the block list.                *)
LEMMA TouchFollows ==
  ASSUME AreasApart, NEW D, NEW m, Well(D, m), Held(D, m), NEW x, NEW y, Touching(D, m, x, y)
  PROVE  m[x].bnext = y /\ m[y].bprev = x
<1>1. x \in Blocked(D) /\ y \in Blocked(D) /\ EndsOf(D, m)[x] = y /\ Shaped(D, m)
  BY DEF Touching, Free, Blocked, Well
<1>2. m[x].bnext = y
  BY <1>1, HeldFollows
<1>3. PICK h : Lists(D, Free(D, m), m, h)
  BY DEF Well
<1>4. Circular(D, Free(D, m), m)
  BY <1>3, ListsCircular
<1> QED
  BY <1>1, <1>2, <1>4 DEF Circular, Blocked

(* After the first merge no free block touches the end of b.               *)
LEMMA FirstMerge ==
  ASSUME AreasApart, NEW D, NEW m, Well(D, m), Held(D, m),
         NEW b \in Free(D, m) \ {HeadAt}, OnlyAround(D, m, b),
         NEW z, z = m[b].bnext, NEW D2, NEW m2,
         \/ /\ D2 = D /\ m2 = m
            /\ ~ (/\ b \in Free(D, m) \ {HeadAt} /\ z \in Free(D, m) \ {HeadAt}
                  /\ EndsOf(D, m)[b] = z)
         \/ MergeStep(D, m, b, z, D2, m2)
  PROVE  Held(D2, m2) /\ OnlyBefore(D2, m2, b)
<1>1. CASE /\ D2 = D /\ m2 = m
           /\ ~ (/\ b \in Free(D, m) \ {HeadAt} /\ z \in Free(D, m) \ {HeadAt}
                 /\ EndsOf(D, m)[b] = z)
  <2> SUFFICES ASSUME NEW x \in D, NEW y \in D, Touching(D, m, x, y), y # b
               PROVE  FALSE
    BY <1>1 DEF OnlyBefore
  <2>1. x = b
    BY DEF OnlyAround
  <2>2. y = z
    BY <2>1, TouchFollows
  <2> QED
    BY <1>1, <2>1, <2>2 DEF Touching
<1>2. CASE MergeStep(D, m, b, z, D2, m2)
  <2>1. Held(D2, m2)
    BY <1>2, MergeHeld DEF Well
  <2>2. ASSUME NEW x \in D2, NEW y \in D2, Touching(D2, m2, x, y), y # b
        PROVE  FALSE
    <3>1. /\ b # z /\ z \in Free(D, m) \ {HeadAt} /\ D2 = D \ {z}
          /\ Free(D2, m2) = Free(D, m) \ {z} /\ EndsOf(D2, m2)[b] = EndsOf(D, m)[z]
          /\ \A p \in D2 \ {b} : EndsOf(D2, m2)[p] = EndsOf(D, m)[p]
      BY <1>2 DEF MergeStep
    <3>2. /\ x \in Free(D, m) \ {HeadAt} /\ x # z /\ y \in Free(D, m) \ {HeadAt} /\ y # z
          /\ EndsOf(D2, m2)[x] = y /\ z \in D
      BY <2>2, <3>1 DEF Touching, Free
    <3>3. CASE x = b
      <4>1. Touching(D, m, z, y)
        BY <3>1, <3>2, <3>3 DEF Touching
      <4> QED
        BY <2>2, <3>1, <3>2, <4>1 DEF OnlyAround
    <3>4. CASE x # b
      <4>1. Touching(D, m, x, y)
        BY <3>1, <3>2, <3>4 DEF Touching
      <4> QED
        BY <2>2, <3>1, <3>4, <4>1 DEF OnlyAround
    <3> QED
      BY <3>3, <3>4
  <2> QED
    BY <2>1, <2>2 DEF OnlyBefore
<1> QED
  BY <1>1, <1>2

(* After the second none touches its start either.                         *)
LEMMA SecondMerge ==
  ASSUME AreasApart, NEW D, NEW m, Well(D, m), Held(D, m),
         NEW b \in D, OnlyBefore(D, m, b), NEW a, a = m[b].bprev, m[a].bnext = b,
         NEW D2, NEW m2,
         \/ /\ D2 = D /\ m2 = m
            /\ ~ (/\ a \in Free(D, m) \ {HeadAt} /\ b \in Free(D, m) \ {HeadAt}
                  /\ EndsOf(D, m)[a] = b)
         \/ MergeStep(D, m, a, b, D2, m2)
  PROVE  Held(D2, m2) /\ NoTouch(D2, m2)
<1>1. CASE /\ D2 = D /\ m2 = m
           /\ ~ (/\ a \in Free(D, m) \ {HeadAt} /\ b \in Free(D, m) \ {HeadAt}
                 /\ EndsOf(D, m)[a] = b)
  <2> SUFFICES ASSUME NEW x \in D, NEW y \in D, Touching(D, m, x, y)
               PROVE  FALSE
    BY <1>1 DEF NoTouch
  <2>1. y = b
    BY DEF OnlyBefore
  <2>2. x = a
    BY <2>1, TouchFollows
  <2> QED
    BY <1>1, <2>1, <2>2 DEF Touching
<1>2. CASE MergeStep(D, m, a, b, D2, m2)
  <2>1. Held(D2, m2)
    BY <1>2, MergeHeld DEF Well
  <2>2. ASSUME NEW x \in D2, NEW y \in D2, Touching(D2, m2, x, y)
        PROVE  FALSE
    <3>1. /\ a # b /\ b \in Free(D, m) \ {HeadAt} /\ D2 = D \ {b}
          /\ Free(D2, m2) = Free(D, m) \ {b} /\ EndsOf(D2, m2)[a] = EndsOf(D, m)[b]
          /\ \A p \in D2 \ {a} : EndsOf(D2, m2)[p] = EndsOf(D, m)[p]
      BY <1>2 DEF MergeStep
    <3>2. /\ x \in Free(D, m) \ {HeadAt} /\ y \in Free(D, m) \ {HeadAt} /\ y # b
          /\ EndsOf(D2, m2)[x] = y
      BY <2>2, <3>1 DEF Touching
    <3>3. CASE x = a
      <4>1. Touching(D, m, b, y)
        BY <3>1, <3>2, <3>3 DEF Touching
      <4> QED
        BY <2>2, <3>1, <3>2, <4>1 DEF OnlyBefore
    <3>4. CASE x # a
      <4>1. Touching(D, m, x, y)
        BY <2>2, <3>1, <3>2, <3>4 DEF Touching
      <4> QED
        BY <2>2, <3>1, <3>2, <4>1 DEF OnlyBefore
    <3> QED
      BY <3>3, <3>4
  <2> QED
    BY <2>1, <2>2 DEF NoTouch
<1> QED
  BY <1>1, <1>2

(* free returns a used block to the heap, and leaves the other used blocks *)
(* as they are; if no two free blocks touched, none do after it.           *)
LEMMA FreedWell ==
  ASSUME NEW D, NEW m, Well(D, m), NEW b \in UsedIn(D, m)
  PROVE  \E D2 : /\ FreedTo(D, m, b, D2, Freed(m, b))
                 /\ AreasApart /\ Tidy(D, m) => Tidy(D2, Freed(m, b))
<1>1. PICK m1 : m1 = Unmark(m, b)
  OBVIOUS
<1>2. /\ Well(D, m1) /\ b # HeadAt /\ b \in Free(D, m1)
      /\ EndsOf(D, m1) = EndsOf(D, m)
      /\ \A p \in D \ {b} : m1[p].size = m[p].size
      /\ Free(D, m1) = Free(D, m) \cup {b}
  BY <1>1, UnmarkWell
<1>3. /\ b \in D /\ UsedIn(D, m1) = UsedIn(D, m) \ {b}
      /\ \A p \in UsedIn(D, m1) : m1[p].size = m[p].size
  BY <1>2 DEF UsedIn, Free
<1>4. PICK m2 : m2 = TryMergeWithNext(m1, b)
  OBVIOUS
<1>5. PICK z : z = m1[b].bnext
  OBVIOUS
<1>6. \/ /\ m2 = m1
         /\ ~ (/\ b \in Free(D, m1) \ {HeadAt} /\ z \in Free(D, m1) \ {HeadAt}
               /\ EndsOf(D, m1)[b] = z)
      \/ MergeStep(D, m1, b, z, D \ {z}, m2)
  BY <1>2, <1>3, <1>4, <1>5, TryMergeWell
<1>7. PICK D2 : \/ /\ D2 = D /\ m2 = m1
                   /\ ~ (/\ b \in Free(D, m1) \ {HeadAt} /\ z \in Free(D, m1) \ {HeadAt}
                         /\ EndsOf(D, m1)[b] = z)
                \/ MergeStep(D, m1, b, z, D2, m2)
  BY <1>6
<1>8. /\ D2 \subseteq D /\ b \in D2 /\ Well(D2, m2)
      /\ UsedIn(D2, m2) = UsedIn(D, m1)
      /\ \A p \in UsedIn(D2, m2) : m2[p].size = m1[p].size
  BY <1>2, <1>3, <1>7, MergeUsed
<1>9. PICK a : a = m2[b].bprev
  OBVIOUS
<1>10. a \in D2 /\ m2[a].bnext = b
  <2>1. PICK h : Lists(D2, Free(D2, m2), m2, h)
    BY <1>8 DEF Well
  <2>2. Circular(D2, Free(D2, m2), m2)
    BY <2>1, ListsCircular
  <2> QED
    BY <1>8, <1>9, <2>2 DEF Circular
<1>11. PICK m3 : m3 = TryMergeWithNext(m2, a)
  OBVIOUS
<1>12. m3 = Freed(m, b)
  BY <1>1, <1>4, <1>9, <1>11 DEF Freed, Unmark
<1>13. \/ /\ m3 = m2
          /\ ~ (/\ a \in Free(D2, m2) \ {HeadAt} /\ b \in Free(D2, m2) \ {HeadAt}
                /\ EndsOf(D2, m2)[a] = b)
       \/ MergeStep(D2, m2, a, b, D2 \ {b}, m3)
  BY <1>2, <1>8, <1>10, <1>11, TryMergeWell
<1>14. PICK D3 : \/ /\ D3 = D2 /\ m3 = m2
                    /\ ~ (/\ a \in Free(D2, m2) \ {HeadAt} /\ b \in Free(D2, m2) \ {HeadAt}
                          /\ EndsOf(D2, m2)[a] = b)
                 \/ MergeStep(D2, m2, a, b, D3, m3)
  BY <1>13
<1>15. /\ D3 \subseteq D2 /\ Well(D3, m3)
       /\ UsedIn(D3, m3) = UsedIn(D2, m2)
       /\ \A p \in UsedIn(D3, m3) : m3[p].size = m2[p].size
  BY <1>8, <1>14, MergeUsed
<1>16. FreedTo(D, m, b, D3, m3)
  BY <1>3, <1>8, <1>15 DEF FreedTo
<1>17. ASSUME AreasApart, Tidy(D, m)
       PROVE  Tidy(D3, m3)
  <2>1. Held(D, m1)
    BY <1>2, <1>17 DEF Tidy, Held
  <2>2. OnlyAround(D, m1, b)
    BY <1>2, <1>17 DEF Tidy, NoTouch, Touching, OnlyAround
  <2>3. Held(D2, m2) /\ OnlyBefore(D2, m2, b)
    BY <1>2, <1>5, <1>7, <1>17, <2>1, <2>2, FirstMerge
  <2>4. Held(D3, m3) /\ NoTouch(D3, m3)
    BY <1>8, <1>9, <1>10, <1>14, <1>17, <2>3, SecondMerge
  <2> QED
    BY <2>4 DEF Tidy
<1> QED
  BY <1>12, <1>16, <1>17

-----------------------------------------------------------------------------
(* malloc_init: the areas of the chain of the linker enter both lists one  *)
(* by one, each right after head.                                          *)

Heads == {HeadAt} \cup Starts
Placed(k) == {HeadAt} \cup {Areas[i].at : i \in 1 .. k}

(* The index of an area is its height in the rings.                        *)
Indexed(H) == /\ H[HeadAt] = 0
              /\ \A i \in 1 .. Len(Areas) : H[Areas[i].at] = i

(* What is true of the memory when k areas have been listed.               *)
NoneUsed(D, m) == \A p \in D : ~ Used(m[p].size)
Sized(m) == /\ m[HeadAt].size = 0
            /\ \A i \in 1 .. Len(Areas) : m[Areas[i].at].size = Areas[i].size
Within(D, m) == \A p \in D : /\ m[p].bnext \in D \cup {NULL} /\ m[p].bprev \in D \cup {NULL}
                             /\ m[p].fnext \in D \cup {NULL} /\ m[p].fprev \in D \cup {NULL}
Linking(k, m) ==
  /\ Headers(Heads, m) /\ NoneUsed(Heads, m) /\ Sized(m) /\ Within(Heads, m)
  /\ \E H : /\ Indexed(H)
            /\ Ring(Placed(k), HeadAt, H, Bnexts(Heads, m), Bprevs(Heads, m))
            /\ Ring(Placed(k), HeadAt, H, Fnexts(Heads, m), Fprevs(Heads, m))

(* The chain has a length.                                                 *)
LEMMA LenNat == Len(Areas) \in Nat
<1>1. PICK S : S = [at : Nat, size : Nat]
  OBVIOUS
<1>2. Areas \in Seq(S)
  BY Zenon, <1>1, MallocAssumption
<1> QED
  BY <1>2

(* No two areas of the chain overlap.                                      *)
LEMMA AreasDistinct ==
  ASSUME NEW i \in 1 .. Len(Areas), NEW j \in 1 .. Len(Areas), i # j
  PROVE  /\ Areas[i].at # Areas[j].at
         /\ \/ Areas[i].at + Areas[i].size <= Areas[j].at
            \/ Areas[j].at + Areas[j].size <= Areas[i].at
<1>1. \/ Areas[i].at + Areas[i].size <= Areas[j].at
      \/ Areas[j].at + Areas[j].size <= Areas[i].at
  BY Zenon, MallocAssumption
<1> QED
  BY <1>1, EachArea DEF Area

(* No area starts at the variable head.                                    *)
LEMMA StartsNotHead ==
  ASSUME NEW i \in 1 .. Len(Areas)
  PROVE  Areas[i].at # HeadAt /\ Areas[i].at \in Int /\ Areas[i].at > 0 /\ Areas[i].at <= MaxWord
BY EachArea, HeadFacts, WordFact DEF Area, SizeOfHead

(* The records of the areas have addresses.                                *)
LEMMA HeadsInt == Heads \subseteq Int /\ \A p \in Heads : p > 0 /\ p <= MaxWord
BY StartsNotHead, HeadFacts DEF Heads, Starts

(* The areas already listed are in the order of the chain, last one first. *)
LEMMA IndexedHeights ==
  ASSUME NEW H, Indexed(H), NEW k \in 0 .. Len(Areas)
  PROVE  Heights(Placed(k), HeadAt, H)
<1>1. \A p \in Placed(k) \ {HeadAt} : \E i \in 1 .. Len(Areas) : p = Areas[i].at /\ H[p] = i
  BY LenNat DEF Placed, Indexed
<1>2. HeadAt \in Placed(k) /\ H[HeadAt] = 0
  BY DEF Placed, Indexed
<1>3. \A x \in Placed(k) : H[x] \in Nat
  BY <1>1, <1>2
<1>4. ASSUME NEW x \in Placed(k), NEW y \in Placed(k), H[x] = H[y]
      PROVE  x = y
  <2>1. CASE x = HeadAt \/ y = HeadAt
    BY <1>1, <1>2, <1>4, <2>1
  <2>2. CASE x # HeadAt /\ y # HeadAt
    BY <1>1, <1>4, <2>2
  <2> QED
    BY <2>1, <2>2
<1> QED
  BY <1>2, <1>3, <1>4 DEF Heights

(* There is such an order: no two areas start at the same place.           *)
LEMMA IndexExists == \E H : Indexed(H)
<1> DEFINE G == [p \in Heads |-> IF p = HeadAt THEN 0
                                 ELSE CHOOSE i \in 1 .. Len(Areas) : Areas[i].at = p]
<1>1. G[HeadAt] = 0
  BY DEF Heads
<1>2. ASSUME NEW i \in 1 .. Len(Areas)
      PROVE  G[Areas[i].at] = i
  <2>1. G[Areas[i].at] = CHOOSE k \in 1 .. Len(Areas) : Areas[k].at = Areas[i].at
    BY StartsNotHead DEF Heads, Starts
  <2>2. PICK j : j = CHOOSE k \in 1 .. Len(Areas) : Areas[k].at = Areas[i].at
    OBVIOUS
  <2>3. j \in 1 .. Len(Areas) /\ Areas[j].at = Areas[i].at
    BY <2>2
  <2>4. j = i
    BY <2>3, AreasDistinct
  <2> QED
    BY <2>1, <2>2, <2>4
<1> QED
  BY <1>1, <1>2 DEF Indexed

(* While nothing is used, the next free block is the next block.           *)
LEMMA NextFreeFirst ==
  ASSUME NEW D, NEW m, DOMAIN m = D, NoneUsed(D, m), NEW b, m[b].bnext \in D
  PROVE  NextFree(m, b) = m[b].bnext
<1> DEFINE Scans(g) == g = [p \in D |-> IF Used(m[p].size) THEN g[m[p].bnext] ELSE p]
           scan == CHOOSE g : Scans(g)
<1>1. \A g : Scans(g) <=> g = [p \in D |-> p]
  BY DEF NoneUsed
<1>2. \E g : Scans(g)
  BY <1>1
<1>3. Scans(scan)
  BY <1>2
<1>4. scan = [p \in D |-> p]
  BY <1>1, <1>3
<1>5. NextFree(m, b) = scan[m[b].bnext]
  BY DEF NextFree
<1> HIDE DEF scan
<1> QED
  BY <1>4, <1>5

(* One turn of the loop.                                                   *)
LEMMA LinkingStep ==
  ASSUME NEW k \in 0 .. Len(Areas), k + 1 \in 1 .. Len(Areas), NEW m, Linking(k, m),
         NEW p, p = Areas[k + 1].at
  PROVE  Linking(k + 1, FreeBlock(ListBlock(m, p, m[HeadAt].bnext), p))
<1>1. PICK H : /\ Indexed(H)
               /\ Ring(Placed(k), HeadAt, H, Bnexts(Heads, m), Bprevs(Heads, m))
               /\ Ring(Placed(k), HeadAt, H, Fnexts(Heads, m), Fprevs(Heads, m))
  BY DEF Linking
<1>2. PICK S : S = Placed(k)
  OBVIOUS
<1>3. p \in Heads /\ p # HeadAt /\ HeadAt \in S /\ S \subseteq Heads /\ HeadAt \in Heads
      /\ Heads \subseteq Int
  BY <1>2, StartsNotHead, HeadsInt, LenNat DEF Heads, Starts, Placed
<1>4. p \notin S /\ Placed(k + 1) = S \cup {p}
  <2>1. \A i \in 1 .. k : Areas[i].at # p
    BY AreasDistinct, LenNat
  <2>2. 1 .. k + 1 = (1 .. k) \cup {k + 1}
    BY LenNat
  <2> QED
    BY <1>2, <1>3, <2>1, <2>2 DEF Placed
<1>5. Heights(S, HeadAt, H) /\ Heights(S \cup {p}, HeadAt, H)
  <2>1. PICK j \in 0 .. Len(Areas) : j = k + 1
    BY LenNat
  <2>2. Heights(Placed(k), HeadAt, H) /\ Heights(Placed(j), HeadAt, H)
    BY <1>1, IndexedHeights
  <2> QED
    BY <1>2, <1>4, <2>1, <2>2
<1>6. H[p] = k + 1 /\ \A x \in S : H[x] <= k /\ H[x] \in Nat
  BY <1>1, <1>2, LenNat DEF Indexed, Placed
<1>7. PICK pa : pa = m[HeadAt].bnext
  OBVIOUS
<1>8. pa \in S /\ FirstBelow(S, H, H[p], pa)
  <2>1. Bnexts(Heads, m)[HeadAt] = pa
    BY <1>3, <1>7 DEF Bnexts
  <2>2. pa \in S /\ \A y \in S : H[y] <= H[pa]
    BY <1>1, <1>2, <1>3, <2>1 DEF Ring
  <2> QED
    BY <1>6, <2>2 DEF FirstBelow
<1>9. PICK pb : pb = m[pa].bprev
  OBVIOUS
<1>10. pb \in S
  BY <1>1, <1>2, <1>3, <1>8, <1>9 DEF Ring, Bprevs
<1>11. PICK m1 : m1 = ListBlock(m, p, pa)
  OBVIOUS
<1>12. Headers(Heads, m1) /\ LinkedBlock(Heads, m, p, pb, pa, m1)
  <2>1. m1 = LinkBlock(m, p, pb, pa)
    BY <1>9, <1>11 DEF ListBlock, LinkBlock
  <2>2. Headers(Heads, m) /\ pa \in Heads /\ pb \in Heads
    BY <1>3, <1>8, <1>10 DEF Linking
  <2> QED
    BY <1>3, <2>1, <2>2, LinkBlockLinks
<1>13. NoneUsed(Heads, m1) /\ Sized(m1)
  BY <1>12 DEF Linking, NoneUsed, Sized, LinkedBlock, Heads, Starts
<1>14. p # pa /\ p # pb
  BY <1>4, <1>8, <1>10
<1>15. m1[p].bnext = pa /\ m1[pa].fprev = m[pa].fprev
  BY <1>3, <1>8, <1>12, <1>14 DEF LinkedBlock
<1>16. NextFree(m1, p) = pa
  <2>1. DOMAIN m1 = Heads
    BY <1>12 DEF Headers
  <2>2. m1[p].bnext \in Heads
    BY <1>3, <1>8, <1>15
  <2> QED
    BY <1>13, <1>15, <2>1, <2>2, NextFreeFirst
<1>17. PICK qb : qb = m[pa].fprev
  OBVIOUS
<1>18. qb \in S
  BY <1>1, <1>2, <1>3, <1>8, <1>17 DEF Ring, Fprevs
<1>19. PICK m2 : m2 = FreeBlock(m1, p)
  OBVIOUS
<1>20. Headers(Heads, m2) /\ LinkedFree(Heads, m1, p, qb, pa, m2)
  <2>1. m2 = LinkFree(m1, p, qb, pa)
    BY <1>15, <1>16, <1>17, <1>19 DEF FreeBlock, LinkFree
  <2>2. pa \in Heads /\ qb \in Heads
    BY <1>3, <1>8, <1>18
  <2> QED
    BY <1>3, <1>12, <2>1, <2>2, LinkFreeLinks
<1>21. NoneUsed(Heads, m2) /\ Sized(m2)
  BY <1>13, <1>20 DEF NoneUsed, Sized, LinkedFree, Heads, Starts
<1>22. Within(Heads, m2)
  <2>1. pa \in Heads /\ pb \in Heads /\ qb \in Heads
    BY <1>3, <1>8, <1>10, <1>18
  <2>2. Within(Heads, m1)
    BY <1>3, <1>12, <2>1 DEF Linking, Within, LinkedBlock
  <2> QED
    BY <1>3, <1>20, <2>1, <2>2 DEF Within, LinkedFree
<1>23. Ring(Placed(k + 1), HeadAt, H, Bnexts(Heads, m2), Bprevs(Heads, m2))
  <2>1. Inserts(S, Bnexts(Heads, m), Bprevs(Heads, m), p, pa,
                Bnexts(Heads, m2), Bprevs(Heads, m2))
    <3>1. Bprevs(Heads, m)[pa] = pb
      BY <1>3, <1>8, <1>9 DEF Bprevs
    <3>2. \A x \in Heads : /\ Bnexts(Heads, m)[x] = m[x].bnext
                           /\ Bprevs(Heads, m)[x] = m[x].bprev
                           /\ Bnexts(Heads, m2)[x] = m1[x].bnext
                           /\ Bprevs(Heads, m2)[x] = m1[x].bprev
      BY <1>20 DEF Bnexts, Bprevs, LinkedFree
    <3> QED
      BY <1>3, <1>4, <1>8, <1>12, <1>14, <3>1, <3>2 DEF Inserts, LinkedBlock
  <2> QED
    BY <1>1, <1>2, <1>3, <1>4, <1>5, <1>8, <2>1, RingInsert
<1>24. Ring(Placed(k + 1), HeadAt, H, Fnexts(Heads, m2), Fprevs(Heads, m2))
  <2>1. Inserts(S, Fnexts(Heads, m), Fprevs(Heads, m), p, pa,
                Fnexts(Heads, m2), Fprevs(Heads, m2))
    <3>1. Fprevs(Heads, m)[pa] = qb
      BY <1>3, <1>8, <1>17 DEF Fprevs
    <3>2. \A x \in Heads : /\ Fnexts(Heads, m)[x] = m1[x].fnext
                           /\ Fprevs(Heads, m)[x] = m1[x].fprev
                           /\ Fnexts(Heads, m2)[x] = m2[x].fnext
                           /\ Fprevs(Heads, m2)[x] = m2[x].fprev
      BY <1>12 DEF Fnexts, Fprevs, LinkedBlock
    <3>3. p # qb
      BY <1>4, <1>18
    <3> QED
      BY <1>3, <1>4, <1>8, <1>14, <1>20, <3>1, <3>2, <3>3 DEF Inserts, LinkedFree
  <2> QED
    BY <1>1, <1>2, <1>3, <1>4, <1>5, <1>8, <2>1, RingInsert
<1>25. Linking(k + 1, m2)
  BY <1>1, <1>20, <1>21, <1>22, <1>23, <1>24 DEF Linking
<1> QED
  BY <1>7, <1>11, <1>19, <1>25

(* When the chain ends the heap is well formed and all of it is free.      *)
LEMMA LinkingEnds ==
  ASSUME HeadClear, NEW m, Linking(Len(Areas), m)
  PROVE  /\ Well(Heads, m) /\ UsedIn(Heads, m) = {}
         /\ AreasApart => Held(Heads, m) /\ NoTouch(Heads, m)
<1>1. PICK H : /\ Indexed(H)
               /\ Ring(Placed(Len(Areas)), HeadAt, H, Bnexts(Heads, m), Bprevs(Heads, m))
               /\ Ring(Placed(Len(Areas)), HeadAt, H, Fnexts(Heads, m), Fprevs(Heads, m))
  BY DEF Linking
<1>2. Placed(Len(Areas)) = Heads
  BY DEF Placed, Heads, Starts
<1>3. Heights(Heads, HeadAt, H)
  BY <1>1, <1>2, IndexedHeights, LenNat
<1>4. Free(Heads, m) = Heads /\ UsedIn(Heads, m) = {}
  BY DEF Linking, NoneUsed, Free, UsedIn
<1>5. Lists(Heads, Free(Heads, m), m, H)
  BY <1>1, <1>2, <1>3, <1>4 DEF Lists, Heads
<1>6. Blocked(Heads) = Starts
  BY StartsNotHead DEF Blocked, Heads, Starts
<1>7. ASSUME NEW i \in 1 .. Len(Areas)
      PROVE  /\ EndsOf(Heads, m)[Areas[i].at] = Areas[i].at + Areas[i].size
             /\ Areas[i].at + Areas[i].size \in AreaEnds
  <2>1. m[Areas[i].at].size = Areas[i].size /\ Areas[i].at \in Heads
    BY DEF Linking, Sized, Heads, Starts
  <2>2. Grained(Areas[i].size)
    BY EachArea DEF Area, Grained
  <2>3. Unmarked(Areas[i].size) = Areas[i].size
    BY <2>2, GrainedMarks
  <2> QED
    BY <2>1, <2>3 DEF EndsOf, AreaEnds
<1>8. \A b \in Starts : /\ Grained(b) /\ Grained(EndsOf(Heads, m)[b])
                        /\ 0 < b /\ b < EndsOf(Heads, m)[b]
                        /\ EndsOf(Heads, m)[b] <= MaxWord + 1
                        /\ HeadAt < b \/ HeadAt > EndsOf(Heads, m)[b]
                        /\ EndsOf(Heads, m)[b] \in AreaEnds
  <2> SUFFICES ASSUME NEW i \in 1 .. Len(Areas)
               PROVE  LET b == Areas[i].at
                      IN  /\ Grained(b) /\ Grained(EndsOf(Heads, m)[b])
                          /\ 0 < b /\ b < EndsOf(Heads, m)[b]
                          /\ EndsOf(Heads, m)[b] <= MaxWord + 1
                          /\ HeadAt < b \/ HeadAt > EndsOf(Heads, m)[b]
                          /\ EndsOf(Heads, m)[b] \in AreaEnds
    BY DEF Starts
  <2>1. Area(i)
    BY EachArea
  <2>2. Grained(Areas[i].at) /\ Grained(Areas[i].size) /\ Grained(Areas[i].at + Areas[i].size)
    <3>1. Grained(Areas[i].at) /\ Grained(Areas[i].size)
      BY <2>1 DEF Area, Grained
    <3> QED
      BY <3>1, GrainedSums
  <2> QED
    BY <1>7, <2>1, <2>2, HeadFacts DEF Area, SizeOfHead, HeadClear
<1>9. \A b, c \in Starts : b < c => EndsOf(Heads, m)[b] <= c
  <2> SUFFICES ASSUME NEW i \in 1 .. Len(Areas), NEW j \in 1 .. Len(Areas),
                      Areas[i].at < Areas[j].at
               PROVE  EndsOf(Heads, m)[Areas[i].at] <= Areas[j].at
    BY DEF Starts
  <2>1. Area(i) /\ Area(j)
    BY EachArea
  <2>2. i # j
    BY <2>1 DEF Area
  <2>3. \/ Areas[i].at + Areas[i].size <= Areas[j].at
        \/ Areas[j].at + Areas[j].size <= Areas[i].at
    BY <2>2, AreasDistinct
  <2> QED
    BY <1>7, <2>1, <2>3 DEF Area
<1>10. \A a \in Starts : \E b \in Starts : b <= a /\ a < EndsOf(Heads, m)[b]
  <2> SUFFICES ASSUME NEW a \in Starts
               PROVE  a <= a /\ a < EndsOf(Heads, m)[a]
    OBVIOUS
  <2> QED
    BY <1>8, AreaFacts
<1>11. Tiles(Blocked(Heads), EndsOf(Heads, m), Bnexts(Heads, m))
  BY <1>6, <1>8, <1>9, <1>10 DEF Tiles
<1>12. Shaped(Heads, m)
  BY <1>11 DEF Shaped, Linking, Sized, NoneUsed
<1>13. Well(Heads, m)
  BY <1>5, <1>12 DEF Well
<1>14. Held(Heads, m)
  <2> SUFFICES ASSUME NEW i \in 1 .. Len(Areas)
               PROVE  /\ Areas[i].at <= Areas[i].at
                      /\ EndsOf(Heads, m)[Areas[i].at] <= Areas[i].at + Areas[i].size
    BY <1>6 DEF Held, Starts
  <2> QED
    BY <1>7, EachArea DEF Area
<1>15. ASSUME AreasApart, NEW x, NEW y, Touching(Heads, m, x, y)
       PROVE  FALSE
  <2>1. x \in Starts /\ y \in Starts /\ EndsOf(Heads, m)[x] = y
    BY <1>4, <1>6, <1>15 DEF Touching, Blocked
  <2>2. PICK i \in 1 .. Len(Areas), j \in 1 .. Len(Areas) : x = Areas[i].at /\ y = Areas[j].at
    BY <2>1 DEF Starts
  <2>3. Areas[i].at + Areas[i].size = Areas[j].at
    BY <1>7, <2>1, <2>2
  <2>4. i # j => \/ Areas[i].at + Areas[i].size < Areas[j].at
                 \/ Areas[j].at + Areas[j].size < Areas[i].at
    BY <1>15 DEF AreasApart
  <2>5. Areas[i].at \in Int /\ Areas[i].size \in Int /\ Areas[j].at \in Int
        /\ Areas[j].size \in Int /\ Areas[i].size > 0 /\ Areas[j].size > 0
    BY EachArea DEF Area
  <2>6. i # j
    BY <2>3, <2>5
  <2> QED
    BY <2>3, <2>4, <2>5, <2>6
<1> QED
  BY <1>4, <1>13, <1>14, <1>15 DEF NoTouch

-----------------------------------------------------------------------------
(* malloc: a free block, or the head of one, becomes a used block.         *)

(* The heap D2, m2 is D, m with the used block b of n bytes, taken for     *)
(* size bytes from the start of a free one.                                *)
TakenFrom(D, m, b, size, n, D2, m2) ==
  /\ D \subseteq D2 /\ Well(D2, m2) /\ m2[b].size = n + 1
  /\ Grained(n) /\ size <= n /\ n <= m[b].size /\ n - size < SizeOfHead
  /\ UsedIn(D2, m2) = UsedIn(D, m) \cup {b}
  /\ \A p \in UsedIn(D, m) : m2[p].size = m[p].size

(* __find_block and the caller take a block, or its head, out of a well    *)
(* formed heap: the rest of it is well formed.                             *)
LEMMA TakeWell ==
  ASSUME NEW D, NEW m, Well(D, m), NEW b \in Free(D, m) \ {HeadAt},
         NEW size, Need(size), Fits(m, b, size)
  PROVE  \E D2, n : /\ TakenFrom(D, m, b, size, n, D2, TakeBlock(m, b, size))
                    /\ Tidy(D, m) => Tidy(D2, TakeBlock(m, b, size))
<1>1. PICK m2 : m2 = TakeBlock(m, b, size)
  OBVIOUS
<1>2. /\ b \in D /\ b # HeadAt /\ ~ Used(m[b].size) /\ Shaped(D, m)
      /\ m[b].size \in Int /\ Grained(m[b].size) /\ 0 < m[b].size
      /\ size \in Int /\ Grained(size) /\ 0 < size
  <2>1. b \in D \ {HeadAt} /\ ~ Used(m[b].size) /\ Shaped(D, m)
    BY DEF Free, Well
  <2> QED
    BY <2>1, EachBlock DEF Need, Grained
<1>3. size <= m[b].size
  BY <1>2, FitsMeans
<1>4. b \notin UsedIn(D, m) /\ UsedIn(D, m) \subseteq D
  BY <1>2 DEF UsedIn
<1>5. CASE /\ m[b].size - size < SizeOfHead /\ TakenWhole(D, m, b, m2) /\ Well(D, m2)
  <2>1. m2[b].size = m[b].size + 1 /\ \A p \in D \ {b} : m2[p].size = m[p].size
    BY <1>2, <1>5 DEF TakenWhole
  <2>2. Used(m2[b].size)
    BY <1>2, <2>1, GrainedMarks
  <2>3. UsedIn(D, m2) = UsedIn(D, m) \cup {b}
    BY <1>2, <2>1, <2>2 DEF UsedIn
  <2>4. \A p \in UsedIn(D, m) : m2[p].size = m[p].size
    BY <1>4, <2>1
  <2>5. TakenFrom(D, m, b, size, m[b].size, D, m2)
    BY <1>2, <1>3, <1>5, <2>1, <2>3, <2>4 DEF TakenFrom
  <2>6. Tidy(D, m) => Tidy(D, m2)
    BY <1>5, TakeHeld DEF Tidy
  <2> QED
    BY <1>1, <2>5, <2>6
<1>6. CASE /\ m[b].size - size >= SizeOfHead /\ b + size \notin D
           /\ TakenHead(D, m, b, b + size, size, m2) /\ Well(D \cup {b + size}, m2)
           /\ ~ (TakenWhole(D, m, b, m2) /\ Well(D, m2))
  <2>1. PICK nb : nb = b + size
    OBVIOUS
  <2>2. nb \notin D /\ TakenHead(D, m, b, nb, size, m2) /\ Well(D \cup {nb}, m2) /\ nb # b
    BY <1>2, <1>6, <2>1
  <2>3. /\ m2[b].size = size + 1 /\ m2[nb].size = m[b].size - size
        /\ \A p \in D \ {b} : m2[p].size = m[p].size
    BY <1>2, <2>2 DEF TakenHead
  <2>4. Used(m2[b].size) /\ ~ Used(m2[nb].size)
    BY <1>2, <2>3, GrainedMarks, GrainedSums
  <2>5. UsedIn(D \cup {nb}, m2) = UsedIn(D, m) \cup {b}
    BY <1>2, <2>2, <2>3, <2>4 DEF UsedIn
  <2>6. \A p \in UsedIn(D, m) : m2[p].size = m[p].size
    BY <1>4, <2>3
  <2>7. size - size < SizeOfHead
    BY <1>2 DEF SizeOfHead
  <2>8. TakenFrom(D, m, b, size, size, D \cup {nb}, m2)
    <3>1. PICK D2 : D2 = D \cup {nb}
      OBVIOUS
    <3>2. D \subseteq D2 /\ size <= size /\ Well(D2, m2) /\ UsedIn(D2, m2) = UsedIn(D, m) \cup {b}
      BY <1>2, <2>2, <2>5, <3>1
    <3>3. TakenFrom(D, m, b, size, size, D2, m2)
      BY <1>2, <1>3, <2>3, <2>6, <2>7, <3>2 DEF TakenFrom
    <3> QED
      BY <3>1, <3>3
  <2>9. Tidy(D, m) => Tidy(D \cup {nb}, m2)
    BY <1>6, <2>1, TakeHeld DEF Tidy
  <2> QED
    BY <1>1, <2>8, <2>9
<1>7. \/ m[b].size - size < SizeOfHead /\ TakenWhole(D, m, b, m2) /\ Well(D, m2)
      \/ /\ m[b].size - size >= SizeOfHead /\ b + size \notin D
         /\ TakenHead(D, m, b, b + size, size, m2) /\ Well(D \cup {b + size}, m2)
  BY <1>1, TakeBlockWell
<1>8. TakenWhole(D, m, b, m2) /\ Well(D, m2) => m[b].size - size < SizeOfHead
  <2>1. SUFFICES ASSUME TakenWhole(D, m, b, m2), TakenHead(D, m, b, b + size, size, m2),
                        m[b].size - size >= SizeOfHead
                 PROVE  FALSE
    BY <1>7
  <2>2. m2[b].size = m[b].size + 1 /\ m2[b].size = size + 1
    BY <1>2, <2>1 DEF TakenWhole, TakenHead
  <2> QED
    BY <1>2, <2>1, <2>2 DEF SizeOfHead
<1> QED
  BY <1>2, <1>5, <1>6, <1>7, <1>8 DEF SizeOfHead

(* A request that does not wrap is rounded up to a multiple of 4 that      *)
(* holds it and its header, and is never shorter than a free header.       *)
LEMMA RoundUpIs ==
  ASSUME NEW sz \in Nat, sz + Header + 3 <= MaxWord
  PROVE  /\ Grained(RoundUp(sz)) /\ RoundUp(sz) > 0 /\ sz + Header <= RoundUp(sz)
         /\ RoundUp(sz) < 32768 => Need(RoundUp(sz))
         /\ RoundUp(sz) >= 12 /\ RoundUp(sz) <= MaxWord
<1>1. PICK n \in Nat : n = IF sz < 4 THEN 4 ELSE sz
  OBVIOUS
<1>2. PICK w \in Nat : w = n + 11
  BY <1>1
<1>3. w <= 65535 /\ w >= 15 /\ w >= sz + 11
  BY <1>1, <1>2, WordFact DEF Header
<1>4. w % 65536 = w
  BY <1>3
<1>5. RoundUp(sz) = w - (w % 4)
  <2>1. RoundUp(sz) = ((n + Header + 3) % 65536) - (((n + Header + 3) % 65536) % 4)
    BY <1>1 DEF RoundUp
  <2>2. n + Header + 3 = w
    BY <1>2 DEF Header
  <2> QED
    BY <1>4, <2>1, <2>2
<1>6. PICK r \in Int : r = w - (w % 4)
  OBVIOUS
<1>7. r % 4 = 0 /\ r <= w /\ w <= r + 3
  BY <1>6
<1>8. r >= 12 /\ sz + 8 <= r /\ r <= 65535
  BY <1>3, <1>7
<1>9. r < 32768 => r <= MaxInt
  BY WordFact
<1> QED
  BY <1>5, <1>6, <1>7, <1>8, <1>9, WordFact DEF Grained, Need, Header

(* The block found for a request: free and long enough, or none is.        *)
LEMMA CandidateIs ==
  ASSUME NEW D, NEW m, Well(D, m), NEW sz \in Nat, sz + Header + 3 <= MaxWord,
         NEW b, b = Candidate(m, sz)
  PROVE  /\ b # HeadAt => /\ b \in Free(D, m) \ {HeadAt} /\ Need(RoundUp(sz))
                          /\ Fits(m, b, RoundUp(sz))
         /\ b = HeadAt => \/ RoundUp(sz) > MaxInt
                          \/ /\ Need(RoundUp(sz))
                             /\ \A p \in Free(D, m) \ {HeadAt} : ~ Fits(m, p, RoundUp(sz))
<1>1. PICK h : Lists(D, Free(D, m), m, h)
  BY DEF Well
<1>2. DOMAIN m = D
  BY DEF Well, Shaped, Headers
<1>3. PICK r : r = RoundUp(sz)
  OBVIOUS
<1>4. r \in Int /\ (r < 32768 => Need(r)) /\ (~ (r < 32768) => r > MaxInt)
  BY <1>3, RoundUpIs, WordFact DEF Grained
<1>5. CASE r < 32768
  <2>1. b = FirstFit(m, r)
    BY <1>3, <1>5 DEF Candidate
  <2> QED
    BY <1>1, <1>2, <1>3, <1>4, <1>5, <2>1, FirstFitFinds
<1>6. CASE ~ (r < 32768)
  <2>1. b = HeadAt
    BY <1>3, <1>6 DEF Candidate
  <2> QED
    BY <1>3, <1>4, <1>6, <2>1
<1> QED
  BY <1>5, <1>6

=============================================================================
