------------------------------- MODULE Rings --------------------------------
(***************************************************************************)
(* Circular doubly linked lists, as malloc.c keeps them: the elements of S *)
(* are linked by nxt and prv through the element hd. The heights of the    *)
(* elements, 0 for hd, go down along nxt, so that a walk ends. The list of *)
(* the free blocks is a ring over the same heights as that of all the      *)
(* blocks: this is what it means for them to be in the same order.         *)
(***************************************************************************)
EXTENDS Integers, FiniteSetTheorems, WellFoundedInduction, TLAPS

(* Induction over the natural numbers, in a form that speaks of sets       *)
(* rather than of predicates, so that the provers can instantiate it: a    *)
(* nonempty set of natural numbers has a least element. A property P is    *)
(* proved for every n by looking at the least member of {n : ~ P(n)}.      *)

(* A nonempty set of natural numbers has a least element.                  *)
LEMMA LeastNat ==
  ASSUME NEW T, T \subseteq Nat, T # {}
  PROVE  \E x \in T : \A y \in T : x <= y
<1> DEFINE R == OpToRel(<, Nat)
<1>1. IsWellFoundedOn(R, Nat)
  BY NatLessThanWellFounded
<1>2. \A x, y \in Nat : y < x => <<y, x>> \in R
  BY DEF OpToRel
<1> HIDE DEF R
<1>3. PICK x \in T : \A y \in T : ~(<<y, x>> \in R)
  BY <1>1, WFMin
<1>4. \A y \in T : ~(y < x)
  BY <1>2, <1>3, Zenon
<1> QED
  BY <1>4

(* One that is bounded has a greatest element.                             *)
LEMMA GreatestNat ==
  ASSUME NEW T, T \subseteq Nat, T # {}, NEW B \in Nat, \A y \in T : y <= B
  PROVE  \E x \in T : \A y \in T : y <= x
<1> DEFINE U == {B - y : y \in T}
<1>1. U \subseteq Nat /\ U # {}
  <2>1. \A y \in T : B - y \in Nat
    OBVIOUS
  <2>2. PICK y \in T : TRUE
    OBVIOUS
  <2>3. B - y \in U
    OBVIOUS
  <2> QED
    BY <2>1, <2>3
<1>2. PICK u \in U : \A v \in U : u <= v
  BY <1>1, LeastNat
<1>3. PICK x \in T : u = B - x
  OBVIOUS
<1>4. ASSUME NEW y \in T
      PROVE  y <= x
  <2>1. B - x <= B - y
    BY <1>2, <1>3
  <2> QED
    BY <2>1
<1> QED
  BY <1>4

(* Induction, on the set of the numbers that have a property.              *)
LEMMA NatInd ==
  ASSUME NEW T, 0 \in T, \A n \in Nat : n \in T => n + 1 \in T
  PROVE  Nat \subseteq T
<1> SUFFICES ASSUME NEW k \in Nat, k \notin T
             PROVE  FALSE
  OBVIOUS
<1>1. PICK x \in Nat \ T : \A y \in Nat \ T : x <= y
  BY LeastNat
<1>2. x # 0 /\ x - 1 \in Nat /\ x - 1 \in T
  BY <1>1
<1>3. (x - 1) + 1 \in T
  BY <1>2
<1> QED
  BY <1>1, <1>3

(* The function that iterates nxt from a exists: what the recursive        *)
(* definition of a function on Nat needs in order to mean something.       *)
Iterates(nxt, a, g) == g = [n \in Nat |-> IF n = 0 THEN a ELSE nxt[g[n - 1]]]

(* Any nxt can be followed from any a for ever: the function exists.       *)
LEMMA IterationExists ==
  ASSUME NEW a, NEW nxt
  PROVE  \E g : Iterates(nxt, a, g)
<1> USE DEF Iterates
<1> DEFINE Upto(f, n) == f = [k \in 0 .. n |-> IF k = 0 THEN a ELSE nxt[f[k - 1]]]
           T == {n \in Nat : \E f : Upto(f, n)}
<1>1. Upto([k \in 0 .. 0 |-> a], 0)
  OBVIOUS
<1>2. ASSUME NEW n \in Nat, n \in T
      PROVE  n + 1 \in T
  <2>1. PICK f : Upto(f, n)
    BY <1>2
  <2> DEFINE e == [k \in 0 .. n + 1 |-> IF k = n + 1 THEN nxt[f[n]] ELSE f[k]]
  <2>2. ASSUME NEW k \in 0 .. n + 1
        PROVE  e[k] = IF k = 0 THEN a ELSE nxt[e[k - 1]]
    <3>1. CASE k = n + 1
      BY <3>1
    <3>2. CASE k = 0
      BY <3>2, <2>1
    <3>3. CASE k # 0 /\ k # n + 1
      <4>1. k \in 0 .. n /\ k - 1 \in 0 .. n /\ k - 1 \in 0 .. n + 1 /\ k - 1 # n + 1
        BY <3>3
      <4>2. f[k] = nxt[f[k - 1]]
        BY <4>1, <3>3, <2>1
      <4> QED
        BY <4>1, <4>2, <3>3
    <3> QED
      BY <3>1, <3>2, <3>3
  <2>3. Upto(e, n + 1)
    BY <2>2
  <2> HIDE DEF e
  <2> QED
    BY <2>3
<1>3. \A n \in Nat : \E f : Upto(f, n)
  <2>1. 0 \in T
    BY <1>1
  <2> HIDE DEF Upto
  <2>2. Nat \subseteq T
    BY <2>1, <1>2, NatInd
  <2> QED
    BY <2>2
<1> DEFINE F == [n \in Nat |-> CHOOSE f : Upto(f, n)]
<1>4. \A n \in Nat : Upto(F[n], n)
  <2> HIDE DEF Upto
  <2> QED
    BY <1>3
<1> HIDE DEF F
<1>5. ASSUME NEW n \in Nat
      PROVE  F[n + 1][n] = F[n][n]
  <2> DEFINE e == F[n + 1]
             f == F[n]
             A == {k \in Nat : k <= n => e[k] = f[k]}
  <2>1. Upto(e, n + 1) /\ Upto(f, n)
    <3> HIDE DEF Upto
    <3> QED
      BY <1>4
  <2> HIDE DEF e, f
  <2>2. 0 \in A
    BY <2>1
  <2>3. ASSUME NEW k \in Nat, k \in A
        PROVE  k + 1 \in A
    <3> SUFFICES ASSUME k + 1 <= n PROVE e[k + 1] = f[k + 1]
      OBVIOUS
    <3>1. k + 1 \in 0 .. n /\ k + 1 \in 0 .. n + 1 /\ (k + 1) - 1 = k /\ k + 1 # 0
      OBVIOUS
    <3>2. e[k + 1] = nxt[e[k]]
      BY <3>1, <2>1
    <3>3. f[k + 1] = nxt[f[k]]
      BY <3>1, <2>1
    <3> QED
      BY <3>2, <3>3, <2>3
  <2>4. Nat \subseteq A
    <3> HIDE DEF A
    <3> QED
      BY <2>2, <2>3, NatInd
  <2>5. e[n] = f[n]
    BY <2>4
  <2> QED
    BY <2>5 DEF e, f
<1> DEFINE g == [n \in Nat |-> F[n][n]]
<1>6. ASSUME NEW n \in Nat
      PROVE  g[n] = IF n = 0 THEN a ELSE nxt[g[n - 1]]
  <2> DEFINE f == F[n]
  <2>1. Upto(f, n) /\ n \in 0 .. n
    <3> HIDE DEF Upto
    <3> QED
      BY <1>4
  <2>2. g[n] = f[n]
    OBVIOUS
  <2>3. CASE n = 0
    <3> HIDE DEF f, g
    <3> QED
      BY <2>1, <2>2, <2>3
  <2>4. CASE n # 0
    <3>1. F[(n - 1) + 1][n - 1] = F[n - 1][n - 1] /\ n - 1 \in Nat /\ (n - 1) + 1 = n
      BY <2>4, <1>5
    <3>2. f[n - 1] = g[n - 1]
      BY <3>1
    <3> HIDE DEF f, g
    <3>3. f[n] = nxt[f[n - 1]]
      BY <2>1, <2>4
    <3> QED
      BY <3>2, <3>3, <2>2, <2>4
  <2> QED
    BY <2>3, <2>4
<1>7. g = [n \in Nat |-> g[n]]
  OBVIOUS
<1> HIDE DEF g
<1>8. g = [n \in Nat |-> IF n = 0 THEN a ELSE nxt[g[n - 1]]]
  BY <1>6, <1>7
<1> QED
  BY <1>8

-----------------------------------------------------------------------------
(* Rings.                                                                  *)

Heights(S, hd, h) ==
  /\ hd \in S /\ h[hd] = 0
  /\ \A x \in S : h[x] \in Nat
  /\ \A x, y \in S : h[x] = h[y] => x = y

Ring(S, hd, h, nxt, prv) ==
  /\ \A x \in S : nxt[x] \in S /\ prv[nxt[x]] = x
  /\ \A x \in S : prv[x] \in S /\ nxt[prv[x]] = x
  /\ \A x \in S \ {hd} : h[nxt[x]] < h[x]
  /\ \A x \in S \ {hd}, y \in S : h[y] >= h[x] \/ h[y] <= h[nxt[x]]
  /\ \A y \in S : h[y] <= h[nxt[hd]]

(* b enters before z, or z leaves: the links that change. *)
Inserts(S, nxt, prv, b, z, nxt2, prv2) ==
  /\ \A x \in S : nxt2[x] = IF x = prv[z] THEN b ELSE nxt[x]
  /\ nxt2[b] = z
  /\ \A x \in S : prv2[x] = IF x = z THEN b ELSE prv[x]
  /\ prv2[b] = prv[z]

Removes(S, nxt, prv, z, nxt2, prv2) ==
  /\ \A x \in S \ {z} : nxt2[x] = IF x = prv[z] THEN nxt[z] ELSE nxt[x]
  /\ \A x \in S \ {z} : prv2[x] = IF x = nxt[z] THEN prv[z] ELSE prv[x]

(* z is the first element of S after the height k. *)
FirstBelow(S, h, k, z) ==
  /\ z \in S /\ h[z] < k
  /\ \A y \in S : h[y] >= k \/ h[y] <= h[z]

(* Only hd has the height 0.                                               *)
LEMMA HeightsPositive ==
  ASSUME NEW S, NEW hd, NEW h, Heights(S, hd, h)
  PROVE  \A x \in S \ {hd} : h[x] \in Nat /\ h[x] > 0
BY DEF Heights

(* Something is below: hd. *)
LEMMA FirstBelowExists ==
  ASSUME NEW S, NEW hd, NEW h, Heights(S, hd, h), NEW k \in Nat \ {0}
  PROVE  \E z \in S : FirstBelow(S, h, k, z)
<1> DEFINE T == {h[y] : y \in {x \in S : h[x] < k}}
<1>1. T \subseteq Nat /\ h[hd] \in T
  BY DEF Heights
<1>2. \A y \in T : y <= k
  BY DEF Heights
<1>3. PICK t \in T : \A y \in T : y <= t
  BY <1>1, <1>2, GreatestNat
<1>4. PICK z \in S : h[z] < k /\ t = h[z]
  OBVIOUS
<1>5. \A y \in S : h[y] < k => h[y] <= h[z]
  BY <1>3, <1>4
<1> QED
  BY <1>4, <1>5 DEF FirstBelow, Heights

(* No two elements have the same height.                                   *)
LEMMA FirstBelowUnique ==
  ASSUME NEW S, NEW hd, NEW h, Heights(S, hd, h), NEW k \in Nat,
         NEW y, NEW z, FirstBelow(S, h, k, y), FirstBelow(S, h, k, z)
  PROVE  y = z
<1>1. h[y] \in Nat /\ h[z] \in Nat /\ h[y] <= h[z] /\ h[z] <= h[y]
  BY DEF FirstBelow, Heights
<1> QED
  BY <1>1 DEF FirstBelow, Heights

(* v is the element after x, by the heights.                               *)
Follows(S, h, x, v) ==
  /\ x \in S /\ v \in S /\ h[v] < h[x]
  /\ \A y \in S : h[y] >= h[x] \/ h[y] <= h[v]

(* From a lower start that is passed over, the walk ends at the same place. *)
LEMMA FirstBelowSkips ==
  ASSUME NEW S, NEW hd, NEW h, Heights(S, hd, h), NEW F, F \subseteq S,
         NEW x, NEW v, Follows(S, h, x, v), v \notin F,
         NEW z, FirstBelow(F, h, h[v], z)
  PROVE  FirstBelow(F, h, h[x], z)
<1>1. h[x] \in Nat /\ h[v] \in Nat /\ z \in F /\ z \in S /\ h[z] \in Nat /\ h[z] < h[x]
  BY DEF Heights, FirstBelow, Follows
<1>2. ASSUME NEW y \in F
      PROVE  h[y] >= h[x] \/ h[y] <= h[z]
  <2>1. h[y] \in Nat /\ h[y] # h[v]
    <3>1. y \in S /\ v \in S /\ y # v
      BY DEF Follows
    <3> QED
      BY <3>1 DEF Heights
  <2>2. h[y] >= h[x] \/ h[y] <= h[v]
    BY DEF Follows
  <2>3. h[y] >= h[v] \/ h[y] <= h[z]
    BY DEF FirstBelow
  <2> QED
    BY <2>1, <2>2, <2>3, <1>1
<1> QED
  BY <1>1, <1>2 DEF FirstBelow

(* b enters the list before z, its place in the order of the heights. *)
LEMMA RingInsert ==
  ASSUME NEW S, NEW hd, NEW h, NEW nxt, NEW prv, NEW b, NEW z,
         Ring(S, hd, h, nxt, prv), b \notin S, Heights(S \cup {b}, hd, h), hd \in S,
         FirstBelow(S, h, h[b], z),
         NEW nxt2, NEW prv2, Inserts(S, nxt, prv, b, z, nxt2, prv2)
  PROVE  Ring(S \cup {b}, hd, h, nxt2, prv2)
<1> USE DEF Inserts
<1> DEFINE w == prv[z]
<1>1. z \in S /\ w \in S /\ nxt[w] = z
  BY DEF FirstBelow, Ring
<1>2. \A x \in S : nxt[x] = z => x = w
  BY DEF Ring
<1>3. \A x \in S : prv[x] = w => x = z
  BY <1>1 DEF Ring
<1>4. \A x \in S \cup {b} : nxt2[x] \in S \cup {b} /\ prv2[nxt2[x]] = x
  <2>1. ASSUME NEW x \in S, x # w PROVE nxt2[x] \in S /\ prv2[nxt2[x]] = x
    <3>1. nxt2[x] = nxt[x] /\ nxt[x] \in S /\ nxt[x] # z
      BY <2>1, <1>2 DEF Ring
    <3> QED
      BY <3>1 DEF Ring
  <2>2. nxt2[w] = b /\ prv2[b] = w
    BY <1>1
  <2>3. nxt2[b] = z /\ prv2[z] = b
    BY <1>1
  <2> QED
    BY <2>1, <2>2, <2>3, <1>1
<1>5. \A x \in S \cup {b} : prv2[x] \in S \cup {b} /\ nxt2[prv2[x]] = x
  <2>1. ASSUME NEW x \in S, x # z PROVE prv2[x] \in S /\ nxt2[prv2[x]] = x
    <3>1. prv2[x] = prv[x] /\ prv[x] \in S /\ prv[x] # w
      BY <2>1, <1>3 DEF Ring
    <3> QED
      BY <3>1 DEF Ring
  <2>2. prv2[z] = b /\ nxt2[b] = z
    BY <1>1
  <2>3. prv2[b] = w /\ nxt2[w] = b
    BY <1>1
  <2> QED
    BY <2>1, <2>2, <2>3, <1>1
<1>6. /\ \A x \in S \cup {b} : h[x] \in Nat
      /\ h[b] > h[z] /\ h[hd] = 0
      /\ \A y \in S : h[y] > h[b] \/ h[y] <= h[z]
  <2>1. \A y \in S : h[y] # h[b]
    BY DEF Heights
  <2> QED
    BY <2>1 DEF Heights, FirstBelow
<1>7. w # hd => h[b] < h[w]
  <2>1. w # hd => h[z] < h[w]
    BY <1>1 DEF Ring
  <2> QED
    BY <2>1, <1>1, <1>6
<1>8. \A x \in (S \cup {b}) \ {hd} : h[nxt2[x]] < h[x]
  <2>1. ASSUME NEW x \in S \ {hd} PROVE h[nxt2[x]] < h[x]
    BY <1>7 DEF Ring
  <2> QED
    BY <2>1, <1>6
<1>9. \A x \in (S \cup {b}) \ {hd}, y \in S \cup {b} : h[y] >= h[x] \/ h[y] <= h[nxt2[x]]
  <2> SUFFICES ASSUME NEW x \in (S \cup {b}) \ {hd}, NEW y \in S \cup {b}
               PROVE  h[y] >= h[x] \/ h[y] <= h[nxt2[x]]
    OBVIOUS
  <2>1. CASE x = b
    BY <2>1, <1>6
  <2>2. CASE x = w /\ x # b
    <3>1. \A v \in S : h[v] >= h[w] \/ h[v] <= h[z]
      BY <2>2, <1>1 DEF Ring
    <3> QED
      BY <3>1, <2>2, <1>1, <1>6
  <2>3. CASE x # b /\ x # w
    <3>1. /\ x \in S \ {hd} /\ nxt2[x] = nxt[x] /\ nxt[x] \in S /\ nxt[x] # z
          /\ \A v \in S : h[v] >= h[x] \/ h[v] <= h[nxt[x]]
          /\ h[nxt[x]] < h[x]
      BY <2>3, <1>2 DEF Ring
    <3>2. CASE y \in S
      BY <3>1, <3>2
    <3>3. CASE y = b
      <4>1. h[z] >= h[x] \/ h[z] <= h[nxt[x]]
        BY <3>1, <1>1
      <4>2. CASE h[z] >= h[x]
        BY <4>2, <3>3, <3>1, <1>6, <1>1
      <4>3. CASE h[z] <= h[nxt[x]]
        <5>1. h[nxt[x]] # h[z]
          BY <3>1, <1>1 DEF Heights
        <5> QED
          BY <4>3, <5>1, <3>3, <3>1, <1>6, <1>1
      <4> QED
        BY <4>1, <4>2, <4>3
    <3> QED
      BY <3>2, <3>3
  <2> QED
    BY <2>1, <2>2, <2>3
<1>10. \A y \in S \cup {b} : h[y] <= h[nxt2[hd]]
  <2>0. \A y \in S : h[y] <= h[nxt[hd]]
    BY DEF Ring
  <2>1. CASE w = hd
    <3>1. \A y \in S : h[y] <= h[z]
      BY <2>1, <2>0, <1>1
    <3> QED
      BY <2>1, <3>1, <1>1, <1>6
  <2>2. CASE w # hd
    <3>1. nxt2[hd] = nxt[hd] /\ nxt[hd] \in S
      BY <2>2 DEF Ring
    <3> QED
      BY <2>0, <3>1, <2>2, <1>7, <1>1, <1>6
  <2> QED
    BY <2>1, <2>2
<1> QED
  BY <1>4, <1>5, <1>8, <1>9, <1>10 DEF Ring

(* z leaves the list. *)
LEMMA RingRemove ==
  ASSUME NEW S, NEW hd, NEW h, NEW nxt, NEW prv, NEW z \in S \ {hd},
         Ring(S, hd, h, nxt, prv), Heights(S, hd, h),
         NEW nxt2, NEW prv2, Removes(S, nxt, prv, z, nxt2, prv2)
  PROVE  Ring(S \ {z}, hd, h, nxt2, prv2)
<1> USE DEF Removes
<1> DEFINE w == prv[z]
           v == nxt[z]
<1>1. w \in S /\ v \in S /\ nxt[w] = z /\ prv[v] = z /\ hd \in S
  BY DEF Ring, Heights
<1>2. h[v] < h[z] /\ \A x \in S : h[x] \in Nat
  BY DEF Ring, Heights
<1>3. w # z /\ v # z
  BY <1>1, <1>2
<1>4. \A x \in S \ {z} : nxt[x] = z <=> x = w
  BY <1>1 DEF Ring
<1>5. \A x \in S \ {z} : prv[x] = z <=> x = v
  BY <1>1 DEF Ring
<1>6. \A x \in S \ {z} : nxt2[x] \in S \ {z} /\ prv2[nxt2[x]] = x
  <2> SUFFICES ASSUME NEW x \in S \ {z}
               PROVE  nxt2[x] \in S \ {z} /\ prv2[nxt2[x]] = x
    OBVIOUS
  <2>1. CASE x = w
    BY <2>1, <1>1, <1>3
  <2>2. CASE x # w
    <3>1. nxt2[x] = nxt[x] /\ nxt[x] \in S \ {z} /\ prv[nxt[x]] = x
      BY <2>2, <1>4 DEF Ring
    <3>2. nxt[x] # v
      BY <3>1, <1>1
    <3> QED
      BY <3>1, <3>2
  <2> QED
    BY <2>1, <2>2
<1>7. \A x \in S \ {z} : prv2[x] \in S \ {z} /\ nxt2[prv2[x]] = x
  <2> SUFFICES ASSUME NEW x \in S \ {z}
               PROVE  prv2[x] \in S \ {z} /\ nxt2[prv2[x]] = x
    OBVIOUS
  <2>1. CASE x = v
    BY <2>1, <1>1, <1>3
  <2>2. CASE x # v
    <3>1. prv2[x] = prv[x] /\ prv[x] \in S \ {z} /\ nxt[prv[x]] = x
      BY <2>2, <1>5 DEF Ring
    <3>2. prv[x] # w
      BY <3>1, <1>1
    <3> QED
      BY <3>1, <3>2
  <2> QED
    BY <2>1, <2>2
<1>8. w # hd => h[z] < h[w]
  BY <1>1 DEF Ring
<1>9. \A x \in (S \ {z}) \ {hd} : h[nxt2[x]] < h[x]
  <2> SUFFICES ASSUME NEW x \in (S \ {z}) \ {hd}
               PROVE  h[nxt2[x]] < h[x]
    OBVIOUS
  <2>1. CASE x = w
    BY <2>1, <1>8, <1>2, <1>1
  <2>2. CASE x # w
    BY <2>2 DEF Ring
  <2> QED
    BY <2>1, <2>2
<1>10. \A y \in S : h[y] >= h[z] \/ h[y] <= h[v]
  BY DEF Ring
<1>11. \A x \in (S \ {z}) \ {hd}, y \in S \ {z} : h[y] >= h[x] \/ h[y] <= h[nxt2[x]]
  <2> SUFFICES ASSUME NEW x \in (S \ {z}) \ {hd}, NEW y \in S \ {z}
               PROVE  h[y] >= h[x] \/ h[y] <= h[nxt2[x]]
    OBVIOUS
  <2>1. CASE x = w
    <3>1. h[y] >= h[w] \/ h[y] <= h[z]
      BY <2>1, <1>1 DEF Ring
    <3>2. h[y] # h[z]
      BY DEF Heights
    <3> QED
      BY <2>1, <3>1, <3>2, <1>10, <1>2, <1>1
  <2>2. CASE x # w
    BY <2>2 DEF Ring
  <2> QED
    BY <2>1, <2>2
<1>12. \A y \in S \ {z} : h[y] <= h[nxt2[hd]]
  <2> SUFFICES ASSUME NEW y \in S \ {z}
               PROVE  h[y] <= h[nxt2[hd]]
    OBVIOUS
  <2>0. h[y] <= h[nxt[hd]]
    BY DEF Ring
  <2>1. CASE hd = w
    <3>1. h[y] <= h[z] /\ h[y] # h[z]
      BY <2>0, <2>1, <1>1 DEF Heights
    <3> QED
      BY <2>1, <3>1, <1>10, <1>2, <1>1
  <2>2. CASE hd # w
    BY <2>2, <2>0, <1>1
  <2> QED
    BY <2>1, <2>2
<1> QED
  BY <1>6, <1>7, <1>9, <1>11, <1>12 DEF Ring

(* Making room between the heights changes nothing. *)
LEMMA RingScale ==
  ASSUME NEW S, NEW hd, NEW h, NEW nxt, NEW prv, Heights(S, hd, h),
         Ring(S, hd, h, nxt, prv),
         NEW h2, \A x \in S : h2[x] = 2 * h[x]
  PROVE  Heights(S, hd, h2) /\ Ring(S, hd, h2, nxt, prv)
<1>1. \A x \in S : h[x] \in Nat /\ h2[x] \in Nat
  BY DEF Heights
<1>2. \A x, y \in S : h2[x] = h2[y] <=> h[x] = h[y]
  BY <1>1
<1>3. \A x, y \in S : /\ h2[x] < h2[y] <=> h[x] < h[y]
                      /\ h2[x] <= h2[y] <=> h[x] <= h[y]
                      /\ h2[x] >= h2[y] <=> h[x] >= h[y]
  BY <1>1
<1>4. Heights(S, hd, h2)
  BY <1>1, <1>2 DEF Heights
<1>5. \A x \in S : nxt[x] \in S
  BY DEF Ring
<1>6. hd \in S
  BY DEF Heights
<1> QED
  BY <1>3, <1>4, <1>5, <1>6 DEF Ring

(* A walk along nxt that passes over the elements of U, as a recursive     *)
(* function of where it starts: it exists, ...                             *)
LEMMA ScanExists ==
  ASSUME NEW S, NEW hd, NEW h, NEW nxt, NEW prv, Heights(S, hd, h),
         Ring(S, hd, h, nxt, prv), NEW D, NEW U, U \subseteq S \ {hd}, S \subseteq D
  PROVE  \E g : g = [x \in D |-> IF x \in U THEN g[nxt[x]] ELSE x]
<1> DEFINE e == [x \in D |-> IF x \in U THEN CHOOSE z : FirstBelow(S \ U, h, h[x], z) ELSE x]
<1>1. Heights(S \ U, hd, h)
  BY DEF Heights
<1>2. ASSUME NEW x \in U
      PROVE  FirstBelow(S \ U, h, h[x], e[x])
  <2>1. h[x] \in Nat \ {0}
    BY DEF Heights
  <2>2. \E z : FirstBelow(S \ U, h, h[x], z)
    BY <1>1, <2>1, FirstBelowExists
  <2>3. e[x] = CHOOSE z : FirstBelow(S \ U, h, h[x], z)
    OBVIOUS
  <2> HIDE DEF e
  <2> QED
    BY <2>2, <2>3
<1>3. \A x \in D \ U : e[x] = x
  OBVIOUS
<1>4. e = [x \in D |-> e[x]]
  OBVIOUS
<1> HIDE DEF e
<1>5. ASSUME NEW x \in U
      PROVE  e[x] = e[nxt[x]]
  <2>1. /\ nxt[x] \in S /\ h[x] \in Nat /\ h[nxt[x]] \in Nat /\ h[nxt[x]] < h[x]
        /\ \A y \in S : h[y] >= h[x] \/ h[y] <= h[nxt[x]]
        /\ \A y \in S : h[y] \in Nat
    BY DEF Heights, Ring
  <2>2. FirstBelow(S \ U, h, h[x], e[nxt[x]])
    <3>1. CASE nxt[x] \in U
      <4>1. FirstBelow(S \ U, h, h[nxt[x]], e[nxt[x]])
        BY <3>1, <1>2
      <4>2. Follows(S, h, x, nxt[x]) /\ nxt[x] \notin S \ U /\ S \ U \subseteq S
        BY <3>1, <2>1 DEF Follows
      <4> QED
        BY <4>1, <4>2, FirstBelowSkips
    <3>2. CASE nxt[x] \notin U
      BY <3>2, <2>1, <1>3 DEF FirstBelow
    <3> QED
      BY <3>1, <3>2
  <2>3. FirstBelow(S \ U, h, h[x], e[x])
    BY <1>2
  <2> QED
    BY <2>1, <2>2, <2>3, <1>1, FirstBelowUnique
<1>6. e = [x \in D |-> IF x \in U THEN e[nxt[x]] ELSE x]
  BY <1>3, <1>4, <1>5
<1> QED
  BY <1>6

(* g passes over the elements of U along nxt.                              *)
PassesOver(S, hd, U, nxt, g) ==
  /\ U \subseteq S \ {hd}
  /\ \A x \in S \ U : g[x] = x
  /\ \A x \in U : g[x] = g[nxt[x]]

(* ... and any such function finds the first element that is not in U.     *)
LEMMA ScanFinds ==
  ASSUME NEW S, NEW hd, NEW h, NEW nxt, NEW prv, Heights(S, hd, h),
         Ring(S, hd, h, nxt, prv), NEW U, NEW g, PassesOver(S, hd, U, nxt, g)
  PROVE  \A x \in U : FirstBelow(S \ U, h, h[x], g[x])
<1> USE DEF PassesOver
<1> DEFINE Bad == {x \in U : ~ FirstBelow(S \ U, h, h[x], g[x])}
           T == {h[x] : x \in Bad}
<1>1. ASSUME NEW x \in Bad
      PROVE  FALSE
  <2>1. T \subseteq Nat /\ T # {}
    BY DEF Heights
  <2>2. PICK t \in T : \A y \in T : t <= y
    BY <2>1, LeastNat
  <2>3. PICK b \in Bad : t = h[b]
    OBVIOUS
  <2>4. /\ nxt[b] \in S /\ h[b] \in Nat /\ h[nxt[b]] \in Nat /\ h[nxt[b]] < h[b]
        /\ \A y \in S : h[y] >= h[b] \/ h[y] <= h[nxt[b]]
        /\ \A y \in S : h[y] \in Nat
    BY DEF Heights, Ring
  <2>5. nxt[b] \notin Bad
    <3>1. nxt[b] \in Bad => h[nxt[b]] \in T
      OBVIOUS
    <3>2. nxt[b] \in Bad => h[b] <= h[nxt[b]]
      BY <3>1, <2>2, <2>3
    <3> QED
      BY <3>2, <2>4
  <2>6. FirstBelow(S \ U, h, h[b], g[nxt[b]])
    <3>1. CASE nxt[b] \in U
      <4>1. FirstBelow(S \ U, h, h[nxt[b]], g[nxt[b]])
        BY <3>1, <2>5
      <4>2. Follows(S, h, b, nxt[b]) /\ nxt[b] \notin S \ U /\ S \ U \subseteq S
        BY <3>1, <2>4 DEF Follows
      <4> QED
        BY <4>1, <4>2, FirstBelowSkips
    <3>2. CASE nxt[b] \notin U
      BY <3>2, <2>4 DEF FirstBelow
    <3> QED
      BY <3>1, <3>2
  <2> QED
    BY <2>3, <2>6
<1> QED
  BY <1>1

(* g is the walk along nxt from hd, and N steps of it visit S from the     *)
(* highest element down, and come back to hd.                              *)
Walk(nxt, hd, g) == g[0] = hd /\ \A n \in Nat : g[n + 1] = nxt[g[n]]
Visits(S, hd, h, g, N) ==
  /\ g[0] = hd /\ g[N + 1] = hd
  /\ {g[n] : n \in 1 .. N} = S \ {hd}
  /\ \A i, j \in 1 .. N + 1 : i < j => h[g[j]] < h[g[i]]

(* A walk from hd visits every element of a finite ring once, from the     *)
(* highest to the lowest, and is back at hd.                               *)
LEMMA WalkVisits ==
  ASSUME NEW S, NEW hd, NEW h, NEW nxt, NEW prv, Heights(S, hd, h),
         Ring(S, hd, h, nxt, prv), IsFiniteSet(S),
         NEW g, Walk(nxt, hd, g), NEW N, N = Cardinality(S \ {hd})
  PROVE  N \in Nat /\ Visits(S, hd, h, g, N)
<1> USE DEF Walk
<1> DEFINE B == S \ {hd}
           Seen(n) == {g[k] : k \in 1 .. n}
           P(n) == /\ g[n] \in S /\ (n > 0 => g[n] # hd)
                   /\ Seen(n) \subseteq B /\ IsFiniteSet(Seen(n)) /\ Cardinality(Seen(n)) = n
                   /\ \A k \in 1 .. n - 1 : h[g[n]] < h[g[k]]
                   /\ \A x \in B : x \in Seen(n) \/ h[x] <= h[nxt[g[n]]]
           T == {n \in Nat : n <= N => P(n)}
<1>1. IsFiniteSet(B) /\ N \in Nat
  BY FS_RemoveElement, FS_CardinalityType
<1>2. hd \in S /\ h[hd] = 0 /\ \A x \in S : h[x] \in Nat
  BY DEF Heights
<1>3. \A x \in B : h[x] \in Nat /\ h[x] > 0
  BY HeightsPositive
<1>4. 0 \in T
  <2>1. Seen(0) = {}
    OBVIOUS
  <2>2. IsFiniteSet(Seen(0)) /\ Cardinality(Seen(0)) = 0
    BY <2>1, FS_EmptySet
  <2>3. \A x \in B : h[x] <= h[nxt[g[0]]]
    BY DEF Ring
  <2> QED
    BY <2>1, <2>2, <2>3, <1>2
<1>5. ASSUME NEW n \in Nat, n \in T
      PROVE  n + 1 \in T
  <2> SUFFICES ASSUME n + 1 <= N
               PROVE  P(n + 1)
    OBVIOUS
  <2>1. P(n)
    BY <1>5, <1>1
  <2> DEFINE w == g[n + 1]
  <2>2. w = nxt[g[n]] /\ w \in S /\ g[n] \in S
    BY <2>1 DEF Ring
  <2>3. PICK y \in B : y \notin Seen(n)
    <3>1. Seen(n) # B
      <4>1. Cardinality(Seen(n)) = n
        BY <2>1
      <4> HIDE DEF Seen
      <4>2. Cardinality(B) = N /\ n # N
        BY <1>1
      <4> QED
        BY <4>1, <4>2
    <3> QED
      BY <2>1, <3>1
  <2>4. w # hd
    BY <2>1, <2>2, <2>3, <1>2, <1>3
  <2>5. n > 0 => h[w] < h[g[n]]
    BY <2>1, <2>2 DEF Ring
  <2>6. \A k \in 1 .. n : h[w] < h[g[k]]
    <3> SUFFICES ASSUME NEW k \in 1 .. n
                 PROVE  h[w] < h[g[k]]
      OBVIOUS
    <3>1. CASE k = n
      BY <3>1, <2>5
    <3>2. CASE k # n
      <4>1. k \in 1 .. n - 1 /\ g[k] \in S
        BY <3>2, <2>1
      <4>2. h[g[n]] < h[g[k]]
        BY <4>1, <2>1
      <4> QED
        BY <4>1, <4>2, <2>5, <2>2, <1>2
    <3> QED
      BY <3>1, <3>2
  <2>7. w \notin Seen(n)
    BY <2>6, <2>2, <1>2
  <2>8. Seen(n + 1) = Seen(n) \cup {w}
    <3>1. 1 .. n + 1 = (1 .. n) \cup {n + 1}
      OBVIOUS
    <3> QED
      BY <3>1
  <2>9. \A k \in 1 .. (n + 1) - 1 : h[w] < h[g[k]]
    BY <2>6
  <2> HIDE DEF Seen
  <2>10. IsFiniteSet(Seen(n + 1)) /\ Cardinality(Seen(n + 1)) = n + 1
    BY <2>1, <2>7, <2>8, FS_AddElement
  <2>11. \A x \in B : x \in Seen(n + 1) \/ h[x] <= h[nxt[w]]
    <3> SUFFICES ASSUME NEW x \in B, x \notin Seen(n + 1)
                 PROVE  h[x] <= h[nxt[w]]
      OBVIOUS
    <3>1. x # w /\ h[x] <= h[w] /\ h[x] # h[w]
      BY <2>8, <2>1, <2>2 DEF Heights
    <3>2. h[x] >= h[w] \/ h[x] <= h[nxt[w]]
      BY <2>2, <2>4 DEF Ring
    <3> QED
      BY <3>1, <3>2, <2>2, <1>2
  <2>12. Seen(n + 1) \subseteq B
    BY <2>8, <2>1, <2>2, <2>4
  <2> QED
    BY <2>2, <2>4, <2>9, <2>10, <2>11, <2>12
<1>6. \A n \in 0 .. N : P(n)
  <2>1. Nat \subseteq T
    <3> HIDE DEF T
    <3> QED
      BY <1>4, <1>5, NatInd
  <2> HIDE DEF P
  <2>2. \A n \in Nat : n <= N => P(n)
    BY <2>1
  <2>3. \A n \in 0 .. N : n \in Nat /\ n <= N
    BY <1>1
  <2> QED
    BY <2>2, <2>3
<1>7. N \in Nat /\ P(N)
  <2>1. N \in 0 .. N
    BY <1>1
  <2> HIDE DEF P
  <2>2. P(N)
    BY <1>6, <2>1, Zenon
  <2> QED
    BY <1>1, <2>2
<1>8. Seen(N) = B
  <2>1. Cardinality(Seen(N)) = Cardinality(B) /\ Seen(N) \in SUBSET B
    <3> HIDE DEF Seen
    <3> QED
      BY <1>7
  <2> HIDE DEF Seen
  <2> QED
    BY <1>1, <2>1, FS_Subset
<1>9. g[N + 1] = hd
  <2>1. g[N + 1] = nxt[g[N]] /\ nxt[g[N]] \in S
    BY <1>7 DEF Ring
  <2>2. SUFFICES ASSUME nxt[g[N]] # hd
                 PROVE  FALSE
    BY <2>1
  <2>3. PICK k \in 1 .. N : nxt[g[N]] = g[k]
    <3>1. nxt[g[N]] \in Seen(N)
      <4> HIDE DEF Seen
      <4> QED
        BY <2>1, <2>2, <1>8
    <3> HIDE DEF P
    <3> QED
      BY <3>1
  <2>4. h[nxt[g[N]]] < h[g[N]]
    BY <2>3, <1>7 DEF Ring
  <2>5. h[g[k]] >= h[g[N]]
    <3>1. CASE k = N
      BY <3>1, <2>3, <2>4, <2>1, <1>7, <1>2
    <3>2. CASE k # N
      <4>1. k \in 1 .. N - 1
        BY <3>2, <1>7
      <4>2. h[g[N]] < h[g[k]]
        BY <4>1, <1>7
      <4> QED
        BY <4>2, <2>1, <2>3, <1>2, <1>7
    <3> QED
      BY <3>1, <3>2
  <2> QED
    BY <2>3, <2>4, <2>5, <2>1, <1>2, <1>7
<1>10. \A i, j \in 1 .. N + 1 : i < j => h[g[j]] < h[g[i]]
  <2> SUFFICES ASSUME NEW i \in 1 .. N + 1, NEW j \in 1 .. N + 1, i < j
               PROVE  h[g[j]] < h[g[i]]
    OBVIOUS
  <2>1. CASE j = N + 1
    <3>1. i \in 1 .. N
      BY <2>1, <1>7
    <3>2. g[i] \in B
      BY <3>1, <1>8
    <3> QED
      BY <2>1, <3>2, <1>2, <1>3, <1>9
  <2>2. CASE j # N + 1
    <3>1. j \in 0 .. N /\ i \in 1 .. j - 1
      BY <2>2, <1>7
    <3>2. P(j)
      <4> HIDE DEF P
      <4> QED
        BY <3>1, <1>6
    <3> QED
      BY <3>1, <3>2
  <2> QED
    BY <2>1, <2>2
<1> QED
  BY <1>7, <1>8, <1>9, <1>10 DEF Visits

(* The neighbours of an element other than hd.                             *)
LEMMA RingNeighbours ==
  ASSUME NEW S, NEW hd, NEW h, NEW nxt, NEW prv, Heights(S, hd, h),
         Ring(S, hd, h, nxt, prv), NEW x \in S \ {hd}
  PROVE  /\ nxt[x] \in S /\ prv[x] \in S /\ nxt[x] # x /\ prv[x] # x
         /\ nxt[prv[x]] = x /\ prv[nxt[x]] = x
         /\ nxt[x] # hd => nxt[nxt[x]] # x /\ prv[x] # nxt[x]
<1>1. /\ nxt[x] \in S /\ prv[x] \in S /\ nxt[prv[x]] = x /\ prv[nxt[x]] = x
      /\ h[nxt[x]] < h[x] /\ h[x] \in Nat /\ h[nxt[x]] \in Nat
  BY DEF Heights, Ring
<1>2. nxt[x] # x
  BY <1>1
<1>3. prv[x] # x
  BY <1>1, <1>2
<1>4. ASSUME nxt[x] # hd
      PROVE  nxt[nxt[x]] # x /\ prv[x] # nxt[x]
  <2>1. h[nxt[nxt[x]]] < h[nxt[x]] /\ h[nxt[nxt[x]]] \in Nat
    BY <1>1, <1>4 DEF Heights, Ring
  <2>2. nxt[nxt[x]] # x
    BY <1>1, <2>1
  <2> QED
    BY <1>1, <2>2
<1> QED
  BY <1>1, <1>2, <1>3, <1>4

(* A ring through some of the elements of another one, in the same order,  *)
(* goes from an element to the next one if it has that one too.            *)
LEMMA RingSub ==
  ASSUME NEW S, NEW hd, NEW h, NEW nxt, NEW prv, Heights(S, hd, h),
         Ring(S, hd, h, nxt, prv), NEW F, F \subseteq S, NEW nf, NEW pf,
         Ring(F, hd, h, nf, pf), NEW x \in F \ {hd}, nxt[x] \in F
  PROVE  nf[x] = nxt[x]
<1>1. /\ nxt[x] \in S /\ nf[x] \in F /\ nf[x] \in S /\ x \in S
      /\ h[nf[x]] < h[x] /\ h[nxt[x]] < h[x]
  BY DEF Ring
<1>2. h[nxt[x]] \in Nat /\ h[nf[x]] \in Nat /\ h[x] \in Nat
  BY <1>1 DEF Heights
<1>3. h[nxt[x]] >= h[x] \/ h[nxt[x]] <= h[nf[x]]
  BY DEF Ring
<1>4. h[nf[x]] >= h[x] \/ h[nf[x]] <= h[nxt[x]]
  BY <1>1 DEF Ring
<1>5. h[nf[x]] = h[nxt[x]]
  BY <1>1, <1>2, <1>3, <1>4
<1> QED
  BY <1>1, <1>5 DEF Heights

(* Along that walk, an element of a sublist is followed by the next one    *)
(* that the walk does not skip.                                            *)
Skipped(g, F, i, j) == \A k \in i + 1 .. j - 1 : g[k] \notin F

(* Two elements of the ring F with none of F visited between them are      *)
(* neighbours in F, if F and the ring the walk follows have the same       *)
(* heights.                                                                *)
LEMMA SublistOrder ==
  ASSUME NEW S, NEW hd, NEW h, Heights(S, hd, h), NEW N \in Nat, NEW g, Visits(S, hd, h, g, N),
         NEW F, F \subseteq S, hd \in F, NEW fn, NEW fp, Ring(F, hd, h, fn, fp),
         NEW i \in 0 .. N + 1, NEW j \in 0 .. N + 1, i < j, g[i] \in F, g[j] \in F,
         Skipped(g, F, i, j)
  PROVE  fn[g[i]] = g[j] /\ fp[g[j]] = g[i]
<1>1. PICK x, z, w : x = g[i] /\ z = g[j] /\ w = fn[g[i]]
  OBVIOUS
<1>2. x \in F /\ z \in F /\ w \in F /\ fp[w] = x
  BY <1>1 DEF Ring
<1>3. PICK k \in 1 .. N + 1 : w = g[k]
  <2>1. w = hd \/ w \in {g[n] : n \in 1 .. N}
    BY <1>2 DEF Visits
  <2> QED
    BY <2>1 DEF Visits
<1>4. \A p \in S : h[p] \in Nat
  BY DEF Heights
<1>5. h[w] \in Nat /\ h[z] \in Nat /\ h[x] \in Nat
  BY <1>2, <1>4
<1>6. k > i /\ h[z] <= h[w]
  <2>1. CASE i = 0
    <3>1. x = hd
      BY <1>1, <2>1 DEF Visits
    <3> QED
      BY <1>1, <1>2, <2>1, <3>1 DEF Ring
  <2>2. CASE i # 0
    <3>1. i \in 1 .. N /\ j \in 1 .. N + 1
      BY <2>2
    <3>2. x # hd /\ h[z] < h[x]
      BY <1>1, <3>1 DEF Visits
    <3>3. h[w] < h[x] /\ (h[z] >= h[x] \/ h[z] <= h[w])
      BY <1>1, <1>2, <3>2 DEF Ring
    <3>4. ~ (k <= i)
      <4>1. k = i => FALSE
        BY <1>1, <1>3, <1>5, <3>3
      <4>2. k < i => h[x] < h[w]
        BY <1>1, <1>3, <3>1 DEF Visits
      <4> QED
        BY <1>5, <3>1, <3>3, <4>1, <4>2
    <3> QED
      BY <1>5, <3>1, <3>2, <3>3, <3>4
  <2> QED
    BY <2>1, <2>2
<1>7. k >= j
  BY <1>2, <1>3, <1>6 DEF Skipped
<1>8. h[w] <= h[z]
  <2>1. CASE k = j
    BY <1>1, <1>3, <1>5, <2>1
  <2>2. CASE j < k
    <3>1. j \in 1 .. N + 1
      BY <2>2
    <3> QED
      BY <1>1, <1>3, <1>5, <2>2, <3>1 DEF Visits
  <2> QED
    BY <1>7, <2>1, <2>2
<1>9. w = z
  BY <1>2, <1>5, <1>6, <1>8 DEF Heights
<1> QED
  BY <1>1, <1>2, <1>9

=============================================================================
