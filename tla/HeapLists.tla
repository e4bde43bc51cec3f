----------------------------- MODULE HeapLists ------------------------------
(***************************************************************************)
(* The headers of the heap and its two lists: what each utility of         *)
(* malloc.c does to the fields of the headers, and why the lists stay      *)
(* circular and in the same order. The lemmas are about any heap, not      *)
(* about the state of the program.                                         *)
(***************************************************************************)
EXTENDS Malloc, Rings, TLAPS

(* The assignments of the C code, taken one at a time.                     *)

Node == [size : Int, bnext : Int, bprev : Int, fnext : Int, fprev : Int]
(* m holds headers at the addresses D, and v is the value of a field. *)
Headers(D, m) == m \in [D -> Node]
Field(v) == v \in Int

SetSize(m, a, v) == [m EXCEPT ![a].size = v]
SetBnext(m, a, v) == [m EXCEPT ![a].bnext = v]
SetBprev(m, a, v) == [m EXCEPT ![a].bprev = v]
SetFnext(m, a, v) == [m EXCEPT ![a].fnext = v]
SetFprev(m, a, v) == [m EXCEPT ![a].fprev = v]

(* m2 is m, but for one field of the header at a. *)
SizeSet(D, m, a, v, m2) ==
  \A p \in D :
    /\ m2[p].size = (IF p = a THEN v ELSE m[p].size)
    /\ m2[p].bnext = m[p].bnext
    /\ m2[p].bprev = m[p].bprev
    /\ m2[p].fnext = m[p].fnext
    /\ m2[p].fprev = m[p].fprev
BnextSet(D, m, a, v, m2) ==
  \A p \in D :
    /\ m2[p].size = m[p].size
    /\ m2[p].bnext = (IF p = a THEN v ELSE m[p].bnext)
    /\ m2[p].bprev = m[p].bprev
    /\ m2[p].fnext = m[p].fnext
    /\ m2[p].fprev = m[p].fprev
BprevSet(D, m, a, v, m2) ==
  \A p \in D :
    /\ m2[p].size = m[p].size
    /\ m2[p].bnext = m[p].bnext
    /\ m2[p].bprev = (IF p = a THEN v ELSE m[p].bprev)
    /\ m2[p].fnext = m[p].fnext
    /\ m2[p].fprev = m[p].fprev
FnextSet(D, m, a, v, m2) ==
  \A p \in D :
    /\ m2[p].size = m[p].size
    /\ m2[p].bnext = m[p].bnext
    /\ m2[p].bprev = m[p].bprev
    /\ m2[p].fnext = (IF p = a THEN v ELSE m[p].fnext)
    /\ m2[p].fprev = m[p].fprev
FprevSet(D, m, a, v, m2) ==
  \A p \in D :
    /\ m2[p].size = m[p].size
    /\ m2[p].bnext = m[p].bnext
    /\ m2[p].bprev = m[p].bprev
    /\ m2[p].fnext = m[p].fnext
    /\ m2[p].fprev = (IF p = a THEN v ELSE m[p].fprev)

(* An assignment to one field of one header changes nothing else: size,    *)
LEMMA SetSizeSets ==
  ASSUME NEW D, NEW m, NEW a \in D, NEW v, Headers(D, m), Field(v)
  PROVE  Headers(D, SetSize(m, a, v)) /\ SizeSet(D, m, a, v, SetSize(m, a, v))
BY DEF SetSize, SizeSet, Node, Headers, Field

(* bnext,                                                                  *)
LEMMA SetBnextSets ==
  ASSUME NEW D, NEW m, NEW a \in D, NEW v, Headers(D, m), Field(v)
  PROVE  Headers(D, SetBnext(m, a, v)) /\ BnextSet(D, m, a, v, SetBnext(m, a, v))
BY DEF SetBnext, BnextSet, Node, Headers, Field

(* bprev,                                                                  *)
LEMMA SetBprevSets ==
  ASSUME NEW D, NEW m, NEW a \in D, NEW v, Headers(D, m), Field(v)
  PROVE  Headers(D, SetBprev(m, a, v)) /\ BprevSet(D, m, a, v, SetBprev(m, a, v))
BY DEF SetBprev, BprevSet, Node, Headers, Field

(* fnext,                                                                  *)
LEMMA SetFnextSets ==
  ASSUME NEW D, NEW m, NEW a \in D, NEW v, Headers(D, m), Field(v)
  PROVE  Headers(D, SetFnext(m, a, v)) /\ FnextSet(D, m, a, v, SetFnext(m, a, v))
BY DEF SetFnext, FnextSet, Node, Headers, Field

(* and fprev.                                                              *)
LEMMA SetFprevSets ==
  ASSUME NEW D, NEW m, NEW a \in D, NEW v, Headers(D, m), Field(v)
  PROVE  Headers(D, SetFprev(m, a, v)) /\ FprevSet(D, m, a, v, SetFprev(m, a, v))
BY DEF SetFprev, FprevSet, Node, Headers, Field

(* The four assignments of __free_block, and those of __list_block. *)
LinkFree(m, b, pb, pa) ==
  [m EXCEPT ![b].fprev = pb, ![pb].fnext = b, ![b].fnext = pa, ![pa].fprev = b]
LinkBlock(m, b, pb, pa) ==
  [m EXCEPT ![b].bprev = pb, ![b].bnext = pa, ![pb].bnext = b, ![pa].bprev = b]

LinkedFree(D, m, b, pb, pa, m2) ==
  \A p \in D :
    /\ m2[p].size = m[p].size
    /\ m2[p].bnext = m[p].bnext
    /\ m2[p].bprev = m[p].bprev
    /\ m2[p].fnext = (IF p = b THEN pa ELSE IF p = pb THEN b ELSE m[p].fnext)
    /\ m2[p].fprev = (IF p = pa THEN b ELSE IF p = b THEN pb ELSE m[p].fprev)

LinkedBlock(D, m, b, pb, pa, m2) ==
  \A p \in D :
    /\ m2[p].size = m[p].size
    /\ m2[p].bnext = (IF p = pb THEN b ELSE IF p = b THEN pa ELSE m[p].bnext)
    /\ m2[p].bprev = (IF p = pa THEN b ELSE IF p = b THEN pb ELSE m[p].bprev)
    /\ m2[p].fnext = m[p].fnext
    /\ m2[p].fprev = m[p].fprev

(* The four assignments of __free_block, for any b between pb and pa.      *)
LEMMA LinkFreeLinks ==
  ASSUME NEW D, NEW m, Headers(D, m), D \subseteq Int,
         NEW b \in D, NEW pb \in D, NEW pa \in D
  PROVE  LET m2 == LinkFree(m, b, pb, pa)
         IN  Headers(D, m2) /\ LinkedFree(D, m, b, pb, pa, m2)
<1>1. Field(b) /\ Field(pb) /\ Field(pa)
  BY DEF Field
<1>2. PICK m3 : m3 = SetFprev(m, b, pb)
  OBVIOUS
<1>3. Headers(D, m3) /\ FprevSet(D, m, b, pb, m3)
  BY <1>1, <1>2, SetFprevSets
<1>4. PICK m4 : m4 = SetFnext(m3, pb, b)
  OBVIOUS
<1>5. Headers(D, m4) /\ FnextSet(D, m3, pb, b, m4)
  BY <1>1, <1>4, <1>3, SetFnextSets
<1>6. PICK m5 : m5 = SetFnext(m4, b, pa)
  OBVIOUS
<1>7. Headers(D, m5) /\ FnextSet(D, m4, b, pa, m5)
  BY <1>1, <1>6, <1>5, SetFnextSets
<1>8. PICK m6 : m6 = SetFprev(m5, pa, b)
  OBVIOUS
<1>9. Headers(D, m6) /\ FprevSet(D, m5, pa, b, m6)
  BY <1>1, <1>8, <1>7, SetFprevSets
<1>10. LinkedFree(D, m, b, pb, pa, m6)
  BY <1>3, <1>5, <1>7, <1>9 DEF LinkedFree, SizeSet, BnextSet, BprevSet, FnextSet, FprevSet
<1>11. LinkFree(m, b, pb, pa) = m6
  BY <1>2, <1>4, <1>6, <1>8 DEF LinkFree, SetSize, SetBnext, SetBprev, SetFnext, SetFprev
<1> QED
  BY <1>9, <1>10, <1>11

(* Those of __list_block.                                                  *)
LEMMA LinkBlockLinks ==
  ASSUME NEW D, NEW m, Headers(D, m), D \subseteq Int,
         NEW b \in D, NEW pb \in D, NEW pa \in D
  PROVE  LET m2 == LinkBlock(m, b, pb, pa)
         IN  Headers(D, m2) /\ LinkedBlock(D, m, b, pb, pa, m2)
<1>1. Field(b) /\ Field(pb) /\ Field(pa)
  BY DEF Field
<1>2. PICK m3 : m3 = SetBprev(m, b, pb)
  OBVIOUS
<1>3. Headers(D, m3) /\ BprevSet(D, m, b, pb, m3)
  BY <1>1, <1>2, SetBprevSets
<1>4. PICK m4 : m4 = SetBnext(m3, b, pa)
  OBVIOUS
<1>5. Headers(D, m4) /\ BnextSet(D, m3, b, pa, m4)
  BY <1>1, <1>4, <1>3, SetBnextSets
<1>6. PICK m5 : m5 = SetBnext(m4, pb, b)
  OBVIOUS
<1>7. Headers(D, m5) /\ BnextSet(D, m4, pb, b, m5)
  BY <1>1, <1>6, <1>5, SetBnextSets
<1>8. PICK m6 : m6 = SetBprev(m5, pa, b)
  OBVIOUS
<1>9. Headers(D, m6) /\ BprevSet(D, m5, pa, b, m6)
  BY <1>1, <1>8, <1>7, SetBprevSets
<1>10. LinkedBlock(D, m, b, pb, pa, m6)
  BY <1>3, <1>5, <1>7, <1>9 DEF LinkedBlock, SizeSet, BnextSet, BprevSet, FnextSet, FprevSet
<1>11. LinkBlock(m, b, pb, pa) = m6
  BY <1>2, <1>4, <1>6, <1>8 DEF LinkBlock, SetSize, SetBnext, SetBprev, SetFnext, SetFprev
<1> QED
  BY <1>9, <1>10, <1>11

(* b in the place of z, when it has the predecessors of z already. *)
Assumed(D, m, b, z, s, m2) ==
  \A p \in D :
    /\ m2[p].size = (IF p = b THEN s ELSE m[p].size)
    /\ m2[p].bnext = (IF p = m[b].bprev THEN b ELSE IF p = b THEN m[z].bnext ELSE m[p].bnext)
    /\ m2[p].bprev = (IF p = m[z].bnext THEN b ELSE m[p].bprev)
    /\ m2[p].fnext = (IF p = m[b].fprev THEN b ELSE IF p = b THEN m[z].fnext ELSE m[p].fnext)
    /\ m2[p].fprev = (IF p = m[z].fnext THEN b ELSE m[p].fprev)

(* No neighbour is b or z itself, and all of them are headers. *)
Apart(D, m, b, z) ==
  /\ b \in D /\ z \in D /\ b # z
  /\ m[z].bnext \in D \ {b} /\ m[z].fnext \in D \ {b}
  /\ m[b].bprev \in D \ {b, z} /\ m[b].fprev \in D \ {b, z}

(* __assume_block_position: what each field holds when it is done.         *)
LEMMA AssumePlace ==
  ASSUME NEW D, NEW m, Headers(D, m), D \subseteq Int,
         NEW b, NEW z, NEW s \in Int, Apart(D, m, b, z)
  PROVE  LET m2 == AssumeBlockPosition(m, b, z, s)
         IN  Headers(D, m2) /\ Assumed(D, m, b, z, s, m2)
<1> DEFINE bn == m[z].bnext
           bp == m[b].bprev
           fn == m[z].fnext
           fp == m[b].fprev
<1>1. /\ Field(s) /\ Field(b) /\ Field(bn) /\ Field(bp) /\ Field(fn) /\ Field(fp)
      /\ b \in D /\ z \in D /\ bn \in D /\ bp \in D /\ fn \in D /\ fp \in D
      /\ b # z /\ bn # b /\ fn # b /\ bp # b /\ fp # b /\ bp # z /\ fp # z
  BY DEF Field, Apart
<1> HIDE DEF bn, bp, fn, fp
<1>2. PICK m3 : m3 = SetSize(m, b, s)
  OBVIOUS
<1>3. Headers(D, m3) /\ SizeSet(D, m, b, s, m3)
  BY <1>1, <1>2, SetSizeSets
<1>4. PICK m4 : m4 = SetBnext(m3, b, bn)
  OBVIOUS
<1>5. Headers(D, m4) /\ BnextSet(D, m3, b, bn, m4)
  BY <1>1, <1>4, <1>3, SetBnextSets
<1>6. PICK m5 : m5 = SetBprev(m4, bn, b)
  OBVIOUS
<1>7. Headers(D, m5) /\ BprevSet(D, m4, bn, b, m5)
  BY <1>1, <1>6, <1>5, SetBprevSets
<1>8. PICK m6 : m6 = SetBnext(m5, bp, b)
  OBVIOUS
<1>9. Headers(D, m6) /\ BnextSet(D, m5, bp, b, m6)
  BY <1>1, <1>8, <1>7, SetBnextSets
<1>10. PICK m7 : m7 = SetFnext(m6, b, fn)
  OBVIOUS
<1>11. Headers(D, m7) /\ FnextSet(D, m6, b, fn, m7)
  BY <1>1, <1>10, <1>9, SetFnextSets
<1>12. PICK m8 : m8 = SetFprev(m7, fn, b)
  OBVIOUS
<1>13. Headers(D, m8) /\ FprevSet(D, m7, fn, b, m8)
  BY <1>1, <1>12, <1>11, SetFprevSets
<1>14. PICK m9 : m9 = SetFnext(m8, fp, b)
  OBVIOUS
<1>15. Headers(D, m9) /\ FnextSet(D, m8, fp, b, m9)
  BY <1>1, <1>14, <1>13, SetFnextSets
<1>16. m5[b].bprev = bp
  BY <1>1, <1>3, <1>5, <1>7 DEF SizeSet, BnextSet, BprevSet, FnextSet, FprevSet, bp
<1>17. m6[z].fnext = fn /\ m8[b].fprev = fp
  BY <1>1, <1>3, <1>5, <1>7, <1>9, <1>11, <1>13, <1>15
     DEF SizeSet, BnextSet, BprevSet, FnextSet, FprevSet, fn, fp
<1>18. m5 = [m EXCEPT ![b].size = s, ![b].bnext = bn, ![bn].bprev = b]
  BY <1>2, <1>4, <1>6 DEF SetSize, SetBnext, SetBprev, SetFnext, SetFprev
<1>19. m6 = [m5 EXCEPT ![bp].bnext = b]
  BY <1>8 DEF SetSize, SetBnext, SetBprev, SetFnext, SetFprev
<1>20. m8 = [m6 EXCEPT ![b].fnext = fn, ![fn].fprev = b]
  BY <1>10, <1>12 DEF SetSize, SetBnext, SetBprev, SetFnext, SetFprev
<1>21. m9 = [m8 EXCEPT ![fp].fnext = b]
  BY <1>14 DEF SetSize, SetBnext, SetBprev, SetFnext, SetFprev
<1>22. AssumeBlockPosition(m, b, z, s) = m9
  BY <1>16, <1>17, <1>18, <1>19, <1>20, <1>21 DEF AssumeBlockPosition, bn
<1>23. Assumed(D, m, b, z, s, m9)
  BY <1>1, <1>3, <1>5, <1>7, <1>9, <1>11, <1>13, <1>15
     DEF Assumed, SizeSet, BnextSet, BprevSet, FnextSet, FprevSet, bn, bp, fn, fp
<1> QED
  BY <1>15, <1>22, <1>23

(* The predecessors of b lead to it. *)
Linked(m, b) == m[m[b].bprev].bnext = b /\ m[m[b].fprev].fnext = b

(* b absorbs the next block, z. *)
Merged(D, m, b, z, s, m2) ==
  \A p \in D \ {z} :
    /\ m2[p].size = (IF p = b THEN s ELSE m[p].size)
    /\ m2[p].bnext = (IF p = b THEN m[z].bnext ELSE m[p].bnext)
    /\ m2[p].bprev = (IF p = m[z].bnext THEN b ELSE m[p].bprev)
    /\ m2[p].fnext = (IF p = b THEN m[z].fnext ELSE m[p].fnext)
    /\ m2[p].fprev = (IF p = m[z].fnext THEN b ELSE m[p].fprev)

(* The same when b precedes z in both lists, once the header z is gone.    *)
LEMMA MergeMerges ==
  ASSUME NEW D, NEW m, Headers(D, m), D \subseteq Int,
         NEW b, NEW z, NEW s \in Int, Apart(D, m, b, z), Linked(m, b),
         HeadAt \in D, z # HeadAt
  PROVE  LET m2 == Drop(AssumeBlockPosition(m, b, z, s), z)
         IN  Headers(D \ {z}, m2) /\ Merged(D, m, b, z, s, m2)
<1>1. PICK m1 : m1 = AssumeBlockPosition(m, b, z, s)
  OBVIOUS
<1>2. Headers(D, m1) /\ Assumed(D, m, b, z, s, m1)
  BY <1>1, AssumePlace
<1>3. PICK m2 : m2 = Drop(m1, z)
  OBVIOUS
<1>4. DOMAIN m1 = D /\ \A p \in D : m1[p] \in Node
  BY <1>2 DEF Headers
<1>5. Headers(D \ {z}, m2) /\ \A p \in D \ {z} : m2[p] = m1[p]
  BY <1>3, <1>4 DEF Drop, Headers
<1>6. Merged(D, m, b, z, s, m2)
  <2> SUFFICES ASSUME NEW p \in D \ {z}
               PROVE  /\ m2[p].size = (IF p = b THEN s ELSE m[p].size)
                      /\ m2[p].bnext = (IF p = b THEN m[z].bnext ELSE m[p].bnext)
                      /\ m2[p].bprev = (IF p = m[z].bnext THEN b ELSE m[p].bprev)
                      /\ m2[p].fnext = (IF p = b THEN m[z].fnext ELSE m[p].fnext)
                      /\ m2[p].fprev = (IF p = m[z].fnext THEN b ELSE m[p].fprev)
    BY DEF Merged
  <2>1. m2[p] = m1[p] /\ p \in D
    BY <1>5
  <2>2. m2[p].size = (IF p = b THEN s ELSE m[p].size)
    BY <1>2, <2>1 DEF Assumed
  <2>3. m2[p].bnext = (IF p = b THEN m[z].bnext ELSE m[p].bnext)
    BY <1>2, <2>1 DEF Assumed, Linked, Apart
  <2>4. m2[p].bprev = (IF p = m[z].bnext THEN b ELSE m[p].bprev)
    BY <1>2, <2>1 DEF Assumed
  <2>5. m2[p].fnext = (IF p = b THEN m[z].fnext ELSE m[p].fnext)
    BY <1>2, <2>1 DEF Assumed, Linked, Apart
  <2>6. m2[p].fprev = (IF p = m[z].fnext THEN b ELSE m[p].fprev)
    BY <1>2, <2>1 DEF Assumed
  <2> QED
    BY <2>2, <2>3, <2>4, <2>5, <2>6
<1> QED
  BY <1>1, <1>3, <1>5, <1>6

(* The whole of b is taken from the free list. *)
TakenWhole(D, m, b, m2) ==
  \A p \in D :
    /\ m2[p].size = (IF p = b THEN m[b].size + 1 ELSE m[p].size)
    /\ m2[p].bnext = m[p].bnext
    /\ m2[p].bprev = m[p].bprev
    /\ m2[p].fnext = (IF p = b THEN NULL ELSE IF p = m[b].fprev THEN m[b].fnext ELSE m[p].fnext)
    /\ m2[p].fprev = (IF p = b THEN UserData ELSE IF p = m[b].fnext THEN m[b].fprev ELSE m[p].fprev)

TakeMarked(t, b) == [t EXCEPT ![b].fprev = UserData, ![b].fnext = NULL]

(* __find_block uses a free block whole: only its neighbours change.       *)
LEMMA UnlinkTakes ==
  ASSUME NEW D, NEW m, Headers(D, m), D \subseteq Int, NEW b \in D,
         m[b].fnext \in D \ {b}, m[b].fprev \in D \ {b}
  PROVE  LET m2 == TakeMarked(Unlink(m, b), b)
         IN  Headers(D, m2) /\ TakenWhole(D, m, b, m2)
<1> DEFINE fn == m[b].fnext
           fp == m[b].fprev
           s1 == m[b].size + 1
<1>1. /\ Field(s1) /\ Field(fn) /\ Field(fp) /\ Field(UserData) /\ Field(NULL)
      /\ b \in D /\ fn \in D /\ fp \in D /\ b # fn /\ b # fp
  BY DEF Field, Headers, Node, UserData, NULL
<1> HIDE DEF fn, fp, s1
<1>2. PICK m3 : m3 = SetFprev(m, fn, fp)
  OBVIOUS
<1>3. Headers(D, m3) /\ FprevSet(D, m, fn, fp, m3)
  BY <1>1, <1>2, SetFprevSets
<1>4. PICK m4 : m4 = SetFnext(m3, fp, fn)
  OBVIOUS
<1>5. Headers(D, m4) /\ FnextSet(D, m3, fp, fn, m4)
  BY <1>1, <1>4, <1>3, SetFnextSets
<1>6. PICK m5 : m5 = SetSize(m4, b, s1)
  OBVIOUS
<1>7. Headers(D, m5) /\ SizeSet(D, m4, b, s1, m5)
  BY <1>1, <1>6, <1>5, SetSizeSets
<1>8. PICK m6 : m6 = SetFprev(m5, b, UserData)
  OBVIOUS
<1>9. Headers(D, m6) /\ FprevSet(D, m5, b, UserData, m6)
  BY <1>1, <1>8, <1>7, SetFprevSets
<1>10. PICK m7 : m7 = SetFnext(m6, b, NULL)
  OBVIOUS
<1>11. Headers(D, m7) /\ FnextSet(D, m6, b, NULL, m7)
  BY <1>1, <1>10, <1>9, SetFnextSets
<1>12. m3[b].fprev = fp /\ m3[b].fnext = fn /\ m4[b].size + 1 = s1
  BY <1>1, <1>3, <1>5 DEF SizeSet, BnextSet, BprevSet, FnextSet, FprevSet, fn, fp, s1
<1>13. m3 = [m EXCEPT ![fn].fprev = fp]
  BY <1>2 DEF SetSize, SetBnext, SetBprev, SetFnext, SetFprev
<1>14. m4 = [m3 EXCEPT ![fp].fnext = fn]
  BY <1>4 DEF SetSize, SetBnext, SetBprev, SetFnext, SetFprev
<1>15. m5 = [m4 EXCEPT ![b].size = @ + 1]
  BY <1>6, <1>12 DEF SetSize, SetBnext, SetBprev, SetFnext, SetFprev
<1>16. Unlink(m, b) = m5
  BY <1>12, <1>13, <1>14, <1>15 DEF Unlink, fn, fp
<1>17. TakeMarked(m5, b) = m7
  BY <1>8, <1>10 DEF SetSize, SetBnext, SetBprev, SetFnext, SetFprev, TakeMarked
<1>18. TakenWhole(D, m, b, m7)
  BY <1>1, <1>3, <1>5, <1>7, <1>9, <1>11
     DEF TakenWhole, SizeSet, BnextSet, BprevSet, FnextSet, FprevSet, fn, fp, s1
<1> QED
  BY <1>11, <1>16, <1>17, <1>18

(* The head of b is taken, and its tail nb replaces it in the free list. *)
TakenHead(D, m, b, nb, size, m2) ==
  \A p \in D \cup {nb} :
    /\ m2[p].size = (IF p = b THEN size + 1
                       ELSE IF p = nb THEN m[b].size - size ELSE m[p].size)
    /\ m2[p].bnext = (IF p = b THEN nb ELSE IF p = nb THEN m[b].bnext ELSE m[p].bnext)
    /\ m2[p].bprev = (IF p = nb THEN b ELSE IF p = m[b].bnext THEN nb ELSE m[p].bprev)
    /\ m2[p].fnext = (IF p = b THEN NULL ELSE IF p = nb THEN m[b].fnext
                        ELSE IF p = m[b].fprev THEN nb ELSE m[p].fnext)
    /\ m2[p].fprev = (IF p = b THEN UserData ELSE IF p = nb THEN m[b].fprev
                        ELSE IF p = m[b].fnext THEN nb ELSE m[p].fprev)

(* The header that __find_block has not written yet.                       *)
LEMMA FreshNode ==
  ASSUME NEW x \in Node
  PROVE  LET y == [x EXCEPT !.size = 0, !.bnext = NULL, !.fnext = NULL]
         IN  y \in Node /\ y.bprev = x.bprev /\ y.fprev = x.fprev
<1>1. PICK y1 : y1 = [x EXCEPT !.size = 0]
  OBVIOUS
<1>2. y1 \in Node /\ y1.bprev = x.bprev /\ y1.fprev = x.fprev
  BY <1>1 DEF Node
<1>3. PICK y2 : y2 = [y1 EXCEPT !.bnext = NULL]
  OBVIOUS
<1>4. y2 \in Node /\ y2.bprev = y1.bprev /\ y2.fprev = y1.fprev
  BY <1>2, <1>3 DEF Node, NULL
<1>5. PICK y3 : y3 = [y2 EXCEPT !.fnext = NULL]
  OBVIOUS
<1>6. y3 \in Node /\ y3.bprev = y2.bprev /\ y3.fprev = y2.fprev
  BY <1>4, <1>5 DEF Node, NULL
<1> QED
  BY <1>1, <1>2, <1>3, <1>4, <1>5, <1>6

(* __find_block leaves the tail of a free block in its place.              *)
LEMMA SplitTakes ==
  ASSUME NEW D, NEW m, Headers(D, m), D \subseteq Int, NEW b \in D, NEW size \in Int,
         b + size \notin D, m[b].bnext \in D \ {b}, m[b].bprev \in D \ {b},
         m[b].fnext \in D \ {b}, m[b].fprev \in D \ {b}, Linked(m, b)
  PROVE  LET m2 == TakeMarked(Split(m, b, size), b)
         IN  Headers(D \cup {b + size}, m2) /\ TakenHead(D, m, b, b + size, size, m2)
<1> DEFINE nb == b + size
           D2 == D \cup {nb}
           fresh == [m[b] EXCEPT !.size = 0, !.bnext = NULL, !.fnext = NULL]
           rest == m[b].size - size
<1>1. PICK m1 : m1 = [p \in D2 |-> IF p = nb /\ nb # b THEN fresh ELSE m[p]]
  OBVIOUS
<1>2. /\ fresh \in Node /\ fresh.bprev = m[b].bprev /\ fresh.fprev = m[b].fprev
  <2>1. PICK x : x = m[b]
    OBVIOUS
  <2>2. x \in Node
    BY <2>1 DEF Headers
  <2> QED
    BY <2>1, <2>2, FreshNode
<1>3. /\ DOMAIN m = D /\ nb # b /\ nb \notin D /\ nb \in Int /\ D2 \subseteq Int /\ rest \in Int
      /\ b \in D /\ size \in Int /\ \A p \in D : m[p] \in Node
  BY DEF Headers, Node
<1> HIDE DEF fresh, nb, rest
<1>4. /\ Headers(D2, m1) /\ m1[nb] = fresh
      /\ \A p \in D : m1[p] = m[p]
  BY <1>1, <1>2, <1>3 DEF Headers
<1>5. Apart(D2, m1, nb, b)
  BY <1>2, <1>3, <1>4 DEF Apart
<1>6. PICK m2 : m2 = AssumeBlockPosition(m1, nb, b, rest)
  OBVIOUS
<1>7. Headers(D2, m2) /\ Assumed(D2, m1, nb, b, rest, m2)
  BY <1>3, <1>4, <1>5, <1>6, AssumePlace
<1>8. PICK m3 : m3 = SetSize(m2, b, size + 1)
  OBVIOUS
<1>9. /\ Field(size + 1) /\ Field(UserData) /\ Field(NULL)
      /\ b \in D2 /\ nb \in D2 /\ m[b].bprev \in D2
  BY <1>3 DEF Field, UserData, NULL
<1> HIDE DEF D2
<1>10. Headers(D2, m3) /\ SizeSet(D2, m2, b, size + 1, m3)
  BY <1>7, <1>8, <1>9, SetSizeSets
<1>11. m3[nb].bprev = m[b].bprev
  BY <1>2, <1>3, <1>4, <1>7, <1>9, <1>10 DEF SizeSet, Assumed
<1>12. PICK m4 : m4 = LinkBlock(m3, b, m[b].bprev, nb)
  OBVIOUS
<1>13. D2 \subseteq Int
  BY <1>3
<1>14. Headers(D2, m4) /\ LinkedBlock(D2, m3, b, m[b].bprev, nb, m4)
  BY <1>9, <1>10, <1>12, <1>13, LinkBlockLinks
<1>15. PICK m5 : m5 = SetFprev(m4, b, UserData)
  OBVIOUS
<1>16. Headers(D2, m5) /\ FprevSet(D2, m4, b, UserData, m5)
  BY <1>9, <1>14, <1>15, SetFprevSets
<1>17. PICK m6 : m6 = SetFnext(m5, b, NULL)
  OBVIOUS
<1>18. Headers(D2, m6) /\ FnextSet(D2, m5, b, NULL, m6)
  BY <1>9, <1>16, <1>17, SetFnextSets
<1>19. Split(m, b, size) = m4
  <2>1. ListBlock(m3, b, nb) = m4
    BY <1>11, <1>12 DEF ListBlock, LinkBlock
  <2>2. m3 = [m2 EXCEPT ![b].size = size + 1]
    BY <1>8 DEF SetSize
  <2>3. m1 = [p \in DOMAIN m \cup {nb} |-> IF p = nb /\ nb # b THEN fresh ELSE m[p]]
    BY <1>1, <1>3 DEF D2
  <2> QED
    BY <1>6, <2>1, <2>2, <2>3 DEF Split, nb, fresh, rest
<1>20. TakeMarked(m4, b) = m6
  BY <1>15, <1>17 DEF TakeMarked, SetFprev, SetFnext
<1>21. TakenHead(D, m, b, nb, size, m6)
  BY <1>2, <1>3, <1>4, <1>7, <1>9, <1>10, <1>14, <1>16, <1>18
     DEF TakenHead, Assumed, LinkedBlock, SizeSet, FprevSet, FnextSet, Linked, rest, D2
<1> QED
  BY <1>18, <1>19, <1>20, <1>21 DEF nb, D2

-----------------------------------------------------------------------------
(* The two lists.                                                          *)

Bnexts(D, m) == [p \in D |-> m[p].bnext]
Bprevs(D, m) == [p \in D |-> m[p].bprev]
Fnexts(D, m) == [p \in D |-> m[p].fnext]
Fprevs(D, m) == [p \in D |-> m[p].fprev]

Free(D, m) == {p \in D : ~ Used(m[p].size)}

(* The block list goes through D and the free list through F, both from    *)
(* the block with the greatest h to head.                                  *)
Lists(D, F, m, h) ==
  /\ F \subseteq D /\ HeadAt \in F
  /\ Heights(D, HeadAt, h)
  /\ Ring(D, HeadAt, h, Bnexts(D, m), Bprevs(D, m))
  /\ Ring(F, HeadAt, h, Fnexts(D, m), Fprevs(D, m))

(* The links that the two lists make of the headers. *)
Circular(D, F, m) ==
  /\ \A p \in D : /\ m[p].bnext \in D /\ m[m[p].bnext].bprev = p
                  /\ m[p].bprev \in D /\ m[m[p].bprev].bnext = p
  /\ \A p \in F : /\ m[p].fnext \in F /\ m[m[p].fnext].fprev = p
                  /\ m[p].fprev \in F /\ m[m[p].fprev].fnext = p
  /\ \A p \in D \ {HeadAt} : m[p].bnext # p /\ m[p].bprev # p
  /\ \A p \in F \ {HeadAt} : m[p].fnext # p /\ m[p].fprev # p

(* Well ordered lists are circular and doubly linked, in both directions.  *)
LEMMA ListsCircular ==
  ASSUME NEW D, NEW F, NEW m, NEW h, Lists(D, F, m, h)
  PROVE  Circular(D, F, m)
<1>1. \A p \in D : /\ m[p].bnext \in D /\ m[m[p].bnext].bprev = p
                   /\ m[p].bprev \in D /\ m[m[p].bprev].bnext = p
  BY DEF Lists, Ring, Bnexts, Bprevs
<1>2. \A p \in F : /\ m[p].fnext \in F /\ m[m[p].fnext].fprev = p
                   /\ m[p].fprev \in F /\ m[m[p].fprev].fnext = p
  BY DEF Lists, Ring, Fnexts, Fprevs
<1>3. ASSUME NEW p \in D \ {HeadAt}
      PROVE  m[p].bnext # p /\ m[p].bprev # p
  <2>1. Bnexts(D, m)[p] # p /\ Bprevs(D, m)[p] # p
    BY RingNeighbours DEF Lists
  <2> QED
    BY <2>1 DEF Bnexts, Bprevs
<1>4. ASSUME NEW p \in F \ {HeadAt}
      PROVE  m[p].fnext # p /\ m[p].fprev # p
  <2>1. Heights(F, HeadAt, h) /\ p \in D
    BY DEF Lists, Heights, Ring
  <2>2. Fnexts(D, m)[p] # p /\ Fprevs(D, m)[p] # p
    BY <2>1, RingNeighbours DEF Lists
  <2> QED
    BY <2>1, <2>2 DEF Fnexts, Fprevs
<1> QED
  BY <1>1, <1>2, <1>3, <1>4 DEF Circular

(* The next block of b, if both are free, is also the next free one.       *)
LEMMA FreeNeighbours ==
  ASSUME NEW D, NEW F, NEW m, NEW h, Lists(D, F, m, h),
         NEW b \in F \ {HeadAt}, m[b].bnext \in F \ {HeadAt}
  PROVE  LET z == m[b].bnext
         IN  /\ m[b].fnext = z /\ m[z].fprev = b /\ m[z].bprev = b
             /\ m[z].bnext # b /\ m[b].bprev # z
             /\ m[z].fnext # b /\ m[b].fprev # z
<1> DEFINE z == m[b].bnext
           bn == Bnexts(D, m)
           bp == Bprevs(D, m)
           fn == Fnexts(D, m)
           fp == Fprevs(D, m)
<1>1. /\ b \in D /\ z \in D /\ z \in F /\ b \in F /\ z # HeadAt /\ b # HeadAt
      /\ bn[b] = z /\ bn[z] = m[z].bnext /\ bp[b] = m[b].bprev
      /\ fn[b] = m[b].fnext /\ fn[z] = m[z].fnext /\ fp[b] = m[b].fprev /\ fp[z] = m[z].fprev
      /\ bp[z] = m[z].bprev
  BY DEF Lists, Bnexts, Bprevs, Fnexts, Fprevs
<1>2. /\ Heights(D, HeadAt, h) /\ Ring(D, HeadAt, h, bn, bp) /\ F \subseteq D
      /\ Ring(F, HeadAt, h, fn, fp)
  BY DEF Lists
<1> HIDE DEF bn, bp, fn, fp, z
<1>3. fn[b] = bn[b]
  BY <1>1, <1>2, RingSub
<1>4. Heights(F, HeadAt, h)
  BY <1>1, <1>2 DEF Heights, Ring, Lists
<1>5. bn[bn[b]] # b /\ bp[b] # bn[b] /\ bp[bn[b]] = b
  BY <1>1, <1>2, RingNeighbours
<1>6. fn[fn[b]] # b /\ fp[b] # fn[b] /\ fp[fn[b]] = b
  BY <1>1, <1>2, <1>3, <1>4, RingNeighbours
<1> QED
  BY <1>1, <1>3, <1>5, <1>6 DEF z

(* What a merge needs, and that it keeps the lists. *)
LEMMA MergeNeeds ==
  ASSUME NEW D, NEW F, NEW m, NEW h, Lists(D, F, m, h),
         NEW b \in F \ {HeadAt}, NEW z \in F \ {HeadAt}, z = m[b].bnext
  PROVE  Apart(D, m, b, z) /\ Linked(m, b)
<1>1. /\ m[b].fnext = z /\ m[z].fprev = b /\ m[z].bprev = b
      /\ m[z].bnext # b /\ m[b].bprev # z /\ m[z].fnext # b /\ m[b].fprev # z
  BY FreeNeighbours
<1>2. Circular(D, F, m) /\ F \subseteq D
  BY ListsCircular DEF Lists
<1>3. b # z
  BY <1>2 DEF Circular
<1>4. Apart(D, m, b, z)
  BY <1>1, <1>2, <1>3 DEF Apart, Circular
<1>5. Linked(m, b)
  BY <1>2 DEF Linked, Circular
<1> QED
  BY <1>4, <1>5

(* Merging a free block with the next one takes that one off both lists    *)
(* and keeps the order of the others.                                      *)
LEMMA MergeLists ==
  ASSUME NEW D, NEW F, NEW m, NEW h, Lists(D, F, m, h),
         NEW b \in F \ {HeadAt}, NEW z \in F \ {HeadAt}, z = m[b].bnext,
         NEW s, NEW m2, Merged(D, m, b, z, s, m2)
  PROVE  Lists(D \ {z}, F \ {z}, m2, h)
<1> DEFINE D2 == D \ {z}
           F2 == F \ {z}
<1>1. /\ m[b].fnext = z /\ m[z].fprev = b /\ m[z].bprev = b
      /\ m[z].bnext # b /\ m[b].bprev # z /\ m[z].fnext # b /\ m[b].fprev # z
  BY FreeNeighbours
<1>2. Circular(D, F, m) /\ F \subseteq D
  BY ListsCircular DEF Lists
<1>6. Removes(D, Bnexts(D, m), Bprevs(D, m), z, Bnexts(D2, m2), Bprevs(D2, m2))
  BY <1>1, <1>2 DEF Removes, Bnexts, Bprevs, Merged
<1>7. Removes(F, Fnexts(D, m), Fprevs(D, m), z, Fnexts(D2, m2), Fprevs(D2, m2))
  BY <1>1, <1>2 DEF Removes, Fnexts, Fprevs, Merged
<1>8. Heights(D, HeadAt, h) /\ Heights(F, HeadAt, h)
  BY DEF Heights, Lists, Ring
<1>9. Ring(D2, HeadAt, h, Bnexts(D2, m2), Bprevs(D2, m2))
  BY <1>2, <1>6, <1>8, RingRemove DEF Lists
<1>10. Ring(F2, HeadAt, h, Fnexts(D2, m2), Fprevs(D2, m2))
  BY <1>7, <1>8, RingRemove DEF Lists
<1>11. Heights(D2, HeadAt, h) /\ F2 \subseteq D2
  BY <1>2, <1>8 DEF Heights
<1> QED
  BY <1>9, <1>10, <1>11 DEF Lists

(* A block is taken whole. *)
LEMMA TakeWholeLists ==
  ASSUME NEW D, NEW F, NEW m, NEW h, Lists(D, F, m, h),
         NEW b \in F \ {HeadAt}, NEW m2, TakenWhole(D, m, b, m2)
  PROVE  Lists(D, F \ {b}, m2, h)
<1> DEFINE F2 == F \ {b}
<1>1. Circular(D, F, m) /\ F \subseteq D
  BY ListsCircular DEF Lists
<1>2. Bnexts(D, m2) = Bnexts(D, m) /\ Bprevs(D, m2) = Bprevs(D, m)
  BY DEF Bnexts, Bprevs, TakenWhole
<1>3. Removes(F, Fnexts(D, m), Fprevs(D, m), b, Fnexts(D, m2), Fprevs(D, m2))
  BY <1>1 DEF Removes, Fnexts, Fprevs, TakenWhole
<1>4. Heights(F, HeadAt, h)
  BY DEF Heights, Lists
<1>5. Ring(F2, HeadAt, h, Fnexts(D, m2), Fprevs(D, m2))
  BY <1>3, <1>4, RingRemove DEF Lists
<1> QED
  BY <1>1, <1>2, <1>5 DEF Lists

(* The head of a block is taken: its tail takes its place in the free list *)
(* and comes after it in the other list.                                   *)
LEMMA TakeHeadLists ==
  ASSUME NEW D, NEW F, NEW m, NEW h, Lists(D, F, m, h),
         NEW b \in F \ {HeadAt}, NEW nb, nb \notin D, NEW size, NEW m2,
         TakenHead(D, m, b, nb, size, m2)
  PROVE  \E h2 : Lists(D \cup {nb}, (F \ {b}) \cup {nb}, m2, h2)
<1> DEFINE D2 == D \cup {nb}
           F1 == F \ {b}
           F2 == F1 \cup {nb}
           h2 == [p \in D2 |-> IF p = nb THEN 2 * h[b] - 1 ELSE 2 * h[p]]
           z == m[b].bnext
           fn == m[b].fnext
           fp == m[b].fprev
           nf1 == [x \in F1 |-> IF x = fp THEN fn ELSE m[x].fnext]
           pf1 == [x \in F1 |-> IF x = fn THEN fp ELSE m[x].fprev]
<1>1. Circular(D, F, m) /\ F \subseteq D /\ b \in D /\ b \in F /\ HeadAt \in F1 /\ nb \notin F1
  BY ListsCircular DEF Lists
<1>2. Heights(D, HeadAt, h) /\ Heights(F, HeadAt, h) /\ Heights(F1, HeadAt, h)
  BY <1>1 DEF Heights, Lists
<1>3. \A x \in D : h2[x] = 2 * h[x]
  OBVIOUS
<1>4. h2[nb] = 2 * h[b] - 1 /\ h[b] \in Nat /\ h[b] > 0
  BY <1>1, <1>2 DEF Heights
<1> HIDE DEF h2
<1>5. Heights(D2, HeadAt, h2)
  <2>1. \A x \in D : h[x] \in Nat
    BY <1>2 DEF Heights
  <2>2. \A x \in D2 : h2[x] \in Nat
    BY <1>3, <1>4, <2>1
  <2>3. \A x, y \in D : h[x] = h[y] => x = y
    BY <1>2 DEF Heights
  <2>4. \A x, y \in D2 : h2[x] = h2[y] => x = y
    BY <1>3, <1>4, <2>1, <2>3
  <2>5. HeadAt \in D /\ h2[HeadAt] = 0
    BY <1>2, <1>3 DEF Heights
  <2> QED
    BY <2>2, <2>4, <2>5 DEF Heights
<1>6. Heights(F2, HeadAt, h2) /\ Heights(D, HeadAt, h2) /\ Heights(F1, HeadAt, h2)
  BY <1>1, <1>5 DEF Heights
<1>7. Ring(D2, HeadAt, h2, Bnexts(D2, m2), Bprevs(D2, m2))
  <2>1. Ring(D, HeadAt, h2, Bnexts(D, m), Bprevs(D, m))
    BY <1>2, <1>3, RingScale DEF Lists
  <2>2. Inserts(D, Bnexts(D, m), Bprevs(D, m), nb, z, Bnexts(D2, m2), Bprevs(D2, m2))
    BY <1>1 DEF Inserts, Bnexts, Bprevs, TakenHead, Circular
  <2>3. FirstBelow(D, h2, h2[nb], z)
    <3>1. /\ z \in D /\ h[z] < h[b] /\ \A y \in D : h[y] >= h[b] \/ h[y] <= h[z]
      BY <1>1, <1>2 DEF Lists, Ring, Bnexts, Heights
    <3>2. \A y \in D : h[y] \in Nat
      BY <1>2 DEF Heights
    <3> HIDE DEF z
    <3> QED
      BY <1>3, <1>4, <3>1, <3>2 DEF FirstBelow
  <2> QED
    BY <1>1, <1>5, <2>1, <2>2, <2>3, RingInsert DEF Lists
<1>8. Ring(F2, HeadAt, h2, Fnexts(D2, m2), Fprevs(D2, m2))
  <2>1. Removes(F, Fnexts(D, m), Fprevs(D, m), b, nf1, pf1)
    BY <1>1 DEF Removes, Fnexts, Fprevs
  <2>2. /\ fn \in F1 /\ fp \in F1 /\ nf1[fp] = fn /\ pf1[fn] = fp
    BY <1>1 DEF Circular
  <2>3. /\ \A x \in F1 : nf1[x] = IF x = fp THEN fn ELSE m[x].fnext
        /\ \A x \in F1 : pf1[x] = IF x = fn THEN fp ELSE m[x].fprev
    OBVIOUS
  <2> HIDE DEF nf1, pf1
  <2>4. Ring(F1, HeadAt, h, nf1, pf1)
    BY <1>2, <2>1, RingRemove DEF Lists
  <2>5. \A x \in F1 : h2[x] = 2 * h[x]
    BY <1>1, <1>3
  <2>6. Ring(F1, HeadAt, h2, nf1, pf1)
    BY <1>2, <2>4, <2>5, RingScale
  <2>7. Inserts(F1, nf1, pf1, nb, fn, Fnexts(D2, m2), Fprevs(D2, m2))
    BY <1>1, <2>2, <2>3 DEF Inserts, Fnexts, Fprevs, TakenHead
  <2>8. FirstBelow(F1, h2, h2[nb], fn)
    <3>1. /\ fn \in F1 /\ h[fn] < h[b] /\ \A y \in F : h[y] >= h[b] \/ h[y] <= h[fn]
      BY <1>1, <2>2 DEF Lists, Ring, Fnexts, Heights
    <3>2. \A y \in F1 : h[y] \in Nat
      BY <1>2 DEF Heights
    <3> HIDE DEF fn
    <3> QED
      BY <1>1, <1>4, <2>5, <3>1, <3>2 DEF FirstBelow
  <2> QED
    BY <1>1, <1>6, <2>6, <2>7, <2>8, RingInsert
<1> QED
  BY <1>1, <1>5, <1>7, <1>8 DEF Lists

(* The place that NextFree finds for b. *)
LEMMA NextFreeFinds ==
  ASSUME NEW D, NEW F, NEW m, DOMAIN m = D, NEW h, Lists(D, F, m, h),
         m[HeadAt].size = 0, NEW b \in D \ {HeadAt}
  PROVE  FirstBelow(Free(D, m), h, h[b], NextFree(m, b))
<1> DEFINE U == {p \in D : Used(m[p].size)}
           Scans(g) == g = [p \in D |-> IF Used(m[p].size) THEN g[m[p].bnext] ELSE p]
           scan == CHOOSE g : Scans(g)
           nxt == Bnexts(D, m)
           prv == Bprevs(D, m)
<1>1. ~ Used(m[HeadAt].size) /\ HeadAt \in D
  BY DEF Lists, Heights, Used
<1>2. U \subseteq D \ {HeadAt} /\ \A p \in D : p \in U <=> Used(m[p].size)
  BY <1>1
<1>3. D \ U = Free(D, m)
  BY <1>2 DEF Free
<1>4. \A p \in D : nxt[p] = m[p].bnext
  BY DEF Bnexts
<1>5. \A g : g = [p \in D |-> IF p \in U THEN g[nxt[p]] ELSE p] <=> Scans(g)
  <2> HIDE DEF nxt, U
  <2>1. \A g : [p \in D |-> IF p \in U THEN g[nxt[p]] ELSE p]
               = [p \in D |-> IF Used(m[p].size) THEN g[m[p].bnext] ELSE p]
    BY <1>2, <1>4
  <2> QED
    BY <2>1
<1>6. Heights(D, HeadAt, h) /\ Ring(D, HeadAt, h, nxt, prv)
  BY DEF Lists
<1> HIDE DEF Scans, nxt, prv, U
<1>7. \E g : g = [p \in D |-> IF p \in U THEN g[nxt[p]] ELSE p]
  BY <1>2, <1>6, ScanExists
<1>8. Scans(scan)
  BY <1>5, <1>7
<1> HIDE DEF scan
<1>9. (\A p \in D \ U : scan[p] = p) /\ \A p \in U : scan[p] = scan[nxt[p]]
  <2>1. scan = [p \in D |-> IF p \in U THEN scan[nxt[p]] ELSE p]
    BY <1>5, <1>8
  <2> QED
    BY <1>2, <2>1
<1>10. \A x \in U : FirstBelow(D \ U, h, h[x], scan[x])
  <2>1. PassesOver(D, HeadAt, U, nxt, scan)
    BY <1>2, <1>9 DEF PassesOver
  <2> QED
    BY <2>1, <1>6, ScanFinds
<1>11. NextFree(m, b) = scan[nxt[b]]
  BY <1>4 DEF NextFree, scan, Scans
<1> DEFINE v == nxt[b]
<1>12. /\ b \in D /\ v \in D /\ h[v] < h[b]
       /\ \A y \in D : h[y] >= h[b] \/ h[y] <= h[v]
  BY <1>6 DEF Ring
<1>13. CASE v \in U
  <2>1. FirstBelow(D \ U, h, h[v], scan[v])
    BY <1>10, <1>13
  <2>2. Follows(D, h, b, v) /\ v \notin D \ U /\ D \ U \subseteq D
    BY <1>12, <1>13 DEF Follows
  <2>3. FirstBelow(D \ U, h, h[b], scan[v])
    BY <2>1, <2>2, <1>6, FirstBelowSkips
  <2> QED
    BY <2>3, <1>3, <1>11
<1>14. CASE v \notin U
  BY <1>14, <1>3, <1>9, <1>11, <1>12 DEF FirstBelow
<1> QED
  BY <1>13, <1>14

(* __free_block puts b, which is not used any more, on the free list at    *)
(* the place where it is in the block list, and changes nothing else.      *)
LEMMA FreeBlockLists ==
  ASSUME NEW D, NEW m, Headers(D, m), D \subseteq Int, NEW h,
         NEW b \in Free(D, m) \ {HeadAt}, Lists(D, Free(D, m) \ {b}, m, h),
         m[HeadAt].size = 0
  PROVE  \E pb, pa \in Free(D, m) \ {b} :
            LET m2 == FreeBlock(m, b)
            IN  /\ Headers(D, m2) /\ LinkedFree(D, m, b, pb, pa, m2)
                /\ Lists(D, Free(D, m), m2, h)
<1> DEFINE F == Free(D, m) \ {b}
           pa == NextFree(m, b)
           pb == m[pa].fprev
           m2 == FreeBlock(m, b)
<1>1. DOMAIN m = D /\ b \in D /\ b # HeadAt /\ b \in Free(D, m) /\ Free(D, m) = F \cup {b}
      /\ F \subseteq D /\ b \notin F
  BY DEF Headers, Free
<1>2. FirstBelow(F, h, h[b], pa)
  <2>1. FirstBelow(Free(D, m), h, h[b], pa)
    BY <1>1, NextFreeFinds
  <2>2. h[b] \in Nat
    BY <1>1 DEF Lists, Heights
  <2> QED
    BY <2>1, <2>2, <1>1 DEF FirstBelow
<1>3. pa \in F /\ pb \in F /\ Circular(D, F, m)
  BY <1>2, ListsCircular DEF FirstBelow, Circular
<1>4. m2 = LinkFree(m, b, pb, pa)
  BY DEF FreeBlock, LinkFree
<1> HIDE DEF F, pa, pb, m2
<1>5. Headers(D, m2) /\ LinkedFree(D, m, b, pb, pa, m2)
  BY <1>1, <1>3, <1>4, LinkFreeLinks
<1>6. Bnexts(D, m2) = Bnexts(D, m) /\ Bprevs(D, m2) = Bprevs(D, m)
  BY <1>5 DEF Bnexts, Bprevs, LinkedFree
<1>7. Inserts(F, Fnexts(D, m), Fprevs(D, m), b, pa, Fnexts(D, m2), Fprevs(D, m2))
  <2>1. m[pa].fprev = pb
    BY DEF pb
  <2> QED
    BY <1>1, <1>3, <1>5, <2>1 DEF Inserts, Fnexts, Fprevs, LinkedFree
<1>8. Lists(D, F, m, h)
  BY DEF F
<1>9. Heights(F \cup {b}, HeadAt, h)
  BY <1>1, <1>8 DEF Lists, Heights
<1>10. Ring(F \cup {b}, HeadAt, h, Fnexts(D, m2), Fprevs(D, m2))
  BY <1>1, <1>2, <1>7, <1>8, <1>9, RingInsert DEF Lists
<1>11. Lists(D, Free(D, m), m2, h)
  BY <1>1, <1>6, <1>8, <1>10 DEF Lists
<1> QED
  BY <1>3, <1>5, <1>11 DEF F, m2

(* A free block is long enough, as FirstFit computes it. *)
Fits(m, p, size) == Int16(m[p].size - size) >= 0

(* FirstFit finds a free block that fits, or head when there is none.      *)
LEMMA FirstFitFinds ==
  ASSUME NEW D, NEW m, DOMAIN m = D, NEW h, Lists(D, Free(D, m), m, h), NEW size
  PROVE  LET c == FirstFit(m, size)
         IN  /\ c \in Free(D, m)
             /\ c # HeadAt => Fits(m, c, size)
             /\ c = HeadAt => \A p \in Free(D, m) \ {HeadAt} : ~ Fits(m, p, size)
<1> DEFINE F == Free(D, m)
           U == {p \in F : p # HeadAt /\ ~ Fits(m, p, size)}
           Scans(g) == g = [p \in F |-> IF p = HeadAt \/ Fits(m, p, size)
                                        THEN p ELSE g[m[p].fnext]]
           scan == CHOOSE g : Scans(g)
           nxt == Fnexts(D, m)
           prv == Fprevs(D, m)
<1>1. F = Unused(m) /\ F \subseteq D /\ U \subseteq F \ {HeadAt} /\ HeadAt \in F
  BY DEF Unused, Free, Lists
<1>2. \A p \in F : nxt[p] = m[p].fnext
  BY <1>1 DEF Fnexts
<1>3. \A p \in F : p \in U <=> ~ (p = HeadAt \/ Fits(m, p, size))
  OBVIOUS
<1>4. Heights(F, HeadAt, h) /\ Ring(F, HeadAt, h, nxt, prv)
  BY DEF Lists, Heights
<1>5. FirstFit(m, size) = scan[m[HeadAt].fnext]
  BY <1>1 DEF FirstFit, Fits
<1>6. \A g : g = [p \in F |-> IF p \in U THEN g[nxt[p]] ELSE p] <=> Scans(g)
  <2> HIDE DEF nxt, U, F
  <2>1. \A g : [p \in F |-> IF p \in U THEN g[nxt[p]] ELSE p]
               = [p \in F |-> IF p = HeadAt \/ Fits(m, p, size) THEN p ELSE g[m[p].fnext]]
    BY <1>2, <1>3
  <2> QED
    BY <2>1
<1> HIDE DEF Scans, nxt, prv, U, F
<1>7. \E g : g = [p \in F |-> IF p \in U THEN g[nxt[p]] ELSE p]
  BY <1>1, <1>4, ScanExists
<1>8. Scans(scan)
  BY <1>6, <1>7
<1> HIDE DEF scan
<1>9. (\A p \in F \ U : scan[p] = p) /\ \A p \in U : scan[p] = scan[nxt[p]]
  <2>1. scan = [p \in F |-> IF p \in U THEN scan[nxt[p]] ELSE p]
    BY <1>6, <1>8
  <2> QED
    BY <1>1, <2>1
<1>10. \A x \in U : FirstBelow(F \ U, h, h[x], scan[x])
  <2>1. PassesOver(F, HeadAt, U, nxt, scan)
    BY <1>1, <1>9 DEF PassesOver
  <2> QED
    BY <2>1, <1>4, ScanFinds
<1> DEFINE v == nxt[HeadAt]
           c == scan[v]
<1>11. v \in F /\ \A y \in F : h[y] <= h[v]
  BY <1>1, <1>4 DEF Ring
<1>12. FirstFit(m, size) = c
  BY <1>1, <1>2, <1>5
<1>13. \A x \in F : h[x] \in Nat
  BY <1>4 DEF Heights
<1>14. h[HeadAt] = 0 /\ \A x, y \in F : h[x] = h[y] => x = y
  BY <1>4 DEF Heights
<1>15. CASE v \in U
  <2>1. FirstBelow(F \ U, h, h[v], c)
    BY <1>10, <1>15
  <2>2. c \in F \ U /\ \A y \in F \ U : h[y] >= h[v] \/ h[y] <= h[c]
    BY <2>1 DEF FirstBelow
  <2>3. ASSUME c = HeadAt
        PROVE  \A y \in F \ U : y = HeadAt
    <3> TAKE y \in F \ U
    <3>1. h[y] = h[v] => y = v
      BY <1>11, <1>14
    <3>2. h[y] <= 0
      BY <1>11, <1>13, <1>14, <1>15, <2>2, <2>3, <3>1
    <3> QED
      BY <1>1, <1>13, <1>14, <3>2
  <2> QED
    BY <1>3, <1>12, <2>2, <2>3 DEF F
<1>16. CASE v \notin U
  <2>1. c = v
    BY <1>9, <1>11, <1>16
  <2>2. ASSUME c = HeadAt
        PROVE  \A y \in F : y = HeadAt
    <3> TAKE y \in F
    <3>1. h[y] <= 0
      BY <1>11, <1>14, <2>1, <2>2
    <3> QED
      BY <1>1, <1>13, <1>14, <3>1
  <2> QED
    BY <1>3, <1>11, <1>12, <1>16, <2>1, <2>2 DEF F
<1> QED
  BY <1>15, <1>16

=============================================================================
