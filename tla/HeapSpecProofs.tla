--------------------------- MODULE HeapSpecProofs ---------------------------
(* Proofs about HeapSpec: for any heap, no two allocations ever overlap.   *)
EXTENDS HeapSpec, TLAPS

Inv == TypeOK /\ Contained /\ Disjoint

(* What a served request adds: a run of bytes that meets no other block. *)
LEMMA GrowKeepsInv ==
  ASSUME HeapSpecAssumption, TypeOK, Contained, Disjoint,
         NEW n \in Needs, NEW a \in Addresses, NEW extra \in Spare,
         Vacant(a, n + extra)
  PROVE  LET new == With(blocks, a, n + extra)
         IN  /\ DOMAIN new \subseteq Addresses
             /\ \A b \in DOMAIN new : new[b] \in Nat \ {0}
             /\ \A b \in DOMAIN new : Inside(b, new[b])
             /\ \A b, c \in DOMAIN new : b # c => Apart(b, new[b], c, new[c])
<1> DEFINE new == With(blocks, a, n + extra)
<1>1. n + extra \in Nat \ {0} /\ a \in Int
  BY DEF HeapSpecAssumption, Spare, Addresses, Aligned
<1>2. DOMAIN new = DOMAIN blocks \cup {a}
  BY DEF With
<1>3. new[a] = n + extra
  BY DEF With
<1>4. \A b \in DOMAIN blocks \ {a} : new[b] = blocks[b]
  BY DEF With
<1>5. DOMAIN new \subseteq Addresses
  BY <1>2 DEF TypeOK
<1>6. \A b \in DOMAIN new : new[b] \in Nat \ {0}
  BY <1>1, <1>2, <1>3, <1>4 DEF TypeOK
<1>7. \A b \in DOMAIN new : Inside(b, new[b])
  BY <1>2, <1>3, <1>4 DEF Vacant, Contained
<1>8. \A b, c \in DOMAIN new : b # c => Apart(b, new[b], c, new[c])
  <2> SUFFICES ASSUME NEW b \in DOMAIN new, NEW c \in DOMAIN new, b # c
               PROVE  Apart(b, new[b], c, new[c])
    OBVIOUS
  <2>1. CASE b = a
    BY <2>1, <1>2, <1>3, <1>4 DEF Vacant
  <2>2. CASE c = a
    <3>1. b \in DOMAIN blocks \ {a}
      BY <2>2, <1>2
    <3>2. Apart(a, n + extra, b, blocks[b])
      BY <3>1 DEF Vacant
    <3> QED
      BY <2>2, <3>1, <3>2, <1>3, <1>4 DEF Apart
  <2>3. CASE b # a /\ c # a
    BY <2>3, <1>2, <1>4 DEF Disjoint
  <2> QED
    BY <2>1, <2>2, <2>3
<1> QED
  BY <1>5, <1>6, <1>7, <1>8

(* No two allocations of HeapSpec ever overlap, and each of them stays     *)
(* inside an area: for every heap, request and alignment.                  *)
THEOREM HeapSpecSafe ==
  ASSUME HeapSpecAssumption
  PROVE  Spec => [](TypeOK /\ Contained /\ Disjoint)
<1>1. Init => Inv
  BY DEF Init, Inv, TypeOK, Contained, Disjoint
<1>2. Inv /\ [Next]_vars => Inv'
  <2> SUFFICES ASSUME TypeOK, Contained, Disjoint, [Next]_vars
               PROVE  Inv'
    BY DEF Inv
  <2>1. ASSUME NEW n \in Needs, Allocate(n)
        PROVE  Inv'
    <3>1. PICK a \in Addresses, extra \in Spare :
            /\ Vacant(a, n + extra)
            /\ blocks' = With(blocks, a, n + extra)
            /\ refused' = 0
      BY <2>1 DEF Allocate
    <3> QED
      BY <3>1, GrowKeepsInv DEF Inv, TypeOK, Contained, Disjoint
  <2>2. ASSUME NEW n \in Needs, Refuse(n)
        PROVE  Inv'
    BY <2>2 DEF Refuse, Inv, TypeOK, Contained, Disjoint
  <2>3. ASSUME NEW b \in DOMAIN blocks, Release(b)
        PROVE  Inv'
    BY <2>3 DEF Release, Without, Inv, TypeOK, Contained, Disjoint
  <2>4. ASSUME NEW b \in DOMAIN blocks, NEW n \in Needs, Move(b, n)
        PROVE  Inv'
    <3>1. PICK a \in Addresses, extra \in Spare :
            /\ Vacant(a, n + extra)
            /\ blocks' = Without(With(blocks, a, n + extra), b)
            /\ refused' = 0
      BY <2>4 DEF Move
    <3> DEFINE new == With(blocks, a, n + extra)
    <3>2. /\ DOMAIN new \subseteq Addresses
          /\ \A c \in DOMAIN new : new[c] \in Nat \ {0}
          /\ \A c \in DOMAIN new : Inside(c, new[c])
          /\ \A c, d \in DOMAIN new : c # d => Apart(c, new[c], d, new[d])
      BY <3>1, GrowKeepsInv
    <3>3. /\ DOMAIN blocks' = DOMAIN new \ {b}
          /\ \A c \in DOMAIN blocks' : blocks'[c] = new[c]
      BY <3>1 DEF Without
    <3> HIDE DEF new
    <3> QED
      BY <3>1, <3>2, <3>3 DEF Inv, TypeOK, Contained, Disjoint
  <2>5. ASSUME Misuse
        PROVE  Inv'
    BY <2>5 DEF Misuse, Inv, TypeOK, Contained, Disjoint
  <2>6. CASE UNCHANGED vars
    BY <2>6 DEF vars, Inv, TypeOK, Contained, Disjoint
  <2> QED
    BY <2>1, <2>2, <2>3, <2>4, <2>5, <2>6 DEF Next
<1>3. Inv => TypeOK /\ Contained /\ Disjoint
  BY DEF Inv
<1> QED
  BY <1>1, <1>2, <1>3, PTL DEF Spec

=============================================================================
