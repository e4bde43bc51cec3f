------------------------------ MODULE HeapSpec ------------------------------
(***************************************************************************)
(* What the allocator of the C library promises to its callers             *)
(* (gigatron/libc/malloc.c, realloc.c, and the memory management clause of *)
(* the ANSI C draft kept in stuff/doc/ansi_c.txt), without its lists.      *)
(*                                                                         *)
(* A heap is a set of memory areas.  An allocation is a block: a run of    *)
(* bytes inside one area, disjoint from every other block.  Allocation may *)
(* only be refused when no run of free bytes is long enough, which rules   *)
(* out lost blocks and runs of free bytes left split in unmerged pieces.   *)
(***************************************************************************)
EXTENDS Integers

CONSTANTS
  Areas,   \* the heap: a set of records [at |-> address, size |-> bytes]
  Needs,   \* the block lengths, header included, that callers may need
  Slack,   \* how many bytes longer than needed a block may be
  Grain    \* blocks start and end on multiples of Grain

VARIABLES
  blocks,  \* function: address of a block in use -> its length
  refused  \* the block length the last call was refused, 0 if it was served

vars == <<blocks, refused>>

(* What the theorems about this module suppose of its constants. *)
HeapSpecAssumption ==
  /\ \A r \in Areas : r.at \in Nat /\ r.size \in Nat
  /\ Needs \subseteq Nat \ {0}
  /\ Slack \in Nat
  /\ Grain \in Nat \ {0}

(* [a, a+n) and [b, b+m) have no byte in common. *)
Apart(a, n, b, m) == a + n <= b \/ b + m <= a

(* [a, a+n) lies in one area. *)
Inside(a, n) == \E r \in Areas : r.at <= a /\ a + n <= r.at + r.size

(* [a, a+n) lies in one area and meets no block in use. *)
Vacant(a, n) ==
  /\ Inside(a, n)
  /\ \A b \in DOMAIN blocks : Apart(a, n, b, blocks[b])

Aligned(S) == {a \in S : a % Grain = 0}
Addresses == UNION { Aligned(r.at .. r.at + r.size) : r \in Areas }
Spare == Aligned(0 .. Slack)

(* blocks with [a, a+n) added, or with b taken away. *)
With(f, a, n) == [x \in DOMAIN f \cup {a} |-> IF x = a THEN n ELSE f[x]]
Without(f, b) == [x \in DOMAIN f \ {b} |-> f[x]]

-----------------------------------------------------------------------------

Init == blocks = [x \in {} |-> 0] /\ refused = 0

Allocate(n) ==
  \E a \in Addresses, extra \in Spare :
    /\ Vacant(a, n + extra)
    /\ blocks' = With(blocks, a, n + extra)
    /\ refused' = 0

(* realloc: the new block is found while the old one still exists. *)
Move(b, n) ==
  \E a \in Addresses, extra \in Spare :
    /\ Vacant(a, n + extra)
    /\ blocks' = Without(With(blocks, a, n + extra), b)
    /\ refused' = 0

Release(b) == blocks' = Without(blocks, b) /\ refused' = 0

(* The only excuse for refusing n bytes. *)
Exhausted(n) == \A a \in Addresses : ~ Vacant(a, n)

Refuse(n) == Exhausted(n) /\ refused' = n /\ UNCHANGED blocks

(* Releasing what is not a block changes no block. *)
Misuse == refused' = 0 /\ UNCHANGED blocks

Next ==
  \/ Misuse
  \/ \E n \in Needs : Allocate(n) \/ Refuse(n)
  \/ \E b \in DOMAIN blocks : Release(b)
  \/ \E b \in DOMAIN blocks, n \in Needs : Move(b, n)

Spec == Init /\ [][Next]_vars

-----------------------------------------------------------------------------

(* Blocks and their lengths are what they are declared to be. *)
TypeOK ==
  /\ DOMAIN blocks \subseteq Addresses
  /\ \A b \in DOMAIN blocks : blocks[b] \in Nat \ {0}
  /\ refused \in Needs \cup {0}

(* Every allocation is disjoint from every other one (ansi_c.txt:9994). *)
Disjoint ==
  \A a, b \in DOMAIN blocks : a # b => Apart(a, blocks[a], b, blocks[b])

(* Every allocation lies inside one of the areas of the heap. *)
Contained == \A b \in DOMAIN blocks : Inside(b, blocks[b])

=============================================================================
