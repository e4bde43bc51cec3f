------------------------------ MODULE MCMalloc ------------------------------
(* Instances of Malloc for TLC. *)
EXTENDS Malloc

(* Two areas that do not touch; the chain is in the linker's order, the    *)
(* last segment first.                                                     *)
ApartAreas == <<[at |-> 200, size |-> 24], [at |-> 100, size |-> 48]>>

SmallRequests == {0, 9, 14}
SomeArrays == {<<3, 5>>}

(* What the theorems of MallocProofs suppose holds of this instance.       *)
ASSUME TheoremsApply == HeadClear /\ RequestsFit /\ AreasApart

=============================================================================
