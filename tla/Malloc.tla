------------------------------- MODULE Malloc -------------------------------
(***************************************************************************)
(* The heap of the C library: gigatron/libc/malloc.c, calloc.c, realloc.c. *)
(*                                                                         *)
(* Every block starts with a header {size, bnext, bprev, fnext, fprev}.    *)
(* All blocks are on a circular list (bnext, bprev) around the static      *)
(* variable head; the free ones are also on a second list (fnext, fprev),  *)
(* in the same order.  The low bit of size is set in used blocks.  The     *)
(* bytes handed to the caller start at offset 8, so that they overlap the  *)
(* field fprev of a used block: UserData stands for what is found there.   *)
(*                                                                         *)
(* mem maps the address of each live header to its fields.  The bytes of a *)
(* header that a merge or an allocation left inside a block are not in its *)
(* domain any more: reading them is an error of the model.                 *)
(***************************************************************************)
EXTENDS Integers, Sequences, FiniteSets

CONSTANTS
  Areas,      \* the heap segments, in the order of the linker's chain
  HeadAt,     \* the address of the static variable head
  Requests,   \* the byte counts that callers pass to malloc and realloc
  Arrays      \* the pairs <<n, m>> that callers pass to calloc

VARIABLES
  mem,        \* address of a header -> its five fields
  chain,      \* index in Areas of what malloc_init has left to do
  live,       \* address returned to the caller -> bytes the caller asked for
  call,       \* the last call, its arguments and its result
  halted      \* free() has called _exitm(10)

vars == <<mem, chain, live, call, halted>>

Header == 8           \* offset of the caller's bytes in a block
SizeOfHead == 10      \* sizeof(head_t)
UserData == -1        \* the caller's bytes, seen through fprev
NULL == 0
MaxInt == 32767       \* the largest int
MaxWord == 65535      \* the largest size_t and the highest address

ASSUME MallocAssumption ==
  /\ Areas \in Seq([at : Nat, size : Nat])
  /\ \A i \in 1 .. Len(Areas) :
       /\ Areas[i].at \in Nat \ {0} /\ Areas[i].at % 4 = 0
       /\ Areas[i].size % 4 = 0 /\ Areas[i].size >= 24
       /\ Areas[i].size <= MaxInt
       /\ Areas[i].at + Areas[i].size <= MaxWord + 1
       \* the linker placed head like any other data, outside the areas
       /\ \/ HeadAt + SizeOfHead <= Areas[i].at
          \/ HeadAt >= Areas[i].at + Areas[i].size
  /\ \A i, j \in 1 .. Len(Areas) : i # j =>
       \/ Areas[i].at + Areas[i].size <= Areas[j].at
       \/ Areas[j].at + Areas[j].size <= Areas[i].at
  /\ HeadAt \in 1 .. MaxWord
  /\ Requests \subseteq 0 .. MaxWord
  /\ Arrays \subseteq (0 .. MaxWord) \X (0 .. MaxWord)

(* What the theorems suppose besides: head does not start where an area    *)
(* ends, for its size is 0, and free would merge with it the last block of *)
(* the area;                                                               *)
HeadClear ==
  \A i \in 1 .. Len(Areas) : HeadAt # Areas[i].at + Areas[i].size

(* the length of no block wraps in RoundUp, nor a product in calloc;       *)
RequestsFit ==
  /\ \A sz \in Requests : sz + Header + 3 <= MaxWord
  /\ \A a \in Arrays : a[1] * a[2] + Header + 3 <= MaxWord

(* for some of them, no two areas touch.                                   *)
AreasApart ==
  \A i, j \in 1 .. Len(Areas) : i # j =>
    \/ Areas[i].at + Areas[i].size < Areas[j].at
    \/ Areas[j].at + Areas[j].size < Areas[i].at

(* int is 16 bits wide and signed. *)
Int16(x) == LET u == x % 65536 IN IF u < 32768 THEN u ELSE u - 65536

Used(s) == s % 2 = 1
Unmarked(s) == IF Used(s) THEN s - 1 ELSE s

-----------------------------------------------------------------------------
(* The utilities of malloc.c, as functions of the memory m they modify.    *)
(* The operators named Bad... are mistakes one could make in the one that  *)
(* follows: the checks must tell them apart.                               *)

(* Does not skip the used blocks. *)
BadNextFree(m, b) == m[b].bnext

(* The first block after b that is free; head counts, its size is 0. *)
NextFree(m, b) ==
  LET scan[p \in DOMAIN m] == IF Used(m[p].size) THEN scan[m[p].bnext] ELSE p
  IN  scan[m[b].bnext]

(* At the front of the free list, wherever b is in the block list. *)
BadFreeBlock(m, b) ==
  LET pa == m[HeadAt].fnext
  IN  [m EXCEPT ![b].fprev = HeadAt, ![HeadAt].fnext = b,
                ![b].fnext = pa, ![pa].fprev = b]

FreeBlock(m, b) ==
  LET pa == NextFree(m, b)
      pb == m[pa].fprev
  IN  [m EXCEPT ![b].fprev = pb, ![pb].fnext = b,
                ![b].fnext = pa, ![pa].fprev = b]

ListBlock(m, b, pa) ==
  LET pb == m[pa].bprev
  IN  [m EXCEPT ![b].bprev = pb, ![b].bnext = pa,
                ![pb].bnext = b, ![pa].bprev = b]

(* b, whose bprev and fprev are set, takes the place of z in both lists. *)
AssumeBlockPosition(m, b, z, size) ==
  LET m1 == [m EXCEPT ![b].size = size, ![b].bnext = m[z].bnext,
                      ![m[z].bnext].bprev = b]
      m2 == [m1 EXCEPT ![m1[b].bprev].bnext = b]
      m3 == [m2 EXCEPT ![b].fnext = m2[z].fnext, ![m2[z].fnext].fprev = b]
  IN  [m3 EXCEPT ![m3[b].fprev].fnext = b]

(* The header b is now inside a block; head, whose size is 0, never is.    *)
Drop(m, b) == [p \in (DOMAIN m \ {b}) \cup {HeadAt} |-> m[p]]

TryMergeWithNext(m, b) ==
  LET p == m[b].bnext
      s == m[b].size
  IN  IF Used(s) \/ Used(m[p].size) \/ (b + s) % 65536 # p
      THEN m
      ELSE Drop(AssumeBlockPosition(m, b, p, s + m[p].size), p)

(* What the free list goes through: the free blocks and head. *)
Unused(m) == {p \in DOMAIN m : ~ Used(m[p].size)}

(* Refuses a block of exactly the size. *)
BadFirstFit(m, size) ==
  LET scan[p \in Unused(m)] ==
        IF p = HeadAt \/ Int16(m[p].size - size) > 0
        THEN p ELSE scan[m[p].fnext]
  IN  scan[m[HeadAt].fnext]

(* The first free block that is long enough, head if there is none. *)
FirstFit(m, size) ==
  LET scan[p \in Unused(m)] ==
        IF p = HeadAt \/ Int16(m[p].size - size) >= 0
        THEN p ELSE scan[m[p].fnext]
  IN  scan[m[HeadAt].fnext]

(* What find_block does with the block it found: use it whole, or leave    *)
(* its tail nb in its place on both lists.                                 *)
Unlink(m, b) ==
  LET m1 == [m EXCEPT ![m[b].fnext].fprev = m[b].fprev]
      m2 == [m1 EXCEPT ![m1[b].fprev].fnext = m1[b].fnext]
  IN  [m2 EXCEPT ![b].size = @ + 1]

Split(m, b, size) ==
  LET nb == b + size
      fresh == [m[b] EXCEPT !.size = 0, !.bnext = NULL, !.fnext = NULL]
      m1 == [p \in DOMAIN m \cup {nb} |->
               IF p = nb /\ nb # b THEN fresh ELSE m[p]]
      m2 == AssumeBlockPosition(m1, nb, b, m[b].size - size)
  IN  ListBlock([m2 EXCEPT ![b].size = size + 1], b, nb)

(* The caller then owns the bytes at b + 8, those of fprev included.  The  *)
(* stale fnext of a used block is forgotten: following it is an error.     *)
TakeBlock(m, b, size) ==
  LET t == IF Int16(m[b].size - size - SizeOfHead) < 0
           THEN Unlink(m, b) ELSE Split(m, b, size)
  IN  [t EXCEPT ![b].fprev = UserData, ![b].fnext = NULL]

(* __chk_block_header: the size of the used block b, 0 if it is not one. *)
CheckedSize(m, b) ==
  IF /\ Used(m[b].size)
     /\ m[m[b].bnext].bprev = b
     /\ m[m[b].bprev].bnext = b
  THEN Unmarked(m[b].size)
  ELSE 0

(* Does not merge with the previous block. *)
BadFreed(m, b) ==
  TryMergeWithNext(FreeBlock([m EXCEPT ![b].size = CheckedSize(m, b)], b), b)

(* Does not clear the mark. *)
BadUnmarked(m, b) ==
  LET m1 == TryMergeWithNext(FreeBlock(m, b), b)
  IN  TryMergeWithNext(m1, m1[b].bprev)

(* free, once the header has been checked. *)
Freed(m, b) ==
  LET m1 == FreeBlock([m EXCEPT ![b].size = CheckedSize(m, b)], b)
      m2 == TryMergeWithNext(m1, b)
  IN  TryMergeWithNext(m2, m2[b].bprev)

(* Makes no room for the header. *)
BadRoundUp(sz) ==
  LET w == (sz + 3) % 65536 IN IF sz < 9 THEN 12 ELSE w - (w % 4)

(* The length of the block that serves sz bytes, in 16 bits arithmetic. *)
RoundUp(sz) ==
  LET n == IF sz < 4 THEN 4 ELSE sz
      w == (n + Header + 3) % 65536
  IN  w - (w % 4)

(* The block malloc(sz) takes, head if it returns NULL. *)
Candidate(m, sz) ==
  IF RoundUp(sz) < 32768 THEN FirstFit(m, RoundUp(sz)) ELSE HeadAt

-----------------------------------------------------------------------------

(* The linker writes the size and the link of the first record of each     *)
(* area; __glink_magic_heap points to the first of them.                   *)
Init ==
  /\ mem = [p \in {HeadAt} \cup {Areas[i].at : i \in 1 .. Len(Areas)} |->
              IF p = HeadAt
              THEN [size |-> 0, bnext |-> HeadAt, bprev |-> HeadAt,
                    fnext |-> HeadAt, fprev |-> HeadAt]
              ELSE [size |-> (CHOOSE r \in {Areas[i] : i \in 1 .. Len(Areas)} :
                                r.at = p).size,
                    bnext |-> NULL, bprev |-> NULL,
                    fnext |-> NULL, fprev |-> NULL]]
  /\ chain = 1
  /\ live = [p \in {} |-> 0]
  /\ call = [fn |-> "none", ptr |-> NULL, size |-> 0, ret |-> NULL]
  /\ halted = FALSE

(* One turn of the loop of malloc_init, called before main. *)
MallocInit ==
  /\ chain <= Len(Areas)
  /\ LET p == Areas[chain].at
     IN  mem' = FreeBlock(ListBlock(mem, p, mem[HeadAt].bnext), p)
  /\ chain' = chain + 1
  /\ UNCHANGED <<live, call, halted>>

Ready == chain > Len(Areas) /\ ~ halted

With(f, a, n) == [x \in DOMAIN f \cup {a} |-> IF x = a THEN n ELSE f[x]]
Without(f, a) == [x \in DOMAIN f \ {a} |-> f[x]]

Called(fn, ptr, size, ret) ==
  call' = [fn |-> fn, ptr |-> ptr, size |-> size, ret |-> ret]

(* malloc(sz) on behalf of a caller who wants `want` bytes. *)
Allocate(fn, sz, want) ==
  LET b == Candidate(mem, sz)
  IN  /\ Ready
      /\ IF b = HeadAt
         THEN /\ Called(fn, NULL, sz, NULL)
              /\ UNCHANGED <<mem, live>>
         ELSE /\ mem' = TakeBlock(mem, b, RoundUp(sz))
              /\ live' = With(live, b + Header, want)
              /\ Called(fn, NULL, sz, b + Header)
      /\ UNCHANGED <<chain, halted>>

MallocCall(sz) == Allocate("malloc", sz, sz)

(* calloc(n, m): the product of two size_t is a size_t. *)
CallocCall(n, m) == Allocate("calloc", (n * m) % 65536, n * m)

FreeCall(ptr) ==
  /\ Ready
  /\ CheckedSize(mem, ptr - Header) # 0
  /\ mem' = Freed(mem, ptr - Header)
  /\ live' = Without(live, ptr)
  /\ Called("free", ptr, 0, NULL)
  /\ UNCHANGED <<chain, halted>>

(* The check of the header fails: free stops the program. *)
FreeHalts(ptr) ==
  /\ Ready
  /\ CheckedSize(mem, ptr - Header) = 0
  /\ mem' = [mem EXCEPT ![ptr - Header].size = 0]
  /\ halted' = TRUE
  /\ Called("free", ptr, 0, NULL)
  /\ UNCHANGED <<chain, live>>

(* realloc(ptr, nsz) of a block: the copy only touches the callers' bytes. *)
ReallocCall(ptr, nsz) ==
  LET old == ptr - Header
      b == Candidate(mem, nsz)
  IN  /\ Ready
      /\ CheckedSize(mem, old) - Header >= 0
      /\ IF b = HeadAt
         THEN /\ Called("realloc", ptr, nsz, NULL)
              /\ UNCHANGED <<mem, live>>
         ELSE /\ mem' = Freed(TakeBlock(mem, b, RoundUp(nsz)), old)
              /\ live' = With(Without(live, ptr), b + Header, nsz)
              /\ Called("realloc", ptr, nsz, b + Header)
      /\ UNCHANGED <<chain, halted>>

(* The check of the header fails: realloc returns NULL. *)
ReallocRejects(ptr) ==
  /\ Ready
  /\ CheckedSize(mem, ptr - Header) - Header < 0
  /\ Called("misuse", ptr, 0, NULL)
  /\ UNCHANGED <<mem, chain, live, halted>>

(* Callers pass to free and realloc what they own, or a block that they do *)
(* not own any more and whose header is still one.                         *)
Next ==
  \/ MallocInit
  \/ \E sz \in Requests : MallocCall(sz)
  \/ \E a \in Arrays : CallocCall(a[1], a[2])
  \/ \E ptr \in DOMAIN live, nsz \in Requests : ReallocCall(ptr, nsz)
  \/ \E b \in DOMAIN mem \ {HeadAt} :
       FreeCall(b + Header) \/ FreeHalts(b + Header) \/ ReallocRejects(b + Header)

Spec == Init /\ [][Next]_vars

-----------------------------------------------------------------------------

Blocks == DOMAIN mem \ {HeadAt}
FreeBlocks == {b \in Blocks : ~ Used(mem[b].size)}
UsedBlocks == {b \in Blocks : Used(mem[b].size)}
End(b) == b + Unmarked(mem[b].size)

(* The blocks in the order of the list bnext, from head to head. *)
BlockOrder ==
  LET order[n \in Nat] ==
        IF n = 0 THEN HeadAt ELSE mem[order[n - 1]].bnext
  IN  [n \in 0 .. Cardinality(Blocks) + 1 |-> order[n]]

(* Fields, addresses and calls have the values they are declared with. *)
TypeOK ==
  /\ \A p \in DOMAIN mem :
       /\ mem[p].size \in 0 .. MaxWord
       /\ \A q \in {mem[p].bnext, mem[p].bprev, mem[p].fnext} :
            q \in DOMAIN mem \cup {NULL}
       /\ mem[p].fprev \in DOMAIN mem \cup {NULL, UserData}
  /\ chain \in 1 .. Len(Areas) + 1
  /\ \A p \in DOMAIN live : live[p] \in Nat /\ p - Header \in Blocks
  /\ call.ret \in {NULL} \cup {p + Header : p \in Blocks}
  /\ halted \in BOOLEAN

(* The state is well formed: both lists are circular and doubly linked     *)
(* through head; the block list reaches every block once and the free list *)
(* is the sublist of its free blocks, in the same order: what __free_block *)
(* relies on when it scans the block list to find its place in the other.  *)
ListsAgree ==
  /\ TypeOK
  /\ Ready =>
    LET order == BlockOrder
        last == Cardinality(Blocks) + 1
        free(i) == ~ Used(mem[order[i]].size)
        \* the next free place after i is j
        follows(i, j) == /\ i < j /\ free(i) /\ free(j)
                         /\ \A k \in i + 1 .. j - 1 : ~ free(k)
    IN  /\ {order[i] : i \in 1 .. last - 1} = Blocks
        /\ order[last] = HeadAt
        /\ \A i \in 1 .. last : mem[order[i]].bprev = order[i - 1]
        /\ \A i, j \in 0 .. last : follows(i, j) =>
             mem[order[i]].fnext = order[j] /\ mem[order[j]].fprev = order[i]

(* No byte of the heap is lost or owned twice: from the start of an area   *)
(* to the end of the last one it touches, each block ends where the next   *)
(* one starts; and two free blocks that touch are never left unmerged.     *)
(* Not so for two areas that touch: malloc_init lists their blocks without *)
(* merging.                                                                *)
Tiled ==
  Ready =>
    LET starts == {Areas[i].at : i \in 1 .. Len(Areas)}
        ends == {Areas[i].at + Areas[i].size : i \in 1 .. Len(Areas)}
    IN  /\ \A b \in Blocks : End(b) > b /\ End(b) \in Blocks \cup ends
        /\ \A b \in Blocks :
             b \in starts \/ \E c \in Blocks : c < b /\ End(c) = b
        /\ \A b, c \in Blocks : b < c => End(b) <= c
        /\ \A a \in starts : \E b \in Blocks : b <= a /\ a < End(b)
        /\ \A b, c \in FreeBlocks : End(b) # c

(* The bytes a caller asked for lie inside its block: with Tiled, no two   *)
(* objects overlap (malloc, calloc and realloc, ansi_c.txt:9994).          *)
PayloadFits ==
  ~ halted => \A p \in DOMAIN live : p + live[p] <= End(p - Header)

(* A block is marked used exactly while a caller owns it, so that a second *)
(* free of a block whose header is intact is always caught; free only stops *)
(* the program for a pointer the caller does not own.                      *)
UsedIffOwned ==
  IF halted THEN call.ptr \notin DOMAIN live
  ELSE UsedBlocks = {p - Header : p \in DOMAIN live}

(* No call writes into an object that the caller owns before and after it, *)
(* a realloc of it that fails included: neither its first bytes, where     *)
(* fprev is, nor a header inside it.                                       *)
ObjectsUntouched ==
  [][\A p \in DOMAIN live \cap DOMAIN live' :
        live'[p] = live[p] =>
          /\ mem'[p - Header].fprev = UserData
          /\ mem'[p - Header].size = mem[p - Header].size
          /\ \A b \in DOMAIN mem' : ~ (p <= b /\ b < p + live[p])]_vars

(* The allocator implements HeapSpec: a used block is an allocation, and a *)
(* call returns NULL only when no free run of bytes could serve it.        *)
Abstract ==
  INSTANCE HeapSpec WITH
    Areas <- {Areas[i] : i \in 1 .. Len(Areas)},
    Needs <- {RoundUp(sz) : sz \in Requests}
               \cup {RoundUp((a[1] * a[2]) % 65536) : a \in Arrays},
    Slack <- Header,
    Grain <- 4,
    blocks <- [b \in UsedBlocks |-> Unmarked(mem[b].size)],
    refused <- IF call.fn \in {"malloc", "calloc", "realloc"} /\ call.ret = NULL
               THEN RoundUp(call.size) ELSE 0
ImplementsHeapSpec == Abstract!Spec

=============================================================================
