------------------------------- MODULE Sorting -------------------------------
(***************************************************************************)
(* qsort and bsearch of the C library (src/src/gigatron/libc: qsort.c,     *)
(* bsearch.c).  An array is a sequence of elements <<key, mark>>; cmp      *)
(* compares the keys.  Positions count elements where the code counts bytes. *)
(* The operators named Bad... are mistakes one could make in the one that  *)
(* follows: the checks must tell them apart.                               *)
(***************************************************************************)
EXTENDS Integers, Sequences, SequencesExt, FiniteSetsExt

cmp(x, y) == x[1] - y[1]
swap(a, i, j) == [a EXCEPT ![i] = a[j], ![j] = a[i]]

(* The one of positions x, y, z that holds the median. *)
med3(a, x, y, z) ==
    LET big == IF cmp(a[x], a[y]) < 0 THEN y ELSE x
        small == IF big = x THEN y ELSE x
    IN  CASE cmp(a[big], a[z]) < 0 -> big
          [] cmp(a[small], a[z]) < 0 -> z
          [] OTHER -> small

RECURSIVE Sink(_, _, _)
Sink(a, first, pl) == IF pl > first /\ cmp(a[pl - 1], a[pl]) > 0
                      THEN Sink(swap(a, pl, pl - 1), first, pl - 1) ELSE a
Insertion(a, first, n) == FoldLeft(LAMBDA b, i : Sink(b, first, first + i), a, [i \in 1 .. n - 1 |-> i])

(* The pivot: the middle, the median of three, or of three medians. *)
Pivot(a, first, n) ==
    LET last == first + n - 1
        pm == first + n \div 2
        d == n \div 8
    IN  CASE n <= 7 -> pm
          [] n > 40 -> med3(a, med3(a, first, first + d, first + 2 * d), med3(a, pm - d, pm, pm + d),
                            med3(a, last - 2 * d, last - d, last))
          [] OTHER -> med3(a, first, pm, last)

(* The partition around the element at first.  The ones that are equal to it *)
(* wait at both ends, before pa and after pd; moved is swap_cnt.             *)
RECURSIVE ScanUp(_, _), ScanDown(_, _), Partition(_, _)
ScanUp(s, first) ==
    LET c == cmp(s.a[s.pb], s.a[first])
    IN  CASE s.pb > s.pc \/ c > 0 -> s
          [] c = 0 -> ScanUp([s EXCEPT !.a = swap(s.a, s.pa, s.pb), !.pa = @ + 1, !.pb = @ + 1,
                                       !.moved = TRUE], first)
          [] OTHER -> ScanUp([s EXCEPT !.pb = @ + 1], first)
ScanDown(s, first) ==
    LET c == cmp(s.a[s.pc], s.a[first])
    IN  CASE s.pb > s.pc \/ c < 0 -> s
          [] c = 0 -> ScanDown([s EXCEPT !.a = swap(s.a, s.pc, s.pd), !.pd = @ - 1, !.pc = @ - 1,
                                         !.moved = TRUE], first)
          [] OTHER -> ScanDown([s EXCEPT !.pc = @ - 1], first)
Partition(s, first) ==
    LET t == ScanDown(ScanUp(s, first), first)
    IN  IF t.pb > t.pc THEN t
        ELSE Partition([t EXCEPT !.a = swap(t.a, t.pb, t.pc), !.pb = @ + 1, !.pc = @ - 1,
                                 !.moved = TRUE], first)

(* r elements exchanged between positions i and j on. *)
SwapBlock(a, i, j, r) == FoldLeft(LAMBDA b, k : swap(b, i + k - 1, j + k - 1), a, [k \in 1 .. r |-> k])
BadGather(s, first, end) ==
    LET r == s.pa - first
        q == Min({s.pd - s.pc, end - s.pd - 1})
    IN  SwapBlock(SwapBlock(s.a, first, s.pb - r, r), s.pb, end - q, q)
(* The elements equal to the pivot brought to the middle: min(...). *)
Gather(s, first, end) ==
    LET r == Min({s.pa - first, s.pb - s.pa})
        q == Min({s.pd - s.pc, end - s.pd - 1})
    IN  SwapBlock(SwapBlock(s.a, first, s.pb - r, r), s.pb, end - q, q)

RECURSIVE qsort(_, _, _)
qsort(a, first, n) ==
    LET end == first + n
        s == Partition([a |-> swap(a, first, Pivot(a, first, n)), pa |-> first + 1, pb |-> first + 1,
                        pc |-> end - 1, pd |-> end - 1, moved |-> FALSE], first)
        below == s.pb - s.pa
        above == s.pd - s.pc
        b == Gather(s, first, end)
        c == IF below > 1 THEN qsort(b, first, below) ELSE b
    IN  CASE n < 7 -> Insertion(a, first, n)
          [] ~s.moved -> Insertion(s.a, first, n)
          [] OTHER -> IF above > 1 THEN qsort(c, end - above, above) ELSE c

(* The position of an element with this key, 0 if none is found; lim of them *)
(* are left, from base on.                                                   *)
RECURSIVE Search(_, _, _, _)
Search(a, key, base, lim) ==
    LET p == base + lim \div 2
    IN  CASE lim = 0 -> 0
          [] key = a[p][1] -> p
          [] key > a[p][1] -> Search(a, key, p + 1, (lim - 1) \div 2)
          [] OTHER -> Search(a, key, base, lim \div 2)
bsearch(a, key) == Search(a, key, 1, Len(a))

(* qsort returns the elements it was given, in order (whatever the pivot and *)
(* the number of equal keys), and bsearch finds a key in them exactly when   *)
(* one has it (qsort.c, bsearch.c).                                          *)
SortedThenFound(a) ==
    LET s == qsort(a, 1, Len(a)) IN
    /\ Len(s) = Len(a) /\ Range(s) = Range(a)
    /\ \A i \in 1 .. Len(s) - 1 : cmp(s[i], s[i + 1]) <= 0
    /\ \A key \in -1 .. 10 :
         LET p == bsearch(s, key)
         IN  IF \E x \in Range(a) : x[1] = key THEN s[p][1] = key ELSE p = 0
=============================================================================
