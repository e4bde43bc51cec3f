----------------------------- MODULE MCSegments -----------------------------
(* Instances of Segments for TLC, with pages of 32 bytes.                  *)
EXTENDS Segments

Seg(from, to, flags) == [from |-> from, to |-> to, flags |-> flags]
All == {"C", "D", "H"}

(* One segment per page, as in map32k: only their ends hold programs; a    *)
(* piece of page zero, and a page where only placed code goes.             *)
Narrow == <<Seg(10, 20, {"d"}), Seg(40, 64, All), Seg(72, 96, All),
            Seg(96, 128, {"c", "D"})>>

(* Segments that cover pages, as in map64k; not in the order of addresses. *)
Wide == <<Seg(120, 261, All), Seg(36, 80, All)>>
Cuts == <<Seg(140, 150, {"d"}), Seg(60, 70, {"D"}), Seg(200, 270, {"d"})>>

Link(m, prags, p) == [map |-> m, prags |-> prags, prog |-> p]

Code0(n) == [cseg |-> "CODE", size |-> n, align |-> 1, nohop |-> FALSE,
             amin |-> None, amax |-> None, aoff |-> None]
Data(n) == [Code0(n) EXCEPT !.cseg = "DATA", !.align = 2]
Bss(n) == [Data(n) EXCEPT !.cseg = "BSS"]
Place(f, lo, hi) == [f EXCEPT !.amin = lo, !.amax = hi]
Org(f, at) == [f EXCEPT !.amin = at]
Offset(f, o) == [f EXCEPT !.aoff = o]
Nohop(f) == [f EXCEPT !.nohop = TRUE]

(* Within a kind, first come first served; the kinds go one by one, after  *)
(* the large data and bss.                                                 *)
Plains == {<<Code0(36), Code0(7), Data(5), Bss(31), Bss(7)>>,
           <<Code0(38), Code0(7), Data(40), Bss(18), Bss(7)>>}

Constrained ==
  {Code0(9), Code0(36), Place(Code0(20), 64, 127), Offset(Code0(6), 16),
   Place(Data(4), 0, 31), Org(Data(4), 80), Org(Bss(6), 48),
   Offset(Data(3), 16), Nohop(Data(9)), Place(Bss(9), 64, 127), Org(Code0(8), 44)}

PlacedLinks ==
  {Link(Wide, prags, p) : prags \in {<<>>, Cuts}, p \in Plains} \cup
  {Link(Narrow, <<>>, p) : p \in [1 .. 3 -> Constrained]}

(* The hypotheses of the theorems hold of the links of the run. *)
ASSUME TheoremsApply == PlacesAligned /\ MapsForMalloc

=============================================================================
