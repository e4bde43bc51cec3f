----------------------------- MODULE Conditionals -----------------------------
(***************************************************************************)
(* Conditional compilation and the files it spans in the preprocessor      *)
(* (src/cpp/cpp.c: process, control).  Only the lines #if, #elif, #else,   *)
(* #endif, #include and the end of a file matter here; v is what eval()    *)
(* finds in an #if or #elif.  The state c is the global variables of cpp.c *)
(* and, for each file being read, its own count of open #ifs.              *)
(* The operators named Bad... are mistakes one could make in the one that  *)
(* follows: the checks must tell them apart.                               *)
(***************************************************************************)
EXTENDS Integers, Sequences, SequencesExt

CONSTANT NIF          \* what the nesting of #if stays below
ASSUME ConditionalsAssumption == NIF \in Nat \ {0}

Start == [ifdepth |-> 0, ifsatisfied |-> [d \in 1..NIF |-> 0], skipping |-> 0,
          files |-> <<0>>, error |-> FALSE, fatal |-> FALSE]

Deepen(c, by) ==
    [c EXCEPT !.ifdepth = @ + by, !.files[Len(c.files)] = @ + by, !.fatal = c.ifdepth + by >= NIF]
Error(c) == [c EXCEPT !.error = TRUE]
Satisfied(c) == c.ifsatisfied[c.ifdepth]

(* While text is skipped, only the nesting counts ... *)
Skipped(c, d) ==
    CASE d = "if" -> Deepen(c, 1)
      [] d = "endif" -> [Deepen(c, -1) EXCEPT !.skipping = IF c.ifdepth - 1 < @ THEN 0 ELSE @]
      [] OTHER -> c

(* ... up to the other groups of the #if that is skipped. *)
BadReaches(c, d) == c.skipping = 0 \/ d \in {"elif", "else"}
Reaches(c, d) == c.skipping = 0 \/ (d \in {"elif", "else"} /\ c.ifdepth <= c.skipping)

If(c, v) ==
    LET deep == Deepen(c, 1) IN
    IF deep.fatal THEN deep
    ELSE [deep EXCEPT !.ifsatisfied[deep.ifdepth] = IF v THEN 1 ELSE 0,
                      !.skipping = IF v THEN @ ELSE deep.ifdepth]

Elif(c, v) ==
    IF c.ifdepth = 0 THEN Error(c)
    ELSE [c EXCEPT !.error = Satisfied(c) = 2,
                   !.skipping = IF v /\ Satisfied(c) = 0 THEN 0 ELSE c.ifdepth,
                   !.ifsatisfied[c.ifdepth] = IF v /\ @ = 0 THEN 1 ELSE @]

Else(c) ==
    IF c.ifdepth = 0 \/ c.files[Len(c.files)] = 0 THEN Error(c)
    ELSE [c EXCEPT !.error = Satisfied(c) = 2,
                   !.skipping = IF Satisfied(c) # 0 THEN c.ifdepth ELSE 0,
                   !.ifsatisfied[c.ifdepth] = 2]

Endif(c) ==
    IF c.ifdepth = 0 \/ c.files[Len(c.files)] = 0 THEN Error(c) ELSE Deepen(c, -1)

control(c, d, v) ==
    CASE ~Reaches(c, d) -> Skipped(c, d)
      [] d = "if" -> If(c, v)
      [] d = "elif" -> Elif(c, v)
      [] d = "else" -> Else(c)
      [] d = "endif" -> Endif(c)

(* #include, of a file that exists, when it is not skipped. *)
doinclude(c) == [c EXCEPT !.files = Append(@, 0)]

(* The end of a file: back to the one that includes it, if any. *)
EndOfFile(c) ==
    LET n == Len(c.files) IN
    [c EXCEPT !.error = IF n > 1 THEN c.files[n] # 0 ELSE c.ifdepth # 0,
              !.files = IF n > 1 THEN Front(@) ELSE @]

-----------------------------------------------------------------------------
(* What the lines mean: the #ifs that are open, each with its file, whether   *)
(* the group being read is the one to keep, whether one has been kept, and    *)
(* whether it is the last.                                                   *)
Alone == [open |-> <<>>, file |-> 1, wrong |-> FALSE]

Innermost(g) == g.open[Len(g.open)]
Within(g) == g.open # <<>> /\ Innermost(g).file = g.file
Kept(g) == \A i \in DOMAIN g.open : g.open[i].keep
(* The lines in a group that is not kept are not examined. *)
Examined(g) == \A i \in 1..(Len(g.open) - 1) : g.open[i].keep

Meaning(g, d, v) ==
    LET last == Len(g.open) IN
    CASE d = "if" ->
           [g EXCEPT !.open = Append(@, [file |-> g.file, keep |-> v, kept |-> v, final |-> FALSE])]
      [] d # "if" /\ ~Within(g) -> [g EXCEPT !.wrong = TRUE]
      [] d \in {"elif", "else"} /\ Within(g) ->
           LET chosen == (d = "else" \/ v) /\ ~Innermost(g).kept
           IN  [g EXCEPT !.wrong = Examined(g) /\ Innermost(g).final,
                         !.open[last] = [@ EXCEPT !.keep = chosen, !.kept = @ \/ chosen,
                                                  !.final = d = "else"]]
      [] d = "endif" /\ Within(g) -> [g EXCEPT !.open = Front(@)]
IncludeMeans(g) == [g EXCEPT !.file = @ + 1]
EndMeans(g) == [g EXCEPT !.wrong = Within(g), !.file = IF @ > 1 THEN @ - 1 ELSE @]
=============================================================================
