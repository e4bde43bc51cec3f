------------------------------- MODULE Switch -------------------------------
(***************************************************************************)
(* The switch statement of the compiler front end (src/src/stmt.c): the    *)
(* case labels are kept sorted, grouped into buckets that are dense enough *)
(* for a jump table, and tested by a binary search over the buckets.       *)
(*                                                                         *)
(* A label is a pair: <<"case", v>>, <<"default", 0>>, or one of the       *)
(* labels <<"lo", k>>, <<"hi", k>> of the search around bucket k.          *)
(* The operators named Bad... are mistakes one could make in the one that  *)
(* follows: the checks must tell them apart.                               *)
(***************************************************************************)
EXTENDS Ints, Sequences, SequencesExt

Badcasevalue(c, ty) == ones(c, ty)
(* The value of a label: the constant, converted to the type of the switch    *)
(* expression, as a signed number, which is how the tests compare it.        *)
casevalue(c, ty) == extend(c, ty)

Default == <<"default", 0>>

(* The values seen so far, with val: before the first that is not below it. *)
caselabel(values, val) ==
    InsertAt(values, 1 + Len(SelectSeq(values, LAMBDA v : v < val)), val)

(* Half the entries or more of a table for cases i to k would be in use. *)
Dense(v, i, k) == 2 * (k - i + 1) >= v[k] - v[i] + 1

(* The first case of each bucket: case k opens one, that swallows the buckets *)
(* before it while they are dense together.                                  *)
RECURSIVE Merge(_, _, _)
Merge(v, first, k) ==
    IF Len(first) > 1 /\ Dense(v, first[Len(first) - 1], k) THEN Merge(v, Front(first), k) ELSE first
swgen(v) == FoldLeft(LAMBDA first, k : Merge(v, Append(first, k), k),
                     <<>>, [k \in 1 .. Len(v) |-> k])

Op(op, value, lab) == [op |-> op, value |-> value, lab |-> lab]

(* The table emitted for cases l to u: the gaps lead to the default. *)
Table(v, l, u) ==
    [x \in 0 .. v[u] - v[l] |->
       IF \E i \in l .. u : v[i] = v[l] + x THEN <<"case", v[l] + x>> ELSE Default]

(* The code that tells buckets lb to ub of first apart.  A case that jumps   *)
(* through a table is the instruction "TABLE".                               *)
RECURSIVE swcode(_, _, _, _)
swcode(v, first, lb, ub) ==
    LET k == (lb + ub) \div 2
        l == first[k]
        u == IF k = Len(first) THEN Len(v) ELSE first[k + 1] - 1
        lolab == IF k > lb THEN <<"lo", k>> ELSE Default
        hilab == IF k < ub THEN <<"hi", k>> ELSE Default
        tests ==
          IF u - l + 1 <= 3
          THEN [i \in 1 .. u - l + 1 |-> Op("EQ", v[l + i - 1], <<"case", v[l + i - 1]>>)]
                 \o CASE k > lb -> <<Op("GT", v[u], hilab)>>
                      [] k = lb /\ k < ub -> <<Op("LT", v[l], lolab)>>
                      [] OTHER -> <<Op("BRANCH", 0, lolab)>>
          ELSE <<Op("LT", v[l], lolab), Op("GT", v[u], hilab), Op("TABLE", v[l], Table(v, l, u))>>
    IN  tests \o (IF k > lb THEN <<Op("LABEL", 0, lolab)>> \o swcode(v, first, lb, k - 1) ELSE <<>>)
              \o (IF k < ub THEN <<Op("LABEL", 0, hilab)>> \o swcode(v, first, k + 1, ub) ELSE <<>>)

(* The code of a whole statement, and the label it reaches for a value x.    *)
swstmt(v) == (IF v = <<>> THEN <<>> ELSE swcode(v, swgen(v), 1, Len(swgen(v))))
               \o <<Op("BRANCH", 0, Default)>>

Taken(i, x) == CASE i.op = "EQ" -> x = i.value
                 [] i.op = "GT" -> x > i.value
                 [] i.op = "LT" -> x < i.value
                 [] i.op = "LABEL" -> FALSE
                 [] OTHER -> TRUE
RECURSIVE Dispatch(_, _, _)
Dispatch(code, pc, x) ==
    LET i == code[pc]
        lab == IF i.op = "TABLE" THEN i.lab[x - i.value] ELSE i.lab
    IN  CASE ~Taken(i, x) -> Dispatch(code, pc + 1, x)
          [] lab[1] \in {"lo", "hi"} ->
               Dispatch(code, CHOOSE j \in 1 .. Len(code) : code[j] = Op("LABEL", 0, lab), x)
          [] OTHER -> lab

(* Every value of the switch expression reaches its own case, or the default *)
(* when it has none, whatever the order of the labels, the shape of the      *)
(* search and the sign of the type (stmt.c:124, and the tests against lolab  *)
(* and hilab in swcode).  values is what caselabel made of the constants in   *)
(* cases; ty is a wide type: the others are promoted.                        *)
EachToItsCase(values, cases, ty) ==
    LET code == swstmt(values)
    IN  \A x \in Least(ty) .. Greatest(ty) :
          Dispatch(code, 1, extend(x, ty)) =
            IF x \in cases THEN <<"case", casevalue(x, ty)>> ELSE Default
=============================================================================
