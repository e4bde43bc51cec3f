-------------------------------- MODULE Fields --------------------------------
(***************************************************************************)
(* Structures and bit-fields in the compiler front end: where the members  *)
(* of a structure go (src/src/decl.c, fields), and the code that reads and  *)
(* assigns a bit-field (src/src/enode.c and src/src/dag.c).  Memory is       *)
(* little endian; a bit-field lies in the unsigned int at its offset.       *)
(* The operators named Bad... are mistakes one could make in the one that  *)
(* follows: the checks must tell them apart.                               *)
(***************************************************************************)
EXTENDS Integers, Sequences, SequencesExt

Unit == 16      \* bits of an unsigned int
Type(k, size, align, elem, flist) ==
    [k |-> k, size |-> size, align |-> align, elem |-> elem, flist |-> flist]
char == Type("char", 1, 1, <<>>, <<>>)
int == Type("int", 2, 2, <<>>, <<>>)
long == Type("long", 4, 4, <<>>, <<>>)
float == Type("float", 5, 1, <<>>, <<>>)
array(ty, n) == Type("array", n * ty.size, ty.align, <<ty>>, <<>>)

(* A member as it is declared; one of width 0 and one without a name can only *)
(* move the ones that follow.                                               *)
newfield(ty) == [ty |-> ty, field |-> FALSE, bits |-> 0, named |-> TRUE]
bitfield(bits, named) == [ty |-> int, field |-> TRUE, bits |-> bits, named |-> named]

Pow(n) == 2 ^ n
roundup(x, n) == ((x + n - 1) \div n) * n
bits2bytes(n) == (n + 7) \div 8
(* lsb is 0 for a member that is not a bit-field, else 1 + its first bit.     *)
BadFits(s, m) == s.bits + m.bits <= Unit
Fits(s, m) == s.bits - 1 + m.bits <= Unit
fields(k, members) ==
    LET Add(s, m) ==
          LET a == IF m.field THEN int.align ELSE m.ty.align
              fresh == m.bits = 0 \/ s.bits = 0 \/ ~Fits(s, m)
              off == IF k = "union" THEN 0
                     ELSE IF fresh THEN roundup(s.off + bits2bytes(s.bits - 1), a) ELSE s.off
              lsb == IF ~m.field THEN 0 ELSE IF k = "union" \/ fresh THEN 1 ELSE s.bits
              bits == IF m.field THEN lsb + m.bits ELSE 0
              next == IF m.field THEN off ELSE off + m.ty.size
              end == next + bits2bytes(bits - 1)
          IN  [off |-> next, bits |-> bits,
               size |-> IF end > s.size THEN end ELSE s.size,
               align |-> IF a > s.align THEN a ELSE s.align,
               flist |-> IF m.named THEN Append(s.flist, [ty |-> m.ty, offset |-> off, lsb |-> lsb, bits |-> m.bits])
                         ELSE s.flist]
        s == FoldLeft(Add, [off |-> 0, bits |-> 0, size |-> 0, align |-> 1, flist |-> <<>>], members)
    IN  Type(k, roundup(s.size, s.align), s.align, <<>>, s.flist)

fieldright(f) == f.lsb - 1
fieldleft(f) == Unit - f.bits - fieldright(f)
Truncated(x, bits) == x % Pow(bits)
Extended(x, bits) == LET t == Truncated(x, bits) IN IF t >= Pow(bits - 1) THEN t - Pow(bits) ELSE t

(* The value of the bit-field f of the unsigned int w: an int is moved to the *)
(* left end and back, an unsigned is moved down and masked.                  *)
Read(f, w, signed) ==
    IF signed
    THEN Extended(w * Pow(fieldleft(f)), Unit) \div Pow(fieldleft(f) + fieldright(f))
    ELSE IF f.bits < Unit THEN Truncated(w \div Pow(fieldright(f)), f.bits) ELSE w

(* The value that is assigned, which is also the one of the assignment: a      *)
(* constant is extended if its sign is set, another value is shifted.         *)
asgntree(f, r, signed, constant) ==
    CASE f.bits = Unit -> r
      [] f.bits < Unit /\ ~signed -> Truncated(r, f.bits)
      [] f.bits < Unit /\ signed /\ constant ->
           IF Truncated(r, f.bits) >= Pow(f.bits - 1) THEN Extended(r, f.bits) ELSE r
      [] OTHER -> Extended(Truncated(r * Pow(Unit - f.bits), Unit), Unit) \div Pow(Unit - f.bits)
(* The word after the assignment: the bits of the field are cleared, or set,  *)
(* or replaced.                                                             *)
Cleared(f, w) == w - Truncated(w \div Pow(fieldright(f)), f.bits) * Pow(fieldright(f))
Stored(f, w, q, constant) ==
    LET ones == Pow(f.bits) - 1 IN
    CASE f.bits = Unit -> Truncated(q, Unit)
      [] f.bits < Unit /\ constant /\ q = 0 -> Cleared(f, w)
      [] f.bits < Unit /\ constant /\ Truncated(q, f.bits) = ones -> Cleared(f, w) + ones * Pow(fieldright(f))
      [] OTHER -> Cleared(f, w) + Truncated(Truncated(q * Pow(fieldright(f)), Unit) \div Pow(fieldright(f)), f.bits)
                                    * Pow(fieldright(f))

-----------------------------------------------------------------------------
(* Where a member lies, in bits. *)
Where(f) ==
    IF f.lsb = 0 THEN 8 * f.offset .. 8 * (f.offset + f.ty.size) - 1
    ELSE 8 * f.offset + f.lsb - 1 .. 8 * f.offset + f.lsb - 2 + f.bits
Index(members, i) == Len(SelectSeq(SubSeq(members, 1, i), LAMBDA m : m.named))
FirstBit(f) == 8 * f.offset + (IF f.lsb = 0 THEN 0 ELSE f.lsb - 1)
EndBit(f) == FirstBit(f) + (IF f.lsb = 0 THEN 8 * f.ty.size ELSE f.bits)

(* Members follow one another, aligned and inside; no padding is wider than   *)
(* an alignment; bit-fields that fit share a unit, and width 0 ends one.      *)
LaidOut(k, members) ==
    LET ty == fields(k, members)
        F == ty.flist
    IN  /\ ty.size % ty.align = 0
        /\ \A i \in DOMAIN F :
             /\ F[i].offset % (IF F[i].lsb = 0 THEN F[i].ty.align ELSE int.align) = 0
             /\ EndBit(F[i]) <= 8 * ty.size
             /\ F[i].lsb # 0 => EndBit(F[i]) <= 8 * F[i].offset + Unit /\ F[i].offset + 2 <= ty.size
             /\ k = "union" => FirstBit(F[i]) = 0
        /\ k = "struct" =>
             /\ \A i \in 2 .. Len(F) : EndBit(F[i - 1]) <= FirstBit(F[i])
             /\ \A i \in 2 .. Len(members) :
                  LET m == members[i]
                      f == F[Index(members, i)]
                      last == F[Index(members, i - 1)]
                  IN  m.named /\ members[i - 1].named =>
                        /\ FirstBit(f) - EndBit(last) < 8 * (IF m.field THEN 2 ELSE m.ty.align)
                        /\ m.field /\ members[i - 1].field /\ last.lsb - 1 + last.bits + m.bits <= Unit =>
                             FirstBit(f) = EndBit(last)
             /\ \A i, j \in DOMAIN members : \A n \in i .. j :
                  /\ members[i].field /\ members[i].named /\ members[j].field /\ members[j].named
                  /\ members[n].field /\ members[n].bits = 0
                  => F[Index(members, i)].offset # F[Index(members, j)].offset

(* A bit-field holds what was assigned to it, converted to its width, as the  *)
(* value of the assignment says, and the others keep theirs.                 *)
Assigns(ty, words, values, known) ==
    \A i \in DOMAIN ty.flist : LET f == ty.flist[i] IN
      f.lsb # 0 =>
        \A w \in words, r \in values, signed, constant \in BOOLEAN :
          LET right == IF signed THEN Extended(r, f.bits) ELSE Truncated(r, f.bits)
              q == asgntree(f, r, signed, constant)
              after == Stored(f, w, q, constant)
          IN  \/ ~known /\ signed /\ constant /\ r # right
              \/ /\ after \in 0 .. Pow(Unit) - 1
                 /\ Read(f, after, signed) = right
                 /\ f.bits < Unit => q = right
                 /\ \A j \in DOMAIN ty.flist \ {i} : LET g == ty.flist[j] IN
                      g.lsb # 0 /\ g.offset = f.offset /\ ty.k = "struct" => Read(g, after, signed) = Read(g, w, signed)
=============================================================================
