-------------------------------- MODULE Ints --------------------------------
(***************************************************************************)
(* The integer types of the target, as the compiler handles their values in *)
(* the long of its host: "I" and "U" are int and unsigned, "C" and "B" the  *)
(* signed and unsigned types that are narrower.                            *)
(***************************************************************************)
EXTENDS Integers, Bitwise
CONSTANTS Width,     \* bits of an int: 16 for the Gigatron
          Narrow     \* bits of a char: 8
ASSUME WidthAssumption == Width \in Nat /\ Narrow \in 2 .. Width - 1

Wide(ty) == ty \in {"I", "U"}
Signed(ty) == ty \in {"I", "C"}
Bits(ty) == IF Wide(ty) THEN Width ELSE Narrow
Least(ty) == IF Signed(ty) THEN -(2 ^ (Bits(ty) - 1)) ELSE 0             \* u.limits.min
Greatest(ty) == 2 ^ (IF Signed(ty) THEN Bits(ty) - 1 ELSE Bits(ty)) - 1  \* u.limits.max
Fits(ty, n) == n \in Least(ty) .. Greatest(ty)

ones(n, ty) == n % 2 ^ Bits(ty)         \* n & ones(8*size)
extend(n, ty) == LET u == ones(n, ty)
                 IN  IF u >= 2 ^ (Bits(ty) - 1) THEN u - 2 ^ Bits(ty) ELSE u
Wrap(ty, n) == IF Signed(ty) THEN extend(n, ty) ELSE ones(n, ty)

(* The operators / and & | ^ of C. *)
Abs(x) == IF x < 0 THEN -x ELSE x
CDiv(x, y) == LET q == Abs(x) \div Abs(y) IN IF (x < 0) = (y < 0) THEN q ELSE -q
BitOp(op, x, y) == LET a == ones(x, "U")
                       b == ones(y, "U")
                   IN  CASE op = "BAND" -> a & b
                         [] op = "BOR" -> a | b
                         [] OTHER -> a ^^ b
=============================================================================
