----------------------------- MODULE Arithmetic -----------------------------
(***************************************************************************)
(* The arithmetic of the machine: StmtBop of interpreter/src/stmt.cpp.     *)
(*                                                                         *)
(* A register holds a word of WIDTH bits.  An operation names a size in    *)
(* bits: both operands are cut to it (and sign extended for a signed       *)
(* operation), the operation is done on WORDS, in C++, and its result is   *)
(* cut to the size again.                                                  *)
(***************************************************************************)
EXTENDS Integers

CONSTANTS
  WIDTH,   \* bits of a register (64)
  Widths   \* the sizes of an operation ({1, 8, 16, 32, 64})

ASSUME ArithmeticAssumption ==
  /\ WIDTH \in Nat \ {0}
  /\ Widths \subseteq 1 .. WIDTH
  /\ {1, WIDTH} \subseteq Widths

(* 2^n.                                                                    *)
Pow2[n \in 0 .. WIDTH] == IF n = 0 THEN 1 ELSE 2 * Pow2[n - 1]

WordRange == Pow2[WIDTH]
Word == 0 .. WordRange - 1

DivKind == {"udiv", "sdiv", "urem", "srem"}
ShiftKind == {"shl", "lshr", "ashr"}
BopKind == DivKind \cup ShiftKind \cup {"mul", "and", "or", "xor", "add", "sub"}
CondKind == {"eq", "ne", "ugt", "uge", "ult", "ule", "sgt", "sge", "slt", "sle"}

(* Truth as 0 or 1.                                                        *)
Bit(p) == IF p THEN 1 ELSE 0

(* The integer that the low n bits of val stand for in two's complement.   *)
SignedValue(val, n) ==
  LET low == val % Pow2[n] IN IF 2 * low >= Pow2[n] THEN low - Pow2[n] ELSE low

(* Division of C++: towards zero, the rest has the sign of the dividend.   *)
Magnitude(a) == IF a < 0 THEN -a ELSE a
Quotient(a, b) ==
  LET q == Magnitude(a) \div Magnitude(b) IN IF (a < 0) = (b < 0) THEN q ELSE -q
Remainder(a, b) == a - b * Quotient(a, b)

(* The low n bits of val that are 1, and the word with these bits.         *)
OneBits(val, n) == {i \in 0 .. n - 1 : (val \div Pow2[i]) % 2 = 1}
FromBits(S) ==
  LET sum[k \in 0 .. WIDTH] ==
        IF k = 0 THEN 0 ELSE sum[k - 1] + (IF k - 1 \in S THEN Pow2[k - 1] ELSE 0)
  IN sum[WIDTH]

is_signed_op(kind) == kind \in {"ashr", "sdiv", "srem", "sgt", "sge", "slt", "sle"}

get_op1(kind, size, val) ==
  IF is_signed_op(kind) THEN SignedValue(val, size) % WordRange ELSE val % Pow2[size]

get_op2(kind, size, val) ==
  IF kind \in ShiftKind THEN val % size ELSE get_op1(kind, size, val)

(* What compute does with the two words; int64_t is a cast to signed.      *)
OnWords(kind, a, b) ==
  LET sa == SignedValue(a, WIDTH)
      sb == SignedValue(b, WIDTH)
      ones == OneBits(a, WIDTH)
      twos == OneBits(b, WIDTH)
  IN CASE kind = "udiv" -> a \div b
       [] kind = "sdiv" -> Quotient(sa, sb)
       [] kind = "urem" -> a % b
       [] kind = "srem" -> Remainder(sa, sb)
       [] kind = "mul"  -> a * b
       [] kind = "shl"  -> a * Pow2[b]
       [] kind = "lshr" -> a \div Pow2[b]
       [] kind = "ashr" -> sa \div Pow2[b]
       [] kind = "and"  -> FromBits(ones \cap twos)
       [] kind = "or"   -> FromBits(ones \cup twos)
       [] kind = "xor"  -> FromBits((ones \ twos) \cup (twos \ ones))
       [] kind = "add"  -> a + b
       [] kind = "sub"  -> a - b
       [] kind = "eq"   -> Bit(a = b)
       [] kind = "ne"   -> Bit(a # b)
       [] kind = "ugt"  -> Bit(a > b)
       [] kind = "uge"  -> Bit(a >= b)
       [] kind = "ult"  -> Bit(a < b)
       [] kind = "ule"  -> Bit(a <= b)
       [] kind = "sgt"  -> Bit(sa > sb)
       [] kind = "sge"  -> Bit(sa >= sb)
       [] kind = "slt"  -> Bit(sa < sb)
       [] kind = "sle"  -> Bit(sa <= sb)

(* compute ends the run: division by zero.                                 *)
DividesByZero(kind, size, val2) ==
  kind \in DivKind /\ get_op2(kind, size, val2) = 0

(* The smallest int64_t divided by -1 has no result in C++; the division   *)
(* instruction of the host stops the interpreter.                          *)
DivisionOverflows(kind, size, val1, val2) ==
  /\ kind \in {"sdiv", "srem"}
  /\ SignedValue(get_op1(kind, size, val1), WIDTH) = -Pow2[WIDTH - 1]
  /\ SignedValue(get_op2(kind, size, val2), WIDTH) = -1

(* Mutant of compute: the product of two words does not fit in a word.     *)
computeUncut(kind, size, val1, val2) ==
  OnWords(kind, get_op1(kind, size, val1), get_op2(kind, size, val2))

(* A * 2^b and the like are uint64_t: cut to a word, then to the size.     *)
compute(kind, size, val1, val2) ==
  (OnWords(kind, get_op1(kind, size, val1), get_op2(kind, size, val2)) % WordRange)
    % Pow2[size]

=============================================================================
