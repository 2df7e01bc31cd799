-------------------------- MODULE IntegerLowering --------------------------
(***************************************************************************)
(* What becomes of the integers of a source program on the machine.        *)
(*                                                                         *)
(* The source computes with types of 1 to WIDTH bits; the machine has only *)
(* words.  Between them are the pass WeirdArithmetic, which rewrites some  *)
(* operations into cheaper ones, and the back end, whose convention is     *)
(* that every integer is kept ZERO-EXTENDED in its register.               *)
(*                                                                         *)
(* The module runs both side by side: a few variables of the source, and   *)
(* the words in the registers that stand for them.  Each step is one       *)
(* instruction of the source, done on the value as LLVM defines it and on  *)
(* the registers by the statements it is compiled to.                      *)
(***************************************************************************)
EXTENDS PackRegisters

CONSTANTS
  Slots,         \* the variables of the source looked at
  MaxArgs,       \* bound of the model: most arguments of a call
  SExtTargets    \* the types an integer is sign extended to

ASSUME LoweringAssumption ==
  /\ MaxArgs \in Nat
  /\ SExtTargets \subseteq Widths

VARIABLES
  bits,     \* the type of each variable
  value,    \* its value in the source
  shifted,  \* how far left it was just shifted by a constant, 0 if it was not
  reg,      \* the register that holds it
  trapped   \* the machine stopped: division by zero

vars == <<bits, value, shifted, reg, trapped>>

Init ==
  /\ bits = [s \in Slots |-> WIDTH]
  /\ value \in [Slots -> Word]
  /\ shifted = [s \in Slots |-> 0]
  /\ reg = value
  /\ trapped = FALSE

-----------------------------------------------------------------------------
(* The source: LLVM's arithmetic on integers of n bits.                    *)

(* The result is defined: no division by zero, no overflow of a division,  *)
(* no shift by the width or more.                                          *)
SourceDefined(kind, n, a, b) ==
  /\ kind \in DivKind => b # 0
  /\ kind \in {"sdiv", "srem"} => ~(SignedValue(a, n) = -Pow2[n - 1] /\ SignedValue(b, n) = -1)
  /\ kind \in ShiftKind => b < n

(* The integer the operation stands for, before it is cut to n bits.  A    *)
(* bit of and, or and xor depends on the two bits at its place only.       *)
SourceResult(kind, n, a, b) ==
  LET sa == SignedValue(a, n)
      sb == SignedValue(b, n)
      ones == OneBits(a, n)
      twos == OneBits(b, n)
  IN CASE kind \in {"add", "sub", "mul", "udiv", "urem"} -> OnWords(kind, a, b)
       [] kind = "sdiv" -> Quotient(sa, sb)
       [] kind = "srem" -> Remainder(sa, sb)
       [] kind = "shl"  -> a * Pow2[b]
       [] kind = "lshr" -> a \div Pow2[b]
       [] kind = "ashr" -> sa \div Pow2[b]
       [] kind = "and"  -> FromBits(ones \cap twos)
       [] kind = "or"   -> FromBits(ones \cup twos)
       [] kind = "xor"  -> FromBits((ones \ twos) \cup (twos \ ones))
       [] kind \in {"sgt", "sge", "slt", "sle"} ->
            Bit(CASE kind = "sgt" -> sa > sb
                  [] kind = "sge" -> sa >= sb
                  [] kind = "slt" -> sa < sb
                  [] kind = "sle" -> sa <= sb)
       [] OTHER -> OnWords(kind, a, b)

-----------------------------------------------------------------------------
(* The machine: a statement replaces the word of a register.               *)

statement(kind, size, val2) == [kind |-> kind, size |-> size, val2 |-> val2]

Traps(code) ==
  \E i \in DOMAIN code : DividesByZero(code[i].kind, code[i].size, code[i].val2)

Run(code, word) ==
  LET w[k \in 0 .. Len(code)] ==
        IF k = 0 THEN word ELSE compute(code[k].kind, code[k].size, w[k - 1], code[k].val2)
  IN w[Len(code)]

-----------------------------------------------------------------------------
(* The compiler.                                                           *)

(* The bits below the constant shift of the operand count as kept.         *)
AndMask(c, low) == Run(<<statement("or", WIDTH, Pow2[low] - 1)>>, c)

(* What the pass InstCombine leaves of an operation with a constant: no    *)
(* shift by 0, no and that keeps every bit that can be set.  Its code is   *)
(* LLVM's; WeirdArithmetic.cpp:32 relies on it.                            *)
InstCombined(kind, n, c, low) ==
  /\ kind \in ShiftKind => c \in 1 .. n - 1
  /\ kind = "and" => c # 0 /\ AndMask(c, low) # Pow2[n] - 1

(* Mutant of PowerOfTwo: one bit too far.                                  *)
PowerOfTwoNext(n, c) == Pow2[c + 1] % Pow2[n]

(* The shift is written as a multiplication or division by 2^c of type n.  *)
PowerOfTwo(n, c) == Pow2[c] % Pow2[n]

(* WeirdArithmetic on x kind c, for a constant c and an operand x that was *)
(* shifted left by low: an and with a mask 2^k - 1 becomes a urem, a       *)
(* logical shift a mul or a udiv.                                          *)
WeirdArithmetic(kind, n, c, low) ==
  LET mask == AndMask(c, low)
      rest == compute("and", WIDTH, mask, (mask + 1) % WordRange)
  IN CASE kind = "and" /\ rest = 0 -> statement("urem", n, (mask + 1) % Pow2[n])
       [] kind = "shl"  -> statement("mul", n, PowerOfTwo(n, c))
       [] kind = "lshr" -> statement("udiv", n, PowerOfTwo(n, c))
       [] OTHER -> statement(kind, n, c)

(* An and of two booleans becomes a mul.                                   *)
WeirdBoolean(kind, n) == IF kind = "and" /\ n = 1 THEN "mul" ELSE kind

(* Mutant of visitSExtInst: the sign bit is not brought to the top.        *)
visitSExtInstByType(from) ==
  <<statement("mul", WIDTH, Pow2[from]), statement("ashr", WIDTH, from)>>

(* The casts of the back end.                                              *)
visitSExtInst(from) ==
  IF from < WIDTH
    THEN <<statement("mul", WIDTH, Pow2[WIDTH - from]), statement("ashr", WIDTH, WIDTH - from)>>
    ELSE <<statement("mul", WIDTH, 1)>>

visitZExtInst == <<statement("mul", WIDTH, 1)>>

visitTruncInst(to) == <<statement("urem", WIDTH, Pow2[to])>>

-----------------------------------------------------------------------------
(* One instruction of the source.                                          *)

(* Variable d gets the value v of type n, and its register the word that   *)
(* code makes of word.                                                     *)
Define(d, n, v, low, code, word) ==
  /\ bits' = [bits EXCEPT ![d] = n]
  /\ value' = [value EXCEPT ![d] = v]
  /\ shifted' = [shifted EXCEPT ![d] = low]
  /\ trapped' = Traps(code)
  /\ reg' = IF Traps(code) THEN reg ELSE [reg EXCEPT ![d] = Run(code, word)]

(* kind x, y for two variables: visitBinaryOperator and visitICmpInst emit *)
(* one statement of the operands' size.                                    *)
Operate(kind, d, x, y) ==
  LET n == bits[x]
      low == IF kind \in CondKind THEN 1 ELSE n
  IN /\ ~trapped
     /\ bits[y] = n
     /\ SourceDefined(kind, n, value[x], value[y])
     /\ Define(d, low, SourceResult(kind, n, value[x], value[y]) % Pow2[low], 0,
               <<statement(WeirdBoolean(kind, n), n, reg[y])>>, reg[x])

(* kind x, c for a constant c.                                             *)
OperateConstant(kind, d, x, c) ==
  LET n == bits[x]
  IN /\ ~trapped
     /\ c < Pow2[n]
     /\ SourceDefined(kind, n, value[x], c)
     /\ InstCombined(kind, n, c, shifted[x])
     /\ Define(d, n, SourceResult(kind, n, value[x], c) % Pow2[n],
               IF kind = "shl" THEN c ELSE 0,
               <<WeirdArithmetic(kind, n, c, shifted[x])>>, reg[x])

(* sub 0, x is a mul by -1.                                                *)
Negate(d, x) ==
  /\ ~trapped
  /\ Define(d, bits[x], (-value[x]) % Pow2[bits[x]], 0,
            <<statement("mul", bits[x], Pow2[bits[x]] - 1)>>, reg[x])

SignExtend(d, x, to) ==
  /\ ~trapped
  /\ bits[x] < to
  /\ Define(d, to, SignedValue(value[x], bits[x]) % Pow2[to], 0, visitSExtInst(bits[x]), reg[x])

ZeroExtend(d, x, to) ==
  /\ ~trapped
  /\ bits[x] < to
  /\ Define(d, to, value[x], 0, visitZExtInst, reg[x])

Truncate(d, x, to) ==
  /\ ~trapped
  /\ to < bits[x]
  /\ Define(d, to, value[x] % Pow2[to], 0, visitTruncInst(to), reg[x])

(* A call with the arguments args, sorted by size by PackRegisters, to a   *)
(* function that returns its parameter i.                                  *)
CallPacked(d, args, i) ==
  LET sizes == [k \in DOMAIN args |-> bits[args[k]]]
      words == [k \in DOMAIN args |-> reg[args[k]]]
  IN /\ ~trapped
     /\ \A k \in 1 .. Len(args) - 1 : sizes[k] <= sizes[k + 1]
     /\ Define(d, sizes[i], value[args[i]], 0, <<>>, Passed(sizes, words, i))

Next ==
  \/ \E d, x, y \in Slots, kind \in BopKind \cup CondKind : Operate(kind, d, x, y)
  \/ \E d, x \in Slots, kind \in BopKind, c \in Word : OperateConstant(kind, d, x, c)
  \/ \E d, x \in Slots : Negate(d, x)
  \/ \E d, x \in Slots, to \in SExtTargets : SignExtend(d, x, to)
  \/ \E d, x \in Slots, to \in Widths : ZeroExtend(d, x, to) \/ Truncate(d, x, to)
  \/ \E n \in 1 .. MaxArgs : \E args \in [1 .. n -> Slots], i \in 1 .. n, d \in Slots :
       CallPacked(d, args, i)

Spec == Init /\ [][Next]_vars

-----------------------------------------------------------------------------
TypeOK ==
  /\ bits \in [Slots -> Widths]
  /\ \A s \in Slots : value[s] \in 0 .. Pow2[bits[s]] - 1 /\ shifted[s] \in 0 .. bits[s] - 1
  /\ reg \in [Slots -> Word]
  /\ trapped \in BOOLEAN

(* "All integer registers are zero-extended to 64 bit registers"           *)
(* (Backend.cpp:71): the word in the register of a variable IS its value,  *)
(* whatever instructions, rewritten or not, made it.                       *)
ZeroExtended == ~trapped => reg = value

(* A program that divides by nothing but what the source divides by does   *)
(* not stop: the constants WeirdArithmetic divides by (WeirdArithmetic.cpp *)
(* lines 29-38 and 52-54) are never zero when cut to the type.             *)
NoTrapAdded == ~trapped

=============================================================================
