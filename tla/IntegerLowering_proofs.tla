----------------------- MODULE IntegerLowering_proofs -----------------------
(***************************************************************************)
(* What is proved about IntegerLowering: for words and types of any width  *)
(* the register of a variable holds its value, after every instruction,    *)
(* rewritten or not, and no statement of the machine divides by zero.      *)
(*                                                                         *)
(* The proof is arithmetic.  Powers of two come first, then twos           *)
(* complement, then the bits of a number and the number of a set of bits,  *)
(* which make and, or and xor what they are.  With those each statement of the machine     *)
(* gives what LLVM says (OneOperation), an and with a mask is a rest       *)
(* exactly when WeirdArithmetic says so (MaskIsOnes, AndIsRem), and the    *)
(* arguments of a call come out of the register they were packed in        *)
(* (PassedUnchanged).                                                      *)
(*                                                                         *)
(* The invariant (LoweringInv) adds to the properties that a variable      *)
(* marked as shifted has no bit below the shift: WeirdArithmetic counts    *)
(* these bits as kept.  The one hypothesis is OnlyToWord, an integer is    *)
(* sign extended to a word only; the run signextend shows what happens     *)
(* without it.                                                             *)
(***************************************************************************)
EXTENDS IntegerLowering, Induction, TLAPS

-----------------------------------------------------------------------------
(* Powers of two.                                                          *)
LEMMA Pow2Facts ==
  /\ Pow2[0] = 1
  /\ \A n \in 0 .. WIDTH : Pow2[n] \in Nat \ {0}
  /\ \A n \in 1 .. WIDTH : Pow2[n] = 2 * Pow2[n - 1]
<1>1. WIDTH \in Nat
  BY ArithmeticAssumption
<1>2. PICK p : p = [n \in 0 .. WIDTH |-> IF n = 0 THEN 1 ELSE 2 * p[n - 1]]
  BY <1>1, Pow2Exist
<1>3. Pow2 = [n \in 0 .. WIDTH |-> IF n = 0 THEN 1 ELSE 2 * Pow2[n - 1]]
  BY <1>2 DEF Pow2
<1>4. IsPow2(Pow2, WIDTH)
  BY <1>1, <1>3, Pow2Unfold
<1> QED
  BY <1>4 DEF IsPow2

LEMMA Pow2Type == \A n \in 0 .. WIDTH : Pow2[n] \in Nat \ {0} /\ Pow2[n] \in Nat /\ Pow2[n] >= 1
BY Pow2Facts

LEMMA Pow2Sum ==
  ASSUME NEW m \in 0 .. WIDTH, NEW n \in 0 .. WIDTH, m + n <= WIDTH
  PROVE  Pow2[m + n] = Pow2[m] * Pow2[n]
<1>1. WIDTH \in Nat /\ IsPow2(Pow2, WIDTH)
  BY Pow2Facts, ArithmeticAssumption DEF IsPow2
<1> QED
  BY <1>1, Pow2Plus

LEMMA Pow2Grows ==
  ASSUME NEW m \in 0 .. WIDTH, NEW n \in 0 .. WIDTH, m <= n
  PROVE  /\ Pow2[m] <= Pow2[n]
         /\ m < n => 2 * Pow2[m] <= Pow2[n]
         /\ Pow2[n] = Pow2[m] * Pow2[n - m]
         /\ n - m \in 0 .. WIDTH
<1>1. n - m \in 0 .. WIDTH /\ m + (n - m) = n /\ m + (n - m) <= WIDTH
  BY ArithmeticAssumption
<1>2. Pow2[n] = Pow2[m] * Pow2[n - m]
  BY <1>1, Pow2Sum
<1>3. Pow2[m] \in Nat \ {0} /\ Pow2[n - m] \in Nat \ {0}
  BY <1>1, Pow2Type
<1>4. Pow2[m] <= Pow2[m] * Pow2[n - m]
  BY <1>3
<1>5. ASSUME m < n
      PROVE  2 * Pow2[m] <= Pow2[n]
  <2>1. n - m \in 1 .. WIDTH /\ n - m - 1 \in 0 .. WIDTH
    BY <1>1, <1>5, ArithmeticAssumption
  <2> DEFINE p == Pow2[n - m - 1]
  <2>2. Pow2[n - m] = 2 * p /\ p \in Nat \ {0}
    BY <2>1, Pow2Facts
  <2> HIDE DEF p
  <2>3. Pow2[m] * (2 * p) = 2 * (Pow2[m] * p) /\ Pow2[m] <= Pow2[m] * p
    BY <1>3, <2>2
  <2> QED
    BY <1>2, <1>3, <2>2, <2>3
<1> QED
  BY <1>1, <1>2, <1>4, <1>5

(* What is cut to a word and then to a size is cut to the size.            *)
LEMMA CutTwice ==
  ASSUME NEW a \in Int, NEW m \in 0 .. WIDTH, NEW n \in 0 .. WIDTH, m <= n
  PROVE  (a % Pow2[n]) % Pow2[m] = a % Pow2[m]
<1>1. Pow2[n] = Pow2[m] * Pow2[n - m] /\ n - m \in 0 .. WIDTH
  BY Pow2Grows
<1> QED
  BY <1>1, Pow2Type, ModMod

-----------------------------------------------------------------------------
(* Twos complement.                                                        *)
LEMMA SignedFacts ==
  ASSUME NEW a \in Int, NEW n \in 0 .. WIDTH
  PROVE  /\ SignedValue(a, n) \in Int
         /\ 2 * SignedValue(a, n) < Pow2[n]
         /\ -Pow2[n] <= 2 * SignedValue(a, n)
         /\ SignedValue(a, n) = a % Pow2[n] \/ SignedValue(a, n) = (a % Pow2[n]) - Pow2[n]
<1>1. Pow2[n] \in Nat \ {0}
  BY Pow2Type
<1>2. (a % Pow2[n]) \in 0 .. Pow2[n] - 1
  BY <1>1, DivMod
<1> QED
  BY <1>1, <1>2 DEF SignedValue

(* A number that fits is what its two's complement stands for.             *)
LEMMA SignedOfCut ==
  ASSUME NEW n \in 0 .. WIDTH, NEW s \in Int, 2 * s < Pow2[n], -Pow2[n] <= 2 * s
  PROVE  SignedValue(s % Pow2[n], n) = s
<1> DEFINE M == Pow2[n]
<1>1. M \in Nat \ {0}
  BY Pow2Type
<1> HIDE DEF M
<1>2. s % M = IF s >= 0 THEN s ELSE s + M
  <2>1. CASE s >= 0
    <3>1. s \in 0 .. M - 1
      BY <2>1, <1>1 DEF M
    <3> QED
      BY <3>1, <2>1, <1>1, ModSmall
  <2>2. CASE s < 0
    <3>1. s + M \in 0 .. M - 1 /\ -1 \in Int
      BY <2>2, <1>1 DEF M
    <3>2. s = M * (-1) + (s + M)
      BY <1>1
    <3>3. s % M = s + M
      BY <3>1, <3>2, <1>1, DivUnique
    <3> QED
      BY <3>3, <2>2
  <2> QED
    BY <2>1, <2>2
<1>3. (s % M) \in 0 .. M - 1
  BY <1>1, DivMod
<1>4. (s % M) % M = s % M
  BY <1>1, <1>3, ModSmall
<1>5. SignedValue(s % M, n) = LET low == s % M IN IF 2 * low >= M THEN low - M ELSE low
  BY <1>4 DEF SignedValue, M
<1> QED
  BY <1>1, <1>2, <1>5 DEF M

(* Sign extension to a word and back.                                      *)
LEMMA SignedOfWord ==
  ASSUME NEW a \in Int, NEW n \in 0 .. WIDTH
  PROVE  SignedValue(SignedValue(a, n) % WordRange, WIDTH) = SignedValue(a, n)
<1>1. WIDTH \in 0 .. WIDTH
  BY ArithmeticAssumption
<1>2. Pow2[n] <= Pow2[WIDTH] /\ Pow2[n] \in Nat /\ Pow2[WIDTH] \in Nat
  BY <1>1, Pow2Grows, Pow2Type
<1> DEFINE s == SignedValue(a, n)
<1>3. s \in Int /\ 2 * s < Pow2[WIDTH] /\ -Pow2[WIDTH] <= 2 * s
  BY <1>2, SignedFacts
<1> HIDE DEF s
<1> QED
  BY <1>1, <1>3, SignedOfCut DEF s, WordRange
-----------------------------------------------------------------------------
(* The bits of a number.                                                   *)
IsOne(a, i) == (a \div Pow2[i]) % 2 = 1

LEMMA OneBitsAre ==
  ASSUME NEW a, NEW n
  PROVE  OneBits(a, n) = {i \in 0 .. n - 1 : IsOne(a, i)}
BY DEF OneBits, IsOne

LEMMA BitOrNot ==
  ASSUME NEW a \in Int, NEW i \in 0 .. WIDTH
  PROVE  ~IsOne(a, i) => (a \div Pow2[i]) % 2 = 0
<1>1. a \div Pow2[i] \in Int
  BY Pow2Type, DivMod
<1> QED
  BY <1>1 DEF IsOne

(* What is added above a bit does not change it.                           *)
LEMMA BitBelow ==
  ASSUME NEW a \in Int, NEW j \in 0 .. WIDTH, NEW i \in 0 .. WIDTH, i < j,
         NEW q \in Int, NEW x \in Int, x = a + Pow2[j] * q
  PROVE  IsOne(x, i) <=> IsOne(a, i)
<1>1. PICK p \in Nat \ {0} : p = Pow2[i]
  BY Pow2Type
<1>2. i + 1 \in 0 .. WIDTH /\ i + 1 \in 1 .. WIDTH /\ i + 1 <= j /\ (i + 1) - 1 = i
  BY ArithmeticAssumption
<1>3. PICK h \in Int : Pow2[j] = Pow2[i + 1] * h
  <2>1. PICK l \in 0 .. WIDTH : l = i + 1 /\ l <= j
    BY <1>2
  <2>2. Pow2[j] = Pow2[l] * Pow2[j - l] /\ j - l \in 0 .. WIDTH
    BY <2>1, Pow2Grows
  <2>3. Pow2[j - l] \in Int
    BY <2>2, Pow2Type
  <2> QED
    BY <2>1, <2>2, <2>3
<1>4. Pow2[i + 1] = 2 * p
  BY <1>1, <1>2, Pow2Facts
<1>5. PICK d \in Int : d = a \div p
  BY DivMod
<1>6. PICK r \in 0 .. p - 1 : a = p * d + r
  BY <1>5, DivMod
<1>7. PICK k \in Int : k = h * q
  OBVIOUS
<1>8. Pow2[j] * q = p * (2 * k)
  BY <1>3, <1>4, <1>7
<1>9. PICK e \in Int : e = d + 2 * k
  OBVIOUS
<1>10. x = p * e + r
  BY <1>6, <1>8, <1>9
<1>11. x \div p = e
  BY <1>10, DivUnique
<1>12. e % 2 = d % 2
  BY <1>9
<1> QED
  BY <1>1, <1>5, <1>11, <1>12 DEF IsOne

(* A number below 2^n has no bit from n on.                                *)
LEMMA NoBitAbove ==
  ASSUME NEW n \in 0 .. WIDTH, NEW a \in 0 .. Pow2[n] - 1, NEW i \in n .. WIDTH
  PROVE  ~IsOne(a, i)
<1>1. i \in 0 .. WIDTH /\ n <= i
  BY ArithmeticAssumption
<1>2. Pow2[n] <= Pow2[i] /\ Pow2[i] \in Nat \ {0} /\ Pow2[n] \in Nat
  BY <1>1, Pow2Grows, Pow2Type
<1>3. a \in 0 .. Pow2[i] - 1
  BY <1>2
<1>4. a \div Pow2[i] = 0
  BY <1>2, <1>3, ModSmall
<1> QED
  BY <1>4 DEF IsOne

(* The bits of a number, from the lowest one up.                           *)
LEMMA ModStep ==
  ASSUME NEW a \in Int, NEW k \in 1 .. WIDTH
  PROVE  a % Pow2[k] = (a % Pow2[k - 1]) + (IF IsOne(a, k - 1) THEN Pow2[k - 1] ELSE 0)
<1>1. k - 1 \in 0 .. WIDTH
  BY ArithmeticAssumption
<1>2. PICK p \in Nat \ {0} : p = Pow2[k - 1]
  BY <1>1, Pow2Type
<1>3. Pow2[k] = 2 * p
  BY <1>2, Pow2Facts
<1>4. PICK d \in Int : d = a \div p
  BY DivMod
<1>5. PICK r \in 0 .. p - 1 : r = a % p
  BY DivMod
<1>6. a = p * d + r
  BY <1>4, <1>5, DivMod
<1>7. PICK h \in Int, b \in 0 .. 1 : b = d % 2 /\ d = 2 * h + b
  OBVIOUS
<1>8. PICK m \in Nat \ {0} : m = 2 * p
  OBVIOUS
<1>9. PICK s \in Int : s = (IF b = 1 THEN p ELSE 0) + r
  OBVIOUS
<1>10. s \in 0 .. m - 1
  BY <1>8, <1>9
<1>11. a = m * h + s
  <2>1. CASE b = 1
    <3>1. p * d = (2 * p) * h + p
      BY <1>7, <2>1
    <3> QED
      BY <1>6, <1>8, <1>9, <2>1, <3>1
  <2>2. CASE b = 0
    <3>1. p * d = (2 * p) * h
      BY <1>7, <2>2
    <3> QED
      BY <1>6, <1>8, <1>9, <2>2, <3>1
  <2> QED
    BY <2>1, <2>2
<1>12. a % m = s
  BY <1>10, <1>11, DivUnique
<1>13. IsOne(a, k - 1) <=> b = 1
  BY <1>2, <1>4, <1>7 DEF IsOne
<1>14. a % Pow2[k] = s
  BY <1>3, <1>8, <1>12
<1>15. a % Pow2[k - 1] = r
  BY <1>2, <1>5
<1> QED
  BY <1>2, <1>9, <1>13, <1>14, <1>15

(* The word with the given bits.                                           *)
IsSum(sum, S) ==
  /\ sum[0] = 0
  /\ \A k \in 1 .. WIDTH : sum[k] = sum[k - 1] + (IF k - 1 \in S THEN Pow2[k - 1] ELSE 0)

LEMMA FromBitsUnfold ==
  ASSUME NEW S
  PROVE  \E sum : IsSum(sum, S) /\ sum[WIDTH] = FromBits(S)
<1> DEFINE step == [k \in 1 .. WIDTH |->
                      [x \in Nat |-> x + (IF k - 1 \in S THEN Pow2[k - 1] ELSE 0)]]
<1>1. WIDTH \in Nat /\ \A k \in 1 .. WIDTH : k - 1 \in 0 .. WIDTH /\ Pow2[k - 1] \in Nat
  BY Pow2Type, ArithmeticAssumption
<1>2. step \in [1 .. WIDTH -> [Nat -> Nat]]
  BY <1>1
<1>3. \A k \in 1 .. WIDTH : \A x \in Nat :
        step[k][x] = x + (IF k - 1 \in S THEN Pow2[k - 1] ELSE 0)
  OBVIOUS
<1> HIDE DEF step
<1>4. 0 \in Nat
  OBVIOUS
<1>5. PICK g \in [0 .. WIDTH -> Nat] : Iterates(g, WIDTH, 0, step)
  BY <1>1, <1>2, <1>4, IterateExists
<1>6. IsSum(g, S)
  <2>1. ASSUME NEW k \in 1 .. WIDTH
        PROVE  g[k] = g[k - 1] + (IF k - 1 \in S THEN Pow2[k - 1] ELSE 0)
    <3>1. g[k - 1] \in Nat
      BY <1>1
    <3>2. g[k] = step[k][g[k - 1]]
      BY <1>5 DEF Iterates
    <3> QED
      BY <1>3, <3>1, <3>2
  <2> QED
    BY <1>5, <2>1 DEF Iterates, IsSum
<1> DEFINE R(h) == [k \in 0 .. WIDTH |->
                      IF k = 0 THEN 0 ELSE h[k - 1] + (IF k - 1 \in S THEN Pow2[k - 1] ELSE 0)]
           sum == CHOOSE h : h = R(h)
<1>7. g = R(g)
  <2>1. \A k \in 0 .. WIDTH :
          g[k] = IF k = 0 THEN 0 ELSE g[k - 1] + (IF k - 1 \in S THEN Pow2[k - 1] ELSE 0)
    <3>1. \A k \in 0 .. WIDTH : k = 0 \/ k \in 1 .. WIDTH
      BY <1>1
    <3> QED
      BY <1>6, <3>1 DEF IsSum
  <2> QED
    BY <2>1
<1>8. sum = R(sum)
  <2> HIDE DEF R
  <2> QED
    BY <1>7
<1>9. FromBits(S) = sum[WIDTH]
  BY DEF FromBits
<1> HIDE DEF sum
<1>10. IsSum(sum, S)
  <2>1. 0 \in 0 .. WIDTH /\ \A k \in 1 .. WIDTH : k \in 0 .. WIDTH /\ k # 0
    BY <1>1
  <2> QED
    BY <1>8, <2>1 DEF IsSum
<1> QED
  BY <1>9, <1>10

(* It is a word, and these are its bits.                                   *)
LEMMA BitsOfSum ==
  ASSUME NEW S, NEW sum, IsSum(sum, S)
  PROVE  \A k \in 0 .. WIDTH :
           /\ sum[k] \in 0 .. Pow2[k] - 1
           /\ \A i \in 0 .. k - 1 : IsOne(sum[k], i) <=> i \in S
<1> DEFINE T == {k \in 0 .. WIDTH : /\ sum[k] \in 0 .. Pow2[k] - 1
                                    /\ \A i \in 0 .. k - 1 : IsOne(sum[k], i) <=> i \in S}
<1>1. WIDTH \in Nat
  BY ArithmeticAssumption
<1>2. 0 \in T
  BY <1>1, Pow2Facts DEF IsSum
<1>3. ASSUME NEW k \in 1 .. WIDTH, k - 1 \in T
      PROVE  k \in T
  <2>1. k - 1 \in 0 .. WIDTH /\ k \in 0 .. WIDTH
    BY <1>1
  <2>2. PICK p \in Nat \ {0} : p = Pow2[k - 1]
    BY <2>1, Pow2Type
  <2>3. Pow2[k] = 2 * p
    BY <2>2, Pow2Facts
  <2>4. PICK b \in 0 .. 1 : b = 1 <=> k - 1 \in S
    OBVIOUS
  <2>5. PICK m \in 0 .. p - 1 : m = sum[k - 1] /\ \A i \in 0 .. k - 2 : IsOne(m, i) <=> i \in S
    BY <1>3, <2>2
  <2>6. sum[k] = m + p * b
    BY <2>2, <2>4, <2>5 DEF IsSum
  <2>7. PICK x \in 0 .. 2 * p - 1 : x = m + p * b
    OBVIOUS
  <2>8. \A i \in 0 .. k - 2 : IsOne(x, i) <=> IsOne(m, i)
    <3>1. PICK j \in 0 .. WIDTH : j = k - 1
      BY <2>1
    <3>2. \A i \in 0 .. k - 2 : i \in 0 .. WIDTH /\ i < j
      BY <1>1, <3>1
    <3>3. x = m + Pow2[j] * b
      BY <2>2, <2>7, <3>1
    <3> QED
      BY <3>2, <3>3, BitBelow
  <2>9. IsOne(x, k - 1) <=> b = 1
    <3>1. x \div p = b
      BY <2>7, DivUnique
    <3> QED
      BY <2>2, <3>1 DEF IsOne
  <2>10. \A i \in 0 .. k - 1 : i \in 0 .. k - 2 \/ i = k - 1
    OBVIOUS
  <2>11. \A i \in 0 .. k - 1 : IsOne(x, i) <=> i \in S
    BY <2>4, <2>5, <2>8, <2>9, <2>10
  <2> QED
    BY <2>1, <2>3, <2>6, <2>7, <2>11
<1> HIDE DEF T
<1>4. 0 .. WIDTH \subseteq T
  BY <1>1, <1>2, <1>3, UpTo
<1> QED
  BY <1>4 DEF T

LEMMA FromBitsFacts ==
  ASSUME NEW S
  PROVE  FromBits(S) \in Word /\ OneBits(FromBits(S), WIDTH) = S \cap 0 .. WIDTH - 1
<1>1. PICK sum : IsSum(sum, S) /\ sum[WIDTH] = FromBits(S)
  BY FromBitsUnfold
<1>2. WIDTH \in 0 .. WIDTH
  BY ArithmeticAssumption
<1> QED
  BY <1>1, <1>2, BitsOfSum, OneBitsAre DEF Word, WordRange

(* A number is the word with its bits.                                     *)
LEMMA SumOfBits ==
  ASSUME NEW a \in Int, NEW n \in 0 .. WIDTH
  PROVE  FromBits(OneBits(a, n)) = a % Pow2[n]
<1> DEFINE S == OneBits(a, n)
<1>1. WIDTH \in Nat
  BY ArithmeticAssumption
<1>2. PICK sum : IsSum(sum, S) /\ sum[WIDTH] = FromBits(S)
  BY FromBitsUnfold
<1>3. \A i : i \in S <=> i \in 0 .. n - 1 /\ IsOne(a, i)
  BY OneBitsAre
<1> HIDE DEF S
<1> DEFINE T == {k \in 0 .. WIDTH : sum[k] = a % Pow2[IF k <= n THEN k ELSE n]}
<1>4. 0 \in T
  BY <1>1, <1>2, Pow2Facts DEF IsSum
<1>5. ASSUME NEW k \in 1 .. WIDTH, k - 1 \in T
      PROVE  k \in T
  <2>1. sum[k] = sum[k - 1] + (IF k - 1 \in S THEN Pow2[k - 1] ELSE 0) /\ k \in 0 .. WIDTH
    BY <1>1, <1>2 DEF IsSum
  <2>2. CASE k <= n
    <3>1. sum[k - 1] = a % Pow2[k - 1] /\ (k - 1 \in S <=> IsOne(a, k - 1))
      BY <1>1, <1>3, <1>5, <2>2
    <3>2. sum[k] = a % Pow2[k]
      BY <2>1, <3>1, ModStep
    <3> QED
      BY <2>1, <2>2, <3>2
  <2>3. CASE ~(k <= n)
    <3>1. k - 1 \notin S /\ sum[k - 1] = a % Pow2[n]
      <4>1. k - 1 <= n => k - 1 = n
        BY <1>1, <2>3
      <4> QED
        BY <1>1, <1>3, <1>5, <2>3, <4>1
    <3>2. (a % Pow2[n]) \in Int
      <4>1. PICK p \in Nat \ {0} : p = Pow2[n]
        BY Pow2Type
      <4>2. (a % p) \in Int
        BY DivMod
      <4> QED
        BY <4>1, <4>2
    <3> QED
      BY <2>1, <2>3, <3>1, <3>2
  <2> QED
    BY <2>2, <2>3
<1> HIDE DEF T
<1>6. 0 .. WIDTH \subseteq T
  BY <1>1, <1>4, <1>5, UpTo
<1>7. sum[WIDTH] = a % Pow2[n]
  <2>1. WIDTH \in T
    BY <1>1, <1>6
  <2>2. WIDTH <= n => n = WIDTH
    BY <1>1
  <2> QED
    BY <2>1, <2>2 DEF T
<1> QED
  BY <1>2, <1>7 DEF S

(* A number of n bits has no others.                                       *)
LEMMA BitsOfSize ==
  ASSUME NEW n \in 0 .. WIDTH, NEW a \in 0 .. Pow2[n] - 1
  PROVE  OneBits(a, WIDTH) = OneBits(a, n)
<1>1. WIDTH \in Nat
  BY ArithmeticAssumption
<1>2. \A i \in 0 .. WIDTH - 1 : i \in 0 .. n - 1 \/ i \in n .. WIDTH
  BY <1>1
<1>3. \A i \in 0 .. n - 1 : i \in 0 .. WIDTH - 1
  BY <1>1
<1> QED
  BY <1>2, <1>3, NoBitAbove, OneBitsAre

LEMMA NoBits == OneBits(0, WIDTH) = {} /\ FromBits({}) = 0
<1>1. 0 \in 0 .. WIDTH
  BY ArithmeticAssumption
<1>2. 0 \in 0 .. Pow2[0] - 1
  BY Pow2Facts
<1>3. OneBits(0, WIDTH) = OneBits(0, 0)
  BY <1>1, <1>2, BitsOfSize
<1>4. OneBits(0, 0) = {}
  BY OneBitsAre
<1>5. FromBits(OneBits(0, 0)) = 0 % Pow2[0]
  BY <1>1, SumOfBits
<1>6. 0 % Pow2[0] = 0
  BY Pow2Facts
<1> QED
  BY <1>3, <1>4, <1>5, <1>6

(* The bits of a number that was cut.                                      *)
LEMMA BitsOfMod ==
  ASSUME NEW n \in 0 .. WIDTH, NEW a \in Int
  PROVE  OneBits(a % Pow2[n], WIDTH) = OneBits(a, n)
<1>1. PICK p \in Nat \ {0} : p = Pow2[n]
  BY Pow2Type
<1>2. PICK q \in Int : q = a \div p
  BY DivMod
<1>3. PICK r \in 0 .. p - 1 : r = a % p
  BY DivMod
<1>4. a = r + Pow2[n] * q
  <2>1. a = p * q + r
    BY <1>2, <1>3, DivMod
  <2> QED
    BY <1>1, <2>1
<1>5. OneBits(r, WIDTH) = OneBits(r, n)
  BY <1>1, BitsOfSize
<1>6. \A i \in 0 .. n - 1 : IsOne(a, i) <=> IsOne(r, i)
  <2>1. \A i \in 0 .. n - 1 : i \in 0 .. WIDTH /\ i < n
    BY ArithmeticAssumption
  <2> QED
    BY <1>4, <2>1, BitBelow
<1> QED
  BY <1>1, <1>5, <1>6, <1>3, OneBitsAre

LEMMA BitsOfOnes ==
  ASSUME NEW n \in 0 .. WIDTH
  PROVE  OneBits(Pow2[n] - 1, WIDTH) = 0 .. n - 1
<1>1. Pow2[n] - 1 \in 0 .. Pow2[n] - 1 /\ Pow2[n] \in Nat
  BY Pow2Type
<1>2. OneBits(Pow2[n] - 1, WIDTH) = OneBits(Pow2[n] - 1, n)
  BY <1>1, BitsOfSize
<1>3. ASSUME NEW i \in 0 .. n - 1
      PROVE  IsOne(Pow2[n] - 1, i)
  <2>1. i \in 0 .. WIDTH /\ i < n /\ i <= n
    BY ArithmeticAssumption
  <2>2. PICK p \in Nat \ {0} : p = Pow2[i]
    BY <2>1, Pow2Type
  <2>3. n - i \in 1 .. WIDTH /\ (n - i) - 1 \in 0 .. WIDTH
    BY <2>1, ArithmeticAssumption
  <2>4. PICK h \in Nat \ {0} : Pow2[n - i] = 2 * h
    BY <2>3, Pow2Facts
  <2>5. Pow2[n] = p * (2 * h)
    BY <2>1, <2>2, <2>4, Pow2Grows
  <2>6. PICK e \in Int : e = 2 * h - 1
    OBVIOUS
  <2>7. p * (2 * h) - 1 = p * e + (p - 1)
    BY <2>6
  <2>8. PICK x \in Int : x = Pow2[n] - 1
    BY <1>1
  <2>9. p - 1 \in 0 .. p - 1
    OBVIOUS
  <2>10. x = p * e + (p - 1)
    BY <2>5, <2>7, <2>8
  <2>11. x \div p = e
    BY <2>9, <2>10, DivUnique
  <2>12. e % 2 = 1
    BY <2>6
  <2> QED
    BY <2>2, <2>8, <2>11, <2>12 DEF IsOne
<1> QED
  BY <1>2, <1>3, OneBitsAre

(* The highest bit of a number.                                            *)
LEMMA HighestBit ==
  ASSUME NEW n \in 1 .. WIDTH, NEW a \in Pow2[n - 1] .. Pow2[n] - 1
  PROVE  n - 1 \in OneBits(a, WIDTH)
<1>1. n - 1 \in 0 .. WIDTH /\ n - 1 \in 0 .. WIDTH - 1
  BY ArithmeticAssumption
<1>2. PICK p \in Nat \ {0} : p = Pow2[n - 1]
  BY <1>1, Pow2Type
<1>3. Pow2[n] = 2 * p
  BY <1>2, Pow2Facts
<1>4. a \in Int /\ a - p \in 0 .. p - 1 /\ a = p * 1 + (a - p)
  BY <1>2, <1>3
<1>5. a \div p = 1
  BY <1>4, DivUnique
<1> QED
  BY <1>1, <1>2, <1>5, OneBitsAre DEF IsOne

-----------------------------------------------------------------------------
(* The word that one, two or no statements leave.                          *)
LEMMA RunNone == ASSUME NEW word PROVE Run(<<>>, word) = word /\ ~Traps(<<>>)
<1> DEFINE code == <<>>
           R(h) == [k \in 0 .. Len(code) |->
                      IF k = 0 THEN word
                      ELSE compute(code[k].kind, code[k].size, h[k - 1], code[k].val2)]
           w == CHOOSE h : h = R(h)
<1>1. [k \in 0 .. 0 |-> word] = R([k \in 0 .. 0 |-> word])
  OBVIOUS
<1>2. w = R(w)
  <2> HIDE DEF R
  <2> QED BY <1>1
<1>3. w[0] = word
  <2>1. R(w)[0] = word
    OBVIOUS
  <2> HIDE DEF R, w
  <2> QED BY <2>1, <1>2
<1>4. Run(<<>>, word) = w[0]
  BY DEF Run
<1> QED BY <1>3, <1>4 DEF Traps

LEMMA RunOne ==
  ASSUME NEW word, NEW st
  PROVE  /\ Run(<<st>>, word) = compute(st.kind, st.size, word, st.val2)
         /\ Traps(<<st>>) <=> DividesByZero(st.kind, st.size, st.val2)
<1> DEFINE code == <<st>>
           R(h) == [k \in 0 .. Len(code) |->
                      IF k = 0 THEN word
                      ELSE compute(code[k].kind, code[k].size, h[k - 1], code[k].val2)]
           w == CHOOSE h : h = R(h)
           one == compute(st.kind, st.size, word, st.val2)
           g == [k \in 0 .. 1 |-> IF k = 0 THEN word ELSE one]
<1>0. Len(code) = 1 /\ code[1] = st /\ DOMAIN code = {1}
  OBVIOUS
<1> HIDE DEF code
<1>1. g = R(g)
  <2>1. ASSUME NEW k \in 0 .. 1 PROVE g[k] = R(g)[k]
    <3>1. CASE k = 0
      BY <3>1, <1>0
    <3>2. CASE k = 1
      <4>1. g[0] = word  OBVIOUS
      <4>2. R(g)[1] = compute(code[1].kind, code[1].size, g[0], code[1].val2)
        <5> HIDE DEF g
        <5> QED BY <1>0
      <4> QED BY <3>2, <1>0, <4>1, <4>2
    <3> QED BY <3>1, <3>2
  <2>2. R(g) = [k \in 0 .. 1 |-> R(g)[k]]
    <3> HIDE DEF g
    <3> QED BY <1>0
  <2> QED BY <2>1, <2>2
<1>2. w = R(w)
  <2> HIDE DEF R, g
  <2> QED BY <1>1
<1>3. w[1] = one
  <2>1. R(w)[0] = word /\ R(w)[1] = compute(code[1].kind, code[1].size, w[0], code[1].val2)
    <3> HIDE DEF w
    <3> QED BY <1>0
  <2> HIDE DEF R, w
  <2> QED BY <2>1, <1>2, <1>0
<1>4. Run(<<st>>, word) = w[1]
  BY <1>0 DEF Run, code
<1>5. Traps(code) <=> DividesByZero(st.kind, st.size, st.val2)
  BY <1>0 DEF Traps
<1> QED BY <1>3, <1>4, <1>5 DEF code

LEMMA RunTwo ==
  ASSUME NEW word, NEW st, NEW next
  PROVE  /\ Run(<<st, next>>, word) = compute(next.kind, next.size, Run(<<st>>, word), next.val2)
         /\ Traps(<<st, next>>) <=> Traps(<<st>>) \/ DividesByZero(next.kind, next.size, next.val2)
<1> DEFINE code == <<st, next>>
           R(h) == [k \in 0 .. Len(code) |->
                      IF k = 0 THEN word
                      ELSE compute(code[k].kind, code[k].size, h[k - 1], code[k].val2)]
           w == CHOOSE h : h = R(h)
           one == compute(st.kind, st.size, word, st.val2)
           two == compute(next.kind, next.size, one, next.val2)
           g == [k \in 0 .. 2 |-> IF k = 0 THEN word ELSE IF k = 1 THEN one ELSE two]
<1>0. Len(code) = 2 /\ code[1] = st /\ code[2] = next /\ DOMAIN code = {1, 2}
  OBVIOUS
<1> HIDE DEF code
<1>1. g = R(g)
  <2>1. ASSUME NEW k \in 0 .. 2 PROVE g[k] = R(g)[k]
    <3>1. CASE k = 0
      BY <3>1, <1>0
    <3>2. CASE k # 0
      <4>1. g[0] = word /\ g[1] = one /\ g[2] = two
        <5> HIDE DEF one, two
        <5> QED OBVIOUS
      <4>2. /\ R(g)[1] = compute(code[1].kind, code[1].size, g[0], code[1].val2)
            /\ R(g)[2] = compute(code[2].kind, code[2].size, g[1], code[2].val2)
        <5> HIDE DEF g
        <5> QED BY <1>0
      <4>3. R(g)[1] = one /\ R(g)[2] = two
        <5> HIDE DEF g, R
        <5> QED BY <4>1, <4>2, <1>0
      <4>4. k = 1 \/ k = 2
        BY <3>2
      <4> HIDE DEF g, R
      <4> QED BY <4>4, <4>3, <4>1
    <3> QED BY <3>1, <3>2
  <2>2. R(g) = [k \in 0 .. 2 |-> R(g)[k]]
    <3> HIDE DEF g
    <3> QED BY <1>0
  <2>3. g = [k \in 0 .. 2 |-> g[k]]
    OBVIOUS
  <2> HIDE DEF g, R
  <2> QED BY <2>1, <2>2, <2>3
<1>2. w = R(w)
  <2> HIDE DEF R, g
  <2> QED BY <1>1
<1>3. w[2] = two
  <2>1. /\ R(w)[0] = word /\ R(w)[1] = compute(code[1].kind, code[1].size, w[0], code[1].val2)
        /\ R(w)[2] = compute(code[2].kind, code[2].size, w[1], code[2].val2)
    <3> HIDE DEF w
    <3> QED BY <1>0
  <2> HIDE DEF R, w
  <2> QED BY <2>1, <1>2, <1>0
<1>4. Run(<<st, next>>, word) = w[2]
  BY <1>0 DEF Run, code
<1>5. Traps(code) <=> \/ DividesByZero(st.kind, st.size, st.val2)
                      \/ DividesByZero(next.kind, next.size, next.val2)
  BY <1>0 DEF Traps
<1> QED BY <1>3, <1>4, <1>5, RunOne DEF code

(***************************************************************************)
(* One operation on operands that are values of its size.                  *)
(***************************************************************************)
LEMMA WidthFacts == WIDTH \in Nat \ {0} /\ WIDTH \in 0 .. WIDTH
BY ArithmeticAssumption

(* Cutting to a word first takes nothing that the cut to the size leaves.  *)
LEMMA ComputeCut ==
  ASSUME NEW kind, NEW n \in 0 .. WIDTH, NEW a, NEW b,
         OnWords(kind, get_op1(kind, n, a), get_op2(kind, n, b)) \in Int
  PROVE  compute(kind, n, a, b) =
           OnWords(kind, get_op1(kind, n, a), get_op2(kind, n, b)) % Pow2[n]
<1>1. PICK x \in Int : x = OnWords(kind, get_op1(kind, n, a), get_op2(kind, n, b))
  OBVIOUS
<1>2. (x % Pow2[WIDTH]) % Pow2[n] = x % Pow2[n]
  BY CutTwice, WidthFacts
<1> QED BY <1>1, <1>2 DEF compute, WordRange

(* Operands that fit the size of an operation are taken as they are.       *)
LEMMA UnsignedOperands ==
  ASSUME NEW n \in 1 .. WIDTH, NEW a \in 0 .. Pow2[n] - 1, NEW b \in 0 .. Pow2[n] - 1, NEW kind,
         ~is_signed_op(kind), kind \in ShiftKind => b < n
  PROVE  get_op1(kind, n, a) = a /\ get_op2(kind, n, b) = b
<1>1. n \in 0 .. WIDTH /\ n \in Nat \ {0}
  BY WidthFacts
<1>2. Pow2[n] \in Nat \ {0} /\ a \in Int /\ b \in Int /\ b \in Nat
  BY <1>1, Pow2Type
<1>3. a % Pow2[n] = a /\ b % Pow2[n] = b
  BY <1>2, ModSmall
<1>4. kind \in ShiftKind => b % n = b
  <2>1. b < n => b \in 0 .. n - 1
    BY <1>1, <1>2
  <2> QED BY <2>1, <1>1, ModSmall
<1> QED BY <1>3, <1>4 DEF get_op1, get_op2

LEMMA QuotientType ==
  ASSUME NEW a \in Int, NEW b \in Int, b # 0
  PROVE  Quotient(a, b) \in Int /\ Remainder(a, b) \in Int
<1>1. Magnitude(b) \in Nat \ {0} /\ Magnitude(a) \in Nat
  BY DEF Magnitude
<1>2. PICK q \in Int : q = Magnitude(a) \div Magnitude(b)
  <2>1. Magnitude(a) \div Magnitude(b) \in Int
    BY <1>1, DivMod
  <2> QED BY <2>1
<1>3. PICK k \in Int : k = Quotient(a, b)
  BY <1>2 DEF Quotient
<1>4. PICK m \in Int : m = b * k
  OBVIOUS
<1> QED BY <1>3, <1>4 DEF Remainder

(* A divisor that is not 0 is not 0 with its sign either.                  *)
LEMMA ZeroSigned ==
  ASSUME NEW n \in 1 .. WIDTH, NEW b \in 1 .. Pow2[n] - 1
  PROVE  SignedValue(b, n) # 0
<1>1. n \in 0 .. WIDTH /\ Pow2[n] \in Nat \ {0}
  BY WidthFacts, Pow2Type
<1>2. b % Pow2[n] = b
  BY <1>1, ModSmall
<1> QED BY <1>1, <1>2 DEF SignedValue

(* The operands of a signed operation are sign extended to words.          *)
LEMMA SignedOperands ==
  ASSUME NEW n \in 1 .. WIDTH, NEW a \in 0 .. Pow2[n] - 1, NEW b \in 0 .. Pow2[n] - 1, NEW kind,
         is_signed_op(kind), kind \in ShiftKind => b < n
  PROVE  /\ SignedValue(get_op1(kind, n, a), WIDTH) = SignedValue(a, n)
         /\ kind \in ShiftKind => get_op2(kind, n, b) = b
         /\ kind \notin ShiftKind => SignedValue(get_op2(kind, n, b), WIDTH) = SignedValue(b, n)
         /\ kind \notin ShiftKind /\ get_op2(kind, n, b) = 0 => b = 0
<1>1. n \in 0 .. WIDTH /\ n \in Nat \ {0} /\ a \in Int /\ b \in Int /\ b \in Nat
  BY WidthFacts, Pow2Type
<1>2. b < n => b % n = b
  <2>1. b < n => b \in 0 .. n - 1
    BY <1>1
  <2> QED BY <2>1, <1>1, ModSmall
<1>3. /\ SignedValue(SignedValue(a, n) % WordRange, WIDTH) = SignedValue(a, n)
      /\ SignedValue(SignedValue(b, n) % WordRange, WIDTH) = SignedValue(b, n)
  BY <1>1, SignedOfWord
<1>4. SignedValue(b, n) % WordRange = 0 => b = 0
  <2> SUFFICES ASSUME SignedValue(b, n) % WordRange = 0, b # 0 PROVE FALSE
    OBVIOUS
  <2>1. SignedValue(0, WIDTH) = 0
    BY WidthFacts, Pow2Type, ModSmall DEF SignedValue
  <2>2. SignedValue(b, n) # 0
    BY <1>1, ZeroSigned
  <2> QED BY <2>1, <2>2, <1>3
<1> QED BY <1>2, <1>3, <1>4 DEF get_op1, get_op2

LEMMA ConditionMod == ASSUME NEW n \in 1 .. WIDTH, NEW p PROVE Bit(p) % Pow2[n] = Bit(p) /\ Bit(p) \in Int
<1>1. n - 1 \in 0 .. WIDTH /\ Pow2[n] = 2 * Pow2[n - 1] /\ Pow2[n - 1] \in Nat \ {0}
  BY WidthFacts, Pow2Facts
<1>2. Pow2[n] \in Nat \ {0} /\ 0 \in 0 .. Pow2[n] - 1 /\ 1 \in 0 .. Pow2[n] - 1
  BY <1>1
<1> QED BY <1>2, ModSmall DEF Bit

LEMMA SignedFit == ASSUME NEW n \in 1 .. WIDTH, NEW a \in Int PROVE SignedValue(a, n) \in Int
BY SignedFacts, WidthFacts

(* Both sides do the same operation; the word it is done on loses nothing. *)
LEMMA OneOperation ==
  ASSUME NEW kind \in BopKind \cup CondKind, NEW n \in 1 .. WIDTH,
         NEW a \in 0 .. Pow2[n] - 1, NEW b \in 0 .. Pow2[n] - 1,
         SourceDefined(kind, n, a, b)
  PROVE  /\ ~DividesByZero(kind, n, b)
         /\ compute(kind, n, a, b) = SourceResult(kind, n, a, b) % Pow2[n]
         /\ SourceResult(kind, n, a, b) \in Int
         /\ kind \in CondKind => SourceResult(kind, n, a, b) \in {0, 1}
<1> DEFINE op1 == get_op1(kind, n, a)
           op2 == get_op2(kind, n, b)
           sa == SignedValue(a, n)
           sb == SignedValue(b, n)
<1>1. n \in 0 .. WIDTH /\ n \in Nat \ {0} /\ a \in Nat /\ b \in Nat
  BY WidthFacts, Pow2Type
<1>2. kind \in ShiftKind => b < n /\ b \in 0 .. WIDTH /\ Pow2[b] \in Nat \ {0}
  BY <1>1, WidthFacts, Pow2Type DEF SourceDefined
<1>3. kind \in DivKind => b # 0 /\ sb # 0
  BY <1>1, ZeroSigned DEF SourceDefined
<1>4. sa \in Int /\ sb \in Int
  BY SignedFit, <1>1
<1>5. ~is_signed_op(kind) => op1 = a /\ op2 = b
  BY UnsignedOperands, <1>2
<1>6. is_signed_op(kind) =>
        /\ SignedValue(op1, WIDTH) = sa
        /\ kind \in ShiftKind => op2 = b
        /\ kind \notin ShiftKind => SignedValue(op2, WIDTH) = sb
        /\ kind \notin ShiftKind /\ op2 = 0 => b = 0
  BY SignedOperands, <1>2
<1>7. ~DividesByZero(kind, n, b)
  <2>1. DivKind \cap ShiftKind = {}
    BY DEF DivKind, ShiftKind
  <2> HIDE DEF op1, op2
  <2> QED BY <2>1, <1>3, <1>5, <1>6 DEF DividesByZero, op2
<1>8. OneBits(a, WIDTH) = OneBits(a, n) /\ OneBits(b, WIDTH) = OneBits(b, n)
  BY <1>1, BitsOfSize
<1>9. OnWords(kind, op1, op2) = SourceResult(kind, n, a, b)
  <2> HIDE DEF op1, op2
  <2>1. CASE is_signed_op(kind)
    <3>1. /\ SignedValue(op1, WIDTH) = sa
          /\ kind \in ShiftKind => op2 = b
          /\ kind \notin ShiftKind => SignedValue(op2, WIDTH) = sb
      BY <2>1, <1>6
    <3>2. CASE kind = "ashr"
      BY <3>1, <3>2 DEF OnWords, SourceResult, ShiftKind
    <3>3. CASE kind \in {"sdiv", "srem"}
      BY <3>1, <3>3 DEF OnWords, SourceResult, ShiftKind
    <3>4. CASE kind \in {"sgt", "sge", "slt", "sle"}
      BY <3>1, <3>4 DEF OnWords, SourceResult, ShiftKind
    <3> QED BY <3>2, <3>3, <3>4, <2>1 DEF is_signed_op
  <2>2. CASE ~is_signed_op(kind)
    <3>1. op1 = a /\ op2 = b
      BY <2>2, <1>5
    <3>2. CASE kind \in {"shl", "lshr"}
      BY <3>1, <3>2 DEF OnWords, SourceResult
    <3>3. CASE kind \in {"and", "or", "xor"}
      BY <3>1, <3>3, <1>8 DEF OnWords, SourceResult
    <3>4. CASE kind \in {"add", "sub", "mul", "udiv", "urem"}
      BY <3>1, <3>4 DEF SourceResult
    <3>5. CASE kind \in {"eq", "ne", "ugt", "uge", "ult", "ule"}
      BY <3>1, <3>5 DEF SourceResult
    <3> QED BY <3>2, <3>3, <3>4, <3>5, <2>2
             DEF is_signed_op, BopKind, CondKind, DivKind, ShiftKind
  <2> QED BY <2>1, <2>2
<1>10. SourceResult(kind, n, a, b) \in Int /\ (kind \in CondKind => SourceResult(kind, n, a, b) \in {0, 1})
  <2> HIDE DEF sa, sb
  <2>1. CASE kind \in {"udiv", "urem"}
    <3>1. b \in Nat \ {0}
      BY <2>1, <1>3, <1>1 DEF DivKind
    <3>2. a \div b \in Int /\ a % b \in Int
      BY <3>1, <1>1, DivMod
    <3> QED BY <3>2, <2>1 DEF SourceResult, OnWords, CondKind
  <2>2. CASE kind \in {"sdiv", "srem"}
    <3>1. Quotient(sa, sb) \in Int /\ Remainder(sa, sb) \in Int
      BY <2>2, <1>3, <1>4, QuotientType DEF DivKind
    <3> QED BY <3>1, <2>2 DEF SourceResult, CondKind, sa, sb
  <2>3. CASE kind \in ShiftKind
    <3>1. PICK p \in Nat \ {0} : p = Pow2[b]
      BY <2>3, <1>2
    <3>2. a * p \in Int /\ a \div p \in Int /\ sa \div p \in Int
      BY <1>1, <1>4
    <3> QED BY <3>1, <3>2, <2>3 DEF SourceResult, CondKind, sa, sb, ShiftKind
  <2>4. CASE kind \in {"and", "or", "xor"}
    <3>1. \A S : FromBits(S) \in Int
      BY FromBitsFacts, WidthFacts, Pow2Type DEF Word, WordRange
    <3> QED BY <3>1, <2>4 DEF SourceResult, CondKind
  <2>5. CASE kind \in {"add", "sub", "mul"}
    <3>1. a + b \in Int /\ a - b \in Int /\ a * b \in Int
      BY <1>1
    <3> QED BY <3>1, <2>5 DEF SourceResult, CondKind, OnWords
  <2>6. CASE kind \in CondKind
    <3>1. CASE kind \in {"sgt", "sge", "slt", "sle"}
      BY <3>1 DEF SourceResult, Bit
    <3>2. CASE kind \in {"eq", "ne", "ugt", "uge", "ult", "ule"}
      BY <3>2 DEF SourceResult, OnWords, Bit
    <3> QED BY <3>1, <3>2, <2>6 DEF CondKind
  <2> QED BY <2>1, <2>2, <2>3, <2>4, <2>5, <2>6 DEF BopKind, DivKind, ShiftKind
<1>11. compute(kind, n, a, b) = OnWords(kind, op1, op2) % Pow2[n]
  <2>1. OnWords(kind, op1, op2) \in Int
    BY <1>9, <1>10
  <2> QED BY <2>1, <1>1, ComputeCut
<1> QED BY <1>7, <1>9, <1>10, <1>11

(* WeirdBoolean changes no result: a bit times a bit is their and.         *)
LEMMA WeirdOperation ==
  ASSUME NEW kind \in BopKind \cup CondKind, NEW n \in 1 .. WIDTH,
         NEW a \in 0 .. Pow2[n] - 1, NEW b \in 0 .. Pow2[n] - 1,
         SourceDefined(kind, n, a, b),
         NEW low, low = IF kind \in CondKind THEN 1 ELSE n
  PROVE  /\ ~DividesByZero(WeirdBoolean(kind, n), n, b)
         /\ compute(WeirdBoolean(kind, n), n, a, b) = SourceResult(kind, n, a, b) % Pow2[low]
         /\ SourceResult(kind, n, a, b) \in Int
<1>0. n \in 0 .. WIDTH /\ n \in Nat \ {0} /\ a \in Nat /\ b \in Nat /\ 1 \in 1 .. WIDTH
  BY WidthFacts, Pow2Type
<1>1. SourceResult(kind, n, a, b) \in Int
  BY OneOperation
<1>2. CASE kind = "and" /\ n = 1
  <2>1. Pow2[1] = 2
    BY Pow2Facts, <1>0
  <2>2. a \in {0, 1} /\ b \in {0, 1}
    BY <2>1, <1>2, <1>0
  <2>3. "mul" \in BopKind \cup CondKind /\ SourceDefined("mul", n, a, b)
    BY DEF SourceDefined, BopKind, DivKind, ShiftKind
  <2>4. /\ ~DividesByZero("mul", n, b)
        /\ compute("mul", n, a, b) = SourceResult("mul", n, a, b) % Pow2[n]
    BY <2>3, OneOperation
  <2>5. SourceResult("mul", n, a, b) = a * b
    BY DEF SourceResult, OnWords
  <2>6. FromBits(OneBits(a, n) \cap OneBits(b, n)) = a * b
    <3>1. OneBits(0, n) = {} /\ FromBits({}) = 0
      <4>1. 0 \in 0 .. Pow2[n] - 1
        BY <2>1, <1>2
      <4> QED BY NoBits, BitsOfSize, <1>0, <4>1
    <3>2. FromBits(OneBits(1, n)) = 1
      <4>1. FromBits(OneBits(1, n)) = 1 % Pow2[n]
        BY <1>0, SumOfBits
      <4> QED BY <4>1, <2>1, <1>2
    <3>3. CASE a = 0 \/ b = 0
      <4>1. OneBits(a, n) \cap OneBits(b, n) = {}
        BY <3>1, <3>3
      <4>2. a * b = 0
        BY <3>3, <1>0
      <4> QED BY <4>1, <4>2, <3>1
    <3>4. CASE a = 1 /\ b = 1
      <4>1. OneBits(a, n) \cap OneBits(b, n) = OneBits(1, n)
        BY <3>4
      <4>2. a * b = 1
        BY <3>4
      <4> QED BY <4>1, <4>2, <3>2
    <3> QED BY <3>3, <3>4, <2>2
  <2>7. SourceResult(kind, n, a, b) = a * b
    BY <2>6, <1>2 DEF SourceResult
  <2>8. low = n /\ WeirdBoolean(kind, n) = "mul"
    BY <1>2 DEF CondKind, WeirdBoolean
  <2> QED BY <2>4, <2>5, <2>7, <2>8, <1>1
<1>3. CASE ~(kind = "and" /\ n = 1)
  <2>1. WeirdBoolean(kind, n) = kind
    BY <1>3 DEF WeirdBoolean
  <2>2. CASE kind \in CondKind
    <3>1. PICK x \in {0, 1} : x = SourceResult(kind, n, a, b)
      BY <2>2, OneOperation
    <3>2. x % Pow2[n] = x /\ x % Pow2[1] = x
      <4>1. x = Bit(x = 1)
        BY DEF Bit
      <4> QED BY <4>1, ConditionMod, <1>0
    <3> QED BY <3>1, <3>2, <2>1, <2>2, OneOperation, <1>1
  <2>3. CASE kind \notin CondKind
    BY <2>1, <2>3, OneOperation
  <2> QED BY <2>2, <2>3
<1> QED BY <1>2, <1>3

(* The mask has the bits of the constant and those below the shift.        *)
LEMMA AndMaskFacts ==
  ASSUME NEW n \in 1 .. WIDTH, NEW c \in 0 .. Pow2[n] - 1, NEW low \in 0 .. n - 1,
         NEW mask, mask = AndMask(c, low)
  PROVE  /\ mask \in 0 .. Pow2[n] - 1
         /\ OneBits(mask, WIDTH) = OneBits(c, WIDTH) \cup 0 .. low - 1
<1>0. /\ n \in 0 .. WIDTH /\ n \in Nat \ {0} /\ WIDTH \in 1 .. WIDTH /\ WIDTH \in 0 .. WIDTH
      /\ low \in 0 .. WIDTH /\ WIDTH \in Nat
  BY WidthFacts
<1>1. c \in Word /\ Pow2[low] - 1 \in Word /\ c \in Nat
  <2>1. Pow2[n] <= Pow2[WIDTH] /\ Pow2[low] <= Pow2[WIDTH]
    BY <1>0, Pow2Grows
  <2>2. Pow2[n] \in Nat /\ Pow2[WIDTH] \in Nat /\ Pow2[low] \in Nat \ {0}
    BY <1>0, Pow2Type
  <2> QED BY <2>1, <2>2 DEF Word, WordRange
<1> DEFINE S == OneBits(c, WIDTH) \cup OneBits(Pow2[low] - 1, WIDTH)
<1>2. mask = FromBits(S) % Pow2[WIDTH]
  <2>1. mask = compute("or", WIDTH, c, Pow2[low] - 1)
    BY RunOne DEF AndMask, statement
  <2>2. "or" \in BopKind \cup CondKind /\ SourceDefined("or", WIDTH, c, Pow2[low] - 1)
    BY DEF BopKind, SourceDefined, DivKind, ShiftKind
  <2>3. compute("or", WIDTH, c, Pow2[low] - 1) = SourceResult("or", WIDTH, c, Pow2[low] - 1) % Pow2[WIDTH]
    BY <2>2, <1>0, <1>1, OneOperation DEF Word, WordRange
  <2>4. SourceResult("or", WIDTH, c, Pow2[low] - 1) = FromBits(S)
    BY DEF SourceResult
  <2> QED BY <2>1, <2>3, <2>4
<1>3. mask = FromBits(S) /\ mask \in Word
  <2>1. FromBits(S) \in 0 .. Pow2[WIDTH] - 1 /\ Pow2[WIDTH] \in Nat \ {0}
    BY FromBitsFacts, <1>0, Pow2Type DEF Word, WordRange
  <2>2. FromBits(S) % Pow2[WIDTH] = FromBits(S)
    BY <2>1, ModSmall
  <2> QED BY <2>1, <2>2, <1>2 DEF Word, WordRange
<1>4. OneBits(c, WIDTH) = OneBits(c, n)
  BY BitsOfSize, <1>0
<1>5. OneBits(Pow2[low] - 1, WIDTH) = 0 .. low - 1
  BY BitsOfOnes, <1>0
<1>6. OneBits(c, n) \subseteq 0 .. n - 1
  BY DEF OneBits
<1>7. S \subseteq 0 .. n - 1 /\ S = OneBits(c, WIDTH) \cup 0 .. low - 1
  BY <1>4, <1>5, <1>6, <1>0
<1>8. S \cap 0 .. WIDTH - 1 = S
  BY <1>7, <1>0
<1>9. OneBits(mask, WIDTH) = S
  BY <1>3, <1>8, FromBitsFacts
<1>10. OneBits(mask, WIDTH) = OneBits(mask, n)
  <2>1. OneBits(mask, WIDTH) = {i \in 0 .. WIDTH - 1 : IsOne(mask, i)}
    BY OneBitsAre
  <2>2. OneBits(mask, n) = {i \in 0 .. n - 1 : IsOne(mask, i)}
    BY OneBitsAre
  <2> HIDE DEF S
  <2> QED BY <2>1, <2>2, <1>9, <1>7, <1>0
<1>11. mask \in Int
  BY <1>3, <1>0, Pow2Type DEF Word, WordRange
<1>12. mask = mask % Pow2[n]
  <2>1. FromBits(OneBits(mask, n)) = mask % Pow2[n]
    BY SumOfBits, <1>11, <1>0
  <2> QED BY <2>1, <1>10, <1>9, <1>3
<1>13. mask \in 0 .. Pow2[n] - 1
  <2>1. PICK p \in Nat \ {0} : p = Pow2[n]
    BY <1>0, Pow2Type
  <2>2. (mask % p) \in 0 .. p - 1
    BY <1>11, <2>1, DivMod
  <2> QED BY <2>1, <2>2, <1>12
<1> QED BY <1>13, <1>9, <1>7

(* A mask that shares no bit with its successor is all ones.               *)
LEMMA MaskIsOnes ==
  ASSUME NEW n \in 1 .. WIDTH, NEW mask \in 0 .. Pow2[n] - 1, mask # Pow2[n] - 1,
         compute("and", WIDTH, mask, (mask + 1) % WordRange) = 0
  PROVE  \E k \in 0 .. n - 1 : mask + 1 = Pow2[k]
<1>0. n \in 0 .. WIDTH /\ n \in Nat \ {0} /\ WIDTH \in 1 .. WIDTH /\ WIDTH \in 0 .. WIDTH /\ WIDTH \in Nat
  BY WidthFacts
<1>1. mask \in Nat /\ mask \in Word /\ mask + 1 \in Word /\ mask + 1 < Pow2[n]
  <2>1. Pow2[n] <= Pow2[WIDTH]
    BY <1>0, Pow2Grows
  <2>2. Pow2[n] \in Nat /\ Pow2[WIDTH] \in Nat
    BY <1>0, Pow2Type
  <2> QED BY <2>1, <2>2 DEF Word, WordRange
<1>2. (mask + 1) % WordRange = mask + 1
  <2>1. WordRange \in Nat \ {0}
    BY <1>0, Pow2Type DEF WordRange
  <2> QED BY <2>1, <1>1, ModSmall DEF Word
<1> DEFINE S == OneBits(mask, WIDTH) \cap OneBits(mask + 1, WIDTH)
<1>3. FromBits(S) = 0
  <2>1. "and" \in BopKind \cup CondKind /\ SourceDefined("and", WIDTH, mask, mask + 1)
    BY DEF BopKind, SourceDefined, DivKind, ShiftKind
  <2>2. compute("and", WIDTH, mask, mask + 1) = SourceResult("and", WIDTH, mask, mask + 1) % Pow2[WIDTH]
    BY <2>1, <1>0, <1>1, OneOperation DEF Word, WordRange
  <2>3. SourceResult("and", WIDTH, mask, mask + 1) = FromBits(S)
    BY DEF SourceResult
  <2>4. FromBits(S) % Pow2[WIDTH] = FromBits(S)
    <3>1. FromBits(S) \in 0 .. Pow2[WIDTH] - 1 /\ Pow2[WIDTH] \in Nat \ {0}
      BY FromBitsFacts, <1>0, Pow2Type DEF Word, WordRange
    <3> QED BY <3>1, ModSmall
  <2> QED BY <2>2, <2>3, <2>4, <1>2
<1>4. S = {}
  <2>1. S \subseteq 0 .. WIDTH - 1
    BY DEF OneBits
  <2>2. S = S \cap 0 .. WIDTH - 1
    BY <2>1
  <2>3. OneBits(FromBits(S), WIDTH) = S \cap 0 .. WIDTH - 1
    BY FromBitsFacts
  <2> HIDE DEF S
  <2> QED BY <2>2, <2>3, <1>3, NoBits
<1> DEFINE T == {j \in Nat : j <= n /\ mask < Pow2[j]}
<1>5. n \in T
  BY <1>0, <1>1, Pow2Type
<1>6. PICK k \in T : \A j \in T : k <= j
  <2>1. T \subseteq Nat /\ T # {}
    BY <1>5
  <2> HIDE DEF T
  <2> QED BY <2>1, LeastNat
<1>7. k \in Nat /\ k <= n /\ mask < Pow2[k] /\ k \in 0 .. WIDTH
  BY <1>6, <1>0
<1>8. mask + 1 = Pow2[k]
  <2>1. CASE k = 0
    BY <2>1, <1>7, <1>1, Pow2Facts
  <2>2. CASE k # 0
    <3>1. k - 1 \in Nat /\ k - 1 <= n /\ k - 1 < k /\ k \in 1 .. WIDTH /\ k - 1 \in 0 .. WIDTH
      BY <2>2, <1>7, <1>0
    <3>2. k - 1 \notin T
      <4> HIDE DEF T
      <4> QED BY <3>1, <1>6, <1>7
    <3>3. Pow2[k - 1] <= mask
      BY <3>2, <3>1, <1>1, Pow2Type
    <3>4. Pow2[k] \in Nat /\ Pow2[k - 1] \in Nat
      BY <1>7, <3>1, Pow2Type
    <3> SUFFICES ASSUME mask + 1 < Pow2[k] PROVE FALSE
      BY <1>7, <1>1, <3>4
    <3>5. mask \in Pow2[k - 1] .. Pow2[k] - 1 /\ mask + 1 \in Pow2[k - 1] .. Pow2[k] - 1
      BY <3>3, <3>4, <1>1
    <3>6. k - 1 \in OneBits(mask, WIDTH) /\ k - 1 \in OneBits(mask + 1, WIDTH)
      BY <3>5, <3>1, HighestBit
    <3> QED BY <3>6, <1>4
  <2> QED BY <2>1, <2>2
<1>9. k # n
  BY <1>8, <1>1
<1> QED BY <1>7, <1>8, <1>9, <1>0

(* An and with such a mask is the rest of the division by its successor.   *)
LEMMA AndIsRem ==
  ASSUME NEW n \in 1 .. WIDTH, NEW a \in 0 .. Pow2[n] - 1, NEW c \in 0 .. Pow2[n] - 1,
         NEW low \in 0 .. n - 1, a % Pow2[low] = 0,
         NEW k \in 0 .. n - 1, AndMask(c, low) + 1 = Pow2[k]
  PROVE  FromBits(OneBits(a, n) \cap OneBits(c, n)) = a % Pow2[k]
<1>0. /\ n \in 0 .. WIDTH /\ n \in Nat \ {0} /\ WIDTH \in 1 .. WIDTH /\ WIDTH \in 0 .. WIDTH
      /\ low \in 0 .. WIDTH /\ WIDTH \in Nat /\ k \in 0 .. WIDTH /\ a \in Int
  BY WidthFacts, Pow2Type
<1>1. PICK mask : mask = AndMask(c, low)
  OBVIOUS
<1>2. mask \in 0 .. Pow2[n] - 1 /\ OneBits(mask, WIDTH) = OneBits(c, WIDTH) \cup 0 .. low - 1
  BY <1>1, AndMaskFacts
<1>3. mask = Pow2[k] - 1
  BY <1>1, <1>2, <1>0, Pow2Type
<1>4. OneBits(c, n) \cup 0 .. low - 1 = 0 .. k - 1
  BY <1>2, <1>3, <1>0, BitsOfOnes, BitsOfSize
<1>5. OneBits(a, low) = {}
  BY <1>0, BitsOfMod, NoBits
<1>6. /\ OneBits(a, low) = {i \in 0 .. low - 1 : IsOne(a, i)}
      /\ OneBits(a, k) = {i \in 0 .. k - 1 : IsOne(a, i)}
      /\ OneBits(a, n) = {i \in 0 .. n - 1 : IsOne(a, i)}
  BY OneBitsAre
<1>7. OneBits(a, n) \cap OneBits(c, n) = OneBits(a, k)
  <2>1. OneBits(a, n) \cap 0 .. low - 1 = {}
    BY <1>5, <1>6, <1>0
  <2>2. OneBits(a, k) = OneBits(a, n) \cap 0 .. k - 1
    BY <1>6, <1>0
  <2> QED BY <2>1, <2>2, <1>4
<1> QED BY <1>7, <1>0, SumOfBits

(* A power of two below the width is not cut.                              *)
LEMMA PowerOfTwoFits ==
  ASSUME NEW n \in 1 .. WIDTH, NEW k \in 0 .. n - 1
  PROVE  /\ PowerOfTwo(n, k) = Pow2[k] /\ Pow2[k] % Pow2[n] = Pow2[k]
         /\ Pow2[k] \in 0 .. Pow2[n] - 1 /\ Pow2[k] # 0
<1>1. n \in 0 .. WIDTH /\ k \in 0 .. WIDTH /\ k < n
  BY WidthFacts
<1>2. 2 * Pow2[k] <= Pow2[n] /\ Pow2[k] \in Nat \ {0} /\ Pow2[n] \in Nat \ {0}
  BY <1>1, Pow2Grows, Pow2Type
<1>3. Pow2[k] \in 0 .. Pow2[n] - 1
  BY <1>2
<1> QED BY <1>2, <1>3, ModSmall DEF PowerOfTwo

(* WeirdArithmetic changes no result and divides by no zero.               *)
LEMMA ConstantOperation ==
  ASSUME NEW kind \in BopKind, NEW n \in 1 .. WIDTH,
         NEW a \in 0 .. Pow2[n] - 1, NEW c \in 0 .. Pow2[n] - 1,
         NEW low \in 0 .. n - 1, a % Pow2[low] = 0,
         SourceDefined(kind, n, a, c), InstCombined(kind, n, c, low),
         NEW st, st = WeirdArithmetic(kind, n, c, low)
  PROVE  /\ ~DividesByZero(st.kind, st.size, st.val2)
         /\ compute(st.kind, st.size, a, st.val2) = SourceResult(kind, n, a, c) % Pow2[n]
         /\ SourceResult(kind, n, a, c) \in Int
<1>0. SourceResult(kind, n, a, c) \in Int
  BY OneOperation
<1>1. /\ \A b \in 0 .. Pow2[n] - 1 : SourceDefined("mul", n, a, b)
      /\ \A b \in 0 .. Pow2[n] - 1 : b # 0 => SourceDefined("udiv", n, a, b) /\ SourceDefined("urem", n, a, b)
      /\ \A b : /\ SourceResult("mul", n, a, b) = a * b
                /\ SourceResult("udiv", n, a, b) = a \div b
                /\ SourceResult("urem", n, a, b) = a % b
      /\ "mul" \in BopKind \cup CondKind /\ "udiv" \in BopKind \cup CondKind
      /\ "urem" \in BopKind \cup CondKind /\ kind \in BopKind \cup CondKind
  BY DEF SourceDefined, SourceResult, OnWords, DivKind, ShiftKind, BopKind
<1> DEFINE mask == AndMask(c, low)
           rest == compute("and", WIDTH, mask, (mask + 1) % WordRange)
<1>2. CASE kind = "and" /\ rest = 0
  <2>1. mask \in 0 .. Pow2[n] - 1 /\ mask # Pow2[n] - 1
    BY AndMaskFacts, <1>2 DEF InstCombined
  <2>2. PICK k \in 0 .. n - 1 : mask + 1 = Pow2[k]
    <3> HIDE DEF mask
    <3> QED BY <2>1, <1>2, MaskIsOnes
  <2>3. FromBits(OneBits(a, n) \cap OneBits(c, n)) = a % Pow2[k]
    BY <2>2, AndIsRem
  <2>4. st = statement("urem", n, Pow2[k])
    <3>1. st = statement("urem", n, (mask + 1) % Pow2[n])
      BY <1>2 DEF WeirdArithmetic
    <3> QED BY <3>1, <2>2, PowerOfTwoFits
  <2>5. /\ ~DividesByZero("urem", n, Pow2[k])
        /\ compute("urem", n, a, Pow2[k]) = SourceResult("urem", n, a, Pow2[k]) % Pow2[n]
    BY <1>1, PowerOfTwoFits, OneOperation
  <2>6. SourceResult(kind, n, a, c) = a % Pow2[k]
    BY <1>2, <2>3 DEF SourceResult
  <2> QED BY <2>4, <2>5, <2>6, <1>0, <1>1 DEF statement
<1>3. CASE kind \in {"shl", "lshr"}
  <2>1. c \in 0 .. n - 1
    BY <1>3 DEF InstCombined, ShiftKind
  <2>2. st = statement(IF kind = "shl" THEN "mul" ELSE "udiv", n, Pow2[c])
    BY <1>3, <2>1, PowerOfTwoFits DEF WeirdArithmetic
  <2>3. /\ ~DividesByZero("mul", n, Pow2[c]) /\ ~DividesByZero("udiv", n, Pow2[c])
        /\ compute("mul", n, a, Pow2[c]) = (a * Pow2[c]) % Pow2[n]
        /\ compute("udiv", n, a, Pow2[c]) = (a \div Pow2[c]) % Pow2[n]
    BY <2>1, <1>1, PowerOfTwoFits, OneOperation
  <2>4. SourceResult(kind, n, a, c) = IF kind = "shl" THEN a * Pow2[c] ELSE a \div Pow2[c]
    BY <1>3 DEF SourceResult
  <2> QED BY <2>2, <2>3, <2>4, <1>0, <1>3 DEF statement
<1>4. CASE ~(kind = "and" /\ rest = 0) /\ kind \notin {"shl", "lshr"}
  <2>1. st = statement(kind, n, c)
    BY <1>4 DEF WeirdArithmetic
  <2> QED BY <2>1, <1>1, OneOperation DEF statement
<1> QED BY <1>2, <1>3, <1>4

-----------------------------------------------------------------------------
(* Negation and the casts.                                                 *)
LEMMA WordOperation ==
  ASSUME NEW kind \in {"mul", "udiv", "urem", "xor"}, NEW n \in 1 .. WIDTH,
         NEW a \in 0 .. Pow2[n] - 1, NEW b \in 0 .. Pow2[n] - 1,
         kind \in {"udiv", "urem"} => b # 0
  PROVE  /\ ~DividesByZero(kind, n, b)
         /\ kind = "mul" => compute(kind, n, a, b) = (a * b) % Pow2[n]
         /\ kind = "udiv" => compute(kind, n, a, b) = (a \div b) % Pow2[n]
         /\ kind = "urem" => compute(kind, n, a, b) = (a % b) % Pow2[n]
         /\ kind = "xor" => compute(kind, n, a, b) =
              FromBits((OneBits(a, n) \ OneBits(b, n)) \cup (OneBits(b, n) \ OneBits(a, n))) % Pow2[n]
<1>1. kind \in BopKind \cup CondKind
  BY DEF BopKind, DivKind
<1>2. SourceDefined(kind, n, a, b)
  BY DEF SourceDefined, DivKind, ShiftKind
<1>3. /\ ~DividesByZero(kind, n, b)
      /\ compute(kind, n, a, b) = SourceResult(kind, n, a, b) % Pow2[n]
  BY <1>1, <1>2, OneOperation
<1>4. /\ kind = "mul" => SourceResult(kind, n, a, b) = a * b
      /\ kind = "udiv" => SourceResult(kind, n, a, b) = a \div b
      /\ kind = "urem" => SourceResult(kind, n, a, b) = a % b
      /\ kind = "xor" => SourceResult(kind, n, a, b) =
           FromBits((OneBits(a, n) \ OneBits(b, n)) \cup (OneBits(b, n) \ OneBits(a, n)))
  BY DEF SourceResult, OnWords
<1> QED BY <1>3, <1>4

LEMMA NegateOperation ==
  ASSUME NEW n \in 1 .. WIDTH, NEW a \in 0 .. Pow2[n] - 1
  PROVE  /\ ~DividesByZero("mul", n, Pow2[n] - 1)
         /\ compute("mul", n, a, Pow2[n] - 1) = (-a) % Pow2[n]
<1>1. PICK p \in Nat \ {0} : p = Pow2[n]
  BY WidthFacts, Pow2Type
<1>2. a \in Int /\ p - 1 \in 0 .. p - 1
  BY <1>1
<1>3. PICK x \in Int : x = a * (p - 1)
  BY <1>1, <1>2
<1>4. PICK y \in Int : y = p * a
  BY <1>1, <1>2
<1>5. x = (-a) + p * a
  <2>1. x = a * p - a
    BY <1>1, <1>2, <1>3
  <2>2. a * p = p * a
    BY <1>1, <1>2
  <2> QED BY <2>1, <2>2, <1>4, <1>2
<1>6. x % p = (-a) % p
  <2>1. -a \in Int
    BY <1>2
  <2> QED BY <2>1, <1>1, <1>2, <1>3, <1>5, ModPlus
<1>7. /\ ~DividesByZero("mul", n, Pow2[n] - 1)
      /\ compute("mul", n, a, Pow2[n] - 1) = (a * (Pow2[n] - 1)) % Pow2[n]
  BY <1>1, <1>2, WordOperation
<1> QED BY <1>1, <1>3, <1>6, <1>7

(* A number fits in that many bits: the shift amount is a word.            *)
LEMMA Pow2Above == \A k \in 0 .. WIDTH : k < Pow2[k]
<1> DEFINE T == {k \in 0 .. WIDTH : k < Pow2[k]}
<1>1. 0 \in T
  BY Pow2Facts, WidthFacts
<1>2. ASSUME NEW k \in 1 .. WIDTH, k - 1 \in T PROVE k \in T
  <2>1. k - 1 < Pow2[k - 1] /\ k \in 0 .. WIDTH /\ k - 1 \in 0 .. WIDTH
    BY <1>2, WidthFacts
  <2>2. Pow2[k] = 2 * Pow2[k - 1] /\ Pow2[k - 1] \in Nat \ {0}
    BY <2>1, Pow2Facts
  <2> QED BY <2>1, <2>2
<1> HIDE DEF T
<1>3. 0 .. WIDTH \subseteq T
  BY <1>1, <1>2, WidthFacts, UpTo
<1> QED BY <1>3 DEF T

(* Up to the sign bit of a word and, with copies of it, down again.        *)
LEMMA SignExtendOperation ==
  ASSUME NEW n \in 1 .. WIDTH, n < WIDTH, NEW a \in 0 .. Pow2[n] - 1
  PROVE  /\ ~Traps(visitSExtInst(n))
         /\ Run(visitSExtInst(n), a) = SignedValue(a, n) % Pow2[WIDTH]
<1>0. /\ n \in 0 .. WIDTH /\ WIDTH \in 1 .. WIDTH /\ WIDTH \in 0 .. WIDTH /\ WIDTH \in Nat
      /\ WIDTH - n \in 1 .. WIDTH - 1 /\ WIDTH - n \in 0 .. WIDTH /\ n + (WIDTH - n) = WIDTH
      /\ WIDTH - n \in 0 .. WIDTH - 1
  BY WidthFacts
<1>1. PICK p \in Nat \ {0} : p = Pow2[n]
  BY <1>0, Pow2Type
<1>2. PICK m \in Nat \ {0} : m = Pow2[WIDTH - n]
  BY <1>0, Pow2Type
<1>3. PICK M \in Nat \ {0} : M = Pow2[WIDTH]
  BY <1>0, Pow2Type
<1>4. M = p * m
  BY <1>0, <1>1, <1>2, <1>3, Pow2Sum
<1>5. a \in 0 .. p - 1 /\ a \in Nat
  BY <1>1
<1>6. PICK x \in Nat : x = a * m
  BY <1>5, <1>2
<1>7. x \in 0 .. M - 1
  <2>0. PICK u \in Nat \ {0} : u = p - a
    BY <1>5, <1>1
  <2>1. u * m >= 1
    BY <2>0, <1>2
  <2>2. u * m = p * m - a * m
    <3>1. p = u + a
      BY <2>0, <1>5, <1>1
    <3>2. (u + a) * m = u * m + a * m
      BY <2>0, <1>5, <1>2
    <3> QED BY <3>1, <3>2, <2>0, <1>5, <1>2
  <2>3. M - x >= 1
    BY <2>1, <2>2, <1>4, <1>6, <1>3
  <2> QED BY <2>3, <1>3, <1>6
<1>8. m \in 0 .. M - 1
  BY <1>2, <1>3, <1>0, PowerOfTwoFits
<1>9. /\ ~DividesByZero("mul", WIDTH, m)
      /\ compute("mul", WIDTH, a, m) = x
  <2>1. a \in 0 .. M - 1
    <3>1. p <= M
      BY <1>1, <1>3, <1>0, Pow2Grows
    <3> QED BY <3>1, <1>5, <1>1, <1>3
  <2>2. ~DividesByZero("mul", WIDTH, m) /\ compute("mul", WIDTH, a, m) = x % M
    BY <2>1, <1>8, <1>3, <1>0, <1>6, WordOperation
  <2>3. x % M = x
    BY <1>7, <1>3, ModSmall
  <2> QED BY <2>2, <2>3
<1>10. PICK s \in Int : s = SignedValue(a, n)
  BY SignedFacts, <1>0, <1>5
<1>11. SignedValue(x, WIDTH) = s * m
  <2>1. x % M = x /\ a % p = a
    BY <1>7, <1>3, <1>5, <1>1, ModSmall
  <2>2. 2 * x >= M <=> 2 * a >= p
    <3>1. PICK d \in Int : d = 2 * a - p
      BY <1>5, <1>1
    <3>2. 2 * x - M = d * m
      <4>1. d * m = 2 * (a * m) - p * m
        BY <3>1, <1>5, <1>1, <1>2
      <4> QED BY <4>1, <1>4, <1>6
    <3>3. d * m >= 0 <=> d >= 0
      BY <3>1, <1>2
    <3> QED BY <3>1, <3>2, <3>3, <1>3, <1>6, <1>5, <1>1
  <2>3. SignedValue(x, WIDTH) = IF 2 * a >= p THEN x - M ELSE x
    BY <2>1, <2>2, <1>3 DEF SignedValue
  <2>4. s = IF 2 * a >= p THEN a - p ELSE a
    BY <2>1, <1>10, <1>1 DEF SignedValue
  <2>5. (a - p) * m = x - M
    <3>1. (a - p) * m = a * m - p * m
      BY <1>5, <1>1, <1>2
    <3> QED BY <3>1, <1>4, <1>6
  <2>6. CASE 2 * a >= p
    BY <2>6, <2>3, <2>4, <2>5
  <2>7. CASE ~(2 * a >= p)
    BY <2>7, <2>3, <2>4, <1>6
  <2> QED BY <2>6, <2>7
<1>12. SignedValue(x, WIDTH) \div m = s
  <2>1. PICK y \in Int : y = s * m
    BY <1>10, <1>2
  <2>2. y = m * s + 0
    BY <2>1, <1>10, <1>2
  <2>3. 0 \in 0 .. m - 1
    BY <1>2
  <2>4. y \div m = s
    BY <2>1, <2>2, <2>3, <1>10, <1>2, DivUnique
  <2> QED BY <2>1, <2>4, <1>11
<1>13. /\ ~DividesByZero("ashr", WIDTH, WIDTH - n)
       /\ compute("ashr", WIDTH, x, WIDTH - n) = s % M
  <2>1. "ashr" \in BopKind \cup CondKind /\ SourceDefined("ashr", WIDTH, x, WIDTH - n)
    BY <1>0 DEF BopKind, ShiftKind, DivKind, SourceDefined
  <2>2. WIDTH - n \in 0 .. Pow2[WIDTH] - 1
    <3>1. WIDTH < Pow2[WIDTH]
      BY Pow2Above, <1>0
    <3> QED BY <3>1, <1>0, Pow2Type
  <2>3. SourceResult("ashr", WIDTH, x, WIDTH - n) = SignedValue(x, WIDTH) \div m
    BY <1>2 DEF SourceResult
  <2> QED BY <2>1, <2>2, <2>3, <1>12, <1>7, <1>3, <1>0, OneOperation
<1> DEFINE one == statement("mul", WIDTH, Pow2[WIDTH - n])
           two == statement("ashr", WIDTH, WIDTH - n)
<1>14. visitSExtInst(n) = <<one, two>>
  BY DEF visitSExtInst
<1>15. /\ one.kind = "mul" /\ one.size = WIDTH /\ one.val2 = m
       /\ two.kind = "ashr" /\ two.size = WIDTH /\ two.val2 = WIDTH - n
  BY <1>2 DEF statement
<1> HIDE DEF one, two
<1>16. Run(<<one>>, a) = x /\ ~Traps(<<one>>)
  BY <1>15, <1>9, RunOne
<1> QED BY <1>14, <1>15, <1>16, <1>13, <1>10, <1>3, RunTwo

LEMMA ZeroExtendOperation ==
  ASSUME NEW n \in 1 .. WIDTH, NEW a \in 0 .. Pow2[n] - 1
  PROVE  ~Traps(visitZExtInst) /\ Run(visitZExtInst, a) = a
<1>0. n \in 0 .. WIDTH /\ WIDTH \in 0 .. WIDTH /\ WIDTH \in 1 .. WIDTH /\ WIDTH - 1 \in 0 .. WIDTH /\ n <= WIDTH
  BY WidthFacts
<1>1. PICK M \in Nat \ {0} : M = Pow2[WIDTH]
  BY <1>0, Pow2Type
<1>2. a \in 0 .. M - 1 /\ a \in Nat
  <2>1. Pow2[n] <= Pow2[WIDTH] /\ Pow2[n] \in Nat
    BY <1>0, Pow2Grows, Pow2Type
  <2> QED BY <2>1, <1>1
<1>3. 1 \in 0 .. M - 1
  <2>1. M = 2 * Pow2[WIDTH - 1] /\ Pow2[WIDTH - 1] \in Nat \ {0}
    BY <1>1, <1>0, Pow2Facts
  <2> QED BY <2>1
<1>4. ~DividesByZero("mul", WIDTH, 1) /\ compute("mul", WIDTH, a, 1) = (a * 1) % M
  BY <1>0, <1>1, <1>2, <1>3, WordOperation
<1>5. (a * 1) % M = a
  <2>1. a * 1 = a
    BY <1>2
  <2> QED BY <2>1, <1>1, <1>2, ModSmall
<1> QED BY <1>4, <1>5, RunOne DEF visitZExtInst, statement

LEMMA TruncateOperation ==
  ASSUME NEW n \in 1 .. WIDTH, NEW a \in 0 .. Pow2[n] - 1, NEW to \in 0 .. n - 1
  PROVE  ~Traps(visitTruncInst(to)) /\ Run(visitTruncInst(to), a) = a % Pow2[to]
<1>0. /\ n \in 0 .. WIDTH /\ WIDTH \in 0 .. WIDTH /\ WIDTH \in 1 .. WIDTH /\ n <= WIDTH
      /\ to \in 0 .. WIDTH - 1 /\ to \in 0 .. WIDTH
  BY WidthFacts
<1>1. PICK M \in Nat \ {0} : M = Pow2[WIDTH]
  BY <1>0, Pow2Type
<1>2. PICK t \in Nat \ {0} : t = Pow2[to]
  BY <1>0, Pow2Type
<1>3. a \in 0 .. M - 1 /\ a \in Nat
  <2>1. Pow2[n] <= Pow2[WIDTH] /\ Pow2[n] \in Nat
    BY <1>0, Pow2Grows, Pow2Type
  <2> QED BY <2>1, <1>1
<1>4. t \in 0 .. M - 1
  BY <1>0, <1>1, <1>2, PowerOfTwoFits
<1>5. ~DividesByZero("urem", WIDTH, t) /\ compute("urem", WIDTH, a, t) = (a % t) % M
  BY <1>0, <1>1, <1>2, <1>3, <1>4, WordOperation
<1>6. (a % t) % M = a % t
  <2>1. (a % t) \in 0 .. t - 1
    <3>1. a \in Int
      BY <1>3
    <3> QED BY <3>1, <1>2, DivMod
  <2>2. (a % t) \in 0 .. M - 1
    BY <2>1, <1>4, <1>1, <1>2
  <2> QED BY <2>2, <1>1, ModSmall
<1> QED BY <1>2, <1>5, <1>6, RunOne DEF visitTruncInst, statement

-----------------------------------------------------------------------------
(* Numbers side by side in a word.  They share no bit: xor is their sum.   *)
LEMMA XorOfParts ==
  ASSUME NEW n \in 1 .. WIDTH, NEW s \in 0 .. n, NEW q \in Nat, NEW b \in 0 .. Pow2[s] - 1,
         NEW a, a = q * Pow2[s], NEW x, x = a + b, x \in 0 .. Pow2[n] - 1
  PROVE  FromBits((OneBits(a, n) \ OneBits(b, n)) \cup (OneBits(b, n) \ OneBits(a, n))) = x
<1>0. n \in 0 .. WIDTH /\ s \in 0 .. WIDTH /\ n \in Nat /\ s \in Nat /\ WIDTH \in Nat
  BY WidthFacts
<1>1. PICK p \in Nat \ {0} : p = Pow2[s]
  BY <1>0, Pow2Type
<1>2. a \in Nat /\ a = p * q /\ b \in 0 .. p - 1 /\ b \in Int /\ x = b + p * q /\ x \in Int /\ a \in Int
  <2>1. q * p = p * q /\ q * p \in Nat
    BY <1>1
  <2> QED BY <2>1, <1>1
<1>3. a \div p = q /\ x \div p = q
  <2>1. a = p * q + 0 /\ x = p * q + b /\ 0 \in 0 .. p - 1
    <3>1. PICK y \in Nat : y = p * q
      BY <1>1
    <3> QED BY <3>1, <1>1, <1>2
  <2> QED BY <2>1, <1>2, <1>1, DivUnique
<1>4. ASSUME NEW i \in 0 .. n - 1, i < s
      PROVE  ~IsOne(a, i) /\ (IsOne(x, i) <=> IsOne(b, i))
  <2>1. i \in 0 .. WIDTH
    BY <1>0
  <2>2. IsOne(x, i) <=> IsOne(b, i)
    BY <2>1, <1>0, <1>2, <1>1, <1>4, BitBelow
  <2>3. IsOne(a, i) <=> IsOne(0, i)
    <3>1. a = 0 + Pow2[s] * q
      BY <1>1, <1>2
    <3> QED BY <3>1, <2>1, <1>0, <1>2, <1>4, BitBelow
  <2>4. ~IsOne(0, i)
    <3>1. OneBits(0, WIDTH) = {}
      BY NoBits
    <3>2. i \in 0 .. WIDTH - 1
      BY <1>0
    <3> QED BY <3>1, <3>2, OneBitsAre
  <2> QED BY <2>2, <2>3, <2>4
<1>5. ASSUME NEW i \in 0 .. n - 1, s <= i
      PROVE  ~IsOne(b, i) /\ (IsOne(x, i) <=> IsOne(a, i))
  <2>1. i \in 0 .. WIDTH /\ i \in s .. WIDTH
    BY <1>0, <1>5
  <2>2. Pow2[i] = Pow2[s] * Pow2[i - s] /\ i - s \in 0 .. WIDTH
    BY <2>1, <1>0, <1>5, Pow2Grows
  <2>3. PICK r \in Nat \ {0} : r = Pow2[i - s]
    BY <2>2, Pow2Type
  <2>4. PICK d \in Nat \ {0} : d = Pow2[i]
    BY <2>1, Pow2Type
  <2>5. d = p * r
    BY <2>2, <2>3, <2>4, <1>1
  <2>6. x \div d = q \div r /\ a \div d = q \div r
    <3>1. x \div d = (x \div p) \div r
      BY <2>5, <1>2, <2>3, DivDiv
    <3>2. a \div d = (a \div p) \div r
      BY <2>5, <1>2, <2>3, DivDiv
    <3> QED BY <3>1, <3>2, <1>3
  <2>7. IsOne(x, i) <=> IsOne(a, i)
    BY <2>6, <2>4 DEF IsOne
  <2> QED BY <2>1, <2>7, <1>0, NoBitAbove
<1>6. OneBits(x, n) = (OneBits(a, n) \ OneBits(b, n)) \cup (OneBits(b, n) \ OneBits(a, n))
  <2>1. ASSUME NEW i \in 0 .. n - 1
        PROVE  IsOne(x, i) <=> ~(IsOne(a, i) <=> IsOne(b, i))
    <3>1. i < s \/ s <= i
      BY <1>0
    <3> QED BY <3>1, <1>4, <1>5
  <2>2. /\ OneBits(x, n) = {i \in 0 .. n - 1 : IsOne(x, i)}
        /\ OneBits(a, n) = {i \in 0 .. n - 1 : IsOne(a, i)}
        /\ OneBits(b, n) = {i \in 0 .. n - 1 : IsOne(b, i)}
    BY OneBitsAre
  <2> QED BY <2>1, <2>2
<1>7. FromBits(OneBits(x, n)) = x % Pow2[n]
  BY <1>0, <1>2, SumOfBits
<1>8. x % Pow2[n] = x
  <2>1. Pow2[n] \in Nat \ {0}
    BY <1>0, Pow2Type
  <2> QED BY <2>1, ModSmall
<1> QED BY <1>6, <1>7, <1>8

-----------------------------------------------------------------------------
(* The sizes of the arguments.                                             *)
IsSizes(sizes, N) == Len(sizes) = N /\ \A k \in 1 .. N : sizes[k] \in 1 .. WIDTH

IsSizeSum(sum, sizes, N) ==
  /\ sum \in [0 .. N -> Nat] /\ sum[0] = 0
  /\ \A k \in 1 .. N : sum[k] = sum[k - 1] + sizes[k]
  /\ \A from, to \in 1 .. N : PackedSize(sizes, from, to) = sum[to] - sum[from - 1]

LEMMA SizeSumExists ==
  ASSUME NEW N \in Nat, NEW sizes, IsSizes(sizes, N)
  PROVE  \E sum : IsSizeSum(sum, sizes, N)
<1> DEFINE R(h) == [k \in 0 .. Len(sizes) |-> IF k = 0 THEN 0 ELSE h[k - 1] + sizes[k]]
           sum == CHOOSE h : h = R(h)
           step == [k \in 1 .. N |-> [x \in Nat |-> x + sizes[k]]]
<1>0. Len(sizes) = N /\ \A k \in 1 .. N : sizes[k] \in Nat /\ k \in 0 .. N /\ k # 0 /\ k - 1 \in 0 .. N
  BY DEF IsSizes
<1>1. step \in [1 .. N -> [Nat -> Nat]] /\ \A k \in 1 .. N : \A x \in Nat : step[k][x] = x + sizes[k]
  BY <1>0
<1> HIDE DEF step
<1>2. PICK g \in [0 .. N -> Nat] : Iterates(g, N, 0, step)
  BY <1>1, IterateExists
<1>3. g = R(g)
  <2>1. ASSUME NEW k \in 0 .. N PROVE g[k] = IF k = 0 THEN 0 ELSE g[k - 1] + sizes[k]
    <3>1. CASE k = 0
      BY <3>1, <1>2 DEF Iterates
    <3>2. CASE k # 0
      <4>1. k \in 1 .. N /\ k - 1 \in 0 .. N
        BY <3>2
      <4>2. g[k] = step[k][g[k - 1]] /\ g[k - 1] \in Nat
        BY <4>1, <1>2 DEF Iterates
      <4> QED BY <4>1, <4>2, <3>2, <1>1
    <3> QED BY <3>1, <3>2
  <2> QED BY <2>1, <1>0
<1>4. sum = R(sum)
  <2> HIDE DEF R
  <2> QED BY <1>3
<1>5. sum[0] = 0 /\ \A k \in 1 .. N : sum[k] = sum[k - 1] + sizes[k]
  <2>1. R(sum)[0] = 0 /\ \A k \in 1 .. N : R(sum)[k] = sum[k - 1] + sizes[k]
    <3> HIDE DEF sum
    <3> QED BY <1>0
  <2> HIDE DEF R, sum
  <2> QED BY <2>1, <1>4
<1>6. sum = [k \in 0 .. N |-> sum[k]]
  <2>1. R(sum) = [k \in 0 .. N |-> R(sum)[k]]
    <3> HIDE DEF sum
    <3> QED BY <1>0
  <2> HIDE DEF R, sum
  <2> QED BY <2>1, <1>4
<1>7. \A from, to \in 1 .. N : PackedSize(sizes, from, to) = sum[to] - sum[from - 1]
  BY DEF PackedSize
<1> HIDE DEF sum, R
<1> DEFINE T == {k \in 0 .. N : sum[k] \in Nat}
<1>8. 0 .. N \subseteq T
  <2>1. 0 \in T /\ \A k \in 1 .. N : k - 1 \in T => k \in T
    BY <1>0, <1>5
  <2> HIDE DEF T
  <2> QED BY <2>1, UpTo
<1>9. sum \in [0 .. N -> Nat]
  BY <1>6, <1>8
<1> QED BY <1>5, <1>7, <1>9 DEF IsSizeSum

(* More arguments take more bits.                                          *)
LEMMA SizeSumGrows ==
  ASSUME NEW N \in Nat, NEW sizes, IsSizes(sizes, N), NEW sum, IsSizeSum(sum, sizes, N),
         NEW i \in 0 .. N, NEW j \in 0 .. N, i <= j
  PROVE  sum[i] <= sum[j] /\ (i < j => sum[i] < sum[j])
<1> DEFINE T == {k \in 0 .. N : i <= k => (sum[i] <= sum[k] /\ (i < k => sum[i] < sum[k]))}
<1>1. 0 \in T
  BY DEF IsSizeSum
<1>2. ASSUME NEW k \in 1 .. N, k - 1 \in T PROVE k \in T
  <2>1. sum[k] = sum[k - 1] + sizes[k] /\ sizes[k] \in 1 .. WIDTH /\ sum[k - 1] \in Nat /\ sum[i] \in Nat
    BY DEF IsSizeSum, IsSizes
  <2>2. sizes[k] >= 1 /\ sizes[k] \in Nat
    BY <2>1, WidthFacts
  <2>3. i = k \/ i <= k - 1 \/ i > k
    OBVIOUS
  <2> QED BY <1>2, <2>1, <2>2, <2>3
<1> HIDE DEF T
<1>3. 0 .. N \subseteq T
  BY <1>1, <1>2, UpTo
<1> QED BY <1>3 DEF T

(* Some arguments always fit: the one looked at does.                      *)
LEMMA PackedNowFacts ==
  ASSUME NEW N \in Nat, NEW sizes, IsSizes(sizes, N), NEW from \in 1 .. N
  PROVE  /\ PackedNow(sizes, from) \in from .. N
         /\ PackedSize(sizes, from, PackedNow(sizes, from)) <= WIDTH
<1>1. PICK sum : IsSizeSum(sum, sizes, N)
  BY SizeSumExists
<1>2. \A i, j \in 1 .. N : PackedSize(sizes, i, j) = sum[j] - sum[i - 1] /\ PackedSize(sizes, i, j) \in Int
  BY <1>1 DEF IsSizeSum
<1> DEFINE Stops(to) == to = N \/ PackedSize(sizes, from, to + 1) > WIDTH
           T == {to \in Nat : to \in from .. N /\ Stops(to)}
<1>3. N \in T
  OBVIOUS
<1>4. PICK to \in T : \A t \in T : to <= t
  <2>1. T \subseteq Nat /\ T # {}
    BY <1>3
  <2> HIDE DEF T
  <2> QED BY <2>1, LeastNat
<1>5. to \in from .. N /\ Stops(to)
  BY <1>4
<1>6. PackedSize(sizes, from, to) <= WIDTH
  <2>1. CASE to = from
    <3>1. sum[from] = sum[from - 1] + sizes[from] /\ sizes[from] \in 1 .. WIDTH /\ sum[from - 1] \in Nat
      BY <1>1 DEF IsSizeSum, IsSizes
    <3> QED BY <3>1, <2>1, <1>2, WidthFacts
  <2>2. CASE to # from
    <3>1. to - 1 \in Nat /\ to - 1 \in from .. N /\ to - 1 < to /\ to - 1 # N /\ (to - 1) + 1 = to
      BY <2>2, <1>5
    <3>2. to - 1 \notin T
      <4> HIDE DEF T
      <4> QED BY <3>1, <1>4, <1>5
    <3>3. ~(PackedSize(sizes, from, to) > WIDTH)
      BY <3>1, <3>2
    <3> QED BY <3>3, <1>2, <1>5, WidthFacts
  <2> QED BY <2>1, <2>2
<1>7. Len(sizes) = N
  BY DEF IsSizes
<1> DEFINE Q(t) == PackedSize(sizes, from, t) <= WIDTH /\ Stops(t)
           c == CHOOSE t \in from .. N : Q(t)
<1>8. c \in from .. N /\ Q(c)
  <2>1. to \in from .. N /\ Q(to)
    BY <1>5, <1>6
  <2> HIDE DEF Q
  <2> QED BY <2>1
<1>9. PackedNow(sizes, from) = c
  BY <1>7 DEF PackedNow
<1> QED BY <1>8, <1>9

LEMMA PackedToFacts ==
  ASSUME NEW N \in Nat, NEW sizes, IsSizes(sizes, N), NEW from \in 1 .. N
  PROVE  /\ PackedTo(sizes, from) \in from .. N
         /\ PackedSize(sizes, from, PackedTo(sizes, from)) <= WIDTH
<1>1. PICK sum : IsSizeSum(sum, sizes, N)
  BY SizeSumExists
<1>2. PackedSize(sizes, from, from) = sizes[from] /\ sizes[from] \in 1 .. WIDTH
  BY <1>1 DEF IsSizeSum, IsSizes
<1>3. PackedSize(sizes, from, from) <= WIDTH
  BY <1>2, WidthFacts
<1> QED BY <1>3, PackedNowFacts DEF PackedTo

(* There is a type with room for them.                                     *)
LEMMA PackTypeFacts ==
  ASSUME NEW N \in Nat, NEW sizes, IsSizes(sizes, N), NEW from \in 1 .. N, NEW to \in from .. N,
         PackedSize(sizes, from, to) <= WIDTH
  PROVE  PackType(sizes, from, to) \in 1 .. WIDTH /\ PackedSize(sizes, from, to) <= PackType(sizes, from, to)
<1>1. PackBits \subseteq 1 .. WIDTH /\ WIDTH \in PackBits /\ 1 .. WIDTH \subseteq Nat
  BY PackAssumption, ArithmeticAssumption
<1> DEFINE T == {b \in PackBits : PackedSize(sizes, from, to) <= b}
           Q(b) == PackedSize(sizes, from, to) <= b /\ \A c \in PackBits : PackedSize(sizes, from, to) <= c => b <= c
           b0 == CHOOSE b \in PackBits : Q(b)
<1>2. PICK b \in T : \A c \in T : b <= c
  <2>1. T \subseteq Nat /\ T # {}
    BY <1>1
  <2> HIDE DEF T
  <2> QED BY <2>1, LeastNat
<1>3. b \in PackBits /\ Q(b)
  BY <1>2
<1>4. b0 \in PackBits /\ Q(b0)
  <2> HIDE DEF Q
  <2> QED BY <1>3
<1>5. PackType(sizes, from, to) = b0
  BY DEF PackType
<1> QED BY <1>4, <1>5, <1>1

(* Each argument is in the range it is said to be in.                      *)
LEMMA PackingInfoFacts ==
  ASSUME NEW N \in Nat, NEW sizes, IsSizes(sizes, N), NEW i \in 1 .. N
  PROVE  /\ ArgumentPackingInfo(sizes)[i] \in 1 .. i
         /\ i <= PackedTo(sizes, ArgumentPackingInfo(sizes)[i])
<1>0. Len(sizes) = N
  BY DEF IsSizes
<1> DEFINE To(x) == PackedTo(sizes, x)
           R(h) == [k \in 1 .. Len(sizes) |-> IF k = 1 \/ To(h[k - 1]) < k THEN k ELSE h[k - 1]]
           info == CHOOSE h : h = R(h)
           step == [k \in 1 .. N |-> [x \in Nat |-> IF k = 1 \/ To(x) < k THEN k ELSE x]]
<1>1. ArgumentPackingInfo(sizes) = info
  BY DEF ArgumentPackingInfo
<1>2. step \in [1 .. N -> [Nat -> Nat]]
      /\ \A k \in 1 .. N : \A x \in Nat : step[k][x] = IF k = 1 \/ To(x) < k THEN k ELSE x
  <2> HIDE DEF To
  <2> QED OBVIOUS
<1> HIDE DEF step, To
<1>3. PICK g \in [0 .. N -> Nat] : Iterates(g, N, 0, step)
  <2>1. 0 \in Nat
    OBVIOUS
  <2> QED BY <1>2, <2>1, IterateExists
<1> DEFINE f == [k \in 1 .. N |-> g[k]]
<1>4. f = R(f)
  <2>1. ASSUME NEW k \in 1 .. N
        PROVE  f[k] = IF k = 1 \/ To(f[k - 1]) < k THEN k ELSE f[k - 1]
    <3>1. k - 1 \in 0 .. N /\ g[k - 1] \in Nat /\ g[k] = step[k][g[k - 1]]
      BY <1>3 DEF Iterates
    <3>2. f[k] = IF k = 1 \/ To(g[k - 1]) < k THEN k ELSE g[k - 1]
      BY <3>1, <1>2
    <3>3. k # 1 => f[k - 1] = g[k - 1]
      OBVIOUS
    <3> QED BY <3>2, <3>3
  <2>2. f = [k \in 1 .. N |-> f[k]]
    OBVIOUS
  <2> HIDE DEF f
  <2> QED BY <2>1, <2>2, <1>0
<1>5. info = R(info)
  <2> HIDE DEF R, f
  <2> QED BY <1>4
<1>6. \A k \in 1 .. N : info[k] = IF k = 1 \/ To(info[k - 1]) < k THEN k ELSE info[k - 1]
  <2>1. \A k \in 1 .. N : R(info)[k] = IF k = 1 \/ To(info[k - 1]) < k THEN k ELSE info[k - 1]
    <3> HIDE DEF info
    <3> QED BY <1>0
  <2> HIDE DEF R, info
  <2> QED BY <2>1, <1>5
<1> HIDE DEF info
<1> DEFINE T == {k \in 0 .. N : k # 0 => info[k] \in 1 .. k /\ k <= To(info[k])}
<1>7. 0 \in T
  OBVIOUS
<1>8. ASSUME NEW k \in 1 .. N, k - 1 \in T PROVE k \in T
  <2>1. To(k) \in k .. N
    BY PackedToFacts DEF To
  <2>2. CASE k = 1 \/ To(info[k - 1]) < k
    <3>1. info[k] = k
      BY <2>2, <1>6
    <3> QED BY <3>1, <2>1
  <2>3. CASE ~(k = 1 \/ To(info[k - 1]) < k)
    <3>1. info[k] = info[k - 1]
      BY <2>3, <1>6
    <3>2. info[k - 1] \in 1 .. k - 1
      BY <1>8, <2>3
    <3>3. info[k - 1] \in 1 .. N
      BY <3>2
    <3>4. To(info[k - 1]) \in info[k - 1] .. N
      BY <3>3, PackedToFacts DEF To
    <3>5. k <= To(info[k - 1])
      BY <2>3, <3>4, <3>3
    <3> QED BY <3>1, <3>2, <3>5
  <2> QED BY <2>2, <2>3
<1> HIDE DEF T
<1>9. 0 .. N \subseteq T
  BY <1>7, <1>8, UpTo
<1>10. i \in T /\ i # 0
  BY <1>9
<1>11. info[i] \in 1 .. i /\ i <= To(info[i])
  BY <1>10 DEF T
<1> QED BY <1>1, <1>11 DEF To

(* What travels in the register: the arguments to - k .. to.               *)
IsMerged(m, sizes, vals, from, to) ==
  /\ m \in [0 .. to - from -> Nat] /\ m[0] = vals[to]
  /\ \A k \in 1 .. to - from : m[k] = m[k - 1] * Pow2[sizes[to - k]] + vals[to - k]

IsValues(vals, sizes, N) == \A k \in 1 .. N : vals[k] \in 0 .. Pow2[sizes[k]] - 1

LEMMA MergedExists ==
  ASSUME NEW N \in Nat, NEW sizes, IsSizes(sizes, N), NEW vals, IsValues(vals, sizes, N),
         NEW from \in 1 .. N, NEW to \in from .. N
  PROVE  \E m : IsMerged(m, sizes, vals, from, to)
<1>0. to - from \in Nat /\ to \in 1 .. N /\ \A k \in 1 .. to - from : to - k \in 1 .. N /\ k - 1 \in 0 .. to - from
  OBVIOUS
<1>1. \A k \in 1 .. N : vals[k] \in Nat /\ Pow2[sizes[k]] \in Nat
  BY Pow2Type, WidthFacts DEF IsSizes, IsValues
<1> DEFINE step == [k \in 1 .. to - from |-> [x \in Nat |-> x * Pow2[sizes[to - k]] + vals[to - k]]]
<1>2. \A k \in 1 .. to - from : \A x \in Nat : x * Pow2[sizes[to - k]] + vals[to - k] \in Nat
  <2> TAKE k \in 1 .. to - from
  <2> TAKE x \in Nat
  <2>1. PICK p \in Nat : p = Pow2[sizes[to - k]]
    BY <1>0, <1>1
  <2>2. x * p \in Nat /\ vals[to - k] \in Nat
    BY <2>1, <1>0, <1>1
  <2> QED BY <2>1, <2>2
<1>3. /\ step \in [1 .. to - from -> [Nat -> Nat]]
      /\ \A k \in 1 .. to - from : \A x \in Nat : step[k][x] = x * Pow2[sizes[to - k]] + vals[to - k]
  BY <1>2
<1> HIDE DEF step
<1>4. vals[to] \in Nat
  BY <1>0, <1>1
<1>5. PICK m \in [0 .. to - from -> Nat] : Iterates(m, to - from, vals[to], step)
  BY <1>3, <1>4, <1>0, IterateExists
<1>6. ASSUME NEW k \in 1 .. to - from
      PROVE  m[k] = m[k - 1] * Pow2[sizes[to - k]] + vals[to - k]
  <2>1. m[k] = step[k][m[k - 1]] /\ m[k - 1] \in Nat
    BY <1>5, <1>0 DEF Iterates
  <2> QED BY <2>1, <1>3
<1> QED BY <1>5, <1>6 DEF IsMerged, Iterates

(* What is merged fits in the bits of what was merged.                     *)
LEMMA MergedFits ==
  ASSUME NEW N \in Nat, NEW sizes, IsSizes(sizes, N), NEW sum, IsSizeSum(sum, sizes, N),
         NEW vals, IsValues(vals, sizes, N),
         NEW from \in 1 .. N, NEW to \in from .. N, PackedSize(sizes, from, to) <= WIDTH,
         NEW m, IsMerged(m, sizes, vals, from, to)
  PROVE  \A k \in 0 .. to - from :
           /\ sum[to] - sum[to - k - 1] \in 0 .. PackedSize(sizes, from, to)
           /\ m[k] < Pow2[sum[to] - sum[to - k - 1]]
<1> DEFINE size(k) == sum[to] - sum[to - k - 1]
           T == {k \in 0 .. to - from : m[k] < Pow2[size(k)]}
<1>0. to - from \in Nat /\ to \in 1 .. N /\ to \in 0 .. N /\ from - 1 \in 0 .. N
  OBVIOUS
<1>1. PackedSize(sizes, from, to) = sum[to] - sum[from - 1] /\ \A k \in 0 .. N : sum[k] \in Nat
  BY <1>0 DEF IsSizeSum
<1>2. ASSUME NEW k \in 0 .. to - from
      PROVE  size(k) \in 0 .. PackedSize(sizes, from, to) /\ size(k) \in 0 .. WIDTH
  <2>1. to - k - 1 \in 0 .. N /\ from - 1 <= to - k - 1 /\ to - k - 1 <= to
    BY <1>0
  <2>2. sum[from - 1] <= sum[to - k - 1] /\ sum[to - k - 1] <= sum[to]
    BY <2>1, <1>0, SizeSumGrows
  <2> QED BY <2>1, <2>2, <1>0, <1>1, WidthFacts
<1>3. 0 \in T
  <2>1. sum[to] = sum[to - 1] + sizes[to] /\ sizes[to] \in 1 .. WIDTH /\ to - 1 \in 0 .. N
    BY <1>0 DEF IsSizeSum, IsSizes
  <2>2. to - 0 - 1 = to - 1
    BY <1>0
  <2>3. size(0) = sizes[to]
    BY <2>1, <2>2, <1>1, WidthFacts
  <2>4. m[0] \in 0 .. Pow2[sizes[to]] - 1
    BY <1>0 DEF IsMerged, IsValues
  <2>5. Pow2[sizes[to]] \in Nat
    BY <2>1, WidthFacts, Pow2Type
  <2> QED BY <2>3, <2>4, <2>5, <1>0
<1>4. ASSUME NEW k \in 1 .. to - from, k - 1 \in T PROVE k \in T
  <2>1. k \in 0 .. to - from /\ k - 1 \in 0 .. to - from /\ to - k \in 1 .. N /\ to - k \in 0 .. N
    BY <1>0
  <2>2. m[k] = m[k - 1] * Pow2[sizes[to - k]] + vals[to - k] /\ m[k - 1] \in Nat
    BY <2>1 DEF IsMerged
  <2>3. vals[to - k] \in 0 .. Pow2[sizes[to - k]] - 1 /\ sizes[to - k] \in 1 .. WIDTH
    BY <2>1 DEF IsValues, IsSizes
  <2>4. sum[to - k] = sum[to - k - 1] + sizes[to - k]
    BY <2>1 DEF IsSizeSum
  <2>5. to - (k - 1) - 1 = to - k
    BY <1>0
  <2>6. size(k - 1) = sum[to] - sum[to - k]
    BY <2>5
  <2>7. /\ sum[to] \in Nat /\ sum[to - k] \in Nat /\ sum[to - k - 1] \in Nat /\ sizes[to - k] \in Nat
        /\ sizes[to - k] \in 0 .. WIDTH
    <3>1. to - k - 1 \in 0 .. N
      BY <2>1
    <3> QED BY <3>1, <2>1, <1>0, <1>1, <2>3, WidthFacts
  <2>8. size(k) = size(k - 1) + sizes[to - k]
    BY <2>4, <2>6, <2>7
  <2>9. size(k) \in 0 .. WIDTH /\ size(k - 1) \in 0 .. WIDTH
    BY <1>2, <2>1
  <2>10. PICK x \in Nat : x = size(k - 1)
    BY <2>9
  <2>11. PICK s \in Nat : s = sizes[to - k]
    BY <2>7
  <2>12. Pow2[x + s] = Pow2[x] * Pow2[s]
    BY <2>7, <2>8, <2>9, <2>10, <2>11, Pow2Sum
  <2>13. m[k - 1] < Pow2[x]
    BY <1>4, <2>10
  <2>14. Pow2[x] \in Nat /\ Pow2[s] \in Nat \ {0}
    BY <2>7, <2>9, <2>10, <2>11, Pow2Type
  <2>15. m[k - 1] * Pow2[s] + vals[to - k] < Pow2[x] * Pow2[s]
    BY <2>2, <2>3, <2>11, <2>13, <2>14, ProductFits
  <2>16. size(k) = x + s
    BY <2>8, <2>10, <2>11
  <2>17. m[k] < Pow2[size(k)]
    BY <2>2, <2>11, <2>12, <2>15, <2>16
  <2> QED BY <2>17, <2>1
<1> HIDE DEF T
<1>5. 0 .. to - from \subseteq T
  BY <1>0, <1>3, <1>4, UpTo
<1> QED BY <1>5, <1>2 DEF T

(* The bits of one step of the merging.                                    *)
LEMMA MergeStep ==
  ASSUME NEW N \in Nat, NEW sizes, IsSizes(sizes, N), NEW vals, IsValues(vals, sizes, N),
         NEW from \in 1 .. N, NEW to \in from .. N, PackedSize(sizes, from, to) <= WIDTH,
         NEW m, IsMerged(m, sizes, vals, from, to), NEW k \in 1 .. to - from
  PROVE  /\ sizes[to - k] \in 1 .. PackType(sizes, from, to) - 1
         /\ PackType(sizes, from, to) \in 1 .. WIDTH
         /\ vals[to - k] \in 0 .. Pow2[sizes[to - k]] - 1
         /\ m[k] \in 0 .. Pow2[PackType(sizes, from, to)] - 1
         /\ m[k - 1] \in 0 .. Pow2[PackType(sizes, from, to)] - 1
<1>1. PICK sum : IsSizeSum(sum, sizes, N)
  BY SizeSumExists
<1>2. PICK type \in 1 .. WIDTH : type = PackType(sizes, from, to) /\ PackedSize(sizes, from, to) <= type
  BY PackTypeFacts
<1>3. to - k \in 1 .. N /\ to - k \in 0 .. N /\ to \in 1 .. N /\ to \in 0 .. N /\ to - k - 1 \in 0 .. N
      /\ k \in 0 .. to - from /\ k - 1 \in 0 .. to - from /\ to - k < to /\ from - 1 \in 0 .. N
      /\ from - 1 <= to - k - 1
  OBVIOUS
<1>4. sizes[to - k] \in 1 .. WIDTH /\ vals[to - k] \in 0 .. Pow2[sizes[to - k]] - 1
  BY <1>3 DEF IsSizes, IsValues
<1>5. sizes[to - k] < type
  <2>1. sum[to - k] < sum[to] /\ sum[from - 1] <= sum[to - k - 1]
    BY <1>1, <1>3, SizeSumGrows
  <2>2. /\ sum[to - k] = sum[to - k - 1] + sizes[to - k]
        /\ sum[to] \in Nat /\ sum[to - k] \in Nat /\ sum[to - k - 1] \in Nat /\ sum[from - 1] \in Nat
        /\ PackedSize(sizes, from, to) = sum[to] - sum[from - 1]
    BY <1>1, <1>3 DEF IsSizeSum
  <2> QED BY <2>1, <2>2, <1>2, <1>4, WidthFacts
<1>6. ASSUME NEW j \in 0 .. to - from PROVE m[j] \in 0 .. Pow2[type] - 1
  <2>1. PICK size \in Int : size = sum[to] - sum[to - j - 1]
    <3>1. to - j - 1 \in 0 .. N
      OBVIOUS
    <3> QED BY <3>1, <1>1, <1>3 DEF IsSizeSum
  <2>2. size \in 0 .. PackedSize(sizes, from, to) /\ m[j] < Pow2[size]
    BY <2>1, <1>1, MergedFits
  <2>3. PackedSize(sizes, from, to) \in Int
    BY <1>1, <1>3 DEF IsSizeSum
  <2>4. size \in 0 .. WIDTH /\ type \in 0 .. WIDTH /\ size <= type
    BY <2>2, <2>3, <1>2, WidthFacts
  <2>5. Pow2[size] <= Pow2[type] /\ Pow2[size] \in Nat /\ Pow2[type] \in Nat
    BY <2>4, Pow2Grows, Pow2Type
  <2>6. m[j] \in Nat
    BY DEF IsMerged
  <2> QED BY <2>2, <2>5, <2>6
<1> QED BY <1>2, <1>3, <1>4, <1>5, <1>6, WidthFacts

(* mul and xor put each argument below the others, nothing lost.           *)
LEMMA CallerMerges ==
  ASSUME NEW N \in Nat, NEW sizes, IsSizes(sizes, N), NEW vals, IsValues(vals, sizes, N),
         NEW from \in 1 .. N, NEW to \in from .. N, PackedSize(sizes, from, to) <= WIDTH,
         NEW m, IsMerged(m, sizes, vals, from, to)
  PROVE  PackRegistersFromCaller(sizes, vals, from, to) = m[to - from]
<1> DEFINE type == PackType(sizes, from, to)
           next(x, k) == compute("xor", type, compute("mul", type, x, Pow2[sizes[to - k]]), vals[to - k])
           R(h) == [k \in 0 .. to - from |-> IF k = 0 THEN vals[to] ELSE next(h[k - 1], k)]
           merged == CHOOSE h : h = R(h)
<1>0. to - from \in Nat
  OBVIOUS
<1>1. ASSUME NEW k \in 1 .. to - from PROVE next(m[k - 1], k) = m[k]
  <2>1. PICK n \in 1 .. WIDTH : n = type
    BY MergeStep
  <2>2. PICK s \in 1 .. n - 1 : s = sizes[to - k]
    BY <2>1, MergeStep
  <2>3. PICK b \in 0 .. Pow2[s] - 1 : b = vals[to - k]
    BY <2>2, MergeStep
  <2>4. PICK y \in 0 .. Pow2[n] - 1 : y = m[k]
    BY <2>1, MergeStep
  <2>5. PICK x \in 0 .. Pow2[n] - 1 : x = m[k - 1]
    BY <2>1, MergeStep
  <2>6. /\ n \in 0 .. WIDTH /\ s \in 0 .. n /\ s \in 0 .. n - 1 /\ s \in 0 .. WIDTH /\ x \in Nat /\ y \in Nat
        /\ b \in Nat
    BY WidthFacts, <2>5, <2>4, <2>3, Pow2Type
  <2>7. y = x * Pow2[s] + b
    BY <2>2, <2>3, <2>4, <2>5 DEF IsMerged
  <2>8. PICK a \in Nat : a = x * Pow2[s]
    <3>1. Pow2[s] \in Nat
      BY <2>6, Pow2Type
    <3> QED BY <3>1, <2>6
  <2>9. Pow2[n] \in Nat \ {0} /\ y = a + b /\ a <= y /\ b <= y
    BY <2>6, <2>7, <2>8, Pow2Type
  <2>10. a \in 0 .. Pow2[n] - 1 /\ b \in 0 .. Pow2[n] - 1
    BY <2>9, <2>6, <2>8
  <2>11. Pow2[s] \in 0 .. Pow2[n] - 1
    BY <2>6, PowerOfTwoFits
  <2>12. compute("mul", n, x, Pow2[s]) = a
    <3>1. compute("mul", n, x, Pow2[s]) = (x * Pow2[s]) % Pow2[n]
      BY <2>11, WordOperation
    <3> QED BY <3>1, <2>8, <2>9, <2>10, ModSmall
  <2>13. compute("xor", n, a, b) = y
    <3>1. compute("xor", n, a, b) =
            FromBits((OneBits(a, n) \ OneBits(b, n)) \cup (OneBits(b, n) \ OneBits(a, n))) % Pow2[n]
      BY <2>10, WordOperation
    <3>2. FromBits((OneBits(a, n) \ OneBits(b, n)) \cup (OneBits(b, n) \ OneBits(a, n))) = y
      BY <2>6, <2>8, <2>9, XorOfParts
    <3> QED BY <3>1, <3>2, <2>9, ModSmall
  <2> QED BY <2>1, <2>2, <2>3, <2>4, <2>5, <2>12, <2>13
<1> HIDE DEF next
<1>2. m = R(m)
  <2>1. \A k \in 0 .. to - from : m[k] = IF k = 0 THEN vals[to] ELSE next(m[k - 1], k)
    BY <1>1 DEF IsMerged
  <2>2. m = [k \in 0 .. to - from |-> m[k]]
    BY DEF IsMerged
  <2> QED BY <2>1, <2>2
<1>3. merged = R(merged)
  <2> HIDE DEF R
  <2> QED BY <1>2
<1>4. merged[0] = vals[to] /\ \A k \in 1 .. to - from : merged[k] = next(merged[k - 1], k)
  <2>1. R(merged)[0] = vals[to] /\ \A k \in 1 .. to - from : R(merged)[k] = next(merged[k - 1], k)
    <3> HIDE DEF merged
    <3> QED OBVIOUS
  <2> HIDE DEF R, merged
  <2> QED BY <2>1, <1>3
<1>5. PackRegistersFromCaller(sizes, vals, from, to) = merged[to - from]
  BY DEF PackRegistersFromCaller, next
<1> HIDE DEF merged, R, type
<1> DEFINE T == {k \in 0 .. to - from : merged[k] = m[k]}
<1>6. 0 \in T
  BY <1>4, <1>0 DEF IsMerged
<1>7. ASSUME NEW k \in 1 .. to - from, k - 1 \in T PROVE k \in T
  BY <1>7, <1>1, <1>4
<1> HIDE DEF T
<1>8. 0 .. to - from \subseteq T
  BY <1>0, <1>6, <1>7, UpTo
<1> QED BY <1>0, <1>5, <1>8 DEF T

(* Division takes the lowest argument away, the rest is that argument.     *)
LEMMA SplitStep ==
  ASSUME NEW N \in Nat, NEW sizes, IsSizes(sizes, N), NEW vals, IsValues(vals, sizes, N),
         NEW from \in 1 .. N, NEW to \in from .. N, PackedSize(sizes, from, to) <= WIDTH,
         NEW m, IsMerged(m, sizes, vals, from, to), NEW k \in 1 .. to - from
  PROVE  /\ compute("udiv", PackType(sizes, from, to), m[k], Pow2[sizes[to - k]]) = m[k - 1]
         /\ compute("urem", PackType(sizes, from, to), m[k], Pow2[sizes[to - k]]) = vals[to - k]
<1>1. PICK n \in 1 .. WIDTH : n = PackType(sizes, from, to)
  BY MergeStep
<1>2. PICK s \in 1 .. n - 1 : s = sizes[to - k]
  BY <1>1, MergeStep
<1>3. PICK b \in 0 .. Pow2[s] - 1 : b = vals[to - k]
  BY <1>2, MergeStep
<1>4. PICK y \in 0 .. Pow2[n] - 1 : y = m[k]
  BY <1>1, MergeStep
<1>5. PICK x \in 0 .. Pow2[n] - 1 : x = m[k - 1]
  BY <1>1, MergeStep
<1>6. n \in 0 .. WIDTH /\ s \in 0 .. n - 1 /\ s \in 0 .. WIDTH
  BY WidthFacts
<1>7. PICK M \in Nat \ {0} : M = Pow2[n]
  BY <1>6, Pow2Type
<1>8. PICK p \in Nat \ {0} : p = Pow2[s]
  BY <1>6, Pow2Type
<1>9. x \in 0 .. M - 1 /\ y \in 0 .. M - 1 /\ b \in 0 .. p - 1 /\ x \in Nat /\ y \in Nat
  BY <1>3, <1>4, <1>5, <1>7, <1>8
<1>10. y = p * x + b
  <2>1. y = x * p + b
    BY <1>2, <1>3, <1>4, <1>5, <1>8 DEF IsMerged
  <2>2. x * p = p * x
    BY <1>9, <1>8
  <2> QED BY <2>1, <2>2
<1>11. y % p = b /\ y \div p = x
  <2>1. x \in Int /\ y \in Int
    BY <1>9
  <2>2. y % p = b
    BY <2>1, <1>8, <1>9, <1>10, DivUnique
  <2>3. y \div p = x
    BY <2>1, <1>8, <1>9, <1>10, DivUnique
  <2> QED BY <2>2, <2>3
<1>12. p \in 0 .. M - 1 /\ p # 0
  BY <1>6, <1>7, <1>8, PowerOfTwoFits
<1>13. compute("udiv", n, y, p) = (y \div p) % M /\ compute("urem", n, y, p) = (y % p) % M
  BY <1>7, <1>9, <1>12, WordOperation
<1>14. b \in 0 .. M - 1
  BY <1>9, <1>12, <1>7, <1>8
<1>15. x % M = x /\ b % M = b
  BY <1>9, <1>14, <1>7, ModSmall
<1>16. compute("udiv", n, y, p) = x /\ compute("urem", n, y, p) = b
  BY <1>11, <1>13, <1>15
<1> QED BY <1>1, <1>2, <1>3, <1>4, <1>5, <1>8, <1>16

(* udiv and urem undo it.                                                  *)
LEMMA CalleeTakesApart ==
  ASSUME NEW N \in Nat, NEW sizes, IsSizes(sizes, N), NEW vals, IsValues(vals, sizes, N),
         NEW from \in 1 .. N, NEW to \in from .. N, PackedSize(sizes, from, to) <= WIDTH,
         NEW m, IsMerged(m, sizes, vals, from, to), NEW i \in from .. to
  PROVE  PackRegistersFromCallee(sizes, m[to - from], from, to, i) = vals[i]
<1> DEFINE type == PackType(sizes, from, to)
           next(x, k) == compute("udiv", type, x, Pow2[sizes[from + k - 1]])
           R(h) == [k \in 0 .. i - from |-> IF k = 0 THEN m[to - from] ELSE next(h[k - 1], k)]
           rest == CHOOSE h : h = R(h)
           g == [k \in 0 .. i - from |-> m[to - from - k]]
<1>0. i - from \in Nat /\ i \in 1 .. N
  OBVIOUS
<1>1. ASSUME NEW k \in 1 .. i - from PROVE next(m[to - from - (k - 1)], k) = m[to - from - k]
  <2>1. PICK j \in 1 .. to - from : j = to - from - (k - 1)
    OBVIOUS
  <2>2. to - j = from + k - 1 /\ j - 1 = to - from - k
    BY <2>1
  <2>3. compute("udiv", type, m[j], Pow2[sizes[to - j]]) = m[j - 1]
    BY SplitStep
  <2> HIDE DEF type
  <2> QED BY <2>1, <2>2, <2>3
<1> HIDE DEF next
<1>2. g = R(g)
  <2>1. ASSUME NEW k \in 0 .. i - from
        PROVE  g[k] = IF k = 0 THEN m[to - from] ELSE next(g[k - 1], k)
    <3>1. CASE k = 0
      <4>1. to - from - 0 = to - from
        OBVIOUS
      <4> QED BY <3>1, <4>1
    <3>2. CASE k # 0
      <4>1. k \in 1 .. i - from /\ k - 1 \in 0 .. i - from
        BY <3>2
      <4>2. g[k] = m[to - from - k] /\ g[k - 1] = m[to - from - (k - 1)]
        BY <4>1
      <4> HIDE DEF g
      <4> QED BY <3>2, <4>1, <4>2, <1>1
    <3> QED BY <3>1, <3>2
  <2>2. g = [k \in 0 .. i - from |-> g[k]]
    OBVIOUS
  <2> HIDE DEF g
  <2> QED BY <2>1, <2>2
<1>3. rest = R(rest)
  <2> HIDE DEF R, g
  <2> QED BY <1>2
<1>4. rest[0] = m[to - from] /\ \A k \in 1 .. i - from : rest[k] = next(rest[k - 1], k)
  <2>1. R(rest)[0] = m[to - from] /\ \A k \in 1 .. i - from : R(rest)[k] = next(rest[k - 1], k)
    <3> HIDE DEF rest
    <3> QED OBVIOUS
  <2> HIDE DEF R, rest
  <2> QED BY <2>1, <1>3
<1> DEFINE one == IF i < to THEN compute("urem", type, rest[i - from], Pow2[sizes[i]]) ELSE rest[i - from]
           r == m[to - from]
<1>5. PackRegistersFromCallee(sizes, r, from, to, i) =
        IF from < to /\ sizes[i] < WIDTH THEN compute("urem", WIDTH, one, Pow2[sizes[i]]) ELSE one
  BY DEF PackRegistersFromCallee, next
<1> HIDE DEF rest, R
<1> DEFINE T == {k \in 0 .. i - from : rest[k] = m[to - from - k]}
<1>6. 0 \in T
  <2>1. to - from - 0 = to - from
    OBVIOUS
  <2> QED BY <2>1, <1>4, <1>0
<1>7. ASSUME NEW k \in 1 .. i - from, k - 1 \in T PROVE k \in T
  BY <1>7, <1>1, <1>4
<1> HIDE DEF T
<1>8. 0 .. i - from \subseteq T
  BY <1>0, <1>6, <1>7, UpTo
<1>9. rest[i - from] = m[to - i]
  <2>1. rest[i - from] = m[to - from - (i - from)]
    BY <1>0, <1>8 DEF T
  <2>2. to - from - (i - from) = to - i
    OBVIOUS
  <2> QED BY <2>1, <2>2
<1>10. one = vals[i]
  <2>1. CASE i < to
    <3>1. to - i \in 1 .. to - from /\ to - (to - i) = i
      BY <2>1
    <3>2. compute("urem", type, m[to - i], Pow2[sizes[to - (to - i)]]) = vals[to - (to - i)]
      BY <3>1, SplitStep
    <3> HIDE DEF type
    <3> QED BY <2>1, <3>1, <3>2, <1>9
  <2>2. CASE i = to
    <3>1. to - i = 0
      BY <2>2
    <3>2. m[0] = vals[to]
      BY DEF IsMerged
    <3> QED BY <2>2, <3>1, <3>2, <1>9
  <2> QED BY <2>1, <2>2
<1>11. sizes[i] \in 1 .. WIDTH /\ vals[i] \in 0 .. Pow2[sizes[i]] - 1
  BY <1>0 DEF IsSizes, IsValues
<1>12. sizes[i] < WIDTH => compute("urem", WIDTH, vals[i], Pow2[sizes[i]]) = vals[i]
  <2> SUFFICES ASSUME sizes[i] < WIDTH PROVE compute("urem", WIDTH, vals[i], Pow2[sizes[i]]) = vals[i]
    OBVIOUS
  <2>1. WIDTH \in 1 .. WIDTH /\ WIDTH \in 0 .. WIDTH /\ sizes[i] \in 0 .. WIDTH - 1 /\ sizes[i] \in 0 .. WIDTH
    BY <1>11, WidthFacts
  <2>2. PICK p \in Nat \ {0} : p = Pow2[sizes[i]]
    BY <2>1, Pow2Type
  <2>3. PICK M \in Nat \ {0} : M = Pow2[WIDTH]
    BY <2>1, Pow2Type
  <2>4. p \in 0 .. M - 1
    BY <2>1, <2>2, <2>3, PowerOfTwoFits
  <2>5. PICK v \in 0 .. p - 1 : v = vals[i]
    BY <1>11, <2>2
  <2>6. v \in 0 .. M - 1
    BY <2>4, <2>2, <2>3
  <2>7. compute("urem", WIDTH, v, p) = (v % p) % M
    BY <2>1, <2>2, <2>3, <2>4, <2>6, WordOperation
  <2>8. v % p = v /\ v % M = v
    BY <2>6, <2>2, <2>3, ModSmall
  <2> QED BY <2>2, <2>5, <2>7, <2>8
<1> HIDE DEF one
<1> QED BY <1>5, <1>10, <1>12

(* An argument comes out of the call as it went in.                        *)
LEMMA PassedUnchanged ==
  ASSUME NEW N \in Nat, NEW sizes, IsSizes(sizes, N), NEW vals, IsValues(vals, sizes, N),
         NEW i \in 1 .. N
  PROVE  Passed(sizes, vals, i) = vals[i]
<1>1. PICK from \in 1 .. i : from = ArgumentPackingInfo(sizes)[i] /\ i <= PackedTo(sizes, from)
  BY PackingInfoFacts
<1>2. from \in 1 .. N
  OBVIOUS
<1>3. PICK to \in from .. N : to = PackedTo(sizes, from) /\ PackedSize(sizes, from, to) <= WIDTH
  BY <1>2, PackedToFacts
<1>4. i \in from .. to
  BY <1>1, <1>3
<1>5. PICK m : IsMerged(m, sizes, vals, from, to)
  BY <1>2, MergedExists
<1>6. PackRegistersFromCaller(sizes, vals, from, to) = m[to - from]
  BY <1>2, <1>3, <1>5, CallerMerges
<1>7. PackRegistersFromCallee(sizes, m[to - from], from, to, i) = vals[i]
  BY <1>2, <1>3, <1>4, <1>5, CalleeTakesApart
<1> QED BY <1>1, <1>3, <1>6, <1>7 DEF Passed

(***************************************************************************)
(* The words in the registers are the values, and stay so.                 *)
(***************************************************************************)
LoweringInv ==
  /\ trapped = FALSE
  /\ reg = value
  /\ bits \in [Slots -> Widths]
  /\ value = [s \in Slots |-> value[s]]
  /\ shifted = [s \in Slots |-> shifted[s]]
  /\ \A s \in Slots : /\ value[s] \in 0 .. Pow2[bits[s]] - 1
                      /\ shifted[s] \in 0 .. bits[s] - 1
                      /\ value[s] % Pow2[shifted[s]] = 0

LEMMA SlotFacts ==
  ASSUME LoweringInv, NEW s \in Slots
  PROVE  /\ bits[s] \in 1 .. WIDTH /\ bits[s] \in 0 .. WIDTH /\ bits[s] \in Widths
         /\ value[s] \in 0 .. Pow2[bits[s]] - 1 /\ reg[s] = value[s]
         /\ shifted[s] \in 0 .. bits[s] - 1 /\ value[s] % Pow2[shifted[s]] = 0
BY ArithmeticAssumption DEF LoweringInv

LEMMA NotShifted == ASSUME NEW v \in Int PROVE v % Pow2[0] = 0
BY Pow2Facts

LEMMA LoweringInit == Init => LoweringInv
<1> SUFFICES ASSUME Init PROVE LoweringInv
  OBVIOUS
<1>1. WIDTH \in Widths /\ WIDTH \in Nat \ {0} /\ WIDTH \in 0 .. WIDTH
  BY ArithmeticAssumption
<1>2. value \in [Slots -> 0 .. Pow2[WIDTH] - 1] /\ reg = value /\ trapped = FALSE
  BY DEF Init, Word, WordRange
<1>3. bits = [s \in Slots |-> WIDTH] /\ shifted = [s \in Slots |-> 0]
  BY DEF Init
<1>4. ASSUME NEW s \in Slots
      PROVE  /\ value[s] \in 0 .. Pow2[bits[s]] - 1
             /\ shifted[s] \in 0 .. bits[s] - 1
             /\ value[s] % Pow2[shifted[s]] = 0
  <2>1. value[s] \in 0 .. Pow2[WIDTH] - 1 /\ bits[s] = WIDTH /\ shifted[s] = 0
    BY <1>2, <1>3
  <2>2. value[s] \in Int
    BY <2>1, <1>1, Pow2Type
  <2> QED BY <2>1, <2>2, <1>1, NotShifted
<1>5. bits \in [Slots -> Widths] /\ value = [s \in Slots |-> value[s]] /\ shifted = [s \in Slots |-> shifted[s]]
  BY <1>1, <1>2, <1>3
<1> QED BY <1>2, <1>4, <1>5 DEF LoweringInv

(* An instruction whose code makes the value of it.                        *)
LEMMA DefineKeeps ==
  ASSUME LoweringInv, NEW d, NEW n \in Widths, NEW v \in 0 .. Pow2[n] - 1, NEW low \in 0 .. n - 1,
         v % Pow2[low] = 0, NEW code, NEW word, ~Traps(code), Run(code, word) = v,
         d \in Slots, Define(d, n, v, low, code, word)
  PROVE  LoweringInv'
<1>1. /\ bits' = [bits EXCEPT ![d] = n] /\ value' = [value EXCEPT ![d] = v]
      /\ shifted' = [shifted EXCEPT ![d] = low] /\ trapped' = FALSE /\ reg' = [reg EXCEPT ![d] = v]
  <2>1. Traps(code) = FALSE
    BY DEF Traps
  <2> QED BY <2>1 DEF Define
<1>2. reg' = value' /\ bits' \in [Slots -> Widths]
      /\ value' = [s \in Slots |-> value'[s]] /\ shifted' = [s \in Slots |-> shifted'[s]]
  BY <1>1 DEF LoweringInv
<1>3. ASSUME NEW s \in Slots
      PROVE  /\ value'[s] \in 0 .. Pow2[bits'[s]] - 1
             /\ shifted'[s] \in 0 .. bits'[s] - 1
             /\ value'[s] % Pow2[shifted'[s]] = 0
  <2>1. CASE s = d
    <3>1. value'[s] = v /\ bits'[s] = n /\ shifted'[s] = low
      BY <1>1, <2>1 DEF LoweringInv
    <3> QED BY <3>1
  <2>2. CASE s # d
    <3>1. value'[s] = value[s] /\ bits'[s] = bits[s] /\ shifted'[s] = shifted[s]
      BY <1>1, <2>2 DEF LoweringInv
    <3> QED BY <3>1, SlotFacts
  <2> QED BY <2>1, <2>2
<1> QED BY <1>1, <1>2, <1>3 DEF LoweringInv

LEMMA CutFits ==
  ASSUME NEW n \in 0 .. WIDTH, NEW v \in Int
  PROVE  (v % Pow2[n]) \in 0 .. Pow2[n] - 1 /\ (v % Pow2[n]) % Pow2[0] = 0
<1>1. PICK p \in Nat \ {0} : p = Pow2[n]
  BY Pow2Type
<1>2. PICK r \in 0 .. p - 1 : r = v % p
  BY DivMod
<1>3. r \in Int
  OBVIOUS
<1> QED BY <1>1, <1>2, <1>3, NotShifted

(* Each instruction keeps the invariant.                                   *)
LEMMA OperateKeeps ==
  ASSUME LoweringInv, NEW d \in Slots, NEW x \in Slots, NEW y \in Slots,
         NEW kind \in BopKind \cup CondKind, Operate(kind, d, x, y)
  PROVE  LoweringInv'
<1> DEFINE n == bits[x]
           low == IF kind \in CondKind THEN 1 ELSE n
           a == value[x]
           b == value[y]
           v == SourceResult(kind, n, a, b) % Pow2[low]
           st == statement(WeirdBoolean(kind, n), n, b)
<1>1. /\ n \in 1 .. WIDTH /\ n \in Widths /\ a \in 0 .. Pow2[n] - 1 /\ b \in 0 .. Pow2[n] - 1
      /\ SourceDefined(kind, n, a, b) /\ reg[x] = a /\ reg[y] = b
      /\ Define(d, low, v, 0, <<st>>, a)
  BY SlotFacts DEF Operate
<1>2. low \in Widths /\ low \in 1 .. WIDTH /\ low \in 0 .. WIDTH
  BY <1>1, ArithmeticAssumption
<1>3. /\ ~DividesByZero(WeirdBoolean(kind, n), n, b)
      /\ compute(WeirdBoolean(kind, n), n, a, b) = SourceResult(kind, n, a, b) % Pow2[low]
      /\ SourceResult(kind, n, a, b) \in Int
  <2> HIDE DEF n, a, b
  <2>1. low = IF kind \in CondKind THEN 1 ELSE n
    OBVIOUS
  <2> HIDE DEF low
  <2> QED BY <1>1, <2>1, WeirdOperation
<1>4. ~Traps(<<st>>) /\ Run(<<st>>, a) = v
  BY <1>3, RunOne DEF statement
<1>5. v \in 0 .. Pow2[low] - 1 /\ v % Pow2[0] = 0
  <2> HIDE DEF n, a, b, low
  <2> QED BY <1>2, <1>3, CutFits
<1>6. 0 \in 0 .. low - 1
  BY <1>2
<1> HIDE DEF n, a, b, low, v, st
<1> QED BY <1>1, <1>2, <1>4, <1>5, <1>6, DefineKeeps

LEMMA OperateConstantKeeps ==
  ASSUME LoweringInv, NEW d \in Slots, NEW x \in Slots,
         NEW kind \in BopKind, NEW c \in Word, OperateConstant(kind, d, x, c)
  PROVE  LoweringInv'
<1> DEFINE n == bits[x]
           a == value[x]
           low == shifted[x]
           v == SourceResult(kind, n, a, c) % Pow2[n]
           st == WeirdArithmetic(kind, n, c, low)
           next == IF kind = "shl" THEN c ELSE 0
<1>1. /\ n \in 1 .. WIDTH /\ n \in 0 .. WIDTH /\ n \in Widths /\ a \in 0 .. Pow2[n] - 1 /\ c \in Int
      /\ c >= 0 /\ c < Pow2[n] /\ low \in 0 .. n - 1 /\ a % Pow2[low] = 0
      /\ SourceDefined(kind, n, a, c) /\ InstCombined(kind, n, c, low) /\ reg[x] = a
      /\ Define(d, n, v, next, <<st>>, a)
  <2>1. c \in Nat
    BY WidthFacts, Pow2Type DEF Word, WordRange
  <2> QED BY <2>1, SlotFacts DEF OperateConstant
<1>2. c \in 0 .. Pow2[n] - 1 /\ Pow2[n] \in Nat /\ a \in Int
  BY <1>1, Pow2Type
<1> HIDE DEF n, a, low
<1>3. /\ ~DividesByZero(st.kind, st.size, st.val2)
      /\ compute(st.kind, st.size, a, st.val2) = v
      /\ SourceResult(kind, n, a, c) \in Int
  <2>1. st = WeirdArithmetic(kind, n, c, low)
    OBVIOUS
  <2> HIDE DEF st
  <2> QED BY <1>1, <1>2, <2>1, ConstantOperation
<1>4. ~Traps(<<st>>) /\ Run(<<st>>, a) = v
  BY <1>3, RunOne
<1>5. v \in 0 .. Pow2[n] - 1 /\ v % Pow2[0] = 0
  BY <1>1, <1>3, CutFits
<1>6. next \in 0 .. n - 1 /\ v % Pow2[next] = 0
  <2>1. CASE kind = "shl"
    <3>1. next = c /\ c < n /\ c \in 0 .. n - 1 /\ c \in 0 .. WIDTH /\ c <= n
      <4>1. c < n /\ next = c
        BY <2>1, <1>1 DEF SourceDefined, ShiftKind
      <4>2. c \in 0 .. n - 1 /\ c <= n
        BY <4>1, <1>1
      <4> QED BY <4>1, <4>2, <1>1, WidthFacts
    <3>2. PICK p \in Nat \ {0} : p = Pow2[c]
      BY <3>1, Pow2Type
    <3>3. PICK y \in Int : y = a * p
      BY <1>2
    <3>4. v = y % Pow2[n]
      BY <2>1, <3>2, <3>3 DEF SourceResult
    <3>5. v % Pow2[c] = y % Pow2[c]
      BY <3>4, <3>1, <1>1, CutTwice
    <3>6. y % p = 0
      <4>1. y = p * a + 0
        BY <3>3, <1>2
      <4>2. 0 \in 0 .. p - 1
        OBVIOUS
      <4> QED BY <4>1, <4>2, <1>2, DivUnique
    <3> QED BY <3>1, <3>2, <3>5, <3>6
  <2>2. CASE kind # "shl"
    BY <2>2, <1>1, <1>5
  <2> QED BY <2>1, <2>2
<1> HIDE DEF v, st, next
<1> QED BY <1>1, <1>4, <1>5, <1>6, DefineKeeps

LEMMA NegateKeeps ==
  ASSUME LoweringInv, NEW d \in Slots, NEW x \in Slots, Negate(d, x)
  PROVE  LoweringInv'
<1> DEFINE n == bits[x]
           a == value[x]
           v == (-a) % Pow2[n]
           st == statement("mul", n, Pow2[n] - 1)
<1>1. /\ n \in 1 .. WIDTH /\ n \in 0 .. WIDTH /\ n \in Widths /\ a \in 0 .. Pow2[n] - 1
      /\ Define(d, n, v, 0, <<st>>, a)
  BY SlotFacts DEF Negate
<1>2. -a \in Int /\ 0 \in 0 .. n - 1
  BY <1>1, Pow2Type
<1> HIDE DEF n, a
<1>3. ~Traps(<<st>>) /\ Run(<<st>>, a) = v
  BY <1>1, RunOne, NegateOperation DEF statement
<1>4. v \in 0 .. Pow2[n] - 1 /\ v % Pow2[0] = 0
  BY <1>1, <1>2, CutFits
<1> HIDE DEF v, st
<1> QED BY <1>1, <1>2, <1>3, <1>4, DefineKeeps

LEMMA SignExtendKeeps ==
  ASSUME LoweringInv, NEW d \in Slots, NEW x \in Slots, SignExtend(d, x, WIDTH)
  PROVE  LoweringInv'
<1> DEFINE n == bits[x]
           a == value[x]
           v == SignedValue(a, n) % Pow2[WIDTH]
           code == visitSExtInst(n)
<1>1. /\ n \in 1 .. WIDTH /\ n \in 0 .. WIDTH /\ a \in 0 .. Pow2[n] - 1 /\ n < WIDTH
      /\ Define(d, WIDTH, v, 0, code, a)
  BY SlotFacts DEF SignExtend
<1>2. WIDTH \in Widths /\ 0 \in 0 .. WIDTH - 1 /\ WIDTH \in 0 .. WIDTH
  BY ArithmeticAssumption
<1> HIDE DEF n, a
<1>3. ~Traps(code) /\ Run(code, a) = v
  BY <1>1, SignExtendOperation
<1>4. SignedValue(a, n) \in Int
  <2>1. a \in Int
    BY <1>1, Pow2Type
  <2> QED BY <1>1, <2>1, SignedFacts
<1>5. v \in 0 .. Pow2[WIDTH] - 1 /\ v % Pow2[0] = 0
  BY <1>2, <1>4, CutFits
<1> HIDE DEF v, code
<1> QED BY <1>1, <1>2, <1>3, <1>5, DefineKeeps

LEMMA ZeroExtendKeeps ==
  ASSUME LoweringInv, NEW d \in Slots, NEW x \in Slots, NEW to \in Widths, ZeroExtend(d, x, to)
  PROVE  LoweringInv'
<1> DEFINE n == bits[x]
           a == value[x]
<1>1. /\ n \in 1 .. WIDTH /\ n \in 0 .. WIDTH /\ a \in 0 .. Pow2[n] - 1 /\ n < to
      /\ Define(d, to, a, 0, visitZExtInst, a)
  BY SlotFacts DEF ZeroExtend
<1>2. to \in 1 .. WIDTH /\ to \in 0 .. WIDTH /\ n <= to /\ 0 \in 0 .. to - 1
  BY ArithmeticAssumption, <1>1
<1> HIDE DEF n, a
<1>3. ~Traps(visitZExtInst) /\ Run(visitZExtInst, a) = a
  BY <1>1, ZeroExtendOperation
<1>4. a \in 0 .. Pow2[to] - 1 /\ a % Pow2[0] = 0
  <2>1. Pow2[n] <= Pow2[to] /\ Pow2[n] \in Nat /\ Pow2[to] \in Nat
    BY <1>1, <1>2, Pow2Grows, Pow2Type
  <2>2. a \in Int
    BY <1>1, <2>1
  <2> QED BY <1>1, <2>1, <2>2, NotShifted
<1> QED BY <1>1, <1>2, <1>3, <1>4, DefineKeeps

LEMMA TruncateKeeps ==
  ASSUME LoweringInv, NEW d \in Slots, NEW x \in Slots, NEW to \in Widths, Truncate(d, x, to)
  PROVE  LoweringInv'
<1> DEFINE n == bits[x]
           a == value[x]
           v == a % Pow2[to]
<1>1. /\ n \in 1 .. WIDTH /\ n \in 0 .. WIDTH /\ a \in 0 .. Pow2[n] - 1 /\ to < n
      /\ Define(d, to, v, 0, visitTruncInst(to), a)
  BY SlotFacts DEF Truncate
<1>2. to \in 0 .. n - 1 /\ to \in 0 .. WIDTH /\ 0 \in 0 .. to - 1
  <2>1. to \in 1 .. WIDTH
    BY ArithmeticAssumption
  <2> QED BY <1>1, <2>1, WidthFacts
<1> HIDE DEF n, a
<1>3. ~Traps(visitTruncInst(to)) /\ Run(visitTruncInst(to), a) = v
  BY <1>1, <1>2, TruncateOperation
<1>4. v \in 0 .. Pow2[to] - 1 /\ v % Pow2[0] = 0
  <2>1. a \in Int
    BY <1>1, Pow2Type
  <2> QED BY <2>1, <1>2, CutFits
<1> HIDE DEF v
<1> QED BY <1>1, <1>2, <1>3, <1>4, DefineKeeps

LEMMA CallKeeps ==
  ASSUME LoweringInv, NEW N \in 1 .. MaxArgs, NEW args \in [1 .. N -> Slots], NEW i \in 1 .. N,
         NEW d \in Slots, CallPacked(d, args, i)
  PROVE  LoweringInv'
<1> DEFINE sizes == [k \in DOMAIN args |-> bits[args[k]]]
           words == [k \in DOMAIN args |-> reg[args[k]]]
           n == sizes[i]
           v == value[args[i]]
           word == Passed(sizes, words, i)
<1>0. N \in Nat /\ DOMAIN args = 1 .. N /\ \A k \in 1 .. N : args[k] \in Slots
  BY LoweringAssumption
<1>1. Define(d, n, v, 0, <<>>, word)
  BY DEF CallPacked
<1>2. \A k \in 1 .. N : sizes[k] = bits[args[k]] /\ words[k] = value[args[k]]
  BY <1>0, SlotFacts
<1>3. IsSizes(sizes, N)
  <2>1. sizes = [k \in 1 .. N |-> sizes[k]]
    BY <1>0
  <2>2. \A k \in 1 .. N : sizes[k] \in 1 .. WIDTH
    BY <1>0, <1>2, SlotFacts
  <2> HIDE DEF sizes
  <2> QED BY <2>1, <2>2, <1>0, LenOfFunction DEF IsSizes
<1>4. IsValues(words, sizes, N)
  <2>1. \A k \in 1 .. N : value[args[k]] \in 0 .. Pow2[bits[args[k]]] - 1
    BY <1>0, SlotFacts
  <2> HIDE DEF sizes, words
  <2> QED BY <2>1, <1>2 DEF IsValues
<1>5. n \in Widths /\ n \in 1 .. WIDTH /\ v \in 0 .. Pow2[n] - 1 /\ words[i] = v
  BY <1>0, <1>2, SlotFacts
<1> HIDE DEF sizes, words
<1>6. word = v
  BY <1>0, <1>3, <1>4, <1>5, PassedUnchanged
<1> HIDE DEF n, v, word
<1>7. Run(<<>>, word) = v /\ ~Traps(<<>>)
  BY <1>6, RunNone
<1>8. v % Pow2[0] = 0 /\ 0 \in 0 .. n - 1
  <2>1. v \in Int
    BY <1>5, WidthFacts, Pow2Type
  <2> QED BY <2>1, <1>5, NotShifted
<1> QED BY <1>1, <1>5, <1>7, <1>8, DefineKeeps

(* The extensions the back end does for sext end at a word.                *)
OnlyToWord == SExtTargets \subseteq {WIDTH}

LEMMA LoweringNext == OnlyToWord /\ LoweringInv /\ [Next]_vars => LoweringInv'
<1> SUFFICES ASSUME OnlyToWord, LoweringInv, [Next]_vars PROVE LoweringInv'
  OBVIOUS
<1>1. ASSUME NEW d \in Slots, NEW x \in Slots, NEW y \in Slots,
             NEW kind \in BopKind \cup CondKind, Operate(kind, d, x, y)
      PROVE  LoweringInv'
  BY <1>1, OperateKeeps
<1>2. ASSUME NEW d \in Slots, NEW x \in Slots, NEW kind \in BopKind, NEW c \in Word,
             OperateConstant(kind, d, x, c)
      PROVE  LoweringInv'
  BY <1>2, OperateConstantKeeps
<1>3. ASSUME NEW d \in Slots, NEW x \in Slots, Negate(d, x)
      PROVE  LoweringInv'
  BY <1>3, NegateKeeps
<1>4. ASSUME NEW d \in Slots, NEW x \in Slots, NEW to \in SExtTargets, SignExtend(d, x, to)
      PROVE  LoweringInv'
  BY <1>4, SignExtendKeeps DEF OnlyToWord
<1>5. ASSUME NEW d \in Slots, NEW x \in Slots, NEW to \in Widths,
             ZeroExtend(d, x, to) \/ Truncate(d, x, to)
      PROVE  LoweringInv'
  BY <1>5, ZeroExtendKeeps, TruncateKeeps
<1>6. ASSUME NEW n \in 1 .. MaxArgs, NEW args \in [1 .. n -> Slots], NEW i \in 1 .. n,
             NEW d \in Slots, CallPacked(d, args, i)
      PROVE  LoweringInv'
  BY <1>6, CallKeeps
<1>7. CASE UNCHANGED vars
  BY <1>7 DEF LoweringInv, vars
<1> QED BY <1>1, <1>2, <1>3, <1>4, <1>5, <1>6, <1>7 DEF Next

LEMMA LoweringInvHolds == ASSUME OnlyToWord PROVE Spec => []LoweringInv
<1>1. OnlyToWord /\ LoweringInv /\ [Next]_vars => LoweringInv'
  BY LoweringNext
<1>2. LoweringInv /\ [Next]_vars => LoweringInv'
  BY <1>1
<1> QED BY <1>2, LoweringInit, PTL DEF Spec

(* The convention of the back end (Backend.cpp:71): an integer is          *)
(* zero-extended in its register, whatever instructions made it.           *)
THEOREM ZeroExtendedTheorem == ASSUME OnlyToWord PROVE Spec => []ZeroExtended
<1>1. LoweringInv => ZeroExtended
  BY DEF LoweringInv, ZeroExtended
<1> QED BY <1>1, LoweringInvHolds, PTL

(* The divisions that WeirdArithmetic, PackRegisters and the casts write   *)
(* are by no zero: the machine stops only where the source is undefined.   *)
THEOREM NoTrapAddedTheorem == ASSUME OnlyToWord PROVE Spec => []NoTrapAdded
<1>1. LoweringInv => NoTrapAdded
  BY DEF LoweringInv, NoTrapAdded
<1> QED BY <1>1, LoweringInvHolds, PTL

(* The type invariant is part of it.                                       *)
LEMMA LoweringTypes == LoweringInv => TypeOK
<1> SUFFICES ASSUME LoweringInv PROVE TypeOK
  OBVIOUS
<1>1. ASSUME NEW s \in Slots PROVE value[s] \in Word
  <2>1. Pow2[bits[s]] <= Pow2[WIDTH] /\ Pow2[bits[s]] \in Nat /\ Pow2[WIDTH] \in Nat
    <3>1. bits[s] \in 1 .. WIDTH
      BY SlotFacts
    <3>2. bits[s] <= WIDTH
      BY <3>1, WidthFacts
    <3> QED BY <3>2, SlotFacts, WidthFacts, Pow2Grows, Pow2Type
  <2> QED BY <2>1, SlotFacts DEF Word, WordRange
<1>2. reg \in [Slots -> Word]
  BY <1>1 DEF LoweringInv
<1> QED BY <1>2, SlotFacts DEF TypeOK, LoweringInv

(* Every value fits its type and every register holds a word.              *)
THEOREM LoweringTypeOK == ASSUME OnlyToWord PROVE Spec => []TypeOK
BY LoweringTypes, LoweringInvHolds, PTL

=============================================================================
