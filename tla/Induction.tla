----------------------------- MODULE Induction -----------------------------
(***************************************************************************)
(* What the proofs share.  Induction over the natural numbers, in a form   *)
(* the provers can use: over a set of numbers instead of a predicate; the  *)
(* recursive functions of the specifications are shown to exist with it.   *)
(* And arithmetic: division and powers of two.                             *)
(***************************************************************************)
EXTENDS Integers, Sequences, WellFoundedInduction, TLAPS

(* Induction over the natural numbers, from the theorem of the library     *)
(* that every set of them that is not empty has a least member.            *)
LEMMA LeastNat ==
  ASSUME NEW T, T \subseteq Nat, T # {}
  PROVE  \E n \in T : \A m \in T : n <= m
<1> DEFINE R == OpToRel(<, Nat)
<1>1. IsWellFoundedOn(R, Nat)
  BY NatLessThanWellFounded
<1>2. \A m, n \in Nat : <<m, n>> \in R <=> m < n
  BY DEF OpToRel
<1> HIDE DEF R
<1>3. PICK n \in T : \A m \in T : ~ (<<m, n>> \in R)
  BY <1>1, WFMin
<1>4. \A m \in T : ~(m < n)
  BY <1>2, <1>3
<1> QED
  BY <1>3, <1>4

LEMMA NatIsInductive ==
  ASSUME NEW S, S \subseteq Nat,
         \A n \in Nat : (\A m \in 0 .. n - 1 : m \in S) => n \in S
  PROVE  S = Nat
<1> SUFFICES ASSUME Nat \ S # {} PROVE FALSE
  OBVIOUS
<1>1. PICK n \in Nat \ S : \A m \in Nat \ S : n <= m
  BY LeastNat
<1>2. \A m \in 0 .. n - 1 : m \in S
  BY <1>1
<1> QED
  BY <1>1, <1>2

(* The same from each number to the next one, up to a bound.               *)
LEMMA UpTo ==
  ASSUME NEW N \in Nat, NEW T, 0 \in T, \A k \in 1 .. N : k - 1 \in T => k \in T
  PROVE  0 .. N \subseteq T
<1> DEFINE Good == {n \in Nat : n <= N => n \in T}
<1>1. ASSUME NEW n \in Nat, \A m \in 0 .. n - 1 : m \in Good
      PROVE  n \in Good
  <2>1. CASE n = 0
    BY <2>1
  <2>2. CASE n # 0
    <3>1. n - 1 \in Nat /\ n - 1 \in 0 .. n - 1
      BY <2>2
    <3>2. n <= N => n - 1 \in T /\ n \in 1 .. N
      BY <1>1, <2>2, <3>1
    <3> QED
      BY <3>2
  <2> QED
    BY <2>1, <2>2
<1> HIDE DEF Good
<1>2. Good = Nat
  <2>1. Good \subseteq Nat
    BY DEF Good
  <2> QED
    BY <1>1, <2>1, NatIsInductive
<1>3. \A n \in 0 .. N : n \in Nat /\ n <= N
  OBVIOUS
<1> QED
  BY <1>2, <1>3 DEF Good

(* What comes of base by steps that may differ from place to place.        *)
Iterates(g, n, base, step) == g[0] = base /\ \A k \in 1 .. n : g[k] = step[k][g[k - 1]]

LEMMA IterateExists ==
  ASSUME NEW S, NEW N \in Nat, NEW base \in S, NEW step \in [1 .. N -> [S -> S]]
  PROVE  \E g \in [0 .. N -> S] : Iterates(g, N, base, step)
<1> DEFINE Good == {n \in 0 .. N : \E g \in [0 .. n -> S] : Iterates(g, n, base, step)}
<1>1. 0 \in Good
  <2> DEFINE g == [k \in 0 .. 0 |-> base]
  <2>1. g \in [0 .. 0 -> S] /\ Iterates(g, 0, base, step)
    BY DEF Iterates
  <2>2. 0 \in 0 .. N
    OBVIOUS
  <2> HIDE DEF g
  <2> QED
    BY <2>1, <2>2
<1>2. ASSUME NEW n \in 1 .. N, n - 1 \in Good
      PROVE  n \in Good
  <2>1. PICK g \in [0 .. n - 1 -> S] : Iterates(g, n - 1, base, step)
    BY <1>2
  <2> DEFINE v == step[n][g[n - 1]]
             h == [k \in 0 .. n |-> IF k = n THEN v ELSE g[k]]
  <2>2. v \in S
    <3>1. n - 1 \in 0 .. n - 1
      OBVIOUS
    <3> QED
      BY <3>1
  <2>3. h \in [0 .. n -> S]
    BY <2>2
  <2>4. h[n] = v /\ \A k \in 0 .. n - 1 : h[k] = g[k]
    OBVIOUS
  <2> HIDE DEF h
  <2>5. h[0] = base
    <3>1. 0 \in 0 .. n - 1
      OBVIOUS
    <3> QED
      BY <2>1, <2>4, <3>1 DEF Iterates
  <2>6. ASSUME NEW k \in 1 .. n
        PROVE  h[k] = step[k][h[k - 1]]
    <3>1. k - 1 \in 0 .. n - 1
      OBVIOUS
    <3>2. CASE k = n
      BY <2>4, <3>1, <3>2
    <3>3. CASE k # n
      <4>1. k \in 1 .. n - 1 /\ k \in 0 .. n - 1
        BY <3>3
      <4> QED
        BY <2>1, <2>4, <3>1, <4>1 DEF Iterates
    <3> QED
      BY <3>2, <3>3
  <2>7. Iterates(h, n, base, step)
    BY <2>5, <2>6 DEF Iterates
  <2> QED
    BY <2>3, <2>7
<1> HIDE DEF Good
<1>3. N \in Good
  <2>1. N \in 0 .. N
    OBVIOUS
  <2> QED
    BY <1>1, <1>2, <2>1, UpTo
<1> QED
  BY <1>3 DEF Good

(* A function that at each place either has a value of its own or the      *)
(* value of an earlier place.                                              *)
Follows(g, n, base, from) ==
  \A k \in 1 .. n : g[k] = IF from[k] \in 1 .. k - 1 THEN g[from[k]] ELSE base[k]

LEMMA FollowsExists ==
  ASSUME NEW S, NEW N \in Nat, NEW base \in [1 .. N -> S], NEW from
  PROVE  \E g \in [1 .. N -> S] : Follows(g, N, base, from)
<1> DEFINE Good == {n \in Nat : n <= N => \E g \in [1 .. n -> S] : Follows(g, n, base, from)}
<1>1. ASSUME NEW n \in Nat, \A m \in 0 .. n - 1 : m \in Good
      PROVE  n \in Good
  <2> SUFFICES ASSUME n <= N PROVE \E g \in [1 .. n -> S] : Follows(g, n, base, from)
    OBVIOUS
  <2>1. CASE n = 0
    <3> DEFINE e == [k \in 1 .. n |-> base[k]]
    <3>1. e \in [1 .. n -> S]
      BY <2>1
    <3>2. Follows(e, n, base, from)
      BY <2>1 DEF Follows
    <3> QED
      BY <3>1, <3>2
  <2>2. CASE n # 0
    <3>1. n - 1 \in Good /\ n - 1 \in Nat /\ n - 1 <= N
      BY <1>1, <2>2
    <3>2. PICK g \in [1 .. n - 1 -> S] : Follows(g, n - 1, base, from)
      BY <3>1
    <3> DEFINE v == IF from[n] \in 1 .. n - 1 THEN g[from[n]] ELSE base[n]
               h == [k \in 1 .. n |-> IF k = n THEN v ELSE g[k]]
    <3>3. v \in S
      BY <3>2, <2>2
    <3>4. h \in [1 .. n -> S]
      BY <3>2, <3>3
    <3>5. \A k \in 1 .. n - 1 : h[k] = g[k]
      BY <2>2
    <3>6. h[n] = v
      BY <2>2
    <3> HIDE DEF h
    <3>7. ASSUME NEW k \in 1 .. n - 1
          PROVE  h[k] = IF from[k] \in 1 .. k - 1 THEN h[from[k]] ELSE base[k]
      <4>1. g[k] = IF from[k] \in 1 .. k - 1 THEN g[from[k]] ELSE base[k]
        BY <3>2 DEF Follows
      <4>2. from[k] \in 1 .. k - 1 => from[k] \in 1 .. n - 1
        OBVIOUS
      <4> QED
        BY <4>1, <4>2, <3>5
    <3>8. h[n] = IF from[n] \in 1 .. n - 1 THEN h[from[n]] ELSE base[n]
      BY <3>5, <3>6
    <3>9. Follows(h, n, base, from)
      <4>1. \A k \in 1 .. n : k \in 1 .. n - 1 \/ k = n
        OBVIOUS
      <4> QED
        BY <4>1, <3>7, <3>8 DEF Follows
    <3> QED
      BY <3>4, <3>9
  <2> QED
    BY <2>1, <2>2
<1>2. N \in Good
  <2> HIDE DEF Good
  <2>1. Good \subseteq Nat
    BY DEF Good
  <2>2. Good = Nat
    BY <1>1, <2>1, NatIsInductive
  <2> QED
    BY <2>2
<1> QED
  BY <1>2

LEMMA FollowsType ==
  ASSUME NEW S, NEW N \in Nat, NEW base \in [1 .. N -> S], NEW from, NEW g,
         Follows(g, N, base, from)
  PROVE  \A k \in 1 .. N : g[k] \in S
<1> DEFINE Good == {n \in Nat : n \in 1 .. N => g[n] \in S}
<1>1. ASSUME NEW n \in Nat, \A m \in 0 .. n - 1 : m \in Good
      PROVE  n \in Good
  BY <1>1 DEF Follows
<1> HIDE DEF Good
<1>2. Good = Nat
  <2>1. Good \subseteq Nat
    BY DEF Good
  <2> QED
    BY <1>1, <2>1, NatIsInductive
<1> QED
  BY <1>2 DEF Good

(* n is one of firsts, or an earlier place of which g holds is linked to   *)
(* it.                                                                     *)
IsReached(firsts, link, g, n) ==
  n \in firsts \/ \E p \in DOMAIN link : p < n /\ link[p] = n /\ g[p]

LEMMA ReachedExists ==
  ASSUME NEW N \in Nat, NEW firsts, NEW link, DOMAIN link \subseteq Nat
  PROVE  \E g : g = [n \in 0 .. N |-> IsReached(firsts, link, g, n)]
<1> DEFINE R(g, n) == IsReached(firsts, link, g, n)
           Good == {k \in Nat : \E g : g = [n \in 0 .. k |-> R(g, n)]}
<1>1. ASSUME NEW k \in Nat, \A m \in 0 .. k - 1 : m \in Good
      PROVE  k \in Good
  <2>1. PICK g : \A n \in 0 .. k - 1 : g[n] = R(g, n)
    <3>1. CASE k = 0
      BY <3>1
    <3>2. CASE k # 0
      <4>1. k - 1 \in 0 .. k - 1
        BY <3>2
      <4>2. PICK g : g = [n \in 0 .. k - 1 |-> R(g, n)]
        BY <1>1, <4>1
      <4> HIDE DEF R
      <4> QED
        BY <4>2
    <3> QED
      BY <3>1, <3>2
  <2> DEFINE h == [n \in 0 .. k |-> R(g, n)]
  <2>2. ASSUME NEW n \in 0 .. k
        PROVE  R(g, n) = R(h, n)
    <3>1. ASSUME NEW p \in DOMAIN link, p < n
          PROVE  g[p] = h[p]
      <4>1. p \in 0 .. k - 1 /\ p \in 0 .. k
        BY <3>1
      <4>2. g[p] = R(g, p)
        BY <2>1, <4>1
      <4> HIDE DEF R
      <4>3. h[p] = R(g, p)
        BY <4>1
      <4> QED
        BY <4>2, <4>3
    <3> HIDE DEF h
    <3> QED
      BY <3>1 DEF IsReached
  <2>3. h = [n \in 0 .. k |-> R(h, n)]
    <3>1. \A n \in 0 .. k : R(g, n) = R(h, n)
      BY <2>2
    <3> HIDE DEF R
    <3> QED
      BY <3>1
  <2> QED
    <3> HIDE DEF h, R
    <3> QED
      BY <2>3
<1> HIDE DEF Good
<1>2. Good = Nat
  <2>1. Good \subseteq Nat
    BY DEF Good
  <2> QED
    BY <1>1, <2>1, NatIsInductive
<1> QED
  BY <1>2 DEF Good

(* A function on 1 .. N is a sequence of length N.                         *)
LEMMA LenOfFunction ==
  ASSUME NEW N \in Nat, NEW f, f = [k \in 1 .. N |-> f[k]]
  PROVE  Len(f) = N
<1> DEFINE S == {f[k] : k \in 1 .. N}
<1>1. f \in [1 .. N -> S]
  OBVIOUS
<1>2. f \in Seq(S)
  BY <1>1
<1> QED
  BY <1>2

-----------------------------------------------------------------------------
(* Division.                                                               *)
LEMMA DivMod ==
  ASSUME NEW a \in Int, NEW b \in Nat \ {0}
  PROVE  /\ a \div b \in Int
         /\ (a % b) \in 0 .. b - 1
         /\ a = b * (a \div b) + (a % b)
OBVIOUS

LEMMA DivUnique ==
  ASSUME NEW a \in Int, NEW b \in Nat \ {0}, NEW q \in Int, NEW r \in 0 .. b - 1, a = b * q + r
  PROVE  a % b = r /\ a \div b = q
OBVIOUS

LEMMA ModSmall ==
  ASSUME NEW b \in Nat \ {0}, NEW a \in 0 .. b - 1
  PROVE  a % b = a /\ a \div b = 0
OBVIOUS

(* A multiple of b more changes nothing.                                   *)
LEMMA ModPlus ==
  ASSUME NEW a \in Int, NEW b \in Nat \ {0}, NEW q \in Int, NEW x \in Int, x = a + b * q
  PROVE  x % b = a % b
<1>1. a \div b \in Int /\ (a % b) \in 0 .. b - 1 /\ a = b * (a \div b) + (a % b)
  BY DivMod
<1>2. x = b * ((a \div b) + q) + (a % b)
  BY <1>1
<1>3. (a \div b) + q \in Int
  BY <1>1
<1> QED
  BY <1>1, <1>2, <1>3, DivUnique

LEMMA ModMod ==
  ASSUME NEW a \in Int, NEW b \in Nat \ {0}, NEW c \in Nat \ {0}, NEW d, d = b * c
  PROVE  d \in Nat \ {0} /\ (a % d) % b = a % b
<1>1. d \in Nat \ {0}
  OBVIOUS
<1>2. PICK q \in Int : a = d * q + (a % d)
  BY <1>1, DivMod
<1>3. PICK r \in Int : r = a % d
  BY <1>1, DivMod
<1>4. PICK k \in Int : k = c * q
  OBVIOUS
<1>5. a = r + b * k
  <2>1. d * q = b * k
    BY <1>4
  <2> QED
    BY <1>2, <1>3, <2>1
<1>6. a % b = r % b
  BY <1>5, ModPlus
<1> QED
  BY <1>1, <1>3, <1>6

(* Division by a product.                                                  *)
LEMMA DivDiv ==
  ASSUME NEW a \in Int, NEW b \in Nat \ {0}, NEW c \in Nat \ {0}, NEW d, d = b * c
  PROVE  a \div d = (a \div b) \div c
<1>0. d \in Nat \ {0}
  OBVIOUS
<1>1. PICK q \in Int : q = a \div b
  BY DivMod
<1>2. PICK r \in 0 .. b - 1 : r = a % b
  BY DivMod
<1>3. a = b * q + r
  BY <1>1, <1>2, DivMod
<1>4. PICK e \in Int : e = q \div c
  BY <1>1, DivMod
<1>5. PICK t \in 0 .. c - 1 : t = q % c
  BY <1>1, DivMod
<1>6. q = c * e + t
  BY <1>1, <1>4, <1>5, DivMod
<1>7. PICK s \in Int : s = b * t + r
  OBVIOUS
<1>8. s \in 0 .. d - 1
  <2>1. PICK u \in Nat \ {0} : u = c - t
    BY <1>5
  <2>2. t = c - u
    BY <2>1, <1>5
  <2>3. b * t = b * c - b * u
    BY <2>2, <2>1
  <2>4. b * u >= b
    BY <2>1
  <2>5. b * t >= 0
    BY <1>5
  <2> QED BY <2>3, <2>4, <2>5, <1>7, <1>2, <1>0
<1>9. a = d * e + s
  <2>1. PICK x \in Int : x = c * e
    BY <1>4
  <2>2. b * (x + t) = b * x + b * t
    BY <2>1, <1>5
  <2>3. b * (c * e) = (b * c) * e
    BY <1>4
  <2> QED BY <2>1, <2>2, <2>3, <1>3, <1>6, <1>7, <1>2
<1>10. a \div d = e
  BY <1>8, <1>9, <1>0, <1>4, DivUnique
<1> QED BY <1>10, <1>4, <1>1

(* A digit more below a number.                                            *)
LEMMA ProductFits ==
  ASSUME NEW a \in Nat, NEW p \in Nat, NEW m \in Nat \ {0}, NEW r \in 0 .. m - 1, a < p
  PROVE  a * m + r < p * m /\ a * m + r \in Nat
<1>1. PICK u \in Nat \ {0} : u = p - a
  OBVIOUS
<1>2. p = a + u
  BY <1>1
<1>3. (a + u) * m = a * m + u * m
  BY <1>1
<1>4. u * m >= m
  BY <1>1
<1>5. a * m >= 0 /\ a * m \in Int
  OBVIOUS
<1> QED BY <1>2, <1>3, <1>4, <1>5

-----------------------------------------------------------------------------
(* Powers of two, up to the N-th.                                          *)
IsPow2(p, N) ==
  /\ p[0] = 1
  /\ \A n \in 0 .. N : p[n] \in Nat \ {0}
  /\ \A n \in 1 .. N : p[n] = 2 * p[n - 1]

LEMMA Pow2Exist ==
  ASSUME NEW N \in Nat
  PROVE  \E p : p = [n \in 0 .. N |-> IF n = 0 THEN 1 ELSE 2 * p[n - 1]]
<1> DEFINE P == Nat \ {0}
           step == [k \in 1 .. N |-> [x \in P |-> 2 * x]]
<1>1. 1 \in P /\ step \in [1 .. N -> [P -> P]]
  OBVIOUS
<1>2. \A k \in 1 .. N : \A x \in P : step[k][x] = 2 * x
  OBVIOUS
<1> HIDE DEF step, P
<1>3. PICK p \in [0 .. N -> P] : Iterates(p, N, 1, step)
  BY <1>1, IterateExists
<1>4. ASSUME NEW n \in 0 .. N
      PROVE  p[n] = IF n = 0 THEN 1 ELSE 2 * p[n - 1]
  <2>1. CASE n = 0
    BY <1>3, <2>1 DEF Iterates
  <2>2. CASE n # 0
    <3>1. n \in 1 .. N /\ n - 1 \in 0 .. N
      BY <2>2
    <3>2. p[n] = step[n][p[n - 1]]
      BY <1>3, <3>1 DEF Iterates
    <3> QED
      BY <1>2, <1>3, <2>2, <3>1, <3>2
  <2> QED
    BY <2>1, <2>2
<1> QED
  BY <1>3, <1>4

LEMMA Pow2Unfold ==
  ASSUME NEW N \in Nat, NEW p, p = [n \in 0 .. N |-> IF n = 0 THEN 1 ELSE 2 * p[n - 1]]
  PROVE  IsPow2(p, N)
<1> DEFINE T == {n \in 0 .. N : p[n] \in Nat \ {0}}
<1>1. p[0] = 1 /\ \A n \in 1 .. N : p[n] = 2 * p[n - 1]
  <2>1. 0 \in 0 .. N /\ \A n \in 1 .. N : n \in 0 .. N /\ n # 0
    OBVIOUS
  <2> QED
    BY <2>1
<1>2. 0 \in T /\ \A n \in 1 .. N : n - 1 \in T => n \in T
  BY <1>1
<1> HIDE DEF T
<1>3. 0 .. N \subseteq T
  BY <1>2, UpTo
<1> QED
  BY <1>1, <1>3 DEF IsPow2, T

LEMMA Pow2Plus ==
  ASSUME NEW N \in Nat, NEW p, IsPow2(p, N), NEW m \in 0 .. N, NEW n \in 0 .. N, m + n <= N
  PROVE  p[m + n] = p[m] * p[n]
<1> DEFINE T == {k \in 0 .. N - m : p[m + k] = p[m] * p[k]}
<1>1. N - m \in Nat
  OBVIOUS
<1>2. p[m] \in Nat
  BY DEF IsPow2
<1>3. 0 \in T
  BY <1>1, <1>2 DEF IsPow2
<1>4. ASSUME NEW k \in 1 .. N - m, k - 1 \in T
      PROVE  k \in T
  <2>1. k \in 1 .. N /\ k - 1 \in 0 .. N /\ m + k \in 1 .. N /\ (m + k) - 1 = m + (k - 1)
    BY <1>1
  <2>2. p[k] = 2 * p[k - 1] /\ p[m + k] = 2 * p[m + (k - 1)]
    BY <2>1 DEF IsPow2
  <2>3. p[m + (k - 1)] = p[m] * p[k - 1]
    BY <1>4
  <2>4. p[k - 1] \in Nat
    BY <2>1 DEF IsPow2
  <2>5. 2 * (p[m] * p[k - 1]) = p[m] * (2 * p[k - 1])
    BY <1>2, <2>4
  <2> QED
    BY <2>1, <2>2, <2>3, <2>5
<1> HIDE DEF T
<1>5. 0 .. N - m \subseteq T
  BY <1>1, <1>3, <1>4, UpTo
<1>6. n \in 0 .. N - m
  BY <1>1
<1> QED
  BY <1>5, <1>6 DEF T

=============================================================================
