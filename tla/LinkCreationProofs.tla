-------------------------- MODULE LinkCreationProofs ---------------------------
(***************************************************************************)
(* For any base, code length and keys that parseShortcodeKeys() accepts:   *)
(* distinct numbers of the code space have distinct codes, and a code is   *)
(* read back as the number it was made of.  Hence, for any number of       *)
(* requests, aliases, ids and attempts, and from the promise of UniqueIds: *)
(* a generated code meets aliases only, and a create gives up only after   *)
(* it has met one in each attempt.                                         *)
(*                                                                         *)
(* The first half is arithmetic.  A key that no prime factor of Base       *)
(* divides has an inverse modulo Base (Bezout: the least positive          *)
(* combination of both divides both), hence modulo its powers, hence an    *)
(* affine map is one to one; and a number is determined by its digits,     *)
(* which reverseDigits() and encodeBase62() keep.  Loops are recursive     *)
(* functions: that they exist, and what holds of them, is shown with       *)
(* Induction, from the least-element principle.                            *)
(*                                                                         *)
(* The second half is the protocol.  OnlyAliasesCollide is not inductive:  *)
(* a row or another request could already have the id of this one.  That   *)
(* they cannot is what Stored and InHand say, and Met says it of the rows  *)
(* met in earlier attempts.                                                *)
(***************************************************************************)
EXTENDS LinkCreation, Integers, FiniteSetTheorems, WellFoundedInduction, TLAPS

LEMMA LeastNatural ==
    ASSUME NEW T \in SUBSET Nat, T # {}
    PROVE  \E x \in T : \A y \in T : x <= y
<1>1. PICK R : R = OpToRel(<, Nat)
  OBVIOUS
<1>2. IsWellFoundedOn(R, Nat)
  BY <1>1, NatLessThanWellFounded
<1>3. PICK x \in T : \A y \in T : ~(<<y, x>> \in R)
  BY <1>2, WFMin
<1>4. \A y \in T : y < x => <<y, x>> \in R
  BY <1>1 DEF OpToRel
<1>5. \A y \in T : ~(y < x)
  BY <1>3, <1>4
<1>6. x \in Nat /\ \A y \in T : y \in Nat
  OBVIOUS
<1>7. \A y \in T : x <= y
  BY <1>5, <1>6
<1> QED
  BY <1>7

(* Induction, for a set of numbers. *)
LEMMA Induction ==
    ASSUME NEW S, 0 \in S, \A n \in Nat : n \in S => n + 1 \in S
    PROVE  Nat \subseteq S
<1>1. SUFFICES ASSUME Nat \ S # {} PROVE FALSE
  OBVIOUS
<1>2. PICK T \in SUBSET Nat : T = Nat \ S
  OBVIOUS
<1>3. PICK x \in T : \A y \in T : x <= y
  BY <1>1, <1>2, LeastNatural
<1>4. x \in Nat /\ x # 0
  BY <1>2
<1>5. x - 1 \in Nat /\ x - 1 \notin T
  BY <1>3, <1>4
<1> QED
  BY <1>2, <1>3, <1>4, <1>5

(* A function on 0..n may be defined by recursion. *)
ByRecursion(f, n, a, g) == f[0] = a /\ \A k \in 1..n : f[k] = g[<<f[k - 1], k>>]

LEMMA Recursion ==
    ASSUME NEW n \in Nat, NEW S, NEW a \in S, NEW g \in [S \X (1..n) -> S]
    PROVE  \E f \in [0..n -> S] : ByRecursion(f, n, a, g)
<1> DEFINE Upto(m) == \E f \in [0..m -> S] : ByRecursion(f, m, a, g)
           T == {m \in Nat : m <= n => Upto(m)}
<1>1. 0 \in T
  <2>1. PICK f : f = [k \in 0..0 |-> a]
    OBVIOUS
  <2>2. f \in [0..0 -> S] /\ ByRecursion(f, 0, a, g)
    BY <2>1 DEF ByRecursion
  <2> QED
    BY <2>2
<1>2. ASSUME NEW m \in Nat, m \in T PROVE m + 1 \in T
  <2>1. SUFFICES ASSUME m + 1 <= n PROVE Upto(m + 1)
    OBVIOUS
  <2>2. PICK f \in [0..m -> S] : f[0] = a /\ \A k \in 1..m : f[k] = g[<<f[k - 1], k>>]
    BY <1>2, <2>1 DEF ByRecursion
  <2>3. PICK h : h = [k \in 0..m + 1 |-> IF k = m + 1 THEN g[<<f[m], m + 1>>] ELSE f[k]]
    OBVIOUS
  <2>4. <<f[m], m + 1>> \in S \X (1..n)
    BY <2>1, <2>2
  <2>5. h \in [0..m + 1 -> S]
    <3>1. ASSUME NEW k \in 0..m + 1 PROVE (IF k = m + 1 THEN g[<<f[m], m + 1>>] ELSE f[k]) \in S
      BY <2>2, <2>4
    <3> QED
      BY <2>3, <3>1
  <2>6. h[0] = a
    BY <2>2, <2>3
  <2>7. ASSUME NEW k \in 1..m + 1 PROVE h[k] = g[<<h[k - 1], k>>]
    <3>1. CASE k = m + 1
      <4>1. h[k] = g[<<f[m], m + 1>>] /\ h[k - 1] = f[m]
        BY <2>3, <3>1
      <4> QED
        BY <3>1, <4>1
    <3>2. CASE k # m + 1
      <4>1. k \in 1..m /\ h[k] = f[k] /\ h[k - 1] = f[k - 1]
        BY <2>3, <3>2
      <4> QED
        BY <2>2, <4>1
    <3> QED
      BY <3>1, <3>2
  <2>8. ByRecursion(h, m + 1, a, g)
    BY <2>6, <2>7 DEF ByRecursion
  <2> QED
    BY <2>5, <2>8
<1>3. Nat \subseteq T
  <2> HIDE DEF T
  <2> QED
    BY <1>1, <1>2, Induction
<1>4. n \in T
  <2> HIDE DEF T
  <2> QED
    BY <1>3
<1>5. Upto(n)
  <2> HIDE DEF Upto
  <2> QED
    BY <1>4
<1> QED
  BY <1>5

LEMMA DivMod ==
    ASSUME NEW x \in Nat, NEW m \in Nat \ {0}
    PROVE  x \div m \in Nat /\ x % m \in 0..m - 1 /\ x = (x \div m) * m + (x % m)
OBVIOUS

LEMMA DivModUnique ==
    ASSUME NEW m \in Nat \ {0}, NEW q \in Nat, NEW r \in 0..m - 1
    PROVE  (q * m + r) \div m = q /\ (q * m + r) % m = r
OBVIOUS

LEMMA QuotientUnique ==
    ASSUME NEW m \in Nat \ {0}, NEW a \in Nat, NEW s \in 0..m - 1, NEW c \in Nat,
           NEW t \in 0..m - 1, a * m + s = c * m + t
    PROVE  a = c /\ s = t
OBVIOUS

LEMMA DivDiv ==
    ASSUME NEW x \in Nat, NEW p \in Nat \ {0}, NEW b \in Nat \ {0}
    PROVE  (x \div p) \div b = x \div (p * b)
<1>1. PICK q \in Nat, s \in 0..p - 1 : q = x \div p /\ x = q * p + s
  BY DivMod
<1>2. PICK c \in Nat, t \in 0..b - 1 : c = q \div b /\ q = c * b + t
  BY DivMod
<1>3. x = c * (p * b) + (t * p + s)
  <2>1. x = (c * b + t) * p + s
    BY <1>1, <1>2
  <2>2. \A i, j, k, l, m \in Nat : (i * j + k) * l + m = i * (l * j) + (k * l + m)
    OBVIOUS
  <2>3. s \in Nat /\ t \in Nat
    OBVIOUS
  <2> QED
    BY <2>1, <2>2, <2>3
<1>4. p * b \in Nat \ {0}
  OBVIOUS
<1>5. t * p + s \in 0..p * b - 1
  <2>1. t * p <= (b - 1) * p /\ t * p >= 0
    OBVIOUS
  <2>2. (b - 1) * p = p * b - p
    OBVIOUS
  <2> QED
    BY <1>4, <2>1, <2>2
<1>6. x \div (p * b) = c
  BY <1>3, <1>4, <1>5, DivModUnique
<1> QED
  BY <1>1, <1>2, <1>6

LEMMA Sizes == Base \in Nat /\ Base >= 2 /\ Length \in Nat /\ Length >= 1
BY SizesAssumption

LEMMA Powers ==
    /\ Power[0] = 1
    /\ \A k \in 1..Length : Power[k] = Power[k - 1] * Base
    /\ \A k \in 0..Length : Power[k] \in Nat \ {0}
<1> DEFINE S == Nat \ {0}
           g == [z \in S \X (1..Length) |-> z[1] * Base]
<1>1. g \in [S \X (1..Length) -> S]
  <2>1. ASSUME NEW z \in S \X (1..Length) PROVE z[1] * Base \in S
    <3>1. z[1] \in Nat /\ z[1] >= 1
      OBVIOUS
    <3> HIDE DEF S
    <3>2. \A y \in Nat : y >= 1 => y * Base \in Nat /\ y * Base >= 1
      BY Sizes
    <3> QED
      BY <3>1, <3>2 DEF S
  <2> QED
    BY <2>1
<1>2. 1 \in S
  OBVIOUS
<1>3. PICK f \in [0..Length -> S] : f[0] = 1 /\ \A k \in 1..Length : f[k] = g[<<f[k - 1], k>>]
  <2>1. Length \in Nat
    BY Sizes
  <2> HIDE DEF S, g
  <2>2. PICK f \in [0..Length -> S] : ByRecursion(f, Length, 1, g)
    BY <1>1, <1>2, <2>1, Recursion
  <2> QED
    BY <2>2 DEF ByRecursion
<1>4. f = [k \in 0..Length |-> IF k = 0 THEN 1 ELSE f[k - 1] * Base]
  <2>1. ASSUME NEW k \in 0..Length PROVE f[k] = IF k = 0 THEN 1 ELSE f[k - 1] * Base
    <3>1. CASE k = 0
      BY <1>3, <3>1
    <3>2. CASE k # 0
      <4>1. k \in 1..Length /\ k - 1 \in 0..Length
        BY Sizes, <3>2
      <4>2. <<f[k - 1], k>> \in S \X (1..Length)
        BY <1>3, <4>1
      <4> QED
        BY <1>3, <3>2, <4>1, <4>2
    <3> QED
      BY <3>1, <3>2
  <2> QED
    BY <2>1
<1>5. Power = [k \in 0..Length |-> IF k = 0 THEN 1 ELSE Power[k - 1] * Base]
  BY <1>4 DEF Power
<1>6. Power[0] = 1 /\ \A k \in 1..Length : Power[k] = Power[k - 1] * Base
  <2>1. 0 \in 0..Length /\ \A k \in 1..Length : k \in 0..Length /\ k # 0
    BY Sizes
  <2> QED
    BY <1>5, <2>1
<1>7. \A k \in 0..Length : Power[k] \in S
  <2> DEFINE T == {m \in Nat : m <= Length => Power[m] \in S}
  <2>1. 0 \in T
    BY <1>6
  <2>2. ASSUME NEW m \in Nat, m \in T PROVE m + 1 \in T
    <3>1. SUFFICES ASSUME m + 1 <= Length PROVE Power[m + 1] \in S
      OBVIOUS
    <3>2. m + 1 \in 1..Length /\ (m + 1) - 1 = m /\ m <= Length
      BY Sizes, <3>1
    <3>3. Power[m + 1] = Power[m] * Base /\ Power[m] \in S
      BY <1>6, <2>2, <3>2
    <3>4. \A y \in Nat : y >= 1 => y * Base \in Nat /\ y * Base >= 1
      BY Sizes
    <3> QED
      BY <3>3, <3>4
  <2>3. Nat \subseteq T
    <3> HIDE DEF T
    <3> QED
      BY <2>1, <2>2, Induction
  <2> QED
    BY <2>3, Sizes
<1> QED
  BY <1>6, <1>7

LEMMA DigitType ==
    ASSUME NEW x \in Nat, NEW k \in 0..Length
    PROVE  Digit(x, k) \in 0..Base - 1 /\ x \div Power[k] \in Nat
<1>1. PICK m \in Nat \ {0} : m = Power[k]
  BY Powers
<1>2. x \div m \in Nat
  BY DivMod
<1>3. (x \div m) % Base \in 0..Base - 1
  BY <1>2, Sizes, DivMod
<1> QED
  BY <1>1, <1>2, <1>3 DEF Digit

(* "n /= 62n": a digit is split off, and a quotient is left. *)
LEMMA NextQuotient ==
    ASSUME NEW x \in Nat, NEW k \in 0..Length - 1
    PROVE  x \div Power[k] = (x \div Power[k + 1]) * Base + Digit(x, k)
<1>1. k \in 0..Length /\ k + 1 \in 1..Length /\ (k + 1) - 1 = k
  BY Sizes
<1>2. PICK m \in Nat \ {0} : m = Power[k]
  BY <1>1, Powers
<1>3. Power[k + 1] = m * Base
  BY <1>1, <1>2, Powers
<1>4. (x \div m) \div Base = x \div (m * Base)
  BY Sizes, DivDiv
<1>5. x \div m \in Nat
  BY DivMod
<1>6. x \div m = ((x \div m) \div Base) * Base + ((x \div m) % Base)
  BY <1>5, Sizes, DivMod
<1> QED
  BY <1>2, <1>3, <1>4, <1>6 DEF Digit

LEMMA Space == CodeSpace \in Nat \ {0} /\ \A x \in 0..CodeSpace - 1 : x \in Nat /\ x \div CodeSpace = 0
<1>1. PICK m \in Nat \ {0} : m = CodeSpace
  BY Sizes, Powers DEF CodeSpace
<1>2. \A x \in 0..m - 1 : x \in Nat /\ x \div m = 0
  OBVIOUS
<1> QED
  BY <1>1, <1>2

LEMMA DivOne == \A x \in Nat : x \div Power[0] = x
<1>1. \A x \in Nat : x \div 1 = x
  OBVIOUS
<1> QED
  BY <1>1, Powers

(* A number of the code space is determined by its digits. *)
LEMMA SameDigits ==
    ASSUME NEW x \in 0..CodeSpace - 1, NEW y \in 0..CodeSpace - 1,
           \A k \in 0..Length - 1 : Digit(x, k) = Digit(y, k)
    PROVE  x = y
<1> DEFINE T == {j \in Nat : j <= Length => x \div Power[Length - j] = y \div Power[Length - j]}
<1>0. x \in Nat /\ y \in Nat
  BY Space
<1>1. 0 \in T
  <2>1. Length - 0 = Length
    BY Sizes
  <2> QED
    BY <2>1, Space DEF CodeSpace
<1>2. ASSUME NEW j \in Nat, j \in T PROVE j + 1 \in T
  <2>1. SUFFICES ASSUME j + 1 <= Length
                 PROVE  x \div Power[Length - (j + 1)] = y \div Power[Length - (j + 1)]
    OBVIOUS
  <2>2. PICK k \in 0..Length - 1 : k = Length - (j + 1) /\ k + 1 = Length - j
    <3>1. Length - (j + 1) \in 0..Length - 1 /\ (Length - (j + 1)) + 1 = Length - j
      BY Sizes, <2>1
    <3> QED
      BY <3>1
  <2>3. x \div Power[k + 1] = y \div Power[k + 1]
    <3>1. j <= Length
      BY <2>1, Sizes
    <3>2. x \div Power[Length - j] = y \div Power[Length - j]
      BY <1>2, <3>1
    <3> QED
      BY <2>2, <3>2
  <2>4. x \div Power[k] = y \div Power[k]
    BY <1>0, <2>3, NextQuotient
  <2> QED
    BY <2>2, <2>4
<1>3. Length \in T
  <2> HIDE DEF T
  <2> QED
    BY <1>1, <1>2, Induction, Sizes
<1>4. x \div Power[0] = y \div Power[0]
  <2>1. Length - Length = 0 /\ Length <= Length
    BY Sizes
  <2> QED
    BY <1>3, <2>1
<1> QED
  BY <1>0, <1>4, DivOne

(* The loop of reverseDigits(). *)
LEMMA Reversing ==
    ASSUME NEW x \in Nat
    PROVE  \E r \in [0..Length -> Nat] :
              /\ r[0] = 0 /\ \A k \in 1..Length : r[k] = r[k - 1] * Base + Digit(x, k - 1)
              /\ ReverseDigits(x) = r[Length] /\ ReverseDigits(x) \in 0..CodeSpace - 1
<1> DEFINE g == [z \in Nat \X (1..Length) |-> z[1] * Base + Digit(x, z[2] - 1)]
           Loop(r) == [k \in 0..Length |-> IF k = 0 THEN 0 ELSE r[k - 1] * Base + Digit(x, k - 1)]
<1>1. \A k \in 1..Length : k - 1 \in 0..Length /\ k - 1 \in 0..Length - 1 /\ Digit(x, k - 1) \in 0..Base - 1
  <2>1. \A k \in 1..Length : k - 1 \in 0..Length /\ k - 1 \in 0..Length - 1
    BY Sizes
  <2> QED
    BY <2>1, DigitType
<1>2. g \in [Nat \X (1..Length) -> Nat]
  <2>1. ASSUME NEW z \in Nat \X (1..Length) PROVE z[1] * Base + Digit(x, z[2] - 1) \in Nat
    <3>1. z[1] \in Nat /\ z[2] \in 1..Length
      OBVIOUS
    <3>2. Digit(x, z[2] - 1) \in Nat /\ z[1] * Base \in Nat
      BY <1>1, <3>1, Sizes
    <3> QED
      BY <3>2
  <2> QED
    BY <2>1
<1>3. \E f : f = Loop(f)
  <2>1. PICK f \in [0..Length -> Nat] : ByRecursion(f, Length, 0, g)
    <3> HIDE DEF g
    <3> QED
      BY <1>2, Sizes, Recursion
  <2>2. ASSUME NEW k \in 0..Length PROVE f[k] = IF k = 0 THEN 0 ELSE f[k - 1] * Base + Digit(x, k - 1)
    <3>1. CASE k = 0
      BY <2>1, <3>1 DEF ByRecursion
    <3>2. CASE k # 0
      <4>1. k \in 1..Length /\ k - 1 \in 0..Length
        BY Sizes, <3>2
      <4>2. f[k] = g[<<f[k - 1], k>>] /\ <<f[k - 1], k>> \in Nat \X (1..Length)
        BY <2>1, <4>1 DEF ByRecursion
      <4>3. g[<<f[k - 1], k>>] = f[k - 1] * Base + Digit(x, k - 1)
        BY <4>2
      <4> QED
        BY <3>2, <4>2, <4>3
    <3> QED
      BY <3>1, <3>2
  <2>3. f = Loop(f)
    BY <2>1, <2>2
  <2> QED
    BY <2>3
<1>4. PICK r : r = (CHOOSE f : f = Loop(f))
  OBVIOUS
<1>5. r = Loop(r) /\ ReverseDigits(x) = r[Length]
  <2>1. r = Loop(r)
    <3> HIDE DEF Loop
    <3> QED
      BY <1>3, <1>4
  <2>2. ReverseDigits(x) = r[Length]
    BY <1>4 DEF ReverseDigits
  <2> QED
    BY <2>1, <2>2
<1>6. r[0] = 0 /\ \A k \in 1..Length : r[k] = r[k - 1] * Base + Digit(x, k - 1)
  <2>1. 0 \in 0..Length /\ \A k \in 1..Length : k \in 0..Length /\ k # 0
    BY Sizes
  <2> QED
    BY <1>5, <2>1
<1>7. \A k \in 0..Length : r[k] \in Nat /\ r[k] < Power[k]
  <2> DEFINE T == {m \in Nat : m <= Length => r[m] \in Nat /\ r[m] < Power[m]}
  <2>1. 0 \in T
    BY <1>6, Powers
  <2>2. ASSUME NEW m \in Nat, m \in T PROVE m + 1 \in T
    <3>1. SUFFICES ASSUME m + 1 <= Length PROVE r[m + 1] \in Nat /\ r[m + 1] < Power[m + 1]
      OBVIOUS
    <3>2. m + 1 \in 1..Length /\ (m + 1) - 1 = m /\ m <= Length /\ m \in 0..Length
      BY Sizes, <3>1
    <3>3. PICK a \in Nat, d \in 0..Base - 1, w \in Nat :
              a = r[m] /\ d = Digit(x, m) /\ w = Power[m] /\ a <= w - 1
      <4>1. r[m] \in Nat /\ r[m] < Power[m]
        BY <2>2, <3>2
      <4>2. Power[m] \in Nat
        BY <3>2, Powers
      <4>3. Digit(x, m) \in 0..Base - 1
        BY <3>2, DigitType
      <4> QED
        BY <4>1, <4>2, <4>3
    <3>4. r[m + 1] = a * Base + d /\ Power[m + 1] = w * Base
      BY <1>6, <3>2, <3>3, Powers
    <3>5. a * Base <= (w - 1) * Base /\ (w - 1) * Base = w * Base - Base
      BY <3>3, Sizes
    <3>6. a * Base \in Nat /\ w * Base \in Nat
      BY Sizes
    <3> QED
      BY <3>4, <3>5, <3>6, Sizes
  <2>3. Nat \subseteq T
    <3> HIDE DEF T
    <3> QED
      BY <2>1, <2>2, Induction
  <2> QED
    BY <2>3, Sizes
<1>8. r \in [0..Length -> Nat]
  BY <1>5, <1>7
<1>9. r[Length] \in 0..CodeSpace - 1
  <2>1. Length \in 0..Length
    BY Sizes
  <2>2. r[Length] \in Nat /\ r[Length] < CodeSpace
    BY <1>7, <2>1 DEF CodeSpace
  <2> QED
    BY <2>2, Space
<1> QED
  BY <1>5, <1>6, <1>8, <1>9

LEMMA ReverseInjective ==
    ASSUME NEW x \in 0..CodeSpace - 1, NEW y \in 0..CodeSpace - 1, ReverseDigits(x) = ReverseDigits(y)
    PROVE  x = y
<1>0. x \in Nat /\ y \in Nat
  BY Space
<1>1. PICK r \in [0..Length -> Nat] :
          /\ \A k \in 1..Length : r[k] = r[k - 1] * Base + Digit(x, k - 1)
          /\ ReverseDigits(x) = r[Length]
  BY <1>0, Reversing
<1>2. PICK s \in [0..Length -> Nat] :
          /\ \A k \in 1..Length : s[k] = s[k - 1] * Base + Digit(y, k - 1)
          /\ ReverseDigits(y) = s[Length]
  BY <1>0, Reversing
<1>3. ASSUME NEW k \in 1..Length, r[k] = s[k]
      PROVE  r[k - 1] = s[k - 1] /\ Digit(x, k - 1) = Digit(y, k - 1)
  <2>1. k - 1 \in 0..Length
    BY Sizes
  <2>2. PICK a \in Nat, c \in Nat, d \in 0..Base - 1, e \in 0..Base - 1 :
            a = r[k - 1] /\ c = s[k - 1] /\ d = Digit(x, k - 1) /\ e = Digit(y, k - 1)
    <3>1. r[k - 1] \in Nat /\ s[k - 1] \in Nat
      BY <2>1
    <3>2. Digit(x, k - 1) \in 0..Base - 1 /\ Digit(y, k - 1) \in 0..Base - 1
      BY <1>0, <2>1, DigitType
    <3> QED
      BY <3>1, <3>2
  <2>3. a * Base + d = c * Base + e
    BY <1>1, <1>2, <1>3, <2>2
  <2>4. Base \in Nat \ {0}
    BY Sizes
  <2>5. a = c /\ d = e
    BY <2>3, <2>4, QuotientUnique
  <2> QED
    BY <2>2, <2>5
<1> DEFINE T == {j \in Nat : j <= Length => r[Length - j] = s[Length - j]}
<1>4. 0 \in T
  <2>1. Length - 0 = Length
    BY Sizes
  <2> QED
    BY <1>1, <1>2, <2>1
<1>5. ASSUME NEW j \in Nat, j \in T PROVE j + 1 \in T
  <2>1. SUFFICES ASSUME j + 1 <= Length PROVE r[Length - (j + 1)] = s[Length - (j + 1)]
    OBVIOUS
  <2>2. j <= Length /\ Length - j \in 1..Length /\ (Length - j) - 1 = Length - (j + 1)
    BY <2>1, Sizes
  <2>3. r[Length - j] = s[Length - j]
    BY <1>5, <2>2
  <2> QED
    BY <1>3, <2>2, <2>3
<1>6. Nat \subseteq T
  <2> HIDE DEF T
  <2> QED
    BY <1>4, <1>5, Induction
<1>7. ASSUME NEW k \in 0..Length - 1 PROVE Digit(x, k) = Digit(y, k)
  <2>1. PICK j \in Nat : j = Length - (k + 1) /\ j <= Length /\ Length - j = k + 1
                         /\ k + 1 \in 1..Length /\ (k + 1) - 1 = k
    <3>1. Length - (k + 1) \in Nat /\ Length - (k + 1) <= Length /\ Length - (Length - (k + 1)) = k + 1
          /\ k + 1 \in 1..Length /\ (k + 1) - 1 = k
      BY Sizes
    <3> QED
      BY <3>1
  <2>2. r[k + 1] = s[k + 1]
    BY <1>6, <2>1
  <2> QED
    BY <1>3, <2>1, <2>2
<1> QED
  BY <1>7, SameDigits

--------------------------------------------------------------------------------
(* The greatest common divisor of the key and Base is a combination of both. *)
Unit(p, m) == \E u, v \in Int : p * u = 1 + v * m

LEMMA Bezout ==
    ASSUME NEW p \in Nat \ {0}, \A q \in Primes : p % q # 0
    PROVE  Unit(p, Base)
<1>1. PICK b \in Nat \ {0} : b = Base /\ b >= 2
  BY Sizes
<1> DEFINE T == {d \in Nat : d > 0 /\ \E u, v \in Int : d = p * u + b * v}
<1>2. T \in SUBSET Nat /\ p \in T
  <2>1. p = p * 1 + b * 0 /\ p > 0 /\ p \in Nat /\ 1 \in Int /\ 0 \in Int
    OBVIOUS
  <2> QED
    BY <2>1
<1>3. b \in T
  <2>1. b = p * 0 + b * 1 /\ b > 0 /\ b \in Nat /\ 1 \in Int /\ 0 \in Int
    BY <1>1
  <2> QED
    BY <2>1
<1>4. PICK d \in T : \A y \in T : d <= y
  <2> HIDE DEF T
  <2>1. T # {}
    BY <1>2
  <2> QED
    BY <1>2, <2>1, LeastNatural
<1>5. PICK u \in Int, v \in Int : d = p * u + b * v
  OBVIOUS
<1>6. d \in Nat \ {0}
  OBVIOUS
<1>7. p % d = 0
  <2>1. PICK q \in Nat, r \in 0..d - 1 : q = p \div d /\ r = p % d /\ p = q * d + r
    BY <1>6, DivMod
  <2>2. r = p * (1 - q * u) + b * (0 - q * v)
    <3>1. r = p - q * (p * u + b * v)
      BY <1>5, <2>1
    <3>2. q * (p * u + b * v) = p * (q * u) + b * (q * v)
      OBVIOUS
    <3>3. p * (1 - q * u) = p - p * (q * u) /\ b * (0 - q * v) = 0 - b * (q * v)
      OBVIOUS
    <3>4. p * (q * u) \in Int /\ b * (q * v) \in Int
      OBVIOUS
    <3> QED
      BY <3>1, <3>2, <3>3, <3>4
  <2>3. 1 - q * u \in Int /\ 0 - q * v \in Int /\ r \in Nat
    OBVIOUS
  <2>4. r > 0 => r \in T
    BY <2>2, <2>3
  <2>5. ~(r > 0)
    <3> HIDE DEF T
    <3>1. r \in T => d <= r
      BY <1>4
    <3>2. r < d
      BY <1>6
    <3> QED
      BY <1>6, <2>3, <2>4, <3>1, <3>2
  <2> QED
    BY <2>1, <2>5
<1>8. b % d = 0
  <2>1. PICK q \in Nat, r \in 0..d - 1 : q = b \div d /\ r = b % d /\ b = q * d + r
    BY <1>6, DivMod
  <2>2. r = p * (0 - q * u) + b * (1 - q * v)
    <3>1. r = b - q * (p * u + b * v)
      BY <1>5, <2>1
    <3>2. q * (p * u + b * v) = p * (q * u) + b * (q * v)
      OBVIOUS
    <3>3. p * (0 - q * u) = 0 - p * (q * u) /\ b * (1 - q * v) = b - b * (q * v)
      OBVIOUS
    <3>4. p * (q * u) \in Int /\ b * (q * v) \in Int
      OBVIOUS
    <3> QED
      BY <3>1, <3>2, <3>3, <3>4
  <2>3. 0 - q * u \in Int /\ 1 - q * v \in Int /\ r \in Nat
    OBVIOUS
  <2>4. r > 0 => r \in T
    BY <2>2, <2>3
  <2>5. ~(r > 0)
    <3> HIDE DEF T
    <3>1. r \in T => d <= r
      BY <1>4
    <3>2. r < d
      BY <1>6
    <3> QED
      BY <1>6, <2>3, <2>4, <3>1, <3>2
  <2> QED
    BY <2>1, <2>5
<1>9. d = 1
  <2>1. SUFFICES ASSUME d # 1 PROVE FALSE
    OBVIOUS
  <2>2. d <= b
    BY <1>3, <1>4
  <2>3. d \in 2..Base /\ Base % d = 0
    BY <1>1, <1>6, <1>8, <2>1, <2>2
  <2>4. PICK q \in Primes : d % q = 0
    BY <2>3, PrimesAssumption
  <2>5. q \in Nat \ {0}
    BY PrimesAssumption
  <2>6. PICK i \in Nat, j \in Nat : p = i * d /\ d = j * q
    <3>1. p = (p \div d) * d + (p % d) /\ p \div d \in Nat
      BY <1>6, DivMod
    <3>2. d = (d \div q) * q + (d % q) /\ d \div q \in Nat
      BY <1>6, <2>5, DivMod
    <3>3. p = (p \div d) * d /\ d = (d \div q) * q
      <4>1. PICK i \in Nat, j \in Nat : i = p \div d /\ j = d \div q
        BY <3>1, <3>2
      <4>2. i * d \in Nat /\ j * q \in Nat
        BY <1>6, <2>5
      <4> QED
        BY <1>7, <2>4, <3>1, <3>2, <4>1, <4>2
    <3> QED
      BY <3>1, <3>2, <3>3
  <2>7. p = (i * j) * q + 0 /\ i * j \in Nat /\ 0 \in 0..q - 1
    BY <2>5, <2>6
  <2>8. p % q = 0
    BY <2>5, <2>7, DivModUnique
  <2> QED
    BY <2>8
<1>10. p * u = 1 + (0 - v) * b /\ 0 - v \in Int
  <2>1. 1 = p * u + b * v
    BY <1>5, <1>9
  <2>2. (0 - v) * b = 0 - b * v /\ b * v \in Int /\ p * u \in Int
    OBVIOUS
  <2> QED
    BY <2>1, <2>2
<1> QED
  BY <1>1, <1>10 DEF Unit

(* A unit modulo Base is one modulo its powers: (p*u - 1) * (p*s - 1) = (v*m) * (t*Base). *)
LEMMA UnitTimes ==
    ASSUME NEW p \in Int, NEW m \in Int, NEW b \in Int, Unit(p, m), Unit(p, b)
    PROVE  Unit(p, m * b)
<1>1. PICK u \in Int, v \in Int : p * u = 1 + v * m
  BY DEF Unit
<1>2. PICK s \in Int, t \in Int : p * s = 1 + t * b
  BY DEF Unit
<1>3. (p * u - 1) * (p * s - 1) = (v * t) * (m * b)
  <2>1. p * u - 1 = v * m /\ p * s - 1 = t * b
    <3>1. v * m \in Int /\ t * b \in Int
      OBVIOUS
    <3> QED
      BY <1>1, <1>2, <3>1
  <2>2. (v * m) * (t * b) = (v * t) * (m * b)
    OBVIOUS
  <2> QED
    BY <2>1, <2>2
<1>4. (p * u - 1) * (p * s - 1) = 1 - p * (u + s - (p * u) * s)
  <2>1. \A i, j \in Int : (i - 1) * (j - 1) = i * j - i - j + 1
    OBVIOUS
  <2>2. (p * u - 1) * (p * s - 1) = (p * u) * (p * s) - p * u - p * s + 1
    BY <2>1
  <2>3. p * (u + s - (p * u) * s) = p * u + p * s - p * ((p * u) * s)
    OBVIOUS
  <2>4. p * ((p * u) * s) = (p * u) * (p * s)
    OBVIOUS
  <2>5. p * u \in Int /\ p * s \in Int /\ (p * u) * (p * s) \in Int
    OBVIOUS
  <2> QED
    BY <2>2, <2>3, <2>4, <2>5
<1>5. p * (u + s - (p * u) * s) = 1 + (0 - v * t) * (m * b)
  <2>1. (0 - v * t) * (m * b) = 0 - (v * t) * (m * b)
    OBVIOUS
  <2>2. (v * t) * (m * b) \in Int /\ p * (u + s - (p * u) * s) \in Int
    OBVIOUS
  <2> QED
    BY <1>3, <1>4, <2>1, <2>2
<1>6. u + s - (p * u) * s \in Int /\ 0 - v * t \in Int
  OBVIOUS
<1> QED
  BY <1>5, <1>6 DEF Unit

LEMMA UnitOfSpace ==
    ASSUME NEW p \in Nat \ {0}, \A q \in Primes : p % q # 0
    PROVE  Unit(p, CodeSpace)
<1> DEFINE T == {k \in Nat : k <= Length => Unit(p, Power[k])}
<1>1. 0 \in T
  <2>1. p * 1 = 1 + (p - 1) * 1 /\ p - 1 \in Int /\ 1 \in Int
    OBVIOUS
  <2>2. Unit(p, 1)
    BY <2>1 DEF Unit
  <2> QED
    BY <2>2, Powers
<1>2. ASSUME NEW k \in Nat, k \in T PROVE k + 1 \in T
  <2>1. SUFFICES ASSUME k + 1 <= Length PROVE Unit(p, Power[k + 1])
    OBVIOUS
  <2>2. k + 1 \in 1..Length /\ (k + 1) - 1 = k /\ k <= Length /\ k \in 0..Length
    BY Sizes, <2>1
  <2>3. Power[k + 1] = Power[k] * Base /\ Power[k] \in Nat
    BY <2>2, Powers
  <2>4. Unit(p, Power[k]) /\ Unit(p, Base)
    BY <1>2, <2>2, Bezout
  <2>5. Power[k] \in Int /\ Base \in Int /\ p \in Int
    BY <2>3, Sizes
  <2>6. Unit(p, Power[k] * Base)
    BY <2>4, <2>5, UnitTimes
  <2> QED
    BY <2>3, <2>6
<1>3. Length \in T
  <2> HIDE DEF T
  <2> QED
    BY <1>1, <1>2, Induction, Sizes
<1> QED
  BY <1>3, Sizes DEF CodeSpace

(* "one-to-one only when P shares no factor with 62^7" *)
LEMMA AffineInjective ==
    ASSUME NEW p \in Nat \ {0}, NEW c \in Nat, \A q \in Primes : p % q # 0,
           NEW x \in 0..CodeSpace - 1, NEW y \in 0..CodeSpace - 1,
           Affine(x, p, c) = Affine(y, p, c)
    PROVE  x = y
<1>1. PICK m \in Nat \ {0} : m = CodeSpace
  BY Space
<1>2. PICK u \in Int, v \in Int : p * u = 1 + v * m
  BY <1>1, UnitOfSpace DEF Unit
<1>3. x \in 0..m - 1 /\ y \in 0..m - 1 /\ x \in Nat /\ y \in Nat
  BY <1>1
<1>4. PICK j \in Nat, k \in Nat : x * p + c - (y * p + c) = (j - k) * m
  <2>1. PICK i \in Nat, l \in Nat : i = x * p + c /\ l = y * p + c
    BY <1>3
  <2>2. i % m = l % m
    BY <1>1, <2>1 DEF Affine
  <2>3. i = (i \div m) * m + (i % m) /\ l = (l \div m) * m + (l % m) /\ i \div m \in Nat /\ l \div m \in Nat
    BY DivMod
  <2>4. PICK a \in Nat, b \in Nat, r \in Int : i = a * m + r /\ l = b * m + r
    <3>1. PICK a \in Nat, b \in Nat, r \in Int : a = i \div m /\ b = l \div m /\ r = i % m
      <4>1. i % m \in 0..m - 1
        BY DivMod
      <4> QED
        BY <2>3, <4>1
    <3>2. i = a * m + r /\ l = b * m + r
      BY <2>2, <2>3, <3>1
    <3> QED
      BY <3>2
  <2>5. i - l = (a - b) * m
    BY <2>4
  <2> QED
    BY <2>1, <2>5
<1>5. PICK d \in Int, e \in Int : d = x - y /\ e = j - k /\ d * p = e * m
  <2>1. x * p + c - (y * p + c) = (x - y) * p
    <3>1. (x - y) * p = x * p - y * p /\ x * p \in Nat /\ y * p \in Nat
      BY <1>3
    <3> QED
      BY <3>1
  <2>2. x - y \in Int /\ j - k \in Int
    BY <1>3
  <2> QED
    BY <1>4, <2>1, <2>2
<1>6. d = (e * u - d * v) * m
  <2>1. d * (p * u) = d * (1 + v * m)
    BY <1>2
  <2>2. d * (p * u) = (d * p) * u
    OBVIOUS
  <2>3. (e * m) * u = (e * u) * m
    OBVIOUS
  <2>4. d * (1 + v * m) = d + (d * v) * m
    OBVIOUS
  <2>5. (e * u - d * v) * m = (e * u) * m - (d * v) * m
    OBVIOUS
  <2>6. (e * u) * m \in Int /\ (d * v) * m \in Int
    OBVIOUS
  <2> QED
    BY <1>5, <2>1, <2>2, <2>3, <2>4, <2>5, <2>6
<1>7. PICK w \in Int : d = w * m
  <2>1. e * u - d * v \in Int
    OBVIOUS
  <2> QED
    BY <1>6, <2>1
<1>8. w = 0
  <2>1. ~(w >= 1)
    <3>1. w >= 1 => w * m >= m
      OBVIOUS
    <3> QED
      BY <1>3, <1>5, <1>7, <3>1
  <2>2. ~(w <= -1)
    <3>1. w <= -1 => w * m <= -m
      OBVIOUS
    <3> QED
      BY <1>3, <1>5, <1>7, <3>1
  <2> QED
    BY <2>1, <2>2
<1> QED
  BY <1>3, <1>5, <1>7, <1>8

LEMMA AffineType == ASSUME NEW x \in Nat, NEW p \in Nat, NEW c \in Nat
                    PROVE  Affine(x, p, c) \in 0..CodeSpace - 1
<1>1. PICK i \in Nat : i = x * p + c
  OBVIOUS
<1> QED
  BY <1>1, Space, DivMod DEF Affine

LEMMA Keys == /\ P1 \in Nat \ {0} /\ C1 \in Nat /\ P2 \in Nat \ {0} /\ C2 \in Nat
              /\ \A q \in Primes : P1 % q # 0 /\ P2 % q # 0
<1>1. \A x \in 1..CodeSpace - 1 : x \in Nat \ {0}
  BY Space
<1> QED
  BY <1>1, KeysAssumption DEF ShortcodeKeys

(* "A composition of bijections is a bijection" *)
LEMMA PermuteInjective ==
    ASSUME NEW x \in 0..CodeSpace - 1, NEW y \in 0..CodeSpace - 1
    PROVE  /\ Permute(x) \in 0..CodeSpace - 1
           /\ Permute(x) = Permute(y) => x = y
<1> DEFINE a == Affine(x, P1, C1)
           b == Affine(y, P1, C1)
<1>1. a \in 0..CodeSpace - 1 /\ b \in 0..CodeSpace - 1
  BY Space, Keys, AffineType
<1>2. ReverseDigits(a) \in 0..CodeSpace - 1 /\ ReverseDigits(b) \in 0..CodeSpace - 1
  BY <1>1, Space, Reversing
<1>3. Permute(x) \in 0..CodeSpace - 1
  <2>1. ReverseDigits(a) \in Nat
    BY <1>2, Space
  <2> QED
    BY <2>1, Keys, AffineType DEF Permute
<1>4. ASSUME Permute(x) = Permute(y) PROVE x = y
  <2>1. ReverseDigits(a) = ReverseDigits(b)
    <3> HIDE DEF a, b
    <3>1. Affine(ReverseDigits(a), P2, C2) = Affine(ReverseDigits(b), P2, C2)
      BY <1>4 DEF Permute, a, b
    <3> QED
      BY <1>2, <3>1, Keys, AffineInjective
  <2>2. a = b
    BY <1>1, <2>1, ReverseInjective
  <2> QED
    BY <2>2, Keys, AffineInjective
<1> QED
  BY <1>3, <1>4

LEMMA EncodeInjective ==
    ASSUME NEW x \in 0..CodeSpace - 1, NEW y \in 0..CodeSpace - 1, EncodeBase62(x) = EncodeBase62(y)
    PROVE  x = y
<1>1. ASSUME NEW k \in 0..Length - 1 PROVE Digit(x, k) = Digit(y, k)
  <2>1. Length - k \in 1..Length /\ Length - (Length - k) = k
    BY Sizes
  <2>2. EncodeBase62(x)[Length - k] = Digit(x, k) /\ EncodeBase62(y)[Length - k] = Digit(y, k)
    BY <2>1 DEF EncodeBase62
  <2> QED
    BY <2>2
<1> QED
  BY <1>1, SameDigits

LEMMA OneToOne ==
    ASSUME NEW x \in 0..CodeSpace - 1, NEW y \in 0..CodeSpace - 1,
           GenerateShortCode(x) = GenerateShortCode(y)
    PROVE  x = y
BY PermuteInjective, EncodeInjective DEF GenerateShortCode

(* The loop of decodeBase62() builds up the quotients that encodeBase62() took apart. *)
LEMMA DecodeEncode ==
    ASSUME NEW x \in 0..CodeSpace - 1
    PROVE  DecodeBase62(EncodeBase62(x)) = x
<1> DEFINE code == EncodeBase62(x)
           Loop(v) == [k \in 0..Len(code) |-> IF k = 0 THEN 0 ELSE v[k - 1] * Base + code[k]]
           h == [k \in 0..Length |-> x \div Power[Length - k]]
<1>0. x \in Nat
  BY Space
<1>1. Len(code) = Length /\ \A k \in 1..Length : code[k] = Digit(x, Length - k)
  <2>1. code = [k \in 1..Length |-> Digit(x, Length - k)] /\ Length \in Nat
    BY Sizes DEF EncodeBase62
  <2>2. \A k \in 1..Length : code[k] \in Nat
    <3>1. \A k \in 1..Length : Length - k \in 0..Length /\ Digit(x, Length - k) \in 0..Base - 1
      <4>1. \A k \in 1..Length : Length - k \in 0..Length
        BY Sizes
      <4> QED
        BY <1>0, <4>1, DigitType
    <3> QED
      BY <2>1, <3>1, Sizes
  <2>3. code \in [1..Length -> Nat]
    BY <2>1, <2>2
  <2>4. code \in Seq(Nat) /\ DOMAIN code = 1..Length
    <3> HIDE DEF code
    <3> QED
      BY <2>1, <2>3
  <2>5. Len(code) = Length
    <3> HIDE DEF code
    <3> QED
      BY <2>1, <2>4
  <2> QED
    BY <2>1, <2>5
<1> HIDE DEF code
<1>2. ASSUME NEW k \in 1..Length PROVE h[k] = h[k - 1] * Base + code[k]
  <2>1. PICK j \in 0..Length - 1 : j = Length - k /\ Length - (k - 1) = j + 1
    <3>1. Length - k \in 0..Length - 1 /\ Length - (k - 1) = (Length - k) + 1
      BY Sizes
    <3> QED
      BY <3>1
  <2>2. x \div Power[j] = (x \div Power[j + 1]) * Base + Digit(x, j)
    BY <1>0, NextQuotient
  <2>3. k \in 0..Length /\ k - 1 \in 0..Length
    BY Sizes
  <2>4. h[k] = x \div Power[j] /\ h[k - 1] = x \div Power[j + 1]
    BY <2>1, <2>3
  <2> QED
    BY <1>1, <2>1, <2>2, <2>4
<1>3. h[0] = 0 /\ h[Length] = x
  <2>1. 0 \in 0..Length /\ Length \in 0..Length /\ Length - 0 = Length /\ Length - Length = 0
    BY Sizes
  <2>2. h[0] = x \div CodeSpace /\ h[Length] = x \div Power[0]
    BY <2>1 DEF CodeSpace
  <2> QED
    BY <1>0, <2>2, Space, DivOne
<1>4. h = [k \in 0..Length |-> IF k = 0 THEN 0 ELSE h[k - 1] * Base + code[k]]
  <2>1. ASSUME NEW k \in 0..Length PROVE h[k] = IF k = 0 THEN 0 ELSE h[k - 1] * Base + code[k]
    <3> HIDE DEF h
    <3>1. k # 0 => k \in 1..Length
      BY Sizes
    <3> QED
      BY <1>2, <1>3, <3>1
  <2>2. h = [k \in 0..Length |-> h[k]]
    OBVIOUS
  <2> HIDE DEF h
  <2> QED
    BY <2>1, <2>2
<1>5. PICK v : v = (CHOOSE f : f = Loop(f))
  OBVIOUS
<1>6. v = Loop(v) /\ DecodeBase62(code) = v[Length]
  <2>1. \E f : f = Loop(f)
    <3> HIDE DEF h
    <3>1. h = Loop(h)
      BY <1>1, <1>4
    <3> QED
      BY <3>1
  <2>2. v = Loop(v)
    <3> HIDE DEF Loop
    <3> QED
      BY <1>5, <2>1
  <2>3. DecodeBase62(code) = v[Len(code)]
    BY <1>5 DEF DecodeBase62
  <2> QED
    BY <1>1, <2>2, <2>3
<1>7. v[0] = 0 /\ \A k \in 1..Length : v[k] = v[k - 1] * Base + code[k]
  <2>1. 0 \in 0..Length /\ \A k \in 1..Length : k \in 0..Length /\ k # 0
    BY Sizes
  <2> QED
    BY <1>1, <1>6, <2>1
<1> DEFINE T == {k \in Nat : k <= Length => v[k] = h[k]}
<1>8. 0 \in T
  <2> HIDE DEF h
  <2> QED
    BY <1>3, <1>7
<1>9. ASSUME NEW k \in Nat, k \in T PROVE k + 1 \in T
  <2> HIDE DEF h
  <2>1. SUFFICES ASSUME k + 1 <= Length PROVE v[k + 1] = h[k + 1]
    OBVIOUS
  <2>2. k + 1 \in 1..Length /\ (k + 1) - 1 = k /\ k <= Length
    BY Sizes, <2>1
  <2>3. v[k] = h[k]
    BY <1>9, <2>2
  <2> QED
    BY <1>2, <1>7, <2>2, <2>3
<1>10. Length \in T
  <2> HIDE DEF T
  <2> QED
    BY <1>8, <1>9, Induction, Sizes
<1>11. v[Length] = x
  <2> HIDE DEF h
  <2> QED
    BY <1>3, <1>10, Sizes
<1> QED
  BY <1>6, <1>11 DEF code

--------------------------------------------------------------------------------
(* Distinct ids have distinct codes. *)
DistinctCodes == \A a, b \in Id : GenerateShortCode(a) = GenerateShortCode(b) => a = b

LEMMA IdInSpace == Id \subseteq 0..CodeSpace - 1
BY Space, BoundsAssumption DEF Id

LEMMA CodesDiffer == DistinctCodes
BY IdInSpace, OneToOne DEF DistinctCodes

(* Attempts are left while a request is under way. *)
Counted == \A r \in Requests :
    /\ req[r].pc \in {"nextId", "insert"} => req[r].attempt < Attempts
    /\ req[r].pc = "gaveUp" => req[r].attempt = Attempts

(* A row has an id that was handed out, and its code is made of it or is an *)
(* alias; no two rows share a code.                                         *)
Stored ==
    /\ \A u \in urls : u.id \in Ids!Issued /\ (~u.custom => u.code = GenerateShortCode(u.id))
    /\ \A u, v \in urls : u.code = v.code => u = v

(* The id about to be inserted was handed out, and nobody else has it. *)
InHand == \A r \in Requests : req[r].pc = "insert" =>
    /\ req[r].id \in Ids!Issued
    /\ \A u \in urls : u.id # req[r].id
    /\ \A q \in Requests : req[q].pc = "insert" /\ req[q].id = req[r].id => q = r

(* The rows met so far: one alias for each attempt, each with the code of an *)
(* id that was handed out before the one in hand.                            *)
Earlier(r) == IF req[r].pc = "insert" THEN Ids!Issued \ {req[r].id} ELSE Ids!Issued
Met == \A r \in Requests : req[r].pc \in {"nextId", "insert", "gaveUp"} =>
    /\ IsFiniteSet(req[r].beaten) /\ Cardinality(req[r].beaten) = req[r].attempt
    /\ \A u \in req[r].beaten : u.custom /\ \E id \in Earlier(r) : u.code = GenerateShortCode(id)

IInv == TypeOK /\ Counted /\ Stored /\ InHand /\ Met

USE DEF Request

LEMMA InitIInv == Init => IInv
<1> SUFFICES ASSUME Init PROVE IInv
  OBVIOUS
<1>1. /\ log = <<>> /\ urls = {} /\ req = [r \in Requests |-> Idle]
  BY DEF Init, Ids!Init
<1>2. Idle \in Request /\ \A r \in Requests : req[r] = Idle
  BY <1>1, BoundsAssumption DEF Idle
<1>3. TypeOK
  BY <1>1, <1>2 DEF TypeOK
<1>4. Counted /\ Stored /\ InHand /\ Met
  BY <1>1, <1>2 DEF Counted, Stored, InHand, Met, Idle
<1> QED
  BY <1>3, <1>4 DEF IInv

(* Handing out an id adds it to those handed out. *)
LEMMA IssueAdds ==
    ASSUME log \in Seq(Id), NEW id \in Id, Ids!Issue(id)
    PROVE  log' \in Seq(Id) /\ id \notin Ids!Issued /\ Ids!Issued' = Ids!Issued \cup {id}
<1>1. log' = Append(log, id) /\ id \notin Ids!Issued
  BY DEF Ids!Issue
<1>2. /\ log' \in Seq(Id) /\ Len(log') = Len(log) + 1 /\ log'[Len(log) + 1] = id
      /\ \A k \in 1..Len(log) : log'[k] = log[k]
  BY <1>1
<1>3. DOMAIN log = 1..Len(log) /\ DOMAIN log' = 1..Len(log) + 1 /\ Len(log) \in Nat
  BY <1>2
<1> QED
  BY <1>1, <1>2, <1>3 DEF Ids!Issued

(* A request that goes to another state without an id in hand, or keeps it, *)
(* and leaves the table alone.                                              *)
LEMMA OnlyOneMoves ==
    ASSUME IInv, NEW r \in Requests, NEW x \in Request, UNCHANGED <<log, urls>>,
           req' = [req EXCEPT ![r] = x], x.pc # "insert",
           x.pc = "nextId" => x.attempt < Attempts,
           x.pc = "gaveUp" => x.attempt = Attempts,
           x.pc \in {"nextId", "gaveUp"} =>
               /\ IsFiniteSet(x.beaten) /\ Cardinality(x.beaten) = x.attempt
               /\ \A u \in x.beaten :
                      u.custom /\ \E id \in Ids!Issued : u.code = GenerateShortCode(id)
    PROVE  IInv'
<1>1. /\ req \in [Requests -> Request] /\ req' \in [Requests -> Request]
      /\ req'[r] = x /\ \A q \in Requests \ {r} : req'[q] = req[q]
  BY DEF IInv, TypeOK
<1>2. TypeOK'
  BY <1>1 DEF IInv, TypeOK
<1>3. Counted'
  BY <1>1 DEF IInv, Counted
<1>4. Stored' /\ Ids!Issued' = Ids!Issued
  BY DEF IInv, Stored, Ids!Issued
<1>5. InHand'
  BY <1>1, <1>4 DEF IInv, InHand
<1>6. Met'
  <2> SUFFICES ASSUME NEW q \in Requests, req'[q].pc \in {"nextId", "insert", "gaveUp"}
               PROVE  /\ IsFiniteSet(req'[q].beaten)
                      /\ Cardinality(req'[q].beaten) = req'[q].attempt
                      /\ \A u \in req'[q].beaten :
                            u.custom /\ \E id \in Earlier(q)' : u.code = GenerateShortCode(id)
    BY DEF Met
  <2>1. CASE q = r
    <3>1. Earlier(q)' = Ids!Issued
      BY <1>1, <1>4, <2>1 DEF Earlier
    <3> QED
      BY <1>1, <2>1, <3>1
  <2>2. CASE q # r
    <3>1. req'[q] = req[q] /\ Earlier(q)' = Earlier(q)
      BY <1>1, <1>4, <2>2 DEF Earlier
    <3> QED
      BY <3>1 DEF IInv, Met
  <2> QED
    BY <2>1, <2>2
<1> QED
  BY <1>2, <1>3, <1>4, <1>5, <1>6 DEF IInv

LEMMA BeginStep ==
    ASSUME IInv, NEW r \in Requests, NEW alias \in Aliases \cup {NoAlias},
           NEW user \in BOOLEAN, Begin(r, alias, user)
    PROVE  IInv'
<1> DEFINE pc == IF alias # NoAlias /\ (~user \/ alias \in Reserved) THEN "refused" ELSE "nextId"
           x == [Idle EXCEPT !.pc = pc, !.alias = alias]
<1>0. pc \in {"refused", "nextId"} /\ req' = [req EXCEPT ![r] = x] /\ UNCHANGED <<log, urls>>
  BY DEF Begin
<1> HIDE DEF pc
<1>1. x.pc \in {"refused", "nextId"} /\ x.attempt = 0 /\ x.beaten = {}
  BY <1>0 DEF Idle
<1>2. x \in Request
  <2>1. Idle \in Request
    BY BoundsAssumption DEF Idle
  <2>2. pc \in {"idle", "nextId", "insert"} \cup Ended
    BY <1>0 DEF Ended
  <2> QED
    BY <2>1, <2>2
<1>3. 0 < Attempts
  BY BoundsAssumption
<1> HIDE DEF x
<1> QED
  BY <1>0, <1>1, <1>2, <1>3, OnlyOneMoves, FS_EmptySet

LEMMA NextIdStep ==
    ASSUME IInv, NEW r \in Requests, NextId(r)
    PROVE  IInv'
<1>1. PICK id \in Id : Ids!Issue(id) /\ req' = [req EXCEPT ![r].pc = "insert", ![r].id = id]
  BY DEF NextId
<1>2. /\ log' \in Seq(Id) /\ id \notin Ids!Issued /\ Ids!Issued' = Ids!Issued \cup {id}
      /\ urls' = urls /\ req[r].pc = "nextId" /\ req \in [Requests -> Request]
  BY <1>1, IssueAdds DEF NextId, IInv, TypeOK
<1>3. /\ req' \in [Requests -> Request]
      /\ req'[r] = [req[r] EXCEPT !.pc = "insert", !.id = id]
      /\ \A q \in Requests \ {r} : req'[q] = req[q]
  <2> DEFINE y == [req[r] EXCEPT !.pc = "insert", !.id = id]
  <2>1. req' = [req EXCEPT ![r] = y]
    BY <1>1, <1>2
  <2>2. id \in 0..MaxId
    BY BoundsAssumption DEF Id
  <2>3. y \in Request
    BY <1>2, <2>2
  <2> HIDE DEF y
  <2>4. req' \in [Requests -> Request] /\ req'[r] = y /\ \A q \in Requests \ {r} : req'[q] = req[q]
    BY <1>2, <2>1, <2>3
  <2> QED
    BY <2>4 DEF y
<1>4. /\ req'[r].pc = "insert" /\ req'[r].id = id
      /\ req'[r].attempt = req[r].attempt /\ req'[r].beaten = req[r].beaten
  BY <1>2, <1>3
<1>5. TypeOK'
  BY <1>2, <1>3 DEF IInv, TypeOK
<1>6. Counted'
  BY <1>2, <1>3, <1>4 DEF IInv, Counted
<1>7. Stored'
  BY <1>2 DEF IInv, Stored
<1>8. InHand'
  <2>1. \A u \in urls : u.id # id
    BY <1>2 DEF IInv, Stored
  <2>2. \A q \in Requests : req[q].pc = "insert" => req[q].id # id
    BY <1>2 DEF IInv, InHand
  <2> QED
    <3> SUFFICES ASSUME NEW p \in Requests, req'[p].pc = "insert"
                 PROVE  /\ req'[p].id \in Ids!Issued'
                        /\ \A u \in urls' : u.id # req'[p].id
                        /\ \A q \in Requests :
                              req'[q].pc = "insert" /\ req'[q].id = req'[p].id => q = p
      BY DEF InHand
    <3>1. CASE p = r
      BY <1>2, <1>3, <1>4, <2>1, <2>2, <3>1
    <3>2. CASE p # r
      <4>1. req'[p] = req[p] /\ req[p].pc = "insert" /\ req[p].id \in Ids!Issued /\ req[p].id # id
        BY <1>3, <2>2, <3>2 DEF IInv, InHand
      <4>2. \A u \in urls : u.id # req[p].id
        BY <4>1 DEF IInv, InHand
      <4>3. ASSUME NEW q \in Requests, req'[q].pc = "insert", req'[q].id = req[p].id
            PROVE  q = p
        <5>1. q # r
          BY <1>4, <4>1, <4>3
        <5>2. req'[q] = req[q]
          BY <1>3, <5>1
        <5> QED
          BY <4>1, <4>3, <5>2 DEF IInv, InHand
      <4> QED
        BY <1>2, <4>1, <4>2, <4>3
    <3> QED
      BY <3>1, <3>2
<1>9. Met'
  <2> SUFFICES ASSUME NEW q \in Requests, req'[q].pc \in {"nextId", "insert", "gaveUp"}
               PROVE  /\ IsFiniteSet(req'[q].beaten)
                      /\ Cardinality(req'[q].beaten) = req'[q].attempt
                      /\ \A u \in req'[q].beaten :
                            u.custom /\ \E k \in Earlier(q)' : u.code = GenerateShortCode(k)
    BY DEF Met
  <2>1. /\ req[q].pc \in {"nextId", "insert", "gaveUp"}
        /\ req'[q].beaten = req[q].beaten /\ req'[q].attempt = req[q].attempt
    BY <1>2, <1>3, <1>4
  <2>2. Earlier(q) \subseteq Earlier(q)'
    BY <1>2, <1>3, <1>4 DEF Earlier
  <2> QED
    BY <2>1, <2>2 DEF IInv, Met
<1> QED
  BY <1>5, <1>6, <1>7, <1>8, <1>9 DEF IInv

(* A row that nothing is in the way of, from the id in hand. *)
LEMMA RowStored ==
    ASSUME IInv, NEW r \in Requests, req[r].pc = "insert", Conflicts(NewRow(r)) = {},
           NEW pc \in Ended \ {"gaveUp"}, Goes(r, pc),
           urls' = urls \cup {NewRow(r)}, UNCHANGED log
    PROVE  IInv'
<1> DEFINE new == NewRow(r)
<1>1. /\ req \in [Requests -> Request] /\ req' \in [Requests -> Request]
      /\ req'[r] = [req[r] EXCEPT !.pc = pc]
      /\ \A q \in Requests \ {r} : req'[q] = req[q]
  BY DEF IInv, TypeOK, Goes
<1>2. req'[r].pc \notin {"nextId", "insert", "gaveUp"}
  BY <1>1 DEF Ended
<1>3. /\ new.id = req[r].id /\ req[r].id \in Ids!Issued /\ Ids!Issued' = Ids!Issued
      /\ (~new.custom => new.code = GenerateShortCode(new.id))
  BY DEF NewRow, IInv, InHand, Ids!Issued
<1>4. new \in Row
  <2>1. req[r].id \in Id
    BY <1>3 DEF Ids!Issued, IInv, TypeOK
  <2>2. Custom(r) \in BOOLEAN /\ (Custom(r) => req[r].alias \in Aliases)
    BY <1>1 DEF Custom
  <2> QED
    BY <2>1, <2>2 DEF NewRow, Row, Code, Generated
<1>5. \A u \in urls : u.id # new.id /\ u.code # new.code
  BY DEF Conflicts
<1> HIDE DEF new
<1>6. urls' = urls \cup {new}
  BY DEF new
<1>7. TypeOK'
  BY <1>1, <1>4, <1>6 DEF IInv, TypeOK
<1>8. Counted'
  BY <1>1, <1>2 DEF IInv, Counted
<1>9. Stored'
  BY <1>3, <1>5, <1>6 DEF IInv, Stored
<1>10. InHand'
  BY <1>1, <1>2, <1>3, <1>6 DEF IInv, InHand
<1>11. Met'
  BY <1>1, <1>2, <1>3 DEF IInv, Met, Earlier
<1> QED
  BY <1>7, <1>8, <1>9, <1>10, <1>11 DEF IInv

(* A request that ends, and leaves the rest as it is. *)
LEMMA Leaves ==
    ASSUME IInv, NEW r \in Requests, NEW pc \in Ended \ {"gaveUp"}, Goes(r, pc),
           UNCHANGED <<log, urls>>
    PROVE  IInv'
<1> DEFINE x == [req[r] EXCEPT !.pc = pc]
<1>1. req' = [req EXCEPT ![r] = x]
  BY DEF Goes
<1>2. x \in Request /\ x.pc = pc /\ x.pc \notin {"nextId", "insert", "gaveUp"}
  BY DEF IInv, TypeOK, Ended
<1> HIDE DEF x
<1> QED
  BY <1>1, <1>2, OnlyOneMoves

(* What a generated code meets: one row, an alias, and none it met before. *)
LEMMA OneAlias ==
    ASSUME IInv, NEW r \in Requests, req[r].pc = "insert", ~Custom(r),
           NEW u \in Conflicts(NewRow(r))
    PROVE  /\ u.custom /\ u.id # req[r].id /\ u \notin req[r].beaten
           /\ u.code = GenerateShortCode(req[r].id) /\ Conflicts(NewRow(r)) = {u}
<1>1. Ids!Issued \subseteq Id
  BY DEF IInv, TypeOK, Ids!Issued
<1>2. NewRow(r).id = req[r].id /\ NewRow(r).code = GenerateShortCode(req[r].id)
  BY DEF NewRow
<1>3. req[r].id \in Ids!Issued /\ \A v \in urls : v.id # req[r].id
  BY DEF IInv, InHand
<1>4. \A v \in Conflicts(NewRow(r)) : v \in urls /\ v.code = GenerateShortCode(req[r].id)
  BY <1>2, <1>3 DEF Conflicts
<1>5. u \in urls /\ u.code = GenerateShortCode(req[r].id) /\ u.id # req[r].id
  BY <1>3, <1>4
<1>6. u.custom
  BY <1>1, <1>3, <1>5, CodesDiffer DEF IInv, Stored, DistinctCodes
<1>7. u \notin req[r].beaten
  <2> SUFFICES ASSUME u \in req[r].beaten PROVE FALSE
    OBVIOUS
  <2>1. PICK k \in Ids!Issued \ {req[r].id} : u.code = GenerateShortCode(k)
    BY DEF IInv, Met, Earlier
  <2> QED
    BY <1>1, <1>3, <1>5, <2>1, CodesDiffer DEF DistinctCodes
<1>8. Conflicts(NewRow(r)) = {u}
  BY <1>4, <1>5 DEF IInv, Stored
<1> QED
  BY <1>5, <1>6, <1>7, <1>8

LEMMA TryAgainStep ==
    ASSUME IInv, NEW r \in Requests, req[r].pc = "insert", ~Custom(r),
           Conflicts(NewRow(r)) # {}, req' = [req EXCEPT ![r] = TryAgain(r)],
           UNCHANGED <<log, urls>>
    PROVE  IInv'
<1> DEFINE x == TryAgain(r)
           n == req[r].attempt
           old == req[r].beaten
<1>1. PICK u \in Conflicts(NewRow(r)) : TRUE
  OBVIOUS
<1>2. /\ u.custom /\ u \notin old /\ u.code = GenerateShortCode(req[r].id)
      /\ Beaten(r) = old \cup {u}
  BY OneAlias DEF Beaten
<1>3. req[r] \in Request /\ n \in Nat /\ n < Attempts /\ Attempts \in Nat /\ req[r].id \in Ids!Issued
  BY BoundsAssumption DEF IInv, TypeOK, Counted, InHand
<1>4. /\ IsFiniteSet(old) /\ Cardinality(old) = n
      /\ \A v \in old : v.custom /\ \E id \in Ids!Issued : v.code = GenerateShortCode(id)
  BY DEF IInv, Met, Earlier
<1>5. IsFiniteSet(old \cup {u}) /\ Cardinality(old \cup {u}) = n + 1
  BY <1>2, <1>4, FS_AddElement
<1>6. \A v \in old \cup {u} : v.custom /\ \E id \in Ids!Issued : v.code = GenerateShortCode(id)
  BY <1>2, <1>3, <1>4
<1>7. /\ x.attempt = n + 1 /\ x.beaten = old \cup {u}
      /\ x.pc = IF n + 1 < Attempts THEN "nextId" ELSE "gaveUp"
  BY <1>2, <1>3 DEF TryAgain
<1>8. x \in Request
  <2>1. u \in Row /\ n + 1 \in 0..Attempts
    BY <1>3 DEF IInv, TypeOK, Conflicts
  <2>2. old \cup {u} \in SUBSET Row
    BY <1>3, <2>1
  <2> DEFINE pc == IF n + 1 < Attempts THEN "nextId" ELSE "gaveUp"
  <2>3. pc \in {"idle", "nextId", "insert"} \cup Ended
    BY DEF Ended
  <2>4. x = [req[r] EXCEPT !.pc = pc, !.attempt = n + 1, !.beaten = old \cup {u}]
    BY <1>2 DEF TryAgain
  <2> HIDE DEF x, pc, n, old
  <2> QED
    BY <1>3, <2>1, <2>2, <2>3, <2>4
<1>9. /\ x.pc = "nextId" => x.attempt < Attempts
      /\ x.pc = "gaveUp" => x.attempt = Attempts
      /\ x.pc # "insert"
  BY <1>3, <1>7
<1> HIDE DEF x, n, old
<1>10. req' = [req EXCEPT ![r] = x]
  BY DEF x
<1> QED
  BY <1>5, <1>6, <1>7, <1>8, <1>9, <1>10, OnlyOneMoves

LEMMA PurgeStep ==
    ASSUME IInv, NEW row \in urls, Purge(row)
    PROVE  IInv'
<1>1. urls' \subseteq urls /\ log' = log /\ req' = req /\ Ids!Issued' = Ids!Issued
  BY DEF Purge, Ids!Issued
<1>2. TypeOK' /\ Counted'
  BY <1>1 DEF IInv, TypeOK, Counted
<1>3. Stored' /\ InHand'
  BY <1>1 DEF IInv, Stored, InHand
<1>4. Met'
  BY <1>1 DEF IInv, Met, Earlier
<1> QED
  BY <1>2, <1>3, <1>4 DEF IInv

LEMMA StutterStep == IInv /\ UNCHANGED vars => IInv'
<1> SUFFICES ASSUME IInv, UNCHANGED vars PROVE IInv'
  OBVIOUS
<1>1. log' = log /\ urls' = urls /\ req' = req /\ Ids!Issued' = Ids!Issued
  BY DEF vars, Ids!Issued
<1>2. TypeOK' /\ Counted'
  BY <1>1 DEF IInv, TypeOK, Counted
<1>3. Stored' /\ InHand'
  BY <1>1 DEF IInv, Stored, InHand
<1>4. Met'
  BY <1>1 DEF IInv, Met, Earlier
<1> QED
  BY <1>2, <1>3, <1>4 DEF IInv

LEMMA NextIInv ==
    ASSUME IInv, [Next]_vars
    PROVE  IInv'
<1>1. ASSUME NEW r \in Requests, NEW alias \in Aliases \cup {NoAlias}, NEW user \in BOOLEAN,
             Begin(r, alias, user)
      PROVE  IInv'
  BY <1>1, BeginStep
<1>2. ASSUME NEW r \in Requests, NextId(r)
      PROVE  IInv'
  BY <1>2, NextIdStep
<1>3. ASSUME NEW r \in Requests, Insert(r)
      PROVE  IInv'
  <2>1. "created" \in Ended \ {"gaveUp"}
    BY DEF Ended
  <2> QED
    BY <1>3, <2>1, RowStored DEF Insert
<1>4. ASSUME NEW r \in Requests, Conflict(r)
      PROVE  IInv'
  <2>1. CASE Custom(r)
    <3>1. "taken" \in Ended \ {"gaveUp"}
      BY DEF Ended
    <3> QED
      BY <1>4, <2>1, <3>1, Leaves DEF Conflict
  <2>2. CASE ~Custom(r)
    BY <1>4, <2>2, TryAgainStep DEF Conflict
  <2> QED
    BY <2>1, <2>2
<1>5. ASSUME NEW r \in Requests, Fails(r)
      PROVE  IInv'
  <2>1. "failed" \in Ended \ {"gaveUp"}
    BY DEF Ended
  <2>2. CASE UNCHANGED urls
    BY <1>5, <2>1, <2>2, Leaves DEF Fails
  <2>3. CASE /\ req[r].pc = "insert" /\ Conflicts(NewRow(r)) = {}
             /\ urls' = urls \cup {NewRow(r)}
    BY <1>5, <2>1, <2>3, RowStored DEF Fails
  <2> QED
    BY <1>5, <2>2, <2>3 DEF Fails
<1>6. ASSUME NEW r \in Requests, End(r)
      PROVE  IInv'
  <2>1. Idle \in Request /\ Idle.pc \notin {"nextId", "insert", "gaveUp"}
    BY BoundsAssumption DEF Idle
  <2> QED
    BY <1>6, <2>1, OnlyOneMoves DEF End
<1>7. ASSUME NEW row \in urls, Purge(row)
      PROVE  IInv'
  BY <1>7, PurgeStep
<1>8. CASE UNCHANGED vars
  BY <1>8, StutterStep
<1> QED
  BY <1>1, <1>2, <1>3, <1>4, <1>5, <1>6, <1>7, <1>8 DEF Next

LEMMA IInvAlways == Spec => []IInv
<1>1. Init => IInv
  BY InitIInv
<1>2. IInv /\ [Next]_vars => IInv'
  BY NextIInv
<1> QED
  BY <1>1, <1>2, PTL DEF Spec

LEMMA ImpliedByIInv ==
    ASSUME IInv
    PROVE  OnlyAliasesCollide /\ GivesUpOnlyOnAliases
<1>1. ASSUME NEW r \in Requests, req[r].pc = "insert", NEW u \in Conflicts(NewRow(r))
      PROVE  u.id # req[r].id /\ (u.custom \/ Custom(r))
  <2>1. u \in urls
    BY <1>1 DEF Conflicts
  <2>2. u.id # req[r].id
    BY <1>1, <2>1 DEF IInv, InHand
  <2>3. ~Custom(r) => u.custom
    BY <1>1, OneAlias
  <2> QED
    BY <2>2, <2>3
<1>2. OnlyAliasesCollide
  BY <1>1 DEF OnlyAliasesCollide
<1>3. GivesUpOnlyOnAliases
  BY DEF GivesUpOnlyOnAliases, IInv, Counted, Met
<1> QED
  BY <1>2, <1>3

(* Whoever creates links at the same time, whatever aliases they choose, and *)
(* whatever fails or is purged: the INSERT of a generated code meets an      *)
(* alias or nothing, and no INSERT is refused for its id.                    *)
THEOREM OnlyAliasesEverCollide == Spec => []OnlyAliasesCollide
<1>1. Spec => []IInv
  BY IInvAlways
<1>2. IInv => OnlyAliasesCollide
  BY ImpliedByIInv
<1> QED
  BY <1>1, <1>2, PTL

(* A create answers "could not generate" only after it has met as many       *)
(* different aliases as it has attempts.                                     *)
THEOREM GivingUpTakesAliases == Spec => []GivesUpOnlyOnAliases
<1>1. Spec => []IInv
  BY IInvAlways
<1>2. IInv => GivesUpOnlyOnAliases
  BY ImpliedByIInv
<1> QED
  BY <1>1, <1>2, PTL

(* Every variable has its type; ids stay below the bound. *)
THEOREM TypeCorrect == Spec => []TypeOK
<1>1. IInv => TypeOK
  BY DEF IInv
<1> QED
  BY <1>1, IInvAlways, PTL

(* No number of the code space shares the code of an id that was handed out, *)
(* for any keys that parseShortcodeKeys() accepts, and decodeBase62() reads  *)
(* the code back as the permuted id.                                         *)
THEOREM OneCodePerId == Spec => []CodesDistinct
<1>1. IInv => CodesDistinct
  <2> SUFFICES ASSUME IInv, NEW id \in Ids!Issued
               PROVE  /\ \A n \in 0..CodeSpace - 1 : CodeTable[n] = CodeTable[id] => n = id
                      /\ DecodeBase62(CodeTable[id]) = Permute(id)
    BY DEF CodesDistinct
  <2>1. id \in 0..CodeSpace - 1
    <3>1. id \in Id
      BY DEF IInv, TypeOK, Ids!Issued
    <3> QED
      BY <3>1, IdInSpace
  <2>2. CodeTable[id] = GenerateShortCode(id)
    BY <2>1 DEF CodeTable
  <2>3. ASSUME NEW n \in 0..CodeSpace - 1, CodeTable[n] = CodeTable[id] PROVE n = id
    <3>1. GenerateShortCode(n) = GenerateShortCode(id)
      BY <2>2, <2>3 DEF CodeTable
    <3> QED
      BY <2>1, <3>1, OneToOne
  <2>4. DecodeBase62(CodeTable[id]) = Permute(id)
    <3>1. Permute(id) \in 0..CodeSpace - 1
      BY <2>1, PermuteInjective
    <3> QED
      BY <2>2, <3>1, DecodeEncode DEF GenerateShortCode
  <2> QED
    BY <2>3, <2>4
<1> QED
  BY <1>1, IInvAlways, PTL
================================================================================
