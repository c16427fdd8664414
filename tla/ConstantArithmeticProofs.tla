----------------------- MODULE ConstantArithmeticProofs -----------------------
(***************************************************************************)
(* Theorems about ConstantArithmetic, for every width and every size of    *)
(* integer types, addresses and enums.                                     *)
(***************************************************************************)
EXTENDS ConstantArithmetic, SetInduction, FiniteSetTheorems

(***************************************************************************)
(* Powers of two.  What the library knows of them is that a set of n       *)
(* elements has 2^n subsets.                                               *)
(***************************************************************************)

(* There are 2^n sets of numbers up to n.                                  *)
LEMMA PowerCounts ==
  ASSUME NEW n \in Nat
  PROVE  /\ IsFiniteSet(SUBSET (1 .. n))
         /\ Cardinality(SUBSET (1 .. n)) = 2^n
<1>1. IsFiniteSet(1 .. n) /\ Cardinality(1 .. n) = n
  BY FS_Interval
<1> QED
  BY <1>1, FS_SUBSET

(* A power of two is a natural number.                                     *)
LEMMA PowerIsNatural ==
  ASSUME NEW n \in Nat
  PROVE  2^n \in Nat
  BY PowerCounts, FS_CardinalityType

(* The first power of two.                                                 *)
LEMMA PowerOfZero == 2^0 = 1
  OBVIOUS

(* Half of the sets of numbers up to n + 1 have n + 1 in them.             *)
LEMMA PowerOfNext ==
  ASSUME NEW n \in Nat
  PROVE  2^(n + 1) = 2 * 2^n
<1> DEFINE Without == SUBSET (1 .. n)
           With == {X \cup {n + 1} : X \in Without}
           f == [X \in Without |-> X \cup {n + 1}]
<1>1. SUBSET (1 .. n + 1) = Without \cup With
  <2>1. ASSUME NEW X \in SUBSET (1 .. n + 1)
        PROVE  X \in Without \cup With
    <3>1. CASE n + 1 \in X
      <4>1. X \ {n + 1} \in Without
        OBVIOUS
      <4>2. X = (X \ {n + 1}) \cup {n + 1}
        BY <3>1
      <4> QED
        BY <4>1, <4>2
    <3>2. CASE n + 1 \notin X
      <4>1. X \in Without
        BY <3>2
      <4> QED
        BY <4>1
    <3> QED
      BY <3>1, <3>2
  <2>2. ASSUME NEW X \in Without
        PROVE  X \in SUBSET (1 .. n + 1) /\ X \cup {n + 1} \in SUBSET (1 .. n + 1)
    <3>1. 1 .. n \subseteq 1 .. n + 1 /\ n + 1 \in 1 .. n + 1
      OBVIOUS
    <3> QED
      BY <3>1
  <2>3. Without \subseteq SUBSET (1 .. n + 1)
    BY <2>2
  <2>4. ASSUME NEW Y \in With
        PROVE  Y \in SUBSET (1 .. n + 1)
    <3>1. PICK X \in Without : Y = X \cup {n + 1}
      OBVIOUS
    <3> QED
      BY <2>2, <3>1
  <2> HIDE DEF Without, With
  <2> QED
    BY <2>1, <2>3, <2>4
<1>2. Without \cap With = {}
  <2>1. \A X \in Without : n + 1 \notin X
    OBVIOUS
  <2> QED
    BY <2>1
<1>3. f \in Bijection(Without, With)
  <2>1. \A X, Y \in Without : f[X] = f[Y] => X = Y
    <3>1. ASSUME NEW X \in Without, NEW Y \in Without, f[X] = f[Y]
          PROVE  X = Y
      <4>1. X = f[X] \ {n + 1} /\ Y = f[Y] \ {n + 1}
        OBVIOUS
      <4> QED
        BY <3>1, <4>1
    <3> QED
      BY <3>1
  <2>2. f \in [Without -> With] /\ \A Y \in With : \E X \in Without : f[X] = Y
    OBVIOUS
  <2> HIDE DEF Without, With, f
  <2>3. f \in Injection(Without, With)
    BY <2>1, <2>2 DEF Injection, IsInjective
  <2>4. f \in Surjection(Without, With)
    BY <2>2 DEF Surjection
  <2> QED
    BY <2>3, <2>4 DEF Bijection
<1>4. IsFiniteSet(Without) /\ Cardinality(Without) = 2^n
  BY PowerCounts
<1>5. IsFiniteSet(With) /\ Cardinality(With) = 2^n
  <2>1. ExistsBijection(Without, With)
    BY <1>3 DEF ExistsBijection
  <2> HIDE DEF Without, With, f
  <2> QED
    BY <1>4, <2>1, FS_Bijection
<1>6. Cardinality(Without \cup With) = 2^n + 2^n
  <2> HIDE DEF Without, With
  <2>1. Cardinality({}) = 0
    BY FS_EmptySet
  <2>2. Cardinality(Without \cup With)
          = Cardinality(Without) + Cardinality(With) - Cardinality(Without \cap With)
    BY <1>4, <1>5, FS_Union
  <2> QED
    BY <1>2, <1>4, <1>5, <2>1, <2>2, PowerIsNatural
<1>7. n + 1 \in Nat
  OBVIOUS
<1>8. Cardinality(SUBSET (1 .. n + 1)) = 2^(n + 1)
  BY <1>7, PowerCounts
<1> HIDE DEF Without, With
<1>9. Cardinality(SUBSET (1 .. n + 1)) = 2^n + 2^n
  BY <1>1, <1>6
<1> QED
  BY <1>8, <1>9, PowerIsNatural

(* No power of two is zero.                                                *)
LEMMA PowerIsPositive ==
  ASSUME NEW n \in Nat
  PROVE  2^n \in Nat /\ 2^n >= 1
<1> DEFINE U == {m \in Nat : 2^m >= 1}
<1>1. 0 \in U
  BY PowerOfZero
<1>2. \A m \in U : m + 1 \in U
  BY PowerOfNext, PowerIsNatural
<1>3. \A m \in Nat : m \in U
  <2>1. U \in SUBSET Nat
    OBVIOUS
  <2> HIDE DEF U
  <2> QED BY <1>1, <1>2, <2>1, NaturalInduction
<1> QED
  BY <1>3, PowerIsNatural

(* The powers of a larger exponent are multiples.                          *)
LEMMA PowerOfSum ==
  ASSUME NEW m \in Nat, NEW n \in Nat
  PROVE  2^(m + n) = 2^n * 2^m
<1> DEFINE U == {k \in Nat : 2^(m + k) = 2^k * 2^m}
<1>1. 0 \in U
  <2>1. m + 0 = m
    OBVIOUS
  <2> QED
    BY <2>1, PowerOfZero, PowerIsNatural
<1>2. ASSUME NEW k \in U
      PROVE  k + 1 \in U
  <2>1. m + k \in Nat /\ (m + k) + 1 = m + (k + 1)
    OBVIOUS
  <2>2. 2^(m + (k + 1)) = 2 * 2^(m + k)
    BY <2>1, PowerOfNext
  <2>3. 2^(k + 1) = 2 * 2^k
    BY PowerOfNext
  <2>4. \A x, y \in Int : (2 * x) * y = 2 * (x * y)
    OBVIOUS
  <2>5. 2^k \in Int /\ 2^m \in Int
    BY PowerIsNatural
  <2>6. 2^(k + 1) * 2^m = 2 * (2^k * 2^m)
    BY <2>3, <2>4, <2>5
  <2> QED
    BY <2>2, <2>6
<1>3. \A k \in Nat : k \in U
  <2>1. U \in SUBSET Nat
    OBVIOUS
  <2> HIDE DEF U
  <2> QED BY <1>1, <1>2, <2>1, NaturalInduction
<1> QED
  BY <1>3

(* A smaller power of two divides a larger one.                            *)
LEMMA PowerDivides ==
  ASSUME NEW n \in Nat, NEW m \in 0 .. n
  PROVE  \E k \in Nat : k >= 1 /\ 2^n = k * 2^m
<1>1. n - m \in Nat /\ m \in Nat /\ m + (n - m) = n
  OBVIOUS
<1>2. 2^n = 2^(n - m) * 2^m
  BY <1>1, PowerOfSum
<1> QED
  BY <1>1, <1>2, PowerIsPositive

(* Powers of two grow with the exponent.                                   *)
LEMMA PowerGrows ==
  ASSUME NEW n \in Nat, NEW m \in 0 .. n
  PROVE  2^m <= 2^n
<1>1. PICK k \in Nat : k >= 1 /\ 2^n = k * 2^m
  BY PowerDivides
<1>2. 2^m \in Nat
  BY PowerIsNatural
<1>3. \A x, y \in Nat : x >= 1 => y <= x * y
  OBVIOUS
<1> QED
  BY <1>1, <1>2, <1>3

(* The halves of the values of a register.                                 *)
LEMMA HalfOfPower ==
  ASSUME NEW w \in Nat, w >= 1
  PROVE  /\ 2^(w - 1) \in Nat
         /\ 2^(w - 1) >= 1
         /\ 2^w = 2 * 2^(w - 1)
         /\ 2^w \in Nat
<1>1. w - 1 \in Nat /\ (w - 1) + 1 = w
  OBVIOUS
<1> QED
  BY <1>1, PowerOfNext, PowerIsPositive

(* A register holds numbers larger than its width.                         *)
LEMMA PowerExceeds ==
  ASSUME NEW w \in Nat, w >= 1
  PROVE  w <= 2^(w - 1)
<1> DEFINE U == {m \in Nat : m + 1 <= 2^m}
<1>1. 0 \in U
  BY PowerOfZero
<1>2. \A m \in U : m + 1 \in U
  BY PowerOfNext, PowerIsNatural
<1>3. \A m \in Nat : m \in U
  <2>1. U \in SUBSET Nat
    OBVIOUS
  <2> HIDE DEF U
  <2> QED BY <1>1, <1>2, <2>1, NaturalInduction
<1>4. w - 1 \in Nat
  OBVIOUS
<1>5. w - 1 \in U
  BY <1>3, <1>4
<1> QED
  BY <1>5

(***************************************************************************)
(* Numbers that differ by a multiple of m.                                 *)
(***************************************************************************)
Congruent(a, b, m) == \E q \in Int : a = b + q * m

(* A number has one remainder.                                             *)
LEMMA RemainderIsUnique ==
  ASSUME NEW m \in Nat, m >= 1, NEW q \in Int, NEW r \in 0 .. (m - 1), NEW a \in Int,
         a = r + q * m
  PROVE  a % m = r /\ a \div m = q
<1>1. PICK d \in Int : d = a \div m
  OBVIOUS
<1>2. PICK e \in 0 .. (m - 1) : e = a % m
  OBVIOUS
<1>3. a = m * d + e
  BY <1>1, <1>2
<1>4. m * (d - q) = r - e
  <2>1. \A x, y, z \in Int : x * (y - z) = x * y - x * z
    OBVIOUS
  <2>2. m * (d - q) = m * d - m * q
    BY <2>1
  <2>3. m * q = q * m
    OBVIOUS
  <2> QED
    BY <1>3, <2>2, <2>3
<1>5. d = q
  <2>1. \A x \in Int : x >= 1 => m * x >= m
    OBVIOUS
  <2>2. \A x \in Int : x <= -1 => m * x <= -m
    OBVIOUS
  <2>3. ~(d - q >= 1)
    BY <1>4, <2>1
  <2>4. ~(d - q <= -1)
    BY <1>4, <2>2
  <2> QED
    BY <2>3, <2>4
<1>6. m * (d - q) = 0
  BY <1>5
<1> QED
  BY <1>1, <1>2, <1>4, <1>5, <1>6

(* Quotient and remainder, as every later step uses them.                  *)
LEMMA RemainderOf ==
  ASSUME NEW m \in Nat, m >= 1, NEW a \in Int
  PROVE  a % m \in 0 .. (m - 1) /\ a \div m \in Int /\ a = (a % m) + (a \div m) * m
<1>1. PICK d \in Int : d = a \div m
  OBVIOUS
<1>2. PICK e \in 0 .. (m - 1) : e = a % m
  OBVIOUS
<1>3. a = m * d + e
  BY <1>1, <1>2
<1>4. m * d = d * m
  OBVIOUS
<1> QED
  BY <1>1, <1>2, <1>3, <1>4

(* A number is congruent to its remainder, and congruent numbers have one. *)
LEMMA RemainderIsCongruent ==
  ASSUME NEW m \in Nat, m >= 1, NEW a \in Int
  PROVE  Congruent(a % m, a, m)
<1>1. a % m \in Int /\ -(a \div m) \in Int /\ a = (a % m) + (a \div m) * m
  BY RemainderOf
<1>2. \A x \in Int : (-x) * m = -(x * m)
  OBVIOUS
<1>3. a \div m \in Int
  BY RemainderOf
<1>4. (-(a \div m)) * m = -((a \div m) * m)
  BY <1>2, <1>3
<1>5. (a \div m) * m \in Int
  BY <1>3
<1>6. a % m = a + (-(a \div m)) * m
  BY <1>1, <1>4, <1>5
<1> QED
  BY <1>1, <1>6 DEF Congruent

(* Congruent numbers leave the same remainder.                             *)
LEMMA CongruentHaveOneRemainder ==
  ASSUME NEW m \in Nat, m >= 1, NEW a \in Int, NEW b \in Int, Congruent(a, b, m)
  PROVE  a % m = b % m
<1>1. PICK q \in Int : a = b + q * m
  BY DEF Congruent
<1>2. PICK r \in 0 .. (m - 1) : r = b % m
  BY RemainderOf
<1>3. PICK d \in Int : d = b \div m
  BY RemainderOf
<1>4. b = r + d * m
  BY <1>2, <1>3, RemainderOf
<1>5. (d + q) * m = d * m + q * m /\ d * m \in Int /\ q * m \in Int
  OBVIOUS
<1>6. a = r + (d + q) * m
  BY <1>1, <1>4, <1>5
<1>7. d + q \in Int
  OBVIOUS
<1>8. a % m = r
  BY <1>6, <1>7, RemainderIsUnique
<1> QED
  BY <1>2, <1>8

(* Congruence is reflexive.                                                *)
LEMMA CongruentToItself ==
  ASSUME NEW m \in Nat, NEW a \in Int
  PROVE  Congruent(a, a, m)
<1>1. 0 \in Int /\ a = a + 0 * m
  OBVIOUS
<1> QED
  BY <1>1 DEF Congruent

(* Congruence is symmetric.                                                *)
LEMMA CongruentSymmetric ==
  ASSUME NEW m \in Nat, NEW a \in Int, NEW b \in Int, Congruent(a, b, m)
  PROVE  Congruent(b, a, m)
<1>1. PICK q \in Int : a = b + q * m
  BY DEF Congruent
<1>2. -q \in Int /\ (-q) * m = -(q * m) /\ q * m \in Int
  OBVIOUS
<1>3. b = a + (-q) * m
  BY <1>1, <1>2
<1> QED
  BY <1>2, <1>3 DEF Congruent

(* Congruence is transitive.                                               *)
LEMMA CongruentTransitive ==
  ASSUME NEW m \in Nat, NEW a \in Int, NEW b \in Int, NEW c \in Int,
         Congruent(a, b, m), Congruent(b, c, m)
  PROVE  Congruent(a, c, m)
<1>1. PICK q \in Int : a = b + q * m
  BY DEF Congruent
<1>2. PICK r \in Int : b = c + r * m
  BY DEF Congruent
<1>3. q + r \in Int /\ (q + r) * m = q * m + r * m /\ q * m \in Int /\ r * m \in Int
  OBVIOUS
<1>4. a = c + (q + r) * m
  BY <1>1, <1>2, <1>3
<1> QED
  BY <1>3, <1>4 DEF Congruent

(* Congruence is kept by sums.                                             *)
LEMMA CongruentSums ==
  ASSUME NEW m \in Nat, NEW a \in Int, NEW b \in Int, NEW c \in Int, NEW d \in Int,
         Congruent(a, c, m), Congruent(b, d, m)
  PROVE  Congruent(a + b, c + d, m)
<1>1. PICK q \in Int : a = c + q * m
  BY DEF Congruent
<1>2. PICK r \in Int : b = d + r * m
  BY DEF Congruent
<1>3. q + r \in Int /\ (q + r) * m = q * m + r * m /\ q * m \in Int /\ r * m \in Int
  OBVIOUS
<1>4. a + b = (c + d) + (q + r) * m
  BY <1>1, <1>2, <1>3
<1> QED
  BY <1>3, <1>4 DEF Congruent

(* Congruence is kept by negation.                                         *)
LEMMA CongruentNegatives ==
  ASSUME NEW m \in Nat, NEW a \in Int, NEW b \in Int, Congruent(a, b, m)
  PROVE  Congruent(-a, -b, m)
<1>1. PICK q \in Int : a = b + q * m
  BY DEF Congruent
<1>2. -q \in Int /\ (-q) * m = -(q * m) /\ q * m \in Int
  OBVIOUS
<1>3. -a = (-b) + (-q) * m
  BY <1>1, <1>2
<1> QED
  BY <1>2, <1>3 DEF Congruent

(* Congruence is kept by differences.                                      *)
LEMMA CongruentDifferences ==
  ASSUME NEW m \in Nat, NEW a \in Int, NEW b \in Int, NEW c \in Int, NEW d \in Int,
         Congruent(a, c, m), Congruent(b, d, m)
  PROVE  Congruent(a - b, c - d, m)
<1>1. -b \in Int /\ -d \in Int
  OBVIOUS
<1>2. Congruent(-b, -d, m)
  BY CongruentNegatives
<1>3. Congruent(a + (-b), c + (-d), m)
  BY <1>1, <1>2, CongruentSums
<1>4. a + (-b) = a - b /\ c + (-d) = c - d
  OBVIOUS
<1> QED
  BY <1>3, <1>4

(* Congruence is kept by a multiplication with one number.                 *)
LEMMA CongruentMultiples ==
  ASSUME NEW m \in Nat, NEW a \in Int, NEW b \in Int, NEW k \in Int, Congruent(a, b, m)
  PROVE  Congruent(a * k, b * k, m)
<1>1. PICK q \in Int : a = b + q * m
  BY DEF Congruent
<1>2. \A x, y, z \in Int : (x + y) * z = x * z + y * z
  OBVIOUS
<1>3. \A x, y, z \in Int : (x * y) * z = (x * z) * y
  OBVIOUS
<1>4. q * m \in Int /\ q * k \in Int
  OBVIOUS
<1>5. a * k = b * k + (q * m) * k
  BY <1>1, <1>2, <1>4
<1>6. (q * m) * k = (q * k) * m
  BY <1>3
<1> QED
  BY <1>4, <1>5, <1>6 DEF Congruent

(* Congruence is kept by products.                                         *)
LEMMA CongruentProducts ==
  ASSUME NEW m \in Nat, NEW a \in Int, NEW b \in Int, NEW c \in Int, NEW d \in Int,
         Congruent(a, c, m), Congruent(b, d, m)
  PROVE  Congruent(a * b, c * d, m)
<1>1. Congruent(a * b, c * b, m)
  BY CongruentMultiples
<1>2. Congruent(b * c, d * c, m)
  BY CongruentMultiples
<1>3. b * c = c * b /\ d * c = c * d
  OBVIOUS
<1>4. a * b \in Int /\ c * b \in Int /\ c * d \in Int
  OBVIOUS
<1>5. Congruent(c * b, c * d, m)
  BY <1>2, <1>3
<1> QED
  BY <1>1, <1>4, <1>5, CongruentTransitive

(* What differs by a multiple of a multiple of m.                          *)
LEMMA CongruentByDivisor ==
  ASSUME NEW m \in Nat, NEW n \in Nat, NEW k \in Nat, n = k * m,
         NEW a \in Int, NEW b \in Int, Congruent(a, b, n)
  PROVE  Congruent(a, b, m)
<1>1. PICK q \in Int : a = b + q * n
  BY DEF Congruent
<1>2. \A x, y, z \in Int : x * (y * z) = (x * y) * z
  OBVIOUS
<1>3. q * n = (q * k) * m
  BY <1>2
<1>4. q * k \in Int
  OBVIOUS
<1> QED
  BY <1>1, <1>3, <1>4 DEF Congruent

(***************************************************************************)
(* Two's complement.                                                       *)
(***************************************************************************)

(* The values of an integer type.                                          *)
InWidth(n, width, is_signed) ==
    IF is_signed THEN n \in -(2^(width - 1)) .. (2^(width - 1) - 1)
                 ELSE n \in 0 .. (2^width - 1)

(* Truncation leaves a number that a register of the width holds.          *)
LEMMA TruncateIsBits ==
  ASSUME NEW w \in Nat, NEW a \in Int
  PROVE  Truncate(a, w) \in 0 .. (2^w - 1)
  BY PowerIsPositive, RemainderOf DEF Truncate

(* Truncation leaves a congruent number.                                   *)
LEMMA TruncateIsCongruent ==
  ASSUME NEW w \in Nat, NEW a \in Int
  PROVE  Congruent(Truncate(a, w), a, 2^w) /\ Congruent(a, Truncate(a, w), 2^w)
<1>1. 2^w \in Nat /\ 2^w >= 1
  BY PowerIsPositive
<1>2. Congruent(Truncate(a, w), a, 2^w)
  BY <1>1, RemainderIsCongruent DEF Truncate
<1>3. Truncate(a, w) \in Int
  BY TruncateIsBits
<1> QED
  BY <1>1, <1>2, <1>3, CongruentSymmetric

(* Congruent numbers have the same low bits.                               *)
LEMMA CongruentTruncateAlike ==
  ASSUME NEW w \in Nat, NEW a \in Int, NEW b \in Int, Congruent(a, b, 2^w)
  PROVE  Truncate(a, w) = Truncate(b, w)
<1>1. 2^w \in Nat /\ 2^w >= 1
  BY PowerIsPositive
<1> QED
  BY <1>1, CongruentHaveOneRemainder DEF Truncate

(* Numbers with the same low bits are congruent.                           *)
LEMMA TruncateAlikeIsCongruent ==
  ASSUME NEW w \in Nat, NEW a \in Int, NEW b \in Int, Truncate(a, w) = Truncate(b, w)
  PROVE  Congruent(a, b, 2^w)
<1>1. 2^w \in Nat
  BY PowerIsPositive
<1>2. Truncate(a, w) \in Int
  BY TruncateIsBits
<1>3. Congruent(a, Truncate(a, w), 2^w) /\ Congruent(Truncate(a, w), b, 2^w)
  BY TruncateIsCongruent
<1> QED
  BY <1>1, <1>2, <1>3, CongruentTransitive

(* Truncation changes nothing that fits already.                           *)
LEMMA TruncateKeepsBits ==
  ASSUME NEW w \in Nat, NEW a \in 0 .. (2^w - 1)
  PROVE  Truncate(a, w) = a
<1>1. 2^w \in Nat /\ 2^w >= 1
  BY PowerIsPositive
<1>2. a \in Int /\ a = a + 0 * 2^w
  BY <1>1
<1> QED
  BY <1>1, <1>2, RemainderIsUnique DEF Truncate

(* What agrees in a wider register agrees in a narrower one.               *)
LEMMA CongruentInNarrower ==
  ASSUME NEW w \in Nat, NEW v \in 0 .. w, NEW a \in Int, NEW b \in Int, Congruent(a, b, 2^w)
  PROVE  Congruent(a, b, 2^v)
<1>1. PICK k \in Nat : 2^w = k * 2^v
  BY PowerDivides
<1>2. v \in Nat /\ 2^w \in Nat /\ 2^v \in Nat
  BY PowerIsPositive
<1> QED
  BY <1>1, <1>2, CongruentByDivisor

(* A truncation forgets a wider one before it.                             *)
LEMMA TruncateTwice ==
  ASSUME NEW w \in Nat, NEW v \in 0 .. w, NEW a \in Int
  PROVE  Truncate(Truncate(a, w), v) = Truncate(a, v)
<1>1. v \in Nat /\ Truncate(a, w) \in Int
  BY TruncateIsBits
<1>2. Congruent(Truncate(a, w), a, 2^w)
  BY TruncateIsCongruent
<1>3. Congruent(Truncate(a, w), a, 2^v)
  BY <1>1, <1>2, CongruentInNarrower
<1> QED
  BY <1>1, <1>3, CongruentTruncateAlike

(* The values of a width are integers.                                     *)
LEMMA InWidthIsInteger ==
  ASSUME NEW w \in Nat, w >= 1, NEW is_signed \in BOOLEAN, NEW n, InWidth(n, w, is_signed)
  PROVE  n \in Int
  BY HalfOfPower DEF InWidth

(* What a register reads as is a value of its width.                       *)
LEMMA ReadsInWidth ==
  ASSUME NEW w \in Nat, w >= 1, NEW is_signed \in BOOLEAN, NEW a \in 0 .. (2^w - 1)
  PROVE  /\ InWidth(Reads(a, w, is_signed), w, is_signed)
         /\ Reads(a, w, is_signed) \in Int
<1>1. /\ 2^(w - 1) \in Nat
      /\ 2^(w - 1) >= 1
      /\ 2^w = 2 * 2^(w - 1)
      /\ 2^w \in Nat
  BY HalfOfPower
<1>2. CASE is_signed
  BY <1>1, <1>2 DEF Reads, Signed, InWidth
<1>3. CASE ~is_signed
  BY <1>1, <1>3 DEF Reads, InWidth
<1> QED
  BY <1>2, <1>3

(* What a register reads as is congruent to its bits.                      *)
LEMMA ReadsIsCongruent ==
  ASSUME NEW w \in Nat, w >= 1, NEW is_signed \in BOOLEAN, NEW a \in 0 .. (2^w - 1)
  PROVE  Congruent(Reads(a, w, is_signed), a, 2^w)
<1>1. 2^w \in Nat /\ a \in Int
  BY HalfOfPower
<1>2. CASE Reads(a, w, is_signed) = a
  BY <1>1, <1>2, CongruentToItself
<1>3. CASE Reads(a, w, is_signed) = a - 2^w
  <2>1. -1 \in Int /\ a - 2^w = a + (-1) * 2^w
    BY <1>1
  <2> QED
    BY <1>3, <2>1 DEF Congruent
<1> QED
  BY <1>2, <1>3 DEF Reads, Signed

(* A value of the type is what its bits are read as.                       *)
LEMMA ReadsOfTruncated ==
  ASSUME NEW w \in Nat, w >= 1, NEW is_signed \in BOOLEAN, NEW n, InWidth(n, w, is_signed)
  PROVE  Reads(Truncate(n, w), w, is_signed) = n
<1>1. /\ 2^(w - 1) \in Nat
      /\ 2^(w - 1) >= 1
      /\ 2^w = 2 * 2^(w - 1)
      /\ 2^w \in Nat
      /\ n \in Int
  BY HalfOfPower, InWidthIsInteger
<1>2. CASE n >= 0
  <2>1. n \in 0 .. (2^w - 1) /\ (is_signed => n < 2^(w - 1))
    BY <1>1, <1>2 DEF InWidth
  <2>2. Truncate(n, w) = n
    BY <2>1, TruncateKeepsBits
  <2> QED
    BY <2>1, <2>2 DEF Reads, Signed
<1>3. CASE n < 0
  <2>1. is_signed /\ n + 2^w \in 0 .. (2^w - 1) /\ n + 2^w >= 2^(w - 1)
    BY <1>1, <1>3 DEF InWidth
  <2>2. n = (n + 2^w) + (-1) * 2^w /\ -1 \in Int /\ n + 2^w \in Int
    BY <1>1
  <2>3. Congruent(n, n + 2^w, 2^w)
    BY <2>2 DEF Congruent
  <2>4. Truncate(n, w) = Truncate(n + 2^w, w)
    BY <1>1, <2>2, <2>3, CongruentTruncateAlike
  <2>5. Truncate(n, w) = n + 2^w
    BY <2>1, <2>4, TruncateKeepsBits
  <2> QED
    BY <1>1, <2>1, <2>5 DEF Reads, Signed
<1> QED
  BY <1>1, <1>2, <1>3

(* A narrow type has none but values of a wider one of the same sign.      *)
LEMMA InWidthWidens ==
  ASSUME NEW w \in Nat, NEW v \in 1 .. w, NEW is_signed \in BOOLEAN, NEW n,
         InWidth(n, v, is_signed)
  PROVE  InWidth(n, w, is_signed)
<1>1. 2^v <= 2^w /\ 2^(v - 1) <= 2^(w - 1)
  <2>1. v - 1 \in 0 .. (w - 1) /\ w - 1 \in Nat /\ v \in 0 .. w
    OBVIOUS
  <2> QED
    BY <2>1, PowerGrows
<1>2. /\ 2^v \in Nat
      /\ 2^w \in Nat
      /\ 2^(v - 1) \in Nat
      /\ 2^(w - 1) \in Nat
  BY HalfOfPower
<1> QED
  BY <1>1, <1>2 DEF InWidth

(* The bits of a register determine the value, and the value the bits.     *)
LEMMA ReadsIsInjective ==
  ASSUME NEW w \in Nat, w >= 1, NEW is_signed \in BOOLEAN,
         NEW a \in 0 .. (2^w - 1), NEW b \in 0 .. (2^w - 1),
         Reads(a, w, is_signed) = Reads(b, w, is_signed)
  PROVE  a = b
<1>1. /\ 2^(w - 1) \in Nat
      /\ 2^w = 2 * 2^(w - 1)
      /\ 2^w \in Nat
  BY HalfOfPower
<1> QED
  BY <1>1 DEF Reads, Signed

(* No bits read as zero, signed or not.                                    *)
LEMMA ReadsOfZero ==
  ASSUME NEW w \in Nat, w >= 1, NEW is_signed \in BOOLEAN
  PROVE  Reads(0, w, is_signed) = 0
  BY HalfOfPower DEF Reads, Signed

(***************************************************************************)
(* Bits one by one                                                         *)
(***************************************************************************)

(* A uint64_t has bits.                                                    *)
LEMMA WidthIsPositive == Width \in Nat /\ Width >= 1
  BY WidthAssumption

(* The number that has ones at the first n of some positions.              *)
IsSum(sum, positions) ==
    sum = [n \in 0 .. Width |->
             IF n = 0 THEN 0
                      ELSE sum[n - 1] + IF n - 1 \in positions THEN 2^(n - 1) ELSE 0]

(* The function that FromOnes chooses exists.                              *)
LEMMA SumExists ==
  ASSUME NEW positions
  PROVE  \E sum : IsSum(sum, positions)
<1> DEFINE One(n) == IF n - 1 \in positions THEN 2^(n - 1) ELSE 0
           U == {n \in Nat : \E sum :
                    sum = [m \in 0 .. n |-> IF m = 0 THEN 0 ELSE sum[m - 1] + One(m)]}
<1> HIDE DEF One
<1>1. 0 \in U
  <2>1. [m \in 0 .. 0 |-> 0]
          = [m \in 0 .. 0 |-> IF m = 0 THEN 0 ELSE [k \in 0 .. 0 |-> 0][m - 1] + One(m)]
    OBVIOUS
  <2> QED
    BY <2>1
<1>2. ASSUME NEW n \in U
      PROVE  n + 1 \in U
  <2>1. PICK sum : sum = [m \in 0 .. n |-> IF m = 0 THEN 0 ELSE sum[m - 1] + One(m)]
    OBVIOUS
  <2> DEFINE longer == [m \in 0 .. n + 1 |-> IF m = n + 1 THEN sum[n] + One(n + 1) ELSE sum[m]]
  <2>2. longer = [m \in 0 .. n + 1 |-> IF m = 0 THEN 0 ELSE longer[m - 1] + One(m)]
    <3>1. ASSUME NEW m \in 0 .. n + 1
          PROVE  longer[m] = IF m = 0 THEN 0 ELSE longer[m - 1] + One(m)
      <4>1. CASE m = n + 1
        BY <4>1
      <4>2. CASE m # n + 1
        <5>1. m \in 0 .. n
          BY <4>2
        <5>2. sum[m] = IF m = 0 THEN 0 ELSE sum[m - 1] + One(m)
          <6> HIDE DEF longer
          <6> QED BY <2>1, <5>1
        <5> QED
          BY <5>1, <5>2
      <4> QED
        BY <4>1, <4>2
    <3> QED
      BY <3>1
  <2> HIDE DEF longer
  <2> QED
    BY <2>2
<1>3. \A n \in Nat : n \in U
  <2>1. U \in SUBSET Nat
    OBVIOUS
  <2> HIDE DEF U
  <2> QED BY <1>1, <1>2, <2>1, NaturalInduction
<1>4. Width \in U
  BY <1>3, WidthIsPositive
<1> QED
  BY <1>4 DEF IsSum, One

(* FromOnes is the last sum of such a function.                            *)
LEMMA FromOnesIsSum ==
  ASSUME NEW positions
  PROVE  \E sum : IsSum(sum, positions) /\ FromOnes(positions) = sum[Width]
<1> DEFINE f == CHOOSE sum : IsSum(sum, positions)
<1>1. IsSum(f, positions)
  BY SumExists
<1>2. FromOnes(positions) = f[Width]
  BY DEF FromOnes, IsSum
<1> QED
  BY <1>1, <1>2

(* The sum one position further.                                           *)
LEMMA SumSteps ==
  ASSUME NEW positions, NEW sum, IsSum(sum, positions)
  PROVE  /\ sum[0] = 0
         /\ \A n \in 0 .. Width - 1 :
               sum[n + 1] = sum[n] + IF n \in positions THEN 2^n ELSE 0
<1>1. 0 \in 0 .. Width
  BY WidthIsPositive
<1>2. ASSUME NEW n \in 0 .. Width - 1
      PROVE  sum[n + 1] = sum[n] + IF n \in positions THEN 2^n ELSE 0
  <2>1. n + 1 \in 0 .. Width /\ n + 1 # 0 /\ (n + 1) - 1 = n
    BY WidthIsPositive
  <2> QED
    BY <2>1 DEF IsSum
<1> QED
  BY <1>1, <1>2 DEF IsSum

(* A sum over the first n positions has n bits.                            *)
LEMMA SumIsBits ==
  ASSUME NEW positions, NEW sum, IsSum(sum, positions)
  PROVE  \A n \in 0 .. Width : sum[n] \in 0 .. (2^n - 1)
<1> DEFINE U == {n \in 0 .. Width : sum[n] \in 0 .. (2^n - 1)}
<1>1. 0 \in U
  BY SumSteps, PowerOfZero, WidthIsPositive
<1>2. ASSUME NEW n \in 0 .. Width - 1, n \in U
      PROVE  n + 1 \in U
  <2>1. n + 1 \in 0 .. Width /\ n \in Nat
    BY WidthIsPositive
  <2>2. 2^n \in Nat /\ 2^n >= 1 /\ 2^(n + 1) = 2 * 2^n
    BY <2>1, PowerIsPositive, PowerOfNext
  <2>3. sum[n + 1] = sum[n] + IF n \in positions THEN 2^n ELSE 0
    BY SumSteps
  <2> QED
    BY <1>2, <2>1, <2>2, <2>3
<1>3. Width \in Nat
  BY WidthIsPositive
<1> HIDE DEF U
<1>4. \A n \in 0 .. Width : n \in U
  BY <1>1, <1>2, <1>3, IntervalInduction
<1> QED
  BY <1>4 DEF U

(* Ones further up do not matter for the lowest w bits.                    *)
LEMMA SumIsCongruent ==
  ASSUME NEW positions, NEW sum, IsSum(sum, positions), NEW w \in 0 .. Width
  PROVE  Congruent(sum[Width], sum[w], 2^w)
<1> DEFINE U == {n \in 0 .. Width : n >= w => Congruent(sum[n], sum[w], 2^w)}
<1>1. w \in Nat /\ Width \in Nat /\ 2^w \in Nat /\ sum[w] \in Int
  <2>1. w \in Nat /\ Width \in Nat
    BY WidthIsPositive
  <2>2. sum[w] \in 0 .. (2^w - 1) /\ 2^w \in Nat
    BY <2>1, SumIsBits, PowerIsPositive
  <2> QED
    BY <2>1, <2>2
<1>2. Congruent(sum[w], sum[w], 2^w)
  BY <1>1, CongruentToItself
<1>3. 0 \in U
  <2>1. 0 >= w => w = 0
    BY <1>1
  <2> QED
    BY <1>1, <1>2, <2>1
<1>4. ASSUME NEW n \in 0 .. Width - 1, n \in U
      PROVE  n + 1 \in U
  <2>1. n + 1 \in 0 .. Width /\ n \in Nat /\ n \in 0 .. Width
    BY <1>1
  <2>2. CASE n < w
    <3>1. n + 1 >= w => n + 1 = w
      BY <1>1, <2>1, <2>2
    <3> QED
      BY <1>2, <2>1, <3>1
  <2>3. CASE n >= w
    <3>1. w \in 0 .. n
      BY <1>1, <2>1, <2>3
    <3>2. PICK k \in Nat : 2^n = k * 2^w
      BY <2>1, <3>1, PowerDivides
    <3>3. sum[n + 1] = sum[n] + IF n \in positions THEN 2^n ELSE 0
      BY SumSteps
    <3>4. sum[n] \in Int
      <4>1. sum[n] \in 0 .. (2^n - 1) /\ 2^n \in Nat
        BY <2>1, SumIsBits, PowerIsPositive
      <4> QED
        BY <4>1
    <3>5. Congruent(sum[n + 1], sum[n], 2^w) /\ sum[n + 1] \in Int
      <4>1. CASE n \in positions
        <5>1. sum[n + 1] = sum[n] + k * 2^w
          BY <3>2, <3>3, <4>1
        <5>2. k * 2^w \in Int
          BY <1>1
        <5> QED
          BY <3>4, <5>1, <5>2 DEF Congruent
      <4>2. CASE n \notin positions
        <5>1. sum[n + 1] = sum[n]
          BY <3>3, <3>4, <4>2
        <5> QED
          BY <1>1, <3>4, <5>1, CongruentToItself
      <4> QED
        BY <4>1, <4>2
    <3>6. Congruent(sum[n], sum[w], 2^w)
      BY <1>4, <2>3
    <3>7. Congruent(sum[n + 1], sum[w], 2^w)
      BY <1>1, <3>4, <3>5, <3>6, CongruentTransitive
    <3> QED
      BY <2>1, <3>7
  <2> QED
    BY <1>1, <2>1, <2>2, <2>3
<1>5. \A n \in 0 .. Width : n \in U
  <2> HIDE DEF U
  <2> QED BY <1>1, <1>3, <1>4, IntervalInduction
<1>6. Width \in 0 .. Width /\ Width >= w
  BY <1>1
<1> QED
  BY <1>5, <1>6

(* The lowest w bits are determined by the ones among them.                *)
LEMMA SumsAlike ==
  ASSUME NEW P, NEW Q, NEW f, NEW g, IsSum(f, P), IsSum(g, Q), NEW w \in 0 .. Width,
         \A i \in 0 .. w - 1 : i \in P <=> i \in Q
  PROVE  f[w] = g[w]
<1> DEFINE U == {n \in 0 .. w : f[n] = g[n]}
<1>1. w \in Nat /\ Width \in Nat
  BY WidthIsPositive
<1>2. 0 \in U
  BY <1>1, SumSteps
<1>3. ASSUME NEW n \in 0 .. w - 1, n \in U
      PROVE  n + 1 \in U
  <2>1. n \in 0 .. Width - 1 /\ n + 1 \in 0 .. w
    BY <1>1
  <2>2. f[n + 1] = f[n] + IF n \in P THEN 2^n ELSE 0
    BY <2>1, SumSteps
  <2>3. g[n + 1] = g[n] + IF n \in Q THEN 2^n ELSE 0
    BY <2>1, SumSteps
  <2>4. (n \in P <=> n \in Q) /\ f[n] = g[n]
    BY <1>3
  <2> QED
    BY <2>1, <2>2, <2>3, <2>4
<1>4. \A n \in 0 .. w : n \in U
  <2> HIDE DEF U
  <2> QED BY <1>1, <1>2, <1>3, IntervalInduction
<1>5. w \in 0 .. w
  BY <1>1
<1> QED
  BY <1>4, <1>5

(* Positions that agree below w give the same w low bits.                  *)
LEMMA FromOnesAlike ==
  ASSUME NEW P, NEW Q, NEW w \in 0 .. Width, \A i \in 0 .. w - 1 : i \in P <=> i \in Q
  PROVE  Truncate(FromOnes(P), w) = Truncate(FromOnes(Q), w)
<1>1. PICK f : IsSum(f, P) /\ FromOnes(P) = f[Width]
  BY FromOnesIsSum
<1>2. PICK g : IsSum(g, Q) /\ FromOnes(Q) = g[Width]
  BY FromOnesIsSum
<1>3. f[w] = g[w]
  BY <1>1, <1>2, SumsAlike
<1>4. Width \in Nat /\ Width \in 0 .. Width /\ w \in Nat /\ 2^w \in Nat /\ 2^Width \in Nat
  BY WidthIsPositive, PowerIsPositive
<1>5. f[Width] \in Int /\ g[Width] \in Int /\ f[w] \in Int
  <2>1. /\ f[Width] \in 0 .. (2^Width - 1)
        /\ g[Width] \in 0 .. (2^Width - 1)
        /\ f[w] \in 0 .. (2^w - 1)
    BY <1>1, <1>2, <1>4, SumIsBits
  <2> QED
    BY <1>4, <2>1
<1>6. Truncate(f[Width], w) = Truncate(f[w], w)
  BY <1>1, <1>4, <1>5, SumIsCongruent, CongruentTruncateAlike
<1>7. Truncate(g[Width], w) = Truncate(g[w], w)
  BY <1>2, <1>3, <1>4, <1>5, SumIsCongruent, CongruentTruncateAlike
<1> QED
  BY <1>1, <1>2, <1>3, <1>6, <1>7

(* Positions below w give w bits.                                          *)
LEMMA FromOnesIsBits ==
  ASSUME NEW w \in 0 .. Width, NEW P, P \subseteq 0 .. w - 1
  PROVE  FromOnes(P) \in 0 .. (2^w - 1)
<1>1. PICK f : IsSum(f, P) /\ FromOnes(P) = f[Width]
  BY FromOnesIsSum
<1>2. w \in Nat /\ Width \in Nat
  BY WidthIsPositive
<1> DEFINE U == {n \in 0 .. Width : n >= w => f[n] = f[w]}
<1>3. 0 \in U
  <2>1. 0 >= w => w = 0
    BY <1>2
  <2> QED
    BY <1>2, <2>1
<1>4. ASSUME NEW n \in 0 .. Width - 1, n \in U
      PROVE  n + 1 \in U
  <2>1. n + 1 \in 0 .. Width /\ n \in Nat /\ n \in 0 .. Width
    BY <1>2
  <2>2. CASE n < w
    <3>1. n + 1 >= w => n + 1 = w
      BY <1>2, <2>1, <2>2
    <3> QED
      BY <2>1, <3>1
  <2>3. CASE n >= w
    <3>1. n \notin P
      BY <1>2, <2>1, <2>3
    <3>2. f[n + 1] = f[n] + 0
      BY <1>1, <3>1, SumSteps
    <3>3. f[n] \in Int
      <4>1. f[n] \in 0 .. (2^n - 1) /\ 2^n \in Nat
        BY <1>1, <2>1, SumIsBits, PowerIsPositive
      <4> QED
        BY <4>1
    <3>4. f[n] = f[w]
      BY <1>4, <2>3
    <3> QED
      BY <2>1, <3>2, <3>3, <3>4
  <2> QED
    BY <1>2, <2>1, <2>2, <2>3
<1>5. \A n \in 0 .. Width : n \in U
  <2> HIDE DEF U
  <2> QED BY <1>2, <1>3, <1>4, IntervalInduction
<1>6. f[Width] = f[w]
  BY <1>2, <1>5
<1>7. f[w] \in 0 .. (2^w - 1)
  BY <1>1, SumIsBits
<1> QED
  BY <1>1, <1>6, <1>7

(* A bit of the register is the bit of the number.                         *)
LEMMA BitOfTruncated ==
  ASSUME NEW w \in Nat, NEW i \in 0 .. w - 1, NEW a \in Int
  PROVE  (Truncate(a, w) \div 2^i) % 2 = (a \div 2^i) % 2
<1>1. i \in Nat /\ i + 1 \in 0 .. w /\ 2^i \in Nat /\ 2^i >= 1 /\ 2^(i + 1) = 2 * 2^i
  BY PowerIsPositive, PowerOfNext
<1>2. PICK k \in Nat : 2^w = k * 2^(i + 1)
  BY <1>1, PowerDivides
<1>3. Congruent(a, Truncate(a, w), 2^w) /\ Truncate(a, w) \in Int
  BY TruncateIsCongruent, TruncateIsBits
<1>4. PICK q \in Int : a = Truncate(a, w) + q * 2^w
  BY <1>3 DEF Congruent
<1>5. PICK b \in Int : b = Truncate(a, w)
  BY <1>3
<1>6. PICK p \in Nat : p = 2^i /\ p >= 1
  BY <1>1
<1>7. PICK d \in Int : d = b \div p
  BY <1>6
<1>8. PICK r \in 0 .. (p - 1) : r = b % p /\ b = r + d * p
  BY <1>6, <1>7, RemainderOf
<1>9. PICK e \in Int : e = q * k
  OBVIOUS
<1>10. PICK h \in Int : h = d + 2 * e
  OBVIOUS
<1>11. a = r + h * p
  <2>1. \A x, y, z \in Int : x * (y * (2 * z)) = (2 * (x * y)) * z
    OBVIOUS
  <2>2. q * 2^w = (2 * e) * p
    BY <1>1, <1>2, <1>6, <1>9, <2>1
  <2>3. \A x, y, z \in Int : (x + y) * z = x * z + y * z
    OBVIOUS
  <2>4. 2 * e \in Int /\ p \in Int
    OBVIOUS
  <2>5. h * p = d * p + (2 * e) * p
    BY <1>10, <2>3, <2>4
  <2>6. PICK s \in Int : s = d * p
    BY <2>4
  <2>7. PICK t \in Int : t = (2 * e) * p
    BY <2>4
  <2>8. a = b + t /\ b = r + s /\ h * p = s + t
    BY <1>4, <1>5, <1>8, <2>2, <2>5, <2>6, <2>7
  <2> QED
    BY <2>8
<1>12. a \div p = h
  BY <1>6, <1>8, <1>11, RemainderIsUnique
<1>13. h % 2 = d % 2
  BY <1>10
<1> QED
  BY <1>5, <1>6, <1>7, <1>12, <1>13

(* Truncation keeps the ones below the width.                              *)
LEMMA OnesOfTruncated ==
  ASSUME NEW w \in 0 .. Width, NEW a \in Int
  PROVE  \A i \in 0 .. w - 1 : i \in Ones(a, Width) <=> i \in Ones(Truncate(a, w), w)
<1>1. w \in Nat /\ Width \in Nat
  BY WidthIsPositive
<1>2. ASSUME NEW i \in 0 .. w - 1
      PROVE  i \in Ones(a, Width) <=> i \in Ones(Truncate(a, w), w)
  <2>1. i \in 0 .. Width - 1
    BY <1>1
  <2>2. (Truncate(a, w) \div 2^i) % 2 = (a \div 2^i) % 2
    BY <1>1, BitOfTruncated
  <2> QED
    BY <2>1, <2>2 DEF Ones
<1> QED
  BY <1>2

(***************************************************************************)
(* The machine: what 64 bits and the bits of a register have in common     *)
(***************************************************************************)

(* A quotient is an integer.                                               *)
LEMMA QuotientIsInteger ==
  ASSUME NEW a \in Int, NEW b \in Int, b # 0
  PROVE  Quotient(a, b) \in Int
<1>1. Abs(a) \in Nat /\ Abs(b) \in Nat /\ Abs(b) > 0
  BY DEF Abs
<1>2. Abs(a) \div Abs(b) \in Int
  BY <1>1
<1> QED
  BY <1>2 DEF Quotient

(* The result of a shift is an integer, whatever its operand.              *)
LEMMA ShiftIsInteger ==
  ASSUME NEW w \in Nat, w >= 1, NEW a \in Int, NEW b \in Int
  PROVE  a * 2^(b % w) \in Int /\ a \div 2^(b % w) \in Int
<1>1. b % w \in Nat
  OBVIOUS
<1>2. 2^(b % w) \in Nat /\ 2^(b % w) >= 1
  BY <1>1, PowerIsPositive
<1> QED
  BY <1>2

(* One bit fits every width.                                               *)
LEMMA BitIsBits ==
  ASSUME NEW w \in Nat, w >= 1, NEW a \in 0 .. 1
  PROVE  a \in 0 .. (2^w - 1)
  BY HalfOfPower

(* Only no bits read as zero.                                              *)
LEMMA ReadsOfNonzero ==
  ASSUME NEW w \in Nat, w >= 1, NEW is_signed \in BOOLEAN, NEW a \in 0 .. (2^w - 1), a # 0
  PROVE  Reads(a, w, is_signed) # 0
  BY HalfOfPower DEF Reads, Signed

(* Every operator gives the bits of a register, and a condition one bit.   *)
LEMMA MachineIsBits ==
  ASSUME NEW w \in 1 .. Width, NEW is_signed \in BOOLEAN, NEW op \in Operators,
         NEW a \in 0 .. (2^w - 1), NEW b \in 0 .. (2^w - 1),
         IsDivision(op) => b # 0
  PROVE  /\ Machine(op, w, is_signed, a, b) \in 0 .. (2^w - 1)
         /\ op \notin Arithmetic => Machine(op, w, is_signed, a, b) \in 0 .. 1
<1> DEFINE x == Reads(a, w, is_signed)
           y == Reads(b, w, is_signed)
           result == Machine(op, w, is_signed, a, b)
<1>1. w \in Nat /\ w >= 1 /\ w \in 0 .. Width /\ 2^w \in Nat
  BY WidthIsPositive, HalfOfPower
<1>2. a \in Int /\ b \in Int
  BY <1>1
<1>3. x \in Int /\ y \in Int
  BY <1>1, ReadsInWidth
<1> HIDE DEF x, y, result
<1>4. CASE op = "Addition"
  <2>1. result = Truncate(x + y, w)
    BY <1>4 DEF result, Machine, x, y
  <2>2. x + y \in Int
    BY <1>3
  <2> QED
    BY <1>1, <1>4, <2>1, <2>2, TruncateIsBits DEF result, Arithmetic
<1>5. CASE op = "Subtraction"
  <2>1. result = Truncate(x - y, w)
    BY <1>5 DEF result, Machine, x, y
  <2>2. x - y \in Int
    BY <1>3
  <2> QED
    BY <1>1, <1>5, <2>1, <2>2, TruncateIsBits DEF result, Arithmetic
<1>6. CASE op = "Multiplication"
  <2>1. result = Truncate(x * y, w)
    BY <1>6 DEF result, Machine, x, y
  <2>2. x * y \in Int
    BY <1>3
  <2> QED
    BY <1>1, <1>6, <2>1, <2>2, TruncateIsBits DEF result, Arithmetic
<1>7. CASE IsDivision(op)
  <2>1. y # 0
    BY <1>1, <1>7, ReadsOfNonzero DEF y
  <2>2. Quotient(x, y) \in Int
    BY <1>3, <2>1, QuotientIsInteger
  <2>3. x - y * Quotient(x, y) \in Int
    BY <1>3, <2>2
  <2>4. \/ op = "Division" /\ result = Truncate(Quotient(x, y), w)
        \/ op = "Modulo" /\ result = Truncate(x - y * Quotient(x, y), w)
    BY <1>7 DEF IsDivision, result, Machine, x, y
  <2> QED
    BY <1>1, <2>2, <2>3, <2>4, TruncateIsBits DEF result, Arithmetic
<1>8. CASE op = "BitwiseAnd"
  <2>1. result = FromOnes(Ones(a, w) \cap Ones(b, w))
    BY <1>8 DEF result, Machine
  <2>2. Ones(a, w) \cap Ones(b, w) \subseteq 0 .. w - 1
    BY DEF Ones
  <2> QED
    BY <1>1, <1>8, <2>1, <2>2, FromOnesIsBits DEF result, Arithmetic
<1>9. CASE op = "BitwiseOr"
  <2>1. result = FromOnes(Ones(a, w) \cup Ones(b, w))
    BY <1>9 DEF result, Machine
  <2>2. Ones(a, w) \cup Ones(b, w) \subseteq 0 .. w - 1
    BY DEF Ones
  <2> QED
    BY <1>1, <1>9, <2>1, <2>2, FromOnesIsBits DEF result, Arithmetic
<1>10. CASE op = "LeftShift"
  <2>1. result = Truncate(a * 2^(b % w), w)
    BY <1>10 DEF result, Machine
  <2>2. a * 2^(b % w) \in Int
    BY <1>1, <1>2, ShiftIsInteger
  <2> QED
    BY <1>1, <1>10, <2>1, <2>2, TruncateIsBits DEF result, Arithmetic
<1>11. CASE op = "RightShift"
  <2>1. result = Truncate(x \div 2^(b % w), w)
    BY <1>11 DEF result, Machine, x
  <2>2. x \div 2^(b % w) \in Int
    BY <1>1, <1>2, <1>3, ShiftIsInteger
  <2> QED
    BY <1>1, <1>11, <2>1, <2>2, TruncateIsBits DEF result, Arithmetic
<1>12. CASE op \notin Arithmetic
  <2>1. result \in 0 .. 1
    BY <1>12 DEF result, Machine, Flag, Operators, Arithmetic, Comparisons
  <2> QED
    BY <1>1, <2>1, BitIsBits DEF result
<1> QED
  BY <1>4, <1>5, <1>6, <1>7, <1>8, <1>9, <1>10, <1>11, <1>12
     DEF Operators, Arithmetic, IsDivision

(* A number whose value in a wide register is the one that its low bits    *)
(* have in a narrow one.                                                   *)
ReadsAlike(a, w, is_signed) ==
    Reads(a, Width, is_signed) = Reads(Truncate(a, w), w, is_signed)

(* An amount that a narrow register can be shifted by is not changed by    *)
(* widening it.                                                            *)
LEMMA ShiftsAlike ==
  ASSUME NEW w \in 1 .. Width, NEW is_signed \in BOOLEAN, NEW b \in 0 .. (2^Width - 1),
         ReadsAlike(b, w, is_signed), Truncate(b, w) < w
  PROVE  Truncate(b, w) = b /\ b % Width = b /\ b % w = b
<1>1. /\ w \in Nat
      /\ w >= 1
      /\ Width \in Nat
      /\ Width >= 1
      /\ b \in Int
      /\ 2^Width \in Nat
      /\ 2^w \in Nat
      /\ 2^(w - 1) \in Nat
      /\ w <= 2^(w - 1)
  BY WidthIsPositive, HalfOfPower, PowerExceeds
<1>2. PICK c \in Nat : c = Truncate(b, w)
  BY <1>1, TruncateIsBits
<1>3. Reads(c, w, is_signed) = c
  BY <1>1, <1>2 DEF Reads, Signed
<1>4. Reads(b, Width, is_signed) = c
  BY <1>2, <1>3 DEF ReadsAlike
<1>5. Reads(b, Width, is_signed) \in {b, b - 2^Width}
  BY DEF Reads, Signed
<1>6. b = c
  BY <1>1, <1>4, <1>5
<1>7. b < w /\ b < Width /\ b >= 0
  BY <1>1, <1>2, <1>6
<1>8. \A m \in Nat : b < m => b % m = b
  BY <1>1, <1>7
<1> QED
  BY <1>1, <1>2, <1>6, <1>7, <1>8

(* The bits of the result                                                  *)
ResultBits(op, w) == IF op \in Arithmetic THEN w ELSE 1

(* An operation of 64 bits on any operands has the low bits of the same    *)
(* operation of a register on their low bits, as long as those operands    *)
(* read alike that more than the low bits matter of.                       *)
LEMMA MachinesAgree ==
  ASSUME NEW w \in 1 .. Width, NEW is_signed \in BOOLEAN, NEW op \in Operators,
         NEW a \in 0 .. (2^Width - 1), NEW b \in 0 .. (2^Width - 1),
         "left" \in ReadsAll(op) => ReadsAlike(a, w, is_signed),
         "right" \in ReadsAll(op) => ReadsAlike(b, w, is_signed),
         IsDivision(op) => Truncate(b, w) # 0,
         IsShift(op) => Truncate(b, w) < w,
         op \in {"BooleanAnd", "BooleanOr"} => a \in 0 .. 1 /\ b \in 0 .. 1
  PROVE  Truncate(Machine(op, Width, is_signed, a, b), ResultBits(op, w))
           = Machine(op, w, is_signed, Truncate(a, w), Truncate(b, w))
<1> DEFINE c == Truncate(a, w)
           d == Truncate(b, w)
           x == Reads(a, Width, is_signed)
           y == Reads(b, Width, is_signed)
           u == Reads(c, w, is_signed)
           v == Reads(d, w, is_signed)
           wide == Machine(op, Width, is_signed, a, b)
           narrow == Machine(op, w, is_signed, c, d)
<1>1. /\ w \in Nat
      /\ w >= 1
      /\ w \in 0 .. Width
      /\ Width \in Nat
      /\ Width >= 1
      /\ 2^w \in Nat
      /\ 2^Width \in Nat
  BY WidthIsPositive, HalfOfPower
<1>2. a \in Int /\ b \in Int
  BY <1>1
<1>3. c \in 0 .. (2^w - 1) /\ d \in 0 .. (2^w - 1) /\ c \in Int /\ d \in Int
  <2>1. c \in 0 .. (2^w - 1) /\ d \in 0 .. (2^w - 1)
    BY <1>1, <1>2, TruncateIsBits
  <2> HIDE DEF c, d
  <2> QED
    BY <1>1, <2>1
<1>4. Congruent(a, c, 2^w)
  BY <1>1, <1>2, TruncateIsCongruent
<1> HIDE DEF c, d
<1>5. x \in Int /\ y \in Int /\ u \in Int /\ v \in Int
  BY <1>1, <1>3, ReadsInWidth
<1>6. Congruent(x, u, 2^w)
  <2>1. Congruent(x, a, 2^Width)
    BY <1>1, ReadsIsCongruent
  <2>2. Congruent(x, a, 2^w)
    BY <1>1, <1>2, <1>5, <2>1, CongruentInNarrower
  <2>3. Congruent(u, c, 2^w)
    BY <1>1, <1>3, ReadsIsCongruent
  <2>4. Congruent(c, u, 2^w)
    BY <1>1, <1>3, <1>5, <2>3, CongruentSymmetric
  <2>5. Congruent(x, c, 2^w)
    BY <1>1, <1>2, <1>3, <1>4, <1>5, <2>2, CongruentTransitive
  <2> QED
    BY <1>1, <1>3, <1>5, <2>4, <2>5, CongruentTransitive
<1>7. Congruent(y, v, 2^w)
  <2>1. Congruent(y, b, 2^Width)
    BY <1>1, ReadsIsCongruent
  <2>2. Congruent(y, b, 2^w)
    BY <1>1, <1>2, <1>5, <2>1, CongruentInNarrower
  <2>3. Congruent(v, d, 2^w)
    BY <1>1, <1>3, ReadsIsCongruent
  <2>4. Congruent(d, v, 2^w)
    BY <1>1, <1>3, <1>5, <2>3, CongruentSymmetric
  <2>5. Congruent(b, d, 2^w)
    BY <1>1, <1>2, TruncateIsCongruent DEF d
  <2>6. Congruent(y, d, 2^w)
    BY <1>1, <1>2, <1>3, <1>5, <2>2, <2>5, CongruentTransitive
  <2> QED
    BY <1>1, <1>3, <1>5, <2>4, <2>6, CongruentTransitive
<1> HIDE DEF x, y, u, v, wide, narrow
<1>8. SUFFICES Truncate(wide, ResultBits(op, w)) = narrow
  BY DEF wide, narrow, c, d
<1>9. "left" \in ReadsAll(op) => x = u
  BY DEF ReadsAlike, x, u, c
<1>10. "right" \in ReadsAll(op) => y = v
  BY DEF ReadsAlike, y, v, d
<1>11. CASE op = "Addition"
  <2>1. wide = Truncate(x + y, Width) /\ narrow = Truncate(u + v, w)
    BY <1>11 DEF wide, narrow, Machine, x, y, u, v
  <2>2. Truncate(wide, w) = Truncate(x + y, w)
    BY <1>1, <1>5, <2>1, TruncateTwice
  <2>3. Truncate(x + y, w) = Truncate(u + v, w)
    <3>1. x + y \in Int /\ u + v \in Int
      BY <1>5
    <3>2. Congruent(x + y, u + v, 2^w)
      BY <1>1, <1>5, <1>6, <1>7, CongruentSums
    <3> QED
      BY <1>1, <3>1, <3>2, CongruentTruncateAlike
  <2> QED
    BY <1>11, <2>1, <2>2, <2>3 DEF ResultBits, Arithmetic
<1>12. CASE op = "Subtraction"
  <2>1. wide = Truncate(x - y, Width) /\ narrow = Truncate(u - v, w)
    BY <1>12 DEF wide, narrow, Machine, x, y, u, v
  <2>2. Truncate(wide, w) = Truncate(x - y, w)
    BY <1>1, <1>5, <2>1, TruncateTwice
  <2>3. Truncate(x - y, w) = Truncate(u - v, w)
    <3>1. x - y \in Int /\ u - v \in Int
      BY <1>5
    <3>2. Congruent(x - y, u - v, 2^w)
      BY <1>1, <1>5, <1>6, <1>7, CongruentDifferences
    <3> QED
      BY <1>1, <3>1, <3>2, CongruentTruncateAlike
  <2> QED
    BY <1>12, <2>1, <2>2, <2>3 DEF ResultBits, Arithmetic
<1>13. CASE op = "Multiplication"
  <2>1. wide = Truncate(x * y, Width) /\ narrow = Truncate(u * v, w)
    BY <1>13 DEF wide, narrow, Machine, x, y, u, v
  <2>2. x * y \in Int /\ u * v \in Int
    BY <1>5
  <2>3. Truncate(wide, w) = Truncate(x * y, w)
    BY <1>1, <2>1, <2>2, TruncateTwice
  <2>4. Congruent(x * y, u * v, 2^w)
    BY <1>1, <1>5, <1>6, <1>7, CongruentProducts
  <2>5. Truncate(x * y, w) = Truncate(u * v, w)
    BY <1>1, <2>2, <2>4, CongruentTruncateAlike
  <2> QED
    BY <1>13, <2>1, <2>3, <2>5 DEF ResultBits, Arithmetic
<1>14. CASE IsDivision(op)
  <2>1. x = u /\ y = v
    BY <1>9, <1>10, <1>14 DEF ReadsAll, IsDivision
  <2>2. v # 0
    BY <1>1, <1>3, <1>14, ReadsOfNonzero DEF v, d
  <2>3. PICK q \in Int : q = Quotient(x, y)
    BY <1>5, <2>1, <2>2, QuotientIsInteger
  <2>4. PICK r \in Int : r = x - y * Quotient(x, y)
    BY <1>5, <2>3
  <2>5. \/ op = "Division" /\ wide = Truncate(q, Width) /\ narrow = Truncate(q, w)
        \/ op = "Modulo" /\ wide = Truncate(r, Width) /\ narrow = Truncate(r, w)
    BY <1>14, <2>1, <2>3, <2>4 DEF IsDivision, wide, narrow, Machine, x, y, u, v
  <2> QED
    BY <1>1, <2>5, TruncateTwice DEF ResultBits, Arithmetic
<1>15. CASE op \in {"BitwiseAnd", "BitwiseOr"}
  <2>1. /\ \A i \in 0 .. w - 1 : i \in Ones(a, Width) <=> i \in Ones(c, w)
        /\ \A i \in 0 .. w - 1 : i \in Ones(b, Width) <=> i \in Ones(d, w)
    BY <1>1, <1>2, OnesOfTruncated DEF c, d
  <2>2. PICK P, Q : /\ wide = FromOnes(P)
                    /\ narrow = FromOnes(Q)
                    /\ Q \subseteq 0 .. w - 1
                    /\ \A i \in 0 .. w - 1 : i \in P <=> i \in Q
    <3>1. CASE op = "BitwiseAnd"
      <4>1. /\ wide = FromOnes(Ones(a, Width) \cap Ones(b, Width))
            /\ narrow = FromOnes(Ones(c, w) \cap Ones(d, w))
        BY <3>1 DEF wide, narrow, Machine
      <4>2. Ones(c, w) \cap Ones(d, w) \subseteq 0 .. w - 1
        BY DEF Ones
      <4> QED
        BY <2>1, <4>1, <4>2
    <3>2. CASE op = "BitwiseOr"
      <4>1. /\ wide = FromOnes(Ones(a, Width) \cup Ones(b, Width))
            /\ narrow = FromOnes(Ones(c, w) \cup Ones(d, w))
        BY <3>2 DEF wide, narrow, Machine
      <4>2. Ones(c, w) \cup Ones(d, w) \subseteq 0 .. w - 1
        BY DEF Ones
      <4> QED
        BY <2>1, <4>1, <4>2
    <3> QED
      BY <1>15, <3>1, <3>2
  <2>3. Truncate(FromOnes(P), w) = Truncate(FromOnes(Q), w)
    BY <1>1, <2>2, FromOnesAlike
  <2>4. Truncate(FromOnes(Q), w) = FromOnes(Q)
    BY <1>1, <2>2, FromOnesIsBits, TruncateKeepsBits
  <2> QED
    BY <1>15, <2>2, <2>3, <2>4 DEF ResultBits, Arithmetic
<1>16. CASE IsShift(op)
  <2>1. ReadsAlike(b, w, is_signed)
    BY <1>16 DEF IsShift, ReadsAll, Comparisons
  <2>2. d = b /\ b % Width = b /\ b % w = b
    BY <1>16, <2>1, ShiftsAlike DEF d
  <2>3. PICK p \in Int : p = 2^b /\ p >= 1
    BY <1>1, <2>2, PowerIsPositive
  <2>4. CASE op = "LeftShift"
    <3>1. wide = Truncate(a * p, Width) /\ narrow = Truncate(c * p, w)
      BY <2>2, <2>3, <2>4 DEF wide, narrow, Machine
    <3>2. a * p \in Int /\ c * p \in Int
      BY <1>2, <1>3
    <3>3. Truncate(wide, w) = Truncate(a * p, w)
      BY <1>1, <3>1, <3>2, TruncateTwice
    <3>4. Congruent(a * p, c * p, 2^w)
      BY <1>1, <1>2, <1>3, <1>4, CongruentMultiples
    <3>5. Truncate(a * p, w) = Truncate(c * p, w)
      BY <1>1, <3>2, <3>4, CongruentTruncateAlike
    <3> QED
      BY <2>4, <3>1, <3>3, <3>5 DEF ResultBits, Arithmetic
  <2>5. CASE op = "RightShift"
    <3>1. x = u
      BY <1>9, <2>5 DEF ReadsAll
    <3>2. wide = Truncate(x \div p, Width) /\ narrow = Truncate(x \div p, w)
      BY <2>2, <2>3, <2>5, <3>1 DEF wide, narrow, Machine, x, u
    <3>3. x \div p \in Int
      BY <1>5, <2>3
    <3>4. Truncate(wide, w) = Truncate(x \div p, w)
      BY <1>1, <3>2, <3>3, TruncateTwice
    <3> QED
      BY <2>5, <3>2, <3>4 DEF ResultBits, Arithmetic
  <2> QED
    BY <1>16, <2>4, <2>5 DEF IsShift
<1>17. CASE op \in Comparisons
  <2>1. x = u /\ y = v
    BY <1>9, <1>10, <1>17 DEF ReadsAll, Comparisons
  <2>2. a = b <=> c = d
    <3>1. a = b => c = d
      BY DEF c, d
    <3>2. c = d => a = b
      <4>1. c = d => x = y
        BY <2>1 DEF u, v
      <4> QED
        BY <1>1, <4>1, ReadsIsInjective DEF x, y
    <3> QED
      BY <3>1, <3>2
  <2>3. wide = narrow
    BY <1>17, <2>1, <2>2 DEF Comparisons, wide, narrow, Machine, x, y, u, v
  <2>4. wide \in 0 .. 1
    BY <1>17 DEF Comparisons, wide, Machine, x, y, Flag
  <2>5. wide \in 0 .. (2^1 - 1)
    BY <2>4, BitIsBits
  <2>6. Truncate(wide, 1) = wide
    BY <2>5, TruncateKeepsBits
  <2> QED
    BY <1>17, <2>3, <2>6 DEF ResultBits, Arithmetic, Comparisons
<1>18. CASE op \in {"BooleanAnd", "BooleanOr"}
  <2>1. a \in 0 .. (2^w - 1) /\ b \in 0 .. (2^w - 1)
    BY <1>1, <1>18, BitIsBits
  <2>2. c = a /\ d = b
    BY <1>1, <2>1, TruncateKeepsBits DEF c, d
  <2>3. wide = narrow
    BY <1>18, <2>2 DEF wide, narrow, Machine
  <2>4. wide \in 0 .. 1
    BY <1>18 DEF wide, Machine, Flag
  <2>5. wide \in 0 .. (2^1 - 1)
    BY <2>4, BitIsBits
  <2>6. Truncate(wide, 1) = wide
    BY <2>5, TruncateKeepsBits
  <2> QED
    BY <1>18, <2>3, <2>6 DEF ResultBits, Arithmetic
<1> QED
  BY <1>11, <1>12, <1>13, <1>14, <1>15, <1>16, <1>17, <1>18
     DEF Operators, Arithmetic, IsDivision, IsShift

(***************************************************************************)
(* Types                                                                   *)
(***************************************************************************)

(* The sizes that the program names are among Sizes.                       *)
LEMMA SizesAre ==
  /\ Sizes \subseteq 1 .. Width
  /\ Width \in Sizes
  /\ AddressSize \in Sizes
  /\ DefaultSize \in Sizes
<1>1. {Width, AddressSize, DefaultSize} \subseteq Sizes
  BY WidthAssumption
<1> QED
  BY <1>1, WidthAssumption

(* The parts of an integer type.                                           *)
LEMMA IntegerTypesAre ==
  ASSUME NEW type \in IntegerTypes
  PROVE  /\ type.kind = "Integer"
         /\ type.size \in Sizes
         /\ type.size \in 1 .. Width
         /\ type.is_signed \in BOOLEAN
         /\ type = Integer(type.size, type.is_signed)
         /\ BitsOf(type) = type.size
         /\ IsSigned(type) = type.is_signed
<1>1. PICK size \in Sizes, is_signed \in BOOLEAN : type = Integer(size, is_signed)
  BY DEF IntegerTypes
<1>2. /\ type.kind = "Integer"
      /\ type.size = size
      /\ type.is_signed = is_signed
  BY <1>1 DEF Integer
<1>3. size \in 1 .. Width
  BY SizesAre
<1> QED
  BY <1>1, <1>2, <1>3 DEF BitsOf, IsSigned

(* The parts of an enum type.                                              *)
LEMMA EnumTypesAre ==
  ASSUME NEW type \in EnumTypes
  PROVE  /\ type.kind = "Enum"
         /\ Backing(type) \in IntegerTypes
         /\ Backing(type).size = type.size
         /\ Backing(type).is_signed = type.is_signed
         /\ type.size \in 1 .. Width
         /\ type.is_signed \in BOOLEAN
         /\ BitsOf(type) = type.size
         /\ IsSigned(type) = type.is_signed
<1>1. type.kind = "Enum" /\ Backing(type) \in IntegerTypes
  BY TypesAssumption
<1>2. Backing(type).size = type.size /\ Backing(type).is_signed = type.is_signed
  BY DEF Backing, Integer
<1> QED
  BY <1>1, <1>2, IntegerTypesAre DEF BitsOf, IsSigned

(* The kind of a type tells which set it is in.                            *)
LEMMA KindsOfTypes ==
  ASSUME NEW type \in Types
  PROVE  /\ type.kind \in {"Integer", "Enum", "Pointer", "Boolean", "UndeterminedInteger"}
         /\ type.kind = "Integer" <=> type \in IntegerTypes
         /\ type.kind = "Enum" <=> type \in EnumTypes
         /\ type.kind = "Pointer" <=> type \in PointerTypes
         /\ type.kind = "Boolean" <=> type = Boolean
         /\ type.kind = "UndeterminedInteger" <=> type = UndeterminedInteger
<1>1. Boolean.kind = "Boolean" /\ UndeterminedInteger.kind = "UndeterminedInteger"
  BY DEF Boolean, UndeterminedInteger
<1> QED
  BY <1>1, IntegerTypesAre, TypesAssumption DEF Types

(* Every type has some bits and at most Width.                             *)
LEMMA BitsOfTypes ==
  ASSUME NEW type \in Types
  PROVE  BitsOf(type) \in 1 .. Width /\ IsSigned(type) \in BOOLEAN
<1>1. 1 \in 1 .. Width /\ AddressSize \in 1 .. Width /\ Width \in 1 .. Width
  BY SizesAre, WidthIsPositive
<1>2. CASE type \in IntegerTypes
  BY <1>2, IntegerTypesAre
<1>3. CASE type \in EnumTypes
  BY <1>3, EnumTypesAre
<1>4. CASE type.kind \in {"Pointer", "Boolean", "UndeterminedInteger"}
  BY <1>1, <1>4 DEF BitsOf, IsSigned
<1> QED
  BY <1>2, <1>3, <1>4, KindsOfTypes

(* A Boolean has one bit.                                                  *)
LEMMA BitsOfBoolean == BitsOf(Boolean) = 1 /\ Boolean \in Types
  BY DEF BitsOf, Boolean, Types

(* An undetermined integer is signed and has all bits.                     *)
LEMMA BitsOfUndetermined ==
  /\ BitsOf(UndeterminedInteger) = Width
  /\ IsSigned(UndeterminedInteger) = TRUE
  /\ UndeterminedInteger \in Types
  BY DEF BitsOf, IsSigned, UndeterminedInteger, Types

(* A pointer is as wide as an address.                                     *)
LEMMA BitsOfPointers ==
  ASSUME NEW type \in PointerTypes
  PROVE  BitsOf(type) = AddressSize /\ type.kind = "Pointer"
  BY TypesAssumption DEF BitsOf

(* usize is the integer type of addresses.                                 *)
LEMMA usizeIs ==
  usize \in IntegerTypes /\ usize.size = AddressSize /\ BitsOf(usize) = AddressSize
<1>1. usize \in IntegerTypes
  <2>1. PICK is_signed \in BOOLEAN : is_signed = FALSE
    OBVIOUS
  <2>2. Integer(AddressSize, is_signed) \in IntegerTypes
    BY SizesAre DEF IntegerTypes
  <2> QED
    BY <2>1, <2>2 DEF usize
<1>2. usize.size = AddressSize
  BY DEF usize, Integer
<1> QED
  BY <1>1, <1>2, IntegerTypesAre

(* What no value has a type of is no type of an operand.                   *)
LEMMA NoOperandHasNoType == NoOperand.type \notin Types
<1>1. NoOperand.type.kind = "None"
  BY DEF NoOperand
<1> QED
  BY <1>1, KindsOfTypes

(* determine_binary_operation_type returns a type.                         *)
LEMMA DeterminedIsType ==
  ASSUME NEW left \in Types, NEW right \in Types
  PROVE  DetermineType(left, right) \in Types
<1>1. CASE left.kind = "Integer" /\ right.kind = "Integer"
  <2>1. left \in IntegerTypes /\ right \in IntegerTypes
    BY <1>1, KindsOfTypes
  <2>2. /\ left.size \in Sizes
        /\ right.size \in Sizes
        /\ left.is_signed \in BOOLEAN
        /\ right.is_signed \in BOOLEAN
    BY <2>1, IntegerTypesAre
  <2>3. Larger(left.size, right.size) \in Sizes
    BY <2>2 DEF Larger
  <2>4. DetermineType(left, right)
          = Integer(Larger(left.size, right.size), left.is_signed \/ right.is_signed)
    BY <1>1 DEF DetermineType
  <2> QED
    BY <2>2, <2>3, <2>4 DEF IntegerTypes, Types
<1>2. CASE ~(left.kind = "Integer" /\ right.kind = "Integer")
  <2>1. DetermineType(left, right) \in {left, right}
    BY <1>2 DEF DetermineType
  <2> QED
    BY <2>1
<1> QED
  BY <1>1, <1>2

(***************************************************************************)
(* Operands, coercions and casts                                           *)
(***************************************************************************)

(* The bits of an operand, and how the folded ones and the generated ones  *)
(* belong together.                                                        *)
IsOperand(v) ==
    /\ v.type \in Types
    /\ v.folded \in 0 .. (2^Width - 1)
    /\ v.generated \in 0 .. (2^BitsOf(v.type) - 1)
    /\ v.agrees \in BOOLEAN
    /\ v.type = Boolean => v.folded \in 0 .. 1
    /\ v.agrees => Truncate(v.folded, BitsOf(v.type)) = v.generated

(* When the operand built from two values is one.                          *)
LEMMA NewOperand ==
  ASSUME NEW type \in Types, NEW folded \in 0 .. (2^Width - 1), NEW generated,
         NEW agrees \in BOOLEAN,
         type = Boolean => folded \in 0 .. 1,
         agrees => /\ generated \in 0 .. (2^BitsOf(type) - 1)
                   /\ Truncate(folded, BitsOf(type)) = generated
  PROVE  IsOperand(Operand(type, folded, generated, agrees))
<1> DEFINE v == Operand(type, folded, generated, agrees)
<1>1. /\ v.type = type
      /\ v.folded = folded
      /\ v.agrees = agrees
      /\ v.generated = IF agrees THEN generated ELSE 0
  BY DEF Operand
<1>2. 0 \in 0 .. (2^BitsOf(type) - 1)
  BY BitsOfTypes, PowerIsPositive
<1> HIDE DEF v
<1>3. IsOperand(v)
  BY <1>1, <1>2 DEF IsOperand
<1> QED
  BY <1>3 DEF v

(* The bits of a value of an operand in a wider register, and in 64 bits.  *)
LEMMA FoldedIsInteger ==
  ASSUME NEW v, IsOperand(v)
  PROVE  /\ v.folded \in Int
         /\ v.generated \in Int
         /\ BitsOf(v.type) \in Nat
         /\ BitsOf(v.type) >= 1
         /\ BitsOf(v.type) \in 0 .. Width
<1>1. BitsOf(v.type) \in 1 .. Width
  BY BitsOfTypes DEF IsOperand
<1>2. 2^Width \in Nat /\ 2^BitsOf(v.type) \in Nat
  BY <1>1, WidthIsPositive, PowerIsPositive
<1> QED
  BY <1>1, <1>2, WidthIsPositive DEF IsOperand

(* A coerced constant is a uint64_t.                                       *)
LEMMA CoercedIsBits ==
  ASSUME NEW v, IsOperand(v), NEW target
  PROVE  Coerced(v, target) \in 0 .. (2^Width - 1) /\ Coerced(v, target) \in Int
<1>1. CASE v.type.kind = "Integer" /\ target = UndeterminedInteger
  <2>1. v.type \in IntegerTypes
    BY <1>1, KindsOfTypes DEF IsOperand
  <2>2. v.type.size \in 0 .. Width /\ v.type.size \in Nat /\ Width \in Nat
    BY <2>1, IntegerTypesAre, WidthIsPositive
  <2>3. 2^v.type.size <= 2^Width /\ 2^v.type.size \in Nat /\ 2^Width \in Nat
    BY <2>2, PowerGrows, PowerIsPositive
  <2>4. Truncate(v.folded, v.type.size) \in 0 .. (2^v.type.size - 1)
    BY <2>2, FoldedIsInteger, TruncateIsBits
  <2> QED
    BY <1>1, <2>3, <2>4 DEF Coerced
<1>2. CASE ~(v.type.kind = "Integer" /\ target = UndeterminedInteger)
  BY <1>2, FoldedIsInteger DEF Coerced, IsOperand
<1> QED
  BY <1>1, <1>2

(* A coercion between two types that have registers keeps the size.        *)
LEMMA CoercionKeepsSize ==
  ASSUME NEW v, IsOperand(v), NEW target \in Types, Coercible(v, target),
         UndeterminedInteger \notin {v.type, target}
  PROVE  BitsOf(v.type) = BitsOf(target)
<1>1. \/ v.type = target
      \/ v.type.kind = "Enum" /\ target.kind = "Integer" /\ Backing(v.type) = target
      \/ v.type.kind = "Integer" /\ target.kind = "Enum" /\ v.type = Backing(target)
  BY DEF Coercible
<1>2. v.type \in Types
  BY DEF IsOperand
<1>3. CASE v.type.kind = "Enum" /\ target.kind = "Integer" /\ Backing(v.type) = target
  <2>1. v.type \in EnumTypes /\ target \in IntegerTypes
    BY <1>2, <1>3, KindsOfTypes
  <2> QED
    BY <1>3, <2>1, EnumTypesAre, IntegerTypesAre
<1>4. CASE v.type.kind = "Integer" /\ target.kind = "Enum" /\ v.type = Backing(target)
  <2>1. v.type \in IntegerTypes /\ target \in EnumTypes
    BY <1>2, <1>4, KindsOfTypes
  <2> QED
    BY <1>4, <2>1, EnumTypesAre, IntegerTypesAre
<1> QED
  BY <1>1, <1>3, <1>4

(* The operand in a register of the type that it is coerced to.            *)
LEMMA CoercionAgrees ==
  ASSUME NEW v, IsOperand(v), NEW target \in Types, Coercible(v, target)
  PROVE  /\ InRegister(v, target) \in 0 .. (2^BitsOf(target) - 1)
         /\ v.agrees => Truncate(Coerced(v, target), BitsOf(target)) = InRegister(v, target)
         /\ target = Boolean => Coerced(v, target) \in 0 .. 1
         /\ target = UndeterminedInteger => InRegister(v, target) = Coerced(v, target)
<1>1. BitsOf(target) \in Nat
  BY BitsOfTypes
<1>2. Coerced(v, target) \in 0 .. (2^Width - 1) /\ Coerced(v, target) \in Int
  BY CoercedIsBits
<1>3. CASE UndeterminedInteger \in {v.type, target}
  <2>1. InRegister(v, target) = Truncate(Coerced(v, target), BitsOf(target))
    BY <1>3 DEF InRegister
  <2>2. InRegister(v, target) \in 0 .. (2^BitsOf(target) - 1)
    BY <1>1, <1>2, <2>1, TruncateIsBits
  <2>3. target # Boolean
    BY <1>3 DEF Coercible, UndeterminedInteger, Boolean
  <2>4. target = UndeterminedInteger => InRegister(v, target) = Coerced(v, target)
    BY <1>2, <2>1, WidthIsPositive, BitsOfUndetermined, TruncateKeepsBits
  <2> QED
    BY <2>1, <2>2, <2>3, <2>4
<1>4. CASE UndeterminedInteger \notin {v.type, target}
  <2>1. BitsOf(v.type) = BitsOf(target)
    BY <1>4, CoercionKeepsSize
  <2>2. InRegister(v, target) = v.generated /\ Coerced(v, target) = v.folded
    BY <1>4 DEF InRegister, Coerced
  <2>3. target = Boolean => v.type = Boolean
    <3>1. Boolean.kind = "Boolean"
      BY DEF Boolean
    <3> QED
      BY <1>4, <3>1 DEF Coercible
  <2> QED
    BY <1>4, <2>1, <2>2, <2>3 DEF IsOperand
<1> QED
  BY <1>3, <1>4

(* The low bits of a value, widened by the sign of its type.               *)
LEMMA ExtendAgrees ==
  ASSUME NEW v, IsOperand(v), v.agrees
  PROVE  /\ Extend(v.type, v.folded)
              = Truncate(Reads(v.generated, BitsOf(v.type), IsSigned(v.type)), Width)
         /\ Reads(v.generated, BitsOf(v.type), IsSigned(v.type)) \in Int
         /\ Congruent(Reads(v.generated, BitsOf(v.type), IsSigned(v.type)),
                      v.generated, 2^BitsOf(v.type))
<1>1. /\ v.generated \in 0 .. (2^BitsOf(v.type) - 1)
      /\ Truncate(v.folded, BitsOf(v.type)) = v.generated
      /\ IsSigned(v.type) \in BOOLEAN
  BY BitsOfTypes DEF IsOperand
<1> QED
  BY <1>1, FoldedIsInteger, ReadsInWidth, ReadsIsCongruent DEF Extend

(* A widened constant is a uint64_t.                                       *)
LEMMA ExtendIsBits ==
  ASSUME NEW v, IsOperand(v)
  PROVE  Extend(v.type, v.folded) \in 0 .. (2^Width - 1)
<1>1. /\ Truncate(v.folded, BitsOf(v.type)) \in 0 .. (2^BitsOf(v.type) - 1)
      /\ IsSigned(v.type) \in BOOLEAN
  BY BitsOfTypes, FoldedIsInteger, TruncateIsBits DEF IsOperand
<1>2. Reads(Truncate(v.folded, BitsOf(v.type)), BitsOf(v.type), IsSigned(v.type)) \in Int
  BY <1>1, FoldedIsInteger, ReadsInWidth
<1> QED
  BY <1>2, WidthIsPositive, TruncateIsBits DEF Extend

(* A cast gives a constant and a register the same bits.                   *)
LEMMA CastAgrees ==
  ASSUME NEW v, IsOperand(v), NEW target \in Types, target # UndeterminedInteger,
         CastAllowed(v, target)
  PROVE  /\ CastFolded(v, target) \in 0 .. (2^Width - 1)
         /\ target = Boolean => CastFolded(v, target) \in 0 .. 1
         /\ v.agrees => /\ CastGenerated(v, target) \in 0 .. (2^BitsOf(target) - 1)
                        /\ Truncate(CastFolded(v, target), BitsOf(target))
                             = CastGenerated(v, target)
<1> DEFINE w == BitsOf(v.type)
           t == BitsOf(target)
           value == Reads(v.generated, w, IsSigned(v.type))
<1>1. v.type \in Types /\ v.folded \in 0 .. (2^Width - 1) /\ v.folded \in Int
      /\ v.generated \in Int /\ w \in Nat /\ w >= 1 /\ w \in 0 .. Width
  BY FoldedIsInteger DEF IsOperand
<1>2. t \in Nat /\ t >= 1 /\ t \in 0 .. Width /\ Width \in Nat
  BY BitsOfTypes, WidthIsPositive
<1> HIDE DEF w, t, value
<1>3. Coerced(v, target) = v.folded
  BY DEF Coerced
<1>4. CASE ~Coercible(v, target) /\ v.type.kind \in {"Integer", "Enum"}
             /\ target.kind \in {"Integer", "Enum"}
  <2>1. CastFolded(v, target) = Extend(v.type, v.folded)
    BY <1>4 DEF CastFolded
  <2>2. target # Boolean /\ v.type # UndeterminedInteger
    BY <1>4 DEF Boolean, UndeterminedInteger
  <2>3. ASSUME v.agrees
        PROVE  /\ CastGenerated(v, target) \in 0 .. (2^t - 1)
               /\ Truncate(CastFolded(v, target), t) = CastGenerated(v, target)
    <3>1. /\ CastFolded(v, target) = Truncate(value, Width)
          /\ value \in Int
          /\ Congruent(value, v.generated, 2^w)
      BY <2>1, <2>3, ExtendAgrees DEF value, w
    <3>2. Truncate(CastFolded(v, target), t) = Truncate(value, t)
      BY <1>2, <3>1, TruncateTwice
    <3>3. CASE t > w
      <4>1. CastGenerated(v, target) = Truncate(value, t)
        BY <1>4, <3>3 DEF CastGenerated, t, w, value
      <4> QED
        BY <1>2, <3>1, <3>2, <4>1, TruncateIsBits
    <3>4. CASE ~(t > w)
      <4>1. CastGenerated(v, target) = Truncate(v.generated, t)
        BY <2>2, <3>4 DEF CastGenerated, InRegister, t, w
      <4>2. t \in 0 .. w
        BY <1>1, <1>2, <3>4
      <4>3. Congruent(value, v.generated, 2^t)
        BY <1>1, <3>1, <4>2, CongruentInNarrower
      <4>4. Truncate(value, t) = Truncate(v.generated, t)
        BY <1>1, <1>2, <3>1, <4>3, CongruentTruncateAlike
      <4> QED
        BY <1>1, <1>2, <3>2, <4>1, <4>4, TruncateIsBits
    <3> QED
      BY <3>3, <3>4
  <2> QED
    BY <2>1, <2>2, <2>3, ExtendIsBits DEF t
<1>5. CASE ~(~Coercible(v, target) /\ v.type.kind \in {"Integer", "Enum"}
               /\ target.kind \in {"Integer", "Enum"})
  <2>1. CastFolded(v, target) = v.folded
    BY <1>3, <1>5 DEF CastFolded
  <2>2. target = Boolean => v.type = Boolean
    BY DEF CastAllowed, Coercible, Boolean, usize, Integer
  <2>3. CASE v.type = UndeterminedInteger
    <3>1. CastGenerated(v, target) = Truncate(Truncate(v.folded, t), t)
      BY <1>3, <2>3 DEF CastGenerated, InRegister, UndeterminedInteger, t
    <3>2. Truncate(Truncate(v.folded, t), t) = Truncate(v.folded, t)
      <4>1. t \in 0 .. t
        BY <1>2
      <4> QED
        BY <1>1, <1>2, <4>1, TruncateTwice
    <3> QED
      BY <1>1, <1>2, <2>1, <2>2, <3>1, <3>2, TruncateIsBits DEF IsOperand, t
  <2>4. CASE v.type # UndeterminedInteger
    <3>1. t = w
      <4>1. CASE Coercible(v, target)
        BY <2>4, <4>1, CoercionKeepsSize DEF t, w
      <4>2. CASE target = usize /\ v.type.kind = "Pointer"
        <5>1. v.type \in PointerTypes
          BY <1>1, <4>2, KindsOfTypes
        <5> QED
          BY <4>2, <5>1, usizeIs, BitsOfPointers DEF t, w
      <4>3. CASE target.kind = "Pointer" /\ (v.type = usize \/ v.type.kind = "Pointer")
        <5>1. target \in PointerTypes /\ (v.type = usize \/ v.type \in PointerTypes)
          BY <1>1, <4>3, KindsOfTypes
        <5> QED
          BY <5>1, usizeIs, BitsOfPointers DEF t, w
      <4>4. ~(~Coercible(v, target) /\ v.type.kind = "UndeterminedInteger")
        BY <1>1, <2>4, KindsOfTypes
      <4> QED
        BY <1>5, <4>1, <4>2, <4>3, <4>4 DEF CastAllowed
    <3>2. CastGenerated(v, target) = Truncate(v.generated, t)
      BY <1>1, <1>2, <2>4, <3>1 DEF CastGenerated, InRegister, t, w
    <3>3. v.generated \in 0 .. (2^t - 1)
      BY <3>1 DEF IsOperand, w
    <3>4. CastGenerated(v, target) = v.generated
      BY <1>2, <3>2, <3>3, TruncateKeepsBits
    <3>5. v.agrees => Truncate(v.folded, t) = v.generated
      BY <3>1 DEF IsOperand, w
    <3> QED
      BY <1>1, <2>1, <2>2, <3>3, <3>4, <3>5 DEF IsOperand, t
  <2> QED
    BY <2>3, <2>4
<1> QED
  BY <1>4, <1>5

(***************************************************************************)
(* The invariant, and what each action does to an operand                  *)
(***************************************************************************)
IInv ==
    /\ context \in {"declaration", "body", "enum", "loop"}
    /\ status \in {"evaluating", "error", "ended", "trapped", "aborted"}
    /\ DOMAIN operands = Sides
    /\ IsOperand(operands.left)
    /\ operands.right = NoOperand \/ IsOperand(operands.right)
    /\ context \in {"enum", "loop"} => operands.left.type \in IntegerTypes
    /\ context = "loop" => /\ IsOperand(operands.right)
                           /\ operands.right.type = operands.left.type

(* An operand is not the absence of one.                                   *)
LEMMA OperandIsPresent ==
  ASSUME NEW v, IsOperand(v)
  PROVE  v # NoOperand
  BY NoOperandHasNoType DEF IsOperand

(* The operands of an expression that is evaluated.                        *)
LEMMA PresentIsOperand ==
  ASSUME IInv, NEW side \in Sides, operands[side] # NoOperand
  PROVE  IsOperand(operands[side])
  BY DEF IInv, Sides

(* The operands that an expression starts with.                            *)
LEMMA ConstantsAreOperands ==
  ASSUME NEW constant \in Constants
  PROVE  IsOperand(constant)
<1>1. CASE constant \in {Operand(UndeterminedInteger, bits, bits, TRUE) : bits \in Literals}
  <2>1. PICK bits \in Literals : constant = Operand(UndeterminedInteger, bits, bits, TRUE)
    BY <1>1
  <2>2. bits \in 0 .. (2^Width - 1)
    BY WidthAssumption
  <2>3. UndeterminedInteger # Boolean
    BY DEF UndeterminedInteger, Boolean
  <2>4. Truncate(bits, Width) = bits
    BY <2>2, WidthIsPositive, TruncateKeepsBits
  <2> QED
    BY <2>1, <2>2, <2>3, <2>4, BitsOfUndetermined, NewOperand
<1>2. CASE constant \in {Operand(Boolean, bit, bit, TRUE) : bit \in 0 .. 1}
  <2>1. PICK bit \in 0 .. 1 : constant = Operand(Boolean, bit, bit, TRUE)
    BY <1>2
  <2>2. bit \in 0 .. (2^Width - 1) /\ bit \in 0 .. (2^1 - 1)
    BY WidthIsPositive, BitIsBits
  <2>3. Truncate(bit, 1) = bit
    BY <2>2, TruncateKeepsBits
  <2> QED
    BY <2>1, <2>2, <2>3, BitsOfBoolean, NewOperand
<1>3. CASE \E type \in EnumTypes : constant \in
              {Operand(type, Extend(type, bits), bits, TRUE) : bits \in 0 .. (2^type.size - 1)}
  <2>0. PICK type \in EnumTypes : constant \in
           {Operand(type, Extend(type, bits), bits, TRUE) : bits \in 0 .. (2^type.size - 1)}
    BY <1>3
  <2>1. PICK bits \in 0 .. (2^type.size - 1) :
           constant = Operand(type, Extend(type, bits), bits, TRUE)
    BY <2>0
  <2>2. PICK w \in 1 .. Width : w = type.size /\ w = BitsOf(type) /\ w \in Nat /\ w \in 0 .. Width
    BY EnumTypesAre, WidthIsPositive
  <2>3. /\ type.is_signed \in BOOLEAN
        /\ IsSigned(type) = type.is_signed
        /\ type \in Types
        /\ type # Boolean
        /\ bits \in 0 .. (2^w - 1)
        /\ bits \in Int
        /\ Width \in Nat
    <3>1. type \in Types /\ type # Boolean
      BY EnumTypesAre DEF Types, Boolean
    <3>2. bits \in 0 .. (2^w - 1) /\ 2^w \in Nat
      BY <2>2, PowerIsPositive
    <3> QED
      BY <3>1, <3>2, EnumTypesAre, WidthIsPositive
  <2>4. PICK n \in Int : n = Reads(bits, w, type.is_signed) /\ Congruent(n, bits, 2^w)
    BY <2>2, <2>3, ReadsInWidth, ReadsIsCongruent
  <2>5. Truncate(bits, w) = bits
    BY <2>2, <2>3, TruncateKeepsBits
  <2>6. Extend(type, bits) = Truncate(n, Width)
    BY <2>2, <2>3, <2>4, <2>5 DEF Extend
  <2>7. Extend(type, bits) \in 0 .. (2^Width - 1)
    BY <2>3, <2>6, TruncateIsBits
  <2>8. Truncate(Extend(type, bits), w) = bits
    <3>1. Truncate(Truncate(n, Width), w) = Truncate(n, w)
      BY <2>2, <2>3, TruncateTwice
    <3>2. Truncate(n, w) = Truncate(bits, w)
      BY <2>2, <2>3, <2>4, CongruentTruncateAlike
    <3> QED
      BY <2>5, <2>6, <3>1, <3>2
  <2> QED
    BY <2>1, <2>2, <2>3, <2>7, <2>8, NewOperand
<1> QED
  BY <1>1, <1>2, <1>3 DEF Constants

(* A negated operand is one.                                               *)
LEMMA NegatedIsOperand ==
  ASSUME NEW v, IsOperand(v), v.type.kind \in {"Integer", "UndeterminedInteger"}
  PROVE  IsOperand(Negated(v))
<1> DEFINE folded == Truncate(-v.folded, Width)
           w == BitsOf(v.type)
           is_signed == IsSigned(v.type)
           generated == Generate("Subtraction", v.type, 0, v.generated)
<1>1. /\ v.type \in Types
      /\ v.type # Boolean
      /\ v.agrees \in BOOLEAN
      /\ -v.folded \in Int
      /\ v.folded \in Int
      /\ Width \in Nat
      /\ UndeterminedInteger # Boolean
  BY FoldedIsInteger, WidthIsPositive DEF IsOperand, Boolean, UndeterminedInteger
<1>2. folded \in 0 .. (2^Width - 1)
  BY <1>1, TruncateIsBits
<1>3. Truncate(folded, Width) = folded
  BY <1>1, <1>2, TruncateKeepsBits
<1>4. /\ w \in Nat
      /\ w >= 1
      /\ w \in 0 .. Width
      /\ 2^w \in Nat
      /\ is_signed \in BOOLEAN
      /\ v.generated \in 0 .. (2^w - 1)
      /\ v.generated \in Int
  BY <1>1, FoldedIsInteger, BitsOfTypes, PowerIsPositive DEF IsOperand
<1>5. CASE v.type = UndeterminedInteger
  <2>1. Negated(v) = Operand(v.type, folded, folded, v.agrees)
    BY <1>5 DEF Negated
  <2> HIDE DEF folded
  <2> QED
    BY <1>1, <1>2, <1>3, <1>5, <2>1, BitsOfUndetermined, NewOperand
<1>6. CASE v.type # UndeterminedInteger /\ context = "body"
  <2>1. Negated(v) = Operand(UndeterminedInteger, folded, folded, FALSE)
    BY <1>6 DEF Negated
  <2> HIDE DEF folded
  <2> QED
    BY <1>1, <1>2, <1>3, <2>1, BitsOfUndetermined, NewOperand
<1>7. CASE v.type # UndeterminedInteger /\ context # "body"
  <2>1. Negated(v) = Operand(v.type, folded, generated, v.agrees)
    BY <1>7 DEF Negated
  <2> DEFINE n == Reads(v.generated, w, is_signed)
  <2>2. n \in Int /\ Congruent(n, v.generated, 2^w)
    BY <1>4, ReadsInWidth, ReadsIsCongruent
  <2>3. generated = Truncate(0 - n, w)
    BY <1>4, ReadsOfZero DEF Generate, Machine
  <2> HIDE DEF n, w, generated, is_signed
  <2>4. generated \in 0 .. (2^w - 1)
    BY <1>4, <2>2, <2>3, TruncateIsBits
  <2>5. ASSUME v.agrees
        PROVE  Truncate(folded, w) = generated
    <3>1. Truncate(folded, w) = Truncate(-v.folded, w)
      BY <1>1, <1>4, TruncateTwice
    <3>2. Truncate(v.folded, w) = v.generated
      BY <2>5 DEF IsOperand, w
    <3>3. Congruent(v.folded, v.generated, 2^w)
      BY <1>1, <1>4, <3>2, TruncateIsCongruent
    <3>4. Congruent(v.generated, n, 2^w)
      BY <1>4, <2>2, CongruentSymmetric
    <3>5. Congruent(v.folded, n, 2^w)
      BY <1>1, <1>4, <2>2, <3>3, <3>4, CongruentTransitive
    <3>6. Congruent(-v.folded, -n, 2^w)
      BY <1>1, <1>4, <2>2, <3>5, CongruentNegatives
    <3>7. -n \in Int /\ 0 - n = -n
      BY <2>2
    <3>8. Truncate(-v.folded, w) = Truncate(-n, w)
      BY <1>1, <1>4, <3>6, <3>7, CongruentTruncateAlike
    <3> QED
      BY <2>3, <3>1, <3>7, <3>8
  <2> HIDE DEF folded
  <2> QED
    BY <1>1, <1>2, <2>1, <2>4, <2>5, NewOperand DEF w
<1> QED
  BY <1>5, <1>6, <1>7

(* An inverted Boolean is an operand.                                      *)
LEMMA InvertedIsOperand ==
  ASSUME NEW v, IsOperand(v), v.type = Boolean
  PROVE  IsOperand(Operand(Boolean, 1 - v.folded, 1 - v.generated, v.agrees))
<1>1. v.folded \in 0 .. 1 /\ v.agrees \in BOOLEAN
  BY DEF IsOperand
<1>2. 1 - v.folded \in 0 .. 1
  BY <1>1
<1>3. /\ 1 - v.folded \in 0 .. (2^Width - 1)
      /\ 1 - v.folded \in 0 .. (2^1 - 1)
      /\ v.folded \in 0 .. (2^1 - 1)
  BY <1>1, <1>2, WidthIsPositive, BitIsBits
<1>4. Truncate(1 - v.folded, 1) = 1 - v.folded /\ Truncate(v.folded, 1) = v.folded
  BY <1>3, TruncateKeepsBits
<1>5. v.agrees => v.generated = v.folded
  BY <1>4, BitsOfBoolean DEF IsOperand
<1> QED
  BY <1>1, <1>2, <1>3, <1>4, <1>5, BitsOfBoolean, NewOperand

(* A cast operand is one.                                                  *)
LEMMA CastIsOperand ==
  ASSUME NEW v, IsOperand(v), NEW target \in Types \ {UndeterminedInteger},
         CastAllowed(v, target)
  PROVE  IsOperand(Operand(target, CastFolded(v, target), CastGenerated(v, target), v.agrees))
<1>1. v.agrees \in BOOLEAN
  BY DEF IsOperand
<1> QED
  BY <1>1, CastAgrees, NewOperand

(* An operand that fits in its type reads alike in both machines.          *)
LEMMA FitsReadsAlike ==
  ASSUME NEW type \in Types, NEW bits \in 0 .. (2^Width - 1), Fits(type, bits)
  PROVE  ReadsAlike(bits, BitsOf(type), IsSigned(type))
<1> DEFINE w == BitsOf(type)
           is_signed == IsSigned(type)
           n == Reads(Truncate(bits, w), w, is_signed)
<1>1. /\ w \in 1 .. Width
      /\ w \in Nat
      /\ w >= 1
      /\ is_signed \in BOOLEAN
      /\ Width \in Nat
      /\ Width >= 1
      /\ 2^Width \in Nat
  BY BitsOfTypes, WidthIsPositive, PowerIsPositive
<1>2. bits \in Int
  BY <1>1
<1>3. Truncate(bits, w) \in 0 .. (2^w - 1)
  BY <1>1, <1>2, TruncateIsBits
<1>4. InWidth(n, w, is_signed)
  BY <1>1, <1>3, ReadsInWidth
<1>5. bits = Truncate(n, Width)
  BY DEF Fits, Extend
<1> HIDE DEF w, is_signed, n
<1>6. InWidth(n, Width, is_signed)
  BY <1>1, <1>4, InWidthWidens
<1>7. Reads(Truncate(n, Width), Width, is_signed) = n
  BY <1>1, <1>6, ReadsOfTruncated
<1> QED
  BY <1>5, <1>7 DEF ReadsAlike, n, w, is_signed

(* What folding an operator gives, and what the generated code does.       *)
LEMMA OperationIsOperand ==
  ASSUME NEW op \in Operators, IsOperand(operands.left), IsOperand(operands.right),
         Foldable(op, operands.left, operands.right), ~Traps(op)
  PROVE  IsOperand(Operation(op))
<1> DEFINE left == operands.left
           right == operands.right
           type == DetermineType(left.type, right.type)
           w == BitsOf(type)
           is_signed == IsSigned(type)
           a == Coerced(left, type)
           b == Coerced(right, type)
           c == InRegister(left, type)
           d == InRegister(right, type)
           agrees == Operation(op).agrees
           folded == Fold(op, type, a, b)
           generated == Generate(op, type, c, d)
<1>1. type \in Types
  BY DeterminedIsType DEF IsOperand
<1>2. Coercible(left, type) /\ Coercible(right, type) /\ op \in OperatorsOf(type)
  BY DEF Foldable
<1>3. /\ left.agrees \in BOOLEAN
      /\ right.agrees \in BOOLEAN
  BY DEF IsOperand
<1>4. /\ Operation(op) = Operand(ResultType(op, type), folded, generated, agrees)
      /\ agrees \in BOOLEAN
      /\ agrees => /\ left.agrees
                   /\ right.agrees
                   /\ "left" \in ReadsAll(op) => Fits(type, a)
                   /\ "right" \in ReadsAll(op) => Fits(type, b)
                   /\ type # UndeterminedInteger => ~Poison(op, type, c, d)
  <2> DEFINE Folded == [side \in Sides |-> Coerced(operands[side], type)]
             Register == [side \in Sides |-> InRegister(operands[side], type)]
             Agrees == /\ left.agrees /\ right.agrees
                       /\ \A side \in ReadsAll(op) : Fits(type, Folded[side])
                       /\ type # UndeterminedInteger
                            => ~Poison(op, type, Register.left, Register.right)
  <2>1. /\ Folded.left = a
        /\ Folded.right = b
        /\ Register.left = c
        /\ Register.right = d
    BY DEF Sides
  <2>2. Operation(op) = Operand(ResultType(op, type), folded,
                                IF Agrees THEN generated ELSE 0, Agrees)
    <3>1. Operation(op)
            = Operand(ResultType(op, type), Fold(op, type, Folded.left, Folded.right),
                      IF Agrees THEN Generate(op, type, Register.left, Register.right) ELSE 0,
                      Agrees)
      BY DEF Operation
    <3> HIDE DEF Folded, Register, Agrees
    <3> QED
      BY <2>1, <3>1
  <2>3. agrees = Agrees
    BY <2>2 DEF Operand
  <2>4. Agrees \in BOOLEAN
    BY <1>3
  <2>5. Operand(ResultType(op, type), folded, IF Agrees THEN generated ELSE 0, Agrees)
          = Operand(ResultType(op, type), folded, generated, Agrees)
    BY DEF Operand
  <2>6. Agrees => /\ left.agrees
                  /\ right.agrees
                  /\ "left" \in ReadsAll(op) => Fits(type, a)
                  /\ "right" \in ReadsAll(op) => Fits(type, b)
                  /\ type # UndeterminedInteger => ~Poison(op, type, c, d)
    BY <2>1
  <2> HIDE DEF Agrees, agrees, folded, generated, type, left, right
  <2> QED
    BY <2>2, <2>3, <2>4, <2>5, <2>6
<1>5. /\ a \in 0 .. (2^Width - 1)
      /\ b \in 0 .. (2^Width - 1)
  BY CoercedIsBits
<1>6. /\ c \in 0 .. (2^w - 1)
      /\ d \in 0 .. (2^w - 1)
      /\ left.agrees => Truncate(a, w) = c
      /\ right.agrees => Truncate(b, w) = d
      /\ type = Boolean => a \in 0 .. 1 /\ b \in 0 .. 1
      /\ type = UndeterminedInteger => c = a /\ d = b
  BY <1>1, <1>2, CoercionAgrees
<1>7. /\ w \in 1 .. Width
      /\ w \in Nat
      /\ is_signed \in BOOLEAN
      /\ Width \in 1 .. Width
      /\ Width \in Nat
  BY <1>1, BitsOfTypes, WidthIsPositive
<1>8. ~DivisionFails(op, Width, is_signed, a, b)
  BY DEF Traps
<1> HIDE DEF type, left, right, w, is_signed, a, b, c, d, agrees
<1>9. /\ folded = Machine(op, Width, is_signed, a, b)
      /\ generated = Machine(op, w, is_signed, c, d)
  BY DEF Fold, Generate, w, is_signed
<1>10. IsDivision(op) => b # 0
  BY <1>8 DEF DivisionFails
<1>11. /\ folded \in 0 .. (2^Width - 1)
       /\ op \notin Arithmetic => folded \in 0 .. 1
  BY <1>5, <1>7, <1>9, <1>10, MachineIsBits
<1>12. ResultType(op, type) \in Types /\ BitsOf(ResultType(op, type)) = ResultBits(op, w)
  BY <1>1, BitsOfBoolean DEF ResultType, ResultBits, w
<1>13. ResultType(op, type) = Boolean => op \notin Arithmetic
  <2>1. CASE type.kind \in {"Integer", "UndeterminedInteger"}
    <3>1. type # Boolean
      BY <2>1 DEF Boolean
    <3> QED
      BY <3>1 DEF ResultType
  <2>2. CASE type.kind \notin {"Integer", "UndeterminedInteger"}
    BY <1>2, <2>2 DEF OperatorsOf, Arithmetic
  <2> QED
    BY <2>1, <2>2
<1>14. ASSUME agrees
       PROVE  /\ generated \in 0 .. (2^ResultBits(op, w) - 1)
              /\ Truncate(folded, ResultBits(op, w)) = generated
  <2>1. left.agrees /\ right.agrees
    BY <1>4, <1>14
  <2>2. c = Truncate(a, w) /\ d = Truncate(b, w)
    BY <1>6, <2>1
  <2>3. IsDivision(op) => d # 0
    <3>1. CASE type = UndeterminedInteger
      BY <1>6, <1>10, <3>1
    <3>2. CASE type # UndeterminedInteger
      <4>1. ~Poison(op, type, c, d)
        BY <1>4, <1>14, <3>2
      <4> QED
        BY <4>1 DEF Poison, DivisionFails
    <3> QED
      BY <3>1, <3>2
  <2>4. /\ generated \in 0 .. (2^w - 1)
        /\ op \notin Arithmetic => generated \in 0 .. 1
    BY <1>6, <1>7, <1>9, <2>3, MachineIsBits
  <2>5. generated \in 0 .. (2^ResultBits(op, w) - 1)
    BY <2>4, BitIsBits DEF ResultBits
  <2>6. CASE type = UndeterminedInteger
    <3>1. w = Width /\ is_signed = TRUE
      BY <2>6, BitsOfUndetermined DEF w, is_signed
    <3>2. folded = generated
      BY <1>6, <1>9, <2>6, <3>1
    <3>3. ResultBits(op, w) \in Nat
      BY <1>7 DEF ResultBits
    <3> QED
      BY <2>5, <3>2, <3>3, TruncateKeepsBits
  <2>7. CASE type # UndeterminedInteger
    <3>1. ~Poison(op, type, c, d)
      BY <1>4, <1>14, <2>7
    <3>2. "left" \in ReadsAll(op) => ReadsAlike(a, w, is_signed)
      BY <1>1, <1>4, <1>5, <1>14, FitsReadsAlike DEF w, is_signed
    <3>3. "right" \in ReadsAll(op) => ReadsAlike(b, w, is_signed)
      BY <1>1, <1>4, <1>5, <1>14, FitsReadsAlike DEF w, is_signed
    <3>4. IsShift(op) => Truncate(b, w) < w
      <4>1. ~(IsShift(op) /\ d >= w)
        BY <3>1 DEF Poison, w
      <4>2. d \in Int
        BY <1>6, <1>7, PowerIsPositive
      <4> QED
        BY <1>7, <2>2, <4>1, <4>2
    <3>5. op \in {"BooleanAnd", "BooleanOr"} => a \in 0 .. 1 /\ b \in 0 .. 1
      <4>1. op \in {"BooleanAnd", "BooleanOr"} => type.kind = "Boolean"
        BY <1>2 DEF OperatorsOf, Arithmetic, Comparisons
      <4> QED
        BY <1>1, <1>6, <4>1, KindsOfTypes
    <3>6. Truncate(Machine(op, Width, is_signed, a, b), ResultBits(op, w))
            = Machine(op, w, is_signed, Truncate(a, w), Truncate(b, w))
      BY <1>5, <1>7, <2>2, <2>3, <3>2, <3>3, <3>4, <3>5, MachinesAgree
    <3> QED
      BY <1>9, <2>2, <2>5, <3>6
  <2> QED
    BY <2>6, <2>7
<1>15. IsOperand(Operand(ResultType(op, type), folded, generated, agrees))
  <2> HIDE DEF folded, generated
  <2> QED
    BY <1>4, <1>11, <1>12, <1>13, <1>14, NewOperand
<1> QED
  BY <1>4, <1>15

(* The value of a variant, in the backing type, is an operand.             *)
LEMMA VariantIsOperand ==
  ASSUME NEW v, IsOperand(v), NEW backing \in IntegerTypes, Coercible(v, backing)
  PROVE  IsOperand(Operand(backing, v.folded, InRegister(v, backing), v.agrees))
<1>1. backing \in Types /\ backing # Boolean /\ backing # UndeterminedInteger
  BY IntegerTypesAre DEF Types, Boolean, UndeterminedInteger
<1>2. Coerced(v, backing) = v.folded
  BY <1>1 DEF Coerced
<1>3. v.agrees \in BOOLEAN /\ v.folded \in 0 .. (2^Width - 1)
  BY DEF IsOperand
<1> QED
  BY <1>1, <1>2, <1>3, CoercionAgrees, NewOperand

(* The variant that is counted on to.                                      *)
NextOperand(v) ==
    Operand(v.type, Truncate(v.folded + 1, Width), Truncate(v.generated + 1, v.type.size), v.agrees)

(* The next value of an enum is an operand.                                *)
LEMMA NextVariantIsOperand ==
  ASSUME NEW v, IsOperand(v), v.type \in IntegerTypes
  PROVE  IsOperand(NextOperand(v))
<1> DEFINE w == v.type.size
           folded == Truncate(v.folded + 1, Width)
           generated == Truncate(v.generated + 1, w)
<1>1. /\ v.type \in Types
      /\ v.type # Boolean
      /\ w \in Nat
      /\ w \in 0 .. Width
      /\ BitsOf(v.type) = w
      /\ v.agrees \in BOOLEAN
      /\ v.folded \in Int
      /\ v.generated \in Int
      /\ Width \in Nat
      /\ 2^w \in Nat
  BY IntegerTypesAre, FoldedIsInteger, WidthIsPositive, PowerIsPositive DEF IsOperand, Boolean
<1>2. v.folded + 1 \in Int /\ v.generated + 1 \in Int
  BY <1>1
<1>3. folded \in 0 .. (2^Width - 1) /\ generated \in 0 .. (2^w - 1)
  BY <1>1, <1>2, TruncateIsBits
<1>4. ASSUME v.agrees
      PROVE  Truncate(folded, w) = generated
  <2>1. Truncate(folded, w) = Truncate(v.folded + 1, w)
    BY <1>1, <1>2, TruncateTwice
  <2>2. Congruent(v.folded, v.generated, 2^w)
    <3>1. Truncate(v.folded, w) = v.generated
      BY <1>1, <1>4 DEF IsOperand
    <3> QED
      BY <1>1, <3>1, TruncateIsCongruent
  <2>3. Congruent(v.folded + 1, v.generated + 1, 2^w)
    <3>1. 1 \in Int /\ Congruent(1, 1, 2^w)
      BY <1>1, CongruentToItself
    <3> QED
      BY <1>1, <2>2, <3>1, CongruentSums
  <2> QED
    BY <1>1, <1>2, <2>1, <2>3, CongruentTruncateAlike
<1> HIDE DEF folded, generated, w
<1>5. IsOperand(Operand(v.type, folded, generated, v.agrees))
  BY <1>1, <1>3, <1>4, NewOperand
<1> QED
  BY <1>5 DEF NextOperand, folded, generated, w

(* A value of a register that is as wide as its type.                      *)
LEMMA RegisterIsOperand ==
  ASSUME NEW type \in IntegerTypes, NEW n \in Int
  PROVE  IsOperand(Operand(type, Truncate(n, type.size), Truncate(n, type.size), TRUE))
<1> DEFINE w == type.size
           bits == Truncate(n, w)
<1>1. /\ type \in Types
      /\ type # Boolean
      /\ w \in Nat
      /\ w \in 0 .. Width
      /\ BitsOf(type) = w
      /\ Width \in Nat
  BY IntegerTypesAre, WidthIsPositive DEF Types, Boolean
<1>2. bits \in 0 .. (2^w - 1)
  BY <1>1, TruncateIsBits
<1>3. 2^w <= 2^Width /\ 2^w \in Nat /\ 2^Width \in Nat
  BY <1>1, PowerGrows, PowerIsPositive
<1>4. bits \in 0 .. (2^Width - 1)
  BY <1>2, <1>3
<1>5. Truncate(bits, w) = bits
  BY <1>1, <1>2, TruncateKeepsBits
<1> HIDE DEF bits, w
<1>6. IsOperand(Operand(type, bits, bits, TRUE))
  BY <1>1, <1>2, <1>4, <1>5, NewOperand
<1> QED
  BY <1>6 DEF bits, w

(* A bound of a for-loop, in the index type, is an operand.                *)
LEMMA BoundIsOperand ==
  ASSUME NEW v, IsOperand(v), NEW type \in IntegerTypes
  PROVE  IsOperand(Bound(v, type)) /\ Bound(v, type).type = type
<1>1. v.folded \in Int
  BY FoldedIsInteger
<1> QED
  BY <1>1, RegisterIsOperand DEF Bound, Operand

(* The index of a for-loop has an integer type.                            *)
LEMMA IndexTypeIsInteger ==
  ASSUME IsOperand(operands.left), IsOperand(operands.right)
  PROVE  IndexType \in IntegerTypes
<1>1. operands.left.type \in Types /\ operands.right.type \in Types
  BY DEF IsOperand
<1>2. Integer(DefaultSize, TRUE) \in IntegerTypes
  <2>1. PICK is_signed \in BOOLEAN : is_signed = TRUE
    OBVIOUS
  <2>2. Integer(DefaultSize, is_signed) \in IntegerTypes
    BY SizesAre DEF IntegerTypes
  <2> QED
    BY <2>1, <2>2
<1> QED
  BY <1>1, <1>2, KindsOfTypes DEF IndexType

(***************************************************************************)
(* Every step keeps the invariant                                          *)
(***************************************************************************)

(* The invariant holds at first.                                           *)
LEMMA InitKeepsIInv ==
  ASSUME Init
  PROVE  IInv
<1>1. PICK constant \in Constants : operands = [left |-> constant, right |-> NoOperand]
  BY DEF Init
<1>2. /\ operands.left = constant
      /\ operands.right = NoOperand
      /\ DOMAIN operands = Sides
  BY <1>1 DEF Sides
<1>3. IsOperand(constant)
  BY ConstantsAreOperands
<1> QED
  BY <1>2, <1>3 DEF Init, IInv

(* The invariant is kept when one operand becomes another.                 *)
LEMMA BecomesKeepsIInv ==
  ASSUME IInv, NEW side \in Sides, NEW v, IsOperand(v), Becomes(side, v),
         context \in {"enum", "loop"} => side = "left" /\ v.type = operands.left.type
  PROVE  IInv'
<1>1. /\ operands' = [operands EXCEPT ![side] = v]
      /\ context' = context
      /\ status' = status
  BY DEF Becomes
<1>2. /\ DOMAIN operands' = Sides
      /\ operands'.left = IF side = "left" THEN v ELSE operands.left
      /\ operands'.right = IF side = "right" THEN v ELSE operands.right
  BY <1>1 DEF IInv, Sides
<1>3. IsOperand(operands'.left) /\ (operands'.right = NoOperand \/ IsOperand(operands'.right))
  BY <1>2 DEF IInv
<1>4. context \in {"enum", "loop"} => /\ operands'.left.type = operands.left.type
                                      /\ operands'.right = operands.right
  BY <1>2
<1> QED
  BY <1>1, <1>2, <1>3, <1>4 DEF IInv

(* The invariant is kept when the evaluation stops.                        *)
LEMMA StopsKeepsIInv ==
  ASSUME IInv, NEW reason \in {"error", "ended", "trapped", "aborted"}, Stops(reason)
  PROVE  IInv'
  BY DEF IInv, Stops

(* Constant keeps the invariant.                                           *)
LEMMA ConstantKeepsIInv ==
  ASSUME IInv, Constant
  PROVE  IInv'
<1>1. PICK constant \in Constants : Becomes("right", constant)
  BY DEF Constant
<1>2. context \in {"declaration", "body"} /\ "right" \in Sides
  BY DEF Constant, Has, Sides
<1> QED
  BY <1>1, <1>2, ConstantsAreOperands, BecomesKeepsIInv

(* Negation keeps the invariant.                                           *)
LEMMA NegationKeepsIInv ==
  ASSUME IInv, NEW side \in Sides, Negation(side)
  PROVE  IInv'
<1>1. context \in {"declaration", "body"} /\ IsOperand(operands[side])
  BY PresentIsOperand DEF Negation, Has
<1>2. CASE operands[side].type.kind \in {"Integer", "UndeterminedInteger"}
  <2>1. Becomes(side, Negated(operands[side]))
    BY <1>2 DEF Negation
  <2>2. IsOperand(Negated(operands[side]))
    BY <1>1, <1>2, NegatedIsOperand
  <2> QED
    BY <1>1, <2>1, <2>2, BecomesKeepsIInv
<1>3. CASE operands[side].type.kind \notin {"Integer", "UndeterminedInteger"}
  BY <1>3, StopsKeepsIInv DEF Negation
<1> QED
  BY <1>2, <1>3

(* BooleanInvert keeps the invariant.                                      *)
LEMMA BooleanInvertKeepsIInv ==
  ASSUME IInv, NEW side \in Sides, BooleanInvert(side)
  PROVE  IInv'
<1> DEFINE v == operands[side]
           inverted == Operand(Boolean, 1 - v.folded, 1 - v.generated, v.agrees)
<1>1. context \in {"declaration", "body"} /\ IsOperand(v)
  BY PresentIsOperand DEF BooleanInvert, Has
<1>2. CASE v.type = Boolean
  <2>1. Becomes(side, inverted)
    BY <1>2 DEF BooleanInvert
  <2>2. IsOperand(inverted)
    BY <1>1, <1>2, InvertedIsOperand
  <2> HIDE DEF inverted
  <2> QED
    BY <1>1, <2>1, <2>2, BecomesKeepsIInv
<1>3. CASE v.type # Boolean
  BY <1>3, StopsKeepsIInv DEF BooleanInvert
<1> QED
  BY <1>2, <1>3

(* Cast keeps the invariant.                                               *)
LEMMA CastKeepsIInv ==
  ASSUME IInv, NEW side \in Sides, NEW target \in Types \ {UndeterminedInteger}, Cast(side, target)
  PROVE  IInv'
<1> DEFINE v == operands[side]
           cast == Operand(target, CastFolded(v, target), CastGenerated(v, target), v.agrees)
<1>1. context \in {"declaration", "body"} /\ IsOperand(v)
  BY PresentIsOperand DEF Cast, Has
<1>2. CASE CastAllowed(v, target)
  <2>1. Becomes(side, cast)
    BY <1>2 DEF Cast
  <2>2. IsOperand(cast)
    BY <1>1, <1>2, CastIsOperand
  <2> HIDE DEF cast
  <2> QED
    BY <1>1, <2>1, <2>2, BecomesKeepsIInv
<1>3. CASE ~CastAllowed(v, target)
  <2>1. Stops("aborted") \/ Stops("error")
    BY <1>3 DEF Cast
  <2> QED
    BY <2>1, StopsKeepsIInv
<1> QED
  BY <1>2, <1>3

(* BinaryOperation keeps the invariant.                                    *)
LEMMA BinaryOperationKeepsIInv ==
  ASSUME IInv, NEW op \in Operators, BinaryOperation(op)
  PROVE  IInv'
<1>1. /\ context \in {"declaration", "body"}
      /\ operands["left"] # NoOperand
      /\ operands["right"] # NoOperand
  BY DEF BinaryOperation, Has
<1>2. IsOperand(operands.left) /\ IsOperand(operands.right)
  BY <1>1 DEF IInv
<1>3. CASE Stops("error") \/ Stops("trapped")
  BY <1>3, StopsKeepsIInv
<1>4. CASE /\ Foldable(op, operands.left, operands.right)
           /\ ~Traps(op)
           /\ operands' = [left |-> Operation(op), right |-> NoOperand]
           /\ UNCHANGED <<context, status>>
  <2>1. IsOperand(Operation(op))
    BY <1>2, <1>4, OperationIsOperand
  <2> DEFINE v == Operation(op)
  <2>2. operands' = [left |-> v, right |-> NoOperand]
    BY <1>4
  <2> HIDE DEF v
  <2>3. operands'.left = v /\ operands'.right = NoOperand /\ DOMAIN operands' = Sides
    BY <2>2 DEF Sides
  <2>4. IsOperand(operands'.left)
    BY <2>1, <2>3 DEF v
  <2> QED
    BY <1>1, <1>4, <2>3, <2>4 DEF IInv
<1> QED
  BY <1>3, <1>4 DEF BinaryOperation

(* EnumVariant keeps the invariant.                                        *)
LEMMA EnumVariantKeepsIInv ==
  ASSUME IInv, NEW backing \in IntegerTypes, EnumVariant(backing)
  PROVE  IInv'
<1>1. context = "declaration" /\ IsOperand(operands.left)
  BY DEF EnumVariant, IInv
<1>2. CASE Stops("error")
  BY <1>2, StopsKeepsIInv
<1>3. CASE ~Stops("error")
  <2> DEFINE v == Operand(backing, operands.left.folded, InRegister(operands.left, backing),
                          operands.left.agrees)
  <2>1. /\ Coercible(operands.left, backing)
        /\ operands' = [operands EXCEPT !.left = v]
        /\ context' = "enum"
        /\ status' = status
    BY <1>3 DEF EnumVariant
  <2>2. IsOperand(v) /\ v.type = backing
    BY <1>1, <2>1, VariantIsOperand DEF Operand
  <2> HIDE DEF v
  <2>3. operands'.left = v /\ operands'.right = operands.right /\ DOMAIN operands' = Sides
    BY <2>1 DEF IInv, Sides
  <2> QED
    BY <2>1, <2>2, <2>3 DEF IInv
<1> QED
  BY <1>2, <1>3

(* NextVariant keeps the invariant.                                        *)
LEMMA NextVariantKeepsIInv ==
  ASSUME IInv, NextVariant
  PROVE  IInv'
<1>1. /\ context = "enum"
      /\ IsOperand(operands.left)
      /\ operands.left.type \in IntegerTypes
  BY DEF NextVariant, IInv
<1>2. CASE Stops("error")
  BY <1>2, StopsKeepsIInv
<1>3. CASE ~Stops("error")
  <2>1. Becomes("left", NextOperand(operands.left))
    BY <1>3 DEF NextVariant, NextOperand
  <2>2. IsOperand(NextOperand(operands.left))
    BY <1>1, NextVariantIsOperand
  <2>3. NextOperand(operands.left).type = operands.left.type /\ "left" \in Sides
    BY DEF NextOperand, Operand, Sides
  <2> QED
    BY <2>1, <2>2, <2>3, BecomesKeepsIInv
<1> QED
  BY <1>2, <1>3

(* ForLoop keeps the invariant.                                            *)
LEMMA ForLoopKeepsIInv ==
  ASSUME IInv, ForLoop
  PROVE  IInv'
<1>1. operands["left"] # NoOperand /\ operands["right"] # NoOperand
  BY DEF ForLoop, Has
<1>2. IsOperand(operands.left) /\ IsOperand(operands.right)
  BY <1>1 DEF IInv
<1>3. CASE Stops("error")
  BY <1>3, StopsKeepsIInv
<1>4. CASE ~Stops("error")
  <2>1. /\ operands' = [side \in Sides |-> Bound(operands[side], IndexType)]
        /\ context' = "loop"
        /\ status' = status
    BY <1>4 DEF ForLoop
  <2>2. IndexType \in IntegerTypes
    BY <1>2, IndexTypeIsInteger
  <2>3. /\ operands'.left = Bound(operands.left, IndexType)
        /\ operands'.right = Bound(operands.right, IndexType)
        /\ DOMAIN operands' = Sides
    BY <2>1 DEF Sides
  <2>4. /\ IsOperand(operands'.left)
        /\ IsOperand(operands'.right)
        /\ operands'.left.type = IndexType
        /\ operands'.right.type = IndexType
    BY <1>2, <2>2, <2>3, BoundIsOperand
  <2> QED
    BY <2>1, <2>2, <2>3, <2>4 DEF IInv
<1> QED
  BY <1>3, <1>4

(* One round of a for-loop.                                                *)
NextBits(v) == Truncate(v.generated + 1, v.type.size)

(* NextIndex keeps the invariant.                                          *)
LEMMA NextIndexKeepsIInv ==
  ASSUME IInv, NextIndex
  PROVE  IInv'
<1>1. /\ context = "loop"
      /\ IsOperand(operands.left)
      /\ operands.left.type \in IntegerTypes
  BY DEF NextIndex, IInv
<1>2. CASE Stops("ended")
  BY <1>2, StopsKeepsIInv
<1>3. CASE ~Stops("ended")
  <2> DEFINE bits == NextBits(operands.left)
             v == Operand(operands.left.type, bits, bits, TRUE)
  <2>1. Becomes("left", v)
    BY <1>3 DEF NextIndex, NextBits
  <2>2. operands.left.generated + 1 \in Int
    BY <1>1, FoldedIsInteger
  <2>3. IsOperand(v)
    BY <1>1, <2>2, RegisterIsOperand DEF NextBits
  <2>4. v.type = operands.left.type /\ "left" \in Sides
    BY DEF Operand, Sides
  <2> HIDE DEF v
  <2> QED
    BY <2>1, <2>3, <2>4, BecomesKeepsIInv
<1> QED
  BY <1>2, <1>3

(* Every step keeps the invariant.                                         *)
LEMMA NextKeepsIInv ==
  ASSUME IInv, [Next]_vars
  PROVE  IInv'
<1>1. CASE Constant
  BY <1>1, ConstantKeepsIInv
<1>2. CASE \E side \in Sides : Negation(side)
  BY <1>2, NegationKeepsIInv
<1>3. CASE \E side \in Sides : BooleanInvert(side)
  BY <1>3, BooleanInvertKeepsIInv
<1>4. CASE \E side \in Sides : \E target \in Types \ {UndeterminedInteger} : Cast(side, target)
  BY <1>4, CastKeepsIInv
<1>5. CASE \E op \in Operators : BinaryOperation(op)
  BY <1>5, BinaryOperationKeepsIInv
<1>6. CASE \E backing \in IntegerTypes : EnumVariant(backing)
  BY <1>6, EnumVariantKeepsIInv
<1>7. CASE NextVariant
  BY <1>7, NextVariantKeepsIInv
<1>8. CASE ForLoop
  BY <1>8, ForLoopKeepsIInv
<1>9. CASE NextIndex
  BY <1>9, NextIndexKeepsIInv
<1>10. CASE UNCHANGED vars
  BY <1>10 DEF vars, IInv
<1> QED
  BY <1>1, <1>2, <1>3, <1>4, <1>5, <1>6, <1>7, <1>8, <1>9, <1>10 DEF Next

(* What is known of operands holds of every expression.                    *)
THEOREM OperandsAreKnown == Spec => []IInv
<1>1. Init => IInv
  BY InitKeepsIInv
<1>2. IInv /\ [Next]_vars => IInv'
  BY NextKeepsIInv
<1> QED
  BY <1>1, <1>2, PTL DEF Spec

(***************************************************************************)
(* What follows from it                                                    *)
(***************************************************************************)

(* What is present is an operand.                                          *)
LEMMA PresentAre ==
  ASSUME IInv
  PROVE  /\ operands.left \in Present
         /\ \A v \in Present : IsOperand(v)
<1>1. operands.left # NoOperand
  BY OperandIsPresent DEF IInv
<1>2. "left" \in Sides
  BY DEF Sides
<1>3. ASSUME NEW v \in Present
      PROVE  IsOperand(v)
  <2>1. PICK side \in Sides : v = operands[side] /\ operands[side] # NoOperand
    BY DEF Present
  <2> QED
    BY <2>1, PresentIsOperand
<1> QED
  BY <1>1, <1>2, <1>3 DEF Present

(* Constants stay inside of 64 bits and registers inside of their types,   *)
(* through any number of operators, casts, variants and rounds of a loop.  *)
THEOREM ConstantsAreTyped == Spec => []TypeOK
<1>1. IInv => TypeOK
  <2>1. SUFFICES ASSUME IInv
                 PROVE  TypeOK
    OBVIOUS
  <2>2. \A v \in Present : IsOperand(v)
    BY <2>1, PresentAre
  <2>3. operands.left # NoOperand
    BY <2>1, OperandIsPresent DEF IInv
  <2> QED
    BY <2>1, <2>2, <2>3 DEF IInv, IsOperand, TypeOK
<1> QED
  BY <1>1, OperandsAreKnown, PTL

(* Whatever an expression is made of, the compiler and the generated code  *)
(* agree on it, at every width: the low bits of the constant are those of  *)
(* the register, unless a division, a right shift or a comparison read a   *)
(* constant outside of its type.                                           *)
THEOREM CompilerAndMachineAgree == Spec => []FoldingAgrees
<1>1. IInv => FoldingAgrees
  BY PresentAre DEF IsOperand, FoldingAgrees
<1> QED
  BY <1>1, OperandsAreKnown, PTL

(* A division that kills the compiler is one that the generated code does  *)
(* not survive either.                                                     *)
LEMMA TrapIsPoison ==
  ASSUME NEW op \in {"Division", "Modulo"}, NEW left, NEW right,
         IsOperand(left), IsOperand(right), left.agrees, right.agrees, NEW type \in Types,
         Coercible(left, type), Coercible(right, type),
         Fits(type, Coerced(left, type)), Fits(type, Coerced(right, type)),
         DivisionFails(op, Width, IsSigned(type), Coerced(left, type), Coerced(right, type))
  PROVE  Poison(op, type, InRegister(left, type), InRegister(right, type))
<1> DEFINE w == BitsOf(type)
           a == Coerced(left, type)
           b == Coerced(right, type)
           c == InRegister(left, type)
           d == InRegister(right, type)
<1>1. /\ w \in Nat
      /\ w >= 1
      /\ w \in 1 .. Width
      /\ w \in 0 .. Width
      /\ Width \in Nat
      /\ Width >= 1
      /\ IsSigned(type) \in BOOLEAN
  BY BitsOfTypes, WidthIsPositive
<1>2. a \in 0 .. (2^Width - 1) /\ b \in 0 .. (2^Width - 1)
  BY CoercedIsBits
<1>3. /\ c \in 0 .. (2^w - 1)
      /\ d \in 0 .. (2^w - 1)
      /\ c = Truncate(a, w)
      /\ d = Truncate(b, w)
  BY CoercionAgrees
<1>4. ReadsAlike(a, w, IsSigned(type)) /\ ReadsAlike(b, w, IsSigned(type))
  BY <1>2, FitsReadsAlike
<1>5. DivisionFails(op, Width, IsSigned(type), a, b)
  OBVIOUS
<1> HIDE DEF w, a, b, c, d
<1>6. /\ Reads(a, Width, IsSigned(type)) = Reads(c, w, IsSigned(type))
      /\ Reads(b, Width, IsSigned(type)) = Reads(d, w, IsSigned(type))
  BY <1>3, <1>4 DEF ReadsAlike
<1>7. DivisionFails(op, w, IsSigned(type), c, d)
  <2>1. IsDivision(op)
    BY DEF IsDivision
  <2>2. CASE b = 0
    <3>1. 0 \in 0 .. (2^w - 1)
      BY <1>1, PowerIsPositive
    <3>2. Truncate(0, w) = 0
      BY <1>1, <3>1, TruncateKeepsBits
    <3> QED
      BY <1>3, <2>1, <2>2, <3>2 DEF DivisionFails
  <2>3. CASE b # 0
    <3>1. /\ IsSigned(type)
          /\ Signed(a, Width) = -(2^(Width - 1))
          /\ Signed(b, Width) = -1
      BY <1>5, <2>3 DEF DivisionFails
    <3>2. Signed(c, w) = -(2^(Width - 1)) /\ Signed(d, w) = -1
      BY <1>6, <3>1 DEF Reads
    <3>3. Signed(c, w) >= -(2^(w - 1)) /\ 2^(w - 1) \in Nat
      <4>1. InWidth(Reads(c, w, TRUE), w, TRUE)
        BY <1>1, <1>3, ReadsInWidth
      <4>2. InWidth(Signed(c, w), w, TRUE)
        BY <4>1 DEF Reads
      <4> QED
        BY <1>1, <4>2, HalfOfPower DEF InWidth
    <3>4. 2^(w - 1) <= 2^(Width - 1) /\ 2^(Width - 1) \in Nat
      <4>1. w - 1 \in 0 .. (Width - 1) /\ Width - 1 \in Nat
        BY <1>1
      <4> QED
        BY <4>1, PowerGrows, PowerIsPositive
    <3>5. Signed(c, w) = -(2^(w - 1))
      BY <3>2, <3>3, <3>4
    <3> QED
      BY <2>1, <3>1, <3>2, <3>5 DEF DivisionFails
  <2> QED
    BY <2>2, <2>3
<1> QED
  BY <1>7 DEF Poison, w, c, d

(* A division of constants inside of their type kills the compiler only    *)
(* where it is undefined in the generated code too, at every width.        *)
THEOREM TrapsAreUndefined == Spec => []TrapsAgree
<1>1. IInv => TrapsAgree
  <2> DEFINE type == DetermineType(operands.left.type, operands.right.type)
             register == [side \in Sides |-> InRegister(operands[side], type)]
  <2>1. SUFFICES ASSUME IInv, Both, NEW op \in {"Division", "Modulo"},
                        Foldable(op, operands.left, operands.right),
                        \A v \in Present : v.agrees /\ Fits(type, Coerced(v, type)),
                        Traps(op)
                 PROVE  Poison(op, type, register.left, register.right)
    BY DEF TrapsAgree
  <2>2. operands["left"] # NoOperand /\ operands["right"] # NoOperand
    BY <2>1 DEF Both, Has
  <2>3. operands.left \in Present /\ operands.right \in Present
    BY <2>2 DEF Present, Sides
  <2>4. IsOperand(operands.left) /\ IsOperand(operands.right)
    BY <2>1, <2>3, PresentAre
  <2>5. type \in Types
    BY <2>4, DeterminedIsType DEF IsOperand
  <2>6. Coercible(operands.left, type) /\ Coercible(operands.right, type)
    BY <2>1 DEF Foldable
  <2>7. DivisionFails(op, Width, IsSigned(type),
                      Coerced(operands.left, type), Coerced(operands.right, type))
    BY <2>1 DEF Traps
  <2>8. register.left = InRegister(operands.left, type)
        /\ register.right = InRegister(operands.right, type)
    BY DEF Sides
  <2> HIDE DEF type, register
  <2> QED
    BY <2>1, <2>3, <2>4, <2>5, <2>6, <2>7, <2>8, TrapIsPoison
<1> QED
  BY <1>1, OperandsAreKnown, PTL

(* What an integer type takes is what its registers can hold.              *)
LEMMA InRangeIsKept ==
  ASSUME NEW bits \in 0 .. (2^Width - 1), NEW target \in IntegerTypes,
         target # Integer(Width, FALSE)
  PROVE  InRange(bits, target)
           <=> Reads(Truncate(bits, target.size), target.size, target.is_signed)
                 = Signed(bits, Width)
<1> DEFINE w == target.size
           m == Signed(bits, Width)
           c == Truncate(bits, w)
<1>1. /\ w \in 1 .. Width
      /\ w \in 0 .. Width
      /\ w \in Nat
      /\ w >= 1
      /\ target.is_signed \in BOOLEAN
      /\ Width \in Nat
      /\ Width >= 1
      /\ 2^Width \in Nat
      /\ 2^w \in Nat
  BY IntegerTypesAre, WidthIsPositive, HalfOfPower
<1>2. bits \in Int
  BY <1>1
<1>3. m = Reads(bits, Width, TRUE)
  BY DEF Reads
<1>4. m \in Int /\ Congruent(m, bits, 2^Width)
  BY <1>1, <1>3, ReadsInWidth, ReadsIsCongruent
<1>5. c \in 0 .. (2^w - 1)
  BY <1>1, <1>2, TruncateIsBits
<1>6. c = Truncate(m, w)
  <2>1. Congruent(m, bits, 2^w)
    BY <1>1, <1>2, <1>4, CongruentInNarrower
  <2> QED
    BY <1>1, <1>2, <1>4, <2>1, CongruentTruncateAlike
<1>7. CASE target.is_signed
  <2>1. InRange(bits, target) <=> InWidth(m, w, TRUE)
    BY <1>7 DEF InRange, InWidth
  <2> HIDE DEF m, c, w
  <2>2. InWidth(m, w, TRUE) => Reads(c, w, TRUE) = m
    BY <1>1, <1>6, ReadsOfTruncated
  <2>3. Reads(c, w, TRUE) = m => InWidth(m, w, TRUE)
    BY <1>1, <1>5, ReadsInWidth
  <2>4. target.is_signed = TRUE
    BY <1>1, <1>7
  <2> QED
    BY <2>1, <2>2, <2>3, <2>4 DEF m, c, w
<1>8. CASE ~target.is_signed
  <2>1. InRange(bits, target) <=> bits <= 2^w - 1
    BY <1>8 DEF InRange
  <2>2. Reads(c, w, target.is_signed) = c
    BY <1>8 DEF Reads
  <2>3. w # Width
    <3>1. target = Integer(w, target.is_signed)
      BY IntegerTypesAre
    <3>2. target.is_signed = FALSE
      BY <1>1, <1>8
    <3> QED
      BY <3>1, <3>2
  <2>4. 2^w <= 2^(Width - 1)
    <3>1. w \in 0 .. (Width - 1) /\ Width - 1 \in Nat
      BY <1>1, <2>3
    <3> QED
      BY <3>1, PowerGrows
  <2>5. 2^(Width - 1) \in Nat /\ 2^Width = 2 * 2^(Width - 1)
    BY <1>1, HalfOfPower
  <2>6. m = IF bits < 2^(Width - 1) THEN bits ELSE bits - 2^Width
    BY DEF Signed
  <2>7. bits <= 2^w - 1 => c = bits
    <3>1. bits <= 2^w - 1 => bits \in 0 .. (2^w - 1)
      BY <1>1
    <3> QED
      BY <1>1, <3>1, TruncateKeepsBits
  <2> HIDE DEF m, c, w
  <2>8. bits <= 2^w - 1 => c = m
    BY <1>1, <1>2, <2>4, <2>5, <2>6, <2>7
  <2>9. c = m => bits <= 2^w - 1
    BY <1>1, <1>2, <1>5, <2>5, <2>6
  <2> QED
    BY <2>1, <2>2, <2>8, <2>9 DEF m, c, w
<1> QED
  BY <1>1, <1>7, <1>8

(* An undetermined constant is taken by an integer type exactly when it is *)
(* a value of the type, but for the unsigned type of all bits.             *)
THEOREM CoercionsKeepValues == Spec => []CoercionKeepsValue
<1>1. IInv => CoercionKeepsValue
  <2>1. SUFFICES ASSUME IInv, NEW v \in Present,
                        NEW target \in IntegerTypes \ {Integer(Width, FALSE)},
                        v.type = UndeterminedInteger
                 PROVE  Coercible(v, target) <=>
                          Reads(InRegister(v, target), target.size, target.is_signed)
                            = Signed(v.folded, Width)
    BY DEF CoercionKeepsValue
  <2>2. IsOperand(v)
    BY <2>1, PresentAre
  <2>3. /\ target.kind = "Integer"
        /\ BitsOf(target) = target.size
        /\ Backing(target) = target
    BY IntegerTypesAre DEF Backing
  <2>4. UndeterminedInteger.kind = "UndeterminedInteger"
    BY DEF UndeterminedInteger
  <2>5. Coercible(v, target) <=> InRange(v.folded, target)
    BY <2>1, <2>3, <2>4 DEF Coercible
  <2>6. Coerced(v, target) = v.folded
    BY <2>1, <2>4 DEF Coerced
  <2>7. InRegister(v, target) = Truncate(v.folded, target.size)
    BY <2>1, <2>3, <2>6 DEF InRegister
  <2>8. v.folded \in 0 .. (2^Width - 1)
    BY <2>2 DEF IsOperand
  <2> QED
    BY <2>5, <2>7, <2>8, InRangeIsKept
<1> QED
  BY <1>1, OperandsAreKnown, PTL

(* constant.cpp and hl_generator.cpp accept the same operators and casts,  *)
(* for all types, but for the two exceptions that AcceptanceAgrees names.  *)
THEOREM AcceptanceIsAlike == Spec => []AcceptanceAgrees
<1>1. IInv => AcceptanceAgrees
  <2> DEFINE left == operands.left
             right == operands.right
             type == DetermineType(left.type, right.type)
  <2>1. SUFFICES ASSUME IInv
                 PROVE  AcceptanceAgrees
    OBVIOUS
  <2>2. \A v \in Present : v.type \in Types
    BY <2>1, PresentAre DEF IsOperand
  <2>3. ASSUME Both, \E v \in Present : v.type # UndeterminedInteger,
               ~(left.type = UndeterminedInteger /\ right.type.kind = "Enum"),
               NEW op \in Operators
        PROVE  Foldable(op, left, right) <=> Accepted(op, left, right)
    <3>1. operands["left"] # NoOperand /\ operands["right"] # NoOperand
      BY <2>3 DEF Both, Has
    <3>2. Present = {left, right}
      BY <3>1 DEF Present, Sides
    <3>3. left.type \in Types /\ right.type \in Types
      BY <2>2, <3>2
    <3>4. left.type # UndeterminedInteger \/ right.type # UndeterminedInteger
      BY <2>3, <3>2
    <3>5. ~(left.type.kind = "UndeterminedInteger"
              /\ right.type.kind \in {"Enum", "UndeterminedInteger"})
      BY <2>3, <3>3, <3>4, KindsOfTypes
    <3>6. CASE left.type.kind = "UndeterminedInteger" /\ right.type.kind = "Boolean"
      <4>1. ~Coercible(right, UndeterminedInteger) /\ ~Coercible(right, Integer(DefaultSize, TRUE))
        BY <3>6 DEF Coercible, UndeterminedInteger, Integer
      <4>2. type = UndeterminedInteger
        BY <3>3, <3>6, KindsOfTypes DEF DetermineType
      <4> QED
        BY <4>1, <4>2 DEF Foldable, Accepted
    <3>7. CASE ~(left.type.kind = "UndeterminedInteger" /\ right.type.kind = "Boolean")
      <4>1. type.kind # "UndeterminedInteger"
        <5>1. CASE left.type.kind = "Integer" /\ right.type.kind = "Integer"
          BY <5>1 DEF DetermineType, Integer
        <5>2. CASE left.type.kind = "UndeterminedInteger"
          <6>1. right.type.kind \in {"Integer", "Pointer"}
            BY <3>3, <3>5, <3>7, <5>2, KindsOfTypes
          <6> QED
            BY <5>2, <6>1 DEF DetermineType
        <5>3. CASE left.type.kind # "UndeterminedInteger"
                     /\ ~(left.type.kind = "Integer" /\ right.type.kind = "Integer")
          BY <3>3, <5>3, KindsOfTypes DEF DetermineType
        <5> QED
          BY <5>1, <5>2, <5>3
      <4>2. type # UndeterminedInteger
        BY <4>1 DEF UndeterminedInteger
      <4> QED
        BY <4>2 DEF Foldable, Accepted
    <3> QED
      BY <3>6, <3>7
  <2>4. ASSUME NEW v \in Present, NEW target \in Types \ {UndeterminedInteger},
               v.type # UndeterminedInteger,
               ~(v.type.kind = "Enum" /\ target.kind = "Integer")
        PROVE  CastAllowed(v, target) <=> CastAccepted(v, target)
    <3>1. v.type.kind # "UndeterminedInteger"
      BY <2>2, <2>4, KindsOfTypes
    <3> QED
      BY <2>4, <3>1 DEF CastAllowed, CastAccepted
  <2> QED
    BY <2>3, <2>4 DEF AcceptanceAgrees
<1> QED
  BY <1>1, OperandsAreKnown, PTL

(***************************************************************************)
(* Counting in a type                                                      *)
(***************************************************************************)

(* Adding one to a register adds one to its value, if that is a value of   *)
(* the type.                                                               *)
LEMMA OneMore ==
  ASSUME NEW w \in Nat, w >= 1, NEW is_signed \in BOOLEAN, NEW bits \in 0 .. (2^w - 1),
         InWidth(Reads(bits, w, is_signed) + 1, w, is_signed)
  PROVE  Reads(Truncate(bits + 1, w), w, is_signed) = Reads(bits, w, is_signed) + 1
<1> DEFINE n == Reads(bits, w, is_signed)
<1>1. 2^w \in Nat /\ bits \in Int /\ bits + 1 \in Int
  BY HalfOfPower
<1>2. n \in Int /\ Congruent(n, bits, 2^w)
  BY ReadsInWidth, ReadsIsCongruent
<1> HIDE DEF n
<1>3. 1 \in Int /\ Congruent(1, 1, 2^w)
  BY <1>1, CongruentToItself
<1>4. Congruent(n + 1, bits + 1, 2^w) /\ n + 1 \in Int
  BY <1>1, <1>2, <1>3, CongruentSums
<1>5. Truncate(n + 1, w) = Truncate(bits + 1, w)
  BY <1>1, <1>4, CongruentTruncateAlike
<1>6. InWidth(n + 1, w, is_signed)
  BY DEF n
<1>7. Reads(Truncate(n + 1, w), w, is_signed) = n + 1
  BY <1>6, ReadsOfTruncated
<1> QED
  BY <1>5, <1>7 DEF n

(* One more in 64 bits, inside of the type, is one more in a register.     *)
LEMMA VariantCounts ==
  ASSUME NEW v, IsOperand(v), v.type \in IntegerTypes, v.agrees, Fits(v.type, v.folded),
         v.type.size < Width, InRange(Truncate(v.folded + 1, Width), v.type)
  PROVE  Value(NextOperand(v)) = Value(v) + 1
<1> DEFINE w == v.type.size
           is_signed == v.type.is_signed
           n == Reads(v.generated, w, is_signed)
           next_value == Truncate(v.folded + 1, Width)
<1>1. /\ w \in 1 .. Width
      /\ w \in Nat
      /\ w >= 1
      /\ w < Width
      /\ is_signed \in BOOLEAN
      /\ BitsOf(v.type) = w
      /\ IsSigned(v.type) = is_signed
      /\ Width \in Nat
      /\ Width >= 1
      /\ v.type \in Types
  BY IntegerTypesAre, WidthIsPositive DEF Types
<1>2. /\ v.folded \in 0 .. (2^Width - 1)
      /\ v.generated \in 0 .. (2^w - 1)
      /\ Truncate(v.folded, w) = v.generated
  BY <1>1 DEF IsOperand
<1>3. Reads(v.folded, Width, is_signed) = n
  <2>1. ReadsAlike(v.folded, w, is_signed)
    BY <1>1, <1>2, FitsReadsAlike
  <2> QED
    BY <1>2, <2>1 DEF ReadsAlike
<1>4. InWidth(n, w, is_signed) /\ n \in Int
  BY <1>1, <1>2, ReadsInWidth
<1>5. /\ 2^(w - 1) \in Nat
      /\ 2^(w - 1) >= 1
      /\ 2^w = 2 * 2^(w - 1)
      /\ 2^w \in Nat
      /\ 2^(Width - 1) \in Nat
      /\ 2^Width = 2 * 2^(Width - 1)
      /\ 2^w <= 2^(Width - 1)
  <2>1. w \in 0 .. (Width - 1) /\ Width - 1 \in Nat
    BY <1>1
  <2> QED
    BY <1>1, <2>1, HalfOfPower, PowerGrows
<1>6. InRange(next_value, v.type)
  OBVIOUS
<1>7. /\ NextOperand(v).type = v.type
      /\ NextOperand(v).generated = Truncate(v.generated + 1, w)
  BY DEF NextOperand, Operand
<1>8. Value(v) = n /\ Value(NextOperand(v)) = Reads(Truncate(v.generated + 1, w), w, is_signed)
  BY <1>1, <1>7 DEF Value
<1> HIDE DEF n, w, is_signed
<1>9. InWidth(n + 1, Width, is_signed)
  BY <1>1, <1>4, <1>5 DEF InWidth
<1>10. Reads(next_value, Width, is_signed) = n + 1
  BY <1>1, <1>2, <1>3, <1>9, OneMore
<1>11. InWidth(n + 1, w, is_signed)
  <2>1. CASE is_signed
    <3>1. Signed(next_value, Width) = n + 1
      BY <1>10, <2>1 DEF Reads
    <3> QED
      BY <1>6, <2>1, <3>1 DEF InRange, InWidth, w, is_signed
  <2>2. CASE ~is_signed
    <3>1. next_value = n + 1
      BY <1>10, <2>2 DEF Reads
    <3>2. next_value <= 2^w - 1
      BY <1>6, <2>2 DEF InRange, w, is_signed
    <3> QED
      BY <1>4, <1>5, <2>2, <3>1, <3>2 DEF InWidth
  <2> QED
    BY <2>1, <2>2
<1>12. Reads(Truncate(v.generated + 1, w), w, is_signed) = n + 1
  <2>1. InWidth(Reads(v.generated, w, is_signed) + 1, w, is_signed)
    BY <1>11 DEF n
  <2>2. Reads(Truncate(v.generated + 1, w), w, is_signed) = Reads(v.generated, w, is_signed) + 1
    BY <1>1, <1>2, <2>1, OneMore
  <2> QED
    BY <2>2 DEF n
<1> QED
  BY <1>8, <1>12

(* A variant without a value is one more than the last in the generated    *)
(* code, or refused, in every type narrower than a uint64_t.               *)
THEOREM VariantsAreCounted == Spec => VariantsCount
<1> DEFINE Counts == context = "enum" /\ status' = "evaluating"
                       /\ operands.left.agrees /\ Fits(operands.left.type, operands.left.folded)
                       /\ operands.left.type.size < Width
                     => Value(operands'.left) = Value(operands.left) + 1
<1>1. IInv /\ Next => Counts
  <2>1. SUFFICES ASSUME IInv, Next, context = "enum", status' = "evaluating",
                        operands.left.agrees, Fits(operands.left.type, operands.left.folded),
                        operands.left.type.size < Width
                 PROVE  Value(operands'.left) = Value(operands.left) + 1
    OBVIOUS
  <2>2. NextVariant
    BY <2>1 DEF Next, Constant, Negation, BooleanInvert, Cast, BinaryOperation, EnumVariant,
                ForLoop, NextIndex, Has
  <2> DEFINE v == operands.left
  <2>3. IsOperand(v) /\ v.type \in IntegerTypes /\ DOMAIN operands = Sides
    BY <2>1 DEF IInv
  <2>4. /\ InRange(Truncate(v.folded + 1, Width), v.type)
        /\ operands' = [operands EXCEPT !["left"] = NextOperand(v)]
    BY <2>1, <2>2 DEF NextVariant, NextOperand, Becomes, Stops
  <2>5. operands'.left = NextOperand(v)
    BY <2>3, <2>4 DEF Sides
  <2>6. v.agrees /\ Fits(v.type, v.folded) /\ v.type.size < Width
    BY <2>1
  <2> HIDE DEF v
  <2>7. Value(NextOperand(v)) = Value(v) + 1
    BY <2>3, <2>4, <2>6, VariantCounts
  <2> QED
    BY <2>5, <2>7 DEF v
<1>2. IInv /\ [Next]_vars => [Counts]_vars
  BY <1>1
<1>3. [][Counts]_vars => VariantsCount
  BY PTL DEF VariantsCount
<1> QED
  BY <1>2, <1>3, OperandsAreKnown, PTL DEF Spec


(* One more than an index that is not past the last, which is not the      *)
(* largest of the type, is a value of the type.                            *)
LEMMA IndexGrows ==
  ASSUME NEW index, NEW last, IsOperand(index), IsOperand(last),
         index.type \in IntegerTypes, last.type = index.type,
         Value(last) # Largest(last.type), ~IsPast(index, last),
         NEW next, next.type = index.type,
         next.generated = Truncate(index.generated + 1, index.type.size)
  PROVE  Value(index) < Value(next) /\ Value(next) <= Value(last) + 1
<1> DEFINE w == index.type.size
           is_signed == index.type.is_signed
           n == Reads(index.generated, w, is_signed)
           m == Reads(last.generated, w, is_signed)
<1>1. /\ w \in Nat
      /\ w >= 1
      /\ is_signed \in BOOLEAN
      /\ BitsOf(index.type) = w
      /\ IsSigned(index.type) = is_signed
  BY IntegerTypesAre, WidthIsPositive DEF Types
<1>2. index.generated \in 0 .. (2^w - 1) /\ last.generated \in 0 .. (2^w - 1)
  BY <1>1 DEF IsOperand
<1>3. /\ Value(index) = n
      /\ Value(last) = m
      /\ Value(next) = Reads(Truncate(index.generated + 1, w), w, is_signed)
  BY <1>1 DEF Value
<1>4. ~(n > m)
  BY DEF IsPast
<1>5. m # (IF is_signed THEN 2^(w - 1) - 1 ELSE 2^w - 1)
  BY <1>3 DEF Largest
<1>6. InWidth(n, w, is_signed) /\ n \in Int /\ InWidth(m, w, is_signed) /\ m \in Int
  BY <1>1, <1>2, ReadsInWidth
<1>7. 2^(w - 1) \in Nat /\ 2^w = 2 * 2^(w - 1) /\ 2^w \in Nat
  BY <1>1, HalfOfPower
<1> HIDE DEF n, m, w, is_signed
<1>8. InWidth(n + 1, w, is_signed)
  BY <1>4, <1>5, <1>6, <1>7 DEF InWidth
<1>9. Value(next) = n + 1
  <2>1. InWidth(Reads(index.generated, w, is_signed) + 1, w, is_signed)
    BY <1>8 DEF n
  <2>2. Reads(Truncate(index.generated + 1, w), w, is_signed)
          = Reads(index.generated, w, is_signed) + 1
    BY <1>1, <1>2, <2>1, OneMore
  <2> QED
    BY <1>3, <2>2 DEF n
<1> QED
  BY <1>3, <1>4, <1>6, <1>9

(* The index of a for-loop comes closer to its end in every round, for all *)
(* bounds and types, unless the last value is the largest of the type.     *)
THEOREM LoopsComeCloser == Spec => LoopsAdvance
<1> DEFINE Advances == context = "loop" /\ status' = "evaluating"
                         /\ Value(operands.right) # Largest(operands.right.type)
                       => /\ operands'.right = operands.right
                          /\ Value(operands.left) < Value(operands'.left)
                          /\ Value(operands'.left) <= Value(operands.right) + 1
<1>1. IInv /\ Next => Advances
  <2>1. SUFFICES ASSUME IInv, Next, context = "loop", status' = "evaluating",
                        Value(operands.right) # Largest(operands.right.type)
                 PROVE  /\ operands'.right = operands.right
                        /\ Value(operands.left) < Value(operands'.left)
                        /\ Value(operands'.left) <= Value(operands.right) + 1
    OBVIOUS
  <2>2. NextIndex
    BY <2>1 DEF Next, Constant, Negation, BooleanInvert, Cast, BinaryOperation, EnumVariant,
                NextVariant, ForLoop, Has
  <2> DEFINE index == operands.left
             last == operands.right
             bits == Truncate(index.generated + 1, index.type.size)
             next == Operand(index.type, bits, bits, TRUE)
  <2>3. /\ IsOperand(index)
        /\ IsOperand(last)
        /\ index.type \in IntegerTypes
        /\ last.type = index.type
        /\ DOMAIN operands = Sides
    BY <2>1 DEF IInv
  <2>4. ~IsPast(index, last) /\ operands' = [operands EXCEPT !["left"] = next]
    BY <2>1, <2>2 DEF NextIndex, Becomes, Stops
  <2>5. operands'.left = next /\ operands'.right = last
    BY <2>3, <2>4 DEF Sides
  <2>6. next.type = index.type /\ next.generated = bits
    BY DEF Operand
  <2>7. Value(last) # Largest(last.type)
    BY <2>1
  <2>8. next.generated = Truncate(index.generated + 1, index.type.size)
    BY <2>6
  <2> HIDE DEF index, last, bits, next
  <2>9. Value(index) < Value(next) /\ Value(next) <= Value(last) + 1
    BY <2>3, <2>4, <2>6, <2>7, <2>8, IndexGrows
  <2> QED
    BY <2>5, <2>9 DEF index, last
<1>2. IInv /\ [Next]_vars => [Advances]_vars
  BY <1>1
<1>3. [][Advances]_vars => LoopsAdvance
  BY PTL DEF LoopsAdvance
<1> QED
  BY <1>2, <1>3, OperandsAreKnown, PTL DEF Spec

=============================================================================
