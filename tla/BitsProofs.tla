----------------------------- MODULE BitsProofs -----------------------------
(* Lemmas about the bits of slices, for the proofs about the writers and   *)
(* readers that are built on them.                                         *)
EXTENDS Bits, Sequences, TLAPS, FiniteSetTheorems, SequenceTheorems, WellFoundedInduction

(* Bit positions: p >> 3 and 7 - (p & 7) name each bit of a slice once.    *)

(* The byte and the bit of a position lie in their ranges and name it.     *)
LEMMA PositionLemma ==
  ASSUME NEW p \in Nat
  PROVE  /\ p \div 8 \in Nat
         /\ 7 - (p % 8) \in 0..7
         /\ p = 8 * (p \div 8) + (p % 8)
         /\ \A n \in Nat : p \div 8 < n <=> p < 8 * n
  OBVIOUS

(* Two positions never name the same bit, so writing one changes no other. *)
LEMMA PositionInjective ==
  ASSUME NEW p \in Nat, NEW q \in Nat,
         p \div 8 = q \div 8,
         7 - (p % 8) = 7 - (q % 8)
  PROVE  p = q
  BY PositionLemma

(* A prefix of a slice has the bits of the slice. *)
LEMMA PrefixBits ==
  ASSUME NEW b \in Seq(Byte), NEW k \in 0..Len(b), NEW p \in Nat,
         p < 8 * k
  PROVE  /\ Len(SubSeq(b, 1, k)) = k
         /\ BitAt(SubSeq(b, 1, k), p) = BitAt(b, p)
  <1>1. p \div 8 + 1 \in 1..k
    BY PositionLemma
  <1>2. SubSeq(b, 1, k)[p \div 8 + 1] = b[p \div 8 + 1]
    BY <1>1
  <1> QED BY <1>2 DEF BitAt

-----------------------------------------------------------------------------
(* Induction over the natural numbers, and powers of two: what the provers *)
(* know of ^ is that 2^n is the number of subsets of a set of n.           *)

(* A non-empty set of natural numbers has a least one. *)
LEMMA LeastNat ==
  ASSUME NEW T, T \subseteq Nat, T # {}
  PROVE  \E m \in T : \A y \in T : ~(y < m)
  <1>1. PICK m \in T : \A y \in T : ~(<<y, m>> \in OpToRel(<, Nat))
    BY NatLessThanWellFounded, WFMin, Zenon
  <1> QED BY <1>1, Zenon DEF OpToRel

(* Induction, over a set in the place of a predicate. *)
LEMMA Induction ==
  ASSUME NEW S, 0 \in S, \A n \in Nat : n \in S => n + 1 \in S
  PROVE  Nat \subseteq S
  <1> SUFFICES ASSUME Nat \ S # {} PROVE FALSE
    OBVIOUS
  <1>1. PICK m \in Nat \ S : \A y \in Nat \ S : ~(y < m)
    BY LeastNat
  <1>2. m # 0 /\ m - 1 \in Nat /\ m - 1 < m
    BY <1>1
  <1>3. m - 1 \in S
    BY <1>1, <1>2
  <1> QED BY <1>1, <1>2, <1>3

(* There are 2^n sets of numbers up to n, so 2^n is a natural number...   *)
LEMMA PowerType == ASSUME NEW n \in Nat PROVE 2 ^ n \in Nat
  <1>1. IsFiniteSet(1..n) /\ Cardinality(1..n) = n
    BY FS_Interval
  <1>2. Cardinality(SUBSET (1..n)) = 2 ^ n /\ IsFiniteSet(SUBSET (1..n))
    BY <1>1, FS_SUBSET
  <1> QED BY <1>2, FS_CardinalityType

(* ... and twice as many up to n + 1: those without n + 1 and those with.  *)
LEMMA PowerStep == ASSUME NEW n \in Nat PROVE 2 ^ (n + 1) = 2 * 2 ^ n
  <1> DEFINE A == SUBSET (1..n)
             With(T) == T \cup {n + 1}
             B == {With(T) : T \in A}
             f == [T \in A |-> With(T)]
  <1>1. /\ IsFiniteSet(1..n) /\ Cardinality(1..n) = n
        /\ IsFiniteSet(1..(n + 1)) /\ Cardinality(1..(n + 1)) = n + 1
    BY FS_Interval
  <1>2. /\ IsFiniteSet(A) /\ Cardinality(A) = 2 ^ n
        /\ Cardinality(SUBSET (1..(n + 1))) = 2 ^ (n + 1)
    BY <1>1, FS_SUBSET
  <1>3. f \in Bijection(A, B)
    <2>1. f \in [A -> B] /\ \A y \in B : \E x \in A : f[x] = y
      OBVIOUS
    <2>2. \A S, T \in A : f[S] = f[T] => S = T
      <3> SUFFICES ASSUME NEW S \in A, NEW T \in A, S \cup {n + 1} = T \cup {n + 1}
                   PROVE S = T
        OBVIOUS
      <3>1. n + 1 \notin S /\ n + 1 \notin T
        OBVIOUS
      <3> QED BY <3>1
    <2> QED BY <2>1, <2>2 DEF Bijection, Injection, Surjection, IsInjective
  <1>4. IsFiniteSet(B) /\ Cardinality(B) = 2 ^ n
    BY <1>2, <1>3, FS_Bijection DEF ExistsBijection
  <1>5. A \cap B = {}
    OBVIOUS
  <1>6. SUBSET (1..(n + 1)) = A \cup B
    <2>1. ASSUME NEW S \in SUBSET (1..(n + 1)) PROVE S \in A \cup B
      <3>1. CASE n + 1 \in S
        <4>1. S \ {n + 1} \in A
          OBVIOUS
        <4>2. S = With(S \ {n + 1})
          BY <3>1
        <4> QED BY <4>1, <4>2
      <3>2. CASE n + 1 \notin S
        BY <3>2
      <3> QED BY <3>1, <3>2
    <2>2. ASSUME NEW S \in A \cup B PROVE S \in SUBSET (1..(n + 1))
      OBVIOUS
    <2> QED BY <2>1, <2>2
  <1> HIDE DEF A, B
  <1>7. Cardinality(A \cup B) = 2 ^ n + 2 ^ n
    <2>1. Cardinality(A \cup B) = Cardinality(A) + Cardinality(B) - Cardinality(A \cap B)
      BY <1>2, <1>4, FS_Union
    <2>2. Cardinality(A \cap B) = 0
      BY <1>5, FS_EmptySet
    <2> QED BY <1>2, <1>4, <2>1, <2>2, PowerType
  <1>8. 2 ^ (n + 1) = 2 ^ n + 2 ^ n
    BY <1>2, <1>6, <1>7, Zenon
  <1> QED BY <1>8, PowerType

(* Powers of two are positive. *)
LEMMA PowerPositive == ASSUME NEW n \in Nat PROVE 2 ^ n \in Nat \ {0}
  <1> DEFINE S == {k \in Nat : 2 ^ k > 0}
  <1>1. 0 \in S
    OBVIOUS
  <1>2. \A k \in Nat : k \in S => k + 1 \in S
    BY PowerStep, PowerType
  <1>3. Nat \subseteq S
    <2> HIDE DEF S
    <2> QED BY <1>1, <1>2, Induction
  <1> QED BY <1>3, PowerType

(* 2^(m + n) = 2^m * 2^n *)
LEMMA PowerSum ==
  ASSUME NEW m \in Nat, NEW n \in Nat
  PROVE  2 ^ (m + n) = 2 ^ m * 2 ^ n
  <1> DEFINE S == {k \in Nat : 2 ^ (m + k) = 2 ^ m * 2 ^ k}
  <1>1. 0 \in S
    BY PowerType
  <1>2. ASSUME NEW k \in Nat, k \in S PROVE k + 1 \in S
    <2>1. 2 ^ (m + (k + 1)) = 2 * 2 ^ (m + k)
      <3>1. m + (k + 1) = (m + k) + 1 /\ m + k \in Nat
        OBVIOUS
      <3> QED BY <3>1, PowerStep
    <2>2. 2 ^ (k + 1) = 2 * 2 ^ k
      BY PowerStep
    <2>3. 2 ^ (m + k) = 2 ^ m * 2 ^ k /\ 2 ^ m \in Nat /\ 2 ^ k \in Nat
      BY <1>2, PowerType
    <2>4. \A a, b \in Nat : 2 * (a * b) = a * (2 * b)
      OBVIOUS
    <2> QED BY <2>1, <2>2, <2>3, <2>4
  <1>3. Nat \subseteq S
    <2> HIDE DEF S
    <2> QED BY <1>1, <1>2, Induction
  <1> QED BY <1>3

(* A larger exponent gives a larger power, at least twice as large. *)
LEMMA PowerMonotone ==
  ASSUME NEW m \in Nat, NEW n \in Nat, m <= n
  PROVE  /\ 2 ^ m <= 2 ^ n
         /\ m < n => 2 * 2 ^ m <= 2 ^ n
  <1>1. PICK d \in Nat : n = m + d
    <2>1. n - m \in Nat /\ n = m + (n - m)
      OBVIOUS
    <2> QED BY <2>1
  <1>2. 2 ^ n = 2 ^ m * 2 ^ d /\ 2 ^ m \in Nat \ {0} /\ 2 ^ d \in Nat \ {0}
    BY <1>1, PowerSum, PowerPositive
  <1>3. \A a, b \in Nat \ {0} : a <= a * b
    OBVIOUS
  <1>4. m < n => d > 0 /\ 2 ^ d = 2 * 2 ^ (d - 1) /\ 2 ^ (d - 1) \in Nat \ {0}
    <2> SUFFICES ASSUME m < n PROVE d > 0 /\ 2 ^ d = 2 * 2 ^ (d - 1) /\ 2 ^ (d - 1) \in Nat \ {0}
      OBVIOUS
    <2>1. d > 0 /\ d - 1 \in Nat /\ d = (d - 1) + 1
      BY <1>1
    <2> QED BY <2>1, PowerStep, PowerPositive
  <1>5. \A a, b \in Nat \ {0} : 2 * a <= a * (2 * b)
    OBVIOUS
  <1> QED BY <1>2, <1>3, <1>4, <1>5
(* Some power of two exceeds n; the least exponent from p on whose power   *)
(* does is at most n beyond p.                                             *)
LEMMA PowerAbove ==
  ASSUME NEW n \in Nat, NEW p \in Nat
  PROVE  \E i \in 0..n : n < 2 ^ (p + i) /\ (i = 0 \/ n >= 2 ^ (p + i - 1))
  <1> DEFINE S == {k \in Nat : k < 2 ^ k}
             T == {i \in Nat : n < 2 ^ (p + i)}
  <1>1. 0 \in S
    OBVIOUS
  <1>2. \A k \in Nat : k \in S => k + 1 \in S
    BY PowerStep, PowerType
  <1>3. Nat \subseteq S
    <2> HIDE DEF S
    <2> QED BY <1>1, <1>2, Induction
  <1>4. n \in T
    <2>1. 2 ^ n <= 2 ^ (p + n) /\ 2 ^ n \in Nat /\ 2 ^ (p + n) \in Nat
      BY PowerMonotone, PowerType
    <2> QED BY <1>3, <2>1
  <1>5. PICK i \in T : \A y \in T : ~(y < i)
    <2> T \subseteq Nat /\ T # {}
      BY <1>4
    <2> HIDE DEF T
    <2> QED BY LeastNat
  <1>6. i \in 0..n
    BY <1>4, <1>5
  <1>7. i = 0 \/ n >= 2 ^ (p + i - 1)
    <2> SUFFICES ASSUME i # 0 PROVE n >= 2 ^ (p + i - 1)
      OBVIOUS
    <2>1. i - 1 \in Nat /\ i - 1 \notin T /\ p + (i - 1) = p + i - 1 /\ p + (i - 1) \in Nat
      BY <1>5
    <2> QED BY <2>1, PowerType
  <1> QED BY <1>5, <1>6, <1>7

-----------------------------------------------------------------------------
(* Remainders, also of negative numbers. *)

LEMMA ModRange ==
  ASSUME NEW x \in Int, NEW m \in Nat \ {0}
  PROVE  /\ x % m \in 0..(m - 1) /\ x \div m \in Int
         /\ x = m * (x \div m) + (x % m)
  <1>1. x % m \in 0..(m - 1)
    OBVIOUS
  <1>2. x \div m \in Int
    OBVIOUS
  <1>3. x = m * (x \div m) + (x % m)
    OBVIOUS
  <1> QED BY <1>1, <1>2, <1>3

(* Only one quotient and remainder give a number. *)
LEMMA ModUnique ==
  ASSUME NEW m \in Nat \ {0}, NEW q \in Int, NEW r \in 0..(m - 1)
  PROVE  (m * q + r) % m = r /\ (m * q + r) \div m = q
  <1> DEFINE x == m * q + r
             p == x \div m
             s == x % m
  <1>1. p \in Int /\ s \in 0..(m - 1) /\ x = m * p + s
    <2> x \in Int
      OBVIOUS
    <2> HIDE DEF x
    <2> QED BY ModRange
  <1> HIDE DEF p, s
  <1>2. PICK d \in Int : d = q - p
    BY <1>1
  <1>3. m * d = s - r
    BY <1>1, <1>2
  <1>4. ASSUME d >= 1 PROVE m * d >= m
    BY <1>4
  <1>5. ASSUME d <= -1 PROVE m * d <= -m
    BY <1>5
  <1>6. d = 0
    BY <1>1, <1>3, <1>4, <1>5
  <1>7. s = r
    BY <1>1, <1>3, <1>6
  <1>8. p = q
    BY <1>1, <1>2, <1>6
  <1> QED BY <1>7, <1>8 DEF p, s

(* What is in the range already is left as it is. *)
LEMMA ModId ==
  ASSUME NEW m \in Nat \ {0}, NEW x \in 0..(m - 1)
  PROVE  x % m = x
  <1>1. (m * 0 + x) % m = x
    BY ModUnique
  <1>2. m * 0 + x = x
    OBVIOUS
  <1> QED BY <1>1, <1>2

(* Numbers that differ by a multiple of m have one remainder modulo m... *)
LEMMA ModShift ==
  ASSUME NEW x \in Int, NEW k \in Int, NEW m \in Nat \ {0}
  PROVE  (x + m * k) % m = x % m
  <1> DEFINE q == x \div m
             r == x % m
  <1>1. q \in Int /\ r \in 0..(m - 1) /\ x = m * q + r
    BY ModRange
  <1> HIDE DEF q, r
  <1>2. q + k \in Int /\ x + m * k = m * (q + k) + r
    BY <1>1
  <1>3. (m * (q + k) + r) % m = r
    BY <1>1, <1>2, ModUnique
  <1> QED BY <1>2, <1>3 DEF r

(* Less than m apart, only equal numbers differ by a multiple of m. *)
LEMMA SmallMultiple ==
  ASSUME NEW m \in Nat \ {0}, NEW d \in (-(m - 1))..(m - 1)
  PROVE  d % m = 0 <=> d = 0
  OBVIOUS

(* ... and others have not. *)
LEMMA ModSame ==
  ASSUME NEW x \in Int, NEW y \in Int, NEW m \in Nat \ {0}
  PROVE  (x - y) % m = 0 <=> x % m = y % m
  <1> DEFINE a == x \div m
             b == y \div m
             r == x % m
             s == y % m
  <1>1. a \in Int /\ r \in 0..(m - 1) /\ x = m * a + r
    BY ModRange
  <1>2. b \in Int /\ s \in 0..(m - 1) /\ y = m * b + s
    BY ModRange
  <1> HIDE DEF a, b, r, s
  <1>3. x - y = (r - s) + m * (a - b)
    BY <1>1, <1>2
  <1>4. r - s \in Int /\ a - b \in Int /\ r - s \in (-(m - 1))..(m - 1)
    BY <1>1, <1>2
  <1>5. ((r - s) + m * (a - b)) % m = (r - s) % m
    BY <1>4, ModShift
  <1>6. (r - s) % m = 0 <=> r - s = 0
    BY <1>4, SmallMultiple
  <1>7. r - s = 0 <=> r = s
    BY <1>1, <1>2
  <1> QED BY <1>3, <1>5, <1>6, <1>7 DEF r, s

(* Sums of numbers with one remainder have one remainder. *)
LEMMA ModSum ==
  ASSUME NEW x \in Int, NEW y \in Int, NEW z \in Int, NEW m \in Nat \ {0},
         x % m = y % m
  PROVE  (x + z) % m = (y + z) % m
  <1>1. (x - y) % m = 0
    BY ModSame
  <1> PICK c, d \in Int : c = x + z /\ d = y + z
    OBVIOUS
  <1>2. c - d = x - y
    OBVIOUS
  <1>3. (c - d) % m = 0
    BY <1>1, <1>2
  <1>4. c % m = d % m
    BY <1>3, ModSame, ZenonT(30)
  <1> QED BY <1>4

(* The remainder of a remainder modulo a multiple. *)
LEMMA ModMod ==
  ASSUME NEW x \in Int, NEW m \in Nat \ {0}, NEW k \in Nat \ {0}
  PROVE  (x % (m * k)) % m = x % m
  <1> DEFINE n == m * k
             q == x \div n
             r == x % n
  <1>1. n \in Nat \ {0}
    OBVIOUS
  <1>2. q \in Int /\ r \in Int /\ x = n * q + r
    <2> HIDE DEF n
    <2> QED BY <1>1, ModRange
  <1> HIDE DEF q, r
  <1>3. k * q \in Int /\ x = r + m * (k * q)
    BY <1>2
  <1>4. (r + m * (k * q)) % m = r % m
    BY <1>2, <1>3, ModShift
  <1> QED BY <1>3, <1>4 DEF r

(* So it is for powers of two. *)
LEMMA LowBitsOfLowBits ==
  ASSUME NEW x \in Int, NEW a \in Nat, NEW b \in Nat, a <= b
  PROVE  (x % 2 ^ b) % 2 ^ a = x % 2 ^ a
  <1>1. b - a \in Nat /\ b = a + (b - a)
    OBVIOUS
  <1>2. 2 ^ b = 2 ^ a * 2 ^ (b - a) /\ 2 ^ a \in Nat \ {0} /\ 2 ^ (b - a) \in Nat \ {0}
    BY <1>1, PowerSum, PowerPositive
  <1>3. \A m, k \in Nat \ {0} : (x % (m * k)) % m = x % m
    BY ModMod
  <1> QED BY <1>2, <1>3

-----------------------------------------------------------------------------
(* Two's complement: the number in range of n bits that has the low bits   *)
(* of x, which the codecs call ToSigned.                                   *)

Twos(x, n) == IF x % 2 ^ n > 2 ^ (n - 1) - 1 THEN (x % 2 ^ n) - 2 ^ n ELSE x % 2 ^ n

SignedRange(n) == (-(2 ^ (n - 1)))..(2 ^ (n - 1) - 1)

(* Half of the range of n bits. *)
LEMMA HalfPower ==
  ASSUME NEW n \in Nat \ {0}
  PROVE  /\ 2 ^ n = 2 * 2 ^ (n - 1) /\ 2 ^ (n - 1) \in Nat \ {0} /\ 2 ^ n \in Nat \ {0}
         /\ n - 1 \in Nat
  <1>1. n - 1 \in Nat /\ n = (n - 1) + 1
    OBVIOUS
  <1>2. 2 ^ ((n - 1) + 1) = 2 * 2 ^ (n - 1)
    BY <1>1, PowerStep
  <1> QED BY <1>1, <1>2, PowerPositive

(* It is in range, and has the low bits of x. *)
LEMMA TwosKeepsBits ==
  ASSUME NEW x \in Int, NEW n \in Nat \ {0}
  PROVE  Twos(x, n) \in SignedRange(n) /\ Twos(x, n) % 2 ^ n = x % 2 ^ n
  <1> DEFINE m == 2 ^ n
             p == 2 ^ (n - 1)
             r == x % m
  <1>1. m = 2 * p /\ p \in Nat \ {0} /\ m \in Nat \ {0}
    BY HalfPower
  <1> HIDE DEF m, p
  <1>2. r \in 0..(m - 1)
    BY <1>1, ModRange
  <1> HIDE DEF r
  <1>3. r % m = r
    BY <1>1, <1>2, ModId
  <1> PICK k \in Int : k = -1
    OBVIOUS
  <1>4. (r + m * k) % m = r % m
    <2>1. r \in Int /\ m \in Nat \ {0}
      BY <1>1, <1>2
    <2> QED BY <2>1, ModShift
  <1>5. r + m * k = r - m
    BY <1>1, <1>2
  <1>6. Twos(x, n) = IF r > p - 1 THEN r - m ELSE r
    BY DEF Twos, r, m, p
  <1>7. Twos(x, n) \in (-p)..(p - 1)
    BY <1>1, <1>2, <1>6
  <1>8. Twos(x, n) % m = r
    BY <1>3, <1>4, <1>5, <1>6
  <1> QED BY <1>7, <1>8 DEF SignedRange, m, p, r

(* No other number in range has these low bits. *)
LEMMA TwosIsUnique ==
  ASSUME NEW n \in Nat \ {0}, NEW x \in SignedRange(n), NEW y \in SignedRange(n),
         x % 2 ^ n = y % 2 ^ n
  PROVE  x = y
  <1> DEFINE m == 2 ^ n
             p == 2 ^ (n - 1)
  <1>1. m = 2 * p /\ p \in Nat \ {0} /\ m \in Nat \ {0}
    BY HalfPower
  <1>2. x % m = y % m /\ x \in (-p)..(p - 1) /\ y \in (-p)..(p - 1)
    BY DEF SignedRange
  <1> HIDE DEF m, p
  <1>3. x - y \in (-(m - 1))..(m - 1) /\ x \in Int /\ y \in Int
    BY <1>1, <1>2
  <1>4. (x - y) % m = 0
    BY <1>1, <1>2, <1>3, ModSame
  <1>5. x - y = 0
    BY <1>1, <1>3, <1>4, SmallMultiple
  <1> QED BY <1>3, <1>5

(* So a number in range that has the low bits of x is the one. *)
LEMMA TwosIs ==
  ASSUME NEW n \in Nat \ {0}, NEW x \in Int, NEW y \in SignedRange(n),
         x % 2 ^ n = y % 2 ^ n
  PROVE  Twos(x, n) = y
  <1>1. Twos(x, n) \in SignedRange(n) /\ Twos(x, n) % 2 ^ n = y % 2 ^ n
    BY TwosKeepsBits
  <1> PICK t : t = Twos(x, n)
    OBVIOUS
  <1>2. t \in SignedRange(n) /\ t % 2 ^ n = y % 2 ^ n
    BY <1>1
  <1>3. t = y
    BY <1>2, TwosIsUnique
  <1> QED BY <1>3

(* A number in range is left as it is. *)
LEMMA TwosId ==
  ASSUME NEW n \in Nat \ {0}, NEW x \in SignedRange(n)
  PROVE  Twos(x, n) = x
  <1>1. x \in Int
    BY HalfPower DEF SignedRange
  <1> QED BY <1>1, TwosIs

(* A wider range holds a narrower one, and the unsigned numbers of it. *)
LEMMA WiderRange ==
  ASSUME NEW n \in Nat \ {0}, NEW s \in Nat \ {0}, n <= s
  PROVE  /\ SignedRange(n) \subseteq SignedRange(s)
         /\ 0..(2 ^ n - 1) \subseteq 0..(2 ^ s - 1)
         /\ n < s => 0..(2 ^ n - 1) \subseteq SignedRange(s)
  <1> DEFINE a == 2 ^ n
             p == 2 ^ (n - 1)
             b == 2 ^ s
             q == 2 ^ (s - 1)
  <1>1. a = 2 * p /\ p \in Nat \ {0}
    BY HalfPower
  <1>2. b = 2 * q /\ q \in Nat \ {0}
    BY HalfPower
  <1>3. a <= b /\ (n < s => 2 * a <= b)
    BY PowerMonotone
  <1> HIDE DEF a, b, p, q
  <1>4. (-p)..(p - 1) \subseteq (-q)..(q - 1)
    BY <1>1, <1>2, <1>3
  <1>5. 0..(a - 1) \subseteq 0..(b - 1)
    BY <1>1, <1>2, <1>3
  <1>6. n < s => 0..(a - 1) \subseteq (-q)..(q - 1)
    BY <1>1, <1>2, <1>3
  <1> QED BY <1>4, <1>5, <1>6 DEF SignedRange, a, b, p, q

-----------------------------------------------------------------------------
(* The low bits of a number. *)

(* Quotient and remainder. *)
LEMMA DivMod ==
  ASSUME NEW v \in Nat, NEW m \in Nat \ {0}
  PROVE  v \div m \in Nat /\ v % m \in 0..(m - 1) /\ v = m * (v \div m) + (v % m)
  OBVIOUS

(* val << 1 | b has b as its last bit, and the bits of val before it. *)
LEMMA LowBitShifted ==
  ASSUME NEW v \in Nat, NEW b \in {0, 1}
  PROVE  /\ LowBit(2 * v + b, 0) = b
         /\ \A i \in Nat : LowBit(2 * v + b, i + 1) = LowBit(v, i)
  <1>1. LowBit(2 * v + b, 0) = b
    BY DEF LowBit
  <1>2. ASSUME NEW i \in Nat PROVE LowBit(2 * v + b, i + 1) = LowBit(v, i)
    <2>1. 2 ^ (i + 1) = 2 * 2 ^ i /\ 2 ^ i \in Nat \ {0}
      BY PowerStep, PowerPositive
    <2>2. \A p \in Nat \ {0} : (2 * v + b) \div (2 * p) = v \div p
      OBVIOUS
    <2> QED BY <2>1, <2>2 DEF LowBit
  <1> QED BY <1>1, <1>2

(* The low w bits of a number are those of its remainder modulo 2^w. *)
LEMMA LowBitsOfRemainder ==
  ASSUME NEW v \in Nat, NEW w \in Nat
  PROVE  /\ v % 2 ^ w \in 0..(2 ^ w - 1)
         /\ \A i \in 0..(w - 1) : LowBit(v % 2 ^ w, i) = LowBit(v, i)
  <1>1. 2 ^ w \in Nat \ {0}
    BY PowerPositive
  <1>2. ASSUME NEW i \in 0..(w - 1) PROVE LowBit(v % 2 ^ w, i) = LowBit(v, i)
    <2>1. PICK p \in Nat \ {0}, k \in Nat \ {0} : p = 2 ^ i /\ k = 2 ^ (w - (i + 1))
      <3>1. i \in Nat /\ w - (i + 1) \in Nat
        OBVIOUS
      <3> QED BY <3>1, PowerPositive
    <2>2. 2 ^ w = (2 * p) * k
      <3>1. i + 1 \in Nat /\ w - (i + 1) \in Nat /\ w = (i + 1) + (w - (i + 1))
        OBVIOUS
      <3>2. 2 ^ w = 2 ^ (i + 1) * k
        BY <2>1, <3>1, PowerSum
      <3>3. 2 ^ (i + 1) = 2 * p
        BY <2>1, PowerStep
      <3> QED BY <3>2, <3>3
    <2>3. PICK q \in Nat, r \in Nat : v = ((2 * p) * k) * q + r /\ r = v % ((2 * p) * k)
      <3>1. (2 * p) * k \in Nat \ {0}
        BY <1>1, <2>2
      <3>2. PICK m \in Nat \ {0} : m = (2 * p) * k
        BY <3>1
      <3>3. v \div m \in Nat /\ v % m \in Nat /\ v = m * (v \div m) + (v % m)
        BY DivMod
      <3> QED BY <3>2, <3>3
    <2>4. v \div p = 2 * (k * q) + r \div p
      <3>1. v = p * (2 * (k * q)) + r
        BY <2>3
      <3>2. \A c \in Nat : (p * c + r) \div p = c + r \div p
        OBVIOUS
      <3>3. k * q \in Nat /\ 2 * (k * q) \in Nat
        OBVIOUS
      <3> QED BY <3>1, <3>2, <3>3
    <2>5. (v \div p) % 2 = (r \div p) % 2
      <3>1. k * q \in Nat /\ r \div p \in Nat
        OBVIOUS
      <3> QED BY <2>4, <3>1
    <2> QED BY <2>1, <2>2, <2>3, <2>5 DEF LowBit
  <1> QED BY <1>1, <1>2

(* A number is its last bit, and the bits of its half. *)
LEMMA Halved ==
  ASSUME NEW c \in Nat
  PROVE  /\ c \div 2 \in Nat /\ c = 2 * (c \div 2) + LowBit(c, 0)
         /\ \A i \in Nat : LowBit(c \div 2, i) = LowBit(c, i + 1)
  <1>1. PICK e \in Nat, x \in {0, 1} : c = 2 * e + x /\ e = c \div 2
    <2>1. c \div 2 \in Nat /\ c % 2 \in 0..1 /\ c = 2 * (c \div 2) + (c % 2)
      BY DivMod
    <2> QED BY <2>1
  <1>2. /\ LowBit(2 * e + x, 0) = x
        /\ \A i \in Nat : LowBit(2 * e + x, i + 1) = LowBit(e, i)
    BY LowBitShifted
  <1> QED BY <1>1, <1>2

(* Numbers of w bits that have the same bits are the same. *)
LEMMA SameBits ==
  ASSUME NEW w \in Nat, NEW a \in 0..(2 ^ w - 1), NEW b \in 0..(2 ^ w - 1),
         \A i \in 0..(w - 1) : LowBit(a, i) = LowBit(b, i)
  PROVE  a = b
  <1> DEFINE Same(k) == \A c, d \in 0..(2 ^ k - 1) :
                          (\A i \in 0..(k - 1) : LowBit(c, i) = LowBit(d, i)) => c = d
             S == {k \in Nat : Same(k)}
  <1>1. Same(0)
    <2>1. 2 ^ 0 = 1
      OBVIOUS
    <2> QED BY <2>1
  <1>2. ASSUME NEW k \in Nat, Same(k) PROVE Same(k + 1)
    <2> SUFFICES ASSUME NEW c \in 0..(2 ^ (k + 1) - 1), NEW d \in 0..(2 ^ (k + 1) - 1),
                        \A i \in 0..k : LowBit(c, i) = LowBit(d, i)
                 PROVE  c = d
      OBVIOUS
    <2>1. 2 ^ (k + 1) = 2 * 2 ^ k /\ 2 ^ k \in Nat \ {0}
      BY PowerStep, PowerPositive
    <2>2. c \in Nat /\ d \in Nat /\ c < 2 * 2 ^ k /\ d < 2 * 2 ^ k
      BY <2>1
    <2>3. c \div 2 \in 0..(2 ^ k - 1) /\ d \div 2 \in 0..(2 ^ k - 1)
      <3>1. \A n, p \in Nat : n < 2 * p => n \div 2 \in 0..(p - 1)
        OBVIOUS
      <3> HIDE DEF Same
      <3> QED BY <2>1, <2>2, <3>1
    <2>4. \A i \in 0..(k - 1) : LowBit(c \div 2, i) = LowBit(d \div 2, i)
      <3> SUFFICES ASSUME NEW i \in 0..(k - 1)
                   PROVE  LowBit(c \div 2, i) = LowBit(d \div 2, i)
        OBVIOUS
      <3> HIDE DEF Same
      <3>1. i \in Nat /\ i + 1 \in 0..k
        OBVIOUS
      <3> QED BY <2>2, <3>1, Halved
    <2>5. c \div 2 = d \div 2
      BY <1>2, <2>3, <2>4
    <2> HIDE DEF Same
    <2>6. LowBit(c, 0) = LowBit(d, 0)
      OBVIOUS
    <2> QED BY <2>2, <2>5, <2>6, Halved
  <1> HIDE DEF Same
  <1>3. Nat \subseteq S
    <2>1. 0 \in S /\ \A k \in Nat : k \in S => k + 1 \in S
      BY <1>1, <1>2
    <2> HIDE DEF S
    <2> QED BY <2>1, Induction
  <1>4. Same(w)
    BY <1>3
  <1> QED BY <1>4 DEF Same

-----------------------------------------------------------------------------
(* Fields: numbers of n bits behind each other in a stream of bits.        *)

BitField == [n : Nat, val : Nat]

(* The i-th field begins at at[i - 1] and ends at at[i]. *)
Laid(at, fs) ==
  /\ fs \in Seq(BitField)
  /\ at \in [0..Len(fs) -> Nat]
  /\ at[0] = 0
  /\ \A i \in 1..Len(fs) : at[i] = at[i - 1] + fs[i].n
  /\ \A i, j \in 0..Len(fs) : i <= j => at[i] <= at[j]

(* The bits are those of the fields, all but the last n. *)
StoredBits(at, fs, bits, n) ==
  /\ Laid(at, fs)
  /\ at[Len(fs)] = Len(bits) + n
  /\ n > 0 => Len(fs) > 0 /\ n <= fs[Len(fs)].n
  /\ \A i \in 1..Len(fs) : \A j \in 0..(fs[i].n - 1) :
       at[i - 1] + j < Len(bits)
         => bits[at[i - 1] + j + 1] = LowBit(fs[i].val, fs[i].n - 1 - j)

(* val is the number of w bits that begins at bit o. *)
Number(val, w, bits, o) ==
  /\ w \in Nat /\ o + w <= Len(bits)
  /\ val \in 0..(2 ^ w - 1)
  /\ \A j \in 0..(w - 1) : bits[o + j + 1] = LowBit(val, w - 1 - j)

(* The fields are what the bits hold where they lie; of the last one, n    *)
(* bits have not been fetched.                                             *)
Fetched(at, fs, bits, n) ==
  /\ Laid(at, fs)
  /\ n > 0 => Len(fs) > 0
  /\ \A i \in 1..Len(fs) :
       Number(fs[i].val, IF i = Len(fs) THEN fs[i].n - n ELSE fs[i].n, bits, at[i - 1])

(* What Laid says of each field. *)
LEMMA LaidFields ==
  ASSUME NEW at, NEW fs, Laid(at, fs)
  PROVE  /\ fs \in Seq(BitField) /\ Len(fs) \in Nat
         /\ \A i \in 1..Len(fs) :
              /\ fs[i] \in BitField /\ fs[i].n \in Nat /\ fs[i].val \in Nat
              /\ i \in 0..Len(fs) /\ i - 1 \in 0..Len(fs)
              /\ at[i - 1] \in Nat /\ at[i] \in Nat
              /\ at[i] = at[i - 1] + fs[i].n
  <1>1. fs \in Seq(BitField) /\ Len(fs) \in Nat /\ at \in [0..Len(fs) -> Nat]
    BY LenProperties DEF Laid
  <1>2. ASSUME NEW i \in 1..Len(fs)
        PROVE  fs[i] \in BitField /\ fs[i].n \in Nat /\ fs[i].val \in Nat
    <2>1. fs[i] \in BitField
      BY <1>1, ElementOfSeq
    <2> QED BY <2>1 DEF BitField
  <1>3. ASSUME NEW i \in 1..Len(fs)
        PROVE  i \in 0..Len(fs) /\ i - 1 \in 0..Len(fs)
    BY <1>1
  <1> QED BY <1>1, <1>2, <1>3 DEF Laid

(* One more field begins where the last one ended. *)
LEMMA LaidAppend ==
  ASSUME NEW at, NEW fs, Laid(at, fs), NEW f \in BitField
  PROVE  \E to : /\ Laid(to, Append(fs, f))
                 /\ \A i \in 0..Len(fs) : to[i] = at[i]
                 /\ to[Len(fs) + 1] = at[Len(fs)] + f.n
  <1> DEFINE l == Len(fs)
             gs == Append(fs, f)
             to == [i \in 0..(l + 1) |-> IF i <= l THEN at[i] ELSE at[l] + f.n]
  <1>1. /\ fs \in Seq(BitField) /\ l \in Nat
        /\ at \in [0..l -> Nat] /\ at[0] = 0
        /\ \A i \in 1..l : at[i] = at[i - 1] + fs[i].n
        /\ \A i, j \in 0..l : i <= j => at[i] <= at[j]
        /\ f.n \in Nat
    BY LenProperties DEF Laid, BitField
  <1>2. /\ gs \in Seq(BitField) /\ Len(gs) = l + 1
        /\ \A i \in 1..l : gs[i] = fs[i]
        /\ gs[l + 1] = f
    BY <1>1, AppendProperties
  <1>3. /\ to \in [0..(l + 1) -> Nat] /\ to[0] = 0
        /\ \A i \in 0..l : to[i] = at[i]
        /\ to[l + 1] = at[l] + f.n
    BY <1>1, SMTT(30)
  <1> HIDE DEF gs, to
  <1>4. \A i \in 1..(l + 1) : to[i] = to[i - 1] + gs[i].n
    <2> SUFFICES ASSUME NEW i \in 1..(l + 1) PROVE to[i] = to[i - 1] + gs[i].n
      OBVIOUS
    <2>1. i - 1 \in 0..l
      BY <1>1
    <2>2. CASE i = l + 1
      <3>1. i - 1 = l /\ l \in 0..l
        BY <1>1, <2>2
      <3> QED BY <1>2, <1>3, <2>2, <3>1
    <2>3. CASE i # l + 1
      <3>1. i \in 1..l /\ i \in 0..l
        BY <1>1, <2>3
      <3> QED BY <1>1, <1>2, <1>3, <2>1, <3>1
    <2> QED BY <2>2, <2>3
  <1>5. \A i, j \in 0..(l + 1) : i <= j => to[i] <= to[j]
    <2> SUFFICES ASSUME NEW i \in 0..(l + 1), NEW j \in 0..(l + 1), i <= j
                 PROVE  to[i] <= to[j]
      OBVIOUS
    <2>1. CASE j \in 0..l
      <3>1. i \in 0..l
        BY <1>1, <2>1
      <3> QED BY <1>1, <1>3, <2>1, <3>1
    <2>2. CASE j = l + 1 /\ i \in 0..l
      <3>1. at[i] <= at[l] /\ at[i] \in Nat /\ at[l] \in Nat
        BY <1>1, <2>2
      <3> QED BY <1>1, <1>3, <2>2, <3>1
    <2>3. CASE j = l + 1 /\ i = l + 1
      BY <1>3, <2>3
    <2> QED BY <1>1, <2>1, <2>2, <2>3
  <1>6. Laid(to, gs)
    BY <1>2, <1>3, <1>4, <1>5 DEF Laid
  <1> QED BY <1>3, <1>6 DEF gs

(* A write of a field begins. *)
LEMMA StoredField ==
  ASSUME NEW at, NEW fs, NEW bits, StoredBits(at, fs, bits, 0), Len(bits) \in Nat,
         NEW f \in BitField
  PROVE  \E to : StoredBits(to, Append(fs, f), bits, f.n)
  <1> DEFINE l == Len(fs)
             gs == Append(fs, f)
  <1>1. Laid(at, fs) /\ at[l] = Len(bits)
    BY DEF StoredBits
  <1>2. PICK to : /\ Laid(to, gs)
                  /\ \A i \in 0..l : to[i] = at[i]
                  /\ to[l + 1] = at[l] + f.n
    BY <1>1, LaidAppend
  <1>3. /\ fs \in Seq(BitField) /\ l \in Nat /\ Len(gs) = l + 1
        /\ \A i \in 1..l : gs[i] = fs[i]
        /\ gs[l + 1] = f /\ f.n \in Nat
    BY <1>1, AppendProperties, LenProperties DEF Laid, BitField
  <1> HIDE DEF gs
  <1>4. ASSUME NEW i \in 1..(l + 1), NEW j \in 0..(gs[i].n - 1),
               to[i - 1] + j < Len(bits)
        PROVE  bits[to[i - 1] + j + 1] = LowBit(gs[i].val, gs[i].n - 1 - j)
    <2>1. CASE i \in 1..l
      <3>1. to[i - 1] = at[i - 1] /\ gs[i] = fs[i]
        BY <1>2, <1>3, <2>1
      <3> QED BY <1>4, <2>1, <3>1 DEF StoredBits
    <2>2. CASE i = l + 1
      <3>1. to[i - 1] = Len(bits) /\ j \in Nat
        BY <1>1, <1>2, <1>3, <2>2
      <3> QED BY <1>4, <3>1
    <2> QED BY <1>3, <2>1, <2>2
  <1>5. StoredBits(to, gs, bits, f.n)
    BY <1>1, <1>2, <1>3, <1>4 DEF StoredBits
  <1> QED BY <1>5 DEF gs

(* The next bit of a field is written, from the most significant down. *)
LEMMA StoredBit ==
  ASSUME NEW at, NEW fs, NEW bits \in Seq({0, 1}), NEW n \in Nat \ {0},
         StoredBits(at, fs, bits, n)
  PROVE  StoredBits(at, fs, Append(bits, LowBit(fs[Len(fs)].val, n - 1)), n - 1)
  <1> DEFINE b == LowBit(fs[Len(fs)].val, n - 1)
             more == Append(bits, b)
  <1> PICK l, w : l = Len(fs) /\ w = fs[l].n
    OBVIOUS
  <1>0. Laid(at, fs) /\ at[l] = Len(bits) + n /\ l > 0 /\ n <= w
    BY DEF StoredBits
  <1>1. /\ l \in Nat \ {0} /\ w \in Nat
        /\ \A i \in 1..l : /\ fs[i].n \in Nat /\ i - 1 \in 0..l /\ i \in 0..l
                           /\ at[i - 1] \in Nat /\ at[i] \in Nat
                           /\ at[i] = at[i - 1] + fs[i].n
        /\ \A i, j \in 0..l : i <= j => at[i] <= at[j]
    <2>1. l \in Nat /\ \A i \in 1..l : fs[i].n \in Nat
      BY <1>0, LaidFields
    <2>2. l \in 1..l
      BY <1>0, <2>1
    <2>3. w \in Nat
      BY <2>1, <2>2
    <2> QED BY <1>0, <2>1, <2>3, LaidFields DEF Laid
  <1>2. /\ Len(bits) \in Nat /\ Len(more) = Len(bits) + 1
        /\ \A p \in 1..Len(bits) : more[p] = bits[p]
        /\ more[Len(bits) + 1] = b
    <2>1. b \in {0, 1}
      BY DEF LowBit
    <2> HIDE DEF b
    <2> QED BY <2>1, AppendProperties, LenProperties
  <1> HIDE DEF more, b
  <1>3. ASSUME NEW i \in 1..l, NEW j \in 0..(fs[i].n - 1),
               at[i - 1] + j < Len(bits) + 1
        PROVE  more[at[i - 1] + j + 1] = LowBit(fs[i].val, fs[i].n - 1 - j)
    <2>1. at[i - 1] \in Nat /\ j \in Nat /\ fs[i].n \in Nat
      BY <1>1
    <2>2. CASE at[i - 1] + j < Len(bits)
      <3>1. at[i - 1] + j + 1 \in 1..Len(bits)
        BY <1>2, <2>1, <2>2, SMTT(30)
      <3>2. bits[at[i - 1] + j + 1] = LowBit(fs[i].val, fs[i].n - 1 - j)
        BY <2>2 DEF StoredBits
      <3> QED BY <1>2, <3>1, <3>2
    <2>3. CASE at[i - 1] + j = Len(bits)
      <3>0. PICK o \in Nat, e \in Nat, v \in Nat : o = at[i - 1] /\ e = Len(bits) /\ v = fs[i].n
        BY <1>2, <2>1
      <3>1. o + j = e /\ j < v /\ j \in Nat /\ at[i] = o + v
        <4>1. at[i] = at[i - 1] + fs[i].n
          BY <1>1, Zenon
        <4>2. j < fs[i].n /\ j \in Nat
          BY <2>1
        <4> QED BY <2>3, <3>0, <4>1, <4>2
      <3>2. i = l
        <4> SUFFICES ASSUME i # l PROVE FALSE
          OBVIOUS
        <4>1. i \in 0..l /\ l - 1 \in 0..l /\ i <= l - 1 /\ l \in 1..l
          BY <1>1
        <4>2. PICK x \in Nat : x = at[l - 1]
          BY <1>1, <4>1
        <4>3. at[i] <= x /\ at[l] = x + w
          BY <1>1, <4>1, <4>2
        <4>4. e + n = x + w
          BY <1>0, <3>0, <4>3
        <4>5. o + v <= x
          BY <3>1, <4>3
        <4> QED BY <1>0, <1>1, <3>1, <4>4, <4>5, SMTT(30)
      <3>3. o + v = e + n
        BY <1>0, <3>0, <3>1, <3>2
      <3>4. v - 1 - j = n - 1 /\ o + j + 1 = e + 1
        BY <3>1, <3>3
      <3> QED BY <1>2, <3>0, <3>2, <3>4 DEF b
    <2> QED BY <1>2, <1>3, <2>1, <2>2, <2>3
  <1>4. at[l] = Len(more) + (n - 1) /\ n - 1 <= w
    BY <1>0, <1>1, <1>2
  <1>5. StoredBits(at, fs, more, n - 1)
    <2> PICK m : m = n - 1
      OBVIOUS
    <2>1. at[l] = Len(more) + m /\ m <= w
      BY <1>4
    <2>2. StoredBits(at, fs, more, m)
      BY <1>0, <1>2, <1>3, <2>1 DEF StoredBits
    <2> QED BY <2>2
  <1> QED BY <1>5 DEF more, b

(* A read of a field begins. *)
LEMMA FetchedField ==
  ASSUME NEW at, NEW fs, NEW bits, Len(bits) \in Nat,
         Fetched(at, fs, bits, 0), at[Len(fs)] = Len(bits),
         NEW f \in BitField, f.val = 0
  PROVE  \E to : /\ Fetched(to, Append(fs, f), bits, f.n)
                 /\ to[Len(fs) + 1] = Len(bits) + f.n
  <1> PICK n \in Nat : n = f.n
    BY DEF BitField
  <1> DEFINE l == Len(fs)
             gs == Append(fs, f)
  <1>0. Laid(at, fs)
    BY DEF Fetched
  <1>2. PICK to : /\ Laid(to, gs)
                  /\ \A i \in 0..l : to[i] = at[i]
                  /\ to[l + 1] = at[l] + n
    <2>1. \E to : /\ Laid(to, gs)
                  /\ \A i \in 0..l : to[i] = at[i]
                  /\ to[l + 1] = at[l] + f.n
      BY <1>0, LaidAppend
    <2> HIDE DEF gs
    <2> QED BY <2>1
  <1>3. /\ fs \in Seq(BitField) /\ l \in Nat /\ Len(gs) = l + 1
        /\ \A i \in 1..l : gs[i] = fs[i]
        /\ gs[l + 1] = f
    BY <1>0, AppendProperties, LenProperties DEF Laid
  <1> HIDE DEF gs
  <1>4. ASSUME NEW i \in 1..(l + 1)
        PROVE  Number(gs[i].val, IF i = l + 1 THEN gs[i].n - n ELSE gs[i].n, bits, to[i - 1])
    <2>1. CASE i \in 1..l
      <3>1. to[i - 1] = at[i - 1] /\ gs[i] = fs[i] /\ i # l + 1
        BY <1>2, <1>3, <2>1
      <3>2. fs[i].n \in Nat /\ fs[i].n - 0 = fs[i].n
        BY <1>0, <2>1, LaidFields
      <3>3. Number(fs[i].val, fs[i].n, bits, at[i - 1])
        BY <2>1, <3>2 DEF Fetched
      <3> QED BY <3>1, <3>3
    <2>2. CASE i = l + 1
      <3>1. to[i - 1] = Len(bits) /\ gs[i].n - n = 0 /\ gs[i].val = 0
        BY <1>2, <1>3, <2>2
      <3>2. Number(0, 0, bits, Len(bits))
        <4>1. 2 ^ 0 = 1
          OBVIOUS
        <4> QED BY <4>1 DEF Number
      <3> QED BY <2>2, <3>1, <3>2
    <2> QED BY <1>3, <2>1, <2>2
  <1>5. Fetched(to, gs, bits, n)
    BY <1>2, <1>3, <1>4 DEF Fetched
  <1> QED BY <1>2, <1>5 DEF gs

(* One more bit makes a number of one more bit. *)
LEMMA NumberShifted ==
  ASSUME NEW bits \in Seq({0, 1}), NEW b \in {0, 1}, NEW o \in Nat, NEW w, NEW v,
         Number(v, w, bits, o), o + w = Len(bits)
  PROVE  Number(2 * v + b, w + 1, Append(bits, b), o)
  <1> DEFINE more == Append(bits, b)
  <1>1. /\ w \in Nat /\ v \in 0..(2 ^ w - 1)
        /\ \A j \in 0..(w - 1) : bits[o + j + 1] = LowBit(v, w - 1 - j)
    BY DEF Number
  <1>2. /\ Len(bits) \in Nat /\ Len(more) = Len(bits) + 1
        /\ \A p \in 1..Len(bits) : more[p] = bits[p]
        /\ more[Len(bits) + 1] = b
    BY AppendProperties, LenProperties
  <1> HIDE DEF more
  <1>3. 2 ^ (w + 1) = 2 * 2 ^ w /\ 2 ^ w \in Nat \ {0} /\ v \in Nat
    BY <1>1, PowerStep, PowerPositive
  <1>4. 2 * v + b \in 0..(2 ^ (w + 1) - 1)
    BY <1>1, <1>3
  <1>5. ASSUME NEW j \in 0..w
        PROVE  more[o + j + 1] = LowBit(2 * v + b, w - j)
    <2>1. CASE j = w
      <3>1. w - j = 0 /\ o + j + 1 = Len(bits) + 1
        BY <1>1, <2>1
      <3>2. LowBit(2 * v + b, 0) = b
        BY <1>3, LowBitShifted
      <3> QED BY <1>2, <3>1, <3>2
    <2>2. CASE j # w
      <3>1. j \in 0..(w - 1) /\ w - 1 - j \in Nat /\ (w - 1 - j) + 1 = w - j
            /\ o + j + 1 \in 1..Len(bits)
        BY <1>1, <2>2
      <3>2. LowBit(2 * v + b, w - j) = LowBit(v, w - 1 - j)
        <4> PICK i : i = w - 1 - j
          OBVIOUS
        <4>1. LowBit(2 * v + b, i + 1) = LowBit(v, i)
          BY <1>3, <3>1, LowBitShifted
        <4> QED BY <3>1, <4>1
      <3> QED BY <1>1, <1>2, <3>1, <3>2
    <2> QED BY <2>1, <2>2
  <1>6. w + 1 \in Nat /\ o + (w + 1) <= Len(more) /\ (w + 1) - 1 = w
    BY <1>1, <1>2
  <1>7. \A j \in 0..((w + 1) - 1) : more[o + j + 1] = LowBit(2 * v + b, (w + 1) - 1 - j)
    BY <1>5, <1>6
  <1> QED BY <1>4, <1>6, <1>7 DEF Number, more

(* Numbers that were fetched stay what they are. *)
LEMMA NumberKept ==
  ASSUME NEW bits \in Seq({0, 1}), NEW b \in {0, 1}, NEW o \in Nat, NEW w, NEW v,
         Number(v, w, bits, o)
  PROVE  Number(v, w, Append(bits, b), o)
  <1> DEFINE more == Append(bits, b)
  <1>1. /\ Len(bits) \in Nat /\ Len(more) = Len(bits) + 1
        /\ \A p \in 1..Len(bits) : more[p] = bits[p]
    BY AppendProperties, LenProperties
  <1> HIDE DEF more
  <1>2. \A j \in 0..(w - 1) : o + j + 1 \in 1..Len(bits)
    BY <1>1 DEF Number
  <1>3. w \in Nat /\ o + w <= Len(more)
    BY <1>1 DEF Number
  <1> QED BY <1>1, <1>2, <1>3 DEF Number, more

(* The next bit of a field is read, from the most significant down. *)
LEMMA FetchedBit ==
  ASSUME NEW at, NEW fs, NEW bits \in Seq({0, 1}), NEW n \in Nat \ {0}, NEW b \in {0, 1},
         Fetched(at, fs, bits, n), at[Len(fs)] = Len(bits) + n,
         NEW v, v = 2 * fs[Len(fs)].val + b
  PROVE  /\ Fetched(at, [fs EXCEPT ![Len(fs)].val = v], Append(bits, b), n - 1)
         /\ Len([fs EXCEPT ![Len(fs)].val = v]) = Len(fs)
         /\ Len(fs) > 0
  <1> PICK l, gs, more : l = Len(fs) /\ gs = [fs EXCEPT ![l].val = v] /\ more = Append(bits, b)
    OBVIOUS
  <1>1. Laid(at, fs) /\ l > 0
    BY DEF Fetched
  <1>2. /\ l \in Nat \ {0} /\ l \in 1..l /\ fs \in Seq(BitField)
        /\ \A i \in 1..l : /\ fs[i] \in BitField /\ fs[i].n \in Nat
                           /\ at[i - 1] \in Nat /\ at[i] = at[i - 1] + fs[i].n
    <2>1. l \in Nat /\ l \in 1..l
      BY <1>1, LaidFields
    <2> QED BY <1>1, <2>1, LaidFields
  <1>3. /\ Number(fs[l].val, fs[l].n - n, bits, at[l - 1])
        /\ \A i \in 1..l : i # l => Number(fs[i].val, fs[i].n, bits, at[i - 1])
    BY <1>2 DEF Fetched
  <1>4. v \in Nat
    <2>1. fs[l].val \in Nat
      BY <1>2 DEF BitField
    <2> QED BY <2>1, SMTT(30)
  <1>5. /\ gs \in Seq(BitField) /\ Len(gs) = l
        /\ \A i \in 1..l : gs[i].n = fs[i].n
        /\ gs[l].val = v
        /\ \A i \in 1..l : i # l => gs[i] = fs[i]
    <2>1. gs = [fs EXCEPT ![l] = [fs[l] EXCEPT !.val = v]]
      OBVIOUS
    <2>2. PICK f : f = [fs[l] EXCEPT !.val = v]
      OBVIOUS
    <2>3. f \in BitField /\ f.n = fs[l].n /\ f.val = v
      <3>1. fs[l] \in BitField
        BY <1>2
      <3> QED BY <1>4, <2>2, <3>1 DEF BitField
    <2>4. gs = [fs EXCEPT ![l] = f]
      BY <2>1, <2>2
    <2>5. gs \in Seq(BitField) /\ Len(gs) = l /\ \A i \in 1..l : gs[i] = IF i = l THEN f ELSE fs[i]
      <3>1. ASSUME NEW g \in BitField
            PROVE  /\ [fs EXCEPT ![l] = g] \in Seq(BitField) /\ Len([fs EXCEPT ![l] = g]) = Len(fs)
                   /\ \A i \in 1..Len(fs) :
                        [fs EXCEPT ![l] = g][i] = IF i = l THEN g ELSE fs[i]
        <4>1. fs \in Seq(BitField) /\ l \in 1..Len(fs)
          BY <1>2
        <4> QED BY <4>1, ExceptSeq
      <3>2. f \in BitField /\ Len(fs) = l
        BY <2>3
      <3>3. /\ [fs EXCEPT ![l] = f] \in Seq(BitField) /\ Len([fs EXCEPT ![l] = f]) = Len(fs)
            /\ \A i \in 1..Len(fs) : [fs EXCEPT ![l] = f][i] = IF i = l THEN f ELSE fs[i]
        BY <3>1, <3>2, Zenon
      <3> QED BY <2>4, <3>2, <3>3, Zenon
    <2> QED BY <1>2, <2>3, <2>5
  <1>6. Laid(at, gs)
    BY <1>1, <1>5 DEF Laid
  <1>7. Number(v, fs[l].n - (n - 1), more, at[l - 1])
    <2>1. PICK w : w = fs[l].n - n
      OBVIOUS
    <2>2. Number(fs[l].val, w, bits, at[l - 1]) /\ w \in Nat /\ at[l - 1] \in Nat
      BY <1>2, <1>3, <2>1 DEF Number
    <2>3. at[l - 1] + w = Len(bits)
      <3>1. PICK o \in Nat, e \in Nat, m \in Nat : o = at[l - 1] /\ e = Len(bits) /\ m = fs[l].n
        BY <1>2, LenProperties
      <3>2. o + m = e + n
        BY <1>2, <3>1
      <3> QED BY <2>1, <3>1, <3>2, SMTT(30)
    <2>4. Number(2 * fs[l].val + b, w + 1, more, at[l - 1])
      BY <2>2, <2>3, NumberShifted
    <2>5. w + 1 = fs[l].n - (n - 1)
      <3>1. PICK m \in Nat : m = fs[l].n
        BY <1>2
      <3>2. (m - n) + 1 = m - (n - 1)
        OBVIOUS
      <3> QED BY <2>1, <3>1, <3>2
    <2> QED BY <2>4, <2>5
  <1>8. \A i \in 1..l : i # l => Number(fs[i].val, fs[i].n, more, at[i - 1])
    BY <1>2, <1>3, NumberKept
  <1>9. Fetched(at, gs, more, n - 1)
    <2>1. ASSUME NEW i \in 1..l
          PROVE  Number(gs[i].val, IF i = l THEN gs[i].n - (n - 1) ELSE gs[i].n, more, at[i - 1])
      BY <1>2, <1>5, <1>7, <1>8
    <2> QED BY <1>1, <1>5, <1>6, <2>1 DEF Fetched
  <1> QED BY <1>1, <1>5, <1>9

(* A read that fails takes its field with it. *)
LEMMA FetchedDropped ==
  ASSUME NEW at, NEW fs, NEW bits, NEW n \in Nat \ {0}, Fetched(at, fs, bits, n)
  PROVE  \E to : Fetched(to, SubSeq(fs, 1, Len(fs) - 1), bits, 0)
  <1> PICK l, gs : l = Len(fs) /\ gs = SubSeq(fs, 1, l - 1)
    OBVIOUS
  <1> DEFINE to == [i \in 0..(l - 1) |-> at[i]]
  <1>1. Laid(at, fs) /\ l > 0
    BY DEF Fetched
  <1>2. /\ l \in Nat \ {0} /\ fs \in Seq(BitField) /\ at \in [0..l -> Nat] /\ at[0] = 0
        /\ \A i \in 1..l : fs[i] \in BitField /\ at[i] = at[i - 1] + fs[i].n
        /\ \A i, j \in 0..l : i <= j => at[i] <= at[j]
    BY <1>1, LaidFields DEF Laid
  <1>3. /\ gs \in Seq(BitField) /\ Len(gs) = l - 1
        /\ \A i \in 1..(l - 1) : gs[i] = fs[i]
    BY <1>2
  <1>4. /\ to \in [0..(l - 1) -> Nat] /\ to[0] = 0
        /\ \A i \in 0..(l - 1) : to[i] = at[i]
    BY <1>2
  <1> HIDE DEF to
  <1>5. Laid(to, gs)
    <2>1. \A i \in 1..(l - 1) : to[i] = to[i - 1] + gs[i].n
      <3> SUFFICES ASSUME NEW i \in 1..(l - 1) PROVE to[i] = to[i - 1] + gs[i].n
        OBVIOUS
      <3>1. i \in 0..(l - 1) /\ i - 1 \in 0..(l - 1) /\ i \in 1..l
        BY <1>2
      <3> QED BY <1>2, <1>3, <1>4, <3>1
    <2>2. \A i, j \in 0..(l - 1) : i <= j => to[i] <= to[j]
      BY <1>2, <1>4
    <2> QED BY <1>3, <1>4, <2>1, <2>2 DEF Laid
  <1>6. ASSUME NEW i \in 1..(l - 1)
        PROVE  Number(gs[i].val, gs[i].n, bits, to[i - 1])
    <2>1. i \in 1..l /\ i # l /\ i - 1 \in 0..(l - 1)
      BY <1>2
    <2>2. Number(fs[i].val, fs[i].n, bits, at[i - 1])
      BY <2>1 DEF Fetched
    <2> QED BY <1>3, <1>4, <2>1, <2>2
  <1>7. Fetched(to, gs, bits, 0)
    <2>1. ASSUME NEW i \in 1..(l - 1) PROVE gs[i].n - 0 = gs[i].n
      <3>1. gs[i] \in BitField
        BY <1>2, <1>3
      <3> QED BY <3>1 DEF BitField
    <2> QED BY <1>3, <1>5, <1>6, <2>1 DEF Fetched
  <1> QED BY <1>7

(* Where the bits of a field lie, and the bit counted from its other end. *)
LEMMA BitOfField ==
  ASSUME NEW o \in Nat, NEW w \in Nat, NEW x \in Nat, o + w <= x, NEW j \in 0..(w - 1)
  PROVE  o + j + 1 \in 1..x /\ o + j < x
  OBVIOUS

LEMMA Mirrored ==
  ASSUME NEW w \in Nat, NEW m \in 0..(w - 1)
  PROVE  w - 1 - m \in 0..(w - 1) /\ m = w - 1 - (w - 1 - m)
  OBVIOUS

(* The bits read are those written; the widths of the first i fields read, *)
(* all of which are complete, are those written.                           *)
SameBitsRead(rs, ws) == /\ Len(rs) \in Nat /\ Len(ws) \in Nat
                        /\ \A p \in 1..Len(rs) : p <= Len(ws) => rs[p] = ws[p]
SameWidths(ps, gs, n, i) == /\ i \in 1..(IF n = 0 THEN Len(gs) ELSE Len(gs) - 1)
                            /\ i <= Len(ps) /\ \A j \in 1..i : ps[j].n = gs[j].n

(* Fields of the widths that were written hold what was written.           *)
LEMMA FieldsAgree ==
  ASSUME NEW at, NEW ps, NEW ws, StoredBits(at, ps, ws, 0),
         NEW from, NEW gs, NEW rs, NEW n \in Nat, Fetched(from, gs, rs, n),
         SameBitsRead(rs, ws), NEW i, SameWidths(ps, gs, n, i)
  PROVE  gs[i].val = ps[i].val % (2 ^ ps[i].n)
  <1>0. /\ Len(rs) \in Nat /\ Len(ws) \in Nat
        /\ \A p \in 1..Len(rs) : p <= Len(ws) => rs[p] = ws[p]
        /\ i \in 1..(IF n = 0 THEN Len(gs) ELSE Len(gs) - 1)
        /\ i <= Len(ps) /\ \A j \in 1..i : ps[j].n = gs[j].n
    BY DEF SameBitsRead, SameWidths
  <1> PICK k, l : k = Len(ps) /\ l = Len(gs)
    OBVIOUS
  <1>1. Laid(at, ps) /\ Laid(from, gs)
    BY DEF StoredBits, Fetched
  <1>2. k \in Nat /\ l \in Nat
    BY <1>1, LaidFields
  <1>3. i \in 1..k /\ i \in 1..l /\ (n = 0 \/ i # l)
    BY <1>0, <1>2
  (* The field lies where it was written. *)
  <1>4. \A j \in 0..i : at[j] = from[j]
    <2> DEFINE S == {j \in Nat : j <= i => at[j] = from[j]}
    <2>1. 0 \in S
      BY <1>1 DEF Laid
    <2>2. ASSUME NEW j \in Nat, j \in S PROVE j + 1 \in S
      <3> SUFFICES ASSUME j + 1 <= i PROVE at[j + 1] = from[j + 1]
        OBVIOUS
      <3>1. at[j] = from[j] /\ j + 1 \in 1..k /\ j + 1 \in 1..l /\ j + 1 \in 1..i
            /\ (j + 1) - 1 = j
        BY <1>3, <2>2
      <3>2. at[j + 1] = at[j] + ps[j + 1].n
        BY <1>1, <3>1 DEF Laid
      <3>3. from[j + 1] = from[j] + gs[j + 1].n
        BY <1>1, <3>1 DEF Laid
      <3> QED BY <1>0, <3>1, <3>2, <3>3
    <2> HIDE DEF S
    <2>3. Nat \subseteq S
      BY <2>1, <2>2, Induction
    <2> QED BY <2>3 DEF S
  <1> PICK w, o, v : w = ps[i].n /\ o = at[i - 1] /\ v = ps[i].val
    OBVIOUS
  <1>5. /\ w \in Nat /\ o \in Nat /\ v \in Nat /\ gs[i].n = w
        /\ from[i - 1] = o /\ o + w <= Len(ws)
    <2>1. w \in Nat /\ o \in Nat /\ v \in Nat /\ at[i] = o + w
      BY <1>1, <1>3, LaidFields
    <2>5. gs[i].n = w
      BY <1>0, <1>3
    <2>2. i - 1 \in 0..i /\ i \in 1..i
      BY <1>2, <1>3
    <2>3. at[i] <= at[k]
      <3>1. i \in 0..k /\ k \in 0..k /\ i <= k
        BY <1>2, <1>3
      <3> QED BY <1>1, <3>1 DEF Laid
    <2>4. at[k] = Len(ws)
      BY DEF StoredBits
    <2> QED BY <1>4, <2>1, <2>2, <2>3, <2>4, <2>5
  <1>6. Number(gs[i].val, w, rs, o)
    <2>1. Number(gs[i].val, IF i = l THEN w - n ELSE w, rs, o)
      BY <1>3, <1>5 DEF Fetched
    <2> QED BY <1>3, <1>5, <2>1
  <1>7. ASSUME NEW j \in 0..(w - 1)
        PROVE  LowBit(gs[i].val, w - 1 - j) = LowBit(v, w - 1 - j)
    <2>1. o + j + 1 \in 1..Len(rs) /\ o + j + 1 <= Len(ws) /\ o + j < Len(ws)
      <3>1. PICK x \in Nat, y \in Nat : x = Len(rs) /\ y = Len(ws)
        BY <1>0
      <3>2. w \in Nat /\ o \in Nat /\ o + w <= x /\ o + w <= y
        BY <1>5, <1>6, <3>1 DEF Number
      <3>3. o + j + 1 \in 1..x /\ o + j + 1 \in 1..y /\ o + j < y
        BY <3>1, <3>2, BitOfField
      <3>4. o + j + 1 <= y
        BY <3>3
      <3> QED BY <3>1, <3>3, <3>4
    <2>2. rs[o + j + 1] = LowBit(gs[i].val, w - 1 - j)
      BY <1>6 DEF Number
    <2>3. ws[o + j + 1] = LowBit(v, w - 1 - j)
      BY <1>3, <2>1 DEF StoredBits
    <2> QED BY <1>0, <2>1, <2>2, <2>3
  <1>8. \A m \in 0..(w - 1) : LowBit(gs[i].val, m) = LowBit(v % 2 ^ w, m)
    <2> SUFFICES ASSUME NEW m \in 0..(w - 1)
                 PROVE  LowBit(gs[i].val, m) = LowBit(v % 2 ^ w, m)
      OBVIOUS
    <2>1. PICK j \in 0..(w - 1) : m = w - 1 - j
      <3>1. w \in Nat
        BY <1>5
      <3>2. w - 1 - m \in 0..(w - 1) /\ m = w - 1 - (w - 1 - m)
        BY <3>1, Mirrored
      <3> QED BY <3>2
    <2>2. LowBit(gs[i].val, m) = LowBit(v, m)
      BY <1>7, <2>1
    <2> QED BY <1>5, <2>2, LowBitsOfRemainder
  <1>9. gs[i].val \in 0..(2 ^ w - 1) /\ v % 2 ^ w \in 0..(2 ^ w - 1)
    BY <1>5, <1>6, LowBitsOfRemainder DEF Number
  <1> QED BY <1>5, <1>8, <1>9, SameBits
=============================================================================
