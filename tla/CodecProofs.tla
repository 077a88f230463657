----------------------------- MODULE CodecProofs ----------------------------
(***************************************************************************)
(* Proofs about MessageCodec and SchemaAnalysis, for all descriptors,      *)
(* values and widths.                                                      *)
(*                                                                         *)
(* The encoder leaves a history: what work it had and what it had kept at   *)
(* each of its items (History).  The decoder is always at one of them: its  *)
(* work is the encoder's at that item, with ends of elements between        *)
(* (Matches, Stacked), its position is where the item was written, and its  *)
(* message is what the encoder had kept (OutIs).  EncoderStep says what     *)
(* each action of Pack writes, and DecoderStep that the action of Unpack    *)
(* which meets those bits takes as many of them and builds the same.  The  *)
(* invariants EncoderInv and DecoderInv put the two together.              *)
(*                                                                         *)
(* What is kept of each field is proved apart from that history: the       *)
(* invariant KeptInv says, of every place that holds a value, which field  *)
(* it is for (Walk: a place is for one thing only), which of its values    *)
(* still wait in the work (Waiting) and what is kept of the others (Good). *)
(*                                                                         *)
(* PartInv puts the two histories together: what the encoder had kept at an *)
(* item is part of what it keeps in all (PartOf), unless the places below  *)
(* it are shared (EntryIsMessage), and the decoder, who refuses shared     *)
(* places, has what the encoder had kept, but for open elements.           *)
(***************************************************************************)
EXTENDS MessageCodec, SchemaAnalysis, BitsProofs, FiniteSetTheorems

-----------------------------------------------------------------------------
(* Sequences of anything. *)

IsSeq(s) == \E S : s \in Seq(S)

LEMMA SeqFacts ==
  ASSUME NEW s, IsSeq(s)
  PROVE  /\ Len(s) \in Nat /\ DOMAIN s = 1..Len(s) /\ s = [i \in 1..Len(s) |-> s[i]]
         /\ s = <<>> <=> Len(s) = 0
  <1>1. PICK S : s \in Seq(S)
    BY DEF IsSeq
  <1> QED BY <1>1, LenProperties, EmptySeq

LEMMA FunctionIsSeq ==
  ASSUME NEW n \in Nat, NEW f, f = [i \in 1..n |-> f[i]]
  PROVE  IsSeq(f) /\ Len(f) = n
  <1> DEFINE S == {f[i] : i \in 1..n}
  <1>1. f \in [1..n -> S]
    OBVIOUS
  <1>2. f \in Seq(S) /\ Len(f) = n
    BY <1>1
  <1> QED BY <1>2 DEF IsSeq

LEMMA EmptyIsSeq == IsSeq(<<>>) /\ Len(<<>>) = 0
  <1>1. <<>> \in Seq({})
    OBVIOUS
  <1> QED BY <1>1 DEF IsSeq

LEMMA SingleIsSeq ==
  ASSUME NEW x PROVE IsSeq(<<x>>) /\ Len(<<x>>) = 1 /\ <<x>>[1] = x
  <1>1. <<x>> \in Seq({x})
    OBVIOUS
  <1> QED BY <1>1 DEF IsSeq

LEMMA ConcatFacts ==
  ASSUME NEW s, NEW t, IsSeq(s), IsSeq(t)
  PROVE  /\ IsSeq(s \o t) /\ Len(s \o t) = Len(s) + Len(t)
         /\ \A i \in 1..Len(s) : (s \o t)[i] = s[i]
         /\ \A i \in 1..Len(t) : (s \o t)[Len(s) + i] = t[i]
  <1>1. PICK S, T : s \in Seq(S) /\ t \in Seq(T)
    BY DEF IsSeq
  <1>2. s \in Seq(S \cup T) /\ t \in Seq(S \cup T)
    BY <1>1
  <1>3. /\ s \o t \in Seq(S \cup T) /\ Len(s \o t) = Len(s) + Len(t)
        /\ \A i \in 1 .. Len(s) + Len(t) : (s \o t)[i] =
                     IF i <= Len(s) THEN s[i] ELSE t[i - Len(s)]
    BY <1>2, ConcatProperties
  <1>4. Len(s) \in Nat /\ Len(t) \in Nat
    BY <1>2, LenProperties
  <1> QED BY <1>3, <1>4 DEF IsSeq

LEMMA AppendFacts ==
  ASSUME NEW s, NEW x, IsSeq(s)
  PROVE  /\ IsSeq(Append(s, x)) /\ Len(Append(s, x)) = Len(s) + 1
         /\ \A i \in 1..Len(s) : Append(s, x)[i] = s[i]
         /\ Append(s, x)[Len(s) + 1] = x
  <1>1. PICK S : s \in Seq(S)
    BY DEF IsSeq
  <1>2. s \in Seq(S \cup {x})
    BY <1>1
  <1>3. Append(s, x) \in Seq(S \cup {x})
    BY <1>2
  <1> QED BY <1>2, <1>3, AppendProperties DEF IsSeq

LEMMA TailFacts ==
  ASSUME NEW s, IsSeq(s), s # <<>>
  PROVE  /\ Head(s) = s[1] /\ Len(s) \in Nat \ {0}
         /\ IsSeq(Tail(s)) /\ Len(Tail(s)) = Len(s) - 1
         /\ \A i \in 1..Len(Tail(s)) : Tail(s)[i] = s[i + 1]
  <1>1. PICK S : s \in Seq(S)
    BY DEF IsSeq
  <1>2. /\ Tail(s) \in Seq(S) /\ Len(Tail(s)) = Len(s) - 1
        /\ \A i \in 1..Len(Tail(s)) : Tail(s)[i] = s[i + 1]
    BY <1>1, HeadTailProperties
  <1>3. Head(s) = s[1] /\ Len(s) \in Nat \ {0}
    BY <1>1, EmptySeq
  <1> QED BY <1>2, <1>3 DEF IsSeq

LEMMA ConcatHead ==
  ASSUME NEW s, NEW t, IsSeq(s), IsSeq(t), Len(s) # 0
  PROVE  s \o t # <<>> /\ Head(s \o t) = s[1]
  <1>1. Len(s) \in Nat /\ Len(t) \in Nat
    BY SeqFacts
  <1>2. IsSeq(s \o t) /\ Len(s \o t) = Len(s) + Len(t) /\ (s \o t)[1] = s[1]
    BY <1>1, ConcatFacts
  <1>3. s \o t # <<>>
    BY <1>1, <1>2, EmptyIsSeq
  <1> QED BY <1>2, <1>3, TailFacts

(* Two sequences of the same elements. *)
LEMMA SeqsEqual ==
  ASSUME NEW s, NEW t, IsSeq(s), IsSeq(t), Len(s) = Len(t),
         \A i \in 1..Len(s) : s[i] = t[i]
  PROVE  s = t
  <1>1. s = [i \in 1..Len(s) |-> s[i]] /\ t = [i \in 1..Len(t) |-> t[i]]
    BY SeqFacts
  <1> QED BY <1>1

-----------------------------------------------------------------------------
(* Numbers in order. *)

(* The numbers in ascending order are those of the set, each after as many *)
(* as are below it.                                                        *)
LEMMA InOrderFacts ==
  ASSUME NEW n \in Nat, NEW S \in SUBSET (1..n)
  PROVE  /\ Cardinality(S) \in Nat
         /\ IsSeq(InOrder(S)) /\ Len(InOrder(S)) = Cardinality(S)
         /\ \A k \in 1..Cardinality(S) :
              /\ InOrder(S)[k] \in S
              /\ Cardinality({j \in S : j < InOrder(S)[k]}) = k - 1
         /\ \A i \in S : \A k \in 1..Cardinality(S) :
              Cardinality({j \in S : j < i}) = k - 1 => InOrder(S)[k] = i
         /\ \A i \in S : Cardinality({j \in S : j < i}) \in 0..(Cardinality(S) - 1)
  <1> DEFINE c == Cardinality(S)
             Below(i) == {j \in S : j < i}
             rank == [i \in S |-> Cardinality(Below(i))]
             R == {rank[i] : i \in S}
  <1>0. \A i \in S : i \in Nat
    OBVIOUS
  <1>1. IsFiniteSet(S) /\ c \in Nat
    <2>1. IsFiniteSet(1..n)
      BY FS_Interval
    <2>2. IsFiniteSet(S)
      BY <2>1, FS_Subset
    <2> QED BY <2>2, FS_CardinalityType
  <1>2. ASSUME NEW i \in S
        PROVE  /\ IsFiniteSet(Below(i)) /\ Cardinality(Below(i)) \in Nat
               /\ Cardinality(Below(i)) < c
    <2>1. Below(i) \subseteq S /\ Below(i) # S
      OBVIOUS
    <2> QED BY <1>1, <2>1, FS_Subset, FS_CardinalityType
  <1>3. ASSUME NEW i \in S, NEW j \in S, i < j
        PROVE  rank[i] < rank[j]
    <2>1. Below(i) \subseteq Below(j) /\ i \in Below(j) /\ i \notin Below(i)
      <3>1. i \in Nat /\ j \in Nat /\ i < j
        BY <1>0, <1>3
      <3>2. ASSUME NEW x \in S, x < i PROVE x < j
        BY <1>0, <3>1, <3>2
      <3>3. ~(i < i)
        BY <3>1
      <3> QED BY <3>1, <3>2, <3>3
    <2>2. Cardinality(Below(i)) # Cardinality(Below(j))
      BY <1>2, <2>1, FS_Subset
    <2> QED BY <1>2, <2>1, <2>2, FS_Subset
  <1>4. rank \in Injection(S, R)
    <2>1. \A i, j \in S : i # j => i < j \/ j < i
      OBVIOUS
    <2>2. \A i \in S : rank[i] \in Nat
      BY <1>2
    <2>3. \A i, j \in S : rank[i] = rank[j] => i = j
      BY <1>3, <2>1, <2>2
    <2> QED BY <2>3 DEF Injection, IsInjective
  <1>5. IsFiniteSet(R) /\ Cardinality(R) = c
    <2>1. rank \in Surjection(S, R)
      BY DEF Surjection
    <2>2. rank \in Bijection(S, R)
      BY <1>4, <2>1 DEF Bijection
    <2>3. ExistsBijection(S, R)
      BY <2>2 DEF ExistsBijection
    <2> QED BY <1>1, <2>3, FS_Bijection
  <1>6. R = 0..(c - 1)
    <2>1. IsFiniteSet(0..(c - 1)) /\ Cardinality(0..(c - 1)) = c
      <3> HIDE DEF c
      <3>1. 0 \in Int /\ c - 1 \in Int /\ ~(0 > c - 1 /\ c # 0) /\ (c - 1) - 0 + 1 = c
        BY <1>1
      <3>2. 0 > c - 1 => c = 0
        BY <1>1
      <3> QED BY <3>1, <3>2, FS_Interval, Zenon
    <2>2. R \subseteq 0..(c - 1)
      <3> SUFFICES ASSUME NEW i \in S PROVE rank[i] \in 0..(c - 1)
        OBVIOUS
      <3>1. rank[i] \in Nat /\ rank[i] < c
        BY <1>2
      <3> HIDE DEF rank, c
      <3> QED BY <1>1, <3>1
    <2> QED BY <1>5, <2>1, <2>2, FS_Subset
  <1>7. ASSUME NEW k \in 1..c
        PROVE  InOrder(S)[k] \in S /\ Cardinality(Below(InOrder(S)[k])) = k - 1
    <2>1. k - 1 \in R
      <3> HIDE DEF R, c
      <3> QED BY <1>1, <1>6
    <2>2. \E i \in S : Cardinality(Below(i)) = k - 1
      BY <2>1
    <2>3. InOrder(S)[k] = CHOOSE i \in S : Cardinality(Below(i)) = k - 1
      BY DEF InOrder
    <2> HIDE DEF Below
    <2> QED BY <2>2, <2>3
  <1>8. IsSeq(InOrder(S)) /\ Len(InOrder(S)) = c
    BY <1>1, FunctionIsSeq DEF InOrder
  <1>9. ASSUME NEW i \in S, NEW k \in 1..c, Cardinality(Below(i)) = k - 1
        PROVE  InOrder(S)[k] = i
    <2>1. rank[InOrder(S)[k]] = rank[i]
      BY <1>7, <1>9
    <2> QED BY <1>4, <1>7, <2>1 DEF Injection, IsInjective
  <1>10. ASSUME NEW i \in S PROVE Cardinality(Below(i)) \in 0..(c - 1)
    BY <1>6
  <1> QED BY <1>1, <1>7, <1>8, <1>9, <1>10

(* The k-th of n numbers in ascending order is one of them, and there are n. *)
LEMMA InOrderType ==
  ASSUME NEW n \in Nat, NEW S \in SUBSET (1..n)
  PROVE  /\ Cardinality(S) \in Nat
         /\ IsSeq(InOrder(S)) /\ Len(InOrder(S)) = Cardinality(S)
         /\ \A k \in 1..Cardinality(S) : InOrder(S)[k] \in S
  BY InOrderFacts

-----------------------------------------------------------------------------
(* Numbers and their bits. *)

LEMMA TwiceRange ==
  ASSUME NEW p \in Nat \ {0}, NEW e \in {0, 1}, NEW r \in 0..(p - 1)
  PROVE  2 * p \in Nat \ {0} /\ p * e + r \in 0..(2 * p - 1)
  <1>1. CASE e = 0
    BY <1>1
  <1>2. CASE e = 1
    BY <1>2
  <1> QED BY <1>1, <1>2

(* One more bit of a number. *)
LEMMA NextBit ==
  ASSUME NEW x \in Nat, NEW k \in Nat
  PROVE  /\ x \div 2 ^ k = 2 * (x \div 2 ^ (k + 1)) + ((x \div 2 ^ k) % 2)
         /\ x \div 2 ^ k \in Nat /\ (x \div 2 ^ k) % 2 \in {0, 1}
  <1> PICK p \in Nat \ {0} : p = 2 ^ k
    BY PowerPositive
  <1>1. 2 ^ (k + 1) = 2 * p
    BY PowerStep
  <1> PICK q \in Nat, r \in 0..(p - 1) : q = x \div p /\ x = p * q + r
    BY DivMod
  <1> PICK h \in Nat, e \in {0, 1} : e = q % 2 /\ q = 2 * h + e
    <2>1. q \div 2 \in Nat /\ q % 2 \in {0, 1} /\ q = 2 * (q \div 2) + (q % 2)
      OBVIOUS
    <2> QED BY <2>1
  <1> DEFINE m == 2 * p
             s == p * e + r
  <1>2. m \in Nat \ {0} /\ s \in 0..(m - 1)
    BY TwiceRange
  <1>3. x = m * h + s
    <2>1. p * (2 * h + e) = (2 * p) * h + p * e
      OBVIOUS
    <2>2. p * q = p * (2 * h + e)
      OBVIOUS
    <2> QED BY <2>1, <2>2
  <1>4. x \div m = h
    <2>1. h \in Int
      OBVIOUS
    <2> HIDE DEF m, s
    <2> QED BY <1>2, <1>3, <2>1, ModUnique, Zenon
  <1> QED BY <1>1, <1>4

(* What is read from the bits of a number is the number. *)
LEMMA FromBitsOf ==
  ASSUME NEW n \in Nat, NEW x \in 0..(2 ^ n - 1), NEW b, Len(b) = n,
         \A i \in 1..n : b[i] = (x \div 2 ^ (n - i)) % 2
  PROVE  FromBits(b) = x
  <1> DEFINE Horner(v) == v = [i \in 0..n |-> IF i = 0 THEN 0 ELSE 2 * v[i - 1] + b[i]]
             f == [i \in 0..n |-> x \div 2 ^ (n - i)]
             g == CHOOSE v : Horner(v)
  <1>0. x \in Nat /\ 2 ^ n \in Nat \ {0}
    BY PowerPositive
  <1>1. f[0] = 0
    <2> PICK m \in Nat \ {0} : m = 2 ^ n
      BY PowerPositive
    <2>1. x \div m = 0
      OBVIOUS
    <2> QED BY <2>1
  <1>2. ASSUME NEW i \in 1..n PROVE f[i] = 2 * f[i - 1] + b[i]
    <2> PICK k \in Nat : k = n - i
      OBVIOUS
    <2>1. n - (i - 1) = k + 1 /\ i - 1 \in 0..n /\ i \in 0..n
      OBVIOUS
    <2>2. f[i] = x \div 2 ^ k /\ f[i - 1] = x \div 2 ^ (k + 1) /\ b[i] = (x \div 2 ^ k) % 2
      BY <2>1
    <2>3. x \div 2 ^ k = 2 * (x \div 2 ^ (k + 1)) + ((x \div 2 ^ k) % 2)
      BY <1>0, NextBit
    <2> HIDE DEF f
    <2> QED BY <2>2, <2>3, Zenon
  <1> HIDE DEF f
  <1>3. Horner(f)
    <2>1. \A i \in 0..n : i = 0 \/ i \in 1..n
      OBVIOUS
    <2>2. \A i \in 0..n : f[i] = IF i = 0 THEN 0 ELSE 2 * f[i - 1] + b[i]
      BY <1>1, <1>2, <2>1
    <2>3. f = [i \in 0..n |-> f[i]]
      BY DEF f
    <2> QED BY <2>2, <2>3
  <1>4. Horner(g)
    BY <1>3, Zenon
  <1>5. FromBits(b) = g[n]
    BY DEF FromBits
  <1> HIDE DEF g
  <1>6. g[n] = f[n]
    <2> DEFINE S == {i \in Nat : i <= n => g[i] = f[i]}
    <2>1. 0 \in S
      BY <1>1, <1>4
    <2>2. ASSUME NEW i \in Nat, i \in S PROVE i + 1 \in S
      <3> SUFFICES ASSUME i + 1 <= n PROVE g[i + 1] = f[i + 1]
        OBVIOUS
      <3>1. i + 1 \in 1..n /\ i + 1 \in 0..n /\ (i + 1) - 1 = i /\ i + 1 # 0 /\ g[i] = f[i]
        BY <2>2
      <3>2. g[i + 1] = 2 * g[i] + b[i + 1]
        BY <1>4, <3>1
      <3> QED BY <1>2, <3>1, <3>2
    <2>3. Nat \subseteq S
      <3> HIDE DEF S
      <3> QED BY <2>1, <2>2, Induction
    <2> QED BY <2>3
  <1>7. f[n] = x
    <2>1. n - n = 0 /\ x \div 1 = x /\ 2 ^ 0 = 1
      BY <1>0
    <2> QED BY <2>1 DEF f
  <1> QED BY <1>5, <1>6, <1>7

LEMMA LowBitsFacts ==
  ASSUME NEW v \in Nat, NEW n \in Nat
  PROVE  /\ IsSeq(LowBits(v, n)) /\ Len(LowBits(v, n)) = n
         /\ \A i \in 1..n : LowBits(v, n)[i] = (v \div 2 ^ (n - i)) % 2
  BY FunctionIsSeq DEF LowBits

LEMMA ByteSizeType == ByteSize \in Nat \ {0} /\ MaxCount \in Nat
  BY BoundsAssumption

LEMMA BitOfByte ==
  ASSUME NEW m \in Nat \ {0}, NEW l \in Nat, NEW j \in 1..l, NEW i \in 1..m
  PROVE  /\ (j - 1) * m \in Nat /\ (j - 1) * m + i \in 1..(l * m)
         /\ ((j - 1) * m + i - 1) \div m = j - 1 /\ ((j - 1) * m + i - 1) % m = i - 1
         /\ (j - 1) * m + m <= l * m /\ l * m \in Nat
  <1> PICK q \in 0..(l - 1), r \in 0..(m - 1) : q = j - 1 /\ r = i - 1
    OBVIOUS
  <1>1. (m * q + r) \div m = q /\ (m * q + r) % m = r
    <2>1. q \in Int
      OBVIOUS
    <2> QED BY <2>1, ModUnique, Zenon
  <1>2. q * m = m * q /\ q * m \in Nat
    OBVIOUS
  <1>3. q * m + m <= l * m /\ l * m \in Nat
    <2> PICK d \in Nat : l = q + 1 + d
      <3>1. l - q - 1 \in Nat /\ l = q + 1 + (l - q - 1)
        OBVIOUS
      <3> QED BY <3>1
    <2>1. l * m = q * m + m + d * m /\ d * m \in Nat /\ l * m \in Nat
      OBVIOUS
    <2> QED BY <1>2, <2>1
  <1> PICK a \in Nat, c \in Nat : a = q * m /\ c = l * m
    BY <1>2, <1>3
  <1>4. a + i \in 1..c /\ a + i - 1 = a + r
    BY <1>3
  <1> QED BY <1>1, <1>2, <1>3, <1>4

LEMMA RawBytesFacts ==
  ASSUME NEW s, IsSeq(s)
  PROVE  /\ IsSeq(RawBytes(s)) /\ Len(RawBytes(s)) = Len(s) * ByteSize
         /\ Len(s) * ByteSize \in Nat
         /\ \A j \in 1..Len(s) : \A i \in 1..ByteSize :
              RawBytes(s)[(j - 1) * ByteSize + i] = LowBits(s[j], ByteSize)[i]
  <1> PICK m \in Nat \ {0}, l \in Nat : m = ByteSize /\ l = Len(s)
    BY ByteSizeType, SeqFacts
  <1>1. l * m \in Nat
    OBVIOUS
  <1>2. RawBytes(s) = [p \in 1..(l * m) |->
                        LowBits(s[(p - 1) \div m + 1], m)[((p - 1) % m) + 1]]
    BY DEF RawBytes
  <1>3. IsSeq(RawBytes(s)) /\ Len(RawBytes(s)) = l * m
    BY <1>1, <1>2, FunctionIsSeq
  <1>4. ASSUME NEW j \in 1..l, NEW i \in 1..m
        PROVE  RawBytes(s)[(j - 1) * m + i] = LowBits(s[j], m)[i]
    <2> PICK p : p = (j - 1) * m + i
      OBVIOUS
    <2>1. p \in 1..(l * m) /\ (p - 1) \div m = j - 1 /\ (p - 1) % m = i - 1
      BY BitOfByte
    <2>2. (j - 1) + 1 = j /\ (i - 1) + 1 = i
      OBVIOUS
    <2> QED BY <1>2, <2>1, <2>2
  <1> QED BY <1>1, <1>3, <1>4

-----------------------------------------------------------------------------
(* Reading. *)

(* Where data has not ended, b is there. *)
Holds(from, b) == \A i \in 1..Len(b) : from + i <= Len(data) => data[from + i] = b[i]

LEMMA HoldsConcat ==
  ASSUME NEW from \in Nat, NEW s, NEW t, IsSeq(s), IsSeq(t), Holds(from, s \o t)
  PROVE  Holds(from, s) /\ Holds(from + Len(s), t)
  <1>1. Len(s) \in Nat /\ Len(t) \in Nat
    BY SeqFacts
  <1>2. Holds(from, s)
    BY <1>1, ConcatFacts DEF Holds
  <1>3. ASSUME NEW i \in 1..Len(t), (from + Len(s)) + i <= Len(data)
        PROVE  data[(from + Len(s)) + i] = t[i]
    <2>1. Len(s) + i \in 1..Len(s \o t) /\ from + (Len(s) + i) = (from + Len(s)) + i
      BY <1>1, ConcatFacts
    <2> QED BY <1>3, <2>1, ConcatFacts DEF Holds
  <1> QED BY <1>2, <1>3 DEF Holds

LEMMA ReadNumber ==
  ASSUME IsSeq(data), NEW from \in Nat, NEW n \in Nat, NEW v \in 0..(2 ^ n - 1),
         Holds(from, LowBits(v, n)), from + n <= Len(data)
  PROVE  Bits(from, n) = v
  <1> DEFINE b == SubSeq(data, from + 1, from + n)
  <1>0. v \in Nat /\ Len(data) \in Nat
    BY PowerPositive, SeqFacts
  <1>1. Len(b) = n /\ \A i \in 1..n : b[i] = data[from + i]
    <2>1. PICK S : data \in Seq(S)
      BY DEF IsSeq
    <2>2. \A i \in (from + 1)..(from + n) : data[i] \in S
      BY <1>0, <2>1
    <2>3. /\ Len(b) = IF from + 1 <= from + n THEN (from + n) - (from + 1) + 1 ELSE 0
          /\ \A i \in 1 .. (from + n) - (from + 1) + 1 : b[i] = data[(from + 1) + i - 1]
      BY <2>2, SubSeqProperties
    <2>4. (from + n) - (from + 1) + 1 = n /\ \A i \in 1..n : (from + 1) + i - 1 = from + i
      OBVIOUS
    <2> HIDE DEF b
    <2> QED BY <2>3, <2>4
  <1>2. ASSUME NEW i \in 1..n PROVE b[i] = (v \div 2 ^ (n - i)) % 2
    <2>1. from + i <= Len(data)
      BY <1>0
    <2>2. data[from + i] = LowBits(v, n)[i]
      BY <1>0, <2>1, LowBitsFacts DEF Holds
    <2> QED BY <1>0, <1>1, <2>2, LowBitsFacts
  <1>3. FromBits(b) = v
    BY <1>1, <1>2, FromBitsOf
  <1> QED BY <1>3 DEF Bits
(* Reading b, which says v, from a position ends behind b with v, or past  *)
(* the end of data if b is not all there.                                  *)
Reads(end, val, from, b, v) == IF from + Len(b) <= Len(data)
                               THEN end = from + Len(b) /\ val = v
                               ELSE end > Len(data)

ByteSeq(s) == IsSeq(s) /\ \A i \in 1..Len(s) : s[i] \in 0..(2 ^ ByteSize - 1)

LEMMA ByteSeqOf ==
  ASSUME NEW s \in Seq(0..(2 ^ ByteSize - 1)) PROVE ByteSeq(s)
  <1> DEFINE S == 0..(2 ^ ByteSize - 1)
  <1>1. s \in Seq(S)
    OBVIOUS
  <1> HIDE DEF S
  <1>2. IsSeq(s) /\ \A i \in 1..Len(s) : s[i] \in S
    BY <1>1 DEF IsSeq
  <1> QED BY <1>2 DEF ByteSeq, S

LEMMA ReadByte ==
  ASSUME IsSeq(data), NEW from \in Nat, NEW s, ByteSeq(s), NEW j \in 1..Len(s),
         Holds(from, RawBytes(s)), from + Len(s) * ByteSize <= Len(data)
  PROVE  Bits(from + (j - 1) * ByteSize, ByteSize) = s[j]
  <1> PICK m \in Nat \ {0}, l \in Nat : m = ByteSize /\ l = Len(s)
    BY ByteSizeType, SeqFacts DEF ByteSeq
  <1>1. /\ (j - 1) * m \in Nat /\ (j - 1) * m + m <= l * m /\ l * m \in Nat
        /\ \A i \in 1..m : (j - 1) * m + i \in 1..(l * m)
    BY BitOfByte
  <1> PICK a \in Nat, c \in Nat : a = (j - 1) * m /\ c = l * m
    BY <1>1
  <1>2. a + m <= c /\ \A i \in 1..m : a + i \in 1..c
    BY <1>1
  <1>3. /\ Len(RawBytes(s)) = c
        /\ \A i \in 1..m : RawBytes(s)[a + i] = LowBits(s[j], m)[i]
    <2>1. /\ Len(RawBytes(s)) = l * m
          /\ \A i \in 1..m : RawBytes(s)[(j - 1) * m + i] = LowBits(s[j], m)[i]
      BY RawBytesFacts, Zenon DEF ByteSeq
    <2> QED BY <2>1, Zenon
  <1>4. s[j] \in 0..(2 ^ m - 1) /\ s[j] \in Nat
    <2>1. s[j] \in 0..(2 ^ m - 1)
      BY DEF ByteSeq
    <2>2. 2 ^ m \in Nat
      BY PowerPositive
    <2> QED BY <2>1, <2>2
  <1>5. Len(LowBits(s[j], m)) = m
    BY <1>4, LowBitsFacts
  <1>6. Holds(from + a, LowBits(s[j], m))
    <2> SUFFICES ASSUME NEW i \in 1..m, (from + a) + i <= Len(data)
                 PROVE  data[(from + a) + i] = LowBits(s[j], m)[i]
      BY <1>5 DEF Holds
    <2>1. from + (a + i) = (from + a) + i
      OBVIOUS
    <2>2. data[from + (a + i)] = RawBytes(s)[a + i]
      BY <1>2, <1>3, <2>1 DEF Holds
    <2> QED BY <1>3, <2>1, <2>2
  <1>7. Len(data) \in Nat /\ (from + a) + m <= Len(data)
    <2>1. Len(data) \in Nat
      BY SeqFacts
    <2>2. from + c <= Len(data)
      OBVIOUS
    <2> QED BY <1>2, <2>1, <2>2
  <1>8. from + a \in Nat
    OBVIOUS
  <1>9. Bits(from + a, m) = s[j]
    BY <1>4, <1>6, <1>7, <1>8, ReadNumber
  <1> QED BY <1>9

LEMMA ReadBytes ==
  ASSUME IsSeq(data), NEW from \in Nat, NEW s, ByteSeq(s), NEW lb \in Nat, Len(s) <= MaxOf(lb),
         Holds(from, LowBits(Len(s), lb) \o RawBytes(s))
  PROVE  /\ Reads(BytesEnd(from, lb), BytesAt(from, lb),
                  from, LowBits(Len(s), lb) \o RawBytes(s), s)
         /\ IsSeq(LowBits(Len(s), lb) \o RawBytes(s))
  <1> DEFINE a == LowBits(Len(s), lb)
             b == a \o RawBytes(s)
  <1>1. IsSeq(s) /\ Len(s) \in 0..(2 ^ lb - 1) /\ Len(s) \in Nat /\ Len(data) \in Nat
    <2>1. 2 ^ lb \in Nat \ {0}
      BY PowerPositive
    <2>2. IsSeq(s) /\ Len(s) \in Nat /\ Len(data) \in Nat
      BY SeqFacts DEF ByteSeq
    <2> QED BY <2>1, <2>2 DEF MaxOf
  <1>2. IsSeq(a) /\ Len(a) = lb
    BY <1>1, LowBitsFacts
  <1>3. IsSeq(RawBytes(s)) /\ Len(RawBytes(s)) = Len(s) * ByteSize /\ Len(s) * ByteSize \in Nat
    BY <1>1, RawBytesFacts
  <1>4. IsSeq(b) /\ Len(b) = lb + Len(s) * ByteSize
    BY <1>2, <1>3, ConcatFacts
  <1> HIDE DEF a
  <1>5. Holds(from, a) /\ Holds(from + lb, RawBytes(s))
    BY <1>2, <1>3, HoldsConcat DEF a
  <1>6. CASE ~(from + lb <= Len(data))
    <2>1. ~(from + Len(b) <= Len(data))
      BY <1>1, <1>3, <1>4, <1>6
    <2>2. BytesEnd(from, lb) > Len(data)
      BY <1>1, <1>6 DEF BytesEnd
    <2> QED BY <1>4, <2>1, <2>2 DEF Reads, a
  <1>7. CASE from + lb <= Len(data)
    <2>1. Bits(from, lb) = Len(s)
      BY <1>1, <1>5, <1>7, ReadNumber DEF a
    <2>2. BytesEnd(from, lb) = from + lb + Len(s) * ByteSize
      BY <1>7, <2>1 DEF BytesEnd
    <2>3. BytesEnd(from, lb) = from + Len(b) /\ from + Len(b) \in Nat
      BY <1>3, <1>4, <2>2
    <2>4. ASSUME from + Len(b) <= Len(data) PROVE BytesAt(from, lb) = s
      <3>1. (from + lb) + Len(s) * ByteSize <= Len(data) /\ from + lb \in Nat
        BY <1>3, <1>4, <2>4
      <3>2. \A j \in 1..Len(s) : Bits((from + lb) + (j - 1) * ByteSize, ByteSize) = s[j]
        BY <1>5, <3>1, ReadByte
      <3>3. BytesAt(from, lb) = [j \in 1..Len(s) |-> s[j]]
        BY <2>1, <3>2 DEF BytesAt
      <3> QED BY <1>1, <3>3, SeqFacts
    <2> HIDE DEF b
    <2>5. Reads(BytesEnd(from, lb), BytesAt(from, lb), from, b, s)
      <3>1. from + Len(b) <= Len(data) \/ from + Len(b) > Len(data)
        BY <1>1, <2>3
      <3> QED BY <2>3, <2>4, <3>1 DEF Reads
    <2> QED BY <1>4, <2>5 DEF a, b
  <1> QED BY <1>6, <1>7

(* A number and its width. *)
LEMMA ReadInt ==
  ASSUME IsSeq(data), NEW from \in Nat, NEW n \in Nat, NEW v, v \in 0..MaxOf(n),
         Holds(from, LowBits(v, n))
  PROVE  /\ Reads(from + n, Bits(from, n), from, LowBits(v, n), v)
         /\ IsSeq(LowBits(v, n)) /\ Len(LowBits(v, n)) = n
  <1>1. v \in 0..(2 ^ n - 1) /\ v \in Nat
    <2>1. 2 ^ n \in Nat \ {0}
      BY PowerPositive
    <2> QED BY <2>1 DEF MaxOf
  <1>2. IsSeq(LowBits(v, n)) /\ Len(LowBits(v, n)) = n
    BY <1>1, LowBitsFacts
  <1>3. Len(data) \in Nat
    BY SeqFacts
  <1>4. from + n <= Len(data) => Bits(from, n) = v
    BY <1>1, ReadNumber
  <1> QED BY <1>2, <1>3, <1>4 DEF Reads

(* A value that encodeScalar writes as it is. *)
Fits(fd, v) == CASE fd.kind = "bool" -> v \in {0, 1}
                 [] fd.kind \in {"int", "enum"} -> v \in 0..MaxOf(fd.bits)
                 [] fd.kind = "bytes" -> ByteSeq(v) /\ Len(v) <= MaxOf(fd.lengthBits)

FieldWidths(fd) == fd.bits \in Nat /\ fd.lengthBits \in Nat /\ fd.countBits \in Nat
                   /\ fd.keyBits \in Nat /\ fd.keyLengthBits \in Nat

LEMMA ReadScalar ==
  ASSUME IsSeq(data), NEW from \in Nat, NEW fd, FieldWidths(fd),
         fd.kind \in {"bool", "int", "enum", "bytes"},
         NEW v, Fits(fd, v), Holds(from, ScalarBits(fd, v))
  PROVE  /\ Reads(ScalarEnd(fd, from), ScalarAt(fd, from), from, ScalarBits(fd, v), v)
         /\ IsSeq(ScalarBits(fd, v))
  <1>1. CASE fd.kind = "bool"
    <2>1. v \in 0..MaxOf(1)
      <3>1. 2 ^ 1 = 2
        OBVIOUS
      <3>2. v \in {0, 1}
        BY <1>1 DEF Fits
      <3> QED BY <3>1, <3>2 DEF MaxOf
    <2>2. ScalarBits(fd, v) = LowBits(v, 1)
      BY <1>1 DEF ScalarBits
    <2> QED BY <1>1, <2>1, <2>2, ReadInt DEF ScalarEnd, ScalarAt
  <1>2. CASE fd.kind \in {"int", "enum"}
    <2>1. v \in 0..MaxOf(fd.bits) /\ fd.bits \in Nat
      BY <1>2 DEF Fits, FieldWidths
    <2>2. ScalarBits(fd, v) = LowBits(v, fd.bits)
      BY <1>2 DEF ScalarBits
    <2> QED BY <1>2, <2>1, <2>2, ReadInt DEF ScalarEnd, ScalarAt
  <1>3. CASE fd.kind = "bytes"
    <2>1. ByteSeq(v) /\ Len(v) <= MaxOf(fd.lengthBits) /\ fd.lengthBits \in Nat
      BY <1>3 DEF Fits, FieldWidths
    <2>2. ScalarBits(fd, v) = LowBits(Len(v), fd.lengthBits) \o RawBytes(v)
      BY <1>3 DEF ScalarBits
    <2> QED BY <1>3, <2>1, <2>2, ReadBytes DEF ScalarEnd, ScalarAt
  <1> QED BY <1>1, <1>2, <1>3

LEMMA ReadKey ==
  ASSUME IsSeq(data), NEW from \in Nat, NEW fd, FieldWidths(fd),
         fd.key \in {"bool", "int", "bytes"},
         NEW k \in KeysOf(fd), KeyFits(fd, k), Holds(from, KeyBitsOf(fd, k))
  PROVE  /\ Reads(KeyEnd(fd, from), KeyAt(fd, from), from, KeyBitsOf(fd, k), k)
         /\ IsSeq(KeyBitsOf(fd, k))
  <1>1. CASE fd.key = "bool"
    <2>1. k \in 0..MaxOf(1)
      <3>1. 2 ^ 1 = 2
        OBVIOUS
      <3>2. k \in {0, 1}
        BY <1>1 DEF KeysOf
      <3> QED BY <3>1, <3>2 DEF MaxOf
    <2>2. KeyBitsOf(fd, k) = LowBits(k, 1)
      BY <1>1 DEF KeyBitsOf
    <2> QED BY <1>1, <2>1, <2>2, ReadInt DEF KeyEnd, KeyAt
  <1>2. CASE fd.key = "int"
    <2>1. k \in 0..MaxOf(fd.keyBits) /\ fd.keyBits \in Nat
      <3>1. k \in Nat
        BY <1>2, ValuesAssumption DEF KeysOf
      <3>2. fd.keyBits \in Nat /\ MaxOf(fd.keyBits) \in Int
        BY PowerPositive DEF FieldWidths, MaxOf
      <3>3. k <= MaxOf(fd.keyBits)
        BY <1>2 DEF KeyFits
      <3> QED BY <3>1, <3>2, <3>3
    <2>2. KeyBitsOf(fd, k) = LowBits(k, fd.keyBits)
      BY <1>2 DEF KeyBitsOf
    <2> QED BY <1>2, <2>1, <2>2, ReadInt DEF KeyEnd, KeyAt
  <1>3. CASE fd.key = "bytes"
    <2>1. ByteSeq(k) /\ Len(k) <= MaxOf(fd.keyLengthBits) /\ fd.keyLengthBits \in Nat
      <3>1. k \in Seq(0..(2 ^ ByteSize - 1))
        BY <1>3, ValuesAssumption DEF KeysOf
      <3>2. ByteSeq(k)
        BY <3>1, ByteSeqOf
      <3> QED BY <1>3, <3>2 DEF KeyFits, FieldWidths
    <2>2. KeyBitsOf(fd, k) = LowBits(Len(k), fd.keyLengthBits) \o RawBytes(k)
      BY <1>3 DEF KeyBitsOf
    <2> QED BY <1>3, <2>1, <2>2, ReadBytes DEF KeyEnd, KeyAt
  <1> QED BY <1>1, <1>2, <1>3

-----------------------------------------------------------------------------
(* What the encoder keeps fits. *)

LEMMA MaxType == ASSUME NEW n \in Nat PROVE MaxOf(n) \in Nat /\ MaxOf(n) + 1 \in Nat \ {0}
  BY PowerPositive DEF MaxOf

LEMMA Remainder ==
  ASSUME NEW x \in Nat, NEW m \in Nat \ {0} PROVE x % m \in 0..(m - 1)
  OBVIOUS

(* The first n of a sequence, or the n from the place behind d. *)
LEMMA SliceFacts ==
  ASSUME NEW s, IsSeq(s), NEW d \in Nat, NEW n \in Nat, d + n <= Len(s)
  PROVE  /\ IsSeq(SubSeq(s, d + 1, d + n)) /\ Len(SubSeq(s, d + 1, d + n)) = n
         /\ \A i \in 1..n : SubSeq(s, d + 1, d + n)[i] = s[d + i] /\ d + i \in 1..Len(s)
  <1> DEFINE b == SubSeq(s, d + 1, d + n)
  <1>1. PICK S : s \in Seq(S)
    BY DEF IsSeq
  <1>2. Len(s) \in Nat
    BY SeqFacts
  <1>3. \A i \in (d + 1)..(d + n) : s[i] \in S
    BY <1>1, <1>2
  <1>4. /\ b \in Seq(S)
        /\ Len(b) = IF d + 1 <= d + n THEN (d + n) - (d + 1) + 1 ELSE 0
        /\ \A i \in 1 .. (d + n) - (d + 1) + 1 : b[i] = s[(d + 1) + i - 1]
    BY <1>3, SubSeqProperties
  <1>5. (d + n) - (d + 1) + 1 = n /\ \A i \in 1..n : (d + 1) + i - 1 = d + i
    OBVIOUS
  <1> HIDE DEF b
  <1>6. IsSeq(b)
    BY <1>4 DEF IsSeq
  <1>7. Len(b) = n /\ \A i \in 1..n : b[i] = s[d + i]
    BY <1>4, <1>5
  <1>8. \A i \in 1..n : d + i \in 1..Len(s)
    BY <1>2
  <1> QED BY <1>6, <1>7, <1>8 DEF b

(* s2 is n of the elements of s. *)
Part(s2, s, n) == /\ IsSeq(s2) /\ Len(s2) = n
                  /\ \A i \in 1..n : \E j \in 1..Len(s) : s2[i] = s[j]

LEMMA SliceIsPart ==
  ASSUME NEW s, IsSeq(s), NEW d \in Nat, NEW n \in Nat, d + n <= Len(s)
  PROVE  Part(SubSeq(s, d + 1, d + n), s, n)
  BY SliceFacts DEF Part

LEMMA KeepFacts ==
  ASSUME NEW s, IsSeq(s), NEW n \in Nat, n <= Len(s)
  PROVE  Part(KeepFirst(s, n), s, n) /\ Part(KeepLast(s, n), s, n)
  <1>1. Len(s) \in Nat
    BY SeqFacts
  <1>2. Part(KeepFirst(s, n), s, n)
    <2>1. 0 + 1 = 1 /\ 0 + n = n /\ 0 \in Nat /\ 0 + n <= Len(s)
      OBVIOUS
    <2>2. Part(SubSeq(s, 0 + 1, 0 + n), s, n)
      BY <2>1, SliceIsPart, Zenon
    <2> QED BY <2>1, <2>2 DEF KeepFirst
  <1>3. Part(KeepLast(s, n), s, n)
    <2> PICK d : d = Len(s) - n
      OBVIOUS
    <2>1. d \in Nat /\ Len(s) - n + 1 = d + 1 /\ Len(s) = d + n /\ d + n <= Len(s)
      BY <1>1
    <2>2. Part(SubSeq(s, d + 1, d + n), s, n)
      BY <2>1, SliceIsPart, Zenon
    <2>3. KeepLast(s, n) = SubSeq(s, d + 1, d + n)
      BY <2>1 DEF KeepLast
    <2> QED BY <2>2, <2>3
  <1> QED BY <1>2, <1>3

LEMMA PartOfItself == ASSUME NEW s, IsSeq(s) PROVE Part(s, s, Len(s))
  BY DEF Part

LEMMA KeepListFits ==
  ASSUME NEW s, IsSeq(s), NEW max \in Nat, NEW eff
  PROVE  \E n \in 0..max : Part(KeepList(s, max, eff), s, n)
  <1>1. Len(s) \in Nat
    BY SeqFacts
  <1>2. CASE Len(s) <= max
    BY <1>1, <1>2, PartOfItself DEF KeepList
  <1>3. CASE ~(Len(s) <= max)
    <2> PICK r \in 0..max : r = Len(s) % (max + 1)
      <3>1. Len(s) % (max + 1) \in 0..((max + 1) - 1)
        BY <1>1, Remainder
      <3> QED BY <3>1
    <2>1. r \in Nat /\ r <= Len(s) /\ max <= Len(s) /\ max \in 0..max
      BY <1>1, <1>3
    <2>2. Part(KeepFirst(s, r), s, r) /\ Part(KeepFirst(s, max), s, max)
          /\ Part(KeepLast(s, max), s, max)
      BY <2>1, KeepFacts
    <2>3. \/ KeepList(s, max, eff) = KeepFirst(s, r)
          \/ KeepList(s, max, eff) = KeepFirst(s, max)
          \/ KeepList(s, max, eff) = KeepLast(s, max)
      BY <1>3 DEF KeepList
    <2> QED BY <2>1, <2>2, <2>3
  <1> QED BY <1>2, <1>3

LEMMA KeepBytesFits ==
  ASSUME NEW s, ByteSeq(s), NEW max \in Nat \ {0}, max <= Len(s), NEW eff
  PROVE  ByteSeq(KeepBytes(s, max, eff)) /\ Len(KeepBytes(s, max, eff)) <= max
  <1>1. Len(s) \in Nat /\ IsSeq(s)
    BY SeqFacts DEF ByteSeq
  <1> PICK r \in 0..(max - 1) : r = Len(s) % max
    BY <1>1, Remainder
  <1>2. r \in Nat /\ r <= Len(s) /\ r <= max /\ max <= max
    BY <1>1
  <1>3. Part(KeepFirst(s, r), s, r) /\ Part(KeepFirst(s, max), s, max)
        /\ Part(KeepLast(s, max), s, max)
    BY <1>1, <1>2, KeepFacts
  <1>4. \/ KeepBytes(s, max, eff) = KeepFirst(s, r)
        \/ KeepBytes(s, max, eff) = KeepFirst(s, max)
        \/ KeepBytes(s, max, eff) = KeepLast(s, max)
    BY DEF KeepBytes
  <1>5. ASSUME NEW t, NEW n \in Nat, Part(t, s, n), n <= max
        PROVE  ByteSeq(t) /\ Len(t) <= max
    BY <1>5 DEF Part, ByteSeq
  <1> QED BY <1>2, <1>3, <1>4, <1>5

(* A field whose annotations are valid. *)
FieldOK(fd) ==
  /\ IsField(fd) /\ FieldWidths(fd)
  /\ fd.kind = "bytes" => fd.lengthBits > 0
  /\ KeysFit /\ fd.card = "map" => \A k \in KeysOf(fd) : KeyFits(fd, k)
  /\ fd.kind = "message" => fd.type \in DOMAIN Descriptor

LEMMA KeepFits ==
  ASSUME NEW fd, fd.bits \in Nat, fd.lengthBits \in Nat, fd.kind \in {"bool", "int", "enum", "bytes"},
         fd.kind = "bytes" => fd.lengthBits > 0, NEW v \in ValuesOf(fd)
  PROVE  Fits(fd, Keep(fd, v))
  <1> DEFINE eff == EffectiveStrategy(fd)
  <1>1. CASE fd.kind = "bool"
    BY <1>1 DEF Fits, Keep, Overflows, ValuesOf
  <1>2. CASE fd.kind \in {"int", "enum"}
    <2> PICK max \in Nat : max = MaxOf(fd.bits)
      BY MaxType
    <2>1. v \in Nat
      BY <1>2, ValuesAssumption DEF ValuesOf
    <2>2. KeepInt(v, max, eff) \in 0..max
      <3>1. v % (max + 1) \in 0..((max + 1) - 1)
        <4>1. max + 1 \in Nat \ {0}
          OBVIOUS
        <4> QED BY <2>1, <4>1, Remainder, Zenon
      <3> QED BY <3>1 DEF KeepInt
    <2>3. Keep(fd, v) = IF ~(v > max) THEN v ELSE KeepInt(v, max, eff)
      BY <1>2 DEF Keep, Overflows
    <2>4. Keep(fd, v) \in 0..max
      BY <2>1, <2>2, <2>3
    <2> QED BY <1>2, <2>4 DEF Fits
  <1>3. CASE fd.kind = "bytes"
    <2> PICK max \in Nat \ {0} : max = MaxOf(fd.lengthBits)
      <3> PICK n \in Nat : fd.lengthBits = n + 1
        <4>1. fd.lengthBits \in Nat \ {0}
          BY <1>3
        <4>2. fd.lengthBits - 1 \in Nat /\ fd.lengthBits = (fd.lengthBits - 1) + 1
          BY <4>1
        <4> QED BY <4>2
      <3>1. 2 ^ (n + 1) = 2 * 2 ^ n /\ 2 ^ n \in Nat \ {0}
        BY PowerStep, PowerPositive
      <3>2. MaxOf(n + 1) = 2 * 2 ^ n - 1
        BY <3>1 DEF MaxOf
      <3>3. MaxOf(n + 1) \in Nat \ {0}
        BY <3>1, <3>2
      <3> QED BY <3>3
    <2>1. ByteSeq(v)
      <3>1. v \in Seq(0..(2 ^ ByteSize - 1))
        BY <1>3, ValuesAssumption DEF ValuesOf
      <3> QED BY <3>1, ByteSeqOf
    <2>2. Keep(fd, v) = IF ~(Len(v) > max) THEN v ELSE KeepBytes(v, max, eff)
      BY <1>3 DEF Keep, Overflows
    <2>3. Len(v) \in Nat
      BY <2>1, SeqFacts DEF ByteSeq
    <2>4. ByteSeq(Keep(fd, v)) /\ Len(Keep(fd, v)) <= max
      <3>1. CASE Len(v) > max
        BY <2>1, <2>2, <2>3, <3>1, KeepBytesFits
      <3>2. CASE ~(Len(v) > max)
        BY <2>1, <2>2, <2>3, <3>2
      <3> QED BY <3>1, <3>2
    <2> QED BY <1>3, <2>4 DEF Fits
  <1> QED BY <1>1, <1>2, <1>3

-----------------------------------------------------------------------------
(* The units of a valid message. *)

(* The smallest selector has a number for each of n fields, and for "none". *)
LEMMA MinSelectorFits ==
  ASSUME NEW n \in Nat
  PROVE  MinSelectorBits(n) \in Nat /\ n < 2 ^ MinSelectorBits(n)
  <1> PICK i \in 0..n : n < 2 ^ (1 + i) /\ (i = 0 \/ n >= 2 ^ (1 + i - 1))
    <2>1. 1 \in Nat
      OBVIOUS
    <2> QED BY <2>1, PowerAbove, Zenon
  <1> DEFINE Smallest(b) == 2 ^ b > n /\ \A c \in 1..(b - 1) : 2 ^ c <= n
  <1>1. i + 1 \in 1..(n + 1) /\ 1 + i = i + 1 /\ i + 1 - 1 = i /\ i \in Nat
    OBVIOUS
  <1>2. 2 ^ (i + 1) > n
    <2>1. 2 ^ (i + 1) \in Nat
      BY <1>1, PowerPositive
    <2> QED BY <1>1, <2>1
  <1>3. ASSUME NEW c \in 1..(i + 1 - 1) PROVE 2 ^ c <= n
    <2>1. c \in Nat /\ c <= i /\ i # 0
      BY <1>1
    <2>2. 2 ^ c <= 2 ^ i /\ 2 ^ c \in Nat /\ 2 ^ i \in Nat
      BY <1>1, <2>1, PowerMonotone, PowerPositive
    <2>3. 2 ^ i <= n
      BY <1>1, <2>1, <2>2
    <2> QED BY <2>2, <2>3
  <1>4. \E b \in 1..(n + 1) : Smallest(b)
    BY <1>1, <1>2, <1>3
  <1> DEFINE m == CHOOSE b \in 1..(n + 1) : Smallest(b)
  <1>5. m \in 1..(n + 1) /\ Smallest(m)
    <2> HIDE DEF Smallest
    <2> QED BY <1>4, Zenon
  <1>6. m = MinSelectorBits(n)
    BY DEF MinSelectorBits
  <1> HIDE DEF m
  <1>7. m \in Nat /\ n < 2 ^ m
    <2>1. m \in Nat
      BY <1>5
    <2>2. 2 ^ m \in Nat
      BY <2>1, PowerPositive
    <2> QED BY <1>5, <2>1, <2>2
  <1> QED BY <1>6, <1>7

MemberOK(fd) == FieldOK(fd) /\ fd.card = "singular"

UnitOK(u) == \/ u.unit = "field" /\ FieldOK(u.fd)
             \/ /\ u.unit = "oneof"
                /\ u.selectorBits \in Nat
                /\ IsSeq(u.fields) /\ Len(u.fields) <= MaxOf(u.selectorBits)
                /\ \A j \in 1..Len(u.fields) : MemberOK(u.fields[j])

LEMMA DeclaredField ==
  ASSUME NEW t \in DOMAIN Descriptor, NEW i \in 1..Len(Descriptor[t].fields),
         ValidUnit(Descriptor[t].fields[i])
  PROVE  FieldOK(Descriptor[t].fields[i])
  <1> DEFINE fd == Descriptor[t].fields[i]
  <1>1. IsField(fd) /\ (fd.kind = "message" => fd.type \in DOMAIN Descriptor)
    BY DescriptorAssumption
  <1>2. FieldWidths(fd)
    <2>1. {fd.bits, fd.lengthBits, fd.countBits, fd.keyBits, fd.keyLengthBits} \subseteq Nat
      BY <1>1 DEF IsField
    <2> HIDE DEF fd
    <2> QED BY <2>1 DEF FieldWidths
  <1>3. fd.kind = "bytes" => fd.lengthBits > 0
    BY DEF ValidUnit
  <1>4. KeysFit /\ fd.card = "map" => \A k \in KeysOf(fd) : KeyFits(fd, k)
    BY DEF KeysFit
  <1> QED BY <1>1, <1>2, <1>3, <1>4 DEF FieldOK

LEMMA MembersOK ==
  ASSUME NEW t \in DOMAIN Descriptor, NEW od,
         \A j \in 1..Len(Members(Descriptor[t], od)) : ValidUnit(Members(Descriptor[t], od)[j])
  PROVE  /\ IsSeq(Members(Descriptor[t], od))
         /\ \A j \in 1..Len(Members(Descriptor[t], od)) : MemberOK(Members(Descriptor[t], od)[j])
  <1> DEFINE md == Descriptor[t]
             n == Len(md.fields)
             S == {i \in 1..n : RealOneof(md.fields[i]) /\ md.fields[i].oneof = od}
             c == Cardinality(S)
  <1>1. n \in Nat
    BY DescriptorAssumption, LenProperties
  <1>2. S \in SUBSET (1..n)
    OBVIOUS
  <1>3. /\ c \in Nat /\ Len(InOrder(S)) = c
        /\ \A k \in 1..c : InOrder(S)[k] \in S
    <2> HIDE DEF S, n
    <2> QED BY <1>1, <1>2, InOrderType
  <1>4. Members(md, od) = [k \in 1..c |-> md.fields[InOrder(S)[k]]]
    BY <1>3 DEF Members
  <1>5. IsSeq(Members(md, od)) /\ Len(Members(md, od)) = c
    <2> HIDE DEF c, S, md, n
    <2> QED BY <1>3, <1>4, FunctionIsSeq
  <1>6. ASSUME NEW j \in 1..c PROVE MemberOK(Members(md, od)[j])
    <2> DEFINE i == InOrder(S)[j]
               fd == md.fields[i]
    <2>1. i \in 1..n /\ RealOneof(fd) /\ Members(md, od)[j] = fd
      BY <1>3, <1>4
    <2>2. ValidUnit(fd)
      BY <1>5, <2>1
    <2>3. FieldOK(fd)
      BY <2>1, <2>2, DeclaredField
    <2>4. fd.card = "singular"
      BY <2>1, <2>3 DEF FieldOK, IsField
    <2> QED BY <2>1, <2>3, <2>4 DEF MemberOK
  <1> QED BY <1>5, <1>6

LEMMA UnitAtOK ==
  ASSUME NEW t \in DOMAIN Descriptor, NEW i \in 1..Len(Descriptor[t].fields),
         ValidMessage(Descriptor[t])
  PROVE  UnitOK(UnitAt(Descriptor[t], i))
  <1> DEFINE md == Descriptor[t]
             fd == md.fields[i]
  <1>1. ValidField(md, i)
    BY DEF ValidMessage
  <1>2. CASE ~RealOneof(fd)
    <2>1. UnitAt(md, i) = ScalarUnit(fd) /\ ValidUnit(fd)
      BY <1>1, <1>2 DEF UnitAt, ValidField
    <2>2. FieldOK(fd)
      BY <2>1, DeclaredField
    <2> QED BY <2>1, <2>2 DEF UnitOK, ScalarUnit
  <1>3. CASE RealOneof(fd)
    <2> DEFINE od == fd.oneof
               ms == Members(md, od)
               min == MinSelectorBits(Len(ms))
               sb == SelectorBits(md, od)
    <2>1. UnitAt(md, i) = OneofUnit(md, od) /\ ValidOneof(md, od)
      BY <1>1, <1>3 DEF UnitAt, ValidField
    <2>2. IsSeq(ms) /\ \A j \in 1..Len(ms) : MemberOK(ms[j])
      BY <2>1, MembersOK DEF ValidOneof
    <2>3. md.selectorBits[od] \in Nat
      BY <1>3, DescriptorAssumption
    <2> HIDE DEF ms
    <2>4. Len(ms) \in Nat
      BY <2>2, SeqFacts
    <2>5. min \in Nat /\ Len(ms) < 2 ^ min
      BY <2>4, MinSelectorFits
    <2>6. sb \in Nat /\ sb >= min
      BY <2>1, <2>3, <2>5 DEF ValidOneof, SelectorBits, ms
    <2>7. Len(ms) <= MaxOf(sb)
      <3> HIDE DEF sb, min
      <3>1. 2 ^ min <= 2 ^ sb /\ 2 ^ min \in Nat /\ 2 ^ sb \in Nat
        BY <2>5, <2>6, PowerMonotone, PowerPositive
      <3> QED BY <2>4, <2>5, <3>1 DEF MaxOf
    <2>8. /\ OneofUnit(md, od).unit = "oneof" /\ OneofUnit(md, od).selectorBits = sb
          /\ OneofUnit(md, od).fields = ms
      BY DEF OneofUnit, ms
    <2> QED BY <2>1, <2>2, <2>6, <2>7, <2>8 DEF UnitOK
  <1> QED BY <1>2, <1>3

ValueOK(fd, v) == IF fd.card = "map"
                  THEN \E k \in KeysOf(fd), w \in ValuesOf(fd) : v = <<k, w>>
                  ELSE v \in ValuesOf(fd)

ItemOK(it) == /\ IsSeq(it.at)
              /\ \/ it.op = "unit" /\ UnitOK(it.u)
                 \/ it.op = "value" /\ FieldOK(it.u) /\ ValueOK(it.u, it.v)

WorkOK(w) == IsSeq(w) /\ \A i \in 1..Len(w) : ItemOK(w[i])

(* The units of a message are one place deeper than the message. *)
LEMMA UnitItemsShape ==
  ASSUME NEW t \in DOMAIN Descriptor, NEW at, IsSeq(at)
  PROVE  /\ IsSeq(UnitItems(t, at))
         /\ \A k \in 1..Len(UnitItems(t, at)) :
              /\ UnitItems(t, at)[k].op = "unit"
              /\ IsSeq(UnitItems(t, at)[k].at) /\ Len(UnitItems(t, at)[k].at) = Len(at) + 1
              /\ \E i \in 1..Len(Descriptor[t].fields) :
                   UnitItems(t, at)[k].u = UnitAt(Descriptor[t], i)
  <1> DEFINE md == Descriptor[t]
             n == Len(md.fields)
             S == {i \in 1..n : StartsUnit(md, i)}
             c == Cardinality(S)
             plan == Plan(md)
  <1>1. n \in Nat
    BY DescriptorAssumption, LenProperties
  <1>2. S \in SUBSET (1..n)
    OBVIOUS
  <1>3. /\ c \in Nat /\ Len(InOrder(S)) = c
        /\ \A k \in 1..c : InOrder(S)[k] \in S
    <2> HIDE DEF S, n
    <2> QED BY <1>1, <1>2, InOrderType
  <1>4. plan = [k \in 1..c |-> UnitAt(md, InOrder(S)[k])]
    BY <1>3 DEF Plan, PlanOf
  <1>5. Len(plan) = c
    BY <1>3, <1>4
  <1>6. UnitItems(t, at) = [k \in 1..c |-> Unit(plan[k], Append(at, k))]
    BY <1>5 DEF UnitItems
  <1>7. IsSeq(UnitItems(t, at)) /\ Len(UnitItems(t, at)) = c
    <2> HIDE DEF c, plan
    <2> QED BY <1>3, <1>6, FunctionIsSeq
  <1>8. ASSUME NEW k \in 1..c
        PROVE  /\ UnitItems(t, at)[k].op = "unit"
               /\ IsSeq(UnitItems(t, at)[k].at) /\ Len(UnitItems(t, at)[k].at) = Len(at) + 1
               /\ \E i \in 1..n : UnitItems(t, at)[k].u = UnitAt(md, i)
    <2>1. UnitItems(t, at)[k] = Unit(plan[k], Append(at, k))
      BY <1>6
    <2>2. plan[k] = UnitAt(md, InOrder(S)[k]) /\ InOrder(S)[k] \in 1..n
      BY <1>3, <1>4
    <2>3. IsSeq(Append(at, k)) /\ Len(Append(at, k)) = Len(at) + 1
      BY AppendFacts
    <2> HIDE DEF plan, S, n
    <2> QED BY <2>1, <2>2, <2>3 DEF Unit
  <1> QED BY <1>7, <1>8

LEMMA UnitItemsOK ==
  ASSUME NEW t \in DOMAIN Descriptor, NEW at, IsSeq(at), ValidMessage(Descriptor[t])
  PROVE  WorkOK(UnitItems(t, at))
  <1>1. ASSUME NEW k \in 1..Len(UnitItems(t, at)) PROVE ItemOK(UnitItems(t, at)[k])
    <2>1. PICK i \in 1..Len(Descriptor[t].fields) :
                 UnitItems(t, at)[k].u = UnitAt(Descriptor[t], i)
      BY UnitItemsShape
    <2>2. UnitOK(UnitItems(t, at)[k].u)
      BY <2>1, UnitAtOK
    <2>3. UnitItems(t, at)[k].op = "unit" /\ IsSeq(UnitItems(t, at)[k].at)
      BY UnitItemsShape
    <2> QED BY <2>2, <2>3 DEF ItemOK
  <1>2. IsSeq(UnitItems(t, at))
    BY UnitItemsShape
  <1> QED BY <1>1, <1>2 DEF WorkOK

-----------------------------------------------------------------------------
(* What the encoder writes of an item, by the form of the item: the bits   *)
(* b, the items more that it leaves, and k2, what it has kept then.        *)

Form(it) ==
  IF it.op = "value"
  THEN IF it.u.card = "map" THEN "entry" ELSE IF it.u.kind = "message" THEN "nested" ELSE "value"
  ELSE IF it.u.unit = "oneof" THEN "oneof"
  ELSE IF it.u.fd.card = "repeated" THEN "list"
  ELSE IF it.u.fd.card = "map" THEN "map"
  ELSE IF it.u.fd.kind # "message" THEN "scalar"
  ELSE IF it.u.fd.type = Timestamp THEN "timestamp"
  ELSE "message"

EmitsScalar(fd, at, b, more, k, k2) ==
  /\ k2 = k
  /\ \/ IsOptional(fd) /\ b = <<0>> /\ more = <<>>
     \/ \E v : /\ b = IF IsOptional(fd) THEN <<1>> ELSE <<>>
               /\ more = <<Value(fd, at, v)>>

EmitsTimestamp(fd, at, b, more, k, k2) ==
  /\ more = <<>>
  /\ \/ b = <<0>> /\ k2 = k
     \/ \E v \in 0..MaxOf(TsBits(fd)) :
          b = <<1>> \o LowBits(v, TsBits(fd)) /\ k2 = Store(k, fd, at, v)

EmitsMessage(fd, at, b, more, k, k2) ==
  \/ b = <<0>> /\ more = <<>> /\ k2 = k
  \/ /\ ValidMessage(Descriptor[fd.type])
     /\ b = <<1>> /\ more = UnitItems(fd.type, at) /\ k2 = Store(k, fd, at, Present)

SameItem(x, y) == x.op = y.op /\ x.u = y.u /\ x.at = y.at

(* A count, and that many values. *)
EmitsCount(fd, at, b, more, k, k2, empty) ==
  /\ k2 = SetAt(k, at, empty)
  /\ \E n \in 0..MaxOf(fd.countBits) :
       /\ b = LowBits(n, fd.countBits)
       /\ Len(more) = n /\ \A j \in 1..n : SameItem(more[j], Value(fd, at, Nothing))

EmitsOneof(u, at, b, more, k, k2) ==
  /\ k2 = k
  /\ \E n \in 0..Len(u.fields) :
       /\ b = LowBits(n, u.selectorBits)
       /\ n = 0 => more = <<>>
       /\ n > 0 => \E v : more = <<Value(u.fields[n], Append(at, n), v)>>

EmitsValue(fd, at, b, more, k, k2) ==
  /\ more = <<>>
  /\ \E v : Fits(fd, v) /\ b = ScalarBits(fd, v) /\ k2 = Store(k, fd, at, v)

EmitsEntry(fd, at, b, more, k, k2) ==
  /\ fd.kind = "message" => /\ more = UnitItems(fd.type, at) /\ k2 = k
                            /\ \E key \in KeysOf(fd) : b = KeyBitsOf(fd, key)
  /\ fd.kind # "message" =>
       /\ more = <<>>
       /\ \E key \in KeysOf(fd) : \E v :
            /\ Fits(fd, v)
            /\ b = KeyBitsOf(fd, key) \o ScalarBits(fd, v)
            /\ k2 = Store(k, fd, at, <<key, v>>)

EmitsNested(fd, at, b, more, k, k2) ==
  /\ ValidMessage(Descriptor[fd.type])
  /\ b = <<>>
  /\ more = UnitItems(fd.type, PlaceOf(k, fd, at))
  /\ k2 = Store(k, fd, at, Present)

Emitted(it, b, more, k, k2) ==
  /\ Form(it) = "scalar" => EmitsScalar(it.u.fd, it.at, b, more, k, k2)
  /\ Form(it) = "timestamp" => EmitsTimestamp(it.u.fd, it.at, b, more, k, k2)
  /\ Form(it) = "message" => EmitsMessage(it.u.fd, it.at, b, more, k, k2)
  /\ Form(it) = "list" => EmitsCount(it.u.fd, it.at, b, more, k, k2, <<>>)
  /\ Form(it) = "map" => EmitsCount(it.u.fd, it.at, b, more, k, k2, {})
  /\ Form(it) = "oneof" => EmitsOneof(it.u, it.at, b, more, k, k2)
  /\ Form(it) = "value" => EmitsValue(it.u, it.at, b, more, k, k2)
  /\ Form(it) = "entry" => EmitsEntry(it.u, it.at, b, more, k, k2)
  /\ Form(it) = "nested" => EmitsNested(it.u, it.at, b, more, k, k2)

-----------------------------------------------------------------------------
(* The history of the encoder: W[n] is its work and K[n] what it had kept   *)
(* when it came to its n-th item, and after the last.                      *)

(* Where the n-th item of marks starts in the bits, or the bits end. *)
StartOf(mk, bt, n) == IF n <= Len(mk) THEN mk[n].pos ELSE Len(bt)

Written(bt, from, b) == \A i \in 1..Len(b) : bt[from + i] = b[i]

(* The list of an element is there. *)
Opened(it, k) == it.op = "value" /\ it.u.card = "repeated" => it.at \in DOMAIN k

Encoded(w, k, w2, k2, m, bt, from, to) ==
  /\ w # <<>> /\ ItemOK(Head(w)) /\ Opened(Head(w), k) /\ SameItem(m, Head(w))
  /\ \E b, more : /\ IsSeq(b) /\ IsSeq(more)
                  /\ Emitted(Head(w), b, more, k, k2)
                  /\ w2 = more \o Tail(w)
                  /\ to = from + Len(b) /\ Written(bt, from, b)

History(W, K, mk, bt) ==
  /\ IsSeq(mk) /\ IsSeq(bt) /\ StartOf(mk, bt, 1) = 0
  /\ \A n \in 1..(Len(mk) + 1) : IsSeq(W[n]) /\ StartOf(mk, bt, n) \in 0..Len(bt)
  /\ \A n \in 1..Len(mk) :
       Encoded(W[n], K[n], W[n + 1], K[n + 1], mk[n], bt, StartOf(mk, bt, n), StartOf(mk, bt, n + 1))

LEMMA HistoryStarts ==
  ASSUME NEW w, NEW k, IsSeq(w)
  PROVE  History([n \in {1} |-> w], [n \in {1} |-> k], <<>>, <<>>)
  <1>1. Len(<<>>) = 0 /\ IsSeq(<<>>) /\ 1..(0 + 1) = {1} /\ 1..0 = {} /\ 0 \in 0..0 /\ ~(1 <= 0)
    BY EmptyIsSeq
  <1> QED BY <1>1 DEF History, StartOf

(* Of the work w the item marked m is encoded next. *)
Continues(W, K, mk, bt, w, m, b, more, k2) ==
  /\ IsSeq(b) /\ IsSeq(more)
  /\ w = W[Len(mk) + 1] /\ w # <<>> /\ ItemOK(Head(w)) /\ Opened(Head(w), K[Len(mk) + 1])
  /\ SameItem(m, Head(w)) /\ m.pos = Len(bt)
  /\ Emitted(Head(w), b, more, K[Len(mk) + 1], k2)

Continued(W, K, mk, bt, w, m, b, more, k2) ==
  \E W2, K2 : /\ History(W2, K2, Append(mk, m), bt \o b)
              /\ \A n \in 1..(Len(mk) + 1) : W2[n] = W[n] /\ K2[n] = K[n]
              /\ W2[Len(mk) + 2] = more \o Tail(w) /\ K2[Len(mk) + 2] = k2

LEMMA HistoryGrows ==
  ASSUME NEW W, NEW K, NEW mk, NEW bt, History(W, K, mk, bt),
         NEW w, NEW m, NEW b, NEW more, NEW k2, Continues(W, K, mk, bt, w, m, b, more, k2)
  PROVE  Continued(W, K, mk, bt, w, m, b, more, k2)
  <1> DEFINE l == Len(mk)
             mk2 == Append(mk, m)
             bt2 == bt \o b
             W2 == [n \in 1..(l + 2) |-> IF n = l + 2 THEN more \o Tail(w) ELSE W[n]]
             K2 == [n \in 1..(l + 2) |-> IF n = l + 2 THEN k2 ELSE K[n]]
  <1>0. /\ IsSeq(b) /\ IsSeq(more)
        /\ w = W[l + 1] /\ w # <<>> /\ ItemOK(Head(w)) /\ Opened(Head(w), K[l + 1])
        /\ SameItem(m, Head(w)) /\ m.pos = Len(bt)
        /\ Emitted(Head(w), b, more, K[l + 1], k2)
    BY DEF Continues
  <1>1. IsSeq(mk) /\ IsSeq(bt) /\ l \in Nat /\ Len(bt) \in Nat /\ Len(b) \in Nat
    BY <1>0, SeqFacts DEF History
  <1>2. /\ IsSeq(mk2) /\ Len(mk2) = l + 1 /\ mk2[l + 1] = m
        /\ \A n \in 1..l : mk2[n] = mk[n]
    BY <1>1, AppendFacts
  <1>3. /\ IsSeq(bt2) /\ Len(bt2) = Len(bt) + Len(b)
        /\ \A i \in 1..Len(bt) : bt2[i] = bt[i]
        /\ \A i \in 1..Len(b) : bt2[Len(bt) + i] = b[i]
    BY <1>0, <1>1, ConcatFacts
  <1>4. IsSeq(w) /\ IsSeq(more \o Tail(w))
    <2>1. l + 1 \in 1..(l + 1)
      BY <1>1
    <2>2. IsSeq(w)
      BY <1>0, <2>1 DEF History
    <2> QED BY <1>0, <2>2, TailFacts, ConcatFacts
  <1>5. /\ W2[l + 2] = more \o Tail(w) /\ K2[l + 2] = k2
        /\ \A n \in 1..(l + 1) : W2[n] = W[n] /\ K2[n] = K[n]
    BY <1>1
  <1> HIDE DEF W2, K2, bt2, mk2
  <1>6. /\ \A n \in 1..(l + 1) : StartOf(mk2, bt2, n) = StartOf(mk, bt, n)
        /\ StartOf(mk2, bt2, l + 2) = Len(bt2) /\ StartOf(mk, bt, l + 1) = Len(bt)
    <2>1. ASSUME NEW n \in 1..(l + 1) PROVE StartOf(mk2, bt2, n) = StartOf(mk, bt, n)
      <3>1. CASE n \in 1..l
        BY <1>1, <1>2, <3>1 DEF StartOf
      <3>2. CASE n = l + 1
        BY <1>0, <1>1, <1>2, <3>2 DEF StartOf
      <3> QED BY <1>1, <3>1, <3>2
    <2>2. StartOf(mk2, bt2, l + 2) = Len(bt2) /\ StartOf(mk, bt, l + 1) = Len(bt)
      BY <1>1, <1>2 DEF StartOf
    <2> QED BY <2>1, <2>2
  <1>7. \A n \in 1..(l + 2) : IsSeq(W2[n]) /\ StartOf(mk2, bt2, n) \in 0..Len(bt2)
    <2>1. \A n \in 1..(l + 1) : IsSeq(W2[n]) /\ StartOf(mk, bt, n) \in 0..Len(bt)
      BY <1>5 DEF History
    <2>2. \A n \in 1..(l + 1) : StartOf(mk2, bt2, n) \in 0..Len(bt2)
      BY <1>1, <1>3, <1>6, <2>1
    <2>3. IsSeq(W2[l + 2]) /\ StartOf(mk2, bt2, l + 2) \in 0..Len(bt2)
      BY <1>1, <1>3, <1>4, <1>5, <1>6
    <2>4. \A n \in 1..(l + 2) : n \in 1..(l + 1) \/ n = l + 2
      BY <1>1
    <2> QED BY <2>1, <2>2, <2>3, <2>4
  <1>8. ASSUME NEW n \in 1..(l + 1)
        PROVE  Encoded(W2[n], K2[n], W2[n + 1], K2[n + 1], mk2[n], bt2,
                       StartOf(mk2, bt2, n), StartOf(mk2, bt2, n + 1))
    <2>1. CASE n \in 1..l
      <3>1. n + 1 \in 1..(l + 1) /\ n \in 1..(l + 1)
        BY <1>1, <2>1
      <3> DEFINE from == StartOf(mk, bt, n)
                 to == StartOf(mk, bt, n + 1)
      <3>2. Encoded(W[n], K[n], W[n + 1], K[n + 1], mk[n], bt, from, to)
        BY <2>1 DEF History
      <3>3. from \in 0..Len(bt) /\ to \in 0..Len(bt)
        BY <3>1 DEF History
      <3> HIDE DEF from, to
      <3>4. ASSUME NEW c, IsSeq(c), to = from + Len(c), Written(bt, from, c)
            PROVE  Written(bt2, from, c)
        <4> SUFFICES ASSUME NEW i \in 1..Len(c) PROVE bt2[from + i] = c[i]
          BY DEF Written
        <4>1. Len(c) \in Nat
          BY <3>4, SeqFacts
        <4>2. from + i \in 1..Len(bt)
          BY <1>1, <3>3, <3>4, <4>1
        <4> QED BY <1>3, <3>4, <4>2 DEF Written
      <3>5. Encoded(W[n], K[n], W[n + 1], K[n + 1], mk[n], bt2, from, to)
        BY <3>2, <3>4 DEF Encoded
      <3>6. StartOf(mk2, bt2, n) = from /\ StartOf(mk2, bt2, n + 1) = to
        BY <1>6, <3>1 DEF from, to
      <3>7. /\ W2[n] = W[n] /\ K2[n] = K[n] /\ W2[n + 1] = W[n + 1] /\ K2[n + 1] = K[n + 1]
            /\ mk2[n] = mk[n]
        BY <1>2, <1>5, <2>1, <3>1
      <3> QED BY <3>5, <3>6, <3>7
    <2>2. CASE n = l + 1
      <3>1. n + 1 = l + 2 /\ l + 1 \in 1..(l + 1)
        BY <1>1, <2>2
      <3>2. W2[n] = w /\ K2[n] = K[l + 1] /\ W2[n + 1] = more \o Tail(w) /\ K2[n + 1] = k2
            /\ mk2[n] = m
        BY <1>0, <1>2, <1>5, <2>2, <3>1
      <3>3. StartOf(mk2, bt2, n) = Len(bt) /\ StartOf(mk2, bt2, n + 1) = Len(bt) + Len(b)
        BY <1>3, <1>6, <2>2, <3>1
      <3>4. Written(bt2, Len(bt), b)
        BY <1>3 DEF Written
      <3>5. Encoded(w, K[l + 1], more \o Tail(w), k2, m, bt2, Len(bt), Len(bt) + Len(b))
        BY <1>0, <3>4 DEF Encoded
      <3> QED BY <3>2, <3>3, <3>5
    <2> QED BY <1>1, <2>1, <2>2
  <1>9. History(W2, K2, mk2, bt2)
    <2>1. Len(mk2) + 1 = l + 2 /\ 1 \in 1..(l + 1)
      BY <1>1, <1>2
    <2>2. StartOf(mk2, bt2, 1) = 0
      BY <1>6, <2>1 DEF History
    <2> QED BY <1>2, <1>3, <1>7, <1>8, <2>1, <2>2 DEF History
  <1> QED BY <1>5, <1>9 DEF Continued, mk2, bt2

-----------------------------------------------------------------------------
(* The work w of the decoder and the work e of the encoder at the same     *)
(* item: w has the same items, and ends of elements between them.  c[i] of  *)
(* the first i items of w are items of e.                                  *)

IsEnd(it) == it.op = "append"

Counts(c, w, e) ==
  /\ c[0] = 0 /\ c[Len(w)] = Len(e)
  /\ \A i \in 0..Len(w) : c[i] \in 0..Len(e)
  /\ \A i, j \in 0..Len(w) : i <= j => c[i] <= c[j]
  /\ \A i \in 1..Len(w) : IF IsEnd(w[i]) THEN c[i] = c[i - 1]
                          ELSE c[i] = c[i - 1] + 1 /\ SameItem(w[i], e[c[i]])

Matches(w, e) == IsSeq(w) /\ IsSeq(e) /\ \E c : Counts(c, w, e)

LEMMA MatchesSame ==
  ASSUME NEW w, NEW e, IsSeq(w), IsSeq(e), Len(w) = Len(e),
         \A i \in 1..Len(w) : SameItem(w[i], e[i]) /\ ~IsEnd(w[i])
  PROVE  Matches(w, e)
  <1> DEFINE c == [i \in 0..Len(w) |-> i]
  <1>1. Len(w) \in Nat
    BY SeqFacts
  <1>2. \A i \in 0..Len(w) : c[i] = i
    OBVIOUS
  <1> HIDE DEF c
  <1>3. Counts(c, w, e)
    BY <1>1, <1>2 DEF Counts
  <1> QED BY <1>3 DEF Matches

LEMMA MatchesEnd ==
  ASSUME NEW w, NEW e, NEW x, IsSeq(w), IsSeq(e), Len(w) = Len(e), IsEnd(x),
         \A i \in 1..Len(w) : SameItem(w[i], e[i]) /\ ~IsEnd(w[i])
  PROVE  Matches(Append(w, x), e)
  <1> DEFINE w2 == Append(w, x)
             c == [i \in 0..(Len(w) + 1) |-> IF i <= Len(w) THEN i ELSE Len(w)]
  <1>1. Len(w) \in Nat
    BY SeqFacts
  <1>2. IsSeq(w2) /\ Len(w2) = Len(w) + 1 /\ w2[Len(w) + 1] = x /\ \A i \in 1..Len(w) : w2[i] = w[i]
    BY AppendFacts
  <1>3. c[Len(w) + 1] = Len(w) /\ \A i \in 0..Len(w) : c[i] = i
    BY <1>1
  <1> HIDE DEF c, w2
  <1>4. ASSUME NEW i \in 1..Len(w2)
        PROVE  IF IsEnd(w2[i]) THEN c[i] = c[i - 1]
               ELSE c[i] = c[i - 1] + 1 /\ SameItem(w2[i], e[c[i]])
    <2>1. CASE i \in 1..Len(w)
      BY <1>1, <1>2, <1>3, <2>1
    <2>2. CASE i = Len(w) + 1
      <3>1. i - 1 = Len(w) /\ Len(w) \in 0..Len(w)
        BY <1>1, <2>2
      <3> QED BY <1>2, <1>3, <2>2, <3>1
    <2> QED BY <1>1, <1>2, <2>1, <2>2
  <1>5. \A i \in 0..Len(w2) : c[i] \in 0..Len(e) /\ c[i] = IF i <= Len(w) THEN i ELSE Len(w)
    <2>1. \A i \in 0..Len(w2) : i \in 0..Len(w) \/ (i = Len(w) + 1 /\ ~(i <= Len(w)))
      BY <1>1, <1>2
    <2> QED BY <1>1, <1>3, <2>1
  <1>6. \A i, j \in 0..Len(w2) : i <= j => c[i] <= c[j]
    BY <1>1, <1>2, <1>5
  <1>7. Counts(c, w2, e)
    BY <1>1, <1>2, <1>3, <1>4, <1>5, <1>6 DEF Counts
  <1> QED BY <1>2, <1>7 DEF Matches, w2

LEMMA MatchesNothing == ASSUME NEW e, Matches(<<>>, e) PROVE e = <<>>
  <1>1. Len(<<>>) = 0
    BY EmptyIsSeq
  <1>2. Len(e) = 0 /\ IsSeq(e)
    BY <1>1 DEF Matches, Counts
  <1> QED BY <1>2, SeqFacts

(* The end of an element is passed. *)
LEMMA MatchesAfterEnd ==
  ASSUME NEW w, NEW e, Matches(w, e), w # <<>>, IsEnd(Head(w))
  PROVE  Matches(Tail(w), e)
  <1>1. IsSeq(w) /\ IsSeq(e)
    BY DEF Matches
  <1> PICK c : Counts(c, w, e)
    BY DEF Matches
  <1> DEFINE t == Tail(w)
             d == [i \in 0..Len(t) |-> c[i + 1]]
  <1>2. /\ Head(w) = w[1] /\ Len(w) \in Nat \ {0} /\ IsSeq(t) /\ Len(t) = Len(w) - 1
        /\ \A i \in 1..Len(t) : t[i] = w[i + 1]
    BY <1>1, TailFacts
  <1>3. \A i \in 0..Len(t) : d[i] = c[i + 1] /\ i + 1 \in 0..Len(w)
    BY <1>2
  <1> HIDE DEF d, t
  <1>4. c[1] = 0
    <2>1. 1 \in 1..Len(w) /\ 1 - 1 = 0
      BY <1>2
    <2> QED BY <1>2, <2>1 DEF Counts
  <1>5. d[0] = 0 /\ d[Len(t)] = Len(e)
    <2>1. 0 \in 0..Len(t) /\ Len(t) \in 0..Len(t) /\ Len(t) + 1 = Len(w) /\ 0 + 1 = 1
      BY <1>2
    <2> QED BY <1>3, <1>4, <2>1 DEF Counts
  <1>6. /\ \A i \in 0..Len(t) : d[i] \in 0..Len(e)
        /\ \A i, j \in 0..Len(t) : i <= j => d[i] <= d[j]
    <2>1. \A i \in 0..Len(t) : d[i] \in 0..Len(e)
      BY <1>3 DEF Counts
    <2>2. ASSUME NEW i \in 0..Len(t), NEW j \in 0..Len(t), i <= j PROVE d[i] <= d[j]
      <3>1. i + 1 <= j + 1
        BY <2>2
      <3> QED BY <1>3, <3>1 DEF Counts
    <2> QED BY <2>1, <2>2
  <1>7. ASSUME NEW i \in 1..Len(t)
        PROVE  IF IsEnd(t[i]) THEN d[i] = d[i - 1]
               ELSE d[i] = d[i - 1] + 1 /\ SameItem(t[i], e[d[i]])
    <2>1. i + 1 \in 1..Len(w) /\ (i + 1) - 1 = i /\ (i - 1) + 1 = i
          /\ i \in 0..Len(t) /\ i - 1 \in 0..Len(t)
      BY <1>2
    <2>2. d[i] = c[i + 1] /\ d[i - 1] = c[i] /\ t[i] = w[i + 1]
      BY <1>2, <1>3, <2>1
    <2>3. IF IsEnd(w[i + 1]) THEN c[i + 1] = c[i]
          ELSE c[i + 1] = c[i] + 1 /\ SameItem(w[i + 1], e[c[i + 1]])
      BY <2>1 DEF Counts
    <2> QED BY <2>2, <2>3
  <1>8. Counts(d, t, e)
    BY <1>5, <1>6, <1>7 DEF Counts
  <1> QED BY <1>1, <1>2, <1>8 DEF Matches, t

(* Both come to the same item. *)
LEMMA MatchesHead ==
  ASSUME NEW w, NEW e, Matches(w, e), w # <<>>, ~IsEnd(Head(w))
  PROVE  e # <<>> /\ SameItem(Head(w), Head(e)) /\ Matches(Tail(w), Tail(e))
  <1>1. IsSeq(w) /\ IsSeq(e)
    BY DEF Matches
  <1> PICK c : Counts(c, w, e)
    BY DEF Matches
  <1> DEFINE t == Tail(w)
             f == Tail(e)
             d == [i \in 0..Len(t) |-> c[i + 1] - 1]
  <1>2. /\ Head(w) = w[1] /\ Len(w) \in Nat \ {0} /\ IsSeq(t) /\ Len(t) = Len(w) - 1
        /\ \A i \in 1..Len(t) : t[i] = w[i + 1]
    BY <1>1, TailFacts
  <1>3. c[1] = 1 /\ SameItem(w[1], e[1]) /\ 1 <= Len(e) /\ Len(e) \in Nat
    <2>1. 1 \in 1..Len(w) /\ 1 - 1 = 0 /\ 1 \in 0..Len(w)
      BY <1>2
    <2>2. c[0] = 0 /\ c[1] = c[0] + 1 /\ SameItem(w[1], e[c[1]])
      BY <1>2, <2>1 DEF Counts
    <2>3. c[1] \in 0..Len(e) /\ Len(e) \in Nat
      BY <1>1, <2>1, SeqFacts DEF Counts
    <2> QED BY <2>2, <2>3
  <1>4. /\ e # <<>> /\ Head(e) = e[1] /\ IsSeq(f) /\ Len(f) = Len(e) - 1
        /\ \A i \in 1..Len(f) : f[i] = e[i + 1]
    <2>1. e # <<>>
      BY <1>3, EmptyIsSeq
    <2> QED BY <1>1, <2>1, TailFacts
  <1>5. \A i \in 0..Len(t) : d[i] = c[i + 1] - 1 /\ i + 1 \in 0..Len(w) /\ c[i + 1] \in 1..Len(e)
    <2> SUFFICES ASSUME NEW i \in 0..Len(t)
                 PROVE  d[i] = c[i + 1] - 1 /\ i + 1 \in 0..Len(w) /\ c[i + 1] \in 1..Len(e)
      OBVIOUS
    <2>1. i + 1 \in 0..Len(w) /\ 1 \in 0..Len(w) /\ 1 <= i + 1
      BY <1>2
    <2>2. c[1] <= c[i + 1] /\ c[i + 1] \in 0..Len(e)
      BY <2>1 DEF Counts
    <2>3. c[i + 1] \in 1..Len(e)
      BY <1>3, <2>2
    <2> QED BY <2>1, <2>3
  <1> HIDE DEF d, t, f
  <1>6. d[0] = 0 /\ d[Len(t)] = Len(f)
    <2>1. 0 \in 0..Len(t) /\ Len(t) \in 0..Len(t) /\ Len(t) + 1 = Len(w) /\ 0 + 1 = 1
      BY <1>2
    <2>2. c[Len(w)] = Len(e)
      BY DEF Counts
    <2>3. d[0] = c[1] - 1 /\ d[Len(t)] = c[Len(w)] - 1
      BY <1>5, <2>1
    <2> QED BY <1>3, <1>4, <2>2, <2>3
  <1>7. /\ \A i \in 0..Len(t) : d[i] \in 0..Len(f)
        /\ \A i, j \in 0..Len(t) : i <= j => d[i] <= d[j]
    <2>1. \A i \in 0..Len(t) : d[i] \in 0..Len(f)
      BY <1>3, <1>4, <1>5
    <2>2. ASSUME NEW i \in 0..Len(t), NEW j \in 0..Len(t), i <= j PROVE d[i] <= d[j]
      <3>1. i + 1 <= j + 1 /\ i + 1 \in 0..Len(w) /\ j + 1 \in 0..Len(w)
        BY <1>5, <2>2
      <3>2. c[i + 1] <= c[j + 1]
        BY <3>1 DEF Counts
      <3>3. c[i + 1] \in Int /\ c[j + 1] \in Int /\ d[i] = c[i + 1] - 1 /\ d[j] = c[j + 1] - 1
        BY <1>3, <1>5
      <3> QED BY <3>2, <3>3
    <2> QED BY <2>1, <2>2
  <1>8. ASSUME NEW i \in 1..Len(t)
        PROVE  IF IsEnd(t[i]) THEN d[i] = d[i - 1]
               ELSE d[i] = d[i - 1] + 1 /\ SameItem(t[i], f[d[i]])
    <2>1. i + 1 \in 1..Len(w) /\ (i + 1) - 1 = i /\ (i - 1) + 1 = i
          /\ i \in 0..Len(t) /\ i - 1 \in 0..Len(t)
      BY <1>2
    <2>2. d[i] = c[i + 1] - 1 /\ d[i - 1] = c[i] - 1 /\ t[i] = w[i + 1]
          /\ c[i] \in 1..Len(e) /\ c[i + 1] \in 1..Len(e)
      BY <1>2, <1>5, <2>1
    <2>3. IF IsEnd(w[i + 1]) THEN c[i + 1] = c[i]
          ELSE c[i + 1] = c[i] + 1 /\ SameItem(w[i + 1], e[c[i + 1]])
      BY <2>1 DEF Counts
    <2>4. CASE IsEnd(t[i])
      BY <2>2, <2>3, <2>4
    <2>5. CASE ~IsEnd(t[i])
      <3>1. c[i + 1] = c[i] + 1 /\ SameItem(t[i], e[c[i + 1]])
        BY <2>2, <2>3, <2>5
      <3>2. d[i] \in 1..Len(f) /\ d[i] + 1 = c[i + 1] /\ d[i] = d[i - 1] + 1
        BY <1>3, <1>4, <2>2, <3>1
      <3>3. f[d[i]] = e[c[i + 1]]
        BY <1>4, <3>2
      <3> QED BY <2>5, <3>1, <3>2, <3>3
    <2> QED BY <2>4, <2>5
  <1>9. Counts(d, t, f)
    BY <1>6, <1>7, <1>8 DEF Counts
  <1> QED BY <1>2, <1>3, <1>4, <1>9 DEF Matches, t, f

LEMMA MatchesConcat ==
  ASSUME NEW w, NEW e, NEW w2, NEW e2, Matches(w, e), Matches(w2, e2)
  PROVE  Matches(w \o w2, e \o e2)
  <1>1. IsSeq(w) /\ IsSeq(e) /\ IsSeq(w2) /\ IsSeq(e2)
    BY DEF Matches
  <1> PICK c : Counts(c, w, e)
    BY DEF Matches
  <1> PICK c2 : Counts(c2, w2, e2)
    BY DEF Matches
  <1> DEFINE x == w \o w2
             y == e \o e2
             l == Len(w)
             l2 == Len(w2)
             d == [i \in 0..Len(x) |-> IF i <= l THEN c[i] ELSE Len(e) + c2[i - l]]
  <1>2. /\ IsSeq(x) /\ Len(x) = l + l2 /\ \A i \in 1..l : x[i] = w[i]
        /\ \A i \in 1..l2 : x[l + i] = w2[i]
    BY <1>1, ConcatFacts
  <1>3. /\ IsSeq(y) /\ Len(y) = Len(e) + Len(e2) /\ \A i \in 1..Len(e) : y[i] = e[i]
        /\ \A i \in 1..Len(e2) : y[Len(e) + i] = e2[i]
    BY <1>1, ConcatFacts
  <1>4. l \in Nat /\ l2 \in Nat /\ Len(e) \in Nat /\ Len(e2) \in Nat
    BY <1>1, SeqFacts
  <1>5. /\ \A i \in 0..l : d[i] = c[i] /\ c[i] \in 0..Len(e)
        /\ \A i \in 0..l2 : d[l + i] = Len(e) + c2[i] /\ c2[i] \in 0..Len(e2)
    <2>1. ASSUME NEW i \in 0..l PROVE d[i] = c[i] /\ c[i] \in 0..Len(e)
      <3>1. i \in 0..Len(x) /\ i <= l
        BY <1>2, <1>4
      <3> QED BY <3>1 DEF Counts
    <2>2. ASSUME NEW i \in 0..l2 PROVE d[l + i] = Len(e) + c2[i] /\ c2[i] \in 0..Len(e2)
      <3>1. c2[i] \in 0..Len(e2)
        BY DEF Counts
      <3>2. l + i \in 0..Len(x)
        BY <1>2, <1>4
      <3>3. CASE i = 0
        <4>1. l + i = l /\ l \in 0..l /\ c[l] = Len(e) /\ c2[i] = 0
          BY <1>4, <3>3 DEF Counts
        <4>2. d[l] = c[l]
          BY <2>1, <4>1
        <4>3. Len(e) + 0 = Len(e)
          BY <1>4
        <4> HIDE DEF d
        <4> QED BY <3>1, <4>1, <4>2, <4>3
      <3>4. CASE i # 0
        <4>1. ~(l + i <= l) /\ (l + i) - l = i
          BY <1>4, <3>4
        <4> QED BY <3>1, <3>2, <4>1
      <3> QED BY <3>3, <3>4
    <2> QED BY <2>1, <2>2
  <1>6. \A i \in 0..Len(x) : i \in 0..l \/ \E k \in 1..l2 : i = l + k
    <2> SUFFICES ASSUME NEW i \in 0..Len(x), ~(i \in 0..l) PROVE \E k \in 1..l2 : i = l + k
      OBVIOUS
    <2>1. i - l \in 1..l2 /\ i = l + (i - l)
      BY <1>2, <1>4
    <2> QED BY <2>1
  <1> HIDE DEF d, x, y
  <1>7. d[0] = 0 /\ d[Len(x)] = Len(y)
    <2>1. 0 \in 0..l /\ l2 \in 0..l2
      BY <1>4
    <2>2. c[0] = 0 /\ c2[l2] = Len(e2)
      BY DEF Counts
    <2> QED BY <1>2, <1>3, <1>5, <2>1, <2>2
  <1>8. \A i \in 0..Len(x) : d[i] \in 0..Len(y)
    <2> SUFFICES ASSUME NEW i \in 0..Len(x) PROVE d[i] \in 0..Len(y)
      OBVIOUS
    <2>1. CASE i \in 0..l
      BY <1>3, <1>4, <1>5, <2>1
    <2>2. ASSUME NEW k \in 1..l2, i = l + k PROVE d[i] \in 0..Len(y)
      <3>1. k \in 0..l2
        BY <1>4
      <3>2. d[i] = Len(e) + c2[k] /\ c2[k] \in 0..Len(e2)
        BY <1>5, <2>2, <3>1
      <3> QED BY <1>3, <1>4, <3>2
    <2> QED BY <1>6, <2>1, <2>2
  <1>9. ASSUME NEW i \in 0..Len(x), NEW j \in 0..Len(x), i <= j PROVE d[i] <= d[j]
    <2>1. CASE i \in 0..l /\ j \in 0..l
      BY <1>5, <1>9, <2>1 DEF Counts
    <2>2. ASSUME NEW k \in 1..l2, j = l + k, i \in 0..l PROVE d[i] <= d[j]
      <3>1. k \in 0..l2
        BY <1>4
      <3>2. d[i] \in 0..Len(e) /\ d[j] = Len(e) + c2[k] /\ c2[k] \in 0..Len(e2)
        BY <1>5, <2>2, <3>1
      <3> QED BY <1>4, <3>2
    <2>3. ASSUME NEW k \in 1..l2, i = l + k, NEW n \in 1..l2, j = l + n PROVE d[i] <= d[j]
      <3>1. k \in 0..l2 /\ n \in 0..l2 /\ k <= n
        BY <1>4, <1>9, <2>3
      <3>2. c2[k] <= c2[n]
        BY <3>1 DEF Counts
      <3>3. d[i] = Len(e) + c2[k] /\ d[j] = Len(e) + c2[n] /\ c2[k] \in 0..Len(e2) /\ c2[n] \in 0..Len(e2)
        BY <1>5, <2>3, <3>1
      <3> QED BY <1>4, <3>2, <3>3
    <2>4. ASSUME NEW k \in 1..l2, i = l + k, j \in 0..l PROVE FALSE
      BY <1>4, <1>9, <2>4
    <2> QED BY <1>6, <2>1, <2>2, <2>3, <2>4
  <1>10. ASSUME NEW i \in 1..Len(x)
         PROVE  IF IsEnd(x[i]) THEN d[i] = d[i - 1]
                ELSE d[i] = d[i - 1] + 1 /\ SameItem(x[i], y[d[i]])
    <2>1. CASE i \in 1..l
      <3>1. i \in 0..l /\ i - 1 \in 0..l
        BY <1>4, <2>1
      <3>2. x[i] = w[i] /\ d[i] = c[i] /\ d[i - 1] = c[i - 1] /\ c[i - 1] \in 0..Len(e)
            /\ c[i] \in 0..Len(e)
        BY <1>2, <1>5, <2>1, <3>1
      <3>3. IF IsEnd(w[i]) THEN c[i] = c[i - 1]
            ELSE c[i] = c[i - 1] + 1 /\ SameItem(w[i], e[c[i]])
        BY <2>1 DEF Counts
      <3>4. ~IsEnd(w[i]) => y[c[i]] = e[c[i]]
        <4> SUFFICES ASSUME ~IsEnd(w[i]) PROVE c[i] \in 1..Len(e)
          BY <1>3
        <4> QED BY <1>4, <3>2, <3>3
      <3> QED BY <3>2, <3>3, <3>4
    <2>2. ASSUME NEW k \in 1..l2, i = l + k
          PROVE  IF IsEnd(x[i]) THEN d[i] = d[i - 1]
                 ELSE d[i] = d[i - 1] + 1 /\ SameItem(x[i], y[d[i]])
      <3>1. k \in 0..l2 /\ k - 1 \in 0..l2 /\ i - 1 = l + (k - 1)
        BY <1>4, <2>2
      <3>2. x[i] = w2[k] /\ d[i] = Len(e) + c2[k] /\ d[i - 1] = Len(e) + c2[k - 1]
            /\ c2[k] \in 0..Len(e2) /\ c2[k - 1] \in 0..Len(e2)
        BY <1>2, <1>5, <2>2, <3>1
      <3>3. IF IsEnd(w2[k]) THEN c2[k] = c2[k - 1]
            ELSE c2[k] = c2[k - 1] + 1 /\ SameItem(w2[k], e2[c2[k]])
        BY DEF Counts
      <3>4. ~IsEnd(w2[k]) => y[Len(e) + c2[k]] = e2[c2[k]]
        <4> SUFFICES ASSUME ~IsEnd(w2[k]) PROVE c2[k] \in 1..Len(e2)
          BY <1>3
        <4> QED BY <1>4, <3>2, <3>3
      <3>5. CASE IsEnd(x[i])
        BY <3>2, <3>3, <3>5
      <3>6. CASE ~IsEnd(x[i])
        <4>1. c2[k] = c2[k - 1] + 1
          BY <3>2, <3>3, <3>6
        <4>2. d[i] = d[i - 1] + 1
          BY <1>4, <3>2, <4>1
        <4> QED BY <3>2, <3>3, <3>4, <3>6, <4>2
      <3> QED BY <3>5, <3>6
    <2> QED BY <1>4, <1>6, <2>1, <2>2
  <1>11. Counts(d, x, y)
    BY <1>7, <1>8, <1>9, <1>10 DEF Counts
  <1> QED BY <1>2, <1>3, <1>11 DEF Matches, x, y

-----------------------------------------------------------------------------
(* Ends of elements: what is above one in the work is deeper than its list. *)

Stacked(w) ==
  /\ IsSeq(w)
  /\ \A i \in 1..Len(w) : IsSeq(w[i].at) /\ (IsEnd(w[i]) => w[i].u.card = "repeated")
  /\ \A i, j \in 1..Len(w) : j < i /\ IsEnd(w[i]) => Len(w[j].at) > Len(w[i].at)

(* The lists that have an element which is being decoded. *)
Pending(w) == {w[i].at : i \in {j \in 1..Len(w) : IsEnd(w[j])}}

LEMMA StackedTail ==
  ASSUME NEW w, Stacked(w), w # <<>>
  PROVE  /\ Stacked(Tail(w)) /\ Head(w).at \notin Pending(Tail(w))
         /\ IsSeq(Head(w).at) /\ (IsEnd(Head(w)) => Head(w).u.card = "repeated")
         /\ Pending(w) = Pending(Tail(w)) \cup (IF IsEnd(Head(w)) THEN {Head(w).at} ELSE {})
         /\ \A i \in 1..Len(Tail(w)) : IsEnd(Tail(w)[i]) => Len(Head(w).at) > Len(Tail(w)[i].at)
  <1> DEFINE t == Tail(w)
  <1>1. /\ Head(w) = w[1] /\ Len(w) \in Nat \ {0} /\ IsSeq(t) /\ Len(t) = Len(w) - 1
        /\ \A i \in 1..Len(t) : t[i] = w[i + 1]
    BY TailFacts DEF Stacked
  <1> HIDE DEF t
  <1>2. \A i \in 1..Len(t) : i + 1 \in 1..Len(w) /\ t[i] = w[i + 1] /\ 1 < i + 1
    BY <1>1
  <1>3. 1 \in 1..Len(w)
    BY <1>1
  <1>4. Stacked(t)
    <2>1. \A i, j \in 1..Len(t) : j < i => j + 1 < i + 1
      BY <1>1
    <2> QED BY <1>1, <1>2, <2>1 DEF Stacked
  <1>5. \A i \in 1..Len(t) : IsEnd(t[i]) => Len(w[1].at) > Len(t[i].at)
    BY <1>2, <1>3 DEF Stacked
  <1>6. w[1].at \notin Pending(t)
    <2>1. Len(w[1].at) \in Nat
      BY <1>3, SeqFacts DEF Stacked
    <2> QED BY <1>5, <2>1 DEF Pending
  <1>7. Pending(w) = Pending(t) \cup (IF IsEnd(w[1]) THEN {w[1].at} ELSE {})
    <2>1. ASSUME NEW i \in 1..Len(w) PROVE i = 1 \/ \E j \in 1..Len(t) : i = j + 1
      <3>1. CASE i # 1
        <4>1. i - 1 \in 1..Len(t) /\ i = (i - 1) + 1
          BY <1>1, <3>1
        <4> QED BY <4>1
      <3> QED BY <3>1
    <2>2. Pending(w) \subseteq Pending(t) \cup (IF IsEnd(w[1]) THEN {w[1].at} ELSE {})
      BY <1>2, <2>1 DEF Pending
    <2>3. Pending(t) \subseteq Pending(w)
      BY <1>2 DEF Pending
    <2>4. (IF IsEnd(w[1]) THEN {w[1].at} ELSE {}) \subseteq Pending(w)
      BY <1>3 DEF Pending
    <2> QED BY <2>2, <2>3, <2>4
  <1> QED BY <1>1, <1>3, <1>4, <1>5, <1>6, <1>7 DEF t, Stacked

(* Items no less deep than the head take its place. *)
LEMMA StackedPush ==
  ASSUME NEW w, Stacked(w), w # <<>>, NEW m, Stacked(m),
         \A i \in 1..Len(m) : Len(m[i].at) >= Len(Head(w).at)
  PROVE  /\ Stacked(m \o Tail(w))
         /\ Pending(m \o Tail(w)) = Pending(m) \cup Pending(Tail(w))
  <1> DEFINE t == Tail(w)
             x == m \o t
             l == Len(m)
  <1>1. IsSeq(m) /\ IsSeq(t) /\ Stacked(t)
    BY StackedTail DEF Stacked
  <1>2. /\ IsSeq(x) /\ Len(x) = l + Len(t)
        /\ \A i \in 1..l : x[i] = m[i]
        /\ \A i \in 1..Len(t) : x[l + i] = t[i]
    BY <1>1, ConcatFacts
  <1>3. l \in Nat /\ Len(t) \in Nat
    BY <1>1, SeqFacts
  <1>4. \A i \in 1..Len(t) : IsEnd(t[i]) => Len(Head(w).at) > Len(t[i].at)
    BY StackedTail
  <1>5. Len(Head(w).at) \in Nat
    BY StackedTail, SeqFacts
  <1> HIDE DEF t, x
  <1>6. \A i \in 1..Len(x) : i \in 1..l \/ \E k \in 1..Len(t) : i = l + k
    <2> SUFFICES ASSUME NEW i \in 1..Len(x), ~(i \in 1..l) PROVE \E k \in 1..Len(t) : i = l + k
      OBVIOUS
    <2>1. i - l \in 1..Len(t) /\ i = l + (i - l)
      BY <1>2, <1>3
    <2> QED BY <2>1
  <1>7. ASSUME NEW i \in 1..Len(x)
        PROVE  IsSeq(x[i].at) /\ (IsEnd(x[i]) => x[i].u.card = "repeated")
    <2>1. CASE i \in 1..l
      BY <1>2, <2>1 DEF Stacked
    <2>2. ASSUME NEW k \in 1..Len(t), i = l + k
          PROVE  IsSeq(x[i].at) /\ (IsEnd(x[i]) => x[i].u.card = "repeated")
      BY <1>1, <1>2, <2>2 DEF Stacked
    <2> QED BY <1>6, <2>1, <2>2
  <1>8. ASSUME NEW i \in 1..Len(x), NEW j \in 1..Len(x), j < i, IsEnd(x[i])
        PROVE  Len(x[j].at) > Len(x[i].at)
    <2>1. CASE i \in 1..l
      <3>1. j \in 1..l
        BY <1>3, <1>8, <2>1
      <3> QED BY <1>2, <1>8, <2>1, <3>1 DEF Stacked
    <2>2. ASSUME NEW k \in 1..Len(t), i = l + k, j \in 1..l
          PROVE  Len(x[j].at) > Len(x[i].at)
      <3>1. x[i] = t[k] /\ x[j] = m[j]
        BY <1>2, <2>2
      <3>2. Len(Head(w).at) > Len(t[k].at) /\ Len(m[j].at) >= Len(Head(w).at)
        BY <1>4, <1>8, <2>2, <3>1
      <3>3. Len(t[k].at) \in Nat /\ Len(m[j].at) \in Nat
        <4>1. IsSeq(t[k].at) /\ IsSeq(m[j].at)
          BY <1>7, <3>1
        <4> QED BY <4>1, SeqFacts
      <3> QED BY <1>5, <3>1, <3>2, <3>3
    <2>3. ASSUME NEW k \in 1..Len(t), i = l + k, NEW n \in 1..Len(t), j = l + n
          PROVE  Len(x[j].at) > Len(x[i].at)
      <3>1. n < k /\ x[i] = t[k] /\ x[j] = t[n]
        BY <1>2, <1>3, <1>8, <2>3
      <3> QED BY <1>1, <1>8, <3>1 DEF Stacked
    <2> QED BY <1>6, <2>1, <2>2, <2>3
  <1>9. Stacked(x)
    BY <1>2, <1>7, <1>8 DEF Stacked
  <1>10. Pending(x) = Pending(m) \cup Pending(t)
    <2>1. Pending(x) \subseteq Pending(m) \cup Pending(t)
      <3> SUFFICES ASSUME NEW i \in 1..Len(x), IsEnd(x[i]) PROVE x[i].at \in Pending(m) \cup Pending(t)
        BY DEF Pending
      <3>1. CASE i \in 1..l
        BY <1>2, <3>1 DEF Pending
      <3>2. ASSUME NEW k \in 1..Len(t), i = l + k PROVE x[i].at \in Pending(t)
        BY <1>2, <3>2 DEF Pending
      <3> QED BY <1>6, <3>1, <3>2
    <2>2. Pending(m) \subseteq Pending(x)
      <3>1. \A i \in 1..l : i \in 1..Len(x)
        BY <1>2, <1>3
      <3> QED BY <1>2, <3>1 DEF Pending
    <2>3. Pending(t) \subseteq Pending(x)
      <3>1. \A i \in 1..Len(t) : l + i \in 1..Len(x)
        BY <1>2, <1>3
      <3> QED BY <1>2, <3>1 DEF Pending
    <2> QED BY <2>1, <2>2, <2>3
  <1> QED BY <1>9, <1>10 DEF t, x

-----------------------------------------------------------------------------
(* The decoder's message o holds what the encoder had kept, k, but for the  *)
(* elements that are being decoded.                                        *)

IsFcn(f) == f = [a \in DOMAIN f |-> f[a]]

OutIs(o, pending, k) ==
  /\ IsFcn(o) /\ IsFcn(k) /\ DOMAIN o = DOMAIN k
  /\ \A a \in DOMAIN k : k[a] = IF a \in pending THEN Append(o[a], Present) ELSE o[a]

LEMMA OutIsNothing == OutIs(Nothing, {}, Nothing)
  <1>1. DOMAIN <<>> = {} /\ <<>> = [a \in DOMAIN <<>> |-> <<>>[a]]
    OBVIOUS
  <1> QED BY <1>1 DEF OutIs, IsFcn, Nothing

LEMMA OutIsAll == ASSUME NEW o, NEW k, OutIs(o, {}, k) PROVE o = k
  BY DEF OutIs, IsFcn

LEMMA OutIsSet ==
  ASSUME NEW o, NEW pending, NEW k, OutIs(o, pending, k), NEW at, at \notin pending, NEW x
  PROVE  OutIs(SetAt(o, at, x), pending, SetAt(k, at, x))
  <1> DEFINE o2 == SetAt(o, at, x)
             k2 == SetAt(k, at, x)
  <1>1. o2 = [a \in {at} \cup DOMAIN o |-> IF a = at THEN x ELSE o[a]]
    BY DEF SetAt
  <1>2. k2 = [a \in {at} \cup DOMAIN k |-> IF a = at THEN x ELSE k[a]]
    BY DEF SetAt
  <1> HIDE DEF o2, k2
  <1>3. IsFcn(o2) /\ IsFcn(k2)
    BY <1>1, <1>2 DEF IsFcn
  <1>4. DOMAIN o2 = {at} \cup DOMAIN o /\ DOMAIN k2 = {at} \cup DOMAIN k
    BY <1>1, <1>2
  <1>5. DOMAIN o2 = DOMAIN k2
    BY <1>4 DEF OutIs
  <1>6. ASSUME NEW a \in DOMAIN k2
        PROVE  k2[a] = IF a \in pending THEN Append(o2[a], Present) ELSE o2[a]
    <2>1. CASE a = at
      <3>1. k2[a] = x /\ o2[a] = x
        BY <1>1, <1>2, <2>1
      <3> QED BY <2>1, <3>1
    <2>2. CASE a # at
      <3>1. a \in DOMAIN k /\ a \in DOMAIN o
        BY <1>4, <2>2 DEF OutIs
      <3>2. k2[a] = k[a] /\ o2[a] = o[a]
        BY <1>1, <1>2, <2>2, <3>1
      <3> QED BY <3>1, <3>2 DEF OutIs
    <2> QED BY <2>1, <2>2
  <1>7. OutIs(o2, pending, k2)
    BY <1>3, <1>5, <1>6 DEF OutIs
  <1> QED BY <1>7 DEF o2, k2

LEMMA OutIsReplaced ==
  ASSUME NEW o, NEW pending, NEW k, OutIs(o, pending, k), NEW at, at \notin pending,
         NEW o2, NEW k2, NEW y,
         o2 = [a \in DOMAIN o |-> IF a = at THEN y ELSE o[a]],
         k2 = [a \in DOMAIN k |-> IF a = at THEN y ELSE k[a]]
  PROVE  OutIs(o2, pending, k2)
  <1>1. IsFcn(o2) /\ IsFcn(k2) /\ DOMAIN o2 = DOMAIN o /\ DOMAIN k2 = DOMAIN k
    BY DEF IsFcn
  <1>2. ASSUME NEW a \in DOMAIN k
        PROVE  k2[a] = IF a \in pending THEN Append(o2[a], Present) ELSE o2[a]
    <2>1. a \in DOMAIN o
      BY DEF OutIs
    <2>2. CASE a = at
      BY <2>1, <2>2
    <2>3. CASE a # at
      <3>1. k2[a] = k[a] /\ o2[a] = o[a]
        BY <2>1, <2>3
      <3> QED BY <3>1 DEF OutIs
    <2> QED BY <2>2, <2>3
  <1> QED BY <1>1, <1>2 DEF OutIs

LEMMA StoreFacts ==
  ASSUME NEW o, NEW fd, NEW at, NEW v
  PROVE  /\ fd.card = "repeated" =>
              Store(o, fd, at, v) = [a \in DOMAIN o |-> IF a = at THEN Append(o[at], v) ELSE o[a]]
         /\ fd.card = "map" =>
              Store(o, fd, at, v) = [a \in DOMAIN o |-> IF a = at
                                       THEN {e \in o[at] : e[1] # v[1]} \cup {v} ELSE o[a]]
         /\ fd.card \notin {"repeated", "map"} => Store(o, fd, at, v) = SetAt(o, at, v)
         /\ DOMAIN o \subseteq DOMAIN Store(o, fd, at, v)
  <1>1. CASE fd.card = "repeated"
    <2>1. Store(o, fd, at, v) = [a \in DOMAIN o |-> IF a = at THEN Append(o[at], v) ELSE o[a]]
      BY <1>1 DEF Store
    <2> QED BY <1>1, <2>1
  <1>2. CASE fd.card = "map"
    <2>1. Store(o, fd, at, v) = [a \in DOMAIN o |-> IF a = at
                                   THEN {e \in o[at] : e[1] # v[1]} \cup {v} ELSE o[a]]
      BY <1>2 DEF Store
    <2> QED BY <1>2, <2>1
  <1>3. CASE fd.card \notin {"repeated", "map"}
    <2>1. Store(o, fd, at, v) = SetAt(o, at, v)
      BY <1>3 DEF Store
    <2>2. DOMAIN o \subseteq DOMAIN SetAt(o, at, v)
      BY DEF SetAt
    <2> QED BY <1>3, <2>1, <2>2
  <1> QED BY <1>1, <1>2, <1>3

LEMMA OutIsStored ==
  ASSUME NEW o, NEW pending, NEW k, OutIs(o, pending, k), NEW at, at \notin pending,
         NEW fd, NEW v
  PROVE  OutIs(Store(o, fd, at, v), pending, Store(k, fd, at, v))
  <1>1. at \in DOMAIN o => o[at] = k[at]
    BY DEF OutIs
  <1>2. DOMAIN o = DOMAIN k
    BY DEF OutIs
  <1>3. CASE fd.card = "repeated"
    <2> DEFINE y == Append(k[at], v)
    <2>1. Store(o, fd, at, v) = [a \in DOMAIN o |-> IF a = at THEN y ELSE o[a]]
      BY <1>1, <1>3, StoreFacts
    <2>2. Store(k, fd, at, v) = [a \in DOMAIN k |-> IF a = at THEN y ELSE k[a]]
      BY <1>3, StoreFacts
    <2> HIDE DEF y
    <2> QED BY <2>1, <2>2, OutIsReplaced
  <1>4. CASE fd.card = "map"
    <2> DEFINE y == {e \in k[at] : e[1] # v[1]} \cup {v}
    <2>1. Store(o, fd, at, v) = [a \in DOMAIN o |-> IF a = at THEN y ELSE o[a]]
      BY <1>1, <1>4, StoreFacts
    <2>2. Store(k, fd, at, v) = [a \in DOMAIN k |-> IF a = at THEN y ELSE k[a]]
      BY <1>4, StoreFacts
    <2> HIDE DEF y
    <2> QED BY <2>1, <2>2, OutIsReplaced
  <1>5. CASE fd.card \notin {"repeated", "map"}
    <2>1. /\ Store(o, fd, at, v) = SetAt(o, at, v)
          /\ Store(k, fd, at, v) = SetAt(k, at, v)
      BY <1>5, StoreFacts
    <2> QED BY <2>1, OutIsSet
  <1> QED BY <1>3, <1>4, <1>5

(* The encoder appends an element when it comes to it, the decoder when it *)
(* has decoded it.                                                         *)
LEMMA OutIsBegun ==
  ASSUME NEW o, NEW pending, NEW k, OutIs(o, pending, k), NEW at, at \notin pending,
         NEW fd, fd.card = "repeated"
  PROVE  OutIs(o, pending \cup {at}, Store(k, fd, at, Present))
  <1> DEFINE k2 == Store(k, fd, at, Present)
  <1>1. k2 = [a \in DOMAIN k |-> IF a = at THEN Append(k[at], Present) ELSE k[a]]
    BY StoreFacts
  <1> HIDE DEF k2
  <1>2. IsFcn(k2) /\ DOMAIN k2 = DOMAIN k
    BY <1>1 DEF IsFcn
  <1>3. ASSUME NEW a \in DOMAIN k
        PROVE  k2[a] = IF a \in pending \cup {at} THEN Append(o[a], Present) ELSE o[a]
    <2>1. CASE a = at
      <3>1. k2[a] = Append(k[a], Present) /\ k[a] = o[a]
        BY <1>1, <2>1 DEF OutIs
      <3> QED BY <2>1, <3>1
    <2>2. CASE a # at
      <3>1. k2[a] = k[a]
        BY <1>1, <2>2
      <3> QED BY <2>2, <3>1 DEF OutIs
    <2> QED BY <2>1, <2>2
  <1>4. OutIs(o, pending \cup {at}, k2)
    BY <1>2, <1>3 DEF OutIs
  <1> QED BY <1>4 DEF k2

LEMMA OutIsEnded ==
  ASSUME NEW o, NEW pending, NEW k, NEW at, at \notin pending,
         OutIs(o, pending \cup {at}, k), NEW fd, fd.card = "repeated"
  PROVE  OutIs(Store(o, fd, at, Present), pending, k)
  <1> DEFINE o2 == Store(o, fd, at, Present)
  <1>1. o2 = [a \in DOMAIN o |-> IF a = at THEN Append(o[at], Present) ELSE o[a]]
    BY StoreFacts
  <1> HIDE DEF o2
  <1>2. IsFcn(o2) /\ DOMAIN o2 = DOMAIN k
    BY <1>1 DEF IsFcn, OutIs
  <1>3. ASSUME NEW a \in DOMAIN k
        PROVE  k[a] = IF a \in pending THEN Append(o2[a], Present) ELSE o2[a]
    <2>1. a \in DOMAIN o
      BY DEF OutIs
    <2>2. CASE a = at
      <3>1. o2[a] = Append(o[a], Present) /\ k[a] = Append(o[a], Present)
        BY <1>1, <2>1, <2>2 DEF OutIs
      <3> QED BY <2>2, <3>1
    <2>3. CASE a # at
      <3>1. o2[a] = o[a]
        BY <1>1, <2>1, <2>3
      <3> QED BY <2>3, <3>1 DEF OutIs
    <2> QED BY <2>2, <2>3
  <1>4. OutIs(o2, pending, k)
    BY <1>2, <1>3 DEF OutIs
  <1> QED BY <1>4 DEF o2

-----------------------------------------------------------------------------
(* The items m that the decoder puts in the place of one at a place, where *)
(* the encoder put more.                                                   *)
Fresh(m, more, at, pending) ==
  /\ Matches(m, more) /\ Stacked(m) /\ Pending(m) = pending
  /\ \A i \in 1..Len(m) : Len(m[i].at) >= Len(at)

LEMMA FreshSame ==
  ASSUME NEW m, NEW more, NEW at, IsSeq(m), IsSeq(more), Len(m) = Len(more),
         \A i \in 1..Len(m) : /\ SameItem(m[i], more[i]) /\ ~IsEnd(m[i])
                              /\ IsSeq(m[i].at) /\ Len(m[i].at) >= Len(at)
  PROVE  Fresh(m, more, at, {})
  <1>1. Matches(m, more)
    BY MatchesSame
  <1>2. Stacked(m)
    BY DEF Stacked
  <1>3. Pending(m) = {}
    BY DEF Pending
  <1> QED BY <1>1, <1>2, <1>3 DEF Fresh

LEMMA FreshNothing == ASSUME NEW at PROVE Fresh(<<>>, <<>>, at, {})
  <1>1. IsSeq(<<>>) /\ 1..Len(<<>>) = {}
    BY EmptyIsSeq
  <1> QED BY <1>1, FreshSame

LEMMA FreshValue ==
  ASSUME NEW at, NEW at2, IsSeq(at2), Len(at2) >= Len(at), NEW fd, NEW v
  PROVE  Fresh(<<Value(fd, at2, Nothing)>>, <<Value(fd, at2, v)>>, at, {})
  <1> DEFINE m == <<Value(fd, at2, Nothing)>>
             more == <<Value(fd, at2, v)>>
  <1>1. /\ IsSeq(m) /\ Len(m) = 1 /\ m[1] = Value(fd, at2, Nothing)
        /\ IsSeq(more) /\ Len(more) = 1 /\ more[1] = Value(fd, at2, v)
    BY SingleIsSeq
  <1>2. 1..1 = {1}
    OBVIOUS
  <1>3. /\ SameItem(m[1], more[1]) /\ ~IsEnd(m[1])
        /\ IsSeq(m[1].at) /\ Len(m[1].at) >= Len(at)
    BY <1>1 DEF Value, SameItem, IsEnd
  <1> HIDE DEF m, more
  <1>4. Fresh(m, more, at, {})
    BY <1>1, <1>2, <1>3, FreshSame
  <1> QED BY <1>4 DEF m, more

LEMMA FreshValues ==
  ASSUME NEW at, IsSeq(at), NEW fd, NEW n \in Nat, NEW more, IsSeq(more), Len(more) = n,
         \A j \in 1..n : SameItem(more[j], Value(fd, at, Nothing))
  PROVE  Fresh([j \in 1..n |-> Value(fd, at, Nothing)], more, at, {})
  <1> DEFINE m == [j \in 1..n |-> Value(fd, at, Nothing)]
  <1>1. IsSeq(m) /\ Len(m) = n
    BY FunctionIsSeq
  <1>2. \A j \in 1..n : m[j] = Value(fd, at, Nothing)
    OBVIOUS
  <1>3. Len(at) >= Len(at)
    BY SeqFacts
  <1> HIDE DEF m
  <1>4. \A i \in 1..Len(m) : /\ SameItem(m[i], more[i]) /\ ~IsEnd(m[i])
                             /\ IsSeq(m[i].at) /\ Len(m[i].at) >= Len(at)
    BY <1>1, <1>2, <1>3 DEF Value, SameItem, IsEnd
  <1>5. Fresh(m, more, at, {})
    BY <1>1, <1>4, FreshSame
  <1> QED BY <1>5 DEF m

LEMMA FreshUnits ==
  ASSUME NEW t \in DOMAIN Descriptor, NEW at, NEW at2, IsSeq(at), IsSeq(at2), Len(at2) >= Len(at)
  PROVE  Fresh(UnitItems(t, at2), UnitItems(t, at2), at, {})
  <1> DEFINE m == UnitItems(t, at2)
  <1>1. IsSeq(m) /\ \A i \in 1..Len(m) : /\ m[i].op = "unit" /\ IsSeq(m[i].at)
                                         /\ Len(m[i].at) = Len(at2) + 1
    BY UnitItemsShape
  <1>2. Len(at) \in Nat /\ Len(at2) \in Nat
    BY SeqFacts
  <1> HIDE DEF m
  <1>3. \A i \in 1..Len(m) : /\ SameItem(m[i], m[i]) /\ ~IsEnd(m[i])
                             /\ IsSeq(m[i].at) /\ Len(m[i].at) >= Len(at)
    BY <1>1, <1>2 DEF SameItem, IsEnd
  <1>4. Fresh(m, m, at, {})
    BY <1>1, <1>3, FreshSame
  <1> QED BY <1>4 DEF m

LEMMA FreshElement ==
  ASSUME NEW t \in DOMAIN Descriptor, NEW at, NEW at2, IsSeq(at), IsSeq(at2),
         Len(at2) = Len(at) + 1, NEW fd, fd.card = "repeated"
  PROVE  Fresh(Append(UnitItems(t, at2), ElementEnd(fd, at)), UnitItems(t, at2), at, {at})
  <1> DEFINE u == UnitItems(t, at2)
             x == ElementEnd(fd, at)
             m == Append(u, x)
  <1>1. IsSeq(u) /\ \A i \in 1..Len(u) : /\ u[i].op = "unit" /\ IsSeq(u[i].at)
                                         /\ Len(u[i].at) = Len(at2) + 1
    BY UnitItemsShape
  <1>2. Len(at) \in Nat /\ Len(at2) \in Nat /\ Len(u) \in Nat
    BY <1>1, SeqFacts
  <1>3. x.op = "append" /\ x.at = at /\ x.u = fd
    BY DEF ElementEnd
  <1> HIDE DEF u, x
  <1>4. /\ IsSeq(m) /\ Len(m) = Len(u) + 1 /\ m[Len(u) + 1] = x
        /\ \A i \in 1..Len(u) : m[i] = u[i]
    BY <1>1, AppendFacts
  <1>5. Matches(m, u)
    <2>1. \A i \in 1..Len(u) : SameItem(u[i], u[i]) /\ ~IsEnd(u[i])
      BY <1>1 DEF SameItem, IsEnd
    <2>2. IsEnd(x)
      BY <1>3 DEF IsEnd
    <2> QED BY <1>1, <2>1, <2>2, MatchesEnd
  <1> HIDE DEF m
  <1>6. \A i \in 1..Len(m) : \/ i \in 1..Len(u) /\ m[i] = u[i] /\ ~IsEnd(m[i])
                             \/ i = Len(u) + 1 /\ m[i] = x /\ IsEnd(m[i])
    <2> SUFFICES ASSUME NEW i \in 1..Len(m)
                 PROVE  \/ i \in 1..Len(u) /\ m[i] = u[i] /\ ~IsEnd(m[i])
                        \/ i = Len(u) + 1 /\ m[i] = x /\ IsEnd(m[i])
      OBVIOUS
    <2>1. i \in 1..Len(u) \/ i = Len(u) + 1
      BY <1>2, <1>4
    <2> QED BY <1>1, <1>3, <1>4, <2>1 DEF IsEnd
  <1>7. \A i \in 1..Len(m) : /\ IsSeq(m[i].at) /\ Len(m[i].at) >= Len(at)
                             /\ IsEnd(m[i]) => m[i].u.card = "repeated"
    BY <1>1, <1>2, <1>3, <1>6
  <1>8. Stacked(m)
    <2> SUFFICES ASSUME NEW i \in 1..Len(m), NEW j \in 1..Len(m), j < i, IsEnd(m[i])
                 PROVE  Len(m[j].at) > Len(m[i].at)
      BY <1>4, <1>7 DEF Stacked
    <2>1. m[i] = x /\ i = Len(u) + 1
      BY <1>6
    <2>2. j \in 1..Len(u) /\ m[j] = u[j]
      BY <1>2, <1>6, <2>1
    <2> QED BY <1>1, <1>2, <1>3, <2>1, <2>2
  <1>9. Pending(m) = {at}
    <2>1. Len(u) + 1 \in 1..Len(m) /\ IsEnd(m[Len(u) + 1]) /\ m[Len(u) + 1].at = at
      BY <1>2, <1>3, <1>4 DEF IsEnd
    <2>2. \A i \in 1..Len(m) : IsEnd(m[i]) => m[i].at = at
      BY <1>3, <1>6
    <2> QED BY <2>1, <2>2 DEF Pending
  <1>10. Fresh(m, u, at, {at})
    BY <1>5, <1>7, <1>8, <1>9 DEF Fresh
  <1> QED BY <1>10 DEF m, u, x

-----------------------------------------------------------------------------
(* One step of the decoder, at an item of which the encoder wrote b, left  *)
(* more and kept k2 after k: it advances behind b, or b is not all there,   *)
(* or the item is one that it never takes.                                 *)

DecodingOf(k, b) ==
  /\ phase = "unpacking"
  /\ IsSeq(data) /\ pos \in 0..Len(data) /\ IsSeq(b) /\ Holds(pos, b)
  /\ Stacked(work) /\ work # <<>> /\ ~IsEnd(item)
  /\ OutIs(out, Pending(work), k)

Kept == UNCHANGED <<root, bits, data, marks, kept>>

(* An element is begun, if the item is one. *)
Begins(pending) ==
  pending = {} \/ (pending = {item.at} /\ item.op = "value" /\ item.u.card = "repeated")

Advances(b, more, k2) ==
  /\ Kept
  /\ \/ /\ phase' = "ValidationError" /\ out' = out
        /\ ListIsInvalid(item) /\ Has(item.u.fd.countBits)
     \/ /\ phase' = "UnpackError" /\ out' = out
        /\ pos + Len(b) > Len(data) \/ EntryIsMessage(item)
     \/ /\ phase' = "unpacking" /\ step' = step + 1
        /\ pos' = pos + Len(b) /\ pos + Len(b) <= Len(data)
        /\ \E m, pending : /\ work' = m \o Tail(work) /\ Begins(pending)
                           /\ Fresh(m, more, item.at, pending)
                           /\ OutIs(out', pending \cup Pending(Tail(work)), k2)

LEMMA DecodingFacts ==
  ASSUME NEW k, NEW b, DecodingOf(k, b)
  PROVE  /\ phase = "unpacking" /\ Len(data) \in Nat /\ pos \in Nat /\ pos <= Len(data)
         /\ Len(b) \in Nat /\ IsSeq(item.at) /\ Len(item.at) \in Nat
         /\ item.at \notin Pending(Tail(work)) /\ OutIs(out, Pending(Tail(work)), k)
  <1>1. IsSeq(data) /\ pos \in 0..Len(data) /\ IsSeq(b)
    BY DEF DecodingOf
  <1>2. Len(data) \in Nat /\ Len(b) \in Nat
    BY <1>1, SeqFacts
  <1>3. /\ item.at \notin Pending(Tail(work)) /\ IsSeq(item.at)
        /\ Pending(work) = Pending(Tail(work))
    BY StackedTail DEF DecodingOf, item
  <1>4. Len(item.at) \in Nat
    BY <1>3, SeqFacts
  <1>5. OutIs(out, Pending(Tail(work)), k)
    BY <1>3 DEF DecodingOf
  <1> QED BY <1>1, <1>2, <1>3, <1>4, <1>5 DEF DecodingOf

LEMMA Failed ==
  ASSUME NEW k, NEW b, NEW more, NEW k2, DecodingOf(k, b), Fail("UnpackError"),
         ~(pos + Len(b) <= Len(data)) \/ EntryIsMessage(item)
  PROVE  Advances(b, more, k2)
  <1>1. pos + Len(b) > Len(data) \/ EntryIsMessage(item)
    BY DecodingFacts
  <1>2. phase' = "UnpackError" /\ Kept /\ out' = out
    BY DEF Fail, FailWith, Kept, packVars
  <1> QED BY <1>1, <1>2 DEF Advances

LEMMA Refused ==
  ASSUME NEW b, NEW more, NEW k2, Fail("ValidationError"),
         ListIsInvalid(item), Has(item.u.fd.countBits)
  PROVE  Advances(b, more, k2)
  <1>1. phase' = "ValidationError" /\ Kept /\ out' = out
    BY DEF Fail, FailWith, Kept, packVars
  <1> QED BY <1>1 DEF Advances

LEMMA Consumed ==
  ASSUME NEW k, NEW b, NEW more, NEW k2, NEW n, NEW m, NEW msg, NEW pending,
         DecodingOf(k, b), Consume(n, m, msg), n = Len(b), pos + Len(b) <= Len(data),
         Fresh(m, more, item.at, pending), Begins(pending),
         OutIs(msg, pending \cup Pending(Tail(work)), k2)
  PROVE  Advances(b, more, k2)
  <1>1. /\ phase' = "unpacking" /\ Kept /\ step' = step + 1
        /\ pos' = pos + Len(b) /\ work' = m \o Tail(work) /\ out' = msg
    BY DecodingFacts DEF Consume, Kept, packVars
  <1> QED BY <1>1 DEF Advances

(* Nothing pending is added. *)
LEMMA ConsumedPlain ==
  ASSUME NEW k, NEW b, NEW more, NEW k2, NEW n, NEW m, NEW msg,
         DecodingOf(k, b), Consume(n, m, msg), n = Len(b), pos + Len(b) <= Len(data),
         Fresh(m, more, item.at, {}), OutIs(msg, Pending(Tail(work)), k2)
  PROVE  Advances(b, more, k2)
  <1>1. {} \cup Pending(Tail(work)) = Pending(Tail(work))
    OBVIOUS
  <1>2. OutIs(msg, {} \cup Pending(Tail(work)), k2) /\ Begins({})
    BY <1>1 DEF Begins
  <1> QED BY <1>2, Consumed

(* A presence bit, and the bits after it. *)
LEMMA ReadBit ==
  ASSUME IsSeq(data), NEW from \in Nat, NEW x \in {0, 1}, Holds(from, <<x>>),
         from + 1 <= Len(data)
  PROVE  Bits(from, 1) = x
  <1>1. x \in 0..(2 ^ 1 - 1) /\ x \in Nat
    BY PowerPositive
  <1>2. IsSeq(LowBits(x, 1)) /\ Len(LowBits(x, 1)) = 1 /\ LowBits(x, 1)[1] = x
    <2>1. 1 \in Nat /\ 1 \in 1..1 /\ (x \div 2 ^ (1 - 1)) % 2 = x
      OBVIOUS
    <2> QED BY <1>1, <2>1, LowBitsFacts
  <1>3. IsSeq(<<x>>) /\ Len(<<x>>) = 1 /\ <<x>>[1] = x
    BY SingleIsSeq
  <1>4. LowBits(x, 1) = <<x>>
    <2>1. \A i \in 1..1 : LowBits(x, 1)[i] = <<x>>[i]
      BY <1>2, <1>3
    <2> QED BY <1>2, <1>3, <2>1, SeqsEqual
  <1> QED BY <1>1, <1>4, ReadNumber

LEMMA ReadBitThen ==
  ASSUME IsSeq(data), NEW from \in Nat, NEW x \in {0, 1}, NEW b, IsSeq(b),
         Holds(from, <<x>> \o b), Len(data) \in Nat
  PROVE  /\ Len(<<x>> \o b) = 1 + Len(b) /\ Len(b) \in Nat
         /\ Holds(from + 1, b) /\ from + 1 \in Nat
         /\ from + 1 <= Len(data) => Bits(from, 1) = x
  <1>1. IsSeq(<<x>>) /\ Len(<<x>>) = 1
    BY SingleIsSeq
  <1>2. Holds(from, <<x>>) /\ Holds(from + 1, b)
    BY <1>1, HoldsConcat
  <1>3. Len(<<x>> \o b) = 1 + Len(b) /\ Len(b) \in Nat
    BY <1>1, ConcatFacts, SeqFacts
  <1> QED BY <1>2, <1>3, ReadBit

LEMMA ReadOne ==
  ASSUME IsSeq(data), NEW from \in Nat, NEW x \in {0, 1}, NEW b, b = <<x>>, Holds(from, b)
  PROVE  Len(b) = 1 /\ (from + 1 <= Len(data) => Bits(from, 1) = x)
  BY SingleIsSeq, ReadBit

LEMMA DecoderScalar ==
  ASSUME NEW k, NEW b, NEW more, NEW k2, DecodingOf(k, b), UnpackScalar,
         EmitsScalar(item.u.fd, item.at, b, more, k, k2)
  PROVE  Advances(b, more, k2)
  <1> DEFINE fd == item.u.fd
             one == <<Value(fd, item.at, Nothing)>>
  <1>1. /\ Len(data) \in Nat /\ pos \in Nat /\ pos <= Len(data) /\ IsSeq(data) /\ Holds(pos, b)
        /\ IsSeq(item.at) /\ Len(item.at) >= Len(item.at) /\ OutIs(out, Pending(Tail(work)), k2)
    BY DecodingFacts DEF DecodingOf, EmitsScalar
  <1>2. Fresh(<<>>, <<>>, item.at, {})
    BY FreshNothing
  <1>3. ASSUME NEW v PROVE Fresh(one, <<Value(fd, item.at, v)>>, item.at, {})
    BY <1>1, FreshValue
  <1>4. CASE ~IsOptional(fd)
    <2>1. Consume(0, one, out)
      BY <1>4 DEF UnpackScalar
    <2>2. PICK v : b = <<>> /\ more = <<Value(fd, item.at, v)>>
      BY <1>4 DEF EmitsScalar
    <2>3. Len(b) = 0 /\ pos + Len(b) <= Len(data)
      BY <1>1, <2>2, EmptyIsSeq
    <2> QED BY <1>1, <1>3, <2>1, <2>2, <2>3, ConsumedPlain
  <1>5. CASE IsOptional(fd)
    <2>1. PICK x \in {0, 1} : /\ b = <<x>>
                              /\ x = 0 => more = <<>>
                              /\ x = 1 => \E v : more = <<Value(fd, item.at, v)>>
      BY <1>5 DEF EmitsScalar
    <2>2. Len(b) = 1 /\ (pos + 1 <= Len(data) => Bits(pos, 1) = x)
      BY <1>1, <2>1, ReadOne
    <2>3. CASE ~Has(1)
      <3>1. Fail("UnpackError") /\ ~(pos + Len(b) <= Len(data))
        BY <1>5, <2>2, <2>3 DEF UnpackScalar, Has
      <3> QED BY <3>1, Failed
    <2>4. CASE Has(1)
      <3>1. pos + Len(b) <= Len(data) /\ Bits(pos, 1) = x
        BY <2>2, <2>4 DEF Has
      <3>2. Consume(1, IF x = 0 THEN <<>> ELSE one, out)
        BY <1>5, <2>4, <3>1 DEF UnpackScalar
      <3>3. Fresh(IF x = 0 THEN <<>> ELSE one, more, item.at, {})
        BY <1>2, <1>3, <2>1
      <3> HIDE DEF one
      <3> QED BY <1>1, <2>2, <3>1, <3>2, <3>3, ConsumedPlain
    <2> QED BY <2>3, <2>4
  <1> QED BY <1>4, <1>5

LEMMA TsBitsType ==
  ASSUME NEW fd, FieldWidths(fd) PROVE TsBits(fd) \in Nat
  BY DEF FieldWidths, TsBits

LEMMA DecoderTimestamp ==
  ASSUME NEW k, NEW b, NEW more, NEW k2, DecodingOf(k, b), UnpackTimestamp,
         FieldWidths(item.u.fd), EmitsTimestamp(item.u.fd, item.at, b, more, k, k2)
  PROVE  Advances(b, more, k2)
  <1> DEFINE fd == item.u.fd
             n == TsBits(fd)
             coded(v) == <<1>> \o LowBits(v, n)
  <1>1. /\ Len(data) \in Nat /\ pos \in Nat /\ IsSeq(data) /\ Holds(pos, b)
        /\ OutIs(out, Pending(Tail(work)), k) /\ item.at \notin Pending(Tail(work))
        /\ more = <<>> /\ n \in Nat
    BY DecodingFacts, TsBitsType DEF DecodingOf, EmitsTimestamp
  <1>2. Fresh(<<>>, more, item.at, {})
    BY <1>1, FreshNothing
  <1>3. CASE b = <<0>> /\ k2 = k
    <2>1. Len(b) = 1 /\ (pos + 1 <= Len(data) => Bits(pos, 1) = 0)
      BY <1>1, <1>3, ReadOne
    <2>2. CASE ~Has(1)
      <3>1. Fail("UnpackError") /\ ~(pos + Len(b) <= Len(data))
        BY <2>1, <2>2 DEF UnpackTimestamp, Has
      <3> QED BY <3>1, Failed
    <2>3. CASE Has(1)
      <3>1. Consume(1, <<>>, out) /\ pos + Len(b) <= Len(data)
        BY <2>1, <2>3 DEF UnpackTimestamp, Has
      <3> QED BY <1>1, <1>2, <1>3, <2>1, <3>1, ConsumedPlain
    <2> QED BY <2>2, <2>3
  <1>4. ASSUME NEW v \in 0..MaxOf(n), b = coded(v), k2 = Store(k, fd, item.at, v)
        PROVE  Advances(b, more, k2)
    <2>1. IsSeq(LowBits(v, n)) /\ Len(LowBits(v, n)) = n
      <3>1. v \in Nat
        BY <1>1, MaxType
      <3> HIDE DEF n
      <3> QED BY <1>1, <3>1, LowBitsFacts
    <2>2. /\ Len(b) = 1 + n /\ Holds(pos + 1, LowBits(v, n)) /\ pos + 1 \in Nat
          /\ pos + 1 <= Len(data) => Bits(pos, 1) = 1
      <3> HIDE DEF n
      <3> QED BY <1>1, <1>4, <2>1, ReadBitThen
    <2>3. pos + 1 + n <= Len(data) => Bits(pos + 1, n) = v
      <3> HIDE DEF n
      <3>1. Reads((pos + 1) + n, Bits(pos + 1, n), pos + 1, LowBits(v, n), v)
        BY <1>1, <2>2, ReadInt
      <3> QED BY <2>1, <3>1 DEF Reads
    <2>4. CASE ~Has(1) \/ ~Has(1 + n)
      <3>1. Fail("UnpackError")
        BY <2>2, <2>4 DEF UnpackTimestamp, Has
      <3>2. ~(pos + Len(b) <= Len(data))
        <4> HIDE DEF n
        <4> QED BY <1>1, <2>2, <2>4 DEF Has
      <3> QED BY <3>1, <3>2, Failed
    <2>5. CASE Has(1) /\ Has(1 + n)
      <3>1. pos + Len(b) <= Len(data) /\ Bits(pos, 1) = 1 /\ Bits(pos + 1, n) = v
        <4> HIDE DEF n
        <4> QED BY <1>1, <2>2, <2>3, <2>5 DEF Has
      <3>2. Consume(1 + n, <<>>, Store(out, fd, item.at, v))
        BY <2>5, <3>1 DEF UnpackTimestamp
      <3>3. OutIs(Store(out, fd, item.at, v), Pending(Tail(work)), k2)
        BY <1>1, <1>4, OutIsStored
      <3> HIDE DEF n
      <3> QED BY <1>2, <2>2, <3>1, <3>2, <3>3, ConsumedPlain
    <2> QED BY <2>4, <2>5
  <1> QED BY <1>3, <1>4 DEF EmitsTimestamp

LEMMA DecoderMessage ==
  ASSUME NEW k, NEW b, NEW more, NEW k2, DecodingOf(k, b), UnpackMessage,
         item.u.fd.type \in DOMAIN Descriptor,
         EmitsMessage(item.u.fd, item.at, b, more, k, k2)
  PROVE  Advances(b, more, k2)
  <1> DEFINE fd == item.u.fd
             units == UnitItems(fd.type, item.at)
             msg == Store(out, fd, item.at, Present)
  <1>1. /\ Len(data) \in Nat /\ pos \in Nat /\ IsSeq(data) /\ Holds(pos, b)
        /\ OutIs(out, Pending(Tail(work)), k) /\ item.at \notin Pending(Tail(work))
        /\ IsSeq(item.at) /\ Len(item.at) >= Len(item.at)
    BY DecodingFacts DEF DecodingOf
  <1>2. Fresh(<<>>, <<>>, item.at, {}) /\ Fresh(units, units, item.at, {})
    BY <1>1, FreshNothing, FreshUnits
  <1>3. OutIs(msg, Pending(Tail(work)), Store(k, fd, item.at, Present))
    BY <1>1, OutIsStored
  <1>4. PICK x \in {0, 1} : /\ b = <<x>>
                            /\ x = 0 => more = <<>> /\ k2 = k
                            /\ x = 1 => /\ more = units /\ k2 = Store(k, fd, item.at, Present)
                                        /\ ValidMessage(Descriptor[fd.type])
    BY DEF EmitsMessage
  <1>5. Len(b) = 1 /\ (pos + 1 <= Len(data) => Bits(pos, 1) = x)
    BY <1>1, <1>4, ReadOne
  <1> HIDE DEF units, msg
  <1>6. CASE ~Has(1)
    <2>1. Fail("UnpackError") /\ ~(pos + Len(b) <= Len(data))
      BY <1>5, <1>6 DEF UnpackMessage, Has
    <2> QED BY <2>1, Failed
  <1>7. CASE Has(1) /\ x = 0
    <2>1. Consume(1, <<>>, out) /\ pos + Len(b) <= Len(data)
      BY <1>5, <1>7 DEF UnpackMessage, Has
    <2> QED BY <1>1, <1>2, <1>4, <1>5, <1>7, <2>1, ConsumedPlain
  <1>8. CASE Has(1) /\ x = 1
    <2>1. pos + Len(b) <= Len(data) /\ Bits(pos, 1) = 1
      BY <1>5, <1>8 DEF Has
    <2>2. Consume(1, units, msg)
      BY <1>4, <1>8, <2>1 DEF UnpackMessage, units, msg
    <2> QED BY <1>2, <1>3, <1>4, <1>5, <1>8, <2>1, <2>2, ConsumedPlain
  <1> QED BY <1>6, <1>7, <1>8

LEMMA DecodeCount ==
  ASSUME NEW k, NEW b, NEW more, NEW k2, NEW empty, DecodingOf(k, b), FieldWidths(item.u.fd),
         IsSeq(more), EmitsCount(item.u.fd, item.at, b, more, k, k2, empty),
         \/ /\ ~Has(item.u.fd.countBits) /\ Fail("UnpackError")
         \/ ListIsInvalid(item) /\ Has(item.u.fd.countBits) /\ Fail("ValidationError")
         \/ /\ Has(item.u.fd.countBits)
            /\ Consume(item.u.fd.countBits,
                       [j \in 1..Bits(pos, item.u.fd.countBits) |-> Value(item.u.fd, item.at, Nothing)],
                       SetAt(out, item.at, empty))
  PROVE  Advances(b, more, k2)
  <1> DEFINE fd == item.u.fd
  <1> PICK c \in Nat : c = fd.countBits
    BY DEF FieldWidths
  <1>1. /\ Len(data) \in Nat /\ pos \in Nat /\ IsSeq(data) /\ Holds(pos, b)
        /\ OutIs(out, Pending(Tail(work)), k) /\ item.at \notin Pending(Tail(work))
        /\ IsSeq(item.at)
    BY DecodingFacts DEF DecodingOf
  <1> PICK n \in 0..MaxOf(c) :
             /\ b = LowBits(n, c) /\ Len(more) = n
             /\ \A j \in 1..n : SameItem(more[j], Value(fd, item.at, Nothing))
    BY DEF EmitsCount
  <1>2. Reads(pos + c, Bits(pos, c), pos, b, n) /\ Len(b) = c
    BY <1>1, ReadInt
  <1>3. n \in Nat
    BY MaxType
  <1>4. CASE ~Has(c) /\ Fail("UnpackError")
    <2>1. ~(pos + Len(b) <= Len(data))
      BY <1>2, <1>4 DEF Has
    <2> QED BY <1>4, <2>1, Failed
  <1>5. CASE ListIsInvalid(item) /\ Has(fd.countBits) /\ Fail("ValidationError")
    BY <1>5, Refused, Zenon
  <1>6. CASE /\ Has(c)
             /\ Consume(c, [j \in 1..Bits(pos, c) |-> Value(fd, item.at, Nothing)],
                        SetAt(out, item.at, empty))
    <2>1. pos + Len(b) <= Len(data) /\ Bits(pos, c) = n
      BY <1>2, <1>6 DEF Has, Reads
    <2>2. Consume(c, [j \in 1..n |-> Value(fd, item.at, Nothing)], SetAt(out, item.at, empty))
      BY <1>6, <2>1
    <2>3. Fresh([j \in 1..n |-> Value(fd, item.at, Nothing)], more, item.at, {})
      BY <1>1, <1>3, FreshValues
    <2>4. OutIs(SetAt(out, item.at, empty), Pending(Tail(work)), k2)
      BY <1>1, OutIsSet DEF EmitsCount
    <2> QED BY <1>2, <2>1, <2>2, <2>3, <2>4, ConsumedPlain
  <1> QED BY <1>4, <1>5, <1>6

LEMMA DecoderList ==
  ASSUME NEW k, NEW b, NEW more, NEW k2, DecodingOf(k, b), UnpackList,
         FieldWidths(item.u.fd), IsSeq(more),
         EmitsCount(item.u.fd, item.at, b, more, k, k2, <<>>)
  PROVE  Advances(b, more, k2)
  <1>1. \/ ~Has(item.u.fd.countBits) /\ Fail("UnpackError")
        \/ ListIsInvalid(item) /\ Has(item.u.fd.countBits) /\ Fail("ValidationError")
        \/ /\ Has(item.u.fd.countBits)
           /\ Consume(item.u.fd.countBits,
                      [j \in 1..Bits(pos, item.u.fd.countBits) |-> Value(item.u.fd, item.at, Nothing)],
                      SetAt(out, item.at, <<>>))
    BY DEF UnpackList, UnpackingField, Unpacking, ListIsInvalid
  <1> QED BY <1>1, DecodeCount

LEMMA DecoderMap ==
  ASSUME NEW k, NEW b, NEW more, NEW k2, DecodingOf(k, b), UnpackMap,
         FieldWidths(item.u.fd), IsSeq(more),
         EmitsCount(item.u.fd, item.at, b, more, k, k2, {})
  PROVE  Advances(b, more, k2)
  BY DecodeCount DEF UnpackMap

LEMMA DecoderOneof ==
  ASSUME NEW k, NEW b, NEW more, NEW k2, DecodingOf(k, b), UnpackOneof,
         item.u.unit = "oneof", UnitOK(item.u), EmitsOneof(item.u, item.at, b, more, k, k2)
  PROVE  Advances(b, more, k2)
  <1> DEFINE u == item.u
             c == u.selectorBits
             x == Bits(pos, c)
             member(i) == <<Value(u.fields[i], Append(item.at, i), Nothing)>>
  <1>1. /\ Len(data) \in Nat /\ pos \in Nat /\ IsSeq(data) /\ Holds(pos, b)
        /\ OutIs(out, Pending(Tail(work)), k2) /\ IsSeq(item.at) /\ Len(item.at) \in Nat
    BY DecodingFacts DEF DecodingOf, EmitsOneof
  <1>2. c \in Nat /\ IsSeq(u.fields) /\ Len(u.fields) \in Nat /\ Len(u.fields) <= MaxOf(c)
    BY SeqFacts DEF UnitOK
  <1> PICK n \in 0..Len(u.fields) :
             /\ b = LowBits(n, c)
             /\ n = 0 => more = <<>>
             /\ n > 0 => \E v : more = <<Value(u.fields[n], Append(item.at, n), v)>>
    BY DEF EmitsOneof
  <1>3. n \in 0..MaxOf(c) /\ n \in Nat
    <2> HIDE DEF c, u
    <2>1. MaxOf(c) \in Nat
      BY <1>2, MaxType
    <2> QED BY <1>2, <2>1
  <1>4. Reads(pos + c, x, pos, b, n) /\ Len(b) = c
    <2> HIDE DEF c
    <2> QED BY <1>1, <1>2, <1>3, ReadInt
  <1>5. Fresh(IF n = 0 THEN <<>> ELSE member(n), more, item.at, {})
    <2>1. CASE n = 0
      BY <2>1, FreshNothing
    <2>2. CASE n # 0
      <3>1. PICK v : more = <<Value(u.fields[n], Append(item.at, n), v)>>
        BY <1>3, <2>2
      <3>2. IsSeq(Append(item.at, n)) /\ Len(Append(item.at, n)) >= Len(item.at)
        BY <1>1, AppendFacts
      <3> QED BY <2>2, <3>1, <3>2, FreshValue
    <2> QED BY <2>1, <2>2
  <1>6. \/ (~Has(c) \/ x > Len(u.fields)) /\ Fail("UnpackError")
        \/ ~(~Has(c) \/ x > Len(u.fields)) /\ Consume(c, IF x = 0 THEN <<>> ELSE member(x), out)
    BY DEF UnpackOneof
  <1> HIDE DEF x, c, member
  <1>7. CASE ~Has(c)
    <2>1. ~(pos + Len(b) <= Len(data)) /\ Fail("UnpackError")
      BY <1>4, <1>6, <1>7 DEF Has
    <2> QED BY <2>1, Failed
  <1>8. CASE Has(c)
    <2>1. pos + Len(b) <= Len(data) /\ x = n
      BY <1>4, <1>8 DEF Has, Reads
    <2>2. ~(x > Len(u.fields))
      BY <1>2, <2>1
    <2>3. Consume(c, IF n = 0 THEN <<>> ELSE member(n), out)
      BY <1>6, <1>8, <2>1, <2>2
    <2> QED BY <1>1, <1>4, <1>5, <2>1, <2>3, ConsumedPlain
  <1> QED BY <1>7, <1>8

ScalarKind(fd) == fd.kind \in {"bool", "int", "enum", "bytes"}

LEMMA DecoderValue ==
  ASSUME NEW k, NEW b, NEW more, NEW k2, DecodingOf(k, b), UnpackValue,
         FieldWidths(item.u), ScalarKind(item.u), EmitsValue(item.u, item.at, b, more, k, k2)
  PROVE  Advances(b, more, k2)
  <1> DEFINE fd == item.u
             end == ScalarEnd(fd, pos)
             val == ScalarAt(fd, pos)
  <1>1. /\ Len(data) \in Nat /\ pos \in Nat /\ IsSeq(data) /\ Holds(pos, b)
        /\ OutIs(out, Pending(Tail(work)), k) /\ item.at \notin Pending(Tail(work))
        /\ Len(b) \in Nat
    BY DecodingFacts DEF DecodingOf
  <1> PICK v : Fits(fd, v) /\ b = ScalarBits(fd, v) /\ k2 = Store(k, fd, item.at, v)
    BY DEF EmitsValue
  <1>2. more = <<>> /\ Fresh(<<>>, more, item.at, {})
    BY FreshNothing DEF EmitsValue
  <1>3. Reads(end, val, pos, b, v)
    BY <1>1, ReadScalar DEF ScalarKind
  <1>4. \/ end > Len(data) /\ Fail("UnpackError")
        \/ ~(end > Len(data)) /\ Consume(end - pos, <<>>, Store(out, fd, item.at, val))
    BY DEF UnpackValue
  <1> HIDE DEF end, val
  <1>5. CASE ~(pos + Len(b) <= Len(data))
    <2>1. Fail("UnpackError")
      BY <1>3, <1>4, <1>5 DEF Reads
    <2> QED BY <1>5, <2>1, Failed
  <1>6. CASE pos + Len(b) <= Len(data)
    <2>1. end = pos + Len(b) /\ val = v
      BY <1>3, <1>6 DEF Reads
    <2>2. ~(end > Len(data)) /\ end - pos = Len(b)
      BY <1>1, <1>6, <2>1
    <2>3. Consume(end - pos, <<>>, Store(out, fd, item.at, v))
      BY <1>4, <2>1, <2>2
    <2>4. OutIs(Store(out, fd, item.at, v), Pending(Tail(work)), k2)
      BY <1>1, OutIsStored
    <2> QED BY <1>2, <1>6, <2>2, <2>3, <2>4, ConsumedPlain
  <1> QED BY <1>5, <1>6

LEMMA ScalarBitsSeq ==
  ASSUME NEW fd, FieldWidths(fd), ScalarKind(fd), NEW v, Fits(fd, v)
  PROVE  IsSeq(ScalarBits(fd, v))
  <1>1. CASE fd.kind = "bool"
    <2>1. v \in Nat /\ 1 \in Nat
      BY <1>1 DEF Fits
    <2>2. ScalarBits(fd, v) = LowBits(v, 1)
      BY <1>1 DEF ScalarBits
    <2> QED BY <2>1, <2>2, LowBitsFacts
  <1>2. CASE fd.kind \in {"int", "enum"}
    <2>1. v \in 0..MaxOf(fd.bits) /\ fd.bits \in Nat
      BY <1>2 DEF Fits, FieldWidths
    <2>2. v \in Nat
      BY <2>1, MaxType
    <2>3. ScalarBits(fd, v) = LowBits(v, fd.bits)
      BY <1>2 DEF ScalarBits
    <2> QED BY <2>1, <2>2, <2>3, LowBitsFacts
  <1>3. CASE fd.kind = "bytes"
    <2>1. IsSeq(v) /\ Len(v) \in Nat /\ fd.lengthBits \in Nat
      BY <1>3, SeqFacts DEF Fits, ByteSeq, FieldWidths
    <2>2. ScalarBits(fd, v) = LowBits(Len(v), fd.lengthBits) \o RawBytes(v)
      BY <1>3 DEF ScalarBits
    <2>3. IsSeq(LowBits(Len(v), fd.lengthBits)) /\ IsSeq(RawBytes(v))
      BY <2>1, LowBitsFacts, RawBytesFacts
    <2> QED BY <2>2, <2>3, ConcatFacts
  <1> QED BY <1>1, <1>2, <1>3 DEF ScalarKind

LEMMA KeyBitsSeq ==
  ASSUME NEW fd, FieldWidths(fd), fd.key \in {"bool", "int", "bytes"}, NEW k \in KeysOf(fd)
  PROVE  IsSeq(KeyBitsOf(fd, k))
  <1>1. CASE fd.key = "bool"
    <2>1. k \in Nat /\ 1 \in Nat
      BY <1>1 DEF KeysOf
    <2>2. KeyBitsOf(fd, k) = LowBits(k, 1)
      BY <1>1 DEF KeyBitsOf
    <2> QED BY <2>1, <2>2, LowBitsFacts
  <1>2. CASE fd.key = "int"
    <2>1. k \in Nat /\ fd.keyBits \in Nat
      BY <1>2, ValuesAssumption DEF KeysOf, FieldWidths
    <2>2. KeyBitsOf(fd, k) = LowBits(k, fd.keyBits)
      BY <1>2 DEF KeyBitsOf
    <2> QED BY <2>1, <2>2, LowBitsFacts
  <1>3. CASE fd.key = "bytes"
    <2>1. k \in Seq(0..(2 ^ ByteSize - 1))
      BY <1>3, ValuesAssumption DEF KeysOf
    <2>2. IsSeq(k) /\ Len(k) \in Nat /\ fd.keyLengthBits \in Nat
      BY <2>1, ByteSeqOf, SeqFacts DEF ByteSeq, FieldWidths
    <2>3. KeyBitsOf(fd, k) = LowBits(Len(k), fd.keyLengthBits) \o RawBytes(k)
      BY <1>3 DEF KeyBitsOf
    <2>4. IsSeq(LowBits(Len(k), fd.keyLengthBits)) /\ IsSeq(RawBytes(k))
      BY <2>2, LowBitsFacts, RawBytesFacts
    <2> QED BY <2>3, <2>4, ConcatFacts
  <1> QED BY <1>1, <1>2, <1>3

LEMMA DecoderEntry ==
  ASSUME KeysFit, NEW k, NEW b, NEW more, NEW k2, DecodingOf(k, b), UnpackEntry,
         FieldOK(item.u), EmitsEntry(item.u, item.at, b, more, k, k2)
  PROVE  Advances(b, more, k2)
  <1> DEFINE fd == item.u
             mid == KeyEnd(fd, pos)
             key == KeyAt(fd, pos)
             end == ScalarEnd(fd, mid)
             val == ScalarAt(fd, mid)
  <1>1. /\ Len(data) \in Nat /\ pos \in Nat /\ IsSeq(data) /\ Holds(pos, b)
        /\ OutIs(out, Pending(Tail(work)), k) /\ item.at \notin Pending(Tail(work))
        /\ Len(b) \in Nat
    BY DecodingFacts DEF DecodingOf
  <1>2. /\ item.op = "value" /\ fd.card = "map"
        /\ \/ (mid > Len(data) \/ fd.kind = "message") /\ Fail("UnpackError")
           \/ ~(mid > Len(data) \/ fd.kind = "message") /\ end > Len(data) /\ Fail("UnpackError")
           \/ /\ ~(mid > Len(data) \/ fd.kind = "message") /\ ~(end > Len(data))
              /\ Consume(end - pos, <<>>, Store(out, fd, item.at, <<key, val>>))
    BY DEF UnpackEntry, Unpacking
  <1>3. CASE fd.kind = "message"
    <2>1. EntryIsMessage(item) /\ Fail("UnpackError")
      BY <1>2, <1>3 DEF EntryIsMessage
    <2> QED BY <2>1, Failed
  <1>4. CASE fd.kind # "message"
    <2> PICK c \in KeysOf(fd) : \E v : /\ Fits(fd, v) /\ b = KeyBitsOf(fd, c) \o ScalarBits(fd, v)
                                       /\ k2 = Store(k, fd, item.at, <<c, v>>)
      BY <1>4 DEF EmitsEntry
    <2> PICK v : /\ Fits(fd, v) /\ b = KeyBitsOf(fd, c) \o ScalarBits(fd, v)
                 /\ k2 = Store(k, fd, item.at, <<c, v>>)
      OBVIOUS
    <2> DEFINE kb == KeyBitsOf(fd, c)
               sb == ScalarBits(fd, v)
    <2>1. FieldWidths(fd) /\ ScalarKind(fd) /\ fd.key \in {"bool", "int", "bytes"} /\ KeyFits(fd, c)
      BY <1>2, <1>4 DEF FieldOK, IsField, ScalarKind
    <2>2. IsSeq(kb) /\ IsSeq(sb) /\ Len(kb) \in Nat /\ Len(sb) \in Nat
      BY <2>1, KeyBitsSeq, ScalarBitsSeq, SeqFacts
    <2>3. Holds(pos, kb) /\ Holds(pos + Len(kb), sb) /\ Len(b) = Len(kb) + Len(sb)
      <3> HIDE DEF kb, sb
      <3>1. b = kb \o sb
        BY DEF kb, sb
      <3> QED BY <1>1, <2>2, <3>1, HoldsConcat, ConcatFacts
    <2>4. Reads(mid, key, pos, kb, c)
      BY <1>1, <2>1, <2>3, ReadKey
    <2>5. ASSUME mid = pos + Len(kb) PROVE Reads(end, val, mid, sb, v)
      <3>1. mid \in Nat /\ Holds(mid, sb)
        <4> HIDE DEF kb, sb, mid
        <4> QED BY <1>1, <2>2, <2>3, <2>5
      <3> HIDE DEF mid
      <3> QED BY <1>1, <2>1, <3>1, ReadScalar DEF ScalarKind
    <2> HIDE DEF kb, sb, mid, end, val, key
    <2>6. more = <<>> /\ Fresh(<<>>, more, item.at, {})
      BY <1>4, FreshNothing DEF EmitsEntry
    <2>7. CASE ~(pos + Len(kb) <= Len(data))
      <3>1. mid > Len(data) /\ ~(pos + Len(b) <= Len(data))
        BY <1>1, <2>2, <2>3, <2>4, <2>7 DEF Reads
      <3>2. Fail("UnpackError")
        BY <1>2, <3>1
      <3> QED BY <3>1, <3>2, Failed
    <2>8. CASE pos + Len(kb) <= Len(data)
      <3>1. mid = pos + Len(kb) /\ key = c /\ ~(mid > Len(data))
        BY <1>1, <2>2, <2>4, <2>8 DEF Reads
      <3>2. Reads(end, val, mid, sb, v) /\ mid + Len(sb) = pos + Len(b)
        BY <1>1, <2>2, <2>3, <2>5, <3>1
      <3>3. CASE ~(pos + Len(b) <= Len(data))
        <4>1. end > Len(data)
          BY <3>2, <3>3 DEF Reads
        <4>2. Fail("UnpackError")
          BY <1>2, <4>1
        <4> QED BY <3>3, <4>2, Failed
      <3>4. CASE pos + Len(b) <= Len(data)
        <4>1. end = pos + Len(b) /\ val = v
          BY <3>2, <3>4 DEF Reads
        <4>2. ~(end > Len(data)) /\ end - pos = Len(b)
          BY <1>1, <3>4, <4>1
        <4>3. Consume(end - pos, <<>>, Store(out, fd, item.at, <<c, v>>))
          BY <1>2, <1>4, <3>1, <4>1, <4>2
        <4>4. OutIs(Store(out, fd, item.at, <<c, v>>), Pending(Tail(work)), k2)
          BY <1>1, OutIsStored
        <4> QED BY <2>6, <3>4, <4>2, <4>3, <4>4, ConsumedPlain
      <3> QED BY <3>3, <3>4
    <2> QED BY <2>7, <2>8
  <1> QED BY <1>3, <1>4

LEMMA DecoderNested ==
  ASSUME NEW k, NEW b, NEW more, NEW k2, DecodingOf(k, b), UnpackNested,
         item.u.type \in DOMAIN Descriptor, Opened(item, k),
         EmitsNested(item.u, item.at, b, more, k, k2)
  PROVE  Advances(b, more, k2)
  <1> DEFINE fd == item.u
             place == PlaceOf(out, fd, item.at)
             units == UnitItems(fd.type, place)
  <1>1. /\ Len(data) \in Nat /\ pos \in Nat /\ pos <= Len(data)
        /\ OutIs(out, Pending(Tail(work)), k) /\ item.at \notin Pending(Tail(work))
        /\ IsSeq(item.at) /\ Len(item.at) \in Nat
    BY DecodingFacts DEF DecodingOf
  <1>2. b = <<>> /\ Len(b) = 0 /\ 0 = Len(b) /\ pos + Len(b) <= Len(data)
    BY <1>1, EmptyIsSeq DEF EmitsNested
  <1>3. place = PlaceOf(k, fd, item.at)
    <2>1. CASE fd.card = "repeated"
      <3>1. item.at \in DOMAIN k
        BY <2>1 DEF Opened, UnpackNested, Unpacking
      <3>2. out[item.at] = k[item.at]
        BY <1>1, <3>1 DEF OutIs
      <3> QED BY <3>2 DEF PlaceOf
    <2>2. CASE fd.card # "repeated"
      BY <2>2 DEF PlaceOf
    <2> QED BY <2>1, <2>2
  <1>4. /\ more = units /\ k2 = Store(k, fd, item.at, Present)
        /\ ValidMessage(Descriptor[fd.type])
    BY <1>3 DEF EmitsNested
  <1>5. \/ /\ fd.card = "repeated"
           /\ Consume(0, Append(units, ElementEnd(fd, item.at)), out)
        \/ /\ fd.card # "repeated"
           /\ Consume(0, units, Store(out, fd, item.at, Present))
    BY <1>4 DEF UnpackNested
  <1>6. CASE fd.card = "repeated"
    <2>1. IsSeq(place) /\ Len(place) = Len(item.at) + 1
      BY <1>1, <1>6, AppendFacts DEF PlaceOf
    <2> HIDE DEF place
    <2>2. Fresh(Append(units, ElementEnd(fd, item.at)), units, item.at, {item.at})
      BY <1>1, <1>6, <2>1, FreshElement
    <2>3. OutIs(out, {item.at} \cup Pending(Tail(work)), k2)
      <3>1. OutIs(out, Pending(Tail(work)) \cup {item.at}, k2)
        BY <1>1, <1>4, <1>6, OutIsBegun
      <3>2. Pending(Tail(work)) \cup {item.at} = {item.at} \cup Pending(Tail(work))
        OBVIOUS
      <3> QED BY <3>1, <3>2
    <2> HIDE DEF units
    <2>4. Consume(0, Append(units, ElementEnd(fd, item.at)), out)
      BY <1>5, <1>6
    <2>5. Begins({item.at})
      BY <1>6 DEF UnpackNested, Unpacking, Begins
    <2> QED BY <1>2, <1>4, <2>2, <2>3, <2>4, <2>5, Consumed
  <1>7. CASE fd.card # "repeated"
    <2>1. place = item.at /\ Len(place) >= Len(item.at) /\ IsSeq(place)
      BY <1>1, <1>7 DEF PlaceOf
    <2> HIDE DEF place
    <2>2. Fresh(units, units, item.at, {})
      BY <1>1, <2>1, FreshUnits
    <2>3. OutIs(Store(out, fd, item.at, Present), Pending(Tail(work)), k2)
      BY <1>1, <1>4, OutIsStored
    <2> HIDE DEF units
    <2>4. Consume(0, units, Store(out, fd, item.at, Present))
      BY <1>5, <1>7
    <2> QED BY <1>2, <1>4, <2>2, <2>3, <2>4, ConsumedPlain
  <1> QED BY <1>6, <1>7

(* Whatever item the decoder comes to. *)
LEMMA DecoderStep ==
  ASSUME KeysFit, NEW k, NEW b, NEW more, NEW k2, NEW e, DecodingOf(k, b), Unpack,
         SameItem(item, e), ItemOK(e), Opened(e, k), IsSeq(more), Emitted(e, b, more, k, k2)
  PROVE  Advances(b, more, k2)
  <1>1. item.op = e.op /\ item.u = e.u /\ item.at = e.at
    BY DEF SameItem
  <1>2. Emitted(item, b, more, k, k2)
    <2>1. Form(item) = Form(e)
      BY <1>1 DEF Form
    <2> QED BY <1>1, <2>1 DEF Emitted
  <1>3. /\ item.op = "unit" => UnitOK(item.u)
        /\ item.op = "value" => FieldOK(item.u)
        /\ Opened(item, k)
    BY <1>1 DEF ItemOK, Opened
  <1>4. item.op = "unit" /\ item.u.unit = "field" =>
          /\ FieldWidths(item.u.fd)
          /\ item.u.fd.kind = "message" => item.u.fd.type \in DOMAIN Descriptor
    BY <1>3 DEF UnitOK, FieldOK
  <1>5. item.op = "value" =>
          /\ FieldWidths(item.u) /\ (item.u.kind # "message" => ScalarKind(item.u))
          /\ item.u.kind = "message" => item.u.type \in DOMAIN Descriptor
    BY <1>3 DEF FieldOK, IsField, ScalarKind
  <1>6. CASE UnpackScalar
    <2>1. Form(item) = "scalar"
      BY <1>6 DEF UnpackScalar, UnpackingField, Unpacking, Form
    <2> QED BY <1>2, <1>6, <2>1, DecoderScalar DEF Emitted
  <1>7. CASE UnpackTimestamp
    <2>1. Form(item) = "timestamp" /\ FieldWidths(item.u.fd)
      BY <1>4, <1>7 DEF UnpackTimestamp, UnpackingField, Unpacking, Form, IsTimestamp
    <2> QED BY <1>2, <1>7, <2>1, DecoderTimestamp DEF Emitted
  <1>8. CASE UnpackMessage
    <2>1. Form(item) = "message" /\ item.u.fd.type \in DOMAIN Descriptor
      BY <1>4, <1>8 DEF UnpackMessage, UnpackingField, Unpacking, Form, IsMessage
    <2> QED BY <1>2, <1>8, <2>1, DecoderMessage DEF Emitted
  <1>9. CASE UnpackList
    <2>1. Form(item) = "list" /\ FieldWidths(item.u.fd)
      BY <1>4, <1>9 DEF UnpackList, UnpackingField, Unpacking, Form
    <2> QED BY <1>2, <1>9, <2>1, DecoderList DEF Emitted
  <1>10. CASE UnpackMap
    <2>1. Form(item) = "map" /\ FieldWidths(item.u.fd)
      BY <1>4, <1>10 DEF UnpackMap, UnpackingField, Unpacking, Form
    <2> QED BY <1>2, <1>10, <2>1, DecoderMap DEF Emitted
  <1>11. CASE UnpackOneof
    <2>1. Form(item) = "oneof" /\ UnitOK(item.u) /\ item.u.unit = "oneof"
      BY <1>3, <1>11 DEF UnpackOneof, Unpacking, Form
    <2> QED BY <1>2, <1>11, <2>1, DecoderOneof DEF Emitted
  <1>12. CASE UnpackValue
    <2>1. Form(item) = "value" /\ FieldWidths(item.u) /\ ScalarKind(item.u)
      BY <1>5, <1>12 DEF UnpackValue, Unpacking, Form
    <2> QED BY <1>2, <1>12, <2>1, DecoderValue DEF Emitted
  <1>13. CASE UnpackEntry
    <2>1. Form(item) = "entry" /\ FieldOK(item.u)
      BY <1>3, <1>13 DEF UnpackEntry, Unpacking, Form
    <2> QED BY <1>2, <1>13, <2>1, DecoderEntry DEF Emitted
  <1>14. CASE UnpackNested
    <2>1. Form(item) = "nested" /\ item.u.type \in DOMAIN Descriptor
      BY <1>5, <1>14 DEF UnpackNested, Unpacking, Form
    <2> QED BY <1>2, <1>3, <1>14, <2>1, DecoderNested DEF Emitted
  <1>15. CASE UnpackElementEnd
    BY <1>15 DEF UnpackElementEnd, Unpacking, DecodingOf, IsEnd
  <1> QED BY <1>6, <1>7, <1>8, <1>9, <1>10, <1>11, <1>12, <1>13, <1>14, <1>15 DEF Unpack

-----------------------------------------------------------------------------
(* One step of the encoder. *)

WorkReady(w, k) == WorkOK(w) /\ \A i \in 1..Len(w) : Opened(w[i], k)

Coding == /\ phase = "packing" /\ work # <<>>
          /\ ItemOK(item) /\ Opened(item, kept)

Mark == [op |-> item.op, u |-> item.u, at |-> item.at, pos |-> Len(bits)]

Encodes(b, more) ==
  /\ phase' = "packing" /\ bits' = bits \o b /\ work' = more \o Tail(work)
  /\ marks' = Append(marks, Mark)
  /\ UNCHANGED <<root, data, pos, out, step>>
  /\ IsSeq(b) /\ WorkReady(more, kept') /\ DOMAIN kept \subseteq DOMAIN kept'
  /\ Emitted(item, b, more, kept, kept')

EncoderSteps == \/ phase' \in {"PackError", "ValidationError"}
                \/ \E b, more : Encodes(b, more)

LEMMA EmitEncodes ==
  ASSUME NEW b, NEW more, NEW raw2, NEW kept2, Coding, Emit(b, more, raw2, kept2),
         IsSeq(b), WorkReady(more, kept2), DOMAIN kept \subseteq DOMAIN kept2,
         Emitted(item, b, more, kept, kept2)
  PROVE  EncoderSteps
  <1>1. Encodes(b, more)
    BY DEF Encodes, Emit, Coding, Mark, unpackVars
  <1> QED BY <1>1 DEF EncoderSteps

LEMMA FailStops ==
  ASSUME Fail("PackError") \/ Fail("ValidationError") PROVE EncoderSteps
  BY DEF Fail, FailWith, EncoderSteps

LEMMA NothingReady == ASSUME NEW k PROVE WorkReady(<<>>, k)
  <1>1. IsSeq(<<>>) /\ 1..Len(<<>>) = {}
    BY EmptyIsSeq
  <1> QED BY <1>1 DEF WorkReady, WorkOK

LEMMA ValueReady ==
  ASSUME NEW k, NEW fd, NEW at, NEW v, IsSeq(at), FieldOK(fd), ValueOK(fd, v),
         fd.card = "repeated" => at \in DOMAIN k
  PROVE  WorkReady(<<Value(fd, at, v)>>, k)
  <1> DEFINE w == <<Value(fd, at, v)>>
  <1>1. IsSeq(w) /\ Len(w) = 1 /\ w[1] = Value(fd, at, v) /\ 1..1 = {1}
    BY SingleIsSeq
  <1>2. ItemOK(w[1]) /\ Opened(w[1], k)
    BY <1>1 DEF ItemOK, Opened, Value
  <1> HIDE DEF w
  <1>3. WorkReady(w, k)
    BY <1>1, <1>2 DEF WorkReady, WorkOK
  <1> QED BY <1>3 DEF w

LEMMA ValuesReady ==
  ASSUME NEW k, NEW fd, NEW at, IsSeq(at), FieldOK(fd), NEW w, IsSeq(w),
         \A j \in 1..Len(w) : \E v : w[j] = Value(fd, at, v) /\ ValueOK(fd, v),
         fd.card = "repeated" => at \in DOMAIN k
  PROVE  WorkReady(w, k)
  <1>1. ASSUME NEW j \in 1..Len(w) PROVE ItemOK(w[j]) /\ Opened(w[j], k)
    <2>1. PICK v : w[j] = Value(fd, at, v) /\ ValueOK(fd, v)
      OBVIOUS
    <2> QED BY <2>1 DEF ItemOK, Opened, Value
  <1> QED BY <1>1 DEF WorkReady, WorkOK

LEMMA UnitsReady ==
  ASSUME NEW t \in DOMAIN Descriptor, NEW at, IsSeq(at), ValidMessage(Descriptor[t]),
         NEW k
  PROVE  WorkReady(UnitItems(t, at), k)
  <1> DEFINE w == UnitItems(t, at)
  <1>1. WorkOK(w) /\ \A i \in 1..Len(w) : w[i].op = "unit"
    BY UnitItemsOK, UnitItemsShape
  <1> HIDE DEF w
  <1>2. WorkReady(w, k)
    BY <1>1 DEF WorkReady, Opened
  <1> QED BY <1>2 DEF w

LEMMA SetGrows ==
  ASSUME NEW k, NEW at, NEW v
  PROVE  DOMAIN k \subseteq DOMAIN SetAt(k, at, v) /\ at \in DOMAIN SetAt(k, at, v)
  BY DEF SetAt

LEMMA EncoderScalar ==
  ASSUME Coding, PackScalar PROVE EncoderSteps
  <1> DEFINE fd == item.u.fd
             flag == IF IsOptional(fd) THEN <<1>> ELSE <<>>
  <1>1. /\ item.op = "unit" /\ item.u.unit = "field" /\ fd.card = "singular"
        /\ fd.kind # "message" /\ Form(item) = "scalar"
    BY DEF PackScalar, PackingField, Packing, Form
  <1>2. IsSeq(item.at) /\ FieldOK(fd)
    BY <1>1 DEF Coding, ItemOK, UnitOK
  <1>3. DOMAIN kept \subseteq DOMAIN kept
    OBVIOUS
  <1>4. CASE IsOptional(fd) /\ Emit(<<0>>, <<>>, raw, kept)
    <2>1. Emitted(item, <<0>>, <<>>, kept, kept)
      BY <1>1, <1>4 DEF Emitted, EmitsScalar
    <2> QED BY <1>3, <1>4, <2>1, NothingReady, SingleIsSeq, EmitEncodes
  <1>5. ASSUME NEW v \in ValuesOf(fd),
               Emit(flag, <<Value(fd, item.at, v)>>, raw, kept)
        PROVE  EncoderSteps
    <2> DEFINE b == flag
               more == <<Value(fd, item.at, v)>>
    <2>1. Emitted(item, b, more, kept, kept)
      <3>1. EmitsScalar(fd, item.at, b, more, kept, kept)
        BY DEF EmitsScalar
      <3> QED BY <1>1, <3>1 DEF Emitted
    <2>2. IsSeq(b)
      BY SingleIsSeq, EmptyIsSeq
    <2>3. WorkReady(more, kept)
      BY <1>1, <1>2, ValueReady DEF ValueOK
    <2> HIDE DEF b, more
    <2>4. Emit(b, more, raw, kept)
      BY <1>5 DEF b, more
    <2> QED BY <1>3, <2>1, <2>2, <2>3, <2>4, EmitEncodes
  <1> QED BY <1>4, <1>5 DEF PackScalar

LEMMA EncoderTimestamp ==
  ASSUME Coding, PackTimestamp PROVE EncoderSteps
  <1> DEFINE fd == item.u.fd
             n == TsBits(fd)
             coded(v) == <<1>> \o LowBits(v, n)
  <1>1. /\ item.op = "unit" /\ item.u.unit = "field" /\ Form(item) = "timestamp"
    BY DEF PackTimestamp, PackingField, Packing, Form, IsTimestamp
  <1>2. IsSeq(item.at) /\ FieldOK(fd) /\ n \in Nat
    BY <1>1, TsBitsType DEF Coding, ItemOK, UnitOK, FieldOK
  <1>3. DOMAIN kept \subseteq DOMAIN kept
    OBVIOUS
  <1>4. CASE Emit(<<0>>, <<>>, raw, kept)
    <2>1. EmitsTimestamp(fd, item.at, <<0>>, <<>>, kept, kept)
      BY DEF EmitsTimestamp
    <2>2. Emitted(item, <<0>>, <<>>, kept, kept)
      BY <1>1, <2>1 DEF Emitted
    <2> QED BY <1>3, <1>4, <2>2, NothingReady, SingleIsSeq, EmitEncodes
  <1>5. ASSUME NEW v \in Ints, v <= MaxOf(n),
               Emit(coded(v), <<>>, Store(raw, fd, item.at, v),
                    Store(kept, fd, item.at, v))
        PROVE  EncoderSteps
    <2> DEFINE b == coded(v)
               k2 == Store(kept, fd, item.at, v)
    <2>1. v \in 0..MaxOf(n) /\ v \in Nat
      <3> HIDE DEF n
      <3>1. v \in Nat /\ MaxOf(n) \in Nat
        BY <1>2, ValuesAssumption, MaxType
      <3> QED BY <1>5, <3>1
    <2>2. EmitsTimestamp(fd, item.at, b, <<>>, kept, k2)
      BY <2>1 DEF EmitsTimestamp
    <2>3. IsSeq(b)
      <3> HIDE DEF n
      <3> QED BY <1>2, <2>1, LowBitsFacts, SingleIsSeq, ConcatFacts
    <2>4. DOMAIN kept \subseteq DOMAIN k2
      BY StoreFacts
    <2> HIDE DEF b, k2
    <2>5. Emitted(item, b, <<>>, kept, k2)
      BY <1>1, <2>2 DEF Emitted
    <2>6. Emit(b, <<>>, Store(raw, fd, item.at, v), k2)
      BY <1>5 DEF b, k2
    <2> QED BY <2>3, <2>4, <2>5, <2>6, NothingReady, EmitEncodes
  <1> QED BY <1>4, <1>5 DEF PackTimestamp

LEMMA EncoderMessage ==
  ASSUME Coding, PackMessage PROVE EncoderSteps
  <1> DEFINE fd == item.u.fd
             units == UnitItems(fd.type, item.at)
             k2 == Store(kept, fd, item.at, Present)
  <1>1. /\ item.op = "unit" /\ item.u.unit = "field" /\ fd.kind = "message"
        /\ Form(item) = "message"
    BY DEF PackMessage, PackingField, Packing, Form, IsMessage
  <1>2. IsSeq(item.at) /\ FieldOK(fd) /\ fd.type \in DOMAIN Descriptor
    BY <1>1 DEF Coding, ItemOK, UnitOK, FieldOK
  <1>3. DOMAIN kept \subseteq DOMAIN kept /\ DOMAIN kept \subseteq DOMAIN k2
    BY StoreFacts
  <1>4. /\ EmitsMessage(fd, item.at, <<0>>, <<>>, kept, kept)
        /\ ValidMessage(Descriptor[fd.type]) => EmitsMessage(fd, item.at, <<1>>, units, kept, k2)
    BY DEF EmitsMessage
  <1>5. ValidMessage(Descriptor[fd.type]) => WorkReady(units, k2)
    BY <1>2, UnitsReady
  <1>6. \/ Emit(<<0>>, <<>>, raw, kept)
        \/ /\ ValidMessage(Descriptor[fd.type])
           /\ Emit(<<1>>, units, Store(raw, fd, item.at, Present), k2)
        \/ Fail("ValidationError")
    BY DEF PackMessage
  <1> HIDE DEF units, k2
  <1>7. /\ Emitted(item, <<0>>, <<>>, kept, kept)
        /\ ValidMessage(Descriptor[fd.type]) => Emitted(item, <<1>>, units, kept, k2)
    BY <1>1, <1>4 DEF Emitted
  <1>8. CASE Emit(<<0>>, <<>>, raw, kept)
    BY <1>3, <1>7, <1>8, NothingReady, SingleIsSeq, EmitEncodes
  <1>9. CASE /\ ValidMessage(Descriptor[fd.type])
             /\ Emit(<<1>>, units, Store(raw, fd, item.at, Present), k2)
    BY <1>3, <1>5, <1>7, <1>9, SingleIsSeq, EmitEncodes
  <1> QED BY <1>6, <1>8, <1>9, FailStops

LEMMA SeqOfFacts ==
  ASSUME NEW S, NEW n \in Nat, NEW s \in SeqOf(S, n)
  PROVE  IsSeq(s) /\ Len(s) \in Nat /\ \A i \in 1..Len(s) : s[i] \in S
  <1>1. PICK m \in 0..n : s \in [1..m -> S]
    BY DEF SeqOf
  <1>2. m \in Nat /\ s = [i \in 1..m |-> s[i]]
    BY <1>1
  <1>3. IsSeq(s) /\ Len(s) = m
    BY <1>2, FunctionIsSeq
  <1> QED BY <1>1, <1>2, <1>3

LEMMA CountBits ==
  ASSUME NEW fd, FieldWidths(fd), NEW n \in 0..MaxOf(fd.countBits)
  PROVE  IsSeq(LowBits(n, fd.countBits))
  <1>1. n \in Nat /\ fd.countBits \in Nat
    BY MaxType DEF FieldWidths
  <1> QED BY <1>1, LowBitsFacts

EmptyFor(it, empty) == \/ Form(it) = "list" /\ empty = <<>>
                       \/ Form(it) = "map" /\ empty = {}

(* A count is written, and the values are left. *)
LEMMA EncodeCount ==
  ASSUME Coding, item.op = "unit", item.u.unit = "field", NEW more, NEW raw2, NEW empty,
         EmptyFor(item, empty),
         IsSeq(more), Len(more) <= MaxOf(item.u.fd.countBits),
         \A j \in 1..Len(more) : \E v : /\ more[j] = Value(item.u.fd, item.at, v)
                                        /\ ValueOK(item.u.fd, v),
         Emit(LowBits(Len(more), item.u.fd.countBits), more, raw2, SetAt(kept, item.at, empty))
  PROVE  EncoderSteps
  <1> DEFINE fd == item.u.fd
             b == LowBits(Len(more), fd.countBits)
             k2 == SetAt(kept, item.at, empty)
  <1>1. IsSeq(item.at) /\ FieldOK(fd) /\ FieldWidths(fd)
    BY DEF Coding, ItemOK, UnitOK, FieldOK
  <1>2. Len(more) \in 0..MaxOf(fd.countBits)
    BY SeqFacts
  <1>3. IsSeq(b)
    BY <1>1, <1>2, CountBits
  <1>4. DOMAIN kept \subseteq DOMAIN k2 /\ item.at \in DOMAIN k2
    BY SetGrows
  <1>5. WorkReady(more, k2)
    <2> HIDE DEF k2
    <2> QED BY <1>1, <1>4, ValuesReady
  <1>6. EmitsCount(fd, item.at, b, more, kept, k2, empty)
    <2>1. \A j \in 1..Len(more) : SameItem(more[j], Value(fd, item.at, Nothing))
      <3> SUFFICES ASSUME NEW j \in 1..Len(more)
                   PROVE  SameItem(more[j], Value(fd, item.at, Nothing))
        OBVIOUS
      <3>1. PICK v : more[j] = Value(fd, item.at, v)
        OBVIOUS
      <3> QED BY <3>1 DEF SameItem, Value
    <2> QED BY <1>2, <2>1 DEF EmitsCount
  <1> HIDE DEF b, k2
  <1>7. Emitted(item, b, more, kept, k2)
    BY <1>6 DEF Emitted, EmptyFor
  <1>8. Emit(b, more, raw2, k2)
    BY DEF b, k2
  <1> QED BY <1>3, <1>4, <1>5, <1>7, <1>8, EmitEncodes

LEMMA EncoderList ==
  ASSUME Coding, PackList PROVE EncoderSteps
  <1> DEFINE fd == item.u.fd
             max == MaxOf(fd.countBits)
             eff == EffectiveStrategy(fd)
  <1>1. /\ item.op = "unit" /\ item.u.unit = "field" /\ fd.card = "repeated"
        /\ Form(item) = "list"
    BY DEF PackList, PackingField, Packing, Form
  <1>2. FieldOK(fd) /\ max \in Nat
    BY <1>1, MaxType DEF Coding, ItemOK, UnitOK, FieldOK, FieldWidths
  <1>3. PICK s \in SeqOf(ValuesOf(fd), MaxCount) :
          LET k == KeepList(s, max, eff)
          IN \/ Fail("PackError")
             \/ Emit(LowBits(Len(k), fd.countBits),
                     [j \in 1..Len(k) |-> Value(fd, item.at, k[j])],
                     SetAt(raw, item.at, s), SetAt(kept, item.at, <<>>))
    BY DEF PackList
  <1>4. IsSeq(s) /\ Len(s) \in Nat /\ \A i \in 1..Len(s) : s[i] \in ValuesOf(fd)
    BY ByteSizeType, SeqOfFacts
  <1> DEFINE k == KeepList(s, max, eff)
             more == [j \in 1..Len(k) |-> Value(fd, item.at, k[j])]
  <1>5. PICK n \in 0..max : Part(k, s, n)
    <2> HIDE DEF max, eff
    <2> QED BY <1>2, <1>4, KeepListFits
  <1>6. Len(k) = n /\ n \in Nat /\ n <= max /\ \A j \in 1..n : k[j] \in ValuesOf(fd)
    <2> HIDE DEF max, k
    <2> QED BY <1>2, <1>4, <1>5 DEF Part
  <1>7. /\ IsSeq(more) /\ Len(more) = Len(k)
        /\ \A j \in 1..Len(more) : \E v : /\ more[j] = Value(fd, item.at, v)
                                          /\ ValueOK(fd, v)
    <2> HIDE DEF k
    <2>1. IsSeq(more) /\ Len(more) = n
      BY <1>6, FunctionIsSeq
    <2>2. \A j \in 1..n : more[j] = Value(fd, item.at, k[j]) /\ ValueOK(fd, k[j])
      BY <1>1, <1>6 DEF ValueOK
    <2> QED BY <1>6, <2>1, <2>2
  <1>8. \/ Fail("PackError")
        \/ Emit(LowBits(Len(k), fd.countBits), more, SetAt(raw, item.at, s), SetAt(kept, item.at, <<>>))
    BY <1>3
  <1> HIDE DEF k, more
  <1>9. CASE Emit(LowBits(Len(k), fd.countBits), more, SetAt(raw, item.at, s), SetAt(kept, item.at, <<>>))
    <2>1. Emit(LowBits(Len(more), fd.countBits), more, SetAt(raw, item.at, s), SetAt(kept, item.at, <<>>))
      BY <1>7, <1>9
    <2>2. Len(more) <= MaxOf(fd.countBits)
      BY <1>6, <1>7
    <2>3. EmptyFor(item, <<>>)
      BY <1>1 DEF EmptyFor
    <2> QED BY <1>1, <1>7, <2>1, <2>2, <2>3, EncodeCount
  <1> QED BY <1>8, <1>9, FailStops

LEMMA EncoderMap ==
  ASSUME Coding, PackMap PROVE EncoderSteps
  <1> DEFINE fd == item.u.fd
             max == MaxOf(fd.countBits)
  <1>1. /\ item.op = "unit" /\ item.u.unit = "field" /\ fd.card = "map"
        /\ Form(item) = "map"
    BY DEF PackMap, PackingField, Packing, Form
  <1>2. FieldOK(fd) /\ max \in Nat
    BY <1>1, MaxType DEF Coding, ItemOK, UnitOK, FieldOK, FieldWidths
  <1>3. PICK keys \in SeqOf(KeysOf(fd), MaxCount) : \E vals \in [1..Len(keys) -> ValuesOf(fd)] :
          LET entries == [j \in 1..Len(keys) |-> Value(fd, item.at, <<keys[j], vals[j]>>)]
              n == IF Len(keys) > max THEN max ELSE Len(keys)
          IN \/ Fail("PackError")
             \/ \E raw2 : Emit(LowBits(n, fd.countBits), KeepFirst(entries, n), raw2,
                               SetAt(kept, item.at, {}))
    BY DEF PackMap
  <1>4. IsSeq(keys) /\ Len(keys) \in Nat /\ \A i \in 1..Len(keys) : keys[i] \in KeysOf(fd)
    BY ByteSizeType, SeqOfFacts
  <1> PICK vals \in [1..Len(keys) -> ValuesOf(fd)] :
          LET entries == [j \in 1..Len(keys) |-> Value(fd, item.at, <<keys[j], vals[j]>>)]
              n == IF Len(keys) > max THEN max ELSE Len(keys)
          IN \/ Fail("PackError")
             \/ \E raw2 : Emit(LowBits(n, fd.countBits), KeepFirst(entries, n), raw2,
                               SetAt(kept, item.at, {}))
    BY <1>3
  <1> DEFINE entries == [j \in 1..Len(keys) |-> Value(fd, item.at, <<keys[j], vals[j]>>)]
             n == IF Len(keys) > max THEN max ELSE Len(keys)
             more == KeepFirst(entries, n)
  <1>5. \/ Fail("PackError")
        \/ \E raw2 : Emit(LowBits(n, fd.countBits), more, raw2, SetAt(kept, item.at, {}))
    OBVIOUS
  <1>6. IsSeq(entries) /\ Len(entries) = Len(keys)
        /\ \A j \in 1..Len(keys) : /\ entries[j] = Value(fd, item.at, <<keys[j], vals[j]>>)
                                   /\ ValueOK(fd, <<keys[j], vals[j]>>)
    <2>1. \A j \in 1..Len(keys) : ValueOK(fd, <<keys[j], vals[j]>>)
      BY <1>1, <1>4 DEF ValueOK
    <2>2. IsSeq(entries) /\ Len(entries) = Len(keys)
      BY <1>4, FunctionIsSeq
    <2> QED BY <2>1, <2>2
  <1>7. n \in Nat /\ n <= max /\ n <= Len(keys)
    <2> HIDE DEF max
    <2> QED BY <1>2, <1>4
  <1> HIDE DEF n, entries
  <1>8. Part(more, entries, n)
    BY <1>6, <1>7, KeepFacts
  <1> HIDE DEF more
  <1>9. /\ IsSeq(more) /\ Len(more) = n
        /\ \A j \in 1..Len(more) : \E v : /\ more[j] = Value(fd, item.at, v)
                                          /\ ValueOK(fd, v)
    <2>1. ASSUME NEW j \in 1..n
          PROVE  \E v : more[j] = Value(fd, item.at, v) /\ ValueOK(fd, v)
      <3>1. PICK i \in 1..Len(keys) : more[j] = entries[i]
        BY <1>6, <1>8 DEF Part
      <3> QED BY <1>6, <3>1
    <2> QED BY <1>8, <2>1 DEF Part
  <1>10. ASSUME NEW raw2, Emit(LowBits(n, fd.countBits), more, raw2, SetAt(kept, item.at, {}))
         PROVE  EncoderSteps
    <2>1. Emit(LowBits(Len(more), fd.countBits), more, raw2, SetAt(kept, item.at, {}))
      BY <1>9, <1>10
    <2>2. Len(more) <= MaxOf(fd.countBits)
      BY <1>7, <1>9
    <2>3. EmptyFor(item, {})
      BY <1>1 DEF EmptyFor
    <2> QED BY <1>1, <1>9, <2>1, <2>2, <2>3, EncodeCount
  <1> QED BY <1>5, <1>10, FailStops

LEMMA EncoderOneof ==
  ASSUME Coding, PackOneof PROVE EncoderSteps
  <1> DEFINE u == item.u
  <1>1. item.op = "unit" /\ u.unit = "oneof" /\ Form(item) = "oneof"
    BY DEF PackOneof, Packing, Form
  <1>2. /\ IsSeq(item.at) /\ u.selectorBits \in Nat
        /\ \A j \in 1..Len(u.fields) : MemberOK(u.fields[j])
    BY <1>1 DEF Coding, ItemOK, UnitOK
  <1>3. DOMAIN kept \subseteq DOMAIN kept
    OBVIOUS
  <1>4. CASE Emit(LowBits(0, u.selectorBits), <<>>, raw, kept) /\ 0 \in 0..Len(u.fields)
    <2>1. EmitsOneof(u, item.at, LowBits(0, u.selectorBits), <<>>, kept, kept)
      BY <1>4 DEF EmitsOneof
    <2>2. Emitted(item, LowBits(0, u.selectorBits), <<>>, kept, kept)
      BY <1>1, <2>1 DEF Emitted
    <2>3. IsSeq(LowBits(0, u.selectorBits))
      BY <1>2, LowBitsFacts
    <2> QED BY <1>3, <1>4, <2>2, <2>3, NothingReady, EmitEncodes
  <1>5. ASSUME NEW n \in 0..Len(u.fields), n > 0, NEW v \in ValuesOf(u.fields[n]),
               Emit(LowBits(n, u.selectorBits),
                    <<Value(u.fields[n], Append(item.at, n), v)>>, raw, kept)
        PROVE  EncoderSteps
    <2> DEFINE fd == u.fields[n]
               b == LowBits(n, u.selectorBits)
               more == <<Value(fd, Append(item.at, n), v)>>
    <2>1. EmitsOneof(u, item.at, b, more, kept, kept)
      BY <1>5 DEF EmitsOneof
    <2>2. Emitted(item, b, more, kept, kept)
      BY <1>1, <2>1 DEF Emitted
    <2>3. n \in 1..Len(u.fields) /\ n \in Nat
      BY <1>5
    <2>4. IsSeq(b)
      BY <1>2, <2>3, LowBitsFacts
    <2>5. WorkReady(more, kept)
      <3>1. FieldOK(fd) /\ fd.card = "singular"
        BY <1>2, <2>3 DEF MemberOK
      <3>2. ValueOK(fd, v)
        BY <3>1 DEF ValueOK
      <3>3. IsSeq(Append(item.at, n))
        BY <1>2, AppendFacts
      <3> HIDE DEF fd
      <3> QED BY <3>1, <3>2, <3>3, ValueReady
    <2> HIDE DEF b, more
    <2>6. Emit(b, more, raw, kept)
      BY <1>5 DEF b, more
    <2> QED BY <1>3, <2>2, <2>4, <2>5, <2>6, EmitEncodes
  <1> QED BY <1>4, <1>5 DEF PackOneof

LEMMA EncoderValue ==
  ASSUME Coding, PackValue PROVE EncoderSteps
  <1> DEFINE fd == item.u
             v == Keep(fd, item.v)
             b == ScalarBits(fd, v)
             k2 == Store(kept, fd, item.at, v)
  <1>1. /\ item.op = "value" /\ fd.kind # "message" /\ fd.card # "map" /\ Form(item) = "value"
        /\ Fail("PackError") \/ \E raw2 : Emit(b, <<>>, raw2, k2)
    BY DEF PackValue, Packing, Form
  <1>2. FieldOK(fd) /\ ValueOK(fd, item.v)
    BY <1>1 DEF Coding, ItemOK
  <1>3. FieldWidths(fd) /\ ScalarKind(fd) /\ item.v \in ValuesOf(fd)
    BY <1>1, <1>2 DEF FieldOK, IsField, ScalarKind, ValueOK
  <1>4. Fits(fd, v)
    BY <1>2, <1>3, KeepFits DEF FieldWidths, FieldOK, ScalarKind
  <1>5. IsSeq(b)
    <2> HIDE DEF v
    <2> QED BY <1>3, <1>4, ScalarBitsSeq
  <1>6. EmitsValue(fd, item.at, b, <<>>, kept, k2)
    BY <1>4 DEF EmitsValue
  <1>7. DOMAIN kept \subseteq DOMAIN k2
    BY StoreFacts
  <1> HIDE DEF b, k2
  <1>8. Emitted(item, b, <<>>, kept, k2)
    BY <1>1, <1>6 DEF Emitted
  <1>9. ASSUME NEW raw2, Emit(b, <<>>, raw2, k2) PROVE EncoderSteps
    BY <1>5, <1>7, <1>8, <1>9, NothingReady, EmitEncodes
  <1> QED BY <1>1, <1>9, FailStops

LEMMA MapValueFacts ==
  ASSUME NEW fd, IsField(fd)
  PROVE  /\ MapValue(fd).kind = fd.kind /\ MapValue(fd).bits = fd.bits
         /\ MapValue(fd).lengthBits = fd.lengthBits
         /\ ValuesOf(MapValue(fd)) = ValuesOf(fd)
         /\ \A v : /\ ScalarBits(MapValue(fd), v) = ScalarBits(fd, v)
                   /\ Fits(MapValue(fd), v) <=> Fits(fd, v)
  <1>1. {"card", "kind", "bits", "lengthBits", "overflow"} \subseteq DOMAIN fd
    BY DEF IsField
  <1>2. /\ MapValue(fd).kind = fd.kind /\ MapValue(fd).bits = fd.bits
        /\ MapValue(fd).lengthBits = fd.lengthBits
    BY <1>1 DEF MapValue
  <1>3. ValuesOf(MapValue(fd)) = ValuesOf(fd)
    BY <1>2 DEF ValuesOf
  <1>4. ASSUME NEW v
        PROVE  /\ ScalarBits(MapValue(fd), v) = ScalarBits(fd, v)
               /\ Fits(MapValue(fd), v) <=> Fits(fd, v)
    BY <1>2 DEF ScalarBits, Fits
  <1> QED BY <1>2, <1>3, <1>4

LEMMA EncoderEntry ==
  ASSUME Coding, PackEntry PROVE EncoderSteps
  <1> DEFINE fd == item.u
             val == MapValue(fd)
             units == UnitItems(fd.type, item.at)
  <1>1. item.op = "value" /\ fd.card = "map" /\ Form(item) = "entry"
    BY DEF PackEntry, Packing, Form
  <1>2. IsSeq(item.at) /\ FieldOK(fd) /\ ValueOK(fd, item.v)
    BY <1>1 DEF Coding, ItemOK
  <1>3. PICK k \in KeysOf(fd), w \in ValuesOf(fd) : item.v = <<k, w>>
    BY <1>1, <1>2 DEF ValueOK
  <1>4. item.v[1] = k /\ item.v[2] = w
    BY <1>3
  <1> DEFINE kb == KeyBitsOf(fd, k)
             v == Keep(val, w)
             b == kb \o ScalarBits(val, v)
             k2 == Store(kept, fd, item.at, <<k, v>>)
  <1>5. IsSeq(kb)
    BY <1>2, KeyBitsSeq DEF FieldOK, IsField
  <1>6. \/ /\ fd.kind = "message"
           /\ \/ ValidMessage(Descriptor[fd.type]) /\ Emit(kb, units, raw, kept)
              \/ Fail("ValidationError")
        \/ /\ fd.kind # "message"
           /\ Fail("PackError") \/ Emit(b, <<>>, raw, k2)
    BY <1>4 DEF PackEntry
  <1>7. CASE fd.kind = "message"
    <2>1. fd.type \in DOMAIN Descriptor
      BY <1>2, <1>7 DEF FieldOK
    <2>2. ValidMessage(Descriptor[fd.type]) => WorkReady(units, kept)
      BY <1>2, <2>1, UnitsReady
    <2> HIDE DEF units
    <2>3. Emitted(item, kb, units, kept, kept)
      <3>1. EmitsEntry(fd, item.at, kb, units, kept, kept)
        BY <1>7 DEF EmitsEntry, units
      <3> HIDE DEF kb
      <3> QED BY <1>1, <3>1 DEF Emitted
    <2> HIDE DEF kb
    <2>4. DOMAIN kept \subseteq DOMAIN kept
      OBVIOUS
    <2>5. \/ ValidMessage(Descriptor[fd.type]) /\ Emit(kb, units, raw, kept)
          \/ Fail("ValidationError")
      BY <1>6, <1>7
    <2> QED BY <1>5, <2>2, <2>3, <2>4, <2>5, EmitEncodes, FailStops
  <1>8. CASE fd.kind # "message"
    <2>1. /\ FieldWidths(fd) /\ ScalarKind(fd) /\ IsField(fd)
          /\ fd.kind = "bytes" => fd.lengthBits > 0
      BY <1>2, <1>8 DEF FieldOK, IsField, ScalarKind
    <2>2. Fits(val, v)
      <3>1. /\ val.kind = fd.kind /\ val.bits = fd.bits /\ val.lengthBits = fd.lengthBits
            /\ w \in ValuesOf(val)
        BY <2>1, MapValueFacts
      <3> HIDE DEF val
      <3> QED BY <2>1, <3>1, KeepFits DEF FieldWidths, ScalarKind
    <2> HIDE DEF v
    <2>3. Fits(fd, v) /\ ScalarBits(val, v) = ScalarBits(fd, v)
      BY <2>1, <2>2, MapValueFacts
    <2> HIDE DEF val
    <2>4. IsSeq(ScalarBits(fd, v))
      BY <2>1, <2>3, ScalarBitsSeq
    <2>5. IsSeq(b)
      BY <1>5, <2>3, <2>4, ConcatFacts
    <2>6. EmitsEntry(fd, item.at, b, <<>>, kept, k2)
      BY <1>8, <2>3 DEF EmitsEntry
    <2>7. DOMAIN kept \subseteq DOMAIN k2
      BY StoreFacts
    <2> HIDE DEF b, k2
    <2>8. Emitted(item, b, <<>>, kept, k2)
      BY <1>1, <2>6 DEF Emitted
    <2>9. Fail("PackError") \/ Emit(b, <<>>, raw, k2)
      BY <1>6, <1>8
    <2> QED BY <2>5, <2>7, <2>8, <2>9, NothingReady, EmitEncodes, FailStops
  <1> QED BY <1>7, <1>8

LEMMA EncoderNested ==
  ASSUME Coding, PackNested PROVE EncoderSteps
  <1> DEFINE fd == item.u
             place == PlaceOf(kept, fd, item.at)
             units == UnitItems(fd.type, place)
             k2 == Store(kept, fd, item.at, Present)
  <1>1. item.op = "value" /\ fd.card # "map" /\ fd.kind = "message" /\ Form(item) = "nested"
    BY DEF PackNested, Packing, Form
  <1>2. IsSeq(item.at) /\ fd.type \in DOMAIN Descriptor
    BY <1>1 DEF Coding, ItemOK, FieldOK
  <1>3. IsSeq(place)
    BY <1>2, AppendFacts DEF PlaceOf
  <1>4. \/ /\ ValidMessage(Descriptor[fd.type])
           /\ \E raw2 : Emit(<<>>, units, raw2, k2)
        \/ Fail("ValidationError")
    BY DEF PackNested
  <1>5. ValidMessage(Descriptor[fd.type]) => WorkReady(units, k2)
    <2> HIDE DEF place, k2
    <2> QED BY <1>2, <1>3, UnitsReady
  <1>6. ValidMessage(Descriptor[fd.type]) => EmitsNested(fd, item.at, <<>>, units, kept, k2)
    BY DEF EmitsNested
  <1>7. DOMAIN kept \subseteq DOMAIN k2
    BY StoreFacts
  <1> HIDE DEF units, k2
  <1>8. ValidMessage(Descriptor[fd.type]) => Emitted(item, <<>>, units, kept, k2)
    BY <1>1, <1>6 DEF Emitted
  <1>9. ASSUME NEW raw2, ValidMessage(Descriptor[fd.type]), Emit(<<>>, units, raw2, k2)
        PROVE  EncoderSteps
    BY <1>5, <1>7, <1>8, <1>9, EmptyIsSeq, EmitEncodes
  <1> QED BY <1>4, <1>9, FailStops

LEMMA EncoderStep ==
  ASSUME Coding, Pack PROVE EncoderSteps
  BY EncoderScalar, EncoderTimestamp, EncoderMessage, EncoderList, EncoderMap, EncoderOneof,
     EncoderValue, EncoderEntry, EncoderNested DEF Pack

-----------------------------------------------------------------------------
(* The inductive invariant: the encoder has a history, and the decoder is  *)
(* somewhere in it.                                                        *)

PackedIn(W, K) == /\ History(W, K, marks, bits)
                /\ W[1] = UnitItems(root, <<>>) /\ K[1] = Nothing

Delivered == /\ IsSeq(data)
             /\ \A p \in 1..Len(bits) : p <= Len(data) => data[p] = bits[p]

DecoderAt(W, K) ==
  /\ step \in 0..Len(marks)
  /\ pos = StartOf(marks, bits, step + 1) /\ pos <= Len(data)
  /\ Matches(work, W[step + 1]) /\ Stacked(work)
  /\ OutIs(out, Pending(work), K[step + 1])

Traced(W, K) == PackedIn(W, K) /\ W[Len(marks) + 1] = work /\ K[Len(marks) + 1] = kept

Reading(W, K) == /\ Delivered /\ PackedIn(W, K) /\ DecoderAt(W, K)
                 /\ W[Len(marks) + 1] = <<>> /\ K[Len(marks) + 1] = kept

Untouched == pos = 0 /\ step = 0 /\ out = Nothing

EncoderInv ==
  /\ root \in Roots
  /\ phase = "start" => Untouched /\ bits = <<>> /\ marks = <<>> /\ kept = Nothing
  /\ phase = "packing" =>
       Untouched /\ WorkReady(work, kept) /\ \E W, K : Traced(W, K)

(* The decoder has come by none of the items that it never takes. *)
Passable(it) == ~EntryIsMessage(it) /\ ~ListIsInvalid(it)

AllPassable == \A j \in 1..step : Passable(marks[j])

DecoderInv ==
  /\ phase = "unpacking" => AllPassable /\ \E W, K : Reading(W, K)
  /\ phase = "unpacked" => out = kept /\ Whole

LEMMA RootType == ASSUME EncoderInv PROVE root \in DOMAIN Descriptor
  BY DescriptorAssumption DEF EncoderInv

LEMMA InitInv == Init => EncoderInv /\ DecoderInv
  BY DEF Init, EncoderInv, DecoderInv, Untouched

LEMMA StartInv == ASSUME EncoderInv, StartPack PROVE EncoderInv'
  <1>1. phase = "start" /\ root' = root /\ root \in Roots
    BY DEF StartPack, Fail, FailWith, EncoderInv
  <1>2. CASE ~ValidMessage(Descriptor[root])
    <2>1. phase' = "ValidationError"
      BY <1>2 DEF StartPack, Fail, FailWith
    <2> QED BY <1>1, <2>1 DEF EncoderInv
  <1>3. CASE ValidMessage(Descriptor[root])
    <2> DEFINE units == UnitItems(root, <<>>)
    <2>1. /\ phase' = "packing" /\ work' = units
          /\ UNCHANGED <<pos, step, out, bits, marks, kept>>
      BY <1>3 DEF StartPack, packVars, unpackVars
    <2>2. Untouched' /\ bits' = <<>> /\ marks' = <<>> /\ kept' = Nothing
      BY <1>1, <2>1 DEF EncoderInv, Untouched
    <2>3. IsSeq(<<>>) /\ Len(<<>>) = 0
      BY EmptyIsSeq
    <2>4. WorkReady(units, Nothing) /\ IsSeq(units)
      BY <1>3, <2>3, RootType, UnitsReady DEF WorkReady, WorkOK
    <2> HIDE DEF units
    <2>5. PICK W, K : History(W, K, <<>>, <<>>) /\ W[1] = units /\ K[1] = Nothing
      <3> DEFINE W == [n \in {1} |-> units]
                 K == [n \in {1} |-> Nothing]
      <3>1. History(W, K, <<>>, <<>>)
        BY <2>4, HistoryStarts
      <3>2. W[1] = units /\ K[1] = Nothing
        OBVIOUS
      <3> QED BY <3>1, <3>2, Zenon
    <2>6. 0 + 1 = 1
      OBVIOUS
    <2>7. PackedIn(W, K)'
      BY <1>1, <2>2, <2>5 DEF PackedIn, units
    <2>8. W[Len(marks') + 1] = work' /\ K[Len(marks') + 1] = kept'
      BY <2>1, <2>2, <2>3, <2>5, <2>6
    <2>9. WorkReady(work', kept')
      BY <2>1, <2>2, <2>4
    <2>10. Traced(W, K)'
      BY <2>7, <2>8 DEF Traced
    <2> QED BY <1>1, <2>1, <2>2, <2>9, <2>10 DEF EncoderInv
  <1> QED BY <1>2, <1>3

LEMMA PackPhase == ASSUME Pack PROVE phase = "packing" /\ work # <<>> /\ root' = root
  BY DEF Pack, PackScalar, PackTimestamp, PackMessage, PackList, PackMap, PackOneof, PackValue,
         PackEntry, PackNested, PackingField, Packing, Emit, Fail, FailWith

LEMMA ItemReady ==
  ASSUME EncoderInv, phase = "packing", work # <<>>
  PROVE  ItemOK(item) /\ Opened(item, kept) /\ IsSeq(work)
  <1>1. WorkReady(work, kept) /\ IsSeq(work)
    BY DEF EncoderInv, WorkReady, WorkOK
  <1>2. item = work[1] /\ 1 \in 1..Len(work)
    <2>1. Head(work) = work[1] /\ Len(work) \in Nat \ {0}
      BY <1>1, TailFacts
    <2> QED BY <2>1 DEF item
  <1> QED BY <1>1, <1>2 DEF WorkReady, WorkOK

(* The history goes on; what is behind it stays.                           *)
Goes(W2, K2, W, K) == /\ Traced(W2, K2)'
                      /\ \A n \in 1..(Len(marks) + 1) : W2[n] = W[n] /\ K2[n] = K[n]

GoesOn(W, K) == \E W2, K2 : Goes(W2, K2, W, K)

LEMMA TraceGrows ==
  ASSUME NEW W, NEW K, Traced(W, K), Coding, NEW b, NEW more, Encodes(b, more)
  PROVE  GoesOn(W, K) /\ IsSeq(marks) /\ Len(marks') = Len(marks) + 1
  <1>1. /\ phase' = "packing" /\ bits' = bits \o b /\ work' = more \o Tail(work)
        /\ marks' = Append(marks, Mark) /\ IsSeq(b) /\ IsSeq(more) /\ root' = root
        /\ Emitted(item, b, more, kept, kept')
    BY DEF Encodes, WorkReady, WorkOK
  <1>2. SameItem(Mark, Head(work)) /\ Mark.pos = Len(bits)
    BY DEF SameItem, Mark, item
  <1>3. /\ History(W, K, marks, bits) /\ W[1] = UnitItems(root, <<>>) /\ K[1] = Nothing
        /\ W[Len(marks) + 1] = work /\ K[Len(marks) + 1] = kept
    BY DEF Traced, PackedIn
  <1>4. PICK W2, K2 : /\ History(W2, K2, Append(marks, Mark), bits \o b)
                      /\ \A n \in 1..(Len(marks) + 1) : W2[n] = W[n] /\ K2[n] = K[n]
                      /\ W2[Len(marks) + 2] = more \o Tail(work) /\ K2[Len(marks) + 2] = kept'
    <2> DEFINE mark == Mark
               k2 == kept'
    <2>1. Continues(W, K, marks, bits, work, mark, b, more, k2)
      BY <1>1, <1>2, <1>3 DEF item, Continues, Coding
    <2> HIDE DEF mark, k2
    <2>2. Continued(W, K, marks, bits, work, mark, b, more, k2)
      BY <1>3, <2>1, HistoryGrows, Zenon
    <2> QED BY <2>2 DEF Continued, mark, k2
  <1>5. IsSeq(marks) /\ Len(marks') = Len(marks) + 1 /\ Len(marks') + 1 = Len(marks) + 2
        /\ 1 \in 1..(Len(marks) + 1)
    <2>1. IsSeq(marks)
      BY <1>3 DEF History
    <2>2. Len(marks') = Len(marks) + 1 /\ Len(marks) \in Nat
      BY <1>1, <2>1, AppendFacts, SeqFacts
    <2> QED BY <2>1, <2>2
  <1>6. W2[1] = UnitItems(root, <<>>) /\ K2[1] = Nothing
    BY <1>3, <1>4, <1>5
  <1>7. PackedIn(W2, K2)'
    BY <1>1, <1>4, <1>6 DEF PackedIn
  <1>8. Traced(W2, K2)'
    BY <1>1, <1>4, <1>5, <1>7 DEF Traced
  <1>9. Goes(W2, K2, W, K)
    BY <1>4, <1>8 DEF Goes
  <1> QED BY <1>5, <1>9 DEF GoesOn

LEMMA PackInv == ASSUME EncoderInv, Pack PROVE EncoderInv'
  <1>1. phase = "packing" /\ work # <<>> /\ root' = root
    BY PackPhase
  <1>2. Untouched /\ WorkReady(work, kept) /\ root \in Roots
    BY <1>1 DEF EncoderInv
  <1>3. ItemOK(item) /\ Opened(item, kept) /\ IsSeq(work)
    BY <1>1, ItemReady
  <1>4. EncoderSteps
    BY <1>1, <1>3, EncoderStep DEF Coding
  <1>5. CASE phase' \in {"PackError", "ValidationError"}
    BY <1>1, <1>2, <1>5 DEF EncoderInv
  <1>6. ASSUME NEW b, NEW more, Encodes(b, more) PROVE EncoderInv'
    <2> PICK W, K : Traced(W, K)
      BY <1>1 DEF EncoderInv
    <2>1. /\ phase' = "packing" /\ work' = more \o Tail(work)
          /\ IsSeq(more) /\ WorkReady(more, kept') /\ DOMAIN kept \subseteq DOMAIN kept'
      BY <1>6 DEF Encodes, WorkReady, WorkOK
    <2>2. Untouched'
      BY <1>2, <1>6 DEF Untouched, Encodes
    <2>3. GoesOn(W, K)
      BY <1>1, <1>3, <1>6, TraceGrows DEF Coding
    <2>4. PICK W2, K2 : Traced(W2, K2)'
      BY <2>3 DEF GoesOn, Goes
    <2>8. WorkReady(work', kept')
      <3>1. IsSeq(Tail(work)) /\ Len(Tail(work)) \in Nat /\ Len(more) \in Nat
        BY <1>1, <1>3, <2>1, TailFacts, SeqFacts
      <3>2. \A i \in 1..Len(Tail(work)) : ItemOK(Tail(work)[i]) /\ Opened(Tail(work)[i], kept')
        <4> SUFFICES ASSUME NEW i \in 1..Len(Tail(work))
                     PROVE  ItemOK(Tail(work)[i]) /\ Opened(Tail(work)[i], kept')
          OBVIOUS
        <4>1. Tail(work)[i] = work[i + 1] /\ i + 1 \in 1..Len(work)
          BY <1>1, <1>3, TailFacts
        <4>2. ItemOK(work[i + 1]) /\ Opened(work[i + 1], kept)
          BY <1>2, <4>1 DEF WorkReady, WorkOK
        <4> QED BY <2>1, <4>1, <4>2 DEF Opened
      <3>3. \A i \in 1..Len(more) : ItemOK(more[i]) /\ Opened(more[i], kept')
        BY <2>1 DEF WorkReady, WorkOK
      <3>4. /\ IsSeq(work') /\ Len(work') = Len(more) + Len(Tail(work))
            /\ \A i \in 1..Len(more) : work'[i] = more[i]
            /\ \A i \in 1..Len(Tail(work)) : work'[Len(more) + i] = Tail(work)[i]
        BY <2>1, <3>1, ConcatFacts
      <3>5. ASSUME NEW i \in 1..Len(work') PROVE ItemOK(work'[i]) /\ Opened(work'[i], kept')
        <4>1. CASE i \in 1..Len(more)
          BY <3>3, <3>4, <4>1
        <4>2. CASE ~(i \in 1..Len(more))
          <5> PICK j : j = i - Len(more)
            OBVIOUS
          <5>1. j \in 1..Len(Tail(work)) /\ i = Len(more) + j
            BY <3>1, <3>4, <4>2
          <5> QED BY <3>2, <3>4, <5>1
        <4> QED BY <4>1, <4>2
      <3> QED BY <3>4, <3>5 DEF WorkReady, WorkOK
    <2> QED BY <1>1, <1>2, <2>1, <2>2, <2>4, <2>8 DEF EncoderInv
  <1> QED BY <1>4, <1>5, <1>6 DEF EncoderSteps

LEMMA DeliverAt ==
  ASSUME EncoderInv, Deliver, NEW W, NEW K, Traced(W, K) PROVE Reading(W, K)'
  <1>1. /\ phase = "packing" /\ work = <<>> /\ phase' = "unpacking"
        /\ work' = UnitItems(root, <<>>)
        /\ UNCHANGED <<root, bits, kept, marks, pos, out, step>>
    BY DEF Deliver, DeliverTo, packVars
  <1>2. Untouched /\ root \in Roots
    BY <1>1 DEF EncoderInv
  <1> USE DEF Traced
  <1>3. /\ IsSeq(marks) /\ IsSeq(bits) /\ Len(marks) \in Nat /\ Len(bits) \in Nat
        /\ IsSeq(W[1]) /\ StartOf(marks, bits, 1) \in 0..Len(bits)
    <2>1. IsSeq(marks) /\ IsSeq(bits)
      BY DEF PackedIn, History
    <2>2. Len(marks) \in Nat /\ Len(bits) \in Nat /\ 1 \in 1..(Len(marks) + 1)
      BY <2>1, SeqFacts
    <2> QED BY <2>1, <2>2 DEF PackedIn, History
  <1>4. PackedIn(W, K)' /\ W[Len(marks') + 1] = <<>> /\ K[Len(marks') + 1] = kept'
    BY <1>1 DEF PackedIn
  <1>5. Delivered' /\ Len(data') \in Nat
    <2>1. PICK l \in Nat : data' = [p \in 1..l |-> IF p <= Len(bits) THEN bits[p] ELSE 0]
      <3>1. PICK n \in 0..Bytes : data' = [p \in 1..(n * ByteSize) |->
                                             IF p <= Len(bits) THEN bits[p] ELSE 0]
        BY DEF Deliver, DeliverTo
      <3>2. n * ByteSize \in Nat
        <4> PICK m \in Nat \ {0} : m = ByteSize
          BY ByteSizeType
        <4>1. n \in Nat
          OBVIOUS
        <4>2. n * m \in Nat
          BY <4>1
        <4> QED BY <4>2
      <3> QED BY <3>1, <3>2
    <2>2. IsSeq(data') /\ Len(data') = l
      BY <2>1, FunctionIsSeq
    <2>3. \A p \in 1..Len(bits) : p <= l => data'[p] = bits[p]
      BY <1>3, <2>1
    <2> QED BY <1>1, <2>2, <2>3 DEF Delivered
  <1>6. DecoderAt(W, K)'
    <2> DEFINE units == UnitItems(root, <<>>)
    <2>1. W[1] = units /\ K[1] = Nothing
      BY DEF PackedIn
    <2>2. Fresh(units, units, <<>>, {})
      <3>1. IsSeq(<<>>) /\ Len(<<>>) >= Len(<<>>)
        BY EmptyIsSeq
      <3> QED BY <3>1, RootType, FreshUnits
    <2> HIDE DEF units
    <2>3. Matches(units, W[1]) /\ Stacked(units) /\ OutIs(Nothing, Pending(units), K[1])
      BY <2>1, <2>2, OutIsNothing DEF Fresh
    <2>4. pos' = 0 /\ step' = 0 /\ out' = Nothing /\ work' = units /\ 0 + 1 = 1
      BY <1>1, <1>2 DEF Untouched, units
    <2>5. 0 \in 0..Len(marks)
      BY <1>3
    <2>6. StartOf(marks, bits, 1) = 0
      BY DEF PackedIn, History
    <2>7. 0 <= Len(data')
      BY <1>5
    <2> QED BY <1>1, <2>3, <2>4, <2>5, <2>6, <2>7 DEF DecoderAt
  <1> QED BY <1>4, <1>5, <1>6 DEF Reading

LEMMA DeliverInv == ASSUME EncoderInv, Deliver PROVE DecoderInv'
  <1>1. phase = "packing" /\ phase' = "unpacking"
    BY DEF Deliver, DeliverTo
  <1> PICK W, K : Traced(W, K)
    BY <1>1 DEF EncoderInv
  <1>2. Reading(W, K)'
    BY DeliverAt
  <1>3. AllPassable'
    <2>1. step' = step /\ step = 0
      BY <1>1 DEF Deliver, DeliverTo, EncoderInv, Untouched
    <2> QED BY <2>1 DEF AllPassable
  <1> QED BY <1>1, <1>2, <1>3 DEF DecoderInv

LEMMA UnpackPhase == ASSUME Unpack PROVE phase = "unpacking" /\ work # <<>>
  BY DEF Unpack, UnpackScalar, UnpackTimestamp, UnpackMessage, UnpackList, UnpackMap, UnpackOneof,
         UnpackValue, UnpackEntry, UnpackNested, UnpackElementEnd, UnpackingField, Unpacking

(* The decoder has come to an item of its own: the encoder's, at its bit. *)
LEMMA AtItem ==
  ASSUME NEW W, NEW K, PackedIn(W, K), W[Len(marks) + 1] = <<>>, DecoderAt(W, K),
         work # <<>>, ~IsEnd(item)
  PROVE  LET n == step + 1
         IN /\ step \in Nat /\ n \in 1..Len(marks) /\ n + 1 \in 1..(Len(marks) + 1)
            /\ StartOf(marks, bits, n + 1) \in 0..Len(bits)
            /\ Encoded(W[n], K[n], W[n + 1], K[n + 1], marks[n], bits, pos,
                       StartOf(marks, bits, n + 1))
            /\ pos = marks[n].pos
            /\ SameItem(item, Head(W[n])) /\ SameItem(marks[n], item)
            /\ Matches(Tail(work), Tail(W[n]))
  <1> DEFINE n == step + 1
  <1>1. /\ History(W, K, marks, bits) /\ step \in 0..Len(marks) /\ Matches(work, W[n])
        /\ pos = StartOf(marks, bits, n)
    BY DEF PackedIn, DecoderAt
  <1>2. IsSeq(marks) /\ Len(marks) \in Nat
    BY <1>1, SeqFacts DEF History
  <1>3. W[n] # <<>> /\ SameItem(item, Head(W[n])) /\ Matches(Tail(work), Tail(W[n]))
    BY <1>1, MatchesHead DEF item
  <1>4. step # Len(marks)
    BY <1>3
  <1>5. step \in Nat /\ n \in 1..Len(marks) /\ n + 1 \in 1..(Len(marks) + 1)
    BY <1>1, <1>2, <1>4
  <1>6. /\ Encoded(W[n], K[n], W[n + 1], K[n + 1], marks[n], bits, pos,
                   StartOf(marks, bits, n + 1))
        /\ StartOf(marks, bits, n + 1) \in 0..Len(bits)
    BY <1>1, <1>5 DEF History
  <1>7. pos = marks[n].pos
    BY <1>1, <1>2, <1>5 DEF StartOf
  <1>8. SameItem(marks[n], item)
    BY <1>3, <1>6 DEF Encoded, SameItem
  <1> QED BY <1>3, <1>5, <1>6, <1>7, <1>8

(* What the decoder finds at an item is what the encoder wrote there. *)
LEMMA BitsAtItem ==
  ASSUME Delivered, IsSeq(bits), NEW b, IsSeq(b), NEW to, to \in 0..Len(bits),
         pos \in Nat, to = pos + Len(b), Written(bits, pos, b)
  PROVE  Holds(pos, b)
  <1>1. Len(b) \in Nat /\ Len(bits) \in Nat /\ IsSeq(data)
    BY SeqFacts DEF Delivered
  <1>2. ASSUME NEW i \in 1..Len(b), pos + i <= Len(data) PROVE data[pos + i] = b[i]
    <2>1. pos + i \in 1..Len(bits)
      BY <1>1
    <2>2. data[pos + i] = bits[pos + i]
      BY <1>2, <2>1 DEF Delivered
    <2> QED BY <2>2 DEF Written
  <1> QED BY <1>2 DEF Holds

LEMMA ElementEndAt ==
  ASSUME NEW W, NEW K, Reading(W, K), UnpackElementEnd
  PROVE  /\ Reading(W, K)' /\ phase' = "unpacking" /\ Kept /\ step' = step
         /\ Pending(work) = Pending(work') \cup {item.at} /\ item.at \notin Pending(work')
         /\ item.u.card = "repeated"
  <1>1. /\ phase = "unpacking" /\ work # <<>> /\ IsEnd(item) /\ phase' = "unpacking"
        /\ out' = Store(out, item.u, item.at, Present) /\ work' = Tail(work)
        /\ UNCHANGED <<root, bits, kept, marks, data, pos, step>>
    BY DEF UnpackElementEnd, Unpacking, IsEnd, packVars
  <1> USE DEF Reading
  <1>3. /\ Stacked(Tail(work)) /\ item.at \notin Pending(Tail(work))
        /\ item.u.card = "repeated" /\ Pending(work) = Pending(Tail(work)) \cup {item.at}
    BY <1>1, StackedTail DEF DecoderAt, item
  <1>4. Matches(Tail(work), W[step + 1])
    BY <1>1, MatchesAfterEnd DEF DecoderAt, item
  <1>5. OutIs(out', Pending(Tail(work)), K[step + 1])
    <2>1. OutIs(out, Pending(Tail(work)) \cup {item.at}, K[step + 1])
      BY <1>3 DEF DecoderAt
    <2> QED BY <1>1, <1>3, <2>1, OutIsEnded
  <1>6. DecoderAt(W, K)'
    BY <1>1, <1>3, <1>4, <1>5 DEF DecoderAt
  <1>7. PackedIn(W, K)' /\ Delivered' /\ W[Len(marks') + 1] = <<>> /\ K[Len(marks') + 1] = kept'
    BY <1>1 DEF PackedIn, Delivered
  <1> QED BY <1>1, <1>3, <1>6, <1>7 DEF Kept

(* What an item of the encoder leads to.                                   *)
Refuses ==
  /\ out' = out
  /\ \/ phase' = "ValidationError" /\ ListIsInvalid(item) /\ Has(item.u.fd.countBits)
     \/ phase' = "UnpackError" /\ (~Whole \/ EntryIsMessage(item))

Moves(W, K) ==
  /\ phase' = "unpacking" /\ step' = step + 1 /\ Reading(W, K)'
  /\ \E pending : Begins(pending) /\ Pending(work') = pending \cup Pending(Tail(work))

LEMMA ItemAt ==
  ASSUME KeysFit, NEW W, NEW K, Reading(W, K), Unpack, ~IsEnd(item)
  PROVE  Kept /\ (Refuses \/ Moves(W, K))
  <1>1. phase = "unpacking" /\ work # <<>>
    BY UnpackPhase
  <1>0. /\ PackedIn(W, K) /\ Delivered /\ DecoderAt(W, K)
        /\ W[Len(marks) + 1] = <<>> /\ K[Len(marks) + 1] = kept
    BY DEF Reading
  <1>2. Delivered /\ IsSeq(bits) /\ IsSeq(data) /\ Len(bits) \in Nat /\ Len(data) \in Nat
    <2>1. Delivered /\ IsSeq(bits) /\ IsSeq(data)
      BY <1>0 DEF PackedIn, History, Delivered
    <2> QED BY <2>1, SeqFacts
  <1> PICK n : n = step + 1
    OBVIOUS
  <1>3. /\ step \in Nat /\ n \in 1..Len(marks) /\ n + 1 \in 1..(Len(marks) + 1)
        /\ Encoded(W[n], K[n], W[n + 1], K[n + 1], marks[n], bits, pos, StartOf(marks, bits, n + 1))
        /\ SameItem(item, Head(W[n])) /\ SameItem(marks[n], item)
        /\ Matches(Tail(work), Tail(W[n]))
        /\ StartOf(marks, bits, n + 1) \in 0..Len(bits)
    BY <1>0, <1>1, AtItem
  <1> PICK to : to = StartOf(marks, bits, n + 1)
    OBVIOUS
  <1>4. /\ Stacked(work) /\ OutIs(out, Pending(work), K[n])
        /\ pos \in 0..Len(data)
    <2>1. pos \in 0..Len(bits)
      BY <1>0, <1>3 DEF DecoderAt, PackedIn, History
    <2>2. pos <= Len(data)
      BY <1>0 DEF DecoderAt
    <2> QED BY <1>0, <1>2, <2>1, <2>2 DEF DecoderAt
  <1> PICK b, more : /\ IsSeq(b) /\ IsSeq(more)
                     /\ Emitted(Head(W[n]), b, more, K[n], K[n + 1])
                     /\ W[n + 1] = more \o Tail(W[n])
                     /\ to = pos + Len(b) /\ Written(bits, pos, b)
    BY <1>3 DEF Encoded
  <1>5. DecodingOf(K[n], b)
    <2>1. Holds(pos, b)
      BY <1>2, <1>3, <1>4, BitsAtItem
    <2> QED BY <1>1, <1>2, <1>4, <2>1 DEF DecodingOf
  <1>6. Advances(b, more, K[n + 1])
    <2>1. ItemOK(Head(W[n])) /\ Opened(Head(W[n]), K[n])
      BY <1>3 DEF Encoded
    <2> QED BY <1>3, <1>5, <2>1, DecoderStep
  <1>7. UNCHANGED <<root, bits, data, marks, kept>> /\ Kept /\ n + 1 = step + 2
    BY <1>3, <1>6 DEF Advances, Kept
  <1>8. CASE /\ phase' = "ValidationError" /\ out' = out
             /\ ListIsInvalid(item) /\ Has(item.u.fd.countBits)
    BY <1>7, <1>8 DEF Refuses
  <1>9. CASE /\ phase' = "UnpackError" /\ out' = out
             /\ pos + Len(b) > Len(data) \/ EntryIsMessage(item)
    <2>1. CASE pos + Len(b) > Len(data)
      <3>1. ~Whole
        BY <1>2, <1>3, <2>1 DEF Whole
      <3> QED BY <1>7, <1>9, <3>1 DEF Refuses
    <2>2. CASE EntryIsMessage(item)
      BY <1>7, <1>9, <2>2 DEF Refuses
    <2> QED BY <1>9, <2>1, <2>2
  <1>10. ASSUME NEW m, NEW pending,
                phase' = "unpacking" /\ step' = step + 1,
                pos' = pos + Len(b) /\ pos + Len(b) <= Len(data),
                work' = m \o Tail(work), Begins(pending), Fresh(m, more, item.at, pending),
                OutIs(out', pending \cup Pending(Tail(work)), K[n + 1])
         PROVE  Moves(W, K)
    <2>1. step' + 1 = n + 1 /\ step' \in 0..Len(marks)
      BY <1>3, <1>10
    <2>2. pos' = StartOf(marks, bits, n + 1) /\ pos' <= Len(data)
      BY <1>10
    <2>3. Matches(work', W[n + 1])
      BY <1>3, <1>10, MatchesConcat DEF Fresh
    <2>4. Stacked(work') /\ Pending(work') = pending \cup Pending(Tail(work))
      BY <1>1, <1>4, <1>10, StackedPush DEF Fresh, item
    <2>5. DecoderAt(W, K)'
      BY <1>7, <1>10, <2>1, <2>2, <2>3, <2>4 DEF DecoderAt
    <2>6. PackedIn(W, K)' /\ Delivered' /\ W[Len(marks') + 1] = <<>> /\ K[Len(marks') + 1] = kept'
      BY <1>0, <1>2, <1>7 DEF PackedIn, Delivered
    <2>7. Reading(W, K)'
      BY <2>5, <2>6 DEF Reading
    <2> QED BY <1>10, <2>4, <2>7 DEF Moves
  <1> QED BY <1>6, <1>7, <1>8, <1>9, <1>10 DEF Advances

(* The decoder refuses an entry that is a message. *)
LEMMA MessageEntryRefused == ASSUME Unpack, EntryIsMessage(item) PROVE phase' = "UnpackError"
  <1>1. item.op = "value" /\ item.u.card = "map" /\ item.u.kind = "message"
    BY DEF EntryIsMessage
  <1>2. UnpackEntry
    BY <1>1 DEF Unpack, UnpackScalar, UnpackTimestamp, UnpackMessage, UnpackList, UnpackMap,
       UnpackOneof, UnpackValue, UnpackNested, UnpackElementEnd, UnpackingField, Unpacking
  <1> QED BY <1>1, <1>2 DEF UnpackEntry, Fail, FailWith

(* An item that it never takes is refused. *)
LEMMA NeverTaken ==
  ASSUME Unpack, phase' = "unpacking" PROVE Passable(item)
  <1>1. ASSUME ListIsInvalid(item) PROVE phase' \in {"UnpackError", "ValidationError"}
    <2>1. UnpackList
      BY <1>1 DEF ListIsInvalid, Unpack, UnpackScalar, UnpackTimestamp, UnpackMessage, UnpackMap,
         UnpackOneof, UnpackValue, UnpackEntry, UnpackNested, UnpackElementEnd, UnpackingField,
         Unpacking
    <2> QED BY <1>1, <2>1 DEF ListIsInvalid, UnpackList, Fail, FailWith
  <1> QED BY <1>1, MessageEntryRefused DEF Passable

LEMMA UnpackInv == ASSUME KeysFit, DecoderInv, Unpack PROVE DecoderInv'
  <1>1. phase = "unpacking"
    BY UnpackPhase
  <1> PICK W, K : Reading(W, K)
    BY <1>1 DEF DecoderInv
  <1>2. CASE IsEnd(item)
    <2>1. UnpackElementEnd
      BY <1>2 DEF Unpack, UnpackScalar, UnpackTimestamp, UnpackMessage, UnpackList,
           UnpackMap, UnpackOneof, UnpackValue, UnpackEntry, UnpackNested, UnpackingField,
           Unpacking, IsEnd
    <2>2. Reading(W, K)' /\ phase' = "unpacking" /\ UNCHANGED <<marks, step>>
      BY <2>1, ElementEndAt DEF Kept
    <2>3. AllPassable'
      BY <1>1, <2>2 DEF DecoderInv, AllPassable
    <2> QED BY <2>2, <2>3 DEF DecoderInv
  <1>3. CASE ~IsEnd(item)
    <2>1. Kept /\ (Refuses \/ Moves(W, K))
      BY <1>3, ItemAt
    <2>2. CASE Refuses
      BY <2>2 DEF Refuses, DecoderInv
    <2>3. CASE Moves(W, K)
      <3>1. phase' = "unpacking" /\ step' = step + 1 /\ Reading(W, K)' /\ marks' = marks
        BY <2>1, <2>3 DEF Kept, Moves
      <3>2. step \in Nat /\ SameItem(marks[step + 1], item)
        BY <1>3, UnpackPhase, AtItem DEF Reading
      <3>3. Passable(item)
        BY <3>1, NeverTaken
      <3>4. Passable(marks[step + 1])
        BY <3>2, <3>3 DEF SameItem, Passable, EntryIsMessage, ListIsInvalid
      <3>5. \A j \in 1..(step + 1) : j = step + 1 \/ j \in 1..step
        BY <3>2
      <3>6. AllPassable'
        BY <1>1, <3>1, <3>4, <3>5 DEF DecoderInv, AllPassable
      <3> QED BY <3>1, <3>6 DEF DecoderInv
    <2> QED BY <2>1, <2>2, <2>3
  <1> QED BY <1>2, <1>3

(* The decoder has no work left. *)
LEMMA AtEnd ==
  ASSUME NEW W, NEW K, PackedIn(W, K), W[Len(marks) + 1] = <<>>, DecoderAt(W, K), work = <<>>
  PROVE  step = Len(marks) /\ pos = Len(bits) /\ out = K[Len(marks) + 1]
  <1>1. /\ History(W, K, marks, bits) /\ step \in 0..Len(marks) /\ Matches(<<>>, W[step + 1])
        /\ pos = StartOf(marks, bits, step + 1) /\ OutIs(out, Pending(<<>>), K[step + 1])
    BY DEF PackedIn, DecoderAt
  <1>2. Len(marks) \in Nat
    BY <1>1, SeqFacts DEF History
  <1>3. W[step + 1] = <<>>
    BY <1>1, MatchesNothing
  <1>4. step = Len(marks)
    <2>1. ASSUME step + 1 \in 1..Len(marks) PROVE FALSE
      BY <1>1, <1>3, <2>1 DEF History, Encoded
    <2> QED BY <1>1, <1>2, <2>1
  <1>5. pos = Len(bits)
    BY <1>1, <1>2, <1>4 DEF StartOf
  <1>6. out = K[Len(marks) + 1]
    <2>1. 1..Len(<<>>) = {}
      BY EmptyIsSeq
    <2>2. Pending(<<>>) = {}
      BY <2>1 DEF Pending
    <2> QED BY <1>1, <1>4, <2>2, OutIsAll
  <1> QED BY <1>4, <1>5, <1>6

LEMMA FinishInv == ASSUME DecoderInv, FinishUnpack PROVE DecoderInv'
  <1>1. /\ phase = "unpacking" /\ work = <<>> /\ phase' = "unpacked"
        /\ UNCHANGED <<root, bits, kept, data, out>>
    BY DEF FinishUnpack, packVars, unpackVars
  <1> PICK W, K : Reading(W, K)
    BY <1>1 DEF DecoderInv
  <1>2. pos = Len(bits) /\ out = kept
    BY <1>1, AtEnd DEF Reading
  <1>3. Whole
    <2>1. IsSeq(bits) /\ IsSeq(data)
      BY DEF Reading, PackedIn, History, Delivered
    <2>2. Len(bits) \in Nat /\ Len(data) \in Nat /\ pos <= Len(data)
      BY <2>1, SeqFacts DEF Reading, DecoderAt
    <2> QED BY <1>2, <2>2 DEF Whole
  <1> QED BY <1>1, <1>2, <1>3 DEF DecoderInv, Whole

LEMMA StutterInv ==
  ASSUME UNCHANGED vars PROVE (EncoderInv => EncoderInv') /\ (DecoderInv => DecoderInv')
  BY DEF EncoderInv, DecoderInv, vars, Untouched, Traced, Reading, PackedIn, Delivered, DecoderAt,
         Whole, AllPassable

(* The phases each side leads to. *)
LEMMA PackPhases ==
  ASSUME StartPack \/ Pack PROVE phase' \in {"packing", "PackError", "ValidationError"}
  BY DEF StartPack, Pack, PackScalar, PackTimestamp, PackMessage, PackList, PackMap, PackOneof,
         PackValue, PackEntry, PackNested, PackingField, Packing, Emit, Fail, FailWith

LEMMA UnpackPhases ==
  ASSUME Deliver \/ Unpack \/ FinishUnpack
  PROVE  /\ root' = root
         /\ phase' \in {"unpacking", "unpacked", "UnpackError", "ValidationError"}
  BY DEF Deliver, DeliverTo, FinishUnpack, Unpack, UnpackScalar, UnpackTimestamp, UnpackMessage,
         UnpackList, UnpackMap, UnpackOneof, UnpackValue, UnpackEntry, UnpackNested,
         UnpackElementEnd, UnpackingField, Unpacking, Consume, Fail, FailWith

LEMMA EncoderInvStep == ASSUME EncoderInv, [Next]_vars PROVE EncoderInv'
  <1>1. CASE Deliver \/ Unpack \/ FinishUnpack
    BY <1>1, UnpackPhases DEF EncoderInv
  <1> QED BY <1>1, StartInv, PackInv, StutterInv DEF Next

LEMMA DecoderInvStep == ASSUME KeysFit, EncoderInv, DecoderInv, [Next]_vars PROVE DecoderInv'
  <1>1. CASE StartPack \/ Pack
    BY <1>1, PackPhases DEF DecoderInv
  <1> QED BY <1>1, DeliverInv, UnpackInv, FinishInv, StutterInv DEF Next

-----------------------------------------------------------------------------
(* The encoder always has a history of items it could encode, whatever the *)
(* keys of its maps.                                                       *)
THEOREM EncoderInvariance == Spec => []EncoderInv
  <1>1. EncoderInv /\ [Next]_vars => EncoderInv'
    BY EncoderInvStep
  <1> QED BY <1>1, InitInv, PTL DEF Spec

(* The decoder only ever stands where the encoder once stood, with the     *)
(* message that the encoder had kept by then, but for open elements.       *)
THEOREM DecoderInvariance == ASSUME KeysFit PROVE Spec => []DecoderInv
  <1>1. EncoderInv /\ DecoderInv /\ [Next]_vars => DecoderInv'
    BY DecoderInvStep
  <1> QED BY <1>1, InitInv, EncoderInvariance, PTL DEF Spec

(* Pack and Unpack of every schema whose map keys fit: at each item the    *)
(* decoder comes to, it expects the item the encoder wrote, at the bit     *)
(* where the encoder wrote it, and it ends at the last bit.                *)
THEOREM InStepAlways == ASSUME KeysFit PROVE Spec => []InStep
  <1>1. ASSUME DecoderInv PROVE InStep
    <2> SUFFICES ASSUME phase = "unpacking"
                 PROVE  /\ work # <<>> /\ item.op # "append" =>
                             /\ step < Len(marks)
                             /\ SameItem(item, marks[step + 1]) /\ pos = marks[step + 1].pos
                        /\ work = <<>> => step = Len(marks) /\ pos = Len(bits)
      BY DEF InStep, SameItem
    <2> PICK W, K : PackedIn(W, K) /\ W[Len(marks) + 1] = <<>> /\ DecoderAt(W, K)
      BY <1>1 DEF DecoderInv, Reading
    <2>1. ASSUME work # <<>>, item.op # "append"
          PROVE  /\ step < Len(marks)
                 /\ SameItem(item, marks[step + 1]) /\ pos = marks[step + 1].pos
      <3>1. /\ step \in Nat /\ step + 1 \in 1..Len(marks) /\ pos = marks[step + 1].pos
            /\ SameItem(marks[step + 1], item)
        BY <2>1, AtItem DEF IsEnd
      <3>2. step < Len(marks)
        BY <3>1
      <3> QED BY <3>1, <3>2 DEF SameItem
    <2>2. ASSUME work = <<>> PROVE step = Len(marks) /\ pos = Len(bits)
      BY <2>2, AtEnd
    <2> QED BY <2>1, <2>2
  <1> QED BY <1>1, DecoderInvariance, PTL

(* What Unpack of the whole stream returns is the message as Pack wrote    *)
(* it, whatever the schema, the strategies and the values.                 *)
THEOREM RoundTripAlways == ASSUME KeysFit PROVE Spec => []RoundTrip
  <1>1. DecoderInv => RoundTrip
    BY DEF DecoderInv, RoundTrip
  <1> QED BY <1>1, DecoderInvariance, PTL

(* A stream that lost a byte with a bit of the message never unpacks.      *)
THEOREM TruncationDetectedAlways == ASSUME KeysFit PROVE Spec => []TruncationDetected
  <1>1. DecoderInv => TruncationDetected
    BY DEF DecoderInv, TruncationDetected
  <1> QED BY <1>1, DecoderInvariance, PTL

(* A list of messages without a valid schema that the decoder comes to is   *)
(* empty: the encoder would have refused the first of its elements.        *)
LEMMA InvalidListIsEmpty ==
  ASSUME NEW W, NEW K, Reading(W, K), phase = "unpacking", work # <<>>,
         ListIsInvalid(item), Has(item.u.fd.countBits)
  PROVE  Bits(pos, item.u.fd.countBits) = 0
  <1> DEFINE fd == item.u.fd
  <1> PICK n : n = step + 1
    OBVIOUS
  <1>0. /\ PackedIn(W, K) /\ Delivered /\ DecoderAt(W, K) /\ W[Len(marks) + 1] = <<>>
        /\ History(W, K, marks, bits) /\ IsSeq(bits) /\ IsSeq(data) /\ ~IsEnd(item)
    BY DEF Reading, PackedIn, History, Delivered, ListIsInvalid, IsEnd
  <1>1. /\ n \in 1..Len(marks) /\ n + 1 \in 1..(Len(marks) + 1) /\ SameItem(item, Head(W[n]))
        /\ Encoded(W[n], K[n], W[n + 1], K[n + 1], marks[n], bits, pos, StartOf(marks, bits, n + 1))
        /\ StartOf(marks, bits, n + 1) \in 0..Len(bits)
    BY <1>0, AtItem
  <1>2. pos \in Nat /\ Len(marks) \in Nat
    <2>1. pos \in 0..Len(bits) /\ IsSeq(marks)
      BY <1>0, <1>1 DEF DecoderAt, History
    <2>2. Len(bits) \in Nat /\ Len(marks) \in Nat
      BY <1>0, <2>1, SeqFacts
    <2> QED BY <2>1, <2>2
  <1> PICK h : h = Head(W[n])
    OBVIOUS
  <1>3. /\ h.u.fd = fd /\ h.at = item.at /\ ItemOK(h) /\ Form(h) = "list"
        /\ fd.card = "repeated" /\ fd.kind = "message" /\ ~ValidMessage(Descriptor[fd.type])
    BY <1>1 DEF Encoded, SameItem, Form, ListIsInvalid
  <1>4. FieldWidths(fd)
    BY <1>3 DEF ItemOK, UnitOK, FieldOK, Form
  <1> PICK c \in Nat : c = fd.countBits
    BY <1>4 DEF FieldWidths
  <1> PICK b, more : /\ IsSeq(b) /\ IsSeq(more)
                     /\ Emitted(h, b, more, K[n], K[n + 1])
                     /\ W[n + 1] = more \o Tail(W[n])
                     /\ StartOf(marks, bits, n + 1) = pos + Len(b) /\ Written(bits, pos, b)
    BY <1>1 DEF Encoded
  <1>5. EmitsCount(fd, item.at, b, more, K[n], K[n + 1], <<>>)
    BY <1>3 DEF Emitted
  <1> PICK x \in 0..MaxOf(c) :
             /\ b = LowBits(x, c) /\ Len(more) = x
             /\ \A j \in 1..x : SameItem(more[j], Value(fd, item.at, Nothing))
    BY <1>5 DEF EmitsCount
  <1>6. Bits(pos, c) = x
    <2>1. Holds(pos, b)
      BY <1>0, <1>1, <1>2, BitsAtItem
    <2>2. Reads(pos + c, Bits(pos, c), pos, b, x) /\ Len(b) = c
      BY <1>0, <1>2, <2>1, ReadInt
    <2> QED BY <2>2 DEF Has, Reads
  <1>7. x \in Nat
    BY MaxType
  <1>8. ASSUME x # 0 PROVE FALSE
    <2>1. 1 \in 1..x
      BY <1>7, <1>8
    <2>2. IsSeq(W[n]) /\ W[n] # <<>> /\ IsSeq(Tail(W[n])) /\ IsSeq(W[n + 1])
      <3>1. n \in 1..(Len(marks) + 1)
        BY <1>1, <1>2
      <3>2. IsSeq(W[n]) /\ IsSeq(W[n + 1])
        BY <1>0, <1>1, <3>1 DEF History
      <3>3. W[n] # <<>>
        BY <1>1 DEF Encoded
      <3> QED BY <3>2, <3>3, TailFacts
    <2>3. Len(more) # 0 /\ IsSeq(more) /\ W[n + 1] = more \o Tail(W[n])
      BY <1>8
    <2>4. W[n + 1] # <<>> /\ Head(W[n + 1]) = more[1]
      BY <2>2, <2>3, ConcatHead
    <2>5. n + 1 \in 1..Len(marks)
      <3>1. n + 1 # Len(marks) + 1
        BY <1>0, <2>4
      <3> QED BY <1>1, <1>2, <3>1
    <2>6. Encoded(W[n + 1], K[n + 1], W[(n + 1) + 1], K[(n + 1) + 1], marks[n + 1], bits,
                  StartOf(marks, bits, n + 1), StartOf(marks, bits, (n + 1) + 1))
      BY <1>0, <2>5 DEF History
    <2> PICK e : e = Head(W[n + 1])
      OBVIOUS
    <2>7. e = more[1]
      BY <2>4
    <2>8. e.op = "value" /\ e.u = fd
      BY <2>1, <2>7 DEF SameItem, Value
    <2>9. Form(e) = "nested"
      <3>1. e.op = "value" /\ e.u.card = "repeated" /\ e.u.kind = "message"
        BY <1>3, <2>8, Zenon
      <3> QED BY <3>1, Zenon DEF Form
    <2>10. ValidMessage(Descriptor[e.u.type])
      <3> PICK b2, more2 : Emitted(e, b2, more2, K[n + 1], K[(n + 1) + 1])
        BY <2>6 DEF Encoded
      <3>1. EmitsNested(e.u, e.at, b2, more2, K[n + 1], K[(n + 1) + 1])
        BY <2>9 DEF Emitted
      <3> QED BY <3>1, Zenon DEF EmitsNested
    <2> QED BY <1>3, <2>8, <2>10, Zenon
  <1> QED BY <1>6, <1>8

(* Unpack of a whole stream returns an error only at an item that it never *)
(* takes, and a message only where there was none.                         *)
LEMMA IntactStep ==
  ASSUME KeysFit, DecoderInv, phase = "unpacking", Whole, Unpack \/ FinishUnpack
  PROVE  /\ phase' = "UnpackError" => EntryIsMessage(item)
         /\ phase' = "ValidationError" =>
              ListIsInvalid(item) /\ Bits(pos, item.u.fd.countBits) = 0
         /\ phase' = "unpacked" => \A j \in 1..Len(marks) : Passable(marks[j])
  <1> PICK W, K : Reading(W, K)
    BY DEF DecoderInv
  <1>1. CASE FinishUnpack
    <2>1. work = <<>> /\ phase' = "unpacked"
      BY <1>1 DEF FinishUnpack
    <2>2. step = Len(marks)
      BY <2>1, AtEnd DEF Reading
    <2> QED BY <2>1, <2>2 DEF DecoderInv, AllPassable
  <1>2. CASE Unpack
    <2>1. work # <<>>
      BY <1>2, UnpackPhase
    <2>2. CASE IsEnd(item)
      <3>1. phase' = "unpacking"
        BY <1>2, <2>2 DEF Unpack, UnpackScalar, UnpackTimestamp, UnpackMessage, UnpackList,
             UnpackMap, UnpackOneof, UnpackValue, UnpackEntry, UnpackNested, UnpackElementEnd,
             UnpackingField, Unpacking, IsEnd
      <3> QED BY <3>1
    <2>3. CASE ~IsEnd(item)
      <3>1. Refuses \/ phase' = "unpacking"
        BY <1>2, <2>3, ItemAt DEF Moves
      <3>2. CASE Refuses
        BY <2>1, <3>2, InvalidListIsEmpty DEF Refuses
      <3> QED BY <3>1, <3>2
    <2> QED BY <2>2, <2>3
  <1> QED BY <1>1, <1>2

(* Pack and Unpack of every schema whose map keys fit: a stream that lost   *)
(* nothing is refused only at an entry that is a message, or at an empty   *)
(* list of messages without a valid schema, and always at these.           *)
THEOREM IntactAcceptedAlways == ASSUME KeysFit PROVE Spec => IntactAccepted
  <1> DEFINE Accepts ==
        phase = "unpacking" /\ Whole =>
          /\ phase' = "UnpackError" => EntryIsMessage(item)
          /\ phase' = "ValidationError" =>
               ListIsInvalid(item) /\ Bits(pos, item.u.fd.countBits) = 0
          /\ phase' = "unpacked" =>
               \A j \in 1..Len(marks) : ~EntryIsMessage(marks[j]) /\ ~ListIsInvalid(marks[j])
  <1>1. DecoderInv /\ [Next]_vars => [Accepts]_vars
    <2> SUFFICES ASSUME DecoderInv, Next, phase = "unpacking", Whole PROVE Accepts
      OBVIOUS
    <2>1. CASE StartPack \/ Pack \/ Deliver
      BY <2>1, PackPhase DEF StartPack, Deliver, DeliverTo
    <2>2. CASE Unpack \/ FinishUnpack
      BY <2>2, IntactStep DEF Passable
    <2> QED BY <2>1, <2>2 DEF Next
  <1>2. Spec => [][Accepts]_vars
    BY <1>1, DecoderInvariance, PTL DEF Spec
  <1> QED BY <1>2 DEF IntactAccepted

-----------------------------------------------------------------------------
(* A failing Pack. *)

LEMMA FailsWhenAsked ==
  ASSUME EncoderInv, Pack, phase' = "PackError"
  PROVE  LET fd == IF item.op = "value" THEN item.u ELSE item.u.fd
         IN \/ DocStrategy(fd) = "ERROR"
            \/ item.op = "value" /\ fd.card = "map" /\ strategy = "ERROR"
  <1> DEFINE fd == IF item.op = "value" THEN item.u ELSE item.u.fd
  <1>1. phase = "packing" /\ work # <<>>
    BY PackPhase
  <1>2. \A e, b, more, raw2, kept2 : /\ Emit(b, more, raw2, kept2) => phase' = phase
                                     /\ Fail(e) => phase' = e
    BY DEF Emit, Fail, FailWith
  <1>3. \A f : EffectiveStrategy(f) = DocStrategy(f)
    BY DEF EffectiveStrategy, DocStrategy
  <1>4. CASE PackScalar \/ PackTimestamp \/ PackMessage \/ PackOneof \/ PackNested
    BY <1>1, <1>2, <1>4 DEF PackScalar, PackTimestamp, PackMessage, PackOneof, PackNested
  <1>5. CASE PackList \/ PackMap
    <2>1. item.op = "unit"
      BY <1>5 DEF PackList, PackMap, PackingField, Packing
    <2>2. EffectiveStrategy(item.u.fd) = "ERROR"
      BY <1>1, <1>2, <1>5 DEF PackList, PackMap
    <2> QED BY <1>3, <2>1, <2>2
  <1>6. CASE PackValue
    <2>1. item.op = "value" /\ EffectiveStrategy(item.u) = "ERROR"
      BY <1>1, <1>2, <1>6 DEF PackValue, Packing
    <2> QED BY <1>3, <2>1
  <1>7. CASE PackEntry
    <2>1. item.op = "value" /\ item.u.card = "map"
      BY <1>7 DEF PackEntry, Packing
    <2>2. EffectiveStrategy(MapValue(item.u)) = "ERROR"
      BY <1>1, <1>2, <1>7 DEF PackEntry
    <2>3. MapValue(item.u).overflow = "UNSPECIFIED"
      <3>1. "overflow" \in DOMAIN item.u
        BY <1>1, <2>1, ItemReady DEF ItemOK, FieldOK, IsField
      <3> QED BY <3>1 DEF MapValue
    <2>4. strategy = "ERROR"
      BY <2>2, <2>3 DEF EffectiveStrategy
    <2> QED BY <2>1, <2>4
  <1> QED BY <1>4, <1>5, <1>6, <1>7 DEF Pack

(* Pack refuses a value, a list or a map only where the strategy of that   *)
(* field asks for an error; this needs no hypothesis about keys.           *)
THEOREM PackErrorOnlyIfAskedAlways == Spec => PackErrorOnlyIfAsked
  <1> DEFINE Asked == phase' = "PackError" =>
                        LET fd == IF item.op = "value" THEN item.u ELSE item.u.fd
                        IN \/ DocStrategy(fd) = "ERROR"
                           \/ item.op = "value" /\ fd.card = "map" /\ strategy = "ERROR"
  <1>1. ASSUME EncoderInv, Next PROVE Asked
    <2>1. CASE Pack
      BY <1>1, <2>1, FailsWhenAsked
    <2>2. CASE StartPack
      BY <2>2 DEF StartPack, Fail, FailWith
    <2>3. CASE Deliver
      BY <2>3 DEF Deliver, DeliverTo
    <2>4. CASE Unpack
      BY <2>4 DEF Unpack, UnpackScalar, UnpackTimestamp, UnpackMessage, UnpackList, UnpackMap,
             UnpackOneof, UnpackValue, UnpackEntry, UnpackNested, UnpackElementEnd,
             UnpackingField, Unpacking, Consume, Fail, FailWith
    <2>5. CASE FinishUnpack
      BY <2>5 DEF FinishUnpack
    <2> QED BY <1>1, <2>1, <2>2, <2>3, <2>4, <2>5 DEF Next
  <1>2. EncoderInv /\ [Next]_vars => [Asked]_vars
    BY <1>1
  <1> QED BY <1>2, EncoderInvariance, PTL DEF Spec, PackErrorOnlyIfAsked

-----------------------------------------------------------------------------
(* The pass over a descriptor. *)

(* A number above all others comes last. *)
LEMMA InOrderAppend ==
  ASSUME NEW n \in Nat, NEW S \in SUBSET (1..n)
  PROVE  InOrder(S \cup {n + 1}) = Append(InOrder(S), n + 1)
  <1> DEFINE T == S \cup {n + 1}
             c == Cardinality(S)
             Below(U, i) == {j \in U : j < i}
  <1>0. S \subseteq 1..n /\ n + 1 \in Nat /\ n + 1 \notin S /\ T \in SUBSET (1..(n + 1))
    OBVIOUS
  <1>1. /\ c \in Nat /\ IsSeq(InOrder(S)) /\ Len(InOrder(S)) = c
        /\ \A k \in 1..c : InOrder(S)[k] \in S /\ Cardinality(Below(S, InOrder(S)[k])) = k - 1
    BY InOrderFacts
  <1>2. Cardinality(T) = c + 1
    <2>1. IsFiniteSet(1..n)
      BY FS_Interval
    <2>2. IsFiniteSet(S)
      BY <2>1, FS_Subset
    <2> QED BY <1>0, <2>2, FS_AddElement
  <1>3. /\ IsSeq(InOrder(T)) /\ Len(InOrder(T)) = c + 1
        /\ \A i \in T : \A k \in 1..(c + 1) : Cardinality(Below(T, i)) = k - 1 => InOrder(T)[k] = i
    <2>1. /\ IsSeq(InOrder(T)) /\ Len(InOrder(T)) = Cardinality(T)
          /\ \A i \in T : \A k \in 1..Cardinality(T) :
               Cardinality({j \in T : j < i}) = k - 1 => InOrder(T)[k] = i
      <3> HIDE DEF T
      <3> QED BY <1>0, InOrderFacts
    <2> HIDE DEF T, c
    <2> QED BY <1>2, <2>1
  <1>4. /\ IsSeq(Append(InOrder(S), n + 1)) /\ Len(Append(InOrder(S), n + 1)) = c + 1
        /\ \A k \in 1..c : Append(InOrder(S), n + 1)[k] = InOrder(S)[k]
        /\ Append(InOrder(S), n + 1)[c + 1] = n + 1
    BY <1>1, AppendFacts
  <1>5. ASSUME NEW k \in 1..c PROVE InOrder(T)[k] = InOrder(S)[k]
    <2> DEFINE i == InOrder(S)[k]
    <2>1. i \in S /\ Cardinality(Below(S, i)) = k - 1
      BY <1>1
    <2>2. Below(T, i) = Below(S, i)
      <3> HIDE DEF i
      <3>1. i \in 1..n /\ ~(n + 1 < i)
        BY <1>0, <2>1
      <3> QED BY <3>1
    <2>3. i \in T /\ k \in 1..(c + 1)
      BY <1>1, <2>1
    <2> QED BY <1>3, <2>1, <2>2, <2>3
  <1>6. InOrder(T)[c + 1] = n + 1
    <2>1. Below(T, n + 1) = S
      <3>1. ~(n + 1 < n + 1) /\ \A j \in S : j < n + 1
        BY <1>0
      <3> QED BY <3>1
    <2>2. n + 1 \in T /\ c + 1 \in 1..(c + 1) /\ c + 1 - 1 = c
      BY <1>1
    <2>3. Cardinality(Below(T, n + 1)) = (c + 1) - 1
      <3>1. Cardinality(Below(T, n + 1)) = c
        BY <2>1, Zenon
      <3>2. c \in Nat
        BY <1>1
      <3> HIDE DEF T, Below, c
      <3> QED BY <3>1, <3>2
    <2> HIDE DEF T, c, Below
    <2> QED BY <1>3, <2>2, <2>3
  <1>7. ASSUME NEW k \in 1..(c + 1) PROVE InOrder(T)[k] = Append(InOrder(S), n + 1)[k]
    <2>1. k \in 1..c \/ k = c + 1
      BY <1>1
    <2> QED BY <1>4, <1>5, <1>6, <2>1
  <1> HIDE DEF T, c
  <1>8. InOrder(T) = Append(InOrder(S), n + 1)
    BY <1>3, <1>4, <1>7, SeqsEqual
  <1> QED BY <1>8 DEF T

(* The plan of one more field has its unit if it starts one. *)
LEMMA PlanGrows ==
  ASSUME NEW d, NEW n \in Nat
  PROVE  PlanOf(d, n + 1) = IF StartsUnit(d, n + 1) THEN Append(PlanOf(d, n), UnitAt(d, n + 1))
                            ELSE PlanOf(d, n)
  <1> DEFINE S == {i \in 1..n : StartsUnit(d, i)}
             T == {i \in 1..(n + 1) : StartsUnit(d, i)}
             c == Cardinality(S)
  <1>1. S \in SUBSET (1..n) /\ 1..(n + 1) = (1..n) \cup {n + 1}
    OBVIOUS
  <1>2. CASE ~StartsUnit(d, n + 1)
    <2>1. T = S
      BY <1>1, <1>2
    <2> HIDE DEF S, T
    <2>2. PlanOf(d, n + 1) = PlanOf(d, n)
      BY <2>1 DEF PlanOf, S, T
    <2> QED BY <1>2, <2>2
  <1>3. CASE StartsUnit(d, n + 1)
    <2>1. T = S \cup {n + 1}
      BY <1>1, <1>3
    <2> DEFINE s == InOrder(S)
               t == InOrder(T)
               p == PlanOf(d, n)
               q == PlanOf(d, n + 1)
               u == UnitAt(d, n + 1)
    <2>2. IsSeq(s) /\ Len(s) = c /\ c \in Nat
      <3> HIDE DEF S
      <3> QED BY <1>1, InOrderFacts
    <2>3. t = Append(s, n + 1)
      BY <1>1, <2>1, InOrderAppend
    <2>4. /\ Len(t) = c + 1 /\ t[c + 1] = n + 1
          /\ \A k \in 1..c : t[k] = s[k]
      <3> HIDE DEF s, t, c, S, T
      <3> QED BY <2>2, <2>3, AppendFacts
    <2>5. p = [k \in 1..c |-> UnitAt(d, s[k])] /\ q = [k \in 1..(c + 1) |-> UnitAt(d, t[k])]
      BY <2>2, <2>4 DEF PlanOf
    <2> HIDE DEF s, t, p, q, c, S, T
    <2>6. IsSeq(p) /\ Len(p) = c /\ IsSeq(q) /\ Len(q) = c + 1
      <3>1. c + 1 \in Nat
        BY <2>2
      <3>2. p = [k \in 1..c |-> p[k]] /\ q = [k \in 1..(c + 1) |-> q[k]]
        BY <2>5
      <3> QED BY <2>2, <3>1, <3>2, FunctionIsSeq
    <2>7. /\ IsSeq(Append(p, u)) /\ Len(Append(p, u)) = c + 1
          /\ \A k \in 1..c : Append(p, u)[k] = p[k]
          /\ Append(p, u)[c + 1] = u
      BY <2>6, AppendFacts
    <2>8. ASSUME NEW k \in 1..(c + 1) PROVE q[k] = Append(p, u)[k]
      <3>1. k \in 1..c \/ k = c + 1
        BY <2>2
      <3> QED BY <2>4, <2>5, <2>7, <3>1
    <2>9. q = Append(p, u)
      BY <2>6, <2>7, <2>8, SeqsEqual
    <2> QED BY <1>3, <2>9 DEF p, q, u
  <1> QED BY <1>2, <1>3

(* Of the k-th unit of a plan: the field that starts it. *)
LEMMA PlanShape ==
  ASSUME NEW d, NEW n \in Nat
  PROVE  LET S == {i \in 1..n : StartsUnit(d, i)}
             c == Cardinality(S)
         IN /\ c \in Nat /\ Len(PlanOf(d, n)) = c
            /\ \A k \in 1..c : InOrder(S)[k] \in S /\ PlanOf(d, n)[k] = UnitAt(d, InOrder(S)[k])
            /\ \A i \in S : \E k \in 1..c :
                 InOrder(S)[k] = i /\ \A l \in 1..c : InOrder(S)[l] = i => l = k
  <1> DEFINE S == {i \in 1..n : StartsUnit(d, i)}
             c == Cardinality(S)
             Below(i) == {j \in S : j < i}
             s == InOrder(S)
  <1>1. /\ c \in Nat /\ IsSeq(s) /\ Len(s) = c
        /\ \A k \in 1..c : s[k] \in S /\ Cardinality(Below(s[k])) = k - 1
        /\ \A i \in S : \A k \in 1..c : Cardinality(Below(i)) = k - 1 => s[k] = i
        /\ \A i \in S : Cardinality(Below(i)) \in 0..(c - 1)
    <2>1. S \in SUBSET (1..n)
      OBVIOUS
    <2> HIDE DEF S
    <2> QED BY <2>1, InOrderFacts
  <1>2. PlanOf(d, n) = [k \in 1..c |-> UnitAt(d, s[k])]
    BY <1>1 DEF PlanOf
  <1>3. Len(PlanOf(d, n)) = c
    BY <1>1, <1>2
  <1>4. ASSUME NEW i \in S
        PROVE  \E k \in 1..c : s[k] = i /\ \A l \in 1..c : s[l] = i => l = k
    <2> DEFINE r == Cardinality(Below(i))
    <2>1. r \in 0..(c - 1) /\ (r + 1) - 1 = r
      <3>1. Cardinality(Below(i)) \in 0..(c - 1) /\ c \in Nat
        BY <1>1, Zenon
      <3> HIDE DEF Below, S, c
      <3> QED BY <3>1
    <2> HIDE DEF S, Below, c
    <2>2. r + 1 \in 1..c
      BY <1>1, <2>1
    <2>3. s[r + 1] = i
      BY <1>1, <2>1, <2>2
    <2>4. ASSUME NEW l \in 1..c, s[l] = i PROVE l = r + 1
      <3>1. r = l - 1
        <4>1. Cardinality(Below(s[l])) = l - 1
          BY <1>1, <2>4, Zenon
        <4> HIDE DEF s
        <4> QED BY <2>4, <4>1, Zenon
      <3> HIDE DEF r
      <3> QED BY <1>1, <2>1, <3>1
    <2> QED BY <2>2, <2>3, <2>4
  <1> HIDE DEF S, c
  <1>5. \A k \in 1..c : s[k] \in S /\ PlanOf(d, n)[k] = UnitAt(d, s[k])
    BY <1>1, <1>2
  <1> QED BY <1>1, <1>3, <1>4, <1>5 DEF S, c

(* The members of a oneof are the fields that declare it. *)
LEMMA MembersShape ==
  ASSUME NEW d, Len(d.fields) \in Nat, NEW od
  PROVE  /\ IsSeq(Members(d, od))
         /\ \A k \in 1..Len(Members(d, od)) : \E i \in 1..Len(d.fields) :
              RealOneof(d.fields[i]) /\ d.fields[i].oneof = od /\ Members(d, od)[k] = d.fields[i]
         /\ \A i \in 1..Len(d.fields) : RealOneof(d.fields[i]) /\ d.fields[i].oneof = od =>
              \E k \in 1..Len(Members(d, od)) : Members(d, od)[k] = d.fields[i]
  <1> DEFINE n == Len(d.fields)
             S == {i \in 1..n : RealOneof(d.fields[i]) /\ d.fields[i].oneof = od}
             c == Cardinality(S)
             s == InOrder(S)
             ms == Members(d, od)
  <1>1. /\ c \in Nat /\ Len(s) = c
        /\ \A k \in 1..c : s[k] \in S
        /\ \A i \in S : \A k \in 1..c : Cardinality({j \in S : j < i}) = k - 1 => s[k] = i
        /\ \A i \in S : Cardinality({j \in S : j < i}) \in 0..(c - 1)
    <2>1. S \in SUBSET (1..n) /\ n \in Nat
      OBVIOUS
    <2> HIDE DEF S, n
    <2> QED BY <2>1, InOrderFacts
  <1>2. ms = [k \in 1..c |-> d.fields[s[k]]]
    BY <1>1 DEF Members
  <1>3. IsSeq(ms) /\ Len(ms) = c /\ \A k \in 1..c : ms[k] = d.fields[s[k]]
    <2> HIDE DEF c, s, ms, S, n
    <2>1. ms = [k \in 1..c |-> ms[k]]
      BY <1>2
    <2> QED BY <1>1, <1>2, <2>1, FunctionIsSeq
  <1>4. ASSUME NEW i \in S PROVE \E k \in 1..c : ms[k] = d.fields[i]
    <2> DEFINE r == Cardinality({j \in S : j < i})
    <2>1. r \in 0..(c - 1)
      BY <1>1
    <2>2. \A k \in 1..c : r = k - 1 => s[k] = i
      BY <1>1
    <2> HIDE DEF r, c, s, ms, S, n
    <2>3. r + 1 \in 1..c /\ r = (r + 1) - 1
      BY <1>1, <2>1
    <2> QED BY <1>3, <2>2, <2>3
  <1> HIDE DEF c, s, ms
  <1>5. \A k \in 1..Len(ms) : \E i \in S : ms[k] = d.fields[i]
    BY <1>1, <1>3
  <1>6. \A i \in S : \E k \in 1..Len(ms) : ms[k] = d.fields[i]
    BY <1>3, <1>4
  <1> QED BY <1>3, <1>5, <1>6 DEF ms, S

(* The pass is as far as its plan, and has stopped at an invalid field or  *)
(* accepted all it visited.                                                *)
Planned(n) == /\ schemaUnits = PlanOf(desc, n)
              /\ \A j \in 1..n : ValidField(desc, j)

AnalysisInv ==
  /\ desc \in Messages
  /\ visited \in 0..Len(desc.fields)
  /\ seenOneofs = {desc.fields[j].oneof : j \in {n \in 1..visited : RealOneof(desc.fields[n])}}
  /\ \E n \in 0..visited :
       /\ Planned(n)
       /\ status \in {"running", "ok"} => n = visited
       /\ status = "ok" => n = Len(desc.fields)
       /\ status \notin {"running", "ok"} =>
            status = "ValidationError" /\ ~ValidField(desc, visited) /\ visited > 0

LEMMA FieldCount == ASSUME desc \in Messages PROVE Len(desc.fields) \in Nat
  BY MessagesAssumption, LenProperties

LEMMA AnalysisInitInv == AnalysisInit => AnalysisInv
  <1> SUFFICES ASSUME AnalysisInit PROVE AnalysisInv
    OBVIOUS
  <1> USE DEF AnalysisInit
  <1>1. Len(desc.fields) \in Nat
    BY FieldCount
  <1>2. Planned(0)
    <2>1. {i \in 1..0 : StartsUnit(desc, i)} = {}
      OBVIOUS
    <2>2. Len(InOrder({})) = 0
      <3>1. {} \in SUBSET (1..0) /\ 0 \in Nat /\ Cardinality({}) = 0
        BY FS_EmptySet
      <3> QED BY <3>1, InOrderFacts
    <2>3. PlanOf(desc, 0) = <<>>
      BY <2>1, <2>2 DEF PlanOf
    <2> QED BY <2>3 DEF Planned
  <1>3. seenOneofs = {desc.fields[j].oneof : j \in {n \in 1..visited : RealOneof(desc.fields[n])}}
    OBVIOUS
  <1> QED BY <1>1, <1>2, <1>3 DEF AnalysisInv

(* One more field visited: its unit is planned, or the pass stops. *)
LEMMA VisitInv ==
  ASSUME AnalysisInv, Visit,
         seenOneofs' = IF RealOneof(current) THEN seenOneofs \cup {current.oneof}
                       ELSE seenOneofs,
         \/ Plans(UnitAt(desc, visited + 1), ValidField(desc, visited + 1))
            /\ StartsUnit(desc, visited + 1)
         \/ UNCHANGED <<schemaUnits, status>> /\ ~StartsUnit(desc, visited + 1)
            /\ ValidField(desc, visited + 1)
  PROVE  AnalysisInv'
  <1> DEFINE v == visited + 1
             seen(d, m) == {d.fields[j].oneof : j \in {n \in 1..m : RealOneof(d.fields[n])}}
  <1>1. /\ desc \in Messages /\ visited \in 0..Len(desc.fields) /\ seenOneofs = seen(desc, visited)
        /\ status = "running" /\ visited < Len(desc.fields)
        /\ visited' = v /\ desc' = desc
    BY DEF AnalysisInv, Visit
  <1>2. Planned(visited)
    BY <1>1 DEF AnalysisInv
  <1>3. v \in 1..Len(desc.fields) /\ visited \in Nat /\ v \in Nat /\ 1..v = (1..visited) \cup {v}
        /\ v > 0 /\ visited \in 0..v
    <2>1. Len(desc.fields) \in Nat
      BY <1>1, FieldCount
    <2> QED BY <1>1, <2>1
  <1>4. seenOneofs' = seen(desc, v)
    BY <1>1, <1>3 DEF current
  <1>5. PlanOf(desc, v) = IF StartsUnit(desc, v) THEN Append(schemaUnits, UnitAt(desc, v))
                          ELSE schemaUnits
    BY <1>2, <1>3, PlanGrows DEF Planned
  <1>8. /\ desc' \in Messages /\ visited' \in 0..Len(desc'.fields)
        /\ seenOneofs' = seen(desc', visited')
    <2> HIDE DEF seen
    <2>1. visited' \in 0..Len(desc.fields)
      BY <1>1, <1>3
    <2> HIDE DEF v
    <2>2. seenOneofs' = seen(desc', visited')
      BY <1>1, <1>4, Zenon
    <2> QED BY <1>1, <2>1, <2>2
  <1>6. CASE status' = status
    <2>1. schemaUnits' = PlanOf(desc, v) /\ ValidField(desc, v)
      BY <1>1, <1>5, <1>6 DEF Plans
    <2>2. schemaUnits' = PlanOf(desc', v) /\ \A j \in 1..v : ValidField(desc', j)
      BY <1>1, <1>2, <1>3, <2>1 DEF Planned
    <2>3. v \in 0..v
      BY <1>3
    <2>4. status' = "running" /\ visited' = v
      BY <1>1, <1>6
    <2>5. \E n \in 0..v :
            /\ schemaUnits' = PlanOf(desc', n) /\ \A j \in 1..n : ValidField(desc', j)
            /\ status' \in {"running", "ok"} => n = v
            /\ status' = "ok" => n = Len(desc'.fields)
            /\ status' \notin {"running", "ok"} =>
                 status' = "ValidationError" /\ ~ValidField(desc', v) /\ v > 0
      <3> WITNESS v \in 0..v
      <3> QED BY <2>2, <2>4
    <2> HIDE DEF v
    <2> QED BY <1>1, <1>8, <2>5 DEF AnalysisInv, Planned
  <1>7. CASE status' # status
    <2>1. status' = "ValidationError" /\ schemaUnits' = schemaUnits /\ ~ValidField(desc, v)
      BY <1>1, <1>7 DEF Plans
    <2>2. \E n \in 0..v :
            /\ schemaUnits' = PlanOf(desc', n) /\ \A j \in 1..n : ValidField(desc', j)
            /\ status' \in {"running", "ok"} => n = v
            /\ status' = "ok" => n = Len(desc'.fields)
            /\ status' \notin {"running", "ok"} =>
                 status' = "ValidationError" /\ ~ValidField(desc', v) /\ v > 0
      <3>1. visited \in 0..v
        BY <1>3
      <3> WITNESS visited \in 0..v
      <3> QED BY <1>1, <1>2, <1>3, <2>1 DEF Planned
    <2> HIDE DEF v
    <2> QED BY <1>1, <1>8, <2>2 DEF AnalysisInv, Planned
  <1> QED BY <1>6, <1>7

LEMMA StartsIfNew ==
  ASSUME AnalysisInv, visited < Len(desc.fields)
  PROVE  /\ StartsUnit(desc, visited + 1) <=> (RealOneof(current) => current.oneof \notin seenOneofs)
         /\ status = "running" /\ ~StartsUnit(desc, visited + 1) => ValidField(desc, visited + 1)
  <1> DEFINE v == visited + 1
             before == {n \in 1..visited : RealOneof(desc.fields[n])}
  <1>1. visited \in Nat /\ v - 1 = visited /\ desc.fields[v] = current
    <2>1. visited \in Nat
      BY FieldCount DEF AnalysisInv
    <2> QED BY <2>1 DEF current
  <1>2. seenOneofs = {desc.fields[j].oneof : j \in before}
    BY DEF AnalysisInv
  <1>3. StartsUnit(desc, v) <=>
          (RealOneof(current) => \A j \in 1..visited :
                ~(RealOneof(desc.fields[j]) /\ desc.fields[j].oneof = current.oneof))
    <2> HIDE DEF v
    <2> QED BY <1>1 DEF StartsUnit
  <1>4. current.oneof \in seenOneofs <=>
          \E j \in 1..visited : RealOneof(desc.fields[j]) /\ desc.fields[j].oneof = current.oneof
    BY <1>2
  <1>5. ASSUME status = "running", ~StartsUnit(desc, v) PROVE ValidField(desc, v)
    <2> PICK j \in 1..visited : RealOneof(desc.fields[j]) /\ desc.fields[j].oneof = current.oneof
      BY <1>3, <1>5
    <2>1. Planned(visited)
      BY <1>5 DEF AnalysisInv
    <2>2. ValidField(desc, j)
      BY <2>1 DEF Planned
    <2>3. RealOneof(current)
      BY <1>3, <1>5
    <2> HIDE DEF v
    <2> QED BY <1>1, <2>2, <2>3 DEF ValidField
  <1> QED BY <1>3, <1>4, <1>5

LEMMA AnalysisStep == ASSUME AnalysisInv, [AnalysisNext]_analysisVars PROVE AnalysisInv'
  <1>1. CASE VisitOneof \/ SkipMember \/ VisitField
    <2> DEFINE v == visited + 1
    <2>1. Visit /\ visited < Len(desc.fields) /\ status = "running" /\ desc.fields[v] = current
      BY <1>1 DEF VisitOneof, SkipMember, VisitField, Visit, current
    <2>2. /\ StartsUnit(desc, v) <=> (RealOneof(current) => current.oneof \notin seenOneofs)
          /\ ~StartsUnit(desc, v) => ValidField(desc, v)
      BY <2>1, StartsIfNew
    <2>3. seenOneofs' = IF RealOneof(current) THEN seenOneofs \cup {current.oneof}
                        ELSE seenOneofs
      BY <1>1 DEF VisitOneof, SkipMember, VisitField
    <2> HIDE DEF v
    <2>4. \/ Plans(UnitAt(desc, v), ValidField(desc, v)) /\ StartsUnit(desc, v)
          \/ UNCHANGED <<schemaUnits, status>> /\ ~StartsUnit(desc, v) /\ ValidField(desc, v)
      <3>1. CASE VisitOneof
        BY <2>1, <2>2, <3>1 DEF VisitOneof, UnitAt, ValidField
      <3>2. CASE SkipMember
        BY <2>2, <3>2 DEF SkipMember
      <3>3. CASE VisitField
        BY <2>1, <2>2, <3>3 DEF VisitField, UnitAt, ValidField
      <3> QED BY <1>1, <3>1, <3>2, <3>3
    <2> QED BY <2>1, <2>3, <2>4, VisitInv DEF v
  <1>2. CASE Return
    <2>1. status = "running" /\ visited = Len(desc.fields) /\ Planned(visited) /\ status' = "ok"
      BY <1>2 DEF Return, AnalysisInv
    <2>2. UNCHANGED <<desc, visited, schemaUnits, seenOneofs>>
      BY <1>2 DEF Return
    <2>3. visited \in 0..visited
      BY FieldCount DEF AnalysisInv
    <2> QED BY <2>1, <2>2, <2>3 DEF AnalysisInv, Planned
  <1>3. CASE UNCHANGED analysisVars
    BY <1>3 DEF analysisVars, AnalysisInv, Planned
  <1> QED BY <1>1, <1>2, <1>3 DEF AnalysisNext

(* The unit that a field starts contains that field, or the members of its *)
(* oneof.                                                                  *)
LEMMA UnitHas ==
  ASSUME desc \in Messages, NEW i \in 1..Len(desc.fields), NEW n \in 1..Len(desc.fields)
  PROVE  Contains(FieldsOf(UnitAt(desc, i)), desc.fields[n]) <=>
           IF RealOneof(desc.fields[i])
           THEN RealOneof(desc.fields[n]) /\ desc.fields[n].oneof = desc.fields[i].oneof
           ELSE n = i
  <1> DEFINE fi == desc.fields[i]
             fn == desc.fields[n]
             u == UnitAt(desc, i)
  <1>1. \A j, k \in 1..Len(desc.fields) : desc.fields[j] = desc.fields[k] => j = k
    BY MessagesAssumption
  <1>2. CASE ~RealOneof(fi)
    <2>1. FieldsOf(u) = <<fi>>
      BY <1>2 DEF UnitAt, ScalarUnit, FieldsOf
    <2>2. Len(<<fi>>) = 1 /\ <<fi>>[1] = fi
      BY SingleIsSeq
    <2>3. Contains(<<fi>>, fn) <=> fi = fn
      <3> HIDE DEF fi, fn
      <3> QED BY <2>2 DEF Contains
    <2> QED BY <1>1, <1>2, <2>1, <2>3
  <1>3. CASE RealOneof(fi)
    <2> DEFINE ms == Members(desc, fi.oneof)
               S == {j \in 1..Len(desc.fields) : RealOneof(desc.fields[j])
                                                 /\ desc.fields[j].oneof = fi.oneof}
    <2>1. FieldsOf(u) = ms
      BY <1>3 DEF UnitAt, OneofUnit, FieldsOf
    <2>2. /\ \A k \in 1..Len(ms) : \E j \in S : ms[k] = desc.fields[j]
          /\ \A j \in S : \E k \in 1..Len(ms) : ms[k] = desc.fields[j]
      <3>1. Len(desc.fields) \in Nat
        BY FieldCount
      <3>2. ASSUME NEW od
            PROVE /\ IsSeq(Members(desc, od))
                  /\ \A k \in 1..Len(Members(desc, od)) : \E j \in 1..Len(desc.fields) :
                       /\ RealOneof(desc.fields[j]) /\ desc.fields[j].oneof = od
                       /\ Members(desc, od)[k] = desc.fields[j]
                  /\ \A j \in 1..Len(desc.fields) :
                       RealOneof(desc.fields[j]) /\ desc.fields[j].oneof = od =>
                         \E k \in 1..Len(Members(desc, od)) : Members(desc, od)[k] = desc.fields[j]
        <4> PICK d : d = desc
          OBVIOUS
        <4>1. Len(d.fields) \in Nat
          BY <3>1
        <4> QED BY <4>1, MembersShape, Zenon
      <3>3. ms = Members(desc, fi.oneof) /\ \A j \in 1..Len(desc.fields) :
              j \in S <=> RealOneof(desc.fields[j]) /\ desc.fields[j].oneof = fi.oneof
        OBVIOUS
      <3>4. S \subseteq 1..Len(desc.fields)
        OBVIOUS
      <3> HIDE DEF ms, S, fi
      <3>5. ASSUME NEW k \in 1..Len(ms) PROVE \E j \in S : ms[k] = desc.fields[j]
        <4>1. \E j \in 1..Len(desc.fields) :
                /\ RealOneof(desc.fields[j]) /\ desc.fields[j].oneof = fi.oneof
                /\ Members(desc, fi.oneof)[k] = desc.fields[j]
          BY <3>2, <3>3, Zenon
        <4> QED BY <3>3, <4>1
      <3>6. \A j \in S : \E k \in 1..Len(ms) : ms[k] = desc.fields[j]
        BY <3>2, <3>3, <3>4
      <3> QED BY <3>5, <3>6
    <2>3. Contains(ms, fn) <=> \E k \in 1..Len(ms) : ms[k] = fn
      BY DEF Contains
    <2> HIDE DEF ms, u
    <2>4. Contains(ms, fn) <=> n \in S
      BY <1>1, <2>2, <2>3
    <2> QED BY <1>3, <2>1, <2>4 DEF u
  <1> QED BY <1>2, <1>3

(* Exactly one field starts the unit of a given one. *)
LEMMA OneStart ==
  ASSUME desc \in Messages, NEW n \in 1..Len(desc.fields)
  PROVE  \E i \in 1..Len(desc.fields) :
           /\ StartsUnit(desc, i) /\ Contains(FieldsOf(UnitAt(desc, i)), desc.fields[n])
           /\ \A j \in 1..Len(desc.fields) :
                StartsUnit(desc, j) /\ Contains(FieldsOf(UnitAt(desc, j)), desc.fields[n]) => j = i
  <1> DEFINE N == Len(desc.fields)
             fn == desc.fields[n]
             Contained(i) == Contains(FieldsOf(UnitAt(desc, i)), fn)
             Same(i) == RealOneof(desc.fields[i]) /\ desc.fields[i].oneof = fn.oneof
  <1>0. N \in Nat
    BY FieldCount
  <1>1. \A i \in 1..N : Contained(i) <=> IF RealOneof(desc.fields[i]) THEN RealOneof(fn) /\ Same(i)
                                   ELSE n = i
    BY UnitHas
  <1> HIDE DEF Contained
  <1>2. CASE ~RealOneof(fn)
    <2>1. \A i \in 1..N : Contained(i) <=> i = n
      BY <1>1, <1>2
    <2>2. StartsUnit(desc, n)
      BY <1>2 DEF StartsUnit
    <2> QED BY <2>1, <2>2 DEF Contained
  <1>3. CASE RealOneof(fn)
    <2>1. \A i \in 1..N : Contained(i) <=> Same(i)
      BY <1>1, <1>3
    <2>2. \A i \in 1..N : Same(i) =>
            (StartsUnit(desc, i) <=> \A j \in 1..(i - 1) : ~Same(j))
      BY DEF StartsUnit
    <2> DEFINE P == {i \in 1..N : Same(i)}
    <2>3. n \in P /\ P \subseteq Nat
      BY <1>3
    <2> HIDE DEF Same
    <2>4. PICK i \in P : \A j \in P : i <= j
      <3>1. \E m \in P : \A y \in P : ~(y < m)
        BY <2>3, LeastNat
      <3> HIDE DEF P
      <3> QED BY <2>3, <3>1
    <2>5. i \in 1..N /\ StartsUnit(desc, i) /\ Contained(i)
      <3>1. \A j \in 1..(i - 1) : j \in 1..N /\ ~(i <= j)
        BY <1>0
      <3> QED BY <2>1, <2>2, <2>4, <3>1
    <2>6. ASSUME NEW j \in 1..N, StartsUnit(desc, j), Contained(j) PROVE j = i
      <3>1. Same(j) /\ j \in P /\ i <= j /\ Same(i) /\ i \in 1..N
        BY <2>1, <2>4, <2>6
      <3>2. i \notin 1..(j - 1)
        BY <2>2, <2>6, <3>1
      <3> QED BY <3>1, <3>2
    <2> QED BY <2>5, <2>6 DEF Contained
  <1> QED BY <1>2, <1>3

(* The pass over a descriptor: its plan so far is the declarative one, and *)
(* it has stopped only at a field that is invalid.                         *)
THEOREM AnalysisInvariance == AnalysisSpec => []AnalysisInv
  <1>1. AnalysisInit => AnalysisInv
    BY AnalysisInitInv
  <1>2. AnalysisInv /\ [AnalysisNext]_analysisVars => AnalysisInv'
    BY AnalysisStep
  <1> QED BY <1>1, <1>2, PTL DEF AnalysisSpec

(* AnalyzeMessage accepts a descriptor exactly when every annotation is    *)
(* valid, and computes the plan that Pack and Unpack are modelled with.    *)
THEOREM PassComputesPlanAlways == AnalysisSpec => []PassComputesPlan
  <1>1. AnalysisInv => PassComputesPlan
    <2> SUFFICES ASSUME AnalysisInv PROVE PassComputesPlan
      OBVIOUS
    <2>1. PICK n \in 0..visited :
            /\ Planned(n)
            /\ status \in {"running", "ok"} => n = visited
            /\ status = "ok" => n = Len(desc.fields)
            /\ status \notin {"running", "ok"} =>
                 status = "ValidationError" /\ ~ValidField(desc, visited) /\ visited > 0
      BY DEF AnalysisInv
    <2>2. status = "ValidationError" => ~ValidMessage(desc)
      <3>1. visited > 0 => visited \in 1..Len(desc.fields)
        BY FieldCount DEF AnalysisInv
      <3> QED BY <2>1, <3>1 DEF ValidMessage
    <2> QED BY <2>1, <2>2 DEF PassComputesPlan, Planned, Plan, ValidMessage
  <1> QED BY <1>1, AnalysisInvariance, PTL

(* The selector of a oneof that AnalyzeMessage accepts has a number for    *)
(* each member, and one for none.                                          *)
THEOREM SelectorFitsAlways == AnalysisSpec => []SelectorFits
  <1>1. AnalysisInv => SelectorFits
    <2> SUFFICES ASSUME AnalysisInv, NEW k \in 1..Len(schemaUnits), schemaUnits[k].unit = "oneof"
                 PROVE  Len(schemaUnits[k].fields) < 2 ^ schemaUnits[k].selectorBits
      BY DEF SelectorFits
    <2>1. PICK n \in 0..visited : Planned(n)
      BY DEF AnalysisInv
    <2>2. n \in Nat /\ 1..n \subseteq 1..Len(desc.fields) /\ desc \in Messages
      BY FieldCount DEF AnalysisInv
    <2>3. PICK i \in 1..n : schemaUnits[k] = UnitAt(desc, i)
      BY <2>1, <2>2, PlanShape DEF Planned
    <2>4. ValidField(desc, i) /\ i \in 1..Len(desc.fields)
      BY <2>1, <2>2 DEF Planned
    <2> DEFINE od == desc.fields[i].oneof
               ms == Members(desc, od)
               min == MinSelectorBits(Len(ms))
               sb == SelectorBits(desc, od)
    <2>5. /\ RealOneof(desc.fields[i]) /\ ValidOneof(desc, od)
          /\ schemaUnits[k].fields = ms /\ schemaUnits[k].selectorBits = sb
      BY <2>3, <2>4 DEF UnitAt, ScalarUnit, OneofUnit, ValidField
    <2>6. Len(ms) \in Nat
      <3>1. IsSeq(ms)
        BY <2>2, FieldCount, MembersShape
      <3> HIDE DEF ms
      <3> QED BY <3>1, SeqFacts
    <2>7. min \in Nat /\ Len(ms) < 2 ^ min
      BY <2>6, MinSelectorFits
    <2>8. sb \in Nat /\ sb >= min
      <3>1. desc.selectorBits[od] \in Nat
        BY <2>2, <2>4, <2>5, MessagesAssumption
      <3> QED BY <2>5, <2>7, <3>1 DEF ValidOneof, SelectorBits
    <2> HIDE DEF sb, min, ms
    <2>9. 2 ^ min <= 2 ^ sb /\ 2 ^ min \in Nat /\ 2 ^ sb \in Nat
      BY <2>7, <2>8, PowerMonotone, PowerPositive
    <2> QED BY <2>5, <2>6, <2>7, <2>9
  <1> QED BY <1>1, AnalysisInvariance, PTL

(* Every field of a message AnalyzeMessage accepts is in exactly one unit  *)
(* of its schema, wherever the members of its oneofs are declared.         *)
THEOREM EveryFieldOnceAlways == AnalysisSpec => []EveryFieldOnce
  <1>1. AnalysisInv => EveryFieldOnce
    <2> SUFFICES ASSUME AnalysisInv, status = "ok", NEW n \in 1..Len(desc.fields)
                 PROVE  Cardinality({k \in 1..Len(schemaUnits) :
                                  Contains(FieldsOf(schemaUnits[k]), desc.fields[n])}) = 1
      BY DEF EveryFieldOnce
    <2> DEFINE N == Len(desc.fields)
               S == {i \in 1..N : StartsUnit(desc, i)}
               c == Cardinality(S)
               s == InOrder(S)
               In(u) == Contains(FieldsOf(u), desc.fields[n])
    <2>1. desc \in Messages /\ N \in Nat /\ schemaUnits = PlanOf(desc, N)
      BY FieldCount DEF AnalysisInv, Planned
    <2>2. /\ c \in Nat /\ Len(schemaUnits) = c
          /\ \A k \in 1..c : s[k] \in S /\ schemaUnits[k] = UnitAt(desc, s[k])
          /\ \A i \in S : \E k \in 1..c : s[k] = i /\ \A l \in 1..c : s[l] = i => l = k
      <3> DEFINE M == N
      <3>1. M \in Nat /\ schemaUnits = PlanOf(desc, M)
        BY <2>1
      <3> HIDE DEF M
      <3>2. LET SM == {i \in 1..M : StartsUnit(desc, i)}
                cM == Cardinality(SM)
            IN /\ cM \in Nat /\ Len(PlanOf(desc, M)) = cM
               /\ \A k \in 1..cM : InOrder(SM)[k] \in SM
                                   /\ PlanOf(desc, M)[k] = UnitAt(desc, InOrder(SM)[k])
               /\ \A i \in SM : \E k \in 1..cM :
                    InOrder(SM)[k] = i /\ \A l \in 1..cM : InOrder(SM)[l] = i => l = k
        BY <3>1, PlanShape
      <3> QED BY <3>1, <3>2 DEF M
    <2>3. PICK i \in S : In(UnitAt(desc, i)) /\ \A j \in S : In(UnitAt(desc, j)) => j = i
      BY <2>1, OneStart
    <2> HIDE DEF S, s, c, In
    <2>4. PICK k \in 1..c : s[k] = i /\ \A l \in 1..c : s[l] = i => l = k
      BY <2>2
    <2>5. {l \in 1..c : In(schemaUnits[l])} = {k}
      BY <2>2, <2>3, <2>4
    <2>6. Cardinality({k}) = 1
      BY FS_Singleton
    <2> QED BY <2>2, <2>5, <2>6 DEF In
  <1> QED BY <1>1, AnalysisInvariance, PTL

-----------------------------------------------------------------------------
(* Places: a is b, or inside it. *)

Under(a, b) == Len(b) <= Len(a) /\ \A i \in 1..Len(b) : a[i] = b[i]

LEMMA UnderItself == ASSUME NEW a, IsSeq(a) PROVE Under(a, a)
  BY SeqFacts DEF Under

LEMMA UnderUnder ==
  ASSUME NEW a, NEW b, NEW c, IsSeq(a), IsSeq(b), IsSeq(c), Under(a, b), Under(b, c)
  PROVE  Under(a, c)
  <1>1. Len(a) \in Nat /\ Len(b) \in Nat /\ Len(c) \in Nat
    BY SeqFacts
  <1>2. Len(c) <= Len(b) /\ Len(b) <= Len(a) /\ \A i \in 1..Len(c) : i \in 1..Len(b)
    BY <1>1 DEF Under
  <1> QED BY <1>1, <1>2 DEF Under

(* Two places that hold a third are one inside the other. *)
LEMMA UnderBoth ==
  ASSUME NEW a, NEW b, NEW c, IsSeq(a), IsSeq(b), IsSeq(c), Under(a, b), Under(a, c)
  PROVE  Under(b, c) \/ Under(c, b)
  <1>1. Len(a) \in Nat /\ Len(b) \in Nat /\ Len(c) \in Nat
    BY SeqFacts
  <1>2. CASE Len(b) <= Len(c)
    <2>1. \A i \in 1..Len(b) : i \in 1..Len(c)
      BY <1>1, <1>2
    <2> QED BY <1>2, <2>1 DEF Under
  <1>3. CASE Len(c) <= Len(b)
    <2>1. \A i \in 1..Len(c) : i \in 1..Len(b)
      BY <1>1, <1>3
    <2> QED BY <1>3, <2>1 DEF Under
  <1> QED BY <1>1, <1>2, <1>3

LEMMA UnderSame ==
  ASSUME NEW a, NEW b, IsSeq(a), IsSeq(b), Under(a, b), Len(a) <= Len(b)
  PROVE  a = b
  <1>1. Len(a) = Len(b)
    BY SeqFacts DEF Under
  <1> QED BY <1>1, SeqsEqual DEF Under

LEMMA UnderAppend ==
  ASSUME NEW a, IsSeq(a), NEW x
  PROVE  /\ IsSeq(Append(a, x)) /\ Len(Append(a, x)) = Len(a) + 1
         /\ Under(Append(a, x), a)
  <1>1. Len(a) \in Nat
    BY SeqFacts
  <1> QED BY <1>1, AppendFacts DEF Under

-----------------------------------------------------------------------------
(* What a place is for, by the descriptors alone: a message, a field or a  *)
(* oneof.                                                                  *)

FieldNode(fd) == <<"field", fd>>
MessageNode(type) == <<"message", type>>
UnitNode(u) == IF u.unit = "field" THEN FieldNode(u.fd) ELSE <<"oneof", u>>
Inside(type, k) == UnitNode(Plan(Descriptor[type])[k])

Down(node, k) ==
  IF node[1] = "message" THEN Inside(node[2], k)
  ELSE IF node[1] = "oneof" THEN FieldNode(node[2].fields[k])
  ELSE IF node[2].card = "repeated" THEN MessageNode(node[2].type)
  ELSE Inside(node[2].type, k)

Walk(type, at, node) ==
  \E w : /\ w[0] = MessageNode(type) /\ w[Len(at)] = node
         /\ \A i \in 1..Len(at) : w[i] = Down(w[i - 1], at[i])

LEMMA WalkStarts == ASSUME NEW type PROVE Walk(type, <<>>, MessageNode(type))
  <1> DEFINE w == [i \in {0} |-> MessageNode(type)]
  <1>1. w[0] = MessageNode(type)
    OBVIOUS
  <1>2. Len(<<>>) = 0 /\ 1..0 = {}
    BY EmptyIsSeq
  <1> HIDE DEF w
  <1> QED BY <1>1, <1>2 DEF Walk

LEMMA WalkUnique ==
  ASSUME NEW type, NEW at, IsSeq(at), NEW x, NEW y, Walk(type, at, x), Walk(type, at, y)
  PROVE  x = y
  <1> PICK w : /\ w[0] = MessageNode(type) /\ w[Len(at)] = x
               /\ \A i \in 1..Len(at) : w[i] = Down(w[i - 1], at[i])
    BY DEF Walk
  <1> PICK v : /\ v[0] = MessageNode(type) /\ v[Len(at)] = y
               /\ \A i \in 1..Len(at) : v[i] = Down(v[i - 1], at[i])
    BY DEF Walk
  <1>1. Len(at) \in Nat
    BY SeqFacts
  <1> DEFINE S == {i \in Nat : i <= Len(at) => w[i] = v[i]}
  <1>2. 0 \in S
    OBVIOUS
  <1>3. ASSUME NEW n \in Nat, n \in S PROVE n + 1 \in S
    <2> SUFFICES ASSUME n + 1 <= Len(at) PROVE w[n + 1] = v[n + 1]
      OBVIOUS
    <2>1. n + 1 \in 1..Len(at) /\ (n + 1) - 1 = n /\ n <= Len(at)
      BY <1>1
    <2>2. w[n] = v[n]
      BY <1>3, <2>1
    <2>3. w[n + 1] = Down(w[n], at[n + 1]) /\ v[n + 1] = Down(v[n], at[n + 1])
      BY <2>1
    <2> QED BY <2>2, <2>3
  <1>4. Nat \subseteq S
    <2> HIDE DEF S
    <2> QED BY <1>2, <1>3, Induction
  <1> QED BY <1>1, <1>4

LEMMA WalkDown ==
  ASSUME NEW type, NEW at, IsSeq(at), NEW x, Walk(type, at, x), NEW k
  PROVE  Walk(type, Append(at, k), Down(x, k))
  <1> PICK w : /\ w[0] = MessageNode(type) /\ w[Len(at)] = x
               /\ \A i \in 1..Len(at) : w[i] = Down(w[i - 1], at[i])
    BY DEF Walk
  <1> PICK l \in Nat : l = Len(at)
    BY SeqFacts
  <1> DEFINE at2 == Append(at, k)
             v == [i \in 0..(l + 1) |-> IF i = l + 1 THEN Down(x, k) ELSE w[i]]
  <1>1. Len(at2) = l + 1 /\ at2[l + 1] = k /\ \A i \in 1..l : at2[i] = at[i]
    BY AppendFacts
  <1>2. v[l + 1] = Down(x, k) /\ \A i \in 0..l : v[i] = w[i]
    OBVIOUS
  <1> HIDE DEF v, at2
  <1>3. v[0] = MessageNode(type)
    BY <1>2
  <1>4. ASSUME NEW i \in 1..(l + 1) PROVE v[i] = Down(v[i - 1], at2[i])
    <2>1. CASE i = l + 1
      <3>1. i - 1 = l /\ l \in 0..l
        BY <2>1
      <3>2. v[i - 1] = x
        BY <1>2, <3>1
      <3> QED BY <1>1, <1>2, <2>1, <3>2
    <2>2. CASE i # l + 1
      <3>1. i \in 1..l /\ i \in 0..l /\ i - 1 \in 0..l
        BY <2>2
      <3>2. w[i] = Down(w[i - 1], at[i])
        BY <3>1
      <3> QED BY <1>1, <1>2, <3>1, <3>2
    <2> QED BY <2>1, <2>2
  <1>5. Walk(type, at2, Down(x, k))
    BY <1>1, <1>2, <1>3, <1>4 DEF Walk
  <1> QED BY <1>5 DEF at2

-----------------------------------------------------------------------------
(* The work after the head of w has left more. *)

LEMMA NextWork ==
  ASSUME NEW w, NEW more, IsSeq(w), w # <<>>, IsSeq(more)
  PROVE  /\ IsSeq(more \o Tail(w)) /\ Head(w) = w[1] /\ 1 \in 1..Len(w)
         /\ Len(w) \in Nat /\ Len(more) \in Nat
         /\ Len(more \o Tail(w)) = Len(more) + Len(w) - 1
         /\ \A i \in 1..Len(more) : (more \o Tail(w))[i] = more[i]
         /\ \A j \in 2..Len(w) : (more \o Tail(w))[Len(more) + j - 1] = w[j]
         /\ \A i \in 1..Len(more \o Tail(w)) :
              \/ i \in 1..Len(more) /\ (more \o Tail(w))[i] = more[i]
              \/ \E j \in 2..Len(w) : i = Len(more) + j - 1 /\ (more \o Tail(w))[i] = w[j]
  <1> PICK rest : rest = Tail(w)
    OBVIOUS
  <1> DEFINE w2 == more \o rest
  <1>1. /\ Head(w) = w[1] /\ Len(w) \in Nat \ {0} /\ IsSeq(rest) /\ Len(rest) = Len(w) - 1
        /\ \A i \in 1..Len(rest) : rest[i] = w[i + 1]
    BY TailFacts
  <1>2. Len(more) \in Nat
    BY SeqFacts
  <1>3. /\ IsSeq(w2) /\ Len(w2) = Len(more) + Len(rest)
        /\ \A i \in 1..Len(more) : w2[i] = more[i]
        /\ \A i \in 1..Len(rest) : w2[Len(more) + i] = rest[i]
    BY <1>1, ConcatFacts
  <1> HIDE DEF w2
  <1>4. ASSUME NEW j \in 2..Len(w) PROVE w2[Len(more) + j - 1] = w[j]
    <2> PICK i : i = j - 1
      OBVIOUS
    <2>1. i \in 1..Len(rest) /\ i + 1 = j /\ Len(more) + j - 1 = Len(more) + i
      BY <1>1, <1>2
    <2> QED BY <1>1, <1>3, <2>1
  <1>5. ASSUME NEW i \in 1..Len(w2)
        PROVE  \/ i \in 1..Len(more) /\ w2[i] = more[i]
               \/ \E j \in 2..Len(w) : i = Len(more) + j - 1 /\ w2[i] = w[j]
    <2>1. CASE i \in 1..Len(more)
      BY <1>3, <2>1
    <2>2. CASE i \notin 1..Len(more)
      <3> PICK j : j = i - Len(more) + 1
        OBVIOUS
      <3>1. j \in 2..Len(w) /\ i = Len(more) + j - 1
        BY <1>1, <1>2, <1>3, <2>2
      <3> QED BY <1>4, <3>1
    <2> QED BY <2>1, <2>2
  <1>6. Len(w2) = Len(more) + Len(w) - 1 /\ 1 \in 1..Len(w) /\ Len(w) \in Nat
    BY <1>1, <1>2, <1>3
  <1> QED BY <1>1, <1>2, <1>3, <1>4, <1>5, <1>6 DEF w2

(* Of two items one of which is at or inside the place of a later one, both *)
(* are values of the same list or map; what is inside a place is coded      *)
(* before all else there.                                                   *)
Apart(x, y) == Under(y.at, x.at) => x.at = y.at /\ x.op = "value" /\ y.op = "value"

Disciplined(w) ==
  /\ \A i \in 1..Len(w) : IsSeq(w[i].at)
  /\ \A i, j \in 1..Len(w) : i < j => Apart(w[i], w[j])

(* What an item leaves: units inside its place, and values there if it is  *)
(* a unit itself.                                                          *)
Offspring(it, more) ==
  /\ IsSeq(more) /\ Disciplined(more)
  /\ \A i \in 1..Len(more) :
       /\ Under(more[i].at, it.at)
       /\ \/ more[i].op = "unit" /\ Len(more[i].at) > Len(it.at)
          \/ more[i].op = "value" /\ it.op = "unit"

LEMMA DisciplinedNext ==
  ASSUME NEW w, NEW more, IsSeq(w), w # <<>>, Disciplined(w), Offspring(Head(w), more)
  PROVE  Disciplined(more \o Tail(w))
  <1> DEFINE w2 == more \o Tail(w)
             h == w[1]
             l == Len(more)
  <1>1. /\ IsSeq(w2) /\ Head(w) = h /\ 1 \in 1..Len(w) /\ l \in Nat /\ Len(w) \in Nat
        /\ \A i \in 1..Len(w2) :
             \/ i \in 1..l /\ w2[i] = more[i]
             \/ \E j \in 2..Len(w) : i = l + j - 1 /\ w2[i] = w[j]
    BY NextWork DEF Offspring
  <1> HIDE DEF w2
  <1>2. /\ \A i \in 1..l : IsSeq(more[i].at)
        /\ \A i \in 1..Len(w) : IsSeq(w[i].at)
        /\ \A i, j \in 1..l : i < j => Apart(more[i], more[j])
        /\ \A i, j \in 1..Len(w) : i < j => Apart(w[i], w[j])
    BY DEF Offspring, Disciplined
  <1>3. \A i \in 1..Len(w2) : IsSeq(w2[i].at)
    <2>1. \A j \in 2..Len(w) : j \in 1..Len(w)
      BY <1>1
    <2> QED BY <1>1, <1>2, <2>1, Zenon
  <1>4. ASSUME NEW i \in 1..l, NEW j \in 2..Len(w) PROVE Apart(more[i], w[j])
    <2> SUFFICES ASSUME Under(w[j].at, more[i].at) PROVE FALSE
      BY DEF Apart
    <2>1. /\ Under(more[i].at, h.at)
          /\ \/ more[i].op = "unit" /\ Len(more[i].at) > Len(h.at)
             \/ more[i].op = "value" /\ h.op = "unit"
      BY <1>1 DEF Offspring
    <2>2. 1 < j /\ j \in 1..Len(w)
      BY <1>1
    <2>3. IsSeq(w[j].at) /\ IsSeq(more[i].at) /\ IsSeq(h.at)
      BY <1>1, <1>2, <2>2
    <2>4. Under(w[j].at, h.at)
      BY <2>1, <2>3, UnderUnder
    <2>5. h.at = w[j].at /\ h.op = "value"
      BY <1>1, <1>2, <2>2, <2>4 DEF Apart
    <2>6. Len(more[i].at) > Len(h.at)
      BY <2>1, <2>5
    <2>7. Len(more[i].at) <= Len(h.at)
      BY <2>5 DEF Under
    <2> QED BY <2>3, <2>6, <2>7, SeqFacts
  <1>5. ASSUME NEW i \in 1..Len(w2), NEW j \in 1..Len(w2), i < j PROVE Apart(w2[i], w2[j])
    <2>1. CASE j \in 1..l
      <3>1. i \in 1..l /\ w2[i] = more[i] /\ w2[j] = more[j]
        BY <1>1, <1>5, <2>1
      <3> QED BY <1>2, <1>5, <2>1, <3>1
    <2>2. CASE j \notin 1..l
      <3> PICK m \in 2..Len(w) : j = l + m - 1 /\ w2[j] = w[m]
        BY <1>1, <2>2
      <3>1. CASE i \in 1..l
        <4>1. w2[i] = more[i]
          BY <1>1, <3>1
        <4> QED BY <1>4, <3>1, <4>1
      <3>2. CASE i \notin 1..l
        <4> PICK n \in 2..Len(w) : i = l + n - 1 /\ w2[i] = w[n]
          BY <1>1, <3>2
        <4>1. n < m /\ n \in 1..Len(w) /\ m \in 1..Len(w)
          BY <1>1, <1>5
        <4> QED BY <1>2, <4>1
      <3> QED BY <3>1, <3>2
    <2> QED BY <2>1, <2>2
  <1>6. Disciplined(w2)
    BY <1>3, <1>5 DEF Disciplined
  <1> QED BY <1>6 DEF w2

-----------------------------------------------------------------------------
(* The values that wait at a place are the n items of the work behind the  *)
(* a-th: they are coded one after the other.                               *)

IsValueAt(it, at) == it.op = "value" /\ it.at = at

Waiting(w, at, a, n) ==
  /\ a \in Nat /\ n \in Nat /\ a + n <= Len(w)
  /\ \A i \in 1..Len(w) : IsValueAt(w[i], at) <=> a < i /\ i <= a + n

(* No value is at the place. *)
Fallow(w, at) == \A i \in 1..Len(w) : ~IsValueAt(w[i], at)

(* The n values behind the a-th item of w wait in w2. *)
Wait(w2, at, n, w, a) == \E b : /\ Waiting(w2, at, b, n)
                                /\ \A j \in 1..n : w2[b + j] = w[a + j]

(* The work moves on, and no value at the place comes or goes. *)
LEMMA WaitingMoves ==
  ASSUME NEW w, NEW more, IsSeq(w), w # <<>>, IsSeq(more), NEW at,
         NEW a, NEW n, Waiting(w, at, a, n), ~IsValueAt(Head(w), at),
         Fallow(more, at)
  PROVE  Wait(more \o Tail(w), at, n, w, a)
  <1> DEFINE w2 == more \o Tail(w)
             l == Len(more)
  <1>1. /\ IsSeq(w2) /\ Head(w) = w[1] /\ 1 \in 1..Len(w) /\ l \in Nat /\ Len(w) \in Nat
        /\ Len(w2) = l + Len(w) - 1
        /\ \A i \in 1..l : w2[i] = more[i]
        /\ \A j \in 2..Len(w) : w2[l + j - 1] = w[j]
        /\ \A i \in 1..Len(w2) :
             \/ i \in 1..l /\ w2[i] = more[i]
             \/ \E j \in 2..Len(w) : i = l + j - 1 /\ w2[i] = w[j]
    BY NextWork
  <1> HIDE DEF w2, l
  <1>2. a \in Nat /\ n \in Nat /\ a + n <= Len(w)
    BY DEF Waiting
  <1>3. CASE n = 0
    <2>1. ASSUME NEW i \in 1..Len(w2) PROVE ~IsValueAt(w2[i], at)
      <3>1. \A j \in 2..Len(w) : j \in 1..Len(w) /\ ~(a < j /\ j <= a + n)
        BY <1>1, <1>2, <1>3
      <3>2. \A j \in 2..Len(w) : ~IsValueAt(w[j], at)
        BY <3>1 DEF Waiting
      <3> QED BY <1>1, <3>2 DEF l, Fallow
    <2>2. Waiting(w2, at, 0, n)
      <3>1. 0 \in Nat /\ n \in Nat /\ 0 + n <= Len(w2) /\ \A i \in 1..Len(w2) : ~(0 < i /\ i <= 0 + n)
        BY <1>1, <1>2, <1>3
      <3> QED BY <2>1, <3>1 DEF Waiting
    <2>3. \A j \in 1..n : FALSE
      BY <1>3
    <2> QED BY <2>2, <2>3 DEF w2, Wait
  <1>4. CASE n # 0
    <2>1. a # 0
      <3>1. ~(a < 1 /\ 1 <= a + n)
        BY <1>1 DEF Waiting
      <3> QED BY <1>2, <1>4, <3>1
    <2> PICK b \in Nat : b = l + a - 1
      <3>1. l + a - 1 \in Nat
        BY <1>1, <1>2, <2>1
      <3> QED BY <3>1
    <2>2. ASSUME NEW i \in 1..Len(w2)
          PROVE  IsValueAt(w2[i], at) <=> b < i /\ i <= b + n
      <3>1. CASE i \in 1..l
        <4>1. ~IsValueAt(w2[i], at)
          BY <1>1, <3>1 DEF l, Fallow
        <4>2. ~(b < i)
          BY <1>1, <1>2, <2>1, <3>1
        <4> QED BY <4>1, <4>2
      <3>2. CASE i \notin 1..l
        <4> PICK j \in 2..Len(w) : i = l + j - 1 /\ w2[i] = w[j]
          BY <1>1, <3>2
        <4>1. j \in 1..Len(w) /\ (b < i /\ i <= b + n <=> a < j /\ j <= a + n)
          BY <1>1, <1>2
        <4>2. IsValueAt(w[j], at) <=> a < j /\ j <= a + n
          BY <4>1 DEF Waiting
        <4> QED BY <4>1, <4>2
      <3> QED BY <3>1, <3>2
    <2>3. Waiting(w2, at, b, n)
      <3>1. b + n <= Len(w2)
        BY <1>1, <1>2
      <3> QED BY <1>2, <2>2, <3>1 DEF Waiting
    <2>4. ASSUME NEW j \in 1..n PROVE w2[b + j] = w[a + j]
      <3> PICK m : m = a + j
        OBVIOUS
      <3>1. m \in 2..Len(w) /\ b + j = l + m - 1
        BY <1>1, <1>2, <2>1
      <3> QED BY <1>1, <3>1
    <2> QED BY <2>3, <2>4 DEF w2, Wait
  <1> QED BY <1>3, <1>4

(* The head of the work is the first of the values that wait. *)
LEMMA WaitingHead ==
  ASSUME NEW w, NEW more, IsSeq(w), w # <<>>, IsSeq(more), NEW at,
         NEW a, NEW n, Waiting(w, at, a, n), IsValueAt(Head(w), at),
         Fallow(more, at)
  PROVE  /\ a = 0 /\ n \in Nat \ {0} /\ w[1] = Head(w)
         /\ Wait(more \o Tail(w), at, n - 1, w, 1)
  <1> DEFINE w2 == more \o Tail(w)
             l == Len(more)
  <1>1. /\ IsSeq(w2) /\ Head(w) = w[1] /\ 1 \in 1..Len(w) /\ l \in Nat /\ Len(w) \in Nat
        /\ Len(w2) = l + Len(w) - 1
        /\ \A i \in 1..l : w2[i] = more[i]
        /\ \A j \in 2..Len(w) : w2[l + j - 1] = w[j]
        /\ \A i \in 1..Len(w2) :
             \/ i \in 1..l /\ w2[i] = more[i]
             \/ \E j \in 2..Len(w) : i = l + j - 1 /\ w2[i] = w[j]
    BY NextWork
  <1> HIDE DEF w2, l
  <1>2. a \in Nat /\ n \in Nat /\ a + n <= Len(w)
    BY DEF Waiting
  <1>3. a = 0 /\ n \in Nat \ {0}
    <2>1. a < 1 /\ 1 <= a + n
      BY <1>1 DEF Waiting
    <2> QED BY <1>2, <2>1
  <1>4. ASSUME NEW i \in 1..Len(w2)
        PROVE  IsValueAt(w2[i], at) <=> l < i /\ i <= l + (n - 1)
    <2>1. CASE i \in 1..l
      <3>1. ~IsValueAt(w2[i], at) /\ ~(l < i)
        BY <1>1, <2>1 DEF l, Fallow
      <3> QED BY <3>1
    <2>2. CASE i \notin 1..l
      <3> PICK j \in 2..Len(w) : i = l + j - 1 /\ w2[i] = w[j]
        BY <1>1, <2>2
      <3>1. j \in 1..Len(w) /\ (l < i /\ i <= l + (n - 1) <=> a < j /\ j <= a + n)
        BY <1>1, <1>2, <1>3
      <3>2. IsValueAt(w[j], at) <=> a < j /\ j <= a + n
        BY <3>1 DEF Waiting
      <3> QED BY <3>1, <3>2
    <2> QED BY <2>1, <2>2
  <1>5. Waiting(w2, at, l, n - 1)
    <2>1. l + (n - 1) <= Len(w2) /\ n - 1 \in Nat
      BY <1>1, <1>2, <1>3
    <2> QED BY <1>1, <1>4, <2>1 DEF Waiting
  <1>6. ASSUME NEW j \in 1..(n - 1) PROVE w2[l + j] = w[1 + j]
    <2>1. 1 + j \in 2..Len(w) /\ l + j = l + (1 + j) - 1
      BY <1>1, <1>2, <1>3
    <2> QED BY <1>1, <2>1
  <1>7. Wait(w2, at, n - 1, w, 1)
    BY <1>5, <1>6 DEF Wait
  <1> QED BY <1>1, <1>3, <1>7 DEF w2

(* A unit leaves values at a place where none waited. *)
LEMMA WaitingBegins ==
  ASSUME NEW w, NEW more, IsSeq(w), w # <<>>, IsSeq(more), Disciplined(w), NEW at,
         Head(w).op = "unit", Head(w).at = at,
         \A i \in 1..Len(more) : IsValueAt(more[i], at)
  PROVE  Waiting(more \o Tail(w), at, 0, Len(more))
  <1> DEFINE w2 == more \o Tail(w)
             l == Len(more)
  <1>1. /\ IsSeq(w2) /\ Head(w) = w[1] /\ 1 \in 1..Len(w) /\ l \in Nat /\ Len(w) \in Nat
        /\ Len(w2) = l + Len(w) - 1
        /\ \A i \in 1..Len(w2) :
             \/ i \in 1..l /\ w2[i] = more[i]
             \/ \E j \in 2..Len(w) : i = l + j - 1 /\ w2[i] = w[j]
    BY NextWork
  <1> HIDE DEF w2
  <1>2. ASSUME NEW j \in 2..Len(w) PROVE ~IsValueAt(w[j], at)
    <2> SUFFICES ASSUME w[j].at = at PROVE FALSE
      BY DEF IsValueAt
    <2>1. 1 < j /\ j \in 1..Len(w)
      BY <1>1
    <2>2. Apart(w[1], w[j]) /\ IsSeq(w[j].at)
      BY <1>1, <2>1 DEF Disciplined
    <2>3. Under(w[j].at, w[1].at)
      BY <1>1, <2>2, UnderItself
    <2>4. w[1].op = "value"
      BY <2>2, <2>3 DEF Apart
    <2> QED BY <1>1, <2>4
  <1>3. ASSUME NEW i \in 1..Len(w2)
        PROVE  IsValueAt(w2[i], at) <=> 0 < i /\ i <= 0 + l
    <2>1. CASE i \in 1..l
      BY <1>1, <2>1
    <2>2. CASE i \notin 1..l
      <3> PICK j \in 2..Len(w) : i = l + j - 1 /\ w2[i] = w[j]
        BY <1>1, <2>2
      <3>1. ~IsValueAt(w2[i], at)
        BY <1>2
      <3>2. ~(0 < i /\ i <= 0 + l)
        BY <1>1, <2>2
      <3> QED BY <3>1, <3>2
    <2> QED BY <2>1, <2>2
  <1>4. Waiting(w2, at, 0, l)
    <2>1. 0 + l <= Len(w2)
      BY <1>1
    <2> QED BY <1>1, <1>3, <2>1 DEF Waiting
  <1> QED BY <1>4 DEF w2

-----------------------------------------------------------------------------
(* What is kept of one field, while its values wait, by the README.        *)

EffOf(st, fd) == IF fd.overflow # "UNSPECIFIED" THEN fd.overflow ELSE st

DocOf(st, fd, v) ==
  CASE fd.kind \in {"int", "enum"} -> DocInt(v, MaxOf(fd.bits), EffOf(st, fd))
    [] fd.kind = "bytes" -> DocCrop(v, MaxOf(fd.lengthBits), EffOf(st, fd))
    [] OTHER -> v

EntryOf(st, fd, e) == <<e[1], DocOf(st, MapValue(fd), e[2])>>

(* Of the elements r, those that the count allows: the first of them are   *)
(* kept, the others wait.                                                  *)
ListWith(st, w, at, fd, r, k, a, n, c) ==
  /\ Waiting(w, at, a, n)
  /\ c = KeepList(r, MaxOf(fd.countBits), EffOf(st, fd)) /\ IsSeq(c)
  /\ IsSeq(r) /\ (Len(r) > MaxOf(fd.countBits) => EffOf(st, fd) # "ERROR")
  /\ IsSeq(k) /\ Len(k) + n = Len(c)
  /\ \A j \in 1..Len(k) : k[j] = DocOf(st, fd, c[j])
  /\ \A j \in 1..n : w[a + j].v = c[Len(k) + j]

ListGood(st, w, at, fd, r, k) == \E a, n, c : ListWith(st, w, at, fd, r, k, a, n, c)

(* Of the entries r, as many as the count allows are kept or wait, with    *)
(* keys of their own.                                                      *)
MapWith(st, w, at, fd, r, k, a, n) ==
  /\ Waiting(w, at, a, n)
  /\ IsFiniteSet(r) /\ IsFiniteSet(k)
  /\ Cardinality(k) + n = IF Cardinality(r) > MaxOf(fd.countBits)
                          THEN MaxOf(fd.countBits) ELSE Cardinality(r)
  /\ Cardinality(r) > MaxOf(fd.countBits) => EffOf(st, fd) # "ERROR"
  /\ \A e \in k : \E x \in r : e = EntryOf(st, fd, x)
  /\ \A j \in 1..n : w[a + j].v \in r
  /\ \A i, j \in 1..n : i # j => w[a + i].v[1] # w[a + j].v[1]
  /\ \A e \in k : \A j \in 1..n : e[1] # w[a + j].v[1]

MapGood(st, w, at, fd, r, k) == \E a, n : MapWith(st, w, at, fd, r, k, a, n)

Good(st, w, at, fd, r, k) ==
  /\ FieldOK(fd)
  /\ fd.card = "singular" => k = DocOf(st, fd, r)
  /\ fd.card = "repeated" => ListGood(st, w, at, fd, r, k)
  /\ fd.card = "map" /\ fd.kind # "message" => MapGood(st, w, at, fd, r, k)

LEMMA ListMoves ==
  ASSUME NEW w, NEW more, IsSeq(w), w # <<>>, IsSeq(more), NEW at,
         ~IsValueAt(Head(w), at), Fallow(more, at),
         NEW st, NEW fd, NEW r, NEW k, ListGood(st, w, at, fd, r, k)
  PROVE  ListGood(st, more \o Tail(w), at, fd, r, k)
  <1> PICK a, n, c : ListWith(st, w, at, fd, r, k, a, n, c)
    BY DEF ListGood
  <1>20. /\ Waiting(w, at, a, n)
         /\ c = KeepList(r, MaxOf(fd.countBits), EffOf(st, fd)) /\ IsSeq(c)
         /\ Len(r) > MaxOf(fd.countBits) => EffOf(st, fd) # "ERROR"
         /\ IsSeq(k) /\ Len(k) + n = Len(c)
         /\ \A j \in 1..Len(k) : k[j] = DocOf(st, fd, c[j])
         /\ \A j \in 1..n : w[a + j].v = c[Len(k) + j]
    BY DEF ListWith
  <1>0. Wait(more \o Tail(w), at, n, w, a)
    BY <1>20, WaitingMoves, Zenon
  <1> PICK b : /\ Waiting(more \o Tail(w), at, b, n)
               /\ \A j \in 1..n : (more \o Tail(w))[b + j] = w[a + j]
    BY <1>0 DEF Wait
  <1>1. \A j \in 1..n : (more \o Tail(w))[b + j].v = c[Len(k) + j]
    BY <1>20
  <1>2. ListWith(st, more \o Tail(w), at, fd, r, k, b, n, c)
    BY <1>20, <1>1, Zenon DEF ListWith
  <1> QED BY <1>2, Zenon DEF ListGood

LEMMA ListGrows ==
  ASSUME NEW w, NEW more, IsSeq(w), w # <<>>, IsSeq(more), NEW at,
         IsValueAt(Head(w), at), Fallow(more, at),
         NEW st, NEW fd, NEW r, NEW k, ListGood(st, w, at, fd, r, k)
  PROVE  ListGood(st, more \o Tail(w), at, fd, r, Append(k, DocOf(st, fd, Head(w).v)))
  <1> DEFINE x == DocOf(st, fd, Head(w).v)
             k2 == Append(k, x)
             w2 == more \o Tail(w)
  <1> PICK a, n, c : ListWith(st, w, at, fd, r, k, a, n, c)
    BY DEF ListGood
  <1>20. /\ Waiting(w, at, a, n)
         /\ c = KeepList(r, MaxOf(fd.countBits), EffOf(st, fd)) /\ IsSeq(c)
         /\ Len(r) > MaxOf(fd.countBits) => EffOf(st, fd) # "ERROR"
         /\ IsSeq(k) /\ Len(k) + n = Len(c)
         /\ \A j \in 1..Len(k) : k[j] = DocOf(st, fd, c[j])
         /\ \A j \in 1..n : w[a + j].v = c[Len(k) + j]
    BY DEF ListWith
  <1>1. /\ a = 0 /\ n \in Nat \ {0} /\ w[1] = Head(w)
        /\ Wait(w2, at, n - 1, w, 1)
    BY <1>20, WaitingHead, Zenon
  <1> PICK b : /\ Waiting(w2, at, b, n - 1)
               /\ \A j \in 1..(n - 1) : w2[b + j] = w[1 + j]
    BY <1>1 DEF Wait
  <1>2. Len(k) \in Nat /\ 1 \in 1..n /\ 0 + 1 = 1
    BY <1>1, <1>20, SeqFacts
  <1>3. x = DocOf(st, fd, c[Len(k) + 1])
    <2>1. w[1].v = c[Len(k) + 1]
      BY <1>1, <1>2, <1>20
    <2> QED BY <1>1, <2>1
  <1> HIDE DEF x, w2
  <1>4. /\ IsSeq(k2) /\ Len(k2) = Len(k) + 1 /\ k2[Len(k) + 1] = x
        /\ \A j \in 1..Len(k) : k2[j] = k[j]
    BY <1>20, AppendFacts
  <1> HIDE DEF k2
  <1>5. Len(k2) + (n - 1) = Len(c)
    <2>1. Len(k) + n = Len(c)
      BY <1>20, Zenon
    <2> QED BY <1>1, <1>2, <1>4, <2>1
  <1>6. ASSUME NEW j \in 1..Len(k2) PROVE k2[j] = DocOf(st, fd, c[j])
    <2>1. CASE j \in 1..Len(k)
      BY <1>4, <1>20, <2>1
    <2>2. CASE j \notin 1..Len(k)
      <3>1. j = Len(k) + 1
        BY <1>2, <1>4, <2>2
      <3> QED BY <1>3, <1>4, <3>1
    <2> QED BY <2>1, <2>2
  <1>7. ASSUME NEW j \in 1..(n - 1) PROVE w2[b + j].v = c[Len(k2) + j]
    <2> PICK i : i = j + 1
      OBVIOUS
    <2>1. i \in 1..n /\ 0 + i = i /\ Len(k2) + j = Len(k) + i
      BY <1>1, <1>2, <1>4
    <2>2. w[i].v = c[Len(k) + i]
      BY <1>1, <1>20, <2>1
    <2> QED BY <2>1, <2>2
  <1>8. ListGood(st, w2, at, fd, r, k2)
    <2> PICK n2 : n2 = n - 1
      OBVIOUS
    <2>1. /\ Waiting(w2, at, b, n2) /\ Len(k2) + n2 = Len(c)
          /\ \A j \in 1..n2 : w2[b + j].v = c[Len(k2) + j]
      BY <1>5, <1>7
    <2>2. ListWith(st, w2, at, fd, r, k2, b, n2, c)
      BY <1>4, <1>6, <1>20, <2>1, Zenon DEF ListWith
    <2> QED BY <2>2, Zenon DEF ListGood
  <1> QED BY <1>8 DEF w2, k2, x

LEMMA ListBegins ==
  ASSUME NEW w, NEW at, NEW st, NEW fd, NEW r, NEW c, NEW n,
         c = KeepList(r, MaxOf(fd.countBits), EffOf(st, fd)), IsSeq(r), IsSeq(c), Len(c) = n,
         Len(r) > MaxOf(fd.countBits) => EffOf(st, fd) # "ERROR",
         Waiting(w, at, 0, n), \A j \in 1..n : w[j].v = c[j]
  PROVE  ListGood(st, w, at, fd, r, <<>>)
  <1>1. IsSeq(<<>>) /\ Len(<<>>) = 0 /\ 1..0 = {}
    BY EmptyIsSeq
  <1>2. n \in Nat /\ 0 + n = n
    BY DEF Waiting
  <1>3. \A j \in 1..n : w[0 + j].v = c[0 + j]
    BY <1>2
  <1>4. ListWith(st, w, at, fd, r, <<>>, 0, n, c)
    BY <1>1, <1>2, <1>3 DEF ListWith
  <1> QED BY <1>4, Zenon DEF ListGood

LEMMA MapMoves ==
  ASSUME NEW w, NEW more, IsSeq(w), w # <<>>, IsSeq(more), NEW at,
         ~IsValueAt(Head(w), at), Fallow(more, at),
         NEW st, NEW fd, NEW r, NEW k, MapGood(st, w, at, fd, r, k)
  PROVE  MapGood(st, more \o Tail(w), at, fd, r, k)
  <1> DEFINE max == MaxOf(fd.countBits)
             w2 == more \o Tail(w)
  <1> PICK a, n : MapWith(st, w, at, fd, r, k, a, n)
    BY DEF MapGood
  <1>20. /\ Waiting(w, at, a, n)
         /\ IsFiniteSet(r) /\ IsFiniteSet(k)
         /\ Cardinality(k) + n = IF Cardinality(r) > max THEN max ELSE Cardinality(r)
         /\ Cardinality(r) > max => EffOf(st, fd) # "ERROR"
         /\ \A e \in k : \E x \in r : e = EntryOf(st, fd, x)
         /\ \A j \in 1..n : w[a + j].v \in r
         /\ \A i, j \in 1..n : i # j => w[a + i].v[1] # w[a + j].v[1]
         /\ \A e \in k : \A j \in 1..n : e[1] # w[a + j].v[1]
    BY DEF MapWith
  <1>0. Wait(w2, at, n, w, a)
    BY <1>20, WaitingMoves, Zenon
  <1> PICK b : /\ Waiting(w2, at, b, n)
               /\ \A j \in 1..n : w2[b + j] = w[a + j]
    BY <1>0 DEF Wait
  <1> HIDE DEF w2
  <1>1. /\ \A j \in 1..n : w2[b + j].v \in r
        /\ \A i, j \in 1..n : i # j => w2[b + i].v[1] # w2[b + j].v[1]
        /\ \A e \in k : \A j \in 1..n : e[1] # w2[b + j].v[1]
    BY <1>20, Zenon
  <1>2. MapWith(st, w2, at, fd, r, k, b, n)
    BY <1>20, <1>1, Zenon DEF MapWith
  <1>3. MapGood(st, w2, at, fd, r, k)
    BY <1>2, Zenon DEF MapGood
  <1> QED BY <1>3 DEF w2

(* An entry replaces the one with its key. *)
Replaced(k, x) == {e \in k : e[1] # x[1]} \cup {x}

LEMMA MapGrows ==
  ASSUME NEW w, NEW more, IsSeq(w), w # <<>>, IsSeq(more), NEW at,
         IsValueAt(Head(w), at), Fallow(more, at),
         NEW st, NEW fd, NEW r, NEW k, MapGood(st, w, at, fd, r, k),
         NEW x, x = EntryOf(st, fd, Head(w).v)
  PROVE  MapGood(st, more \o Tail(w), at, fd, r, Replaced(k, x))
  <1> DEFINE max == MaxOf(fd.countBits)
             w2 == more \o Tail(w)
             k2 == Replaced(k, x)
  <1> PICK a, n : MapWith(st, w, at, fd, r, k, a, n)
    BY DEF MapGood
  <1>20. /\ Waiting(w, at, a, n)
         /\ IsFiniteSet(r) /\ IsFiniteSet(k)
         /\ Cardinality(k) + n = IF Cardinality(r) > max THEN max ELSE Cardinality(r)
         /\ Cardinality(r) > max => EffOf(st, fd) # "ERROR"
         /\ \A e \in k : \E y \in r : e = EntryOf(st, fd, y)
         /\ \A j \in 1..n : w[a + j].v \in r
         /\ \A i, j \in 1..n : i # j => w[a + i].v[1] # w[a + j].v[1]
         /\ \A e \in k : \A j \in 1..n : e[1] # w[a + j].v[1]
    BY DEF MapWith
  <1>1. /\ a = 0 /\ n \in Nat \ {0} /\ w[1] = Head(w)
        /\ Wait(w2, at, n - 1, w, 1)
    BY <1>20, WaitingHead, Zenon
  <1> PICK b : /\ Waiting(w2, at, b, n - 1)
               /\ \A j \in 1..(n - 1) : w2[b + j] = w[1 + j]
    BY <1>1 DEF Wait
  <1> HIDE DEF w2, max
  <1>2. /\ \A j \in 1..n : w[j].v \in r
        /\ \A i, j \in 1..n : i # j => w[i].v[1] # w[j].v[1]
        /\ \A e \in k : \A j \in 1..n : e[1] # w[j].v[1]
        /\ 1 \in 1..n
    <2>1. \A j \in 1..n : a + j = j
      BY <1>1
    <2>2. 1 \in 1..n
      BY <1>1
    <2>3. \A j \in 1..n : w[j].v \in r
      BY <1>20, <2>1
    <2>4. ASSUME NEW i \in 1..n, NEW j \in 1..n, i # j PROVE w[i].v[1] # w[j].v[1]
      <3>1. w[a + i].v[1] # w[a + j].v[1]
        BY <1>20, <2>4, Zenon
      <3> QED BY <2>1, <3>1
    <2>5. ASSUME NEW e \in k, NEW j \in 1..n PROVE e[1] # w[j].v[1]
      <3>1. e[1] # w[a + j].v[1]
        BY <1>20, Zenon
      <3> QED BY <2>1, <3>1
    <2> QED BY <2>2, <2>3, <2>4, <2>5, Zenon
  <1>3. x[1] = w[1].v[1]
    BY <1>1 DEF EntryOf
  <1>4. k2 = k \cup {x} /\ x \notin k
    <2>1. \A e \in k : e[1] # x[1]
      BY <1>2, <1>3, Zenon
    <2>2. x \notin k
      BY <2>1, Zenon
    <2>3. {e \in k : e[1] # x[1]} = k
      BY <2>1, Zenon
    <2> QED BY <2>2, <2>3, Zenon DEF Replaced
  <1>5. IsFiniteSet(k2) /\ Cardinality(k2) = Cardinality(k) + 1 /\ Cardinality(k) \in Nat
    BY <1>4, <1>20, FS_AddElement, FS_CardinalityType
  <1> HIDE DEF k2
  <1> PICK n2 : n2 = n - 1
    OBVIOUS
  <1>6. Cardinality(k2) + n2 = IF Cardinality(r) > max THEN max ELSE Cardinality(r)
    <2>1. Cardinality(k2) + n2 = Cardinality(k) + n
      BY <1>1, <1>5
    <2> QED BY <1>20, <2>1
  <1>7. \A e \in k2 : \E y \in r : e = EntryOf(st, fd, y)
    BY <1>1, <1>2, <1>4, <1>20
  <1>8. /\ \A j \in 1..n2 : w2[b + j] = w[1 + j] /\ 1 + j \in 1..n /\ 1 + j # 1
        /\ \A i, j \in 1..n2 : i # j => 1 + i # 1 + j
    BY <1>1
  <1>13. /\ \A j \in 1..n2 : w2[b + j].v \in r
        /\ \A i, j \in 1..n2 : i # j => w2[b + i].v[1] # w2[b + j].v[1]
    BY <1>2, <1>8
  <1>10. \A e \in k2 : \A j \in 1..n2 : e[1] # w2[b + j].v[1]
    BY <1>2, <1>3, <1>4, <1>8
  <1>11. Waiting(w2, at, b, n2)
    OBVIOUS
  <1>12. MapWith(st, w2, at, fd, r, k2, b, n2)
    BY <1>5, <1>6, <1>7, <1>13, <1>10, <1>11, <1>20, Zenon DEF MapWith, max
  <1>14. MapGood(st, w2, at, fd, r, k2)
    BY <1>12, Zenon DEF MapGood
  <1> QED BY <1>14 DEF w2, k2

LEMMA MapBegins ==
  ASSUME NEW w, NEW at, NEW st, NEW fd, NEW r, NEW n \in Nat,
         IsFiniteSet(r),
         n = IF Cardinality(r) > MaxOf(fd.countBits) THEN MaxOf(fd.countBits) ELSE Cardinality(r),
         Cardinality(r) > MaxOf(fd.countBits) => EffOf(st, fd) # "ERROR",
         Waiting(w, at, 0, n), \A j \in 1..n : w[j].v \in r,
         \A i, j \in 1..n : i # j => w[i].v[1] # w[j].v[1]
  PROVE  MapGood(st, w, at, fd, r, {})
  <1>1. IsFiniteSet({}) /\ Cardinality({}) = 0
    BY FS_EmptySet
  <1>2. 0 + n = n /\ \A j \in 1..n : 0 + j = j
    OBVIOUS
  <1>3. /\ \A j \in 1..n : w[0 + j].v \in r
        /\ \A i, j \in 1..n : i # j => w[0 + i].v[1] # w[0 + j].v[1]
    BY <1>2
  <1>4. MapWith(st, w, at, fd, r, {}, 0, n)
    BY <1>1, <1>2, <1>3 DEF MapWith
  <1> QED BY <1>4, Zenon DEF MapGood

(* The field an item is about, if it is about one, and where it stands.    *)
Node(it) == IF it.op = "value" THEN FieldNode(it.u) ELSE UnitNode(it.u)

Placed(rt, s) == \A i \in 1..Len(s) : IsSeq(s[i].at) /\ Walk(rt, s[i].at, Node(s[i]))

IsAbout(it, at, fd) == /\ it.at = at /\ Node(it) = FieldNode(fd)
                       /\ it.op = "value" \/ it.u.unit = "field"

HasField(mk, at, fd) == \E j \in 1..Len(mk) : IsAbout(mk[j], at, fd)

(* A place is for one thing only. *)
LEMMA SameField ==
  ASSUME NEW rt, NEW mk, Placed(rt, mk), NEW at, NEW fd, HasField(mk, at, fd),
         NEW it, IsSeq(at), it.at = at, Walk(rt, at, Node(it))
  PROVE  Node(it) = FieldNode(fd)
  <1> PICK j \in 1..Len(mk) : IsAbout(mk[j], at, fd)
    BY DEF HasField
  <1>1. mk[j].at = at /\ Node(mk[j]) = FieldNode(fd) /\ Walk(rt, at, Node(mk[j]))
    BY DEF IsAbout, Placed
  <1> QED BY <1>1, WalkUnique, Zenon

LEMMA FieldNodeOnto == ASSUME NEW f, NEW g, FieldNode(f) = FieldNode(g) PROVE f = g
  <1>1. FieldNode(f)[2] = f /\ FieldNode(g)[2] = g
    BY DEF FieldNode
  <1> QED BY <1>1, Zenon

LEMMA OneofIsNoField ==
  ASSUME NEW u, u.unit = "oneof", NEW fd PROVE UnitNode(u) # FieldNode(fd)
  <1>1. UnitNode(u)[1] = "oneof" /\ FieldNode(fd)[1] = "field"
    BY DEF UnitNode, FieldNode
  <1> QED BY <1>1

(* The units of a message at a place. *)
LEMMA UnitItemsAre ==
  ASSUME NEW t \in DOMAIN Descriptor, NEW at
  PROVE  /\ IsSeq(UnitItems(t, at))
         /\ \A k \in 1..Len(UnitItems(t, at)) :
              UnitItems(t, at)[k] = Unit(Plan(Descriptor[t])[k], Append(at, k))
  <1> PICK n : n = Len(Descriptor[t].fields)
    OBVIOUS
  <1>1. n \in Nat
    BY DescriptorAssumption
  <1> PICK l \in Nat : l = Len(PlanOf(Descriptor[t], n))
    BY <1>1, PlanShape
  <1>2. UnitItems(t, at) = [k \in 1..l |-> Unit(Plan(Descriptor[t])[k], Append(at, k))]
    BY DEF UnitItems, Plan
  <1> QED BY <1>2, FunctionIsSeq

(* The units of type t are what is inside a place that is for x. *)
Holder(x, t) == \A k : Down(x, k) = Inside(t, k)

LEMMA HolderMessage == ASSUME NEW t PROVE Holder(MessageNode(t), t)
  <1>1. MessageNode(t)[1] = "message" /\ MessageNode(t)[2] = t
    BY DEF MessageNode
  <1> QED BY <1>1 DEF Holder, Down

LEMMA HolderField ==
  ASSUME NEW fd, fd.card # "repeated" PROVE Holder(FieldNode(fd), fd.type)
  <1>1. FieldNode(fd)[1] = "field" /\ FieldNode(fd)[2] = fd
    BY DEF FieldNode
  <1> QED BY <1>1 DEF Holder, Down

LEMMA ElementNode ==
  ASSUME NEW fd, fd.card = "repeated", NEW k PROVE Down(FieldNode(fd), k) = MessageNode(fd.type)
  <1>1. FieldNode(fd)[1] = "field" /\ FieldNode(fd)[2] = fd
    BY DEF FieldNode
  <1> QED BY <1>1 DEF Down

LEMMA MemberNode ==
  ASSUME NEW u, u.unit = "oneof", NEW k PROVE Down(UnitNode(u), k) = FieldNode(u.fields[k])
  <1>1. UnitNode(u)[1] = "oneof" /\ UnitNode(u)[2] = u
    BY DEF UnitNode
  <1> QED BY <1>1 DEF Down

LEMMA UnitsOff ==
  ASSUME NEW t \in DOMAIN Descriptor, NEW rt, NEW p, IsSeq(p), NEW x, Walk(rt, p, x), Holder(x, t)
  PROVE  LET s == UnitItems(t, p)
         IN /\ IsSeq(s) /\ Placed(rt, s) /\ Disciplined(s)
            /\ \A i \in 1..Len(s) : /\ s[i].op = "unit"
                                    /\ Under(s[i].at, p) /\ Len(s[i].at) = Len(p) + 1
  <1> PICK s : s = UnitItems(t, p)
    OBVIOUS
  <1>1. /\ IsSeq(s)
        /\ \A i \in 1..Len(s) : s[i] = Unit(Plan(Descriptor[t])[i], Append(p, i))
    BY UnitItemsAre, Zenon
  <1>2. \A i \in 1..Len(s) : /\ s[i].op = "unit" /\ s[i].at = Append(p, i)
                             /\ s[i].u = Plan(Descriptor[t])[i]
    <2> TAKE i \in 1..Len(s)
    <2> PICK u, a : u = Plan(Descriptor[t])[i] /\ a = Append(p, i)
      OBVIOUS
    <2>1. s[i] = [op |-> "unit", u |-> u, at |-> a, v |-> Nothing]
      BY <1>1, Zenon DEF Unit
    <2> QED BY <2>1
  <1>3. \A i \in 1..Len(s) : /\ IsSeq(s[i].at) /\ Len(s[i].at) = Len(p) + 1
                             /\ Under(s[i].at, p) /\ s[i].at[Len(p) + 1] = i
    <2> TAKE i \in 1..Len(s)
    <2>1. s[i].at = Append(p, i)
      BY <1>2, Zenon
    <2>2. /\ IsSeq(Append(p, i)) /\ Len(Append(p, i)) = Len(p) + 1
          /\ Under(Append(p, i), p) /\ Append(p, i)[Len(p) + 1] = i
      BY UnderAppend, AppendFacts, Zenon
    <2> QED BY <2>1, <2>2
  <1>4. ASSUME NEW i \in 1..Len(s) PROVE Walk(rt, s[i].at, Node(s[i]))
    <2>1. Node(s[i]) = Inside(t, i)
      BY <1>2 DEF Node, Inside
    <2>2. Walk(rt, Append(p, i), Down(x, i))
      BY WalkDown, Zenon
    <2>3. Down(x, i) = Inside(t, i)
      BY Zenon DEF Holder
    <2> QED BY <1>2, <2>1, <2>2, <2>3
  <1>5. ASSUME NEW i \in 1..Len(s), NEW j \in 1..Len(s), i < j PROVE Apart(s[i], s[j])
    <2> SUFFICES ASSUME Under(s[j].at, s[i].at) PROVE FALSE
      BY DEF Apart
    <2>1. Len(p) \in Nat /\ Len(p) + 1 \in 1..Len(s[i].at)
      BY <1>3, SeqFacts
    <2>2. s[j].at[Len(p) + 1] = s[i].at[Len(p) + 1]
      BY <2>1, Zenon DEF Under
    <2> QED BY <1>3, <1>5, <2>2
  <1>6. Placed(rt, s) /\ Disciplined(s)
    BY <1>3, <1>4, <1>5 DEF Placed, Disciplined
  <1> QED BY <1>1, <1>2, <1>3, <1>6, Zenon

(* What is left of an item: nothing, units, or values. *)
LEMMA NothingOff == ASSUME NEW it, NEW rt PROVE Offspring(it, <<>>) /\ Placed(rt, <<>>)
  <1>1. IsSeq(<<>>) /\ 1..Len(<<>>) = {}
    BY EmptyIsSeq
  <1> QED BY <1>1 DEF Offspring, Placed, Disciplined

LEMMA OffspringUnits ==
  ASSUME NEW t \in DOMAIN Descriptor, NEW rt, NEW p, IsSeq(p), NEW x, Walk(rt, p, x), Holder(x, t),
         NEW it, IsSeq(it.at), Under(p, it.at)
  PROVE  /\ Offspring(it, UnitItems(t, p)) /\ Placed(rt, UnitItems(t, p))
         /\ \A i \in 1..Len(UnitItems(t, p)) : UnitItems(t, p)[i].op = "unit"
  <1> PICK s : s = UnitItems(t, p)
    OBVIOUS
  <1>1. /\ IsSeq(s) /\ Placed(rt, s) /\ Disciplined(s)
        /\ \A i \in 1..Len(s) : /\ s[i].op = "unit"
                                /\ Under(s[i].at, p) /\ Len(s[i].at) = Len(p) + 1
    BY UnitsOff
  <1>2. \A i \in 1..Len(s) : Under(s[i].at, it.at)
    BY <1>1, UnderUnder DEF Placed
  <1>3. Len(p) >= Len(it.at) /\ Len(p) \in Nat /\ Len(it.at) \in Nat
    BY SeqFacts DEF Under
  <1>4. \A i \in 1..Len(s) : Len(s[i].at) > Len(it.at)
    BY <1>1, <1>3
  <1>5. Offspring(it, s)
    <2>1. ASSUME NEW i \in 1..Len(s)
          PROVE  Under(s[i].at, it.at) /\ s[i].op = "unit" /\ Len(s[i].at) > Len(it.at)
      BY <1>1, <1>2, <1>4
    <2> QED BY <1>1, <2>1 DEF Offspring
  <1> QED BY <1>1, <1>5

LEMMA OffspringValues ==
  ASSUME NEW it, it.op = "unit", NEW p, IsSeq(p), IsSeq(it.at), Under(p, it.at), NEW s, IsSeq(s), NEW fd,
         NEW rt, Walk(rt, p, FieldNode(fd)),
         \A i \in 1..Len(s) : s[i].op = "value" /\ s[i].at = p /\ s[i].u = fd
  PROVE  Offspring(it, s) /\ Placed(rt, s)
  <1>1. Placed(rt, s)
    BY DEF Placed, Node
  <1>2. Disciplined(s)
    BY DEF Disciplined, Apart
  <1> QED BY <1>1, <1>2 DEF Offspring

LEMMA GoodMoves ==
  ASSUME NEW w, NEW more, IsSeq(w), w # <<>>, IsSeq(more), NEW at,
         ~IsValueAt(Head(w), at), Fallow(more, at),
         NEW st, NEW fd, NEW r, NEW k, Good(st, w, at, fd, r, k)
  PROVE  Good(st, more \o Tail(w), at, fd, r, k)
  <1>1. fd.card = "repeated" => ListGood(st, more \o Tail(w), at, fd, r, k)
    BY ListMoves, Zenon DEF Good
  <1>2. fd.card = "map" /\ fd.kind # "message" => MapGood(st, more \o Tail(w), at, fd, r, k)
    BY MapMoves, Zenon DEF Good
  <1> QED BY <1>1, <1>2, Zenon DEF Good

(* What waits does not matter to a field of one value, nor to a map of     *)
(* messages, of which nothing is kept.                                     *)
Free(fd) == fd.card = "singular" \/ (fd.card = "map" /\ fd.kind = "message")

LEMMA GoodFree ==
  ASSUME NEW st, NEW w, NEW w2, NEW at, NEW fd, Free(fd), NEW r, NEW k,
         Good(st, w, at, fd, r, k)
  PROVE  Good(st, w2, at, fd, r, k)
  BY DEF Good, Free

(* The inductive invariant, of the encoder's strategy, root, work, marks,  *)
(* raw and kept.                                                           *)
KeptAt(st, w, mk, r, k, at) == \E fd : HasField(mk, at, fd) /\ Good(st, w, at, fd, r[at], k[at])

KeptOK(st, rt, w, mk, r, k) ==
  /\ IsSeq(mk) /\ Disciplined(w) /\ Placed(rt, w) /\ Placed(rt, mk)
  /\ DOMAIN r = DOMAIN k
  /\ \A at \in DOMAIN r : IsSeq(at) /\ KeptAt(st, w, mk, r, k, at)

LEMMA PlacedNext ==
  ASSUME NEW rt, NEW w, NEW more, IsSeq(w), w # <<>>, IsSeq(more), Placed(rt, w), Placed(rt, more)
  PROVE  Placed(rt, more \o Tail(w))
  <1> DEFINE w2 == more \o Tail(w)
  <1>1. \A i \in 1..Len(w2) :
          \/ i \in 1..Len(more) /\ w2[i] = more[i]
          \/ \E j \in 2..Len(w) : i = Len(more) + j - 1 /\ w2[i] = w[j]
    BY NextWork
  <1>2. \A j \in 2..Len(w) : j \in 1..Len(w)
    BY NextWork
  <1> HIDE DEF w2
  <1>3. Placed(rt, w2)
    BY <1>1, <1>2, Zenon DEF Placed
  <1> QED BY <1>3 DEF w2

LEMMA MarksGrow ==
  ASSUME NEW mk, IsSeq(mk), NEW m, NEW rt, Placed(rt, mk), IsSeq(m.at), Walk(rt, m.at, Node(m))
  PROVE  /\ IsSeq(Append(mk, m)) /\ Placed(rt, Append(mk, m))
         /\ \A at, fd : HasField(mk, at, fd) => HasField(Append(mk, m), at, fd)
         /\ \A fd : IsAbout(m, m.at, fd) => HasField(Append(mk, m), m.at, fd)
  <1> PICK mk2 : mk2 = Append(mk, m)
    OBVIOUS
  <1>1. /\ IsSeq(mk2) /\ Len(mk2) = Len(mk) + 1 /\ Len(mk) \in Nat
        /\ mk2[Len(mk) + 1] = m /\ \A i \in 1..Len(mk) : mk2[i] = mk[i]
    BY AppendFacts, SeqFacts
  <1>2. /\ \A i \in 1..Len(mk) : i \in 1..Len(mk2)
        /\ Len(mk) + 1 \in 1..Len(mk2)
        /\ \A i \in 1..Len(mk2) : i \in 1..Len(mk) \/ i = Len(mk) + 1
    BY <1>1
  <1>3. Placed(rt, mk2)
    BY <1>1, <1>2, Zenon DEF Placed
  <1>4. \A at, fd : HasField(mk, at, fd) => HasField(mk2, at, fd)
    BY <1>1, <1>2, Zenon DEF HasField
  <1>5. \A fd : IsAbout(m, m.at, fd) => HasField(mk2, m.at, fd)
    BY <1>1, <1>2, Zenon DEF HasField
  <1> QED BY <1>1, <1>3, <1>4, <1>5

(* An item is coded: only the place of the item can change, and it must be *)
(* good afterwards.                                                        *)
LEMMA KeptStep ==
  ASSUME NEW st, NEW rt, NEW w, NEW mk, NEW r, NEW k, KeptOK(st, rt, w, mk, r, k),
         IsSeq(w), w # <<>>, NEW h, h = Head(w), NEW m, SameItem(m, h),
         NEW more, Offspring(h, more), Placed(rt, more),
         \A i \in 1..Len(more) :
           more[i].op = "value" => more[i].at = h.at \/ more[i].u.card = "singular",
         NEW r2, NEW k2, DOMAIN r2 = DOMAIN k2,
         \A a \in DOMAIN r2 : a # h.at => a \in DOMAIN r /\ r2[a] = r[a] /\ k2[a] = k[a],
         h.at \in DOMAIN r2 => KeptAt(st, more \o Tail(w), Append(mk, m), r2, k2, h.at)
  PROVE  KeptOK(st, rt, more \o Tail(w), Append(mk, m), r2, k2)
  <1> DEFINE w2 == more \o Tail(w)
             mk2 == Append(mk, m)
  <1>1. /\ IsSeq(mk) /\ Disciplined(w) /\ Placed(rt, w) /\ Placed(rt, mk)
        /\ \A a \in DOMAIN r : IsSeq(a) /\ KeptAt(st, w, mk, r, k, a)
    BY DEF KeptOK
  <1>2. h = w[1] /\ 1 \in 1..Len(w) /\ IsSeq(more)
    BY NextWork DEF Offspring
  <1>3. IsSeq(h.at) /\ Walk(rt, h.at, Node(h)) /\ m.at = h.at /\ Node(m) = Node(h)
    BY <1>1, <1>2 DEF Placed, SameItem, Node
  <1>4. Disciplined(w2) /\ Placed(rt, w2)
    BY <1>1, <1>2, DisciplinedNext, PlacedNext
  <1>5. /\ IsSeq(mk2) /\ Placed(rt, mk2)
        /\ \A a, fd : HasField(mk, a, fd) => HasField(mk2, a, fd)
    BY <1>1, <1>3, MarksGrow
  <1> HIDE DEF mk2
  <1>6. ASSUME NEW a \in DOMAIN r2, a # h.at PROVE IsSeq(a) /\ KeptAt(st, w2, mk2, r2, k2, a)
    <2>1. a \in DOMAIN r /\ r2[a] = r[a] /\ k2[a] = k[a]
      BY <1>6
    <2>2. IsSeq(a) /\ KeptAt(st, w, mk, r, k, a)
      BY <1>1, <2>1
    <2> PICK fd : HasField(mk, a, fd) /\ Good(st, w, a, fd, r[a], k[a])
      BY <2>2 DEF KeptAt
    <2>3. CASE Fallow(more, a)
      <3>1. ~IsValueAt(Head(w), a)
        BY <1>6 DEF IsValueAt
      <3>2. Good(st, w2, a, fd, r[a], k[a])
        BY <1>2, <2>3, <3>1, GoodMoves
      <3> QED BY <1>5, <2>1, <2>2, <3>2, Zenon DEF KeptAt
    <2>4. CASE ~Fallow(more, a)
      <3> PICK i \in 1..Len(more) : IsValueAt(more[i], a)
        BY <2>4 DEF Fallow
      <3>1. more[i].u.card = "singular" /\ more[i].op = "value" /\ more[i].at = a
        BY <1>6 DEF IsValueAt
      <3>2. Walk(rt, a, Node(more[i]))
        BY <3>1 DEF Placed
      <3>3. Node(more[i]) = FieldNode(fd)
        BY <1>1, <2>2, <3>1, <3>2, SameField
      <3>4. Node(more[i]) = FieldNode(more[i].u)
        BY <3>1 DEF Node
      <3>5. fd = more[i].u
        BY <3>3, <3>4, FieldNodeOnto
      <3>6. Good(st, w2, a, fd, r[a], k[a])
        BY <3>1, <3>5, GoodFree DEF Free
      <3> QED BY <1>5, <2>1, <2>2, <3>6, Zenon DEF KeptAt
    <2> QED BY <2>3, <2>4
  <1>7. ASSUME NEW a \in DOMAIN r2 PROVE IsSeq(a) /\ KeptAt(st, w2, mk2, r2, k2, a)
    BY <1>3, <1>6 DEF mk2
  <1>8. KeptOK(st, rt, w2, mk2, r2, k2)
    BY <1>4, <1>5, <1>7 DEF KeptOK
  <1> QED BY <1>8 DEF mk2

(* What is known of the head of the work before it is coded. *)
Heads(st, rt, w, mk, r, k, h) == /\ KeptOK(st, rt, w, mk, r, k)
                                 /\ IsSeq(w) /\ w # <<>> /\ h = Head(w) /\ ItemOK(h)

(* What it leaves. *)
Leaves(rt, h, more) ==
  /\ Offspring(h, more) /\ Placed(rt, more)
  /\ \A i \in 1..Len(more) :
       more[i].op = "value" => more[i].at = h.at \/ more[i].u.card = "singular"

LEMMA HeadPlaced ==
  ASSUME NEW st, NEW rt, NEW w, NEW mk, NEW r, NEW k, NEW h, Heads(st, rt, w, mk, r, k, h)
  PROVE  /\ IsSeq(h.at) /\ Walk(rt, h.at, Node(h)) /\ Placed(rt, mk)
         /\ \A a \in DOMAIN r : KeptAt(st, w, mk, r, k, a)
         /\ DOMAIN r = DOMAIN k /\ IsSeq(mk)
  <1>1. h = w[1] /\ 1 \in 1..Len(w)
    BY TailFacts DEF Heads
  <1> QED BY <1>1 DEF Heads, KeptOK, Placed

LEMMA NoItemField ==
  ASSUME NEW h, ItemOK(h), NEW fd, Node(h) = FieldNode(fd)
  PROVE  \/ h.op = "value" /\ h.u = fd
         \/ h.op = "unit" /\ h.u.unit = "field" /\ h.u.fd = fd
  <1>1. CASE h.op = "value"
    <2>1. FieldNode(h.u) = FieldNode(fd)
      BY <1>1 DEF Node
    <2> QED BY <1>1, <2>1, FieldNodeOnto
  <1>2. CASE h.op = "unit" /\ h.u.unit = "field"
    <2>1. FieldNode(h.u.fd) = FieldNode(fd)
      BY <1>2 DEF Node, UnitNode
    <2> QED BY <1>2, <2>1, FieldNodeOnto
  <1>3. CASE h.op = "unit" /\ h.u.unit = "oneof"
    <2>1. UnitNode(h.u) = FieldNode(fd)
      BY <1>3 DEF Node
    <2> QED BY <1>3, <2>1, OneofIsNoField
  <1>4. (h.op = "unit" /\ UnitOK(h.u)) \/ h.op = "value"
    BY DEF ItemOK
  <1> QED BY <1>1, <1>2, <1>3, <1>4 DEF UnitOK

(* Nothing is kept of the item itself. *)
LEMMA KeptSame ==
  ASSUME NEW st, NEW rt, NEW w, NEW mk, NEW r, NEW k, NEW h, Heads(st, rt, w, mk, r, k, h),
         NEW m, SameItem(m, h), NEW more, Leaves(rt, h, more),
         h.op = "value" => Free(h.u),
         h.op = "unit" /\ h.u.unit = "field" => Free(h.u.fd)
  PROVE  KeptOK(st, rt, more \o Tail(w), Append(mk, m), r, k)
  <1> DEFINE w2 == more \o Tail(w)
  <1>1. ASSUME h.at \in DOMAIN r PROVE KeptAt(st, w2, Append(mk, m), r, k, h.at)
    <2>1. /\ IsSeq(h.at) /\ Walk(rt, h.at, Node(h)) /\ Placed(rt, mk)
          /\ KeptAt(st, w, mk, r, k, h.at) /\ IsSeq(mk)
      BY <1>1, HeadPlaced
    <2> PICK fd : HasField(mk, h.at, fd) /\ Good(st, w, h.at, fd, r[h.at], k[h.at])
      BY <2>1 DEF KeptAt
    <2>2. Node(h) = FieldNode(fd)
      BY <2>1, SameField
    <2>3. Free(fd)
      BY <2>2, NoItemField DEF Heads
    <2>4. Good(st, w2, h.at, fd, r[h.at], k[h.at])
      BY <2>3, GoodFree
    <2>5. Walk(rt, m.at, Node(m)) /\ IsSeq(m.at)
      BY <2>1 DEF SameItem, Node
    <2>6. HasField(Append(mk, m), h.at, fd)
      BY <2>1, <2>5, MarksGrow
    <2> QED BY <2>4, <2>6, Zenon DEF KeptAt
  <1> HIDE DEF w2
  <1>2. DOMAIN r = DOMAIN k
    BY HeadPlaced
  <1> QED BY <1>1, <1>2, KeptStep, Zenon DEF w2, Heads, Leaves

(* f2 is f but for one place. *)
Sets(f2, f, at) == /\ DOMAIN f2 = {at} \cup DOMAIN f
                   /\ \A a \in DOMAIN f : a # at => f2[a] = f[a]

(* The place of the item is set. *)
LEMMA KeptPut ==
  ASSUME NEW st, NEW rt, NEW w, NEW mk, NEW r, NEW k, NEW h, Heads(st, rt, w, mk, r, k, h),
         NEW m, SameItem(m, h), NEW more, Leaves(rt, h, more),
         NEW fd, IsAbout(h, h.at, fd), NEW r2, NEW k2, Sets(r2, r, h.at), Sets(k2, k, h.at),
         Good(st, more \o Tail(w), h.at, fd, r2[h.at], k2[h.at])
  PROVE  KeptOK(st, rt, more \o Tail(w), Append(mk, m), r2, k2)
  <1> DEFINE w2 == more \o Tail(w)
  <1>1. /\ IsSeq(h.at) /\ Walk(rt, h.at, Node(h)) /\ Placed(rt, mk)
        /\ DOMAIN r = DOMAIN k /\ IsSeq(mk)
    BY HeadPlaced
  <1>2. /\ m.at = h.at /\ Walk(rt, m.at, Node(m)) /\ IsSeq(m.at)
        /\ IsAbout(m, m.at, fd)
    BY <1>1 DEF SameItem, Node, IsAbout
  <1>3. HasField(Append(mk, m), h.at, fd)
    BY <1>1, <1>2, MarksGrow
  <1>4. KeptAt(st, w2, Append(mk, m), r2, k2, h.at)
    BY <1>3, Zenon DEF KeptAt
  <1>5. /\ DOMAIN r2 = DOMAIN k2
        /\ \A a \in DOMAIN r2 : a # h.at => a \in DOMAIN r /\ r2[a] = r[a] /\ k2[a] = k[a]
    BY <1>1 DEF Sets
  <1> HIDE DEF w2
  <1> QED BY <1>4, <1>5, KeptStep DEF w2, Heads, Leaves

LEMMA KeptSet ==
  ASSUME NEW st, NEW rt, NEW w, NEW mk, NEW r, NEW k, NEW h, Heads(st, rt, w, mk, r, k, h),
         NEW m, SameItem(m, h), NEW more, Leaves(rt, h, more),
         NEW fd, IsAbout(h, h.at, fd), NEW x, NEW y, Good(st, more \o Tail(w), h.at, fd, x, y)
  PROVE  KeptOK(st, rt, more \o Tail(w), Append(mk, m), SetAt(r, h.at, x), SetAt(k, h.at, y))
  <1>1. Sets(SetAt(r, h.at, x), r, h.at) /\ SetAt(r, h.at, x)[h.at] = x
    BY DEF SetAt, Sets
  <1>2. Sets(SetAt(k, h.at, y), k, h.at) /\ SetAt(k, h.at, y)[h.at] = y
    BY DEF SetAt, Sets
  <1>3. Good(st, more \o Tail(w), h.at, fd, SetAt(r, h.at, x)[h.at], SetAt(k, h.at, y)[h.at])
    BY <1>1, <1>2, Zenon
  <1> QED BY <1>1, <1>2, <1>3, KeptPut, Zenon

(* k2 is k but for one place of it, if it is one. *)
Alters(k2, k, at) == /\ DOMAIN k2 = DOMAIN k
                     /\ \A a \in DOMAIN k : a # at => k2[a] = k[a]

(* What is kept at the place of a value grows. *)
LEMMA KeptGrown ==
  ASSUME NEW st, NEW rt, NEW w, NEW mk, NEW r, NEW k, NEW h, Heads(st, rt, w, mk, r, k, h),
         NEW m, SameItem(m, h), NEW more, Leaves(rt, h, more),
         h.op = "value", NEW k2, Alters(k2, k, h.at),
         h.at \in DOMAIN k /\ Good(st, w, h.at, h.u, r[h.at], k[h.at]) =>
           Good(st, more \o Tail(w), h.at, h.u, r[h.at], k2[h.at])
  PROVE  KeptOK(st, rt, more \o Tail(w), Append(mk, m), r, k2)
  <1> DEFINE w2 == more \o Tail(w)
  <1>0. DOMAIN r = DOMAIN k
    BY HeadPlaced
  <1>1. ASSUME h.at \in DOMAIN r PROVE KeptAt(st, w2, Append(mk, m), r, k2, h.at)
    <2>1. /\ IsSeq(h.at) /\ Walk(rt, h.at, Node(h)) /\ Placed(rt, mk)
          /\ KeptAt(st, w, mk, r, k, h.at) /\ IsSeq(mk)
      BY <1>1, HeadPlaced
    <2> PICK fd : HasField(mk, h.at, fd) /\ Good(st, w, h.at, fd, r[h.at], k[h.at])
      BY <2>1 DEF KeptAt
    <2>2. Node(h) = FieldNode(fd)
      BY <2>1, SameField
    <2>3. fd = h.u
      BY <2>2, FieldNodeOnto DEF Node
    <2>4. Good(st, w2, h.at, fd, r[h.at], k2[h.at])
      BY <1>0, <1>1, <2>3
    <2>5. Walk(rt, m.at, Node(m)) /\ IsSeq(m.at)
      BY <2>1 DEF SameItem, Node
    <2>6. HasField(Append(mk, m), h.at, fd)
      BY <2>1, <2>5, MarksGrow
    <2> QED BY <2>4, <2>6, Zenon DEF KeptAt
  <1>2. \A a \in DOMAIN r : a # h.at => a \in DOMAIN r /\ r[a] = r[a] /\ k2[a] = k[a]
    BY <1>0 DEF Alters
  <1>3. DOMAIN r = DOMAIN k2
    BY <1>0 DEF Alters
  <1> HIDE DEF w2
  <1> QED BY <1>1, <1>2, <1>3, KeptStep DEF w2, Heads, Leaves

-----------------------------------------------------------------------------
(* What encodeScalar keeps is what the README says.                        *)

LEMMA EffIsEffective == ASSUME NEW fd PROVE EffectiveStrategy(fd) = EffOf(strategy, fd)
  BY DEF EffectiveStrategy, EffOf

LEMMA EffType ==
  ASSUME strategy \in Strategies, NEW fd, fd.overflow \in Strategies \cup {"UNSPECIFIED"}
  PROVE  EffOf(strategy, fd) \in Strategies
  BY DEF EffOf

LEMMA KeepIsDoc ==
  ASSUME strategy \in Strategies, NEW fd, fd.overflow \in Strategies \cup {"UNSPECIFIED"},
         fd.bits \in Nat, fd.lengthBits \in Nat, ScalarKind(fd), NEW v \in ValuesOf(fd),
         ~(Overflows(fd, v) /\ EffectiveStrategy(fd) = "ERROR")
  PROVE  Keep(fd, v) = DocOf(strategy, fd, v)
  <1> PICK eff : eff = EffOf(strategy, fd)
    OBVIOUS
  <1>1. eff \in Strategies /\ EffectiveStrategy(fd) = eff
    BY EffType, EffIsEffective
  <1>2. CASE fd.kind = "bool"
    BY <1>2 DEF Keep, Overflows, DocOf
  <1>3. CASE fd.kind \in {"int", "enum"}
    <2> PICK max \in Nat : max = MaxOf(fd.bits)
      BY MaxType
    <2>1. v \in Nat
      BY <1>3, ValuesAssumption DEF ValuesOf
    <2>2. Overflows(fd, v) <=> v > max
      BY <1>3 DEF Overflows
    <2>3. Keep(fd, v) = IF v > max THEN KeepInt(v, max, eff) ELSE v
      BY <1>1, <1>3, <2>2 DEF Keep
    <2>4. DocOf(strategy, fd, v) = DocInt(v, max, eff)
      BY <1>3 DEF DocOf
    <2>5. v > max => eff # "ERROR"
      BY <1>1, <2>2
    <2> QED BY <2>1, <2>3, <2>4, <2>5 DEF DocInt, KeepInt
  <1>4. CASE fd.kind = "bytes"
    <2> PICK max \in Nat : max = MaxOf(fd.lengthBits)
      BY MaxType
    <2>1. Len(v) \in Nat
      <3>1. v \in Seq(0..(2 ^ ByteSize - 1))
        BY <1>4, ValuesAssumption DEF ValuesOf
      <3> QED BY <3>1
    <2>2. Overflows(fd, v) <=> Len(v) > max
      BY <1>4 DEF Overflows
    <2>3. Keep(fd, v) = IF Len(v) > max THEN KeepBytes(v, max, eff) ELSE v
      BY <1>1, <1>4, <2>2 DEF Keep
    <2>4. DocOf(strategy, fd, v) = DocCrop(v, max, eff)
      BY <1>4 DEF DocOf
    <2>5. Len(v) > max => eff # "ERROR"
      BY <1>1, <2>2
    <2>6. CASE Len(v) > max
      <3>1. eff \in {"MODULO", "CROP_LEFT", "CLAMP", "CROP_RIGHT"} /\ ~(Len(v) <= max)
        BY <1>1, <2>1, <2>5, <2>6 DEF Strategies
      <3>2. DocCrop(v, max, eff) = KeepBytes(v, max, eff)
        <4>1. CASE eff = "MODULO"
          BY <3>1, <4>1 DEF DocCrop, KeepBytes
        <4>2. CASE eff = "CROP_LEFT"
          BY <3>1, <4>2 DEF DocCrop, KeepBytes
        <4>3. CASE eff \in {"CLAMP", "CROP_RIGHT"}
          BY <3>1, <4>3 DEF DocCrop, KeepBytes
        <4> QED BY <3>1, <4>1, <4>2, <4>3
      <3> QED BY <2>3, <2>4, <2>6, <3>2
    <2>7. CASE ~(Len(v) > max)
      <3>1. Len(v) <= max
        BY <2>1, <2>7
      <3> QED BY <2>3, <2>4, <2>7, <3>1 DEF DocCrop
    <2> QED BY <2>6, <2>7
  <1> QED BY <1>2, <1>3, <1>4 DEF ScalarKind

LEMMA DocOfMessage ==
  ASSUME NEW st, NEW fd, fd.kind = "message", NEW v PROVE DocOf(st, fd, v) = v
  BY DEF DocOf

-----------------------------------------------------------------------------
(* One step of the encoder, and what it keeps.                             *)

KeptReady == Coding /\ IsSeq(work) /\ strategy \in Strategies
             /\ KeptOK(strategy, root, work, marks, raw, kept)

KeptNext == /\ strategy' = strategy /\ root' = root
            /\ \/ phase' \in {"PackError", "ValidationError"}
               \/ phase' = "packing" /\ KeptOK(strategy, root, work', marks', raw', kept')

LEMMA EmitKeeps ==
  ASSUME NEW b, NEW more, NEW r2, NEW k2, phase = "packing", Emit(b, more, r2, k2),
         KeptOK(strategy, root, more \o Tail(work), Append(marks, Mark), r2, k2)
  PROVE  KeptNext
  BY DEF Emit, KeptNext, Mark

LEMMA FailKeeps ==
  ASSUME Fail("PackError") \/ Fail("ValidationError") PROVE KeptNext
  BY DEF Fail, FailWith, KeptNext

LEMMA ItemHeads ==
  ASSUME KeptReady
  PROVE  /\ Heads(strategy, root, work, marks, raw, kept, item) /\ SameItem(Mark, item)
         /\ phase = "packing" /\ IsSeq(item.at) /\ Walk(root, item.at, Node(item))
         /\ strategy \in Strategies
  <1>1. Heads(strategy, root, work, marks, raw, kept, item)
    BY DEF KeptReady, Coding, Heads, item
  <1>2. SameItem(Mark, item)
    BY DEF SameItem, Mark
  <1>3. IsSeq(item.at) /\ Walk(root, item.at, Node(item))
    BY <1>1, HeadPlaced
  <1> QED BY <1>1, <1>2, <1>3 DEF KeptReady, Coding

(* A step that keeps nothing of its item, or sets its place. *)
LEMMA EmitSame ==
  ASSUME KeptReady, NEW b, NEW more, Emit(b, more, raw, kept), Leaves(root, item, more),
         item.op = "value" => Free(item.u),
         item.op = "unit" /\ item.u.unit = "field" => Free(item.u.fd)
  PROVE  KeptNext
  <1>1. KeptOK(strategy, root, more \o Tail(work), Append(marks, Mark), raw, kept)
    BY ItemHeads, KeptSame
  <1> QED BY <1>1, ItemHeads, EmitKeeps

LEMMA EmitSet ==
  ASSUME KeptReady, NEW b, NEW more, NEW x, NEW y,
         Emit(b, more, SetAt(raw, item.at, x), SetAt(kept, item.at, y)), Leaves(root, item, more),
         NEW fd, IsAbout(item, item.at, fd),
         Good(strategy, more \o Tail(work), item.at, fd, x, y)
  PROVE  KeptNext
  <1>1. KeptOK(strategy, root, more \o Tail(work), Append(marks, Mark),
               SetAt(raw, item.at, x), SetAt(kept, item.at, y))
    BY ItemHeads, KeptSet, Zenon
  <1> QED BY <1>1, ItemHeads, EmitKeeps

LEMMA LeavesNothing == ASSUME NEW it, NEW rt PROVE Leaves(rt, it, <<>>)
  <1>1. 1..Len(<<>>) = {}
    BY EmptyIsSeq
  <1> QED BY <1>1, NothingOff DEF Leaves

LEMMA LeavesUnits ==
  ASSUME NEW t \in DOMAIN Descriptor, NEW rt, NEW p, IsSeq(p), NEW x, Walk(rt, p, x), Holder(x, t),
         NEW it, IsSeq(it.at), Under(p, it.at)
  PROVE  Leaves(rt, it, UnitItems(t, p))
  <1> PICK s : s = UnitItems(t, p)
    OBVIOUS
  <1>1. /\ Offspring(it, s) /\ Placed(rt, s)
        /\ \A i \in 1..Len(s) : s[i].op = "unit"
    BY OffspringUnits
  <1>2. Leaves(rt, it, s)
    BY <1>1 DEF Leaves
  <1> QED BY <1>2

LEMMA LeavesValues ==
  ASSUME NEW it, it.op = "unit", NEW p, IsSeq(p), IsSeq(it.at), Under(p, it.at), NEW s, IsSeq(s), NEW fd,
         NEW rt, Walk(rt, p, FieldNode(fd)), p = it.at \/ fd.card = "singular",
         \A i \in 1..Len(s) : s[i].op = "value" /\ s[i].at = p /\ s[i].u = fd
  PROVE  Leaves(rt, it, s)
  <1>1. Offspring(it, s) /\ Placed(rt, s)
    BY OffspringValues
  <1> QED BY <1>1 DEF Leaves

LEMMA LeavesOne ==
  ASSUME NEW it, it.op = "unit", NEW p, IsSeq(p), IsSeq(it.at), Under(p, it.at), NEW fd, NEW v,
         NEW rt, Walk(rt, p, FieldNode(fd)), p = it.at \/ fd.card = "singular"
  PROVE  Leaves(rt, it, <<Value(fd, p, v)>>)
  <1> PICK s : s = <<Value(fd, p, v)>>
    OBVIOUS
  <1>1. IsSeq(s) /\ Len(s) = 1 /\ s[1] = Value(fd, p, v)
    BY SingleIsSeq
  <1>2. s[1].op = "value" /\ s[1].at = p /\ s[1].u = fd
    BY <1>1 DEF Value
  <1>3. \A i \in 1..Len(s) : i = 1
    BY <1>1
  <1>4. \A i \in 1..Len(s) : s[i].op = "value" /\ s[i].at = p /\ s[i].u = fd
    BY <1>2, <1>3
  <1>5. Leaves(rt, it, s)
    BY <1>1, <1>4, LeavesValues
  <1> QED BY <1>5

(* An item that is a field of the plan. *)
LEMMA FieldItem ==
  ASSUME KeptReady, item.op = "unit", item.u.unit = "field"
  PROVE  /\ FieldOK(item.u.fd) /\ IsAbout(item, item.at, item.u.fd)
         /\ Walk(root, item.at, FieldNode(item.u.fd)) /\ IsSeq(item.at) /\ Under(item.at, item.at)
  <1>1. FieldOK(item.u.fd)
    BY DEF KeptReady, Coding, ItemOK, UnitOK
  <1>2. Node(item) = FieldNode(item.u.fd)
    BY DEF Node, UnitNode
  <1> QED BY <1>1, <1>2, ItemHeads, UnderItself DEF IsAbout

(* An item that is a value of a field. *)
LEMMA ValueItem ==
  ASSUME KeptReady, item.op = "value"
  PROVE  /\ FieldOK(item.u) /\ ValueOK(item.u, item.v) /\ IsAbout(item, item.at, item.u)
         /\ Walk(root, item.at, FieldNode(item.u)) /\ IsSeq(item.at) /\ Under(item.at, item.at)
  <1>1. FieldOK(item.u) /\ ValueOK(item.u, item.v)
    BY DEF KeptReady, Coding, ItemOK
  <1>2. Node(item) = FieldNode(item.u)
    BY DEF Node
  <1> QED BY <1>1, <1>2, ItemHeads, UnderItself DEF IsAbout

LEMMA KeepScalar == ASSUME KeptReady, PackScalar PROVE KeptNext
  <1> DEFINE fd == item.u.fd
  <1>1. item.op = "unit" /\ item.u.unit = "field" /\ fd.card = "singular"
    BY DEF PackScalar, PackingField, Packing
  <1>2. \/ \E b : Emit(b, <<>>, raw, kept)
        \/ \E b, v : Emit(b, <<Value(fd, item.at, v)>>, raw, kept)
    BY DEF PackScalar
  <1>3. Free(fd)
    BY <1>1 DEF Free
  <1>4. Leaves(root, item, <<>>) /\ \A v : Leaves(root, item, <<Value(fd, item.at, v)>>)
    BY <1>1, FieldItem, LeavesNothing, LeavesOne
  <1> QED BY <1>1, <1>2, <1>3, <1>4, EmitSame

LEMMA KeepTimestamp == ASSUME KeptReady, PackTimestamp PROVE KeptNext
  <1> DEFINE fd == item.u.fd
  <1>1. /\ item.op = "unit" /\ item.u.unit = "field" /\ fd.card = "singular"
        /\ fd.kind = "message"
    BY DEF PackTimestamp, PackingField, Packing, IsTimestamp
  <1>2. \/ \E b : Emit(b, <<>>, raw, kept)
        \/ \E b, v : Emit(b, <<>>, Store(raw, fd, item.at, v), Store(kept, fd, item.at, v))
    BY DEF PackTimestamp
  <1>3. \A o, v : Store(o, fd, item.at, v) = SetAt(o, item.at, v)
    BY <1>1, StoreFacts
  <1>4. Free(fd) /\ Leaves(root, item, <<>>)
    BY <1>1, LeavesNothing DEF Free
  <1>5. \A v : Good(strategy, <<>> \o Tail(work), item.at, fd, v, v)
    BY <1>1, FieldItem, DocOfMessage DEF Good
  <1>6. CASE \E b : Emit(b, <<>>, raw, kept)
    BY <1>1, <1>4, <1>6, EmitSame
  <1>7. CASE \E b, v : Emit(b, <<>>, Store(raw, fd, item.at, v), Store(kept, fd, item.at, v))
    <2> PICK b, v : Emit(b, <<>>, Store(raw, fd, item.at, v), Store(kept, fd, item.at, v))
      BY <1>7
    <2>1. Emit(b, <<>>, SetAt(raw, item.at, v), SetAt(kept, item.at, v))
      BY <1>3
    <2>2. IsAbout(item, item.at, fd)
      BY <1>1, FieldItem
    <2> QED BY <1>4, <1>5, <2>1, <2>2, EmitSet, Zenon
  <1> QED BY <1>2, <1>6, <1>7

LEMMA KeepMessage == ASSUME KeptReady, PackMessage PROVE KeptNext
  <1> DEFINE fd == item.u.fd
             units == UnitItems(fd.type, item.at)
  <1>1. /\ item.op = "unit" /\ item.u.unit = "field" /\ fd.card = "singular"
        /\ fd.kind = "message"
    BY DEF PackMessage, PackingField, Packing, IsMessage
  <1>2. \/ \E b : Emit(b, <<>>, raw, kept)
        \/ \E b : Emit(b, units, Store(raw, fd, item.at, Present), Store(kept, fd, item.at, Present))
        \/ Fail("ValidationError")
    BY DEF PackMessage
  <1>3. \A o : Store(o, fd, item.at, Present) = SetAt(o, item.at, Present)
    BY <1>1, StoreFacts
  <1>4. Free(fd) /\ Leaves(root, item, <<>>)
    BY <1>1, LeavesNothing DEF Free
  <1>5. Good(strategy, units \o Tail(work), item.at, fd, Present, Present)
    BY <1>1, FieldItem, DocOfMessage DEF Good
  <1>6. Leaves(root, item, units)
    <2>1. fd.type \in DOMAIN Descriptor
      BY <1>1, FieldItem DEF FieldOK
    <2>2. Holder(FieldNode(fd), fd.type)
      BY <1>1, HolderField
    <2> QED BY <1>1, <2>1, <2>2, FieldItem, LeavesUnits
  <1> HIDE DEF units
  <1>7. CASE \E b : Emit(b, <<>>, raw, kept)
    BY <1>1, <1>4, <1>7, EmitSame
  <1>8. CASE \E b : Emit(b, units, Store(raw, fd, item.at, Present), Store(kept, fd, item.at, Present))
    <2> PICK b : Emit(b, units, Store(raw, fd, item.at, Present), Store(kept, fd, item.at, Present))
      BY <1>8
    <2>1. Emit(b, units, SetAt(raw, item.at, Present), SetAt(kept, item.at, Present))
      BY <1>3
    <2>2. IsAbout(item, item.at, fd)
      BY <1>1, FieldItem
    <2> QED BY <1>5, <1>6, <2>1, <2>2, EmitSet, Zenon
  <1> QED BY <1>2, <1>7, <1>8, FailKeeps

LEMMA KeepOneof == ASSUME KeptReady, PackOneof PROVE KeptNext
  <1> DEFINE u == item.u
  <1>1. item.op = "unit" /\ u.unit = "oneof"
    BY DEF PackOneof, Packing
  <1>2. \/ \E b : Emit(b, <<>>, raw, kept)
        \/ \E n \in 1..Len(u.fields) : \E b, v :
             Emit(b, <<Value(u.fields[n], Append(item.at, n), v)>>, raw, kept)
    <2>1. PICK n \in 0..Len(u.fields) :
            \/ n = 0 /\ Emit(LowBits(0, u.selectorBits), <<>>, raw, kept)
            \/ n > 0 /\ \E v : Emit(LowBits(n, u.selectorBits),
                                  <<Value(u.fields[n], Append(item.at, n), v)>>, raw, kept)
      BY Zenon DEF PackOneof
    <2>2. CASE n > 0
      <3>1. n \in 1..Len(u.fields) /\ n # 0
        BY <2>2
      <3> QED BY <2>1, <3>1, Zenon
    <2>3. CASE ~(n > 0)
      BY <2>1, <2>3, Zenon
    <2> QED BY <2>2, <2>3
  <1>3. UnitOK(u) /\ IsSeq(item.at) /\ Walk(root, item.at, UnitNode(u))
    <2>1. Node(item) = UnitNode(u)
      BY <1>1 DEF Node
    <2> QED BY <1>1, <2>1, ItemHeads DEF KeptReady, Coding, ItemOK
  <1>4. ASSUME NEW n \in 1..Len(u.fields), NEW v
        PROVE  Leaves(root, item, <<Value(u.fields[n], Append(item.at, n), v)>>)
    <2>1. u.fields[n].card = "singular"
      BY <1>1, <1>3 DEF UnitOK, MemberOK
    <2>2. Walk(root, Append(item.at, n), Down(UnitNode(u), n))
      BY <1>3, WalkDown
    <2>3. Down(UnitNode(u), n) = FieldNode(u.fields[n])
      BY <1>1, MemberNode
    <2>4. IsSeq(Append(item.at, n)) /\ Under(Append(item.at, n), item.at)
      BY <1>3, UnderAppend
    <2> QED BY <1>1, <1>3, <2>1, <2>2, <2>3, <2>4, LeavesOne
  <1>5. Leaves(root, item, <<>>)
    BY LeavesNothing
  <1> QED BY <1>1, <1>2, <1>4, <1>5, EmitSame

(* A list keeps the elements that its count allows; none is encoded yet.   *)
LEMMA KeepElements == ASSUME KeptReady, PackList PROVE KeptNext
  <1> DEFINE fd == item.u.fd
             max == MaxOf(fd.countBits)
             eff == EffectiveStrategy(fd)
  <1>1. /\ item.op = "unit" /\ item.u.unit = "field" /\ fd.card = "repeated"
    BY DEF PackList, PackingField, Packing
  <1>2. FieldOK(fd) /\ max \in Nat
    BY <1>1, MaxType DEF KeptReady, Coding, ItemOK, UnitOK, FieldOK, FieldWidths
  <1>3. PICK s \in SeqOf(ValuesOf(fd), MaxCount) :
          LET k == KeepList(s, max, eff)
          IN \/ Fail("PackError")
             \/ /\ ~(Len(s) > max /\ eff = "ERROR")
                /\ Emit(LowBits(Len(k), fd.countBits),
                        [j \in 1..Len(k) |-> Value(fd, item.at, k[j])],
                        SetAt(raw, item.at, s), SetAt(kept, item.at, <<>>))
    BY DEF PackList
  <1>4. IsSeq(s) /\ Len(s) \in Nat
    BY ByteSizeType, SeqOfFacts
  <1> DEFINE k == KeepList(s, max, eff)
             more == [j \in 1..Len(k) |-> Value(fd, item.at, k[j])]
  <1>5. PICK n \in 0..max : Part(k, s, n)
    <2> HIDE DEF max, eff
    <2> QED BY <1>2, <1>4, KeepListFits
  <1>6. IsSeq(k) /\ Len(k) = n /\ n \in Nat
    <2> HIDE DEF max, k
    <2> QED BY <1>2, <1>5 DEF Part
  <1>7. /\ IsSeq(more) /\ Len(more) = n
        /\ \A j \in 1..n : more[j] = Value(fd, item.at, k[j])
    <2> HIDE DEF k
    <2>1. IsSeq(more) /\ Len(more) = n
      BY <1>6, FunctionIsSeq
    <2>2. \A j \in 1..n : more[j] = Value(fd, item.at, k[j])
      BY <1>6
    <2> QED BY <2>1, <2>2
  <1>8. \/ Fail("PackError")
        \/ /\ Len(s) > max => eff # "ERROR"
           /\ \E b : Emit(b, more, SetAt(raw, item.at, s), SetAt(kept, item.at, <<>>))
    BY <1>3
  <1> HIDE DEF more
  <1>9. ASSUME Len(s) > max => eff # "ERROR", NEW b,
               Emit(b, more, SetAt(raw, item.at, s), SetAt(kept, item.at, <<>>))
        PROVE  KeptNext
    <2>1. \A j \in 1..n : more[j].op = "value" /\ more[j].at = item.at /\ more[j].u = fd
                          /\ more[j].v = k[j]
      <3> HIDE DEF k
      <3> QED BY <1>7 DEF Value
    <2>2. Leaves(root, item, more)
      BY <1>1, <1>7, <2>1, FieldItem, LeavesValues
    <2>3. Waiting(more \o Tail(work), item.at, 0, n)
      <3>1. \A i \in 1..Len(more) : IsValueAt(more[i], item.at)
        BY <1>7, <2>1 DEF IsValueAt
      <3>2. IsSeq(work) /\ work # <<>> /\ Disciplined(work)
        BY DEF KeptReady, Coding, KeptOK
      <3> QED BY <1>1, <1>7, <3>1, <3>2, WaitingBegins DEF item
    <2>4. \A j \in 1..n : (more \o Tail(work))[j].v = k[j]
      <3>1. \A j \in 1..Len(more) : (more \o Tail(work))[j] = more[j]
        BY <1>7, NextWork DEF KeptReady, Coding
      <3> HIDE DEF k
      <3> QED BY <1>7, <2>1, <3>1
    <2>5. ListGood(strategy, more \o Tail(work), item.at, fd, s, <<>>)
      <3>1. eff = EffOf(strategy, fd)
        BY EffIsEffective
      <3>2. k = KeepList(s, MaxOf(fd.countBits), EffOf(strategy, fd))
        BY <3>1
      <3>3. Len(s) > MaxOf(fd.countBits) => EffOf(strategy, fd) # "ERROR"
        BY <1>9, <3>1
      <3> HIDE DEF k
      <3> QED BY <1>4, <1>6, <2>3, <2>4, <3>2, <3>3, ListBegins, Zenon
    <2>6. Good(strategy, more \o Tail(work), item.at, fd, s, <<>>)
      BY <1>1, <1>2, <2>5, Zenon DEF Good
    <2>7. IsAbout(item, item.at, fd)
      BY <1>1, FieldItem
    <2> QED BY <1>9, <2>2, <2>6, <2>7, EmitSet, Zenon
  <1> QED BY <1>8, <1>9, FailKeeps

(* A map has as many entries as it has keys. *)
Distinct(keys, n) == \A i, j \in 1..n : keys[i] = keys[j] => i = j

EntriesOf(keys, vals, n) == {<<keys[j], vals[j]>> : j \in 1..n}

LEMMA EntriesCount ==
  ASSUME NEW n \in Nat, NEW keys, NEW vals, Distinct(keys, n)
  PROVE  IsFiniteSet(EntriesOf(keys, vals, n)) /\ Cardinality(EntriesOf(keys, vals, n)) = n
  <1> PICK r : r = EntriesOf(keys, vals, n)
    OBVIOUS
  <1> DEFINE f == [j \in 1..n |-> <<keys[j], vals[j]>>]
  <1>1. f \in [1..n -> r] /\ \A e \in r : \E j \in 1..n : f[j] = e
    BY DEF EntriesOf
  <1>2. ASSUME NEW i \in 1..n, NEW j \in 1..n, f[i] = f[j] PROVE i = j
    <2>1. f[i][1] = keys[i] /\ f[j][1] = keys[j]
      OBVIOUS
    <2> HIDE DEF f
    <2> QED BY <1>2, <2>1 DEF Distinct
  <1> HIDE DEF f
  <1>3. f \in Bijection(1..n, r)
    BY <1>1, <1>2 DEF Bijection, Injection, Surjection, IsInjective
  <1>4. IsFiniteSet(1..n) /\ Cardinality(1..n) = n
    BY FS_Interval
  <1> QED BY <1>3, <1>4, FS_Bijection DEF ExistsBijection

Firsts(s2, s, n) == /\ IsSeq(s2) /\ Len(s2) = n
                    /\ \A i \in 1..n : s2[i] = s[i]

LEMMA FirstFacts ==
  ASSUME NEW s, IsSeq(s), NEW n \in Nat, n <= Len(s) PROVE Firsts(KeepFirst(s, n), s, n)
  <1> DEFINE b == SubSeq(s, 1, n)
  <1>1. PICK S : s \in Seq(S)
    BY DEF IsSeq
  <1>2. Len(s) \in Nat
    BY SeqFacts
  <1>3. \A i \in 1..n : s[i] \in S
    BY <1>1, <1>2
  <1>4. /\ b \in Seq(S)
        /\ Len(b) = IF 1 <= n THEN n - 1 + 1 ELSE 0
        /\ \A i \in 1 .. n - 1 + 1 : b[i] = s[1 + i - 1]
    BY <1>3, SubSeqProperties
  <1>5. n - 1 + 1 = n /\ \A i \in 1..n : 1 + i - 1 = i
    OBVIOUS
  <1> HIDE DEF b
  <1>6. IsSeq(b)
    BY <1>4 DEF IsSeq
  <1>7. Len(b) = n /\ \A i \in 1..n : b[i] = s[i]
    BY <1>4, <1>5
  <1> QED BY <1>6, <1>7 DEF b, Firsts, KeepFirst

(* A map keeps as many entries as its count allows; none is encoded yet.   *)
LEMMA KeepEntries == ASSUME KeptReady, PackMap PROVE KeptNext
  <1> DEFINE fd == item.u.fd
             max == MaxOf(fd.countBits)
             eff == EffectiveStrategy(fd)
  <1>1. item.op = "unit" /\ item.u.unit = "field" /\ fd.card = "map"
    BY DEF PackMap, PackingField, Packing
  <1>2. FieldOK(fd) /\ max \in Nat
    BY <1>1, MaxType DEF KeptReady, Coding, ItemOK, UnitOK, FieldOK, FieldWidths
  <1>3. PICK keys \in SeqOf(KeysOf(fd), MaxCount) :
          IsInjective(keys) /\ \E vals \in [1..Len(keys) -> ValuesOf(fd)] :
          LET entries == [j \in 1..Len(keys) |-> Value(fd, item.at, <<keys[j], vals[j]>>)]
              n == IF Len(keys) > max THEN max ELSE Len(keys)
          IN \/ Fail("PackError")
             \/ /\ ~(Len(keys) > max /\ eff = "ERROR")
                /\ Emit(LowBits(n, fd.countBits), KeepFirst(entries, n),
                        SetAt(raw, item.at, {<<keys[j], vals[j]>> : j \in 1..Len(keys)}),
                        SetAt(kept, item.at, {}))
    BY DEF PackMap
  <1>4. IsSeq(keys) /\ Len(keys) \in Nat
    BY ByteSizeType, SeqOfFacts
  <1> PICK vals \in [1..Len(keys) -> ValuesOf(fd)] :
          LET entries == [j \in 1..Len(keys) |-> Value(fd, item.at, <<keys[j], vals[j]>>)]
              n == IF Len(keys) > max THEN max ELSE Len(keys)
          IN \/ Fail("PackError")
             \/ /\ ~(Len(keys) > max /\ eff = "ERROR")
                /\ Emit(LowBits(n, fd.countBits), KeepFirst(entries, n),
                        SetAt(raw, item.at, {<<keys[j], vals[j]>> : j \in 1..Len(keys)}),
                        SetAt(kept, item.at, {}))
    BY <1>3
  <1> DEFINE entries == [j \in 1..Len(keys) |-> Value(fd, item.at, <<keys[j], vals[j]>>)]
             n == IF Len(keys) > max THEN max ELSE Len(keys)
             more == KeepFirst(entries, n)
             r == {<<keys[j], vals[j]>> : j \in 1..Len(keys)}
  <1>5. \/ Fail("PackError")
        \/ /\ Len(keys) > max => eff # "ERROR"
           /\ \E b : Emit(b, more, SetAt(raw, item.at, r), SetAt(kept, item.at, {}))
    OBVIOUS
  <1>6. IsSeq(entries) /\ Len(entries) = Len(keys)
        /\ \A j \in 1..Len(keys) : entries[j] = Value(fd, item.at, <<keys[j], vals[j]>>)
    <2>1. IsSeq(entries) /\ Len(entries) = Len(keys)
      BY <1>4, FunctionIsSeq
    <2> QED BY <2>1
  <1>7. n \in Nat /\ n <= max /\ n <= Len(keys) /\ \A j \in 1..n : j \in 1..Len(keys)
    <2> HIDE DEF max
    <2> QED BY <1>2, <1>4
  <1>8. Distinct(keys, Len(keys))
    <2>1. DOMAIN keys = 1..Len(keys)
      BY <1>4, SeqFacts
    <2> QED BY <1>3, <2>1 DEF IsInjective, Distinct
  <1>9. IsFiniteSet(r) /\ Cardinality(r) = Len(keys)
    <2>1. r = EntriesOf(keys, vals, Len(keys))
      BY DEF EntriesOf
    <2> HIDE DEF r
    <2> QED BY <1>4, <1>8, <2>1, EntriesCount
  <1>10. /\ n = IF Cardinality(r) > max THEN max ELSE Cardinality(r)
         /\ Len(keys) > max <=> Cardinality(r) > max
    BY <1>9
  <1>11. \A j \in 1..Len(keys) : <<keys[j], vals[j]>> \in r
    OBVIOUS
  <1> HIDE DEF n, entries, r
  <1>12. /\ IsSeq(more) /\ Len(more) = n
         /\ \A j \in 1..n : more[j] = Value(fd, item.at, <<keys[j], vals[j]>>)
    <2>1. Firsts(more, entries, n)
      BY <1>6, <1>7, FirstFacts
    <2> QED BY <1>6, <1>7, <2>1 DEF Firsts
  <1> HIDE DEF more
  <1>13. ASSUME Len(keys) > max => eff # "ERROR", NEW b,
                Emit(b, more, SetAt(raw, item.at, r), SetAt(kept, item.at, {}))
         PROVE  KeptNext
    <2>1. \A j \in 1..n : /\ more[j].op = "value" /\ more[j].at = item.at /\ more[j].u = fd
                          /\ more[j].v = <<keys[j], vals[j]>>
      BY <1>12 DEF Value
    <2>2. Leaves(root, item, more)
      BY <1>1, <1>12, <2>1, FieldItem, LeavesValues
    <2>3. Waiting(more \o Tail(work), item.at, 0, n)
      <3>1. \A i \in 1..Len(more) : IsValueAt(more[i], item.at)
        BY <1>12, <2>1 DEF IsValueAt
      <3>2. IsSeq(work) /\ work # <<>> /\ Disciplined(work)
        BY DEF KeptReady, Coding, KeptOK
      <3> QED BY <1>1, <1>12, <3>1, <3>2, WaitingBegins DEF item
    <2>4. \A j \in 1..n : (more \o Tail(work))[j].v = <<keys[j], vals[j]>>
      <3>1. \A j \in 1..Len(more) : (more \o Tail(work))[j] = more[j]
        BY <1>12, NextWork DEF KeptReady, Coding
      <3> QED BY <1>12, <2>1, <3>1
    <2>5. \A j \in 1..n : (more \o Tail(work))[j].v \in r
      BY <1>7, <1>11, <2>4
    <2>6. \A i, j \in 1..n : i # j => (more \o Tail(work))[i].v[1] # (more \o Tail(work))[j].v[1]
      <3> SUFFICES ASSUME NEW i \in 1..n, NEW j \in 1..n, i # j
                   PROVE  (more \o Tail(work))[i].v[1] # (more \o Tail(work))[j].v[1]
        BY Zenon
      <3>1. <<keys[i], vals[i]>>[1] = keys[i] /\ <<keys[j], vals[j]>>[1] = keys[j]
        BY Zenon
      <3>2. (more \o Tail(work))[i].v[1] = keys[i] /\ (more \o Tail(work))[j].v[1] = keys[j]
        BY <2>4, <3>1, Zenon
      <3>3. keys[i] # keys[j]
        BY <1>7, <1>8, Zenon DEF Distinct
      <3> QED BY <3>2, <3>3, Zenon
    <2>7. MapGood(strategy, more \o Tail(work), item.at, fd, r, {})
      <3>1. eff = EffOf(strategy, fd)
        BY EffIsEffective
      <3>2. Cardinality(r) > MaxOf(fd.countBits) => EffOf(strategy, fd) # "ERROR"
        BY <1>10, <1>13, <3>1
      <3>3. n = IF Cardinality(r) > MaxOf(fd.countBits) THEN MaxOf(fd.countBits) ELSE Cardinality(r)
        BY <1>10
      <3> QED BY <1>7, <1>9, <2>3, <2>5, <2>6, <3>2, <3>3, MapBegins, Zenon
    <2>8. Good(strategy, more \o Tail(work), item.at, fd, r, {})
      BY <1>1, <1>2, <2>7, Zenon DEF Good
    <2>9. IsAbout(item, item.at, fd)
      BY <1>1, FieldItem
    <2> QED BY <1>13, <2>2, <2>8, <2>9, EmitSet, Zenon
  <1> QED BY <1>5, <1>13, FailKeeps

(* A value, an element or an entry joins what is kept.                     *)
LEMMA FallowNothing == ASSUME NEW at PROVE Fallow(<<>>, at)
  <1>1. 1..Len(<<>>) = {}
    BY EmptyIsSeq
  <1> QED BY <1>1 DEF Fallow

LEMMA FallowUnits ==
  ASSUME NEW t \in DOMAIN Descriptor, NEW p, IsSeq(p), NEW at PROVE Fallow(UnitItems(t, p), at)
  <1>1. \A k \in 1..Len(UnitItems(t, p)) : UnitItems(t, p)[k].op = "unit"
    BY UnitItemsShape
  <1> QED BY <1>1 DEF Fallow, IsValueAt

LEMMA EmitElement ==
  ASSUME KeptReady, item.op = "value", item.u.card = "repeated", NEW b, NEW more,
         Leaves(root, item, more), Fallow(more, item.at),
         NEW x, x = DocOf(strategy, item.u, item.v), Emit(b, more, raw, Store(kept, item.u, item.at, x))
  PROVE  KeptNext
  <1> PICK k2, at : k2 = Store(kept, item.u, item.at, x) /\ at = item.at
    OBVIOUS
  <1>1. k2 = [a \in DOMAIN kept |-> IF a = at THEN Append(kept[at], x) ELSE kept[a]]
    BY StoreFacts
  <1>2. Alters(k2, kept, at)
    BY <1>1 DEF Alters
  <1>3. ASSUME at \in DOMAIN kept, Good(strategy, work, at, item.u, raw[at], kept[at])
        PROVE  Good(strategy, more \o Tail(work), at, item.u, raw[at], k2[at])
    <2>1. k2[at] = Append(kept[at], x)
      BY <1>1, <1>3
    <2>2. ListGood(strategy, work, at, item.u, raw[at], kept[at])
      BY <1>3 DEF Good
    <2>3. IsSeq(work) /\ work # <<>> /\ IsSeq(more) /\ IsValueAt(Head(work), at)
      BY DEF KeptReady, Coding, Leaves, Offspring, IsValueAt, item
    <2>4. Head(work).v = item.v
      BY DEF item
    <2>5. ListGood(strategy, more \o Tail(work), at, item.u, raw[at], Append(kept[at], x))
      BY <2>2, <2>3, <2>4, ListGrows
    <2> QED BY <1>3, <2>1, <2>5 DEF Good
  <1>4. KeptOK(strategy, root, more \o Tail(work), Append(marks, Mark), raw, k2)
    BY <1>2, <1>3, ItemHeads, KeptGrown
  <1> QED BY <1>4, ItemHeads, EmitKeeps

StoredAt(k2, k, at, x) == /\ Alters(k2, k, at)
                          /\ at \in DOMAIN k => k2[at] = Replaced(k[at], x)

LEMMA StoredEntry ==
  ASSUME NEW k, NEW fd, fd.card = "map", NEW at, NEW x PROVE StoredAt(Store(k, fd, at, x), k, at, x)
  <1> PICK k2 : k2 = Store(k, fd, at, x)
    OBVIOUS
  <1>1. k2 = [a \in DOMAIN k |-> IF a = at THEN {e \in k[at] : e[1] # x[1]} \cup {x} ELSE k[a]]
    BY StoreFacts
  <1>2. StoredAt(k2, k, at, x)
    BY <1>1 DEF Alters, Replaced, StoredAt
  <1> QED BY <1>2

LEMMA GoodEntry ==
  ASSUME NEW w, IsSeq(w), w # <<>>, NEW at, IsValueAt(Head(w), at),
         NEW st, NEW fd, fd.card = "map", fd.kind # "message", NEW r, NEW k, Good(st, w, at, fd, r, k),
         NEW x, x = EntryOf(st, fd, Head(w).v)
  PROVE  Good(st, <<>> \o Tail(w), at, fd, r, Replaced(k, x))
  <1>1. MapGood(st, w, at, fd, r, k) /\ FieldOK(fd)
    BY DEF Good
  <1>2. IsSeq(<<>>) /\ Fallow(<<>>, at)
    BY EmptyIsSeq, FallowNothing
  <1>3. MapGood(st, <<>> \o Tail(w), at, fd, r, Replaced(k, x))
    BY <1>1, <1>2, MapGrows
  <1> QED BY <1>1, <1>3 DEF Good

LEMMA EmitEntry ==
  ASSUME KeptReady, item.op = "value", item.u.card = "map", item.u.kind # "message", NEW b,
         NEW x, x = EntryOf(strategy, item.u, item.v), Emit(b, <<>>, raw, Store(kept, item.u, item.at, x))
  PROVE  KeptNext
  <1> PICK at, fd : at = item.at /\ fd = item.u
    OBVIOUS
  <1> PICK k2 : k2 = Store(kept, fd, at, x)
    OBVIOUS
  <1>0. StoredAt(k2, kept, at, x)
    BY StoredEntry
  <1>1. Alters(k2, kept, item.at)
        /\ (item.at \in DOMAIN kept => k2[item.at] = Replaced(kept[item.at], x))
    BY <1>0 DEF StoredAt
  <1>2. IsSeq(work) /\ work # <<>> /\ item = Head(work)
    BY DEF KeptReady, Coding, item
  <1>3. ASSUME at \in DOMAIN kept, Good(strategy, work, at, item.u, raw[at], kept[at])
        PROVE  Good(strategy, <<>> \o Tail(work), at, item.u, raw[at], k2[at])
    <2>1. k2[at] = Replaced(kept[at], x)
      BY <1>1, <1>3
    <2>2. IsValueAt(Head(work), at) /\ x = EntryOf(strategy, item.u, Head(work).v)
      BY <1>2 DEF IsValueAt
    <2> QED BY <1>2, <1>3, <2>1, <2>2, GoodEntry
  <1>4. KeptOK(strategy, root, <<>> \o Tail(work), Append(marks, Mark), raw, k2)
    <2>1. /\ Heads(strategy, root, work, marks, raw, kept, item) /\ SameItem(Mark, item)
          /\ Leaves(root, item, <<>>)
      BY ItemHeads, LeavesNothing
    <2>2. item.at \in DOMAIN kept /\ Good(strategy, work, item.at, item.u, raw[item.at], kept[item.at])
            => Good(strategy, <<>> \o Tail(work), item.at, item.u, raw[item.at], k2[item.at])
      BY <1>3
    <2> QED BY <1>1, <2>1, <2>2, KeptGrown, Zenon
  <1> QED BY <1>4, ItemHeads, EmitKeeps

LEMMA KeepValue == ASSUME KeptReady, PackValue PROVE KeptNext
  <1> PICK fd, at, v, y : fd = item.u /\ at = item.at /\ v = item.v /\ y = Keep(item.u, item.v)
    OBVIOUS
  <1>1. /\ item.op = "value" /\ fd.kind # "message" /\ fd.card # "map"
        /\ FieldOK(fd) /\ ValueOK(fd, v)
    BY ValueItem DEF PackValue, Packing
  <1>2. /\ fd.card \in {"singular", "repeated"} /\ ScalarKind(fd) /\ v \in ValuesOf(fd)
        /\ fd.overflow \in Strategies \cup {"UNSPECIFIED"}
        /\ fd.bits \in Nat /\ fd.lengthBits \in Nat
    BY <1>1 DEF FieldOK, IsField, ScalarKind, ValueOK
  <1>3. \/ Fail("PackError")
        \/ /\ ~(Overflows(fd, v) /\ EffectiveStrategy(fd) = "ERROR")
           /\ \E b : Emit(b, <<>>, IF fd.card = "repeated" THEN raw ELSE Store(raw, fd, at, v),
                          Store(kept, fd, at, y))
    BY DEF PackValue
  <1>4. Leaves(root, item, <<>>) /\ Fallow(<<>>, at)
    BY LeavesNothing, FallowNothing
  <1>5. ASSUME ~(Overflows(fd, v) /\ EffectiveStrategy(fd) = "ERROR"), NEW b,
               Emit(b, <<>>, IF fd.card = "repeated" THEN raw ELSE Store(raw, fd, at, v),
                    Store(kept, fd, at, y))
        PROVE  KeptNext
    <2>1. y = DocOf(strategy, fd, v)
      <3>1. strategy \in Strategies
        BY ItemHeads
      <3>2. Keep(fd, v) = DocOf(strategy, fd, v)
        BY <1>2, <1>5, <3>1, KeepIsDoc
      <3> QED BY <3>2
    <2>2. CASE fd.card = "repeated"
      <3>1. Emit(b, <<>>, raw, Store(kept, fd, at, y))
        BY <1>5, <2>2
      <3> QED BY <1>1, <1>4, <2>1, <2>2, <3>1, EmitElement
    <2>3. CASE fd.card = "singular"
      <3>1. \A o, z : Store(o, fd, at, z) = SetAt(o, at, z)
        BY <2>3, StoreFacts
      <3>2. Emit(b, <<>>, SetAt(raw, item.at, v), SetAt(kept, item.at, y))
        BY <1>5, <2>3, <3>1
      <3>3. Good(strategy, <<>> \o Tail(work), item.at, fd, v, y)
        BY <1>1, <2>1, <2>3 DEF Good
      <3>4. IsAbout(item, item.at, fd)
        BY <1>1, ValueItem
      <3> QED BY <1>4, <3>2, <3>3, <3>4, EmitSet, Zenon
    <2> QED BY <1>2, <2>2, <2>3
  <1> QED BY <1>3, <1>5, FailKeeps

LEMMA MapValueOverflow ==
  ASSUME NEW fd, IsField(fd) PROVE MapValue(fd).overflow = "UNSPECIFIED"
  BY DEF IsField, MapValue

LEMMA KeepEntry == ASSUME KeptReady, PackEntry PROVE KeptNext
  <1> PICK fd, at, val, k, v, y :
        /\ fd = item.u /\ at = item.at /\ val = MapValue(item.u)
        /\ k = item.v[1] /\ v = item.v[2] /\ y = Keep(MapValue(item.u), item.v[2])
    OBVIOUS
  <1>1. item.op = "value" /\ fd.card = "map" /\ FieldOK(fd) /\ ValueOK(fd, item.v)
    BY ValueItem DEF PackEntry, Packing
  <1>2. \/ /\ fd.kind = "message"
           /\ Fail("ValidationError") \/ \E b : Emit(b, UnitItems(fd.type, at), raw, kept)
        \/ /\ fd.kind # "message"
           /\ \/ Fail("PackError")
              \/ /\ ~(Overflows(val, v) /\ EffectiveStrategy(val) = "ERROR")
                 /\ \E b : Emit(b, <<>>, raw, Store(kept, fd, at, <<k, y>>))
    BY DEF PackEntry
  <1>3. CASE fd.kind = "message"
    <2> PICK units : units = UnitItems(fd.type, at)
      OBVIOUS
    <2>1. fd.type \in DOMAIN Descriptor /\ Holder(FieldNode(fd), fd.type)
      BY <1>1, <1>3, HolderField DEF FieldOK
    <2>2. Leaves(root, item, units)
      BY <1>1, <2>1, ValueItem, LeavesUnits
    <2>3. Free(item.u)
      BY <1>1, <1>3 DEF Free
    <2>4. item.op # "unit"
      BY <1>1
    <2>5. Fail("ValidationError") \/ \E b : Emit(b, units, raw, kept)
      BY <1>2, <1>3
    <2> QED BY <2>2, <2>3, <2>4, <2>5, FailKeeps, EmitSame
  <1>4. CASE fd.kind # "message"
    <2>1. IsField(fd) /\ ScalarKind(fd) /\ fd.bits \in Nat /\ fd.lengthBits \in Nat
      BY <1>1, <1>4 DEF FieldOK, IsField, ScalarKind
    <2>2. /\ val.kind = fd.kind /\ val.bits = fd.bits /\ val.lengthBits = fd.lengthBits
          /\ ValuesOf(val) = ValuesOf(fd) /\ val.overflow = "UNSPECIFIED"
      BY <2>1, MapValueFacts, MapValueOverflow
    <2>3. v \in ValuesOf(val)
      <3>1. \E q \in KeysOf(fd), w \in ValuesOf(fd) : item.v = <<q, w>>
        BY <1>1 DEF ValueOK
      <3> PICK q \in KeysOf(fd), w \in ValuesOf(fd) : item.v = <<q, w>>
        BY <3>1
      <3> QED BY <2>2
    <2>4. ASSUME ~(Overflows(val, v) /\ EffectiveStrategy(val) = "ERROR"), NEW b,
                 Emit(b, <<>>, raw, Store(kept, fd, at, <<k, y>>))
          PROVE  KeptNext
      <3>1. val.bits \in Nat /\ val.lengthBits \in Nat /\ ScalarKind(val)
            /\ val.overflow \in Strategies \cup {"UNSPECIFIED"} /\ strategy \in Strategies
        BY <2>1, <2>2, ItemHeads DEF ScalarKind
      <3>2. Keep(val, v) = DocOf(strategy, val, v)
        BY <2>3, <2>4, <3>1, KeepIsDoc
      <3>3. <<k, y>> = EntryOf(strategy, item.u, item.v)
        BY <3>2 DEF EntryOf
      <3> QED BY <1>1, <1>4, <2>4, <3>3, EmitEntry
    <2> QED BY <1>2, <1>4, <2>4, FailKeeps
  <1> QED BY <1>3, <1>4

LEMMA KeepNested == ASSUME KeptReady, PackNested PROVE KeptNext
  <1> PICK fd, at, place : fd = item.u /\ at = item.at /\ place = PlaceOf(kept, item.u, item.at)
    OBVIOUS
  <1> PICK units : units = UnitItems(fd.type, place)
    OBVIOUS
  <1>1. /\ item.op = "value" /\ fd.kind = "message" /\ fd.card # "map"
        /\ FieldOK(fd) /\ ValueOK(fd, item.v)
        /\ Walk(root, at, FieldNode(fd)) /\ IsSeq(at) /\ Under(at, at)
    BY ValueItem DEF PackNested, Packing
  <1>2. fd.card \in {"singular", "repeated"} /\ item.v = Present /\ fd.type \in DOMAIN Descriptor
    BY <1>1 DEF FieldOK, IsField, ValueOK, ValuesOf
  <1>3. \/ Fail("ValidationError")
        \/ Emit(<<>>, units, IF fd.card = "repeated" THEN raw ELSE Store(raw, fd, at, Present),
                Store(kept, fd, at, Present))
    BY DEF PackNested
  <1>4. Present = DocOf(strategy, fd, item.v)
    BY <1>1, <1>2, DocOfMessage
  <1>5. ASSUME Emit(<<>>, units, IF fd.card = "repeated" THEN raw ELSE Store(raw, fd, at, Present),
                    Store(kept, fd, at, Present))
        PROVE  KeptNext
    <2>1. CASE fd.card = "repeated"
      <3>1. place = Append(at, Len(kept[at]) + 1)
        BY <2>1 DEF PlaceOf
      <3>2. Walk(root, place, MessageNode(fd.type))
        BY <1>1, <2>1, <3>1, ElementNode, WalkDown
      <3>3. IsSeq(place) /\ Under(place, at)
        BY <1>1, <3>1, UnderAppend
      <3>4. Leaves(root, item, units)
        BY <1>1, <1>2, <3>2, <3>3, HolderMessage, LeavesUnits
      <3>5. Fallow(units, item.at)
        BY <1>2, <3>3, FallowUnits
      <3>6. Emit(<<>>, units, raw, Store(kept, fd, at, Present))
        BY <1>5, <2>1
      <3> QED BY <1>1, <1>4, <2>1, <3>4, <3>5, <3>6, EmitElement
    <2>2. CASE fd.card = "singular"
      <3>1. \A o, z : Store(o, fd, at, z) = SetAt(o, at, z)
        BY <2>2, StoreFacts
      <3>2. Emit(<<>>, units, SetAt(raw, item.at, Present), SetAt(kept, item.at, Present))
        BY <1>5, <2>2, <3>1
      <3>3. Good(strategy, units \o Tail(work), item.at, fd, Present, Present)
        BY <1>1, <1>2, <1>4, <2>2 DEF Good
      <3>4. IsAbout(item, item.at, fd)
        BY <1>1, ValueItem
      <3>5. place = at
        BY <2>2 DEF PlaceOf
      <3>6. Leaves(root, item, units)
        BY <1>1, <1>2, <2>2, <3>5, HolderField, LeavesUnits
      <3> QED BY <3>2, <3>3, <3>4, <3>6, EmitSet, Zenon
    <2> QED BY <1>2, <2>1, <2>2
  <1> QED BY <1>3, <1>5, FailKeeps

LEMMA KeepStep == ASSUME KeptReady, Pack PROVE KeptNext
  BY KeepScalar, KeepTimestamp, KeepMessage, KeepElements, KeepEntries, KeepOneof, KeepValue,
     KeepEntry, KeepNested DEF Pack

-----------------------------------------------------------------------------
(* The invariant, and what it says once everything is packed.              *)

KeptInv ==
  /\ strategy \in Strategies
  /\ phase = "start" => raw = Nothing /\ kept = Nothing /\ marks = <<>>
  /\ phase = "packing" => KeptOK(strategy, root, work, marks, raw, kept)
  /\ phase = "unpacking" => KeptOK(strategy, root, <<>>, marks, raw, kept)

LEMMA StartKept == ASSUME EncoderInv, KeptInv, StartPack PROVE KeptInv'
  <1>1. phase = "start" /\ root' = root /\ strategy' = strategy /\ strategy \in Strategies
    BY DEF StartPack, Fail, FailWith, KeptInv
  <1>2. CASE ~ValidMessage(Descriptor[root])
    <2>1. phase' = "ValidationError"
      BY <1>2 DEF StartPack, Fail, FailWith
    <2> QED BY <1>1, <2>1 DEF KeptInv
  <1>3. CASE ValidMessage(Descriptor[root])
    <2> PICK units : units = UnitItems(root, <<>>)
      OBVIOUS
    <2>1. /\ phase' = "packing" /\ work' = units
          /\ raw' = Nothing /\ kept' = Nothing /\ marks' = <<>>
      BY <1>1, <1>3 DEF StartPack, packVars, KeptInv
    <2>2. IsSeq(<<>>) /\ 1..Len(<<>>) = {} /\ DOMAIN Nothing = {}
      BY EmptyIsSeq, SeqFacts DEF Nothing
    <2>3. /\ Walk(root, <<>>, MessageNode(root)) /\ Holder(MessageNode(root), root)
          /\ root \in DOMAIN Descriptor
      BY WalkStarts, HolderMessage, RootType
    <2>4. Placed(root, units) /\ Disciplined(units)
      BY <2>2, <2>3, UnitsOff
    <2>5. Placed(root, <<>>)
      BY <2>2 DEF Placed
    <2>6. KeptOK(strategy, root, units, <<>>, Nothing, Nothing)
      BY <2>2, <2>4, <2>5 DEF KeptOK
    <2>7. KeptOK(strategy', root', work', marks', raw', kept')
      BY <1>1, <2>1, <2>6
    <2> QED BY <1>1, <2>1, <2>7 DEF KeptInv
  <1> QED BY <1>2, <1>3

LEMMA PackKept == ASSUME EncoderInv, KeptInv, Pack PROVE KeptInv'
  <1>1. phase = "packing" /\ work # <<>>
    BY PackPhase
  <1>2. KeptReady
    BY <1>1, ItemReady DEF KeptReady, Coding, KeptInv
  <1>3. KeptNext
    BY <1>2, KeepStep
  <1>4. strategy' \in Strategies /\ strategy' = strategy /\ root' = root
    BY <1>3 DEF KeptNext, KeptInv
  <1>5. CASE phase' \in {"PackError", "ValidationError"}
    BY <1>4, <1>5 DEF KeptInv
  <1>6. CASE phase' = "packing" /\ KeptOK(strategy, root, work', marks', raw', kept')
    <2>1. KeptOK(strategy', root', work', marks', raw', kept')
      BY <1>4, <1>6
    <2> QED BY <1>4, <1>6, <2>1 DEF KeptInv
  <1> QED BY <1>3, <1>5, <1>6 DEF KeptNext

LEMMA DeliverKept == ASSUME KeptInv, Deliver PROVE KeptInv'
  <1>1. /\ phase = "packing" /\ work = <<>> /\ phase' = "unpacking"
        /\ UNCHANGED <<root, strategy, raw, kept, marks>>
    BY DEF Deliver, DeliverTo, packVars
  <1>2. KeptOK(strategy, root, <<>>, marks, raw, kept) /\ strategy \in Strategies
    BY <1>1 DEF KeptInv
  <1>3. KeptOK(strategy', root', <<>>, marks', raw', kept')
    BY <1>1, <1>2
  <1> QED BY <1>1, <1>2, <1>3 DEF KeptInv

LEMMA UnpackKept == ASSUME KeptInv, Unpack \/ FinishUnpack \/ UNCHANGED vars PROVE KeptInv'
  <1>1. CASE UNCHANGED vars
    BY <1>1 DEF vars, KeptInv
  <1>2. CASE Unpack \/ FinishUnpack
    <2>1. /\ phase = "unpacking" /\ UNCHANGED <<root, strategy, raw, kept, marks>>
          /\ phase' \in {"unpacking", "unpacked", "UnpackError", "ValidationError"}
      BY <1>2 DEF FinishUnpack, Unpack, UnpackScalar, UnpackTimestamp, UnpackMessage,
         UnpackList, UnpackMap, UnpackOneof, UnpackValue, UnpackEntry, UnpackNested,
         UnpackElementEnd, UnpackingField, Unpacking, Consume, Fail, FailWith, packVars
    <2>2. KeptOK(strategy, root, <<>>, marks, raw, kept) /\ strategy \in Strategies
      BY <2>1 DEF KeptInv
    <2>3. KeptOK(strategy', root', <<>>, marks', raw', kept')
      BY <2>1, <2>2
    <2> QED BY <2>1, <2>2, <2>3 DEF KeptInv
  <1> QED BY <1>1, <1>2

LEMMA InitKept == Init => KeptInv
  BY StrategiesAssumption DEF Init, KeptInv

LEMMA KeptInvStep == ASSUME EncoderInv, KeptInv, [Next]_vars PROVE KeptInv'
  BY StartKept, PackKept, DeliverKept, UnpackKept DEF Next

(* FieldAt finds the field. *)
LEMMA FieldAtIs ==
  ASSUME Placed(root, marks), NEW at, IsSeq(at), NEW fd, HasField(marks, at, fd)
  PROVE  FieldAt(at) = fd
  <1> DEFINE P(n) == marks[n].at = at /\ (marks[n].op = "value" \/ marks[n].u.unit = "field")
             j == CHOOSE n \in 1..Len(marks) : P(n)
  <1>1. \E n \in 1..Len(marks) : P(n)
    BY DEF HasField, IsAbout
  <1>2. j \in 1..Len(marks) /\ P(j)
    BY <1>1, Zenon
  <1>3. FieldAt(at) = IF marks[j].op = "value" THEN marks[j].u ELSE marks[j].u.fd
    BY DEF FieldAt
  <1> HIDE DEF j
  <1> PICK m : m = marks[j]
    OBVIOUS
  <1>4. m.at = at /\ (m.op = "value" \/ m.u.unit = "field") /\ Walk(root, at, Node(m))
    BY <1>2 DEF Placed
  <1>5. Node(m) = FieldNode(fd)
    BY <1>4, SameField
  <1>6. CASE m.op = "value"
    <2>1. m.u = fd
      BY <1>5, <1>6, FieldNodeOnto DEF Node
    <2> QED BY <1>3, <1>6, <2>1
  <1>7. CASE m.op # "value"
    <2>1. Node(m) = FieldNode(m.u.fd)
      BY <1>4, <1>7 DEF Node, UnitNode
    <2>2. m.u.fd = fd
      BY <1>5, <2>1, FieldNodeOnto
    <2> QED BY <1>3, <1>7, <2>2
  <1> QED BY <1>6, <1>7

LEMMA DocIsEff ==
  ASSUME NEW fd
  PROVE  /\ DocStrategy(fd) = EffOf(strategy, fd)
         /\ \A v : DocValue(fd, v) = DocOf(strategy, fd, v)
  <1>1. DocStrategy(fd) = EffOf(strategy, fd)
    BY DEF DocStrategy, EffOf
  <1> QED BY <1>1 DEF DocValue, DocOf

(* A clear count keeps what the table says. *)
LEMMA ClearCount ==
  ASSUME NEW r, Len(r) \in Nat, NEW max \in Nat, NEW eff \in Strategies,
         Len(r) > max => eff # "ERROR", Len(r) <= max \/ eff # "MODULO"
  PROVE  DocCrop(r, max, eff) = KeepList(r, max, eff)
  <1>1. CASE Len(r) <= max
    BY <1>1 DEF DocCrop, KeepList
  <1>2. CASE ~(Len(r) <= max)
    <2>1. eff \in {"CROP_LEFT", "CLAMP", "CROP_RIGHT"} /\ eff # "ERROR"
      BY <1>2 DEF Strategies
    <2>2. CASE eff = "CROP_LEFT"
      BY <1>2, <2>2 DEF DocCrop, KeepList
    <2>3. CASE eff \in {"CLAMP", "CROP_RIGHT"}
      BY <1>2, <2>1, <2>3 DEF DocCrop, KeepList
    <2> QED BY <2>1, <2>2, <2>3
  <1> QED BY <1>1, <1>2

LEMMA ClearSize ==
  ASSUME NEW n \in Nat, NEW max \in Nat, NEW eff \in Strategies,
         n > max => eff # "ERROR", n <= max \/ eff # "MODULO"
  PROVE  Len(DocCrop([j \in 1..n |-> j], max, eff)) = IF n > max THEN max ELSE n
  <1> PICK s : s = [j \in 1..n |-> j]
    OBVIOUS
  <1>1. IsSeq(s) /\ Len(s) = n
    BY FunctionIsSeq
  <1>2. CASE n <= max
    BY <1>1, <1>2 DEF DocCrop
  <1>3. CASE ~(n <= max)
    <2>1. eff \in {"CROP_LEFT", "CLAMP", "CROP_RIGHT"} /\ eff # "ERROR"
      BY <1>3 DEF Strategies
    <2>2. Len(KeepFirst(s, max)) = max /\ Len(KeepLast(s, max)) = max
      BY <1>1, <1>3, KeepFacts DEF Part
    <2>3. DocCrop(s, max, eff) \in {KeepFirst(s, max), KeepLast(s, max)}
      <3>1. CASE eff = "CROP_LEFT"
        BY <1>1, <1>3, <3>1 DEF DocCrop
      <3>2. CASE eff \in {"CLAMP", "CROP_RIGHT"}
        BY <1>1, <1>3, <2>1, <3>2 DEF DocCrop
      <3> QED BY <2>1, <3>1, <3>2
    <2> QED BY <1>3, <2>2, <2>3
  <1> QED BY <1>2, <1>3

LEMMA NoneWaits == ASSUME NEW at, NEW a, NEW n, Waiting(<<>>, at, a, n) PROVE n = 0
  BY EmptyIsSeq DEF Waiting

LEMMA ListDocumented ==
  ASSUME NEW fd, NEW at, NEW r, NEW k, FieldOK(fd), strategy \in Strategies,
         ListGood(strategy, <<>>, at, fd, r, k), CountIsClear(fd, Len(r))
  PROVE  k = DocList(fd, r)
  <1> PICK max \in Nat : max = MaxOf(fd.countBits)
    BY MaxType DEF FieldOK, FieldWidths
  <1> PICK eff \in Strategies : eff = EffOf(strategy, fd)
    BY EffType DEF FieldOK, IsField
  <1> PICK a, n, c : ListWith(strategy, <<>>, at, fd, r, k, a, n, c)
    BY DEF ListGood
  <1>1. /\ c = KeepList(r, max, eff) /\ IsSeq(c) /\ IsSeq(r) /\ n = 0
        /\ Len(r) > max => eff # "ERROR"
        /\ IsSeq(k) /\ Len(k) + n = Len(c)
        /\ \A j \in 1..Len(k) : k[j] = DocOf(strategy, fd, c[j])
    BY NoneWaits DEF ListWith
  <1>2. Len(k) = Len(c) /\ Len(c) \in Nat /\ Len(r) \in Nat
    BY <1>1, SeqFacts
  <1>3. Len(r) <= max \/ eff # "MODULO"
    BY DocIsEff DEF CountIsClear
  <1>4. DocCrop(r, max, eff) = c
    BY <1>1, <1>2, <1>3, ClearCount
  <1>5. DocList(fd, r) = [j \in 1..Len(c) |-> DocValue(fd, c[j])]
    BY <1>4, DocIsEff DEF DocList
  <1> PICK d : d = DocList(fd, r)
    OBVIOUS
  <1>6. IsSeq(d) /\ Len(d) = Len(c) /\ \A j \in 1..Len(c) : d[j] = DocOf(strategy, fd, c[j])
    BY <1>2, <1>5, FunctionIsSeq, DocIsEff
  <1>7. k = d
    BY <1>1, <1>2, <1>6, SeqsEqual
  <1> QED BY <1>7

LEMMA MapDocumented ==
  ASSUME NEW fd, NEW at, NEW r, NEW k, FieldOK(fd), strategy \in Strategies,
         MapGood(strategy, <<>>, at, fd, r, k)
  PROVE  /\ k \subseteq {DocEntry(fd, e) : e \in r}
         /\ CountIsClear(fd, Cardinality(r)) => Cardinality(k) = DocMapSize(fd, Cardinality(r))
  <1> PICK max \in Nat : max = MaxOf(fd.countBits)
    BY MaxType DEF FieldOK, FieldWidths
  <1> PICK eff \in Strategies : eff = EffOf(strategy, fd)
    BY EffType DEF FieldOK, IsField
  <1> PICK a, n : MapWith(strategy, <<>>, at, fd, r, k, a, n)
    BY DEF MapGood
  <1> PICK s : s = Cardinality(r)
    OBVIOUS
  <1>1. /\ IsFiniteSet(r) /\ IsFiniteSet(k) /\ n = 0
        /\ Cardinality(k) + n = IF s > max THEN max ELSE s
        /\ s > max => eff # "ERROR"
        /\ \A e \in k : \E x \in r : e = EntryOf(strategy, fd, x)
    BY NoneWaits DEF MapWith
  <1>2. s \in Nat /\ Cardinality(k) = IF s > max THEN max ELSE s
    BY <1>1, FS_CardinalityType
  <1>3. \A x : EntryOf(strategy, fd, x) = DocEntry(fd, x)
    BY DocIsEff DEF EntryOf, DocEntry
  <1>4. k \subseteq {DocEntry(fd, e) : e \in r}
    BY <1>1, <1>3
  <1>5. ASSUME CountIsClear(fd, s) PROVE Cardinality(k) = DocMapSize(fd, s)
    <2>1. s <= max \/ eff # "MODULO"
      BY <1>5, DocIsEff DEF CountIsClear
    <2>2. Len(DocCrop([j \in 1..s |-> j], max, eff)) = IF s > max THEN max ELSE s
      BY <1>1, <1>2, <2>1, ClearSize
    <2>3. DocMapSize(fd, s) = Len(DocCrop([j \in 1..s |-> j], max, eff))
      BY DocIsEff DEF DocMapSize
    <2> QED BY <1>2, <2>2, <2>3
  <1> QED BY <1>4, <1>5

LEMMA KeptInvDocuments == ASSUME KeptInv PROVE KeptAsDocumented
  <1> SUFFICES ASSUME phase = "unpacking", NEW at \in DOMAIN raw
               PROVE  LET fd == FieldAt(at) IN
                      CASE IsTimestamp(fd) -> kept[at] = raw[at]
                        [] fd.card = "repeated" ->
                             CountIsClear(fd, Len(raw[at])) => kept[at] = DocList(fd, raw[at])
                        [] fd.card = "map" /\ fd.kind # "message" ->
                             /\ kept[at] \subseteq {DocEntry(fd, e) : e \in raw[at]}
                             /\ CountIsClear(fd, Cardinality(raw[at])) =>
                                  Cardinality(kept[at]) = DocMapSize(fd, Cardinality(raw[at]))
                        [] fd.card = "singular" /\ ~IsTimestamp(fd) -> kept[at] = DocValue(fd, raw[at])
                        [] OTHER -> TRUE
    BY DEF KeptAsDocumented
  <1>1. KeptOK(strategy, root, <<>>, marks, raw, kept) /\ strategy \in Strategies
    BY DEF KeptInv
  <1>2. Placed(root, marks) /\ IsSeq(at) /\ KeptAt(strategy, <<>>, marks, raw, kept, at)
    BY <1>1 DEF KeptOK
  <1> PICK fd : HasField(marks, at, fd) /\ Good(strategy, <<>>, at, fd, raw[at], kept[at])
    BY <1>2 DEF KeptAt
  <1>3. FieldAt(at) = fd
    BY <1>2, FieldAtIs
  <1>4. FieldOK(fd) /\ fd.card \in {"singular", "repeated", "map"}
    BY DEF Good, FieldOK, IsField
  <1> PICK r, k : r = raw[at] /\ k = kept[at]
    OBVIOUS
  <1>5. CASE fd.card = "singular"
    <2>1. k = DocOf(strategy, fd, r) /\ k = DocValue(fd, r)
      BY <1>5, DocIsEff DEF Good
    <2>2. IsTimestamp(fd) => k = r
      BY <2>1, DocOfMessage DEF IsTimestamp
    <2> QED BY <1>3, <1>5, <2>1, <2>2
  <1>6. CASE fd.card = "repeated"
    <2>1. ListGood(strategy, <<>>, at, fd, r, k)
      BY <1>6 DEF Good
    <2>2. CountIsClear(fd, Len(r)) => k = DocList(fd, r)
      BY <1>1, <1>4, <2>1, ListDocumented
    <2>3. ~IsTimestamp(fd)
      BY <1>6 DEF IsTimestamp
    <2> QED BY <1>3, <1>6, <2>2, <2>3
  <1>7. CASE fd.card = "map"
    <2>1. ~IsTimestamp(fd)
      BY <1>7 DEF IsTimestamp
    <2>2. CASE fd.kind # "message"
      <3>1. MapGood(strategy, <<>>, at, fd, r, k)
        BY <1>7, <2>2 DEF Good
      <3>2. /\ k \subseteq {DocEntry(fd, e) : e \in r}
            /\ CountIsClear(fd, Cardinality(r)) => Cardinality(k) = DocMapSize(fd, Cardinality(r))
        BY <1>1, <1>4, <3>1, MapDocumented
      <3> QED BY <1>3, <1>7, <2>1, <2>2, <3>2
    <2>3. CASE fd.kind = "message"
      BY <1>3, <1>7, <2>1, <2>3
    <2> QED BY <2>2, <2>3
  <1> QED BY <1>4, <1>5, <1>6, <1>7

(* What was packed and is kept, while values wait, is as the README says. *)
THEOREM KeptInvariance == Spec => []KeptInv
  <1>1. EncoderInv /\ KeptInv /\ [Next]_vars => KeptInv'
    BY KeptInvStep
  <1> QED BY <1>1, InitKept, EncoderInvariance, PTL DEF Spec

(* Of each value, list and map the encoder keeps what the README's table   *)
(* says, whatever the descriptors, the values and the strategies.          *)
THEOREM KeptAsDocumentedAlways == Spec => []KeptAsDocumented
  BY KeptInvDocuments, KeptInvariance, PTL

-----------------------------------------------------------------------------
(* A partial message.  The places the encoder has been at: an item of the  *)
(* work that is at or around one of them is an element or entry still to   *)
(* come there, or an element of the list that the place is in.             *)

Joins(it) == it.op = "value" /\ it.u.card \in {"repeated", "map"}

Numbered(a, p, n) == Len(a) > Len(p) /\ a[Len(p) + 1] = n

(* The place is inside an element that the list has already. *)
Listed(a, it, k) == /\ it.op = "value" /\ it.u.card = "repeated" /\ Len(a) > Len(it.at)
                    /\ a[Len(it.at) + 1] \in 1..Len(k[it.at])

Passed(a, it, k) == Under(a, it.at) => (a = it.at /\ Joins(it)) \/ Listed(a, it, k)

Ahead(x, w, k) == \A a \in DOMAIN x : IsSeq(a) /\ \A j \in 1..Len(w) : Passed(a, w[j], k)

Lined(w, k) == \A i, j \in 1..Len(w) : i < j => Passed(w[i].at, w[j], k)

(* What an item leaves is at places of one depth. *)
Brood(more) == /\ \A i, j \in 1..Len(more) : Len(more[i].at) = Len(more[j].at)
               /\ \A i \in 1..Len(more) : more[i].op = "value" => Joins(more[i]) \/ Len(more) = 1

Longer(t, s) == IsSeq(s) /\ IsSeq(t) /\ Len(t) = Len(s) + 1 /\ Under(t, s)

(* What an item adds to what is kept, k, when it leaves more. *)
Adds(it, more, k, k2) ==
  /\ DOMAIN k \subseteq DOMAIN k2 /\ DOMAIN k2 \subseteq DOMAIN k \cup {it.at}
  /\ \A a \in DOMAIN k : a # it.at => k2[a] = k[a]
  /\ it.op = "value" /\ it.u.card = "repeated" =>
       /\ it.at \in DOMAIN k /\ Longer(k2[it.at], k[it.at])
       /\ \A i \in 1..Len(more) : Numbered(more[i].at, it.at, Len(k[it.at]) + 1)
  /\ it.op = "value" /\ it.u.card = "map" /\ it.at \in DOMAIN k => k[it.at] \subseteq k2[it.at]
  /\ it.at \in DOMAIN k2 => \/ it.at \in DOMAIN k
                            \/ \A i \in 1..Len(more) : more[i].at = it.at => Joins(more[i])

Bears(rt, it, more, k, k2) ==
  /\ Leaves(rt, it, more) /\ Brood(more) /\ Adds(it, more, k, k2)
  /\ it.op = "value" /\ it.u.card = "map" /\ ~EntryIsMessage(it) => Len(more) = 0

Codes(rt, w, more, k, k2) ==
  /\ IsSeq(w) /\ w # <<>> /\ Disciplined(w) /\ Placed(rt, w)
  /\ \A i \in 1..Len(w) : Opened(w[i], k)
  /\ Bears(rt, Head(w), more, k, k2)

LEMMA CodesFacts ==
  ASSUME NEW rt, NEW w, NEW more, NEW k, NEW k2, Codes(rt, w, more, k, k2)
  PROVE  /\ Head(w) = w[1] /\ 1 \in 1..Len(w) /\ Len(w) \in Nat /\ Len(more) \in Nat
         /\ IsSeq(w[1].at) /\ IsSeq(more) /\ \A i \in 1..Len(w) : IsSeq(w[i].at)
         /\ \A i \in 1..Len(more) : IsSeq(more[i].at) /\ Under(more[i].at, w[1].at)
         /\ \A i \in 1..Len(more \o Tail(w)) :
              \/ i \in 1..Len(more) /\ (more \o Tail(w))[i] = more[i]
              \/ \E j \in 2..Len(w) : i = Len(more) + j - 1 /\ (more \o Tail(w))[i] = w[j]
         /\ Adds(w[1], more, k, k2) /\ Offspring(w[1], more) /\ Brood(more)
  <1>1. Offspring(Head(w), more) /\ IsSeq(more) /\ IsSeq(w) /\ w # <<>>
    BY DEF Codes, Bears, Leaves, Offspring
  <1>2. /\ Head(w) = w[1] /\ 1 \in 1..Len(w) /\ Len(w) \in Nat /\ Len(more) \in Nat
        /\ \A i \in 1..Len(more \o Tail(w)) :
              \/ i \in 1..Len(more) /\ (more \o Tail(w))[i] = more[i]
              \/ \E j \in 2..Len(w) : i = Len(more) + j - 1 /\ (more \o Tail(w))[i] = w[j]
    BY <1>1, NextWork
  <1>3. \A i \in 1..Len(w) : IsSeq(w[i].at)
    BY DEF Codes, Placed
  <1>4. \A i \in 1..Len(more) : IsSeq(more[i].at) /\ Under(more[i].at, w[1].at)
    BY <1>1, <1>2 DEF Offspring, Disciplined
  <1>5. Adds(w[1], more, k, k2) /\ Brood(more)
    BY <1>2 DEF Codes, Bears
  <1> QED BY <1>1, <1>2, <1>3, <1>4, <1>5

(* Two values at one place are values of one field. *)
LEMMA SameValue ==
  ASSUME NEW rt, NEW x, NEW y, IsSeq(x.at), Walk(rt, x.at, Node(x)), Walk(rt, y.at, Node(y)),
         x.op = "value", y.op = "value", x.at = y.at
  PROVE  x.u = y.u
  <1>1. Node(x) = Node(y)
    BY WalkUnique
  <1>2. FieldNode(x.u) = FieldNode(y.u)
    BY <1>1 DEF Node
  <1> QED BY <1>2, FieldNodeOnto

(* A later item at the place of the head is a value, and so is the head.   *)
LEMMA HeadAndLater ==
  ASSUME NEW rt, NEW w, NEW more, NEW k, NEW k2, Codes(rt, w, more, k, k2),
         NEW j \in 2..Len(w), Under(w[j].at, w[1].at)
  PROVE  w[1].at = w[j].at /\ w[1].op = "value" /\ w[j].op = "value" /\ w[1].u = w[j].u
  <1>1. 1 \in 1..Len(w) /\ Len(w) \in Nat /\ IsSeq(w[1].at)
    BY CodesFacts
  <1>2. j \in 1..Len(w) /\ 1 < j
    BY <1>1
  <1>3. Apart(w[1], w[j])
    BY <1>1, <1>2 DEF Codes, Disciplined
  <1>4. w[1].at = w[j].at /\ w[1].op = "value" /\ w[j].op = "value"
    BY <1>3 DEF Apart
  <1>5. Walk(rt, w[1].at, Node(w[1])) /\ Walk(rt, w[j].at, Node(w[j]))
    BY <1>1, <1>2 DEF Codes, Placed
  <1> QED BY <1>1, <1>4, <1>5, SameValue

LEMMA PassedTail ==
  ASSUME NEW rt, NEW w, NEW more, NEW k, NEW k2, Codes(rt, w, more, k, k2),
         NEW j \in 2..Len(w), NEW a, Passed(a, w[j], k)
  PROVE  Passed(a, w[j], k2)
  <1> SUFFICES ASSUME Listed(a, w[j], k) PROVE Listed(a, w[j], k2)
    BY DEF Passed
  <1>1. /\ 1 \in 1..Len(w) /\ Len(w) \in Nat /\ IsSeq(w[1].at) /\ Adds(w[1], more, k, k2)
        /\ IsSeq(w[j].at) /\ j \in 1..Len(w)
    BY CodesFacts
  <1>2. w[j].at \in DOMAIN k
    BY <1>1 DEF Codes, Opened, Listed
  <1>3. CASE w[j].at # w[1].at
    <2>1. k2[w[j].at] = k[w[j].at]
      BY <1>1, <1>2, <1>3 DEF Adds
    <2> QED BY <2>1 DEF Listed
  <1>4. CASE w[j].at = w[1].at
    <2>1. Under(w[j].at, w[1].at)
      BY <1>1, <1>4, UnderItself
    <2>2. w[1].op = "value" /\ w[1].u.card = "repeated"
      BY <2>1, HeadAndLater DEF Listed
    <2>3. Longer(k2[w[j].at], k[w[j].at])
      BY <1>1, <1>4, <2>2 DEF Adds
    <2>4. Len(k[w[j].at]) \in Nat /\ Len(k2[w[j].at]) = Len(k[w[j].at]) + 1
      BY <2>3, SeqFacts DEF Longer
    <2> QED BY <2>4 DEF Listed
  <1> QED BY <1>3, <1>4

(* No place behind the head is around what it leaves. *)
LEMMA PassedMore ==
  ASSUME NEW rt, NEW w, NEW more, NEW k, NEW k2, Codes(rt, w, more, k, k2),
         NEW i \in 1..Len(more), NEW a, IsSeq(a), Passed(a, w[1], k)
  PROVE  ~Under(a, more[i].at)
  <1> SUFFICES ASSUME Under(a, more[i].at) PROVE FALSE
    OBVIOUS
  <1> PICK m, h : m = more[i] /\ h = w[1]
    OBVIOUS
  <1>1. /\ IsSeq(m.at) /\ IsSeq(h.at) /\ Under(m.at, h.at)
        /\ Adds(h, more, k, k2) /\ Offspring(h, more)
    BY CodesFacts
  <1>2. Under(a, h.at)
    BY <1>1, UnderUnder
  <1>3. Len(m.at) \in Nat /\ Len(h.at) \in Nat /\ Len(a) \in Nat
    BY <1>1, SeqFacts
  <1>4. \/ m.op = "unit" /\ Len(m.at) > Len(h.at)
        \/ m.op = "value" /\ h.op = "unit"
    BY <1>1 DEF Offspring
  <1>5. CASE a = h.at /\ Joins(h)
    <2>1. Len(m.at) <= Len(h.at)
      BY <1>5 DEF Under
    <2> QED BY <1>3, <1>4, <1>5, <2>1 DEF Joins
  <1>6. CASE Listed(a, h, k)
    <2>1. /\ Longer(k2[h.at], k[h.at]) /\ Numbered(m.at, h.at, Len(k[h.at]) + 1)
      BY <1>1, <1>6 DEF Adds, Listed
    <2>2. Len(k[h.at]) \in Nat
      BY <2>1, SeqFacts DEF Longer
    <2>3. Len(h.at) + 1 \in 1..Len(m.at)
      BY <1>3, <2>1 DEF Numbered
    <2>4. a[Len(h.at) + 1] = m.at[Len(h.at) + 1]
      BY <2>3 DEF Under
    <2>5. m.at[Len(h.at) + 1] = Len(k[h.at]) + 1 /\ a[Len(h.at) + 1] \in 1..Len(k[h.at])
      BY <1>6, <2>1 DEF Numbered, Listed
    <2> QED BY <2>2, <2>4, <2>5
  <1> QED BY <1>2, <1>5, <1>6 DEF Passed

LEMMA AheadNext ==
  ASSUME NEW rt, NEW w, NEW more, NEW k, NEW k2, Codes(rt, w, more, k, k2), NEW x, Ahead(x, w, k)
  PROVE  Ahead(x, more \o Tail(w), k2)
  <1> PICK w2 : w2 = more \o Tail(w)
    OBVIOUS
  <1>1. /\ 1 \in 1..Len(w) /\ Len(w) \in Nat
        /\ \A i \in 1..Len(w2) :
              \/ i \in 1..Len(more) /\ w2[i] = more[i]
              \/ \E j \in 2..Len(w) : i = Len(more) + j - 1 /\ w2[i] = w[j]
    BY CodesFacts
  <1>2. ASSUME NEW a \in DOMAIN x, NEW i \in 1..Len(w2) PROVE IsSeq(a) /\ Passed(a, w2[i], k2)
    <2>1. IsSeq(a) /\ \A j \in 1..Len(w) : Passed(a, w[j], k)
      BY DEF Ahead
    <2>2. CASE i \in 1..Len(more) /\ w2[i] = more[i]
      <3>1. ~Under(a, more[i].at)
        BY <1>1, <2>1, <2>2, PassedMore
      <3> QED BY <2>1, <2>2, <3>1 DEF Passed
    <2>3. ASSUME NEW j \in 2..Len(w), w2[i] = w[j] PROVE Passed(a, w2[i], k2)
      <3>1. j \in 1..Len(w)
        BY <1>1
      <3>2. Passed(a, w[j], k2)
        BY <2>1, <3>1, PassedTail
      <3> QED BY <2>3, <3>2
    <2> QED BY <1>1, <2>1, <2>2, <2>3
  <1>3. Ahead(x, w2, k2)
    BY <1>2 DEF Ahead
  <1> QED BY <1>3

(* The items an item leaves. *)
LEMMA LinedBrood ==
  ASSUME NEW more, Disciplined(more), Brood(more), NEW k, Len(more) \in Nat,
         NEW i \in 1..Len(more), NEW j \in 1..Len(more), i < j
  PROVE  Passed(more[i].at, more[j], k)
  <1> SUFFICES ASSUME Under(more[i].at, more[j].at)
               PROVE  more[i].at = more[j].at /\ Joins(more[j])
    BY DEF Passed
  <1>1. IsSeq(more[i].at) /\ IsSeq(more[j].at) /\ Apart(more[i], more[j])
    BY DEF Disciplined
  <1>2. Len(more[i].at) = Len(more[j].at) /\ Len(more[j].at) \in Nat
    BY <1>1, SeqFacts DEF Brood
  <1>3. more[i].at = more[j].at
    BY <1>1, <1>2, UnderSame
  <1>4. more[j].op = "value"
    BY <1>1, <1>3, UnderItself DEF Apart
  <1>5. Len(more) # 1
    OBVIOUS
  <1> QED BY <1>3, <1>4, <1>5 DEF Brood

LEMMA LinedLater ==
  ASSUME NEW rt, NEW w, NEW more, NEW k, NEW k2, Codes(rt, w, more, k, k2), Lined(w, k),
         ~EntryIsMessage(w[1]), NEW i \in 1..Len(more), NEW j \in 2..Len(w)
  PROVE  Passed(more[i].at, w[j], k2)
  <1> PICK m, h, x : m = more[i] /\ h = w[1] /\ x = w[j]
    OBVIOUS
  <1>1. /\ 1 \in 1..Len(w) /\ Len(w) \in Nat /\ j \in 1..Len(w) /\ Head(w) = h
        /\ IsSeq(m.at) /\ IsSeq(h.at) /\ IsSeq(x.at) /\ Under(m.at, h.at)
        /\ Adds(h, more, k, k2) /\ Bears(rt, h, more, k, k2) /\ Len(more) \in Nat
    <2>1. /\ 1 \in 1..Len(w) /\ Len(w) \in Nat /\ Head(w) = h
          /\ IsSeq(m.at) /\ IsSeq(h.at) /\ Under(m.at, h.at)
          /\ Adds(h, more, k, k2) /\ Len(more) \in Nat
      BY CodesFacts
    <2>2. j \in 1..Len(w)
      BY <2>1
    <2>3. IsSeq(x.at)
      BY <2>2, CodesFacts
    <2>4. Bears(rt, h, more, k, k2)
      BY <2>1 DEF Codes
    <2> QED BY <2>1, <2>2, <2>3, <2>4
  <1> SUFFICES ASSUME Under(m.at, x.at) PROVE Passed(m.at, x, k2)
    BY DEF Passed
  <1>2. Len(m.at) \in Nat /\ Len(h.at) \in Nat /\ Len(x.at) \in Nat
    BY <1>1, SeqFacts
  <1>3. Under(h.at, x.at)
    <2>1. CASE Under(x.at, h.at)
      <3>1. h.at = x.at
        BY <2>1, HeadAndLater
      <3> QED BY <1>1, <3>1, UnderItself
    <2> QED BY <1>1, <2>1, UnderBoth
  <1>4. Passed(h.at, x, k)
    BY <1>1 DEF Lined
  <1>5. CASE h.at = x.at /\ Joins(x)
    <2>1. h.op = "value" /\ h.u = x.u
      BY <1>1, <1>5, UnderItself, HeadAndLater
    <2>2. CASE x.u.card = "map"
      BY <1>1, <2>1, <2>2 DEF Bears
    <2>3. CASE x.u.card = "repeated"
      <3>1. Longer(k2[h.at], k[h.at]) /\ Numbered(m.at, h.at, Len(k[h.at]) + 1)
        BY <1>1, <2>1, <2>3 DEF Adds
      <3>2. Len(k[h.at]) \in Nat /\ Len(k2[h.at]) = Len(k[h.at]) + 1
        BY <3>1, SeqFacts DEF Longer
      <3>3. Len(m.at) > Len(x.at) /\ m.at[Len(x.at) + 1] \in 1..Len(k2[x.at])
        BY <1>5, <3>1, <3>2 DEF Numbered
      <3>4. Listed(m.at, x, k2)
        BY <1>5, <2>3, <3>3 DEF Listed, Joins
      <3> QED BY <3>4 DEF Passed
    <2> QED BY <1>5, <2>2, <2>3 DEF Joins
  <1>6. CASE Listed(h.at, x, k)
    <2>1. Len(m.at) >= Len(h.at) /\ Len(h.at) > Len(x.at) /\ Len(x.at) + 1 \in 1..Len(h.at)
      BY <1>1, <1>2, <1>6 DEF Listed, Under
    <2>2. m.at[Len(x.at) + 1] = h.at[Len(x.at) + 1] /\ Len(m.at) > Len(x.at)
      <3>1. m.at[Len(x.at) + 1] = h.at[Len(x.at) + 1]
        BY <1>1, <2>1 DEF Under
      <3> QED BY <1>2, <2>1, <3>1
    <2>3. Listed(m.at, x, k)
      BY <1>6, <2>2 DEF Listed
    <2>4. Passed(m.at, w[j], k)
      BY <2>3 DEF Passed
    <2> QED BY <2>4, PassedTail
  <1> QED BY <1>3, <1>4, <1>5, <1>6 DEF Passed

LEMMA LinedNext ==
  ASSUME NEW rt, NEW w, NEW more, NEW k, NEW k2, Codes(rt, w, more, k, k2), Lined(w, k),
         ~EntryIsMessage(w[1])
  PROVE  Lined(more \o Tail(w), k2)
  <1> PICK w2, l : w2 = more \o Tail(w) /\ l = Len(more)
    OBVIOUS
  <1>1. /\ 1 \in 1..Len(w) /\ Len(w) \in Nat /\ l \in Nat /\ Disciplined(more) /\ Brood(more)
        /\ \A i \in 1..Len(w2) :
              \/ i \in 1..l /\ w2[i] = more[i]
              \/ \E j \in 2..Len(w) : i = l + j - 1 /\ w2[i] = w[j]
    BY CodesFacts DEF Offspring
  <1>2. ASSUME NEW i \in 1..Len(w2), NEW j \in 1..Len(w2), i < j PROVE Passed(w2[i].at, w2[j], k2)
    <2>1. CASE j \in 1..l
      <3>1. i \in 1..l /\ w2[i] = more[i] /\ w2[j] = more[j]
        BY <1>1, <1>2, <2>1
      <3> QED BY <1>1, <1>2, <2>1, <3>1, LinedBrood
    <2>2. CASE j \notin 1..l
      <3> PICK m \in 2..Len(w) : j = l + m - 1 /\ w2[j] = w[m]
        BY <1>1, <2>2
      <3>1. CASE i \in 1..l
        <4>1. w2[i] = more[i]
          BY <1>1, <3>1
        <4> QED BY <3>1, <4>1, LinedLater
      <3>2. CASE i \notin 1..l
        <4> PICK n \in 2..Len(w) : i = l + n - 1 /\ w2[i] = w[n]
          BY <1>1, <3>2
        <4>1. n < m /\ n \in 1..Len(w) /\ m \in 1..Len(w)
          BY <1>1, <1>2
        <4>2. Passed(w[n].at, w[m], k)
          BY <4>1 DEF Lined
        <4>3. Passed(w[n].at, w[m], k2)
          BY <4>2, PassedTail
        <4> QED BY <4>3
      <3> QED BY <3>1, <3>2
    <2> QED BY <2>1, <2>2
  <1>3. Lined(w2, k2)
    BY <1>2 DEF Lined
  <1> QED BY <1>3

(* Where the head was the encoder has been. *)
LEMMA AheadSelf ==
  ASSUME NEW rt, NEW w, NEW more, NEW k, NEW k2, Codes(rt, w, more, k, k2),
         Ahead(k, w, k), Lined(w, k)
  PROVE  Ahead(k2, more \o Tail(w), k2)
  <1> PICK w2, h : w2 = more \o Tail(w) /\ h = w[1]
    OBVIOUS
  <1>1. /\ 1 \in 1..Len(w) /\ Len(w) \in Nat /\ IsSeq(h.at) /\ Adds(h, more, k, k2)
        /\ \A i \in 1..Len(more) : IsSeq(more[i].at) /\ Under(more[i].at, h.at)
        /\ \A i \in 1..Len(w2) :
              \/ i \in 1..Len(more) /\ w2[i] = more[i]
              \/ \E j \in 2..Len(w) : i = Len(more) + j - 1 /\ w2[i] = w[j]
    BY CodesFacts
  <1>2. Ahead(k, w2, k2)
    BY AheadNext
  <1>3. ASSUME h.at \in DOMAIN k2, h.at \notin DOMAIN k, NEW i \in 1..Len(w2)
        PROVE  Passed(h.at, w2[i], k2)
    <2>1. CASE i \in 1..Len(more) /\ w2[i] = more[i]
      <3> SUFFICES ASSUME Under(h.at, more[i].at) PROVE h.at = more[i].at /\ Joins(more[i])
        BY <2>1 DEF Passed
      <3>1. Len(more[i].at) <= Len(h.at)
        BY DEF Under
      <3>2. more[i].at = h.at
        BY <1>1, <2>1, <3>1, UnderSame
      <3> QED BY <1>1, <1>3, <2>1, <3>2 DEF Adds
    <2>2. ASSUME NEW j \in 2..Len(w), w2[i] = w[j] PROVE Passed(h.at, w2[i], k2)
      <3>1. j \in 1..Len(w) /\ 1 < j
        BY <1>1
      <3>2. Passed(w[1].at, w[j], k)
        BY <1>1, <3>1 DEF Lined
      <3>3. Passed(w[1].at, w[j], k2)
        BY <3>2, PassedTail
      <3> QED BY <2>2, <3>3
    <2> QED BY <1>1, <2>1, <2>2
  <1>4. ASSUME NEW a \in DOMAIN k2 PROVE IsSeq(a) /\ \A i \in 1..Len(w2) : Passed(a, w2[i], k2)
    <2>1. CASE a \in DOMAIN k
      BY <1>2, <2>1 DEF Ahead
    <2>2. CASE a \notin DOMAIN k
      <3>1. a = h.at
        BY <1>1, <2>2 DEF Adds
      <3> QED BY <1>1, <1>3, <2>2, <3>1
    <2> QED BY <2>1, <2>2
  <1>5. Ahead(k2, w2, k2)
    BY <1>4 DEF Ahead
  <1> QED BY <1>5

(* What was kept is part of what is kept later. *)
Within(fd, s, t) == IF fd.card = "repeated" THEN IsSeq(s) /\ IsSeq(t) /\ Under(t, s)
                    ELSE IF fd.card = "map" THEN s \subseteq t ELSE s = t

PartOf(rt, x, y) ==
  \A a \in DOMAIN x : a \in DOMAIN y /\ \A fd : Walk(rt, a, FieldNode(fd)) => Within(fd, x[a], y[a])

LEMMA PartNext ==
  ASSUME NEW rt, NEW w, NEW more, NEW k, NEW k2, Codes(rt, w, more, k, k2),
         NEW x, PartOf(rt, x, k), Ahead(x, w, k)
  PROVE  PartOf(rt, x, k2)
  <1> PICK h : h = w[1]
    OBVIOUS
  <1>1. 1 \in 1..Len(w) /\ IsSeq(h.at) /\ Adds(h, more, k, k2)
    BY CodesFacts
  <1> SUFFICES ASSUME NEW a \in DOMAIN x
               PROVE  a \in DOMAIN k2 /\ \A fd : Walk(rt, a, FieldNode(fd)) => Within(fd, x[a], k2[a])
    BY DEF PartOf
  <1>2. a \in DOMAIN k /\ \A fd : Walk(rt, a, FieldNode(fd)) => Within(fd, x[a], k[a])
    BY DEF PartOf
  <1>3. a \in DOMAIN k2
    BY <1>1, <1>2 DEF Adds
  <1>4. CASE a # h.at
    BY <1>1, <1>2, <1>3, <1>4 DEF Adds
  <1>5. CASE a = h.at
    <2> SUFFICES ASSUME NEW fd, Walk(rt, a, FieldNode(fd)) PROVE Within(fd, x[a], k2[a])
      BY <1>3
    <2>1. Passed(a, h, k) /\ Under(a, h.at)
      BY <1>1, <1>5, UnderItself DEF Ahead
    <2>2. Joins(h)
      <3>1. ~Listed(a, h, k)
        BY <1>1, <1>5, SeqFacts DEF Listed
      <3> QED BY <2>1, <3>1 DEF Passed
    <2>3. Walk(rt, a, FieldNode(h.u))
      <3>1. Walk(rt, h.at, Node(h))
        BY <1>1 DEF Codes, Placed
      <3> QED BY <1>5, <2>2, <3>1 DEF Joins, Node
    <2>4. fd = h.u
      <3>1. FieldNode(fd) = FieldNode(h.u)
        BY <1>1, <1>5, <2>3, WalkUnique
      <3> QED BY <3>1, FieldNodeOnto
    <2>5. Within(fd, x[a], k[a])
      BY <1>2
    <2>6. CASE fd.card = "repeated"
      <3>1. Longer(k2[a], k[a])
        BY <1>1, <1>5, <2>2, <2>4, <2>6 DEF Adds, Joins
      <3>2. IsSeq(x[a]) /\ IsSeq(k[a]) /\ IsSeq(k2[a]) /\ Under(k[a], x[a]) /\ Under(k2[a], k[a])
        BY <2>5, <2>6, <3>1 DEF Within, Longer
      <3>3. Under(k2[a], x[a])
        BY <3>2, UnderUnder
      <3> QED BY <2>6, <3>2, <3>3 DEF Within
    <2>7. CASE fd.card = "map"
      <3>1. k[a] \subseteq k2[a]
        BY <1>1, <1>2, <1>5, <2>2, <2>4, <2>7 DEF Adds, Joins
      <3>2. x[a] \subseteq k[a]
        BY <2>5, <2>7 DEF Within
      <3> QED BY <2>7, <3>1, <3>2 DEF Within
    <2> QED BY <2>2, <2>4, <2>6, <2>7 DEF Joins
  <1> QED BY <1>4, <1>5

-----------------------------------------------------------------------------
(* Every item of the encoder codes.  What it leaves: *)

LEMMA BroodNothing == Brood(<<>>)
  <1>1. 1..Len(<<>>) = {}
    BY EmptyIsSeq
  <1> QED BY <1>1 DEF Brood

LEMMA BroodOne == ASSUME NEW x PROVE Brood(<<x>>)
  <1> PICK s : s = <<x>>
    OBVIOUS
  <1>1. Len(s) = 1
    BY SingleIsSeq
  <1>2. \A i \in 1..Len(s) : i = 1
    BY <1>1
  <1>3. Brood(s)
    BY <1>1, <1>2 DEF Brood
  <1> QED BY <1>3

LEMMA BroodUnits ==
  ASSUME NEW t \in DOMAIN Descriptor, NEW rt, NEW p, IsSeq(p), NEW x, Walk(rt, p, x), Holder(x, t)
  PROVE  Brood(UnitItems(t, p))
  <1> PICK s : s = UnitItems(t, p)
    OBVIOUS
  <1>1. \A i \in 1..Len(s) : s[i].op = "unit" /\ Len(s[i].at) = Len(p) + 1
    BY UnitsOff
  <1>2. Brood(s)
    BY <1>1 DEF Brood
  <1> QED BY <1>2

Siblings(s, p, fd) == \A i \in 1..Len(s) : s[i].op = "value" /\ s[i].at = p /\ s[i].u = fd

LEMMA BroodValues ==
  ASSUME NEW s, NEW p, NEW fd, fd.card \in {"repeated", "map"}, Siblings(s, p, fd)
  PROVE  Brood(s) /\ \A i \in 1..Len(s) : Joins(s[i])
  BY DEF Siblings, Brood, Joins

(* What it adds: nothing, a value, an element or an entry. *)
LEMMA AddsSame ==
  ASSUME NEW it, NEW more, NEW k, NEW k2, k2 = k, it.op = "value" => it.u.card = "map"
  PROVE  Adds(it, more, k, k2)
  BY DEF Adds

LEMMA AddsSet ==
  ASSUME NEW it, NEW more, NEW k, NEW k2, NEW x, k2 = SetAt(k, it.at, x),
         it.op = "value" => it.u.card = "singular",
         \A i \in 1..Len(more) : more[i].at = it.at => Joins(more[i])
  PROVE  Adds(it, more, k, k2)
  <1>1. DOMAIN k2 = {it.at} \cup DOMAIN k /\ \A a \in DOMAIN k : a # it.at => k2[a] = k[a]
    BY DEF SetAt
  <1> QED BY <1>1 DEF Adds

LEMMA AddsElement ==
  ASSUME NEW it, NEW more, NEW k, NEW k2, NEW x, it.op = "value", it.u.card = "repeated",
         k2 = Store(k, it.u, it.at, x), it.at \in DOMAIN k, IsSeq(k[it.at]),
         \A i \in 1..Len(more) : Numbered(more[i].at, it.at, Len(k[it.at]) + 1)
  PROVE  Adds(it, more, k, k2)
  <1> PICK at, fd, s : at = it.at /\ fd = it.u /\ s = k[it.at]
    OBVIOUS
  <1>1. k2 = [a \in DOMAIN k |-> IF a = at THEN Append(k[at], x) ELSE k[a]]
    BY StoreFacts
  <1>2. DOMAIN k2 = DOMAIN k /\ k2[at] = Append(s, x) /\ \A a \in DOMAIN k : a # at => k2[a] = k[a]
    BY <1>1
  <1>3. Longer(Append(s, x), s)
    BY UnderAppend DEF Longer
  <1>4. Longer(k2[it.at], k[it.at])
    BY <1>2, <1>3
  <1> QED BY <1>2, <1>4 DEF Adds

LEMMA AddsEntry ==
  ASSUME NEW it, NEW more, NEW k, NEW k2, NEW x, it.op = "value", it.u.card = "map",
         k2 = Store(k, it.u, it.at, x),
         it.at \in DOMAIN k => \A e \in k[it.at] : e[1] # x[1]
  PROVE  Adds(it, more, k, k2)
  <1> PICK at, fd : at = it.at /\ fd = it.u
    OBVIOUS
  <1>1. StoredAt(k2, k, at, x)
    BY StoredEntry
  <1>2. /\ DOMAIN k2 = DOMAIN k /\ \A a \in DOMAIN k : a # at => k2[a] = k[a]
        /\ at \in DOMAIN k => k2[at] = {e \in k[at] : e[1] # x[1]} \cup {x}
    BY <1>1 DEF StoredAt, Alters, Replaced
  <1>3. at \in DOMAIN k => k[at] \subseteq k2[at]
    BY <1>2
  <1> QED BY <1>2, <1>3 DEF Adds

LEMMA FreshKey ==
  ASSUME NEW st, NEW w, IsSeq(w), w # <<>>, NEW at, IsValueAt(Head(w), at), NEW fd, NEW r, NEW k,
         MapGood(st, w, at, fd, r, k)
  PROVE  \A e \in k : e[1] # Head(w).v[1]
  <1> PICK a, n : MapWith(st, w, at, fd, r, k, a, n)
    BY DEF MapGood
  <1>1. Waiting(w, at, a, n) /\ \A e \in k : \A j \in 1..n : e[1] # w[a + j].v[1]
    BY DEF MapWith
  <1>2. Head(w) = w[1] /\ 1 \in 1..Len(w)
    BY TailFacts
  <1>3. a \in Nat /\ n \in Nat /\ a < 1 /\ 1 <= a + n
    BY <1>1, <1>2 DEF Waiting
  <1>4. a + 1 = 1 /\ 1 \in 1..n
    BY <1>3
  <1> QED BY <1>1, <1>2, <1>4

(* What is kept at the place of a value is good. *)
LEMMA HeadGood ==
  ASSUME KeptReady, item.op = "value", item.at \in DOMAIN kept
  PROVE  Good(strategy, work, item.at, item.u, raw[item.at], kept[item.at])
  <1>1. /\ Placed(root, marks) /\ item.at \in DOMAIN raw
        /\ KeptAt(strategy, work, marks, raw, kept, item.at)
    BY DEF KeptReady, KeptOK
  <1> PICK fd : /\ HasField(marks, item.at, fd)
                /\ Good(strategy, work, item.at, fd, raw[item.at], kept[item.at])
    BY <1>1 DEF KeptAt
  <1>2. IsSeq(item.at) /\ Walk(root, item.at, Node(item))
    BY ItemHeads
  <1>3. Node(item) = FieldNode(fd)
    BY <1>1, <1>2, SameField
  <1>4. fd = item.u
    BY <1>3, FieldNodeOnto DEF Node
  <1> QED BY <1>4

(* The items of the encoder, one form after the other. *)
Borne(more) == Bears(root, item, more, kept, kept')

LEMMA BearsOf ==
  ASSUME NEW more, Leaves(root, item, more), Brood(more), Adds(item, more, kept, kept'),
         item.op = "value" /\ item.u.card = "map" /\ ~EntryIsMessage(item) => Len(more) = 0
  PROVE  Borne(more)
  BY DEF Borne, Bears

LEMMA BearsNone ==
  ASSUME Adds(item, <<>>, kept, kept') PROVE Borne(<<>>)
  BY LeavesNothing, BroodNothing, EmptyIsSeq, BearsOf

LEMMA BearsScalar ==
  ASSUME KeptReady, NEW b, NEW more, Form(item) = "scalar",
         EmitsScalar(item.u.fd, item.at, b, more, kept, kept')
  PROVE  Borne(more)
  <1> PICK fd, at : fd = item.u.fd /\ at = item.at
    OBVIOUS
  <1>1. item.op = "unit" /\ item.u.unit = "field"
    <2>1. item.op # "value" /\ item.u.unit # "oneof"
      BY DEF Form
    <2> QED BY <2>1 DEF KeptReady, Coding, ItemOK, UnitOK
  <1>2. Adds(item, more, kept, kept')
    BY <1>1, AddsSame DEF EmitsScalar
  <1>3. CASE more = <<>>
    BY <1>2, <1>3, BearsNone
  <1>4. ASSUME NEW v, more = <<Value(fd, at, v)>> PROVE Borne(more)
    <2>1. Leaves(root, item, <<Value(fd, at, v)>>)
      BY <1>1, FieldItem, LeavesOne
    <2>2. Brood(<<Value(fd, at, v)>>)
      BY BroodOne
    <2> QED BY <1>1, <1>2, <1>4, <2>1, <2>2, BearsOf
  <1> QED BY <1>3, <1>4 DEF EmitsScalar

LEMMA NothingAt ==
  ASSUME NEW it PROVE \A i \in 1..Len(<<>>) : <<>>[i].at = it.at => Joins(<<>>[i])
  <1>1. 1..Len(<<>>) = {}
    BY EmptyIsSeq
  <1> QED BY <1>1

LEMMA BearsTimestamp ==
  ASSUME KeptReady, NEW b, NEW more, Form(item) = "timestamp",
         EmitsTimestamp(item.u.fd, item.at, b, more, kept, kept')
  PROVE  Borne(more)
  <1> PICK fd, at : fd = item.u.fd /\ at = item.at
    OBVIOUS
  <1>1. item.op = "unit" /\ item.u.unit = "field" /\ fd.card = "singular"
    <2>1. item.op # "value" /\ item.u.unit # "oneof" /\ fd.card # "repeated" /\ fd.card # "map"
      BY DEF Form
    <2>2. item.op = "unit" /\ item.u.unit = "field" /\ FieldOK(fd)
      BY <2>1 DEF KeptReady, Coding, ItemOK, UnitOK
    <2> QED BY <2>1, <2>2 DEF FieldOK, IsField
  <1>2. more = <<>>
    BY DEF EmitsTimestamp
  <1>3. CASE kept' = kept
    BY <1>1, <1>2, <1>3, AddsSame, BearsNone
  <1>4. ASSUME NEW v, kept' = Store(kept, fd, at, v) PROVE Borne(more)
    <2>1. kept' = SetAt(kept, item.at, v)
      BY <1>1, <1>4, StoreFacts
    <2>2. Adds(item, <<>>, kept, kept')
      BY <1>1, <2>1, NothingAt, AddsSet
    <2> QED BY <1>2, <2>2, BearsNone
  <1> QED BY <1>3, <1>4 DEF EmitsTimestamp

LEMMA UnitsInside ==
  ASSUME NEW t \in DOMAIN Descriptor, NEW rt, NEW p, IsSeq(p), NEW x, Walk(rt, p, x), Holder(x, t),
         NEW it, it.at = p
  PROVE  \A i \in 1..Len(UnitItems(t, p)) : UnitItems(t, p)[i].at = it.at => Joins(UnitItems(t, p)[i])
  <1> PICK s : s = UnitItems(t, p)
    OBVIOUS
  <1>1. \A i \in 1..Len(s) : Len(s[i].at) = Len(p) + 1
    BY UnitsOff
  <1>2. Len(p) \in Nat
    BY SeqFacts
  <1>3. \A i \in 1..Len(s) : s[i].at # it.at
    BY <1>1, <1>2
  <1> QED BY <1>3

LEMMA BearsMessage ==
  ASSUME KeptReady, NEW b, NEW more, Form(item) = "message",
         EmitsMessage(item.u.fd, item.at, b, more, kept, kept')
  PROVE  Borne(more)
  <1> PICK fd, at : fd = item.u.fd /\ at = item.at
    OBVIOUS
  <1>1. /\ item.op = "unit" /\ item.u.unit = "field" /\ fd.card = "singular" /\ fd.kind = "message"
        /\ fd.type \in DOMAIN Descriptor
    <2>1. /\ item.op # "value" /\ item.u.unit # "oneof" /\ fd.card # "repeated" /\ fd.card # "map"
          /\ fd.kind = "message"
      BY DEF Form
    <2>2. item.op = "unit" /\ item.u.unit = "field" /\ FieldOK(fd)
      BY <2>1 DEF KeptReady, Coding, ItemOK, UnitOK
    <2> QED BY <2>1, <2>2 DEF FieldOK, IsField
  <1>2. CASE more = <<>> /\ kept' = kept
    BY <1>1, <1>2, AddsSame, BearsNone
  <1>3. CASE more = UnitItems(fd.type, at) /\ kept' = Store(kept, fd, at, Present)
    <2>1. kept' = SetAt(kept, item.at, Present)
      BY <1>1, <1>3, StoreFacts
    <2>2. /\ Walk(root, at, FieldNode(fd)) /\ IsSeq(at) /\ Under(at, at)
          /\ Holder(FieldNode(fd), fd.type)
      BY <1>1, FieldItem, HolderField
    <2>3. Leaves(root, item, more) /\ Brood(more)
      BY <1>1, <1>3, <2>2, LeavesUnits, BroodUnits
    <2>4. \A i \in 1..Len(more) : more[i].at = item.at => Joins(more[i])
      BY <1>1, <1>3, <2>2, UnitsInside
    <2>5. Adds(item, more, kept, kept')
      BY <1>1, <2>1, <2>4, AddsSet
    <2> QED BY <1>1, <2>3, <2>5, BearsOf
  <1> QED BY <1>2, <1>3 DEF EmitsMessage

LEMMA BearsCount ==
  ASSUME KeptReady, NEW b, NEW more, IsSeq(more), NEW empty, Form(item) \in {"list", "map"},
         EmitsCount(item.u.fd, item.at, b, more, kept, kept', empty)
  PROVE  Borne(more)
  <1> PICK fd, at : fd = item.u.fd /\ at = item.at
    OBVIOUS
  <1>1. item.op = "unit" /\ item.u.unit = "field" /\ fd.card \in {"repeated", "map"}
    <2>1. item.op # "value" /\ item.u.unit # "oneof" /\ fd.card \in {"repeated", "map"}
      BY DEF Form
    <2> QED BY <2>1 DEF KeptReady, Coding, ItemOK, UnitOK
  <1>2. kept' = SetAt(kept, item.at, empty) /\ \A i \in 1..Len(more) : SameItem(more[i], Value(fd, at, Nothing))
    BY DEF EmitsCount
  <1>3. \A i \in 1..Len(more) : more[i].op = "value" /\ more[i].at = at /\ more[i].u = fd
    <2>1. /\ Value(fd, at, Nothing).op = "value" /\ Value(fd, at, Nothing).u = fd
          /\ Value(fd, at, Nothing).at = at
      BY DEF Value
    <2> QED BY <1>2, <2>1 DEF SameItem
  <1>4. Brood(more) /\ \A i \in 1..Len(more) : Joins(more[i])
    <2>1. Siblings(more, at, fd)
      BY <1>3 DEF Siblings
    <2> QED BY <1>1, <2>1, BroodValues
  <1>5. Leaves(root, item, more)
    BY <1>1, <1>3, FieldItem, LeavesValues
  <1>6. Adds(item, more, kept, kept')
    BY <1>1, <1>2, <1>4, AddsSet
  <1> QED BY <1>1, <1>4, <1>5, <1>6, BearsOf

LEMMA BearsOneof ==
  ASSUME KeptReady, NEW b, NEW more, Form(item) = "oneof",
         EmitsOneof(item.u, item.at, b, more, kept, kept')
  PROVE  Borne(more)
  <1> PICK u, at : u = item.u /\ at = item.at
    OBVIOUS
  <1>1. item.op = "unit" /\ u.unit = "oneof" /\ UnitOK(u)
    <2>1. item.op # "value"
      BY DEF Form
    <2>2. item.u.unit = "oneof"
      BY <2>1 DEF Form
    <2> QED BY <2>1, <2>2 DEF KeptReady, Coding, ItemOK
  <1>2. Adds(item, more, kept, kept')
    BY <1>1, AddsSame DEF EmitsOneof
  <1>3. CASE more = <<>>
    BY <1>2, <1>3, BearsNone
  <1>4. ASSUME NEW n \in 1..Len(u.fields), NEW v, more = <<Value(u.fields[n], Append(at, n), v)>>
        PROVE  Borne(more)
    <2>1. u.fields[n].card = "singular"
      BY <1>1 DEF UnitOK, MemberOK
    <2>2. Walk(root, at, UnitNode(u)) /\ IsSeq(at)
      <3>1. Node(item) = UnitNode(u)
        BY <1>1 DEF Node
      <3> QED BY <3>1, ItemHeads
    <2>3. Walk(root, Append(at, n), Down(UnitNode(u), n))
      BY <2>2, WalkDown
    <2>4. Down(UnitNode(u), n) = FieldNode(u.fields[n])
      BY <1>1, MemberNode
    <2>5. IsSeq(Append(at, n)) /\ Under(Append(at, n), at)
      BY <2>2, UnderAppend
    <2>6. Leaves(root, item, <<Value(u.fields[n], Append(at, n), v)>>)
      BY <1>1, <2>1, <2>2, <2>3, <2>4, <2>5, LeavesOne
    <2>7. Brood(<<Value(u.fields[n], Append(at, n), v)>>)
      BY BroodOne
    <2> QED BY <1>1, <1>2, <1>4, <2>6, <2>7, BearsOf
  <1>5. PICK n \in 0..Len(u.fields) : /\ n = 0 => more = <<>>
                                      /\ n > 0 => \E v : more = <<Value(u.fields[n], Append(at, n), v)>>
    BY DEF EmitsOneof
  <1>6. CASE n = 0
    BY <1>3, <1>5, <1>6
  <1>7. CASE n # 0
    <2>1. n > 0 /\ n \in 1..Len(u.fields)
      BY <1>7
    <2> QED BY <1>4, <1>5, <2>1
  <1> QED BY <1>6, <1>7

(* The list of an element. *)
LEMMA HeadList ==
  ASSUME KeptReady, item.op = "value", item.u.card = "repeated", Opened(item, kept)
  PROVE  item.at \in DOMAIN kept /\ IsSeq(kept[item.at])
  <1>1. item.at \in DOMAIN kept
    BY DEF Opened
  <1>2. Good(strategy, work, item.at, item.u, raw[item.at], kept[item.at])
    BY <1>1, HeadGood
  <1>3. ListGood(strategy, work, item.at, item.u, raw[item.at], kept[item.at])
    BY <1>2 DEF Good
  <1> QED BY <1>1, <1>3 DEF ListGood, ListWith

LEMMA BearsValue ==
  ASSUME KeptReady, NEW b, NEW more, Form(item) = "value", Opened(item, kept),
         EmitsValue(item.u, item.at, b, more, kept, kept')
  PROVE  Borne(more)
  <1> PICK fd, at : fd = item.u /\ at = item.at
    OBVIOUS
  <1>1. item.op = "value"
    BY DEF Form
  <1>2. fd.card \in {"singular", "repeated"}
    <2>1. fd.card # "map" /\ FieldOK(fd)
      BY <1>1, ValueItem DEF Form
    <2> QED BY <2>1 DEF FieldOK, IsField
  <1> PICK v : more = <<>> /\ kept' = Store(kept, fd, at, v)
    BY DEF EmitsValue
  <1>3. CASE fd.card = "singular"
    <2>1. kept' = SetAt(kept, item.at, v)
      BY <1>3, StoreFacts
    <2>2. Adds(item, <<>>, kept, kept')
      BY <1>3, <2>1, NothingAt, AddsSet
    <2> QED BY <2>2, BearsNone
  <1>4. CASE fd.card = "repeated"
    <2>1. item.at \in DOMAIN kept /\ IsSeq(kept[item.at])
      BY <1>1, <1>4, HeadList
    <2>2. 1..Len(<<>>) = {}
      BY EmptyIsSeq
    <2>3. Adds(item, <<>>, kept, kept')
      BY <1>1, <1>4, <2>1, <2>2, AddsElement
    <2> QED BY <2>3, BearsNone
  <1> QED BY <1>2, <1>3, <1>4

LEMMA BearsEntry ==
  ASSUME KeptReady, NEW b, NEW more, Form(item) = "entry", PackEntry, phase' = "packing",
         EmitsEntry(item.u, item.at, b, more, kept, kept')
  PROVE  Borne(more)
  <1> PICK fd, at : fd = item.u /\ at = item.at
    OBVIOUS
  <1>1. item.op = "value"
    BY DEF Form
  <1>2. fd.card = "map" /\ FieldOK(fd) /\ Walk(root, at, FieldNode(fd)) /\ IsSeq(at) /\ Under(at, at)
    BY <1>1, ValueItem DEF Form
  <1>3. CASE fd.kind = "message"
    <2>1. more = UnitItems(fd.type, at) /\ kept' = kept /\ fd.type \in DOMAIN Descriptor
      BY <1>2, <1>3 DEF EmitsEntry, FieldOK
    <2>2. Holder(FieldNode(fd), fd.type)
      BY <1>2, HolderField
    <2>3. Leaves(root, item, more) /\ Brood(more)
      BY <1>2, <2>1, <2>2, LeavesUnits, BroodUnits
    <2>4. Adds(item, more, kept, kept')
      BY <1>2, <2>1, AddsSame
    <2>5. EntryIsMessage(item)
      BY <1>1, <1>2, <1>3 DEF EntryIsMessage
    <2> QED BY <2>3, <2>4, <2>5, BearsOf
  <1>4. CASE fd.kind # "message"
    <2>1. more = <<>>
      BY <1>4 DEF EmitsEntry
    <2>2. PICK y : kept' = Store(kept, fd, at, <<item.v[1], y>>)
      BY <1>4 DEF PackEntry, Fail, FailWith, Emit
    <2> PICK x : x = <<item.v[1], y>>
      OBVIOUS
    <2>3. ASSUME item.at \in DOMAIN kept PROVE \A e \in kept[item.at] : e[1] # x[1]
      <3>1. Good(strategy, work, item.at, item.u, raw[item.at], kept[item.at])
        BY <1>1, <2>3, HeadGood
      <3>2. MapGood(strategy, work, item.at, item.u, raw[item.at], kept[item.at])
        BY <1>2, <1>4, <3>1 DEF Good
      <3>3. IsSeq(work) /\ work # <<>> /\ item = Head(work) /\ IsValueAt(Head(work), item.at)
        BY <1>1 DEF KeptReady, Coding, item, IsValueAt
      <3>4. \A e \in kept[item.at] : e[1] # Head(work).v[1]
        BY <3>2, <3>3, FreshKey
      <3> QED BY <3>3, <3>4
    <2>4. Adds(item, <<>>, kept, kept')
      BY <1>1, <1>2, <2>2, <2>3, AddsEntry
    <2> QED BY <2>1, <2>4, BearsNone
  <1> QED BY <1>3, <1>4

LEMMA UnitsNumbered ==
  ASSUME NEW t \in DOMAIN Descriptor, NEW rt, NEW at, IsSeq(at), NEW n,
         NEW x, Walk(rt, Append(at, n), x), Holder(x, t)
  PROVE  \A i \in 1..Len(UnitItems(t, Append(at, n))) : Numbered(UnitItems(t, Append(at, n))[i].at, at, n)
  <1> PICK p, s : p = Append(at, n) /\ s = UnitItems(t, p)
    OBVIOUS
  <1>1. IsSeq(p) /\ Len(p) = Len(at) + 1 /\ p[Len(at) + 1] = n /\ Len(at) \in Nat
    BY AppendFacts, SeqFacts
  <1>2. \A i \in 1..Len(s) : Under(s[i].at, p) /\ Len(s[i].at) = Len(p) + 1
    BY <1>1, UnitsOff
  <1>3. Len(at) + 1 \in 1..Len(p)
    BY <1>1
  <1>4. \A i \in 1..Len(s) : s[i].at[Len(at) + 1] = n
    BY <1>1, <1>2, <1>3 DEF Under
  <1>5. \A i \in 1..Len(s) : Len(s[i].at) > Len(at)
    BY <1>1, <1>2
  <1> QED BY <1>4, <1>5 DEF Numbered

LEMMA BearsNested ==
  ASSUME KeptReady, NEW b, NEW more, Form(item) = "nested", Opened(item, kept),
         EmitsNested(item.u, item.at, b, more, kept, kept')
  PROVE  Borne(more)
  <1> PICK fd, at : fd = item.u /\ at = item.at
    OBVIOUS
  <1>1. item.op = "value"
    BY DEF Form
  <1>2. /\ fd.kind = "message" /\ fd.card # "map"
        /\ FieldOK(fd) /\ Walk(root, at, FieldNode(fd)) /\ IsSeq(at) /\ Under(at, at)
    BY <1>1, ValueItem DEF Form
  <1>3. fd.card \in {"singular", "repeated"} /\ fd.type \in DOMAIN Descriptor
    BY <1>2 DEF FieldOK, IsField
  <1>4. more = UnitItems(fd.type, PlaceOf(kept, fd, at)) /\ kept' = Store(kept, fd, at, Present)
    BY DEF EmitsNested
  <1>5. CASE fd.card = "singular"
    <2>1. kept' = SetAt(kept, item.at, Present) /\ more = UnitItems(fd.type, at)
      BY <1>4, <1>5, StoreFacts DEF PlaceOf
    <2>2. Holder(FieldNode(fd), fd.type)
      BY <1>5, HolderField
    <2>3. Leaves(root, item, more) /\ Brood(more)
      BY <1>2, <1>3, <2>1, <2>2, LeavesUnits, BroodUnits
    <2>4. \A i \in 1..Len(more) : more[i].at = item.at => Joins(more[i])
      BY <1>2, <1>3, <2>1, <2>2, UnitsInside
    <2>5. Adds(item, more, kept, kept')
      BY <1>5, <2>1, <2>4, AddsSet
    <2> QED BY <1>5, <2>3, <2>5, BearsOf
  <1>6. CASE fd.card = "repeated"
    <2>1. item.at \in DOMAIN kept /\ IsSeq(kept[item.at])
      BY <1>1, <1>6, HeadList
    <2> PICK n, p : n = Len(kept[at]) + 1 /\ p = Append(at, n)
      OBVIOUS
    <2>2. more = UnitItems(fd.type, p)
      BY <1>4, <1>6 DEF PlaceOf
    <2>3. Walk(root, p, MessageNode(fd.type)) /\ Holder(MessageNode(fd.type), fd.type)
      BY <1>2, <1>6, ElementNode, WalkDown, HolderMessage
    <2>4. IsSeq(p) /\ Under(p, at)
      BY <1>2, UnderAppend
    <2>5. Leaves(root, item, more) /\ Brood(more)
      BY <1>2, <1>3, <2>2, <2>3, <2>4, LeavesUnits, BroodUnits
    <2>6. \A i \in 1..Len(more) : Numbered(more[i].at, at, n)
      BY <1>2, <1>3, <2>2, <2>3, UnitsNumbered
    <2>7. Adds(item, more, kept, kept')
      BY <1>1, <1>4, <1>6, <2>1, <2>6, AddsElement
    <2> QED BY <1>6, <2>5, <2>7, BearsOf
  <1> QED BY <1>3, <1>5, <1>6

LEMMA PackCodes ==
  ASSUME KeptReady, WorkReady(work, kept), Pack, NEW b, NEW more, Encodes(b, more)
  PROVE  Codes(root, work, more, kept, kept')
  <1>1. /\ Emitted(item, b, more, kept, kept') /\ phase' = "packing" /\ IsSeq(more)
    BY DEF Encodes, WorkReady, WorkOK
  <1>2. /\ IsSeq(work) /\ work # <<>> /\ Disciplined(work) /\ Placed(root, work)
        /\ \A i \in 1..Len(work) : Opened(work[i], kept)
    BY DEF KeptReady, Coding, KeptOK, WorkReady
  <1>3. Opened(item, kept)
    <2>1. Head(work) = work[1] /\ 1 \in 1..Len(work)
      BY <1>2, TailFacts
    <2> QED BY <1>2, <2>1 DEF item
  <1>4. Form(item) \in {"scalar", "timestamp", "message", "list", "map", "oneof", "value",
                        "entry", "nested"}
    BY DEF Form
  <1>5. Form(item) = "entry" => PackEntry
    <2> SUFFICES ASSUME Form(item) = "entry" PROVE PackEntry
      OBVIOUS
    <2>1. item.op = "value"
      BY DEF Form
    <2>2. item.u.card = "map"
      BY <2>1 DEF Form
    <2> QED BY <2>1, <2>2 DEF Pack, PackScalar, PackTimestamp, PackMessage, PackList, PackMap,
         PackOneof, PackValue, PackNested, PackingField, Packing
  <1>6. Borne(more)
    BY <1>1, <1>3, <1>4, <1>5, BearsScalar, BearsTimestamp, BearsMessage, BearsCount, BearsOneof,
       BearsValue, BearsEntry, BearsNested DEF Emitted
  <1>7. Bears(root, Head(work), more, kept, kept')
    BY <1>6 DEF Borne, item
  <1> QED BY <1>2, <1>7 DEF Codes

-----------------------------------------------------------------------------
(* The encoder: what it had kept at an item is part of what it has kept    *)
(* later, unless an entry that is a message came before that item: such    *)
(* entries share the places of their fields.                               *)

Clean(mk, i) == \A j \in 1..(i - 1) : ~EntryIsMessage(mk[j])

PartsKept(K) == \A i \in 1..(Len(marks) + 1) : Clean(marks, i) => PartOf(root, K[i], kept)
PartsAhead(K) == \A i \in 1..(Len(marks) + 1) : Clean(marks, i) => Ahead(K[i], work, kept)

Writing(W, K) == /\ Traced(W, K) /\ PartsKept(K) /\ PartsAhead(K)
                 /\ Clean(marks, Len(marks) + 1) => Lined(work, kept)

(* The field of a place that holds something. *)
LEMMA KeptField ==
  ASSUME NEW st, NEW rt, NEW w, NEW mk, NEW r, NEW k, KeptOK(st, rt, w, mk, r, k), NEW a \in DOMAIN k
  PROVE  IsSeq(a) /\ \E fd : /\ HasField(mk, a, fd) /\ Good(st, w, a, fd, r[a], k[a])
                             /\ \A fe : Walk(rt, a, FieldNode(fe)) <=> fe = fd
  <1>1. IsSeq(a) /\ KeptAt(st, w, mk, r, k, a) /\ Placed(rt, mk)
    BY DEF KeptOK
  <1> PICK fd : HasField(mk, a, fd) /\ Good(st, w, a, fd, r[a], k[a])
    BY <1>1 DEF KeptAt
  <1> PICK j \in 1..Len(mk) : IsAbout(mk[j], a, fd)
    BY DEF HasField
  <1>2. Walk(rt, a, FieldNode(fd))
    BY <1>1 DEF IsAbout, Placed
  <1>3. ASSUME NEW fe, Walk(rt, a, FieldNode(fe)) PROVE fe = fd
    <2>1. FieldNode(fe) = FieldNode(fd)
      BY <1>1, <1>2, <1>3, WalkUnique
    <2> QED BY <2>1, FieldNodeOnto
  <1>4. \A fe : Walk(rt, a, FieldNode(fe)) <=> fe = fd
    BY <1>2, <1>3
  <1> QED BY <1>1, <1>4

LEMMA PartSelf ==
  ASSUME NEW st, NEW rt, NEW w, NEW mk, NEW r, NEW k, KeptOK(st, rt, w, mk, r, k)
  PROVE  PartOf(rt, k, k)
  <1> SUFFICES ASSUME NEW a \in DOMAIN k, NEW fd, Walk(rt, a, FieldNode(fd))
               PROVE  Within(fd, k[a], k[a])
    BY DEF PartOf
  <1>1. Good(st, w, a, fd, r[a], k[a])
    BY KeptField
  <1>2. CASE fd.card = "repeated"
    <2>1. IsSeq(k[a])
      BY <1>1, <1>2 DEF Good, ListGood, ListWith
    <2> QED BY <1>2, <2>1, UnderItself DEF Within
  <1>3. CASE fd.card # "repeated"
    BY <1>3 DEF Within
  <1> QED BY <1>2, <1>3

LEMMA CleanGrows ==
  ASSUME NEW mk, IsSeq(mk), NEW m
  PROVE  /\ Len(mk) \in Nat /\ Len(Append(mk, m)) = Len(mk) + 1
         /\ \A i \in 1..(Len(mk) + 1) : Clean(Append(mk, m), i) => Clean(mk, i)
         /\ Clean(Append(mk, m), Len(mk) + 2) => Clean(mk, Len(mk) + 1) /\ ~EntryIsMessage(m)
  <1> PICK mk2, l : mk2 = Append(mk, m) /\ l = Len(mk)
    OBVIOUS
  <1>1. /\ l \in Nat /\ Len(mk2) = l + 1 /\ mk2[l + 1] = m
        /\ \A i \in 1..l : mk2[i] = mk[i]
    BY AppendFacts, SeqFacts
  <1>2. ASSUME NEW i \in 1..(l + 1), Clean(mk2, i) PROVE Clean(mk, i)
    <2> SUFFICES ASSUME NEW j \in 1..(i - 1) PROVE ~EntryIsMessage(mk[j])
      BY DEF Clean
    <2>1. j \in 1..l
      BY <1>1
    <2> QED BY <1>1, <1>2, <2>1 DEF Clean
  <1>3. ASSUME Clean(mk2, l + 2) PROVE Clean(mk, l + 1) /\ ~EntryIsMessage(m)
    <2>1. (l + 2) - 1 = l + 1 /\ l + 1 \in 1..(l + 1) /\ (l + 1) - 1 = l
      BY <1>1
    <2>2. \A j \in 1..(l + 1) : ~EntryIsMessage(mk2[j])
      BY <1>3, <2>1 DEF Clean
    <2>3. ~EntryIsMessage(m)
      BY <1>1, <2>1, <2>2
    <2>4. \A j \in 1..l : j \in 1..(l + 1)
      BY <1>1
    <2>5. \A j \in 1..l : ~EntryIsMessage(mk[j])
      BY <1>1, <2>2, <2>4
    <2> QED BY <2>1, <2>3, <2>5 DEF Clean
  <1> QED BY <1>1, <1>2, <1>3

LEMMA StartWriting ==
  ASSUME EncoderInv, StartPack, phase' = "packing" PROVE \E W, K : Writing(W, K)'
  <1>1. /\ phase = "start" /\ work' = UnitItems(root, <<>>)
        /\ UNCHANGED <<root, kept, marks>>
    BY DEF StartPack, Fail, FailWith, packVars
  <1>2. kept' = Nothing /\ marks' = <<>> /\ Len(marks') = 0
    BY <1>1, EmptyIsSeq DEF EncoderInv
  <1>3. EncoderInv'
    BY StartInv
  <1> PICK W, K : Traced(W, K)'
    BY <1>3 DEF EncoderInv
  <1>4. K[1] = Nothing
    BY DEF Traced, PackedIn
  <1>5. DOMAIN Nothing = {}
    BY DEF Nothing
  <1>6. \A i \in 1..(Len(marks') + 1) : i = 1
    BY <1>2
  <1>7. PartOf(root', Nothing, kept') /\ Ahead(Nothing, work', kept')
    BY <1>5 DEF PartOf, Ahead
  <1>8. PartsKept(K)' /\ PartsAhead(K)'
    BY <1>4, <1>6, <1>7 DEF PartsKept, PartsAhead
  <1>9. Lined(work', kept')
    <2> PICK units, k2 : units = UnitItems(root, <<>>) /\ k2 = kept'
      OBVIOUS
    <2>1. /\ root \in DOMAIN Descriptor /\ IsSeq(<<>>) /\ Walk(root, <<>>, MessageNode(root))
          /\ Holder(MessageNode(root), root)
      BY RootType, EmptyIsSeq, WalkStarts, HolderMessage
    <2>2. IsSeq(units) /\ Disciplined(units)
      BY <2>1, UnitsOff
    <2>3. Brood(units) /\ Len(units) \in Nat
      BY <2>1, <2>2, BroodUnits, SeqFacts
    <2>4. Lined(units, k2)
      BY <2>2, <2>3, LinedBrood DEF Lined
    <2> QED BY <1>1, <2>4
  <1>10. Writing(W, K)'
    BY <1>8, <1>9 DEF Writing
  <1> QED BY <1>10

LEMMA PackWriting ==
  ASSUME EncoderInv, KeptInv, NEW W, NEW K, Writing(W, K), Pack, phase' = "packing"
  PROVE  \E W2, K2 : Writing(W2, K2)'
  <1>1. phase = "packing" /\ work # <<>> /\ root' = root
    BY PackPhase
  <1>2. KeptReady /\ WorkReady(work, kept)
    BY <1>1, ItemReady DEF KeptReady, Coding, KeptInv, EncoderInv
  <1>3. KeptOK(strategy, root, work', marks', raw', kept')
    BY <1>2, KeepStep DEF KeptNext
  <1>4. PICK b, more : Encodes(b, more)
    <2>1. Coding
      BY <1>2 DEF KeptReady
    <2>2. EncoderSteps
      BY <2>1, EncoderStep
    <2>3. phase' \notin {"PackError", "ValidationError"}
      OBVIOUS
    <2> QED BY <2>2, <2>3, Zenon DEF EncoderSteps
  <1>5. Codes(root, work, more, kept, kept')
    BY <1>2, <1>4, PackCodes
  <1>6. work' = more \o Tail(work) /\ marks' = Append(marks, Mark)
    BY <1>4 DEF Encodes
  <1>7. GoesOn(W, K) /\ IsSeq(marks) /\ Len(marks') = Len(marks) + 1
    BY <1>2, <1>4, TraceGrows DEF Writing, KeptReady
  <1> PICK W2, K2 : Goes(W2, K2, W, K)
    BY <1>7 DEF GoesOn
  <1> PICK l : l = Len(marks)
    OBVIOUS
  <1>8. /\ Traced(W2, K2)' /\ K2[l + 2] = kept' /\ K[l + 1] = kept
        /\ \A n \in 1..(l + 1) : K2[n] = K[n]
    <2>1. Traced(W2, K2)' /\ \A n \in 1..(l + 1) : K2[n] = K[n]
      BY DEF Goes
    <2>2. K2[Len(marks') + 1] = kept' /\ K[l + 1] = kept
      BY <2>1 DEF Traced, Writing
    <2>3. Len(marks') + 1 = l + 2
      BY <1>7, SeqFacts
    <2> QED BY <2>1, <2>2, <2>3
  <1>9. /\ l \in Nat
        /\ \A i \in 1..(l + 1) : Clean(marks', i) => Clean(marks, i)
        /\ Clean(marks', l + 2) => Clean(marks, l + 1) /\ ~EntryIsMessage(Mark)
    BY <1>6, <1>7, CleanGrows
  <1>10. EntryIsMessage(work[1]) => EntryIsMessage(Mark)
    <2>1. Head(work) = work[1]
      BY <1>5, CodesFacts
    <2>2. Mark.op = work[1].op /\ Mark.u = work[1].u
      BY <2>1 DEF Mark, item
    <2> QED BY <2>2 DEF EntryIsMessage
  <1>11. ASSUME NEW i \in 1..(l + 1), Clean(marks', i)
         PROVE  PartOf(root, K2[i], kept') /\ Ahead(K2[i], work', kept')
    <2>1. PartOf(root, K[i], kept) /\ Ahead(K[i], work, kept)
      BY <1>9, <1>11 DEF Writing, PartsKept, PartsAhead
    <2>2. PartOf(root, K[i], kept') /\ Ahead(K[i], more \o Tail(work), kept')
      BY <1>5, <2>1, PartNext, AheadNext
    <2> QED BY <1>6, <1>8, <2>2
  <1>12. ASSUME Clean(marks', l + 2)
         PROVE  /\ PartOf(root, kept', kept') /\ Ahead(kept', work', kept')
                /\ Lined(work', kept')
    <2>1. Clean(marks, l + 1) /\ ~EntryIsMessage(work[1]) /\ l + 1 \in 1..(l + 1)
      BY <1>9, <1>10, <1>12
    <2>2. Ahead(kept, work, kept) /\ Lined(work, kept)
      BY <1>8, <2>1 DEF Writing, PartsAhead
    <2>3. Ahead(kept', more \o Tail(work), kept') /\ Lined(more \o Tail(work), kept')
      BY <1>5, <2>1, <2>2, AheadSelf, LinedNext
    <2>4. PartOf(root, kept', kept')
      BY <1>3, PartSelf
    <2> QED BY <1>6, <2>3, <2>4
  <1>13. /\ Len(marks') + 1 = l + 2
         /\ \A i \in 1..(l + 2) : i \in 1..(l + 1) \/ i = l + 2
    BY <1>7, <1>9
  <1>14. PartsKept(K2)' /\ PartsAhead(K2)'
    <2>1. ASSUME NEW i \in 1..(l + 2), Clean(marks', i)
          PROVE  PartOf(root', K2[i], kept') /\ Ahead(K2[i], work', kept')
      <3>1. CASE i \in 1..(l + 1)
        BY <1>1, <1>11, <2>1, <3>1
      <3>2. CASE i = l + 2
        BY <1>1, <1>8, <1>12, <2>1, <3>2
      <3> QED BY <1>13, <3>1, <3>2
    <2> QED BY <1>13, <2>1 DEF PartsKept, PartsAhead
  <1>15. Clean(marks', Len(marks') + 1) => Lined(work', kept')
    BY <1>12, <1>13
  <1>16. Writing(W2, K2)'
    BY <1>8, <1>14, <1>15 DEF Writing
  <1> QED BY <1>16

-----------------------------------------------------------------------------
(* The decoder: what it has is, but for elements it is decoding, what the  *)
(* encoder had kept at the same item, and no entry that is a message came  *)
(* before.                                                                 *)

OpenList(o, p) == p \in DOMAIN o /\ IsSeq(o[p])
                  /\ \E fd : fd.card = "repeated" /\ Walk(root, p, FieldNode(fd))

OpenLists(o, pending) == \A p \in pending : OpenList(o, p)

PartsIn(o) ==
  \A at \in DOMAIN o :
    /\ at \in DOMAIN kept
    /\ CASE FieldAt(at).card = "repeated" -> IsPrefix(o[at], kept[at])
         [] FieldAt(at).card = "map" -> o[at] \subseteq kept[at]
         [] OTHER -> o[at] = kept[at]

Slice(u, s, d, n) == IsSeq(u) /\ Len(u) = n /\ \A i \in 1..n : u[i] = s[d + i]

LEMMA SliceIsSlice ==
  ASSUME NEW s, IsSeq(s), NEW d \in Nat, NEW n \in Nat, d + n <= Len(s)
  PROVE  Slice(SubSeq(s, d + 1, d + n), s, d, n)
  BY SliceFacts DEF Slice

LEMMA PrefixOf ==
  ASSUME NEW s, NEW t, IsSeq(s), IsSeq(t), Under(t, s) PROVE IsPrefix(s, t)
  <1>1. Len(s) \in Nat /\ Len(t) \in Nat /\ Len(s) <= Len(t)
    BY SeqFacts DEF Under
  <1>2. \A i \in 1..Len(s) : t[i] = s[i]
    BY DEF Under
  <1> PICK u : u = SubSeq(t, 1, Len(s))
    OBVIOUS
  <1>3. IsSeq(u) /\ Len(u) = Len(s) /\ \A i \in 1..Len(s) : u[i] = t[i]
    <2> PICK n \in Nat : n = Len(s)
      BY <1>1
    <2>1. 0 + 1 = 1 /\ 0 + n = n /\ 0 \in Nat /\ 0 + n <= Len(t)
      BY <1>1
    <2>2. Slice(SubSeq(t, 0 + 1, 0 + n), t, 0, n)
      BY <2>1, SliceIsSlice, Zenon
    <2>3. u = SubSeq(t, 0 + 1, 0 + n)
      BY <2>1
    <2>4. Slice(u, t, 0, n)
      BY <2>2, <2>3
    <2>5. \A i \in 1..n : 0 + i = i
      OBVIOUS
    <2> QED BY <2>4, <2>5 DEF Slice
  <1>4. u = s
    BY <1>2, <1>3, SeqsEqual
  <1> QED BY <1>1, <1>4 DEF IsPrefix

LEMMA OutParts ==
  ASSUME NEW w, KeptOK(strategy, root, w, marks, raw, kept), NEW o, NEW pending, NEW k,
         OutIs(o, pending, k), PartOf(root, k, kept), OpenLists(o, pending)
  PROVE  PartsIn(o)
  <1> SUFFICES ASSUME NEW a \in DOMAIN o
               PROVE  /\ a \in DOMAIN kept
                      /\ CASE FieldAt(a).card = "repeated" -> IsPrefix(o[a], kept[a])
                           [] FieldAt(a).card = "map" -> o[a] \subseteq kept[a]
                           [] OTHER -> o[a] = kept[a]
    BY DEF PartsIn
  <1>1. a \in DOMAIN k /\ k[a] = IF a \in pending THEN Append(o[a], Present) ELSE o[a]
    BY DEF OutIs
  <1>2. a \in DOMAIN kept /\ \A fd : Walk(root, a, FieldNode(fd)) => Within(fd, k[a], kept[a])
    BY <1>1 DEF PartOf
  <1> PICK fd : /\ HasField(marks, a, fd)
                /\ \A fe : Walk(root, a, FieldNode(fe)) <=> fe = fd
    BY <1>2, KeptField
  <1>3. FieldAt(a) = fd
    BY <1>2, KeptField, FieldAtIs DEF KeptOK
  <1>4. Within(fd, k[a], kept[a])
    BY <1>2
  <1>5. CASE a \in pending
    <2>1. IsSeq(o[a]) /\ fd.card = "repeated"
      BY <1>5 DEF OpenLists, OpenList
    <2>2. Under(k[a], o[a]) /\ IsSeq(k[a])
      BY <1>1, <1>5, <2>1, UnderAppend
    <2>3. Under(kept[a], k[a]) /\ IsSeq(kept[a])
      BY <1>4, <2>1 DEF Within
    <2>4. Under(kept[a], o[a])
      BY <2>1, <2>2, <2>3, UnderUnder
    <2>5. IsPrefix(o[a], kept[a])
      BY <2>1, <2>3, <2>4, PrefixOf
    <2> QED BY <1>2, <1>3, <2>1, <2>5
  <1>6. CASE a \notin pending
    <2>1. Within(fd, o[a], kept[a])
      BY <1>1, <1>4, <1>6
    <2>2. CASE fd.card = "repeated"
      <3>1. IsPrefix(o[a], kept[a])
        BY <2>1, <2>2, PrefixOf DEF Within
      <3> QED BY <1>2, <1>3, <2>2, <3>1
    <2>3. CASE fd.card # "repeated"
      BY <1>2, <1>3, <2>1, <2>3 DEF Within
    <2> QED BY <2>2, <2>3
  <1> QED BY <1>5, <1>6

(* An item of the decoder changes what is at its own place only, and a     *)
(* list stays one.                                                         *)
Touches(o2, o, it) ==
  /\ \A a \in DOMAIN o : a # it.at => a \in DOMAIN o2 /\ o2[a] = o[a]
  /\ it.op = "value" /\ it.u.card = "repeated" /\ it.at \in DOMAIN o /\ IsSeq(o[it.at]) =>
       it.at \in DOMAIN o2 /\ IsSeq(o2[it.at])

LEMMA TouchesSame == ASSUME NEW o, NEW it PROVE Touches(o, o, it)
  BY DEF Touches

LEMMA TouchesSet ==
  ASSUME NEW o, NEW it, NEW x, it.op = "value" => it.u.card # "repeated"
  PROVE  Touches(SetAt(o, it.at, x), o, it)
  BY DEF Touches, SetAt

LEMMA TouchesStored ==
  ASSUME NEW o, NEW it, NEW fd, NEW x, it.op = "value" => it.u = fd
  PROVE  Touches(Store(o, fd, it.at, x), o, it)
  <1> PICK at, o2 : at = it.at /\ o2 = Store(o, fd, at, x)
    OBVIOUS
  <1>1. \A a \in DOMAIN o : a # at => a \in DOMAIN o2 /\ o2[a] = o[a]
    <2>1. CASE fd.card = "repeated"
      <3>1. o2 = [a \in DOMAIN o |-> IF a = at THEN Append(o[at], x) ELSE o[a]]
        BY <2>1, StoreFacts
      <3> QED BY <3>1
    <2>2. CASE fd.card = "map"
      <3>1. o2 = [o EXCEPT ![at] = {e \in @ : e[1] # x[1]} \cup {x}]
        BY <2>2 DEF Store
      <3> QED BY <3>1
    <2>3. CASE fd.card \notin {"repeated", "map"}
      <3>1. o2 = SetAt(o, at, x)
        BY <2>3, StoreFacts
      <3> QED BY <3>1 DEF SetAt
    <2> QED BY <2>1, <2>2, <2>3
  <1>2. ASSUME it.op = "value", it.u.card = "repeated", at \in DOMAIN o, IsSeq(o[at])
        PROVE  at \in DOMAIN o2 /\ IsSeq(o2[at])
    <2>1. o2 = [a \in DOMAIN o |-> IF a = at THEN Append(o[at], x) ELSE o[a]]
      BY <1>2, StoreFacts
    <2>2. at \in DOMAIN o2 /\ o2[at] = Append(o[at], x)
      BY <1>2, <2>1
    <2> QED BY <1>2, <2>2, UnderAppend
  <1> QED BY <1>1, <1>2 DEF Touches

LEMMA UnpackTouches == ASSUME Unpack PROVE Touches(out', out, item)
  <1>1. CASE out' = out
    BY <1>1, TouchesSame
  <1>2. CASE item.op = "unit" /\ \E x : out' = SetAt(out, item.at, x)
    BY <1>2, TouchesSet
  <1>3. CASE \E fd, x : (item.op = "value" => item.u = fd) /\ out' = Store(out, fd, item.at, x)
    BY <1>3, TouchesStored
  <1>4. ASSUME UnpackScalar PROVE out' = out
    BY <1>4 DEF UnpackScalar, Fail, FailWith, Consume
  <1>5. ASSUME UnpackTimestamp \/ UnpackMessage
        PROVE  out' = out \/ (item.op = "unit" /\ \E fd, x : out' = Store(out, fd, item.at, x))
    BY <1>5 DEF UnpackTimestamp, UnpackMessage, UnpackingField, Unpacking, Fail, FailWith, Consume
  <1>6. ASSUME UnpackList \/ UnpackMap
        PROVE  out' = out \/ (item.op = "unit" /\ \E x : out' = SetAt(out, item.at, x))
    BY <1>6 DEF UnpackList, UnpackMap, UnpackingField, Unpacking, Fail, FailWith, Consume
  <1>7. ASSUME UnpackOneof PROVE out' = out
    BY <1>7 DEF UnpackOneof, Fail, FailWith, Consume
  <1>8. ASSUME UnpackValue \/ UnpackEntry \/ UnpackNested
        PROVE  out' = out \/ \E x : out' = Store(out, item.u, item.at, x)
    BY <1>8 DEF UnpackValue, UnpackEntry, UnpackNested, Fail, FailWith, Consume
  <1>9. ASSUME UnpackElementEnd PROVE out' = Store(out, item.u, item.at, Present)
    BY <1>9 DEF UnpackElementEnd
  <1> QED BY <1>1, <1>2, <1>3, <1>4, <1>5, <1>6, <1>7, <1>8, <1>9 DEF Unpack

Having(W, K) == /\ Reading(W, K) /\ PartsKept(K) /\ Clean(marks, step + 1)
                /\ OpenLists(out, Pending(work))

PartInv ==
  /\ PartsIn(out)
  /\ phase = "packing" => \E W, K : Writing(W, K)
  /\ phase = "unpacking" => \E W, K : Having(W, K)

LEMMA PartsOfNothing == PartsIn(Nothing)
  <1>1. DOMAIN Nothing = {}
    BY DEF Nothing
  <1> QED BY <1>1 DEF PartsIn

LEMMA PartsStay ==
  ASSUME UNCHANGED <<kept, marks>>, PartsIn(out') PROVE PartsIn(out)'
  <1>1. \A a : FieldAt(a)' = FieldAt(a)
    BY DEF FieldAt
  <1> QED BY <1>1 DEF PartsIn

LEMMA DeliverHaving ==
  ASSUME EncoderInv, Deliver, NEW W, NEW K, Writing(W, K) PROVE Having(W, K)'
  <1>1. /\ work' = UnitItems(root, <<>>) /\ phase = "packing"
        /\ UNCHANGED <<root, kept, marks, step>>
    BY DEF Deliver, DeliverTo, packVars
  <1>2. Reading(W, K)'
    BY DeliverAt DEF Writing
  <1>3. PartsKept(K)'
    BY <1>1 DEF Writing, PartsKept
  <1>4. Clean(marks, step + 1)'
    <2>1. step' = 0
      BY <1>1 DEF EncoderInv, Untouched
    <2>2. 1..((0 + 1) - 1) = {}
      OBVIOUS
    <2> QED BY <2>1, <2>2 DEF Clean
  <1>5. Pending(work') = {}
    <2> PICK units : units = UnitItems(root, <<>>)
      OBVIOUS
    <2>1. \A i \in 1..Len(units) : units[i].op = "unit"
      BY RootType, EmptyIsSeq, WalkStarts, HolderMessage, UnitsOff
    <2>2. Pending(units) = {}
      BY <2>1 DEF Pending, IsEnd
    <2> QED BY <1>1, <2>2
  <1>6. OpenLists(out, Pending(work))'
    BY <1>5 DEF OpenLists
  <1> QED BY <1>2, <1>3, <1>4, <1>6 DEF Having

-----------------------------------------------------------------------------
LEMMA OpenStays ==
  ASSUME NEW o2, NEW o, NEW it, NEW pending,
         Touches(o2, o, it), OpenLists(o, pending), it.at \notin pending
  PROVE  OpenLists(o2, pending)
  <1> SUFFICES ASSUME NEW p \in pending PROVE OpenList(o2, p)
    BY DEF OpenLists
  <1>1. OpenList(o, p) /\ p # it.at
    BY DEF OpenLists
  <1>2. p \in DOMAIN o2 /\ o2[p] = o[p]
    BY <1>1 DEF Touches, OpenList
  <1> QED BY <1>1, <1>2 DEF OpenList

(* What is at the place of an item the decoder has come to.                *)
ItemHad(K) ==
  LET n == step + 1
  IN /\ step \in Nat /\ n \in Nat /\ n \in 1..(Len(marks) + 1) /\ n + 1 \in 1..(Len(marks) + 1)
     /\ SameItem(marks[n], item) /\ item.at \notin Pending(work)
     /\ Pending(Tail(work)) = Pending(work)
     /\ item.op = "value" /\ item.u.card = "repeated" => OpenList(out, item.at)

LEMMA HavingItem ==
  ASSUME KeptInv, phase = "unpacking", NEW W, NEW K, Having(W, K), work # <<>>, ~IsEnd(item)
  PROVE  ItemHad(K)
  <1> PICK n : n = step + 1
    OBVIOUS
  <1>1. Reading(W, K) /\ PartsKept(K) /\ Clean(marks, n)
    BY DEF Having
  <1>2. /\ PackedIn(W, K) /\ DecoderAt(W, K) /\ W[Len(marks) + 1] = <<>>
    BY <1>1 DEF Reading
  <1>3. /\ step \in Nat /\ n \in 1..Len(marks) /\ n + 1 \in 1..(Len(marks) + 1)
        /\ Encoded(W[n], K[n], W[n + 1], K[n + 1], marks[n], bits, pos, StartOf(marks, bits, n + 1))
        /\ SameItem(item, Head(W[n])) /\ SameItem(marks[n], item)
    BY <1>2, AtItem
  <1>4. n \in Nat /\ n \in 1..(Len(marks) + 1)
    <2>1. IsSeq(marks) /\ Len(marks) \in Nat
      BY <1>2, SeqFacts DEF PackedIn, History
    <2> QED BY <1>3, <2>1
  <1>5. Stacked(work) /\ OutIs(out, Pending(work), K[n])
    BY <1>2 DEF DecoderAt
  <1>6. item.at \notin Pending(work) /\ Pending(Tail(work)) = Pending(work)
    BY <1>5, StackedTail DEF item
  <1>7. ASSUME item.op = "value", item.u.card = "repeated" PROVE OpenList(out, item.at)
    <2>1. Opened(Head(W[n]), K[n])
      BY <1>3 DEF Encoded
    <2>2. item.at \in DOMAIN K[n]
      BY <1>3, <1>7, <2>1 DEF Opened, SameItem
    <2>3. item.at \in DOMAIN out /\ K[n][item.at] = out[item.at]
      BY <1>5, <1>6, <2>2 DEF OutIs
    <2>4. Placed(root, marks)
      BY DEF KeptInv, KeptOK
    <2>5. Walk(root, item.at, FieldNode(item.u))
      <3>1. Walk(root, marks[n].at, Node(marks[n]))
        BY <1>3, <2>4 DEF Placed
      <3>2. marks[n].at = item.at /\ Node(marks[n]) = FieldNode(item.u)
        BY <1>3, <1>7 DEF SameItem, Node
      <3> QED BY <3>1, <3>2
    <2>6. PartOf(root, K[n], kept)
      BY <1>1, <1>4 DEF PartsKept
    <2>7. Within(item.u, K[n][item.at], kept[item.at])
      BY <2>2, <2>5, <2>6 DEF PartOf
    <2>8. IsSeq(out[item.at])
      BY <1>7, <2>3, <2>7 DEF Within
    <2> QED BY <1>7, <2>3, <2>5, <2>8 DEF OpenList
  <1> QED BY <1>3, <1>4, <1>6, <1>7 DEF ItemHad

LEMMA OpenAfter ==
  ASSUME Unpack, NEW K, ItemHad(K), OpenLists(out, Pending(work)),
         NEW pending, Begins(pending)
  PROVE  OpenLists(out', pending \cup Pending(Tail(work)))
  <1>1. Touches(out', out, item)
    BY UnpackTouches
  <1>2. item.at \notin Pending(work) /\ Pending(Tail(work)) = Pending(work)
    BY DEF ItemHad
  <1>3. OpenLists(out', Pending(Tail(work)))
    BY <1>1, <1>2, OpenStays
  <1>4. ASSUME item.op = "value", item.u.card = "repeated" PROVE OpenList(out', item.at)
    <2>1. OpenList(out, item.at)
      BY <1>4 DEF ItemHad
    <2>2. item.at \in DOMAIN out' /\ IsSeq(out'[item.at])
      BY <1>1, <1>4, <2>1 DEF Touches, OpenList
    <2> QED BY <2>1, <2>2 DEF OpenList
  <1>5. \A p \in pending : OpenList(out', p)
    BY <1>4 DEF Begins
  <1> QED BY <1>3, <1>5 DEF OpenLists

LEMMA CleanAfter ==
  ASSUME NEW K, ItemHad(K), Clean(marks, step + 1), ~EntryIsMessage(item)
  PROVE  Clean(marks, (step + 1) + 1)
  <1> PICK n : n = step + 1
    OBVIOUS
  <1>1. n \in Nat /\ SameItem(marks[n], item)
    BY DEF ItemHad
  <1>2. ~EntryIsMessage(marks[n])
    BY <1>1 DEF EntryIsMessage, SameItem
  <1>3. \A j \in 1..((n + 1) - 1) : j = n \/ j \in 1..(n - 1)
    BY <1>1
  <1> QED BY <1>2, <1>3 DEF Clean

LEMMA UnpackParts ==
  ASSUME KeysFit, KeptInv, PartsIn(out), NEW W, NEW K, Having(W, K), Unpack
  PROVE  PartInv'
  <1>1. phase = "unpacking" /\ work # <<>>
    BY UnpackPhase
  <1>2. /\ Reading(W, K) /\ PartsKept(K) /\ Clean(marks, step + 1)
        /\ OpenLists(out, Pending(work))
    BY DEF Having
  <1>3. KeptOK(strategy, root, <<>>, marks, raw, kept)
    BY <1>1 DEF KeptInv
  <1>4. ASSUME Kept, Reading(W, K)', phase' = "unpacking", Clean(marks, step' + 1),
               step' + 1 \in 1..(Len(marks) + 1), OpenLists(out', Pending(work'))
        PROVE  PartInv'
    <2>1. UNCHANGED <<root, kept, marks>>
      BY <1>4 DEF Kept
    <2>2. OutIs(out', Pending(work'), K[step' + 1])
      BY <1>4 DEF Reading, DecoderAt
    <2>3. PartOf(root, K[step' + 1], kept)
      BY <1>2, <1>4 DEF PartsKept
    <2>4. PartsIn(out')
      BY <1>3, <1>4, <2>2, <2>3, OutParts
    <2>5. PartsIn(out)'
      BY <2>1, <2>4, PartsStay
    <2>6. Having(W, K)'
      <3>1. PartsKept(K)' /\ Clean(marks, step + 1)'
        BY <1>2, <1>4, <2>1 DEF PartsKept, Clean
      <3>2. OpenLists(out, Pending(work))'
        BY <1>4, <2>1 DEF OpenLists, OpenList
      <3> QED BY <1>4, <3>1, <3>2 DEF Having
    <2> QED BY <1>4, <2>5, <2>6 DEF PartInv
  <1>5. ASSUME Kept, phase' \in {"ValidationError", "UnpackError"}, PartsIn(out') PROVE PartInv'
    <2>1. PartsIn(out)'
      BY <1>5, PartsStay DEF Kept
    <2> QED BY <1>5, <2>1 DEF PartInv
  <1>6. CASE IsEnd(item)
    <2>1. UnpackElementEnd
      BY <1>6 DEF Unpack, UnpackScalar, UnpackTimestamp, UnpackMessage, UnpackList,
           UnpackMap, UnpackOneof, UnpackValue, UnpackEntry, UnpackNested, UnpackingField,
           Unpacking, IsEnd
    <2>2. /\ Reading(W, K)' /\ phase' = "unpacking" /\ Kept /\ step' = step
          /\ Pending(work) = Pending(work') \cup {item.at} /\ item.at \notin Pending(work')
      BY <1>2, <2>1, ElementEndAt
    <2>3. OpenLists(out, Pending(work'))
      BY <1>2, <2>2 DEF OpenLists
    <2>4. OpenLists(out', Pending(work'))
      BY <2>2, <2>3, UnpackTouches, OpenStays
    <2>5. step + 1 \in 1..(Len(marks) + 1)
      <3>1. step \in 0..Len(marks) /\ IsSeq(marks) /\ Len(marks) \in Nat
        BY <1>2, SeqFacts DEF Reading, DecoderAt, PackedIn, History
      <3> QED BY <3>1
    <2> QED BY <1>2, <1>4, <2>2, <2>4, <2>5
  <1>7. CASE ~IsEnd(item)
    <2>1. Kept /\ (Refuses \/ Moves(W, K))
      BY <1>2, <1>7, ItemAt
    <2>2. ItemHad(K)
      BY <1>1, <1>7, HavingItem
    <2>3. (step + 1) + 1 \in 1..(Len(marks) + 1) /\ (step + 1) + 1 = step + 2
      BY <2>2 DEF ItemHad
    <2>4. phase' # "UnpackError" => Clean(marks, (step + 1) + 1)
      BY <1>2, <2>2, MessageEntryRefused, CleanAfter
    <2>5. CASE Moves(W, K)
      <3>1. phase' = "unpacking" /\ step' = step + 1 /\ Reading(W, K)'
        BY <2>5 DEF Moves
      <3> PICK pending : Begins(pending) /\ Pending(work') = pending \cup Pending(Tail(work))
        BY <2>5 DEF Moves
      <3>2. OpenLists(out', Pending(work'))
        BY <1>2, <2>2, OpenAfter
      <3>3. Clean(marks, step' + 1) /\ step' + 1 \in 1..(Len(marks) + 1)
        BY <2>3, <2>4, <3>1
      <3> QED BY <1>4, <2>1, <3>1, <3>2, <3>3
    <2>6. CASE Refuses
      BY <1>5, <2>1, <2>6 DEF Refuses
    <2> QED BY <2>1, <2>5, <2>6
  <1> QED BY <1>6, <1>7

LEMMA PartInvStep ==
  ASSUME KeysFit, EncoderInv, KeptInv, PartInv, [Next]_vars PROVE PartInv'
  <1>1. CASE StartPack
    <2>1. phase = "start" /\ out' = out
      BY <1>1 DEF StartPack, Fail, FailWith, packVars, unpackVars
    <2>2. out' = Nothing
      BY <2>1 DEF EncoderInv, Untouched
    <2>3. PartsIn(out)'
      <3>1. DOMAIN out' = {}
        BY <2>2 DEF Nothing
      <3> QED BY <3>1 DEF PartsIn
    <2>4. phase' # "unpacking"
      BY <1>1, PackPhases
    <2>5. phase' = "packing" => \E W, K : Writing(W, K)'
      BY <1>1, StartWriting
    <2> QED BY <2>3, <2>4, <2>5 DEF PartInv
  <1>2. CASE Pack
    <2>1. phase = "packing"
      BY <1>2, PackPhase
    <2>2. out = Nothing
      BY <2>1 DEF EncoderInv, Untouched
    <2>3. out' = out
      BY <1>2 DEF Pack, PackScalar, PackTimestamp, PackMessage, PackList, PackMap, PackOneof,
         PackValue, PackEntry, PackNested, PackingField, Packing, Emit, Fail, FailWith, unpackVars
    <2>4. PartsIn(out)'
      <3>1. DOMAIN out' = {}
        BY <2>2, <2>3 DEF Nothing
      <3> QED BY <3>1 DEF PartsIn
    <2>5. phase' # "unpacking"
      BY <1>2, PackPhases
    <2>6. ASSUME phase' = "packing" PROVE \E W, K : Writing(W, K)'
      <3> PICK W, K : Writing(W, K)
        BY <2>1 DEF PartInv
      <3> QED BY <1>2, <2>6, PackWriting
    <2> QED BY <2>4, <2>5, <2>6 DEF PartInv
  <1>3. CASE Deliver
    <2>1. /\ phase = "packing" /\ phase' = "unpacking"
          /\ UNCHANGED <<kept, marks, out>>
      BY <1>3 DEF Deliver, DeliverTo, packVars
    <2>2. PartsIn(out)'
      BY <2>1, PartsStay DEF PartInv
    <2> PICK W, K : Writing(W, K)
      BY <2>1 DEF PartInv
    <2>3. Having(W, K)'
      BY <1>3, DeliverHaving
    <2> QED BY <2>1, <2>2, <2>3 DEF PartInv
  <1>4. CASE Unpack
    <2>1. phase = "unpacking"
      BY <1>4, UnpackPhase
    <2> PICK W, K : Having(W, K)
      BY <2>1 DEF PartInv
    <2> QED BY <1>4, UnpackParts DEF PartInv
  <1>5. CASE FinishUnpack
    <2>1. phase' = "unpacked" /\ UNCHANGED <<kept, marks, out>>
      BY <1>5 DEF FinishUnpack, packVars, unpackVars
    <2>2. PartsIn(out)'
      BY <2>1, PartsStay DEF PartInv
    <2> QED BY <2>1, <2>2 DEF PartInv
  <1>6. CASE UNCHANGED vars
    <2>1. PartsIn(out)'
      BY <1>6, PartsStay DEF PartInv, vars
    <2>2. \A W, K : (Writing(W, K) => Writing(W, K)') /\ (Having(W, K) => Having(W, K)')
      BY <1>6 DEF vars, Writing, Having, Traced, PackedIn, PartsKept, PartsAhead, Reading, Delivered,
                  DecoderAt, OpenLists, OpenList
    <2> QED BY <1>6, <2>1, <2>2 DEF PartInv, vars
  <1> QED BY <1>1, <1>2, <1>3, <1>4, <1>5, <1>6 DEF Next

(* What the decoder has at any time is part of what the encoder had kept   *)
(* when it came to the same item, and that is part of what it kept in all. *)
THEOREM PartInvariance == ASSUME KeysFit PROVE Spec => []PartInv
  <1>1. Init => PartInv
    <2> SUFFICES ASSUME Init PROVE PartInv
      OBVIOUS
    <2>1. phase = "start" /\ out = Nothing
      BY InitInv DEF EncoderInv, Untouched, Init
    <2> QED BY <2>1, PartsOfNothing DEF PartInv
  <1>2. EncoderInv /\ KeptInv /\ PartInv /\ [Next]_vars => PartInv'
    BY PartInvStep
  <1> QED BY <1>1, <1>2, EncoderInvariance, KeptInvariance, PTL DEF Spec

(* At any time, also after an error, the message Unpack has built is a     *)
(* part of the one Pack wrote: no value is there that Pack did not write,  *)
(* whatever the schema, the strategies, the values and the lost bytes.     *)
THEOREM PartialIsPartAlways == ASSUME KeysFit PROVE Spec => []PartialIsPart
  <1>1. PartInv => PartialIsPart
    BY DEF PartInv, PartsIn, PartialIsPart
  <1> QED BY <1>1, PartInvariance, PTL
=============================================================================
