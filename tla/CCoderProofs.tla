---------------------------- MODULE CCoderProofs ----------------------------
(***************************************************************************)
(* Proofs about CCoder, for all descriptors, values, widths and old        *)
(* contents of the struct.                                                 *)
(*                                                                         *)
(* The C decoder leaves a history (Past): what work it had at each of its  *)
(* items and where it stood.  Of each of them the struct says now what the *)
(* encoder would make of it (EncB, the bits, and EncM, the items): the     *)
(* very bits the decoder took, and the very items it went on with.  An     *)
(* item that is decoded later does not disturb that, as places that wait   *)
(* are never at or around one that is done (Clear).  The encoder walks     *)
(* along that history.                                                     *)
(*                                                                         *)
(* What the encoder of Go wrote, the decoder of C reads with the same      *)
(* work at the same bits (CReading), unless it meets a map.  That they     *)
(* stay in step is the second invariant, and refusals follow from it.      *)
(***************************************************************************)
EXTENDS CCoder, CodecProofs

-----------------------------------------------------------------------------
(* Bits. *)

BitSeq(s) == IsSeq(s) /\ \A i \in 1..Len(s) : s[i] \in {0, 1}

(* From bit to bit of d, b is there. *)
Spans(d, b, from, to) ==
  /\ IsSeq(b) /\ to = from + Len(b) /\ to <= Len(d)
  /\ \A i \in 1..Len(b) : b[i] = d[from + i]

LEMMA SliceNothing ==
  ASSUME NEW d, IsSeq(d), NEW from \in Nat, from <= Len(d) PROVE Spans(d, <<>>, from, from)
  <1>1. IsSeq(<<>>) /\ Len(<<>>) = 0 /\ 1..0 = {}
    BY EmptyIsSeq
  <1> QED BY <1>1 DEF Spans

LEMMA SliceConcat ==
  ASSUME NEW d, IsSeq(d), NEW s, NEW t, NEW from \in Nat, NEW mid \in Nat, NEW to,
         Spans(d, s, from, mid), Spans(d, t, mid, to)
  PROVE  Spans(d, s \o t, from, to)
  <1>1. /\ IsSeq(s) /\ IsSeq(t) /\ mid = from + Len(s) /\ to = mid + Len(t) /\ to <= Len(d)
        /\ \A i \in 1..Len(s) : s[i] = d[from + i]
        /\ \A i \in 1..Len(t) : t[i] = d[mid + i]
    BY DEF Spans
  <1>2. Len(s) \in Nat /\ Len(t) \in Nat
    BY <1>1, SeqFacts
  <1> PICK b : b = s \o t
    OBVIOUS
  <1>3. /\ IsSeq(b) /\ Len(b) = Len(s) + Len(t)
        /\ \A i \in 1..Len(s) : b[i] = s[i]
        /\ \A i \in 1..Len(t) : b[Len(s) + i] = t[i]
    BY <1>1, ConcatFacts
  <1>4. ASSUME NEW i \in 1..Len(b) PROVE b[i] = d[from + i]
    <2>1. CASE i \in 1..Len(s)
      BY <1>1, <1>3, <2>1
    <2>2. CASE ~(i \in 1..Len(s))
      <3> PICK j : j = i - Len(s)
        OBVIOUS
      <3>1. j \in 1..Len(t) /\ i = Len(s) + j /\ from + i = mid + j
        BY <1>1, <1>2, <1>3, <2>2
      <3> QED BY <1>1, <1>3, <3>1
    <2> QED BY <2>1, <2>2
  <1>5. to = from + Len(b)
    BY <1>1, <1>2, <1>3
  <1>6. Spans(d, b, from, to)
    BY <1>1, <1>3, <1>4, <1>5 DEF Spans
  <1> QED BY <1>6

(* Bits are the bits of a number. *)
HasBits(d, from, n, x) == /\ x \in 0..(2 ^ n - 1)
                          /\ \A i \in 1..n : d[from + i] = (x \div 2 ^ (n - i)) % 2

LEMMA NumberOfBits ==
  ASSUME NEW d, BitSeq(d), NEW from \in Nat, NEW n \in Nat, from + n <= Len(d)
  PROVE  \E x : HasBits(d, from, n, x)
  <1> DEFINE Is(x, m) == \A i \in 1..m : d[from + i] = LowBit(x, m - i)
             S == {m \in Nat : m <= n => \E x \in 0..(2 ^ m - 1) : Is(x, m)}
  <1>1. 0 \in S
    <2>1. 2 ^ 0 = 1 /\ 0 \in 0..(1 - 1) /\ 1..0 = {}
      OBVIOUS
    <2>2. Is(0, 0)
      BY <2>1
    <2> HIDE DEF Is
    <2> QED BY <2>1, <2>2
  <1>2. ASSUME NEW m \in Nat, m \in S PROVE m + 1 \in S
    <2> SUFFICES ASSUME m + 1 <= n PROVE \E x \in 0..(2 ^ (m + 1) - 1) : Is(x, m + 1)
      OBVIOUS
    <2>1. PICK v \in 0..(2 ^ m - 1) : Is(v, m)
      <3>1. m <= n
        OBVIOUS
      <3> HIDE DEF Is
      <3> QED BY <1>2, <3>1
    <2>2. 2 ^ (m + 1) = 2 * 2 ^ m /\ 2 ^ m \in Nat \ {0}
      BY PowerStep, PowerPositive
    <2> PICK b \in {0, 1} : b = d[from + (m + 1)]
      <3>1. Len(d) \in Nat
        BY SeqFacts DEF BitSeq
      <3>2. from + (m + 1) \in 1..Len(d)
        BY <3>1
      <3> QED BY <3>2 DEF BitSeq
    <2> PICK x : x = 2 * v + b
      OBVIOUS
    <2>3. x \in 0..(2 ^ (m + 1) - 1) /\ v \in Nat
      BY <2>2
    <2>4. LowBit(x, 0) = b /\ \A i \in Nat : LowBit(x, i + 1) = LowBit(v, i)
      BY <2>3, LowBitShifted
    <2>5. ASSUME NEW i \in 1..(m + 1) PROVE d[from + i] = LowBit(x, m + 1 - i)
      <3>1. CASE i = m + 1
        <4>1. m + 1 - i = 0
          BY <3>1
        <4> QED BY <2>4, <3>1, <4>1
      <3>2. CASE i # m + 1
        <4>1. i \in 1..m /\ m - i \in Nat /\ m + 1 - i = (m - i) + 1
          BY <3>2
        <4> QED BY <2>1, <2>4, <4>1
      <3> QED BY <3>1, <3>2
    <2> QED BY <2>3, <2>5
  <1>3. Nat \subseteq S
    <2> HIDE DEF S
    <2> QED BY <1>1, <1>2, Induction
  <1>4. PICK x \in 0..(2 ^ n - 1) : Is(x, n)
    <2> HIDE DEF Is
    <2> QED BY <1>3
  <1>5. \A i \in 1..n : d[from + i] = (x \div 2 ^ (n - i)) % 2
    BY <1>4 DEF LowBit
  <1>6. HasBits(d, from, n, x)
    BY <1>5 DEF HasBits
  <1> QED BY <1>6

(* What a number that was read is written as again. *)
LEMMA SliceNumber ==
  ASSUME BitSeq(data), NEW from \in Nat, NEW n \in Nat, from + n <= Len(data)
  PROVE  /\ Bits(from, n) \in 0..(2 ^ n - 1) /\ Bits(from, n) \in Nat
         /\ Spans(data, LowBits(Bits(from, n), n), from, from + n)
  <1>0. PICK x : HasBits(data, from, n, x)
    BY NumberOfBits, Zenon
  <1>1. x \in 0..(2 ^ n - 1) /\ x \in Nat
        /\ \A i \in 1..n : data[from + i] = (x \div 2 ^ (n - i)) % 2
    BY <1>0, PowerPositive DEF HasBits
  <1>2. /\ IsSeq(LowBits(x, n)) /\ Len(LowBits(x, n)) = n
        /\ \A i \in 1..n : LowBits(x, n)[i] = (x \div 2 ^ (n - i)) % 2
    BY <1>1, LowBitsFacts
  <1>3. Holds(from, LowBits(x, n))
    BY <1>1, <1>2 DEF Holds
  <1>4. Bits(from, n) = x
    BY <1>1, <1>3, ReadNumber DEF BitSeq
  <1>5. Spans(data, LowBits(x, n), from, from + n)
    BY <1>1, <1>2 DEF Spans
  <1> QED BY <1>1, <1>4, <1>5

LEMMA SliceBit ==
  ASSUME BitSeq(data), NEW from \in Nat, from + 1 <= Len(data)
  PROVE  /\ Bits(from, 1) \in {0, 1}
         /\ Spans(data, <<Bits(from, 1)>>, from, from + 1)
  <1> PICK x : x = Bits(from, 1)
    OBVIOUS
  <1>1. x \in 0..(2 ^ 1 - 1) /\ Spans(data, LowBits(x, 1), from, from + 1)
    BY SliceNumber
  <1>2. x \in {0, 1}
    <2>1. 2 ^ 1 = 2
      OBVIOUS
    <2> QED BY <1>1, <2>1
  <1>3. LowBits(x, 1) = <<x>>
    <2>1. x \in Nat /\ 1 \in Nat
      BY <1>2
    <2>2. /\ IsSeq(LowBits(x, 1)) /\ Len(LowBits(x, 1)) = 1
          /\ \A i \in 1..1 : LowBits(x, 1)[i] = (x \div 2 ^ (1 - i)) % 2
      BY <2>1, LowBitsFacts
    <2>3. IsSeq(<<x>>) /\ Len(<<x>>) = 1 /\ <<x>>[1] = x
      BY SingleIsSeq
    <2>4. 1 - 1 = 0 /\ 2 ^ 0 = 1 /\ (x \div 1) % 2 = x
      BY <1>2
    <2>5. \A i \in 1..1 : LowBits(x, 1)[i] = <<x>>[i]
      BY <2>2, <2>3, <2>4
    <2> QED BY <2>2, <2>3, <2>5, SeqsEqual
  <1> QED BY <1>1, <1>2, <1>3

(* A bit is one of a byte. *)
IsBitOf(p, m, n, q, r) == /\ q \in 0..(n - 1) /\ r \in 0..(m - 1)
                          /\ q = (p - 1) \div m /\ r = (p - 1) % m
                          /\ q * m \in Nat /\ p = q * m + r + 1 /\ q * m + m <= n * m

LEMMA ByteOfBit ==
  ASSUME NEW m \in Nat \ {0}, NEW n \in Nat, NEW p \in 1..(n * m)
  PROVE  \E q, r : IsBitOf(p, m, n, q, r)
  <1>0. PICK c \in Nat : c = n * m
    OBVIOUS
  <1>1. PICK v \in Nat : v = p - 1 /\ v < c
    BY <1>0
  <1>2. PICK q \in Nat, r \in 0..(m - 1) : q = v \div m /\ r = v % m /\ v = m * q + r
    <2>1. v \div m \in Nat /\ v % m \in 0..(m - 1) /\ v = m * (v \div m) + (v % m)
      BY DivMod, Zenon
    <2> QED BY <2>1
  <1>3. PICK a \in Nat : a = q * m /\ a = m * q
    OBVIOUS
  <1>4. v = a + r
    BY <1>2, <1>3
  <1>5. q < n
    <2> SUFFICES ASSUME q >= n PROVE FALSE
      OBVIOUS
    <2>1. PICK e \in Nat : q = n + e
      <3>1. q - n \in Nat /\ q = n + (q - n)
        OBVIOUS
      <3> QED BY <3>1
    <2>2. PICK g \in Nat : g = e * m
      OBVIOUS
    <2>3. (n + e) * m = n * m + e * m
      OBVIOUS
    <2>4. a = c + g
      BY <1>0, <1>3, <2>1, <2>2, <2>3
    <2> QED BY <1>1, <1>4, <2>4
  <1>6. a + m <= c
    <2>1. PICK e \in Nat : n = q + 1 + e
      <3>1. n - q - 1 \in Nat /\ n = q + 1 + (n - q - 1)
        BY <1>5
      <3> QED BY <3>1
    <2>2. PICK g \in Nat : g = e * m
      OBVIOUS
    <2>3. (q + 1 + e) * m = q * m + m + e * m
      OBVIOUS
    <2>4. c = a + m + g
      BY <1>0, <1>3, <2>1, <2>2, <2>3
    <2> QED BY <2>4
  <1>7. q \in 0..(n - 1)
    BY <1>5
  <1>8. IsBitOf(p, m, n, q, r)
    BY <1>0, <1>1, <1>2, <1>3, <1>4, <1>6, <1>7 DEF IsBitOf
  <1> QED BY <1>8

(* The bytes from a position are written as they were. *)
LEMMA SliceBytes ==
  ASSUME BitSeq(data), NEW from \in Nat, NEW n \in Nat, from + n * ByteSize <= Len(data),
         NEW s, s = [j \in 1..n |-> Bits(from + (j - 1) * ByteSize, ByteSize)]
  PROVE  IsSeq(s) /\ Len(s) = n /\ Spans(data, RawBytes(s), from, from + n * ByteSize)
  <1>0. PICK m \in Nat \ {0}, c \in Nat : m = ByteSize /\ c = n * m
    BY ByteSizeType
  <1>1. IsSeq(s) /\ Len(s) = n /\ DOMAIN s = 1..n
    <2>1. s = [j \in 1..n |-> s[j]]
      OBVIOUS
    <2> QED BY <2>1, FunctionIsSeq
  <1>2. IsSeq(RawBytes(s)) /\ Len(RawBytes(s)) = c
    BY <1>0, <1>1, RawBytesFacts
  <1>3. ASSUME NEW p \in 1..c PROVE RawBytes(s)[p] = data[from + p]
    <2>0. PICK q, r : IsBitOf(p, m, n, q, r)
      BY <1>0, ByteOfBit
    <2>1. PICK a \in Nat : a = q * m /\ p = a + r + 1 /\ a + m <= c
      BY <1>0, <2>0 DEF IsBitOf
    <2>2. q + 1 \in 1..n /\ r + 1 \in 1..m /\ (q + 1) - 1 = q /\ r \in Nat
      BY <2>0 DEF IsBitOf
    <2>3. s[q + 1] = Bits(from + a, m)
      BY <1>0, <2>1, <2>2
    <2>4. RawBytes(s)[p] = LowBits(s[q + 1], m)[r + 1]
      <3>1. p \in 1..(Len(s) * m) /\ q = (p - 1) \div m /\ r = (p - 1) % m
        BY <1>0, <1>1, <2>0 DEF IsBitOf
      <3> QED BY <1>0, <3>1 DEF RawBytes
    <2>5. PICK b : b = LowBits(Bits(from + a, m), m)
      OBVIOUS
    <2>6. Spans(data, b, from + a, from + a + m)
      <3>1. from + c <= Len(data) /\ Len(data) \in Nat
        BY <1>0, SeqFacts DEF BitSeq
      <3>2. from + a \in Nat /\ (from + a) + m <= Len(data) /\ m \in Nat
        BY <1>0, <2>1, <3>1
      <3> QED BY <2>5, <3>2, SliceNumber
    <2>7. Len(b) = m
      BY <1>0, <2>5 DEF LowBits
    <2>8. b[r + 1] = data[(from + a) + (r + 1)]
      BY <2>2, <2>6, <2>7 DEF Spans
    <2>9. (from + a) + (r + 1) = from + p
      BY <2>1, <2>2
    <2> QED BY <2>3, <2>4, <2>5, <2>8, <2>9
  <1>4. Spans(data, RawBytes(s), from, from + c)
    BY <1>0, <1>2, <1>3 DEF Spans
  <1> QED BY <1>0, <1>1, <1>4

-----------------------------------------------------------------------------
(* Places of a struct. *)

(* Places of values; the flag and the length of one are at 0 and -1 below. *)
Positive(at) == IsSeq(at) /\ \A i \in 1..Len(at) : at[i] \in Nat \ {0}

LEMMA AppendSame ==
  ASSUME NEW a, NEW b, IsSeq(a), IsSeq(b), NEW x, NEW y, Append(a, x) = Append(b, y)
  PROVE  a = b /\ x = y
  <1>1. PICK p : p = Append(a, x) /\ p = Append(b, y)
    OBVIOUS
  <1>2. Len(p) = Len(a) + 1 /\ p[Len(a) + 1] = x /\ \A i \in 1..Len(a) : p[i] = a[i]
    BY <1>1, AppendFacts
  <1>3. Len(p) = Len(b) + 1 /\ p[Len(b) + 1] = y /\ \A i \in 1..Len(b) : p[i] = b[i]
    BY <1>1, AppendFacts
  <1>4. Len(a) = Len(b)
    BY <1>2, <1>3, SeqFacts
  <1>5. a = b
    BY <1>2, <1>3, <1>4, SeqsEqual
  <1> QED BY <1>2, <1>3, <1>4, <1>5

LEMMA PositivePlace ==
  ASSUME NEW a, NEW b, Positive(a), Positive(b), NEW x \in {0, -1}
  PROVE  a # Append(b, x)
  <1> SUFFICES ASSUME a = Append(b, x) PROVE FALSE
    OBVIOUS
  <1>1. Len(a) = Len(b) + 1 /\ a[Len(b) + 1] = x /\ Len(b) \in Nat
    BY AppendFacts, SeqFacts DEF Positive
  <1>2. a[Len(a)] \in Nat \ {0}
    BY <1>1 DEF Positive
  <1> QED BY <1>1, <1>2

LEMMA PositiveBelow ==
  ASSUME NEW a, Positive(a), NEW k \in Nat \ {0}
  PROVE  /\ Positive(Append(a, k)) /\ Under(Append(a, k), a)
         /\ Len(Append(a, k)) = Len(a) + 1 /\ Len(a) \in Nat
  <1>1. Len(a) \in Nat /\ IsSeq(a) /\ \A i \in 1..Len(a) : a[i] \in Nat \ {0}
    BY SeqFacts DEF Positive
  <1> PICK b : b = Append(a, k)
    OBVIOUS
  <1>2. /\ IsSeq(b) /\ Len(b) = Len(a) + 1 /\ b[Len(a) + 1] = k
        /\ \A i \in 1..Len(a) : b[i] = a[i]
    BY <1>1, AppendFacts
  <1>3. \A i \in 1..Len(b) : i \in 1..Len(a) \/ i = Len(a) + 1
    BY <1>1, <1>2
  <1>4. Positive(b)
    BY <1>1, <1>2, <1>3 DEF Positive
  <1>5. Under(b, a)
    BY <1>1, <1>2 DEF Under
  <1> QED BY <1>1, <1>2, <1>4, <1>5

LEMMA ChildrenApart ==
  ASSUME NEW a, IsSeq(a), NEW x, NEW y, x # y PROVE ~Under(Append(a, x), Append(a, y))
  <1>1. /\ Len(Append(a, x)) = Len(a) + 1 /\ Append(a, x)[Len(a) + 1] = x
        /\ Len(Append(a, y)) = Len(a) + 1 /\ Append(a, y)[Len(a) + 1] = y /\ Len(a) \in Nat
    BY AppendFacts, SeqFacts
  <1>2. Len(a) + 1 \in 1..Len(Append(a, y))
    BY <1>1
  <1> QED BY <1>1, <1>2 DEF Under

-----------------------------------------------------------------------------
(* What the encoder makes of a struct. *)

StoredIn(c, at, zero) == IF at \in DOMAIN c THEN c[at] ELSE zero
FlagIn(c, at) == StoredIn(c, Flag(at), [kind |-> "has", n |-> 0]).n
BytesIn(c, at) == [j \in 1..StoredIn(c, Length(at), 0) |-> StoredIn(c, at, <<>>)[j]]

EncB(c, it) ==
  CASE Form(it) = "scalar" -> IF IsOptional(it.u.fd) THEN <<FlagIn(c, it.at)>> ELSE <<>>
    [] Form(it) = "timestamp" ->
         <<FlagIn(c, it.at)>> \o
         IF FlagIn(c, it.at) = 0 THEN <<>>
         ELSE LowBits(StoredIn(c, it.at, 0), TsBits(it.u.fd))
    [] Form(it) = "message" -> <<FlagIn(c, it.at)>>
    [] Form(it) = "list" -> LowBits(FlagIn(c, it.at), it.u.fd.countBits)
    [] Form(it) = "oneof" -> LowBits(FlagIn(c, it.at), it.u.selectorBits)
    [] Form(it) = "value" -> ScalarBits(it.u, IF it.u.kind = "bytes" THEN BytesIn(c, it.at)
                                              ELSE StoredIn(c, it.at, 0))
    [] OTHER -> <<>>

EncM(c, it) ==
  CASE Form(it) = "scalar" -> IF IsOptional(it.u.fd) /\ FlagIn(c, it.at) = 0 THEN <<>>
                              ELSE <<Value(it.u.fd, it.at, Nothing)>>
    [] Form(it) = "message" -> IF FlagIn(c, it.at) = 0 THEN <<>>
                               ELSE UnitItems(it.u.fd.type, it.at)
    [] Form(it) = "list" ->
         [j \in 1..FlagIn(c, it.at) |-> Value(it.u.fd, Append(it.at, j), Nothing)]
    [] Form(it) = "oneof" ->
         IF FlagIn(c, it.at) \in 1..Len(it.u.fields)
         THEN <<Value(it.u.fields[FlagIn(c, it.at)], Append(it.at, FlagIn(c, it.at)), Nothing)>>
         ELSE <<>>
    [] Form(it) = "nested" -> UnitItems(it.u.type, it.at)
    [] OTHER -> <<>>

(* The places an item is encoded from, and those its decoding changes. *)
ReadFrom(it) == CASE Form(it) = "value" -> {it.at, Length(it.at)}
                  [] Form(it) = "timestamp" -> {it.at, Flag(it.at)}
                  [] OTHER -> {Flag(it.at)}
PutAt(it) == IF it.op = "value" THEN {it.at, Length(it.at)} ELSE {it.at, Flag(it.at)}

Alike(c, c2, p) == (p \in DOMAIN c <=> p \in DOMAIN c2) /\ (p \in DOMAIN c => c2[p] = c[p])
Only(c, c2, S) == \A p : p \notin S => Alike(c, c2, p)

LEMMA EncAlike ==
  ASSUME NEW c, NEW c2, NEW S, Only(c, c2, S), NEW it, S \cap ReadFrom(it) = {}
  PROVE  EncB(c2, it) = EncB(c, it) /\ EncM(c2, it) = EncM(c, it)
  <1>1. ASSUME NEW p, p \in ReadFrom(it), NEW zero
        PROVE  StoredIn(c2, p, zero) = StoredIn(c, p, zero)
    <2>1. Alike(c, c2, p)
      BY <1>1 DEF Only
    <2> QED BY <2>1 DEF Alike, StoredIn
  <1>2. CASE Form(it) = "value"
    <2>1. \A zero : /\ StoredIn(c2, it.at, zero) = StoredIn(c, it.at, zero)
                    /\ StoredIn(c2, Length(it.at), zero) = StoredIn(c, Length(it.at), zero)
      BY <1>1, <1>2 DEF ReadFrom
    <2>2. BytesIn(c2, it.at) = BytesIn(c, it.at)
      BY <2>1 DEF BytesIn
    <2> QED BY <1>2, <2>1, <2>2 DEF EncB, EncM
  <1>3. CASE Form(it) # "value"
    <2>1. FlagIn(c2, it.at) = FlagIn(c, it.at)
      BY <1>1, <1>3 DEF ReadFrom, FlagIn
    <2>2. CASE Form(it) = "timestamp"
      <3>1. StoredIn(c2, it.at, 0) = StoredIn(c, it.at, 0)
        BY <1>1, <2>2 DEF ReadFrom
      <3> QED BY <2>1, <2>2, <3>1 DEF EncB, EncM
    <2>3. CASE Form(it) # "timestamp"
      BY <1>3, <2>1, <2>3 DEF EncB, EncM
    <2> QED BY <2>2, <2>3
  <1> QED BY <1>2, <1>3

(* An item d that is decoded after h does not touch what h is encoded from: *)
(* it is neither at h nor around it, unless it is the value of h itself.   *)
Clear(d, h) == \/ ~Under(h.at, d.at)
               \/ h.at = d.at /\ d.op = "value" /\ h.op = "unit" /\ Form(h) = "scalar"

LEMMA ClearPlaces ==
  ASSUME NEW d, NEW h, Positive(d.at), Positive(h.at), Clear(d, h)
  PROVE  PutAt(d) \cap ReadFrom(h) = {}
  <1>0. 0 \in {0, -1} /\ -1 \in {0, -1} /\ 0 # -1 /\ IsSeq(d.at) /\ IsSeq(h.at)
    BY DEF Positive
  <1>1. /\ h.at # Flag(d.at) /\ h.at # Length(d.at) /\ d.at # Flag(h.at) /\ d.at # Length(h.at)
    BY <1>0, PositivePlace DEF Flag, Length
  <1>2. Flag(h.at) # Length(d.at) /\ Length(h.at) # Flag(d.at)
    BY <1>0, AppendSame DEF Flag, Length
  <1>3. CASE ~Under(h.at, d.at)
    <2>1. h.at # d.at
      BY <1>0, <1>3, UnderItself
    <2>2. Flag(h.at) # Flag(d.at) /\ Length(h.at) # Length(d.at)
      BY <1>0, <2>1, AppendSame DEF Flag, Length
    <2> QED BY <1>1, <1>2, <2>1, <2>2 DEF PutAt, ReadFrom
  <1>4. CASE h.at = d.at /\ d.op = "value" /\ h.op = "unit" /\ Form(h) = "scalar"
    <2>1. ReadFrom(h) = {Flag(h.at)} /\ PutAt(d) = {d.at, Length(d.at)}
      BY <1>4 DEF PutAt, ReadFrom
    <2> QED BY <1>1, <1>2, <2>1
  <1> QED BY <1>3, <1>4 DEF Clear

-----------------------------------------------------------------------------
(* The items of the C coder, whether their annotations are valid or not. *)

CFieldOK(fd) == /\ IsField(fd) /\ FieldWidths(fd)
                /\ fd.kind = "message" => fd.type \in DOMAIN Descriptor

CUnitOK(u) == \/ u.unit = "field" /\ CFieldOK(u.fd)
              \/ /\ u.unit = "oneof" /\ u.selectorBits \in Nat /\ IsSeq(u.fields)
                 /\ \A j \in 1..Len(u.fields) :
                      CFieldOK(u.fields[j]) /\ u.fields[j].card = "singular"

CItemOK(it) == /\ Positive(it.at)
               /\ \/ it.op = "unit" /\ CUnitOK(it.u)
                  \/ it.op = "value" /\ CFieldOK(it.u) /\ it.u.card # "map"

LEMMA CDeclaredField ==
  ASSUME NEW t \in DOMAIN Descriptor, NEW i \in 1..Len(Descriptor[t].fields)
  PROVE  CFieldOK(Descriptor[t].fields[i])
  <1> DEFINE fd == Descriptor[t].fields[i]
  <1>1. IsField(fd) /\ (fd.kind = "message" => fd.type \in DOMAIN Descriptor)
    BY DescriptorAssumption
  <1>2. FieldWidths(fd)
    <2>1. {fd.bits, fd.lengthBits, fd.countBits, fd.keyBits, fd.keyLengthBits} \subseteq Nat
      BY <1>1 DEF IsField
    <2> HIDE DEF fd
    <2> QED BY <2>1 DEF FieldWidths
  <1> QED BY <1>1, <1>2 DEF CFieldOK

LEMMA CMembersOK ==
  ASSUME NEW t \in DOMAIN Descriptor, NEW od
  PROVE  /\ IsSeq(Members(Descriptor[t], od))
         /\ \A j \in 1..Len(Members(Descriptor[t], od)) :
              /\ CFieldOK(Members(Descriptor[t], od)[j])
              /\ Members(Descriptor[t], od)[j].card = "singular"
  <1> DEFINE md == Descriptor[t]
             n == Len(md.fields)
             S == {i \in 1..n : RealOneof(md.fields[i]) /\ md.fields[i].oneof = od}
             c == Cardinality(S)
  <1>1. n \in Nat
    BY DescriptorAssumption, LenProperties
  <1>2. S \in SUBSET (1..n)
    OBVIOUS
  <1>3. /\ c \in Nat /\ Len(InOrder(S)) = c
        /\ \A k \in 1..c : InOrder(S)[k] \in S
    <2> HIDE DEF S, n
    <2> QED BY <1>1, <1>2, InOrderType
  <1>4. Members(md, od) = [k \in 1..c |-> md.fields[InOrder(S)[k]]]
    BY <1>3 DEF Members
  <1>5. IsSeq(Members(md, od)) /\ Len(Members(md, od)) = c
    <2> HIDE DEF c, S, md, n
    <2> QED BY <1>3, <1>4, FunctionIsSeq
  <1>6. ASSUME NEW j \in 1..c
        PROVE  CFieldOK(Members(md, od)[j]) /\ Members(md, od)[j].card = "singular"
    <2> DEFINE i == InOrder(S)[j]
               fd == md.fields[i]
    <2>1. i \in 1..n /\ RealOneof(fd) /\ Members(md, od)[j] = fd
      BY <1>3, <1>4
    <2>2. CFieldOK(fd)
      BY <2>1, CDeclaredField
    <2>3. fd.card = "singular"
      BY <2>1, <2>2 DEF CFieldOK, IsField
    <2> QED BY <2>1, <2>2, <2>3
  <1> QED BY <1>5, <1>6

LEMMA CUnitAtOK ==
  ASSUME NEW t \in DOMAIN Descriptor, NEW i \in 1..Len(Descriptor[t].fields)
  PROVE  CUnitOK(UnitAt(Descriptor[t], i))
  <1> DEFINE md == Descriptor[t]
             fd == md.fields[i]
  <1>1. CASE ~RealOneof(fd)
    <2>1. UnitAt(md, i) = ScalarUnit(fd) /\ CFieldOK(fd)
      BY <1>1, CDeclaredField DEF UnitAt
    <2> QED BY <2>1 DEF CUnitOK, ScalarUnit
  <1>2. CASE RealOneof(fd)
    <2> DEFINE od == fd.oneof
               ms == Members(md, od)
               sb == SelectorBits(md, od)
    <2>1. UnitAt(md, i) = OneofUnit(md, od)
      BY <1>2 DEF UnitAt
    <2>2. IsSeq(ms) /\ \A j \in 1..Len(ms) : CFieldOK(ms[j]) /\ ms[j].card = "singular"
      BY CMembersOK
    <2>3. md.selectorBits[od] \in Nat
      BY <1>2, DescriptorAssumption
    <2>4. MinSelectorBits(Len(ms)) \in Nat
      <3> HIDE DEF ms
      <3> QED BY <2>2, SeqFacts, MinSelectorFits
    <2>5. sb \in Nat
      BY <2>3, <2>4 DEF SelectorBits
    <2>6. /\ OneofUnit(md, od).unit = "oneof" /\ OneofUnit(md, od).selectorBits = sb
          /\ OneofUnit(md, od).fields = ms
      BY DEF OneofUnit
    <2> HIDE DEF ms, sb
    <2> QED BY <2>1, <2>2, <2>5, <2>6 DEF CUnitOK
  <1> QED BY <1>1, <1>2

-----------------------------------------------------------------------------
(* What an item leaves: items strictly inside its place, or its own value; *)
(* none at or around another.                                              *)

CLeaves(it, more) ==
  /\ IsSeq(more)
  /\ \A i \in 1..Len(more) :
       /\ CItemOK(more[i]) /\ Under(more[i].at, it.at)
       /\ \/ Len(more[i].at) > Len(it.at)
          \/ more[i].at = it.at /\ more[i].op = "value" /\ it.op = "unit" /\ Form(it) = "scalar"
  /\ \A i, j \in 1..Len(more) : i # j => ~Under(more[i].at, more[j].at)

LEMMA CLeavesNothing == ASSUME NEW it PROVE CLeaves(it, <<>>)
  <1>1. IsSeq(<<>>) /\ 1..Len(<<>>) = {}
    BY EmptyIsSeq
  <1> QED BY <1>1 DEF CLeaves

LEMMA CLeavesOne ==
  ASSUME NEW it, Positive(it.at), NEW x, CItemOK(x),
         \/ \E k \in Nat \ {0} : x.at = Append(it.at, k)
         \/ x.at = it.at /\ x.op = "value" /\ it.op = "unit" /\ Form(it) = "scalar"
  PROVE  CLeaves(it, <<x>>)
  <1>1. PICK s : s = <<x>>
    OBVIOUS
  <1>2. IsSeq(s) /\ Len(s) = 1 /\ s[1] = x /\ 1..1 = {1}
    BY <1>1, SingleIsSeq
  <1>3. IsSeq(it.at) /\ Len(it.at) \in Nat /\ Under(it.at, it.at)
    BY SeqFacts, UnderItself DEF Positive
  <1>4. /\ Under(x.at, it.at)
        /\ \/ Len(x.at) > Len(it.at)
           \/ x.at = it.at /\ x.op = "value" /\ it.op = "unit" /\ Form(it) = "scalar"
    <2>1. ASSUME NEW k \in Nat \ {0}, x.at = Append(it.at, k)
          PROVE  Under(x.at, it.at) /\ Len(x.at) > Len(it.at)
      <3>1. Under(x.at, it.at) /\ Len(x.at) = Len(it.at) + 1
        BY <2>1, PositiveBelow
      <3> QED BY <1>3, <3>1
    <2> QED BY <1>3, <2>1
  <1>5. CLeaves(it, s)
    BY <1>2, <1>4 DEF CLeaves
  <1> QED BY <1>1, <1>5

LEMMA CLeavesChildren ==
  ASSUME NEW it, Positive(it.at), NEW s, IsSeq(s),
         \A i \in 1..Len(s) : CItemOK(s[i]) /\ s[i].at = Append(it.at, i)
  PROVE  CLeaves(it, s)
  <1>1. IsSeq(it.at) /\ Len(it.at) \in Nat
    BY SeqFacts DEF Positive
  <1>2. ASSUME NEW i \in 1..Len(s) PROVE Under(s[i].at, it.at) /\ Len(s[i].at) > Len(it.at)
    <2>1. i \in Nat \ {0} /\ s[i].at = Append(it.at, i)
      OBVIOUS
    <2>2. Under(s[i].at, it.at) /\ Len(s[i].at) = Len(it.at) + 1
      BY <2>1, PositiveBelow
    <2> QED BY <1>1, <2>2
  <1>3. ASSUME NEW i \in 1..Len(s), NEW j \in 1..Len(s), i # j PROVE ~Under(s[i].at, s[j].at)
    <2>1. s[i].at = Append(it.at, i) /\ s[j].at = Append(it.at, j)
      OBVIOUS
    <2> QED BY <1>1, <1>3, <2>1, ChildrenApart
  <1> QED BY <1>2, <1>3 DEF CLeaves

LEMMA CUnitsShape ==
  ASSUME NEW t \in DOMAIN Descriptor, NEW at, Positive(at)
  PROVE  /\ IsSeq(UnitItems(t, at))
         /\ \A i \in 1..Len(UnitItems(t, at)) :
              CItemOK(UnitItems(t, at)[i]) /\ UnitItems(t, at)[i].at = Append(at, i)
  <1>1. PICK s : s = UnitItems(t, at)
    OBVIOUS
  <1>2. /\ IsSeq(s)
        /\ \A k \in 1..Len(s) : s[k] = Unit(Plan(Descriptor[t])[k], Append(at, k))
    BY <1>1, UnitItemsAre, Zenon
  <1>3. \A k \in 1..Len(s) :
          \E i \in 1..Len(Descriptor[t].fields) : s[k].u = UnitAt(Descriptor[t], i)
    BY <1>1, UnitItemsShape DEF Positive
  <1>4. ASSUME NEW k \in 1..Len(s) PROVE CItemOK(s[k]) /\ s[k].at = Append(at, k)
    <2>1. s[k].op = "unit" /\ s[k].at = Append(at, k)
      <3>1. PICK u, a : u = Plan(Descriptor[t])[k] /\ a = Append(at, k)
        OBVIOUS
      <3>2. s[k] = [op |-> "unit", u |-> u, at |-> a, v |-> Nothing]
        BY <1>2, <3>1, Zenon DEF Unit
      <3> QED BY <3>1, <3>2
    <2>2. CUnitOK(s[k].u)
      BY <1>3, CUnitAtOK
    <2>3. Positive(Append(at, k))
      <3>1. k \in Nat \ {0}
        OBVIOUS
      <3> QED BY <3>1, PositiveBelow
    <2> QED BY <2>1, <2>2, <2>3 DEF CItemOK
  <1> QED BY <1>1, <1>2, <1>4

LEMMA CLeavesUnits ==
  ASSUME NEW it, Positive(it.at), NEW t \in DOMAIN Descriptor
  PROVE  CLeaves(it, UnitItems(t, it.at))
  BY CUnitsShape, CLeavesChildren

LEMMA CValueOK ==
  ASSUME NEW fd, CFieldOK(fd), fd.card # "map", NEW at, Positive(at)
  PROVE  /\ CItemOK(Value(fd, at, Nothing))
         /\ Value(fd, at, Nothing).op = "value" /\ Value(fd, at, Nothing).at = at
  <1>1. PICK x : x = Value(fd, at, Nothing)
    OBVIOUS
  <1>2. x.op = "value" /\ x.u = fd /\ x.at = at
    BY <1>1 DEF Value
  <1>3. CItemOK(x)
    BY <1>2 DEF CItemOK
  <1> QED BY <1>1, <1>2, <1>3

(* The forms of items, by what the actions look at. *)
LEMMA CForm ==
  ASSUME NEW it, CItemOK(it)
  PROVE  /\ it.op = "value" => /\ CFieldOK(it.u) /\ it.u.card # "map"
                               /\ Form(it) = IF it.u.kind = "message" THEN "nested" ELSE "value"
         /\ it.op = "unit" /\ it.u.unit = "oneof" =>
              /\ Form(it) = "oneof" /\ it.u.selectorBits \in Nat /\ IsSeq(it.u.fields)
              /\ \A j \in 1..Len(it.u.fields) : /\ CFieldOK(it.u.fields[j])
                                               /\ it.u.fields[j].card = "singular"
         /\ it.op = "unit" /\ it.u.unit = "field" =>
              /\ CFieldOK(it.u.fd)
              /\ it.u.fd.card = "repeated" => Form(it) = "list"
              /\ it.u.fd.card = "map" => Form(it) = "map"
              /\ it.u.fd.card = "singular" =>
                   Form(it) = IF it.u.fd.kind # "message" THEN "scalar"
                              ELSE IF it.u.fd.type = Timestamp THEN "timestamp" ELSE "message"
         /\ it.op \in {"unit", "value"}
         /\ it.op = "unit" => it.u.unit \in {"oneof", "field"}
  BY DEF CItemOK, CUnitOK, Form

LEMMA CLeavesEnc ==
  ASSUME NEW it, CItemOK(it), NEW c, Form(it) = "list" => FlagIn(c, it.at) \in Nat
  PROVE  CLeaves(it, EncM(c, it))
  <1>0. Positive(it.at)
    BY DEF CItemOK
  <1>1. CASE it.op = "value"
    <2>1. CASE it.u.kind = "message"
      <3>1. EncM(c, it) = UnitItems(it.u.type, it.at) /\ it.u.type \in DOMAIN Descriptor
        BY <1>1, <2>1, CForm DEF EncM, CFieldOK
      <3> QED BY <1>0, <3>1, CLeavesUnits
    <2>2. CASE it.u.kind # "message"
      <3>1. EncM(c, it) = <<>>
        BY <1>1, <2>2, CForm DEF EncM
      <3> QED BY <3>1, CLeavesNothing
    <2> QED BY <2>1, <2>2
  <1>2. CASE it.op = "unit" /\ it.u.unit = "oneof"
    <2>1. PICK n : n = FlagIn(c, it.at)
      OBVIOUS
    <2>2. CASE n \in 1..Len(it.u.fields)
      <3>1. PICK fd, at : fd = it.u.fields[n] /\ at = Append(it.at, n)
        OBVIOUS
      <3>2. n \in Nat \ {0} /\ CFieldOK(fd) /\ fd.card # "map" /\ Positive(at)
        <4>1. \A j \in 1..Len(it.u.fields) :
                CFieldOK(it.u.fields[j]) /\ it.u.fields[j].card = "singular"
          BY <1>2, CForm
        <4>2. IsSeq(it.u.fields)
          BY <1>2, CForm
        <4>3. n \in Nat \ {0}
          BY <2>2, <4>2, SeqFacts
        <4>4. Positive(Append(it.at, n))
          BY <1>0, <4>3, PositiveBelow
        <4>5. CFieldOK(fd) /\ fd.card = "singular"
          BY <2>2, <3>1, <4>1
        <4> QED BY <3>1, <4>3, <4>4, <4>5
      <3>3. CItemOK(Value(fd, at, Nothing)) /\ Value(fd, at, Nothing).at = at
        BY <3>2, CValueOK
      <3>4. EncM(c, it) = <<Value(fd, at, Nothing)>>
        BY <1>2, <2>1, <2>2, <3>1, CForm DEF EncM
      <3> QED BY <1>0, <3>1, <3>2, <3>3, <3>4, CLeavesOne
    <2>3. CASE n \notin 1..Len(it.u.fields)
      <3>1. EncM(c, it) = <<>>
        BY <1>2, <2>1, <2>3, CForm DEF EncM
      <3> QED BY <3>1, CLeavesNothing
    <2> QED BY <2>2, <2>3
  <1>3. CASE it.op = "unit" /\ it.u.unit = "field"
    <2>1. PICK fd : fd = it.u.fd
      OBVIOUS
    <2>2. CFieldOK(fd) /\ fd.card \in {"singular", "repeated", "map"}
      BY <1>3, <2>1, CForm DEF CFieldOK, IsField
    <2>3. CASE EncM(c, it) = <<>>
      BY <2>3, CLeavesNothing
    <2>4. CASE Form(it) = "scalar" /\ EncM(c, it) # <<>>
      <3>1. fd.card # "map"
        BY <1>3, <2>1, <2>4, CForm
      <3>2. CItemOK(Value(fd, it.at, Nothing)) /\ Value(fd, it.at, Nothing).at = it.at
            /\ Value(fd, it.at, Nothing).op = "value"
        BY <1>0, <2>2, <3>1, CValueOK
      <3>3. EncM(c, it) = <<Value(fd, it.at, Nothing)>>
        BY <2>1, <2>4 DEF EncM
      <3> QED BY <1>0, <1>3, <2>4, <3>2, <3>3, CLeavesOne
    <2>5. CASE Form(it) = "message" /\ EncM(c, it) # <<>>
      <3>1. EncM(c, it) = UnitItems(fd.type, it.at)
        BY <2>1, <2>5 DEF EncM
      <3>2. fd.type \in DOMAIN Descriptor
        <4>1. fd.kind = "message"
          BY <1>3, <2>1, <2>2, <2>5, CForm
        <4> QED BY <2>2, <4>1 DEF CFieldOK
      <3> QED BY <1>0, <3>1, <3>2, CLeavesUnits
    <2>6. CASE Form(it) = "list"
      <3>1. PICK n \in Nat : n = FlagIn(c, it.at)
        BY <2>6
      <3>2. PICK s : s = [j \in 1..n |-> Value(fd, Append(it.at, j), Nothing)]
        OBVIOUS
      <3>3. s = [j \in 1..n |-> s[j]]
        BY <3>2
      <3>4. IsSeq(s) /\ Len(s) = n
        BY <3>3, FunctionIsSeq
      <3>5. fd.card # "map"
        BY <1>3, <2>1, <2>6, CForm
      <3>6. ASSUME NEW j \in 1..n PROVE CItemOK(s[j]) /\ s[j].at = Append(it.at, j)
        <4>1. j \in Nat \ {0} /\ s[j] = Value(fd, Append(it.at, j), Nothing)
          BY <3>2
        <4>2. Positive(Append(it.at, j))
          BY <1>0, <4>1, PositiveBelow
        <4>3. PICK at : at = Append(it.at, j)
          OBVIOUS
        <4>4. CItemOK(Value(fd, at, Nothing)) /\ Value(fd, at, Nothing).at = at
          BY <2>2, <3>5, <4>2, <4>3, CValueOK
        <4> QED BY <4>1, <4>3, <4>4
      <3>7. CLeaves(it, s)
        BY <1>0, <3>4, <3>6, CLeavesChildren
      <3>8. EncM(c, it) = s
        BY <2>1, <2>6, <3>1, <3>2 DEF EncM
      <3> QED BY <3>7, <3>8
    <2>7. Form(it) \in {"scalar", "timestamp", "message", "list", "map"}
      BY <1>3, <2>1, <2>2, CForm
    <2>8. Form(it) \in {"timestamp", "map"} => EncM(c, it) = <<>>
      BY DEF EncM
    <2> QED BY <2>3, <2>4, <2>5, <2>6, <2>7, <2>8
  <1> QED BY <1>1, <1>2, <1>3, CForm

-----------------------------------------------------------------------------
(* Decoding: what is taken of the data is what the new struct is encoded   *)
(* as, and nothing but the places of the item has changed.                 *)

CDecoded == /\ phase' = "decoding" /\ pos' \in Nat
            /\ Spans(data, EncB(cmsg', item), pos, pos')
            /\ work' = EncM(cmsg', item) \o Tail(work)
            /\ Only(cmsg, cmsg', PutAt(item))
            /\ Form(item) = "list" => FlagIn(cmsg', item.at) \in Nat

CKept == UNCHANGED <<root, data, echo, room>>

(* A step of the decoder that is not refused, and cut nothing off. *)
CDecodes == CKept /\ (phase' = "DecodeError" \/ (~cut' => CDecoded))

AtCItem == /\ phase = "decoding" /\ work # <<>> /\ CItemOK(item)
           /\ BitSeq(data) /\ pos \in Nat /\ pos <= Len(data)

LEMMA SetOnly ==
  ASSUME NEW c, NEW at, NEW v
  PROVE  /\ at \in DOMAIN SetAt(c, at, v) /\ SetAt(c, at, v)[at] = v
         /\ \A p : p # at => Alike(c, SetAt(c, at, v), p)
  <1>1. PICK c2 : c2 = SetAt(c, at, v)
    OBVIOUS
  <1>2. DOMAIN c2 = {at} \cup DOMAIN c /\ \A a \in DOMAIN c2 : c2[a] = IF a = at THEN v ELSE c[a]
    BY <1>1 DEF SetAt
  <1> QED BY <1>1, <1>2 DEF Alike

LEMMA AlikeBoth ==
  ASSUME NEW c, NEW d, NEW e, NEW p, Alike(c, d, p), Alike(d, e, p) PROVE Alike(c, e, p)
  BY DEF Alike

LEMMA FlagSet ==
  ASSUME NEW at, NEW kind, NEW n
  PROVE  /\ FlagIn(WithFlag(at, kind, n), at) = n
         /\ \A p : p # Flag(at) => Alike(cmsg, WithFlag(at, kind, n), p)
  <1>1. PICK f : f = [kind |-> kind, n |-> n]
    OBVIOUS
  <1>2. f.n = n
    BY <1>1
  <1>3. WithFlag(at, kind, n) = SetAt(cmsg, Flag(at), f)
    BY <1>1 DEF WithFlag, With
  <1> QED BY <1>2, <1>3, SetOnly DEF FlagIn, StoredIn

LEMMA Refused2 ==
  ASSUME NEW msg, Refuse(msg) PROVE CDecodes
  BY DEF Refuse, CDecodes, CKept, unpackVars

LEMMA Taken ==
  ASSUME AtCItem, NEW n \in Nat, NEW more, NEW msg, Take(n, more, msg),
         Spans(data, EncB(msg, item), pos, pos + n), more = EncM(msg, item),
         Only(cmsg, msg, PutAt(item)),
         Form(item) = "list" => FlagIn(msg, item.at) \in Nat
  PROVE  CDecodes
  BY DEF Take, CDecodes, CDecoded, CKept, AtCItem

LEMMA CDecodeScalar == ASSUME AtCItem, DecodeScalar PROVE CDecodes
  <1> PICK fd : fd = item.u.fd
    OBVIOUS
  <1>1. item.op = "unit" /\ item.u.unit = "field" /\ fd.card = "singular" /\ fd.kind # "message"
    BY DEF DecodeScalar, DecodingField, Decoding
  <1>2. Form(item) = "scalar"
    BY <1>1 DEF Form
  <1>3. PutAt(item) = {item.at, Flag(item.at)}
    BY <1>1 DEF PutAt
  <1>4. BitSeq(data) /\ pos \in Nat /\ pos <= Len(data) /\ IsSeq(data)
    BY DEF AtCItem, BitSeq
  <1>5. CASE ~IsOptional(fd)
    <2>1. Take(0, <<Value(fd, item.at, Nothing)>>, cmsg)
      BY <1>5 DEF DecodeScalar
    <2>2. EncB(cmsg, item) = <<>> /\ EncM(cmsg, item) = <<Value(fd, item.at, Nothing)>>
      BY <1>2, <1>5 DEF EncB, EncM
    <2>3. Spans(data, <<>>, pos, pos) /\ pos + 0 = pos
      BY <1>4, SliceNothing
    <2>4. Only(cmsg, cmsg, PutAt(item))
      BY DEF Only, Alike
    <2> QED BY <1>2, <2>1, <2>2, <2>3, <2>4, Taken
  <1>6. CASE IsOptional(fd) /\ ~Has(1)
    BY <1>6, Refused2 DEF DecodeScalar
  <1>7. CASE IsOptional(fd) /\ Has(1)
    <2>1. PICK n, msg : n = Bits(pos, 1) /\ msg = WithFlag(item.at, "has", n)
      OBVIOUS
    <2>2. Take(1, IF n = 1 THEN <<Value(fd, item.at, Nothing)>> ELSE <<>>, msg)
      BY <1>7, <2>1 DEF DecodeScalar
    <2>3. n \in {0, 1} /\ Spans(data, <<n>>, pos, pos + 1)
      BY <1>4, <1>7, <2>1, SliceBit DEF Has
    <2>4. FlagIn(msg, item.at) = n /\ Only(cmsg, msg, PutAt(item))
      BY <1>3, <2>1, FlagSet DEF Only
    <2>5. EncB(msg, item) = <<n>>
      BY <1>2, <1>7, <2>4 DEF EncB
    <2>6. EncM(msg, item) = IF n = 1 THEN <<Value(fd, item.at, Nothing)>> ELSE <<>>
      BY <1>2, <1>7, <2>3, <2>4 DEF EncM
    <2> QED BY <1>2, <2>2, <2>3, <2>4, <2>5, <2>6, Taken
  <1> QED BY <1>5, <1>6, <1>7

LEMMA CDecodeMessage == ASSUME AtCItem, DecodeMessage PROVE CDecodes
  <1> PICK fd : fd = item.u.fd
    OBVIOUS
  <1>1. item.op = "unit" /\ item.u.unit = "field" /\ fd.card = "singular" /\ IsMessage(fd)
    BY DEF DecodeMessage, DecodingField, Decoding
  <1>2. Form(item) = "message"
    BY <1>1 DEF Form, IsMessage
  <1>3. PutAt(item) = {item.at, Flag(item.at)}
    BY <1>1 DEF PutAt
  <1>4. BitSeq(data) /\ pos \in Nat /\ pos <= Len(data) /\ Positive(item.at)
    BY DEF AtCItem, CItemOK
  <1>5. CASE ~Has(1)
    BY <1>5, Refused2 DEF DecodeMessage
  <1>6. CASE Has(1)
    <2>1. PICK n, flagged : n = Bits(pos, 1) /\ flagged = WithFlag(item.at, "has", n)
      OBVIOUS
    <2>2. PICK msg : msg = IF n = 0 THEN flagged ELSE SetAt(flagged, item.at, Present)
      OBVIOUS
    <2>3. Take(1, IF n = 0 THEN <<>> ELSE UnitItems(fd.type, item.at), msg)
      BY <1>6, <2>1, <2>2 DEF DecodeMessage, CUnits
    <2>4. n \in {0, 1} /\ Spans(data, <<n>>, pos, pos + 1)
      BY <1>4, <1>6, <2>1, SliceBit DEF Has
    <2>5. FlagIn(flagged, item.at) = n /\ \A p : p # Flag(item.at) => Alike(cmsg, flagged, p)
      BY <2>1, FlagSet
    <2>6. Flag(item.at) # item.at
      BY <1>4, PositivePlace DEF Flag
    <2>7. \A p : p # item.at => Alike(flagged, msg, p)
      BY <2>2, SetOnly DEF Alike
    <2>8. FlagIn(msg, item.at) = n
      BY <2>5, <2>6, <2>7 DEF FlagIn, StoredIn, Alike
    <2>9. Only(cmsg, msg, PutAt(item))
      BY <1>3, <2>5, <2>7, AlikeBoth DEF Only
    <2>10. EncB(msg, item) = <<n>>
      BY <1>2, <2>8 DEF EncB
    <2>11. EncM(msg, item) = IF n = 0 THEN <<>> ELSE UnitItems(fd.type, item.at)
      BY <1>2, <2>8 DEF EncM
    <2> QED BY <1>2, <2>3, <2>4, <2>9, <2>10, <2>11, Taken
  <1> QED BY <1>5, <1>6

LEMMA CDecodeTimestamp == ASSUME AtCItem, DecodeTimestamp PROVE CDecodes
  <1> PICK fd : fd = item.u.fd
    OBVIOUS
  <1>1. item.op = "unit" /\ item.u.unit = "field" /\ fd.card = "singular" /\ IsTimestamp(fd)
    BY DEF DecodeTimestamp, DecodingField, Decoding
  <1>2. Form(item) = "timestamp"
    BY <1>1 DEF Form, IsTimestamp
  <1>3. PutAt(item) = {item.at, Flag(item.at)}
    BY <1>1 DEF PutAt
  <1>4. BitSeq(data) /\ pos \in Nat /\ pos <= Len(data) /\ Positive(item.at) /\ IsSeq(data)
    BY DEF AtCItem, CItemOK, BitSeq
  <1>5. CASE ~Has(1)
    BY <1>5, Refused2 DEF DecodeTimestamp
  <1>6. CASE Has(1)
    <2>1. PICK n, flagged : n = Bits(pos, 1) /\ flagged = WithFlag(item.at, "has", n)
      OBVIOUS
    <2>2. n \in {0, 1} /\ Spans(data, <<n>>, pos, pos + 1) /\ IsSeq(<<n>>)
      BY <1>4, <1>6, <2>1, SliceBit, SingleIsSeq DEF Has
    <2>3. FlagIn(flagged, item.at) = n /\ \A p : p # Flag(item.at) => Alike(cmsg, flagged, p)
      BY <2>1, FlagSet
    <2>4. CASE n = 0
      <3>1. Take(1, <<>>, flagged)
        BY <1>6, <2>1, <2>4 DEF DecodeTimestamp
      <3>2. EncB(flagged, item) = <<n>> \o <<>> /\ EncM(flagged, item) = <<>>
        BY <1>2, <2>3, <2>4 DEF EncB, EncM
      <3>3. Spans(data, <<n>> \o <<>>, pos, pos + 1)
        <4>1. pos + 1 \in Nat /\ pos + 1 <= Len(data)
          BY <1>4, <1>6 DEF Has
        <4>2. Spans(data, <<>>, pos + 1, pos + 1)
          BY <1>4, <4>1, SliceNothing
        <4> QED BY <1>4, <2>2, <4>1, <4>2, SliceConcat
      <3>4. Only(cmsg, flagged, PutAt(item))
        BY <1>3, <2>3 DEF Only
      <3> QED BY <1>2, <3>1, <3>2, <3>3, <3>4, Taken
    <2>5. CASE n # 0
      <3>1. PICK t \in Nat : t = TsBits(fd)
        <4>1. FieldWidths(fd)
          BY <1>1, CForm DEF AtCItem, CFieldOK
        <4> QED BY <4>1, TsBitsType
      <3>2. CASE ~Has(1 + t)
        BY <1>6, <2>1, <2>5, <3>1, <3>2, Refused2 DEF DecodeTimestamp
      <3>3. CASE Has(1 + t)
        <4>1. PICK v : v = Bits(pos + 1, t)
          OBVIOUS
        <4>2. PICK msg : msg = SetAt(flagged, item.at, v)
          OBVIOUS
        <4>3. Take(1 + t, <<>>, msg)
          BY <1>6, <2>1, <2>5, <3>1, <3>3, <4>1, <4>2 DEF DecodeTimestamp
        <4>4. pos + 1 \in Nat /\ (pos + 1) + t <= Len(data) /\ pos + (1 + t) = (pos + 1) + t
          BY <1>4, <3>3, SeqFacts DEF Has
        <4>5. Spans(data, LowBits(v, t), pos + 1, (pos + 1) + t)
          BY <1>4, <4>1, <4>4, SliceNumber
        <4>6. Spans(data, <<n>> \o LowBits(v, t), pos, pos + (1 + t))
          BY <1>4, <2>2, <4>4, <4>5, SliceConcat
        <4>7. StoredIn(msg, item.at, 0) = v /\ \A p : p # item.at => Alike(flagged, msg, p)
          BY <4>2, SetOnly DEF StoredIn
        <4>8. FlagIn(msg, item.at) = n
          <5>1. Flag(item.at) # item.at
            BY <1>4, PositivePlace DEF Flag
          <5> QED BY <2>3, <4>7, <5>1 DEF FlagIn, StoredIn, Alike
        <4>9. Only(cmsg, msg, PutAt(item))
          BY <1>3, <2>3, <4>7, AlikeBoth DEF Only
        <4>10. EncB(msg, item) = <<n>> \o LowBits(v, t) /\ EncM(msg, item) = <<>>
          BY <1>2, <2>5, <3>1, <4>7, <4>8 DEF EncB, EncM
        <4>11. 1 + t \in Nat
          OBVIOUS
        <4> QED BY <1>2, <4>3, <4>6, <4>9, <4>10, <4>11, Taken
      <3> QED BY <3>2, <3>3
    <2> QED BY <2>4, <2>5
  <1> QED BY <1>5, <1>6

(* A number that its uint16_t holds is kept. *)
LEMMA ShortWhole ==
  ASSUME NEW n \in Nat, ~(n >= 2 ^ CountWidth) PROVE Short(n) = n
  <1>1. PICK m \in Nat \ {0} : m = 2 ^ CountWidth
    BY CountAssumption, PowerPositive
  <1>2. n < m => n % m = n
    OBVIOUS
  <1> QED BY <1>1, <1>2 DEF Short

LEMMA CDecodeList == ASSUME AtCItem, DecodeList PROVE CDecodes
  <1> PICK fd, at, n : fd = item.u.fd /\ at = item.at /\ n = Short(Bits(pos, fd.countBits))
    OBVIOUS
  <1>1. item.op = "unit" /\ item.u.unit = "field" /\ fd.card = "repeated"
    BY DEF DecodeList, DecodingField, Decoding
  <1>2. Form(item) = "list" /\ FieldWidths(fd)
    BY <1>1, CForm DEF AtCItem, CFieldOK
  <1>3. PutAt(item) = {at, Flag(at)}
    BY <1>1 DEF PutAt
  <1>4. BitSeq(data) /\ pos \in Nat /\ fd.countBits \in Nat
    BY <1>2 DEF AtCItem, FieldWidths
  <1>5. CASE ~Has(fd.countBits)
    BY <1>5, Refused2 DEF DecodeList
  <1>6. CASE Has(fd.countBits) /\ cut'
    <2>1. Take(fd.countBits, [j \in 1..n |-> Value(fd, Append(at, j), Nothing)],
               WithFlag(at, "count", n))
      BY <1>6 DEF DecodeList
    <2> QED BY <1>6, <2>1 DEF Take, CDecodes, CKept
  <1>7. CASE Has(fd.countBits) /\ ~cut'
    <2>1. PICK msg : msg = WithFlag(at, "count", n)
      OBVIOUS
    <2>2. PICK more : more = [j \in 1..n |-> Value(fd, Append(at, j), Nothing)]
      OBVIOUS
    <2>3. Take(fd.countBits, more, msg)
      BY <1>7, <2>1, <2>2 DEF DecodeList
    <2>4. PICK b : b = Bits(pos, fd.countBits)
      OBVIOUS
    <2>5. b \in Nat /\ Spans(data, LowBits(b, fd.countBits), pos, pos + fd.countBits)
      BY <1>4, <1>7, <2>4, SliceNumber DEF Has
    <2>6. n = b
      <3>1. ~(b >= 2 ^ CountWidth)
        BY <1>7, <2>4 DEF DecodeList, CutShort
      <3> QED BY <2>4, <2>5, <3>1, ShortWhole
    <2>7. FlagIn(msg, at) = n /\ Only(cmsg, msg, PutAt(item))
      BY <1>3, <2>1, FlagSet DEF Only
    <2>8. EncB(msg, item) = LowBits(n, fd.countBits) /\ EncM(msg, item) = more
      BY <1>2, <2>2, <2>7 DEF EncB, EncM
    <2>9. FlagIn(msg, item.at) \in Nat
      BY <2>5, <2>6, <2>7
    <2> QED BY <1>4, <2>3, <2>5, <2>6, <2>7, <2>8, <2>9, Taken
  <1> QED BY <1>5, <1>6, <1>7

LEMMA CSkipMap == ASSUME AtCItem, SkipMap PROVE CDecodes
  <1>1. item.op = "unit" /\ item.u.unit = "field" /\ item.u.fd.card = "map"
    BY DEF SkipMap, DecodingField, Decoding
  <1>2. Form(item) = "map"
    BY <1>1 DEF Form
  <1>3. Take(0, <<>>, cmsg)
    BY DEF SkipMap
  <1>4. EncB(cmsg, item) = <<>> /\ EncM(cmsg, item) = <<>>
    BY <1>2 DEF EncB, EncM
  <1>5. Spans(data, <<>>, pos, pos) /\ pos + 0 = pos
    BY SliceNothing DEF AtCItem, BitSeq
  <1>6. Only(cmsg, cmsg, PutAt(item))
    BY DEF Only, Alike
  <1> QED BY <1>2, <1>3, <1>4, <1>5, <1>6, Taken

LEMMA CDecodeOneof == ASSUME AtCItem, DecodeOneof PROVE CDecodes
  <1> PICK u, at, n : u = item.u /\ at = item.at /\ n = Bits(pos, u.selectorBits)
    OBVIOUS
  <1>1. item.op = "unit" /\ u.unit = "oneof"
    BY DEF DecodeOneof, Decoding
  <1>2. Form(item) = "oneof" /\ u.selectorBits \in Nat /\ IsSeq(u.fields)
    BY <1>1, CForm DEF AtCItem
  <1>3. PutAt(item) = {at, Flag(at)}
    BY <1>1 DEF PutAt
  <1>4. BitSeq(data) /\ pos \in Nat
    BY DEF AtCItem
  <1>5. PICK msg : msg = WithFlag(at, "which", n)
    OBVIOUS
  <1>6. CASE ~Has(u.selectorBits)
    BY <1>6, Refused2 DEF DecodeOneof
  <1>7. CASE Has(u.selectorBits)
    <2>1. n \in Nat /\ Spans(data, LowBits(n, u.selectorBits), pos, pos + u.selectorBits)
      BY <1>2, <1>4, <1>7, SliceNumber DEF Has
    <2>2. CASE n > Len(u.fields)
      BY <1>5, <1>7, <2>2, Refused2 DEF DecodeOneof
    <2>3. CASE ~(n > Len(u.fields))
      <3>1. PICK more : more = IF n = 0 THEN <<>>
                               ELSE <<Value(u.fields[n], Append(at, n), Nothing)>>
        OBVIOUS
      <3>2. Take(u.selectorBits, more, msg)
        BY <1>5, <1>7, <2>3, <3>1 DEF DecodeOneof
      <3>3. FlagIn(msg, at) = n /\ Only(cmsg, msg, PutAt(item))
        BY <1>3, <1>5, FlagSet DEF Only
      <3>4. n \in 1..Len(u.fields) <=> n # 0
        BY <1>2, <2>1, <2>3, SeqFacts
      <3>5. EncB(msg, item) = LowBits(n, u.selectorBits)
        BY <1>2, <3>3 DEF EncB
      <3>6. EncM(msg, item) = more
        BY <1>2, <3>1, <3>3, <3>4 DEF EncM
      <3> QED BY <1>2, <2>1, <3>2, <3>3, <3>5, <3>6, Taken
    <2> QED BY <2>2, <2>3
  <1> QED BY <1>6, <1>7

LEMMA CDecodeNested == ASSUME AtCItem, DecodeNested PROVE CDecodes
  <1>1. item.op = "value" /\ item.u.kind = "message"
    BY DEF DecodeNested, Decoding
  <1>2. Form(item) = "nested"
    BY <1>1, CForm DEF AtCItem
  <1>3. PICK msg : msg = SetAt(cmsg, item.at, Present)
    OBVIOUS
  <1>4. Take(0, UnitItems(item.u.type, item.at), msg)
    BY <1>3 DEF DecodeNested, CUnits, With
  <1>5. EncB(msg, item) = <<>> /\ EncM(msg, item) = UnitItems(item.u.type, item.at)
    BY <1>2 DEF EncB, EncM
  <1>6. Spans(data, <<>>, pos, pos) /\ pos + 0 = pos
    BY SliceNothing DEF AtCItem, BitSeq
  <1>7. Only(cmsg, msg, PutAt(item))
    BY <1>1, <1>3, SetOnly DEF Only, PutAt
  <1> QED BY <1>2, <1>4, <1>5, <1>6, <1>7, Taken

LEMMA CDecodeValue == ASSUME AtCItem, DecodeValue PROVE CDecodes
  <1> PICK fd, at : fd = item.u /\ at = item.at
    OBVIOUS
  <1>1. item.op = "value" /\ fd.kind \notin {"bytes", "message"}
    BY DEF DecodeValue, Decoding
  <1>2. Form(item) = "value" /\ CFieldOK(fd)
    BY <1>1, CForm DEF AtCItem
  <1>3. fd.kind \in {"bool", "int", "enum"} /\ FieldWidths(fd)
    BY <1>1, <1>2 DEF CFieldOK, IsField
  <1>4. BitSeq(data) /\ pos \in Nat
    BY DEF AtCItem
  <1>5. PICK w \in Nat : w = IF fd.kind = "bool" THEN 1 ELSE fd.bits
    BY <1>3 DEF FieldWidths
  <1>6. ScalarEnd(fd, pos) = pos + w /\ ScalarAt(fd, pos) = Bits(pos, w)
    BY <1>3, <1>5 DEF ScalarEnd, ScalarAt
  <1>7. CASE ScalarEnd(fd, pos) > Len(data)
    BY <1>7, Refused2 DEF DecodeValue
  <1>8. CASE ~(ScalarEnd(fd, pos) > Len(data))
    <2>1. PICK n : n = Bits(pos, w)
      OBVIOUS
    <2>2. pos + w <= Len(data) /\ (pos + w) - pos = w
      BY <1>4, <1>6, <1>8, SeqFacts DEF BitSeq
    <2>3. PICK msg : msg = SetAt(cmsg, at, n)
      OBVIOUS
    <2>4. Take(w, <<>>, msg)
      BY <1>6, <1>8, <2>1, <2>2, <2>3 DEF DecodeValue, With
    <2>5. Spans(data, LowBits(n, w), pos, pos + w)
      BY <1>4, <2>1, <2>2, SliceNumber
    <2>6. StoredIn(msg, at, 0) = n
      BY <2>3, SetOnly DEF StoredIn
    <2>7. Only(cmsg, msg, PutAt(item))
      BY <1>1, <2>3, SetOnly DEF Only, PutAt
    <2>8. EncB(msg, item) = ScalarBits(fd, n) /\ EncM(msg, item) = <<>>
      BY <1>1, <1>2, <2>6 DEF EncB, EncM
    <2>9. ScalarBits(fd, n) = LowBits(n, w)
      BY <1>3, <1>5 DEF ScalarBits
    <2> QED BY <1>2, <2>4, <2>5, <2>7, <2>8, <2>9, Taken
  <1> QED BY <1>7, <1>8

LEMMA CDecodeBytes == ASSUME AtCItem, DecodeBytes PROVE CDecodes
  <1> PICK fd, at, lb : fd = item.u /\ at = item.at /\ lb = fd.lengthBits
    OBVIOUS
  <1> PICK n, start : n = Short(Bits(pos, lb)) /\ start = pos + lb
    OBVIOUS
  <1>1. item.op = "value" /\ fd.kind = "bytes"
    BY DEF DecodeBytes, Decoding
  <1>2. Form(item) = "value" /\ CFieldOK(fd)
    BY <1>1, CForm DEF AtCItem
  <1>3. lb \in Nat /\ BitSeq(data) /\ pos \in Nat /\ Positive(at)
    BY <1>2 DEF AtCItem, CFieldOK, FieldWidths, CItemOK
  <1>4. CASE ~Has(lb)
    BY <1>4, Refused2 DEF DecodeBytes
  <1>5. CASE Has(lb) /\ ~Has(lb + n * ByteSize)
    BY <1>5, Refused2 DEF DecodeBytes
  <1>6. CASE Has(lb) /\ Has(lb + n * ByteSize)
    <2>1. PICK s : s = [j \in 1..n |-> Bits(start + (j - 1) * ByteSize, ByteSize)]
      OBVIOUS
    <2>2. PICK msg : msg = WithBytes(at, s, n)
      OBVIOUS
    <2>3. Take(lb + n * ByteSize, <<>>, msg)
      BY <1>6, <2>1, <2>2 DEF DecodeBytes
    <2>4. CASE cut'
      BY <2>3, <2>4 DEF Take, CDecodes, CKept
    <2>5. CASE ~cut'
      <3>1. PICK b : b = Bits(pos, lb)
        OBVIOUS
      <3>2. b \in Nat /\ Spans(data, LowBits(b, lb), pos, start)
        BY <1>3, <1>6, <3>1, SliceNumber DEF Has
      <3>3. n = b
        <4>1. ~(b >= 2 ^ CountWidth)
          BY <1>6, <2>5, <3>1 DEF DecodeBytes, CutShort
        <4> QED BY <3>1, <3>2, <4>1, ShortWhole
      <3>4. PICK c \in Nat : c = n * ByteSize
        BY <3>2, <3>3, ByteSizeType
      <3>5. start \in Nat /\ start + c <= Len(data) /\ pos + (lb + c) = start + c /\ lb + c \in Nat
        BY <1>3, <1>6, <3>4, SeqFacts DEF Has, BitSeq
      <3>6. IsSeq(s) /\ Len(s) = n /\ Spans(data, RawBytes(s), start, start + c)
        BY <1>3, <2>1, <3>2, <3>3, <3>4, <3>5, SliceBytes
      <3>7. Spans(data, LowBits(Len(s), lb) \o RawBytes(s), pos, pos + (lb + c))
        BY <1>3, <3>2, <3>3, <3>5, <3>6, SliceConcat DEF BitSeq
      <3>8. PICK msg1 : msg1 = Overwritten(at, s)
        OBVIOUS
      <3>9. PICK old : old = Stored(at, <<>>)
        OBVIOUS
      <3>10. PICK v : v = [j \in DOMAIN s \cup DOMAIN old |->
                             IF j \in DOMAIN s THEN s[j] ELSE old[j]]
        OBVIOUS
      <3>11. msg1 = SetAt(cmsg, at, v) /\ msg = SetAt(msg1, Length(at), n)
        BY <2>2, <3>8, <3>9, <3>10 DEF Overwritten, With, WithBytes
      <3>12. Length(at) # at
        BY <1>3, PositivePlace DEF Length
      <3>13. StoredIn(msg, Length(at), 0) = n /\ StoredIn(msg, at, <<>>) = v
        BY <3>11, <3>12, SetOnly DEF StoredIn, Alike
      <3>14. BytesIn(msg, at) = s
        <4>1. DOMAIN s = 1..n /\ s = [j \in 1..n |-> s[j]]
          BY <3>6, SeqFacts
        <4>2. \A j \in 1..n : v[j] = s[j]
          BY <3>10, <4>1
        <4> QED BY <3>13, <4>1, <4>2 DEF BytesIn
      <3>15. Only(cmsg, msg, PutAt(item))
        <4>1. PutAt(item) = {at, Length(at)}
          BY <1>1 DEF PutAt
        <4>2. \A p : p \notin {at, Length(at)} => Alike(cmsg, msg1, p) /\ Alike(msg1, msg, p)
          BY <3>11, SetOnly
        <4> QED BY <4>1, <4>2, AlikeBoth DEF Only
      <3>16. EncB(msg, item) = ScalarBits(fd, s) /\ EncM(msg, item) = <<>>
        BY <1>1, <1>2, <3>14 DEF EncB, EncM
      <3>17. ScalarBits(fd, s) = LowBits(Len(s), lb) \o RawBytes(s)
        BY <1>1 DEF ScalarBits
      <3>18. Take(lb + c, <<>>, msg)
        BY <2>3, <3>4
      <3> QED BY <1>2, <3>5, <3>7, <3>15, <3>16, <3>17, <3>18, Taken
    <2> QED BY <2>4, <2>5
  <1> QED BY <1>4, <1>5, <1>6

LEMMA CDecodeStep == ASSUME AtCItem, Decode PROVE CDecodes /\ (cut => cut')
  <1>1. cut => cut'
    BY DEF Decode, DecodeList, DecodeBytes, CutShort
  <1> QED BY <1>1, CDecodeList, CDecodeBytes, CDecodeScalar, CDecodeTimestamp, CDecodeMessage,
             CSkipMap, CDecodeOneof, CDecodeValue, CDecodeNested DEF Decode

-----------------------------------------------------------------------------
(* Encoding: the encoder writes what the struct says of its item.          *)

Writes == Write(EncB(cmsg, item), EncM(cmsg, item))

LEMMA CEncodeStep == ASSUME CItemOK(item), Encode PROVE Writes
  <1> PICK it : it = item
    OBVIOUS
  <1>0. CItemOK(it)
    OBVIOUS
  <1>1. FlagAt(it.at) = FlagIn(cmsg, it.at) /\ Stored(it.at, 0) = StoredIn(cmsg, it.at, 0)
        /\ BytesStored(it.at) = BytesIn(cmsg, it.at)
    BY DEF FlagAt, FlagIn, Stored, StoredIn, BytesStored, BytesIn
  <1>2. CASE EncodeScalar
    <2>1. /\ it.op = "unit" /\ it.u.unit = "field"
          /\ it.u.fd.card = "singular" /\ it.u.fd.kind # "message"
      BY <1>2 DEF EncodeScalar, EncodingField, Encoding
    <2>2. Form(it) = "scalar"
      BY <1>0, <2>1, CForm
    <2>3. /\ EncB(cmsg, it) = IF IsOptional(it.u.fd) THEN <<FlagAt(it.at)>> ELSE <<>>
          /\ EncM(cmsg, it) = IF IsOptional(it.u.fd) /\ FlagAt(it.at) = 0 THEN <<>>
                              ELSE <<Value(it.u.fd, it.at, Nothing)>>
      BY <1>1, <2>2 DEF EncB, EncM
    <2> QED BY <1>2, <2>3 DEF EncodeScalar, Writes
  <1>3. CASE EncodeTimestamp
    <2>1. it.op = "unit" /\ it.u.unit = "field" /\ it.u.fd.card = "singular"
          /\ it.u.fd.kind = "message" /\ it.u.fd.type = Timestamp
      BY <1>3 DEF EncodeTimestamp, EncodingField, Encoding, IsTimestamp
    <2>2. Form(it) = "timestamp"
      BY <1>0, <2>1, CForm
    <2>3. /\ EncB(cmsg, it) = <<FlagAt(it.at)>> \o
                IF FlagAt(it.at) = 0 THEN <<>> ELSE LowBits(Stored(it.at, 0), TsBits(it.u.fd))
          /\ EncM(cmsg, it) = <<>>
      BY <1>1, <2>2 DEF EncB, EncM
    <2> QED BY <1>3, <2>3 DEF EncodeTimestamp, Writes
  <1>4. CASE EncodeMessage
    <2>1. it.op = "unit" /\ it.u.unit = "field" /\ it.u.fd.card = "singular"
          /\ it.u.fd.kind = "message" /\ it.u.fd.type # Timestamp
      BY <1>4 DEF EncodeMessage, EncodingField, Encoding, IsMessage
    <2>2. Form(it) = "message"
      BY <1>0, <2>1, CForm
    <2>3. /\ EncB(cmsg, it) = <<FlagAt(it.at)>>
          /\ EncM(cmsg, it) = IF FlagAt(it.at) = 0 THEN <<>> ELSE UnitItems(it.u.fd.type, it.at)
      BY <1>1, <2>2 DEF EncB, EncM
    <2> QED BY <1>4, <2>3 DEF EncodeMessage, Writes, CUnits
  <1>5. CASE EncodeList
    <2>1. it.op = "unit" /\ it.u.unit = "field" /\ it.u.fd.card = "repeated"
      BY <1>5 DEF EncodeList, EncodingField, Encoding
    <2>2. Form(it) = "list"
      BY <1>0, <2>1, CForm
    <2>3. /\ EncB(cmsg, it) = LowBits(FlagAt(it.at), it.u.fd.countBits)
          /\ EncM(cmsg, it) = [j \in 1..FlagAt(it.at) |->
                                 Value(it.u.fd, Append(it.at, j), Nothing)]
      BY <1>1, <2>2 DEF EncB, EncM
    <2> QED BY <1>5, <2>3 DEF EncodeList, Writes
  <1>6. CASE SkipMapAgain
    <2>1. it.op = "unit" /\ it.u.unit = "field" /\ it.u.fd.card = "map"
      BY <1>6 DEF SkipMapAgain, EncodingField, Encoding
    <2>2. Form(it) = "map"
      BY <1>0, <2>1, CForm
    <2>3. EncB(cmsg, it) = <<>> /\ EncM(cmsg, it) = <<>>
      BY <2>2 DEF EncB, EncM
    <2> QED BY <1>6, <2>3 DEF SkipMapAgain, Writes
  <1>7. CASE EncodeOneof
    <2>1. it.op = "unit" /\ it.u.unit = "oneof"
      BY <1>7 DEF EncodeOneof, Encoding
    <2>2. Form(it) = "oneof"
      BY <1>0, <2>1, CForm
    <2>3. /\ EncB(cmsg, it) = LowBits(FlagAt(it.at), it.u.selectorBits)
          /\ EncM(cmsg, it) =
               IF FlagAt(it.at) \in 1..Len(it.u.fields)
               THEN <<Value(it.u.fields[FlagAt(it.at)], Append(it.at, FlagAt(it.at)), Nothing)>>
               ELSE <<>>
      BY <1>1, <2>2 DEF EncB, EncM
    <2> QED BY <1>7, <2>3 DEF EncodeOneof, Writes
  <1>8. CASE EncodeValue
    <2>1. it.op = "value" /\ it.u.kind # "message"
      BY <1>8 DEF EncodeValue, Encoding
    <2>2. Form(it) = "value"
      BY <1>0, <2>1, CForm
    <2>3. /\ EncB(cmsg, it) = ScalarBits(it.u, IF it.u.kind = "bytes" THEN BytesStored(it.at)
                                               ELSE Stored(it.at, 0))
          /\ EncM(cmsg, it) = <<>>
      BY <1>1, <2>2 DEF EncB, EncM
    <2> QED BY <1>8, <2>3 DEF EncodeValue, Writes
  <1>9. CASE EncodeNested
    <2>1. it.op = "value" /\ it.u.kind = "message"
      BY <1>9 DEF EncodeNested, Encoding
    <2>2. Form(it) = "nested"
      BY <1>0, <2>1, CForm
    <2>3. EncB(cmsg, it) = <<>> /\ EncM(cmsg, it) = UnitItems(it.u.type, it.at)
      BY <2>2 DEF EncB, EncM
    <2> QED BY <1>9, <2>3 DEF EncodeNested, Writes, CUnits
  <1> QED BY <1>2, <1>3, <1>4, <1>5, <1>6, <1>7, <1>8, <1>9 DEF Encode

-----------------------------------------------------------------------------
(* The work of the coder: items none of which is at or around another.     *)

CWork(w) == /\ IsSeq(w) /\ \A i \in 1..Len(w) : CItemOK(w[i])
            /\ \A i, j \in 1..Len(w) : i # j => ~Under(w[i].at, w[j].at)

LEMMA CWorkNothing == CWork(<<>>)
  <1>1. IsSeq(<<>>) /\ 1..Len(<<>>) = {}
    BY EmptyIsSeq
  <1> QED BY <1>1 DEF CWork

LEMMA CWorkHead == ASSUME NEW w, CWork(w), w # <<>>
                   PROVE CItemOK(Head(w)) /\ IsSeq(w) /\ Positive(Head(w).at)
  <1>1. Head(w) = w[1] /\ 1 \in 1..Len(w)
    BY TailFacts DEF CWork
  <1> QED BY <1>1 DEF CWork, CItemOK

LEMMA CWorkNext ==
  ASSUME NEW w, CWork(w), w # <<>>, NEW more, CLeaves(Head(w), more)
  PROVE  CWork(more \o Tail(w))
  <1> PICK h, l : h = Head(w) /\ l = Len(more)
    OBVIOUS
  <1> PICK w2 : w2 = more \o Tail(w)
    OBVIOUS
  <1>1. /\ IsSeq(w2) /\ h = w[1] /\ 1 \in 1..Len(w) /\ l \in Nat /\ Len(w) \in Nat
        /\ \A i \in 1..Len(w2) :
             \/ i \in 1..l /\ w2[i] = more[i]
             \/ \E j \in 2..Len(w) : i = l + j - 1 /\ w2[i] = w[j]
    BY NextWork DEF CLeaves, CWork
  <1>2. /\ \A i \in 1..l : CItemOK(more[i]) /\ Under(more[i].at, h.at)
        /\ \A i, j \in 1..l : i # j => ~Under(more[i].at, more[j].at)
        /\ \A i \in 1..Len(w) : CItemOK(w[i])
        /\ \A i, j \in 1..Len(w) : i # j => ~Under(w[i].at, w[j].at)
    BY DEF CLeaves, CWork
  <1>3. \A j \in 2..Len(w) : j \in 1..Len(w) /\ j # 1
    BY <1>1
  <1>4. ASSUME NEW i \in 1..Len(w2) PROVE CItemOK(w2[i])
    BY <1>1, <1>2, <1>3, Zenon
  <1>5. ASSUME NEW i \in 1..l, NEW j \in 2..Len(w)
        PROVE  ~Under(more[i].at, w[j].at) /\ ~Under(w[j].at, more[i].at)
    <2>1. Under(more[i].at, h.at) /\ ~Under(h.at, w[j].at) /\ ~Under(w[j].at, h.at)
      BY <1>1, <1>2, <1>3
    <2>2. IsSeq(more[i].at) /\ IsSeq(h.at) /\ IsSeq(w[j].at)
      BY <1>1, <1>2, <1>3 DEF CItemOK, Positive
    <2> QED BY <2>1, <2>2, UnderUnder, UnderBoth
  <1>6. ASSUME NEW i \in 1..Len(w2), NEW j \in 1..Len(w2), i # j
        PROVE  ~Under(w2[i].at, w2[j].at)
    <2>1. CASE i \in 1..l /\ w2[i] = more[i] /\ j \in 1..l /\ w2[j] = more[j]
      BY <1>2, <1>6, <2>1
    <2>2. ASSUME NEW m \in 2..Len(w), w2[i] = w[m], j \in 1..l, w2[j] = more[j]
          PROVE  ~Under(w2[i].at, w2[j].at)
      BY <1>5, <2>2
    <2>3. ASSUME NEW m \in 2..Len(w), w2[j] = w[m], i \in 1..l, w2[i] = more[i]
          PROVE  ~Under(w2[i].at, w2[j].at)
      BY <1>5, <2>3
    <2>4. ASSUME NEW m \in 2..Len(w), i = l + m - 1, w2[i] = w[m],
                 NEW n \in 2..Len(w), j = l + n - 1, w2[j] = w[n]
          PROVE  ~Under(w2[i].at, w2[j].at)
      <3>1. m # n
        BY <1>6, <2>4
      <3> QED BY <1>2, <1>3, <2>4, <3>1
    <2>5. \/ i \in 1..l /\ w2[i] = more[i]
          \/ \E m \in 2..Len(w) : i = l + m - 1 /\ w2[i] = w[m]
      BY <1>1
    <2>6. \/ j \in 1..l /\ w2[j] = more[j]
          \/ \E m \in 2..Len(w) : j = l + m - 1 /\ w2[j] = w[m]
      BY <1>1
    <2> QED BY <2>1, <2>2, <2>3, <2>4, <2>5, <2>6, Zenon
  <1>7. CWork(w2)
    BY <1>1, <1>4, <1>6 DEF CWork
  <1> QED BY <1>7

(* Of the root. *)
LEMMA CWorkUnits == ASSUME NEW t \in DOMAIN Descriptor PROVE CWork(UnitItems(t, <<>>))
  <1>1. PICK it : it = Unit(Nothing, <<>>)
    OBVIOUS
  <1>2. it.at = <<>>
    BY <1>1 DEF Unit
  <1>3. IsSeq(<<>>) /\ 1..Len(<<>>) = {}
    BY EmptyIsSeq
  <1>4. Positive(it.at)
    BY <1>2, <1>3 DEF Positive
  <1>5. CLeaves(it, UnitItems(t, it.at))
    BY <1>4, CLeavesUnits
  <1> QED BY <1>2, <1>5 DEF CLeaves, CWork

(* What comes after an item keeps clear of those decoded before it, and of *)
(* the item itself.                                                        *)
LEMMA ClearNext ==
  ASSUME NEW w, CWork(w), w # <<>>, NEW more, CLeaves(Head(w), more),
         NEW x, \E j \in 1..Len(more \o Tail(w)) : x = (more \o Tail(w))[j]
  PROVE  /\ Clear(x, Head(w))
         /\ \A h : Positive(h.at) /\ (\A j \in 1..Len(w) : Clear(w[j], h)) => Clear(x, h)
  <1> PICK hd, l : hd = Head(w) /\ l = Len(more)
    OBVIOUS
  <1> PICK w2 : w2 = more \o Tail(w)
    OBVIOUS
  <1>1. /\ IsSeq(w2) /\ hd = w[1] /\ 1 \in 1..Len(w) /\ l \in Nat /\ Len(w) \in Nat
        /\ \A i \in 1..Len(w2) :
             \/ i \in 1..l /\ w2[i] = more[i]
             \/ \E j \in 2..Len(w) : i = l + j - 1 /\ w2[i] = w[j]
    BY NextWork DEF CLeaves, CWork
  <1>2. \A j \in 2..Len(w) : j \in 1..Len(w) /\ j # 1
    BY <1>1
  <1>3. ASSUME NEW j \in 2..Len(w), x = w[j]
        PROVE  /\ Clear(x, hd)
               /\ \A h : Positive(h.at) /\ (\A k \in 1..Len(w) : Clear(w[k], h)) => Clear(x, h)
    <2>1. ~Under(hd.at, x.at)
      BY <1>1, <1>2, <1>3 DEF CWork
    <2> QED BY <1>2, <1>3, <2>1 DEF Clear
  <1>4. ASSUME NEW i \in 1..l, x = more[i]
        PROVE  /\ Clear(x, hd)
               /\ \A h : Positive(h.at) /\ (\A k \in 1..Len(w) : Clear(w[k], h)) => Clear(x, h)
    <2>1. /\ CItemOK(x) /\ Under(x.at, hd.at)
          /\ \/ Len(x.at) > Len(hd.at)
             \/ x.at = hd.at /\ x.op = "value" /\ hd.op = "unit" /\ Form(hd) = "scalar"
      BY <1>4 DEF CLeaves
    <2>2. IsSeq(x.at) /\ IsSeq(hd.at)
      BY <2>1, CWorkHead DEF CItemOK, Positive
    <2>3. Len(x.at) \in Nat /\ Len(hd.at) \in Nat
      BY <2>2, SeqFacts
    <2>4. Clear(x, hd)
      <3>1. Len(x.at) > Len(hd.at) => ~Under(hd.at, x.at)
        BY <2>3 DEF Under
      <3> QED BY <2>1, <3>1 DEF Clear
    <2>5. ASSUME NEW h, Positive(h.at), \A k \in 1..Len(w) : Clear(w[k], h)
          PROVE  Clear(x, h)
      <3>1. Clear(hd, h) /\ IsSeq(h.at)
        BY <1>1, <2>5 DEF Positive
      <3>2. CASE ~Under(h.at, hd.at)
        <4>1. ASSUME Under(h.at, x.at) PROVE FALSE
          <5>1. IsSeq(h.at) /\ IsSeq(x.at) /\ IsSeq(hd.at) /\ Under(x.at, hd.at)
            BY <2>1, <2>2, <3>1
          <5>2. Under(h.at, hd.at)
            BY <4>1, <5>1, UnderUnder
          <5> QED BY <3>2, <5>2
        <4> QED BY <4>1 DEF Clear
      <3>3. CASE h.at = hd.at /\ hd.op = "value"
        <4>1. Len(x.at) > Len(hd.at)
          BY <2>1, <3>3
        <4>2. ~Under(h.at, x.at)
          BY <2>3, <3>3, <4>1 DEF Under
        <4> QED BY <4>2 DEF Clear
      <3> QED BY <3>1, <3>2, <3>3 DEF Clear
    <2> QED BY <2>4, <2>5
  <1>5. PICK k \in 1..Len(w2) : x = w2[k]
    OBVIOUS
  <1>6. \/ k \in 1..l /\ w2[k] = more[k]
        \/ \E j \in 2..Len(w) : k = l + j - 1 /\ w2[k] = w[j]
    BY <1>1
  <1>7. (\E i \in 1..l : x = more[i]) \/ (\E j \in 2..Len(w) : x = w[j])
    BY <1>5, <1>6
  <1> QED BY <1>3, <1>4, <1>7

-----------------------------------------------------------------------------
(* What the Go packer writes is bits.                                      *)

LEMMA BitsNothing == BitSeq(<<>>)
  <1>1. IsSeq(<<>>) /\ 1..Len(<<>>) = {}
    BY EmptyIsSeq
  <1> QED BY <1>1 DEF BitSeq

LEMMA BitsOne == ASSUME NEW x \in {0, 1} PROVE BitSeq(<<x>>)
  <1> PICK s : s = <<x>>
    OBVIOUS
  <1>1. IsSeq(s) /\ Len(s) = 1 /\ s[1] = x /\ 1..1 = {1}
    BY SingleIsSeq
  <1> QED BY <1>1 DEF BitSeq

LEMMA BitsConcat == ASSUME NEW s, NEW t, BitSeq(s), BitSeq(t) PROVE BitSeq(s \o t)
  <1> PICK u : u = s \o t
    OBVIOUS
  <1>1. /\ IsSeq(u) /\ Len(u) = Len(s) + Len(t)
        /\ \A i \in 1..Len(s) : u[i] = s[i]
        /\ \A i \in 1..Len(t) : u[Len(s) + i] = t[i]
    BY ConcatFacts DEF BitSeq
  <1>2. Len(s) \in Nat /\ Len(t) \in Nat
    BY SeqFacts DEF BitSeq
  <1>3. ASSUME NEW i \in 1..Len(u) PROVE u[i] \in {0, 1}
    <2>1. CASE i <= Len(s)
      BY <1>1, <1>2, <2>1 DEF BitSeq
    <2>2. CASE i > Len(s)
      <3> PICK j : j = i - Len(s)
        OBVIOUS
      <3>1. j \in 1..Len(t) /\ i = Len(s) + j
        BY <1>1, <1>2, <2>2
      <3> QED BY <1>1, <3>1 DEF BitSeq
    <2> QED BY <1>2, <2>1, <2>2
  <1>4. BitSeq(u)
    BY <1>1, <1>3 DEF BitSeq
  <1> QED BY <1>4

LEMMA BitsNumber == ASSUME NEW v \in Nat, NEW n \in Nat PROVE BitSeq(LowBits(v, n))
  <1> PICK s : s = LowBits(v, n)
    OBVIOUS
  <1>1. IsSeq(s) /\ Len(s) = n /\ \A i \in 1..n : s[i] = (v \div 2 ^ (n - i)) % 2
    BY LowBitsFacts
  <1>2. ASSUME NEW i \in 1..n PROVE s[i] \in {0, 1}
    <2>1. n - i \in Nat
      OBVIOUS
    <2>2. 2 ^ (n - i) \in Nat \ {0}
      BY <2>1, PowerPositive
    <2>3. PICK p \in Nat \ {0} : p = 2 ^ (n - i)
      BY <2>2
    <2>4. PICK q \in Int : q = v \div p
      OBVIOUS
    <2>5. q % 2 \in {0, 1}
      OBVIOUS
    <2> QED BY <1>1, <2>3, <2>4, <2>5
  <1>3. BitSeq(s)
    BY <1>1, <1>2 DEF BitSeq
  <1> QED BY <1>3

LEMMA BitsBytes == ASSUME NEW s, ByteSeq(s) PROVE BitSeq(RawBytes(s))
  <1> PICK m \in Nat \ {0}, l \in Nat : m = ByteSize /\ l = Len(s)
    BY ByteSizeType, SeqFacts DEF ByteSeq
  <1> PICK b : b = RawBytes(s)
    OBVIOUS
  <1>1. IsSeq(b) /\ Len(b) = l * m /\ l * m \in Nat
    BY RawBytesFacts DEF ByteSeq
  <1>2. PICK size \in Nat : size = l * m
    BY <1>1
  <1>3. b = [p \in 1..size |-> LowBits(s[(p - 1) \div m + 1], m)[((p - 1) % m) + 1]]
    BY <1>2 DEF RawBytes
  <1>4. ASSUME NEW p \in 1..size PROVE b[p] \in {0, 1}
    <2>1. PICK q, r : IsBitOf(p, m, l, q, r)
      BY <1>2, <1>4, ByteOfBit, Zenon
    <2>2. (p - 1) \div m = q /\ (p - 1) % m = r /\ q \in 0..(l - 1) /\ r \in 0..(m - 1)
      BY <2>1 DEF IsBitOf
    <2>3. s[q + 1] \in Nat
      <3>1. q + 1 \in 1..Len(s)
        BY <2>2
      <3>2. 2 ^ ByteSize \in Nat
        BY ByteSizeType, PowerPositive
      <3> QED BY <3>1, <3>2 DEF ByteSeq
    <2>4. PICK t : t = LowBits(s[q + 1], m)
      OBVIOUS
    <2>5. BitSeq(t) /\ Len(t) = m
      BY <2>3, <2>4, BitsNumber, LowBitsFacts
    <2>6. r + 1 \in 1..m
      BY <2>2
    <2>7. b[p] = t[r + 1]
      BY <1>3, <2>2, <2>4
    <2> QED BY <2>5, <2>6, <2>7 DEF BitSeq
  <1>5. BitSeq(b)
    BY <1>1, <1>2, <1>4 DEF BitSeq
  <1> QED BY <1>5

LEMMA BitsScalar ==
  ASSUME NEW fd, FieldWidths(fd), ScalarKind(fd), NEW v, Fits(fd, v)
  PROVE  BitSeq(ScalarBits(fd, v))
  <1>1. CASE fd.kind = "bool"
    <2>1. v \in Nat /\ 1 \in Nat /\ ScalarBits(fd, v) = LowBits(v, 1)
      BY <1>1 DEF Fits, ScalarBits
    <2> QED BY <2>1, BitsNumber
  <1>2. CASE fd.kind \in {"int", "enum"}
    <2>1. v \in 0..MaxOf(fd.bits) /\ fd.bits \in Nat
      BY <1>2 DEF Fits, FieldWidths
    <2>2. v \in Nat
      BY <2>1, MaxType
    <2>3. ScalarBits(fd, v) = LowBits(v, fd.bits)
      BY <1>2 DEF ScalarBits
    <2> QED BY <2>1, <2>2, <2>3, BitsNumber
  <1>3. CASE fd.kind = "bytes"
    <2>1. ByteSeq(v) /\ Len(v) \in Nat /\ fd.lengthBits \in Nat
      BY <1>3, SeqFacts DEF Fits, ByteSeq, FieldWidths
    <2>2. ScalarBits(fd, v) = LowBits(Len(v), fd.lengthBits) \o RawBytes(v)
      BY <1>3 DEF ScalarBits
    <2>3. BitSeq(LowBits(Len(v), fd.lengthBits)) /\ BitSeq(RawBytes(v))
      BY <2>1, BitsNumber, BitsBytes
    <2> QED BY <2>2, <2>3, BitsConcat
  <1> QED BY <1>1, <1>2, <1>3 DEF ScalarKind

LEMMA BitsKey ==
  ASSUME NEW fd, FieldWidths(fd), fd.key \in {"bool", "int", "bytes"}, NEW k \in KeysOf(fd)
  PROVE  BitSeq(KeyBitsOf(fd, k))
  <1>1. CASE fd.key = "bool"
    <2>1. k \in Nat /\ 1 \in Nat /\ KeyBitsOf(fd, k) = LowBits(k, 1)
      BY <1>1 DEF KeysOf, KeyBitsOf
    <2> QED BY <2>1, BitsNumber
  <1>2. CASE fd.key = "int"
    <2>1. k \in Nat /\ fd.keyBits \in Nat
      BY <1>2, ValuesAssumption DEF KeysOf, FieldWidths
    <2>2. KeyBitsOf(fd, k) = LowBits(k, fd.keyBits)
      BY <1>2 DEF KeyBitsOf
    <2> QED BY <2>1, <2>2, BitsNumber
  <1>3. CASE fd.key = "bytes"
    <2>1. k \in Seq(0..(2 ^ ByteSize - 1))
      BY <1>3, ValuesAssumption DEF KeysOf
    <2>2. ByteSeq(k) /\ Len(k) \in Nat /\ fd.keyLengthBits \in Nat
      BY <2>1, ByteSeqOf, SeqFacts DEF ByteSeq, FieldWidths
    <2>3. KeyBitsOf(fd, k) = LowBits(Len(k), fd.keyLengthBits) \o RawBytes(k)
      BY <1>3 DEF KeyBitsOf
    <2>4. BitSeq(LowBits(Len(k), fd.keyLengthBits)) /\ BitSeq(RawBytes(k))
      BY <2>2, BitsNumber, BitsBytes
    <2> QED BY <2>3, <2>4, BitsConcat
  <1> QED BY <1>1, <1>2, <1>3

LEMMA BitsEmitted ==
  ASSUME NEW it, ItemOK(it), NEW b, NEW more, NEW k, NEW k2, Emitted(it, b, more, k, k2)
  PROVE  BitSeq(b)
  <1>1. BitSeq(<<0>>) /\ BitSeq(<<1>>) /\ BitSeq(<<>>)
    BY BitsOne, BitsNothing
  <1>2. CASE Form(it) = "scalar"
    <2>1. EmitsScalar(it.u.fd, it.at, b, more, k, k2)
      BY <1>2 DEF Emitted
    <2>2. b = <<0>> \/ b = <<1>> \/ b = <<>>
      BY <2>1 DEF EmitsScalar
    <2> QED BY <1>1, <2>2
  <1>3. CASE Form(it) = "timestamp"
    <2>1. EmitsTimestamp(it.u.fd, it.at, b, more, k, k2)
      BY <1>3 DEF Emitted
    <2>2. CASE b = <<0>>
      BY <1>1, <2>2
    <2>3. CASE b # <<0>>
      <3>1. PICK w : w = TsBits(it.u.fd)
        OBVIOUS
      <3>2. PICK v \in 0..MaxOf(w) : b = <<1>> \o LowBits(v, w)
        BY <2>1, <2>3, <3>1 DEF EmitsTimestamp
      <3>3. w \in Nat
        <4>1. it.op = "unit" /\ it.u.unit = "field" /\ UnitOK(it.u)
          BY <1>3 DEF ItemOK, Form, UnitOK
        <4>2. FieldOK(it.u.fd)
          BY <4>1 DEF UnitOK
        <4> QED BY <3>1, <4>2 DEF FieldOK, FieldWidths, TsBits
      <3>4. v \in Nat
        BY <3>3, MaxType
      <3> QED BY <1>1, <3>2, <3>3, <3>4, BitsNumber, BitsConcat
    <2> QED BY <2>2, <2>3
  <1>4. CASE Form(it) = "message"
    <2>1. EmitsMessage(it.u.fd, it.at, b, more, k, k2)
      BY <1>4 DEF Emitted
    <2>2. b = <<0>> \/ b = <<1>>
      BY <2>1 DEF EmitsMessage
    <2> QED BY <1>1, <2>2
  <1>5. CASE Form(it) \in {"list", "map"}
    <2>1. PICK empty : EmitsCount(it.u.fd, it.at, b, more, k, k2, empty)
      BY <1>5 DEF Emitted
    <2>2. it.op = "unit" /\ it.u.unit = "field" /\ UnitOK(it.u)
      BY <1>5 DEF ItemOK, Form, UnitOK
    <2>3. it.u.fd.countBits \in Nat
      BY <2>2 DEF UnitOK, FieldOK, FieldWidths
    <2>4. PICK n \in 0..MaxOf(it.u.fd.countBits) : b = LowBits(n, it.u.fd.countBits)
      BY <2>1 DEF EmitsCount
    <2>5. n \in Nat
      BY <2>3, MaxType
    <2> QED BY <2>3, <2>4, <2>5, BitsNumber
  <1>6. CASE Form(it) = "oneof"
    <2>1. EmitsOneof(it.u, it.at, b, more, k, k2)
      BY <1>6 DEF Emitted
    <2>2. it.op = "unit" /\ it.u.unit = "oneof" /\ UnitOK(it.u)
      BY <1>6 DEF ItemOK, Form, UnitOK
    <2>3. it.u.selectorBits \in Nat /\ Len(it.u.fields) \in Nat
      BY <2>2, SeqFacts DEF UnitOK
    <2>4. PICK n \in 0..Len(it.u.fields) : b = LowBits(n, it.u.selectorBits)
      BY <2>1 DEF EmitsOneof
    <2>5. n \in Nat
      BY <2>3
    <2> QED BY <2>3, <2>4, <2>5, BitsNumber
  <1>7. CASE Form(it) = "value"
    <2>1. EmitsValue(it.u, it.at, b, more, k, k2)
      BY <1>7 DEF Emitted
    <2>2. PICK v : Fits(it.u, v) /\ b = ScalarBits(it.u, v)
      BY <2>1 DEF EmitsValue
    <2>3. it.op = "value" /\ it.u.kind # "message" /\ FieldOK(it.u)
      BY <1>7 DEF ItemOK, Form
    <2>4. FieldWidths(it.u) /\ ScalarKind(it.u)
      BY <2>3 DEF FieldOK, IsField, ScalarKind
    <2> QED BY <2>2, <2>4, BitsScalar
  <1>8. CASE Form(it) = "entry"
    <2>1. EmitsEntry(it.u, it.at, b, more, k, k2)
      BY <1>8 DEF Emitted
    <2>2. it.op = "value" /\ FieldOK(it.u) /\ it.u.card = "map"
      BY <1>8 DEF ItemOK, Form
    <2> PICK fd : fd = it.u
      OBVIOUS
    <2>3. FieldWidths(fd) /\ fd.key \in {"bool", "int", "bytes"}
          /\ fd.kind \in {"bool", "int", "enum", "bytes", "message"}
      BY <2>2 DEF FieldOK, IsField
    <2>4. CASE fd.kind # "message"
      <3>0. PICK key \in KeysOf(fd) :
              \E v : Fits(fd, v) /\ b = KeyBitsOf(fd, key) \o ScalarBits(fd, v)
        BY <2>1, <2>4 DEF EmitsEntry
      <3>1. PICK v : Fits(fd, v) /\ b = KeyBitsOf(fd, key) \o ScalarBits(fd, v)
        BY <3>0
      <3>2. ScalarKind(fd)
        BY <2>3, <2>4 DEF ScalarKind
      <3> QED BY <2>3, <3>1, <3>2, BitsScalar, BitsKey, BitsConcat
    <2>5. CASE fd.kind = "message"
      <3>1. PICK key \in KeysOf(fd) : b = KeyBitsOf(fd, key)
        BY <2>1, <2>5 DEF EmitsEntry
      <3> QED BY <2>3, <3>1, BitsKey
    <2> QED BY <2>4, <2>5
  <1>9. CASE Form(it) = "nested"
    <2>1. EmitsNested(it.u, it.at, b, more, k, k2)
      BY <1>9 DEF Emitted
    <2> QED BY <1>1, <2>1 DEF EmitsNested
  <1> QED BY <1>2, <1>3, <1>4, <1>5, <1>6, <1>7, <1>8, <1>9 DEF Form

-----------------------------------------------------------------------------
(* The history of the decoder, as the struct c tells it: W[i] is its work   *)
(* and P[i] its position after i items, now n.                             *)

PastItem(c, w, w2, from, to) ==
  /\ IsSeq(w) /\ w # <<>> /\ CItemOK(Head(w))
  /\ Spans(data, EncB(c, Head(w)), from, to)
  /\ w2 = EncM(c, Head(w)) \o Tail(w)

Past(c, W, P, n) ==
  /\ n \in Nat /\ W[0] = UnitItems(root, <<>>) /\ P[0] = 0
  /\ \A i \in 0..n : P[i] \in Nat /\ P[i] <= P[n]
  /\ \A i \in 0..(n - 1) : PastItem(c, W[i], W[i + 1], P[i], P[i + 1])

(* None of the items of w, when it is decoded, disturbs what is past. *)
ClearOf(w, W, n) == \A i \in 0..(n - 1) : \A j \in 1..Len(w) : Clear(w[j], Head(W[i]))

LEMMA PastStarts ==
  ASSUME NEW c, root \in Roots
  PROVE  LET W == [i \in {0} |-> UnitItems(root, <<>>)]
             P == [i \in {0} |-> 0]
         IN /\ Past(c, W, P, 0) /\ W[0] = UnitItems(root, <<>>) /\ P[0] = 0
            /\ ClearOf(UnitItems(root, <<>>), W, 0)
  <1>1. PICK W, P : W = [i \in {0} |-> UnitItems(root, <<>>)] /\ P = [i \in {0} |-> 0]
    OBVIOUS
  <1>2. W[0] = UnitItems(root, <<>>) /\ P[0] = 0
    BY <1>1
  <1>3. 0 \in Nat /\ 0..(0 - 1) = {} /\ 0..0 = {0} /\ 0 <= 0
    OBVIOUS
  <1>4. Past(c, W, P, 0) /\ ClearOf(UnitItems(root, <<>>), W, 0)
    BY <1>2, <1>3 DEF Past, ClearOf
  <1> QED BY <1>1, <1>2, <1>4

(* The history with one more item, of the new struct c. *)
PastGoesOn(c, W, P, n, w, to) ==
  \E W2, P2 : /\ Past(c, W2, P2, n + 1) /\ W2[n + 1] = w /\ P2[n + 1] = to
              /\ ClearOf(w, W2, n + 1)

LEMMA PastGrows ==
  ASSUME NEW c, NEW c2, NEW W, NEW P, NEW n, Past(c, W, P, n), CWork(W[n]), W[n] # <<>>,
         ClearOf(W[n], W, n), Only(c, c2, PutAt(Head(W[n]))),
         NEW to \in Nat, Spans(data, EncB(c2, Head(W[n])), P[n], to),
         Form(Head(W[n])) = "list" => FlagIn(c2, Head(W[n]).at) \in Nat
  PROVE  /\ PastGoesOn(c2, W, P, n, EncM(c2, Head(W[n])) \o Tail(W[n]), to)
         /\ CWork(EncM(c2, Head(W[n])) \o Tail(W[n]))
  <1> PICK h, more, w2 : h = Head(W[n]) /\ more = EncM(c2, h) /\ w2 = more \o Tail(W[n])
    OBVIOUS
  <1>0. n \in Nat /\ CItemOK(h) /\ IsSeq(W[n]) /\ P[n] \in Nat
    BY CWorkHead DEF Past
  <1>1. CLeaves(h, more)
    BY <1>0, CLeavesEnc
  <1>2. CWork(w2)
    BY <1>1, CWorkNext
  <1>3. P[n] <= to
    <2>1. IsSeq(EncB(c2, h)) /\ to = P[n] + Len(EncB(c2, h))
      BY DEF Spans
    <2>2. PICK l \in Nat : l = Len(EncB(c2, h))
      BY <2>1, SeqFacts
    <2> QED BY <1>0, <2>1, <2>2
  <1>4. PICK W2, P2 : /\ W2 = [i \in 0..(n + 1) |-> IF i = n + 1 THEN w2 ELSE W[i]]
                      /\ P2 = [i \in 0..(n + 1) |-> IF i = n + 1 THEN to ELSE P[i]]
    OBVIOUS
  <1>5. /\ W2[n + 1] = w2 /\ P2[n + 1] = to
        /\ \A i \in 0..n : W2[i] = W[i] /\ P2[i] = P[i]
    <2>1. n + 1 \in 0..(n + 1) /\ \A i \in 0..n : i \in 0..(n + 1) /\ i # n + 1
      BY <1>0
    <2> QED BY <1>4, <2>1
  <1>6. ASSUME NEW i \in 0..(n - 1)
        PROVE  /\ PastItem(c2, W[i], W[i + 1], P[i], P[i + 1])
               /\ Positive(Head(W[i]).at)
    <2> PICK g : g = Head(W[i])
      OBVIOUS
    <2>1. PastItem(c, W[i], W[i + 1], P[i], P[i + 1])
      BY DEF Past
    <2>2. CItemOK(g) /\ Positive(g.at) /\ Positive(h.at)
      BY <1>0, <2>1 DEF PastItem, CItemOK
    <2>3. Clear(h, g)
      <3>1. h = W[n][1] /\ 1 \in 1..Len(W[n])
        BY <1>0, TailFacts
      <3> QED BY <3>1 DEF ClearOf
    <2>4. EncB(c2, g) = EncB(c, g) /\ EncM(c2, g) = EncM(c, g)
      BY <2>2, <2>3, ClearPlaces, EncAlike
    <2> QED BY <2>1, <2>2, <2>4 DEF PastItem
  <1>7. ASSUME NEW i \in 0..n PROVE PastItem(c2, W2[i], W2[i + 1], P2[i], P2[i + 1])
    <2>1. CASE i = n
      <3>1. PastItem(c2, W[n], w2, P[n], to)
        BY <1>0 DEF PastItem
      <3> QED BY <1>0, <1>5, <2>1, <3>1
    <2>2. CASE i # n
      <3>1. i \in 0..(n - 1) /\ i + 1 \in 0..n
        BY <1>0, <2>2
      <3> QED BY <1>5, <1>6, <3>1
    <2> QED BY <2>1, <2>2
  <1>8. ASSUME NEW i \in 0..(n + 1) PROVE P2[i] \in Nat /\ P2[i] <= P2[n + 1]
    <2>1. CASE i = n + 1
      BY <1>5, <2>1
    <2>2. CASE i # n + 1
      <3>1. i \in 0..n
        BY <1>0, <2>2
      <3>2. P[i] \in Nat /\ P[i] <= P[n]
        BY <3>1 DEF Past
      <3> QED BY <1>0, <1>3, <1>5, <3>1, <3>2
    <2> QED BY <2>1, <2>2
  <1>9. Past(c2, W2, P2, n + 1)
    <2>1. n + 1 \in Nat /\ (n + 1) - 1 = n /\ 0 \in 0..n
      BY <1>0
    <2>2. W2[0] = UnitItems(root, <<>>) /\ P2[0] = 0
      BY <1>5, <2>1 DEF Past
    <2> QED BY <1>7, <1>8, <2>1, <2>2 DEF Past
  <1>10. ClearOf(w2, W2, n + 1)
    <2>0. (n + 1) - 1 = n
      BY <1>0
    <2> SUFFICES ASSUME NEW i \in 0..n, NEW j \in 1..Len(w2) PROVE Clear(w2[j], Head(W2[i]))
      BY <2>0 DEF ClearOf
    <2>1. CASE i = n
      <3>1. Clear(w2[j], h)
        BY <1>1, ClearNext
      <3> QED BY <1>5, <2>1, <3>1
    <2>2. CASE i # n
      <3>1. i \in 0..(n - 1)
        BY <1>0, <2>2
      <3>2. Positive(Head(W[i]).at) /\ \A k \in 1..Len(W[n]) : Clear(W[n][k], Head(W[i]))
        BY <1>6, <3>1 DEF ClearOf
      <3>3. PICK g : g = Head(W[i])
        OBVIOUS
      <3>4. Clear(w2[j], g)
        BY <1>1, <3>2, <3>3, ClearNext
      <3>5. i \in 0..n /\ W2[i] = W[i]
        BY <1>0, <1>5, <3>1
      <3> QED BY <3>3, <3>4, <3>5
    <2> QED BY <2>1, <2>2
  <1>11. PastGoesOn(c2, W, P, n, w2, to)
    BY <1>5, <1>9, <1>10, Zenon DEF PastGoesOn
  <1> QED BY <1>2, <1>11

-----------------------------------------------------------------------------
(* The inductive invariant: what was packed is bits, the decoder has a     *)
(* history, and the encoder is somewhere in it.                            *)

Behind(W, P, n) == /\ Past(cmsg, W, P, n) /\ W[n] = work /\ P[n] = pos
                   /\ ClearOf(work, W, n)

Told == /\ BitSeq(data) /\ pos \in Nat /\ pos <= Len(data) /\ CWork(work)
        /\ \E W, P, n : Behind(W, P, n)

Between(W, P, n, m) == /\ Past(cmsg, W, P, n) /\ W[n] = <<>> /\ P[n] = pos
                       /\ m \in 0..n /\ work = W[m] /\ Len(echo) = P[m]

Retold == /\ BitSeq(data) /\ pos \in Nat /\ pos <= Len(data)
          /\ room \in Nat /\ IsSeq(echo) /\ Len(echo) <= room
          /\ \A j \in 1..Len(echo) : echo[j] = data[j]
          /\ \E W, P, n, m : Between(W, P, n, m)

EchoInv ==
  /\ EncoderInv
  /\ phase \in {"start", "packing"} => BitSeq(bits)
  /\ phase \in {"start", "packing", "decoding"} => echo = <<>>
  /\ ~cut => /\ phase = "decoding" => Told
             /\ phase = "encoding" => Retold
  /\ EchoIsIdentical

LEMMA EchoInit == CInit => EchoInv
  BY InitInv, BitsNothing DEF CInit, Init, EchoInv, EchoIsIdentical

LEMMA EchoPack == ASSUME EchoInv, StartPack \/ Pack, UNCHANGED cVars PROVE EchoInv'
  <1>1. EncoderInv' /\ phase' \in {"packing", "PackError", "ValidationError"} /\ echo' = echo
    BY StartInv, PackInv, PackPhases DEF EchoInv, cVars
  <1>2. phase \in {"start", "packing"}
    BY PackPhase DEF StartPack
  <1>3. phase' = "packing" => BitSeq(bits')
    <2>1. CASE StartPack
      <3>1. bits' = bits
        BY <2>1 DEF StartPack, Fail, FailWith, packVars
      <3> QED BY <1>2, <3>1 DEF EchoInv
    <2>2. CASE Pack
      <3>1. EncoderInv /\ phase = "packing" /\ work # <<>> /\ BitSeq(bits)
        BY <1>2, <2>2, PackPhase DEF EchoInv
      <3>2. Coding
        BY <3>1, ItemReady DEF Coding
      <3>3. EncoderSteps
        BY <2>2, <3>2, EncoderStep
      <3>4. ASSUME NEW b, NEW more, Encodes(b, more) PROVE BitSeq(bits')
        <4>1. bits' = bits \o b /\ Emitted(item, b, more, kept, kept') /\ ItemOK(item)
          BY <3>2, <3>4 DEF Encodes, Coding
        <4>2. BitSeq(b)
          BY <4>1, BitsEmitted
        <4> QED BY <3>1, <4>1, <4>2, BitsConcat
      <3> QED BY <3>3, <3>4 DEF EncoderSteps
    <2> QED BY <2>1, <2>2
  <1> QED BY <1>1, <1>2, <1>3 DEF EchoInv, EchoIsIdentical

LEMMA EchoDeliver == ASSUME EchoInv, DeliverTo("decoding"), UNCHANGED cVars PROVE EchoInv'
  <1>1. /\ phase = "packing" /\ phase' = "decoding" /\ root' = root /\ pos' = pos
        /\ work' = UnitItems(root, <<>>) /\ echo' = echo /\ cmsg' = cmsg
    BY DEF DeliverTo, cVars
  <1>2. EncoderInv' /\ root \in Roots /\ root \in DOMAIN Descriptor /\ pos = 0 /\ echo = <<>>
        /\ BitSeq(bits)
    BY <1>1, RootType DEF EchoInv, EncoderInv, Untouched
  <1>3. BitSeq(data')
    <2>1. PICK n \in 0..Bytes : data' = [p \in 1..(n * ByteSize) |->
                                           IF p <= Len(bits) THEN bits[p] ELSE 0]
      BY DEF DeliverTo
    <2>2. n * ByteSize \in Nat
      <3> PICK m \in Nat \ {0} : m = ByteSize
        BY ByteSizeType
      <3>1. n \in Nat
        OBVIOUS
      <3>2. n * m \in Nat
        BY <3>1
      <3> QED BY <3>2
    <2>3. PICK l \in Nat : l = n * ByteSize
      BY <2>2
    <2>4. PICK d : d = data'
      OBVIOUS
    <2>5. d = [p \in 1..l |-> IF p <= Len(bits) THEN bits[p] ELSE 0]
      BY <2>1, <2>3, <2>4
    <2>6. IsSeq(d) /\ Len(d) = l
      BY <2>5, FunctionIsSeq
    <2>7. ASSUME NEW p \in 1..l PROVE d[p] \in {0, 1}
      <3>1. Len(bits) \in Nat
        BY <1>2, SeqFacts DEF BitSeq
      <3> QED BY <1>2, <2>5, <3>1 DEF BitSeq
    <2>8. BitSeq(d)
      BY <2>6, <2>7 DEF BitSeq
    <2> QED BY <2>4, <2>8
  <1>4. pos' \in Nat /\ pos' <= Len(data')
    BY <1>1, <1>2, <1>3, SeqFacts DEF BitSeq
  <1>5. CWork(work')
    BY <1>1, <1>2, CWorkUnits
  <1>6. \E W, P, n : Behind(W, P, n)'
    <2>1. PICK W, P : W = [i \in {0} |-> UnitItems(root, <<>>)] /\ P = [i \in {0} |-> 0]
      OBVIOUS
    <2>2. /\ Past(cmsg, W, P, 0) /\ W[0] = UnitItems(root, <<>>) /\ P[0] = 0
          /\ ClearOf(UnitItems(root, <<>>), W, 0)
      BY <1>2, <2>1, PastStarts
    <2>3. Past(cmsg, W, P, 0)'
      <3>1. 0..(0 - 1) = {}
        OBVIOUS
      <3> QED BY <1>1, <2>2, <3>1 DEF Past
    <2>4. Behind(W, P, 0)'
      BY <1>1, <1>2, <2>2, <2>3 DEF Behind
    <2> QED BY <2>4
  <1>7. Told'
    BY <1>3, <1>4, <1>5, <1>6 DEF Told
  <1> QED BY <1>1, <1>2, <1>7 DEF EchoInv, EchoIsIdentical

LEMMA DecodePhase ==
  ASSUME Decode
  PROVE  /\ phase = "decoding" /\ work # <<>> /\ phase' \in {"decoding", "DecodeError"}
         /\ root' = root /\ echo' = echo /\ (cut => cut')
  <1>1. \A msg : Refuse(msg) => phase' = "DecodeError" /\ root' = root /\ echo' = echo
    BY DEF Refuse
  <1>2. \A n, more, msg : Take(n, more, msg) => phase' = phase /\ root' = root /\ echo' = echo
    BY DEF Take
  <1>3. cut => cut'
    BY DEF Decode, DecodeList, DecodeBytes, CutShort
  <1>4. phase = "decoding" /\ work # <<>>
    BY DEF Decode, DecodeScalar, DecodeTimestamp, DecodeMessage, DecodeList, SkipMap, DecodeOneof,
           DecodeValue, DecodeBytes, DecodeNested, DecodingField, Decoding
  <1>5. (\E msg : Refuse(msg)) \/ (\E n, more, msg : Take(n, more, msg))
    BY DEF Decode, DecodeScalar, DecodeTimestamp, DecodeMessage, DecodeList, SkipMap, DecodeOneof,
           DecodeValue, DecodeBytes, DecodeNested
  <1> QED BY <1>1, <1>2, <1>3, <1>4, <1>5

LEMMA EchoDecode == ASSUME EchoInv, Decode PROVE EchoInv'
  <1>1. /\ phase = "decoding" /\ work # <<>> /\ phase' \in {"decoding", "DecodeError"}
        /\ root' = root /\ echo' = echo /\ (cut => cut') /\ echo = <<>> /\ root \in Roots
    BY DecodePhase DEF EchoInv, EncoderInv
  <1>2. EncoderInv'
    BY <1>1 DEF EncoderInv
  <1>3. ASSUME ~cut', phase' = "decoding" PROVE Told'
    <2>1. Told /\ CWork(work) /\ BitSeq(data) /\ pos \in Nat /\ pos <= Len(data)
      BY <1>1, <1>3 DEF EchoInv, Told
    <2>2. PICK W, P, n : Behind(W, P, n)
      BY <2>1 DEF Told
    <2>3. AtCItem
      BY <1>1, <2>1, CWorkHead DEF AtCItem, item
    <2>4. CKept /\ CDecoded
      BY <1>3, <2>3, CDecodeStep DEF CDecodes
    <2>5. PICK c2, to, h : c2 = cmsg' /\ to = pos' /\ h = item
      OBVIOUS
    <2>6. /\ to \in Nat /\ Spans(data, EncB(c2, h), pos, to) /\ Only(cmsg, c2, PutAt(h))
          /\ work' = EncM(c2, h) \o Tail(work)
          /\ Form(h) = "list" => FlagIn(c2, h.at) \in Nat
      BY <2>4, <2>5 DEF CDecoded
    <2>7. h = Head(work) /\ W[n] = work /\ P[n] = pos /\ Past(cmsg, W, P, n) /\ ClearOf(work, W, n)
      BY <2>2, <2>5 DEF Behind, item
    <2>8. PastGoesOn(c2, W, P, n, work', to) /\ CWork(work')
      BY <1>1, <2>1, <2>6, <2>7, PastGrows
    <2>9. PICK W2, P2 : /\ Past(c2, W2, P2, n + 1) /\ W2[n + 1] = work' /\ P2[n + 1] = to
                        /\ ClearOf(work', W2, n + 1)
      BY <2>8 DEF PastGoesOn
    <2>10. UNCHANGED <<root, data>>
      BY <2>4 DEF CKept
    <2>11. Past(cmsg, W2, P2, n + 1)'
      BY <2>5, <2>9, <2>10 DEF Past, PastItem
    <2>12. Behind(W2, P2, n + 1)'
      BY <2>5, <2>9, <2>11 DEF Behind
    <2>13. BitSeq(data') /\ pos' \in Nat /\ pos' <= Len(data')
      BY <2>1, <2>5, <2>6, <2>10 DEF Spans
    <2> QED BY <2>8, <2>12, <2>13 DEF Told
  <1> QED BY <1>1, <1>2, <1>3 DEF EchoInv, EchoIsIdentical

LEMMA EchoFinishDecode == ASSUME EchoInv, FinishDecode PROVE EchoInv'
  <1>1. /\ phase = "decoding" /\ work = <<>> /\ phase' = "encoding"
        /\ work' = UnitItems(root, <<>>) /\ echo' = <<>> /\ root \in Roots /\ cut' = cut
        /\ UNCHANGED <<root, data, pos, cmsg, echo>>
    BY DEF FinishDecode, unpackVars, EchoInv, EncoderInv, CUnits
  <1>2. EncoderInv'
    BY <1>1 DEF EncoderInv
  <1>3. ASSUME ~cut PROVE Retold'
    <2>1. Told /\ BitSeq(data) /\ pos \in Nat /\ pos <= Len(data)
      BY <1>1, <1>3 DEF EchoInv, Told
    <2>2. PICK W, P, n : Behind(W, P, n)
      BY <2>1 DEF Told
    <2>3. room' \in Nat
      <3>1. Len(data) \in Nat
        BY <2>1, SeqFacts DEF BitSeq
      <3>2. PICK m \in Nat : m = ByteSize
        BY ByteSizeType
      <3>3. Len(data) - m \in Int /\ Len(data) \in Int
        BY <3>1
      <3>4. room' \in {k \in {Len(data) - m, Len(data)} : k >= 0}
        BY <3>2 DEF FinishDecode
      <3> QED BY <3>3, <3>4
    <2>4. IsSeq(<<>>) /\ Len(<<>>) = 0 /\ 1..0 = {}
      BY EmptyIsSeq
    <2>5. n \in Nat /\ W[0] = UnitItems(root, <<>>) /\ P[0] = 0 /\ 0 \in 0..n
      BY <2>2 DEF Behind, Past
    <2>6. Past(cmsg, W, P, n)'
      BY <1>1, <2>2 DEF Behind, Past, PastItem
    <2>7. Between(W, P, n, 0)'
      BY <1>1, <2>2, <2>4, <2>5, <2>6 DEF Between, Behind
    <2>8. \E m : Between(W, P, n, m)'
      BY <2>7
    <2>9. Len(echo') <= room' /\ IsSeq(echo') /\ \A j \in 1..Len(echo') : echo'[j] = data'[j]
      BY <1>1, <2>3, <2>4
    <2> QED BY <1>1, <2>1, <2>3, <2>8, <2>9 DEF Retold
  <1> QED BY <1>1, <1>2, <1>3 DEF EchoInv, EchoIsIdentical

LEMMA EncodePhase ==
  ASSUME Encode
  PROVE  /\ phase = "encoding" /\ work # <<>> /\ phase' \in {"encoding", "EncodeError"}
         /\ UNCHANGED <<root, data, pos, cmsg, room, cut>>
  <1>1. phase = "encoding" /\ work # <<>>
    BY DEF Encode, EncodeScalar, EncodeTimestamp, EncodeMessage, EncodeList, SkipMapAgain,
           EncodeOneof, EncodeValue, EncodeNested, EncodingField, Encoding
  <1>2. \E b, more : Write(b, more)
    BY DEF Encode, EncodeScalar, EncodeTimestamp, EncodeMessage, EncodeList, SkipMapAgain,
           EncodeOneof, EncodeValue, EncodeNested
  <1> QED BY <1>1, <1>2 DEF Write, unpackVars

LEMMA EchoEncode == ASSUME EchoInv, Encode PROVE EchoInv'
  <1>1. /\ phase = "encoding" /\ work # <<>> /\ phase' \in {"encoding", "EncodeError"}
        /\ UNCHANGED <<root, data, pos, cmsg, room, cut>> /\ root \in Roots
    BY EncodePhase DEF EchoInv, EncoderInv
  <1>2. EncoderInv'
    BY <1>1 DEF EncoderInv
  <1>3. ASSUME ~cut PROVE IF phase' = "encoding" THEN Retold' ELSE pos > room
    <2>1. Retold
      BY <1>1, <1>3 DEF EchoInv
    <2>2. PICK W, P, n, m : Between(W, P, n, m)
      BY <2>1 DEF Retold
    <2>3. /\ n \in Nat /\ m \in 0..n /\ W[n] = <<>> /\ W[m] = work /\ P[n] = pos /\ Len(echo) = P[m]
          /\ Past(cmsg, W, P, n)
      BY <2>2 DEF Between, Past
    <2>4. m \in 0..(n - 1) /\ m + 1 \in 0..n
      <3>1. m # n
        BY <1>1, <2>3
      <3> QED BY <2>3, <3>1
    <2>5. PastItem(cmsg, work, W[m + 1], P[m], P[m + 1])
      BY <2>3, <2>4 DEF Past
    <2> PICK b, more : b = EncB(cmsg, item) /\ more = EncM(cmsg, item)
      OBVIOUS
    <2>6. /\ CItemOK(item) /\ IsSeq(b) /\ P[m + 1] = P[m] + Len(b) /\ P[m + 1] <= Len(data)
          /\ \A i \in 1..Len(b) : b[i] = data[P[m] + i]
          /\ W[m + 1] = more \o Tail(work)
      BY <2>5 DEF PastItem, Spans, item
    <2>7. Write(b, more)
      BY <2>6, CEncodeStep DEF Writes
    <2>8. /\ P[m] \in Nat /\ P[m + 1] \in Nat /\ P[m + 1] <= pos /\ Len(b) \in Nat
          /\ Len(echo) \in Nat /\ room \in Nat /\ IsSeq(echo) /\ pos \in Nat
      BY <2>1, <2>3, <2>4, <2>6, SeqFacts DEF Past, Retold
    <2>9. CASE Len(echo) + Len(b) > room
      <3>1. phase' = "EncodeError"
        BY <2>7, <2>9 DEF Write
      <3> QED BY <2>3, <2>6, <2>8, <2>9, <3>1
    <2>10. CASE ~(Len(echo) + Len(b) > room)
      <3>1. echo' = echo \o b /\ work' = more \o Tail(work) /\ phase' = "encoding"
        BY <1>1, <2>7, <2>10 DEF Write
      <3>2. PICK e : e = echo'
        OBVIOUS
      <3>3. /\ IsSeq(e) /\ Len(e) = Len(echo) + Len(b)
            /\ \A i \in 1..Len(echo) : e[i] = echo[i]
            /\ \A i \in 1..Len(b) : e[Len(echo) + i] = b[i]
        BY <2>6, <2>8, <3>1, <3>2, ConcatFacts
      <3>4. ASSUME NEW j \in 1..Len(e) PROVE e[j] = data[j]
        <4>1. CASE j <= Len(echo)
          <5>1. j \in 1..Len(echo)
            BY <2>8, <3>3, <4>1
          <5> QED BY <2>1, <3>3, <5>1 DEF Retold
        <4>2. CASE j > Len(echo)
          <5> PICK i : i = j - Len(echo)
            OBVIOUS
          <5>1. i \in 1..Len(b) /\ j = Len(echo) + i
            BY <2>8, <3>3, <4>2
          <5>2. e[j] = b[i] /\ b[i] = data[P[m] + i]
            BY <2>6, <3>3, <5>1
          <5> QED BY <2>3, <5>1, <5>2
        <4> QED BY <2>8, <3>3, <4>1, <4>2
      <3>5. Past(cmsg, W, P, n)'
        BY <1>1, <2>3 DEF Past, PastItem
      <3>6. Between(W, P, n, m + 1)'
        BY <1>1, <2>3, <2>4, <2>6, <3>1, <3>2, <3>3, <3>5 DEF Between
      <3>7. \E W2, P2, n2, m2 : Between(W2, P2, n2, m2)'
        BY <3>6
      <3>8. Len(e) <= room
        BY <2>8, <2>10, <3>3
      <3>9. BitSeq(data) /\ pos \in Nat /\ pos <= Len(data) /\ room \in Nat
        BY <2>1 DEF Retold
      <3>10. Retold'
        BY <1>1, <3>2, <3>3, <3>4, <3>7, <3>8, <3>9 DEF Retold
      <3> QED BY <3>1, <3>10
    <2> QED BY <2>9, <2>10
  <1>4. phase' = "EncodeError" /\ ~cut => pos > room
    BY <1>3
  <1>5. EchoIsIdentical'
    BY <1>1, <1>4 DEF EchoIsIdentical
  <1> QED BY <1>1, <1>2, <1>3, <1>5 DEF EchoInv

LEMMA EchoFinishEncode == ASSUME EchoInv, FinishEncode PROVE EchoInv'
  <1>1. /\ phase = "encoding" /\ work = <<>> /\ phase' = "encoded" /\ root \in Roots
        /\ UNCHANGED <<root, data, pos, cmsg, echo, room, cut>>
    BY DEF FinishEncode, unpackVars, cVars, EchoInv, EncoderInv
  <1>2. EncoderInv'
    BY <1>1 DEF EncoderInv
  <1>3. ASSUME ~cut PROVE echo = SubSeq(data, 1, pos) /\ pos <= room
    <2>1. Retold
      BY <1>1, <1>3 DEF EchoInv
    <2>2. PICK W, P, n, m : Between(W, P, n, m)
      BY <2>1 DEF Retold
    <2>3. /\ n \in Nat /\ m \in 0..n /\ W[m] = <<>> /\ P[n] = pos /\ Len(echo) = P[m]
          /\ Past(cmsg, W, P, n)
      BY <1>1, <2>2 DEF Between, Past
    <2>4. m = n
      <3> SUFFICES ASSUME m # n PROVE FALSE
        OBVIOUS
      <3>1. m \in 0..(n - 1)
        BY <2>3
      <3>2. PastItem(cmsg, W[m], W[m + 1], P[m], P[m + 1])
        BY <2>3, <3>1 DEF Past
      <3> QED BY <2>3, <3>2 DEF PastItem
    <2>5. /\ Len(echo) = pos /\ pos <= room /\ pos \in Nat /\ pos <= Len(data) /\ IsSeq(data)
          /\ IsSeq(echo) /\ \A j \in 1..pos : echo[j] = data[j]
      BY <2>1, <2>3, <2>4 DEF Retold, BitSeq
    <2>6. PICK s : s = SubSeq(data, 1, pos)
      OBVIOUS
    <2>7. IsSeq(s) /\ Len(s) = pos /\ \A j \in 1..pos : s[j] = data[j]
      <3>1. 0 + 1 = 1 /\ 0 + pos = pos /\ 0 \in Nat /\ 0 + pos <= Len(data)
        BY <2>5
      <3>2. Slice(SubSeq(data, 0 + 1, 0 + pos), data, 0, pos)
        BY <2>5, <3>1, SliceIsSlice, Zenon
      <3>3. s = SubSeq(data, 0 + 1, 0 + pos)
        BY <2>6, <3>1
      <3>4. Slice(s, data, 0, pos)
        BY <3>2, <3>3
      <3>5. \A j \in 1..pos : 0 + j = j
        BY <2>5
      <3> QED BY <3>4, <3>5 DEF Slice
    <2>8. echo = s
      BY <2>5, <2>7, SeqsEqual
    <2> QED BY <2>5, <2>6, <2>8
  <1>4. EchoIsIdentical'
    BY <1>1, <1>3 DEF EchoIsIdentical
  <1> QED BY <1>1, <1>2, <1>4 DEF EchoInv

LEMMA EchoStutter == ASSUME EchoInv, UNCHANGED allVars PROVE EchoInv'
  <1>1. EncoderInv'
    BY StutterInv DEF EchoInv, allVars
  <1>2. UNCHANGED <<phase, root, work, bits, data, pos, cmsg, echo, room, cut>>
    BY DEF allVars, vars, cVars
  <1>3. ASSUME NEW W, NEW P, NEW n, Past(cmsg, W, P, n) PROVE Past(cmsg, W, P, n)'
    BY <1>2, <1>3 DEF Past, PastItem
  <1>4. Told => Told'
    <2> SUFFICES ASSUME Told PROVE Told'
      OBVIOUS
    <2>1. PICK W, P, n : Behind(W, P, n)
      BY DEF Told
    <2>2. Behind(W, P, n)'
      BY <1>2, <1>3, <2>1 DEF Behind
    <2>3. \E W2, P2, n2 : Behind(W2, P2, n2)'
      BY <2>2
    <2>4. BitSeq(data) /\ pos \in Nat /\ pos <= Len(data) /\ CWork(work)
      BY DEF Told
    <2> QED BY <1>2, <2>3, <2>4 DEF Told
  <1>5. Retold => Retold'
    <2> SUFFICES ASSUME Retold PROVE Retold'
      OBVIOUS
    <2>1. PICK W, P, n, m : Between(W, P, n, m)
      BY DEF Retold
    <2>2. Between(W, P, n, m)'
      BY <1>2, <1>3, <2>1 DEF Between
    <2>3. \E W2, P2, n2, m2 : Between(W2, P2, n2, m2)'
      BY <2>2
    <2>4. /\ BitSeq(data) /\ pos \in Nat /\ pos <= Len(data)
          /\ room \in Nat /\ IsSeq(echo) /\ Len(echo) <= room
          /\ \A j \in 1..Len(echo) : echo[j] = data[j]
      BY DEF Retold
    <2> QED BY <1>2, <2>3, <2>4 DEF Retold
  <1>6. EchoIsIdentical'
    BY <1>2 DEF EchoInv, EchoIsIdentical
  <1> QED BY <1>1, <1>2, <1>4, <1>5, <1>6 DEF EchoInv

LEMMA EchoStep == ASSUME EchoInv, [CNext]_allVars PROVE EchoInv'
  BY EchoPack, EchoDeliver, EchoDecode, EchoFinishDecode, EchoEncode, EchoFinishEncode,
     EchoStutter DEF CNext

(* The generated C decoder always has a history that its struct tells      *)
(* again, and the generated encoder stands in it.                          *)
THEOREM EchoInvariance == CSpec => []EchoInv
  <1>1. EchoInv /\ [CNext]_allVars => EchoInv'
    BY EchoStep
  <1> QED BY <1>1, EchoInit, PTL DEF CSpec

(* Whatever bits the generated C decoder accepts, of any schema, the       *)
(* generated encoder writes again bit for bit from the struct, or is       *)
(* refused because the buffer is too small and for no other reason; so     *)
(* long as no count or length is cut to its uint16_t.                      *)
THEOREM EchoIsIdenticalAlways == CSpec => []EchoIsIdentical
  <1>1. EchoInv => EchoIsIdentical
    BY DEF EchoInv
  <1> QED BY <1>1, EchoInvariance, PTL

-----------------------------------------------------------------------------
(***************************************************************************)
(* In step with the Go encoder: the C decoder stands in the encoder's      *)
(* history (Traced), with the work that the encoder had there (CSame).     *)
(* The work is the same but for elements of lists: Go has them all at the  *)
(* place of the list, in their order, and C has each at its own number.    *)
(* So what waits of a list is numbered from the first element that the     *)
(* struct has not got yet, with none left out (InRank).                    *)
(***************************************************************************)


(* An element of a list: Go has it at the list, C at its number in it.     *)
Element(y) == y.op = "value" /\ y.u.card = "repeated"
Rank(x) == x.at[Len(x.at)]

CSameAt(x, y) ==
  /\ x.op = y.op /\ x.u = y.u /\ IsSeq(y.at)
  /\ IF Element(y) THEN \E r \in Nat \ {0} : x.at = Append(y.at, r) ELSE x.at = y.at

(* Every number after those that are in the list already waits before it. *)
Waits(w, e, i, a, t) == \E j \in 1..(i - 1) : Element(e[j]) /\ e[j].at = a /\ Rank(w[j]) = t

InRank(w, e, k, i) ==
  Element(e[i]) =>
    LET a == e[i].at IN
    /\ a \in DOMAIN k /\ IsSeq(k[a]) /\ Rank(w[i]) > Len(k[a])
    /\ \A t \in Nat : Len(k[a]) < t /\ t < Rank(w[i]) => Waits(w, e, i, a, t)

CSame(w, e, k) == /\ IsSeq(w) /\ IsSeq(e) /\ Len(w) = Len(e)
                  /\ \A i \in 1..Len(w) : CSameAt(w[i], e[i]) /\ InRank(w, e, k, i)

LEMMA RankOf ==
  ASSUME NEW x, NEW y, CSameAt(x, y), Element(y)
  PROVE  Rank(x) \in Nat \ {0} /\ x.at = Append(y.at, Rank(x)) /\ IsSeq(y.at) /\ IsSeq(x.at)
  <1>1. PICK r \in Nat \ {0} : x.at = Append(y.at, r)
    BY DEF CSameAt
  <1>2. IsSeq(y.at)
    BY DEF CSameAt
  <1>3. Len(x.at) = Len(y.at) + 1 /\ x.at[Len(y.at) + 1] = r /\ IsSeq(x.at)
    BY <1>1, <1>2, AppendFacts
  <1> QED BY <1>1, <1>2, <1>3 DEF Rank

LEMMA CSameHead ==
  ASSUME NEW w, NEW e, NEW k, CSame(w, e, k), w # <<>>
  PROVE  /\ e # <<>> /\ IsSeq(e) /\ CSameAt(Head(w), Head(e))
         /\ Element(Head(e)) =>
              /\ Head(e).at \in DOMAIN k /\ IsSeq(k[Head(e).at])
              /\ Rank(Head(w)) = Len(k[Head(e).at]) + 1
  <1>1. /\ Head(w) = w[1] /\ Head(e) = e[1] /\ 1 \in 1..Len(w) /\ e # <<>> /\ IsSeq(e)
    <2>1. IsSeq(w) /\ IsSeq(e) /\ Len(w) = Len(e)
      BY DEF CSame
    <2>2. Head(w) = w[1] /\ Len(w) \in Nat \ {0}
      BY <2>1, TailFacts
    <2>3. e # <<>>
      BY <2>1, <2>2, EmptyIsSeq
    <2> QED BY <2>1, <2>2, <2>3, TailFacts
  <1>2. CSameAt(w[1], e[1]) /\ InRank(w, e, k, 1)
    BY <1>1 DEF CSame
  <1>3. ASSUME Element(e[1]), NEW a, a = e[1].at, NEW n, n = Len(k[a])
        PROVE  a \in DOMAIN k /\ IsSeq(k[a]) /\ Rank(w[1]) = n + 1
    <2>1. /\ a \in DOMAIN k /\ IsSeq(k[a]) /\ Rank(w[1]) > n
          /\ \A t \in Nat : n < t /\ t < Rank(w[1]) => Waits(w, e, 1, a, t)
      BY <1>2, <1>3 DEF InRank
    <2>2. n \in Nat /\ Rank(w[1]) \in Nat
      BY <1>2, <1>3, <2>1, RankOf, SeqFacts
    <2>3. \A t : ~Waits(w, e, 1, a, t)
      BY DEF Waits
    <2>4. ~(n + 1 < Rank(w[1]))
      BY <2>1, <2>2, <2>3
    <2> QED BY <2>1, <2>2, <2>4
  <1> QED BY <1>1, <1>2, <1>3

LEMMA CSameEnd ==
  ASSUME NEW e, NEW k, CSame(<<>>, e, k) PROVE e = <<>>
  BY EmptyIsSeq, SeqFacts DEF CSame

LEMMA CSameNothing == ASSUME NEW k PROVE CSame(<<>>, <<>>, k)
  <1>1. IsSeq(<<>>) /\ 1..Len(<<>>) = {}
    BY EmptyIsSeq
  <1> QED BY <1>1 DEF CSame

(* Items that are not elements. *)
LEMMA CSamePlain ==
  ASSUME NEW w, NEW e, NEW k, IsSeq(w), IsSeq(e), Len(w) = Len(e),
         \A i \in 1..Len(w) : SameItem(w[i], e[i]) /\ ~Element(e[i]) /\ IsSeq(e[i].at)
  PROVE  CSame(w, e, k)
  BY DEF CSame, CSameAt, InRank, SameItem

LEMMA CSameOne ==
  ASSUME NEW fd, fd.card # "repeated", NEW at, IsSeq(at), NEW v, NEW k
  PROVE  CSame(<<Value(fd, at, Nothing)>>, <<Value(fd, at, v)>>, k)
  <1>1. PICK x, y : x = Value(fd, at, Nothing) /\ y = Value(fd, at, v)
    OBVIOUS
  <1>2. SameItem(x, y) /\ ~Element(y) /\ IsSeq(y.at)
    BY <1>1 DEF Value, SameItem, Element
  <1>3. IsSeq(<<x>>) /\ IsSeq(<<y>>) /\ Len(<<x>>) = 1 /\ Len(<<y>>) = 1 /\ <<x>>[1] = x /\ <<y>>[1] = y
    BY SingleIsSeq
  <1>4. CSame(<<x>>, <<y>>, k)
    <2>1. \A i \in 1..1 : SameItem(<<x>>[i], <<y>>[i]) /\ ~Element(<<y>>[i]) /\ IsSeq(<<y>>[i].at)
      BY <1>2, <1>3
    <2> QED BY <1>3, <2>1, CSamePlain
  <1> QED BY <1>1, <1>4

LEMMA CSameUnits ==
  ASSUME NEW t \in DOMAIN Descriptor, NEW at, IsSeq(at), NEW k
  PROVE  CSame(UnitItems(t, at), UnitItems(t, at), k)
  <1>1. PICK u : u = UnitItems(t, at)
    OBVIOUS
  <1>2. IsSeq(u) /\ \A i \in 1..Len(u) : u[i].op = "unit" /\ IsSeq(u[i].at)
    BY <1>1, UnitItemsShape
  <1>3. \A i \in 1..Len(u) : SameItem(u[i], u[i]) /\ ~Element(u[i]) /\ IsSeq(u[i].at)
    BY <1>2 DEF SameItem, Element
  <1> QED BY <1>1, <1>2, <1>3, CSamePlain

(* The elements of a list that is empty yet. *)
LEMMA CSameElements ==
  ASSUME NEW fd, NEW at, IsSeq(at), NEW n \in Nat, NEW w, NEW e, NEW k,
         w = [j \in 1..n |-> Value(fd, Append(at, j), Nothing)],
         IsSeq(e), Len(e) = n, \A j \in 1..n : SameItem(e[j], Value(fd, at, Nothing)),
         fd.card = "repeated", at \in DOMAIN k, k[at] = <<>>
  PROVE  CSame(w, e, k)
  <1>1. IsSeq(w) /\ Len(w) = n
    BY FunctionIsSeq
  <1>2. ASSUME NEW j \in 1..n
        PROVE  /\ e[j].op = "value" /\ e[j].u = fd /\ e[j].at = at /\ Element(e[j])
               /\ w[j].op = "value" /\ w[j].u = fd /\ w[j].at = Append(at, j)
               /\ CSameAt(w[j], e[j]) /\ Rank(w[j]) = j
    <2>1. e[j].op = "value" /\ e[j].u = fd /\ e[j].at = at
      BY DEF SameItem, Value
    <2>2. w[j].op = "value" /\ w[j].u = fd /\ w[j].at = Append(at, j)
      BY DEF Value
    <2>3. Element(e[j])
      BY <2>1 DEF Element
    <2>4. j \in Nat \ {0}
      OBVIOUS
    <2>5. CSameAt(w[j], e[j])
      BY <2>1, <2>2, <2>3, <2>4 DEF CSameAt
    <2>6. Append(at, Rank(w[j])) = Append(at, j)
      BY <2>1, <2>2, <2>3, <2>5, RankOf
    <2>7. Rank(w[j]) = j
      BY <2>6, AppendSame
    <2> QED BY <2>1, <2>2, <2>3, <2>5, <2>7
  <1>3. IsSeq(k[at]) /\ Len(k[at]) = 0
    BY EmptyIsSeq
  <1>4. ASSUME NEW i \in 1..n PROVE InRank(w, e, k, i)
    <2>1. ASSUME NEW t \in Nat, 0 < t, t < i PROVE Waits(w, e, i, at, t)
      <3>1. t \in 1..n /\ t \in 1..(i - 1)
        BY <2>1
      <3>2. Element(e[t]) /\ e[t].at = at /\ Rank(w[t]) = t
        BY <1>2, <3>1
      <3> QED BY <3>1, <3>2 DEF Waits
    <2>2. e[i].at = at /\ Rank(w[i]) = i /\ i > 0
      BY <1>2
    <2> QED BY <1>3, <2>1, <2>2 DEF InRank
  <1> QED BY <1>1, <1>2, <1>4 DEF CSame

(* The encoder adds one element to the list of an element, and leaves what *)
(* is kept elsewhere.                                                      *)
RanksKept(y, k, k2) ==
  /\ \A a \in DOMAIN k : a \in DOMAIN k2 /\ (a # y.at => k2[a] = k[a])
  /\ Element(y) /\ y.at \in DOMAIN k /\ IsSeq(k[y.at]) =>
       IsSeq(k2[y.at]) /\ Len(k2[y.at]) = Len(k[y.at]) + 1

LEMMA StoreKept ==
  ASSUME NEW fd, NEW at, NEW k, NEW v, NEW k2, k2 = Store(k, fd, at, v)
  PROVE  /\ \A a \in DOMAIN k : a \in DOMAIN k2 /\ (a # at => k2[a] = k[a])
         /\ fd.card = "repeated" /\ at \in DOMAIN k /\ IsSeq(k[at]) =>
              IsSeq(k2[at]) /\ Len(k2[at]) = Len(k[at]) + 1
  <1>1. CASE fd.card = "repeated"
    <2>1. k2 = [a \in DOMAIN k |-> IF a = at THEN Append(k[at], v) ELSE k[a]]
      BY <1>1, StoreFacts
    <2>2. at \in DOMAIN k => k2[at] = Append(k[at], v)
      BY <2>1
    <2> QED BY <2>1, <2>2, AppendFacts
  <1>2. CASE fd.card = "map"
    <2>1. k2 = [a \in DOMAIN k |-> IF a = at THEN {e \in k[at] : e[1] # v[1]} \cup {v} ELSE k[a]]
      BY <1>2, StoreFacts
    <2> QED BY <1>2, <2>1
  <1>3. CASE fd.card \notin {"repeated", "map"}
    <2>1. k2 = SetAt(k, at, v)
      BY <1>3, StoreFacts
    <2> QED BY <1>3, <2>1 DEF SetAt
  <1> QED BY <1>1, <1>2, <1>3

LEMMA EmittedKept ==
  ASSUME NEW y, NEW b, NEW more, NEW k, NEW k2, Emitted(y, b, more, k, k2)
  PROVE  RanksKept(y, k, k2)
  <1>1. Element(y) => Form(y) \in {"nested", "value"}
    BY DEF Element, Form
  <1>2. Form(y) \in {"scalar", "timestamp", "message", "list", "map", "oneof", "value", "entry",
                     "nested"}
    BY DEF Form
  <1>3. ASSUME k2 = k, ~Element(y) PROVE RanksKept(y, k, k2)
    BY <1>3 DEF RanksKept
  <1>4. ASSUME NEW x, k2 = SetAt(k, y.at, x), ~Element(y) PROVE RanksKept(y, k, k2)
    BY <1>4 DEF RanksKept, SetAt
  <1>5. ASSUME NEW fd, NEW v, k2 = Store(k, fd, y.at, v), Element(y) => fd = y.u
        PROVE  RanksKept(y, k, k2)
    <2>1. Element(y) => fd.card = "repeated"
      BY <1>5 DEF Element
    <2> QED BY <1>5, <2>1, StoreKept DEF RanksKept
  <1>6. CASE Form(y) = "scalar"
    BY <1>1, <1>3, <1>6 DEF Emitted, EmitsScalar
  <1>7. CASE Form(y) = "timestamp"
    BY <1>1, <1>3, <1>5, <1>7 DEF Emitted, EmitsTimestamp
  <1>8. CASE Form(y) = "message"
    BY <1>1, <1>3, <1>5, <1>8 DEF Emitted, EmitsMessage
  <1>9. CASE Form(y) = "list"
    BY <1>1, <1>4, <1>9 DEF Emitted, EmitsCount
  <1>10. CASE Form(y) = "map"
    BY <1>1, <1>4, <1>10 DEF Emitted, EmitsCount
  <1>11. CASE Form(y) = "oneof"
    BY <1>1, <1>3, <1>11 DEF Emitted, EmitsOneof
  <1>12. CASE Form(y) = "value"
    BY <1>5, <1>12 DEF Emitted, EmitsValue
  <1>13. CASE Form(y) = "entry"
    BY <1>1, <1>3, <1>5, <1>13 DEF Emitted, EmitsEntry
  <1>14. CASE Form(y) = "nested"
    BY <1>5, <1>14 DEF Emitted, EmitsNested
  <1> QED BY <1>2, <1>6, <1>7, <1>8, <1>9, <1>10, <1>11, <1>12, <1>13, <1>14

(* What follows an item is in the same order on both sides. *)
LEMMA CSameNext ==
  ASSUME NEW w, NEW e, NEW k, CSame(w, e, k), w # <<>>, CWork(w),
         NEW m, NEW more, NEW k2, CSame(m, more, k2), RanksKept(Head(e), k, k2)
  PROVE  CSame(m \o Tail(w), more \o Tail(e), k2)
  <1> PICK y, l : y = Head(e) /\ l = Len(m)
    OBVIOUS
  <1> PICK w2, e2 : w2 = m \o Tail(w) /\ e2 = more \o Tail(e)
    OBVIOUS
  <1>1. /\ IsSeq(w) /\ IsSeq(e) /\ IsSeq(m) /\ IsSeq(more) /\ Len(w) = Len(e) /\ l = Len(more)
        /\ e # <<>> /\ CSameAt(w[1], y)
        /\ Element(y) => y.at \in DOMAIN k /\ IsSeq(k[y.at]) /\ Rank(w[1]) = Len(k[y.at]) + 1
    <2>1. Head(w) = w[1]
      BY TailFacts DEF CSame
    <2> QED BY <2>1, CSameHead DEF CSame
  <1>2. /\ IsSeq(w2) /\ 1 \in 1..Len(w) /\ Len(w) \in Nat /\ l \in Nat
        /\ Len(w2) = l + Len(w) - 1
        /\ \A i \in 1..l : w2[i] = m[i]
        /\ \A j \in 2..Len(w) : w2[l + j - 1] = w[j]
    <2>1. IsSeq(w) /\ w # <<>> /\ IsSeq(m) /\ w2 = m \o Tail(w) /\ l = Len(m)
      BY <1>1
    <2>2. /\ IsSeq(w2) /\ 1 \in 1..Len(w) /\ Len(w) \in Nat /\ Len(m) \in Nat
          /\ Len(w2) = Len(m) + Len(w) - 1
          /\ \A i \in 1..Len(m) : w2[i] = m[i]
          /\ \A j \in 2..Len(w) : w2[Len(m) + j - 1] = w[j]
      BY <2>1, NextWork
    <2> QED BY <2>1, <2>2
  <1>3. /\ IsSeq(e2) /\ y = e[1] /\ Len(e2) = l + Len(w) - 1
        /\ \A i \in 1..l : e2[i] = more[i]
        /\ \A j \in 2..Len(w) : e2[l + j - 1] = e[j]
    <2>1. /\ IsSeq(e2) /\ y = e[1] /\ Len(e2) = Len(more) + Len(e) - 1
          /\ \A i \in 1..Len(more) : e2[i] = more[i]
          /\ \A j \in 2..Len(e) : e2[Len(more) + j - 1] = e[j]
      BY <1>1, NextWork
    <2> QED BY <1>1, <2>1
  <1>4. ASSUME NEW i \in 1..l PROVE CSameAt(w2[i], e2[i]) /\ InRank(w2, e2, k2, i)
    <2>1. w2[i] = m[i] /\ e2[i] = more[i] /\ CSameAt(m[i], more[i]) /\ InRank(m, more, k2, i)
      BY <1>2, <1>3 DEF CSame
    <2>2. ASSUME NEW a, NEW t, Waits(m, more, i, a, t) PROVE Waits(w2, e2, i, a, t)
      <3>1. PICK j \in 1..(i - 1) : Element(more[j]) /\ more[j].at = a /\ Rank(m[j]) = t
        BY <2>2 DEF Waits
      <3>2. j \in 1..l
        BY <1>2
      <3>3. w2[j] = m[j] /\ e2[j] = more[j]
        BY <1>2, <1>3, <3>2
      <3> QED BY <3>1, <3>3 DEF Waits
    <2> QED BY <2>1, <2>2 DEF InRank
  <1>5. ASSUME NEW i \in 2..Len(w)
        PROVE  CSameAt(w[i], e[i]) /\ InRank(w2, e2, k2, l + i - 1)
    <2>1. i \in 1..Len(w) /\ i # 1 /\ w2[l + i - 1] = w[i] /\ e2[l + i - 1] = e[i]
      BY <1>2, <1>3
    <2>2. CSameAt(w[i], e[i]) /\ InRank(w, e, k, i)
      BY <2>1 DEF CSame
    <2>3. ASSUME Element(e[i]), NEW a, a = e[i].at, NEW n, n = Len(k[a]), NEW n2, n2 = Len(k2[a])
          PROVE  /\ a \in DOMAIN k2 /\ IsSeq(k2[a]) /\ Rank(w[i]) > n2
                 /\ \A t \in Nat : n2 < t /\ t < Rank(w[i]) => Waits(w2, e2, l + i - 1, a, t)
      <3>1. /\ a \in DOMAIN k /\ IsSeq(k[a]) /\ Rank(w[i]) > n
            /\ \A t \in Nat : n < t /\ t < Rank(w[i]) => Waits(w, e, i, a, t)
        BY <2>2, <2>3 DEF InRank
      <3>2. /\ Rank(w[i]) \in Nat \ {0} /\ w[i].at = Append(a, Rank(w[i])) /\ IsSeq(a)
            /\ n \in Nat
        BY <2>2, <2>3, <3>1, RankOf, SeqFacts
      <3>3. ~Under(w[i].at, w[1].at)
        BY <1>2, <2>1 DEF CWork
      <3>4. a # y.at \/ Element(y)
        <4> SUFFICES ASSUME a = y.at, ~Element(y) PROVE FALSE
          OBVIOUS
        <4>1. w[1].at = a
          BY <1>1 DEF CSameAt
        <4>2. Under(w[i].at, a)
          BY <3>2, UnderAppend
        <4> QED BY <3>3, <4>1, <4>2
      <3>5. /\ a \in DOMAIN k2 /\ IsSeq(k2[a]) /\ n2 \in Nat
            /\ n2 = n \/ (Element(y) /\ y.at = a /\ n2 = n + 1)
        <4>1. CASE a # y.at
          <5>1. a \in DOMAIN k2 /\ k2[a] = k[a]
            BY <3>1, <4>1 DEF RanksKept
          <5> QED BY <2>3, <3>1, <3>2, <5>1
        <4>2. CASE a = y.at
          <5>1. Element(y) /\ a \in DOMAIN k2 /\ IsSeq(k2[a]) /\ n2 = n + 1
            BY <2>3, <3>1, <3>4, <4>2 DEF RanksKept
          <5> QED BY <3>2, <4>2, <5>1
        <4> QED BY <4>1, <4>2
      <3>6. ASSUME Element(y), y.at = a, n2 = n + 1
            PROVE  Rank(w[1]) = n2 /\ Rank(w[i]) # n2
        <4>1. Rank(w[1]) = n2
          BY <1>1, <2>3, <3>6
        <4>2. w[1].at = Append(a, n2)
          BY <1>1, <3>6, <4>1, RankOf
        <4>3. Under(w[1].at, w[1].at)
          BY <3>2, <4>2, UnderAppend, UnderItself
        <4> QED BY <3>2, <3>3, <4>1, <4>2, <4>3
      <3>7. Rank(w[i]) > n2
        BY <3>1, <3>2, <3>5, <3>6
      <3>8. ASSUME NEW t \in Nat, n2 < t, t < Rank(w[i])
            PROVE  Waits(w2, e2, l + i - 1, a, t)
        <4>1. n < t
          BY <3>2, <3>5, <3>8
        <4>2. PICK j \in 1..(i - 1) : Element(e[j]) /\ e[j].at = a /\ Rank(w[j]) = t
          BY <3>1, <3>8, <4>1 DEF Waits
        <4>3. j # 1
          <5> SUFFICES ASSUME j = 1 PROVE FALSE
            OBVIOUS
          <5>1. Element(y) /\ y.at = a /\ Rank(w[1]) = t
            BY <1>3, <4>2
          <5>2. t = n + 1
            BY <1>1, <2>3, <5>1
          <5>3. n2 = n + 1
            BY <2>3, <3>1, <5>1 DEF RanksKept
          <5> QED BY <3>2, <3>5, <3>8, <5>2, <5>3
        <4>4. j \in 2..Len(w)
          BY <1>2, <4>3
        <4>5. w2[l + j - 1] = w[j] /\ e2[l + j - 1] = e[j]
          BY <1>2, <1>3, <4>4
        <4>6. l + j - 1 \in 1..((l + i - 1) - 1)
          BY <1>2, <4>4
        <4> QED BY <4>2, <4>5, <4>6 DEF Waits
      <3> QED BY <3>5, <3>7, <3>8
    <2>4. InRank(w2, e2, k2, l + i - 1)
      BY <2>1, <2>3 DEF InRank
    <2> QED BY <2>2, <2>4
  <1>6. ASSUME NEW i \in 1..Len(w2) PROVE CSameAt(w2[i], e2[i]) /\ InRank(w2, e2, k2, i)
    <2>1. CASE i \in 1..l
      BY <1>4, <2>1
    <2>2. CASE ~(i \in 1..l)
      <3>1. PICK j : j = i - l + 1
        OBVIOUS
      <3>2. j \in 2..Len(w) /\ i = l + j - 1
        BY <1>2, <2>2, <3>1
      <3>3. w2[i] = w[j] /\ e2[i] = e[j]
        BY <1>2, <1>3, <3>2
      <3> QED BY <1>5, <3>2, <3>3
    <2> QED BY <2>1, <2>2
  <1>7. CSame(w2, e2, k2)
    BY <1>2, <1>3, <1>6 DEF CSame
  <1> QED BY <1>7

-----------------------------------------------------------------------------
(* One step of the C decoder, at an item of which the Go encoder wrote b,  *)
(* left more and kept k2 after k.                                          *)

AtCBits(b) == AtCItem /\ IsSeq(b) /\ Holds(pos, b)

CAdvances(b, more, k2) ==
  \/ phase' = "DecodeError" /\ pos + Len(b) > Len(data)
  \/ cut'
  \/ /\ phase' = "decoding" /\ step' = step + 1
     /\ pos' = pos + Len(b) /\ pos + Len(b) <= Len(data)
     /\ \E m : work' = m \o Tail(work) /\ CSame(m, more, k2)

LEMMA CBitsFacts ==
  ASSUME NEW b, AtCBits(b)
  PROVE  /\ pos \in Nat /\ pos <= Len(data) /\ IsSeq(data) /\ Len(data) \in Nat
         /\ Len(b) \in Nat /\ IsSeq(item.at) /\ Positive(item.at) /\ Holds(pos, b)
         /\ CItemOK(item) /\ phase = "decoding" /\ work # <<>>
  <1>1. pos \in Nat /\ pos <= Len(data) /\ IsSeq(data) /\ IsSeq(b) /\ CItemOK(item)
    BY DEF AtCBits, AtCItem, BitSeq
  <1>2. IsSeq(item.at) /\ Positive(item.at)
    BY <1>1 DEF CItemOK, Positive
  <1> QED BY <1>1, <1>2, SeqFacts DEF AtCBits, AtCItem

LEMMA RefusedShort ==
  ASSUME NEW b, NEW more, NEW k2, AtCBits(b), NEW msg, Refuse(msg), ~(pos + Len(b) <= Len(data))
  PROVE  CAdvances(b, more, k2)
  <1>1. pos + Len(b) > Len(data)
    BY CBitsFacts
  <1> QED BY <1>1 DEF Refuse, CAdvances

LEMMA TakenSame ==
  ASSUME NEW b, NEW more, NEW k2, AtCBits(b), NEW n, NEW m, NEW msg, Take(n, m, msg),
         n = Len(b), pos + Len(b) <= Len(data), CSame(m, more, k2)
  PROVE  CAdvances(b, more, k2)
  <1>1. phase' = "decoding" /\ step' = step + 1 /\ pos' = pos + Len(b) /\ work' = m \o Tail(work)
    BY CBitsFacts DEF Take
  <1> QED BY <1>1 DEF CAdvances

LEMMA StepScalar ==
  ASSUME NEW b, NEW more, NEW k, NEW k2, AtCBits(b), DecodeScalar,
         EmitsScalar(item.u.fd, item.at, b, more, k, k2)
  PROVE  CAdvances(b, more, k2)
  <1> PICK fd, at : fd = item.u.fd /\ at = item.at
    OBVIOUS
  <1> PICK one : one = <<Value(fd, at, Nothing)>>
    OBVIOUS
  <1>1. /\ Len(data) \in Nat /\ pos \in Nat /\ pos <= Len(data) /\ IsSeq(data) /\ Holds(pos, b)
        /\ IsSeq(at) /\ fd.card # "repeated"
    BY CBitsFacts DEF DecodeScalar, DecodingField
  <1>2. CSame(<<>>, <<>>, k2)
    BY CSameNothing
  <1>3. ASSUME NEW v PROVE CSame(one, <<Value(fd, at, v)>>, k2)
    BY <1>1, CSameOne
  <1>4. CASE ~IsOptional(fd)
    <2>1. Take(0, one, cmsg)
      BY <1>4 DEF DecodeScalar
    <2>2. PICK v : b = <<>> /\ more = <<Value(fd, at, v)>>
      BY <1>4 DEF EmitsScalar
    <2>3. Len(b) = 0 /\ pos + Len(b) <= Len(data)
      BY <1>1, <2>2, EmptyIsSeq
    <2> QED BY <1>3, <2>1, <2>2, <2>3, TakenSame
  <1>5. CASE IsOptional(fd)
    <2>1. PICK x \in {0, 1} : /\ b = <<x>>
                              /\ x = 0 => more = <<>>
                              /\ x = 1 => \E v : more = <<Value(fd, at, v)>>
      BY <1>5 DEF EmitsScalar
    <2>2. Len(b) = 1 /\ (pos + 1 <= Len(data) => Bits(pos, 1) = x)
      BY <1>1, <2>1, ReadOne
    <2>3. CASE ~Has(1)
      <3>1. Refuse(cmsg) /\ ~(pos + Len(b) <= Len(data))
        BY <1>5, <2>2, <2>3 DEF DecodeScalar, Has
      <3> QED BY <3>1, RefusedShort
    <2>4. CASE Has(1)
      <3>1. pos + Len(b) <= Len(data) /\ Bits(pos, 1) = x
        BY <2>2, <2>4 DEF Has
      <3>2. Take(1, IF x = 1 THEN one ELSE <<>>, WithFlag(at, "has", x))
        BY <1>5, <2>4, <3>1 DEF DecodeScalar
      <3>3. CSame(IF x = 1 THEN one ELSE <<>>, more, k2)
        BY <1>2, <1>3, <2>1
      <3> QED BY <2>2, <3>1, <3>2, <3>3, TakenSame
    <2> QED BY <2>3, <2>4
  <1> QED BY <1>4, <1>5

LEMMA StepTimestamp ==
  ASSUME NEW b, NEW more, NEW k, NEW k2, AtCBits(b), DecodeTimestamp, FieldWidths(item.u.fd),
         EmitsTimestamp(item.u.fd, item.at, b, more, k, k2)
  PROVE  CAdvances(b, more, k2)
  <1> PICK fd, at, n : fd = item.u.fd /\ at = item.at /\ n = TsBits(fd)
    OBVIOUS
  <1> PICK set : set = <<1>>
    OBVIOUS
  <1>1. /\ Len(data) \in Nat /\ pos \in Nat /\ IsSeq(data) /\ Holds(pos, b)
        /\ more = <<>> /\ n \in Nat
    BY CBitsFacts, TsBitsType DEF EmitsTimestamp
  <1>2. CSame(<<>>, more, k2)
    BY <1>1, CSameNothing
  <1>3. CASE b = <<0>>
    <2>1. Len(b) = 1 /\ (pos + 1 <= Len(data) => Bits(pos, 1) = 0)
      BY <1>1, <1>3, ReadOne
    <2>2. CASE ~Has(1)
      <3>1. Refuse(cmsg) /\ ~(pos + Len(b) <= Len(data))
        BY <2>1, <2>2 DEF DecodeTimestamp, Has
      <3> QED BY <3>1, RefusedShort
    <2>3. CASE Has(1)
      <3>1. Take(1, <<>>, WithFlag(at, "has", Bits(pos, 1))) /\ pos + Len(b) <= Len(data)
        BY <2>1, <2>3 DEF DecodeTimestamp, Has
      <3> QED BY <1>2, <2>1, <3>1, TakenSame
    <2> QED BY <2>2, <2>3
  <1>4. ASSUME NEW v \in 0..MaxOf(n), b = set \o LowBits(v, n)
        PROVE  CAdvances(b, more, k2)
    <2>1. IsSeq(LowBits(v, n)) /\ Len(LowBits(v, n)) = n
      <3>1. v \in Nat
        BY <1>1, MaxType
      <3> QED BY <1>1, <3>1, LowBitsFacts
    <2>2. /\ Len(b) = 1 + n /\ pos + 1 \in Nat
          /\ pos + 1 <= Len(data) => Bits(pos, 1) = 1
      BY <1>1, <1>4, <2>1, ReadBitThen
    <2>3. CASE ~Has(1) \/ ~Has(1 + n)
      <3>1. \E msg : Refuse(msg)
        BY <2>2, <2>3 DEF DecodeTimestamp, Has
      <3>2. ~(pos + Len(b) <= Len(data))
        BY <1>1, <2>2, <2>3 DEF Has
      <3> QED BY <3>1, <3>2, RefusedShort
    <2>4. CASE Has(1) /\ Has(1 + n)
      <3>1. pos + Len(b) <= Len(data) /\ Bits(pos, 1) = 1
        BY <1>1, <2>2, <2>4 DEF Has
      <3>2. \E msg : Take(1 + n, <<>>, msg)
        BY <2>4, <3>1 DEF DecodeTimestamp
      <3> QED BY <1>2, <2>2, <3>1, <3>2, TakenSame
    <2> QED BY <2>3, <2>4
  <1> QED BY <1>3, <1>4 DEF EmitsTimestamp

LEMMA StepMessage ==
  ASSUME NEW b, NEW more, NEW k, NEW k2, AtCBits(b), DecodeMessage,
         item.u.fd.type \in DOMAIN Descriptor,
         EmitsMessage(item.u.fd, item.at, b, more, k, k2)
  PROVE  CAdvances(b, more, k2)
  <1> PICK fd, at, units : fd = item.u.fd /\ at = item.at /\ units = UnitItems(fd.type, at)
    OBVIOUS
  <1>1. /\ Len(data) \in Nat /\ pos \in Nat /\ IsSeq(data) /\ Holds(pos, b) /\ IsSeq(at)
    BY CBitsFacts
  <1>2. CSame(<<>>, <<>>, k2) /\ CSame(units, units, k2)
    BY <1>1, CSameNothing, CSameUnits
  <1>4. PICK x \in {0, 1} : /\ b = <<x>>
                            /\ x = 0 => more = <<>>
                            /\ x = 1 => more = units
    BY DEF EmitsMessage
  <1>5. Len(b) = 1 /\ (pos + 1 <= Len(data) => Bits(pos, 1) = x)
    BY <1>1, <1>4, ReadOne
  <1>6. CASE ~Has(1)
    <2>1. Refuse(cmsg) /\ ~(pos + Len(b) <= Len(data))
      BY <1>5, <1>6 DEF DecodeMessage, Has
    <2> QED BY <2>1, RefusedShort
  <1>7. CASE Has(1)
    <2>1. pos + Len(b) <= Len(data) /\ Bits(pos, 1) = x
      BY <1>5, <1>7 DEF Has
    <2>2. \E msg : Take(1, IF x = 0 THEN <<>> ELSE units, msg)
      BY <1>7, <2>1 DEF DecodeMessage, CUnits
    <2>3. CSame(IF x = 0 THEN <<>> ELSE units, more, k2)
      BY <1>2, <1>4
    <2> QED BY <1>5, <2>1, <2>2, <2>3, TakenSame
  <1> QED BY <1>6, <1>7

LEMMA StepList ==
  ASSUME NEW b, NEW more, NEW k, NEW k2, AtCBits(b), DecodeList, FieldWidths(item.u.fd),
         IsSeq(more), EmitsCount(item.u.fd, item.at, b, more, k, k2, <<>>)
  PROVE  CAdvances(b, more, k2)
  <1> PICK fd, at, c : fd = item.u.fd /\ at = item.at /\ c = fd.countBits
    OBVIOUS
  <1>1. /\ Len(data) \in Nat /\ pos \in Nat /\ IsSeq(data) /\ Holds(pos, b) /\ IsSeq(at)
        /\ c \in Nat /\ fd.card = "repeated"
    BY CBitsFacts DEF FieldWidths, DecodeList, DecodingField
  <1>2. PICK n \in 0..MaxOf(c) :
          /\ b = LowBits(n, c) /\ Len(more) = n
          /\ \A j \in 1..n : SameItem(more[j], Value(fd, at, Nothing))
    BY DEF EmitsCount
  <1>3. Reads(pos + c, Bits(pos, c), pos, b, n) /\ Len(b) = c
    BY <1>1, <1>2, ReadInt
  <1>4. n \in Nat
    BY <1>1, MaxType
  <1>5. at \in DOMAIN k2 /\ k2[at] = <<>>
    BY SetOnly DEF EmitsCount
  <1>6. CASE ~Has(c)
    <2>1. Refuse(cmsg) /\ ~(pos + Len(b) <= Len(data))
      BY <1>3, <1>6 DEF DecodeList, Has
    <2> QED BY <2>1, RefusedShort
  <1>7. CASE Has(c)
    <2>1. pos + Len(b) <= Len(data) /\ Bits(pos, c) = n
      BY <1>3, <1>7 DEF Has, Reads
    <2>2. CASE cut'
      BY <2>2 DEF CAdvances
    <2>3. CASE ~cut'
      <3>1. Short(n) = n
        <4>1. ~(n >= 2 ^ CountWidth)
          BY <1>7, <2>1, <2>3 DEF DecodeList, CutShort
        <4> QED BY <1>4, <4>1, ShortWhole
      <3>2. PICK m : m = [j \in 1..n |-> Value(fd, Append(at, j), Nothing)]
        OBVIOUS
      <3>3. Take(c, m, WithFlag(at, "count", n))
        BY <1>7, <2>1, <3>1, <3>2 DEF DecodeList
      <3>4. CSame(m, more, k2)
        BY <1>1, <1>2, <1>4, <1>5, <3>2, CSameElements
      <3> QED BY <1>3, <2>1, <3>3, <3>4, TakenSame
    <2> QED BY <2>2, <2>3
  <1> QED BY <1>6, <1>7

LEMMA StepOneof ==
  ASSUME NEW b, NEW more, NEW k, NEW k2, AtCBits(b), DecodeOneof,
         UnitOK(item.u), EmitsOneof(item.u, item.at, b, more, k, k2)
  PROVE  CAdvances(b, more, k2)
  <1> PICK u, at, c : u = item.u /\ at = item.at /\ c = u.selectorBits
    OBVIOUS
  <1> PICK x : x = Bits(pos, c)
    OBVIOUS
  <1>1. /\ Len(data) \in Nat /\ pos \in Nat /\ IsSeq(data) /\ Holds(pos, b) /\ IsSeq(at)
        /\ u.unit = "oneof"
    BY CBitsFacts DEF DecodeOneof
  <1>2. /\ c \in Nat /\ IsSeq(u.fields) /\ Len(u.fields) \in Nat /\ Len(u.fields) <= MaxOf(c)
        /\ \A j \in 1..Len(u.fields) : u.fields[j].card # "repeated"
    BY <1>1, SeqFacts DEF UnitOK, MemberOK
  <1>3. PICK n \in 0..Len(u.fields) :
          /\ b = LowBits(n, c)
          /\ n = 0 => more = <<>>
          /\ n > 0 => \E v : more = <<Value(u.fields[n], Append(at, n), v)>>
    BY DEF EmitsOneof
  <1>4. n \in 0..MaxOf(c) /\ n \in Nat
    <2>1. MaxOf(c) \in Nat
      BY <1>2, MaxType
    <2> QED BY <1>2, <1>3, <2>1
  <1>5. Reads(pos + c, x, pos, b, n) /\ Len(b) = c
    BY <1>1, <1>2, <1>3, <1>4, ReadInt
  <1>6. PICK m : m = IF n = 0 THEN <<>> ELSE <<Value(u.fields[n], Append(at, n), Nothing)>>
    OBVIOUS
  <1>7. CSame(m, more, k2)
    <2>1. CASE n = 0
      BY <1>3, <1>6, <2>1, CSameNothing
    <2>2. CASE n # 0
      <3>1. PICK v : more = <<Value(u.fields[n], Append(at, n), v)>>
        BY <1>3, <1>4, <2>2
      <3>2. IsSeq(Append(at, n))
        BY <1>1, AppendFacts
      <3>3. u.fields[n].card # "repeated"
        BY <1>2, <1>4, <2>2
      <3> QED BY <1>6, <2>2, <3>1, <3>2, <3>3, CSameOne
    <2> QED BY <2>1, <2>2
  <1>8. CASE ~Has(c)
    <2>1. ~(pos + Len(b) <= Len(data)) /\ Refuse(cmsg)
      BY <1>5, <1>8 DEF Has, DecodeOneof
    <2> QED BY <2>1, RefusedShort
  <1>9. CASE Has(c)
    <2>1. pos + Len(b) <= Len(data) /\ x = n
      BY <1>5, <1>9 DEF Has, Reads
    <2>2. ~(n > Len(u.fields))
      BY <1>2, <1>3
    <2>3. Take(c, m, WithFlag(at, "which", n))
      BY <1>6, <1>9, <2>1, <2>2 DEF DecodeOneof
    <2> QED BY <1>5, <1>7, <2>1, <2>3, TakenSame
  <1> QED BY <1>8, <1>9

LEMMA StepValue ==
  ASSUME NEW b, NEW more, NEW k, NEW k2, NEW at, AtCBits(b), DecodeValue, FieldWidths(item.u),
         ScalarKind(item.u), EmitsValue(item.u, at, b, more, k, k2)
  PROVE  CAdvances(b, more, k2)
  <1> PICK fd, end, val : fd = item.u /\ end = ScalarEnd(fd, pos) /\ val = ScalarAt(fd, pos)
    OBVIOUS
  <1>1. /\ Len(data) \in Nat /\ pos \in Nat /\ IsSeq(data) /\ Holds(pos, b) /\ Len(b) \in Nat
    BY CBitsFacts
  <1>2. PICK v : Fits(fd, v) /\ b = ScalarBits(fd, v)
    BY DEF EmitsValue
  <1>3. CSame(<<>>, more, k2)
    BY CSameNothing DEF EmitsValue
  <1>4. Reads(end, val, pos, b, v)
    BY <1>1, <1>2, ReadScalar DEF ScalarKind
  <1>5. \/ end > Len(data) /\ Refuse(cmsg)
        \/ ~(end > Len(data)) /\ Take(end - pos, <<>>, With(item.at, val))
    BY DEF DecodeValue
  <1>6. CASE ~(pos + Len(b) <= Len(data))
    <2>1. Refuse(cmsg)
      BY <1>4, <1>5, <1>6 DEF Reads
    <2> QED BY <1>6, <2>1, RefusedShort
  <1>7. CASE pos + Len(b) <= Len(data)
    <2>1. end = pos + Len(b)
      BY <1>4, <1>7 DEF Reads
    <2>2. ~(end > Len(data)) /\ end - pos = Len(b)
      BY <1>1, <1>7, <2>1
    <2> QED BY <1>3, <1>5, <1>7, <2>2, TakenSame
  <1> QED BY <1>6, <1>7

LEMMA StepBytes ==
  ASSUME NEW b, NEW more, NEW k, NEW k2, NEW at, AtCBits(b), DecodeBytes, FieldWidths(item.u),
         EmitsValue(item.u, at, b, more, k, k2)
  PROVE  CAdvances(b, more, k2)
  <1> PICK fd, lb : fd = item.u /\ lb = fd.lengthBits
    OBVIOUS
  <1>1. /\ Len(data) \in Nat /\ pos \in Nat /\ IsSeq(data) /\ Holds(pos, b) /\ lb \in Nat
        /\ fd.kind = "bytes"
    BY CBitsFacts DEF FieldWidths, DecodeBytes
  <1>2. PICK v : Fits(fd, v) /\ b = ScalarBits(fd, v)
    BY DEF EmitsValue
  <1>3. CSame(<<>>, more, k2)
    BY CSameNothing DEF EmitsValue
  <1> PICK n, c : n = Len(v) /\ c = n * ByteSize
    OBVIOUS
  <1>4. /\ b = LowBits(n, lb) \o RawBytes(v) /\ IsSeq(v) /\ n \in Nat /\ n \in 0..MaxOf(lb)
    <2>1. ByteSeq(v) /\ Len(v) <= MaxOf(lb) /\ ScalarBits(fd, v) = LowBits(Len(v), lb) \o RawBytes(v)
      BY <1>1, <1>2 DEF Fits, ScalarBits
    <2>2. IsSeq(v) /\ n \in Nat /\ MaxOf(lb) \in Nat
      BY <1>1, <2>1, SeqFacts, MaxType DEF ByteSeq
    <2> QED BY <1>2, <2>1, <2>2
  <1>5. IsSeq(RawBytes(v)) /\ Len(RawBytes(v)) = c /\ c \in Nat
    BY <1>4, RawBytesFacts
  <1>6. IsSeq(LowBits(n, lb)) /\ Len(LowBits(n, lb)) = lb
    BY <1>1, <1>4, LowBitsFacts
  <1>7. Len(b) = lb + c /\ Holds(pos, LowBits(n, lb))
    BY <1>1, <1>4, <1>5, <1>6, ConcatFacts, HoldsConcat
  <1>8. Reads(pos + lb, Bits(pos, lb), pos, LowBits(n, lb), n)
    BY <1>1, <1>4, <1>7, ReadInt
  <1>9. CASE ~Has(lb)
    <2>1. Refuse(cmsg) /\ ~(pos + Len(b) <= Len(data))
      BY <1>1, <1>5, <1>7, <1>9 DEF DecodeBytes, Has
    <2> QED BY <2>1, RefusedShort
  <1>10. CASE Has(lb) /\ cut'
    BY <1>10 DEF CAdvances
  <1>11. CASE Has(lb) /\ ~cut'
    <2>1. Bits(pos, lb) = n
      BY <1>6, <1>8, <1>11 DEF Has, Reads
    <2>2. Short(n) = n
      <3>1. ~(n >= 2 ^ CountWidth)
        BY <1>11, <2>1 DEF DecodeBytes, CutShort
      <3> QED BY <1>4, <3>1, ShortWhole
    <2>3. IF ~Has(lb + c) THEN \E msg : Refuse(msg) ELSE \E msg : Take(lb + c, <<>>, msg)
      BY <1>11, <2>1, <2>2 DEF DecodeBytes
    <2>4. Has(lb + c) <=> pos + Len(b) <= Len(data)
      BY <1>7 DEF Has
    <2> QED BY <1>3, <1>7, <2>3, <2>4, RefusedShort, TakenSame
  <1> QED BY <1>9, <1>10, <1>11

LEMMA StepNested ==
  ASSUME NEW b, NEW more, NEW k, NEW k2, NEW at, AtCBits(b), DecodeNested,
         item.u.type \in DOMAIN Descriptor, PlaceOf(k, item.u, at) = item.at,
         EmitsNested(item.u, at, b, more, k, k2)
  PROVE  CAdvances(b, more, k2)
  <1>1. pos \in Nat /\ pos <= Len(data) /\ IsSeq(item.at)
    BY CBitsFacts
  <1>2. b = <<>> /\ 0 = Len(b) /\ pos + Len(b) <= Len(data)
    BY <1>1, EmptyIsSeq DEF EmitsNested
  <1>3. PICK units : units = UnitItems(item.u.type, item.at)
    OBVIOUS
  <1>4. more = units /\ CSame(units, more, k2)
    BY <1>1, <1>3, CSameUnits DEF EmitsNested
  <1>5. \E msg : Take(0, units, msg)
    BY <1>3 DEF DecodeNested, CUnits
  <1> QED BY <1>2, <1>4, <1>5, TakenSame

(* Whatever item the C decoder comes to, but a map. *)
LEMMA CDecoderStep ==
  ASSUME NEW k, NEW b, NEW more, NEW k2, NEW e, AtCBits(b), Decode, ~SkipMap,
         CSameAt(item, e), Element(e) => Rank(item) = Len(k[e.at]) + 1,
         ItemOK(e), IsSeq(more), Emitted(e, b, more, k, k2)
  PROVE  CAdvances(b, more, k2)
  <1>1. item.op = e.op /\ item.u = e.u /\ CItemOK(item)
    BY CBitsFacts DEF CSameAt
  <1>2. Form(item) = Form(e)
    BY <1>1 DEF Form
  <1>3. item.op = "unit" => item.at = e.at
    BY <1>1 DEF CSameAt, Element
  <1>4. item.op = "unit" => UnitOK(item.u) /\ Emitted(item, b, more, k, k2)
    BY <1>1, <1>2, <1>3 DEF ItemOK, Emitted
  <1>5. item.op = "unit" /\ item.u.unit = "field" =>
          /\ FieldWidths(item.u.fd)
          /\ item.u.fd.kind = "message" => item.u.fd.type \in DOMAIN Descriptor
    BY <1>4 DEF UnitOK, FieldOK
  <1>6. item.op = "value" =>
          /\ FieldWidths(item.u) /\ item.u.card # "map"
          /\ item.u.kind # "message" => ScalarKind(item.u)
          /\ item.u.kind = "message" => item.u.type \in DOMAIN Descriptor
    BY <1>1, CForm DEF CFieldOK, IsField, ScalarKind
  <1>7. CASE DecodeScalar
    <2>1. Form(item) = "scalar" /\ item.op = "unit"
      BY <1>7 DEF DecodeScalar, DecodingField, Decoding, Form
    <2> QED BY <1>4, <1>7, <2>1, StepScalar DEF Emitted
  <1>8. CASE DecodeTimestamp
    <2>1. Form(item) = "timestamp" /\ item.op = "unit" /\ FieldWidths(item.u.fd)
      BY <1>5, <1>8 DEF DecodeTimestamp, DecodingField, Decoding, Form, IsTimestamp
    <2> QED BY <1>4, <1>8, <2>1, StepTimestamp DEF Emitted
  <1>9. CASE DecodeMessage
    <2>1. Form(item) = "message" /\ item.op = "unit" /\ item.u.fd.type \in DOMAIN Descriptor
      BY <1>5, <1>9 DEF DecodeMessage, DecodingField, Decoding, Form, IsMessage
    <2> QED BY <1>4, <1>9, <2>1, StepMessage DEF Emitted
  <1>10. CASE DecodeList
    <2>1. Form(item) = "list" /\ item.op = "unit" /\ FieldWidths(item.u.fd)
      BY <1>5, <1>10 DEF DecodeList, DecodingField, Decoding, Form
    <2> QED BY <1>4, <1>10, <2>1, StepList DEF Emitted
  <1>11. CASE DecodeOneof
    <2>1. Form(item) = "oneof" /\ item.op = "unit"
      BY <1>11 DEF DecodeOneof, Decoding, Form
    <2> QED BY <1>4, <1>11, <2>1, StepOneof DEF Emitted
  <1>12. CASE DecodeValue
    <2>1. Form(item) = "value" /\ FieldWidths(item.u) /\ ScalarKind(item.u)
      BY <1>6, <1>12 DEF DecodeValue, Decoding, Form
    <2>2. EmitsValue(item.u, e.at, b, more, k, k2)
      BY <1>1, <1>2, <2>1 DEF Emitted
    <2> QED BY <1>12, <2>1, <2>2, StepValue
  <1>13. CASE DecodeBytes
    <2>1. Form(item) = "value" /\ FieldWidths(item.u)
      BY <1>6, <1>13 DEF DecodeBytes, Decoding, Form
    <2>2. EmitsValue(item.u, e.at, b, more, k, k2)
      BY <1>1, <1>2, <2>1 DEF Emitted
    <2> QED BY <1>13, <2>1, <2>2, StepBytes
  <1>14. CASE DecodeNested
    <2>1. Form(item) = "nested" /\ item.u.type \in DOMAIN Descriptor /\ item.op = "value"
      BY <1>6, <1>14 DEF DecodeNested, Decoding, Form
    <2>2. EmitsNested(item.u, e.at, b, more, k, k2)
      BY <1>1, <1>2, <2>1 DEF Emitted
    <2>3. PlaceOf(k, item.u, e.at) = item.at
      <3>1. CASE item.u.card = "repeated"
        <4>1. Element(e)
          BY <1>1, <2>1, <3>1 DEF Element
        <4>2. item.at = Append(e.at, Len(k[e.at]) + 1)
          BY <4>1, RankOf
        <4> QED BY <3>1, <4>2 DEF PlaceOf
      <3>2. CASE item.u.card # "repeated"
        <4>1. ~Element(e)
          BY <1>1, <3>2 DEF Element
        <4> QED BY <3>2, <4>1 DEF PlaceOf, CSameAt
      <3> QED BY <3>1, <3>2
    <2> QED BY <1>14, <2>1, <2>2, <2>3, StepNested
  <1> QED BY <1>7, <1>8, <1>9, <1>10, <1>11, <1>12, <1>13, <1>14 DEF Decode

-----------------------------------------------------------------------------
(* The C decoder in the history of the Go encoder. *)

CReading(W, K) ==
  /\ Delivered /\ PackedIn(W, K) /\ W[Len(marks) + 1] = <<>>
  /\ step \in 0..Len(marks)
  /\ pos = StartOf(marks, bits, step + 1) /\ pos <= Len(data)
  /\ CSame(work, W[step + 1], K[step + 1])

LEMMA CAtItem ==
  ASSUME NEW W, NEW K, CReading(W, K), work # <<>>
  PROVE  LET n == step + 1
         IN /\ step \in Nat /\ n \in 1..Len(marks) /\ n + 1 \in 1..(Len(marks) + 1)
            /\ StartOf(marks, bits, n + 1) \in 0..Len(bits)
            /\ Encoded(W[n], K[n], W[n + 1], K[n + 1], marks[n], bits, pos,
                       StartOf(marks, bits, n + 1))
            /\ pos = marks[n].pos
            /\ W[n] # <<>> /\ IsSeq(W[n]) /\ SameItem(marks[n], Head(W[n]))
            /\ CSameAt(item, Head(W[n]))
            /\ Element(Head(W[n])) => Rank(item) = Len(K[n][Head(W[n]).at]) + 1
  <1> PICK n : n = step + 1
    OBVIOUS
  <1>1. /\ History(W, K, marks, bits) /\ step \in 0..Len(marks) /\ CSame(work, W[n], K[n])
        /\ pos = StartOf(marks, bits, n) /\ W[Len(marks) + 1] = <<>>
    BY DEF PackedIn, CReading
  <1>2. IsSeq(marks) /\ Len(marks) \in Nat
    BY <1>1, SeqFacts DEF History
  <1>3. /\ W[n] # <<>> /\ IsSeq(W[n]) /\ CSameAt(item, Head(W[n]))
        /\ Element(Head(W[n])) => Rank(item) = Len(K[n][Head(W[n]).at]) + 1
    BY <1>1, CSameHead DEF item
  <1>4. step # Len(marks)
    BY <1>1, <1>3
  <1>5. step \in Nat /\ n \in 1..Len(marks) /\ n + 1 \in 1..(Len(marks) + 1)
    BY <1>1, <1>2, <1>4
  <1>6. /\ Encoded(W[n], K[n], W[n + 1], K[n + 1], marks[n], bits, pos,
                   StartOf(marks, bits, n + 1))
        /\ StartOf(marks, bits, n + 1) \in 0..Len(bits)
    BY <1>1, <1>5 DEF History
  <1>7. pos = marks[n].pos
    BY <1>1, <1>2, <1>5 DEF StartOf
  <1>8. SameItem(marks[n], Head(W[n]))
    BY <1>6 DEF Encoded
  <1> QED BY <1>3, <1>5, <1>6, <1>7, <1>8

LEMMA CAtEnd ==
  ASSUME NEW W, NEW K, CReading(W, K), work = <<>>
  PROVE  step = Len(marks) /\ pos = Len(bits) /\ Whole
  <1>1. /\ History(W, K, marks, bits) /\ step \in 0..Len(marks) /\ CSame(<<>>, W[step + 1], K[step + 1])
        /\ pos = StartOf(marks, bits, step + 1) /\ pos <= Len(data)
    BY DEF PackedIn, CReading
  <1>2. Len(marks) \in Nat
    BY <1>1, SeqFacts DEF History
  <1>3. W[step + 1] = <<>>
    BY <1>1, CSameEnd
  <1>4. step = Len(marks)
    <2>1. ASSUME step + 1 \in 1..Len(marks) PROVE FALSE
      BY <1>1, <1>3, <2>1 DEF History, Encoded
    <2> QED BY <1>1, <1>2, <2>1
  <1>5. pos = Len(bits)
    BY <1>1, <1>2, <1>4 DEF StartOf
  <1>6. Whole
    <2>1. Len(bits) \in Nat /\ Len(data) \in Nat
      BY <1>1, SeqFacts DEF History, CReading, Delivered
    <2> QED BY <1>1, <1>5, <2>1 DEF Whole
  <1> QED BY <1>4, <1>5, <1>6

(* An item is a step for both, or data has ended. *)
CMoves(W, K) == \/ phase' = "DecodeError" /\ ~Whole
                \/ cut'
                \/ phase' = "decoding" /\ CReading(W, K)'

LEMMA CItemAt ==
  ASSUME NEW W, NEW K, CReading(W, K), AtCItem, CWork(work), Decode, Supported,
         UNCHANGED <<root, bits, marks, data>>
  PROVE  CMoves(W, K)
  <1>1. phase = "decoding" /\ work # <<>> /\ pos \in Nat
    BY DEF AtCItem
  <1>2. PICK n : n = step + 1
    OBVIOUS
  <1>3. /\ step \in Nat /\ n \in 1..Len(marks) /\ n + 1 \in 1..(Len(marks) + 1)
        /\ Encoded(W[n], K[n], W[n + 1], K[n + 1], marks[n], bits, pos, StartOf(marks, bits, n + 1))
        /\ StartOf(marks, bits, n + 1) \in 0..Len(bits)
        /\ W[n] # <<>> /\ SameItem(marks[n], Head(W[n])) /\ CSameAt(item, Head(W[n]))
        /\ Element(Head(W[n])) => Rank(item) = Len(K[n][Head(W[n]).at]) + 1
    BY <1>1, <1>2, CAtItem
  <1>4. PICK to, e, k, k2 : /\ to = StartOf(marks, bits, n + 1) /\ e = Head(W[n])
                            /\ k = K[n] /\ k2 = K[n + 1]
    OBVIOUS
  <1>5. PICK b, more : /\ IsSeq(b) /\ IsSeq(more)
                       /\ Emitted(e, b, more, k, k2)
                       /\ W[n + 1] = more \o Tail(W[n])
                       /\ to = pos + Len(b) /\ Written(bits, pos, b)
    BY <1>3, <1>4 DEF Encoded
  <1>6. IsSeq(bits) /\ Delivered /\ IsSeq(data) /\ Len(bits) \in Nat /\ Len(data) \in Nat
    <2>1. IsSeq(bits) /\ Delivered /\ IsSeq(data)
      BY DEF CReading, PackedIn, History, Delivered
    <2> QED BY <2>1, SeqFacts
  <1>7. AtCBits(b)
    <2>1. Holds(pos, b)
      BY <1>1, <1>3, <1>4, <1>5, <1>6, BitsAtItem
    <2> QED BY <1>5, <2>1 DEF AtCBits
  <1>8. ~SkipMap
    <2> SUFFICES ASSUME SkipMap PROVE FALSE
      OBVIOUS
    <2>1. item.op = "unit" /\ item.u.unit = "field" /\ item.u.fd.card = "map"
      BY DEF SkipMap, DecodingField, Decoding
    <2>2. marks[n].op = item.op /\ marks[n].u = item.u
      BY <1>3 DEF SameItem, CSameAt
    <2> QED BY <1>3, <2>1, <2>2 DEF Supported
  <1>9. ItemOK(e)
    BY <1>3, <1>4 DEF Encoded
  <1>10. CAdvances(b, more, k2)
    BY <1>3, <1>4, <1>5, <1>7, <1>8, <1>9, CDecoderStep
  <1>11. CASE phase' = "DecodeError" /\ pos + Len(b) > Len(data)
    <2>1. ~Whole
      BY <1>3, <1>4, <1>5, <1>6, <1>11 DEF Whole
    <2> QED BY <1>11, <2>1 DEF CMoves
  <1>12. CASE cut'
    BY <1>12 DEF CMoves
  <1>13. ASSUME phase' = "decoding", step' = step + 1,
                pos' = pos + Len(b) /\ pos + Len(b) <= Len(data),
                NEW m, work' = m \o Tail(work), CSame(m, more, k2)
         PROVE  CMoves(W, K)
    <2>1. step' + 1 = n + 1 /\ step' \in 0..Len(marks)
      BY <1>2, <1>3, <1>13
    <2>2. CSame(work, W[n], k)
      BY <1>2, <1>4 DEF CReading
    <2>3. RanksKept(e, k, k2)
      BY <1>5, EmittedKept
    <2>4. CSame(work', W[n + 1], k2)
      BY <1>1, <1>4, <1>5, <1>13, <2>2, <2>3, CSameNext
    <2>5. pos' = StartOf(marks, bits, n + 1) /\ pos' <= Len(data)
      BY <1>4, <1>5, <1>13
    <2>6. Delivered' /\ PackedIn(W, K)' /\ W[Len(marks') + 1] = <<>>
      BY DEF CReading, Delivered, PackedIn
    <2>7. CReading(W, K)'
      BY <1>4, <2>1, <2>4, <2>5, <2>6 DEF CReading
    <2> QED BY <1>13, <2>7 DEF CMoves
  <1> QED BY <1>10, <1>11, <1>12, <1>13 DEF CAdvances

(* What is packed is refused by the C decoder if a byte that carries a bit *)
(* of it is missing, and accepted if none is.                              *)
CRefusesTruncated ==
  Supported =>
    /\ phase = "DecodeError" => ~Whole
    /\ phase \in {"encoding", "encoded", "EncodeError"} => Whole

CStepInv == /\ phase = "decoding" /\ Supported => \E W, K : CReading(W, K)
            /\ CRefusesTruncated

LEMMA CStepDeliverAt ==
  ASSUME EncoderInv, DeliverTo("decoding"), NEW W, NEW K, Traced(W, K)
  PROVE  CReading(W, K)'
  <1>1. /\ phase = "packing" /\ work = <<>> /\ work' = UnitItems(root, <<>>)
        /\ UNCHANGED <<root, bits, marks, pos, step>>
    BY DEF DeliverTo, packVars
  <1>2. Untouched /\ root \in Roots /\ root \in DOMAIN Descriptor
    BY <1>1, RootType DEF EncoderInv
  <1>3. PackedIn(W, K) /\ W[Len(marks) + 1] = <<>>
    BY <1>1 DEF Traced
  <1>4. /\ IsSeq(marks) /\ IsSeq(bits) /\ Len(marks) \in Nat /\ Len(bits) \in Nat
        /\ W[1] = UnitItems(root, <<>>) /\ StartOf(marks, bits, 1) = 0
    BY <1>3, SeqFacts DEF PackedIn, History
  <1>5. Delivered' /\ Len(data') \in Nat
    <2>1. PICK n \in 0..Bytes : data' = [p \in 1..(n * ByteSize) |->
                                           IF p <= Len(bits) THEN bits[p] ELSE 0]
      BY DEF DeliverTo
    <2>2. PICK m \in Nat \ {0} : m = ByteSize
      BY ByteSizeType
    <2>3. n \in Nat
      OBVIOUS
    <2>4. PICK l \in Nat : l = n * m
      BY <2>3
    <2>5. PICK d : d = data'
      OBVIOUS
    <2>6. d = [p \in 1..l |-> IF p <= Len(bits) THEN bits[p] ELSE 0]
      BY <2>1, <2>2, <2>4, <2>5
    <2>7. IsSeq(d) /\ Len(d) = l
      BY <2>6, FunctionIsSeq
    <2>8. \A p \in 1..Len(bits) : p <= Len(d) => d[p] = bits[p]
      BY <1>4, <2>6, <2>7
    <2> QED BY <1>1, <2>5, <2>7, <2>8 DEF Delivered
  <1>6. CSame(UnitItems(root, <<>>), W[1], K[1])
    BY <1>2, <1>4, EmptyIsSeq, CSameUnits
  <1>7. pos' = 0 /\ step' = 0 /\ step' + 1 = 1 /\ 0 \in 0..Len(marks) /\ 0 <= Len(data')
    BY <1>1, <1>2, <1>4, <1>5 DEF Untouched
  <1>8. PackedIn(W, K)'
    BY <1>1, <1>3 DEF PackedIn
  <1>9. CSame(work', W[step' + 1], K[step' + 1])
    BY <1>1, <1>6, <1>7
  <1> QED BY <1>1, <1>3, <1>4, <1>5, <1>7, <1>8, <1>9 DEF CReading

LEMMA CStepDeliver == ASSUME EchoInv, DeliverTo("decoding") PROVE CStepInv'
  <1>1. phase = "packing" /\ phase' = "decoding" /\ EncoderInv
    BY DEF DeliverTo, EchoInv
  <1>2. PICK W, K : Traced(W, K)
    BY <1>1 DEF EncoderInv
  <1>3. CReading(W, K)'
    BY <1>1, <1>2, CStepDeliverAt
  <1> QED BY <1>1, <1>3 DEF CStepInv, CRefusesTruncated

LEMMA DecodeStays == ASSUME Decode PROVE UNCHANGED <<root, bits, marks, data>>
  <1>1. \A msg : Refuse(msg) => UNCHANGED <<root, bits, marks, data>>
    BY DEF Refuse, packVars, unpackVars
  <1>2. \A n, more, msg : Take(n, more, msg) => UNCHANGED <<root, bits, marks, data>>
    BY DEF Take, packVars
  <1>3. (\E msg : Refuse(msg)) \/ (\E n, more, msg : Take(n, more, msg))
    BY DEF Decode, DecodeScalar, DecodeTimestamp, DecodeMessage, DecodeList, SkipMap, DecodeOneof,
           DecodeValue, DecodeBytes, DecodeNested
  <1> QED BY <1>1, <1>2, <1>3

LEMMA CStepDecode == ASSUME EchoInv, CStepInv, Decode PROVE CStepInv'
  <1>1. /\ phase = "decoding" /\ work # <<>> /\ phase' \in {"decoding", "DecodeError"}
        /\ cut => cut'
    BY DecodePhase
  <1>2. UNCHANGED <<root, bits, marks, data>>
    BY DecodeStays
  <1> SUFFICES ASSUME Supported'
               PROVE  /\ phase' = "decoding" => \E W, K : CReading(W, K)'
                      /\ phase' = "DecodeError" => ~Whole'
    BY <1>1 DEF CStepInv, CRefusesTruncated
  <1>4. Supported /\ ~cut' /\ ~cut
    BY <1>1, <1>2 DEF Supported
  <1>5. Told /\ CWork(work)
    BY <1>1, <1>4 DEF EchoInv, Told
  <1>6. AtCItem
    BY <1>1, <1>5, CWorkHead DEF AtCItem, item, Told
  <1>7. PICK W, K : CReading(W, K)
    BY <1>1, <1>4 DEF CStepInv
  <1>8. CMoves(W, K)
    BY <1>2, <1>4, <1>5, <1>6, <1>7, CItemAt
  <1>9. ~Whole => ~Whole'
    BY <1>2 DEF Whole
  <1> QED BY <1>4, <1>8, <1>9 DEF CMoves

LEMMA CStepFinishDecode == ASSUME CStepInv, FinishDecode PROVE CStepInv'
  <1>1. /\ phase = "decoding" /\ work = <<>> /\ phase' = "encoding"
        /\ UNCHANGED <<bits, marks, data, cut>>
    BY DEF FinishDecode, packVars, unpackVars
  <1>2. ASSUME Supported' PROVE Whole'
    <2>1. Supported
      BY <1>1, <1>2 DEF Supported
    <2>2. PICK W, K : CReading(W, K)
      BY <1>1, <2>1 DEF CStepInv
    <2>3. Whole
      BY <1>1, <2>2, CAtEnd
    <2> QED BY <1>1, <2>3 DEF Whole
  <1> QED BY <1>1, <1>2 DEF CStepInv, CRefusesTruncated

LEMMA CStepEncode == ASSUME CStepInv, Encode \/ FinishEncode PROVE CStepInv'
  <1>1. UNCHANGED <<bits, marks, data, cut>>
    <2>1. CASE Encode
      <3>1. \E b, more : Write(b, more)
        BY <2>1 DEF Encode, EncodeScalar, EncodeTimestamp, EncodeMessage, EncodeList, SkipMapAgain,
                    EncodeOneof, EncodeValue, EncodeNested
      <3> QED BY <3>1 DEF Write, packVars, unpackVars
    <2>2. CASE FinishEncode
      BY <2>2 DEF FinishEncode, packVars, unpackVars, cVars
    <2> QED BY <2>1, <2>2
  <1>2. phase = "encoding" /\ phase' \in {"encoding", "EncodeError", "encoded"}
    BY EncodePhase DEF FinishEncode
  <1> QED BY <1>1, <1>2 DEF CStepInv, CRefusesTruncated, Supported, Whole

LEMMA CStepStutter == ASSUME CStepInv, UNCHANGED allVars PROVE CStepInv'
  <1>1. UNCHANGED <<phase, root, work, bits, marks, data, pos, step, cut>>
    BY DEF allVars, vars, cVars
  <1>2. ASSUME NEW W, NEW K, CReading(W, K) PROVE CReading(W, K)'
    BY <1>1, <1>2 DEF CReading, Delivered, PackedIn
  <1>3. Supported' <=> Supported
    BY <1>1 DEF Supported
  <1>4. Whole' <=> Whole
    BY <1>1 DEF Whole
  <1>5. CRefusesTruncated'
    BY <1>1, <1>3, <1>4 DEF CStepInv, CRefusesTruncated
  <1>6. ASSUME phase' = "decoding", Supported' PROVE \E W, K : CReading(W, K)'
    <2>1. PICK W, K : CReading(W, K)
      BY <1>1, <1>3, <1>6 DEF CStepInv
    <2> QED BY <1>2, <2>1
  <1> QED BY <1>5, <1>6 DEF CStepInv

LEMMA CStepStep == ASSUME EchoInv, CStepInv, [CNext]_allVars PROVE CStepInv'
  <1>1. CASE StartPack \/ Pack
    <2>1. phase' \in {"packing", "PackError", "ValidationError"}
      BY <1>1, PackPhases
    <2> QED BY <2>1 DEF CStepInv, CRefusesTruncated
  <1> QED BY <1>1, CStepDeliver, CStepDecode, CStepFinishDecode, CStepEncode, CStepStutter
      DEF CNext

(* The C decoder always stands at an item of the Go encoder's, with the    *)
(* work that the encoder had there.                                        *)
THEOREM CStepInvariance == CSpec => []CStepInv
  <1>1. CInit => CStepInv
    BY DEF CInit, Init, CStepInv, CRefusesTruncated
  <1>2. EchoInv /\ CStepInv /\ [CNext]_allVars => CStepInv'
    BY CStepStep
  <1> QED BY <1>1, <1>2, EchoInvariance, PTL DEF CSpec

LEMMA FieldOf ==
  ASSUME NEW x, NEW y, CSameAt(x, y) PROVE Field(x) = y.at
  <1>1. CASE Element(y)
    <2>1. PICK r, p, q : r = Rank(x) /\ p = x.at /\ q = y.at
      OBVIOUS
    <2>2. p = Append(q, r) /\ IsSeq(q) /\ IsSeq(p)
      BY <1>1, <2>1, RankOf
    <2>3. Len(p) = Len(q) + 1 /\ Len(q) \in Nat /\ \A i \in 1..Len(q) : p[i] = q[i]
      BY <2>2, AppendFacts, SeqFacts
    <2>4. PICK n : n = Len(q)
      OBVIOUS
    <2>5. PICK s : s = SubSeq(p, 1, n)
      OBVIOUS
    <2>6. IsSeq(s) /\ Len(s) = n /\ \A i \in 1..n : s[i] = p[i]
      <3>1. 0 + 1 = 1 /\ 0 + n = n /\ 0 \in Nat /\ 0 + n <= Len(p)
        BY <2>3, <2>4
      <3>2. s = SubSeq(p, 0 + 1, 0 + n)
        BY <2>5, <3>1
      <3>3. IsSeq(s) /\ Len(s) = n /\ \A i \in 1..n : s[i] = p[0 + i]
        BY <2>2, <2>3, <2>4, <3>1, <3>2, SliceFacts
      <3>4. \A i \in 1..n : 0 + i = i
        BY <2>3, <2>4
      <3> QED BY <3>3, <3>4
    <2>7. s = q
      BY <2>2, <2>3, <2>4, <2>6, SeqsEqual
    <2>8. Len(p) - 1 = n
      BY <2>3, <2>4
    <2>9. Front(p) = s
      BY <2>5, <2>8 DEF Front
    <2>10. Field(x) = Front(x.at)
      BY <1>1 DEF Field, Element, CSameAt
    <2> QED BY <2>1, <2>7, <2>9, <2>10
  <1>2. CASE ~Element(y)
    BY <1>2 DEF Field, Element, CSameAt
  <1> QED BY <1>1, <1>2

(* The decoder generated from a schema and the encoder that interprets it  *)
(* read the same stream in the same way: whatever the schema, at every     *)
(* item the C decoder comes to, it stands at the bit where the Go packer   *)
(* began that item, if the struct can hold what was packed.                *)
THEOREM CInStepAlways == CSpec => []CInStep
  <1>1. ASSUME CStepInv PROVE CInStep
    <2> SUFFICES ASSUME phase = "decoding", Supported
                 PROVE  /\ work # <<>> =>
                             /\ step < Len(marks)
                             /\ item.op = marks[step + 1].op /\ item.u = marks[step + 1].u
                             /\ Field(item) = marks[step + 1].at /\ pos = marks[step + 1].pos
                        /\ work = <<>> => step = Len(marks) /\ pos = Len(bits)
      BY DEF CInStep
    <2>1. PICK W, K : CReading(W, K)
      BY <1>1 DEF CStepInv
    <2>2. ASSUME work # <<>>
          PROVE  /\ step < Len(marks)
                 /\ item.op = marks[step + 1].op /\ item.u = marks[step + 1].u
                 /\ Field(item) = marks[step + 1].at /\ pos = marks[step + 1].pos
      <3>1. PICK n, e : n = step + 1 /\ e = Head(W[n])
        OBVIOUS
      <3>2. /\ step \in Nat /\ n \in 1..Len(marks) /\ pos = marks[n].pos
            /\ SameItem(marks[n], e) /\ CSameAt(item, e)
        BY <2>1, <2>2, <3>1, CAtItem
      <3>3. step < Len(marks)
        BY <3>1, <3>2
      <3>4. Field(item) = e.at
        BY <3>2, FieldOf
      <3>5. item.op = marks[n].op /\ item.u = marks[n].u /\ e.at = marks[n].at
        BY <3>2 DEF SameItem, CSameAt
      <3> QED BY <3>1, <3>2, <3>3, <3>4, <3>5
    <2>3. ASSUME work = <<>> PROVE step = Len(marks) /\ pos = Len(bits)
      BY <2>1, <2>3, CAtEnd
    <2> QED BY <2>2, <2>3
  <1> QED BY <1>1, CStepInvariance, PTL

(* Of a message the struct can hold, the C decoder accepts every stream    *)
(* that has all of its bits, and refuses every other, whatever the schema. *)
THEOREM CRefusesTruncatedAlways == CSpec => []CRefusesTruncated
  <1>1. CStepInv => CRefusesTruncated
    BY DEF CStepInv
  <1> QED BY <1>1, CStepInvariance, PTL
=============================================================================
