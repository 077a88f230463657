-------------------------- MODULE CGeneratorProofs --------------------------
(***************************************************************************)
(* Proofs about the C generator: about CStream, for every buffer, old       *)
(* content, width and value (its invariants, and that it implements         *)
(* BitQueue as BitStream does), and about CStructOrder, for every set of    *)
(* messages, however they are declared in and refer to each other.          *)
(***************************************************************************)
EXTENDS CStream, CStructOrder, BitsProofs, SequenceTheorems, FiniteSetTheorems

Delivered == phase \in {"decode", "short"}

(* The ties between the positions and what moved, and between the          *)
(* delivered bytes and the buffer they are the first of.                   *)
Follows ==
  /\ pos = Len(written)
  /\ ~Delivered => data = <<>> /\ rpos = 0 /\ reading.n = 0
  /\ Delivered => writing.n = 0
  /\ Len(data) <= UsedBytes
  /\ \A p \in 0..(8 * Len(data) - 1) : BitAt(data, p) = BitAt(buf, p)
  /\ rpos = Len(got)
  /\ \A p \in 1..rpos : got[p] = BitAt(data, p - 1)

(* The invariant that is inductive. *)
IInv == /\ TypeOK
        /\ BufferIsolated
        /\ RefusalIsExact
        /\ Follows

-----------------------------------------------------------------------------
(* Arithmetic of the positions. *)

(* A number below the word is itself. *)
LEMMA BelowWord ==
  ASSUME NEW a \in Nat, NEW b \in Nat, a < b
  PROVE  a % b = a
  OBVIOUS

(* So is the number of bytes that hold some bits a number. *)
LEMMA RoundedUp ==
  ASSUME NEW a \in Nat
  PROVE  (a + 7) \div 8 \in Nat
  OBVIOUS

(* The bytes used hold every bit up to pos, less than a byte more, and are *)
(* no more than the buffer has.                                            *)
LEMMA UsedLemma ==
  ASSUME pos \in Nat
  PROVE  /\ UsedBytes \in Nat
         /\ pos <= 8 * UsedBytes
         /\ 8 * UsedBytes < pos + 8
         /\ pos <= 8 * Size => UsedBytes <= Size
         /\ \A p \in Nat : pos <= p /\ p < 8 * UsedBytes
                              => p \div 8 = pos \div 8 /\ pos % 8 # 0
         /\ \A p \in Nat : 8 * UsedBytes <= p /\ pos % 8 # 0
                              => p \div 8 # pos \div 8
  BY SizeAssumption DEF UsedBytes

(* What the capacity checks compare, whatever uint32_t does: nothing wraps. *)
LEMMA ChecksLemma ==
  ASSUME IInv, NEW n \in Widths
  PROVE  /\ NoRoom(n) <=> pos + n > 8 * Size
         /\ TooFewLeft(n) <=> rpos + n > 8 * Len(data)
  <1>1. /\ pos \in Nat /\ rpos \in Nat /\ n \in Nat /\ Len(data) \in Nat
        /\ pos <= 8 * Size
        /\ 8 * Size < Word /\ 8 * Size + n < Word
        /\ Word \in Nat /\ Size \in Nat
    BY SizeAssumption, RequestsAssumption, CapacityAssumption
       DEF IInv, TypeOK, RefusalIsExact
  <1>2. 8 * Len(data) <= 8 * Size /\ rpos <= 8 * Len(data)
    <2>1. Len(data) <= UsedBytes
      BY DEF IInv, Follows
    <2>2. phase = "encode" => data = <<>> /\ rpos = 0
      BY DEF IInv, Follows, Delivered
    <2>3. phase # "encode" => rpos <= 8 * Len(data)
      <3>1. phase # "encode" => rpos + reading.n <= 8 * Len(data)
        BY DEF IInv, RefusalIsExact
      <3>2. reading.n \in Nat
        BY DEF IInv, TypeOK
      <3> QED BY <1>1, <3>1, <3>2
    <2> QED BY <1>1, <2>1, <2>2, <2>3, UsedLemma
  <1>3. bit_cap = 8 * Size
    BY <1>1, BelowWord DEF bit_cap
  <1>4. bit_len = 8 * Len(data)
    <2>1. 8 * Len(data) \in Nat /\ 8 * Len(data) < Word
      BY <1>1, <1>2
    <2> QED BY <1>1, <2>1, BelowWord DEF bit_len
  <1>5. (pos + n) % Word = pos + n
    BY <1>1, BelowWord
  <1>6. (bit_len - rpos) % Word = 8 * Len(data) - rpos
    <2>1. bit_len - rpos \in Nat /\ bit_len - rpos < Word
      BY <1>1, <1>2, <1>4
    <2> QED BY <1>1, <1>4, <2>1, BelowWord
  <1> QED BY <1>1, <1>3, <1>5, <1>6 DEF NoRoom, TooFewLeft

-----------------------------------------------------------------------------
(* The buffer. *)

(* Writing the bit at a position changes that bit and no other. *)
LEMMA WithBitLemma ==
  ASSUME NEW b \in [1..Size -> Byte], NEW bit \in {0, 1},
         NEW q \in 0..(8 * Size - 1)
  PROVE  /\ WithBit(b, bit, q) \in [1..Size -> Byte]
         /\ \A p \in 0..(8 * Size - 1) :
              BitAt(WithBit(b, bit, q), p) = IF p = q THEN bit ELSE BitAt(b, p)
  <1> DEFINE at == q \div 8 + 1
             j == 7 - (q % 8)
             c == WithBit(b, bit, q)
  <1>0. Size \in Nat
    BY SizeAssumption
  <1>1. q \in Nat /\ at \in 1..Size /\ j \in 0..7
    BY <1>0, PositionLemma
  <1>2. c = [b EXCEPT ![at] = IF bit # 0 THEN @ \cup {j} ELSE @ \ {j}]
    BY DEF WithBit
  <1>3. c \in [1..Size -> Byte]
    BY <1>1, <1>2 DEF Byte
  <1>4. /\ \A i \in 1..Size : i # at => c[i] = b[i]
        /\ c[at] = IF bit # 0 THEN b[at] \cup {j} ELSE b[at] \ {j}
    BY <1>1, <1>2
  <1>5. ASSUME NEW p \in 0..(8 * Size - 1)
        PROVE  BitAt(c, p) = IF p = q THEN bit ELSE BitAt(b, p)
    <2>1. p \in Nat /\ p \div 8 + 1 \in 1..Size
      BY <1>0, PositionLemma
    <2>2. CASE p = q
      <3>1. BitAt(c, p) = IF j \in c[at] THEN 1 ELSE 0
        BY <2>2 DEF BitAt
      <3> HIDE DEF c
      <3> QED BY <1>4, <2>2, <3>1
    <2>3. CASE p # q /\ p \div 8 + 1 # at
      <3>1. c[p \div 8 + 1] = b[p \div 8 + 1]
        BY <1>4, <2>1, <2>3
      <3> HIDE DEF c
      <3> QED BY <2>3, <3>1 DEF BitAt
    <2>4. CASE p # q /\ p \div 8 + 1 = at
      <3>1. p \div 8 = q \div 8
        BY <1>1, <2>1, <2>4, PositionLemma
      <3>2. 7 - (p % 8) # j
        BY <1>1, <2>1, <2>4, <3>1, PositionInjective
      <3> HIDE DEF c
      <3> QED BY <1>4, <2>4, <3>2 DEF BitAt
    <2> QED BY <2>2, <2>3, <2>4
  <1> QED BY <1>3, <1>5

(* bp_writer_finish clears the bits after pos of its byte, and no other.   *)
LEMMA MaskedLemma ==
  ASSUME IInv
  PROVE  /\ Masked \in [1..Size -> Byte]
         /\ \A p \in 0..(8 * Size - 1) :
              BitAt(Masked, p) = IF pos <= p /\ p < 8 * UsedBytes
                                 THEN 0 ELSE BitAt(buf, p)
  <1> DEFINE at == pos \div 8 + 1
  <1>0. /\ Size \in Nat /\ pos \in Nat /\ pos <= 8 * Size
        /\ buf \in [1..Size -> Byte]
    <2>1. writing.n \in Nat /\ pos \in Nat /\ pos + writing.n <= 8 * Size
      BY DEF IInv, TypeOK, RefusalIsExact
    <2> QED BY <2>1, SizeAssumption DEF IInv, TypeOK
  <1>1. CASE pos % 8 = 0
    <2>1. Masked = buf
      BY <1>1 DEF Masked
    <2>2. \A p \in 0..(8 * Size - 1) : ~(pos <= p /\ p < 8 * UsedBytes)
      BY <1>0, <1>1, UsedLemma
    <2> QED BY <1>0, <2>1, <2>2
  <1>2. CASE pos % 8 # 0
    <2>1. at \in 1..Size
      BY <1>0, <1>2
    <2>2. Masked = [buf EXCEPT ![at] = {j \in @ : j >= 8 - (pos % 8)}]
      BY <1>2 DEF Masked
    <2>3. /\ Masked \in [1..Size -> Byte]
          /\ \A i \in 1..Size : i # at => Masked[i] = buf[i]
          /\ Masked[at] = {j \in buf[at] : j >= 8 - (pos % 8)}
      BY <1>0, <2>1, <2>2 DEF Byte
    <2>4. ASSUME NEW p \in 0..(8 * Size - 1)
          PROVE  BitAt(Masked, p) = IF pos <= p /\ p < 8 * UsedBytes
                                    THEN 0 ELSE BitAt(buf, p)
      <3>1. p \in Nat /\ p \div 8 + 1 \in 1..Size
        BY <1>0, PositionLemma
      <3>2. CASE p \div 8 # pos \div 8
        <4>1. p \div 8 + 1 # at
          BY <1>0, <3>1, <3>2
        <4>2. ~(pos <= p /\ p < 8 * UsedBytes)
          BY <1>0, <3>1, <3>2, UsedLemma
        <4> QED BY <2>3, <3>1, <4>1, <4>2 DEF BitAt
      <3>3. CASE p \div 8 = pos \div 8
        <4>1. p < 8 * UsedBytes
          BY <1>0, <1>2, <3>1, <3>3, UsedLemma
        <4>2. pos <= p <=> ~(7 - (p % 8) >= 8 - (pos % 8))
          BY <1>0, <3>1, <3>3
        <4>3. 7 - (p % 8) \in Masked[at] <=>
                7 - (p % 8) \in buf[at] /\ ~(pos <= p)
          BY <2>3, <4>2
        <4> QED BY <3>3, <4>1, <4>3 DEF BitAt
      <3> QED BY <3>2, <3>3
    <2> QED BY <2>3, <2>4
  <1> QED BY <1>1, <1>2

-----------------------------------------------------------------------------
(* Every step of the writer and of the reader keeps the invariant.         *)

(* It holds when the encoder is called, whatever the buffer holds. *)
LEMMA InitInvariant == Init => IInv
  <1> SUFFICES ASSUME Init PROVE IInv
    OBVIOUS
  <1>1. /\ before \in [1..Size -> Byte] /\ buf = before
    BY StaleAssumption DEF Init
  <1>2. TypeOK
    BY <1>1 DEF Init, TypeOK, Idle
  <1>3. BufferIsolated
    BY <1>1 DEF Init, BufferIsolated
  <1>4. RefusalIsExact
    BY SizeAssumption DEF Init, RefusalIsExact, Idle
  <1>5. Follows
    BY DEF Init, Follows, Idle, Delivered, UsedBytes
  <1> QED BY <1>2, <1>3, <1>4, <1>5 DEF IInv

(* The ranges that the steps use. *)
LEMMA Ranges ==
  ASSUME IInv
  PROVE  /\ Size \in Nat /\ pos \in Nat /\ rpos \in Nat
         /\ writing.n \in Nat /\ writing.val \in Nat
         /\ reading.n \in Nat /\ reading.val \in Nat
         /\ pos <= 8 * Size
         /\ written \in Seq({0, 1}) /\ Len(written) = pos
         /\ got \in Seq({0, 1}) /\ Len(got) = rpos
         /\ data \in Seq(Byte) /\ Len(data) \in Nat
         /\ UsedBytes \in Nat /\ Len(data) <= UsedBytes /\ UsedBytes <= Size
  <1>1. /\ pos \in Nat /\ rpos \in Nat /\ writing \in [n : Nat, val : Nat]
        /\ reading \in [n : Nat, val : Nat]
        /\ written \in Seq({0, 1}) /\ got \in Seq({0, 1}) /\ data \in Seq(Byte)
    BY DEF IInv, TypeOK
  <1>2. writing.n \in Nat /\ writing.val \in Nat /\ reading.n \in Nat /\ reading.val \in Nat
    BY <1>1
  <1>3. pos + writing.n <= 8 * Size
    BY DEF IInv, RefusalIsExact
  <1>4. pos = Len(written) /\ rpos = Len(got) /\ Len(data) <= UsedBytes
    BY DEF IInv, Follows
  <1>5. pos <= 8 * Size
    BY <1>1, <1>2, <1>3, SizeAssumption
  <1> QED BY <1>1, <1>2, <1>4, <1>5, UsedLemma, SizeAssumption

(* bp_write_bits writes one bit. *)
LEMMA WriteBitInvariant ==
  ASSUME IInv, WriteBit PROVE IInv'
  <1> DEFINE bit == LowBit(writing.val, writing.n - 1)
  <1>0. bit \in {0, 1}
    BY DEF LowBit
  <1>1. /\ phase = "encode" /\ writing.n > 0
        /\ buf' = WithBit(buf, bit, pos)
        /\ pos' = pos + 1
        /\ writing' = [writing EXCEPT !.n = @ - 1]
        /\ written' = Append(written, bit)
        /\ UNCHANGED <<before, data, rpos, reading, got, phase, refused>>
    BY DEF WriteBit, decoder
  <1> HIDE DEF bit
  <1>2. /\ data = <<>> /\ rpos = 0 /\ reading.n = 0
        /\ buf \in [1..Size -> Byte] /\ before \in [1..Size -> Byte]
        /\ writing \in [n : Nat, val : Nat]
    BY <1>1 DEF IInv, Follows, Delivered, TypeOK
  <1>3. pos + writing.n <= 8 * Size /\ pos \in 0..(8 * Size - 1)
    <2>1. pos + writing.n <= 8 * Size
      BY DEF IInv, RefusalIsExact
    <2> QED BY <1>1, <2>1, Ranges, SMTT(30)
  <1>4. /\ writing' \in [n : Nat, val : Nat]
        /\ writing'.n = writing.n - 1
    BY <1>1, <1>2, Ranges
  <1>5. /\ written' \in Seq({0, 1}) /\ Len(written') = pos + 1
        /\ \A p \in 1..pos : written'[p] = written[p]
        /\ written'[pos + 1] = bit
    BY <1>0, <1>1, Ranges
  <1>6. /\ buf' \in [1..Size -> Byte]
        /\ \A p \in 0..(8 * Size - 1) :
             BitAt(buf', p) = IF p = pos THEN bit ELSE BitAt(buf, p)
    BY <1>0, <1>1, <1>2, <1>3, WithBitLemma
  <1>7. TypeOK'
    <2>1. pos' \in Nat
      BY <1>1, Ranges
    <2> QED BY <1>1, <1>2, <1>4, <1>5, <1>6, <2>1 DEF IInv, TypeOK
  <1>8. BufferIsolated'
    <2> SUFFICES ASSUME NEW p \in 0..(8 * Size - 1)
                 PROVE  BitAt(buf', p) = IF p < pos + 1 THEN written'[p + 1]
                                         ELSE BitAt(before, p)
      BY <1>1, <1>6 DEF BufferIsolated
    <2>1. BitAt(buf, p) = IF p < pos THEN written[p + 1] ELSE BitAt(before, p)
      BY <1>1 DEF IInv, BufferIsolated
    <2>2. CASE p = pos
      BY <1>5, <1>6, <2>2, Ranges
    <2>3. CASE p < pos
      BY <1>5, <1>6, <2>1, <2>3, Ranges, SMTT(30)
    <2>4. CASE p > pos
      BY <1>6, <2>1, <2>4, Ranges
    <2> QED BY <2>2, <2>3, <2>4, Ranges
  <1>9. RefusalIsExact'
    BY <1>1, <1>3, <1>4, Ranges DEF RefusalIsExact
  <1>10. Follows'
    <2>1. UsedBytes' \in Nat
      <3>1. pos' \in Nat
        BY <1>1, Ranges
      <3> QED BY <3>1, RoundedUp DEF UsedBytes
    <2>2. pos' = Len(written') /\ rpos = Len(got)
      BY <1>1, <1>5, Ranges
    <2>3. Len(data) = 0
      BY <1>2
    <2>4. Len(data') <= UsedBytes'
      BY <1>1, <2>1, <2>3
    <2>5. ~Delivered'
      BY <1>1 DEF Delivered
    <2>6. \A p \in 0..(8 * Len(data') - 1) : BitAt(data, p)' = BitAt(buf, p)'
      BY <1>1, <2>3
    <2>7. \A p \in 1..rpos' : got'[p] = BitAt(data, p - 1)'
      BY <1>1, <1>2
    <2> QED BY <1>1, <1>2, <2>2, <2>4, <2>5, <2>6, <2>7 DEF Follows
  <1> QED BY <1>7, <1>8, <1>9, <1>10 DEF IInv

(* bp_writer_finish, and the delivery of the bytes it counts. *)
LEMMA FinishInvariant ==
  ASSUME IInv, NEW k \in 0..UsedBytes, Finish(k)
  PROVE  /\ IInv'
         /\ Len(data') = k
         /\ \A p \in 0..(8 * k - 1) :
              BitAt(data', p) = IF p < pos THEN written[p + 1] ELSE 0
  <1>1. /\ phase = "encode" /\ writing.n = 0
        /\ buf' = Masked
        /\ data' = SubSeq(Masked, 1, k)
        /\ phase' = "decode"
        /\ UNCHANGED <<pos, writing, before, written, rpos, reading, got, refused>>
    BY DEF Finish
  <1>2. /\ rpos = 0 /\ reading.n = 0 /\ before \in [1..Size -> Byte]
        /\ Size \in Nat /\ k \in 0..Size
    BY <1>1, Ranges DEF IInv, Follows, Delivered, TypeOK
  <1>3. /\ Masked \in [1..Size -> Byte]
        /\ \A p \in 0..(8 * Size - 1) :
             BitAt(Masked, p) = IF pos <= p /\ p < 8 * UsedBytes
                                THEN 0 ELSE BitAt(buf, p)
    BY MaskedLemma
  <1>4. Masked \in Seq(Byte) /\ Len(Masked) = Size
    BY <1>2, <1>3
  <1>5. data' \in Seq(Byte) /\ Len(data') = k
    BY <1>1, <1>2, <1>4
  <1>6. ASSUME NEW p \in 0..(8 * k - 1)
        PROVE  BitAt(data', p) = BitAt(buf', p)
    <2>1. p \in Nat /\ p < 8 * k /\ k \in 0..Len(Masked)
      BY <1>2, <1>4
    <2> QED BY <1>1, <1>4, <2>1, PrefixBits
  <1>7. ASSUME NEW p \in 0..(8 * Size - 1)
        PROVE  BitAt(buf', p) = IF p < pos THEN written[p + 1]
                                ELSE IF p < 8 * UsedBytes THEN 0
                                ELSE BitAt(before, p)
    <2>1. BitAt(buf, p) = IF p < pos THEN written[p + 1] ELSE BitAt(before, p)
      BY <1>1 DEF IInv, BufferIsolated
    <2>2. BitAt(buf', p) = IF pos <= p /\ p < 8 * UsedBytes
                           THEN 0 ELSE BitAt(buf, p)
      BY <1>1, <1>3
    <2> QED BY <2>1, <2>2, Ranges
  <1>8. TypeOK'
    BY <1>1, <1>2, <1>3, <1>5 DEF IInv, TypeOK
  <1>9. BufferIsolated'
    BY <1>1, <1>7 DEF BufferIsolated, UsedBytes
  <1>10. RefusalIsExact'
    <2>1. pos + writing.n <= 8 * Size
      BY DEF IInv, RefusalIsExact
    <2> QED BY <1>1, <1>2, <1>5, <2>1 DEF RefusalIsExact
  <1>11. Follows'
    BY <1>1, <1>2, <1>5, <1>6, Ranges DEF Follows, Delivered, UsedBytes
  <1>12. ASSUME NEW p \in 0..(8 * k - 1)
         PROVE  BitAt(data', p) = IF p < pos THEN written[p + 1] ELSE 0
    <2>1. p \in 0..(8 * Size - 1) /\ p < 8 * UsedBytes
      BY <1>2, Ranges
    <2> QED BY <1>6, <1>7, <2>1
  <1> QED BY <1>5, <1>8, <1>9, <1>10, <1>11, <1>12 DEF IInv

(* bp_read_bits reads one bit: there is one, and it is the next. *)
LEMMA ReadBitInvariant ==
  ASSUME IInv, ReadBit
  PROVE  /\ IInv'
         /\ rpos < 8 * Len(data)
  <1> DEFINE bit == BitAt(data, rpos)
  <1>0. bit \in {0, 1}
    BY DEF BitAt
  <1>1. /\ phase = "decode" /\ reading.n > 0
        /\ rpos' = rpos + 1
        /\ got' = Append(got, bit)
        /\ reading' = [n |-> reading.n - 1, val |-> 2 * reading.val + bit]
        /\ UNCHANGED <<buf, pos, writing, before, written, data, phase, refused>>
    BY DEF ReadBit, encoder, ShiftedIn
  <1> HIDE DEF bit
  <1>2. rpos + reading.n <= 8 * Len(data) /\ rpos < 8 * Len(data)
    <2>1. rpos + reading.n <= 8 * Len(data)
      BY <1>1 DEF IInv, RefusalIsExact
    <2> QED BY <1>1, <2>1, Ranges, SMTT(30)
  <1>3. reading' \in [n : Nat, val : Nat] /\ reading'.n = reading.n - 1
    <2>1. reading.n \in Nat /\ reading.val \in Nat
      BY Ranges
    <2>2. reading.n - 1 \in Nat
      BY <1>1, <2>1
    <2>3. 2 * reading.val + bit \in Nat
      BY <1>0, <2>1
    <2> QED BY <1>1, <2>2, <2>3
  <1>4. \A p \in 1..rpos : got[p] = BitAt(data, p - 1)
    BY DEF IInv, Follows
  <1>5. /\ got' \in Seq({0, 1}) /\ Len(got') = rpos + 1
        /\ \A p \in 1..rpos : got'[p] = got[p]
        /\ got'[rpos + 1] = bit
    <2>1. got \in Seq({0, 1}) /\ Len(got) = rpos /\ rpos \in Nat
      BY Ranges
    <2>2. got' = Append(got, bit)
      BY <1>1
    <2> QED BY <1>0, <2>1, <2>2
  <1>6. TypeOK'
    BY <1>1, <1>3, <1>5, Ranges, SMTT(30) DEF IInv, TypeOK
  <1>7. BufferIsolated'
    BY <1>1 DEF IInv, BufferIsolated, UsedBytes, BitAt
  <1>8. RefusalIsExact'
    <2>1. pos + writing.n <= 8 * Size
      BY DEF IInv, RefusalIsExact
    <2>2. rpos' + reading'.n = rpos + reading.n
      <3>1. rpos \in Nat /\ reading.n \in Nat
        BY Ranges
      <3>2. rpos' = rpos + 1 /\ reading'.n = reading.n - 1
        BY <1>1, <1>3
      <3>3. (rpos + 1) + (reading.n - 1) = rpos + reading.n
        BY <3>1
      <3> QED BY <3>2, <3>3
    <2> QED BY <1>1, <1>2, <2>1, <2>2 DEF RefusalIsExact
  <1>9. ASSUME NEW p \in 1..(rpos + 1) PROVE got'[p] = BitAt(data, p - 1)
    <2>1. CASE p = rpos + 1
      BY <1>5, <2>1, Ranges DEF bit
    <2>2. CASE p # rpos + 1
      <3>1. rpos \in Nat
        BY Ranges
      <3>2. p \in 1..rpos
        BY <2>2, <3>1
      <3> QED BY <1>4, <1>5, <3>2
    <2> QED BY <2>1, <2>2
  <1>10. Follows'
    <2>1. /\ pos' = Len(written') /\ Delivered' /\ writing'.n = 0
          /\ Len(data') <= UsedBytes'
      BY <1>1 DEF IInv, Follows, Delivered, UsedBytes
    <2>2. \A p \in 0..(8 * Len(data) - 1) : BitAt(data, p)' = BitAt(buf, p)'
      BY <1>1 DEF IInv, Follows, BitAt
    <2>3. \A p \in 1..rpos' : got'[p] = BitAt(data, p - 1)'
      BY <1>1, <1>9 DEF BitAt
    <2> QED BY <1>1, <1>5, <2>1, <2>2, <2>3 DEF Follows
  <1> QED BY <1>2, <1>6, <1>7, <1>8, <1>10 DEF IInv

(* Each action keeps it; the others move no bit. *)
LEMMA StepInvariant == IInv /\ [Next]_vars => IInv'
  <1> SUFFICES ASSUME IInv, [Next]_vars PROVE IInv'
    OBVIOUS
  <1>0. /\ UNCHANGED <<buf, pos, before, written, data, rpos, got>> => UNCHANGED UsedBytes
        /\ TypeOK /\ BufferIsolated /\ RefusalIsExact /\ Follows
    BY DEF IInv, UsedBytes
  <1>1. ASSUME NEW n \in Widths, NEW val \in Values, StartWriteBits(val, n)
        PROVE  IInv'
    <2>1. /\ phase = "encode"
          /\ writing' = [n |-> n, val |-> val]
          /\ UNCHANGED <<buf, pos, before, written, data, rpos, reading, got, phase, refused>>
      BY <1>1 DEF StartWriteBits, decoder
    <2>2. n \in Nat /\ val \in Nat
      BY RequestsAssumption
    <2>3. pos + n <= 8 * Size
      <3>1. ~(pos + n > 8 * Size)
        BY <1>1, ChecksLemma DEF StartWriteBits
      <3> QED BY <2>2, <3>1, Ranges
    <2>4. TypeOK'
      BY <1>0, <2>1, <2>2 DEF TypeOK
    <2>5. BufferIsolated'
      BY <1>0, <2>1 DEF BufferIsolated, BitAt
    <2>6. RefusalIsExact'
      BY <1>0, <2>1, <2>3 DEF RefusalIsExact
    <2>7. Follows'
      BY <1>0, <2>1 DEF Follows, Delivered, BitAt
    <2> QED BY <2>4, <2>5, <2>6, <2>7 DEF IInv
  <1>2. ASSUME NEW n \in Widths, WriteRefused(n)
        PROVE  IInv'
    <2>1. /\ phase = "encode" /\ phase' = "full" /\ refused' = n
          /\ UNCHANGED <<buf, pos, writing, before, written, data, rpos, reading, got>>
      BY <1>2 DEF WriteRefused, encoder, decoder
    <2>2. n \in Nat
      BY RequestsAssumption
    <2>3. pos + n > 8 * Size
      BY <1>2, ChecksLemma DEF WriteRefused
    <2>4. data = <<>> /\ rpos = 0 /\ reading.n = 0
      BY <1>0, <2>1 DEF Follows, Delivered
    <2>5. TypeOK'
      BY <1>0, <2>1, <2>2 DEF TypeOK
    <2>6. BufferIsolated'
      BY <1>0, <2>1 DEF BufferIsolated, BitAt
    <2>7. RefusalIsExact'
      BY <1>0, <2>1, <2>3, <2>4 DEF RefusalIsExact
    <2>8. Follows'
      BY <1>0, <2>1, <2>4 DEF Follows, Delivered, BitAt
    <2> QED BY <2>5, <2>6, <2>7, <2>8 DEF IInv
  <1>3. CASE WriteBit
    BY <1>3, WriteBitInvariant
  <1>4. ASSUME NEW k \in 0..UsedBytes, Finish(k)
        PROVE  IInv'
    BY <1>4, FinishInvariant
  <1>5. ASSUME NEW n \in Widths, StartReadBits(n)
        PROVE  IInv'
    <2>1. /\ phase = "decode"
          /\ reading' = [n |-> n, val |-> 0]
          /\ UNCHANGED <<buf, pos, writing, before, written, data, rpos, got, phase, refused>>
      BY <1>5 DEF StartReadBits, encoder
    <2>2. n \in Nat
      BY RequestsAssumption
    <2>3. rpos + n <= 8 * Len(data)
      <3>1. ~(rpos + n > 8 * Len(data))
        BY <1>5, ChecksLemma DEF StartReadBits
      <3> QED BY <2>2, <3>1, Ranges
    <2>4. TypeOK'
      BY <1>0, <2>1, <2>2 DEF TypeOK
    <2>5. BufferIsolated'
      BY <1>0, <2>1 DEF BufferIsolated, BitAt
    <2>6. RefusalIsExact'
      BY <1>0, <2>1, <2>3 DEF RefusalIsExact
    <2>7. Follows'
      BY <1>0, <2>1 DEF Follows, Delivered, BitAt
    <2> QED BY <2>4, <2>5, <2>6, <2>7 DEF IInv
  <1>6. ASSUME NEW n \in Widths, ReadRefused(n)
        PROVE  IInv'
    <2>1. /\ phase = "decode" /\ phase' = "short" /\ refused' = n
          /\ UNCHANGED <<buf, pos, writing, before, written, data, rpos, reading, got>>
      BY <1>6 DEF ReadRefused, encoder, decoder
    <2>2. n \in Nat
      BY RequestsAssumption
    <2>3. rpos + n > 8 * Len(data)
      BY <1>6, ChecksLemma DEF ReadRefused
    <2>4. TypeOK'
      BY <1>0, <2>1, <2>2 DEF TypeOK
    <2>5. BufferIsolated'
      BY <1>0, <2>1 DEF BufferIsolated, BitAt
    <2>6. RefusalIsExact'
      BY <1>0, <2>1, <2>3 DEF RefusalIsExact
    <2>7. Follows'
      BY <1>0, <2>1 DEF Follows, Delivered, BitAt
    <2> QED BY <2>4, <2>5, <2>6, <2>7 DEF IInv
  <1>7. ASSUME ReadBit
        PROVE  IInv'
    BY <1>7, ReadBitInvariant
  <1>8. CASE UNCHANGED vars
    BY <1>0, <1>8 DEF vars, encoder, decoder, IInv, TypeOK, BufferIsolated,
                      RefusalIsExact, Follows, Delivered, BitAt
  <1> QED BY <1>1, <1>2, <1>3, <1>4, <1>5, <1>6, <1>7, <1>8 DEF Next

(* The invariant holds of every state of every behaviour. *)
THEOREM Invariance == Spec => []IInv
  <1>1. Init => IInv
    BY InitInvariant
  <1>2. IInv /\ [Next]_vars => IInv'
    BY StepInvariant
  <1> QED BY <1>1, <1>2, PTL DEF Spec

(* Whatever the caller's buffer held, a finished message is the bits       *)
(* written and zero padding, and the rest of the buffer is untouched.      *)
THEOREM BufferIsolatedAlways == Spec => []BufferIsolated
  <1>1. IInv => BufferIsolated
    BY DEF IInv
  <1> QED BY <1>1, Invariance, PTL

(* No request moves a bit outside the buffer, and none that fits is        *)
(* refused, as long as the capacity does not wrap around.                  *)
THEOREM RefusalIsExactAlways == Spec => []RefusalIsExact
  <1>1. IInv => RefusalIsExact
    BY DEF IInv
  <1> QED BY <1>1, Invariance, PTL

-----------------------------------------------------------------------------
(* The values. *)

(* What was written is the fields of the calls to bp_write_bits, but for   *)
(* the rest of the one in progress; each call to bp_read_bits has the      *)
(* number that its bits make, as far as they have been read.               *)
Puts == \E at : StoredBits(at, puts, written, writing.n)

Gets == \E at : /\ Fetched(at, gets, got, reading.n)
                /\ at[Len(gets)] = Len(got) + reading.n

FieldsInv ==
  /\ Puts /\ Gets
  /\ writing.n > 0 => writing.val = puts[Len(puts)].val
  /\ reading.n > 0 => reading.val = gets[Len(gets)].val
  /\ ~Delivered => gets = <<>>

(* No field has been written or read. *)
LEMMA FieldsInit == Init => FieldsInv
  <1> SUFFICES ASSUME Init PROVE FieldsInv
    OBVIOUS
  <1>1. /\ puts = <<>> /\ gets = <<>> /\ written = <<>> /\ got = <<>>
        /\ writing.n = 0 /\ reading.n = 0
    BY DEF Init, Idle
  <1> PICK at : at = [i \in 0..0 |-> 0]
    OBVIOUS
  <1>2. /\ Laid(at, <<>>) /\ at[0] = 0
    BY EmptySeq DEF Laid
  <1>3. StoredBits(at, <<>>, <<>>, 0)
    BY <1>2, EmptySeq DEF StoredBits
  <1>4. Fetched(at, <<>>, <<>>, 0)
    BY <1>2, EmptySeq DEF Fetched
  <1> QED BY <1>1, <1>2, <1>3, <1>4, EmptySeq DEF FieldsInv, Puts, Gets, Delivered

(* The encoder adds a field or the next bit of it, the decoder the next    *)
(* bit to the number of the field it reads.                                *)
LEMMA FieldsStep == IInv /\ FieldsInv /\ [Next]_vars => FieldsInv'
  <1> SUFFICES ASSUME IInv, FieldsInv, [Next]_vars PROVE FieldsInv'
    OBVIOUS
  <1>0. /\ written \in Seq({0, 1}) /\ got \in Seq({0, 1})
        /\ Len(written) \in Nat /\ Len(got) \in Nat
        /\ writing.n \in Nat /\ reading.n \in Nat /\ reading.val \in Nat
    BY LenProperties DEF IInv, TypeOK
  <1>a. PICK at : StoredBits(at, puts, written, writing.n)
    BY DEF FieldsInv, Puts
  <1>b. PICK from : /\ Fetched(from, gets, got, reading.n)
                    /\ from[Len(gets)] = Len(got) + reading.n
    BY DEF FieldsInv, Gets
  <1>1. ASSUME NEW n \in Widths, NEW val \in Values, StartWriteBits(val, n)
        PROVE  FieldsInv'
    <2> PICK f : f = [n |-> n, val |-> val]
      OBVIOUS
    <2>1. /\ f \in BitField /\ f.n = n /\ f.val = val
          /\ phase = "encode" /\ writing.n = 0 /\ puts' = Append(puts, f)
          /\ writing' = f
          /\ UNCHANGED <<written, reading, got, gets, phase>>
      BY <1>1, RequestsAssumption DEF StartWriteBits, decoder, BitField
    <2>2. Laid(at, puts) /\ puts \in Seq(BitField)
      BY <1>a DEF StoredBits, Laid
    <2>3. Len(puts') = Len(puts) + 1 /\ puts'[Len(puts) + 1] = f
      BY <2>1, <2>2, AppendProperties
    <2>4. \E to : StoredBits(to, puts', written, f.n)
      <3>1. StoredBits(at, puts, written, 0)
        BY <1>a, <2>1
      <3>2. \E to : StoredBits(to, Append(puts, f), written, f.n)
        BY <1>0, <2>1, <3>1, StoredField
      <3> QED BY <2>1, <3>2
    <2> QED BY <1>b, <2>1, <2>3, <2>4 DEF FieldsInv, Puts, Gets, Delivered
  <1>c. ASSUME NEW n \in Widths, WriteRefused(n) \/ ReadRefused(n)
        PROVE  FieldsInv'
    <2>1. Delivered' = Delivered /\ UNCHANGED <<written, writing, puts, reading, got, gets>>
      BY <1>c DEF WriteRefused, ReadRefused, encoder, decoder, Delivered
    <2> QED BY <1>a, <1>b, <2>1 DEF FieldsInv, Puts, Gets, Delivered
  <1>2. CASE WriteBit
    <2> PICK m, b : m = writing.n /\ b = LowBit(writing.val, m - 1)
      OBVIOUS
    <2>1. /\ phase = "encode" /\ m > 0 /\ m \in Nat
          /\ written' = Append(written, b)
          /\ writing'.n = m - 1 /\ writing'.val = writing.val
          /\ UNCHANGED <<puts, reading, got, gets, phase>>
      BY <1>0, <1>2 DEF WriteBit, decoder
    <2>2. writing.val = puts[Len(puts)].val
      BY <2>1 DEF FieldsInv
    <2>3. StoredBits(at, puts, Append(written, b), m - 1)
      BY <1>0, <1>a, <2>1, <2>2, StoredBit
    <2> QED BY <1>b, <2>1, <2>2, <2>3 DEF FieldsInv, Puts, Gets, Delivered
  <1>3. ASSUME NEW k \in 0..UsedBytes, Finish(k)
        PROVE  FieldsInv'
    <2>1. ~Delivered /\ UNCHANGED <<written, writing, puts, reading, got, gets>>
      BY <1>3 DEF Finish, Delivered
    <2> QED BY <1>a, <1>b, <2>1 DEF FieldsInv, Puts, Gets, Delivered
  <1>4. ASSUME NEW n \in Widths, StartReadBits(n)
        PROVE  FieldsInv'
    <2> PICK f : f = [n |-> n, val |-> 0]
      OBVIOUS
    <2>1. /\ n \in Nat /\ f \in BitField /\ f.n = n /\ f.val = 0
          /\ phase = "decode" /\ reading.n = 0 /\ gets' = Append(gets, f)
          /\ reading' = f
          /\ UNCHANGED <<written, writing, puts, got, phase>>
      BY <1>4, RequestsAssumption DEF StartReadBits, encoder, BitField
    <2>2. gets \in Seq(BitField)
      BY <1>b DEF Fetched, Laid
    <2>3. Len(gets') = Len(gets) + 1 /\ gets'[Len(gets) + 1] = f
      BY <2>1, <2>2, AppendProperties
    <2>4. PICK to : Fetched(to, gets', got, n) /\ to[Len(gets) + 1] = Len(got) + n
      <3>1. Fetched(from, gets, got, 0) /\ from[Len(gets)] = Len(got)
        BY <1>0, <1>b, <2>1
      <3>2. \E to : /\ Fetched(to, Append(gets, f), got, f.n)
                    /\ to[Len(gets) + 1] = Len(got) + f.n
        BY <1>0, <2>1, <3>1, FetchedField
      <3> QED BY <2>1, <3>2
    <2> QED BY <1>a, <2>1, <2>3, <2>4 DEF FieldsInv, Puts, Gets, Delivered
  <1>5. CASE ReadBit
    <2> PICK m, b, v : m = reading.n /\ b = BitAt(data, rpos) /\ v = 2 * reading.val + b
      OBVIOUS
    <2>1. /\ phase = "decode" /\ m \in Nat \ {0} /\ b \in {0, 1}
          /\ got' = Append(got, b)
          /\ reading'.n = m - 1 /\ reading'.val = v
          /\ gets' = [gets EXCEPT ![Len(gets)].val = v]
          /\ UNCHANGED <<written, writing, puts, phase>>
      BY <1>0, <1>5 DEF ReadBit, encoder, BitAt, ShiftedIn
    <2>2. v = 2 * gets[Len(gets)].val + b
      BY <2>1 DEF FieldsInv
    <2>3. /\ Fetched(from, gets', got', m - 1)
          /\ Len(gets') = Len(gets) /\ Len(gets) > 0
      <3>1. Fetched(from, gets, got, m) /\ from[Len(gets)] = Len(got) + m
        BY <1>b, <2>1
      <3> QED BY <1>0, <2>1, <2>2, <3>1, FetchedBit, ZenonT(30)
    <2>4. from[Len(gets')] = Len(got') + (m - 1)
      <3>1. Len(got') = Len(got) + 1
        BY <1>0, <2>1, AppendProperties
      <3>2. from[Len(gets')] = Len(got) + m
        BY <1>b, <2>1, <2>3
      <3>3. \A l, k \in Nat : l + k = (l + 1) + (k - 1)
        OBVIOUS
      <3> QED BY <1>0, <2>1, <3>1, <3>2, <3>3, ZenonT(30)
    <2>5. gets'[Len(gets')].val = v
      <3>1. gets \in Seq(BitField) /\ Len(gets) \in 1..Len(gets)
        <4>1. gets \in Seq(BitField) /\ Len(gets) \in Nat
          BY <1>b, LenProperties DEF Fetched, Laid
        <4> QED BY <2>3, <4>1
      <3>2. gets[Len(gets)] \in BitField
        BY <3>1, ElementOfSeq
      <3> QED BY <2>1, <2>3, <3>1, <3>2 DEF BitField
    <2> QED BY <1>a, <2>1, <2>3, <2>4, <2>5 DEF FieldsInv, Puts, Gets, Delivered
  <1>6. CASE UNCHANGED vars
    BY <1>a, <1>b, <1>6 DEF vars, encoder, decoder, FieldsInv, Puts, Gets, Delivered
  <1> QED BY <1>1, <1>2, <1>3, <1>4, <1>5, <1>6, <1>c DEF Next

(* A decoder that asks for the widths the encoder used gets the low bits   *)
(* of the values, whatever the buffer held and however much of it arrived. *)
THEOREM SameWidthsSameValuesAlways == Spec => []SameWidthsSameValues
  <1>1. Init => FieldsInv
    BY FieldsInit
  <1>2. IInv /\ FieldsInv /\ [Next]_vars => FieldsInv'
    BY FieldsStep
  <1>3. IInv /\ FieldsInv => SameWidthsSameValues
    <2> SUFFICES ASSUME IInv, FieldsInv,
                        NEW i \in 1..(IF reading.n = 0 THEN Len(gets) ELSE Len(gets) - 1),
                        i <= Len(puts), \A j \in 1..i : puts[j].n = gets[j].n
                 PROVE  gets[i].val = puts[i].val % (2 ^ puts[i].n)
      BY DEF SameWidthsSameValues
    <2>1. PICK at : StoredBits(at, puts, written, writing.n)
      BY DEF FieldsInv, Puts
    <2>2. PICK from : Fetched(from, gets, got, reading.n)
      BY DEF FieldsInv, Gets
    <2>3. CASE Delivered
      <3>1. StoredBits(at, puts, written, 0)
        BY <2>1, <2>3 DEF IInv, Follows
      <3>2. ASSUME NEW p \in 1..Len(got), p <= Len(written) PROVE got[p] = written[p]
        <4>1. /\ rpos = Len(got) /\ pos = Len(written) /\ got[p] = BitAt(data, p - 1)
              /\ rpos + reading.n <= 8 * Len(data) /\ pos + writing.n <= 8 * Size
          BY <2>3 DEF IInv, Follows, RefusalIsExact, Delivered
        <4>2. p - 1 \in 0..(8 * Len(data) - 1) /\ p - 1 \in 0..(8 * Size - 1)
              /\ p - 1 < pos /\ (p - 1) + 1 = p
          <5>1. PICK r, q, d, e : r = rpos /\ q = pos /\ d = 8 * Len(data) /\ e = 8 * Size
            OBVIOUS
          <5>2. /\ r \in Nat /\ q \in Nat /\ d \in Nat /\ e \in Nat /\ r <= d /\ q <= e
                /\ p \in 1..r /\ p <= q
            <6>1. /\ r \in Nat /\ q \in Nat /\ d \in Nat /\ e \in Nat
                  /\ reading.n \in Nat /\ writing.n \in Nat
              <7>1. /\ rpos \in Nat /\ pos \in Nat /\ Len(data) \in Nat /\ Size \in Nat
                    /\ reading.n \in Nat /\ writing.n \in Nat
                BY Ranges
              <7>2. 8 * Len(data) \in Nat /\ 8 * Size \in Nat
                BY <7>1
              <7> QED BY <5>1, <7>1, <7>2
            <6>2. \A a, b, c \in Nat : a + b <= c => a <= c
              OBVIOUS
            <6>3. r <= d /\ q <= e
              BY <4>1, <5>1, <6>1, <6>2
            <6> QED BY <3>2, <4>1, <5>1, <6>1, <6>3
          <5>3. p - 1 \in 0..(d - 1) /\ p - 1 \in 0..(e - 1) /\ p - 1 < q /\ (p - 1) + 1 = p
            BY <5>2
          <5> QED BY <5>1, <5>3
        <4>3. BitAt(data, p - 1) = BitAt(buf, p - 1)
          BY <4>2 DEF IInv, Follows
        <4>4. BitAt(buf, p - 1) = written[p]
          BY <4>2 DEF IInv, BufferIsolated
        <4> QED BY <4>1, <4>3, <4>4
      <3>3. Len(written) \in Nat /\ Len(got) \in Nat /\ reading.n \in Nat
        BY LenProperties DEF IInv, TypeOK
      <3>4. \A p \in 1..Len(got) : p <= Len(written) => got[p] = written[p]
        BY <3>2
      <3>5. SameBitsRead(got, written)
        BY <3>3, <3>4 DEF SameBitsRead
      <3>6. SameWidths(puts, gets, reading.n, i)
        BY DEF SameWidths
      <3> QED BY <2>2, <3>1, <3>3, <3>5, <3>6, FieldsAgree
    <2>4. CASE ~Delivered
      <3>1. gets = <<>> /\ reading.n = 0
        BY <2>4 DEF FieldsInv, IInv, Follows
      <3>2. Len(gets) = 0
        BY <3>1, EmptySeq
      <3> QED BY <3>1, <3>2
    <2> QED BY <2>3, <2>4
  <1> QED BY <1>1, <1>2, <1>3, Invariance, PTL DEF Spec

-----------------------------------------------------------------------------
(* Refinement of BitQueue. *)

(* The bits of a slice, as BitQueue sees them. *)
BitsOf(b) == [p \in 1..(8 * Len(b)) |-> BitAt(b, p - 1)]

(* Every step is a Put, Close or Get of BitQueue, or changes nothing that  *)
(* BitQueue sees.                                                          *)
LEMMA StepRefines ==
  IInv /\ IInv' /\ [Next]_vars => [Queue!QNext]_(Queue!qvars)
  <1> SUFFICES ASSUME IInv, IInv', [Next]_vars
               PROVE  Queue!QNext \/ UNCHANGED Queue!qvars
    OBVIOUS
  <1>0. ASSUME UNCHANGED <<written, data, got>>, Delivered' = Delivered
        PROVE  UNCHANGED Queue!qvars
    BY <1>0 DEF Queue!qvars, BitAt, Delivered
  <1>1. ASSUME NEW n \in Widths, NEW val \in Values, StartWriteBits(val, n)
        PROVE  UNCHANGED Queue!qvars
    BY <1>0, <1>1 DEF StartWriteBits, decoder, Delivered
  <1>2. ASSUME NEW n \in Widths, WriteRefused(n)
        PROVE  UNCHANGED Queue!qvars
    BY <1>0, <1>2 DEF WriteRefused, encoder, decoder, Delivered
  <1>3. CASE WriteBit
    <2> DEFINE bit == LowBit(writing.val, writing.n - 1)
    <2>1. /\ bit \in {0, 1}
          /\ written' = Append(written, bit)
          /\ ~Delivered /\ phase' = phase
          /\ UNCHANGED <<data, got>>
      BY <1>3 DEF WriteBit, decoder, LowBit, Delivered
    <2> HIDE DEF bit
    <2>2. Queue!Put(bit)
      BY <2>1 DEF Queue!Put, BitAt, Delivered
    <2> QED BY <2>1, <2>2 DEF Queue!QNext
  <1>4. ASSUME NEW k \in 0..UsedBytes, Finish(k)
        PROVE  Queue!QNext
    <2>1. ~Delivered /\ Delivered' /\ UNCHANGED <<written, got>>
      BY <1>4 DEF Finish, Delivered
    <2>2. /\ Len(data') = k
          /\ \A p \in 0..(8 * k - 1) :
               BitAt(data', p) = IF p < pos THEN written[p + 1] ELSE 0
      BY <1>4, FinishInvariant
    <2>3. k \in Nat /\ k \in 0..((Len(written) + 7) \div 8)
      BY Ranges DEF UsedBytes
    <2>4. BitsOf(data') = Queue!Padded(written, k)
      <3>1. ASSUME NEW p \in 1..(8 * k)
            PROVE  BitAt(data', p - 1) = IF p <= Len(written) THEN written[p] ELSE 0
        <4>1. p - 1 \in 0..(8 * k - 1) /\ (p - 1) + 1 = p
          BY <2>3
        <4>2. BitAt(data', p - 1) = IF p - 1 < pos THEN written[p] ELSE 0
          BY <2>2, <4>1
        <4>3. p - 1 < pos <=> p <= Len(written)
          BY <2>3, Ranges, SMTT(30)
        <4> QED BY <4>2, <4>3
      <3> QED BY <2>2, <3>1 DEF BitsOf, Queue!Padded
    <2>5. Queue!Close(k)
      BY <2>1, <2>4 DEF Queue!Close, BitsOf, Delivered
    <2> QED BY <2>3, <2>5 DEF Queue!QNext
  <1>5. ASSUME NEW n \in Widths, StartReadBits(n)
        PROVE  UNCHANGED Queue!qvars
    BY <1>0, <1>5 DEF StartReadBits, encoder, Delivered
  <1>6. ASSUME NEW n \in Widths, ReadRefused(n)
        PROVE  UNCHANGED Queue!qvars
    BY <1>0, <1>6 DEF ReadRefused, encoder, decoder, Delivered
  <1>7. CASE ReadBit
    <2>1. /\ Delivered /\ phase' = phase
          /\ got' = Append(got, BitAt(data, rpos))
          /\ UNCHANGED <<written, data>>
      BY <1>7 DEF ReadBit, encoder, Delivered
    <2>2. rpos = Len(got) /\ rpos \in Nat /\ Len(data) \in Nat /\ rpos < 8 * Len(data)
      BY <1>7, ReadBitInvariant, Ranges
    <2>3. /\ Len(BitsOf(data)) = 8 * Len(data)
          /\ BitsOf(data)[Len(got) + 1] = BitAt(data, rpos)
      <3>1. 8 * Len(data) \in Nat /\ Len(got) + 1 \in 1..(8 * Len(data))
        BY <2>2
      <3> QED BY <2>2, <3>1 DEF BitsOf
    <2>4. BitsOf(data)' = BitsOf(data)
      BY <2>1 DEF BitsOf, BitAt
    <2>5. Queue!Get
      BY <2>1, <2>2, <2>3, <2>4 DEF Queue!Get, BitsOf, Delivered
    <2> QED BY <2>5 DEF Queue!QNext
  <1>8. CASE UNCHANGED vars
    BY <1>0, <1>8 DEF vars, encoder, decoder, Delivered
  <1> QED BY <1>1, <1>2, <1>3, <1>4, <1>5, <1>6, <1>7, <1>8 DEF Next

(* The C runtime implements the queue of bits that bitstream.go implements, *)
(* for every buffer large enough and whatever it held before.              *)
THEOREM Refinement == Spec => RefinesBitQueue
  <1>1. Init => Queue!QInit
    <2>1. ASSUME data = <<>> PROVE BitsOf(data) = <<>>
      BY <2>1 DEF BitsOf
    <2> QED BY <2>1 DEF Init, Queue!QInit, BitsOf
  <1>2. IInv /\ IInv' /\ [Next]_vars => [Queue!QNext]_(Queue!qvars)
    BY StepRefines
  <1> QED BY <1>1, <1>2, Invariance, PTL DEF Spec, RefinesBitQueue, Queue!QSpec

-----------------------------------------------------------------------------
(* CStructOrder. *)

Frame == [msg : Messages, nested : SUBSET Messages, fields : SUBSET Messages]

(* A call of writeStructsInOrder that has not returned, or has.            *)
Active(m) == \E j \in 1..Len(stack) : stack[j].msg = m
Done(m) == m \in visited /\ ~Active(m)

Written(m) == \E j \in 1..Len(structs) : structs[j] = m

OrderTypeOK == /\ parent \in [Messages -> Messages]
               /\ holds \in [Messages -> SUBSET Messages]
               /\ hasStruct \subseteq Messages /\ top \subseteq Messages
               /\ stack \in Seq(Frame)
               /\ visited \subseteq Messages
               /\ structs \in Seq(Messages)
               /\ Declared

(* Each frame is a call made by the one below it; the calls a frame has    *)
(* behind it are of visited messages.                                      *)
StackInv ==
  /\ \A j, k \in 1..Len(stack) : stack[j].msg = stack[k].msg => j = k
  /\ \A j \in 1..Len(stack) :
       /\ stack[j].msg \in visited
       /\ NestedIn(stack[j].msg) \ stack[j].nested \subseteq visited
       /\ holds[stack[j].msg] \ stack[j].fields \subseteq visited
       /\ j > 1 => stack[j].msg \in Calls(stack[j - 1].msg)
       /\ stack[j].nested \cup stack[j].fields \subseteq Calls(stack[j].msg)

(* What returned calls have left behind. *)
DoneInv ==
  /\ \A m \in Messages : parent[m] = m /\ m \notin top => m \in visited
  /\ \A m \in Messages : Done(m) =>
       /\ Calls(m) \subseteq visited
       /\ m \in hasStruct => Written(m)

WrittenInv ==
  /\ \A j, k \in 1..Len(structs) : structs[j] = structs[k] => j = k
  /\ \A j \in 1..Len(structs) : structs[j] \in hasStruct /\ Done(structs[j])

OrderInv == OrderTypeOK /\ StackInv /\ DoneInv /\ WrittenInv /\ CompleteFirstUnlessEnclosing

-----------------------------------------------------------------------------
(* The frames of the stack. *)
LEMMA Frames ==
  ASSUME OrderTypeOK
  PROVE  /\ Len(stack) \in Nat
         /\ \A j \in 1..Len(stack) : stack[j] \in Frame /\ stack[j].msg \in Messages
  <1>1. Len(stack) \in Nat /\ \A j \in 1..Len(stack) : stack[j] \in Frame
    BY ElementOfSeq, LenProperties DEF OrderTypeOK
  <1> QED BY <1>1 DEF Frame

(* The stack without its last frame. *)
LEMMA Callers ==
  ASSUME OrderTypeOK, Len(stack) > 0
  PROVE  /\ callers \in Seq(Frame) /\ Len(callers) = Len(stack) - 1
         /\ \A j \in 1..(Len(stack) - 1) : callers[j] = stack[j]
  <1>1. \A j \in 1..(Len(stack) - 1) : stack[j] \in Frame
    BY Frames
  <1>2. Len(stack) \in Nat /\ Len(stack) - 1 \in Int /\ 1 \in Int
    BY Frames
  <1>3. /\ callers \in Seq(Frame)
        /\ Len(callers) = IF 1 <= Len(stack) - 1 THEN Len(stack) - 1 - 1 + 1 ELSE 0
        /\ \A i \in 1..(Len(stack) - 1 - 1 + 1) : callers[i] = stack[1 + i - 1]
    BY <1>1, <1>2, SubSeqProperties DEF callers
  <1>4. ASSUME NEW j \in 1..(Len(stack) - 1) PROVE callers[j] = stack[j]
    <2>1. j \in 1..(Len(stack) - 1 - 1 + 1) /\ 1 + j - 1 = j
      BY <1>2
    <2> QED BY <1>3, <2>1
  <1>5. Len(callers) = Len(stack) - 1
    <2> PICK n, l : n = Len(stack) /\ l = Len(callers)
      OBVIOUS
    <2>1. n \in Nat /\ n > 0 /\ l = IF 1 <= n - 1 THEN n - 1 - 1 + 1 ELSE 0
      BY <1>2, <1>3
    <2>2. l = n - 1
      BY <2>1
    <2> QED BY <2>2
  <1> QED BY <1>3, <1>4, <1>5

(* It holds when writeHeader begins. *)
LEMMA OrderInitInvariant == OrderInit => OrderInv
  <1> SUFFICES ASSUME OrderInit PROVE OrderInv
    OBVIOUS
  <1>1. OrderTypeOK
    BY DEF OrderInit, OrderTypeOK
  <1>2. StackInv
    BY DEF OrderInit, StackInv
  <1>3. DoneInv
    BY DEF OrderInit, DoneInv, Done
  <1>4. WrittenInv
    BY DEF OrderInit, WrittenInv
  <1>5. CompleteFirstUnlessEnclosing
    BY DEF OrderInit, CompleteFirstUnlessEnclosing, CompleteFirst
  <1> QED BY <1>1, <1>2, <1>3, <1>4, <1>5 DEF OrderInv

(* The relations of the file stay as they are. *)
LEMMA FileUnchanged ==
  ASSUME UNCHANGED file
  PROVE  /\ \A m : NestedIn(m)' = NestedIn(m) /\ Calls(m)' = Calls(m)
         /\ Declared' <=> Declared
         /\ Acyclic(Calls)' <=> Acyclic(Calls)
  <1>1. parent' = parent /\ holds' = holds
    BY DEF file
  <1>2. \A m : NestedIn(m)' = NestedIn(m) /\ Calls(m)' = Calls(m)
    BY <1>1 DEF NestedIn, Calls
  <1>3. Declared' <=> Declared
    BY <1>1 DEF Declared, Acyclic, Above
  <1>4. Acyclic(Calls)' <=> Acyclic(Calls)
    BY <1>1 DEF Acyclic, Calls, NestedIn
  <1> QED BY <1>2, <1>3, <1>4

(* A call of writeStructsInOrder(m), made with the stack st: the stack as  *)
(* it is, but for m taken from the calls to be made.                       *)
LEMMA EnterInvariant ==
  ASSUME OrderInv, NEW m \in Messages, NEW st \in Seq(Frame),
         Len(st) = Len(stack),
         \A j \in 1..Len(stack) :
           /\ st[j].msg = stack[j].msg
           /\ st[j].nested \subseteq stack[j].nested
           /\ st[j].fields \subseteq stack[j].fields
           /\ stack[j].nested \ st[j].nested \subseteq {m}
           /\ stack[j].fields \ st[j].fields \subseteq {m},
         Len(stack) > 0 => m \in Calls(stack[Len(stack)].msg),
         Enter(m, st),
         top' \subseteq top, top \ top' \subseteq {m}
  PROVE  OrderInv'
  <1> DEFINE n == Len(stack)
             new == [msg |-> m, nested |-> NestedIn(m), fields |-> holds[m]]
  <1>0. /\ stack \in Seq(Frame) /\ n \in Nat /\ m \in Messages
        /\ visited' = visited \cup {m} /\ structs' = structs
        /\ holds' = holds /\ parent' = parent /\ hasStruct' = hasStruct
        /\ UNCHANGED file
    BY DEF OrderInv, OrderTypeOK, Enter, file
  <1>1. new \in Frame
    BY DEF Frame, OrderInv, OrderTypeOK, NestedIn
  <1>2. \A x : NestedIn(x)' = NestedIn(x) /\ Calls(x)' = Calls(x)
    BY <1>0, FileUnchanged
  (* The new stack, whether m is entered or not. *)
  <1>3. /\ stack' \in Seq(Frame)
        /\ \A j \in 1..n : stack'[j] = st[j]
        /\ m \in visited => Len(stack') = n
        /\ m \notin visited => Len(stack') = n + 1 /\ stack'[n + 1] = new
    <2>1. CASE m \in visited
      BY <1>0, <2>1 DEF Enter
    <2>2. CASE m \notin visited
      <3>1. stack' = Append(st, new)
        BY <2>2 DEF Enter
      <3> HIDE DEF new
      <3> QED BY <1>0, <1>1, <2>2, <3>1
    <2> QED BY <2>1, <2>2
  <1>4. OrderTypeOK'
    <2>1. Declared'
      BY <1>0, FileUnchanged DEF OrderInv, OrderTypeOK
    <2> QED BY <1>0, <1>3, <2>1 DEF OrderInv, OrderTypeOK
  <1>5. \A j \in 1..n : j \in 1..Len(stack') /\ stack'[j].msg = stack[j].msg
    BY <1>0, <1>3
  <1>6. \A j \in 1..Len(stack') :
          \/ j \in 1..n
          \/ j = n + 1 /\ m \notin visited /\ stack'[j] = new
    BY <1>0, <1>3
  <1>7. StackInv'
    <2>1. ASSUME NEW j \in 1..Len(stack'), NEW k \in 1..Len(stack'),
                 stack'[j].msg = stack'[k].msg
          PROVE  j = k
      <3>1. \A l \in 1..n : stack'[l].msg \in visited
        BY <1>5 DEF OrderInv, StackInv
      <3>2. \A l \in 1..Len(stack') : l \notin 1..n => stack'[l].msg \notin visited /\ l = n + 1
        BY <1>6
      <3>3. CASE j \in 1..n /\ k \in 1..n
        BY <1>5, <2>1, <3>3 DEF OrderInv, StackInv
      <3> QED BY <2>1, <3>1, <3>2, <3>3
    <2>2. ASSUME NEW j \in 1..n
          PROVE  /\ stack'[j].msg \in visited'
                 /\ NestedIn(stack'[j].msg) \ stack'[j].nested \subseteq visited'
                 /\ holds[stack'[j].msg] \ stack'[j].fields \subseteq visited'
                 /\ j > 1 => stack'[j].msg \in Calls(stack'[j - 1].msg)
                 /\ stack'[j].nested \cup stack'[j].fields \subseteq Calls(stack'[j].msg)
      <3>1. /\ stack[j].msg \in visited
            /\ NestedIn(stack[j].msg) \ stack[j].nested \subseteq visited
            /\ holds[stack[j].msg] \ stack[j].fields \subseteq visited
            /\ j > 1 => stack[j].msg \in Calls(stack[j - 1].msg)
            /\ stack[j].nested \cup stack[j].fields \subseteq Calls(stack[j].msg)
        BY DEF OrderInv, StackInv
      <3>2. stack'[j] = st[j] /\ stack'[j].msg = stack[j].msg
        BY <1>3, <1>5
      <3>3. j > 1 => stack'[j - 1].msg = stack[j - 1].msg
        BY <1>0, <1>5
      <3> QED BY <1>0, <3>1, <3>2, <3>3
    <2>3. ASSUME NEW j \in 1..Len(stack'), j \notin 1..n
          PROVE  /\ stack'[j].msg \in visited'
                 /\ NestedIn(stack'[j].msg) \ stack'[j].nested \subseteq visited'
                 /\ holds[stack'[j].msg] \ stack'[j].fields \subseteq visited'
                 /\ j > 1 => stack'[j].msg \in Calls(stack'[j - 1].msg)
                 /\ stack'[j].nested \cup stack'[j].fields \subseteq Calls(stack'[j].msg)
      <3>1. j = n + 1 /\ stack'[j] = new
        BY <1>6, <2>3
      <3>2. j > 1 => stack'[j - 1].msg = stack[n].msg /\ n > 0
        BY <1>0, <1>5, <3>1
      <3> QED BY <1>0, <3>1, <3>2 DEF Calls
    <2> QED BY <1>0, <1>2, <2>1, <2>2, <2>3 DEF StackInv
  <1>8. \A x : Active(x) => Active(x)'
    BY <1>5 DEF Active
  <1>9. m \in visited \/ Active(m)'
    BY <1>0, <1>3 DEF Active
  <1>10. \A x : Done(x)' => Done(x)
    BY <1>0, <1>8, <1>9 DEF Done
  <1>11. \A x : Done(x) => Done(x)'
    <2>1. \A x : x \in visited /\ Active(x)' => Active(x)
      BY <1>5, <1>6 DEF Active
    <2> QED BY <1>0, <2>1 DEF Done
  <1>12. DoneInv'
    BY <1>0, <1>2, <1>10 DEF OrderInv, DoneInv, Written
  <1>13. WrittenInv'
    BY <1>0, <1>11 DEF OrderInv, WrittenInv
  <1>14. CompleteFirstUnlessEnclosing'
    BY <1>0, FileUnchanged DEF OrderInv, CompleteFirstUnlessEnclosing, CompleteFirst
  <1> QED BY <1>4, <1>7, <1>12, <1>13, <1>14 DEF OrderInv

(* Where the calls have no cycle, what the last frame calls is not active: *)
(* the frames above it would lead back to it.                              *)
LEMMA NoCallBack ==
  ASSUME OrderInv, Acyclic(Calls), Len(stack) > 0,
         NEW m \in Calls(stack[Len(stack)].msg)
  PROVE  ~Active(m)
  <1> DEFINE n == Len(stack)
  <1> SUFFICES ASSUME Active(m) PROVE FALSE
    OBVIOUS
  <1>0. n \in Nat \ {0} /\ \A j \in 1..n : stack[j].msg \in Messages
    BY Frames DEF OrderInv
  <1>1. PICK i \in 1..n : stack[i].msg = m
    BY DEF Active
  <1> DEFINE S == {stack[k].msg : k \in i..n}
  <1>2. S \in SUBSET Messages /\ m \in S
    BY <1>0, <1>1
  <1>3. PICK x \in S : Calls(x) \cap S = {}
    BY <1>2 DEF Acyclic
  <1>4. PICK k \in i..n : x = stack[k].msg
    BY <1>3
  <1>5. CASE k = n
    BY <1>2, <1>3, <1>4, <1>5
  <1>6. CASE k # n
    <2>1. k + 1 \in 1..n /\ k + 1 \in i..n /\ k + 1 > 1 /\ (k + 1) - 1 = k
      BY <1>0, <1>6
    <2>2. stack[k + 1].msg \in Calls(stack[k].msg)
      BY <2>1 DEF OrderInv, StackInv
    <2>3. stack[k + 1].msg \in S
      BY <2>1
    <2> QED BY <1>3, <1>4, <2>2, <2>3
  <1> QED BY <1>5, <1>6

(* writeStructDef, and the return of its call.                             *)
LEMMA WriteStructInvariant == ASSUME OrderInv, WriteStruct PROVE OrderInv'
  <1> PICK n, x, l : n = Len(stack) /\ x = stack[n].msg /\ l = Len(structs)
    OBVIOUS
  <1>0. /\ stack \in Seq(Frame) /\ n \in Nat \ {0}
        /\ structs \in Seq(Messages) /\ l \in Nat /\ hasStruct \subseteq Messages
        /\ visited' = visited /\ top' = top
        /\ holds' = holds /\ parent' = parent /\ hasStruct' = hasStruct
        /\ UNCHANGED file
    BY DEF OrderInv, OrderTypeOK, WriteStruct, file
  <1>1. /\ stack' = SubSeq(stack, 1, n - 1) /\ stack[n].nested = {} /\ stack[n].fields = {}
        /\ structs' = IF x \in hasStruct THEN Append(structs, x) ELSE structs
    BY DEF WriteStruct, frame, callers
  <1>2. stack' \in Seq(Frame) /\ Len(stack') = n - 1 /\ \A j \in 1..(n - 1) : stack'[j] = stack[j]
    BY <1>0, <1>1, Callers DEF OrderInv, callers
  <1>3. x \in Messages /\ x \in visited /\ Calls(x) \subseteq visited
    <2>1. x \in Messages
      BY <1>0, Frames DEF OrderInv
    <2>2. /\ x \in visited /\ NestedIn(x) \ stack[n].nested \subseteq visited
          /\ holds[x] \ stack[n].fields \subseteq visited
      BY <1>0 DEF OrderInv, StackInv
    <2> QED BY <1>1, <2>1, <2>2 DEF Calls
  <1>4. /\ structs' \in Seq(Messages)
        /\ \A j \in 1..l : j \in 1..Len(structs') /\ structs'[j] = structs[j]
        /\ \A j \in 1..Len(structs') :
             j \in 1..l \/ (j = l + 1 /\ x \in hasStruct /\ structs'[j] = x)
        /\ x \in hasStruct => l + 1 \in 1..Len(structs') /\ structs'[l + 1] = x
    <2>1. CASE x \in hasStruct
      <3>1. structs' = Append(structs, x)
        BY <1>1, <2>1
      <3> QED BY <1>0, <1>3, <2>1, <3>1
    <2>2. CASE x \notin hasStruct
      BY <1>0, <1>1, <2>2
    <2> QED BY <2>1, <2>2
  <1>5. \A m : NestedIn(m)' = NestedIn(m) /\ Calls(m)' = Calls(m)
    BY <1>0, FileUnchanged
  <1>6. OrderTypeOK'
    <2>1. Declared'
      BY <1>0, FileUnchanged DEF OrderInv, OrderTypeOK
    <2> QED BY <1>0, <1>2, <1>4, <2>1 DEF OrderInv, OrderTypeOK
  <1>7. StackInv'
    <2>1. \A j, k \in 1..(n - 1) : stack[j].msg = stack[k].msg => j = k
      BY <1>0 DEF OrderInv, StackInv
    <2>2. \A j \in 1..(n - 1) :
            /\ stack[j].msg \in visited
            /\ NestedIn(stack[j].msg) \ stack[j].nested \subseteq visited
            /\ holds[stack[j].msg] \ stack[j].fields \subseteq visited
            /\ j > 1 => stack[j].msg \in Calls(stack[j - 1].msg)
            /\ stack[j].nested \cup stack[j].fields \subseteq Calls(stack[j].msg)
      BY <1>0 DEF OrderInv, StackInv
    <2>3. \A j \in 1..(n - 1) : j > 1 => j - 1 \in 1..(n - 1)
      BY <1>0
    <2> QED BY <1>0, <1>2, <1>5, <2>1, <2>2, <2>3 DEF StackInv
  <1>8. \A m : Active(m)' <=> Active(m) /\ m # x
    <2>1. \A j \in 1..(n - 1) : stack[j].msg # x
      BY <1>0 DEF OrderInv, StackInv
    <2>2. \A j \in 1..n : j \in 1..(n - 1) \/ j = n
      BY <1>0
    <2>3. ASSUME NEW m PROVE Active(m)' <=> Active(m) /\ m # x
      <3>1. Active(m)' <=> \E j \in 1..(n - 1) : stack[j].msg = m
        BY <1>2 DEF Active
      <3>2. Active(m) <=> \E j \in 1..n : stack[j].msg = m
        BY <1>0 DEF Active
      <3>3. n \in 1..n /\ stack[n].msg = x /\ \A j \in 1..(n - 1) : j \in 1..n
        BY <1>0
      <3> QED BY <2>1, <2>2, <3>1, <3>2, <3>3
    <2> QED BY <2>3
  <1>9. \A m : Done(m)' <=> Done(m) \/ m = x
    BY <1>0, <1>3, <1>8 DEF Done
  <1>10. \A m : Written(m) => Written(m)'
    BY <1>4 DEF Written
  <1>11. DoneInv'
    <2>1. x \in hasStruct => Written(x)'
      BY <1>4 DEF Written
    <2> QED BY <1>0, <1>3, <1>5, <1>9, <1>10, <2>1 DEF OrderInv, DoneInv
  <1>12. WrittenInv'
    <2>1. \A j \in 1..l : structs[j] # x
      <3>1. Active(x)
        BY <1>0 DEF Active
      <3> QED BY <3>1 DEF OrderInv, WrittenInv, Done
    <2>2. \A j, k \in 1..Len(structs') : structs'[j] = structs'[k] => j = k
      BY <1>4, <2>1 DEF OrderInv, WrittenInv
    <2>3. \A j \in 1..Len(structs') : (structs[j] \in hasStruct /\ Done(structs[j]))'
      BY <1>0, <1>4, <1>9 DEF OrderInv, WrittenInv
    <2> QED BY <2>2, <2>3 DEF WrittenInv
  <1>13. CompleteFirstUnlessEnclosing'
    <2> SUFFICES ASSUME Acyclic(Calls)', NEW j \in 1..Len(structs'),
                        NEW m \in holds'[structs'[j]] \cap hasStruct'
                 PROVE  \E k \in 1..(j - 1) : structs'[k] = m
      BY DEF CompleteFirstUnlessEnclosing, CompleteFirst
    <2>1. Acyclic(Calls)
      BY <1>0, FileUnchanged
    <2>2. CASE j \in 1..l
      <3>1. PICK k \in 1..(j - 1) : structs[k] = m
        BY <1>0, <1>4, <2>1, <2>2
           DEF OrderInv, CompleteFirstUnlessEnclosing, CompleteFirst
      <3>2. k \in 1..l
        BY <1>0, <2>2
      <3> QED BY <1>4, <3>1, <3>2
    <2>3. CASE j = l + 1 /\ structs'[j] = x
      <3>1. m \in Calls(x) /\ m \in hasStruct /\ m \in Messages
        BY <1>0, <2>3 DEF Calls
      <3>2. ~Active(m)
        BY <1>0, <2>1, <3>1, NoCallBack
      <3>3. Written(m)
        BY <1>3, <3>1, <3>2 DEF OrderInv, DoneInv, Done
      <3>4. PICK k \in 1..l : structs[k] = m
        BY <3>3 DEF Written
      <3> QED BY <1>0, <1>4, <2>3, <3>4
    <2> QED BY <1>4, <2>2, <2>3
  <1> QED BY <1>6, <1>7, <1>11, <1>12, <1>13 DEF OrderInv

(* Each step of the walk keeps the invariant. *)
LEMMA OrderStepInvariant == OrderInv /\ [OrderNext]_orderVars => OrderInv'
  <1> SUFFICES ASSUME OrderInv, [OrderNext]_orderVars PROVE OrderInv'
    OBVIOUS
  <1>0. /\ stack \in Seq(Frame) /\ Len(stack) \in Nat /\ top \subseteq Messages
        /\ (stack # <<>> => Len(stack) > 0)
        /\ \A j \in 1..Len(stack) : stack[j] \in Frame
    BY Frames, EmptySeq DEF OrderInv, OrderTypeOK
  <1>1. CASE CallTop
    <2>1. PICK m \in top : Enter(m, <<>>) /\ top' = top \ {m} /\ stack = <<>>
      BY <1>1 DEF CallTop
    <2> PICK st : st = <<>>
      OBVIOUS
    <2>2. st \in Seq(Frame) /\ Len(st) = 0 /\ Len(stack) = 0 /\ Enter(m, st)
      BY <2>1, EmptySeq
    <2>3. top' \subseteq top /\ top \ top' \subseteq {m} /\ m \in Messages
      BY <1>0, <2>1
    <2>4. \A j \in 1..Len(stack) : FALSE
      BY <2>2
    <2>5. ~(Len(stack) > 0) /\ Len(st) = Len(stack)
      BY <2>2
    <2> QED BY <2>2, <2>3, <2>4, <2>5, EnterInvariant
  (* A call made by the last frame: f is that frame with the call behind it. *)
  <1>2. ASSUME NEW f \in Frame, NEW m \in frame.nested \cup frame.fields,
               stack # <<>>, f.msg = frame.msg,
               f.nested \subseteq frame.nested, f.fields \subseteq frame.fields,
               frame.nested \ f.nested \subseteq {m}, frame.fields \ f.fields \subseteq {m},
               Enter(m, Append(callers, f)), top' = top
        PROVE  OrderInv'
    <2> DEFINE n == Len(stack)
               st == Append(callers, f)
    <2>1. n \in Nat \ {0} /\ stack[n] = frame /\ frame \in Frame
      BY <1>0, <1>2 DEF frame
    <2>2. /\ callers \in Seq(Frame) /\ Len(callers) = n - 1
          /\ \A j \in 1..(n - 1) : callers[j] = stack[j]
      BY <2>1, Callers DEF OrderInv
    <2>3. /\ st \in Seq(Frame) /\ Len(st) = n /\ st[n] = f
          /\ \A j \in 1..(n - 1) : st[j] = stack[j]
      BY <2>1, <2>2, AppendProperties
    <2>4. \A j \in 1..n :
           /\ st[j].msg = stack[j].msg
           /\ st[j].nested \subseteq stack[j].nested
           /\ st[j].fields \subseteq stack[j].fields
           /\ stack[j].nested \ st[j].nested \subseteq {m}
           /\ stack[j].fields \ st[j].fields \subseteq {m}
      <3> HIDE DEF st
      <3>1. \A j \in 1..n : j \in 1..(n - 1) \/ j = n
        BY <2>1
      <3> QED BY <1>2, <2>1, <2>3, <3>1
    <2>5. m \in Messages /\ m \in Calls(stack[n].msg)
      <3>1. m \in Calls(stack[n].msg)
        BY <2>1 DEF OrderInv, StackInv
      <3>2. m \in Messages
        BY <2>1 DEF Frame
      <3> QED BY <3>1, <3>2
    <2> HIDE DEF st
    <2>6. Enter(m, st)
      BY <1>2 DEF st
    <2> QED BY <1>2, <2>1, <2>3, <2>4, <2>5, <2>6, EnterInvariant
  <1>3. CASE CallNested
    <2>1. PICK m \in frame.nested :
             Enter(m, Append(callers, [frame EXCEPT !.nested = @ \ {m}]))
      BY <1>3 DEF CallNested
    <2>2. stack # <<>> /\ top' = top /\ frame \in Frame
      BY <1>0, <1>3 DEF CallNested, frame
    <2> DEFINE f == [frame EXCEPT !.nested = @ \ {m}]
    <2>3. /\ f \in Frame /\ f.msg = frame.msg /\ f.fields = frame.fields
          /\ f.nested = frame.nested \ {m}
      BY <2>2 DEF Frame
    <2> HIDE DEF f
    <2>4. Enter(m, Append(callers, f))
      BY <2>1 DEF f
    <2> QED BY <1>2, <2>2, <2>3, <2>4
  <1>4. CASE CallField
    <2>1. PICK m \in frame.fields :
             Enter(m, Append(callers, [frame EXCEPT !.fields = @ \ {m}]))
      BY <1>4 DEF CallField
    <2>2. stack # <<>> /\ top' = top /\ frame \in Frame
      BY <1>0, <1>4 DEF CallField, frame
    <2> DEFINE f == [frame EXCEPT !.fields = @ \ {m}]
    <2>3. /\ f \in Frame /\ f.msg = frame.msg /\ f.nested = frame.nested
          /\ f.fields = frame.fields \ {m}
      BY <2>2 DEF Frame
    <2> HIDE DEF f
    <2>4. Enter(m, Append(callers, f))
      BY <2>1 DEF f
    <2> QED BY <1>2, <2>2, <2>3, <2>4
  <1>5. CASE WriteStruct
    BY <1>5, WriteStructInvariant
  <1>6. CASE UNCHANGED orderVars
    <2>1. /\ UNCHANGED file /\ top' = top /\ stack' = stack /\ visited' = visited
          /\ structs' = structs /\ parent' = parent /\ holds' = holds
          /\ hasStruct' = hasStruct
      BY <1>6 DEF orderVars, file
    <2>2. OrderTypeOK'
      <3>1. Declared'
        BY <2>1, FileUnchanged DEF OrderInv, OrderTypeOK
      <3> QED BY <2>1, <3>1 DEF OrderInv, OrderTypeOK
    <2>3. StackInv'
      <3>1. StackInv /\ \A m : NestedIn(m)' = NestedIn(m) /\ Calls(m)' = Calls(m)
        BY <2>1, FileUnchanged DEF OrderInv
      <3> QED BY <2>1, <3>1 DEF StackInv
    <2>4. \A m : (Active(m)' <=> Active(m)) /\ (Done(m)' <=> Done(m))
                 /\ (Written(m)' <=> Written(m))
      BY <2>1 DEF Active, Done, Written
    <2>5. DoneInv'
      BY <2>1, <2>4, FileUnchanged DEF OrderInv, DoneInv
    <2>6. WrittenInv'
      BY <2>1, <2>4 DEF OrderInv, WrittenInv
    <2>7. CompleteFirstUnlessEnclosing'
      BY <2>1, FileUnchanged DEF OrderInv, CompleteFirstUnlessEnclosing, CompleteFirst
    <2> QED BY <2>2, <2>3, <2>5, <2>6, <2>7 DEF OrderInv
  <1> QED BY <1>1, <1>3, <1>4, <1>5, <1>6 DEF OrderNext

(* writeStructsInOrder keeps its invariant throughout the walk. *)
THEOREM OrderInvariance == OrderSpec => []OrderInv
  <1>1. OrderInit => OrderInv
    BY OrderInitInvariant
  <1>2. OrderInv /\ [OrderNext]_orderVars => OrderInv'
    BY OrderStepInvariant
  <1> QED BY <1>1, <1>2, PTL DEF OrderSpec

-----------------------------------------------------------------------------
(* When writeHeader is through, every message has been visited: the        *)
(* topmost one that had not would be declared in one that has.             *)
LEMMA AllVisited ==
  ASSUME OrderInv, stack = <<>>, top = {}
  PROVE  \A m \in Messages : Done(m)
  <1>1. \A m : ~Active(m)
    BY DEF Active
  <1> DEFINE U == Messages \ visited
  <1> SUFFICES U = {}
    BY <1>1 DEF Done
  <1> SUFFICES ASSUME U # {} PROVE FALSE
    OBVIOUS
  <1>2. PICK m \in U : Above(m) \cap U = {}
    <2>1. U \in SUBSET Messages
      OBVIOUS
    <2> QED BY <2>1 DEF OrderInv, OrderTypeOK, Declared, Acyclic
  <1>3. parent[m] # m
    BY <1>2 DEF OrderInv, DoneInv
  <1>4. parent[m] \in visited /\ parent[m] \in Messages
    BY <1>2, <1>3 DEF Above, OrderInv, OrderTypeOK
  <1>5. m \in Calls(parent[m])
    BY <1>2, <1>3 DEF Calls, NestedIn
  <1>6. m \in visited
    BY <1>1, <1>4, <1>5 DEF OrderInv, DoneInv, Done
  <1> QED BY <1>2, <1>6

(* However declarations and fields refer to each other, no message is      *)
(* entered while it is on the call stack of writeStructsInOrder, and every *)
(* struct is written at most once, and once when the walk has ended.       *)
THEOREM EveryStructOnceAlways == OrderSpec => []EveryStructOnce
  <1>1. OrderInv => EveryStructOnce
    <2> SUFFICES ASSUME OrderInv PROVE EveryStructOnce
      OBVIOUS
    <2>0. structs \in Seq(Messages) /\ Len(structs) \in Nat
      BY DEF OrderInv, OrderTypeOK
    <2>1. \A j, k \in 1..Len(stack) : stack[j].msg = stack[k].msg => j = k
      BY DEF OrderInv, StackInv
    <2>2. ASSUME NEW m \in Messages
          PROVE  Cardinality(Index(m)) <= IF m \in hasStruct THEN 1 ELSE 0
      <3>1. CASE Index(m) = {}
        BY <3>1, FS_EmptySet
      <3>2. CASE Index(m) # {}
        <4>1. PICK j \in 1..Len(structs) : structs[j] = m
          BY <3>2 DEF Index
        <4>2. Index(m) = {j} /\ m \in hasStruct
          BY <4>1 DEF Index, OrderInv, WrittenInv
        <4>3. Cardinality({j}) = 1
          BY FS_Singleton
        <4> QED BY <4>2, <4>3
      <3> QED BY <3>1, <3>2
    <2>3. ASSUME stack = <<>>, top = {}, NEW m \in hasStruct PROVE Index(m) # {}
      <3>1. m \in Messages
        BY DEF OrderInv, OrderTypeOK
      <3>2. Written(m)
        BY <2>3, <3>1, AllVisited DEF OrderInv, DoneInv
      <3> QED BY <3>2 DEF Written, Index
    <2> QED BY <2>1, <2>2, <2>3 DEF EveryStructOnce
  <1> QED BY <1>1, OrderInvariance, PTL

(* Where no message refers to one that encloses it, the C compiler finds   *)
(* every struct complete where another one holds it.                       *)
THEOREM CompleteFirstAlways == OrderSpec => []CompleteFirstUnlessEnclosing
  <1>1. OrderInv => CompleteFirstUnlessEnclosing
    BY DEF OrderInv
  <1> QED BY <1>1, OrderInvariance, PTL
=============================================================================
