--------------------------- MODULE BitStreamProofs --------------------------
(* Proofs about BitStream for every width, value and length of the stream: *)
(* its invariants, and that it implements BitQueue.                        *)
EXTENDS BitStream, BitsProofs

(* The invariant that is inductive: ReaderFollows ties the reader to the    *)
(* delivered bytes, BufferFits and BufferHolds those to what was written.  *)
IInv == /\ TypeOK
        /\ BufferFits
        /\ BufferHolds
        /\ ReaderFollows
        /\ EofIsExact

-----------------------------------------------------------------------------
(* The slice. *)

(* writeBit grows the slice by at most one zero byte, just enough for the  *)
(* bit at wpos, and changes none of the bits there are.                    *)
LEMMA GrownLemma ==
  ASSUME IInv
  PROVE  /\ Grown \in Seq(Byte)
         /\ wpos \div 8 + 1 \in 1..Len(Grown)
         /\ 8 * Len(Grown) >= wpos + 1
         /\ 8 * Len(Grown) < wpos + 1 + 8
         /\ \A p \in 0..(8 * Len(Grown) - 1) :
              BitAt(Grown, p) = IF p < wpos THEN written[p + 1] ELSE 0
  <1>0. /\ buf \in Seq(Byte) /\ Len(buf) \in Nat /\ wpos \in Nat
        /\ 8 * Len(buf) >= wpos
        /\ 8 * Len(buf) < wpos + 8
        /\ \A p \in 0..(8 * Len(buf) - 1) :
             BitAt(buf, p) = IF p < wpos THEN written[p + 1] ELSE 0
    BY DEF IInv, TypeOK, BufferFits, BufferHolds
  <1>1. CASE wpos \div 8 >= Len(buf)
    <2>1. {} \in Byte
      BY DEF Byte
    <2>2. Grown = Append(buf, {})
      BY <1>1 DEF Grown
    <2>3. /\ Grown \in Seq(Byte)
          /\ Len(Grown) = Len(buf) + 1
          /\ \A i \in 1..Len(buf) : Grown[i] = buf[i]
          /\ Grown[Len(buf) + 1] = {}
      BY <1>0, <2>1, <2>2
    <2>4. wpos = 8 * Len(buf)
      <3>1. wpos \div 8 \in Nat /\ (wpos \div 8 < Len(buf) <=> wpos < 8 * Len(buf))
        BY <1>0, PositionLemma
      <3>2. ~(wpos < 8 * Len(buf))
        BY <1>0, <1>1, <3>1
      <3>3. wpos \in Nat /\ Len(buf) \in Nat /\ 8 * Len(buf) >= wpos
        BY <1>0
      <3> QED BY <3>2, <3>3
    <2>5. ASSUME NEW p \in 0..(8 * Len(Grown) - 1)
          PROVE  BitAt(Grown, p) = IF p < wpos THEN written[p + 1] ELSE 0
      <3>1. CASE p < wpos
        <4>1. p \div 8 + 1 \in 1..Len(buf) /\ p \in 0..(8 * Len(buf) - 1)
          BY <1>0, <2>3, <2>4, <3>1, PositionLemma
        <4>2. BitAt(Grown, p) = BitAt(buf, p)
          BY <2>3, <4>1 DEF BitAt
        <4> QED BY <1>0, <3>1, <4>1, <4>2
      <3>2. CASE ~(p < wpos)
        <4>1. p \div 8 + 1 = Len(buf) + 1
          <5>1. /\ p \in Nat /\ Len(buf) \in Nat
                /\ 8 * Len(buf) <= p /\ p < 8 * (Len(buf) + 1)
            BY <1>0, <2>3, <2>4, <3>2
          <5>2. \A l \in Nat : 8 * l <= p /\ p < 8 * (l + 1) => p \div 8 = l
            BY <5>1
          <5> QED BY <5>1, <5>2
        <4>2. Grown[p \div 8 + 1] = {}
          BY <2>3, <4>1
        <4> QED BY <3>2, <4>2 DEF BitAt
      <3> QED BY <3>1, <3>2
    <2>6. wpos \div 8 + 1 \in 1..Len(Grown)
      BY <1>0, <2>3, <2>4, PositionLemma
    <2> QED BY <1>0, <2>3, <2>4, <2>5, <2>6
  <1>2. CASE ~(wpos \div 8 >= Len(buf))
    <2>1. Grown = buf
      BY <1>2 DEF Grown
    <2>2. wpos < 8 * Len(buf) /\ wpos \div 8 + 1 \in 1..Len(buf)
      BY <1>0, <1>2, PositionLemma
    <2> QED BY <1>0, <2>1, <2>2
  <1> QED BY <1>1, <1>2

(* Setting the bit at wpos when the value's bit is 1, and nothing when it  *)
(* is 0, leaves the slice holding one more bit of what was written.        *)
LEMMA WriteBitLemma ==
  ASSUME IInv, WriteBit
  PROVE  /\ buf' \in Seq(Byte)
         /\ Len(buf') = Len(Grown)
         /\ written' \in Seq({0, 1})
         /\ Len(written') = wpos + 1
         /\ \A p \in 1..wpos : written'[p] = written[p]
         /\ \A p \in 0..(8 * Len(buf') - 1) :
              BitAt(buf', p) = IF p < wpos' THEN written'[p + 1] ELSE 0
  <1> DEFINE bit == LowBit(writing.val, writing.n - 1)
             bitIdx == 7 - (wpos % 8)
             at == wpos \div 8 + 1
  <1>a. bit \in {0, 1}
    BY DEF LowBit
  <1> HIDE DEF bit
  <1>1. /\ wpos' = wpos + 1
        /\ written' = Append(written, bit)
        /\ buf' = IF bit # 0 THEN [Grown EXCEPT ![at] = @ \cup {bitIdx}] ELSE Grown
    BY DEF WriteBit, bit
  <1>2. /\ wpos \in Nat /\ wpos = Len(written)
        /\ written \in Seq({0, 1})
    BY DEF IInv, TypeOK, BufferFits
  <1>3. /\ written' \in Seq({0, 1})
        /\ Len(written') = wpos + 1
        /\ \A p \in 1..wpos : written'[p] = written[p]
        /\ written'[wpos + 1] = bit
    BY <1>1, <1>2, <1>a
  <1>4. bitIdx \in 0..7 /\ at \in 1..Len(Grown) /\ Grown[at] \in Byte
    BY <1>2, GrownLemma, PositionLemma, SMTT(30)
  <1>5. /\ buf' \in Seq(Byte)
        /\ Len(buf') = Len(Grown)
        /\ \A i \in 1..Len(Grown) : i # at => buf'[i] = Grown[i]
        /\ buf'[at] = IF bit # 0 THEN Grown[at] \cup {bitIdx} ELSE Grown[at]
    <2>1. Grown[at] \cup {bitIdx} \in Byte
      BY <1>4 DEF Byte
    <2>2. CASE bit # 0
      BY <1>1, <2>1, <2>2, <1>4, GrownLemma
    <2>3. CASE bit = 0
      BY <1>1, <2>3, <1>4, GrownLemma
    <2> QED BY <2>2, <2>3
  <1>6. ASSUME NEW p \in 0..(8 * Len(Grown) - 1)
        PROVE  BitAt(buf', p) = IF p < wpos + 1 THEN written'[p + 1] ELSE 0
    <2>1. /\ p \in Nat
          /\ p \div 8 + 1 \in 1..Len(Grown)
          /\ Len(Grown) \in Nat
      BY PositionLemma, GrownLemma
    <2>2. CASE p = wpos
      <3>1. ~(bitIdx \in Grown[at])
        BY <1>2, <2>2, GrownLemma DEF BitAt
      <3>2. BitAt(buf', p) = bit
        BY <3>1, <1>5, <1>a, <2>2 DEF BitAt
      <3> QED BY <3>2, <2>2, <1>3, <1>2
    <2>3. CASE p # wpos
      <3>1. BitAt(buf', p) = BitAt(Grown, p)
        <4>1. CASE p \div 8 + 1 # at
          BY <4>1, <2>1, <1>5 DEF BitAt
        <4>2. CASE p \div 8 + 1 = at
          <5>1. 7 - (p % 8) # bitIdx
            BY <4>2, <2>1, <2>3, <1>2, PositionInjective, PositionLemma
          <5> QED BY <4>2, <5>1, <1>5 DEF BitAt
        <4> QED BY <4>1, <4>2
      <3>2. BitAt(Grown, p) = IF p < wpos THEN written[p + 1] ELSE 0
        BY GrownLemma
      <3>3. CASE p < wpos
        BY <3>1, <3>2, <3>3, <1>3, <1>2, <2>1
      <3>4. CASE ~(p < wpos)
        BY <3>1, <3>2, <3>4, <2>1, <2>3, <1>2
      <3> QED BY <3>3, <3>4
    <2> QED BY <2>2, <2>3
  <1> QED BY <1>1, <1>3, <1>5, <1>6

-----------------------------------------------------------------------------
(* Every step of the writer and of the reader keeps the invariant.         *)

(* The invariant holds of the empty slice. *)
LEMMA InitInvariant == Init => IInv
  BY DEF Init, IInv, TypeOK, BufferFits, BufferHolds, ReaderFollows, EofIsExact,
         Idle, Byte

(* Each action keeps it; one step per action, one conjunct at a time.      *)
LEMMA StepInvariant == IInv /\ [Next]_vars => IInv'
  <1> SUFFICES ASSUME IInv, [Next]_vars PROVE IInv'
    OBVIOUS
  <1>0. WriteBit => /\ buf' \in Seq(Byte)
                    /\ written' \in Seq({0, 1})
    BY WriteBitLemma
  <1> USE DEF IInv
  <1>1. ASSUME NEW n \in Widths, NEW val \in Values, StartWriteBits(val, n)
        PROVE  IInv'
    BY <1>1, WidthsAssumption, ValuesAssumption
       DEF StartWriteBits, reader, TypeOK, BufferFits, BufferHolds, BitAt,
           ReaderFollows, EofIsExact
  <1>2. CASE WriteBit
    <2>1. /\ wpos' = wpos + 1 /\ phase = "write"
          /\ writing' = [n |-> writing.n - 1, val |-> writing.val]
          /\ writing.n > 0
          /\ UNCHANGED <<data, rpos, reading, got, phase>>
      BY <1>2 DEF WriteBit, reader
    <2>2. TypeOK'
      <3>1. writing' \in [n : Nat, val : Nat]
        <4>1. writing.n \in Nat /\ writing.val \in Nat
          BY DEF TypeOK
        <4> QED BY <2>1, <4>1
      <3>2. buf' \in Seq(Byte) /\ written' \in Seq({0, 1})
        BY <1>0, <1>2
      <3>3. wpos' \in Nat
        BY <2>1 DEF TypeOK
      <3> QED BY <2>1, <3>1, <3>2, <3>3 DEF TypeOK
    <2>3. BufferFits' /\ BufferHolds'
      BY <1>2, <2>1, WriteBitLemma, GrownLemma DEF TypeOK, BufferFits, BufferHolds
    <2>4. ReaderFollows' /\ EofIsExact'
      <3>1. data = <<>> /\ rpos = 0 /\ rpos = Len(got)
        BY <2>1 DEF ReaderFollows
      <3> QED BY <2>1, <3>1 DEF ReaderFollows, EofIsExact
    <2> QED BY <2>2, <2>3, <2>4
  <1>3. ASSUME NEW k \in 0..Len(buf), HandOver(k)
        PROVE  IInv'
    <2>1. /\ data' = SubSeq(buf, 1, k) /\ phase' = "read" /\ phase = "write"
          /\ UNCHANGED <<buf, wpos, writing, written, rpos, reading, got>>
      BY <1>3 DEF HandOver, writer
    <2>2. data' \in Seq(Byte) /\ Len(data') = k
      BY <2>1 DEF TypeOK
    <2>3. TypeOK' /\ BufferFits' /\ BufferHolds'
      BY <2>1, <2>2 DEF TypeOK, BufferFits, BufferHolds, BitAt
    <2>4. rpos = 0 /\ rpos = Len(got)
      BY <2>1 DEF ReaderFollows
    <2>5. ReaderFollows' /\ EofIsExact'
      BY <2>1, <2>2, <2>4 DEF ReaderFollows, EofIsExact
    <2> QED BY <2>3, <2>5
  <1>4. ASSUME NEW n \in Widths, StartReadBits(n)
        PROVE  IInv'
    BY <1>4, WidthsAssumption
       DEF StartReadBits, writer, TypeOK, BufferFits, BufferHolds, BitAt,
           ReaderFollows, EofIsExact
  <1>5. CASE ReadBit
    <2> DEFINE bit == BitAt(data, rpos)
    <2>1. /\ phase = "read" /\ reading.n > 0
          /\ rpos \div 8 < Len(data)
          /\ rpos' = rpos + 1
          /\ got' = Append(got, bit)
          /\ reading' = [n |-> reading.n - 1, val |-> 2 * reading.val + bit]
          /\ UNCHANGED <<buf, wpos, writing, written, data, phase>>
      BY <1>5 DEF ReadBit, writer
    <2>2. PICK k \in 0..Len(buf) : data = SubSeq(buf, 1, k)
      BY <2>1 DEF ReaderFollows
    <2>3. rpos \in Nat /\ Len(data) = k /\ rpos < 8 * k
      BY <2>1, <2>2, PositionLemma DEF TypeOK
    <2>4. bit = IF rpos < wpos THEN written[rpos + 1] ELSE 0
      BY <2>2, <2>3, PrefixBits DEF TypeOK, BufferHolds
    <2>5. bit \in {0, 1}
      BY DEF BitAt
    <2> HIDE DEF bit
    <2>6. TypeOK'
      BY <2>1, <2>5, SMTT(30) DEF TypeOK
    <2>7. BufferFits' /\ BufferHolds'
      BY <2>1 DEF BufferFits, BufferHolds, BitAt
    <2>8. ReaderFollows'
      <3>1. /\ got \in Seq({0, 1}) /\ rpos = Len(got) /\ wpos \in Nat
            /\ \A p \in 1..rpos : got[p] = IF p <= wpos THEN written[p] ELSE 0
        BY DEF TypeOK, ReaderFollows
      <3>2. /\ rpos' = Len(got')
            /\ \A p \in 1..rpos : got'[p] = got[p]
            /\ got'[rpos + 1] = bit
        BY <2>1, <2>5, <3>1
      <3>3. \A p \in 1..rpos' : got'[p] = IF p <= wpos THEN written[p] ELSE 0
        <4> SUFFICES ASSUME NEW p \in 1..(rpos + 1)
                     PROVE  got'[p] = IF p <= wpos THEN written[p] ELSE 0
          BY <2>1
        <4>1. CASE p = rpos + 1
          BY <2>3, <2>4, <3>1, <3>2, <4>1
        <4>2. CASE p # rpos + 1
          BY <2>3, <3>1, <3>2, <4>2
        <4> QED BY <4>1, <4>2
      <3>4. rpos' <= 8 * Len(data)
        BY <2>1, <2>3
      <3> QED BY <2>1, <2>2, <3>2, <3>3, <3>4 DEF ReaderFollows
    <2>9. EofIsExact'
      BY <2>1 DEF EofIsExact
    <2> QED BY <2>6, <2>7, <2>8, <2>9
  <1>6. CASE ReadEOF
    <2>1. /\ phase = "read" /\ phase' = "eof"
          /\ rpos \div 8 >= Len(data)
          /\ reading' = Idle
          /\ UNCHANGED <<buf, wpos, writing, written, data, rpos, got>>
      BY <1>6 DEF ReadEOF, writer
    <2>2. rpos = 8 * Len(data)
      <3>1. rpos \in Nat /\ Len(data) \in Nat /\ rpos <= 8 * Len(data)
        BY DEF TypeOK, ReaderFollows
      <3>2. rpos \div 8 \in Nat /\ (rpos \div 8 < Len(data) <=> rpos < 8 * Len(data))
        BY <3>1, PositionLemma
      <3> QED BY <2>1, <3>1, <3>2
    <2>3. TypeOK' /\ BufferFits' /\ BufferHolds'
      BY <2>1 DEF TypeOK, BufferFits, BufferHolds, BitAt, Idle
    <2>4. ReaderFollows' /\ EofIsExact'
      BY <2>1, <2>2 DEF ReaderFollows, EofIsExact
    <2> QED BY <2>3, <2>4
  <1>7. CASE UNCHANGED vars
    BY <1>7 DEF vars, writer, reader, TypeOK, BufferFits, BufferHolds, BitAt,
                ReaderFollows, EofIsExact
  <1> QED BY <1>1, <1>2, <1>3, <1>4, <1>5, <1>6, <1>7 DEF Next

(* The invariant holds of every state of every behaviour. *)
THEOREM Invariance == Spec => []IInv
  <1>1. Init => IInv
    BY InitInvariant
  <1>2. IInv /\ [Next]_vars => IInv'
    BY StepInvariant
  <1> QED BY <1>1, <1>2, PTL DEF Spec

(* Bit p of the slice is the p-th bit passed to writeBit, and what follows *)
(* the last of them is zero, at every point of every sequence of writes.   *)
THEOREM BufferHoldsAlways == Spec => [](BufferFits /\ BufferHolds)
  <1>1. IInv => BufferFits /\ BufferHolds
    BY DEF IInv
  <1> QED BY <1>1, Invariance, PTL

(* readBit reports the end of the slice only after its last bit. *)
THEOREM EofIsExactAlways == Spec => [](ReaderFollows /\ EofIsExact)
  <1>1. IInv => ReaderFollows /\ EofIsExact
    BY DEF IInv
  <1> QED BY <1>1, Invariance, PTL

(* Every variable keeps its type, for every width and value. *)
THEOREM TypeCorrect == Spec => []TypeOK
  <1>1. IInv => TypeOK
    BY DEF IInv
  <1> QED BY <1>1, Invariance, PTL

-----------------------------------------------------------------------------
(* The values. *)

(* What was written is the fields of the calls to writeBits, but for the    *)
(* rest of the one in progress; each call to readBits has the number that  *)
(* its bits make, as far as they have been read.                           *)
Puts == \E at : StoredBits(at, puts, written, writing.n)

Gets == \E at : /\ Fetched(at, gets, got, reading.n)
                /\ phase # "eof" => at[Len(gets)] = Len(got) + reading.n

FieldsInv ==
  /\ Puts /\ Gets
  /\ writing.n > 0 => writing.val = puts[Len(puts)].val
  /\ reading.n > 0 => reading.val = gets[Len(gets)].val
  /\ phase # "read" => reading.n = 0
  /\ IF phase = "write" THEN gets = <<>> ELSE writing.n = 0

(* No field has been written or read. *)
LEMMA FieldsInit == Init => FieldsInv
  <1> SUFFICES ASSUME Init PROVE FieldsInv
    OBVIOUS
  <1>1. /\ puts = <<>> /\ gets = <<>> /\ written = <<>> /\ got = <<>>
        /\ writing.n = 0 /\ reading.n = 0
    BY DEF Init, Idle
  <1> PICK at : at = [i \in 0..0 |-> 0]
    OBVIOUS
  <1>2. /\ Laid(at, <<>>) /\ at[0] = 0
    BY EmptySeq DEF Laid
  <1>3. StoredBits(at, <<>>, <<>>, 0)
    BY <1>2, EmptySeq DEF StoredBits
  <1>4. Fetched(at, <<>>, <<>>, 0)
    BY <1>2, EmptySeq DEF Fetched
  <1> QED BY <1>1, <1>2, <1>3, <1>4, EmptySeq DEF FieldsInv, Puts, Gets

(* The writer adds a field or the next bit of it, and readBits the next    *)
(* bit to the number of the field it reads.                                *)
LEMMA FieldsStep == IInv /\ FieldsInv /\ [Next]_vars => FieldsInv'
  <1> SUFFICES ASSUME IInv, FieldsInv, [Next]_vars PROVE FieldsInv'
    OBVIOUS
  <1>0. /\ written \in Seq({0, 1}) /\ got \in Seq({0, 1})
        /\ Len(written) \in Nat /\ Len(got) \in Nat
        /\ writing.n \in Nat /\ reading.n \in Nat /\ reading.val \in Nat
    BY LenProperties DEF IInv, TypeOK
  <1>a. PICK at : StoredBits(at, puts, written, writing.n)
    BY DEF FieldsInv, Puts
  <1>b. PICK from : /\ Fetched(from, gets, got, reading.n)
                    /\ phase # "eof" => from[Len(gets)] = Len(got) + reading.n
    BY DEF FieldsInv, Gets
  <1>1. ASSUME NEW n \in Widths, NEW val \in Values, StartWriteBits(val, n)
        PROVE  FieldsInv'
    <2> PICK f : f = [n |-> n, val |-> val]
      OBVIOUS
    <2>1. /\ f \in BitField /\ f.n = n /\ f.val = val
          /\ phase = "write" /\ writing.n = 0 /\ puts' = Append(puts, f)
          /\ writing' = f
          /\ UNCHANGED <<written, reading, got, gets, phase>>
      BY <1>1, WidthsAssumption, ValuesAssumption DEF StartWriteBits, reader, BitField
    <2>2. Laid(at, puts) /\ puts \in Seq(BitField)
      BY <1>a DEF StoredBits, Laid
    <2>3. Len(puts') = Len(puts) + 1 /\ puts'[Len(puts) + 1] = f
      BY <2>1, <2>2, AppendProperties
    <2>4. \E to : StoredBits(to, puts', written, f.n)
      <3>1. StoredBits(at, puts, written, 0)
        BY <1>a, <2>1
      <3>2. \E to : StoredBits(to, Append(puts, f), written, f.n)
        BY <1>0, <2>1, <3>1, StoredField
      <3> QED BY <2>1, <3>2
    <2> QED BY <1>b, <2>1, <2>3, <2>4 DEF FieldsInv, Puts, Gets
  <1>2. CASE WriteBit
    <2> PICK m, b : m = writing.n /\ b = LowBit(writing.val, m - 1)
      OBVIOUS
    <2>1. /\ phase = "write" /\ m > 0 /\ m \in Nat
          /\ written' = Append(written, b)
          /\ writing'.n = m - 1 /\ writing'.val = writing.val
          /\ UNCHANGED <<puts, reading, got, gets, phase>>
      BY <1>0, <1>2 DEF WriteBit, reader
    <2>2. writing.val = puts[Len(puts)].val
      BY <2>1 DEF FieldsInv
    <2>3. StoredBits(at, puts, Append(written, b), m - 1)
      BY <1>0, <1>a, <2>1, <2>2, StoredBit
    <2> QED BY <1>b, <2>1, <2>2, <2>3 DEF FieldsInv, Puts, Gets
  <1>3. ASSUME NEW k \in 0..Len(buf), HandOver(k)
        PROVE  FieldsInv'
    <2>1. /\ phase = "write" /\ phase' = "read" /\ writing.n = 0 /\ reading.n = 0
          /\ UNCHANGED <<written, writing, puts, reading, got, gets>>
      BY <1>3 DEF HandOver, writer, FieldsInv
    <2> QED BY <1>a, <1>b, <2>1 DEF FieldsInv, Puts, Gets
  <1>4. ASSUME NEW n \in Widths, StartReadBits(n)
        PROVE  FieldsInv'
    <2> PICK f : f = [n |-> n, val |-> 0]
      OBVIOUS
    <2>1. /\ n \in Nat /\ f \in BitField /\ f.n = n /\ f.val = 0
          /\ phase = "read" /\ reading.n = 0 /\ gets' = Append(gets, f)
          /\ reading' = f
          /\ UNCHANGED <<written, writing, puts, got, phase>>
      BY <1>4, WidthsAssumption DEF StartReadBits, writer, BitField
    <2>2. gets \in Seq(BitField)
      BY <1>b DEF Fetched, Laid
    <2>3. Len(gets') = Len(gets) + 1 /\ gets'[Len(gets) + 1] = f
      BY <2>1, <2>2, AppendProperties
    <2>4. PICK to : Fetched(to, gets', got, n) /\ to[Len(gets) + 1] = Len(got) + n
      <3>1. Fetched(from, gets, got, 0) /\ from[Len(gets)] = Len(got)
        BY <1>0, <1>b, <2>1
      <3>2. \E to : /\ Fetched(to, Append(gets, f), got, f.n)
                    /\ to[Len(gets) + 1] = Len(got) + f.n
        BY <1>0, <2>1, <3>1, FetchedField
      <3> QED BY <2>1, <3>2
    <2> QED BY <1>a, <2>1, <2>3, <2>4 DEF FieldsInv, Puts, Gets
  <1>5. CASE ReadBit
    <2> PICK m, b, v : m = reading.n /\ b = BitAt(data, rpos) /\ v = 2 * reading.val + b
      OBVIOUS
    <2>1. /\ phase = "read" /\ m \in Nat \ {0} /\ b \in {0, 1}
          /\ got' = Append(got, b)
          /\ reading'.n = m - 1 /\ reading'.val = v
          /\ gets' = [gets EXCEPT ![Len(gets)].val = v]
          /\ UNCHANGED <<written, writing, puts, phase>>
      BY <1>0, <1>5 DEF ReadBit, writer, BitAt
    <2>2. v = 2 * gets[Len(gets)].val + b
      BY <2>1 DEF FieldsInv
    <2>3. /\ Fetched(from, gets', got', m - 1)
          /\ Len(gets') = Len(gets) /\ Len(gets) > 0
      <3>1. Fetched(from, gets, got, m) /\ from[Len(gets)] = Len(got) + m
        BY <1>b, <2>1
      <3> QED BY <1>0, <2>1, <2>2, <3>1, FetchedBit, ZenonT(30)
    <2>4. from[Len(gets')] = Len(got') + (m - 1)
      <3>1. Len(got') = Len(got) + 1
        BY <1>0, <2>1, AppendProperties
      <3>2. from[Len(gets')] = Len(got) + m
        BY <1>b, <2>1, <2>3
      <3>3. \A l, k \in Nat : l + k = (l + 1) + (k - 1)
        OBVIOUS
      <3> QED BY <1>0, <2>1, <3>1, <3>2, <3>3, ZenonT(30)
    <2>5. gets'[Len(gets')].val = v
      <3>1. gets \in Seq(BitField) /\ Len(gets) \in 1..Len(gets)
        <4>1. gets \in Seq(BitField) /\ Len(gets) \in Nat
          BY <1>b, LenProperties DEF Fetched, Laid
        <4> QED BY <2>3, <4>1
      <3>2. gets[Len(gets)] \in BitField
        BY <3>1, ElementOfSeq
      <3> QED BY <2>1, <2>3, <3>1, <3>2 DEF BitField
    <2> QED BY <1>a, <2>1, <2>3, <2>4, <2>5 DEF FieldsInv, Puts, Gets
  <1>6. CASE ReadEOF
    <2>1. /\ phase = "read" /\ phase' = "eof" /\ reading.n > 0
          /\ reading'.n = 0
          /\ gets' = SubSeq(gets, 1, Len(gets) - 1)
          /\ UNCHANGED <<written, writing, puts, got>>
      BY <1>6 DEF ReadEOF, writer, Idle
    <2>2. \E to : Fetched(to, gets', got, 0)
      <3>1. \E to : Fetched(to, SubSeq(gets, 1, Len(gets) - 1), got, 0)
        BY <1>0, <1>b, <2>1, FetchedDropped
      <3> QED BY <2>1, <3>1
    <2> QED BY <1>a, <2>1, <2>2 DEF FieldsInv, Puts, Gets
  <1>7. CASE UNCHANGED vars
    BY <1>a, <1>b, <1>7 DEF vars, writer, reader, FieldsInv, Puts, Gets
  <1> QED BY <1>1, <1>2, <1>3, <1>4, <1>5, <1>6, <1>7 DEF Next

(* A reader that asks for the widths the writer used gets the low bits of   *)
(* the values, however many of the bytes were delivered: what readBits     *)
(* puts together is what writeBits took apart.                             *)
THEOREM SameWidthsSameValuesAlways == Spec => []SameWidthsSameValues
  <1>1. Init => FieldsInv
    BY FieldsInit
  <1>2. IInv /\ FieldsInv /\ [Next]_vars => FieldsInv'
    BY FieldsStep
  <1>3. IInv /\ FieldsInv => SameWidthsSameValues
    <2> SUFFICES ASSUME IInv, FieldsInv,
                        NEW i \in 1..(IF reading.n = 0 THEN Len(gets) ELSE Len(gets) - 1),
                        i <= Len(puts), \A j \in 1..i : puts[j].n = gets[j].n
                 PROVE  gets[i].val = puts[i].val % (2 ^ puts[i].n)
      BY DEF SameWidthsSameValues
    <2>0. /\ Len(written) \in Nat /\ Len(got) \in Nat /\ reading.n \in Nat
          /\ rpos = Len(got) /\ wpos = Len(written)
      BY LenProperties DEF IInv, TypeOK, BufferFits, ReaderFollows
    <2>1. PICK at : StoredBits(at, puts, written, writing.n)
      BY DEF FieldsInv, Puts
    <2>2. PICK from : Fetched(from, gets, got, reading.n)
      BY DEF FieldsInv, Gets
    <2>3. CASE phase # "write"
      <3>1. StoredBits(at, puts, written, 0)
        BY <2>1, <2>3 DEF FieldsInv
      <3>2. \A p \in 1..Len(got) : p <= Len(written) => got[p] = written[p]
        BY <2>0, <2>3 DEF IInv, ReaderFollows
      <3>3. SameBitsRead(got, written)
        BY <2>0, <3>2 DEF SameBitsRead
      <3>4. SameWidths(puts, gets, reading.n, i)
        BY DEF SameWidths
      <3> QED BY <2>0, <2>2, <3>1, <3>3, <3>4, FieldsAgree
    <2>4. CASE phase = "write"
      <3>1. gets = <<>> /\ reading.n = 0
        BY <2>4 DEF FieldsInv
      <3>2. Len(gets) = 0
        BY <3>1, EmptySeq
      <3> QED BY <3>1, <3>2
    <2> QED BY <2>3, <2>4
  <1> QED BY <1>1, <1>2, <1>3, Invariance, PTL DEF Spec

-----------------------------------------------------------------------------
(* Refinement of BitQueue. *)

(* The bits of a slice, as BitQueue sees them. *)
BitsOf(b) == [p \in 1..(8 * Len(b)) |-> BitAt(b, p - 1)]

(* A slice of n bytes is 8n bits, each 0 or 1. *)
LEMMA BitsOfLength ==
  ASSUME NEW b \in Seq(Byte)
  PROVE  Len(BitsOf(b)) = 8 * Len(b)
  <1>1. 8 * Len(b) \in Nat
    OBVIOUS
  <1> QED BY <1>1 DEF BitsOf

(* Every step is a Put, Close, Get or End of BitQueue, or changes nothing  *)
(* that BitQueue sees.                                                     *)
LEMMA StepRefines ==
  IInv /\ IInv' /\ [Next]_vars => [Queue!QNext]_(Queue!qvars)
  <1> SUFFICES ASSUME IInv, IInv', [Next]_vars
               PROVE  Queue!QNext \/ UNCHANGED Queue!qvars
    OBVIOUS
  <1>0. UNCHANGED <<written, data, got, phase>> => UNCHANGED Queue!qvars
    BY DEF Queue!qvars, BitAt
  <1>1. ASSUME NEW n \in Widths, NEW val \in Values, StartWriteBits(val, n)
        PROVE  UNCHANGED Queue!qvars
    BY <1>0, <1>1 DEF StartWriteBits, reader
  <1>2. CASE WriteBit
    <2> DEFINE bit == LowBit(writing.val, writing.n - 1)
    <2>1. /\ bit \in {0, 1}
          /\ written' = Append(written, bit)
          /\ phase = "write"
          /\ UNCHANGED <<data, got, phase>>
      BY <1>2 DEF WriteBit, reader, LowBit
    <2>2. Queue!Put(bit)
      BY <2>1 DEF Queue!Put, BitAt
    <2> QED BY <2>1, <2>2 DEF Queue!QNext
  <1>3. ASSUME NEW k \in 0..Len(buf), HandOver(k)
        PROVE  Queue!QNext
    <2>1. /\ data' = SubSeq(buf, 1, k) /\ phase' = "read" /\ phase = "write"
          /\ UNCHANGED <<written, got>>
      BY <1>3 DEF HandOver, writer
    <2>2. /\ buf \in Seq(Byte) /\ wpos = Len(written) /\ wpos \in Nat
          /\ 8 * Len(buf) < wpos + 8
          /\ \A p \in 0..(8 * Len(buf) - 1) :
               BitAt(buf, p) = IF p < wpos THEN written[p + 1] ELSE 0
      BY DEF IInv, TypeOK, BufferFits, BufferHolds
    <2>3. k \in 0..((Len(written) + 7) \div 8)
      <3>1. k \in Nat /\ 8 * k < wpos + 8
        BY <2>2
      <3>2. \A m \in Nat : 8 * k <= m => k <= m \div 8
        BY <3>1
      <3> QED BY <2>2, <3>1, <3>2
    <2>4. BitsOf(data') = Queue!Padded(written, k)
      <3>1. Len(data') = k
        BY <2>1, <2>2
      <3>2. ASSUME NEW p \in 1..(8 * k)
            PROVE  BitAt(data', p - 1) = IF p <= Len(written) THEN written[p] ELSE 0
        <4>1. /\ p - 1 \in Nat /\ p - 1 < 8 * k
              /\ p - 1 \in 0..(8 * Len(buf) - 1)
          BY <2>2
        <4>2. BitAt(data', p - 1) = BitAt(buf, p - 1)
          BY <2>1, <2>2, <4>1, PrefixBits
        <4>3. BitAt(buf, p - 1) = IF p - 1 < wpos THEN written[p] ELSE 0
          BY <2>2, <4>1
        <4> QED BY <2>2, <4>1, <4>2, <4>3
      <3> QED BY <3>1, <3>2 DEF BitsOf, Queue!Padded
    <2>5. Queue!Close(k)
      BY <2>1, <2>4 DEF Queue!Close, BitsOf
    <2> QED BY <2>3, <2>5 DEF Queue!QNext
  <1>4. ASSUME NEW n \in Widths, StartReadBits(n)
        PROVE  UNCHANGED Queue!qvars
    BY <1>0, <1>4 DEF StartReadBits, writer
  <1>5. CASE ReadBit
    <2>1. /\ phase = "read"
          /\ rpos \div 8 < Len(data)
          /\ got' = Append(got, BitAt(data, rpos))
          /\ UNCHANGED <<written, data, phase>>
      BY <1>5 DEF ReadBit, writer
    <2>2. /\ data \in Seq(Byte) /\ rpos \in Nat /\ rpos = Len(got)
      BY DEF IInv, TypeOK, ReaderFollows
    <2>3. rpos < 8 * Len(data)
      BY <2>1, <2>2, PositionLemma
    <2>4. /\ Len(BitsOf(data)) = 8 * Len(data)
          /\ BitsOf(data)[Len(got) + 1] = BitAt(data, rpos)
      BY <2>2, <2>3, BitsOfLength DEF BitsOf
    <2>5. BitsOf(data)' = BitsOf(data)
      BY <2>1 DEF BitsOf, BitAt
    <2>6. Queue!Get
      BY <2>1, <2>2, <2>3, <2>4, <2>5 DEF Queue!Get, BitsOf
    <2> QED BY <2>6 DEF Queue!QNext
  <1>6. CASE ReadEOF
    <2>1. /\ phase = "read" /\ phase' = "eof"
          /\ UNCHANGED <<written, data, got>>
      BY <1>6 DEF ReadEOF, writer
    <2>2. /\ data \in Seq(Byte)
          /\ Len(got) = 8 * Len(data)
      BY <1>6 DEF IInv, TypeOK, ReaderFollows, EofIsExact, ReadEOF
    <2>3. Len(BitsOf(data)) = Len(got) /\ BitsOf(data)' = BitsOf(data)
      BY <2>1, <2>2, BitsOfLength DEF BitsOf, BitAt
    <2>4. Queue!End
      BY <2>1, <2>3 DEF Queue!End, BitsOf
    <2> QED BY <2>4 DEF Queue!QNext
  <1>7. CASE UNCHANGED vars
    BY <1>0, <1>7 DEF vars, writer, reader
  <1> QED BY <1>1, <1>2, <1>3, <1>4, <1>5, <1>6, <1>7 DEF Next

(* The bytes, positions and loops of bitstream.go implement a queue of     *)
(* bits that is padded to whole bytes and may lose a tail of them.         *)
THEOREM Refinement == Spec => RefinesBitQueue
  <1>1. Init => Queue!QInit
    <2>1. ASSUME data = <<>> PROVE BitsOf(data) = <<>>
      BY <2>1 DEF BitsOf
    <2> QED BY <2>1 DEF Init, Queue!QInit, BitsOf
  <1>2. IInv /\ IInv' /\ [Next]_vars => [Queue!QNext]_(Queue!qvars)
    BY StepRefines
  <1> QED BY <1>1, <1>2, Invariance, PTL DEF Spec, RefinesBitQueue, Queue!QSpec
=============================================================================
