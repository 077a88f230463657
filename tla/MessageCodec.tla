----------------------------- MODULE MessageCodec ---------------------------
(***************************************************************************)
(* Pack and Unpack of one message: encodeMessage, encodeField, encodeOneof, *)
(* encodeValue, encodeScalar and encodeMapKey of bitpacker/encoder.go and   *)
(* their counterparts of bitpacker/decoder.go.                              *)
(*                                                                         *)
(* The call stack of each side is the sequence work of what it still has   *)
(* to code: units (fields and oneofs) and values (elements, entries,       *)
(* members of a oneof).  The encoder reads each part of its message once,  *)
(* so the message is chosen part by part as it is read.  The stream is the *)
(* sequence of bits that BitStream implements.  Integers stand for all     *)
(* scalars of a fixed width; IntCodec has their encodings.                 *)
(***************************************************************************)
EXTENDS Schema, FiniteSets, SequencesExt, TLC

CONSTANTS Descriptor,   \* message type -> descriptor
          Roots,        \* the types packed
          Defaults,     \* the pack-level strategies
          Ints, ByteStrings,    \* values of fields
          IntKeys, StringKeys,  \* values of map keys
          ByteSize,     \* bits of a byte
          MaxCount,     \* bound: elements of a list, entries of a map
          MaxDepth      \* bound: nesting of messages

ASSUME BoundsAssumption == ByteSize \in Nat \ {0} /\ MaxCount \in Nat /\ MaxDepth \in Nat

ASSUME StrategiesAssumption == Defaults \subseteq Strategies

ASSUME ValuesAssumption ==
  /\ Ints \subseteq Nat /\ IntKeys \subseteq Nat
  /\ ByteStrings \subseteq Seq(0..(2 ^ ByteSize - 1))
  /\ StringKeys \subseteq Seq(0..(2 ^ ByteSize - 1))

ASSUME DescriptorAssumption ==
  /\ Roots \subseteq DOMAIN Descriptor
  /\ \A t \in DOMAIN Descriptor :
       LET md == Descriptor[t] IN
       /\ md.fields \in Seq(Range(md.fields))
       /\ \A i \in 1..Len(md.fields) :
            LET fd == md.fields[i] IN
            /\ IsField(fd)
            /\ RealOneof(fd) => md.selectorBits[fd.oneof] \in Nat
            /\ fd.kind = "message" => fd.type \in DOMAIN Descriptor

VARIABLES phase,
          root, strategy, \* the arguments of Pack
          work,           \* what is left to encode or decode, first one first
          bits,           \* the bits written
          data, pos,      \* the bits delivered, and the reader's position
          out,            \* the message being unpacked, with the element that
                          \* is not in its list yet: place -> value
          raw, kept,      \* ghost: what was read, and what of it was written
          marks, step     \* ghost: the encoder's items and positions, and how
                          \* many items the decoder has come to

vars == <<phase, root, strategy, work, bits, data, pos, out, raw, kept, marks, step>>
packVars == <<bits, raw, kept, marks>>
unpackVars == <<data, pos, out, step>>

Nothing == <<>>        \* no place holds a value
Present == "message"   \* what a place holds when it holds a message

-----------------------------------------------------------------------------
(* Bits *)

(* mutant: the least significant bit first *)
FromBitsLsbFirst(b) ==
  LET v[i \in 0..Len(b)] == IF i = 0 THEN 0 ELSE v[i - 1] + b[i] * 2 ^ (i - 1)
  IN v[Len(b)]

LowBits(v, n) == [i \in 1..n |-> (v \div 2 ^ (n - i)) % 2]
FromBits(b) == LET v[i \in 0..Len(b)] == IF i = 0 THEN 0 ELSE 2 * v[i - 1] + b[i]
               IN v[Len(b)]
RawBytes(s) == [p \in 1..(Len(s) * ByteSize) |->
                  LowBits(s[(p - 1) \div ByteSize + 1], ByteSize)[((p - 1) % ByteSize) + 1]]

MaxOf(n) == 2 ^ n - 1

(* mutant: the field's own strategy is ignored *)
EffectiveStrategyOfPack(fd) == strategy

EffectiveStrategy(fd) == IF fd.overflow # "UNSPECIFIED" THEN fd.overflow ELSE strategy

(* The descriptor of the values of a map: the map's own annotations are on *)
(* the map field, only its widths are passed along with it.                *)
MapValue(fd) == [fd EXCEPT !.card = "singular", !.overflow = "UNSPECIFIED"]

(* The first elements, or the last ones, that a count of max allows. *)
KeepFirst(s, max) == SubSeq(s, 1, max)
KeepLast(s, max) == SubSeq(s, Len(s) - max + 1, Len(s))

TsBits(fd) == IF fd.bits = 0 THEN 64 ELSE fd.bits

-----------------------------------------------------------------------------
(* encodeScalar: what it keeps of a value, whether it overflows, and the   *)
(* bits it writes.                                                         *)

Overflows(fd, v) == CASE fd.kind \in {"int", "enum"} -> v > MaxOf(fd.bits)
                      [] fd.kind = "bytes" -> Len(v) > MaxOf(fd.lengthBits)
                      [] OTHER -> FALSE

KeepInt(v, max, eff) == IF eff = "MODULO" THEN v % (max + 1) ELSE max

(* mutant: the two ends of a string are mixed up *)
KeepBytesSwapped(s, max, eff) == CASE eff = "MODULO" -> KeepFirst(s, Len(s) % max)
                                   [] eff = "CROP_LEFT" -> KeepFirst(s, max)
                                   [] OTHER -> KeepLast(s, max)

KeepBytes(s, max, eff) == CASE eff = "MODULO" -> KeepFirst(s, Len(s) % max)
                            [] eff = "CROP_LEFT" -> KeepLast(s, max)
                            [] OTHER -> KeepFirst(s, max)

Keep(fd, v) ==
  IF ~Overflows(fd, v) THEN v
  ELSE IF fd.kind = "bytes" THEN KeepBytes(v, MaxOf(fd.lengthBits), EffectiveStrategy(fd))
  ELSE KeepInt(v, MaxOf(fd.bits), EffectiveStrategy(fd))

ScalarBits(fd, v) == CASE fd.kind = "bool" -> LowBits(v, 1)
                       [] fd.kind \in {"int", "enum"} -> LowBits(v, fd.bits)
                       [] fd.kind = "bytes" -> LowBits(Len(v), fd.lengthBits) \o RawBytes(v)

(* encodeMapKey checks no range: a long string key has a length that is    *)
(* cut off, and all of its bytes.  A bool takes one bit whatever keyBits.  *)
KeyBitsOf(fd, k) ==
  CASE fd.key = "bytes" -> LowBits(Len(k), fd.keyLengthBits) \o RawBytes(k)
    [] fd.key = "bool" -> LowBits(k, 1)
    [] fd.key = "int" -> LowBits(k, fd.keyBits)

(* The values a field of a message can hold. *)
ValuesOf(fd) == CASE fd.kind = "bool" -> {0, 1}
                  [] fd.kind \in {"int", "enum"} -> Ints
                  [] fd.kind = "bytes" -> ByteStrings
                  [] fd.kind = "message" -> {Present}

KeysOf(fd) == CASE fd.key = "bytes" -> StringKeys
                [] fd.key = "bool" -> {0, 1}
                [] fd.key = "int" -> IntKeys

-----------------------------------------------------------------------------
(* Items of work: a unit at a place of the message, a value of a field, or *)
(* the end of an element.                                                  *)

Unit(u, at) == [op |-> "unit", u |-> u, at |-> at, v |-> Nothing]
Value(fd, at, v) == [op |-> "value", u |-> fd, at |-> at, v |-> v]
ElementEnd(fd, at) == [op |-> "append", u |-> fd, at |-> at, v |-> Nothing]

(* The units of a message at a place. *)
UnitItems(type, at) ==
  LET plan == Plan(Descriptor[type])
  IN [k \in 1..Len(plan) |-> Unit(plan[k], Append(at, k))]

(* The message with a value at a place. *)
SetAt(msg, at, v) == [a \in {at} \cup DOMAIN msg |-> IF a = at THEN v ELSE msg[a]]

(* An element is appended to its list, an entry replaces the one with its  *)
(* key, any other value is set.                                            *)
Store(msg, fd, at, v) ==
  CASE fd.card = "repeated" -> [msg EXCEPT ![at] = Append(@, v)]
    [] fd.card = "map" -> [msg EXCEPT ![at] = {e \in @ : e[1] # v[1]} \cup {v}]
    [] OTHER -> SetAt(msg, at, v)

(* The next element of a list of messages is at its number in the list. *)
PlaceOf(msg, fd, at) == IF fd.card = "repeated" THEN Append(at, Len(msg[at]) + 1) ELSE at

item == Head(work)

-----------------------------------------------------------------------------
(* Pack *)

Init == /\ phase = "start"
        /\ root \in Roots /\ strategy \in Defaults
        /\ work = <<>> /\ bits = <<>>
        /\ data = <<>> /\ pos = 0 /\ out = Nothing
        /\ raw = Nothing /\ kept = Nothing
        /\ marks = <<>> /\ step = 0

FailWith(error, msg) == /\ phase' = error
                        /\ work' = <<>>
                        /\ out' = msg
                        /\ UNCHANGED <<root, strategy, packVars, data, pos, step>>

Fail(error) == FailWith(error, out)

StartPack ==
  /\ phase = "start"
  /\ IF ValidMessage(Descriptor[root])
     THEN /\ phase' = "packing"
          /\ work' = UnitItems(root, <<>>)
          /\ UNCHANGED <<root, strategy, packVars, unpackVars>>
     ELSE Fail("ValidationError")

(* The item is encoded as b; more is what it leaves to encode. *)
Emit(b, more, raw2, kept2) ==
  /\ bits' = bits \o b
  /\ work' = more \o Tail(work)
  /\ raw' = raw2 /\ kept' = kept2
  /\ marks' = Append(marks, [op |-> item.op, u |-> item.u, at |-> item.at, pos |-> Len(bits)])
  /\ UNCHANGED <<phase, root, strategy, unpackVars>>

Packing(op) == phase = "packing" /\ work # <<>> /\ item.op = op
PackingField(card) == /\ Packing("unit") /\ item.u.unit = "field"
                      /\ item.u.fd.card = card

PackScalar ==
  LET fd == item.u.fd IN
  /\ PackingField("singular") /\ fd.kind # "message"
  /\ \/ IsOptional(fd) /\ Emit(<<0>>, <<>>, raw, kept)
     \/ \E v \in ValuesOf(fd) :
          Emit(IF IsOptional(fd) THEN <<1>> ELSE <<>>,
               <<Value(fd, item.at, v)>>, raw, kept)

(* encodeTimestamp, as a presence bit and an unsigned offset that fits. *)
PackTimestamp ==
  LET fd == item.u.fd IN
  /\ PackingField("singular") /\ IsTimestamp(fd)
  /\ \/ Emit(<<0>>, <<>>, raw, kept)
     \/ \E v \in {n \in Ints : n <= MaxOf(TsBits(fd))} :
          Emit(<<1>> \o LowBits(v, TsBits(fd)), <<>>,
               Store(raw, fd, item.at, v), Store(kept, fd, item.at, v))

PackMessage ==
  LET fd == item.u.fd IN
  /\ PackingField("singular") /\ IsMessage(fd)
  /\ \/ Emit(<<0>>, <<>>, raw, kept)
     \/ /\ Len(item.at) < MaxDepth
        /\ IF ValidMessage(Descriptor[fd.type])
           THEN Emit(<<1>>, UnitItems(fd.type, item.at),
                     Store(raw, fd, item.at, Present), Store(kept, fd, item.at, Present))
           ELSE Fail("ValidationError")

(* What a list keeps of its elements when there are too many. *)
KeepList(s, max, eff) == IF Len(s) <= max THEN s
                         ELSE CASE eff = "MODULO" -> KeepFirst(s, Len(s) % (max + 1))
                                [] eff = "CROP_LEFT" -> KeepLast(s, max)
                                [] OTHER -> KeepFirst(s, max)

PackList ==
  LET fd == item.u.fd
      max == MaxOf(fd.countBits)
  IN
  /\ PackingField("repeated")
  /\ \E s \in SeqOf(ValuesOf(fd), MaxCount) :
       LET k == KeepList(s, max, EffectiveStrategy(fd))
       IN IF Len(s) > max /\ EffectiveStrategy(fd) = "ERROR"
          THEN Fail("PackError")
          ELSE Emit(LowBits(Len(k), fd.countBits),
                    [j \in 1..Len(k) |-> Value(fd, item.at, k[j])],
                    SetAt(raw, item.at, s), SetAt(kept, item.at, <<>>))

(* Range visits the entries in any order and stops after the first max. *)
PackMap ==
  LET fd == item.u.fd
      max == MaxOf(fd.countBits)
  IN
  /\ PackingField("map")
  /\ \E keys \in {s \in SeqOf(KeysOf(fd), MaxCount) : IsInjective(s)} :
     \E vals \in [1..Len(keys) -> ValuesOf(fd)] :
       LET entries == [j \in 1..Len(keys) |-> Value(fd, item.at, <<keys[j], vals[j]>>)]
       IN IF Len(keys) > max /\ EffectiveStrategy(fd) = "ERROR"
          THEN Fail("PackError")
          ELSE LET n == IF Len(keys) > max THEN max ELSE Len(keys)
               IN Emit(LowBits(n, fd.countBits), KeepFirst(entries, n),
                       SetAt(raw, item.at, {<<keys[j], vals[j]>> : j \in 1..Len(keys)}),
                       SetAt(kept, item.at, {}))

PackOneof ==
  LET u == item.u IN
  /\ Packing("unit") /\ u.unit = "oneof"
  /\ \E n \in 0..Len(u.fields) :
       LET fd == u.fields[n]
       IN \/ n = 0 /\ Emit(LowBits(0, u.selectorBits), <<>>, raw, kept)
          \/ /\ n > 0
             /\ \E v \in ValuesOf(fd) :
                  Emit(LowBits(n, u.selectorBits),
                       <<Value(fd, Append(item.at, n), v)>>, raw, kept)

(* encodeValue and encodeScalar of a value that is not a message. *)
PackValue ==
  LET fd == item.u IN
  /\ Packing("value") /\ fd.kind # "message" /\ fd.card # "map"
  /\ IF Overflows(fd, item.v) /\ EffectiveStrategy(fd) = "ERROR"
     THEN Fail("PackError")
     ELSE Emit(ScalarBits(fd, Keep(fd, item.v)), <<>>,
               IF fd.card = "repeated" THEN raw ELSE Store(raw, fd, item.at, item.v),
               Store(kept, fd, item.at, Keep(fd, item.v)))

(* encodeMapKey, then encodeValue of the value (which is not kept as an     *)
(* entry when it is a message: its fields follow, at the map's place).      *)
PackEntry ==
  LET fd == item.u
      val == MapValue(fd)
      k == item.v[1]
      v == item.v[2]
  IN
  /\ Packing("value") /\ fd.card = "map"
  /\ IF fd.kind = "message"
     THEN IF ValidMessage(Descriptor[fd.type])
          THEN Emit(KeyBitsOf(fd, k), UnitItems(fd.type, item.at), raw, kept)
          ELSE Fail("ValidationError")
     ELSE IF Overflows(val, v) /\ EffectiveStrategy(val) = "ERROR"
          THEN Fail("PackError")
          ELSE Emit(KeyBitsOf(fd, k) \o ScalarBits(val, Keep(val, v)), <<>>,
                    raw, Store(kept, fd, item.at, <<k, Keep(val, v)>>))

(* An element or a member of a oneof that is a message: no presence bit.   *)
(* A Timestamp is a message like any other here.                           *)
PackNested ==
  LET fd == item.u IN
  /\ Packing("value") /\ fd.kind = "message" /\ fd.card # "map"
  /\ IF ValidMessage(Descriptor[fd.type])
     THEN Emit(<<>>, UnitItems(fd.type, PlaceOf(kept, fd, item.at)),
               IF fd.card = "repeated" THEN raw ELSE Store(raw, fd, item.at, Present),
               Store(kept, fd, item.at, Present))
     ELSE Fail("ValidationError")

Pack == \/ PackScalar \/ PackTimestamp \/ PackMessage \/ PackList \/ PackMap
        \/ PackOneof \/ PackValue \/ PackEntry \/ PackNested

-----------------------------------------------------------------------------
(* The padded bytes are delivered, perhaps without a tail of them. *)

Bytes == (Len(bits) + ByteSize - 1) \div ByteSize

DeliverTo(receiver) ==
  /\ phase = "packing" /\ work = <<>>
  /\ \E k \in 0..Bytes :
       data' = [p \in 1..(k * ByteSize) |-> IF p <= Len(bits) THEN bits[p] ELSE 0]
  /\ phase' = receiver
  /\ work' = UnitItems(root, <<>>)
  /\ UNCHANGED <<root, strategy, packVars, pos, out, step>>

Deliver == DeliverTo("unpacking")

-----------------------------------------------------------------------------
(* Unpack *)

(* mutant: the last bit cannot be read *)
HasMore(n) == pos + n < Len(data)

Has(n) == pos + n <= Len(data)
Bits(from, n) == FromBits(SubSeq(data, from + 1, from + n))

(* The item took n bits; more is what it leaves to decode. *)
Consume(n, more, msg) ==
  /\ pos' = pos + n
  /\ work' = more \o Tail(work)
  /\ out' = msg
  /\ step' = step + 1
  /\ UNCHANGED <<phase, root, strategy, packVars, data>>

(* A length-prefixed string at a position: the bits it takes and its bytes. *)
BytesEnd(from, lengthBits) ==
  IF from + lengthBits <= Len(data)
  THEN from + lengthBits + Bits(from, lengthBits) * ByteSize
  ELSE Len(data) + 1
BytesAt(from, lengthBits) ==
  [j \in 1..Bits(from, lengthBits) |-> Bits(from + lengthBits + (j - 1) * ByteSize, ByteSize)]

(* mutant: a bool takes the bits of its annotation, of which it has none *)
ScalarEndBoolBits(fd, from) ==
  IF fd.kind = "bytes" THEN BytesEnd(from, fd.lengthBits) ELSE from + fd.bits

(* Where decodeScalar of a field ends, past the data if they run out. *)
ScalarEnd(fd, from) == CASE fd.kind = "bool" -> from + 1
                         [] fd.kind \in {"int", "enum"} -> from + fd.bits
                         [] fd.kind = "bytes" -> BytesEnd(from, fd.lengthBits)
ScalarAt(fd, from) == CASE fd.kind = "bool" -> Bits(from, 1)
                        [] fd.kind \in {"int", "enum"} -> Bits(from, fd.bits)
                        [] fd.kind = "bytes" -> BytesAt(from, fd.lengthBits)

KeyEnd(fd, from) == CASE fd.key = "bytes" -> BytesEnd(from, fd.keyLengthBits)
                      [] fd.key = "bool" -> from + 1
                      [] fd.key = "int" -> from + fd.keyBits
KeyAt(fd, from) == CASE fd.key = "bytes" -> BytesAt(from, fd.keyLengthBits)
                     [] fd.key = "bool" -> Bits(from, 1)
                     [] fd.key = "int" -> Bits(from, fd.keyBits)

Unpacking(op) == phase = "unpacking" /\ work # <<>> /\ item.op = op
UnpackingField(card) == /\ Unpacking("unit") /\ item.u.unit = "field"
                        /\ item.u.fd.card = card

UnpackScalar ==
  LET fd == item.u.fd IN
  /\ UnpackingField("singular") /\ fd.kind # "message"
  /\ IF ~IsOptional(fd) THEN Consume(0, <<Value(fd, item.at, Nothing)>>, out)
     ELSE IF ~Has(1) THEN Fail("UnpackError")
     ELSE Consume(1, IF Bits(pos, 1) = 0 THEN <<>>
                     ELSE <<Value(fd, item.at, Nothing)>>, out)

UnpackTimestamp ==
  LET fd == item.u.fd IN
  /\ UnpackingField("singular") /\ IsTimestamp(fd)
  /\ IF ~Has(1) THEN Fail("UnpackError")
     ELSE IF Bits(pos, 1) = 0 THEN Consume(1, <<>>, out)
     ELSE IF ~Has(1 + TsBits(fd)) THEN Fail("UnpackError")
     ELSE Consume(1 + TsBits(fd), <<>>, Store(out, fd, item.at, Bits(pos + 1, TsBits(fd))))

UnpackMessage ==
  LET fd == item.u.fd IN
  /\ UnpackingField("singular") /\ IsMessage(fd)
  /\ IF ~Has(1) THEN Fail("UnpackError")
     ELSE IF Bits(pos, 1) = 0 THEN Consume(1, <<>>, out)
     ELSE IF ~ValidMessage(Descriptor[fd.type])
     THEN FailWith("ValidationError", Store(out, fd, item.at, Present))
     ELSE Consume(1, UnitItems(fd.type, item.at), Store(out, fd, item.at, Present))

(* A list of messages looks its schema up before its first element. *)
UnpackList ==
  LET fd == item.u.fd
      n == Bits(pos, fd.countBits)
  IN
  /\ UnpackingField("repeated")
  /\ IF ~Has(fd.countBits) THEN Fail("UnpackError")
     ELSE IF fd.kind = "message" /\ ~ValidMessage(Descriptor[fd.type])
     THEN Fail("ValidationError")
     ELSE Consume(fd.countBits, [j \in 1..n |-> Value(fd, item.at, Nothing)],
                  SetAt(out, item.at, <<>>))

UnpackMap ==
  LET fd == item.u.fd
      n == Bits(pos, fd.countBits)
  IN
  /\ UnpackingField("map")
  /\ IF ~Has(fd.countBits) THEN Fail("UnpackError")
     ELSE Consume(fd.countBits, [j \in 1..n |-> Value(fd, item.at, Nothing)],
                  SetAt(out, item.at, {}))

UnpackOneof ==
  LET u == item.u
      n == Bits(pos, u.selectorBits)
  IN
  /\ Unpacking("unit") /\ u.unit = "oneof"
  /\ IF ~Has(u.selectorBits) \/ n > Len(u.fields) THEN Fail("UnpackError")
     ELSE Consume(u.selectorBits,
                  IF n = 0 THEN <<>>
                  ELSE <<Value(u.fields[n], Append(item.at, n), Nothing)>>, out)

UnpackValue ==
  LET fd == item.u IN
  /\ Unpacking("value") /\ fd.kind # "message" /\ fd.card # "map"
  /\ IF ScalarEnd(fd, pos) > Len(data) THEN Fail("UnpackError")
     ELSE Consume(ScalarEnd(fd, pos) - pos, <<>>,
                  Store(out, fd, item.at, ScalarAt(fd, pos)))

(* decodeMapKey, then decodeScalar of the value, which refuses a message. *)
UnpackEntry ==
  LET fd == item.u
      mid == KeyEnd(fd, pos)
  IN
  /\ Unpacking("value") /\ fd.card = "map"
  /\ IF mid > Len(data) \/ fd.kind = "message" THEN Fail("UnpackError")
     ELSE IF ScalarEnd(fd, mid) > Len(data) THEN Fail("UnpackError")
     ELSE Consume(ScalarEnd(fd, mid) - pos, <<>>,
                  Store(out, fd, item.at, <<KeyAt(fd, pos), ScalarAt(fd, mid)>>))

(* The message of a oneof is set before it is decoded; UnpackList has      *)
(* looked at the schema of an element already.                             *)
UnpackNested ==
  LET fd == item.u
      units == UnitItems(fd.type, PlaceOf(out, fd, item.at))
  IN
  /\ Unpacking("value") /\ fd.kind = "message" /\ fd.card # "map"
  /\ IF fd.card = "repeated" THEN Consume(0, Append(units, ElementEnd(fd, item.at)), out)
     ELSE IF ~ValidMessage(Descriptor[fd.type])
     THEN FailWith("ValidationError", Store(out, fd, item.at, Present))
     ELSE Consume(0, units, Store(out, fd, item.at, Present))

(* An element that is a message joins its list once it is decoded. *)
UnpackElementEnd ==
  /\ Unpacking("append")
  /\ out' = Store(out, item.u, item.at, Present)
  /\ work' = Tail(work)
  /\ UNCHANGED <<phase, root, strategy, packVars, data, pos, step>>

(* mutant: units that are missing at the end keep their defaults *)
FinishUnpackAtEnd == /\ phase = "unpacking"
                     /\ work = <<>> \/ (item.op = "unit" /\ pos = Len(data))
                     /\ phase' = "unpacked"
                     /\ UNCHANGED <<root, strategy, work, packVars, unpackVars>>

FinishUnpack == /\ phase = "unpacking" /\ work = <<>>
                /\ phase' = "unpacked"
                /\ UNCHANGED <<root, strategy, work, packVars, unpackVars>>

Unpack == \/ UnpackScalar \/ UnpackTimestamp \/ UnpackMessage \/ UnpackList
          \/ UnpackMap \/ UnpackOneof \/ UnpackValue \/ UnpackEntry \/ UnpackNested
          \/ UnpackElementEnd

Next == StartPack \/ Pack \/ Deliver \/ Unpack \/ FinishUnpack

Spec == Init /\ [][Next]_vars

-----------------------------------------------------------------------------
(* The keys of maps fit their widths, which the encoder does not check. *)
KeyFits(fd, k) == CASE fd.key = "bytes" -> Len(k) <= MaxOf(fd.keyLengthBits)
                    [] fd.key = "bool" -> TRUE
                    [] fd.key = "int" -> k <= MaxOf(fd.keyBits)

KeysFit ==
  \A t \in DOMAIN Descriptor : \A i \in 1..Len(Descriptor[t].fields) :
    LET fd == Descriptor[t].fields[i]
    IN fd.card = "map" => \A k \in KeysOf(fd) : KeyFits(fd, k)

Whole == Len(data) >= Len(bits)

(* At every item the decoder comes to, it stands at the bit where the      *)
(* encoder began that item and expects the very same item: the stream has  *)
(* no tags, so one bit too many or too few would turn all that follows     *)
(* into something else.                                                    *)
InStep ==
  phase = "unpacking" =>
    /\ work # <<>> /\ item.op # "append" =>
         /\ step < Len(marks)
         /\ LET m == marks[step + 1]
            IN item.op = m.op /\ item.u = m.u /\ item.at = m.at /\ pos = m.pos
    /\ work = <<>> => step = Len(marks) /\ pos = Len(bits)

(* What was packed and delivered whole is unpacked as it was written:      *)
(* presence, selected members, elements in order, and entries.             *)
RoundTrip == phase = "unpacked" => out = kept

(* A stream that lost a byte that carries a bit of the message is refused, *)
(* never read as another message.                                          *)
TruncationDetected == phase = "unpacked" => Whole

(* An entry of a map whose value is a message: decodeScalar has no case    *)
(* for it.                                                                 *)
EntryIsMessage(it) == it.op = "value" /\ it.u.card = "map" /\ it.u.kind = "message"

(* A list of messages whose schema is refused: the encoder looks it up for *)
(* each element, the decoder before the first.                             *)
ListIsInvalid(it) ==
  /\ it.op = "unit" /\ it.u.unit = "field"
  /\ it.u.fd.card = "repeated" /\ it.u.fd.kind = "message"
  /\ ~ValidMessage(Descriptor[it.u.fd.type])

(* A stream that lost nothing is accepted, but for the two kinds of item   *)
(* that Pack writes and Unpack does not take: an entry whose value is a    *)
(* message is an UnpackError, an empty list of messages without a valid    *)
(* schema (Timestamps, for one) a ValidationError.  Unpack returns no       *)
(* other error, and none but for such an item; and it never returns a      *)
(* message in which there was one.                                         *)
IntactAccepted ==
  [][phase = "unpacking" /\ Whole =>
       /\ phase' = "UnpackError" => EntryIsMessage(item)
       /\ phase' = "ValidationError" =>
            ListIsInvalid(item) /\ Bits(pos, item.u.fd.countBits) = 0
       /\ phase' = "unpacked" =>
            \A j \in 1..Len(marks) : ~EntryIsMessage(marks[j]) /\ ~ListIsInvalid(marks[j])]_vars

(* The field whose value a place holds. *)
FieldAt(at) ==
  LET j == CHOOSE n \in 1..Len(marks) :
             marks[n].at = at /\ (marks[n].op = "value" \/ marks[n].u.unit = "field")
  IN IF marks[j].op = "value" THEN marks[j].u ELSE marks[j].u.fd

(* At any time, an error included, the caller's message holds nothing but  *)
(* parts of what was packed: values as written, a prefix of a list's       *)
(* elements, entries of a map.                                             *)
PartialIsPart ==
  \A at \in DOMAIN out :
    /\ at \in DOMAIN kept
    /\ CASE FieldAt(at).card = "repeated" -> IsPrefix(out[at], kept[at])
         [] FieldAt(at).card = "map" -> out[at] \subseteq kept[at]
         [] OTHER -> out[at] = kept[at]

-----------------------------------------------------------------------------
(* What the README documents: "Strategy semantics", read row by row.       *)

(* A field's annotation overrides the strategy of Pack. *)
DocStrategy(fd) == CASE fd.overflow = "UNSPECIFIED" -> strategy
                     [] OTHER -> fd.overflow

DocCrop(s, max, st) == IF Len(s) <= max \/ st = "ERROR" THEN s
                       ELSE CASE st = "MODULO" -> KeepFirst(s, Len(s) % max)
                              [] st = "CROP_LEFT" -> KeepLast(s, max)
                              [] st \in {"CLAMP", "CROP_RIGHT"} -> KeepFirst(s, max)

DocInt(v, max, st) == IF v <= max \/ st = "ERROR" THEN v
                      ELSE IF st = "MODULO" THEN v % (max + 1) ELSE max

DocValue(fd, v) ==
  CASE fd.kind \in {"int", "enum"} -> DocInt(v, MaxOf(fd.bits), DocStrategy(fd))
    [] fd.kind = "bytes" -> DocCrop(v, MaxOf(fd.lengthBits), DocStrategy(fd))
    [] OTHER -> v

DocList(fd, s) ==
  LET c == DocCrop(s, MaxOf(fd.countBits), DocStrategy(fd))
  IN [j \in 1..Len(c) |-> DocValue(fd, c[j])]

DocMapSize(fd, n) == Len(DocCrop([j \in 1..n |-> j], MaxOf(fd.countBits), DocStrategy(fd)))

(* For counts, the table and the code disagree on OverflowModulo. *)
CountIsClear(fd, n) == n <= MaxOf(fd.countBits) \/ DocStrategy(fd) # "MODULO"

(* A value of a map is described by a descriptor of its own, which does    *)
(* not carry the override of the map field.                                *)
DocEntry(fd, e) == <<e[1], DocValue(MapValue(fd), e[2])>>

(* What the encoder keeps of each value, list and map is what the README's *)
(* table says of its strategy, but for counts under OverflowModulo; with   *)
(* OverflowError, everything.                                              *)
KeptAsDocumented ==
  phase = "unpacking" =>
    \A at \in DOMAIN raw :
      LET fd == FieldAt(at) IN
      CASE IsTimestamp(fd) -> kept[at] = raw[at]
        [] fd.card = "repeated" ->
             CountIsClear(fd, Len(raw[at])) => kept[at] = DocList(fd, raw[at])
        [] fd.card = "map" /\ fd.kind # "message" ->
             /\ kept[at] \subseteq {DocEntry(fd, e) : e \in raw[at]}
             /\ CountIsClear(fd, Cardinality(raw[at])) =>
                  Cardinality(kept[at]) = DocMapSize(fd, Cardinality(raw[at]))
        [] fd.card = "singular" /\ ~IsTimestamp(fd) -> kept[at] = DocValue(fd, raw[at])
        [] OTHER -> TRUE

(* "Returns *PackError if a value is out of range and strategy is          *)
(* OverflowError" (packer.go): with that strategy, a message that packs is *)
(* unpacked with every value it had.                                       *)
ErrorStrategyLosesNothing ==
  strategy = "ERROR" /\ Whole =>
    /\ phase # "UnpackError"
    /\ phase = "unpacked" => out = raw

(* A Pack that fails on a value fails because the strategy of that field,  *)
(* its override if it has one, is OverflowError; for a value of a map, the *)
(* strategy of Pack.                                                       *)
PackErrorOnlyIfAsked ==
  [][phase' = "PackError" =>
       LET fd == IF item.op = "value" THEN item.u ELSE item.u.fd
       IN \/ DocStrategy(fd) = "ERROR"
          \/ item.op = "value" /\ fd.card = "map" /\ strategy = "ERROR"]_vars
=============================================================================
