------------------------------- MODULE CCoder -------------------------------
(***************************************************************************)
(* The C functions that protoc-gen-bitpacker-c emits for a message          *)
(* (emitDecode*, emitEncode* of generator.go), fed by the Go packer: a      *)
(* message is packed in Go, delivered, decoded into a C struct that may     *)
(* hold an earlier message, and encoded again from that struct.             *)
(*                                                                         *)
(* The struct maps places to what they store: a value (or the mark of an    *)
(* embedded struct) at its own place, has_x, x_count or which_x at place 0  *)
(* below x, and the length of a string at place -1 below it.  A place that  *)
(* was never stored is zero.  CStream has the bit buffer, CScalars the      *)
(* integers.  The members of a oneof share a union; here each has a place,  *)
(* as only the selected one is read.  Types are those a struct can embed:  *)
(* not recursive, and every nested type annotated.                         *)
(***************************************************************************)
EXTENDS MessageCodec

CONSTANTS CountWidth,  \* bits of the uint16_t of a count or a length
          StaleStruct  \* message type -> what its struct may hold before

ASSUME CountAssumption == CountWidth \in Nat

VARIABLES cmsg,   \* the struct
          echo,   \* the bits encoded from it
          room,   \* bits of the buffer they are encoded into
          cut     \* ghost: a count or a length did not fit its uint16_t

cVars == <<cmsg, echo, room, cut>>
allVars == <<vars, cVars>>

Flag(at) == Append(at, 0)
Length(at) == Append(at, -1)

(* What a place of the struct holds, zero if nothing was stored there. *)
Stored(at, zero) == IF at \in DOMAIN cmsg THEN cmsg[at] ELSE zero
FlagAt(at) == Stored(Flag(at), [kind |-> "has", n |-> 0]).n
BytesStored(at) == [j \in 1..Stored(Length(at), 0) |-> Stored(at, <<>>)[j]]

With(at, v) == SetAt(cmsg, at, v)
WithFlag(at, kind, n) == With(Flag(at), [kind |-> kind, n |-> n])

(* (uint16_t)_v of the next bits *)
Short(n) == n % 2 ^ CountWidth
CutShort(width) == cut' = (cut \/ (Has(width) /\ Bits(pos, width) >= 2 ^ CountWidth))

(* collectUnits: the units of AnalyzeMessage, in their order. *)
CUnits(type, at) == UnitItems(type, at)

CInit == /\ Init
         /\ cmsg \in {Nothing, StaleStruct[root]}
         /\ echo = <<>> /\ room = 0 /\ cut = FALSE

-----------------------------------------------------------------------------
(* bp_decode_T: each request for bits is refused as a whole.               *)

Decoding(op) == phase = "decoding" /\ work # <<>> /\ item.op = op
DecodingField(card) == /\ Decoding("unit") /\ item.u.unit = "field"
                       /\ item.u.fd.card = card

(* The item took n bits; more is what it leaves to decode. *)
Take(n, more, msg) ==
  /\ pos' = pos + n
  /\ work' = more \o Tail(work)
  /\ cmsg' = msg
  /\ step' = step + 1
  /\ UNCHANGED <<phase, root, strategy, packVars, data, out, echo, room>>

(* return -1, with what has been stored so far *)
Refuse(msg) == /\ phase' = "DecodeError"
               /\ work' = <<>>
               /\ cmsg' = msg
               /\ UNCHANGED <<root, strategy, packVars, unpackVars, echo, room>>

DecodeScalar ==
  LET fd == item.u.fd
      value == <<Value(fd, item.at, Nothing)>>
  IN
  /\ DecodingField("singular") /\ fd.kind # "message"
  /\ IF ~IsOptional(fd) THEN Take(0, value, cmsg)
     ELSE IF ~Has(1) THEN Refuse(cmsg)
     ELSE Take(1, IF Bits(pos, 1) = 1 THEN value ELSE <<>>,
               WithFlag(item.at, "has", Bits(pos, 1)))

DecodeTimestamp ==
  LET fd == item.u.fd
      flagged == WithFlag(item.at, "has", Bits(pos, 1))
  IN
  /\ DecodingField("singular") /\ IsTimestamp(fd)
  /\ IF ~Has(1) THEN Refuse(cmsg)
     ELSE IF Bits(pos, 1) = 0 THEN Take(1, <<>>, flagged)
     ELSE IF ~Has(1 + TsBits(fd)) THEN Refuse(flagged)
     ELSE Take(1 + TsBits(fd), <<>>, SetAt(flagged, item.at, Bits(pos + 1, TsBits(fd))))

(* mutant: the nested struct is decoded whether it is there or not *)
DecodeMessageAlways ==
  LET fd == item.u.fd IN
  /\ DecodingField("singular") /\ IsMessage(fd)
  /\ IF ~Has(1) THEN Refuse(cmsg)
     ELSE Take(1, CUnits(fd.type, item.at),
               SetAt(WithFlag(item.at, "has", Bits(pos, 1)), item.at, Present))

DecodeMessage ==
  LET fd == item.u.fd
      flagged == WithFlag(item.at, "has", Bits(pos, 1))
  IN
  /\ DecodingField("singular") /\ IsMessage(fd)
  /\ IF ~Has(1) THEN Refuse(cmsg)
     ELSE IF Bits(pos, 1) = 0 THEN Take(1, <<>>, flagged)
     ELSE Take(1, CUnits(fd.type, item.at), SetAt(flagged, item.at, Present))

DecodeList ==
  LET fd == item.u.fd
      n == Short(Bits(pos, fd.countBits))
  IN
  /\ DecodingField("repeated")
  /\ CutShort(fd.countBits)
  /\ IF ~Has(fd.countBits) THEN Refuse(cmsg)
     ELSE Take(fd.countBits, [j \in 1..n |-> Value(fd, Append(item.at, j), Nothing)],
               WithFlag(item.at, "count", n))

(* Maps are left out of the struct and of the stream. *)
SkipMap == DecodingField("map") /\ Take(0, <<>>, cmsg)

DecodeOneof ==
  LET u == item.u
      n == Bits(pos, u.selectorBits)
      flagged == WithFlag(item.at, "which", n)
  IN
  /\ Decoding("unit") /\ u.unit = "oneof"
  /\ IF ~Has(u.selectorBits) THEN Refuse(cmsg)
     ELSE IF n > Len(u.fields) THEN Refuse(flagged)
     ELSE Take(u.selectorBits,
               IF n = 0 THEN <<>>
               ELSE <<Value(u.fields[n], Append(item.at, n), Nothing)>>, flagged)

DecodeValue ==
  LET fd == item.u IN
  /\ Decoding("value") /\ fd.kind \notin {"bytes", "message"}
  /\ IF ScalarEnd(fd, pos) > Len(data) THEN Refuse(cmsg)
     ELSE Take(ScalarEnd(fd, pos) - pos, <<>>, With(item.at, ScalarAt(fd, pos)))

(* The bytes read go over the first ones of the array. *)
Overwritten(at, s) ==
  LET old == Stored(at, <<>>)
  IN With(at, [j \in DOMAIN s \cup DOMAIN old |-> IF j \in DOMAIN s THEN s[j] ELSE old[j]])

(* mutant: the length of the string before it is kept *)
WithBytesOnly(at, s, n) == Overwritten(at, s)

WithBytes(at, s, n) == SetAt(Overwritten(at, s), Length(at), n)

(* The length is at most what its own width allows, which is what the code *)
(* compares it with; it is stored before the bytes are read one by one.     *)
DecodeBytes ==
  LET fd == item.u
      n == Short(Bits(pos, fd.lengthBits))
      start == pos + fd.lengthBits
      bytes(k) == [j \in 1..k |-> Bits(start + (j - 1) * ByteSize, ByteSize)]
  IN
  /\ Decoding("value") /\ fd.kind = "bytes"
  /\ CutShort(fd.lengthBits)
  /\ IF ~Has(fd.lengthBits) THEN Refuse(cmsg)
     ELSE IF ~Has(fd.lengthBits + n * ByteSize)
     THEN Refuse(WithBytes(item.at, bytes((Len(data) - start) \div ByteSize), n))
     ELSE Take(fd.lengthBits + n * ByteSize, <<>>, WithBytes(item.at, bytes(n), n))

(* An element or a member of a oneof that is a message: no presence bit.   *)
DecodeNested ==
  /\ Decoding("value") /\ item.u.kind = "message"
  /\ Take(0, CUnits(item.u.type, item.at), With(item.at, Present))

Decode == \/ DecodeList \/ DecodeBytes
          \/ /\ \/ DecodeScalar \/ DecodeTimestamp \/ DecodeMessage \/ SkipMap
                \/ DecodeOneof \/ DecodeValue \/ DecodeNested
             /\ UNCHANGED cut

(* The struct is encoded again, into a buffer of the size of the one it    *)
(* came in, or a byte less.                                                *)
FinishDecode ==
  /\ phase = "decoding" /\ work = <<>>
  /\ phase' = "encoding"
  /\ work' = CUnits(root, <<>>)
  /\ room' \in {n \in {Len(data) - ByteSize, Len(data)} : n >= 0}
  /\ UNCHANGED <<root, strategy, packVars, unpackVars, cmsg, echo, cut>>

-----------------------------------------------------------------------------
(* bp_encode_T *)

Encoding(op) == phase = "encoding" /\ work # <<>> /\ item.op = op
EncodingField(card) == /\ Encoding("unit") /\ item.u.unit = "field"
                       /\ item.u.fd.card = card

(* The item is encoded as b, if the buffer has room for it; what was       *)
(* written before a refusal is not handed over.                            *)
Write(b, more) ==
  /\ IF Len(echo) + Len(b) > room
     THEN /\ phase' = "EncodeError" /\ work' = <<>>
          /\ UNCHANGED echo
     ELSE /\ echo' = echo \o b
          /\ work' = more \o Tail(work)
          /\ UNCHANGED phase
  /\ UNCHANGED <<root, strategy, packVars, unpackVars, cmsg, room, cut>>

(* mutant: an absent optional is written all the same *)
EncodeScalarAlways ==
  LET fd == item.u.fd IN
  /\ EncodingField("singular") /\ fd.kind # "message"
  /\ Write(IF IsOptional(fd) THEN <<FlagAt(item.at)>> ELSE <<>>,
           <<Value(fd, item.at, Nothing)>>)

EncodeScalar ==
  LET fd == item.u.fd IN
  /\ EncodingField("singular") /\ fd.kind # "message"
  /\ Write(IF IsOptional(fd) THEN <<FlagAt(item.at)>> ELSE <<>>,
           IF IsOptional(fd) /\ FlagAt(item.at) = 0 THEN <<>>
           ELSE <<Value(fd, item.at, Nothing)>>)

EncodeTimestamp ==
  LET fd == item.u.fd IN
  /\ EncodingField("singular") /\ IsTimestamp(fd)
  /\ Write(<<FlagAt(item.at)>> \o
           IF FlagAt(item.at) = 0 THEN <<>> ELSE LowBits(Stored(item.at, 0), TsBits(fd)),
           <<>>)

EncodeMessage ==
  LET fd == item.u.fd IN
  /\ EncodingField("singular") /\ IsMessage(fd)
  /\ Write(<<FlagAt(item.at)>>,
           IF FlagAt(item.at) = 0 THEN <<>> ELSE CUnits(fd.type, item.at))

EncodeList ==
  LET fd == item.u.fd
      n == FlagAt(item.at)
  IN
  /\ EncodingField("repeated")
  /\ Write(LowBits(n, fd.countBits),
           [j \in 1..n |-> Value(fd, Append(item.at, j), Nothing)])

SkipMapAgain == EncodingField("map") /\ Write(<<>>, <<>>)

EncodeOneof ==
  LET u == item.u
      n == FlagAt(item.at)
  IN
  /\ Encoding("unit") /\ u.unit = "oneof"
  /\ Write(LowBits(n, u.selectorBits),
           IF n \in 1..Len(u.fields)
           THEN <<Value(u.fields[n], Append(item.at, n), Nothing)>> ELSE <<>>)

(* A value is masked to its width, never refused. *)
EncodeValue ==
  LET fd == item.u IN
  /\ Encoding("value") /\ fd.kind # "message"
  /\ Write(ScalarBits(fd, IF fd.kind = "bytes" THEN BytesStored(item.at)
                          ELSE Stored(item.at, 0)), <<>>)

EncodeNested == /\ Encoding("value") /\ item.u.kind = "message"
                /\ Write(<<>>, CUnits(item.u.type, item.at))

Encode == \/ EncodeScalar \/ EncodeTimestamp \/ EncodeMessage \/ EncodeList
          \/ SkipMapAgain \/ EncodeOneof \/ EncodeValue \/ EncodeNested

FinishEncode == /\ phase = "encoding" /\ work = <<>>
                /\ phase' = "encoded"
                /\ UNCHANGED <<root, strategy, work, packVars, unpackVars, cVars>>

-----------------------------------------------------------------------------
CNext == \/ (StartPack \/ Pack \/ DeliverTo("decoding")) /\ UNCHANGED cVars
         \/ Decode \/ FinishDecode
         \/ Encode \/ FinishEncode

CSpec == CInit /\ [][CNext]_allVars

-----------------------------------------------------------------------------
(* What C supports of the message that was packed: no maps, and no count   *)
(* or length that is cut when it is stored.                                *)
Supported ==
  /\ ~cut
  /\ \A j \in 1..Len(marks) :
       marks[j].op = "unit" /\ marks[j].u.unit = "field" => marks[j].u.fd.card # "map"

(* The list an element is in. *)
Field(it) == IF it.op = "value" /\ it.u.card = "repeated" THEN Front(it.at) ELSE it.at

(* At every item it comes to, the generated decoder stands at the bit      *)
(* where the Go packer began that very item: two implementations of one    *)
(* format without tags, generated from the schema on one side and          *)
(* interpreted on the other.                                               *)
CInStep ==
  phase = "decoding" /\ Supported =>
    /\ work # <<>> =>
         /\ step < Len(marks)
         /\ LET m == marks[step + 1]
            IN item.op = m.op /\ item.u = m.u /\ Field(item) = m.at /\ pos = m.pos
    /\ work = <<>> => step = Len(marks) /\ pos = Len(bits)

(* A place that holds a value, every has, count and which above it being   *)
(* set so that a program that follows them comes to it.                    *)
Open(flag, j) == CASE flag.kind = "has" -> flag.n = 1
                   [] flag.kind = "count" -> j <= flag.n
                   [] flag.kind = "which" -> j = flag.n
Visible(at) ==
  /\ at[Len(at)] > 0
  /\ \A i \in 1..Len(at) :
       LET flag == Flag(SubSeq(at, 1, i - 1))
       IN flag \in DOMAIN cmsg => Open(cmsg[flag], at[i])
  /\ Flag(at) \in DOMAIN cmsg => cmsg[Flag(at)].kind = "has" /\ cmsg[Flag(at)].n = 1

View == [at \in {p \in DOMAIN cmsg : Visible(p)} |->
           IF Length(at) \in DOMAIN cmsg THEN BytesStored(at) ELSE cmsg[at]]

(* The message that was packed, its lists element by element. *)
Lists == {at \in DOMAIN kept : FieldAt(at).card = "repeated"}
Packed == [at \in (DOMAIN kept \ Lists) \cup
                  UNION {{Append(l, j) : j \in 1..Len(kept[l])} : l \in Lists} |->
             IF at \in DOMAIN kept THEN kept[at] ELSE kept[Front(at)][at[Len(at)]]]

(* A C program sees in the struct the message that was packed in Go, all   *)
(* of it and nothing else, whatever an earlier message left there; it is   *)
(* refused if a byte is missing and only then.                             *)
CReadsWhatWasPacked ==
  Supported =>
    /\ phase = "DecodeError" => ~Whole
    /\ phase \in {"encoding", "encoded", "EncodeError"} => Whole /\ View = Packed

(* Whatever the decoder accepts, a stream it misreads because of a map     *)
(* included, the encoder writes again bit for bit, unless the buffer is     *)
(* too small for it: what is relayed through C is not changed.             *)
EchoIsIdentical ==
  ~cut => /\ phase = "encoded" => echo = SubSeq(data, 1, pos) /\ pos <= room
          /\ phase = "EncodeError" => pos > room
=============================================================================
