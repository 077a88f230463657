--------------------------- MODULE MCMessageCodec ---------------------------
(* Message types that between them have every kind of unit; bytes of two    *)
(* bits, so that a stream can be cut within almost every item.              *)
EXTENDS MessageCodec

CONSTANTS choice, optional

Blank == [number |-> 1, oneof |-> NoOneof, synthetic |-> FALSE, card |-> "singular",
          kind |-> "int", key |-> "int", type |-> "none", bits |-> 0, lengthBits |-> 0,
          countBits |-> 0, keyBits |-> 0, keyLengthBits |-> 0, scale |-> "none",
          rolling |-> FALSE, forwardOnly |-> FALSE, epoch |-> 0, overflow |-> "UNSPECIFIED"]

Int2 == [Blank EXCEPT !.bits = 2]
Bool == [Blank EXCEPT !.kind = "bool"]
Str1 == [Blank EXCEPT !.kind = "bytes", !.lengthBits = 1]
Msg(t) == [Blank EXCEPT !.kind = "message", !.type = t]
Opt(fd) == [fd EXCEPT !.oneof = optional, !.synthetic = TRUE]
Of(fd) == [fd EXCEPT !.oneof = choice]
List(fd, n) == [fd EXCEPT !.card = "repeated", !.countBits = n]
IntMap(fd) == [fd EXCEPT !.card = "map", !.countBits = 1, !.keyBits = 2]
StrMap(fd) == [fd EXCEPT !.card = "map", !.countBits = 1, !.key = "bytes",
                         !.keyLengthBits = 1]
BoolMap(fd) == [fd EXCEPT !.card = "map", !.countBits = 2, !.key = "bool", !.keyBits = 3]
Override(fd, s) == [fd EXCEPT !.overflow = s]

Message(fields) == [fields |-> fields, selectorBits |-> (choice :> 0)]

MCDescriptor ==
  Timestamp :> Message(<<Blank, Blank>>) @@
  "Scalars" :> Message(<<Opt(Bool), Int2, [Msg(Timestamp) EXCEPT !.bits = 2], Str1>>) @@
  "Node" :> Message(<<Bool, Opt(Msg("Node"))>>) @@
  "Choice" :> Message(<<Of(Int2), Opt(Int2), Of(Msg("Node")), Of(Str1), Msg("Node")>>) @@
  "Lists" :> Message(<<List(Bool, 1), List(Msg("Node"), 2)>>) @@
  "Maps" :> Message(<<IntMap(Str1), Bool, StrMap(Bool)>>) @@
  "Flags" :> Message(<<BoolMap(Int2), Bool>>) @@
  "Numbers" :> Message(<<[Blank EXCEPT !.bits = 1], Override(Int2, "CLAMP"), Str1>>) @@
  "Cropped" :> Message(<<Override(List(Str1, 1), "CROP_LEFT"),
                         Override(List([Blank EXCEPT !.bits = 1], 1), "CLAMP")>>) @@
  "Entries" :> Message(<<Override(IntMap([Blank EXCEPT !.bits = 1]), "CROP_RIGHT")>>) @@
  "Limited" :> Message(<<Override(IntMap(Bool), "CROP_RIGHT"), Bool>>) @@
  "Repeated" :> Message(<<List(Bool, 1)>>) @@
  "MessageMap" :> Message(<<IntMap(Msg("Node"))>>) @@
  "Stamps" :> Message(<<List(Msg(Timestamp), 1)>>) @@
  "Broken" :> Message(<<Blank>>) @@
  "Outer" :> Message(<<Opt(Bool), Msg("Broken")>>)

MCStrings == {<<>>, <<1>>, <<1, 2>>, <<3, 2, 1>>}
MCStringKeys == {<<>>, <<2>>}
=============================================================================
