------------------------------ MODULE MCCCoder ------------------------------
(* Message types a C struct can embed, and one with a map; strings and     *)
(* lists that fit a count of two bits, and lists that do not.              *)
EXTENDS MCMessageCodec, CCoder

MCCDescriptor ==
  Timestamp :> Message(<<Blank, Blank>>) @@
  "Scalars" :> Message(<<Opt(Bool), Int2, [Msg(Timestamp) EXCEPT !.bits = 3], Opt(Str1)>>) @@
  "Empty" :> Message(<<>>) @@
  "Leaf" :> Message(<<Opt(Bool)>>) @@
  "Tree" :> Message(<<Msg("Empty"), Msg("Leaf")>>) @@
  "Choice" :> Message(<<Of(Int2), Opt(Bool), Of(Msg("Leaf")), Of(Str1), Msg("Tree"),
                        Of(Msg("Empty"))>>) @@
  "Words" :> Message(<<List(Str1, 1), Bool>>) @@
  "Leaves" :> Message(<<List(Msg("Leaf"), 2), List(Msg("Empty"), 1)>>) @@
  "Wide" :> Message(<<List(Bool, 3), [Str1 EXCEPT !.lengthBits = 3]>>) @@
  "Mapped" :> Message(<<BoolMap(Bool), Of(Bool), Of(Str1), Of(Int2), Opt(Str1)>>)

MCCStrings == {<<>>, <<1>>, <<2, 3, 0, 1>>}

(* An earlier message of the type: everything present, lists full, the     *)
(* last member of each oneof, strings of one byte.                         *)
RECURSIVE OldUnits(_, _)
OldValue(fd, at) ==
  CASE fd.kind = "bytes" -> (at :> <<3>>) @@ (Length(at) :> 1)
    [] IsTimestamp(fd) -> at :> 1
    [] fd.kind = "message" -> (at :> Present) @@ OldUnits(fd.type, at)
    [] OTHER -> at :> 1
OldUnit(u, at) ==
  LET old(kind, n) == Flag(at) :> [kind |-> kind, n |-> n] IN
  CASE u.unit = "oneof" ->
         LET n == Len(u.fields)
         IN old("which", n) @@
            FoldFunction(LAMBDA f, m : f @@ m, Nothing,
                         [j \in 1..n |-> OldValue(u.fields[j], Append(at, j))])
    [] u.fd.card = "map" -> Nothing
    [] u.fd.card = "repeated" ->
         LET n == MaxOf(IF u.fd.countBits > CountWidth THEN CountWidth ELSE u.fd.countBits)
         IN old("count", n) @@
            FoldFunction(LAMBDA f, m : f @@ m, Nothing,
                         [j \in 1..n |-> OldValue(u.fd, Append(at, j))])
    [] u.fd.kind = "message" \/ IsOptional(u.fd) -> old("has", 1) @@ OldValue(u.fd, at)
    [] OTHER -> OldValue(u.fd, at)
OldUnits(type, at) ==
  LET plan == Plan(Descriptor[type])
  IN FoldFunction(LAMBDA f, m : f @@ m, Nothing,
                  [k \in 1..Len(plan) |-> OldUnit(plan[k], Append(at, k))])

MCStale == [type \in Roots |-> OldUnits(type, <<>>)]
=============================================================================
