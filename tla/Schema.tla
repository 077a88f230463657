-------------------------------- MODULE Schema ------------------------------
(***************************************************************************)
(* Message descriptors with their bitpacker annotations, and the encoding  *)
(* plan the Go packer makes of them (bitpacker/schema.go).                 *)
(*                                                                         *)
(* A descriptor is a record: fields, the sequence of its fields as they    *)
(* are declared, and selectorBits, the annotation of each of its oneofs.   *)
(* A field has a number, the oneof it belongs to (NoOneof, or one that is  *)
(* synthetic when the field is a proto3 optional), a cardinality, the kind *)
(* of its values (and of its keys when it is a map), the type of a message *)
(* value, and its annotations (0, FALSE, "none" or "UNSPECIFIED" when       *)
(* absent).  "int" stands for all integers, "bytes" for string and bytes.   *)
(***************************************************************************)
EXTENDS Integers, Sequences, FiniteSets

CONSTANTS NoOneof,    \* not in a oneof
          Timestamp   \* the type google.protobuf.Timestamp

RealOneof(fd) == fd.oneof # NoOneof /\ ~fd.synthetic

(* The strategies of Pack; a field that has none of its own is UNSPECIFIED. *)
Strategies == {"ERROR", "MODULO", "CLAMP", "CROP_LEFT", "CROP_RIGHT"}

(* What a field declares, where no value is a float.  A member of a oneof   *)
(* is neither repeated nor a map.                                          *)
IsField(fd) ==
  /\ {"card", "kind", "bits", "lengthBits", "overflow"} \subseteq DOMAIN fd
  /\ fd.card \in {"singular", "repeated", "map"}
  /\ fd.kind \in {"bool", "int", "enum", "bytes", "message"}
  /\ fd.key \in {"bool", "int", "bytes"}
  /\ fd.overflow \in Strategies \cup {"UNSPECIFIED"}
  /\ {fd.bits, fd.lengthBits, fd.countBits, fd.keyBits, fd.keyLengthBits} \subseteq Nat
  /\ RealOneof(fd) => fd.card = "singular"

IsOptional(fd) == fd.oneof # NoOneof /\ fd.synthetic /\ fd.kind # "message"
IsTimestamp(fd) == fd.kind = "message" /\ fd.card = "singular" /\ fd.type = Timestamp
IsMessage(fd) == fd.kind = "message" /\ fd.card = "singular" /\ fd.type # Timestamp

(* mutant: no number is kept for "none" *)
MinSelectorBitsNoNone(n) == CHOOSE b \in 1..(n + 1) :
                              2 ^ b >= n /\ \A c \in 1..(b - 1) : 2 ^ c < n

(* The smallest width whose values, but one for "none", number n fields. *)
MinSelectorBits(n) == CHOOSE b \in 1..(n + 1) :
                        2 ^ b > n /\ \A c \in 1..(b - 1) : 2 ^ c <= n

(* The widths of a fraction: scale is the annotation fixed or ufixed,      *)
(* "none" or "both" of them.                                               *)
ValidFraction(fd, maxBits, widths) ==
  IF fd.scale = "none" THEN fd.bits \in widths
  ELSE fd.scale # "both" /\ fd.bits \in 1..maxBits

ValidTimestamp(fd) == /\ fd.scale = "none"
                      /\ fd.lengthBits = 0 /\ fd.countBits = 0
                      /\ fd.bits <= 64
                      /\ fd.rolling => ~fd.forwardOnly /\ fd.epoch = 0

(* validateScalarUnit *)
ValidUnit(fd) ==
  /\ fd.card \in {"repeated", "map"} => fd.countBits > 0
  /\ fd.card = "map" => IF fd.key = "bytes" THEN fd.keyLengthBits > 0 ELSE fd.keyBits > 0
  /\ fd.kind = "bool" => fd.bits \in {0, 1}
  /\ fd.kind \in {"int", "enum"} => fd.bits > 0
  /\ fd.kind = "float" => ValidFraction(fd, 32, {0, 16, 32})
  /\ fd.kind = "double" => ValidFraction(fd, 64, {0, 16, 32, 64})
  /\ fd.kind = "bytes" => fd.lengthBits > 0
  /\ IsTimestamp(fd) => ValidTimestamp(fd)

(* The numbers of a set in ascending order: the k-th has k - 1 before it. *)
InOrder(S) == [k \in 1..Cardinality(S) |->
                 CHOOSE i \in S : Cardinality({j \in S : j < i}) = k - 1]

(* The members of a oneof, in declaration order. *)
Members(md, od) ==
  LET members == InOrder({i \in 1..Len(md.fields) : RealOneof(md.fields[i])
                                                   /\ md.fields[i].oneof = od})
  IN [k \in 1..Len(members) |-> md.fields[members[k]]]

SelectorBits(md, od) ==
  IF md.selectorBits[od] = 0 THEN MinSelectorBits(Len(Members(md, od)))
  ELSE md.selectorBits[od]

ValidOneof(md, od) ==
  /\ SelectorBits(md, od) >= MinSelectorBits(Len(Members(md, od)))
  /\ \A j \in 1..Len(Members(md, od)) : ValidUnit(Members(md, od)[j])

OneofUnit(md, od) == [unit |-> "oneof", selectorBits |-> SelectorBits(md, od),
                      fields |-> Members(md, od)]
ScalarUnit(fd) == [unit |-> "field", fd |-> fd]

(* The unit that field i starts. *)
UnitAt(md, i) == LET fd == md.fields[i]
                 IN IF RealOneof(fd) THEN OneofUnit(md, fd.oneof) ELSE ScalarUnit(fd)

(* Every field outside a oneof starts a unit; so does the first of a oneof. *)
StartsUnit(md, i) ==
  RealOneof(md.fields[i]) =>
    \A j \in 1..(i - 1) : ~(RealOneof(md.fields[j]) /\ md.fields[j].oneof = md.fields[i].oneof)

ValidField(md, i) == LET fd == md.fields[i]
                     IN IF RealOneof(fd) THEN ValidOneof(md, fd.oneof) ELSE ValidUnit(fd)

ValidMessage(md) == \A i \in 1..Len(md.fields) : ValidField(md, i)

(* The plan of the first n fields. *)
PlanOf(md, n) ==
  LET starts == InOrder({i \in 1..n : StartsUnit(md, i)})
  IN [k \in 1..Len(starts) |-> UnitAt(md, starts[k])]

Plan(md) == PlanOf(md, Len(md.fields))
=============================================================================
