---------------------------- MODULE ScalarProofs ----------------------------
(***************************************************************************)
(* Proofs about the integers of IntCodec, the fixed-point numbers and the  *)
(* binary16 of FloatCodec and the generated C code of CScalars: for every  *)
(* size of the words, every width and every value.                         *)
(***************************************************************************)
EXTENDS CScalars, BitsProofs

LEMMA Constants ==
  /\ Half \in Nat \ {0} /\ Word \in Nat \ {0} /\ Half < Word
  /\ Kinds \subseteq Uint \cup Int2c \cup Sint \cup {"enum"}
  /\ Kinds \cap FloatKinds = {} /\ FixedKinds \cap Kinds = {} /\ "half" \notin Kinds
  <1>1. Half \in Nat \ {0} /\ Word \in Nat \ {0} /\ Half < Word
    BY WidthsAssumption
  <1>2. Kinds \subseteq Uint \cup Int2c \cup Sint \cup {"enum"}
    BY KindsAssumption DEF Uint, Int2c, Sint
  <1>3. Kinds \cap FloatKinds = {}
    BY KindsAssumption, FloatKindsAssumption
  <1>4. "half" \notin Kinds
    BY KindsAssumption
  <1> QED BY <1>1, <1>2, <1>3, <1>4 DEF FixedKinds

-----------------------------------------------------------------------------
(* The conversions. *)

LEMMA SignedIs ==
  ASSUME NEW x, NEW n
  PROVE  /\ ToSigned(x, n) = Twos(x, n)
         /\ MinSigned(n)..MaxSigned(n) = SignedRange(n)
  BY DEF ToSigned, Twos, ToUnsigned, MinSigned, MaxSigned, SignedRange

LEMMA ToUnsignedRange ==
  ASSUME NEW x \in Int, NEW n \in Nat
  PROVE  ToUnsigned(x, n) \in 0..(2 ^ n - 1) /\ ToUnsigned(x, n) \in Int
  BY PowerPositive, ModRange DEF ToUnsigned

LEMMA ToUnsignedId ==
  ASSUME NEW n \in Nat, NEW x \in 0..(2 ^ n - 1)
  PROVE  ToUnsigned(x, n) = x
  BY PowerPositive, ModId DEF ToUnsigned

LEMMA ToUnsignedNarrow ==
  ASSUME NEW x \in Int, NEW a \in Nat, NEW b \in Nat, a <= b
  PROVE  ToUnsigned(ToUnsigned(x, b), a) = ToUnsigned(x, a)
  BY LowBitsOfLowBits DEF ToUnsigned

(* A number with the low bits of one in range is read as that one. *)
LEMMA ToSignedIs ==
  ASSUME NEW n \in Nat \ {0}, NEW x \in Int, NEW y \in SignedRange(n),
         ToUnsigned(x, n) = ToUnsigned(y, n)
  PROVE  ToSigned(x, n) = y
  <1>1. Twos(x, n) = y
    BY TwosIs DEF ToUnsigned
  <1> QED BY <1>1, SignedIs

LEMMA ToSignedKeepsBits ==
  ASSUME NEW x \in Int, NEW n \in Nat \ {0}
  PROVE  /\ ToSigned(x, n) \in SignedRange(n) /\ ToSigned(x, n) \in Int
         /\ ToUnsigned(ToSigned(x, n), n) = ToUnsigned(x, n)
  <1>1. ToSigned(x, n) = Twos(x, n)
    BY SignedIs
  <1>2. Twos(x, n) \in SignedRange(n) /\ Twos(x, n) % 2 ^ n = x % 2 ^ n
    BY TwosKeepsBits
  <1>3. SignedRange(n) \subseteq Int
    BY HalfPower DEF SignedRange
  <1> QED BY <1>1, <1>2, <1>3 DEF ToUnsigned

LEMMA ToSignedId ==
  ASSUME NEW n \in Nat \ {0}, NEW x \in SignedRange(n)
  PROVE  ToSigned(x, n) = x
  BY TwosId, SignedIs

(* Zigzag numbers the integers by their distance from zero... *)
LEMMA ZigZagCodes ==
  ASSUME NEW x \in Int
  PROVE  /\ ZigZag(x) \in Nat /\ ZagZig(ZigZag(x)) = x
         /\ \A n \in Nat \ {0} : ZigZag(x) < 2 ^ n <=> x \in SignedRange(n)
  <1>1. ZigZag(x) \in Nat /\ ZagZig(ZigZag(x)) = x
    BY DEF ZigZag, ZagZig
  <1>2. ASSUME NEW n \in Nat \ {0}
        PROVE  ZigZag(x) < 2 ^ n <=> x \in SignedRange(n)
    <2>1. PICK p \in Nat \ {0} : p = 2 ^ (n - 1) /\ 2 ^ n = 2 * p
      BY HalfPower
    <2> QED BY <2>1 DEF ZigZag, SignedRange
  <1> QED BY <1>1, <1>2

(* ... and there is one for every code. *)
LEMMA ZagZigCodes ==
  ASSUME NEW u \in Nat
  PROVE  ZagZig(u) \in Int /\ ZigZag(ZagZig(u)) = u
  BY DEF ZigZag, ZagZig

-----------------------------------------------------------------------------
(* What a width can hold of a kind, and what is passed to writeBits of a   *)
(* value that is in range or never checked.                                *)

Fits(k, b, x) ==
  CASE k \in Uint -> x < 2 ^ b
    [] k = "enum" -> b = Word \/ x \in 0..(2 ^ b - 1)
    [] OTHER -> x \in MinSigned(b)..MaxSigned(b)

Plain(k, x) == IF k \in Int2c THEN x ELSE Unsigned(k, x)

Exceeds(k, b, x) ==
  IF k \in Int2c THEN x < MinSigned(b) \/ x > MaxSigned(b)
  ELSE b < Word /\ Unsigned(k, x) >= 2 ^ b

LEMMA SizeType == \A k : Size(k) \in {Half, Word} /\ Size(k) \in Nat \ {0} /\ Size(k) <= Word
  BY Constants DEF Size

(* Unsigned integers: what does not fit is wider than the field. *)
LEMMA UintCodec ==
  ASSUME NEW k \in Uint, NEW b \in 1..Word, NEW x \in ValuesOf(k)
  PROVE  /\ Exceeds(k, b, x) <=> ~Fits(k, b, x)
         /\ Plain(k, x) = x /\ x \in Int
         /\ Fits(k, b, x) => Decoded(k, b, Wire(Plain(k, x), b)) = x
         /\ ~Fits(k, b, x) => \A c \in 0..(2 ^ b - 1) :
              Decoded(k, b, c) = c /\ c \in ValuesOf(k)
  <1> PICK s \in Nat \ {0} : s = Size(k) /\ s <= Word
    BY SizeType
  <1>0. b \in Nat \ {0} /\ b <= Word
    BY Constants
  <1>k. k \notin Int2c /\ k \notin Sint /\ k # "enum"
    BY DEF Uint, Int2c, Sint
  <1>1. x \in 0..(2 ^ s - 1) /\ Plain(k, x) = x /\ Unsigned(k, x) = x /\ ValuesOf(k) = 0..(2 ^ s - 1)
    BY <1>k DEF ValuesOf, Plain, Unsigned
  <1>2. Fits(k, b, x) <=> x < 2 ^ b
    BY <1>k DEF Fits
  <1>3. \A c : Decoded(k, b, c) = ToUnsigned(c, s)
    BY <1>k DEF Decoded
  <1>4. 2 ^ b \in Nat /\ 2 ^ s \in Nat /\ 2 ^ s <= 2 ^ Word /\ 2 ^ Word \in Nat
    BY <1>0, Constants, PowerType, PowerMonotone
  <1>5. Exceeds(k, b, x) <=> b < Word /\ x >= 2 ^ b
    BY <1>k, <1>1 DEF Exceeds
  <1>6. Exceeds(k, b, x) <=> ~Fits(k, b, x)
    BY <1>0, <1>1, <1>2, <1>4, <1>5, Constants
  <1>7. ASSUME Fits(k, b, x) PROVE Decoded(k, b, Wire(Plain(k, x), b)) = x
    <2>1. x \in 0..(2 ^ b - 1)
      BY <1>1, <1>2, <1>4, <1>7
    <2>2. Wire(x, b) = x
      BY <1>0, <2>1, ToUnsignedId DEF Wire
    <2>3. ToUnsigned(x, s) = x
      BY <1>1, ToUnsignedId
    <2> QED BY <1>1, <1>3, <2>2, <2>3
  <1>8. ASSUME ~Fits(k, b, x), NEW c \in 0..(2 ^ b - 1)
        PROVE  Decoded(k, b, c) = c /\ c \in ValuesOf(k)
    <2>1. c \in 0..(2 ^ s - 1)
      BY <1>1, <1>2, <1>4, <1>8
    <2>2. ToUnsigned(c, s) = c
      BY <2>1, ToUnsignedId
    <2> QED BY <1>1, <1>3, <2>1, <2>2
  <1>9. x \in Int
    BY <1>1
  <1> QED BY <1>1, <1>6, <1>7, <1>8, <1>9

(* Zigzag integers. *)
LEMMA SintCodec ==
  ASSUME NEW k \in Sint, NEW b \in 1..Word, NEW x \in ValuesOf(k)
  PROVE  /\ Exceeds(k, b, x) <=> ~Fits(k, b, x)
         /\ Plain(k, x) = ZigZag(x) /\ x \in Int
         /\ Fits(k, b, x) => Decoded(k, b, Wire(Plain(k, x), b)) = x
         /\ ~Fits(k, b, x) => \A c \in 0..(2 ^ b - 1) :
              Decoded(k, b, c) = ZagZig(c) /\ ZagZig(c) \in ValuesOf(k)
  <1> PICK s \in Nat \ {0} : s = Size(k) /\ s <= Word
    BY SizeType
  <1>0. b \in Nat \ {0} /\ b <= Word
    BY Constants
  <1>k. k \notin Int2c /\ k \notin Uint /\ k # "enum"
    BY DEF Uint, Int2c, Sint
  <1>1. x \in SignedRange(s) /\ ValuesOf(k) = SignedRange(s)
    BY <1>k, SignedIs DEF ValuesOf
  <1>2. x \in Int
    BY <1>1, HalfPower DEF SignedRange
  <1>3. Plain(k, x) = ZigZag(x) /\ Unsigned(k, x) = ZigZag(x)
    BY <1>k DEF Plain, Unsigned
  <1>4. Fits(k, b, x) <=> x \in SignedRange(b)
    BY <1>k, SignedIs DEF Fits
  <1>5. \A c : Decoded(k, b, c) = ZagZig(ToUnsigned(c, s))
    BY <1>k DEF Decoded
  <1>6. /\ ZigZag(x) \in Nat /\ ZagZig(ZigZag(x)) = x
        /\ ZigZag(x) < 2 ^ s
        /\ ZigZag(x) < 2 ^ b <=> Fits(k, b, x)
    BY <1>0, <1>1, <1>2, <1>4, ZigZagCodes
  <1>7. 2 ^ b \in Nat /\ 2 ^ s \in Nat /\ 2 ^ s <= 2 ^ Word /\ 2 ^ Word \in Nat
    BY <1>0, Constants, PowerType, PowerMonotone
  <1>8. Exceeds(k, b, x) <=> b < Word /\ ZigZag(x) >= 2 ^ b
    BY <1>k, <1>3 DEF Exceeds
  <1>9. Exceeds(k, b, x) <=> ~Fits(k, b, x)
    BY <1>0, <1>6, <1>7, <1>8, Constants
  <1>10. ASSUME Fits(k, b, x) PROVE Decoded(k, b, Wire(Plain(k, x), b)) = x
    <2>1. ZigZag(x) \in 0..(2 ^ b - 1) /\ ZigZag(x) \in 0..(2 ^ s - 1)
      BY <1>6, <1>7, <1>10
    <2>2. Wire(ZigZag(x), b) = ZigZag(x)
      BY <1>0, <2>1, ToUnsignedId DEF Wire
    <2>3. ToUnsigned(ZigZag(x), s) = ZigZag(x)
      BY <2>1, ToUnsignedId
    <2> QED BY <1>3, <1>5, <1>6, <2>2, <2>3
  <1>11. ASSUME ~Fits(k, b, x), NEW c \in 0..(2 ^ b - 1)
         PROVE  Decoded(k, b, c) = ZagZig(c) /\ ZagZig(c) \in ValuesOf(k)
    <2>1. c \in 0..(2 ^ s - 1) /\ c < 2 ^ s /\ c \in Nat
      BY <1>6, <1>7, <1>11
    <2>2. ToUnsigned(c, s) = c
      BY <2>1, ToUnsignedId
    <2>3. ZagZig(c) \in Int /\ ZigZag(ZagZig(c)) = c
      BY <2>1, ZagZigCodes
    <2>4. ZagZig(c) \in SignedRange(s)
      <3> PICK y \in Int : y = ZagZig(c)
        BY <2>3
      <3>1. ZigZag(y) < 2 ^ s <=> y \in SignedRange(s)
        BY ZigZagCodes
      <3> QED BY <3>1, <2>1, <2>3
    <2> QED BY <1>1, <1>5, <2>2, <2>4
  <1> QED BY <1>2, <1>3, <1>9, <1>10, <1>11

(* Two's complement: what does not fit is wider than the field, so its     *)
(* sign is extended when it is read.                                       *)
LEMMA Int2cCodec ==
  ASSUME NEW k \in Int2c, NEW b \in 1..Word, NEW x \in ValuesOf(k)
  PROVE  /\ Exceeds(k, b, x) <=> ~Fits(k, b, x)
         /\ Plain(k, x) = x /\ x \in Int
         /\ Fits(k, b, x) => Decoded(k, b, Wire(Plain(k, x), b)) = x
         /\ ~Fits(k, b, x) => b < Size(k)
         /\ ~Fits(k, b, x) => \A c \in 0..(2 ^ b - 1) :
              /\ Decoded(k, b, c) = ToSigned(c, b) /\ ToSigned(c, b) \in ValuesOf(k)
              /\ ToSigned(c, b) \in SignedRange(b)
  <1> PICK s \in Nat \ {0} : s = Size(k) /\ s <= Word
    BY SizeType
  <1>0. b \in Nat \ {0} /\ b <= Word
    BY Constants
  <1>k. k \notin Uint /\ k \notin Sint /\ k # "enum"
    BY DEF Uint, Int2c, Sint
  <1>1. x \in SignedRange(s) /\ ValuesOf(k) = SignedRange(s)
    BY <1>k, SignedIs DEF ValuesOf
  <1>2. x \in Int
    BY <1>1, HalfPower DEF SignedRange
  <1>3. Plain(k, x) = x
    BY DEF Plain
  <1>4. Fits(k, b, x) <=> x \in SignedRange(b)
    BY <1>k, SignedIs DEF Fits
  <1>5. \A c : Decoded(k, b, c) = ToSigned(IF b < s THEN ToSigned(c, b) ELSE c, s)
    BY <1>k DEF Decoded, SignExtend
  <1>6. Exceeds(k, b, x) <=> ~Fits(k, b, x)
    <2>1. Exceeds(k, b, x) <=> (x < MinSigned(b) \/ x > MaxSigned(b))
      BY DEF Exceeds
    <2>2. Fits(k, b, x) <=> x \in MinSigned(b)..MaxSigned(b)
      BY <1>k DEF Fits
    <2>3. MinSigned(b) \in Int /\ MaxSigned(b) \in Int
      BY <1>0, HalfPower DEF MinSigned, MaxSigned
    <2> QED BY <1>2, <2>1, <2>2, <2>3
  <1>7. ASSUME x \in SignedRange(b) PROVE Decoded(k, b, Wire(x, b)) = x
    <2> PICK c \in Int : c = ToUnsigned(x, b)
      BY <1>0, <1>2, ToUnsignedRange
    <2>1. ToUnsigned(c, b) = ToUnsigned(x, b)
      BY <1>0, <1>2, ToUnsignedNarrow
    <2>2. CASE b < s
      <3>1. ToSigned(c, b) = x
        BY <1>0, <1>7, <2>1, ToSignedIs
      <3>2. ToSigned(x, s) = x
        BY <1>1, ToSignedId
      <3> QED BY <1>5, <2>2, <3>1, <3>2 DEF Wire
    <2>3. CASE ~(b < s)
      <3>1. ToUnsigned(c, s) = ToUnsigned(x, s)
        BY <1>0, <1>2, <2>3, ToUnsignedNarrow
      <3>2. ToSigned(c, s) = x
        BY <1>1, <3>1, ToSignedIs
      <3> QED BY <1>5, <2>3, <3>2 DEF Wire
    <2> QED BY <2>2, <2>3
  <1>8. ASSUME x \notin SignedRange(b) PROVE b < s
    <2>1. s <= b => SignedRange(s) \subseteq SignedRange(b)
      BY <1>0, WiderRange
    <2> QED BY <1>0, <1>1, <1>8, <2>1
  <1>9. ASSUME b < s, NEW c \in 0..(2 ^ b - 1)
        PROVE  /\ Decoded(k, b, c) = ToSigned(c, b) /\ ToSigned(c, b) \in SignedRange(s)
               /\ ToSigned(c, b) \in SignedRange(b)
    <2>1. c \in Int
      BY <1>0, PowerType
    <2>2. ToSigned(c, b) \in SignedRange(b)
      BY <1>0, <2>1, ToSignedKeepsBits
    <2>3. ToSigned(c, b) \in SignedRange(s)
      BY <1>0, <1>9, <2>2, WiderRange
    <2>4. ToSigned(ToSigned(c, b), s) = ToSigned(c, b)
      BY <2>3, ToSignedId
    <2> QED BY <1>5, <1>9, <2>2, <2>3, <2>4
  <1> QED BY <1>1, <1>2, <1>3, <1>4, <1>6, <1>7, <1>8, <1>9

(* Enums: the sign-extended number is written, and its low half is read.   *)
LEMMA EnumCodec ==
  ASSUME NEW b \in 1..Word, NEW x \in ValuesOf("enum")
  PROVE  /\ Exceeds("enum", b, x) <=> ~Fits("enum", b, x)
         /\ x \in SignedRange(Half) /\ x \in Int
         /\ Fits("enum", b, x) <=> b = Word \/ x \in 0..(2 ^ b - 1)
         /\ Plain("enum", x) = ToUnsigned(x, Word)
         /\ Wire(Plain("enum", x), b) = ToUnsigned(x, b)
         /\ \A c : Decoded("enum", b, c) = ToSigned(c, Half)
         /\ Fits("enum", b, x) => Decoded("enum", b, Wire(Plain("enum", x), b)) = x
  <1> DEFINE k == "enum"
  <1>0. b \in Nat \ {0} /\ b <= Word
    BY Constants
  <1>k. k \notin Uint /\ k \notin Sint /\ k \notin Int2c
    BY DEF Uint, Int2c, Sint
  <1>1. x \in SignedRange(Half)
    <2>1. Size(k) = Half
      BY DEF Size
    <2> QED BY <1>k, <2>1, SignedIs DEF ValuesOf
  <1>2. x \in Int
    BY <1>1, Constants, HalfPower DEF SignedRange
  <1>3. Plain(k, x) = ToUnsigned(x, Word) /\ Unsigned(k, x) = ToUnsigned(x, Word)
    BY <1>k DEF Plain, Unsigned
  <1>4. Fits(k, b, x) <=> b = Word \/ x \in 0..(2 ^ b - 1)
    BY <1>k DEF Fits
  <1>5. \A c : Decoded(k, b, c) = ToSigned(c, Half)
    BY <1>k DEF Decoded
  <1>6. Wire(Plain(k, x), b) = ToUnsigned(x, b)
    BY <1>0, <1>2, <1>3, Constants, ToUnsignedNarrow DEF Wire
  <1>7. ASSUME b < Word PROVE ToUnsigned(x, Word) >= 2 ^ b <=> x \notin 0..(2 ^ b - 1)
    <2> PICK w, h, p \in Nat \ {0} : w = 2 ^ Word /\ h = 2 ^ (Half - 1) /\ p = 2 ^ b
      BY <1>0, Constants, PowerPositive, HalfPower
    <2>1. 2 * p <= w
      BY <1>0, <1>7, Constants, PowerMonotone
    <2>2. 2 * h <= w
      <3>1. 2 ^ Half = 2 * h
        BY Constants, HalfPower
      <3> QED BY <3>1, Constants, PowerMonotone
    <2>3. x \in (-h)..(h - 1)
      BY <1>1 DEF SignedRange
    <2>4. CASE x >= 0
      <3>1. x \in 0..(w - 1)
        BY <2>2, <2>3, <2>4
      <3>2. ToUnsigned(x, Word) = x
        BY <3>1, Constants, ToUnsignedId
      <3> QED BY <2>3, <2>4, <3>2
    <2>5. CASE x < 0
      <3> PICK q \in Int : q = 1
        OBVIOUS
      <3>1. x + w \in 0..(w - 1) /\ x + w >= p /\ x + w * q = x + w
        BY <2>1, <2>2, <2>3, <2>5
      <3>2. (x + w) % w = x + w
        BY <3>1, ModId
      <3>3. (x + w * q) % w = x % w
        BY <1>2, ModShift
      <3>4. x % w = x + w
        BY <3>1, <3>2, <3>3
      <3> QED BY <2>5, <3>1, <3>4 DEF ToUnsigned
    <2> QED BY <2>3, <2>4, <2>5
  <1>8. Exceeds(k, b, x) <=> ~Fits(k, b, x)
    <2>1. Exceeds(k, b, x) <=> b < Word /\ ToUnsigned(x, Word) >= 2 ^ b
      BY <1>k, <1>3 DEF Exceeds
    <2> QED BY <1>0, <1>4, <1>7, <2>1, Constants
  <1>9. ASSUME Fits(k, b, x) PROVE ToSigned(ToUnsigned(x, b), Half) = x
    <2>1. CASE b = Word
      <3>1. ToUnsigned(ToUnsigned(x, b), Half) = ToUnsigned(x, Half) /\ ToUnsigned(x, b) \in Int
        BY <1>2, <2>1, Constants, ToUnsignedNarrow, ToUnsignedRange
      <3> QED BY <1>1, <3>1, Constants, ToSignedIs
    <2>2. CASE x \in 0..(2 ^ b - 1)
      <3>1. ToUnsigned(x, b) = x
        BY <1>0, <2>2, ToUnsignedId
      <3> QED BY <1>1, <3>1, Constants, ToSignedId
    <2> QED BY <1>4, <1>9, <2>1, <2>2
  <1> QED BY <1>1, <1>2, <1>3, <1>4, <1>5, <1>6, <1>8, <1>9

(* Every kind: exactly what does not fit overflows, and what fits is read  *)
(* back as it was.                                                         *)
LEMMA FitsIsExact ==
  ASSUME NEW k \in Kinds, NEW b \in 1..Word, NEW x \in ValuesOf(k)
  PROVE  /\ \A u : Overflows(k, u, b, x) <=> u = "value" /\ ~Fits(k, b, x)
         /\ x \in Int /\ Plain(k, x) \in Int
         /\ Fits(k, b, x) => Decoded(k, b, Wire(Plain(k, x), b)) = x
  <1>1. \A u : Overflows(k, u, b, x) <=> u = "value" /\ Exceeds(k, b, x)
    BY DEF Overflows, Exceeds
  <1>2. CASE k \in Uint
    BY <1>1, <1>2, UintCodec
  <1>3. CASE k \in Int2c
    BY <1>1, <1>3, Int2cCodec
  <1>4. CASE k \in Sint
    BY <1>1, <1>4, SintCodec, ZigZagCodes
  <1>5. CASE k = "enum"
    <2>1. \A y \in Int : ToUnsigned(y, Word) \in Int
      BY Constants, ToUnsignedRange
    <2> QED BY <1>1, <1>5, <2>1, EnumCodec
  <1> QED BY <1>2, <1>3, <1>4, <1>5, Constants

LEMMA CodeRange ==
  ASSUME NEW x \in Int, NEW b \in 1..Word
  PROVE  Wire(x, b) \in 0..(2 ^ b - 1)
  <1>1. b \in Nat
    OBVIOUS
  <1> QED BY <1>1, ToUnsignedRange DEF Wire

-----------------------------------------------------------------------------
(* The inductive invariant of the integer fields: what was written is what *)
(* Passed says, and what was read is what Decoded says.                    *)

FieldInv == /\ use \in {"value", "key"} /\ (use = "key" => kind # "enum")
            /\ bits \in 1..Word /\ eff \in Strategies /\ v \in ValuesOf(kind)

CodeInv == phase \in {"written", "read"} =>
             /\ ~(Overflows(kind, use, bits, v) /\ eff = "ERROR")
             /\ code = Wire(Passed(kind, use, bits, eff, v), bits)

RefusedInv == phase = "PackError" => Overflows(kind, use, bits, v) /\ eff = "ERROR"

OutInv == phase = "read" => out = Decoded(kind, bits, code)

IInv == kind \in Kinds => FieldInv /\ CodeInv /\ RefusedInv /\ OutInv

LEMMA InitInv == ScalarInit => IInv
  <1>1. ASSUME Init PROVE IInv
    BY <1>1, UsesAssumption DEF Init, IInv, FieldInv, CodeInv, RefusedInv, OutInv
  <1>2. ASSUME FloatInit PROVE IInv
    BY <1>2, Constants DEF FloatInit, IInv
  <1> QED BY <1>1, <1>2 DEF ScalarInit

LEMMA StepInv == IInv /\ [ScalarNext]_floatVars => IInv'
  <1> SUFFICES ASSUME IInv, [ScalarNext]_floatVars PROVE IInv'
    OBVIOUS
  <1>1. ASSUME kind \in Kinds, Encode PROVE IInv'
    BY <1>1 DEF Encode, IInv, FieldInv, CodeInv, RefusedInv, OutInv, field
  <1>2. ASSUME kind \in Kinds, Refuse PROVE IInv'
    BY <1>2 DEF Refuse, IInv, FieldInv, CodeInv, RefusedInv, OutInv, field
  <1>3. ASSUME kind \in Kinds, Decode PROVE IInv'
    BY <1>3 DEF Decode, IInv, FieldInv, CodeInv, RefusedInv, OutInv, field
  <1>4. ASSUME EncodeFixed \/ RefuseFixed \/ EncodeHalf \/ DecodeFloat PROVE IInv'
    <2>1. kind \notin Kinds
      BY <1>4, Constants DEF EncodeFixed, RefuseFixed, EncodeHalf, DecodeFloat
    <2>2. kind' = kind
      BY <1>4 DEF EncodeFixed, RefuseFixed, EncodeHalf, DecodeFloat, field
    <2> QED BY <2>1, <2>2 DEF IInv
  <1>5. CASE UNCHANGED floatVars
    BY <1>5 DEF floatVars, vars, IInv, FieldInv, CodeInv, RefusedInv, OutInv
  <1> QED BY <1>1, <1>2, <1>3, <1>4, <1>5 DEF ScalarNext, IntNext, Next

(* The invariant holds in every behaviour, for every size of the words.    *)
THEOREM Invariance == ScalarSpec => []IInv
  BY InitInv, StepInv, PTL DEF ScalarSpec

-----------------------------------------------------------------------------
(* What is passed to writeBits, by the overflow and the strategy. *)
LEMMA PassedIs ==
  ASSUME NEW k, NEW u, NEW b, NEW e, NEW x
  PROVE  /\ ~Overflows(k, u, b, x) => Passed(k, u, b, e, x) = Plain(k, x)
         /\ Overflows(k, u, b, x) /\ e = "MODULO" => Passed(k, u, b, e, x) = Wrap(k, b, x)
         /\ Overflows(k, u, b, x) /\ e # "MODULO" => Passed(k, u, b, e, x) = Saturate(k, b, x)
  BY DEF Passed, Plain

LEMMA RepresentableIs == Representable <=> Fits(kind, bits, v)
  BY DEF Representable, Fits

LEMMA ReadsFitting ==
  ASSUME kind \in Kinds, IInv, Fits(kind, bits, v)
  PROVE  /\ phase # "PackError"
         /\ phase \in {"written", "read"} => code = Wire(Plain(kind, v), bits)
         /\ phase = "read" => out = v
  <1>1. FieldInv /\ CodeInv /\ RefusedInv /\ OutInv
    BY DEF IInv
  <1>2. ~Overflows(kind, use, bits, v) /\ Decoded(kind, bits, Wire(Plain(kind, v), bits)) = v
    BY <1>1, FitsIsExact DEF FieldInv
  <1>3. Passed(kind, use, bits, eff, v) = Plain(kind, v)
    BY <1>2, PassedIs
  <1> QED BY <1>1, <1>2, <1>3 DEF CodeInv, RefusedInv, OutInv

(* A value in range is never refused and is read back as it was, whatever  *)
(* the width, a value or a key; one out of range is refused under          *)
(* OverflowError.                                                          *)
THEOREM RangeIsExactAlways == ScalarSpec => []RangeIsExact
  <1>1. IInv => RangeIsExact
    <2> SUFFICES ASSUME IInv, kind \in Kinds PROVE RangeIsExact
      BY DEF RangeIsExact
    <2>1. Representable => phase # "PackError" /\ (phase = "read" => out = v)
      BY ReadsFitting, RepresentableIs
    <2>2. ASSUME use = "value", eff = "ERROR", phase = "read" PROVE Representable
      <3>1. ~Overflows(kind, use, bits, v)
        BY <2>2 DEF IInv, CodeInv
      <3> QED BY <2>2, <3>1, FitsIsExact, RepresentableIs DEF IInv, FieldInv
    <2> QED BY <2>1, <2>2 DEF RangeIsExact
  <1> QED BY <1>1, Invariance, PTL

-----------------------------------------------------------------------------
(* Values that overflow. *)

(* Wrapping keeps the low bits of what would be passed without a check.    *)
LEMMA WrapKeepsBits ==
  ASSUME NEW k \in Kinds, NEW b \in 1..Word, NEW x \in ValuesOf(k)
  PROVE  Wire(Wrap(k, b, x), b) = Wire(Plain(k, x), b)
  <1>0. b \in Nat \ {0} /\ b <= b
    OBVIOUS
  <1>1. Plain(k, x) \in Int
    BY FitsIsExact
  <1>2. CASE k \in Int2c
    BY <1>0, <1>1, <1>2, ToSignedKeepsBits DEF Wrap, Plain, Wire
  <1>3. CASE k \notin Int2c
    BY <1>0, <1>1, <1>3, ToUnsignedNarrow DEF Wrap, Plain, Wire
  <1> QED BY <1>2, <1>3

(* What a value that overflows is written and read as. *)
LEMMA ReadsOverflowing ==
  ASSUME kind \in Kinds, IInv, phase = "read", use = "value", ~Fits(kind, bits, v)
  PROVE  /\ Overflows(kind, use, bits, v) /\ eff # "ERROR"
         /\ eff = "MODULO" => code = Wire(Plain(kind, v), bits)
         /\ eff # "MODULO" => code = Wire(Saturate(kind, bits, v), bits)
         /\ out = Decoded(kind, bits, code)
  <1>1. FieldInv /\ CodeInv /\ OutInv
    BY DEF IInv
  <1>2. Overflows(kind, use, bits, v)
    BY <1>1, FitsIsExact DEF FieldInv
  <1>3. /\ eff = "MODULO" => Passed(kind, use, bits, eff, v) = Wrap(kind, bits, v)
        /\ eff # "MODULO" => Passed(kind, use, bits, eff, v) = Saturate(kind, bits, v)
    BY <1>2, PassedIs
  <1>4. Wire(Wrap(kind, bits, v), bits) = Wire(Plain(kind, v), bits)
    BY <1>1, WrapKeepsBits DEF FieldInv
  <1> QED BY <1>1, <1>2, <1>3, <1>4 DEF CodeInv, OutInv

(* Saturation writes all ones, or a bound of the signed range. *)
LEMMA SaturateIs ==
  ASSUME NEW k, NEW b \in 1..Word, NEW x \in Int
  PROVE  /\ k \notin Int2c => Saturate(k, b, x) = 2 ^ b - 1 /\ Wire(2 ^ b - 1, b) = 2 ^ b - 1
         /\ k \in Int2c /\ x \notin SignedRange(b) =>
              /\ Saturate(k, b, x) \in SignedRange(b)
              /\ Saturate(k, b, x) = IF x < 0 THEN -(2 ^ (b - 1)) ELSE 2 ^ (b - 1) - 1
  <1> PICK p, m \in Nat \ {0} : p = 2 ^ (b - 1) /\ m = 2 ^ b /\ m = 2 * p
    BY HalfPower
  <1>1. Wire(m - 1, b) = m - 1
    <2>1. m - 1 \in 0..(m - 1) /\ b \in Nat
      OBVIOUS
    <2> QED BY <2>1, ToUnsignedId DEF Wire
  <1>2. k \notin Int2c => Saturate(k, b, x) = m - 1
    BY DEF Saturate
  <1>3. ASSUME k \in Int2c, x \notin SignedRange(b)
        PROVE  /\ Saturate(k, b, x) \in SignedRange(b)
               /\ Saturate(k, b, x) = IF x < 0 THEN -p ELSE p - 1
    BY <1>3 DEF Saturate, MinSigned, MaxSigned, SignedRange
  <1> QED BY <1>1, <1>2, <1>3

(* OverflowModulo keeps an enum congruent, as far as an enum reaches. *)
LEMMA EnumModulo ==
  ASSUME NEW x \in Int, NEW b \in 1..Word
  PROVE  (ToSigned(ToUnsigned(x, b), Half) - x) % 2 ^ (IF b < Half THEN b ELSE Half) = 0
  <1> PICK c \in Int : c = ToUnsigned(x, b)
    BY ToUnsignedRange
  <1> PICK y \in Int : y = ToSigned(c, Half) /\ ToUnsigned(y, Half) = ToUnsigned(c, Half)
    BY Constants, ToSignedKeepsBits
  <1> PICK a \in Nat : a = IF b < Half THEN b ELSE Half
    BY Constants
  <1>1. a <= b /\ a <= Half
    BY Constants
  <1>2. ToUnsigned(y, a) = ToUnsigned(ToUnsigned(y, Half), a)
    BY <1>1, Constants, ToUnsignedNarrow
  <1>3. ToUnsigned(ToUnsigned(c, Half), a) = ToUnsigned(c, a)
    BY <1>1, Constants, ToUnsignedNarrow
  <1>4. ToUnsigned(c, a) = ToUnsigned(x, a)
    BY <1>1, ToUnsignedNarrow
  <1>5. y % 2 ^ a = x % 2 ^ a
    BY <1>2, <1>3, <1>4 DEF ToUnsigned
  <1> QED BY <1>5, PowerPositive, ModSame

(* A positive number of an enum that is cut at 2^bits - 1 is read back as   *)
(* that: the width is less than an enum's.                                 *)
LEMMA EnumClamp ==
  ASSUME "enum" \in Kinds, NEW x \in ValuesOf("enum"), NEW b \in 1..Word,
         ~Fits("enum", b, x), x >= 0
  PROVE  ToSigned(2 ^ b - 1, Half) = 2 ^ b - 1
  <1> PICK p, m \in Nat \ {0} : p = 2 ^ (Half - 1) /\ m = 2 ^ b
    BY Constants, HalfPower
  <1>1. x \in -p..(p - 1)
    BY DEF ValuesOf, Size, MinSigned, MaxSigned, Uint
  <1>2. x \notin 0..(m - 1)
    BY DEF Fits, Uint
  <1>3. m - 1 \in -p..(p - 1)
    BY <1>1, <1>2
  <1> QED BY <1>3, Constants, ToSignedId DEF SignedRange

(* A number that is wrapped or clamped is read back as documented, but for *)
(* a negative number of an enum under a strategy that clamps.              *)
THEOREM StrategyAsDocumentedAlways == ScalarSpec => []StrategyAsDocumented
  <1>1. IInv => StrategyAsDocumented
    <2> SUFFICES ASSUME IInv, kind \in Kinds, phase = "read", use = "value",
                        ~Fits(kind, bits, v)
                 PROVE  /\ eff = "MODULO" => DocModulo
                        /\ eff # "MODULO" /\ ~NegativeEnum => out = DocClamp
                        /\ eff # "MODULO" /\ NegativeEnum => out = ToSigned(2 ^ bits - 1, Half)
      BY RepresentableIs DEF StrategyAsDocumented
    <2>1. /\ eff = "MODULO" => code = Wire(Plain(kind, v), bits)
          /\ eff # "MODULO" => code = Wire(Saturate(kind, bits, v), bits)
          /\ out = Decoded(kind, bits, code)
      BY ReadsOverflowing
    <2>2. bits \in 1..Word /\ v \in ValuesOf(kind) /\ bits \in Nat \ {0}
      BY DEF IInv, FieldInv
    <2>3. v \in Int /\ Plain(kind, v) \in Int
      BY <2>2, FitsIsExact
    <2>4. /\ Wire(Plain(kind, v), bits) \in 0..(2 ^ bits - 1)
          /\ 2 ^ bits - 1 \in 0..(2 ^ bits - 1)
      BY <2>2, <2>3, CodeRange, PowerPositive
    <2>5. CASE kind \in Uint
      <3>0. kind \notin Int2c /\ kind \notin Sint /\ kind # "enum"
        BY <2>5 DEF Uint, Int2c, Sint
      <3>1. eff = "MODULO" => out = v % 2 ^ bits
        BY <2>1, <2>2, <2>4, <2>5, UintCodec DEF Wire, ToUnsigned
      <3>2. eff # "MODULO" => out = 2 ^ bits - 1
        BY <2>1, <2>2, <2>3, <2>4, <2>5, <3>0, UintCodec, SaturateIs
      <3> QED BY <2>5, <3>0, <3>1, <3>2 DEF DocModulo, DocClamp, NegativeEnum
    <2>6. CASE kind \in Sint
      <3>0. kind \notin Int2c /\ kind \notin Uint /\ kind # "enum"
        BY <2>6 DEF Uint, Int2c, Sint
      <3>1. eff = "MODULO" => out = ZagZig(ZigZag(v) % 2 ^ bits)
        BY <2>1, <2>2, <2>4, <2>6, SintCodec DEF Wire, ToUnsigned
      <3>2. eff # "MODULO" => out = ZagZig(2 ^ bits - 1)
        BY <2>1, <2>2, <2>3, <2>4, <2>6, <3>0, SintCodec, SaturateIs
      <3> QED BY <2>6, <3>0, <3>1, <3>2 DEF DocModulo, DocClamp, NegativeEnum
    <2>7. CASE kind = "enum"
      <3>0. kind \notin Int2c /\ kind \notin Uint /\ kind \notin Sint
        BY <2>7 DEF Uint, Int2c, Sint
      <3>1. eff = "MODULO" => out = ToSigned(ToUnsigned(v, bits), Half)
        BY <2>1, <2>2, <2>7, EnumCodec
      <3>2. eff # "MODULO" => out = ToSigned(2 ^ bits - 1, Half)
        BY <2>1, <2>2, <2>3, <2>7, <3>0, EnumCodec, SaturateIs
      <3>3. (ToSigned(ToUnsigned(v, bits), Half) - v) % 2 ^ (IF bits < Half THEN bits ELSE Half) = 0
        BY <2>2, <2>3, EnumModulo
      <3>4. ~NegativeEnum => ToSigned(2 ^ bits - 1, Half) = 2 ^ bits - 1
        BY <2>2, <2>3, <2>7, EnumClamp DEF NegativeEnum
      <3> QED BY <2>7, <3>0, <3>1, <3>2, <3>3, <3>4 DEF DocModulo, DocClamp
    <2>8. CASE kind \in Int2c
      <3>0. kind # "enum" /\ kind \notin Uint /\ kind \notin Sint
        BY <2>8 DEF Uint, Int2c, Sint
      <3>1. v \notin SignedRange(bits)
        BY <3>0, SignedIs DEF Fits
      <3>2. \A c \in 0..(2 ^ bits - 1) :
              Decoded(kind, bits, c) = ToSigned(c, bits) /\ ToSigned(c, bits) \in SignedRange(bits)
        BY <2>2, <2>8, Int2cCodec
      <3>3. \A y \in Int : /\ Wire(y, bits) \in 0..(2 ^ bits - 1) /\ Wire(y, bits) \in Int
                            /\ ToUnsigned(Wire(y, bits), bits) = ToUnsigned(y, bits)
        <4> SUFFICES ASSUME NEW y \in Int
                     PROVE  /\ Wire(y, bits) \in 0..(2 ^ bits - 1) /\ Wire(y, bits) \in Int
                            /\ ToUnsigned(Wire(y, bits), bits) = ToUnsigned(y, bits)
          OBVIOUS
        <4> PICK b \in Nat : b = bits /\ b <= b
          BY <2>2
        <4>1. ToUnsigned(y, b) \in 0..(2 ^ b - 1) /\ ToUnsigned(y, b) \in Int
          BY ToUnsignedRange
        <4>2. ToUnsigned(ToUnsigned(y, b), b) = ToUnsigned(y, b)
          BY ToUnsignedNarrow
        <4> QED BY <4>1, <4>2 DEF Wire
      <3>4. ASSUME eff = "MODULO" PROVE DocModulo
        <4>1. code = Wire(v, bits)
          BY <2>1, <2>8, <3>4 DEF Plain
        <4>2. out = ToSigned(code, bits) /\ out \in SignedRange(bits) /\ code \in Int
          BY <2>1, <2>3, <3>2, <3>3, <4>1
        <4>3. ToUnsigned(out, bits) = ToUnsigned(v, bits) /\ out \in Int
          BY <2>2, <2>3, <3>3, <4>1, <4>2, ToSignedKeepsBits
        <4>4. (out - v) % 2 ^ bits = 0
          BY <2>2, <2>3, <4>3, PowerPositive, ModSame DEF ToUnsigned
        <4> QED BY <2>8, <3>0, <4>2, <4>4, SignedIs DEF DocModulo
      <3>5. ASSUME eff # "MODULO" PROVE out = DocClamp
        <4> PICK y : y = Saturate(kind, bits, v)
          OBVIOUS
        <4>1. /\ y \in SignedRange(bits)
              /\ y = IF v < 0 THEN -(2 ^ (bits - 1)) ELSE 2 ^ (bits - 1) - 1
          BY <2>2, <2>3, <2>8, <3>1, SaturateIs
        <4>2. y \in Int
          BY <2>2, <4>1, HalfPower DEF SignedRange
        <4>3. code = Wire(y, bits) /\ code \in Int
          BY <2>1, <3>3, <3>5, <4>2
        <4>4. out = ToSigned(code, bits)
          BY <2>1, <3>2, <3>3, <4>2, <4>3
        <4>5. ToSigned(code, bits) = y
          BY <2>2, <3>3, <4>1, <4>2, <4>3, ToSignedIs
        <4> QED BY <2>8, <3>0, <4>1, <4>4, <4>5 DEF DocClamp, MinSigned, MaxSigned
      <3> QED BY <3>0, <3>4, <3>5 DEF NegativeEnum
    <2> QED BY <2>5, <2>6, <2>7, <2>8, Constants
  <1> QED BY <1>1, Invariance, PTL

-----------------------------------------------------------------------------
(* Unpacking a message and packing it again. *)

(* The code is a number of the width's bits. *)
LEMMA CodeIsCode ==
  ASSUME kind \in Kinds, IInv, phase \in {"written", "read"}
  PROVE  code \in 0..(2 ^ bits - 1)
  <1>1. bits \in 1..Word /\ v \in ValuesOf(kind) /\ bits \in Nat \ {0}
    BY DEF IInv, FieldInv
  <1>2. v \in Int /\ Plain(kind, v) \in Int
    BY <1>1, FitsIsExact
  <1>3. Wrap(kind, bits, v) \in Int
    BY <1>1, <1>2, ToSignedKeepsBits, ToUnsignedRange DEF Wrap, Plain
  <1>4. Saturate(kind, bits, v) \in Int
    BY <1>1, HalfPower DEF Saturate, MinSigned, MaxSigned
  <1>5. Passed(kind, use, bits, eff, v) \in Int
    BY <1>2, <1>3, <1>4, PassedIs
  <1> QED BY <1>1, <1>5, CodeRange DEF IInv, CodeInv

(* What is read in place of a value that does not fit does fit, and has    *)
(* the code it was read from.                                              *)
LEMMA ReadFits ==
  ASSUME NEW k \in Kinds, k # "enum", NEW b \in 1..Word, NEW x \in ValuesOf(k),
         ~Fits(k, b, x), NEW c \in 0..(2 ^ b - 1)
  PROVE  /\ Decoded(k, b, c) \in ValuesOf(k) /\ Fits(k, b, Decoded(k, b, c))
         /\ Wire(Plain(k, Decoded(k, b, c)), b) = c
  <1>0. b \in Nat \ {0} /\ 2 ^ b \in Nat /\ c \in Nat
    BY PowerType
  <1>1. Wire(c, b) = c
    BY <1>0, ToUnsignedId DEF Wire
  <1>2. CASE k \in Uint
    <2>1. Decoded(k, b, c) = c /\ c \in ValuesOf(k)
      BY <1>2, UintCodec
    <2>2. Plain(k, c) = c
      BY <1>2, <2>1, UintCodec
    <2>3. Fits(k, b, c)
      BY <1>0, <1>2 DEF Fits, Uint
    <2> QED BY <1>1, <2>1, <2>2, <2>3
  <1>3. CASE k \in Sint
    <2> PICK y : y = ZagZig(c)
      OBVIOUS
    <2>1. Decoded(k, b, c) = y /\ y \in ValuesOf(k)
      BY <1>3, SintCodec
    <2>2. y \in Int /\ ZigZag(y) = c
      BY <1>0, ZagZigCodes
    <2>3. Plain(k, y) = c
      BY <1>3, <2>1, <2>2, SintCodec
    <2>4. y \in SignedRange(b)
      <3>1. ZigZag(y) < 2 ^ b <=> y \in SignedRange(b)
        BY <1>0, <2>2, ZigZagCodes
      <3> QED BY <1>0, <2>2, <3>1
    <2>5. Fits(k, b, y)
      BY <1>3, <2>4, SignedIs DEF Fits, Sint, Uint
    <2> QED BY <1>1, <2>1, <2>3, <2>5
  <1>4. CASE k \in Int2c
    <2> PICK y : y = ToSigned(c, b)
      OBVIOUS
    <2>1. Decoded(k, b, c) = y /\ y \in ValuesOf(k) /\ y \in SignedRange(b)
      BY <1>4, Int2cCodec
    <2>2. ToUnsigned(y, b) = ToUnsigned(c, b)
      BY <1>0, ToSignedKeepsBits
    <2>3. Fits(k, b, y) /\ Plain(k, y) = y
      BY <1>4, <2>1, SignedIs DEF Fits, Plain, Int2c, Uint
    <2> QED BY <1>1, <2>1, <2>2, <2>3 DEF Wire
  <1> QED BY <1>2, <1>3, <1>4, Constants

(* An enum number that is clamped to a width as wide as an enum or wider   *)
(* is read as -1, which is out of range again and clamped to the same.     *)
LEMMA AllOnesAreMinusOne ==
  ASSUME NEW b \in Half..Word
  PROVE  ToSigned(2 ^ b - 1, Half) = -1 /\ -1 \in ValuesOf("enum")
  <1>0. b \in Nat /\ b - Half \in Nat /\ b = Half + (b - Half) /\ Half \in Nat \ {0}
    BY Constants
  <1> PICK h, m, q \in Nat \ {0} : h = 2 ^ (Half - 1) /\ m = 2 ^ Half /\ q = 2 ^ (b - Half)
    BY <1>0, HalfPower, PowerPositive
  <1>1. 2 ^ b = m * q /\ m = 2 * h
    BY <1>0, PowerSum, HalfPower
  <1> PICK x, y \in Int : x = m * q - 1 /\ y = -1
    OBVIOUS
  <1>2. x = y + m * q
    OBVIOUS
  <1>3. (y + m * q) % m = y % m
    <2>1. ASSUME NEW z \in Int PROVE (z + m * q) % m = z % m
      <3>1. q \in Int /\ m \in Nat \ {0}
        OBVIOUS
      <3> QED BY <3>1, ModShift, ZenonT(30)
    <2> QED BY <2>1
  <1>4. y \in SignedRange(Half)
    BY <1>1 DEF SignedRange
  <1>5. ToSigned(x, Half) = y
    BY <1>0, <1>2, <1>3, <1>4, ToSignedIs DEF ToUnsigned
  <1>6. ValuesOf("enum") = SignedRange(Half)
    BY SignedIs DEF ValuesOf, Uint, Size
  <1> QED BY <1>1, <1>4, <1>5, <1>6

(* A program that unpacks a message and packs it again forwards the same   *)
(* bits, also of values that were changed to fit.                          *)
THEOREM RepacksTheSameAlways == ScalarSpec => []RepacksTheSame
  <1>1. IInv => RepacksTheSame
    <2> SUFFICES ASSUME IInv, kind \in Kinds, phase = "read"
                 PROVE  /\ Overflows(kind, use, bits, out) => eff # "ERROR"
                        /\ Wire(Passed(kind, use, bits, eff, out), bits) = code
      BY DEF RepacksTheSame
    <2>1. /\ bits \in 1..Word /\ v \in ValuesOf(kind) /\ bits \in Nat \ {0}
          /\ use \in {"value", "key"} /\ (use = "key" => kind # "enum")
          /\ out = Decoded(kind, bits, code)
      BY DEF IInv, FieldInv, OutInv
    <2>2. code \in 0..(2 ^ bits - 1)
      BY CodeIsCode
    <2>3. ASSUME out \in ValuesOf(kind), Fits(kind, bits, out), Wire(Plain(kind, out), bits) = code
          PROVE  /\ ~Overflows(kind, use, bits, out)
                 /\ Wire(Passed(kind, use, bits, eff, out), bits) = code
      <3>1. ~Overflows(kind, use, bits, out)
        BY <2>1, <2>3, FitsIsExact
      <3> QED BY <2>3, <3>1, PassedIs
    <2>4. CASE Fits(kind, bits, v)
      <3>1. code = Wire(Plain(kind, v), bits) /\ out = v
        BY <2>4, ReadsFitting
      <3> QED BY <2>1, <2>3, <2>4, <3>1
    <2>5. CASE ~Fits(kind, bits, v) /\ kind # "enum"
      BY <2>1, <2>2, <2>3, <2>5, ReadFits
    <2>6. CASE ~Fits(kind, bits, v) /\ kind = "enum"
      <3>0. use = "value"
        BY <2>1, <2>6
      <3>1. /\ eff # "ERROR"
            /\ eff = "MODULO" => code = Wire(Plain(kind, v), bits)
            /\ eff # "MODULO" => code = Wire(Saturate(kind, bits, v), bits)
        BY <2>6, <3>0, ReadsOverflowing
      <3>2. /\ v \in SignedRange(Half) /\ v \in Int /\ ~(bits = Word \/ v \in 0..(2 ^ bits - 1))
            /\ Wire(Plain(kind, v), bits) = ToUnsigned(v, bits)
            /\ out = ToSigned(code, Half)
        BY <2>1, <2>6, EnumCodec
      <3>3. kind \notin Int2c
        BY <2>6 DEF Int2c
      <3>4. CASE bits < Half
        <4>1. code \in SignedRange(Half)
          BY <2>1, <2>2, <3>4, Constants, WiderRange
        <4>2. out = code
          BY <3>2, <4>1, Constants, ToSignedId
        <4>3. ValuesOf(kind) = SignedRange(Half)
          BY <2>6, SignedIs DEF ValuesOf, Uint, Size
        <4>4. out \in ValuesOf(kind) /\ Fits(kind, bits, out)
          BY <2>2, <2>6, <4>1, <4>2, <4>3 DEF Fits, Uint
        <4>5. Wire(Plain(kind, out), bits) = ToUnsigned(out, bits)
          BY <2>1, <2>6, <4>4, EnumCodec
        <4>6. ToUnsigned(code, bits) = code
          BY <2>1, <2>2, ToUnsignedId
        <4> QED BY <2>3, <4>2, <4>4, <4>5, <4>6
      <3>5. CASE bits >= Half /\ eff = "MODULO"
        <4>1. ToUnsigned(code, Half) = ToUnsigned(v, Half) /\ code \in Int
          BY <2>1, <3>1, <3>2, <3>5, Constants, ToUnsignedNarrow, ToUnsignedRange
        <4>2. out = v
          BY <3>2, <4>1, Constants, ToSignedIs
        <4>3. Overflows(kind, use, bits, out)
          BY <2>1, <2>6, <3>0, <4>2, FitsIsExact
        <4>4. Passed(kind, use, bits, eff, out) = Wrap(kind, bits, out)
          BY <3>5, <4>3, PassedIs
        <4>5. Wire(Wrap(kind, bits, v), bits) = Wire(Plain(kind, v), bits)
          BY <2>1, WrapKeepsBits
        <4> QED BY <3>1, <3>5, <4>2, <4>4, <4>5
      <3>6. CASE bits >= Half /\ eff # "MODULO"
        <4> PICK n : n = -1
          OBVIOUS
        <4>1. code = 2 ^ bits - 1
          BY <2>1, <3>1, <3>2, <3>3, <3>6, SaturateIs
        <4>2. out = n /\ n \in ValuesOf(kind)
          BY <2>1, <2>6, <3>2, <3>6, <4>1, Constants, AllOnesAreMinusOne
        <4>3. ~Fits(kind, bits, n)
          <5>1. Fits(kind, bits, n) <=> bits = Word \/ n \in 0..(2 ^ bits - 1)
            BY <2>1, <2>6, <4>2, EnumCodec
          <5> QED BY <3>2, <5>1
        <4>4. Overflows(kind, use, bits, n) /\ n \in Int
          BY <2>1, <3>0, <4>2, <4>3, FitsIsExact
        <4>5. Passed(kind, use, bits, eff, n) = Saturate(kind, bits, n)
          BY <3>6, <4>4, PassedIs
        <4>6. Wire(Saturate(kind, bits, n), bits) = 2 ^ bits - 1
          BY <2>1, <3>3, <4>4, SaturateIs
        <4> QED BY <3>1, <4>1, <4>2, <4>5, <4>6
      <3> QED BY <2>1, <3>4, <3>5, <3>6, Constants
    <2> QED BY <2>4, <2>5, <2>6
  <1> QED BY <1>1, Invariance, PTL

-----------------------------------------------------------------------------
(* The numbers of the fixed-point fields are integers on their grid. *)

(* A rounded quotient is an integer, and one of an integer that is not     *)
(* zero is not zero: the leading bits stay.                                *)
LEMMA ExponentType ==
  ASSUME NEW p \in Nat, NEW n \in Nat
  PROVE  /\ Exponent(p, n) \in Nat
         /\ Exponent(p, n) = 0 \/ n >= 2 ^ (p + Exponent(p, n) - 1)
  <1> DEFINE Reaches(i) == n < 2 ^ (p + i)
             Least(f) == f = [i \in 0..n |-> IF Reaches(i) THEN i ELSE f[i + 1]]
             T == {i \in 0..n : Reaches(i)}
  <1>1. Reaches(n)
    <2>1. PICK i \in 0..n : Reaches(i)
      BY PowerAbove
    <2>2. p + i \in Nat /\ p + n \in Nat /\ p + i <= p + n
      OBVIOUS
    <2>3. 2 ^ (p + i) <= 2 ^ (p + n) /\ 2 ^ (p + i) \in Nat /\ 2 ^ (p + n) \in Nat
      BY <2>2, PowerMonotone, PowerType
    <2> QED BY <2>1, <2>3
  <1> HIDE DEF Reaches
  <1>2. ASSUME NEW i \in 0..n
        PROVE  \E j \in T : j >= i /\ \A y \in T : y >= i => y >= j
    <2> DEFINE U == {y \in T : y >= i}
    <2>1. U \subseteq Nat /\ n \in U
      BY <1>1
    <2>2. PICK j \in U : \A y \in U : ~(y < j)
      BY <2>1, LeastNat
    <2> QED BY <2>2
  <1>3. \E f : Least(f)
    <2> DEFINE At(i) == CHOOSE j \in T : j >= i /\ \A y \in T : y >= i => y >= j
               f == [i \in 0..n |-> At(i)]
    <2>1. ASSUME NEW i \in 0..n
          PROVE  At(i) \in T /\ At(i) >= i /\ \A y \in T : y >= i => y >= At(i)
      BY <1>2
    <2> HIDE DEF At
    <2>2. ASSUME NEW i \in 0..n PROVE f[i] = IF Reaches(i) THEN i ELSE f[i + 1]
      <3>1. CASE Reaches(i)
        <4>1. i >= At(i) /\ At(i) >= i /\ At(i) \in Nat
          BY <2>1, <3>1
        <4> QED BY <3>1, <4>1
      <3>2. CASE ~Reaches(i)
        <4>1. i # n /\ i + 1 \in 0..n
          BY <1>1, <3>2
        <4>2. At(i) # i /\ At(i) >= i + 1 /\ At(i) \in 0..n
          BY <2>1, <3>2
        <4>3. At(i) >= At(i + 1)
          BY <2>1, <4>1, <4>2
        <4>4. At(i + 1) >= At(i) /\ At(i + 1) \in 0..n
          BY <2>1, <4>1
        <4> QED BY <3>2, <4>1, <4>2, <4>3, <4>4
      <3> QED BY <3>1, <3>2
    <2>3. Least(f)
      BY <2>2
    <2> QED BY <2>3
  <1> DEFINE g == CHOOSE f : Least(f)
  <1>4. Least(g)
    BY <1>3, Zenon
  <1>5. Exponent(p, n) = g[0]
    BY DEF Exponent, Reaches
  <1> HIDE DEF g
  <1>6. PICK m \in T : m >= 0 /\ \A y \in T : y >= 0 => y >= m
    BY <1>2
  <1>7. \A i \in 0..n : g[i] = IF Reaches(i) THEN i ELSE g[i + 1]
    BY <1>4
  <1>8. g[0] = m
    <2> DEFINE S == {k \in Nat : k <= m => g[m - k] = m}
    <2>1. 0 \in S
      BY <1>6, <1>7
    <2>2. ASSUME NEW k \in Nat, k \in S PROVE k + 1 \in S
      <3> SUFFICES ASSUME k + 1 <= m PROVE g[m - (k + 1)] = m
        OBVIOUS
      <3> PICK i \in 0..n : i = m - (k + 1)
        OBVIOUS
      <3>1. ~Reaches(i) /\ i + 1 = m - k
        BY <1>6
      <3> QED BY <1>7, <2>2, <3>1
    <2>3. Nat \subseteq S
      <3> HIDE DEF S
      <3> QED BY <2>1, <2>2, Induction
    <2>4. m \in S
      BY <2>3
    <2> QED BY <2>4
  <1>9. m = 0 \/ n >= 2 ^ (p + m - 1)
    <2> SUFFICES ASSUME m # 0 PROVE n >= 2 ^ (p + m - 1)
      OBVIOUS
    <2>1. m - 1 \in 0..n /\ ~Reaches(m - 1)
      BY <1>6
    <2>2. p + (m - 1) = p + m - 1 /\ p + m - 1 \in Nat
      OBVIOUS
    <2>3. 2 ^ (p + m - 1) \in Nat
      BY <2>2, PowerType
    <2> QED BY <2>1, <2>2, <2>3 DEF Reaches
  <1> QED BY <1>5, <1>8, <1>9

LEMMA NearestEvenType ==
  ASSUME NEW m \in Nat, NEW u \in Nat \ {0}
  PROVE  NearestEven(m, u) \in Nat /\ (m >= u => NearestEven(m, u) > 0)
  <1> PICK q, c : q = m \div u /\ c = m % u
    OBVIOUS
  <1>1. q \in Nat /\ c \in 0..(u - 1) /\ m = u * q + c
    BY DivMod
  <1>2. m >= u => q # 0
    BY <1>1
  <1>3. NearestEven(m, u) \in {q, q + 1}
    BY DEF NearestEven
  <1> QED BY <1>1, <1>2, <1>3

LEMMA FlType ==
  ASSUME NEW p \in Nat \ {0}, NEW num \in Int, NEW den \in Nat \ {0}
  PROVE  Fl(p, num, den) \in Int /\ (num > 0 /\ den = 1 => Fl(p, num, den) > 0)
  <1> PICK m \in Nat : m = MagnitudeOf(num) /\ (num > 0 => m = num)
    BY DEF MagnitudeOf
  <1> PICK n \in Nat : n = m \div den
    BY DivMod
  <1> PICK e \in Nat : e = Exponent(p, n) /\ (e = 0 \/ n >= 2 ^ (p + e - 1))
    BY ExponentType
  <1> PICK w \in Nat \ {0} : w = 2 ^ e
    BY PowerPositive
  <1> PICK u \in Nat \ {0} : u = den * w
    <2>1. den * w \in Nat \ {0}
      OBVIOUS
    <2> QED BY <2>1
  <1> PICK q \in Nat : q = NearestEven(m, u) /\ (m >= u => q > 0)
    BY NearestEvenType
  <1>1. Fl(p, num, den) = IF num < 0 THEN -(q * w) ELSE q * w
    BY DEF Fl
  <1>2. q * w \in Nat /\ (q > 0 => q * w > 0)
    OBVIOUS
  <1>3. ASSUME num > 0, den = 1 PROVE m >= u
    <2>1. u = w /\ n = m /\ m > 0
      BY <1>3
    <2>2. CASE e = 0
      <3>1. m >= 1
        BY <2>1
      <3>2. w = 2 ^ 0
        BY <2>2, Zenon
      <3>3. 2 ^ 0 = 1
        OBVIOUS
      <3> QED BY <2>1, <3>1, <3>2, <3>3
    <2>3. CASE e # 0
      <3>1. p + e - 1 \in Nat /\ e <= p + e - 1
        BY <2>3
      <3>2. w <= 2 ^ (p + e - 1) /\ 2 ^ (p + e - 1) \in Nat
        BY <3>1, PowerMonotone, PowerType
      <3> QED BY <2>1, <2>3, <3>2
    <2> QED BY <2>2, <2>3
  <1> QED BY <1>1, <1>2, <1>3

LEMMA FormatTypes ==
  /\ Grid \in Nat \ {0} /\ PS \in Nat \ {0} /\ PD \in Nat \ {0}
  BY FormatsAssumption, Constants

(* Rounding to a double. *)
LEMMA DoubleType ==
  \A x \in Int : Fl(PD, x, 1) \in Int /\ (x > 0 => Fl(PD, x, 1) > 0)
  <1> PICK one \in Nat \ {0} : one = 1
    OBVIOUS
  <1>1. PD \in Nat \ {0}
    BY FormatTypes
  <1> SUFFICES ASSUME NEW x \in Int
               PROVE  Fl(PD, x, one) \in Int /\ (x > 0 => Fl(PD, x, one) > 0)
    OBVIOUS
  <1> QED BY <1>1, FlType

(* The scaled number is an integer. *)
LEMMA ScaledType ==
  ASSUME NEW x \in Int, NEW d \in DecimalPlaces
  PROVE  Scaled(x, d) \in Int
  <1>1. x * 10 ^ d \in Int
    BY NumbersAssumption
  <1> PICK f \in Int : f = Fl(PD, x * 10 ^ d, 1)
    BY <1>1, DoubleType
  <1> PICK a, b \in Nat \ {0} : a = 2 ^ Grid /\ b = 2 ^ (Grid - 1)
    BY FormatTypes, HalfPower
  <1>2. MagnitudeOf(f) + b \in Nat
    BY DEF MagnitudeOf
  <1>3. (MagnitudeOf(f) + b) \div a \in Nat
    BY <1>2, DivMod
  <1> QED BY <1>3 DEF Scaled, Round

(* So is what is wrapped or clamped, for every width but the full one.     *)
LEMMA FixedTypes ==
  ASSUME NEW k, NEW b \in 1..(Word - 1), NEW s \in Int
  PROVE  FixedWrap(k, b, s) \in Int /\ FixedClamp(k, b, s) \in Int
  <1> PICK p, m \in Nat \ {0} : p = 2 ^ (b - 1) /\ m = 2 ^ b /\ m = 2 * p
    BY Constants, HalfPower
  <1>1. Shifted(b) = m /\ b < Word
    BY Constants DEF Shifted
  <1>2. MinV(k, b) \in Int
    BY <1>1 DEF MinV
  <1>4. MaxV(k, b) \in Int /\ (~IsSigned(k) => MaxV(k, b) > 0)
    <2> PICK x \in Int : x = (IF IsSigned(k) THEN p - 1 ELSE m - 1) /\ (~IsSigned(k) => x > 0)
      OBVIOUS
    <2>1. MaxV(k, b) = Fl(PD, x, 1)
      BY <1>1 DEF MaxV
    <2> QED BY <2>1, DoubleType
  <1> PICK y \in Nat \ {0} : y = IF IsSigned(k) THEN Shifted(b) ELSE Fl(PD, MaxV(k, b) + 1, 1)
    <2>1. CASE IsSigned(k)
      BY <1>1, <2>1
    <2>2. CASE ~IsSigned(k)
      <3> PICK z \in Int : z = MaxV(k, b) + 1 /\ z > 0
        BY <1>4, <2>2
      <3> QED BY <2>2, DoubleType
    <2> QED BY <2>1, <2>2
  <1>5. Mod(s, y) \in Int
    <2> PICK t \in Int : t = MagnitudeOf(s)
      BY DEF MagnitudeOf
    <2>1. t % y \in Int /\ s % y \in Int
      <3>1. \A z \in Int : z % y \in 0..(y - 1)
        BY ModRange
      <3>2. \A z \in Int : z % y \in Int
        BY <3>1
      <3> QED BY <3>2
    <2> QED BY <2>1 DEF Mod
  <1>6. FixedWrap(k, b, s) \in Int
    <2> PICK r \in Int : r = Mod(s, y)
      BY <1>5
    <2>1. Fl(PD, r + y, 1) \in Int /\ Fl(PD, r - y, 1) \in Int
      BY DoubleType
    <2>2. FixedWrap(k, b, s) \in {r, Fl(PD, r + y, 1), Fl(PD, r - y, 1)}
      BY Zenon DEF FixedWrap
    <2> QED BY <2>1, <2>2
  <1>7. FixedClamp(k, b, s) \in Int
    BY <1>2, <1>4 DEF FixedClamp
  <1> QED BY <1>6, <1>7

(* The codes of a fixed-point number are numbers of the width's bits. *)
LEMMA FixedCodesRange ==
  ASSUME NEW k, NEW b \in 1..(Word - 1), NEW e, NEW s \in Int
  PROVE  FixedCodes(k, b, e, s) \subseteq 0..(2 ^ b - 1)
  <1>1. b \in Nat /\ b # Word
    BY Constants
  <1>2. \A x \in Int : ToUnsigned(x, b) \in 0..(2 ^ b - 1)
    BY <1>1, ToUnsignedRange
  <1>3. FixedWrap(k, b, s) \in Int /\ FixedClamp(k, b, s) \in Int
    BY FixedTypes
  <1> QED BY <1>1, <1>2, <1>3 DEF FixedCodes

-----------------------------------------------------------------------------
(* The generated C code beside the Go codec. *)

(* Setting the bits above the sign bit is extending the sign: c is less    *)
(* than 2^b, and the word is cut to the size of its type.                  *)
LEMMA SignExtensions ==
  ASSUME NEW s \in 1..Word, NEW b \in 1..(s - 1), NEW c \in 0..(2 ^ b - 1)
  PROVE  bp_sign_ext(c, b, s) = ToSigned(c, b)
  <1>0. /\ b \in Nat \ {0} /\ s \in Nat \ {0} /\ b < s /\ Word \in Nat
        /\ Word - s \in Nat /\ Word = s + (Word - s)
    BY Constants
  <1> PICK p, m \in Nat \ {0} : p = 2 ^ (b - 1) /\ m = 2 ^ b /\ m = 2 * p
    BY <1>0, HalfPower
  <1> PICK t \in Nat : t = Word - s /\ Word = s + t
    BY <1>0
  <1> PICK n, q, w \in Nat \ {0} : n = 2 ^ s /\ q = 2 ^ t /\ w = 2 ^ Word /\ w = n * q
    <2>1. 2 ^ (s + t) = 2 ^ s * 2 ^ t
      BY <1>0, PowerSum
    <2>2. 2 ^ s \in Nat \ {0} /\ 2 ^ t \in Nat \ {0} /\ 2 ^ Word \in Nat \ {0}
      BY <1>0, PowerPositive
    <2> QED BY <2>1, <2>2
  <1>1. c \in 0..(m - 1) /\ c \in Int
    OBVIOUS
  <1>2. SignedRange(b) = (-p)..(p - 1) /\ SignedRange(b) \subseteq SignedRange(s)
    BY <1>0, WiderRange DEF SignedRange
  <1>3. bp_sign_ext(c, b, s) = ToSigned(IF c \div p # 0 THEN c + (w - m) ELSE c, s)
    BY <1>0 DEF bp_sign_ext
  <1>4. c \div p # 0 <=> c >= p
    <2> PICK d, r : d = c \div p /\ r = c % p
      OBVIOUS
    <2>0. c \in Nat
      BY <1>1
    <2>1. d \in Nat /\ r \in 0..(p - 1) /\ c = p * d + r
      BY <2>0, DivMod
    <2>2. d # 0 => c >= p
      BY <1>1, <2>1
    <2> QED BY <2>1, <2>2
  <1>5. CASE c < p
    <2>1. c \in SignedRange(b) /\ c \in SignedRange(s)
      BY <1>1, <1>2, <1>5
    <2>2. ToSigned(c, b) = c /\ ToSigned(c, s) = c
      BY <1>0, <2>1, ToSignedId
    <2> QED BY <1>1, <1>3, <1>4, <1>5, <2>2
  <1>6. CASE c >= p
    <2> PICK y \in Int : y = c - m
      BY <1>1
    <2>1. y \in SignedRange(b) /\ y \in SignedRange(s)
      BY <1>1, <1>2, <1>6
    <2> PICK x \in Int : x = c + (w - m)
      BY <1>1
    <2>2. x = y + n * q /\ c = y + m
      BY <1>1
    <2>3. (y + n * q) % n = y % n
      <3>1. ASSUME NEW z \in Int PROVE (z + n * q) % n = z % n
        <4>1. q \in Int /\ n \in Nat \ {0}
          OBVIOUS
        <4> QED BY <4>1, ModShift, ZenonT(30)
      <3> QED BY <3>1
    <2>4. (y + m) % m = y % m
      <3> PICK one \in Int : one = 1
        OBVIOUS
      <3>1. (y + m * one) % m = y % m
        BY ModShift, ZenonT(30)
      <3>2. m * one = m
        OBVIOUS
      <3> QED BY <3>1, <3>2
    <2>5. ToUnsigned(c, b) = ToUnsigned(y, b) /\ ToUnsigned(x, s) = ToUnsigned(y, s)
      BY <2>2, <2>3, <2>4 DEF ToUnsigned
    <2>6. ToSigned(c, b) = y
      BY <1>0, <1>1, <2>1, <2>5, ToSignedIs
    <2>7. ToSigned(x, s) = y
      BY <1>0, <2>1, <2>5, ToSignedIs
    <2> QED BY <1>3, <1>4, <1>6, <2>6, <2>7
  <1> QED BY <1>1, <1>5, <1>6

(* What holds of the fixed-point fields in every state. *)
FixedInv == kind \in FixedKinds =>
  /\ bits \in 1..Word /\ places \in DecimalPlaces /\ v \in Int
  /\ phase \in {"written", "read"} => code \in FixedCodes(kind, bits, eff, Scaled(v, places))
  /\ phase = "read" => out = FixedDecoded(kind, bits, places, code)

LEMMA FixedInit == ScalarInit => FixedInv
  <1>1. ASSUME Init PROVE FixedInv
    BY <1>1, Constants DEF Init, FixedInv
  <1>2. ASSUME FloatInit PROVE FixedInv
    <2> SUFFICES ASSUME kind \in FixedKinds PROVE FixedInv
      BY DEF FixedInv
    <2>1. kind # "half" /\ phase = "start"
      BY <1>2 DEF FloatInit, FixedKinds
    <2>2. bits \in 1..(IF IsDouble(kind) THEN Word ELSE Half) /\ places \in DecimalPlaces /\ v \in FixedValues
      BY <1>2, <2>1 DEF FloatInit
    <2>3. bits \in 1..Word
      BY <2>2, Constants
    <2> QED BY <2>1, <2>2, <2>3, NumbersAssumption DEF FixedInv
  <1> QED BY <1>1, <1>2 DEF ScalarInit

LEMMA FixedStep == FixedInv /\ [ScalarNext]_floatVars => FixedInv'
  <1> SUFFICES ASSUME FixedInv, [ScalarNext]_floatVars PROVE FixedInv'
    OBVIOUS
  <1>1. ASSUME IntNext PROVE FixedInv'
    <2>1. kind \notin FixedKinds /\ kind' = kind
      BY <1>1, Constants DEF IntNext, Next, Encode, Refuse, Decode, field
    <2> QED BY <2>1 DEF FixedInv
  <1>2. ASSUME EncodeFixed PROVE FixedInv'
    <2>1. UNCHANGED <<field, places>> /\ phase' = "written" /\ kind \in FixedKinds
      BY <1>2 DEF EncodeFixed
    <2>2. code' \in FixedCodes(kind, bits, eff, Scaled(v, places))
      BY <1>2 DEF EncodeFixed
    <2> QED BY <2>1, <2>2 DEF FixedInv, field
  <1>3. ASSUME RefuseFixed PROVE FixedInv'
    BY <1>3 DEF RefuseFixed, FixedInv, field
  <1>4. ASSUME EncodeHalf PROVE FixedInv'
    BY <1>4 DEF EncodeHalf, FixedInv, FixedKinds, field
  <1>5. ASSUME DecodeFloat PROVE FixedInv'
    BY <1>5 DEF DecodeFloat, FixedInv, FixedKinds, field
  <1>6. CASE UNCHANGED floatVars
    BY <1>6 DEF floatVars, vars, FixedInv
  <1> QED BY <1>1, <1>2, <1>3, <1>4, <1>5, <1>6 DEF ScalarNext

(* C writes what Go writes when Go checks nothing. *)
LEMMA CWrites ==
  ASSUME NEW k \in Kinds, NEW b \in 1..Size(k), NEW x \in ValuesOf(k)
  PROVE  CWritten(k, b, x) = Wire(Plain(k, x), b)
  <1>0. b \in Nat /\ b <= Size(k) /\ x \in Int
    <2> PICK s \in Nat \ {0} : s = Size(k) /\ s <= Word
      BY SizeType
    <2>1. b \in Nat /\ b <= s /\ b \in 1..Word
      BY Constants
    <2> QED BY <2>1, FitsIsExact
  <1>1. CASE k \in Uint
    BY <1>1 DEF CWritten, CWord, Wire, Plain, Unsigned, Uint, Int2c, Sint
  <1>2. CASE k \in Sint
    BY <1>2 DEF CWritten, CWord, Wire, Plain, Unsigned, Uint, Int2c, Sint
  <1>3. CASE k = "enum"
    BY <1>3 DEF CWritten, CWord, Wire, Plain, Unsigned, Uint, Int2c, Sint
  <1>4. CASE k = "int32"
    <2>1. CWord(k, x) = ToUnsigned(x, Half) /\ Plain(k, x) = x /\ Size(k) = Half
      BY <1>4 DEF CWord, Plain, Uint, Int2c, Sint, Size
    <2> QED BY <1>0, <2>1, Constants, ToUnsignedNarrow DEF CWritten, Wire
  <1>5. CASE k = "int64"
    <2>1. CWord(k, x) = ToUnsigned(x, Word) /\ Plain(k, x) = x /\ Size(k) = Word
      BY <1>5 DEF CWord, Plain, Uint, Int2c, Sint, Size
    <2> QED BY <1>0, <2>1, Constants, ToUnsignedNarrow DEF CWritten, Wire
  <1> QED BY <1>1, <1>2, <1>3, <1>4, <1>5, Constants DEF Int2c

(* C reads an integer as Go does. *)
LEMMA CReads ==
  ASSUME NEW k \in Kinds, NEW b \in 1..Size(k), NEW c \in 0..(2 ^ b - 1)
  PROVE  CRead(k, b, c) = Decoded(k, b, c)
  <1>1. CASE k \in Uint \cup Sint \cup {"enum"}
    BY <1>1 DEF CRead, Decoded, Uint, Int2c, Sint
  <1>2. CASE k \in Int2c
    <2> PICK s \in 1..Word : s = Size(k)
      BY SizeType
    <2>1. b \in 1..s
      OBVIOUS
    <2>2. CRead(k, b, c) = bp_sign_ext(c, b, s)
      BY <1>2 DEF CRead, Uint, Int2c, Sint
    <2>3. Decoded(k, b, c) = ToSigned(IF b < s THEN ToSigned(c, b) ELSE c, s)
      BY <1>2 DEF Decoded, SignExtend, Uint, Int2c, Sint
    <2>4. CASE b < s
      <3>1. b \in 1..(s - 1) /\ b \in Nat \ {0} /\ s \in Nat \ {0} /\ c \in Int
        BY <2>1, <2>4, PowerType
      <3>2. bp_sign_ext(c, b, s) = ToSigned(c, b)
        BY <3>1, SignExtensions
      <3>3. ToSigned(c, b) \in SignedRange(s)
        BY <2>4, <3>1, ToSignedKeepsBits, WiderRange
      <3>4. ToSigned(ToSigned(c, b), s) = ToSigned(c, b)
        BY <3>1, <3>3, ToSignedId
      <3> QED BY <2>2, <2>3, <2>4, <3>2, <3>4
    <2>5. CASE ~(b < s)
      BY <2>1, <2>2, <2>3, <2>5 DEF bp_sign_ext
    <2> QED BY <2>4, <2>5
  <1> QED BY <1>1, <1>2, Constants

(* What Go and the generated C code make of one scalar is the same: the    *)
(* integers of every width, and the fixed-point numbers in range of every  *)
(* width but the full one.                                                 *)
THEOREM CAgreesAlways == ScalarSpec => []CAgrees
  <1>1. ASSUME IInv, kind \in Kinds, use = "value", bits <= Size(kind)
        PROVE  /\ phase \in {"written", "read"} /\ (eff = "MODULO" \/ ~Overflows(kind, use, bits, v))
                    => CWritten(kind, bits, v) = code
               /\ phase = "read" => CRead(kind, bits, code) = out
    <2>0. FieldInv /\ CodeInv /\ OutInv /\ bits \in 1..Word /\ v \in ValuesOf(kind)
      BY <1>1 DEF IInv, FieldInv
    <2>1. bits \in 1..Size(kind)
      BY <1>1, <2>0, SizeType
    <2>2. CWritten(kind, bits, v) = Wire(Plain(kind, v), bits)
      BY <1>1, <2>0, <2>1, CWrites
    <2>3. ASSUME phase \in {"written", "read"}, eff = "MODULO" \/ ~Overflows(kind, use, bits, v)
          PROVE  code = Wire(Plain(kind, v), bits)
      <3>1. Wire(Wrap(kind, bits, v), bits) = Wire(Plain(kind, v), bits)
        BY <1>1, <2>0, WrapKeepsBits
      <3>2. Passed(kind, use, bits, eff, v) \in {Plain(kind, v), Wrap(kind, bits, v)}
        BY <2>3, PassedIs
      <3> QED BY <2>0, <2>3, <3>1, <3>2 DEF CodeInv
    <2>4. ASSUME phase = "read" PROVE CRead(kind, bits, code) = out
      <3>1. code \in 0..(2 ^ bits - 1)
        BY <1>1, <2>4, CodeIsCode
      <3> QED BY <1>1, <2>0, <2>1, <2>4, <3>1, CReads DEF OutInv
    <2> QED BY <2>2, <2>3, <2>4
  <1>2. ASSUME FixedInv, kind \in FixedKinds, bits < Word
        PROVE  /\ phase \in {"written", "read"} /\ ~FixedOverflows(kind, bits, Scaled(v, places))
                    => CFixedWritten(bits, places, v) = code
               /\ phase = "read" => CFixedRead(kind, bits, places, code) = out
    <2>0. /\ bits \in 1..(Word - 1) /\ Scaled(v, places) \in Int
          /\ phase \in {"written", "read"} => code \in FixedCodes(kind, bits, eff, Scaled(v, places))
          /\ phase = "read" => out = FixedDecoded(kind, bits, places, code)
      BY <1>2, Constants, ScaledType DEF FixedInv
    <2>1. CFixedWritten(bits, places, v) = ToUnsigned(Scaled(v, places), bits)
      BY DEF CFixedWritten, Scaled
    <2>2. ASSUME phase \in {"written", "read"}, ~FixedOverflows(kind, bits, Scaled(v, places))
          PROVE  code = ToUnsigned(Scaled(v, places), bits)
      BY <2>0, <2>2 DEF FixedCodes
    <2>3. ASSUME phase = "read" PROVE CFixedRead(kind, bits, places, code) = out
      <3>1. code \in 0..(2 ^ bits - 1)
        BY <2>0, <2>3, FixedCodesRange
      <3>2. bp_sign_ext(code, bits, Word) = ToSigned(code, bits)
        BY <2>0, <3>1, Constants, SignExtensions
      <3> QED BY <2>0, <2>3, <3>2 DEF CFixedRead, FixedDecoded, Raw
    <2> QED BY <2>1, <2>2, <2>3
  <1>3. IInv /\ FixedInv => CAgrees
    BY <1>1, <1>2 DEF CAgrees
  <1>4. ScalarSpec => []FixedInv
    BY FixedInit, FixedStep, PTL DEF ScalarSpec
  <1> QED BY <1>3, <1>4, Invariance, PTL

-----------------------------------------------------------------------------
(* Binary16: the bits that its two conversions keep.                       *)

(* Powers of two that are spelled out. *)
LEMMA Powers ==
  /\ 2 ^ 5 = 32 /\ 2 ^ 10 = 1024 /\ 2 ^ 11 = 2048 /\ 2 ^ 15 = 32 * 1024
  /\ 2 ^ 23 = 1024 * 2 ^ 13 /\ 2 ^ 24 = 2048 * 2 ^ 13
  <1> DEFINE P(n) == 2 ^ n
  <1>0. P(0) = 1
    OBVIOUS
  <1>1. \A n \in Nat : P(n + 1) = 2 * P(n)
    BY PowerStep
  <1>2. \A m, n \in Nat : P(m + n) = P(m) * P(n)
    BY PowerSum
  <1> HIDE DEF P
  <1>3. P(0+1) = 2 /\ P(1+1) = 4 /\ P(2+1) = 8 /\ P(3+1) = 16 /\ P(4+1) = 32
    BY <1>0, <1>1
  <1>4. P(5+1) = 64 /\ P(6+1) = 128 /\ P(7+1) = 256 /\ P(8+1) = 512 /\ P(9+1) = 1024
    BY <1>1, <1>3
  <1>5. P(10+1) = 2048
    BY <1>1, <1>4
  <1>6. P(5 + 10) = P(5) * P(10) /\ P(10 + 13) = P(10) * P(13) /\ P(11 + 13) = P(11) * P(13)
    BY <1>2
  <1>7. P(5) = 32 /\ P(10) = 1024 /\ P(11) = 2048
    BY <1>3, <1>4, <1>5
  <1>8. P(15) = 32 * 1024 /\ P(23) = 1024 * P(13) /\ P(24) = 2048 * P(13)
    BY <1>6, <1>7
  <1> QED BY <1>7, <1>8 DEF P

(* The fields of a binary16 are found again. *)
LEMMA HalfFields ==
  ASSUME NEW s, NEW e, NEW m, s \in {0, 1}, e \in 0..31, m \in 0..1023
  PROVE  /\ F16(s, e, m) \div 2 ^ 15 = s
         /\ (F16(s, e, m) \div 2 ^ 10) % 2 ^ 5 = e
         /\ F16(s, e, m) % 2 ^ 10 = m
  <1> PICK h \in Nat : h = (32 * s + e) * 1024 + m
    OBVIOUS
  <1>1. F16(s, e, m) = h
    BY Powers DEF F16
  <1>2. h \div (32 * 1024) = s /\ h % 1024 = m /\ h \div 1024 = 32 * s + e
    OBVIOUS
  <1>3. (32 * s + e) % 32 = e
    OBVIOUS
  <1> QED BY <1>1, <1>2, <1>3, Powers

(* Eleven bits once it is doubled i times, the first of them one.          *)
Leading(n, i) == n * 2 ^ i \in 2 ^ 10..(2 ^ 11 - 1)

(* What each of the conversions gives, by the exponent. *)
LEMMA Narrow ==
  ASSUME NEW f, f.exp \in 0..255
  PROVE  /\ f.exp = 255 => float32ToFloat16(f) = F16(f.sign, 31, IF f.mant # 0 THEN 1 ELSE 0)
         /\ f.exp \in 143..254 => float32ToFloat16(f) = F16(f.sign, 31, 0)
         /\ f.exp \in 113..142 => float32ToFloat16(f) = F16(f.sign, f.exp - 112, f.mant \div 2 ^ 13)
         /\ f.exp \in 102..112 =>
              float32ToFloat16(f) = F16(f.sign, 0, (f.mant + 2 ^ 23) \div 2 ^ (126 - f.exp))
         /\ f.exp < 102 => float32ToFloat16(f) = F16(f.sign, 0, 0)
  <1> PICK x \in 0..255 : x = f.exp
    OBVIOUS
  <1>1. 14 - (x - 127 + 15) = 126 - x
    OBVIOUS
  <1> QED BY <1>1, Powers DEF float32ToFloat16

Fraction(n, i) == (n * 2 ^ i - 2 ^ 10) * 2 ^ 13
Shift(n) == CHOOSE i \in 1..10 : Leading(n, i)
Wide(sign, x, n) ==
  CASE x = 31 -> F32(sign, 255, n)
    [] x = 0 /\ n = 0 -> F32(sign, 0, 0)
    [] x = 0 /\ n # 0 -> F32(sign, 1 - Shift(n) + 112, Fraction(n, Shift(n)))
    [] OTHER -> F32(sign, x + 112, n * 2 ^ 13)

LEMMA WideIs ==
  ASSUME NEW h
  PROVE  float16ToFloat32(h) = Wide(h \div 2 ^ 15, (h \div 2 ^ 10) % 2 ^ 5, h % 2 ^ 10)
  BY Zenon DEF float16ToFloat32, Leading, Shift, Wide, Fraction

LEMMA Widen ==
  ASSUME NEW s, NEW e, NEW m
  PROVE  /\ e = 31 => Wide(s, e, m) = F32(s, 255, m)
         /\ e \in 1..30 => Wide(s, e, m) = F32(s, e + 112, m * 2 ^ 13)
         /\ e = 0 /\ m = 0 => Wide(s, e, m) = F32(s, 0, 0)
         /\ e = 0 /\ m # 0 =>
              Wide(s, e, m) = F32(s, 1 - Shift(m) + 112, Fraction(m, Shift(m)))
  <1>3. 0 # 31
    OBVIOUS
  <1>4. ASSUME e = 31 PROVE Wide(s, e, m) = F32(s, 255, m)
    <2>1. e # 0
      BY <1>3, <1>4
    <2> QED BY <2>1, <1>4, Zenon DEF Wide
  <1>5. ASSUME e = 0, m = 0 PROVE Wide(s, e, m) = F32(s, 0, 0)
    BY <1>3, <1>5, Zenon DEF Wide
  <1>6. ASSUME e = 0, m # 0
        PROVE  Wide(s, e, m) = F32(s, 1 - Shift(m) + 112, Fraction(m, Shift(m)))
    <2>1. e # 31
      BY <1>3, <1>6
    <2> QED BY <2>1, <1>6, Zenon DEF Wide
  <1>7. ASSUME e # 31, e # 0 PROVE Wide(s, e, m) = F32(s, e + 112, m * 2 ^ 13)
    BY <1>7, Zenon DEF Wide
  <1>8. e \in 1..30 => e # 31 /\ e # 0
    OBVIOUS
  <1> QED BY <1>4, <1>5, <1>6, <1>7, <1>8

(* A product orders like its factors. *)
LEMMA TimesMonotone ==
  ASSUME NEW a \in Int, NEW b \in Int, NEW c \in Nat
  PROVE  /\ a <= b => a * c <= b * c
         /\ a * c < b * c => a < b
  <1>1. a <= b => a * c <= b * c
    <2> SUFFICES ASSUME a <= b PROVE a * c <= b * c
      OBVIOUS
    <2> PICK d \in Nat : b = a + d
      <3>1. b - a \in Nat /\ b = a + (b - a)
        OBVIOUS
      <3> QED BY <3>1
    <2>1. (a + d) * c = a * c + d * c /\ d * c >= 0
      OBVIOUS
    <2> QED BY <2>1
  <1>2. b <= a => b * c <= a * c
    <2> SUFFICES ASSUME b <= a PROVE b * c <= a * c
      OBVIOUS
    <2> PICK d \in Nat : a = b + d
      <3>1. a - b \in Nat /\ a = b + (a - b)
        OBVIOUS
      <3> QED BY <3>1
    <2>1. (b + d) * c = b * c + d * c /\ d * c >= 0
      OBVIOUS
    <2> QED BY <2>1
  <1>3. a * c \in Int /\ b * c \in Int
    OBVIOUS
  <1> QED BY <1>1, <1>2, <1>3

(* A number that falls between 2^10 and 2^11 when it is doubled i times     *)
(* does so for no other number of times.                                   *)
LEMMA ShiftIsUnique ==
  ASSUME NEW m \in Nat, NEW i \in 1..10, Leading(m, i),
         NEW j \in 1..10, Leading(m, j)
  PROVE  j = i
  <1> DEFINE In(a) == Leading(m, a)
  <1>1. ASSUME NEW a \in 1..10, NEW b \in 1..10, a < b, In(a), In(b)
        PROVE  FALSE
    <2>0. a \in Nat /\ b \in Nat /\ a <= b /\ a < b
      BY <1>1
    <2>1. 2 ^ a \in Nat /\ 2 ^ b \in Nat /\ 2 * 2 ^ a <= 2 ^ b
      BY <2>0, PowerType, PowerMonotone
    <2>2. ASSUME NEW x \in Nat, NEW y \in Nat, 2 * x <= y, m * x >= 1024
          PROVE  m * y >= 2048
      <3>1. (2 * x) * m <= y * m
        <4>1. 2 * x \in Int /\ y \in Int
          OBVIOUS
        <4> QED BY <2>2, <4>1, TimesMonotone
      <3>2. (2 * x) * m = 2 * (m * x) /\ y * m = m * y
        OBVIOUS
      <3> QED BY <2>2, <3>1, <3>2
    <2>3. m * 2 ^ a >= 1024 /\ m * 2 ^ b \in 1024..2047
      BY <1>1, Powers DEF Leading
    <2> DEFINE x == 2 ^ a
               y == 2 ^ b
    <2>4. x \in Nat /\ y \in Nat /\ 2 * x <= y /\ m * x >= 1024 /\ m * y \in 1024..2047
      BY <2>1, <2>3
    <2> HIDE DEF x, y
    <2>5. m * y >= 2048
      BY <2>2, <2>4
    <2> QED BY <2>4, <2>5
  <1>2. In(i) /\ In(j)
    OBVIOUS
  <1> HIDE DEF In
  <1>3. ~(i < j) /\ ~(j < i)
    BY <1>1, <1>2
  <1> QED BY <1>3

(* The leading bits of a mantissa x: m is x without its low bits, and r    *)
(* times m is between 2^10 and 2^11, as x is between K and 2 * K.           *)
LEMMA LeadingBits ==
  ASSUME NEW B \in Nat \ {0}, NEW K \in Nat, K = 1024 * B,
         NEW p \in Nat \ {0}, NEW q \in Nat \ {0}, NEW r \in Nat \ {0},
         p = r * B, q * r = 1024,
         NEW x \in Nat, K <= x, x < 2 * K,
         NEW m \in Nat, NEW c \in Nat, x = p * m + c, c < p
  PROVE  m * r \in 1024..2047 /\ (m * r - 1024) * B = (x - c) - K
  <1> PICK z \in Nat : z = m * r
    OBVIOUS
  <1>1. p * m = z * B
    OBVIOUS
  <1>2. z < 2048
    <2>1. z * B < 2048 * B
      BY <1>1
    <2> QED BY <2>1, TimesMonotone
  <1>3. 1024 <= z
    <2>1. 1024 * B < (z + r) * B
      <3>1. (z + r) * B = z * B + r * B
        OBVIOUS
      <3> QED BY <1>1, <3>1
    <2>2. q * r < (m + 1) * r
      <3>1. 1024 < z + r
        BY <2>1, TimesMonotone
      <3>2. (m + 1) * r = z + r
        OBVIOUS
      <3> QED BY <3>1, <3>2
    <2>3. q < m + 1
      BY <2>2, TimesMonotone
    <2>4. q * r <= m * r
      BY <2>3, TimesMonotone
    <2> QED BY <2>4
  <1>4. (z - 1024) * B = z * B - 1024 * B
    OBVIOUS
  <1> QED BY <1>1, <1>2, <1>3, <1>4

Float32 == [sign : {0, 1}, exp : 0..255, mant : 0..(2 ^ 23 - 1)]

LEMMA FieldsIn ==
  ASSUME NEW S, NEW E, NEW M, NEW f, f \in [sign : S, exp : E, mant : M]
  PROVE  f.sign \in S /\ f.exp \in E /\ f.mant \in M
  OBVIOUS

LEMMA FieldsOf ==
  ASSUME NEW f, f \in Float32
  PROVE  f.sign \in {0, 1} /\ f.exp \in 0..255 /\ f.mant \in 0..(2 ^ 23 - 1)
  BY FieldsIn, Zenon DEF Float32

(* A code below the normal ones is read with its leading bit removed.      *)
LEMMA SubnormalRead ==
  ASSUME NEW s, NEW m, NEW i, s \in {0, 1}, m \in 0..1023, m # 0, i \in 1..10, Leading(m, i)
  PROVE  Shift(m) = i /\ float16ToFloat32(F16(s, 0, m)) = Wide(s, 0, m)
  <1>1. m \in Nat /\ 0 \in 0..31
    OBVIOUS
  <1>2. Shift(m) = i
    <2> DEFINE L(j) == Leading(m, j)
    <2>1. L(i)
      OBVIOUS
    <2>2. \A j \in 1..10 : L(j) => j = i
      BY <1>1, ShiftIsUnique
    <2>3. Shift(m) = CHOOSE j \in 1..10 : L(j)
      BY Zenon DEF Shift
    <2> HIDE DEF L
    <2> QED BY <2>1, <2>2, <2>3
  <1>3. /\ F16(s, 0, m) \div 2 ^ 15 = s
        /\ (F16(s, 0, m) \div 2 ^ 10) % 2 ^ 5 = 0
        /\ F16(s, 0, m) % 2 ^ 10 = m
    BY <1>1, HalfFields
  <1>4. float16ToFloat32(F16(s, 0, m)) = Wide(s, 0, m)
    BY <1>3, WideIs
  <1> QED BY <1>2, <1>4

(* What a mantissa keeps below binary16's normal numbers, and loses.       *)
Top(n, e) == (n + 2 ^ 23) \div 2 ^ (126 - e)
Cut(n, e) == (n + 2 ^ 23) % 2 ^ (126 - e)

(* A number below binary16's normal ones keeps its leading bits.           *)
Cuts(s, n, e) ==
  \E m \in 0..1023 :
    /\ Top(n, e) = m
    /\ float16ToFloat32(F16(s, 0, m)) = F32(s, e, n - Cut(n, e))
    /\ Top(n - Cut(n, e), e) = m

LEMMA HalfSubnormal ==
  ASSUME NEW e, NEW s, NEW n, e \in 103..112, s \in {0, 1}, n \in 0..(2 ^ 23 - 1)
  PROVE  Cuts(s, n, e)
  <1> DEFINE c == Cut(n, e)
             B == 2 ^ 13
             K == 2 ^ 23
             i == 113 - e
             p == 2 ^ (126 - e)
             q == 2 ^ (10 - i)
             r == 2 ^ i
             x == n + K
             m == x \div p
  <1>1. B \in Nat \ {0} /\ K \in Nat /\ K = 1024 * B
    BY PowerPositive, Powers
  <1>2. i \in 1..10 /\ i \in Nat /\ 10 - i \in Nat /\ i + 13 = 126 - e /\ (10 - i) + i = 10
        /\ 1 - i + 112 = e
    OBVIOUS
  <1> HIDE DEF i
  <1>3. p \in Nat \ {0} /\ q \in Nat \ {0} /\ r \in Nat \ {0} /\ r >= 2
    <2>1. 126 - e \in Nat /\ 1 \in Nat /\ 1 <= i /\ 2 ^ 1 = 2
      BY <1>2
    <2>2. 2 ^ 1 <= r
      BY <1>2, <2>1, PowerMonotone
    <2> QED BY <1>2, <2>1, <2>2, PowerPositive
  <1>4. p = r * B
    <2>1. 2 ^ (i + 13) = 2 ^ i * 2 ^ 13
      BY <1>2, PowerSum
    <2> QED BY <1>2, <2>1
  <1>5. q * r = 1024
    <2>1. 2 ^ ((10 - i) + i) = 2 ^ (10 - i) * 2 ^ i
      BY <1>2, PowerSum
    <2> QED BY <1>2, <2>1, Powers
  <1>6. x \in Nat /\ K <= x /\ x < 2 * K
    BY <1>1
  <1>7. c = x % p
    BY Zenon DEF Cut
  <1> HIDE DEF B, K, p, q, r, x, c
  <1>8. m \in Nat /\ c \in Nat /\ x = p * m + c /\ c < p
    <2>1. x \div p \in Nat /\ x % p \in 0..(p - 1) /\ x = p * (x \div p) + (x % p)
      BY <1>3, <1>6, DivMod
    <2>2. \A y \in 0..(p - 1) : y \in Nat /\ y < p
      BY <1>3
    <2> QED BY <1>7, <2>1, <2>2, Zenon
  <1> HIDE DEF m
  <1>9. m * r \in 1024..2047 /\ (m * r - 1024) * B = (x - c) - K
    BY <1>1, <1>3, <1>4, <1>5, <1>6, <1>8, LeadingBits, SMTT(30)
  <1>10. m # 0 /\ m \in 0..1023
    <2>1. m # 0
      BY <1>3, <1>9
    <2>2. 2 * m <= r * m /\ r * m = m * r
      <3>1. 2 \in Int /\ r \in Int /\ r * m = m * r
        BY <1>3, <1>8
      <3> QED BY <1>3, <1>8, <3>1, TimesMonotone
    <2> QED BY <1>8, <1>9, <2>1, <2>2
  <1>11. float16ToFloat32(F16(s, 0, m)) = F32(s, e, (m * r - 1024) * B)
    <2>1. Leading(m, i)
      BY <1>9, Powers DEF r, Leading
    <2>2. float16ToFloat32(F16(s, 0, m)) = F32(s, 1 - i + 112, Fraction(m, i))
      <3>1. Shift(m) = i /\ float16ToFloat32(F16(s, 0, m)) = Wide(s, 0, m)
        BY <1>2, <1>10, <2>1, SubnormalRead
      <3>2. \A k : k # 0 => Wide(s, 0, k) = F32(s, 1 - Shift(k) + 112, Fraction(k, Shift(k)))
        BY Widen
      <3> QED BY <1>10, <3>1, <3>2
    <2> QED BY <1>2, <2>2, Powers DEF r, B, Fraction
  <1>12. x - c - K = n - c /\ n - c + K = p * m /\ n - c \in 0..(K - 1)
    <2>1. n - c + K = p * m /\ x - c - K = n - c
      <3>1. x = n + K /\ n \in Int
        BY DEF x
      <3>2. p * m \in Int
        BY <1>3, <1>8
      <3> QED BY <1>1, <1>8, <3>1, <3>2
    <2>2. n - c = (m * r - 1024) * B
      BY <1>9, <2>1
    <2>3. m * r - 1024 \in Nat
      BY <1>9
    <2>4. n - c >= 0
      BY <1>1, <2>2, <2>3
    <2> QED BY <1>1, <1>8, <2>1, <2>4 DEF K
  <1>13. (p * m) \div p = m
    <2>1. 0 \in 0..(p - 1) /\ p * m + 0 = p * m /\ m \in Int
      BY <1>3, <1>8
    <2>2. (p * m + 0) \div p = m
      BY <1>3, <2>1, ModUnique
    <2> QED BY <2>1, <2>2
  <1>14. /\ (n + 2 ^ 23) \div 2 ^ (126 - e) = m
         /\ float16ToFloat32(F16(s, 0, m)) = F32(s, e, n - c)
         /\ n - c \in 0..(2 ^ 23 - 1) /\ (n - c + 2 ^ 23) \div 2 ^ (126 - e) = m
    <2>1. (n + 2 ^ 23) \div 2 ^ (126 - e) = m
      BY DEF m, x, K, p
    <2>2. float16ToFloat32(F16(s, 0, m)) = F32(s, e, n - c)
      BY <1>9, <1>11, <1>12
    <2>3. n - c \in 0..(2 ^ 23 - 1) /\ (n - c + 2 ^ 23) \div 2 ^ (126 - e) = m
      BY <1>12, <1>13 DEF K, p
    <2> QED BY <2>1, <2>2, <2>3
  <1> QED BY <1>10, <1>14, Zenon DEF c, Top, Cuts

Up(m) == m * 2 ^ 13

(* A code that is not subnormal is read by its fields.                     *)
LEMMA HalfRead ==
  ASSUME NEW s, NEW e, NEW m, s \in {0, 1}, e \in 0..31, m \in 0..1023
  PROVE  /\ e = 31 => float16ToFloat32(F16(s, e, m)) = F32(s, 255, m)
         /\ e \in 1..30 => float16ToFloat32(F16(s, e, m)) = F32(s, e + 112, Up(m))
         /\ e = 0 /\ m = 0 => float16ToFloat32(F16(s, e, m)) = F32(s, 0, 0)
  <1>1. /\ F16(s, e, m) \div 2 ^ 15 = s
        /\ (F16(s, e, m) \div 2 ^ 10) % 2 ^ 5 = e
        /\ F16(s, e, m) % 2 ^ 10 = m
    BY HalfFields
  <1>2. float16ToFloat32(F16(s, e, m)) = Wide(s, e, m)
    BY <1>1, WideIs
  <1> QED BY <1>2, Widen DEF Up

(* A float32 that is packed into 16 bits and unpacked. *)
There(f) == float16ToFloat32(float32ToFloat16(f))

LEMMA FieldsOfF32 ==
  ASSUME NEW s, NEW e, NEW n
  PROVE  F32(s, e, n).sign = s /\ F32(s, e, n).exp = e /\ F32(s, e, n).mant = n
  BY DEF F32

LEMMA HalfSpecial ==
  ASSUME NEW f, f \in Float32
  PROVE  /\ f.exp = 255 => /\ There(f).sign = f.sign /\ There(f).exp = 255
                           /\ There(f).mant = 0 <=> f.mant = 0
                           /\ float32ToFloat16(There(f)) = float32ToFloat16(f)
         /\ f.exp \in 143..254 => /\ There(f).sign = f.sign /\ There(f).exp = 255
                                  /\ There(f).mant = 0
                                  /\ float32ToFloat16(There(f)) = float32ToFloat16(f)
  <1>1. f.sign \in {0, 1} /\ f.exp \in 0..255 /\ 31 \in 0..31 /\ 0 \in 0..1023 /\ 1 \in 0..1023
    BY FieldsOf
  <1>2. ASSUME NEW m, m \in {0, 1}, float32ToFloat16(f) = F16(f.sign, 31, m)
        PROVE  /\ There(f).sign = f.sign /\ There(f).exp = 255 /\ There(f).mant = m
               /\ float32ToFloat16(There(f)) = float32ToFloat16(f)
    <2>1. There(f) = F32(f.sign, 255, m)
      <3>1. m \in 0..1023
        BY <1>2
      <3> QED BY <1>1, <1>2, <3>1, HalfRead DEF There
    <2>2. There(f).sign = f.sign /\ There(f).exp = 255 /\ There(f).mant = m
      BY <2>1, FieldsOfF32
    <2>3. float32ToFloat16(There(f)) = F16(f.sign, 31, IF m # 0 THEN 1 ELSE 0)
      <3>1. There(f).exp \in 0..255
        BY <2>2
      <3> QED BY <2>2, <3>1, Narrow
    <2> QED BY <1>2, <2>2, <2>3
  <1>3. ASSUME f.exp = 255 PROVE float32ToFloat16(f) = F16(f.sign, 31, IF f.mant # 0 THEN 1 ELSE 0)
    BY <1>1, <1>3, Narrow
  <1>4. ASSUME f.exp \in 143..254 PROVE float32ToFloat16(f) = F16(f.sign, 31, 0)
    BY <1>1, <1>4, Narrow
  <1>5. CASE f.exp = 255
    <2>1. CASE f.mant # 0
      <3>1. float32ToFloat16(f) = F16(f.sign, 31, 1)
        BY <1>3, <1>5, <2>1
      <3> QED BY <1>2, <1>5, <2>1, <3>1
    <2>2. CASE f.mant = 0
      <3>1. float32ToFloat16(f) = F16(f.sign, 31, 0)
        BY <1>3, <1>5, <2>2
      <3> QED BY <1>2, <1>5, <2>2, <3>1
    <2> QED BY <2>1, <2>2
  <1>6. CASE f.exp \in 143..254
    BY <1>2, <1>4, <1>6
  <1> QED BY <1>5, <1>6

LEMMA HalfSmall ==
  ASSUME NEW f, f \in Float32, f.exp \in 0..102
  PROVE  /\ There(f).sign = f.sign /\ There(f).exp = 0 /\ There(f).mant = 0
         /\ float32ToFloat16(There(f)) = float32ToFloat16(f)
  <1>1. /\ f.sign \in {0, 1} /\ f.exp \in 0..255 /\ f.mant \in Nat /\ f.mant < 2 ^ 23
        /\ 0 \in 0..31 /\ 0 \in 0..1023
    BY FieldsOf, PowerType
  <1>2. float32ToFloat16(f) = F16(f.sign, 0, 0)
    <2>1. CASE f.exp < 102
      BY <1>1, <2>1, Narrow
    <2>2. CASE f.exp = 102
      <3>1. (f.mant + 2 ^ 23) \div 2 ^ 24 = 0
        <4> PICK x, k \in Nat : x = f.mant + 2 ^ 23 /\ k = 2 ^ 24 /\ x < k
          <5>1. 2 ^ 24 = 2 * 2 ^ 23 /\ 2 ^ 23 \in Nat /\ 2 ^ 24 \in Nat
            BY Powers, PowerType
          <5> QED BY <1>1, <5>1
        <4>1. x \div k = 0
          OBVIOUS
        <4> QED BY <4>1
      <3>2. 126 - f.exp = 24
        BY <2>2
      <3>3. float32ToFloat16(f) = F16(f.sign, 0, (f.mant + 2 ^ 23) \div 2 ^ (126 - f.exp))
        <4>1. f.exp \in 102..112
          BY <2>2
        <4> QED BY <1>1, <4>1, Narrow, Zenon
      <3> QED BY <3>1, <3>2, <3>3
    <2> QED BY <2>1, <2>2
  <1>3. There(f) = F32(f.sign, 0, 0)
    BY <1>1, <1>2, HalfRead DEF There
  <1>4. There(f).sign = f.sign /\ There(f).exp = 0 /\ There(f).mant = 0
    BY <1>3, FieldsOfF32
  <1>5. float32ToFloat16(There(f)) = F16(f.sign, 0, 0)
    BY <1>4, Narrow
  <1> QED BY <1>2, <1>4, <1>5

LEMMA HalfDenormal ==
  ASSUME NEW f, f \in Float32, f.exp \in 103..112
  PROVE  /\ There(f).sign = f.sign /\ There(f).exp = f.exp
         /\ There(f).mant = f.mant - ((f.mant + 2 ^ 23) % 2 ^ (126 - f.exp))
         /\ float32ToFloat16(There(f)) = float32ToFloat16(f)
  <1>1. f.sign \in {0, 1} /\ f.exp \in 0..255 /\ f.mant \in 0..(2 ^ 23 - 1) /\ f.exp \in 102..112
    BY FieldsOf
  <1>2. ASSUME NEW g, g.exp = f.exp
        PROVE  float32ToFloat16(g) = F16(g.sign, 0, Top(g.mant, f.exp))
    <2>1. g.exp \in 0..255 /\ g.exp \in 102..112
      BY <1>1, <1>2
    <2>2. float32ToFloat16(g) = F16(g.sign, 0, Top(g.mant, g.exp))
      BY <2>1, Narrow, Zenon DEF Top
    <2> QED BY <1>2, <2>2
  <1> PICK m \in 0..1023 :
           /\ Top(f.mant, f.exp) = m
           /\ float16ToFloat32(F16(f.sign, 0, m)) = F32(f.sign, f.exp, f.mant - Cut(f.mant, f.exp))
           /\ Top(f.mant - Cut(f.mant, f.exp), f.exp) = m
    <2>1. Cuts(f.sign, f.mant, f.exp)
      BY <1>1, HalfSubnormal
    <2> QED BY <2>1 DEF Cuts
  <1>3. float32ToFloat16(f) = F16(f.sign, 0, m)
    BY <1>2
  <1>4. There(f) = F32(f.sign, f.exp, f.mant - Cut(f.mant, f.exp))
    BY <1>3 DEF There
  <1>5. /\ There(f).sign = f.sign /\ There(f).exp = f.exp
        /\ There(f).mant = f.mant - Cut(f.mant, f.exp)
    BY <1>4, FieldsOfF32
  <1>6. float32ToFloat16(There(f)) = F16(f.sign, 0, m)
    BY <1>2, <1>5
  <1> QED BY <1>3, <1>5, <1>6, Zenon DEF Cut

LEMMA HalfNormal ==
  ASSUME NEW f, f \in Float32, f.exp \in 113..142
  PROVE  /\ There(f).sign = f.sign /\ There(f).exp = f.exp
         /\ There(f).mant = f.mant - (f.mant % 2 ^ 13)
         /\ float32ToFloat16(There(f)) = float32ToFloat16(f)
  <1> DEFINE B == 2 ^ 13
             K == 2 ^ 23
             s == f.sign
             e == f.exp
             n == f.mant
             m == n \div B
             c == n % B
  <1>0. B \in Nat \ {0} /\ K \in Nat /\ K = 1024 * B
    BY PowerPositive, PowerType, Powers
  <1>1. s \in {0, 1} /\ e \in 0..255 /\ n \in 0..(K - 1) /\ e \in 113..142
    BY FieldsOf
  <1>2. float32ToFloat16(f) = F16(s, e - 112, m)
    BY <1>1, Narrow, Zenon
  <1>3. ASSUME NEW g, g.exp = e
        PROVE  float32ToFloat16(g) = F16(g.sign, e - 112, g.mant \div B)
    <2>1. g.exp \in 0..255 /\ g.exp \in 113..142
      BY <1>1, <1>3
    <2>2. float32ToFloat16(g) = F16(g.sign, g.exp - 112, g.mant \div 2 ^ 13)
      BY <2>1, Narrow, Zenon
    <2> QED BY <1>3, <2>2
  <1>4. ASSUME m \in 0..1023
        PROVE  There(f) = F32(s, e, m * B)
    <2>1. e - 112 \in 0..31 /\ e - 112 \in 1..30 /\ e - 112 + 112 = e
      BY <1>1
    <2>2. float16ToFloat32(F16(s, e - 112, m)) = F32(s, e - 112 + 112, m * B)
      <3>1. float16ToFloat32(F16(s, e - 112, m)) = F32(s, e - 112 + 112, Up(m))
        BY <1>1, <1>4, <2>1, HalfRead
      <3> QED BY <3>1, Zenon DEF Up
    <2> QED BY <1>2, <2>1, <2>2 DEF There
  <1> HIDE DEF B, K, s, e, n
  <1>5. m \in Nat /\ c \in Nat /\ n = B * m + c /\ c < B
    <2>0. n \in Nat
      BY <1>0, <1>1
    <2>1. n \div B \in Nat /\ n % B \in 0..(B - 1) /\ n = B * (n \div B) + (n % B)
      BY <1>0, <2>0, DivMod
    <2>2. \A y \in 0..(B - 1) : y \in Nat /\ y < B
      BY <1>0
    <2> QED BY <2>1, <2>2, Zenon
  <1> HIDE DEF m, c
  <1>6. m \in 0..1023
    <2>1. m * B < 1024 * B
      <3>1. m * B = B * m /\ m * B \in Int
        BY <1>0, <1>5
      <3> QED BY <1>0, <1>1, <1>5, <3>1
    <2> QED BY <1>0, <1>5, <2>1, TimesMonotone
  <1>7. There(f).sign = s /\ There(f).exp = e /\ There(f).mant = m * B
    BY <1>4, <1>6, FieldsOfF32
  <1>8. m * B = n - c /\ (m * B) \div B = m
    <2>1. 0 \in 0..(B - 1) /\ B * m + 0 = m * B /\ m \in Int
      BY <1>0, <1>5
    <2>2. (B * m + 0) \div B = m
      BY <1>0, <2>1, ModUnique
    <2>3. m * B = B * m
      BY <1>0, <1>5
    <2> QED BY <1>0, <1>5, <2>1, <2>2, <2>3
  <1>9. float32ToFloat16(There(f)) = F16(s, e - 112, m)
    BY <1>3, <1>7, <1>8
  <1> QED BY <1>2, <1>7, <1>8, <1>9 DEF s, e, n, c, B

-----------------------------------------------------------------------------
HalfInv == kind = "half" =>
  /\ v \in Float32
  /\ phase \in {"written", "read"} => code = float32ToFloat16(v)
  /\ phase = "read" => out = There(v)

(* Binary16 cuts off the bits it has not, at every exponent of every        *)
(* float32, keeps sign, NaN and infinities, and is stable.                 *)
THEOREM HalfTruncatesAlways == ScalarSpec => []HalfTruncates
  <1>1. ScalarInit => HalfInv
    <2>1. ASSUME Init PROVE HalfInv
      BY <2>1, Constants DEF Init, HalfInv
    <2>2. ASSUME FloatInit PROVE HalfInv
      <3>1. kind = "half" => v \in HalfValues /\ phase = "start"
        BY <2>2 DEF FloatInit
      <3>2. HalfValues \subseteq Float32
        BY HalfValuesAssumption, Zenon DEF HalfValuesAssumption, Float32
      <3> QED BY <3>1, <3>2 DEF HalfInv
    <2> QED BY <2>1, <2>2 DEF ScalarInit
  <1>2. HalfInv /\ [ScalarNext]_floatVars => HalfInv'
    <2> SUFFICES ASSUME HalfInv, [ScalarNext]_floatVars PROVE HalfInv'
      OBVIOUS
    <2>1. ASSUME IntNext PROVE HalfInv'
      <3>1. kind # "half" /\ kind' = kind
        BY <2>1, Constants DEF IntNext, Next, Encode, Refuse, Decode, field
      <3> QED BY <3>1 DEF HalfInv
    <2>2. ASSUME EncodeFixed PROVE HalfInv'
      <3>1. kind # "half" /\ kind' = kind
        BY <2>2 DEF EncodeFixed, FixedKinds, field
      <3> QED BY <3>1 DEF HalfInv
    <2>3. ASSUME RefuseFixed PROVE HalfInv'
      <3>1. kind # "half" /\ kind' = kind
        BY <2>3 DEF RefuseFixed, FixedKinds, field
      <3> QED BY <3>1 DEF HalfInv
    <2>4. ASSUME EncodeHalf PROVE HalfInv'
      BY <2>4 DEF EncodeHalf, HalfInv, field
    <2>5. ASSUME DecodeFloat PROVE HalfInv'
      BY <2>5 DEF DecodeFloat, HalfInv, field, There
    <2>6. CASE UNCHANGED floatVars
      BY <2>6 DEF floatVars, vars, HalfInv
    <2> QED BY <2>1, <2>2, <2>3, <2>4, <2>5, <2>6 DEF ScalarNext
  <1>3. HalfInv => HalfTruncates
    <2> SUFFICES ASSUME HalfInv, kind = "half", phase = "read" PROVE HalfTruncates
      BY DEF HalfTruncates
    <2> DEFINE lost == 13 + (IF v.exp < 113 THEN 113 - v.exp ELSE 0)
               kp == (v.mant + 2 ^ 23) - ((v.mant + 2 ^ 23) % 2 ^ lost)
    <2>1. v \in Float32 /\ code = float32ToFloat16(v) /\ out = There(v)
      BY DEF HalfInv
    <2>2. v.exp \in 0..255 /\ v.mant \in 0..(2 ^ 23 - 1)
      BY <2>1, FieldsOf
    <2>3. /\ float32ToFloat16(out) = code /\ out.sign = v.sign
          /\ v.exp = 255 => out.exp = 255 /\ (out.mant = 0 <=> v.mant = 0)
          /\ v.exp \in 143..254 => out.exp = 255 /\ out.mant = 0
          /\ v.exp \in 0..102 => out.exp = 0 /\ out.mant = 0
          /\ v.exp \in 103..112 => out.exp = v.exp /\
               out.mant = v.mant - ((v.mant + 2 ^ 23) % 2 ^ (126 - v.exp))
          /\ v.exp \in 113..142 => out.exp = v.exp /\ out.mant = v.mant - (v.mant % 2 ^ 13)
      <3>1. \/ v.exp = 255 \/ v.exp \in 143..254 \/ v.exp \in 0..102
            \/ v.exp \in 103..112 \/ v.exp \in 113..142
        BY <2>2
      <3>2. CASE v.exp = 255 \/ v.exp \in 143..254
        BY <2>1, <3>2, HalfSpecial
      <3>3. CASE v.exp \in 0..102
        BY <2>1, <3>3, HalfSmall
      <3>4. CASE v.exp \in 103..112
        BY <2>1, <3>4, HalfDenormal
      <3>5. CASE v.exp \in 113..142
        BY <2>1, <3>5, HalfNormal
      <3> QED BY <3>1, <3>2, <3>3, <3>4, <3>5
    <2>4. v.exp \in 103..112 => lost = 126 - v.exp
      BY <2>2
    <2>5. v.exp \in 113..142 => lost = 13
      BY <2>2
    <2>6. v.mant % 2 ^ 13 = (v.mant + 2 ^ 23) % 2 ^ 13
      <3>1. 2 ^ 23 = 2 ^ 13 * 1024 /\ 2 ^ 13 \in Nat \ {0} /\ v.mant \in Int /\ 1024 \in Int
        BY <2>2, Powers, PowerPositive
      <3>2. (v.mant + 2 ^ 13 * 1024) % 2 ^ 13 = v.mant % 2 ^ 13
        BY <3>1, ModShift
      <3> QED BY <3>1, <3>2
    <2>7. v.exp \in 103..142 => out.exp = v.exp /\ out.mant = kp - 2 ^ 23
      <3>1. v.exp \in 103..142 => out.exp = v.exp
                                 /\ out.mant = v.mant - ((v.mant + 2 ^ 23) % 2 ^ lost)
        BY <2>3, <2>4, <2>5, <2>6
      <3>2. 2 ^ 23 \in Nat /\ v.exp \in 103..142 => (v.mant + 2 ^ 23) % 2 ^ lost \in Int
        <4> SUFFICES ASSUME v.exp \in 103..142 PROVE (v.mant + 2 ^ 23) % 2 ^ lost \in Int
          BY PowerType
        <4>1. lost \in Nat
          BY <2>2
        <4>2. v.mant + 2 ^ 23 \in Nat /\ 2 ^ lost \in Nat \ {0}
          BY <2>2, <4>1, PowerType, PowerPositive
        <4>3. (v.mant + 2 ^ 23) % 2 ^ lost \in 0..(2 ^ lost - 1)
          BY <4>2, DivMod, Zenon
        <4> QED BY <4>2, <4>3
      <3> QED BY <2>2, <3>1, <3>2, PowerType
    <2>8. v.exp = 0 \/ lost > 23 <=> v.exp \in 0..102
      BY <2>2
    <2>9. v.exp # 255 /\ v.exp \notin 143..254 /\ v.exp \notin 0..102 => v.exp \in 103..142
      BY <2>2
    <2> HIDE DEF lost, kp
    <2>10. /\ float32ToFloat16(out) = code
           /\ out.sign = v.sign
           /\ CASE v.exp = 255 -> out.exp = 255 /\ (out.mant = 0 <=> v.mant = 0)
                [] v.exp \in 143..254 -> out.exp = 255 /\ out.mant = 0
                [] v.exp = 0 \/ lost > 23 -> out.exp = 0 /\ out.mant = 0
                [] OTHER -> out.exp = v.exp /\ out.mant = kp - 2 ^ 23
      BY <2>3, <2>7, <2>8, <2>9
    <2> QED BY <2>10 DEF HalfTruncates, lost, kp
  <1> QED BY <1>1, <1>2, <1>3, PTL DEF ScalarSpec

-----------------------------------------------------------------------------
(* What rounding does to a fixed-point number. *)

(* Rounding the magnitude m to a double, and one to a whole number.        *)
Ulp(m) == 2 ^ Exponent(PD, m)
ToDouble(m) == NearestEven(m, Ulp(m)) * Ulp(m)
ToUnit(y) == (y + 2 ^ (Grid - 1)) \div 2 ^ Grid

LEMMA MagnitudeType ==
  ASSUME NEW x \in Int
  PROVE  /\ MagnitudeOf(x) \in Nat /\ (x < 0 => MagnitudeOf(x) = -x)
         /\ (x >= 0 => MagnitudeOf(x) = x)
  BY DEF MagnitudeOf

LEMMA FlIs ==
  ASSUME NEW x \in Int
  PROVE  Fl(PD, x, 1) = IF x < 0 THEN -ToDouble(MagnitudeOf(x)) ELSE ToDouble(MagnitudeOf(x))
  <1> PICK m \in Nat : m = MagnitudeOf(x)
    BY MagnitudeType
  <1> PICK one : one = 1
    OBVIOUS
  <1>1. m \div one = m
    OBVIOUS
  <1>2. one * Ulp(m) = Ulp(m)
    <2>1. Ulp(m) \in Nat
      BY FormatTypes, ExponentType, PowerType DEF Ulp
    <2> QED BY <2>1
  <1>3. Fl(PD, x, one) = IF x < 0 THEN -(NearestEven(m, one * 2 ^ Exponent(PD, m \div one)) * 2 ^ Exponent(PD, m \div one))
                         ELSE NearestEven(m, one * 2 ^ Exponent(PD, m \div one)) * 2 ^ Exponent(PD, m \div one)
    BY Zenon DEF Fl
  <1>4. Fl(PD, x, one) = IF x < 0 THEN -ToDouble(m) ELSE ToDouble(m)
    BY <1>1, <1>2, <1>3, Zenon DEF Ulp, ToDouble
  <1> QED BY <1>4, Zenon

(* A number is rounded to a multiple of u not farther than half of u, and  *)
(* never past a multiple of u.                                             *)
LEMMA NearMultiple ==
  ASSUME NEW m \in Nat, NEW u \in Nat \ {0}
  PROVE  /\ NearestEven(m, u) * u \in Nat
         /\ 2 * (NearestEven(m, u) * u - m) <= u /\ 2 * (m - NearestEven(m, u) * u) <= u
         /\ \A k \in Nat : /\ m <= k * u => NearestEven(m, u) * u <= k * u
                           /\ m >= k * u => NearestEven(m, u) * u >= k * u
  <1> PICK q, c : q = m \div u /\ c = m % u
    OBVIOUS
  <1>1. q \in Nat /\ c \in 0..(u - 1) /\ m = u * q + c
    BY DivMod
  <1> PICK n \in Nat : /\ n = NearestEven(m, u)
                       /\ \/ n = q + 1 /\ 2 * c >= u
                          \/ n = q /\ 2 * c <= u
    <2>1. NearestEven(m, u) = IF 2 * c > u \/ (2 * c = u /\ q % 2 = 1) THEN q + 1 ELSE q
      BY DEF NearestEven
    <2>2. CASE 2 * c > u \/ (2 * c = u /\ q % 2 = 1)
      <3>1. NearestEven(m, u) = q + 1 /\ 2 * c >= u
        BY <1>1, <2>1, <2>2
      <3> QED BY <1>1, <3>1
    <2>3. CASE ~(2 * c > u \/ (2 * c = u /\ q % 2 = 1))
      <3>1. NearestEven(m, u) = q /\ 2 * c <= u
        BY <1>1, <2>1, <2>3
      <3> QED BY <1>1, <3>1
    <2> QED BY <2>2, <2>3
  <1> PICK y, z \in Nat : y = n * u /\ z = u * q
    BY <1>1
  <1>2. (y = z /\ 2 * c <= u) \/ (y = z + u /\ 2 * c >= u)
    <2>1. (q + 1) * u = u * q + u /\ q * u = u * q
      BY <1>1
    <2>2. CASE n = q + 1 /\ 2 * c >= u
      <3>1. n * u = (q + 1) * u
        BY <2>2
      <3> QED BY <2>1, <2>2, <3>1
    <2>3. CASE n = q /\ 2 * c <= u
      <3>1. n * u = q * u
        BY <2>3
      <3>2. y = z
        BY <2>1, <3>1
      <3> QED BY <2>3, <3>2
    <2> QED BY <2>2, <2>3
  <1>3. 2 * (y - m) <= u /\ 2 * (m - y) <= u
    BY <1>1, <1>2
  <1>4. ASSUME NEW k \in Nat
        PROVE  (m <= k * u => y <= k * u) /\ (m >= k * u => y >= k * u)
    <2> PICK t \in Nat : t = k * u
      OBVIOUS
    <2>1. ASSUME m <= t PROVE y <= t
      <3>1. n * u < (k + 1) * u
        <4>1. (k + 1) * u = t + u
          OBVIOUS
        <4> QED BY <1>3, <2>1, <4>1
      <3>2. n < k + 1
        BY <3>1, TimesMonotone
      <3>3. n * u <= k * u
        BY <3>2, TimesMonotone
      <3> QED BY <3>3
    <2>2. ASSUME m >= t PROVE y >= t
      <3>1. k * u < (n + 1) * u
        <4>1. (n + 1) * u = y + u
          OBVIOUS
        <4> QED BY <1>3, <2>2, <4>1
      <3>2. k < n + 1
        BY <3>1, TimesMonotone
      <3>3. k * u <= n * u
        BY <3>2, TimesMonotone
      <3> QED BY <3>3
    <2> QED BY <2>1, <2>2
  <1> QED BY <1>3, <1>4

LEMMA UlpIs ==
  ASSUME NEW m \in Nat
  PROVE  \E e \in Nat : /\ Ulp(m) = 2 ^ e /\ Ulp(m) \in Nat \ {0}
                        /\ e = 0 \/ m >= 2 ^ (PD + e - 1)
  <1>1. PD \in Nat
    BY FormatTypes
  <1> PICK e \in Nat : e = Exponent(PD, m) /\ (e = 0 \/ m >= 2 ^ (PD + e - 1))
    BY <1>1, ExponentType
  <1>2. 2 ^ e \in Nat \ {0}
    BY PowerPositive
  <1> QED BY <1>2 DEF Ulp

(* A smaller power of two divides a larger one. *)
LEMMA PowerDivides ==
  ASSUME NEW a \in Nat, NEW b \in Nat, a <= b
  PROVE  \E k \in Nat \ {0} : 2 ^ b = k * 2 ^ a
  <1>1. b - a \in Nat /\ b = (b - a) + a
    OBVIOUS
  <1>2. 2 ^ ((b - a) + a) = 2 ^ (b - a) * 2 ^ a
    BY <1>1, PowerSum
  <1> QED BY <1>1, <1>2, PowerPositive

(* Beyond the numbers a double holds exactly, they are at least 2^(PD + e). *)
LEMMA UlpLarge ==
  ASSUME NEW e \in Nat, NEW g \in Nat, e > g
  PROVE  2 ^ (PD + g) <= 2 ^ (PD + e - 1) /\ 2 ^ (PD + g) \in Nat /\ 2 ^ (PD + e - 1) \in Nat
  <1>1. PD + g \in Nat /\ PD + e - 1 \in Nat /\ PD + g <= PD + e - 1
    BY FormatTypes
  <1> QED BY <1>1, PowerMonotone, PowerType

(* Rounding a number on the grid to a double does not pass an integer that *)
(* a double holds.                                                         *)
LEMMA DoubleBounds ==
  ASSUME NEW m \in Nat, NEW n \in Nat
  PROVE  /\ ToDouble(m) \in Nat
         /\ m <= n * 2 ^ Grid /\ n < 2 ^ PD =>
              /\ ToDouble(m) <= n * 2 ^ Grid
              /\ 2 * (ToDouble(m) - m) <= 2 ^ Grid /\ 2 * (m - ToDouble(m)) <= 2 ^ Grid
         /\ m >= n * 2 ^ Grid /\ n <= 2 ^ PD => ToDouble(m) >= n * 2 ^ Grid
  <1> DEFINE U == 2 ^ Grid
             P == 2 ^ PD
             R == 2 ^ (PD + Grid)
             w == Ulp(m)
             y == ToDouble(m)
  <1>1. U \in Nat \ {0} /\ P \in Nat \ {0} /\ R = P * U /\ R \in Nat /\ Grid \in Nat /\ PD \in Nat \ {0}
    BY FormatTypes, PowerPositive, PowerSum
  <1> PICK e \in Nat : w = 2 ^ e /\ w \in Nat \ {0} /\ (e = 0 \/ m >= 2 ^ (PD + e - 1))
    BY UlpIs
  <1>2. /\ y \in Nat /\ 2 * (y - m) <= w /\ 2 * (m - y) <= w
        /\ \A k \in Nat : (m <= k * w => y <= k * w) /\ (m >= k * w => y >= k * w)
    BY NearMultiple DEF ToDouble
  <1>3. e > Grid => R <= m
    <2> SUFFICES ASSUME e > Grid PROVE R <= m
      OBVIOUS
    <2>1. R <= 2 ^ (PD + e - 1) /\ 2 ^ (PD + e - 1) \in Nat
      BY <1>1, UlpLarge
    <2> QED BY <1>1, <2>1
  <1>4. e <= Grid => w <= U /\ \E k \in Nat \ {0} : U = k * w
    <2> SUFFICES ASSUME e <= Grid PROVE w <= U /\ \E k \in Nat \ {0} : U = k * w
      OBVIOUS
    <2>1. w <= U
      BY <1>1, PowerMonotone
    <2>2. \E k \in Nat \ {0} : 2 ^ Grid = k * 2 ^ e
      BY <1>1, PowerDivides
    <2> QED BY <2>1, <2>2
  <1>5. e > Grid => y >= R
    <2> SUFFICES ASSUME e > Grid PROVE y >= R
      OBVIOUS
    <2>1. PD + e - 1 \in Nat /\ e <= PD + e - 1
      BY <1>1
    <2> PICK k \in Nat \ {0} : 2 ^ (PD + e - 1) = k * w
      BY <2>1, PowerDivides
    <2>2. y >= k * w
      <3>1. e # 0
        BY <1>1
      <3>2. m >= k * w
        BY <3>1
      <3>3. k \in Nat
        OBVIOUS
      <3> QED BY <1>2, <3>2, <3>3, Zenon
    <2>3. R <= k * w /\ k * w \in Nat
      BY <1>1, UlpLarge
    <2> QED BY <1>1, <1>2, <2>2, <2>3
  <1> HIDE DEF U, P, R, w, y
  <1>6. ASSUME m <= n * U, n < P
        PROVE  y <= n * U /\ 2 * (y - m) <= U /\ 2 * (m - y) <= U
    <2>1. n * U < R
      <3>1. (n + 1) * U <= P * U /\ (n + 1) * U = n * U + U
        BY <1>1, <1>6, TimesMonotone
      <3> QED BY <1>1, <3>1
    <2>2. e <= Grid
      BY <1>1, <1>3, <1>6, <2>1
    <2> PICK k \in Nat \ {0} : U = k * w /\ w <= U
      BY <1>4, <2>2
    <2>3. n * U = (n * k) * w /\ n * k \in Nat
      OBVIOUS
    <2>4. y <= (n * k) * w
      BY <1>2, <1>6, <2>3
    <2> QED BY <1>1, <1>2, <2>3, <2>4
  <1>7. ASSUME m >= n * U, n <= P
        PROVE  y >= n * U
    <2>1. n * U <= R
      BY <1>1, <1>7, TimesMonotone
    <2>2. CASE e > Grid
      BY <1>1, <1>2, <1>5, <2>1, <2>2
    <2>3. CASE e <= Grid
      <3> PICK k \in Nat \ {0} : U = k * w
        BY <1>4, <2>3
      <3>3. n * U = (n * k) * w /\ n * k \in Nat
        OBVIOUS
      <3>4. y >= (n * k) * w
        BY <1>2, <1>7, <3>3
      <3> QED BY <3>3, <3>4
    <2> QED BY <1>1, <2>2, <2>3
  <1> QED BY <1>2, <1>6, <1>7 DEF U, P, y

(* The integers up to 2^PD are doubles. *)
LEMMA DoubleExact ==
  ASSUME NEW n \in Nat, n <= 2 ^ PD
  PROVE  ToDouble(n) = n
  <1> DEFINE P == 2 ^ PD
             w == Ulp(n)
             y == ToDouble(n)
  <1>1. P \in Nat \ {0} /\ PD \in Nat \ {0} /\ 1 \in Nat /\ 0 \in Nat
    BY FormatTypes, PowerPositive
  <1> PICK e \in Nat : w = 2 ^ e /\ w \in Nat \ {0} /\ (e = 0 \/ n >= 2 ^ (PD + e - 1))
    BY UlpIs
  <1>2. /\ y \in Nat /\ 2 * (y - n) <= w /\ 2 * (n - y) <= w
        /\ \A k \in Nat : (n <= k * w => y <= k * w) /\ (n >= k * w => y >= k * w)
    BY NearMultiple DEF ToDouble
  <1>3. CASE e = 0
    <2>1. w = 1
      BY <1>3
    <2> QED BY <1>2, <2>1
  <1>4. CASE e # 0
    <2>1. n >= P
      <3>1. PD + 0 = PD
        BY <1>1
      <3>2. P <= 2 ^ (PD + e - 1) /\ 2 ^ (PD + e - 1) \in Nat
        BY <1>1, <1>4, <3>1, UlpLarge
      <3> QED BY <1>1, <1>4, <3>2
    <2>2. n = P
      BY <1>1, <2>1
    <2>3. e <= PD
      <3> SUFFICES ASSUME e > PD PROVE FALSE
        BY <1>1
      <3>1. 2 ^ (PD + PD) <= 2 ^ (PD + e - 1) /\ 2 ^ (PD + e - 1) \in Nat /\ 2 ^ (PD + PD) \in Nat
        BY <1>1, UlpLarge
      <3>2. PD + PD \in Nat /\ PD < PD + PD
        BY <1>1
      <3>3. 2 * P <= 2 ^ (PD + PD)
        BY <1>1, <3>2, PowerMonotone
      <3> QED BY <1>1, <1>4, <2>2, <3>1, <3>3
    <2> PICK k \in Nat \ {0} : P = k * w
      BY <1>1, <2>3, PowerDivides
    <2> HIDE DEF P, w, y
    <2>4. y <= k * w /\ y >= k * w
      BY <1>2, <2>2
    <2> QED BY <1>2, <2>2, <2>4 DEF y
  <1> QED BY <1>3, <1>4

(* Rounding to a whole number. *)
LEMMA UnitBounds ==
  ASSUME NEW y \in Nat, NEW n \in Nat
  PROVE  /\ ToUnit(y) \in Nat
         /\ 2 * (ToUnit(y) * 2 ^ Grid - y) <= 2 ^ Grid /\ 2 * (y - ToUnit(y) * 2 ^ Grid) <= 2 ^ Grid
         /\ y <= n * 2 ^ Grid => ToUnit(y) <= n
         /\ y >= n * 2 ^ Grid => ToUnit(y) >= n
  <1> PICK U, h \in Nat \ {0} : U = 2 ^ Grid /\ h = 2 ^ (Grid - 1) /\ U = 2 * h
    BY FormatTypes, HalfPower
  <1> PICK q, c : q = (y + h) \div U /\ c = (y + h) % U
    OBVIOUS
  <1>1. q \in Nat /\ c \in 0..(U - 1) /\ y + h = U * q + c
    <2> PICK z \in Nat : z = y + h
      OBVIOUS
    <2> QED BY DivMod
  <1>2. ToUnit(y) = q
    BY DEF ToUnit
  <1> PICK t \in Nat : t = q * U
    BY <1>1
  <1>3. y + h = t + c /\ c \in 0..(U - 1)
    BY <1>1
  <1>4. 2 * (t - y) <= U /\ 2 * (y - t) <= U
    <2>1. ASSUME NEW a \in Nat, NEW b \in Nat, NEW d \in Nat, NEW g \in Nat, a + d = b + g, g < 2 * d
          PROVE  2 * (b - a) <= 2 * d /\ 2 * (a - b) <= 2 * d
      BY <2>1
    <2>2. c \in Nat /\ c < 2 * h /\ y + h = t + c
      BY <1>1, <1>3
    <2>3. 2 * (t - y) <= 2 * h /\ 2 * (y - t) <= 2 * h
      BY <2>1, <2>2
    <2> QED BY <1>1, <2>3
  <1> PICK s \in Nat : s = n * U
    OBVIOUS
  <1>5. ASSUME y <= s PROVE q <= n
    <2>1. q * U < (n + 1) * U
      <3>1. (n + 1) * U = s + U
        OBVIOUS
      <3> QED BY <1>1, <1>3, <1>5, <3>1
    <2>2. q < n + 1
      BY <1>1, <2>1, TimesMonotone
    <2> QED BY <1>1, <2>2
  <1>6. ASSUME y >= s PROVE q >= n
    <2>1. n * U < (q + 1) * U
      <3>1. (q + 1) * U = t + U
        BY <1>1
      <3> QED BY <1>1, <1>3, <1>6, <3>1
    <2>2. n < q + 1
      BY <1>1, <2>1, TimesMonotone
    <2> QED BY <1>1, <2>2
  <1> QED BY <1>1, <1>2, <1>4, <1>5, <1>6

(* A number on the grid, rounded to a double and then to a whole number.   *)
Whole(x) == Round(Fl(PD, x, 1))

LEMMA WholeIs ==
  ASSUME NEW x \in Int
  PROVE  /\ Whole(x) = IF x < 0 THEN -ToUnit(ToDouble(MagnitudeOf(x)))
                       ELSE ToUnit(ToDouble(MagnitudeOf(x)))
         /\ Whole(x) \in Int
  <1> PICK m \in Nat : m = MagnitudeOf(x)
    BY MagnitudeType
  <1> PICK y \in Nat : y = ToDouble(m)
    BY DoubleBounds
  <1>1. Fl(PD, x, 1) = IF x < 0 THEN -y ELSE y
    BY FlIs
  <1>2. \A z \in Int : Round(z) = IF z < 0 THEN -ToUnit(MagnitudeOf(z)) ELSE ToUnit(MagnitudeOf(z))
    BY DEF Round, ToUnit
  <1>3. ToUnit(y) \in Nat /\ (y = 0 => ToUnit(y) = 0)
    <2> PICK U \in Nat : U = 2 ^ Grid
      BY FormatTypes, PowerType
    <2> PICK zero \in Nat : zero = 0
      OBVIOUS
    <2>1. ToUnit(y) \in Nat /\ (y <= zero * U => ToUnit(y) <= zero)
      BY UnitBounds
    <2>2. zero * U = 0
      OBVIOUS
    <2> QED BY <2>1, <2>2
  <1>4. MagnitudeOf(y) = y /\ (y # 0 => MagnitudeOf(-y) = y)
    BY DEF MagnitudeOf
  <1>5. CASE x < 0
    <2>1. CASE y = 0
      <3>1. Fl(PD, x, 1) = y
        BY <1>1, <1>5, <2>1
      <3> QED BY <1>2, <1>3, <1>4, <1>5, <2>1, <3>1 DEF Whole
    <2>2. CASE y # 0
      <3> PICK z \in Int : z = -y /\ z < 0
        BY <2>2
      <3>1. Fl(PD, x, 1) = z
        BY <1>1, <1>5
      <3> QED BY <1>2, <1>3, <1>4, <1>5, <2>2, <3>1 DEF Whole
    <2> QED BY <2>1, <2>2
  <1>6. CASE x >= 0
    <2>1. Fl(PD, x, 1) = y
      BY <1>1, <1>6
    <2> QED BY <1>2, <1>3, <1>4, <1>6, <2>1 DEF Whole
  <1> QED BY <1>5, <1>6

(* It does not pass an integer that a double holds, and is not farther     *)
(* than a unit from the number.                                            *)
LEMMA WholeBounds ==
  ASSUME NEW x \in Int, NEW n \in Nat, NEW U, U = 2 ^ Grid
  PROVE  /\ x <= n * U /\ n < 2 ^ PD => Whole(x) <= n
         /\ x >= -(n * U) /\ n < 2 ^ PD => Whole(x) >= -n
         /\ x >= n * U /\ n <= 2 ^ PD => Whole(x) >= n
         /\ x <= -(n * U) /\ n <= 2 ^ PD => Whole(x) <= -n
         /\ x <= n * U /\ x >= -(n * U) /\ n < 2 ^ PD => MagnitudeOf(Whole(x) * U - x) <= U
  <1> PICK m \in Nat : m = MagnitudeOf(x) /\ (x < 0 => m = -x) /\ (x >= 0 => m = x)
    BY MagnitudeType
  <1> PICK s : s = Whole(x)
    OBVIOUS
  <1> PICK y, t \in Nat : y = ToDouble(m) /\ t = ToUnit(y)
    BY DoubleBounds, UnitBounds
  <1>0. s = IF x < 0 THEN -t ELSE t
    BY WholeIs
  <1> PICK P \in Nat : P = 2 ^ PD
    BY FormatTypes, PowerType
  <1> PICK nU \in Nat : nU = n * U
    <2>1. U \in Nat
      BY FormatTypes, PowerType
    <2> QED BY <2>1
  <1> PICK tU \in Nat : tU = t * U
    <2>1. U \in Nat
      BY FormatTypes, PowerType
    <2> QED BY <2>1
  <1>1. U \in Nat \ {0}
    BY FormatTypes, PowerPositive
  <1>2. /\ m <= nU /\ n < P => y <= nU /\ 2 * (y - m) <= U /\ 2 * (m - y) <= U
        /\ m >= nU /\ n <= P => y >= nU
    BY DoubleBounds
  <1>3. /\ 2 * (tU - y) <= U /\ 2 * (y - tU) <= U
        /\ y <= nU => t <= n
        /\ y >= nU => t >= n
    BY UnitBounds
  <1>4. nU = 0 => n = 0
    BY <1>1
  <1>5. /\ x <= nU /\ n < P => s <= n
        /\ x >= -nU /\ n < P => s >= -n
        /\ x >= nU /\ n <= P => s >= n
        /\ x <= -nU /\ n <= P => s <= -n
    <2>1. /\ m <= nU /\ n < P => t <= n
          /\ m >= nU /\ n <= P => t >= n
      BY <1>2, <1>3
    <2>2. CASE x < 0
      <3>1. s = -t /\ m = -x
        BY <1>0, <2>2
      <3>2. /\ x <= nU /\ n < P => s <= n
            /\ x >= nU /\ n <= P => s >= n
        BY <2>2, <3>1
      <3>3. /\ x >= -nU /\ n < P => s >= -n
            /\ x <= -nU /\ n <= P => s <= -n
        BY <2>1, <2>2, <3>1
      <3> QED BY <3>2, <3>3
    <2>3. CASE x >= 0
      <3>1. s = t /\ m = x
        BY <1>0, <2>3
      <3>2. /\ x <= nU /\ n < P => s <= n
            /\ x >= nU /\ n <= P => s >= n
        BY <2>1, <2>3, <3>1
      <3>3. x >= -nU /\ n < P => s >= -n
        BY <2>3, <3>1
      <3>4. x <= -nU /\ n <= P => s <= -n
        <4> SUFFICES ASSUME x <= -nU, n <= P PROVE s <= -n
          OBVIOUS
        <4>1. m <= nU /\ n = 0
          BY <1>4, <2>3, <3>1
        <4>2. 0 < P
          BY FormatTypes, PowerPositive
        <4> QED BY <2>1, <3>1, <4>1, <4>2
      <3> QED BY <3>2, <3>3, <3>4
    <2> QED BY <2>2, <2>3
  <1>6. ASSUME x <= nU, x >= -nU, n < P
        PROVE  MagnitudeOf(s * U - x) <= U
    <2>1. m <= nU
      BY <1>6
    <2>2. tU - m <= U /\ m - tU <= U
      BY <1>1, <1>2, <1>3, <1>6, <2>1
    <2>3. s * U - x = tU - m \/ s * U - x = m - tU
      <3>1. CASE x < 0
        <4>1. s * U = -tU
          BY <1>0, <1>1, <3>1
        <4> QED BY <3>1, <4>1
      <3>2. CASE x >= 0
        <4>1. s * U = tU
          BY <1>0, <3>2
        <4> QED BY <3>2, <4>1
      <3> QED BY <3>1, <3>2
    <2> PICK z \in Int : z = s * U - x /\ z <= U /\ -z <= U
      BY <1>1, <2>2, <2>3
    <2>4. MagnitudeOf(z) <= U
      BY <1>1 DEF MagnitudeOf
    <2> QED BY <2>4
  <1> QED BY <1>5, <1>6

(* The range of a fixed-point number of b bits. *)
Least(k, b) == IF IsSigned(k) THEN -(2 ^ (b - 1)) ELSE 0
Greatest(k, b) == IF IsSigned(k) THEN 2 ^ (b - 1) - 1 ELSE 2 ^ b - 1

LEMMA RangeTypes ==
  ASSUME NEW k, NEW b \in 1..PD
  PROVE  /\ b \in 1..(Word - 1) /\ b \in Nat \ {0}
         /\ Least(k, b) \in Int /\ Greatest(k, b) \in Nat
         /\ -Least(k, b) \in Nat /\ 1 - Least(k, b) \in Nat /\ Greatest(k, b) + 1 \in Nat
         /\ -Least(k, b) < 2 ^ PD /\ 1 - Least(k, b) <= 2 ^ PD
         /\ Greatest(k, b) < 2 ^ PD /\ Greatest(k, b) + 1 <= 2 ^ PD /\ 2 ^ b <= 2 ^ PD
  <1>1. b \in Nat \ {0} /\ b <= PD /\ PD \in Nat \ {0} /\ b \in 1..(Word - 1)
    BY FormatTypes, FormatsAssumption, Constants
  <1>2. 2 ^ b = 2 * 2 ^ (b - 1) /\ 2 ^ (b - 1) \in Nat \ {0} /\ 2 ^ b \in Nat \ {0}
    BY <1>1, HalfPower
  <1>3. 2 ^ b <= 2 ^ PD /\ 2 ^ PD \in Nat
    BY <1>1, PowerMonotone, PowerType
  <1> PICK h, m, P : h = 2 ^ (b - 1) /\ m = 2 ^ b /\ P = 2 ^ PD
    OBVIOUS
  <1> h \in Nat \ {0} /\ m \in Nat /\ P \in Nat /\ m = 2 * h /\ m <= P
    BY <1>2, <1>3
  <1>4. /\ Least(k, b) = (IF IsSigned(k) THEN -h ELSE 0)
        /\ Greatest(k, b) = (IF IsSigned(k) THEN h - 1 ELSE m - 1)
    BY DEF Least, Greatest
  <1>5. CASE IsSigned(k)
    BY <1>1, <1>4, <1>5
  <1>6. CASE ~IsSigned(k)
    BY <1>1, <1>4, <1>6
  <1> QED BY <1>5, <1>6

(* It is what scaled is compared with. *)
LEMMA BoundsAre ==
  ASSUME NEW k, NEW b \in 1..PD
  PROVE  MinV(k, b) = Least(k, b) /\ MaxV(k, b) = Greatest(k, b) /\ Shifted(b) = 2 ^ b
         /\ Fl(PD, 2 ^ b, 1) = 2 ^ b
  <1>1. b \in Nat /\ b < Word
    BY RangeTypes, Constants
  <1>2. MinV(k, b) = Least(k, b) /\ Shifted(b) = 2 ^ b
    BY <1>1 DEF MinV, Least, Shifted
  <1>3. MaxV(k, b) = Fl(PD, Greatest(k, b), 1)
    BY <1>1, <1>2 DEF MaxV, Greatest
  <1>4. ASSUME NEW n \in Nat, n <= 2 ^ PD PROVE Fl(PD, n, 1) = n
    <2>1. MagnitudeOf(n) = n /\ ~(n < 0)
      BY DEF MagnitudeOf
    <2>2. Fl(PD, n, 1) = ToDouble(n)
      BY <2>1, FlIs
    <2> QED BY <1>4, <2>2, DoubleExact
  <1>5. Greatest(k, b) \in Nat /\ Greatest(k, b) <= 2 ^ PD /\ 2 ^ b \in Nat /\ 2 ^ b <= 2 ^ PD
    BY <1>1, RangeTypes, FormatTypes, PowerType
  <1> QED BY <1>2, <1>3, <1>4, <1>5

(* What the range holds is scaled into it; what is a unit outside is not.  *)
LEMMA ScaledRange ==
  ASSUME NEW k, NEW b \in 1..PD, NEW x \in Int, NEW U, U = 2 ^ Grid
  PROVE  /\ x \in (Least(k, b) * U)..(Greatest(k, b) * U) =>
              /\ Whole(x) \in Least(k, b)..Greatest(k, b)
              /\ MagnitudeOf(Whole(x) * U - x) <= U
         /\ x <= (Least(k, b) - 1) * U => Whole(x) < Least(k, b) /\ x < 0
         /\ x >= (Greatest(k, b) + 1) * U => Whole(x) > Greatest(k, b) /\ x >= 0
  <1> PICK P \in Nat : P = 2 ^ PD
    BY FormatTypes, PowerType
  <1> PICK lo, hi \in Nat : /\ -lo = Least(k, b) /\ hi = Greatest(k, b)
                            /\ lo < P /\ lo + 1 <= P /\ hi < P /\ hi + 1 <= P
    <2>1. Least(k, b) = -(-Least(k, b)) /\ -Least(k, b) + 1 = 1 - Least(k, b)
      BY RangeTypes
    <2> QED BY <2>1, RangeTypes
  <1>1. U \in Nat \ {0}
    BY FormatTypes, PowerPositive
  <1>2. Whole(x) \in Int
    BY WholeIs
  <1>3. ASSUME NEW n \in Nat
        PROVE  /\ x <= n * U /\ n < P => Whole(x) <= n
               /\ x >= -(n * U) /\ n < P => Whole(x) >= -n
               /\ x >= n * U /\ n <= P => Whole(x) >= n
               /\ x <= -(n * U) /\ n <= P => Whole(x) <= -n
               /\ x <= n * U /\ x >= -(n * U) /\ n < P => MagnitudeOf(Whole(x) * U - x) <= U
    BY WholeBounds
  <1>4. (-lo) * U = -(lo * U) /\ (-lo - 1) * U = -((lo + 1) * U) /\ lo * U \in Nat
        /\ hi * U \in Nat /\ (lo + 1) * U \in Nat \ {0} /\ (hi + 1) * U \in Nat
    BY <1>1
  <1>5. ASSUME x \in ((-lo) * U)..(hi * U)
        PROVE  Whole(x) \in (-lo)..hi /\ MagnitudeOf(Whole(x) * U - x) <= U
    <2>1. x <= hi * U /\ x >= -(lo * U)
      BY <1>4, <1>5
    <2>2. Whole(x) <= hi /\ Whole(x) >= -lo
      BY <1>3, <2>1
    <2>3. MagnitudeOf(Whole(x) * U - x) <= U
      <3> PICK n \in Nat : n = (IF hi <= lo THEN lo ELSE hi) /\ n < P /\ lo <= n /\ hi <= n
        OBVIOUS
      <3>1. lo * U <= n * U /\ hi * U <= n * U /\ n * U \in Nat
        BY <1>1, TimesMonotone
      <3>2. x <= n * U /\ x >= -(n * U)
        BY <1>4, <2>1, <3>1
      <3> QED BY <1>3, <3>2
    <2> QED BY <1>2, <2>2, <2>3
  <1>6. ASSUME x <= (-lo - 1) * U
        PROVE  Whole(x) < -lo /\ x < 0
    <2>1. x <= -((lo + 1) * U) /\ lo + 1 \in Nat
      BY <1>4, <1>6
    <2>2. Whole(x) <= -(lo + 1)
      BY <1>3, <2>1
    <2> QED BY <1>2, <1>4, <2>1, <2>2
  <1>7. ASSUME x >= (hi + 1) * U
        PROVE  Whole(x) > hi /\ x >= 0
    <2>1. hi + 1 \in Nat
      OBVIOUS
    <2>2. Whole(x) >= hi + 1
      BY <1>3, <1>7, <2>1
    <2> QED BY <1>2, <1>4, <1>7, <2>2
  <1> QED BY <1>5, <1>6, <1>7

(* What is written and read again keeps its low bits, and all of it in     *)
(* range.                                                                  *)
LEMMA RawKeeps ==
  ASSUME NEW k, NEW b \in 1..PD, NEW y \in Int
  PROVE  /\ Raw(k, b, ToUnsigned(y, b)) \in Int
         /\ Raw(k, b, ToUnsigned(y, b)) % 2 ^ b = y % 2 ^ b
         /\ y \in Least(k, b)..Greatest(k, b) => Raw(k, b, ToUnsigned(y, b)) = y
  <1> PICK c \in Int : c = ToUnsigned(y, b)
    BY RangeTypes, ToUnsignedRange
  <1>1. b \in Nat \ {0} /\ b \in Nat
    BY RangeTypes
  <1>2. ToUnsigned(c, b) = ToUnsigned(y, b)
    BY <1>1, ToUnsignedNarrow
  <1>3. CASE IsSigned(k)
    <2>1. Raw(k, b, c) = ToSigned(c, b)
      BY <1>3 DEF Raw
    <2>2. ToSigned(c, b) \in Int /\ ToUnsigned(ToSigned(c, b), b) = ToUnsigned(y, b)
      BY <1>1, <1>2, ToSignedKeepsBits
    <2>3. y \in Least(k, b)..Greatest(k, b) => y \in SignedRange(b)
      BY <1>3 DEF Least, Greatest, SignedRange
    <2>4. y \in SignedRange(b) => ToSigned(c, b) = y
      BY <1>1, <1>2, ToSignedIs
    <2>5. ToSigned(c, b) % 2 ^ b = y % 2 ^ b
      BY <2>2 DEF ToUnsigned
    <2> QED BY <2>1, <2>2, <2>3, <2>4, <2>5
  <1>4. CASE ~IsSigned(k)
    <2>1. Raw(k, b, c) = c
      BY <1>4 DEF Raw
    <2>2. c % 2 ^ b = y % 2 ^ b
      BY <1>2 DEF ToUnsigned
    <2>3. y \in Least(k, b)..Greatest(k, b) => y \in 0..(2 ^ b - 1)
      BY <1>4 DEF Least, Greatest
    <2>4. y \in 0..(2 ^ b - 1) => c = y
      BY <1>1, ToUnsignedId
    <2> QED BY <2>1, <2>2, <2>3, <2>4
  <1> QED BY <1>3, <1>4

(* math.Mod does not change the low bits. *)
LEMMA ModKeeps ==
  ASSUME NEW s \in Int, NEW m \in Nat \ {0}
  PROVE  Mod(s, m) \in Int /\ Mod(s, m) % m = s % m /\ Mod(s, m) \in -m..m
  <1>0. ASSUME NEW i \in Int, NEW j \in Int
        PROVE  (i - j) % m = 0 <=> i % m = j % m
    BY ModSame
  <1>1. ASSUME NEW x \in Int
        PROVE  /\ x % m \in Int /\ (x % m) % m = x % m /\ (x - (x % m)) % m = 0
               /\ x % m \in 0..m
    <2> PICK q, r : q = x \div m /\ r = x % m
      OBVIOUS
    <2>1. q \in Int /\ r \in 0..(m - 1) /\ x = m * q + r
      BY ModRange
    <2>2. r \in Int /\ r % m = r
      <3>1. r \in Int
        BY <2>1
      <3>2. r % m = r
        BY <2>1, ModId, Zenon
      <3> QED BY <3>1, <3>2
    <2>3. (x - r) % m = 0
      BY <2>1, <2>2, ModSame
    <2> QED BY <2>1, <2>2, <2>3
  <1>2. CASE s < 0
    <2> PICK t \in Int : t = -s
      OBVIOUS
    <2> PICK r \in Int : r = t % m /\ r \in 0..m
      BY <1>1
    <2>1. MagnitudeOf(s) = t
      BY <1>2 DEF MagnitudeOf
    <2>2. Mod(s, m) = -r
      BY <1>2, <2>1 DEF Mod
    <2>3. (t - r) % m = 0
      BY <1>1
    <2> PICK y \in Int : y = -r
      OBVIOUS
    <2>4. y - s = t - r
      OBVIOUS
    <2>5. y % m = s % m
      <3>1. (y - s) % m = 0
        BY <2>3, <2>4
      <3> QED BY <1>0, <3>1
    <2> QED BY <2>2, <2>5
  <1>3. CASE s >= 0
    <2>1. Mod(s, m) = s % m
      BY <1>3 DEF Mod
    <2> PICK r \in 0..m : r = s % m /\ r % m = r
      BY <1>1
    <2>2. r \in Int /\ r \in -m..m
      OBVIOUS
    <2> QED BY <2>1, <2>2
  <1> QED BY <1>2, <1>3

(* Numbers as large as a field's powers are doubles. *)
LEMMA SmallExact ==
  ASSUME NEW b \in 1..PD, NEW x \in -(2 ^ b)..2 ^ b
  PROVE  Fl(PD, x, 1) = x
  <1> PICK n : n = MagnitudeOf(x)
    OBVIOUS
  <1> PICK m, P \in Nat : m = 2 ^ b /\ P = 2 ^ PD /\ m <= P
    BY FormatTypes, PowerMonotone, PowerType
  <1>1. x \in Int /\ n \in Nat /\ n <= P /\ x = IF x < 0 THEN -n ELSE n
    BY DEF MagnitudeOf
  <1>2. ToDouble(n) = n
    BY <1>1, DoubleExact
  <1> QED BY <1>1, <1>2, FlIs

(* The wrapped number has the low bits of the scaled one. *)
LEMMA WrapKeeps ==
  ASSUME NEW k, NEW b \in 1..PD, NEW s \in Int
  PROVE  FixedWrap(k, b, s) \in Int /\ FixedWrap(k, b, s) % 2 ^ b = s % 2 ^ b
  <1> PICK m \in Nat \ {0} : m = 2 ^ b
    BY RangeTypes, PowerPositive
  <1>1. Shifted(b) = m /\ Fl(PD, m, 1) = m /\ MaxV(k, b) = Greatest(k, b)
    BY BoundsAre
  <1> PICK r \in Int : r = Mod(s, m) /\ r % m = s % m /\ r \in -m..m
    BY ModKeeps
  <1>2. ~IsSigned(k) => MaxV(k, b) + 1 = m
    BY <1>1 DEF Greatest
  <1>3. FixedWrap(k, b, s) \in {r, r + m, r - m}
    <2>1. MinV(k, b) \in Int /\ MaxV(k, b) \in Int /\ MinV(k, b) <= 0 /\ MaxV(k, b) >= 0
      BY <1>1, BoundsAre, RangeTypes
    <2>2. r < MinV(k, b) => Fl(PD, r + m, 1) = r + m
      <3>1. r < MinV(k, b) => r + m \in -m..m
        BY <2>1
      <3> QED BY <3>1, SmallExact
    <2>3. r > MaxV(k, b) => Fl(PD, r - m, 1) = r - m
      <3>1. r > MaxV(k, b) => r - m \in -m..m
        BY <2>1
      <3> QED BY <3>1, SmallExact
    <2> DEFINE y == IF IsSigned(k) THEN Shifted(b) ELSE Fl(PD, MaxV(k, b) + 1, 1)
    <2>4. y = m
      BY <1>1, <1>2
    <2>5. FixedWrap(k, b, s) = IF Mod(s, y) < MinV(k, b) THEN Fl(PD, Mod(s, y) + y, 1)
                               ELSE IF IsSigned(k) /\ Mod(s, y) > MaxV(k, b) THEN Fl(PD, Mod(s, y) - y, 1)
                               ELSE Mod(s, y)
      BY Zenon DEF FixedWrap
    <2> HIDE DEF y
    <2>6. FixedWrap(k, b, s) = IF r < MinV(k, b) THEN Fl(PD, r + m, 1)
                               ELSE IF IsSigned(k) /\ r > MaxV(k, b) THEN Fl(PD, r - m, 1) ELSE r
      BY <2>4, <2>5
    <2> QED BY <2>2, <2>3, <2>6
  <1>4. (r + m) % m = r % m /\ (r - m) % m = r % m
    <2>1. ASSUME NEW i \in Int PROVE (r + m * i) % m = r % m
      BY ModShift, Zenon
    <2>2. r + m * 1 = r + m /\ r + m * (-1) = r - m /\ 1 \in Int /\ -1 \in Int
      OBVIOUS
    <2> QED BY <2>1, <2>2
  <1> QED BY <1>3, <1>4

(* When it is refused, and when it is not. *)
RefusalInv == kind \in FixedKinds =>
  /\ phase \in {"start", "written", "read", "PackError"}
  /\ phase = "PackError" <=> phase # "start" /\ eff = "ERROR"
                             /\ FixedOverflows(kind, bits, Scaled(v, places))

(* Fixed-point numbers of encodeScalar at every width at which a double     *)
(* holds both bounds.                                                      *)
THEOREM FixedAsDocumentedAlways == ScalarSpec => []FixedAsDocumented
  <1>1. ScalarInit => RefusalInv
    BY DEF ScalarInit, Init, FloatInit, RefusalInv
  <1>2. RefusalInv /\ [ScalarNext]_floatVars => RefusalInv'
    <2> SUFFICES ASSUME RefusalInv, [ScalarNext]_floatVars PROVE RefusalInv'
      OBVIOUS
    <2>1. ASSUME IntNext PROVE RefusalInv'
      <3>1. kind \notin FixedKinds /\ kind' = kind
        BY <2>1, Constants DEF IntNext, Next, Encode, Refuse, Decode, field
      <3> QED BY <3>1 DEF RefusalInv
    <2>2. ASSUME EncodeFixed PROVE RefusalInv'
      <3>1. UNCHANGED <<field, places>> /\ phase' = "written"
            /\ ~(FixedOverflows(kind, bits, Scaled(v, places)) /\ eff = "ERROR")
        BY <2>2 DEF EncodeFixed
      <3> QED BY <3>1 DEF RefusalInv, field
    <2>3. ASSUME RefuseFixed PROVE RefusalInv'
      BY <2>3 DEF RefuseFixed, RefusalInv, field
    <2>4. ASSUME EncodeHalf PROVE RefusalInv'
      BY <2>4 DEF EncodeHalf, RefusalInv, FixedKinds, field
    <2>5. ASSUME DecodeFloat PROVE RefusalInv'
      BY <2>5 DEF DecodeFloat, RefusalInv, FixedKinds, field
    <2>6. CASE UNCHANGED floatVars
      BY <2>6 DEF floatVars, vars, RefusalInv
    <2> QED BY <2>1, <2>2, <2>3, <2>4, <2>5, <2>6 DEF ScalarNext
  <1>3. FixedInv /\ RefusalInv => FixedAsDocumented
    <2> SUFFICES ASSUME FixedInv, RefusalInv, kind \in FixedKinds, bits <= PD
                 PROVE  FixedAsDocumented
      BY DEF FixedAsDocumented
    <2> DEFINE U == 2 ^ Grid
               lo == Least(kind, bits)
               hi == Greatest(kind, bits)
               s == Scaled(v, places)
               stored == Raw(kind, bits, code)
               low == Exact <= (lo - 1) * U
               high == Exact >= (hi + 1) * U
    <2>1. DocMin = lo /\ DocMax = hi
      BY DEF DocMin, DocMax, Least, Greatest
    <2>2. bits \in 1..PD /\ bits \in 1..Word /\ bits # Word /\ places \in DecimalPlaces /\ v \in Int
      BY FormatTypes, FormatsAssumption, Constants DEF FixedInv
    <2>3. Exact \in Int
      BY <2>2, NumbersAssumption DEF Exact
    <2>4. s = Whole(Exact) /\ s \in Int
      BY <2>3, WholeIs DEF Scaled, Whole, Exact
    <2>5. lo \in Int /\ hi \in Nat /\ lo <= hi
      BY <2>2, RangeTypes
    <2>6. FixedOverflows(kind, bits, s) <=> s < lo \/ s > hi
      BY <2>2, BoundsAre DEF FixedOverflows
    <2>7. /\ Exact \in (lo * U)..(hi * U) => s \in lo..hi /\ MagnitudeOf(s * U - Exact) <= U
          /\ low => s < lo /\ Exact < 0
          /\ high => s > hi /\ Exact >= 0
      BY <2>2, <2>3, <2>4, ScaledRange
    <2>8. phase # "start" => phase = "PackError" \/ code \in FixedCodes(kind, bits, eff, s)
      BY DEF FixedInv, RefusalInv
    <2>9. \A y \in Int : /\ Raw(kind, bits, ToUnsigned(y, bits)) \in Int
                         /\ Raw(kind, bits, ToUnsigned(y, bits)) % 2 ^ bits = y % 2 ^ bits
                         /\ y \in lo..hi => Raw(kind, bits, ToUnsigned(y, bits)) = y
      BY <2>2, RawKeeps
    <2> HIDE DEF U, lo, hi, s, low, high
    <2>10. ASSUME Exact \in (lo * U)..(hi * U)
           PROVE  /\ phase # "PackError"
                  /\ phase # "start" => MagnitudeOf(stored * U - Exact) <= U
                  /\ phase # "start" /\ Fl(PD, Exact, 1) = Exact => stored = Round(Exact)
      <3>1. s \in lo..hi /\ ~FixedOverflows(kind, bits, s)
        BY <2>4, <2>5, <2>6, <2>7, <2>10
      <3>2. phase # "PackError"
        BY <3>1 DEF RefusalInv, s
      <3>3. phase # "start" => stored = s
        BY <2>4, <2>8, <2>9, <3>1, <3>2 DEF FixedCodes
      <3>4. Fl(PD, Exact, 1) = Exact => s = Round(Exact)
        BY <2>4 DEF Whole
      <3> QED BY <2>7, <2>10, <3>2, <3>3, <3>4
    <2>11. ASSUME low \/ high, phase # "start"
           PROVE  /\ eff = "ERROR" => phase = "PackError"
                  /\ eff = "MODULO" => (stored - s) % 2 ^ bits = 0
                  /\ eff # "ERROR" /\ eff # "MODULO" => stored = IF Exact < 0 THEN lo ELSE hi
      <3>1. FixedOverflows(kind, bits, s)
        BY <2>6, <2>7, <2>11
      <3>2. eff = "ERROR" <=> phase = "PackError"
        BY <2>11, <3>1 DEF RefusalInv, s
      <3>3. eff # "ERROR" =>
              code = ToUnsigned(IF eff = "MODULO" THEN FixedWrap(kind, bits, s)
                                ELSE FixedClamp(kind, bits, s), bits)
        BY <2>2, <2>8, <2>11, <3>1, <3>2 DEF FixedCodes
      <3>4. ASSUME eff = "MODULO" PROVE (stored - s) % 2 ^ bits = 0
        <4> PICK m \in Nat \ {0} : m = 2 ^ bits
          BY <2>2, RangeTypes, PowerPositive
        <4> PICK w \in Int : w = FixedWrap(kind, bits, s) /\ w % m = s % m
          BY <2>2, <2>4, WrapKeeps
        <4>1. code = ToUnsigned(w, bits)
          BY <3>3, <3>4
        <4>2. stored \in Int /\ stored % m = s % m
          BY <2>9, <4>1
        <4> QED BY <2>4, <4>2, ModSame
      <3>5. ASSUME eff # "ERROR", eff # "MODULO" PROVE stored = IF Exact < 0 THEN lo ELSE hi
        <4>1. FixedClamp(kind, bits, s) = IF s < lo THEN lo ELSE hi
          BY <2>2, BoundsAre DEF FixedClamp, lo, hi
        <4>2. s < lo <=> Exact < 0
          BY <2>3, <2>4, <2>5, <2>7, <2>11
        <4>3. code = ToUnsigned(IF Exact < 0 THEN lo ELSE hi, bits)
          BY <3>3, <3>5, <4>1, <4>2
        <4>4. lo \in lo..hi /\ hi \in lo..hi /\ hi \in Int
          BY <2>5
        <4> QED BY <2>5, <2>9, <4>3, <4>4
      <3> QED BY <3>2, <3>4, <3>5
    <2>12. /\ Exact \in (DocMin * U)..(DocMax * U) =>
                /\ phase # "PackError"
                /\ phase # "start" => WithinOne(stored)
                /\ phase # "start" /\ Fl(PD, Exact, 1) = Exact => IsNearest(stored)
           /\ (Exact <= (DocMin - 1) * U \/ Exact >= (DocMax + 1) * U) /\ phase # "start" =>
                CASE eff = "ERROR" -> phase = "PackError"
                  [] eff = "MODULO" -> (stored - s) % 2 ^ bits = 0
                  [] OTHER -> stored = IF Exact < 0 THEN DocMin ELSE DocMax
      BY <2>1, <2>10, <2>11 DEF WithinOne, IsNearest, U, low, high
    <2> QED BY <2>12, Zenon DEF FixedAsDocumented, U, s
  <1>4. ScalarSpec => []FixedInv
    BY FixedInit, FixedStep, PTL DEF ScalarSpec
  <1> QED BY <1>1, <1>2, <1>3, <1>4, PTL DEF ScalarSpec

-----------------------------------------------------------------------------
(* Unpacking a fixed-point number and packing it again. *)

(* Rounding treats both signs alike. *)
LEMMA FlOdd ==
  ASSUME NEW p \in Nat \ {0}, NEW a \in Nat, NEW den \in Nat \ {0}
  PROVE  /\ Fl(p, a, den) \in Int
         /\ Fl(p, -a, den) = -Fl(p, a, den)
  <1>1. Fl(p, a, den) \in Int
    <2>1. a \in Int
      OBVIOUS
    <2> QED BY <2>1, FlType
  <1>2. CASE a = 0
    <2>1. Fl(p, 0, den) = 0
      <3> PICK n : n = 0 \div den
        OBVIOUS
      <3>1. n \in Nat
        OBVIOUS
      <3> PICK w \in Nat \ {0} : w = 2 ^ Exponent(p, n)
        BY <3>1, ExponentType, PowerPositive
      <3> PICK u \in Nat \ {0} : u = den * w
        <4>1. den * w \in Nat \ {0}
          OBVIOUS
        <4> QED BY <4>1
      <3>2. 0 \div u = 0 /\ 0 % u = 0
        OBVIOUS
      <3>3. NearestEven(0, u) = 0
        BY <3>2 DEF NearestEven
      <3>4. MagnitudeOf(0) = 0
        BY DEF MagnitudeOf
      <3>5. Fl(p, 0, den) = NearestEven(0, u) * w
        BY <3>4 DEF Fl
      <3> QED BY <3>3, <3>5
    <2> QED BY <1>2, <2>1
  <1>3. CASE a # 0
    <2> PICK b \in Int : b = -a
      OBVIOUS
    <2>1. MagnitudeOf(b) = a /\ MagnitudeOf(a) = a /\ b < 0 /\ ~(a < 0)
      BY <1>3 DEF MagnitudeOf
    <2>2. Fl(p, b, den) = -Fl(p, a, den)
      BY <2>1, Zenon DEF Fl
    <2> QED BY <1>1, <2>2
  <1> QED BY <1>1, <1>2, <1>3

LEMMA WholeOdd ==
  ASSUME NEW a \in Nat
  PROVE  /\ Whole(a) \in Int /\ Whole(a) = ToUnit(ToDouble(a))
         /\ Whole(-a) = -Whole(a)
  <1>0. Whole(a) \in Int /\ Whole(a) = ToUnit(ToDouble(a)) /\ ToUnit(ToDouble(a)) \in Nat
    <2>1. MagnitudeOf(a) = a /\ ~(a < 0)
      BY DEF MagnitudeOf
    <2> QED BY <2>1, WholeIs, DoubleBounds, UnitBounds
  <1>1. CASE a = 0
    <2> PICK U, n : U = 2 ^ Grid /\ n = 0
      OBVIOUS
    <2>0. n \in Nat /\ U \in Nat /\ n * U = 0 /\ 0 < 2 ^ PD
      BY FormatTypes, PowerPositive, PowerType
    <2>1. Whole(a) <= n
      <3>1. a <= n * U /\ n < 2 ^ PD
        BY <1>1, <2>0
      <3> QED BY <2>0, <3>1, WholeBounds
    <2>2. Whole(a) = 0
      BY <1>0, <2>1
    <2> QED BY <1>0, <1>1, <2>2
  <1>2. CASE a # 0
    <2> PICK b \in Int : b = -a
      OBVIOUS
    <2>1. MagnitudeOf(b) = a /\ b < 0
      BY <1>2 DEF MagnitudeOf
    <2>2. Whole(b) = -ToUnit(ToDouble(a))
      BY <2>1, WholeIs
    <2> QED BY <1>0, <2>2
  <1> QED BY <1>0, <1>1, <1>2

(* Times g, a quotient of p significant bits is within half of g units, or *)
(* within a j-th of half of U, when p has the bits of j * B to spare.       *)
Nearly(p, num, den, g, U, j) ==
  \E r, err \in Nat :
    /\ r = Fl(p, num, den)
    /\ r * den = num + err \/ r * den = num - err
    /\ 2 * (err * g) <= den * g \/ j * (2 * (err * g)) < U

LEMMA FlError ==
  ASSUME NEW p \in Nat \ {0}, NEW num \in Nat, NEW den \in Nat \ {0}, NEW g \in Nat \ {0},
         NEW B \in Nat \ {0}, NEW U \in Nat, NEW j \in Nat \ {0},
         j * B <= 2 ^ (p - 1), num * g < B * U
  PROVE  Nearly(p, num, den, g, U, j)
  <1>1. MagnitudeOf(num) = num /\ ~(num < 0)
    BY DEF MagnitudeOf
  <1> PICK n \in Nat : n = num \div den /\ n * den <= num
    <2> PICK q, c : q = num \div den /\ c = num % den
      OBVIOUS
    <2>1. q \in Nat /\ c \in 0..(den - 1) /\ num = den * q + c
      BY DivMod
    <2>2. q * den = den * q
      BY <2>1
    <2> QED BY <2>1, <2>2
  <1> PICK e \in Nat : e = Exponent(p, n) /\ (e = 0 \/ n >= 2 ^ (p + e - 1))
    BY ExponentType
  <1> PICK w \in Nat \ {0} : w = 2 ^ e
    BY PowerPositive
  <1> PICK u \in Nat \ {0} : u = den * w
    <2>1. den * w \in Nat \ {0}
      OBVIOUS
    <2> QED BY <2>1
  <1> PICK q : q = NearestEven(num, u)
    OBVIOUS
  <1>2. q \in Nat
    BY NearestEvenType
  <1>3. 2 * (q * u - num) <= u /\ 2 * (num - q * u) <= u
    BY NearMultiple
  <1> PICK r \in Nat : r = q * w
    BY <1>2
  <1>4. r = Fl(p, num, den)
    BY <1>1 DEF Fl
  <1>5. r * den = q * u
    BY <1>2
  <1> PICK t \in Nat : t = r * den
    OBVIOUS
  <1> PICK err \in Nat : (t = num + err \/ t = num - err) /\ 2 * err <= u
    <2>1. 2 * (t - num) <= u /\ 2 * (num - t) <= u
      BY <1>3, <1>5
    <2>2. CASE t >= num
      <3>1. t - num \in Nat /\ t = num + (t - num)
        BY <2>2
      <3> QED BY <2>1, <3>1
    <2>3. CASE t < num
      <3>1. num - t \in Nat /\ t = num - (num - t)
        BY <2>3
      <3> QED BY <2>1, <3>1
    <2> QED BY <2>2, <2>3
  <1>6. (2 * err) * g <= u * g /\ (2 * err) * g = 2 * (err * g)
    <2>1. 2 * err \in Int /\ u \in Int
      OBVIOUS
    <2> QED BY <2>1, TimesMonotone
  <1>7. CASE e = 0
    <2>1. w = 1
      <3>1. 2 ^ 0 = 1
        OBVIOUS
      <3> QED BY <1>7, <3>1
    <2>2. u = den
      BY <2>1
    <2> QED BY <1>4, <1>6, <2>2 DEF Nearly
  <1>8. CASE e # 0
    <2> PICK h \in Nat : h = 2 ^ (p - 1) /\ h * w <= n
      <3>1. p - 1 \in Nat /\ p + e - 1 = (p - 1) + e
        OBVIOUS
      <3>2. 2 ^ ((p - 1) + e) = 2 ^ (p - 1) * 2 ^ e
        BY <3>1, PowerSum
      <3> QED BY <1>8, <3>1, <3>2, PowerType
    <2>1. ((j * (u * g)) * B) < U * B
      <3>1. (h * w) * (den * g) <= n * (den * g)
        <4>1. h * w \in Int /\ n \in Int /\ den * g \in Nat
          OBVIOUS
        <4> QED BY <4>1, TimesMonotone
      <3>2. (n * den) * g <= num * g
        <4>1. n * den \in Int /\ num \in Int
          OBVIOUS
        <4> QED BY <4>1, TimesMonotone
      <3>3. (j * B) * (u * g) <= h * (u * g)
        <4>1. j * B \in Int /\ u * g \in Nat
          OBVIOUS
        <4> QED BY <4>1, TimesMonotone
      <3>4. /\ n * (den * g) = (n * den) * g
            /\ (j * B) * (u * g) = (j * (u * g)) * B
            /\ U * B = B * U
        OBVIOUS
      <3>5. (h * w) * (den * g) = h * (u * g)
        <4>1. (h * w) * (den * g) = h * ((den * w) * g)
          OBVIOUS
        <4> QED BY <4>1
      <3>6. /\ n * (den * g) \in Int /\ num * g \in Int /\ h * (u * g) \in Int
            /\ (j * (u * g)) * B \in Int /\ B * U \in Int
        OBVIOUS
      <3> QED BY <3>1, <3>2, <3>3, <3>4, <3>5, <3>6
    <2>2. j * (u * g) < U
      <3>1. j * (u * g) \in Int /\ U \in Int
        OBVIOUS
      <3> QED BY <2>1, <3>1, TimesMonotone
    <2>3. j * (2 * (err * g)) <= j * (u * g)
      <3>1. (2 * (err * g)) * j <= (u * g) * j
        <4>1. 2 * (err * g) \in Int /\ u * g \in Int
          OBVIOUS
        <4> QED BY <1>6, <4>1, TimesMonotone
      <3>2. (2 * (err * g)) * j = j * (2 * (err * g)) /\ (u * g) * j = j * (u * g)
        OBVIOUS
      <3> QED BY <3>1, <3>2
    <2>4. j * (2 * (err * g)) \in Int /\ j * (u * g) \in Int
      OBVIOUS
    <2>5. j * (2 * (err * g)) < U
      <3> PICK x, y \in Int : x = j * (2 * (err * g)) /\ y = j * (u * g)
        BY <2>4
      <3>1. x <= y /\ y < U
        BY <2>2, <2>3
      <3> QED BY <3>1
    <2> QED BY <1>4, <2>5 DEF Nearly
  <1> QED BY <1>7, <1>8

(* What is nearer than half a unit to an integer is rounded to it. *)
LEMMA NearWhole ==
  ASSUME NEW y \in Nat, NEW a \in Nat, NEW U, U = 2 ^ Grid, NEW X \in Nat, X = a * U,
         2 * (y - X) < U, 2 * (X - y) < U
  PROVE  ToUnit(y) = a
  <1>1. U \in Nat \ {0}
    BY FormatTypes, PowerPositive
  <1> PICK t \in Nat : t = ToUnit(y)
    BY UnitBounds
  <1> PICK T \in Nat : T = t * U
    BY <1>1
  <1>2. 2 * (T - y) <= U /\ 2 * (y - T) <= U
    BY UnitBounds
  <1>3. T < X + U /\ X < T + U
    BY <1>1, <1>2
  <1>4. (a + 1) * U = X + U /\ (t + 1) * U = T + U
    BY <1>1
  <1>5. t < a + 1 /\ a < t + 1
    BY <1>1, <1>3, <1>4, TimesMonotone
  <1> QED BY <1>5

(* Packing what is nearer still gives that integer. *)
Near(x, a, X, U) ==
  \E B \in Nat \ {0}, d \in Nat, j \in {2, 8} :
    /\ a < B /\ j * B <= 2 ^ (PD - 1)
    /\ x = X + d \/ x = X - d
    /\ j = 2 => 4 * d < U
    /\ j = 8 => 16 * d <= 5 * U

LEMMA Repacked ==
  ASSUME NEW a \in Nat, NEW U, U = 2 ^ Grid, NEW X \in Nat, X = a * U,
         NEW x \in Nat, Near(x, a, X, U)
  PROVE  Whole(x) = a
  <1> PICK B \in Nat \ {0}, d \in Nat, j \in {2, 8} :
        /\ a < B /\ j * B <= 2 ^ (PD - 1)
        /\ x = X + d \/ x = X - d
        /\ j = 2 => 4 * d < U
        /\ j = 8 => 16 * d <= 5 * U
    BY DEF Near
  <1>1. U \in Nat \ {0} /\ PD \in Nat \ {0}
    BY FormatTypes, PowerPositive
  <1> PICK one \in Nat \ {0} : one = 1
    OBVIOUS
  <1> PICK W \in Nat : W = B * U /\ X + U <= W
    <2>0. a + 1 \in Int /\ B \in Int /\ U \in Nat /\ a + 1 <= B /\ B * U \in Nat
      BY <1>1
    <2>1. (a + 1) * U <= B * U
      BY <2>0, TimesMonotone
    <2>2. (a + 1) * U = X + U
      BY <1>1
    <2> QED BY <2>0, <2>1, <2>2
  <1>2. x < W
    <2>1. d < U
      BY <1>1
    <2> QED BY <1>1, <2>1
  <1> PICK r, err \in Nat : /\ r = Fl(PD, x, one)
                            /\ r * one = x + err \/ r * one = x - err
                            /\ 2 * (err * one) <= one * one \/ j * (2 * (err * one)) < U
    <2>1. x * one < B * U /\ j \in Nat \ {0} /\ U \in Nat
      BY <1>1, <1>2
    <2>2. Nearly(PD, x, one, one, U, j)
      BY <1>1, <2>1, FlError, Zenon
    <2> QED BY <2>2 DEF Nearly
  <1>3. r = ToDouble(x)
    <2>1. MagnitudeOf(x) = x /\ ~(x < 0)
      BY DEF MagnitudeOf
    <2> QED BY <2>1, FlIs
  <1>4. (r = x + err \/ r = x - err) /\ (2 * err <= 1 \/ j * (2 * err) < U)
    OBVIOUS
  <1>5. 2 * (r - X) < U /\ 2 * (X - r) < U
    <2>1. CASE j = 2
      BY <1>1, <1>4, <2>1
    <2>2. CASE j = 8
      BY <1>1, <1>4, <2>2
    <2> QED BY <2>1, <2>2
  <1>6. ToUnit(r) = a
    BY <1>5, NearWhole
  <1> QED BY <1>3, <1>6, WholeOdd

(* What a double makes of an unpacked number is packed as that number, if  *)
(* it has two bits to spare...                                             *)
LEMMA DoubleRepacks ==
  ASSUME NEW a \in Nat, NEW D \in Nat \ {0}, 8 * D <= 2 ^ Grid,
         NEW B \in Nat \ {0}, a < B, 2 * B <= 2 ^ (PD - 1)
  PROVE  Fl(PD, a * 2 ^ Grid, D) \in Nat /\ Whole(Fl(PD, a * 2 ^ Grid, D) * D) = a
  <1> PICK U \in Nat \ {0} : U = 2 ^ Grid
    BY FormatTypes, PowerPositive
  <1> PICK X \in Nat : X = a * U
    OBVIOUS
  <1>1. PD \in Nat \ {0} /\ 1 \in Nat \ {0} /\ 2 \in Nat \ {0}
    BY FormatTypes
  <1>2. X * 1 < B * U
    <2>1. (a + 1) * U <= B * U /\ (a + 1) * U = X + U
      BY TimesMonotone
    <2> QED BY <2>1
  <1> PICK r, err \in Nat : /\ r = Fl(PD, X, D)
                            /\ r * D = X + err \/ r * D = X - err
                            /\ 2 * (err * 1) <= D * 1 \/ 2 * (2 * (err * 1)) < U
    <2>1. U \in Nat
      OBVIOUS
    <2>2. Nearly(PD, X, D, 1, U, 2)
      BY <1>1, <1>2, <2>1, FlError, Zenon
    <2> QED BY <2>2 DEF Nearly
  <1> PICK x \in Nat : x = r * D
    OBVIOUS
  <1>3. x = X + err \/ x = X - err
    OBVIOUS
  <1>4. 4 * err < U
    OBVIOUS
  <1>5. Whole(x) = a
    <2>1. 2 \in {2, 8} /\ (2 = 2 => 4 * err < U) /\ (2 = 8 => 16 * err <= 5 * U)
      BY <1>4
    <2>2. Near(x, a, X, U)
      BY <1>3, <2>1 DEF Near
    <2> QED BY <2>2, Repacked
  <1> QED BY <1>5

(* ... and so is what a float makes of it, which is rounded twice.         *)
LEMMA FloatRepacks ==
  ASSUME NEW a \in Nat, NEW D \in Nat \ {0}, 8 * D <= 2 ^ Grid,
         NEW B \in Nat \ {0}, a < B, 2 * B <= 2 ^ (PS - 1), 8 * B <= 2 ^ (PD - 1)
  PROVE  /\ Fl(PD, a * 2 ^ Grid, D) \in Nat
         /\ Fl(PS, Fl(PD, a * 2 ^ Grid, D), 1) \in Nat
         /\ Whole(Fl(PS, Fl(PD, a * 2 ^ Grid, D), 1) * D) = a
  <1> PICK U \in Nat \ {0} : U = 2 ^ Grid
    BY FormatTypes, PowerPositive
  <1> PICK X \in Nat : X = a * U
    OBVIOUS
  <1>1. PD \in Nat \ {0} /\ PS \in Nat \ {0} /\ 1 \in Nat \ {0} /\ 2 \in Nat \ {0} /\ 8 \in Nat \ {0}
    BY FormatTypes
  <1> PICK W \in Nat : W = B * U /\ X + U <= W
    <2>1. (a + 1) * U <= B * U /\ (a + 1) * U = X + U /\ B * U \in Nat
      BY TimesMonotone
    <2> QED BY <2>1
  <1>2. X * 1 < B * U
    OBVIOUS
  <1> PICK r, err \in Nat : /\ r = Fl(PD, X, D)
                            /\ r * D = X + err \/ r * D = X - err
                            /\ 2 * (err * 1) <= D * 1 \/ 8 * (2 * (err * 1)) < U
    <2>1. U \in Nat
      OBVIOUS
    <2>2. Nearly(PD, X, D, 1, U, 8)
      BY <1>1, <1>2, <2>1, FlError, Zenon
    <2> QED BY <2>2 DEF Nearly
  <1> PICK x \in Nat : x = r * D
    OBVIOUS
  <1>3. (x = X + err \/ x = X - err) /\ 16 * err <= U
    OBVIOUS
  <1>4. r * D < B * U
    BY <1>3
  <1> PICK f, off \in Nat : /\ f = Fl(PS, r, 1)
                            /\ f * 1 = r + off \/ f * 1 = r - off
                            /\ 2 * (off * D) <= 1 * D \/ 2 * (2 * (off * D)) < U
    <2>1. U \in Nat
      OBVIOUS
    <2>2. Nearly(PS, r, 1, D, U, 2)
      BY <1>1, <1>4, <2>1, FlError, Zenon
    <2> QED BY <2>2 DEF Nearly
  <1> PICK e \in Nat : e = off * D
    OBVIOUS
  <1> PICK z \in Nat : z = f * D
    OBVIOUS
  <1>5. z = x + e \/ z = x - e
    <2>1. (r + off) * D = x + e /\ (r - off) * D = x - e
      OBVIOUS
    <2>2. f = r + off \/ f = r - off
      OBVIOUS
    <2> QED BY <2>1, <2>2
  <1>6. 4 * e < U
    OBVIOUS
  <1> PICK d \in Nat : (z = X + d \/ z = X - d) /\ 16 * d <= 5 * U
    <2>1. CASE z >= X
      <3>1. z - X \in Nat /\ z = X + (z - X) /\ 16 * (z - X) <= 5 * U
        BY <1>3, <1>5, <1>6, <2>1
      <3> QED BY <3>1
    <2>2. CASE z < X
      <3>1. X - z \in Nat /\ z = X - (X - z) /\ 16 * (X - z) <= 5 * U
        BY <1>3, <1>5, <1>6, <2>2
      <3> QED BY <3>1
    <2> QED BY <2>1, <2>2
  <1>7. Whole(z) = a
    <2>1. 8 \in {2, 8} /\ (8 = 2 => 4 * d < U) /\ (8 = 8 => 16 * d <= 5 * U)
      OBVIOUS
    <2>2. Near(z, a, X, U)
      BY <2>1 DEF Near
    <2> QED BY <2>2, Repacked
  <1> QED BY <1>7

(* The numbers on the grid that are integers of less than PD bits are      *)
(* doubles.                                                                *)
LEMMA GridExact ==
  ASSUME NEW a \in Nat, a < 2 ^ PD, NEW n \in Int, n = a \/ n = -a
  PROVE  Fl(PD, n * 2 ^ Grid, 1) = n * 2 ^ Grid
  <1> PICK U \in Nat \ {0} : U = 2 ^ Grid
    BY FormatTypes, PowerPositive
  <1> PICK X \in Nat : X = a * U
    OBVIOUS
  <1> PICK P \in Nat : P = 2 ^ PD
    BY FormatTypes, PowerType
  <1>1. ToDouble(X) = X
    <2>1. X <= a * U /\ X >= a * U /\ a < P /\ a <= P
      OBVIOUS
    <2>2. ToDouble(X) \in Nat /\ ToDouble(X) <= a * U /\ ToDouble(X) >= a * U
      BY <2>1, DoubleBounds
    <2> QED BY <2>2
  <1>2. Fl(PD, X, 1) = X
    <2>1. MagnitudeOf(X) = X /\ ~(X < 0)
      BY DEF MagnitudeOf
    <2> QED BY <1>1, <2>1, FlIs
  <1>3. Fl(PD, -X, 1) = -X
    <2>1. PD \in Nat \ {0} /\ 1 \in Nat \ {0}
      BY FormatTypes
    <2> QED BY <1>2, <2>1, FlOdd
  <1>4. n * U = X \/ n * U = -X
    <2>1. (-a) * U = -X
      OBVIOUS
    <2> QED BY <2>1
  <1> QED BY <1>2, <1>3, <1>4

(* What is read is in range, and written with the same code. *)
LEMMA RawIs ==
  ASSUME NEW k, NEW b \in 1..PD, NEW c \in 0..(2 ^ b - 1)
  PROVE  /\ Raw(k, b, c) \in Least(k, b)..Greatest(k, b) /\ Raw(k, b, c) \in Int
         /\ ToUnsigned(Raw(k, b, c), b) = c
         /\ MagnitudeOf(Raw(k, b, c)) < 2 ^ b
  <1>1. b \in Nat \ {0} /\ b \in Nat
    BY RangeTypes
  <1> PICK h, m : h = 2 ^ (b - 1) /\ m = 2 ^ b
    OBVIOUS
  <1>2. h \in Nat \ {0} /\ m \in Nat /\ m = 2 * h
    BY <1>1, HalfPower
  <1>3. c \in Int /\ ToUnsigned(c, b) = c
    BY <1>1, <1>2, ToUnsignedId
  <1> PICK y : y = Raw(k, b, c)
    OBVIOUS
  <1>4. CASE IsSigned(k)
    <2>1. y = ToSigned(c, b)
      BY <1>4 DEF Raw
    <2>2. y \in SignedRange(b) /\ y \in Int /\ ToUnsigned(y, b) = c
      BY <1>1, <1>3, <2>1, ToSignedKeepsBits
    <2>3. y \in (-h)..(h - 1)
      BY <2>2 DEF SignedRange
    <2>4. Least(k, b) = -h /\ Greatest(k, b) = h - 1
      BY <1>4 DEF Least, Greatest
    <2>5. MagnitudeOf(y) < m
      BY <1>2, <2>3 DEF MagnitudeOf
    <2> QED BY <2>2, <2>3, <2>4, <2>5
  <1>5. CASE ~IsSigned(k)
    <2>1. y = c
      BY <1>5 DEF Raw
    <2>2. Least(k, b) = 0 /\ Greatest(k, b) = m - 1
      BY <1>5 DEF Least, Greatest
    <2>3. MagnitudeOf(y) < m
      BY <1>2, <2>1 DEF MagnitudeOf
    <2> QED BY <1>3, <2>1, <2>2, <2>3
  <1> QED BY <1>4, <1>5

(* With two bits to spare, what is unpacked is packed as it was. *)
LEMMA DecodedRepacks ==
  ASSUME NEW k, NEW b \in 1..PD, NEW d \in DecimalPlaces, NEW c \in 0..(2 ^ b - 1),
         b + 2 <= IF IsDouble(k) THEN PD ELSE PS
  PROVE  Scaled(FixedDecoded(k, b, d, c), d) = Raw(k, b, c)
  <1> PICK D \in Nat \ {0} : D = 10 ^ d /\ 8 * D <= 2 ^ Grid
    BY NumbersAssumption, GridAssumption
  <1> PICK B \in Nat \ {0} : B = 2 ^ b
    BY RangeTypes, PowerPositive
  <1> PICK n \in Int : n = Raw(k, b, c)
    BY RawIs
  <1> PICK a \in Nat : a = MagnitudeOf(n) /\ (n = a \/ n = -a)
    BY MagnitudeType
  <1>0. /\ b \in Nat /\ PD \in Nat \ {0} /\ PS \in Nat \ {0} /\ PS + 2 <= PD
        /\ 2 ^ PD \in Nat /\ 2 ^ (PD - 1) \in Nat /\ 2 ^ (PS - 1) \in Nat
    <2>1. b \in Nat /\ PD \in Nat \ {0} /\ PS \in Nat \ {0} /\ PS + 2 <= PD
      BY RangeTypes, FormatTypes, FormatsAssumption, Constants
    <2> QED BY <2>1, HalfPower
  <1>1. a < B /\ a < 2 ^ PD
    <2>1. a < B /\ B <= 2 ^ PD
      BY RawIs, RangeTypes
    <2> QED BY <1>0, <2>1
  <1>2. Fl(PD, n * 2 ^ Grid, 1) = n * 2 ^ Grid
    BY <1>1, GridExact
  <1> PICK X \in Nat : X = a * 2 ^ Grid
    <2>1. 2 ^ Grid \in Nat
      BY FormatTypes, PowerType
    <2> QED BY <2>1
  <1>3. (n * 2 ^ Grid = X /\ n = a) \/ (n * 2 ^ Grid = -X /\ n = -a)
    <2> PICK U \in Nat : U = 2 ^ Grid
      BY FormatTypes, PowerType
    <2>1. (-a) * U = -(a * U)
      OBVIOUS
    <2> QED BY <2>1
  <1>4. \A y \in Int : Scaled(y, d) = Whole(y * D)
    BY DEF Scaled, Whole
  <1>5. ASSUME NEW q \in Nat, b + 2 <= q + 1
        PROVE  2 * B <= 2 ^ q /\ (b + 3 <= q => 8 * B <= 2 ^ q)
    <2>1. 2 ^ (b + 1) = 2 * B /\ 2 ^ (b + 1 + 1) = 2 * 2 ^ (b + 1)
          /\ 2 ^ (b + 1 + 1 + 1) = 2 * 2 ^ (b + 1 + 1)
      BY <1>0, PowerStep
    <2>2. b + 1 + 1 + 1 = b + 3 /\ b + 1 \in Nat /\ b + 3 \in Nat /\ b + 1 <= q
      BY <1>0, <1>5
    <2>3. 2 ^ (b + 1) <= 2 ^ q /\ (b + 3 <= q => 2 ^ (b + 3) <= 2 ^ q)
      BY <2>2, PowerMonotone
    <2>4. 2 ^ (b + 3) = 8 * B
      BY <2>1, <2>2
    <2> QED BY <2>1, <2>3, <2>4
  <1>6. ASSUME NEW y \in Nat, Whole(y * D) = a
        PROVE  Scaled(y, d) = a /\ Scaled(-y, d) = -a
    <2>1. y * D \in Nat /\ (-y) * D = -(y * D) /\ y \in Int /\ -y \in Int
      OBVIOUS
    <2>2. Whole(-(y * D)) = -Whole(y * D)
      BY <2>1, WholeOdd
    <2>3. Scaled(y, d) = Whole(y * D) /\ Scaled(-y, d) = Whole((-y) * D)
      BY <1>4, <2>1
    <2> QED BY <1>6, <2>1, <2>2, <2>3
  <1>7. CASE IsDouble(k)
    <2> PICK r : r = Fl(PD, X, D)
      OBVIOUS
    <2>1. r \in Nat /\ Whole(r * D) = a
      <3>1. PD - 1 \in Nat /\ b + 2 <= PD - 1 + 1
        BY <1>0, <1>7
      <3> QED BY <1>1, <1>5, <3>1, DoubleRepacks
    <2>2. Fl(PD, -X, D) = -r
      BY <1>0, FlOdd
    <2>3. FixedDecoded(k, b, d, c) = Fl(PD, n * 2 ^ Grid, D)
      BY <1>2, <1>7 DEF FixedDecoded
    <2> QED BY <1>3, <1>6, <2>1, <2>2, <2>3
  <1>8. CASE ~IsDouble(k)
    <2> PICK r : r = Fl(PD, X, D)
      OBVIOUS
    <2> PICK f : f = Fl(PS, r, 1)
      OBVIOUS
    <2>1. r \in Nat /\ f \in Nat /\ Whole(f * D) = a
      <3>1. PD - 1 \in Nat /\ b + 2 <= PD - 1 + 1 /\ PS - 1 \in Nat /\ b + 2 <= PS - 1 + 1 /\ b + 3 <= PD - 1
        BY <1>0, <1>8
      <3>2. 2 * B <= 2 ^ (PS - 1) /\ 8 * B <= 2 ^ (PD - 1)
        BY <1>5, <3>1
      <3> QED BY <1>1, <3>2, FloatRepacks
    <2>2. Fl(PD, -X, D) = -r /\ Fl(PS, -r, 1) = -f
      <3>1. 1 \in Nat \ {0}
        OBVIOUS
      <3>2. Fl(PD, -X, D) = -r
        BY <1>0, FlOdd
      <3>3. Fl(PS, -r, 1) = -Fl(PS, r, 1)
        <4> PICK one \in Nat \ {0} : one = 1
          BY <3>1
        <4>1. PS \in Nat \ {0} /\ r \in Nat
          BY <1>0, <2>1
        <4>2. Fl(PS, -r, one) = -Fl(PS, r, one)
          BY <4>1, FlOdd
        <4> QED BY <4>2
      <3> QED BY <3>2, <3>3
    <2>3. FixedDecoded(k, b, d, c) = Fl(PS, Fl(PD, n * 2 ^ Grid, D), 1)
      BY <1>2, <1>8 DEF FixedDecoded
    <2>4. (FixedDecoded(k, b, d, c) = f /\ n = a) \/ (FixedDecoded(k, b, d, c) = -f /\ n = -a)
      BY <1>3, <2>2, <2>3
    <2> QED BY <1>6, <2>1, <2>4
  <1> QED BY <1>7, <1>8

(* A fixed-point number that is unpacked and packed again keeps its code:  *)
(* the three roundings on the way are together less than half a unit, as   *)
(* long as the number has two bits to spare in its float or double.        *)
THEOREM FixedRepacksTheSameAlways == ScalarSpec => []FixedRepacksTheSame
  <1>1. FixedInv => FixedRepacksTheSame
    <2> SUFFICES ASSUME FixedInv, kind \in FixedKinds, phase = "read",
                        bits + 2 <= IF IsDouble(kind) THEN PD ELSE PS
                 PROVE  /\ ~FixedOverflows(kind, bits, Scaled(out, places))
                        /\ FixedCodes(kind, bits, eff, Scaled(out, places)) = {code}
      BY DEF FixedRepacksTheSame
    <2>1. /\ bits \in 1..Word /\ places \in DecimalPlaces /\ v \in Int
          /\ code \in FixedCodes(kind, bits, eff, Scaled(v, places))
          /\ out = FixedDecoded(kind, bits, places, code)
      BY DEF FixedInv
    <2>2. bits \in 1..PD /\ bits \in 1..(Word - 1)
      BY <2>1, FormatTypes, FormatsAssumption, Constants
    <2>3. code \in 0..(2 ^ bits - 1)
      BY <2>1, <2>2, ScaledType, FixedCodesRange
    <2> PICK s : s = Raw(kind, bits, code)
      OBVIOUS
    <2>4. Scaled(out, places) = s
      BY <2>1, <2>2, <2>3, DecodedRepacks
    <2>5. s \in Least(kind, bits)..Greatest(kind, bits) /\ s \in Int /\ ToUnsigned(s, bits) = code
      BY <2>2, <2>3, RawIs
    <2>6. ~FixedOverflows(kind, bits, s)
      <3>1. Least(kind, bits) \in Int /\ Greatest(kind, bits) \in Int
        BY <2>2, RangeTypes
      <3> QED BY <2>2, <2>5, <3>1, BoundsAre DEF FixedOverflows
    <2>7. FixedCodes(kind, bits, eff, s) = {code}
      BY <2>5, <2>6 DEF FixedCodes
    <2> QED BY <2>4, <2>6, <2>7
  <1>2. ScalarSpec => []FixedInv
    BY FixedInit, FixedStep, PTL DEF ScalarSpec
  <1> QED BY <1>1, <1>2, PTL
=============================================================================
