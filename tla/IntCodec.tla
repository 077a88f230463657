------------------------------- MODULE IntCodec -----------------------------
(***************************************************************************)
(* The integer and enum cases of encodeScalar, encodeMapKey, decodeScalar  *)
(* and decodeMapKey (bitpacker/encoder.go, bitpacker/decoder.go): a value  *)
(* is brought into the range of its annotation by the overflow strategy,   *)
(* its low bits are written, read back and converted to the Go type.       *)
(* Words are scaled down: Word stands for 64 and Half for 32.              *)
(***************************************************************************)
EXTENDS Integers

CONSTANTS Word, Half,
          Kinds,        \* among the kinds of 32 and of 64 bits below
          Uses          \* "value" for encodeScalar, "key" for encodeMapKey

ASSUME WidthsAssumption == Half \in Nat \ {0} /\ Word \in Nat /\ Word > Half
ASSUME KindsAssumption ==
  Kinds \subseteq {"uint32", "int32", "sint32", "uint64", "int64", "sint64", "enum"}
ASSUME UsesAssumption == Uses \subseteq {"value", "key"}

VARIABLES kind, use, bits, eff, v,   \* the field and its value
          phase,                     \* "start", "written", "PackError", "read"
          code,                      \* the bits written, as a number
          out                        \* the value read back

vars == <<kind, use, bits, eff, v, phase, code, out>>
field == <<kind, use, bits, eff, v>>

Strategies == {"ERROR", "MODULO", "CLAMP", "CROP_LEFT", "CROP_RIGHT"}

Uint == {"uint32", "uint64"}
Int2c == {"int32", "int64"}
Sint == {"sint32", "sint64"}

Size(k) == IF k \in {"uint64", "int64", "sint64"} THEN Word ELSE Half

MaxSigned(n) == 2 ^ (n - 1) - 1
MinSigned(n) == -(2 ^ (n - 1))
ToUnsigned(x, n) == x % 2 ^ n
ToSigned(x, n) == IF ToUnsigned(x, n) > MaxSigned(n) THEN ToUnsigned(x, n) - 2 ^ n
                  ELSE ToUnsigned(x, n)

ValuesOf(k) == IF k \in Uint THEN 0..(2 ^ Size(k) - 1)
               ELSE MinSigned(Size(k))..MaxSigned(Size(k))

-----------------------------------------------------------------------------
ZigZag(x) == IF x >= 0 THEN 2 * x ELSE -2 * x - 1

(* mutant: the odd codes are one off *)
ZagZigOff(u) == IF u % 2 = 0 THEN u \div 2 ELSE -(u \div 2)

ZagZig(u) == IF u % 2 = 0 THEN u \div 2 ELSE -(u \div 2) - 1

(* The unsigned word that is compared with the range: a negative enum      *)
(* number is sign-extended.                                                *)
Unsigned(k, x) == CASE k \in Uint -> x
                    [] k \in Sint -> ZigZag(x)
                    [] k = "enum" -> ToUnsigned(x, Word)

(* Keys are never checked. *)
Overflows(k, u, b, x) ==
  /\ u = "value"
  /\ IF k \in Int2c THEN x < MinSigned(b) \/ x > MaxSigned(b)
     ELSE b < Word /\ Unsigned(k, x) >= 2 ^ b

(* mutant: whatever is out of range becomes the maximum *)
SaturateUp(k, b, x) == IF k \in Int2c THEN MaxSigned(b) ELSE 2 ^ b - 1

(* What the strategies other than Error and Modulo make of a value. *)
Saturate(k, b, x) == CASE k \notin Int2c -> 2 ^ b - 1
                       [] k \in Int2c /\ x < MinSigned(b) -> MinSigned(b)
                       [] OTHER -> MaxSigned(b)

(* The two's-complement wrap, and the mask on an unsigned word. *)
Wrap(k, b, x) == IF k \in Int2c THEN ToSigned(x, b) ELSE ToUnsigned(Unsigned(k, x), b)

(* What is passed to writeBits. *)
Passed(k, u, b, e, x) ==
  IF ~Overflows(k, u, b, x) THEN (IF k \in Int2c THEN x ELSE Unsigned(k, x))
  ELSE IF e = "MODULO" THEN Wrap(k, b, x) ELSE Saturate(k, b, x)

Wire(x, b) == ToUnsigned(x, b)

(* mutant: the sign bit is not extended *)
SignExtendNot(c, b, size) == c

SignExtend(c, b, size) == IF b < size THEN ToSigned(c, b) ELSE c

Decoded(k, b, c) ==
  CASE k \in Uint -> ToUnsigned(c, Size(k))
    [] k \in Int2c -> ToSigned(SignExtend(c, b, Size(k)), Size(k))
    [] k \in Sint -> ZagZig(ToUnsigned(c, Size(k)))
    [] k = "enum" -> ToSigned(c, Half)

-----------------------------------------------------------------------------
Init == /\ kind \in Kinds
        /\ use \in Uses /\ (use = "key" => kind # "enum")
        /\ bits \in 1..Word
        /\ eff \in Strategies
        /\ v \in ValuesOf(kind)
        /\ phase = "start" /\ code = 0 /\ out = 0

Encode == /\ phase = "start"
          /\ ~(Overflows(kind, use, bits, v) /\ eff = "ERROR")
          /\ code' = Wire(Passed(kind, use, bits, eff, v), bits)
          /\ phase' = "written"
          /\ UNCHANGED <<field, out>>

Refuse == /\ phase = "start"
          /\ Overflows(kind, use, bits, v) /\ eff = "ERROR"
          /\ phase' = "PackError"
          /\ UNCHANGED <<field, code, out>>

Decode == /\ phase = "written"
          /\ out' = Decoded(kind, bits, code)
          /\ phase' = "read"
          /\ UNCHANGED <<field, code>>

Next == Encode \/ Refuse \/ Decode

Spec == Init /\ [][Next]_vars

-----------------------------------------------------------------------------
(* The values that bits can tell apart; zigzag numbers, seen as numbers,   *)
(* have the range of two's complement.                                     *)
Representable ==
  CASE kind \in Uint -> v < 2 ^ bits
    [] kind = "enum" -> bits = Word \/ v \in 0..(2 ^ bits - 1)
    [] OTHER -> v \in MinSigned(bits)..MaxSigned(bits)

(* A value in range is never refused, and is read back as it was, at every *)
(* width, whether it is a value or a key; one out of range is refused      *)
(* under OverflowError.                                                    *)
RangeIsExact == kind \in Kinds =>
  /\ Representable => phase # "PackError" /\ (phase = "read" => out = v)
  /\ use = "value" /\ eff = "ERROR" /\ phase = "read" => Representable

(* The number a clamped value is read back as.  Unsigned numbers, enums     *)
(* and zigzag numbers follow their rows of the README's "Strategy           *)
(* semantics".  For signed numbers the documents differ: the table says    *)
(* +-(2^(n-1) - 1), and OVERFLOW_STRATEGY_CLAMP (options.proto) "the        *)
(* maximum (or minimum) representable value", which is what is meant here. *)
DocClamp == CASE kind \in Uint -> 2 ^ bits - 1
              [] kind \in Int2c -> IF v < 0 THEN MinSigned(bits) ELSE MaxSigned(bits)
              [] kind \in Sint -> ZagZig(2 ^ bits - 1)
              [] kind = "enum" -> 2 ^ bits - 1

(* A negative number of an enum: the row's min(v, 2^n - 1) is the number    *)
(* itself, which no field holds; the least code would be the minimum of    *)
(* options.proto; the code stores the greatest.                            *)
NegativeEnum == kind = "enum" /\ v < 0

DocModulo == CASE kind \in Uint -> out = v % 2 ^ bits
               [] kind \in Int2c -> (out - v) % 2 ^ bits = 0 /\ out \in MinSigned(bits)..MaxSigned(bits)
               [] kind \in Sint -> out = ZagZig(ZigZag(v) % 2 ^ bits)
               [] kind = "enum" -> (out - v) % 2 ^ (IF bits < Half THEN bits ELSE Half) = 0

(* A number out of range is read back as OverflowModulo documents, under   *)
(* every other strategy clamped as documented; a negative number of an     *)
(* enum, of which the code does what neither document says, as the         *)
(* greatest code.                                                          *)
StrategyAsDocumented ==
  kind \in Kinds /\ phase = "read" /\ use = "value" /\ ~Representable =>
    /\ eff = "MODULO" => DocModulo
    /\ eff # "MODULO" /\ ~NegativeEnum => out = DocClamp
    /\ eff # "MODULO" /\ NegativeEnum => out = ToSigned(2 ^ bits - 1, Half)

(* A program that unpacks a message and packs it again forwards the same   *)
(* bits, also of values that were changed to fit.                          *)
RepacksTheSame ==
  kind \in Kinds /\ phase = "read" =>
    /\ Overflows(kind, use, bits, out) => eff # "ERROR"
    /\ Wire(Passed(kind, use, bits, eff, out), bits) = code
=============================================================================
