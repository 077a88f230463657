------------------------------ MODULE CScalars ------------------------------
(***************************************************************************)
(* What the generated C code does with one scalar (emitEncodeScalarValue   *)
(* and emitDecodeScalarValue of generator.go, the helpers they emit in     *)
(* runtime_gen.go), beside the Go codec of IntCodec and FloatCodec: no     *)
(* overflow check, the low bits of a C conversion are written.             *)
(***************************************************************************)
EXTENDS FloatCodec

(* (uint64_t)(uint32_t)x, (uint64_t)x and the zigzag of x, by its type.  An *)
(* enum is widened like an int.                                            *)
CWord(k, x) == CASE k \in Uint -> x
                 [] k = "int32" -> ToUnsigned(x, Half)
                 [] k \in Sint -> ZigZag(x)
                 [] OTHER -> ToUnsigned(x, Word)

(* bp_write_bits takes the low bits. *)
CWritten(k, b, x) == ToUnsigned(CWord(k, x), b)

(* mutant: the sign bit is looked for one place too high *)
bp_sign_extAbove(c, b, size) ==
  IF b >= size THEN ToSigned(c, size)
  ELSE ToSigned(IF c \div 2 ^ b # 0 THEN c + (2 ^ Word - 2 ^ b) ELSE c, size)

(* bp_sign_ext32 and bp_sign_ext64: if (v >> (bits - 1)) v |= ~mask *)
bp_sign_ext(c, b, size) ==
  IF b >= size THEN ToSigned(c, size)
  ELSE ToSigned(IF c \div 2 ^ (b - 1) # 0 THEN c + (2 ^ Word - 2 ^ b) ELSE c, size)

CRead(k, b, c) == CASE k \in Uint -> ToUnsigned(c, Size(k))
                    [] k \in Int2c -> bp_sign_ext(c, b, Size(k))
                    [] k \in Sint -> ZagZig(ToUnsigned(c, Size(k)))
                    [] k = "enum" -> ToSigned(c, Half)

(* round((double)f * mul), and (double)raw / div *)
CFixedWritten(b, d, x) == ToUnsigned(Round(Fl(PD, x * 10 ^ d, 1)), b)

CFixedRead(k, b, d, c) ==
  LET raw == IF IsSigned(k) THEN bp_sign_ext(c, b, Word) ELSE c
      r == Fl(PD, Fl(PD, raw * 2 ^ Grid, 1), 10 ^ d)
  IN IF IsDouble(k) THEN r ELSE Fl(PS, r, 1)

(* The integers C writes are those Go writes under OverflowModulo, and      *)
(* those Go writes under any strategy when they are in range; what Go       *)
(* wrote, C reads as Go does: all for widths up to that of the type.  For   *)
(* fixed-point numbers in range both write and read the same as well, at   *)
(* every width but the full one, which Go refuses.                          *)
CAgrees ==
  /\ kind \in Kinds /\ use = "value" /\ bits <= Size(kind) =>
       /\ phase \in {"written", "read"} /\ (eff = "MODULO" \/ ~Overflows(kind, use, bits, v))
            => CWritten(kind, bits, v) = code
       /\ phase = "read" => CRead(kind, bits, code) = out
  /\ kind \in FixedKinds /\ bits < Word =>
       /\ phase \in {"written", "read"} /\ ~FixedOverflows(kind, bits, Scaled(v, places))
            => CFixedWritten(bits, places, v) = code
       /\ phase = "read" => CFixedRead(kind, bits, places, code) = out
=============================================================================
