------------------------------ MODULE FloatCodec ----------------------------
(***************************************************************************)
(* The float and double cases of encodeScalar and decodeScalar             *)
(* (bitpacker/encoder.go, bitpacker/decoder.go), beside the integer ones   *)
(* of IntCodec: fixed-point numbers, and binary16.                         *)
(*                                                                         *)
(* Fixed-point numbers are computed with floating-point formats scaled     *)
(* down like the words: a float has PS significant bits (24 in the code)   *)
(* and a double PD (53), with PS < Half < PD < Word as in the code.  A     *)
(* number x is the integer x * 2^Grid; results too small for that grid,    *)
(* infinities and NaNs are left out.  Binary16 is not scaled: a float32 is *)
(* the record of its sign, exponent and mantissa fields.                   *)
(***************************************************************************)
EXTENDS IntCodec

CONSTANTS PS, PD, Grid,
          FloatKinds,     \* among the kinds below
          DecimalPlaces,  \* the decimal_places of fixed and ufixed
          FixedValues,    \* the numbers packed, as integers on the grid
          HalfValues      \* the float32 packed into 16 bits

ASSUME FormatsAssumption == /\ Grid \in Nat \ {0} /\ PS \in Nat \ {0} /\ PD \in Nat
                            /\ PS < Half /\ Half < PD /\ PD < Word
ASSUME FloatKindsAssumption ==
  FloatKinds \subseteq {"fixed float", "ufixed float", "fixed double", "ufixed double", "half"}

ASSUME NumbersAssumption ==
  FixedValues \subseteq Int /\ \A d \in DecimalPlaces : d \in Nat /\ 10 ^ d \in Nat \ {0}

(* The fields of a float32. *)
ASSUME HalfValuesAssumption ==
  HalfValues \subseteq [sign : {0, 1}, exp : 0..255, mant : 0..(2 ^ 23 - 1)]

(* The grid is finer than the steps of every field: what is too small for  *)
(* it is too small to matter.                                              *)
ASSUME GridAssumption == \A d \in DecimalPlaces : 8 * 10 ^ d <= 2 ^ Grid

VARIABLE places           \* the decimal_places of the field

floatVars == <<vars, places>>

IsDouble(k) == k \in {"fixed double", "ufixed double"}
IsSigned(k) == k \in {"fixed float", "fixed double"}
FixedKinds == FloatKinds \ {"half"}

MagnitudeOf(x) == IF x < 0 THEN -x ELSE x

(* The least exponent with which p bits reach the integer n. *)
Exponent(p, n) ==
  LET least[i \in 0..n] == IF n < 2 ^ (p + i) THEN i ELSE least[i + 1]
  IN least[0]

(* m / u, to the nearest integer, ties to even. *)
NearestEven(m, u) == LET q == m \div u
                     IN IF 2 * (m % u) > u \/ (2 * (m % u) = u /\ q % 2 = 1) THEN q + 1 ELSE q

(* num / den, to the nearest number of p significant bits, ties to even. *)
Fl(p, num, den) ==
  LET m == MagnitudeOf(num)
      w == 2 ^ Exponent(p, m \div den)
      r == NearestEven(m, den * w) * w
  IN IF num < 0 THEN -r ELSE r

(* math.Round of a number on the grid: half away from zero, to an integer. *)
Round(x) == LET m == (MagnitudeOf(x) + 2 ^ (Grid - 1)) \div 2 ^ Grid
            IN IF x < 0 THEN -m ELSE m

(* mutant: the fraction is cut off *)
ScaledDown(x, d) == LET p == Fl(PD, x * 10 ^ d, 1)
                    IN (IF p < 0 THEN -(MagnitudeOf(p) \div 2 ^ Grid) ELSE p \div 2 ^ Grid)

(* math.Round(f * math.Pow10(decimal_places)), in double *)
Scaled(x, d) == Round(Fl(PD, x * 10 ^ d, 1))

(* float64(uint64(1) << n): 0 when the bit is shifted out *)
Shifted(n) == IF n < Word THEN 2 ^ n ELSE 0

(* The bounds that scaled is compared with, in double.  A signed 1 << 63 is *)
(* the most negative int64.                                                *)
MinV(k, b) == IF ~IsSigned(k) THEN 0
              ELSE IF b < Word THEN -(2 ^ (b - 1)) ELSE 2 ^ (Word - 1)
MaxV(k, b) == Fl(PD, IF ~IsSigned(k) THEN Shifted(b) - 1
                     ELSE IF b < Word THEN 2 ^ (b - 1) - 1 ELSE -(2 ^ (Word - 1)) - 1, 1)

FixedOverflows(k, b, s) == s < MinV(k, b) \/ s > MaxV(k, b)

(* math.Mod has the sign of its first argument. *)
Mod(x, y) == IF x < 0 THEN -(MagnitudeOf(x) % y) ELSE x % y

(* The wrap of OverflowModulo, where Shifted(b) is not 0.  The modulus of   *)
(* an unsigned field is maxV + 1, and sums are rounded as well.            *)
FixedWrap(k, b, s) ==
  LET m == IF IsSigned(k) THEN Shifted(b) ELSE Fl(PD, MaxV(k, b) + 1, 1)
      r == Mod(s, m)
  IN IF r < MinV(k, b) THEN Fl(PD, r + m, 1)
     ELSE IF IsSigned(k) /\ r > MaxV(k, b) THEN Fl(PD, r - m, 1) ELSE r

FixedClamp(k, b, s) == IF s < MinV(k, b) THEN MinV(k, b) ELSE MaxV(k, b)

(* What converting a NaN or a number beyond the integers to one gives:      *)
(* a saturated or the indefinite integer, depending on the processor.      *)
OutOfRange(b) == {0, 2 ^ (b - 1) - 1, 2 ^ (b - 1), 2 ^ b - 1}

(* The codes that may be written.  At the full width the bounds have       *)
(* wrapped around: Modulo divides by zero, and the clamped bound has no    *)
(* integer.                                                                *)
FixedCodes(k, b, e, s) ==
  IF ~FixedOverflows(k, b, s) THEN {ToUnsigned(s, b)}
  ELSE IF b = Word /\ (IsSigned(k) \/ e = "MODULO" \/ s >= 0) THEN OutOfRange(b)
  ELSE {ToUnsigned(IF e = "MODULO" THEN FixedWrap(k, b, s) ELSE FixedClamp(k, b, s), b)}

(* mutant: the sign bit of a fixed number is not extended *)
RawUnsigned(k, b, c) == c

(* int64(v << (64 - bitsN)) >> (64 - bitsN), or v *)
Raw(k, b, c) == IF IsSigned(k) THEN ToSigned(c, b) ELSE c

(* float64(raw) / math.Pow10(decimal_places), rounded once more to a float *)
FixedDecoded(k, b, d, c) ==
  LET r == Fl(PD, Fl(PD, Raw(k, b, c) * 2 ^ Grid, 1), 10 ^ d)
  IN IF IsDouble(k) THEN r ELSE Fl(PS, r, 1)

-----------------------------------------------------------------------------
(* binary16 *)

F32(sign, exp, mant) == [sign |-> sign, exp |-> exp, mant |-> mant]

(* sign<<15 | exp<<10 | mant *)
F16(sign, exp, mant) == sign * 2 ^ 15 + exp * 2 ^ 10 + mant

(* mutant: a subnormal result loses its leading bit *)
ImplicitBitLost(f) ==
  LET exp == f.exp - 127 + 15
  IN CASE f.exp = 255 -> F16(f.sign, 31, IF f.mant # 0 THEN 1 ELSE 0)
       [] f.exp # 255 /\ exp >= 31 -> F16(f.sign, 31, 0)
       [] exp < -10 -> F16(f.sign, 0, 0)
       [] exp \in -10..0 -> F16(f.sign, 0, f.mant \div 2 ^ (14 - exp))
       [] OTHER -> F16(f.sign, exp, f.mant \div 2 ^ 13)

float32ToFloat16(f) ==
  LET exp == f.exp - 127 + 15
  IN CASE f.exp = 255 -> F16(f.sign, 31, IF f.mant # 0 THEN 1 ELSE 0)
       [] f.exp # 255 /\ exp >= 31 -> F16(f.sign, 31, 0)
       [] exp < -10 -> F16(f.sign, 0, 0)
       [] exp \in -10..0 -> F16(f.sign, 0, (f.mant + 2 ^ 23) \div 2 ^ (14 - exp))
       [] OTHER -> F16(f.sign, exp, f.mant \div 2 ^ 13)

float16ToFloat32(h) ==
  LET sign == h \div 2 ^ 15
      exp == (h \div 2 ^ 10) % 2 ^ 5
      mant == h % 2 ^ 10
      shift == CHOOSE i \in 1..10 : mant * 2 ^ i \in 2 ^ 10..(2 ^ 11 - 1)
  IN CASE exp = 31 -> F32(sign, 255, mant)
       [] exp = 0 /\ mant = 0 -> F32(sign, 0, 0)
       [] exp = 0 /\ mant # 0 -> F32(sign, 1 - shift + 112, (mant * 2 ^ shift - 2 ^ 10) * 2 ^ 13)
       [] OTHER -> F32(sign, exp + 112, mant * 2 ^ 13)

-----------------------------------------------------------------------------
FloatInit == /\ kind \in FloatKinds /\ use = "value"
             /\ IF kind = "half"
                THEN bits = 16 /\ places = 0 /\ eff = "ERROR" /\ v \in HalfValues
                ELSE /\ bits \in 1..(IF IsDouble(kind) THEN Word ELSE Half)
                     /\ places \in DecimalPlaces
                     /\ eff \in Strategies
                     /\ v \in {x \in FixedValues : IsDouble(kind) \/ Fl(PS, x, 1) = x}
             /\ phase = "start" /\ code = 0 /\ out = 0

EncodeFixed == /\ phase = "start" /\ kind \in FixedKinds
               /\ LET s == Scaled(v, places)
                  IN /\ ~(FixedOverflows(kind, bits, s) /\ eff = "ERROR")
                     /\ code' \in FixedCodes(kind, bits, eff, s)
               /\ phase' = "written"
               /\ UNCHANGED <<field, places, out>>

RefuseFixed == /\ phase = "start" /\ kind \in FixedKinds
               /\ FixedOverflows(kind, bits, Scaled(v, places)) /\ eff = "ERROR"
               /\ phase' = "PackError"
               /\ UNCHANGED <<field, places, code, out>>

EncodeHalf == /\ phase = "start" /\ kind = "half"
              /\ code' = float32ToFloat16(v)
              /\ phase' = "written"
              /\ UNCHANGED <<field, places, out>>

DecodeFloat == /\ phase = "written" /\ kind \in FloatKinds
               /\ out' = IF kind = "half" THEN float16ToFloat32(code)
                         ELSE FixedDecoded(kind, bits, places, code)
               /\ phase' = "read"
               /\ UNCHANGED <<field, places, code>>

IntNext == kind \in Kinds /\ Next /\ UNCHANGED places

ScalarInit == (Init /\ places = 0) \/ FloatInit
ScalarNext == IntNext \/ EncodeFixed \/ RefuseFixed \/ EncodeHalf \/ DecodeFloat

ScalarSpec == ScalarInit /\ [][ScalarNext]_floatVars

-----------------------------------------------------------------------------
(* The range README gives a fixed-point number of n bits. *)
DocMin == IF IsSigned(kind) THEN -(2 ^ (bits - 1)) ELSE 0
DocMax == IF IsSigned(kind) THEN 2 ^ (bits - 1) - 1 ELSE 2 ^ bits - 1

(* round(value * 10^decimal_places), computed exactly. *)
Exact == v * 10 ^ places
IsNearest(n) == n = Round(Exact)
WithinOne(n) == MagnitudeOf(n * 2 ^ Grid - Exact) <= 2 ^ Grid

(* Fixed-point numbers of encodeScalar, at the widths at which a double     *)
(* holds both bounds: what the range holds is packed, to the nearest unit   *)
(* wherever the product is a double and to within a unit elsewhere; what   *)
(* is a unit or more outside is refused, or wrapped, or clamped to the      *)
(* nearer bound.                                                           *)
FixedAsDocumented ==
  kind \in FixedKinds /\ bits <= PD =>
    LET inside == Exact \in (DocMin * 2 ^ Grid)..(DocMax * 2 ^ Grid)
        outside == Exact <= (DocMin - 1) * 2 ^ Grid \/ Exact >= (DocMax + 1) * 2 ^ Grid
        stored == Raw(kind, bits, code)
    IN /\ inside => /\ phase # "PackError"
                    /\ phase # "start" => WithinOne(stored)
                    /\ phase # "start" /\ Fl(PD, Exact, 1) = Exact => IsNearest(stored)
       /\ outside /\ phase # "start" =>
            CASE eff = "ERROR" -> phase = "PackError"
              [] eff = "MODULO" -> (stored - Scaled(v, places)) % 2 ^ bits = 0
              [] OTHER -> stored = IF Exact < 0 THEN DocMin ELSE DocMax

(* A fixed-point number that is unpacked and packed again keeps its code,  *)
(* and is not refused, as long as the float or double it is handed over in *)
(* has two bits to spare beyond its width.                                 *)
FixedRepacksTheSame ==
  kind \in FixedKinds /\ phase = "read" /\ bits + 2 <= (IF IsDouble(kind) THEN PD ELSE PS) =>
    LET s == Scaled(out, places)
    IN ~FixedOverflows(kind, bits, s) /\ FixedCodes(kind, bits, eff, s) = {code}

(* float32ToFloat16 and float16ToFloat32: NaN and infinities stay, 2^16 and *)
(* more becomes infinite, every other number loses the bits that binary16   *)
(* has not, at every exponent, and keeps its sign; the result is stable.    *)
HalfTruncates ==
  kind = "half" /\ phase = "read" =>
    LET lost == 13 + (IF v.exp < 113 THEN 113 - v.exp ELSE 0)
        kept == (v.mant + 2 ^ 23) - ((v.mant + 2 ^ 23) % 2 ^ lost)
    IN /\ float32ToFloat16(out) = code
       /\ out.sign = v.sign
       /\ CASE v.exp = 255 -> out.exp = 255 /\ (out.mant = 0 <=> v.mant = 0)
            [] v.exp \in 143..254 -> out.exp = 255 /\ out.mant = 0
            [] v.exp = 0 \/ lost > 23 -> out.exp = 0 /\ out.mant = 0
            [] OTHER -> out.exp = v.exp /\ out.mant = kept - 2 ^ 23

(* OVERFLOW_STRATEGY_CLAMP "saturates to the maximum (or minimum)           *)
(* representable value" (options.proto), at every width but the full one.  *)
ClampSaturates ==
  kind \in FixedKinds /\ bits < Word /\ phase = "written" /\ eff = "CLAMP" =>
    /\ Exact >= (DocMax + 1) * 2 ^ Grid => Raw(kind, bits, code) = DocMax
    /\ Exact <= (DocMin - 1) * 2 ^ Grid => Raw(kind, bits, code) = DocMin
=============================================================================
