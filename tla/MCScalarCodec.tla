---------------------------- MODULE MCScalarCodec ---------------------------
(* Words of 9 bits, halves of 5, floats and doubles with significands of 4 *)
(* and 7 bits; binary16 from the whole exponent range of binary32.         *)
EXTENDS CScalars

MCKinds == {"uint32", "int32", "sint32", "uint64", "int64", "sint64", "enum"}
MCFloatKinds == {"fixed float", "ufixed float", "fixed double", "ufixed double", "half"}
MCPlaces == {0, 1, 2}

(* Doubles of 7 bits from 1/4 to 1024, the floats among them, and zero. *)
MCSignificands == {64, 65, 67, 126, 127} \cup {m \in 64..127 : m % 5 = 0 \/ m % 8 = 0}
MCFixedValues == {0} \cup {s * m * 2 ^ e : s \in {-1, 1}, m \in MCSignificands, e \in 5..16}

(* Every exponent, and mantissas on both sides of what binary16 keeps.     *)
MCHalfMantissas == {0, 1, 2 ^ 22, 2 ^ 23 - 1} \cup
                   {2 ^ i + j : i \in 12..21, j \in {-1, 0, 1}} \cup
                   {2 ^ 23 - 2 ^ i : i \in 12..21}
MCHalfValues == [sign : {0, 1}, exp : 0..255, mant : MCHalfMantissas]
=============================================================================
