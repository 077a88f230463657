-------------------------------- MODULE Bits --------------------------------
(***************************************************************************)
(* Bytes, and the bits of slices of them, as bitpacker/bitstream.go and    *)
(* the C runtime address them.  A byte is the set of the positions of its  *)
(* bits that are 1 (7 is the most significant), so that b |= 1 << j adds j *)
(* to the set, b &= ~(1 << j) takes it out and (b >> j) & 1 asks for it.   *)
(***************************************************************************)
EXTENDS Integers

Byte == SUBSET (0..7)

(* No loop over bits in progress. *)
Idle == [n |-> 0, val |-> 0]

(* mutant: the least significant bit of a byte comes first *)
BitAtLsbFirst(b, p) == IF p % 8 \in b[p \div 8 + 1] THEN 1 ELSE 0

(* (b[p >> 3] >> (7 - (p & 7))) & 1 *)
BitAt(b, p) == IF 7 - (p % 8) \in b[p \div 8 + 1] THEN 1 ELSE 0

(* mutants: no & 1; shifted by one too many *)
LowBitUnmasked(val, i) == val \div (2 ^ i)
LowBitOffByOne(val, i) == IF (val \div (2 ^ (i + 1))) % 2 # 0 THEN 1 ELSE 0

(* (val >> i) & 1 *)
LowBit(val, i) == IF (val \div (2 ^ i)) % 2 # 0 THEN 1 ELSE 0
=============================================================================
