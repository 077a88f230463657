----------------------------- MODULE MCBitStream ----------------------------
(* BitStream with fields of 3, 5 and 8 bits: bytes filled exactly, crossed  *)
(* and left partly empty.                                                   *)
EXTENDS BitStream

MCWidths == {3, 5, 8}
MCValues == {5, 178, 255}
=============================================================================
