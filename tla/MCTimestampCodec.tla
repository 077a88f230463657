--------------------------- MODULE MCTimestampCodec -------------------------
(* Seconds of four nanoseconds, an int64 of 8 bits.                         *)
EXTENDS TimestampCodec

MCSecs == -8..8
=============================================================================
