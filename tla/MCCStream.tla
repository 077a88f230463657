----------------------------- MODULE MCCStream ------------------------------
(* CStream with a buffer of two bytes that hold ones or a pattern, and     *)
(* fields that fill a byte, cross it or leave it partly empty.             *)
EXTENDS CStream

MCStale == {{0, 2, 5, 6}, 0..7}
MCWidths == {3, 5, 8}
MCValues == {85, 178}
=============================================================================
