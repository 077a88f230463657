------------------------------ MODULE BitQueue ------------------------------
(***************************************************************************)
(* What a bit stream promises, whatever bytes it is made of.  The writer   *)
(* puts bits one by one; closing the stream pads them with zeros to a      *)
(* whole number of bytes, and the transport may then lose a tail of whole  *)
(* bytes; the reader gets the delivered bits in the order they were put,   *)
(* and is told of the end exactly when there is none left.                 *)
(* BitStream, the bitWriter and bitReader of bitpacker/bitstream.go, is    *)
(* shown to implement it.                                                  *)
(***************************************************************************)
EXTENDS Integers, Sequences

VARIABLES sent,       \* the bits put so far
          closed,     \* the writer has handed the stream over
          stream,     \* the bits delivered to the reader
          rcvd,       \* the bits the reader has got
          ended       \* the reader has been told the stream is exhausted

qvars == <<sent, closed, stream, rcvd, ended>>

QInit == /\ sent = <<>>
         /\ closed = FALSE
         /\ stream = <<>>
         /\ rcvd = <<>>
         /\ ended = FALSE

Put(b) == /\ ~closed
          /\ sent' = Append(sent, b)
          /\ UNCHANGED <<closed, stream, rcvd, ended>>

(* The first k bytes of the bits put, the last byte padded with zeros. *)
Padded(bits, k) == [p \in 1..(8 * k) |-> IF p <= Len(bits) THEN bits[p] ELSE 0]

Close(k) == /\ ~closed
            /\ closed' = TRUE
            /\ stream' = Padded(sent, k)
            /\ UNCHANGED <<sent, rcvd, ended>>

Get == /\ closed /\ ~ended
       /\ Len(rcvd) < Len(stream)
       /\ rcvd' = Append(rcvd, stream[Len(rcvd) + 1])
       /\ UNCHANGED <<sent, closed, stream, ended>>

End == /\ closed /\ ~ended
       /\ Len(rcvd) = Len(stream)
       /\ ended' = TRUE
       /\ UNCHANGED <<sent, closed, stream, rcvd>>

QNext == \/ \E b \in {0, 1} : Put(b)
         \/ \E k \in 0..((Len(sent) + 7) \div 8) : Close(k)
         \/ Get
         \/ End

QSpec == QInit /\ [][QNext]_qvars
=============================================================================
