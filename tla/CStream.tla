------------------------------ MODULE CStream -------------------------------
(***************************************************************************)
(* bp_writer_t and bp_reader_t of the C runtime (runtimeHeader in          *)
(* runtime_gen.go), under the buffer API the generated code puts around    *)
(* them.  Unlike bitWriter, the writer fills the caller's buffer, of a     *)
(* fixed size and holding whatever was there before, so it clears bits as  *)
(* well as sets them; and a request that does not fit is refused before a  *)
(* bit of it moves.  The raw-bytes functions are loops of 8-bit requests.  *)
(***************************************************************************)
EXTENDS Bits, Sequences

CONSTANTS Size,       \* buf_size: the bytes of the caller's buffer
          Stale,      \* what a byte of it may hold before the call
          Widths,     \* the n of the calls to bp_write_bits and bp_read_bits
          Values,     \* the values passed to bp_write_bits
          Word        \* 2^32: positions and capacities are uint32_t

ASSUME SizeAssumption == Size \in Nat
ASSUME StaleAssumption == Stale \subseteq Byte
ASSUME RequestsAssumption == Widths \subseteq Nat /\ Values \subseteq Nat

(* The buffer is small enough for bit_pos + n not to wrap around: 512 MB    *)
(* less the widest field.                                                  *)
ASSUME CapacityAssumption == /\ Word \in Nat /\ 8 * Size < Word
                             /\ \A n \in Widths : 8 * Size + n < Word

VARIABLES buf, pos,   \* bp_writer_t: the buffer and bit_pos
          writing,    \* the bp_write_bits in progress: val, and the n low bits left
          data, rpos, \* bp_reader_t: the delivered bytes and bit_pos
          reading,    \* the bp_read_bits in progress: bits left, and val so far
          phase,      \* "encode", then "full", or "decode" and then "short"
          before,     \* ghost: the buffer as the caller passed it
          written,    \* ghost: the bits written so far
          got,        \* ghost: the bits read so far
          puts, gets, \* ghost: the accepted [n, val] of bp_write_bits and bp_read_bits
          refused     \* ghost: the n of the request that returned -1

encoder == <<buf, pos, writing, before, written, puts>>
decoder == <<data, rpos, reading, got, gets>>
vars == <<encoder, decoder, phase, refused>>

(* bp_writer_t w = {buf, 0, buf_size * 8u} *)
bit_cap == (8 * Size) % Word

(* bp_reader_t r = {buf, 0, buf_len * 8u} *)
bit_len == (8 * Len(data)) % Word

Init == /\ before \in [1..Size -> Stale] /\ buf = before
        /\ pos = 0 /\ writing = Idle
        /\ data = <<>> /\ rpos = 0 /\ reading = Idle
        /\ phase = "encode"
        /\ written = <<>> /\ got = <<>>
        /\ puts = <<>> /\ gets = <<>>
        /\ refused = 0

-----------------------------------------------------------------------------
(* mutant: only the next bit is checked *)
NoneLeft(n) == rpos >= bit_len

(* w->bit_pos + (uint32_t)n > w->bit_cap *)
NoRoom(n) == (pos + n) % Word > bit_cap

(* (uint32_t)n > r->bit_len - r->bit_pos *)
TooFewLeft(n) == n > (bit_len - rpos) % Word

StartWriteBits(val, n) ==
  /\ phase = "encode" /\ writing.n = 0
  /\ ~NoRoom(n)
  /\ writing' = [n |-> n, val |-> val]
  /\ puts' = Append(puts, [n |-> n, val |-> val])
  /\ UNCHANGED <<buf, pos, before, written, decoder, phase, refused>>

(* bp_write_bits returns -1, and so does the encoder *)
WriteRefused(n) ==
  /\ phase = "encode" /\ writing.n = 0
  /\ NoRoom(n)
  /\ phase' = "full"
  /\ refused' = n
  /\ UNCHANGED <<encoder, decoder>>

(* mutant: bits are OR-ed in, as the Go writer does *)
WithBitOred(b, bit, p) ==
  IF bit # 0 THEN [b EXCEPT ![p \div 8 + 1] = @ \cup {7 - (p % 8)}] ELSE b

(* b[p >> 3] |= 1u << bit_idx, or &= ~(1u << bit_idx) *)
WithBit(b, bit, p) ==
  [b EXCEPT ![p \div 8 + 1] = IF bit # 0 THEN @ \cup {7 - (p % 8)}
                                         ELSE @ \ {7 - (p % 8)}]

WriteBit ==
  LET bit == LowBit(writing.val, writing.n - 1)
  IN /\ phase = "encode" /\ writing.n > 0
     /\ buf' = WithBit(buf, bit, pos)
     /\ pos' = pos + 1
     /\ writing' = [writing EXCEPT !.n = @ - 1]
     /\ written' = Append(written, bit)
     /\ UNCHANGED <<before, puts, decoder, phase, refused>>

(* bp_writer_bytes: (w->bit_pos + 7u) / 8u *)
UsedBytes == (pos + 7) \div 8

(* mutant: the padding is left as it was *)
Unmasked == buf

(* bp_writer_finish: the last partial byte &= 0xFF << (8 - used) *)
Masked ==
  IF pos % 8 = 0 THEN buf
  ELSE [buf EXCEPT ![pos \div 8 + 1] = {j \in @ : j >= 8 - (pos % 8)}]

(* The encoder returns the length; the transport may lose a tail of it. *)
Finish(k) ==
  /\ phase = "encode" /\ writing.n = 0
  /\ buf' = Masked
  /\ data' = SubSeq(Masked, 1, k)
  /\ phase' = "decode"
  /\ UNCHANGED <<pos, writing, before, written, puts, rpos, reading, got, gets, refused>>

StartReadBits(n) ==
  /\ phase = "decode" /\ reading.n = 0
  /\ ~TooFewLeft(n)
  /\ reading' = [n |-> n, val |-> 0]
  /\ gets' = Append(gets, [n |-> n, val |-> 0])
  /\ UNCHANGED <<encoder, data, rpos, got, phase, refused>>

(* bp_read_bits returns -1, and so does the decoder *)
ReadRefused(n) ==
  /\ phase = "decode" /\ reading.n = 0
  /\ TooFewLeft(n)
  /\ phase' = "short"
  /\ refused' = n
  /\ UNCHANGED <<encoder, decoder>>

(* mutant: the bits of the value come out in reverse *)
ShiftedInFromTop(val, bit) == bit * 128 + val \div 2

(* (val << 1) | bit *)
ShiftedIn(val, bit) == 2 * val + bit

ReadBit ==
  LET bit == BitAt(data, rpos)
      val == ShiftedIn(reading.val, bit)
  IN /\ phase = "decode" /\ reading.n > 0
     /\ rpos' = rpos + 1
     /\ got' = Append(got, bit)
     /\ reading' = [n |-> reading.n - 1, val |-> val]
     /\ gets' = [gets EXCEPT ![Len(gets)].val = val]
     /\ UNCHANGED <<encoder, data, phase, refused>>

Next == \/ \E n \in Widths, val \in Values : StartWriteBits(val, n)
        \/ \E n \in Widths : WriteRefused(n)
        \/ WriteBit
        \/ \E k \in 0..UsedBytes : Finish(k)
        \/ \E n \in Widths : StartReadBits(n)
        \/ \E n \in Widths : ReadRefused(n)
        \/ ReadBit

Spec == Init /\ [][Next]_vars

-----------------------------------------------------------------------------
TypeOK == /\ before \in [1..Size -> Byte] /\ buf \in [1..Size -> Byte]
          /\ pos \in Nat /\ rpos \in Nat /\ refused \in Nat
          /\ writing \in [n : Nat, val : Nat]
          /\ reading \in [n : Nat, val : Nat]
          /\ data \in Seq(Byte)
          /\ phase \in {"encode", "full", "decode", "short"}
          /\ written \in Seq({0, 1}) /\ got \in Seq({0, 1})

(* bp_write_bits and bp_writer_finish: whatever the buffer held, bit p of   *)
(* it is the p-th bit written and the padding of a finished message is     *)
(* zero; the rest of the caller's buffer is as the caller left it.         *)
BufferIsolated ==
  LET done == phase \in {"decode", "short"}
  IN \A p \in 0..(8 * Size - 1) :
       BitAt(buf, p) = IF p < pos THEN written[p + 1]
                       ELSE IF done /\ p < 8 * UsedBytes THEN 0
                       ELSE BitAt(before, p)

(* The checks at the head of bp_write_bits and bp_read_bits: an accepted   *)
(* request stays inside the buffer, and a refused one did not fit in it,    *)
(* so that the C reader stops at the request at which the Go reader does.  *)
RefusalIsExact ==
  /\ pos + writing.n <= 8 * Size
  /\ phase # "encode" => rpos + reading.n <= 8 * Len(data)
  /\ phase = "full" => pos + refused > 8 * Size
  /\ phase = "short" => rpos + refused > 8 * Len(data)

(* bp_read_bits: a reader that asks for the widths the writer used gets     *)
(* the low n bits of the writer's values.                                  *)
SameWidthsSameValues ==
  LET done == IF reading.n = 0 THEN Len(gets) ELSE Len(gets) - 1
      aligned(i) == i <= Len(puts) /\ \A j \in 1..i : puts[j].n = gets[j].n
  IN \A i \in 1..done :
       aligned(i) => gets[i].val = puts[i].val % (2 ^ puts[i].n)

Queue == INSTANCE BitQueue WITH
           sent <- written,
           closed <- (phase \in {"decode", "short"}),
           stream <- [p \in 1..(8 * Len(data)) |-> BitAt(data, p - 1)],
           rcvd <- got,
           ended <- FALSE

(* The C writer and reader are the queue of bits the Go ones are: the same *)
(* requests give the same bytes, padding included, and the same bits back. *)
(* (Only, the reader refuses a request it could have begun: no End.)       *)
RefinesBitQueue == Queue!QSpec
=============================================================================
