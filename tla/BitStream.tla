------------------------------ MODULE BitStream -----------------------------
(***************************************************************************)
(* bitWriter and bitReader of bitpacker/bitstream.go: one writer fills a   *)
(* growing slice of bytes MSB-first, its bytes are handed to one reader,   *)
(* possibly cut short on the way.                                          *)
(* writeBits and readBits are loops over writeBit and readBit: one step    *)
(* here is one iteration, writing and reading keep what is left of the     *)
(* loop.                                                                   *)
(***************************************************************************)
EXTENDS Bits, Sequences

CONSTANTS Widths,     \* the n of the calls to writeBits and readBits
          Values,     \* the values passed to writeBits
          MaxBits     \* bound: bits written in a behaviour

ASSUME WidthsAssumption == Widths \subseteq Nat
ASSUME ValuesAssumption == Values \subseteq Nat
ASSUME MaxBitsAssumption == MaxBits \in Nat

VARIABLES buf, wpos,  \* bitWriter
          writing,    \* the writeBits in progress: val, and the n low bits left
          data, rpos, \* bitReader: its buf and pos
          reading,    \* the readBits in progress: bits left, and val so far
          phase,      \* "write", then "read", then "eof"
          written,    \* ghost: the bits passed to writeBit so far
          got,        \* ghost: the bits readBit returned so far
          puts, gets  \* ghost: the completed [n, val] of writeBits and readBits

writer == <<buf, wpos, writing, written, puts>>
reader == <<data, rpos, reading, got, gets>>
vars == <<writer, reader, phase>>

Init == /\ buf = <<>> /\ wpos = 0 /\ writing = Idle
        /\ data = <<>> /\ rpos = 0 /\ reading = Idle
        /\ phase = "write"
        /\ written = <<>> /\ got = <<>>
        /\ puts = <<>> /\ gets = <<>>

-----------------------------------------------------------------------------
StartWriteBits(val, n) ==
  /\ phase = "write" /\ writing.n = 0
  /\ Len(written) + n <= MaxBits
  /\ writing' = [n |-> n, val |-> val]
  /\ puts' = Append(puts, [n |-> n, val |-> val])
  /\ UNCHANGED <<buf, wpos, written, reader, phase>>

(* append a zero byte when the position has run past the last one *)
Grown == IF wpos \div 8 >= Len(buf) THEN Append(buf, {}) ELSE buf

WriteBit ==
  LET bit == LowBit(writing.val, writing.n - 1)
      bitIdx == 7 - (wpos % 8)
  IN /\ phase = "write" /\ writing.n > 0
     /\ buf' = IF bit # 0
               THEN [Grown EXCEPT ![wpos \div 8 + 1] = @ \cup {bitIdx}]
               ELSE Grown
     /\ wpos' = wpos + 1
     /\ writing' = [n |-> writing.n - 1, val |-> writing.val]
     /\ written' = Append(written, bit)
     /\ UNCHANGED <<puts, reader, phase>>

(* bytes() hands the slice over; the transport may lose a tail of it. *)
HandOver(k) ==
  /\ phase = "write" /\ writing.n = 0
  /\ data' = SubSeq(buf, 1, k)
  /\ phase' = "read"
  /\ UNCHANGED <<writer, rpos, reading, got, gets>>

StartReadBits(n) ==
  /\ phase = "read" /\ reading.n = 0
  /\ reading' = [n |-> n, val |-> 0]
  /\ gets' = Append(gets, [n |-> n, val |-> 0])
  /\ UNCHANGED <<writer, data, rpos, got, phase>>

ReadBit ==
  LET bit == BitAt(data, rpos)
      val == 2 * reading.val + bit
  IN /\ phase = "read" /\ reading.n > 0
     /\ rpos \div 8 < Len(data)
     /\ rpos' = rpos + 1
     /\ got' = Append(got, bit)
     /\ reading' = [n |-> reading.n - 1, val |-> val]
     /\ gets' = [gets EXCEPT ![Len(gets)].val = val]
     /\ UNCHANGED <<writer, data, phase>>

(* mutant: readBits refuses at once when fewer than n bits are left *)
ReadEOFEarly ==
  /\ phase = "read" /\ reading.n > 0
  /\ rpos + reading.n > 8 * Len(data)
  /\ phase' = "eof"
  /\ reading' = Idle
  /\ gets' = SubSeq(gets, 1, Len(gets) - 1)
  /\ UNCHANGED <<writer, data, rpos, got>>

(* readBit finds no byte: readBits drops the bits it has and returns 0 *)
ReadEOF ==
  /\ phase = "read" /\ reading.n > 0
  /\ rpos \div 8 >= Len(data)
  /\ phase' = "eof"
  /\ reading' = Idle
  /\ gets' = SubSeq(gets, 1, Len(gets) - 1)
  /\ UNCHANGED <<writer, data, rpos, got>>

Next == \/ \E n \in Widths, val \in Values : StartWriteBits(val, n)
        \/ WriteBit
        \/ \E k \in 0..Len(buf) : HandOver(k)
        \/ \E n \in Widths : StartReadBits(n)
        \/ ReadBit
        \/ ReadEOF

Spec == Init /\ [][Next]_vars

-----------------------------------------------------------------------------
TypeOK == /\ buf \in Seq(Byte) /\ wpos \in Nat
          /\ writing \in [n : Nat, val : Nat]
          /\ data \in Seq(Byte) /\ rpos \in Nat
          /\ reading \in [n : Nat, val : Nat]
          /\ phase \in {"write", "read", "eof"}
          /\ written \in Seq({0, 1}) /\ got \in Seq({0, 1})

(* The slice is exactly long enough, so a reader never runs off its end    *)
(* before the last bit written, nor finds a whole spare byte after it.     *)
BufferFits == /\ wpos = Len(written)
              /\ 8 * Len(buf) >= wpos
              /\ 8 * Len(buf) < wpos + 8

(* Bit p of the slice is the p-th bit written, whatever was OR-ed into its *)
(* byte later, and the rest of the last byte is zero.                      *)
BufferHolds == \A p \in 0..(8 * Len(buf) - 1) :
                 BitAt(buf, p) = IF p < wpos THEN written[p + 1] ELSE 0

(* What the reader has got is a prefix of what was written, padding        *)
(* included: bits come out in the order they went in.                      *)
ReaderFollows == /\ phase = "write" => data = <<>> /\ rpos = 0
                 /\ phase # "write" => \E k \in 0..Len(buf) : data = SubSeq(buf, 1, k)
                 /\ rpos = Len(got)
                 /\ rpos <= 8 * Len(data)
                 /\ \A p \in 1..rpos : got[p] = IF p <= wpos THEN written[p] ELSE 0

(* An end of file is reported only when every delivered bit has been read. *)
EofIsExact == phase = "eof" => rpos = 8 * Len(data)

(* A reader that asks for the widths the writer used gets the writer's     *)
(* values (their low n bits, what writeBits was asked to write).           *)
SameWidthsSameValues ==
  LET done == IF reading.n = 0 THEN Len(gets) ELSE Len(gets) - 1
      aligned(i) == i <= Len(puts) /\ \A j \in 1..i : puts[j].n = gets[j].n
  IN \A i \in 1..done :
       aligned(i) => gets[i].val = puts[i].val % (2 ^ puts[i].n)

Queue == INSTANCE BitQueue WITH
           sent <- written,
           closed <- (phase # "write"),
           stream <- [p \in 1..(8 * Len(data)) |-> BitAt(data, p - 1)],
           rcvd <- got,
           ended <- (phase = "eof")

(* The writer and the reader together are a queue of bits. *)
RefinesBitQueue == Queue!QSpec
=============================================================================
