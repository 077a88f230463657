---------------------------- MODULE TimestampCodec --------------------------
(***************************************************************************)
(* encodeTimestamp and decodeTimestamp (bitpacker/encoder.go, decoder.go)  *)
(* of a google.protobuf.Timestamp that is present: an offset from an epoch *)
(* or, rolling, the low bits of the time, which the decoder completes with *)
(* the time of its own clock, that has gone on since the message was       *)
(* packed.  A second is scaled down to Nano nanoseconds and an int64 to    *)
(* Word bits.                                                              *)
(***************************************************************************)
EXTENDS Integers

CONSTANTS Word,            \* bits of an int64
          Nano,            \* nanoseconds of a second
          Granularities,   \* units of a second; each divides Nano
          Modes,           \* among "signed", "forward" and "rolling"
          Widths,          \* the bits annotations (0 is replaced by 64 before)
          Epochs, Secs,    \* seconds of epochs and of timestamps
          Start, MaxNow    \* the clock when packing, in nanoseconds; its bound

ASSUME WidthsAssumption == Word \in Nat \ {0, 1} /\ Widths \subseteq 1..Word
ASSUME GranularitiesAssumption ==
  Nano \in Nat \ {0} /\ \A g \in Granularities : g \in 1..Nano /\ Nano % g = 0
ASSUME SecsAssumption == Epochs \subseteq Int /\ Secs \subseteq Int
ASSUME ClockAssumption == Start \subseteq Nat /\ MaxNow \in Nat
ASSUME ModesAssumption == Modes \subseteq {"signed", "forward", "rolling"}

VARIABLES mode, bits, g, epoch, eff,   \* tsParams and the strategy
          ts,                          \* the timestamp: seconds and nanos
          now,                         \* the clock, in nanoseconds from 1970
          phase,                       \* "start", "written", "PackError", "read"
          code, out

params == <<mode, bits, g, epoch, eff, ts>>
vars == <<params, now, phase, code, out>>

Strategies == {"ERROR", "MODULO", "CLAMP"}

MaxSigned(n) == 2 ^ (n - 1) - 1
MinSigned(n) == -(2 ^ (n - 1))

LowBits(x, n) == x % 2 ^ n
ToSigned(x, n) == IF x % 2 ^ n > MaxSigned(n) THEN (x % 2 ^ n) - 2 ^ n ELSE x % 2 ^ n
Int64(x) == ToSigned(x, Word)

(* Go's division: towards zero. *)
Quotient(a, b) == IF (a >= 0) = (b > 0)
                  THEN (IF a >= 0 THEN a ELSE -a) \div (IF b > 0 THEN b ELSE -b)
                  ELSE -((IF a >= 0 THEN a ELSE -a) \div (IF b > 0 THEN b ELSE -b))

-----------------------------------------------------------------------------
(* The time in units, as the code computes it; and the true one. *)
Units(t) == Int64(t.secs * g + t.nanos \div (Nano \div g))
TrueUnits(t) == t.secs * g + t.nanos \div (Nano \div g)

EpochUnits == Int64(epoch * g)
Offset == Int64(Units(ts) - EpochUnits)

MinOffset == IF mode = "forward" THEN 0 ELSE MinSigned(bits)
MaxOffset == IF mode = "forward" /\ bits < Word THEN 2 ^ bits - 1
             ELSE MaxSigned(bits)

Clamp == IF Offset < MinOffset THEN MinOffset ELSE MaxOffset

Overflows == Offset < MinOffset \/ Offset > MaxOffset

NowUnits == (now * g) \div Nano

WindowSize == Int64(2 ^ bits)

(* mutant: only a time too far in the future is corrected *)
NearestDown(units) ==
  IF Int64(units - NowUnits) > Quotient(WindowSize, 2) THEN Int64(units - WindowSize)
  ELSE units

(* The window closest to now. *)
Nearest(units) ==
  IF Int64(units - NowUnits) > Quotient(WindowSize, 2) THEN Int64(units - WindowSize)
  ELSE IF Int64(NowUnits - units) > Quotient(WindowSize, 2) THEN Int64(units + WindowSize)
  ELSE units

(* mutant: the sign of an offset is not extended *)
FromOffsetUnsigned(raw) == Int64(raw + EpochUnits)

FromOffset(raw) == Int64((IF mode = "forward" THEN Int64(raw) ELSE ToSigned(raw, bits))
                         + EpochUnits)

FromRolling(raw) ==
  IF bits >= Word THEN Int64(raw)
  ELSE LET windowStart == Int64(Quotient(NowUnits, WindowSize) * WindowSize)
       IN Nearest(Int64(windowStart + raw))

(* time.Unix, UnixMilli or UnixMicro, and timestamppb.New *)
FromUnits(units) == [secs |-> units \div g, nanos |-> (units % g) * (Nano \div g)]

-----------------------------------------------------------------------------
Init == /\ mode \in Modes /\ bits \in Widths /\ g \in Granularities
        /\ epoch \in (IF mode = "rolling" THEN {0} ELSE Epochs)
        /\ eff \in (IF mode = "rolling" THEN {"ERROR"} ELSE Strategies)
        /\ ts \in [secs : Secs, nanos : 0..(Nano - 1)]
        /\ now \in Start
        /\ phase = "start" /\ code = 0 /\ out = ts

Write(x) == /\ code' = LowBits(x, bits)
            /\ phase' = "written"
            /\ UNCHANGED <<params, now, out>>

PackRolling == phase = "start" /\ mode = "rolling" /\ Write(Units(ts))

PackOffset == /\ phase = "start" /\ mode # "rolling"
              /\ ~(Overflows /\ eff = "ERROR")
              /\ Write(IF Overflows /\ eff = "CLAMP" THEN Clamp ELSE Offset)

PackRefused == /\ phase = "start" /\ mode # "rolling"
               /\ Overflows /\ eff = "ERROR"
               /\ phase' = "PackError"
               /\ UNCHANGED <<params, now, code, out>>

(* Time passes before the message is unpacked. *)
Tick == /\ phase = "written" /\ mode = "rolling" /\ now < MaxNow
        /\ now' = now + 1
        /\ UNCHANGED <<params, phase, code, out>>

Unpack == /\ phase = "written"
          /\ out' = FromUnits(IF mode = "rolling" THEN FromRolling(code) ELSE FromOffset(code))
          /\ phase' = "read"
          /\ UNCHANGED <<params, now, code>>

Next == PackRolling \/ PackOffset \/ PackRefused \/ Tick \/ Unpack

Spec == Init /\ [][Next]_vars

-----------------------------------------------------------------------------
(* Times in units that leave an int64 room for their differences, and      *)
(* windows that are numbers of it: 2^62 nanoseconds are 146 years.         *)
Unwrapped ==
  /\ Word - 1 \notin Widths
  /\ \A u \in Granularities :
       /\ \A s \in Secs : s * u \in (-(2 ^ (Word - 2)))..(2 ^ (Word - 2) - u)
       /\ \A e \in Epochs : e * u \in (-(2 ^ (Word - 2)))..(2 ^ (Word - 2))
       /\ \A t \in Start \cup 0..MaxNow : (t * u) \div Nano <= 2 ^ (Word - 2)

(* The timestamp with what is finer than a unit cut off. *)
Floored == FromUnits(TrueUnits(ts))

Distance(units) == IF units > NowUnits THEN units - NowUnits ELSE NowUnits - units

(* A rolling timestamp less than half a window from the reader's clock is  *)
(* read back exactly, wherever the boundaries of the windows lie and       *)
(* however far the clock has gone on since it was packed.                  *)
RollingExact ==
  mode = "rolling" /\ phase = "read" /\ 2 * Distance(TrueUnits(ts)) < 2 ^ bits
    => out = Floored

(* One that is farther away is read as the time within half a window of    *)
(* the clock that has the same low bits, never as another.                 *)
RollingNear ==
  mode = "rolling" /\ phase = "read" /\ bits < Word =>
    /\ (TrueUnits(out) - TrueUnits(ts)) % 2 ^ bits = 0
    /\ 2 * Distance(TrueUnits(out)) <= 2 ^ bits

TrueOffset == TrueUnits(ts) - epoch * g

InRange == TrueOffset \in IF mode = "forward" THEN 0..(2 ^ bits - 1)
                          ELSE MinSigned(bits)..MaxSigned(bits)

(* An offset in the range of its width is read back exactly; one before    *)
(* or after it is refused, becomes the nearest in range, or keeps its low  *)
(* bits, as the strategy says ("store 0 = epoch", README).                 *)
OffsetAsDocumented ==
  mode # "rolling" =>
    /\ InRange => phase # "PackError" /\ (phase = "read" => out = Floored)
    /\ ~InRange /\ phase = "read" =>
         /\ eff # "ERROR"
         /\ eff = "CLAMP" =>
              TrueUnits(out) = epoch * g + (IF TrueOffset < MinOffset THEN MinOffset ELSE MaxOffset)
         /\ eff = "MODULO" => (TrueUnits(out) - TrueUnits(ts)) % 2 ^ bits = 0
=============================================================================
