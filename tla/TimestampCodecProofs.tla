------------------------ MODULE TimestampCodecProofs ------------------------
(***************************************************************************)
(* Proofs about compact timestamps: for every size of an int64, every      *)
(* width, unit, epoch and clock, as long as the times in units fit into    *)
(* half the range of an int64 and a window is not its sign bit.            *)
(***************************************************************************)
EXTENDS TimestampCodec, BitsProofs

(* Half the range of an int64; units that divide a second. *)
LEMMA Constants ==
  /\ Word \in Nat \ {0} /\ Word - 1 \in Nat \ {0} /\ Word - 2 \in Nat
  /\ 2 ^ (Word - 2) \in Nat \ {0}
  /\ 2 ^ (Word - 1) = 2 * 2 ^ (Word - 2) /\ 2 ^ Word = 2 * 2 ^ (Word - 1)
  /\ Widths \subseteq Nat \ {0} /\ \A b \in Widths : b <= Word
  <1>1. Word \in Nat \ {0} /\ Word - 1 \in Nat \ {0} /\ Word - 2 \in Nat /\ (Word - 1) - 1 = Word - 2
    BY WidthsAssumption
  <1>2. Widths \subseteq Nat \ {0} /\ \A b \in Widths : b <= Word
    BY WidthsAssumption
  <1>3. 2 ^ (Word - 1) = 2 * 2 ^ ((Word - 1) - 1) /\ 2 ^ Word = 2 * 2 ^ (Word - 1)
    BY <1>1, HalfPower
  <1>4. 2 ^ (Word - 2) \in Nat \ {0}
    BY <1>1, PowerPositive
  <1> QED BY <1>1, <1>2, <1>3, <1>4

LEMMA SignedIs ==
  ASSUME NEW x, NEW n
  PROVE  /\ ToSigned(x, n) = Twos(x, n) /\ MinSigned(n)..MaxSigned(n) = SignedRange(n)
         /\ MinSigned(n) = -(2 ^ (n - 1)) /\ MaxSigned(n) = 2 ^ (n - 1) - 1
  BY DEF ToSigned, Twos, MinSigned, MaxSigned, SignedRange

(* An int64 holds twice the range on either side. *)
LEMMA Int64Id ==
  ASSUME NEW x \in (-(2 * 2 ^ (Word - 2)))..(2 * 2 ^ (Word - 2) - 1)
  PROVE  Int64(x) = x
  <1>1. x \in SignedRange(Word)
    BY Constants DEF SignedRange
  <1> QED BY <1>1, Constants, TwosId, SignedIs DEF Int64

(* An int64 that wraps keeps the low bits of any width. *)
LEMMA Int64KeepsBits ==
  ASSUME NEW x \in Int, NEW b \in Widths
  PROVE  Int64(x) \in Int /\ Int64(x) % 2 ^ b = x % 2 ^ b
  <1> PICK y : y = Twos(x, Word)
    OBVIOUS
  <1>1. y \in SignedRange(Word) /\ y % 2 ^ Word = x % 2 ^ Word
    BY Constants, TwosKeepsBits
  <1>2. y \in Int /\ b \in Nat /\ b <= Word
    BY <1>1, Constants DEF SignedRange
  <1>3. (y % 2 ^ Word) % 2 ^ b = y % 2 ^ b /\ (x % 2 ^ Word) % 2 ^ b = x % 2 ^ b
    BY <1>2, Constants, LowBitsOfLowBits
  <1> QED BY <1>1, <1>2, <1>3, SignedIs DEF Int64

(* A unit has a whole number of nanoseconds, and a second of units. *)
LEMMA WholeUnits ==
  ASSUME NEW n \in Nat \ {0}, NEW a \in Nat \ {0}, n % a = 0
  PROVE  n \div a \in Nat \ {0} /\ n = a * (n \div a)
  <1> DEFINE d == n \div a
             c == n % a
  <1>1. d \in Nat /\ n = a * d + c
    BY DivMod
  <1>2. c = 0
    OBVIOUS
  <1> HIDE DEF d, c
  <1>3. n = a * d
    BY <1>1, <1>2
  <1>4. d # 0
    BY <1>3
  <1> QED BY <1>1, <1>3, <1>4 DEF d

LEMMA PartOfSecond ==
  ASSUME NEW a \in Nat \ {0}, NEW k \in Nat \ {0}, NEW f \in 0..(a * k - 1)
  PROVE  f \div k \in 0..(a - 1)
  <1> DEFINE d == f \div k
             c == f % k
  <1>1. d \in Nat /\ c \in 0..(k - 1) /\ f = k * d + c
    <2> f \in Nat
      OBVIOUS
    <2> QED BY DivMod
  <1> HIDE DEF d, c
  <1>2. d >= a => k * d >= a * k
    BY <1>1
  <1>3. d < a
    BY <1>1, <1>2
  <1> QED BY <1>1, <1>3 DEF d

(* Units into seconds and nanoseconds, and back. *)
LEMMA UnitsOfUnits ==
  ASSUME g \in Granularities, NEW x \in Int
  PROVE  TrueUnits(FromUnits(x)) = x
  <1> PICK a, n \in Nat \ {0} : a = g /\ n = Nano /\ n % a = 0
    BY GranularitiesAssumption
  <1> PICK k \in Nat \ {0} : k = n \div a
    BY WholeUnits
  <1> PICK q, r : q = x \div a /\ r = x % a
    OBVIOUS
  <1>3. q \in Int /\ r \in 0..(a - 1) /\ x = a * q + r
    BY ModRange, SMTT(30)
  <1>4. (r * k) \div k = r
    BY <1>3
  <1>5. TrueUnits(FromUnits(x)) = q * a + ((r * k) \div k)
    BY DEF TrueUnits, FromUnits
  <1> QED BY <1>3, <1>4, <1>5

-----------------------------------------------------------------------------
(* The inductive invariant: the parameters stay what the annotations say,  *)
(* the code is that of the timestamp, and what was read is what the code   *)
(* and the clock at that moment give.                                      *)

ParamsInv ==
  /\ mode \in Modes /\ bits \in Widths /\ g \in Granularities /\ eff \in Strategies
  /\ epoch \in Epochs \cup {0} /\ (mode = "rolling" => epoch = 0 /\ eff = "ERROR")
  /\ ts \in [secs : Secs, nanos : 0..(Nano - 1)]
  /\ now \in Start \cup 0..MaxNow

Written == IF mode = "rolling" THEN Units(ts)
           ELSE IF Overflows /\ eff = "CLAMP" THEN Clamp ELSE Offset

CodeInv == phase \in {"written", "read"} =>
             /\ mode # "rolling" => ~(Overflows /\ eff = "ERROR")
             /\ code = LowBits(Written, bits)

RefusedInv == phase = "PackError" => mode # "rolling" /\ Overflows /\ eff = "ERROR"

OutInv == phase = "read" =>
            out = FromUnits(IF mode = "rolling" THEN FromRolling(code) ELSE FromOffset(code))

IInv == ParamsInv /\ CodeInv /\ RefusedInv /\ OutInv

LEMMA InitInv == Init => IInv
  BY DEF Init, IInv, ParamsInv, CodeInv, RefusedInv, OutInv, Strategies

(* No step changes the field; the clock only goes on. *)
LEMMA StepInv == IInv /\ [Next]_vars => IInv'
  <1> SUFFICES ASSUME IInv, [Next]_vars PROVE IInv'
    OBVIOUS
  <1>1. ASSUME UNCHANGED params PROVE
          /\ UNCHANGED <<mode, bits, g, epoch, eff, ts>>
          /\ Overflows' = Overflows /\ Written' = Written
    BY <1>1 DEF params, Overflows, Written, Clamp, Offset, Units, EpochUnits, MinOffset, MaxOffset
  <1>2. ASSUME PackRolling PROVE IInv'
    <2>1. /\ UNCHANGED params /\ now' = now /\ phase' = "written"
          /\ mode = "rolling" /\ code' = LowBits(Written, bits)
      BY <1>2 DEF PackRolling, Write, Written
    <2> QED BY <1>1, <2>1 DEF IInv, ParamsInv, CodeInv, RefusedInv, OutInv
  <1>3. ASSUME PackOffset PROVE IInv'
    <2>1. /\ UNCHANGED params /\ now' = now /\ phase' = "written"
          /\ mode # "rolling" /\ ~(Overflows /\ eff = "ERROR")
          /\ code' = LowBits(Written, bits)
      BY <1>3 DEF PackOffset, Write, Written
    <2> QED BY <1>1, <2>1 DEF IInv, ParamsInv, CodeInv, RefusedInv, OutInv
  <1>4. ASSUME PackRefused PROVE IInv'
    <2>1. /\ UNCHANGED params /\ now' = now /\ phase' = "PackError"
          /\ mode # "rolling" /\ Overflows /\ eff = "ERROR"
      BY <1>4 DEF PackRefused
    <2> QED BY <1>1, <2>1 DEF IInv, ParamsInv, CodeInv, RefusedInv, OutInv
  <1>5. ASSUME Tick PROVE IInv'
    <2>1. UNCHANGED params /\ phase = "written" /\ phase' = phase /\ code' = code
      BY <1>5 DEF Tick
    <2>2. now' \in Start \cup 0..MaxNow
      BY <1>5, ClockAssumption DEF Tick, IInv, ParamsInv
    <2> QED BY <1>1, <2>1, <2>2 DEF IInv, ParamsInv, CodeInv, RefusedInv, OutInv
  <1>6. ASSUME Unpack PROVE IInv'
    <2>1. /\ UNCHANGED params /\ now' = now /\ code' = code /\ phase = "written" /\ phase' = "read"
          /\ out' = FromUnits(IF mode = "rolling" THEN FromRolling(code) ELSE FromOffset(code))
      BY <1>6 DEF Unpack
    <2>2. out' = FromUnits(IF mode = "rolling" THEN FromRolling(code) ELSE FromOffset(code))'
      BY <1>1, <2>1 DEF FromUnits, FromRolling, FromOffset, Nearest, NowUnits, WindowSize, EpochUnits
    <2> QED BY <1>1, <2>1, <2>2 DEF IInv, ParamsInv, CodeInv, RefusedInv, OutInv
  <1>7. CASE UNCHANGED vars
    <2>1. UNCHANGED params /\ UNCHANGED <<now, phase, code, out>>
      BY <1>7 DEF vars
    <2>2. (FromUnits(IF mode = "rolling" THEN FromRolling(code) ELSE FromOffset(code)))'
            = FromUnits(IF mode = "rolling" THEN FromRolling(code) ELSE FromOffset(code))
      BY <1>1, <2>1 DEF FromUnits, FromRolling, FromOffset, Nearest, NowUnits, WindowSize, EpochUnits
    <2> QED BY <1>1, <2>1, <2>2 DEF IInv, ParamsInv, CodeInv, RefusedInv, OutInv
  <1> QED BY <1>2, <1>3, <1>4, <1>5, <1>6, <1>7 DEF Next

(* The invariant holds in every behaviour. *)
THEOREM Invariance == Spec => []IInv
  BY InitInv, StepInv, PTL DEF Spec

-----------------------------------------------------------------------------
(* Times in units, without a wrap. *)

(* The time, the epoch and the clock are in half the range of an int64. *)
LEMMA TimesInRange ==
  ASSUME Unwrapped, ParamsInv
  PROVE  /\ TrueUnits(ts) \in (-(2 ^ (Word - 2)))..(2 ^ (Word - 2) - 1)
         /\ epoch * g \in (-(2 ^ (Word - 2)))..(2 ^ (Word - 2))
         /\ NowUnits \in 0..(2 ^ (Word - 2))
         /\ bits \in Nat \ {0} /\ bits <= Word /\ bits # Word - 1
  <1> PICK Q \in Nat \ {0} : Q = 2 ^ (Word - 2)
    BY Constants
  <1> PICK a, n \in Nat \ {0} : a = g /\ n = Nano /\ n % a = 0 /\ a <= n
    BY GranularitiesAssumption DEF ParamsInv
  <1> PICK s \in Secs, f \in 0..(n - 1) : s = ts.secs /\ f = ts.nanos
    BY DEF ParamsInv
  <1> PICK k \in Nat \ {0} : k = n \div a /\ n = a * k
    BY WholeUnits
  <1>1. f \div k \in 0..(a - 1)
    BY PartOfSecond
  <1>2. s * a \in (-Q)..(Q - a) /\ s \in Int
    BY SecsAssumption DEF Unwrapped, ParamsInv
  <1>3. TrueUnits(ts) = s * a + (f \div k)
    BY DEF TrueUnits
  <1>4. TrueUnits(ts) \in (-Q)..(Q - 1)
    <2> PICK x \in Int, y \in 0..(a - 1) : x = s * a /\ y = f \div k /\ x \in (-Q)..(Q - a)
      BY <1>1, <1>2
    <2> QED BY <1>3
  <1>5. epoch * g \in (-Q)..Q
    <2>1. CASE epoch \in Epochs
      BY <2>1 DEF Unwrapped, ParamsInv
    <2>2. CASE epoch = 0
      BY <2>2
    <2> QED BY <2>1, <2>2 DEF ParamsInv
  <1>6. NowUnits \in 0..Q
    <2>1. now \in Nat
      BY ClockAssumption DEF ParamsInv
    <2>2. now * a \in Nat
      BY <2>1
    <2>3. (now * a) \div n \in Nat
      <3> PICK x \in Nat : x = now * a
        BY <2>2
      <3>1. n \in Nat \ {0}
        OBVIOUS
      <3> QED BY <3>1, DivMod
    <2>4. (now * a) \div n <= Q
      BY DEF Unwrapped, ParamsInv
    <2> QED BY <2>3, <2>4 DEF NowUnits
  <1>7. bits \in Nat \ {0} /\ bits <= Word /\ bits # Word - 1
    BY Constants DEF Unwrapped, ParamsInv
  <1> QED BY <1>4, <1>5, <1>6, <1>7

(* So the code computes them exactly. *)
LEMMA ExactTimes ==
  ASSUME Unwrapped, ParamsInv
  PROVE  /\ Units(ts) = TrueUnits(ts) /\ EpochUnits = epoch * g
         /\ Offset = TrueOffset
         /\ TrueOffset \in (-(2 * 2 ^ (Word - 2)))..(2 * 2 ^ (Word - 2) - 1)
  <1> PICK Q \in Nat \ {0} : Q = 2 ^ (Word - 2)
    BY Constants
  <1> PICK t \in (-Q)..(Q - 1) : t = TrueUnits(ts)
    BY TimesInRange
  <1> PICK e \in (-Q)..Q : e = epoch * g
    BY TimesInRange
  <1>1. /\ t \in (-(2 * Q))..(2 * Q - 1) /\ e \in (-(2 * Q))..(2 * Q - 1)
        /\ t - e \in (-(2 * Q))..(2 * Q - 1)
    OBVIOUS
  <1>2. Int64(t) = t /\ Int64(e) = e /\ Int64(t - e) = t - e
    BY <1>1, Int64Id
  <1>3. Units(ts) = t /\ EpochUnits = e
    BY <1>2 DEF Units, TrueUnits, EpochUnits
  <1>4. Offset = t - e /\ TrueOffset = t - e
    BY <1>2, <1>3 DEF Offset, TrueOffset
  <1> QED BY <1>1, <1>3, <1>4

(* The bounds of an offset. *)
LEMMA OffsetBounds ==
  ASSUME Unwrapped, ParamsInv
  PROVE  /\ MinOffset \in Int /\ MaxOffset \in Int /\ MinOffset <= 0 /\ MaxOffset >= 0
         /\ mode # "forward" => MinOffset..MaxOffset = SignedRange(bits)
         /\ mode = "forward" => MinOffset = 0 /\ MaxOffset <= 2 ^ bits - 1
         /\ mode = "forward" /\ bits < Word => MaxOffset = 2 ^ bits - 1
         /\ mode = "forward" /\ bits = Word => MaxOffset = 2 * 2 ^ (Word - 2) - 1
         /\ 2 ^ bits \in Nat \ {0} /\ (bits < Word => 2 ^ bits <= 2 * 2 ^ (Word - 2))
  <1>1. bits \in Nat \ {0} /\ bits <= Word /\ Word - 1 \in Nat
    BY TimesInRange, Constants
  <1> PICK p, m \in Nat \ {0} : p = 2 ^ (bits - 1) /\ m = 2 ^ bits /\ m = 2 * p
    BY <1>1, HalfPower
  <1> PICK h \in Nat \ {0} : h = 2 ^ (Word - 1) /\ h = 2 * 2 ^ (Word - 2)
    BY Constants
  <1>2. bits < Word => m <= h
    <2> SUFFICES ASSUME bits < Word PROVE m <= h
      OBVIOUS
    <2>1. bits <= Word - 1
      BY <1>1, Constants
    <2> QED BY <1>1, <2>1, PowerMonotone
  <1>3. MinSigned(bits) = -p /\ MaxSigned(bits) = p - 1 /\ SignedRange(bits) = (-p)..(p - 1)
    BY SignedIs DEF SignedRange
  <1>4. CASE mode = "forward" /\ bits < Word
    <2>1. MinOffset = 0 /\ MaxOffset = m - 1
      BY <1>4 DEF MinOffset, MaxOffset
    <2> QED BY <1>1, <1>2, <1>4, <2>1
  <1>5. CASE mode = "forward" /\ bits = Word
    <2>1. MinOffset = 0 /\ MaxOffset = p - 1 /\ p = h
      BY <1>1, <1>3, <1>5 DEF MinOffset, MaxOffset
    <2> QED BY <1>1, <1>5, <2>1
  <1>6. CASE mode # "forward"
    <2>1. MinOffset = -p /\ MaxOffset = p - 1
      BY <1>3, <1>6 DEF MinOffset, MaxOffset
    <2> QED BY <1>1, <1>2, <1>3, <1>6, <2>1
  <1> QED BY <1>1, <1>4, <1>5, <1>6, Constants

(* An offset in range is read back as it was, unless the time wraps. *)
LEMMA OffsetReadBack ==
  ASSUME Unwrapped, ParamsInv, NEW y \in MinOffset..MaxOffset,
         y \in (-(2 * 2 ^ (Word - 2)))..(2 * 2 ^ (Word - 2) - 1),
         y + epoch * g \in (-(2 * 2 ^ (Word - 2)))..(2 * 2 ^ (Word - 2) - 1)
  PROVE  FromOffset(LowBits(y, bits)) = y + epoch * g
  <1>1. bits \in Nat \ {0} /\ EpochUnits = epoch * g
    BY TimesInRange, ExactTimes
  <1>2. y \in Int
    BY OffsetBounds
  <1> PICK b \in Nat : b = bits /\ b <= b
    BY <1>1
  <1>a. y % 2 ^ b \in Int /\ (y % 2 ^ b) % 2 ^ b = y % 2 ^ b
    <2> PICK m \in Nat \ {0} : m = 2 ^ b
      BY PowerPositive
    <2>1. y % m \in 0..(m - 1)
      BY <1>2, ModRange
    <2>2. (y % 2 ^ b) % 2 ^ b = y % 2 ^ b
      BY <1>2, LowBitsOfLowBits
    <2> QED BY <2>1, <2>2
  <1> PICK raw \in Int : raw = LowBits(y, bits)
    BY <1>a DEF LowBits
  <1>3. (IF mode = "forward" THEN Int64(raw) ELSE ToSigned(raw, bits)) = y
    <2>1. CASE mode = "forward"
      <3>1. y \in 0..(2 ^ bits - 1)
        BY <1>2, <2>1, OffsetBounds
      <3>2. raw = y
        BY <1>1, <3>1, PowerPositive, ModId DEF LowBits
      <3> QED BY <2>1, <3>2, Int64Id
    <2>2. CASE mode # "forward"
      <3>1. y \in SignedRange(bits)
        BY <2>2, OffsetBounds
      <3>2. raw % 2 ^ bits = y % 2 ^ bits
        BY <1>a DEF LowBits
      <3>3. Twos(raw, bits) = y
        BY <1>1, <3>1, <3>2, TwosIs
      <3> QED BY <2>2, <3>3, SignedIs
    <2> QED BY <2>1, <2>2
  <1>4. Int64(y + epoch * g) = y + epoch * g
    BY Int64Id
  <1> QED BY <1>1, <1>3, <1>4 DEF FromOffset

(* Numbers with one remainder, moved by the same distance. *)
LEMMA CongruentSum ==
  ASSUME NEW y \in Int, NEW a \in Int, NEW e \in Int, NEW u \in Int, NEW m \in Nat \ {0},
         a % m = y % m, u % m = (a + e) % m
  PROVE  (u - (y + e)) % m = 0
  <1>1. (a + e) % m = (y + e) % m
    BY ModSum, ZenonT(30)
  <1> PICK d \in Int : d = y + e
    OBVIOUS
  <1>2. u % m = d % m
    BY <1>1
  <1>3. (u - d) % m = 0
    BY <1>2, ModSame
  <1> QED BY <1>3

(* Whatever is written, the low bits of the time survive. *)
LEMMA OffsetCongruent ==
  ASSUME Unwrapped, ParamsInv, NEW y \in Int
  PROVE  /\ FromOffset(LowBits(y, bits)) \in Int
         /\ (FromOffset(LowBits(y, bits)) - (y + epoch * g)) % 2 ^ bits = 0
  <1> DEFINE m == 2 ^ bits
             e == epoch * g
             raw == y % m
             a == IF mode = "forward" THEN Int64(raw) ELSE ToSigned(raw, bits)
             u == Int64(a + e)
  <1>0. bits \in Nat \ {0} /\ bits <= bits /\ bits \in Widths
    BY TimesInRange DEF ParamsInv
  <1>1. m \in Nat \ {0}
    BY <1>0, PowerPositive
  <1>2. raw \in Int /\ raw % m = raw
    <2>1. raw \in 0..(m - 1)
      <3> HIDE DEF m
      <3> QED BY <1>1, ModRange
    <2>2. raw % m = raw
      <3> HIDE DEF m, raw
      <3> QED BY <1>1, <2>1, ModId
    <2> HIDE DEF raw, m
    <2> QED BY <1>1, <2>1, <2>2
  <1>3. e \in Int
    BY TimesInRange, Constants
  <1>4. FromOffset(LowBits(y, bits)) = u
    BY ExactTimes DEF FromOffset, LowBits
  <1> HIDE DEF raw
  <1>5. a \in Int /\ a % m = raw
    <2>1. Int64(raw) \in Int /\ Int64(raw) % m = raw % m
      BY <1>0, <1>2, Int64KeepsBits
    <2>2. Twos(raw, bits) \in SignedRange(bits) /\ Twos(raw, bits) % m = raw % m
      BY <1>0, <1>2, TwosKeepsBits
    <2>3. SignedRange(bits) \subseteq Int
      BY <1>0, HalfPower DEF SignedRange
    <2>4. ToSigned(raw, bits) = Twos(raw, bits)
      BY SignedIs
    <2> HIDE DEF m
    <2> QED BY <1>2, <2>1, <2>2, <2>3, <2>4
  <1> HIDE DEF a, e
  <1>6. u \in Int /\ u % m = (a + e) % m
    <2>1. a + e \in Int
      BY <1>3, <1>5
    <2> QED BY <1>0, <2>1, Int64KeepsBits
  <1>7. a % m = y % m
    BY <1>5 DEF raw
  <1> HIDE DEF u, m
  <1>8. (u - (y + e)) % m = 0
    BY <1>1, <1>3, <1>5, <1>6, <1>7, CongruentSum
  <1> QED BY <1>4, <1>6, <1>8 DEF m, e

(* The range the README gives is the one that is checked. *)
LEMMA RangeIsChecked ==
  ASSUME Unwrapped, ParamsInv, mode # "rolling"
  PROVE  /\ InRange <=> ~Overflows
         /\ ~Overflows => TrueOffset \in MinOffset..MaxOffset
  <1> PICK Q \in Nat \ {0} : Q = 2 ^ (Word - 2)
    BY Constants
  <1> PICK y \in (-(2 * Q))..(2 * Q - 1) : y = TrueOffset /\ y = Offset
    BY ExactTimes
  <1> PICK m \in Nat \ {0} : m = 2 ^ bits
    BY OffsetBounds
  <1> PICK lo, hi \in Int : lo = MinOffset /\ hi = MaxOffset
    BY OffsetBounds
  <1>1. ~Overflows <=> y \in lo..hi
    BY DEF Overflows
  <1>2. CASE mode # "forward"
    <2>1. InRange <=> y \in SignedRange(bits)
      BY <1>2, SignedIs DEF InRange
    <2>2. lo..hi = SignedRange(bits)
      BY <1>2, OffsetBounds
    <2> QED BY <1>1, <2>1, <2>2
  <1>3. CASE mode = "forward"
    <2>1. InRange <=> y \in 0..(m - 1)
      BY <1>3 DEF InRange
    <2>2. lo = 0 /\ hi <= m - 1 /\ (bits < Word => hi = m - 1) /\ (bits = Word => hi = 2 * Q - 1)
      BY <1>3, OffsetBounds
    <2>3. bits = Word => 2 * Q - 1 <= m - 1
      BY Constants
    <2>4. bits < Word \/ bits = Word
      BY TimesInRange, Constants
    <2>5. y \in 0..(m - 1) <=> y \in lo..hi
      BY <2>2, <2>3, <2>4
    <2> QED BY <1>1, <2>1, <2>5
  <1> QED BY <1>1, <1>2, <1>3

(* An offset in the range of its width is read back exactly; one outside   *)
(* is refused, becomes the nearest in range, or keeps its low bits, as the *)
(* strategy says.                                                          *)
THEOREM OffsetAsDocumentedAlways ==
  ASSUME Unwrapped PROVE Spec => []OffsetAsDocumented
  <1>1. ASSUME IInv, mode # "rolling" PROVE OffsetAsDocumented
    <2>0. ParamsInv
      BY <1>1 DEF IInv
    <2> PICK Q \in Nat \ {0} : Q = 2 ^ (Word - 2)
      BY Constants
    <2> PICK t \in (-Q)..(Q - 1) : t = TrueUnits(ts)
      BY <2>0, TimesInRange
    <2> PICK e \in (-Q)..Q : e = epoch * g
      BY <2>0, TimesInRange
    <2> PICK y \in (-(2 * Q))..(2 * Q - 1) : y = TrueOffset /\ y = Offset /\ y = t - e
      BY <2>0, ExactTimes DEF TrueOffset
    <2> PICK lo, hi \in Int : lo = MinOffset /\ hi = MaxOffset /\ lo <= 0 /\ hi >= 0
      BY <2>0, OffsetBounds
    <2>1. ASSUME InRange, phase = "PackError" PROVE FALSE
      BY <1>1, <2>0, <2>1, RangeIsChecked DEF IInv, RefusedInv
    <2>2. ASSUME InRange, phase = "read" PROVE out = Floored
      <3>1. ~Overflows /\ y \in lo..hi
        BY <1>1, <2>0, <2>2, RangeIsChecked
      <3>2. code = LowBits(y, bits)
        BY <1>1, <2>2, <3>1 DEF IInv, CodeInv, Written
      <3>3. y + e \in (-(2 * Q))..(2 * Q - 1) /\ y + e = t
        OBVIOUS
      <3>4. FromOffset(LowBits(y, bits)) = t
        BY <2>0, <3>1, <3>3, OffsetReadBack
      <3> QED BY <1>1, <2>2, <3>2, <3>4 DEF IInv, OutInv, Floored
    <2>3. ASSUME ~InRange, phase = "read"
          PROVE  /\ eff # "ERROR"
                 /\ eff = "CLAMP" => TrueUnits(out) = e + (IF y < lo THEN lo ELSE hi)
                 /\ eff = "MODULO" => (TrueUnits(out) - TrueUnits(ts)) % 2 ^ bits = 0
      <3>1. Overflows
        BY <1>1, <2>0, <2>3, RangeIsChecked
      <3>2. /\ eff # "ERROR" /\ code = LowBits(Written, bits)
            /\ Written = IF eff = "CLAMP" THEN Clamp ELSE y
            /\ out = FromUnits(FromOffset(code))
        BY <1>1, <2>3, <3>1 DEF IInv, CodeInv, OutInv, Written
      <3>3. \A x \in Int : TrueUnits(FromUnits(x)) = x
        BY <2>0, UnitsOfUnits DEF ParamsInv
      <3>4. ASSUME eff = "CLAMP" PROVE TrueUnits(out) = e + (IF y < lo THEN lo ELSE hi)
        <4> PICK x \in Int : x = (IF y < lo THEN lo ELSE hi) /\ x = Clamp
          BY DEF Clamp
        <4>1. x \in lo..hi /\ (y < lo \/ y > hi)
          BY <3>1 DEF Overflows
        <4>2. x \in (-(2 * Q))..(2 * Q - 1)
          BY <4>1
        <4>3. x + e \in (-(2 * Q))..(2 * Q - 1)
          BY <4>1
        <4>4. FromOffset(LowBits(x, bits)) = x + e
          BY <2>0, <4>1, <4>2, <4>3, OffsetReadBack
        <4> QED BY <3>2, <3>3, <3>4, <4>3, <4>4
      <3>5. ASSUME eff = "MODULO" PROVE (TrueUnits(out) - TrueUnits(ts)) % 2 ^ bits = 0
        <4> PICK f : f = FromOffset(LowBits(y, bits))
          OBVIOUS
        <4>1. f \in Int /\ (f - (y + e)) % 2 ^ bits = 0
          BY <2>0, OffsetCongruent
        <4>2. y + e = t
          OBVIOUS
        <4> QED BY <3>2, <3>3, <3>5, <4>1, <4>2
      <3> QED BY <3>2, <3>4, <3>5
    <2> QED BY <2>1, <2>2, <2>3 DEF OffsetAsDocumented
  <1>2. IInv => OffsetAsDocumented
    BY <1>1 DEF OffsetAsDocumented
  <1> QED BY <1>2, Invariance, PTL

-----------------------------------------------------------------------------
(* Rolling timestamps. *)

(* The window that starts at a multiple of its size, at or before n. *)
LEMMA WindowOf ==
  ASSUME NEW n \in Nat, NEW w \in Nat \ {0}
  PROVE  /\ (n \div w) * w \in 0..n /\ n - (n \div w) * w \in 0..(w - 1)
         /\ \A x \in Int : ((n \div w) * w + x) % w = x % w
  <1> DEFINE d == n \div w
             c == n % w
  <1>1. d \in Nat /\ c \in 0..(w - 1) /\ n = w * d + c
    BY DivMod
  <1> HIDE DEF d, c
  <1>2. w * d \in Nat /\ d * w = w * d
    BY <1>1
  <1>3. d * w \in 0..n /\ n - d * w \in 0..(w - 1)
    BY <1>1, <1>2
  <1>4. ASSUME NEW x \in Int PROVE (d * w + x) % w = x % w
    <2>1. d \in Int /\ w \in Nat \ {0}
      BY <1>1
    <2>2. (x + w * d) % w = x % w
      BY <2>1, ModShift, Zenon
    <2>3. x + w * d = d * w + x
      BY <1>2
    <2> QED BY <2>2, <2>3
  <1> QED BY <1>3, <1>4 DEF d

(* A window more or less has the same low bits. *)
LEMMA SameInWindow ==
  ASSUME NEW w \in Nat \ {0}, NEW x \in Int, NEW r \in {x - w, x, x + w}
  PROVE  r % w = x % w
  <1>1. PICK k \in Int : r = x + w * k
    <2>1. CASE r = x
      <3>1. r = x + w * 0 /\ 0 \in Int
        BY <2>1
      <3> QED BY <3>1
    <2>2. CASE r = x + w
      <3>1. r = x + w * 1 /\ 1 \in Int
        BY <2>2
      <3> QED BY <3>1
    <2>3. CASE r = x - w
      <3>1. r = x + w * (-1) /\ -1 \in Int
        BY <2>3
      <3> QED BY <3>1
    <2> QED BY <2>1, <2>2, <2>3
  <1>2. (x + w * k) % w = x % w
    BY ModShift, Zenon
  <1> QED BY <1>1, <1>2

(* What a rolling code is completed to: the time within half a window of   *)
(* the clock that has the same low bits.                                   *)
LEMMA RollingReadBack ==
  ASSUME Unwrapped, ParamsInv, bits < Word
  PROVE  /\ FromRolling(LowBits(Units(ts), bits)) \in Int
         /\ FromRolling(LowBits(Units(ts), bits)) % 2 ^ bits = TrueUnits(ts) % 2 ^ bits
         /\ 2 * (FromRolling(LowBits(Units(ts), bits)) - NowUnits) \in (-(2 ^ bits))..(2 ^ bits)
  <1> DEFINE Q == 2 ^ (Word - 2)
             w == 2 ^ bits
             h == 2 ^ (bits - 1)
             n == NowUnits
             raw == LowBits(Units(ts), bits)
             s == (n \div w) * w
             x == s + raw
             r == IF x - n > h THEN x - w ELSE IF n - x > h THEN x + w ELSE x
  <1>0. bits \in Nat \ {0} /\ bits <= Word - 2 /\ Word - 2 \in Nat
    BY TimesInRange, Constants
  <1>1. h \in Nat \ {0} /\ w \in Nat \ {0} /\ w = 2 * h
    BY <1>0, HalfPower
  <1>2. Q \in Nat \ {0} /\ w <= Q
    BY <1>0, Constants, PowerMonotone
  <1>3. n \in 0..Q
    BY TimesInRange
  <1>4. raw \in 0..(w - 1) /\ raw % w = raw /\ raw = TrueUnits(ts) % w
    <2>1. raw = TrueUnits(ts) % w /\ TrueUnits(ts) \in Int
      BY ExactTimes, TimesInRange, Constants DEF LowBits
    <2> HIDE DEF w, raw
    <2>2. raw \in 0..(w - 1)
      BY <1>1, <2>1, ModRange
    <2> QED BY <1>1, <2>1, <2>2, ModId
  <1>5. s \in 0..n /\ n - s \in 0..(w - 1) /\ x % w = raw % w
    <2>1. n \in Nat
      BY <1>2, <1>3
    <2> HIDE DEF w, n, raw
    <2>2. s \in 0..n /\ n - s \in 0..(w - 1) /\ \A y \in Int : (s + y) % w = y % w
      BY <1>1, <2>1, WindowOf
    <2>3. raw \in Int
      BY <1>1, <1>4
    <2> QED BY <2>2, <2>3
  <1> HIDE DEF Q, w, h, raw, s
  <1>6. /\ w \in 0..(2 * Q - 1) /\ s \in 0..(2 * Q - 1) /\ x \in 0..(2 * Q - 1)
        /\ x - n \in (-(w - 1))..(w - 1) /\ n - x \in (-(w - 1))..(w - 1)
    BY <1>1, <1>2, <1>3, <1>4, <1>5
  <1>7. \A y \in (-(2 * Q))..(2 * Q - 1) : Int64(y) = y
    BY Int64Id DEF Q
  <1>8. WindowSize = w
    BY <1>2, <1>6, <1>7 DEF WindowSize, w
  <1>9. Quotient(n, w) = n \div w /\ Quotient(w, 2) = h
    <2>1. n >= 0 /\ w > 0 /\ w >= 0 /\ 2 > 0 /\ w \div 2 = h
      BY <1>1, <1>3
    <2> HIDE DEF n
    <2> QED BY <2>1 DEF Quotient
  <1> HIDE DEF n
  <1>10. FromRolling(raw) = Nearest(x)
    <2>1. Int64(s) = s /\ Int64(x) = x
      BY <1>2, <1>6, <1>7
    <2>2. FromRolling(raw) = Nearest(Int64(Int64(Quotient(n, w) * w) + raw))
      BY <1>0, <1>8, Constants DEF FromRolling, n
    <2> QED BY <1>9, <2>1, <2>2 DEF s
  <1>11. r \in Int /\ r - n \in (-h)..h /\ r % w = x % w
    <2>1. n \in Int /\ x \in Int
      BY <1>2, <1>3, <1>6
    <2>2. w \in Nat \ {0} /\ w = 2 * h /\ h \in Nat \ {0} /\ x - n \in (-(w - 1))..(w - 1)
      BY <1>1, <1>6
    <2> PICK h0, w0 \in Nat \ {0} : h0 = h /\ w0 = w
      BY <2>2
    <2> PICK n0, x0 \in Int : n0 = n /\ x0 = x
      BY <2>1
    <2> PICK z : z = r
      OBVIOUS
    <2>3. w0 = 2 * h0 /\ x0 - n0 \in (-(w0 - 1))..(w0 - 1)
      BY <2>2
    <2>4. z = IF x0 - n0 > h0 THEN x0 - w0 ELSE IF n0 - x0 > h0 THEN x0 + w0 ELSE x0
      OBVIOUS
    <2>5. z \in Int /\ z - n0 \in (-h0)..h0 /\ z % w0 = x0 % w0
      <3> HIDE DEF r, x
      <3>1. z \in {x0 - w0, x0, x0 + w0} /\ w0 \in Nat \ {0}
        BY <2>3, <2>4
      <3>2. z % w0 = x0 % w0
        BY <3>1, SameInWindow, Zenon
      <3> QED BY <2>3, <2>4, <3>2
    <2> QED BY <2>5
  <1>12. Nearest(x) = r
    <2>1. Int64(x - n) = x - n /\ Int64(n - x) = n - x
      <3>1. x - n \in (-(2 * Q))..(2 * Q - 1) /\ n - x \in (-(2 * Q))..(2 * Q - 1)
        BY <1>2, <1>6
      <3> QED BY <1>7, <3>1
    <2>2. r \in (-(2 * Q))..(2 * Q - 1) /\ Int64(r) = r
      <3>1. r \in (-(2 * Q))..(2 * Q - 1)
        BY <1>1, <1>2, <1>3, <1>6
      <3> QED BY <1>7, <3>1
    <2>3. Nearest(x) = IF Int64(x - n) > h THEN Int64(x - w)
                       ELSE IF Int64(n - x) > h THEN Int64(x + w) ELSE x
      BY <1>8, <1>9 DEF Nearest, n
    <2>4. CASE x - n > h
      BY <2>1, <2>2, <2>3, <2>4
    <2>5. CASE ~(x - n > h) /\ n - x > h
      BY <2>1, <2>2, <2>3, <2>5
    <2>6. CASE ~(x - n > h) /\ ~(n - x > h)
      BY <2>1, <2>3, <2>6
    <2> QED BY <2>4, <2>5, <2>6
  <1>13. r % w = TrueUnits(ts) % w
    BY <1>4, <1>5, <1>11
  <1>14. 2 * (r - n) \in (-w)..w
    <2> HIDE DEF r
    <2> QED BY <1>1, <1>2, <1>3, <1>11
  <1> QED BY <1>10, <1>11, <1>12, <1>13, <1>14 DEF raw, w, n

(* At the whole width of an int64 the code is the time. *)
LEMMA WholeReadBack ==
  ASSUME Unwrapped, ParamsInv, bits = Word
  PROVE  FromRolling(LowBits(Units(ts), bits)) = TrueUnits(ts)
  <1> PICK Q \in Nat \ {0} : Q = 2 ^ (Word - 2)
    BY Constants
  <1> PICK t \in (-Q)..(Q - 1) : t = TrueUnits(ts) /\ t = Units(ts)
    BY TimesInRange, ExactTimes
  <1> PICK raw : raw = LowBits(t, Word)
    OBVIOUS
  <1>1. t \in SignedRange(Word)
    <2>1. SignedRange(Word) = (-(2 * Q))..(2 * Q - 1)
      BY Constants DEF SignedRange
    <2> QED BY <2>1
  <1>2. raw \in Int /\ raw % 2 ^ Word = t % 2 ^ Word
    <2>0. 2 ^ Word \in Nat \ {0}
      BY Constants, PowerPositive
    <2> PICK m \in Nat \ {0} : m = 2 ^ Word
      BY <2>0
    <2>1. t % m \in 0..(m - 1)
      OBVIOUS
    <2> PICK r \in 0..(m - 1) : r = t % m
      BY <2>1
    <2>2. r % m = r
      BY ModId
    <2> QED BY <2>2 DEF LowBits
  <1>3. Int64(raw) = t
    BY <1>1, <1>2, Constants, TwosIs, SignedIs DEF Int64
  <1> QED BY <1>3, Constants DEF FromRolling

(* What was read is the time the code was completed to. *)
LEMMA RollingOut ==
  ASSUME IInv, mode = "rolling", phase = "read"
  PROVE  /\ out = FromUnits(FromRolling(LowBits(Units(ts), bits)))
         /\ ParamsInv /\ \A x \in Int : TrueUnits(FromUnits(x)) = x
  <1>1. ParamsInv /\ g \in Granularities
    BY DEF IInv, ParamsInv
  <1>2. code = LowBits(Units(ts), bits)
    BY DEF IInv, CodeInv, Written
  <1> QED BY <1>1, <1>2, UnitsOfUnits DEF IInv, OutInv

(* A rolling timestamp is read as the time within half a window of the     *)
(* reader's clock that has the low bits of what was written.               *)
THEOREM RollingNearAlways ==
  ASSUME Unwrapped PROVE Spec => []RollingNear
  <1>1. ASSUME IInv, mode = "rolling", phase = "read", bits < Word
        PROVE  /\ (TrueUnits(out) - TrueUnits(ts)) % 2 ^ bits = 0
               /\ 2 * Distance(TrueUnits(out)) <= 2 ^ bits
    <2>0. ParamsInv
      BY <1>1, RollingOut
    <2> PICK r : r = FromRolling(LowBits(Units(ts), bits))
      OBVIOUS
    <2>1. /\ r \in Int /\ r % 2 ^ bits = TrueUnits(ts) % 2 ^ bits
          /\ 2 * (r - NowUnits) \in (-(2 ^ bits))..(2 ^ bits)
      BY <1>1, <2>0, RollingReadBack
    <2>2. TrueUnits(out) = r
      BY <1>1, <2>1, RollingOut
    <2> PICK m \in Nat \ {0} : m = 2 ^ bits
      BY <2>0, TimesInRange, PowerPositive
    <2> PICK t, n \in Int : t = TrueUnits(ts) /\ n = NowUnits
      BY <2>0, TimesInRange, Constants
    <2>3. (r - t) % m = 0
      BY <2>1, ModSame
    <2>4. 2 * (IF r > n THEN r - n ELSE n - r) <= m
      BY <2>1
    <2> QED BY <2>2, <2>3, <2>4 DEF Distance
  <1>2. IInv => RollingNear
    BY <1>1 DEF RollingNear
  <1> QED BY <1>2, Invariance, PTL

(* Two times less than a window apart that have the same low bits. *)
LEMMA NearestIsUnique ==
  ASSUME NEW m \in Nat \ {0}, NEW n \in Int, NEW r \in Int, NEW t \in Int,
         r % m = t % m, 2 * (r - n) \in (-m)..m,
         2 * (IF t > n THEN t - n ELSE n - t) < m
  PROVE  r = t
  <1> PICK d \in Int : d = r - t
    OBVIOUS
  <1>1. d \in (-(m - 1))..(m - 1)
    OBVIOUS
  <1>2. d % m = 0
    BY ModSame
  <1>3. d = 0
    BY <1>1, <1>2, SmallMultiple
  <1> QED BY <1>3

(* ... and so, less than half a window from that clock, it is read back.   *)
THEOREM RollingExactAlways ==
  ASSUME Unwrapped PROVE Spec => []RollingExact
  <1>1. ASSUME IInv, mode = "rolling", phase = "read",
               2 * Distance(TrueUnits(ts)) < 2 ^ bits
        PROVE  out = Floored
    <2>0. ParamsInv /\ out = FromUnits(FromRolling(LowBits(Units(ts), bits)))
      BY <1>1, RollingOut
    <2>1. bits \in Nat \ {0} /\ bits <= Word /\ Word \in Nat
      BY <2>0, TimesInRange, Constants
    <2>2. CASE bits = Word
      BY <2>0, <2>2, WholeReadBack DEF Floored
    <2>3. CASE bits < Word
      <3> PICK r : r = FromRolling(LowBits(Units(ts), bits))
        OBVIOUS
      <3>1. /\ r \in Int /\ r % 2 ^ bits = TrueUnits(ts) % 2 ^ bits
            /\ 2 * (r - NowUnits) \in (-(2 ^ bits))..(2 ^ bits)
        BY <2>0, <2>3, RollingReadBack
      <3> PICK m \in Nat \ {0} : m = 2 ^ bits
        BY <2>1, PowerPositive
      <3> PICK t, n \in Int : t = TrueUnits(ts) /\ n = NowUnits
        BY <2>0, TimesInRange, Constants
      <3>2. 2 * (IF t > n THEN t - n ELSE n - t) < m
        BY <1>1 DEF Distance
      <3>3. r % m = t % m /\ 2 * (r - n) \in (-m)..m
        BY <3>1
      <3>4. r = t
        BY <3>1, <3>2, <3>3, NearestIsUnique
      <3> QED BY <2>0, <3>4 DEF Floored
    <2> QED BY <2>1, <2>2, <2>3
  <1>2. IInv => RollingExact
    BY <1>1 DEF RollingExact
  <1> QED BY <1>2, Invariance, PTL
=============================================================================
