# protobitpacker: a TLA+ model of the bit packer

protobitpacker writes Protocol Buffers messages as a stream of bits with no tags: every field
takes the number of bits its annotation gives it, and the reader can only make sense of a stream
because it consumes exactly the bits the writer produced, field after field. The Go package
`bitpacker/` does this by reflection; the plugin `cmd/protoc-gen-bitpacker-c` generates C code for
the same wire format. This directory holds specifications of the parts of that system, the
instances TLC checks, and proofs checked by TLAPS. Line numbers refer to the sources in `src/`.

## Inventory

| Component | Source | State | Operations | Hard behaviour |
|---|---|---|---|---|
| Bit stream | `bitpacker/bitstream.go` | byte slice and bit position of writer and reader | `writeBit(s)`, `writeRawBytes`, `bytes`, `readBit(s)`, `readRawBytes` | bits OR-ed into bytes filled in part; growth at byte boundaries; truncated input |
| Packer and schema cache | `bitpacker/packer.go` | `cache`, guarded by a `sync.RWMutex` | `Pack`, `Unpack`, `Validate`, `getOrAnalyze` | goroutines that miss together; nested look-ups while others hold or want the lock; a failing analysis under the write lock |
| Schema analysis | `bitpacker/schema.go`, `options.go` | the units of a plan, the set of oneofs seen | `AnalyzeMessage` and the rules it applies | members of oneofs mixed with other fields; selector width at powers of two |
| Message codec | `bitpacker/encoder.go`, `decoder.go`, `overflow.go` | the stream, the message being built, the call stack | `encodeMessage` ... `encodeMapKey`, `decodeMessage` ... `decodeMapKey` | encoder and decoder must agree on every bit; overflow strategies; errors half-way |
| Integer codec | same | none | the integer cases of `encodeScalar` and `decodeScalar`, map keys | sign extension, zigzag, widths at and above the word |
| Timestamp codec | same, `timestamp.go` | the clock | `encodeTimestamp`, `decodeTimestamp` | a rolling timestamp is completed with the reader's clock, later than the writer's; `int64` wrap-around |
| Float codec | same | none | fixed point, float16, IEEE | decimals rounded three times, bounds beyond the significand, subnormals |
| C generator | `cmd/protoc-gen-bitpacker-c/` | `visited`, the text written so far | order of structs, headers, functions | nested declarations and fields that refer to each other |
| C runtime | `runtime_gen.go` (emitted as `gen/c/bitpacker_runtime.h`) | the caller's buffer and bit position | `bp_read_bits`, `bp_write_bits`, `bp_writer_finish`, ... | fixed capacity in `uint32_t`, dirty buffers |
| Generated C coder | emitted by `generator.go` (example in `gen/c/`) | the caller's struct | `bp_decode_T`, `bp_encode_T` of every message | must agree with the Go codec bit for bit; structs that are used again; counts of 16 bits |
| Generated Go, schemas | `gen/go/`, `proto/` | - | - | - |

How they interact: `Pack` and `Unpack` look up the schema of the root type, then `encodeMessage`
or `decodeMessage` walks its units, calls the bit stream for each, and comes back to
`getOrAnalyze` whenever it reaches a nested message. The only state shared by goroutines is the
cache. A stream leaves the program between `Pack` and `Unpack`: it may be cut short, and time
passes. The C generator reads the same annotations and emits a coder for the same stream: typically
a device decodes in C what a server packed in Go, and the other way round. The emitted code walks
the units in the same order, calls the C runtime for each, and keeps no state between calls but the
struct and the buffer that its caller owns and may use again.

What makes each part correct: the stream is a queue of bits; the cache cannot be observed; the
plan has every field once; the decoder is always where the encoder was; a value is recovered, or
changed as the strategy says, or refused; a timestamp is recovered although the clock went on;
C types are complete before they are used; the C writer touches no bit but those of its message;
C reads from a struct exactly what Go packed, and gives back the bits it was given.

## Modules

| Module | Role | Code |
|---|---|---|
| `BitQueue` | what a bit stream promises (abstract) | - |
| `Bits` | bytes as sets of positions, shared by the two streams: operators only | `bitstream.go` |
| `BitsProofs` | lemmas on them, on powers of two, remainders and two's complement, and on streams of fields | - |
| `BitStream` | `bitWriter`, `bitReader` | `bitstream.go` |
| `BitStreamProofs` | its theorems | - |
| `CStream` | `bp_writer_t`, `bp_reader_t` | `runtime_gen.go`, buffer API of `generator.go` |
| `RWMutex` | Go's lock as the packer uses it (external) | `sync.RWMutex` |
| `SchemaLookup` | what `getOrAnalyze` promises (abstract) | - |
| `PackerCache` | the cache and the methods of `Packer` | `packer.go`, look-ups of `encoder.go`, `decoder.go` |
| `PackerCacheProofs` | its theorems | - |
| `Schema` | descriptors, the rules of annotations, the plan: operators only | `schema.go`, `options.go` |
| `SchemaAnalysis` | `AnalyzeMessage` as the pass it is | `schema.go` |
| `MessageCodec` | `Pack` and `Unpack` of a message, on the plan of `Schema` | `encoder.go`, `decoder.go`, `overflow.go` |
| `CodecProofs` | theorems about these two | - |
| `CCoder` | the generated C coder, composed with the packing half of `MessageCodec` | `generator.go` |
| `CCoderProofs` | its theorems | - |
| `IntCodec` | integers, enums, integer map keys | `encoder.go`, `decoder.go` |
| `FloatCodec` | fixed point and binary16, on top of `IntCodec` | `encoder.go`, `decoder.go` |
| `CScalars` | the same scalars in the generated C, on top of `FloatCodec` | `generator.go`, `runtime_gen.go` |
| `ScalarProofs` | theorems about these three | - |
| `TimestampCodec` | compact timestamps | `encoder.go`, `decoder.go`, `timestamp.go` |
| `TimestampCodecProofs` | its theorems | - |
| `CStructOrder` | `writeStructsInOrder` | `generator.go` |
| `CGeneratorProofs` | theorems about `CStream` and `CStructOrder` | - |
| `MC*` | the instance TLC checks of each; `MCCCoder` extends `MCMessageCodec` | - |

Operators whose comment begins with "mutant" are deliberate mistakes: each replaces the definition
that follows it in one run, to show that a property of that run notices.

### BitStream

A byte is the set of its positions that are 1, so `buf[i] |= 1 << j` adds `j` to a set. `WriteBit`
and `ReadBit` are one iteration of the loops in `writeBits` and `readBits`; `writing` and `reading`
hold what the loop has left. `StartWriteBits` is a call of `writeBits` (with width 8, an iteration
of `writeRawBytes`). `HandOver` is `bytes()` followed by a transport that may drop whole bytes at
the end. `ReadEOF` is the error path of `readBits`, which forgets the bits it has read but leaves
`pos` where it is. `written`, `got`, `puts` and `gets` are history variables.

`BitQueue` has only `Put`, `Close`, `Get` and `End`. The refinement mapping takes `written` for
what was put and the bits of `data` for what was delivered; every action of `BitStream` is one of
those four or a stutter.

### CStream

The same queue in C, over `Size` bytes that belong to the caller and hold anything (`Stale`) when
the writer starts. A request for `n` bits is checked as a whole, in arithmetic modulo `Word`
(`bit_cap`, `bit_len` and the sums are `uint32_t`), and refused before a bit of it moves; then
`WriteBit` and `ReadBit` set, clear or shift one bit each. `Finish` is the function around the
writer: padding bits cleared, the number of bytes returned, and the transport. A refusal ends the
call (`full`, `short`), as every emitted caller returns -1. `before` remembers the buffer as it
was passed. `CapacityAssumption` keeps buffers below 512 MB, where `bit_pos + n` would wrap around
and the check would let a request through.

The refinement mapping is the one of `BitStream`: to `BitQueue`, and so to each other, the Go and
the C stream are the same.

### PackerCache

`pc` is where a goroutine is within `getOrAnalyze` (one location per use of the lock or the map,
`packer.go` 70 to 90) or outside it. `path` is the stack of messages it is coding; `EnterNested` is
any of the five places in the encoder and decoder that look a nested schema up. `CodingReturns` and
`CodingFails` end a call: what is encoded in between is in `MessageCodec`, here a message may just
have any nested messages, at most `MaxLookups` of them. `RWMutex` distinguishes a `Lock` that is
announced from one that is taken, because Go makes new readers wait as soon as a writer waits:
without that, a nested read lock could never deadlock in the model.

`SchemaLookup` has no cache: a look-up is asked and answered with the analysis of its descriptor.

Fairness (`FairSpec`): weak fairness of each goroutine's own steps, because the Go scheduler runs
every runnable goroutine; strong fairness of announcing a `Lock`, because `sync.Mutex`, which
serialises writers, hands itself to the first waiter after a millisecond. No fairness is assumed
of the program calling `Pack` at all.

### Schema and SchemaAnalysis

A descriptor is a record with its fields in declaration order. `ValidUnit` has every check of
`validateScalarUnit`, `ValidOneof` those of `buildOneofUnit`. `Plan` says declaratively what
the units are; `SchemaAnalysis` is the loop, with `seenOneofs`, and `PassComputesPlan` shows that
the loop computes the declarative plan and fails exactly for invalid descriptors. `MessageCodec`
then uses the declarative form.

### MessageCodec

The call stack of either side is a sequence `work` of items still to be coded, the first one next:
a unit of a message, a value (element, entry, member of a oneof), or the end of a list element. An
action takes the first item, writes or consumes its bits, and puts what it leads to in front. The
message is chosen as the encoder reads it (it reads each part once), and recorded in `raw`; `kept`
is what the strategies made of it, and `out` is the caller's message during `Unpack`. Places in a
message are paths of unit numbers. `marks` records for each item the position at which the encoder
began it; `InStep` compares the decoder with it, item by item.

Errors stop the call where it is and leave `out` as it is, as the Go code does. `FailWith` is for
the paths that have already set a submessage (`msg.Mutable`) when they fail. The transport is the
one of `BitStream`: padding to bytes, and a lost tail.

`DescriptorAssumption` is what protobuf guarantees of a descriptor (`IsField`: the cardinalities and
kinds there are, widths that are natural numbers, members of a oneof neither repeated nor maps, the
type of a message field known). `KeysFit` is not guaranteed by anything: it says that the keys of
maps fit their widths, which `encodeMapKey` does not check. It is the hypothesis of the theorems,
TLC finds it true of the instance of `message_codec`, and `map_keys` shows what happens without it.

`DeliverTo` ends in the phase of the receiver, so that a stream packed here can be decoded by
`Unpack` (`Deliver`) or by `CCoder`.

### CCoder

The two implementations of the format composed: the Go packer packs a message, the transport
delivers or truncates it, `bp_decode_T` decodes it into a struct that is zeroed or still holds an
earlier message, and `bp_encode_T` encodes that struct again into a buffer of the same size or one
byte smaller. The struct `cmsg` maps places to what they hold: `has_x`, `x_count` and `which_x` are
place 0 below `x`, the length of a string is place -1. Each emitted block is an action
(`DecodeScalar` ... `DecodeNested`, `EncodeScalar` ... `EncodeNested`), on the `work` stack of
`MessageCodec`, because the emitted functions call each other as the Go ones do. `Refuse` keeps
what was stored before the request that failed, the length of a string before its bytes among it.
`CountWidth` stands for the 16 bits of `uint16_t` (`CountAssumption` says that it is a natural
number); the ghost `cut` says that a count or a length did not fit it, from where on nothing is
promised.

### IntCodec, FloatCodec, CScalars and TimestampCodec

One value, encoded and decoded. Words are scaled down: `Word` for 64 bits, `Half` for 32, and
`Nano` for the nanoseconds of a second. Arithmetic wraps where the Go code's does (`Int64`,
`ToSigned`), and Go's division truncates (`Quotient`). In `TimestampCodec` the clock ticks between
`Pack` and `Unpack`.

Fixed point is computed in floating point, so its formats are scaled down with the words: a float
has `PS` significant bits for 24 and a double `PD` for 53, in the order of the code,
`PS < Half < PD < Word`. A number is an integer on a grid of `2^-Grid`; `Fl` rounds to the nearest
of a format (`Exponent` finds its exponent, `NearestEven` the mantissa), ties to even, after each
operation that does so in the code, the sums of the wrap (`FixedWrap`) among them. `NumbersAssumption` says that the numbers are on the grid and
the decimal places are natural numbers, and `GridAssumption` that the grid is finer than an eighth
of the step of each field, so that what falls off the grid is too small to matter. Thus the bounds
`float64(1<<bits) - 1` really round up for widths above the significand. Binary16 is not scaled:
`float32ToFloat16` and `float16ToFloat32` compute with the exponent and mantissa fields, as the bit
operations do; `HalfValuesAssumption` says that a float32 has the fields of one.

`CScalars` gives what the emitted C writes and reads for the same value: conversions to unsigned
and masks instead of checks, sign extension by OR-ing a mask.

### CStructOrder

The recursion of `writeStructsInOrder` as a stack of frames, each with the calls it still has to
make, nested declarations before fields. The relation between messages (what is declared where,
which message has fields of which type, which have a struct at all) is chosen freely among those
that C can express: no struct holds itself (`StructsFinite`), no message is declared in itself
(`Declared`). A relation is acyclic when every set of messages has one with nothing next in the set;
for finite files that is the absence of cycles, and it is the form a proof can use. Map fields and
fields of other files make no call in the code and are no part of `holds`.

## Runs

| Run | What it checks | Bounds, and why they suffice |
|---|---|---|
| `bit_stream` | slice and padding, values at equal widths, refinement of `BitQueue` | widths 3, 5 and 8, three values, 14 bits: bytes exactly full, crossed and partly empty, every truncation, reads of other widths than the writes |
| `c_stream` | buffer untouched beyond the message, refusals exact, values at equal widths, refinement of `BitQueue` | the same widths, two bytes that hold ones or a pattern: stale bits under, after and in the padding of a message, requests that fit to the bit and by one not |
| `packer_cache` | no race on the map, soundness of the cache, one store per name, no lock held while coding, refinement of `SchemaLookup`, every call returns | two goroutines, all three methods, a valid, a nested and an invalid type, one nested look-up per call: both can miss together, one can wait for the other in either mode. The proofs cover any number |
| `schema_analysis` | loop = plan, each field in one unit, selectors that fit | all descriptors of one to three fields of ten shapes with any numbering, two oneofs, three selector annotations: members apart, together, and in the middle |
| `message_codec` | in step, round trip, truncation, acceptance, partial results, strategies, errors only where asked | twelve message types with every kind of unit, all strategies with and without override, lists and strings up to two over their maximum, nesting of two, bytes of two bits so that a cut can fall in almost any item |
| `c_coder` | in step with Go, the struct shows what was packed, encoded again bit for bit | six message types with every kind of unit, zeroed and used structs, every truncation, buffers too small; counts of two bits for `uint16_t`, and a type whose counts and lengths have three, so that they are cut; a type with a map |
| `scalar_codec` | integers exact in range, refused or changed as documented, stable when repacked; fixed point likewise; binary16 truncates; C agrees | all integers of all kinds at all widths, with 9 and 5 bits for 64 and 32: widths below, at and above the small word. Fixed point with significands of 4 and 7 bits, 0 to 2 decimals, numbers of the full significand from 1/4 to 1024: below, across and above every width. Binary16 from all exponents of binary32 and mantissas on both sides of each cut |
| `timestamp_codec` | rolling and offset timestamps | 8-bit `int64`, all granularities, epochs before and after, times on both sides of 1970, a clock that crosses window boundaries. Width `Word - 1` is left out (divergence 8) and seconds stay where no product wraps (divergence 9) |
| `c_struct_order` | the walk ends, each struct once, complete before use | every file of three messages |
| `validate_nested` | violated: divergence 1 | |
| `map_keys` | violated: divergence 3 | |
| `fixed_clamp` | violated: divergence 15 | as `scalar_codec` |

Deadlock is checked in `packer_cache`, where goroutines go on for ever. The other systems end (a
stream is read, a message unpacked), so their configurations say `CHECK_DEADLOCK FALSE`.

## Divergences found while modelling

Runs demonstrate 1 (`validate_nested`), 3 (`map_keys`) and 15 (`fixed_clamp`). The others are what
properties had to be worded around: 4 and 11 are the exceptions in `IntactAccepted`, 5 is the
condition in `CompleteFirstUnlessEnclosing`, 6 in `KeptAsDocumented`, 17 the meaning of
`HalfTruncates`, 18 and 19 are `Supported` and `cut` in `CCoder`, 23 is `CapacityAssumption`, 24 and
25 are where `StrategyAsDocumented` does not follow the table of the README.

1. `Validate` looks at no nested message (`packer.go:62`), although it is documented to
   (`packer.go:59-60`, `README.md:113-114`).
2. Fields are coded in declaration order (`schema.go:49`), not in ascending number
   (`packer.go:5`, `README.md:360`).
3. Map keys are never range-checked (`encoder.go:625-659`): under `OverflowError` a key is cut and
   the stream after a long string key is misread.
4. `map<_, Message>` is packed and can never be unpacked (`decoder.go:410`).
5. A message nested in `M` that refers back to `M` gets its struct before `M`'s
   (`generator.go:203-223`).
6. A list count under `OverflowModulo` is `n & max`, a map count is clamped (`encoder.go:66`, `99-102`);
   the table (`README.md:639`) says `count % max` of both.
7. A rolling timestamp exactly half a window from the clock may be read as the other candidate
   (`decoder.go:159-163`), the README includes that distance (`328-329`).
8. At `bits` = 63 the window size is negative (`decoder.go:154`) and times near the clock are
   decoded a window away.
9. Seconds times granularity may wrap an `int64` before the range is checked (`encoder.go:146-169`).
10. The override on a map field is not seen by its values, nor `fixed`/`ufixed`
    (`encoder.go:288-290` is given the map-value descriptor).
11. A `Timestamp` in a list, map or oneof is an ordinary message, refused for missing annotations
    (`schema.go:133-138`, against `options.proto:188-189`). An empty list of them packs but
    is refused by `Unpack`, which looks the element's schema up first (`decoder.go:67-71`).
12. The clamp of a zigzag number gives the most negative value (`encoder.go:353`, `414`); the README
    row says so, `overflow.go:16` and a test comment (`packer_test.go:757`) say otherwise.
13. The cache is keyed by full name (`packer.go:71`): two descriptors of one name share a schema.
14. Integer widths above 64 and lengths or selectors of 64 bits and more pass validation
    (`schema.go:188-200`, `encoder.go:559-568`, `decoder.go:209`).
15. A fixed-point double of 54 bits or more (55 for `fixed`): the bound `2^bits - 1` is rounded up to `2^bits`, so the
    clamp, and a value of exactly `2^bits` that the comparison lets through, store 0 in a `ufixed`
    and the minimum in a `fixed` field (`encoder.go:498`, `512`, `519`, `536`), against
    `options.proto:77`.
16. At 64 bits the shift of these bounds gives 0 and every value overflows.
17. `float16` is cut off, not rounded to nearest (`encoder.go:668`), in C as well.
18. C ignores maps (`generator.go:542`), which Go packs: what follows one is misread.
19. C keeps counts and lengths in `uint16_t` (`generator.go:598`): larger ones are cut and the rest
    of the stream is misread.
20. C does not sign-extend a `Timestamp` (`generator.go:569`): a negative offset reads as a large
    positive one. Encoded again it gives the same bits.
21. An `int32` of more than 32 bits is zero-extended by C (`generator.go`, `emitEncodeScalarValue`)
    and sign-extended by Go: the bits above 32 differ, the value read back does not.
22. A `Timestamp` in a list or a oneof, and a nested message whose fields are not annotated, make
    the generator emit calls of functions it does not emit.
23. `bit_pos + n` wraps around in buffers of 512 MB and more (`runtime_gen.go:57`).
24. The clamp of a signed integer stores `-(2^(n-1))` for what is too small (`encoder.go:316`, `334`),
    the least number its field holds, as `options.proto:77` and `overflow.go:16` say. The table
    says `±(2^(n-1)-1)` of `int`/`sfixed` (`README.md:634`).
25. The clamp of a negative number of an enum stores the greatest code, `2^n - 1`
    (`encoder.go:601-608`), where the table says `min(v, 2^n-1)` (`README.md:636`) and
    `options.proto:77` the minimum. A field of an open enum may hold such a number.

The models say what the code does in all but four of them: widths of 64 bits and more (14) and
buffers of 512 MB (23) are beyond the assumptions, the timestamps of `CCoder` are unsigned (20), and
types whose C code does not compile (22), or that are recursive and fit in no struct, are not among
its types. The instance of `TimestampCodec` stays away from 8 and 9. The passing properties are
stated so that they hold of the code, and say where they stop.

## Proofs

`BitStreamProofs`, from `Widths, Values \subseteq Nat` and `MaxBits \in Nat` alone:

- `Invariance`: `TypeOK`, `BufferFits`, `BufferHolds`, `ReaderFollows` and `EofIsExact` together are
  inductive. Neither half is on its own: that a written bit survives later writes needs to know
  that the slice is exactly long enough and zero past `wpos`; that the reader follows needs the
  delivered bytes to be a prefix of the slice, which the writer no longer changes. The core is
  `WriteBitLemma`, which rests on `PositionInjective` of `BitsProofs`: two positions never share a
  byte and a bit.
- `BufferHoldsAlways`, `EofIsExactAlways`: the safety invariants.
- `Refinement`: initial states map to initial states and each action to an action of `BitQueue` or
  a stutter.

`CGeneratorProofs`, from the named assumptions of `CStream`, for a buffer of any size that holds any
bytes and requests of any widths below the limit of `CapacityAssumption`:

- `Invariance`: `TypeOK`, `BufferIsolated` and `RefusalIsExact` are inductive together with
  `Follows`, which ties the positions to what was written and read and the delivered bytes to the
  buffer. Without `RefusalIsExact` a bit could be written past the end, without `Follows` the
  position need not be that of the next bit. `WithBitLemma` says that a step changes the bit at its
  position and no other, `MaskedLemma` that `bp_writer_finish` clears the padding and nothing before.
- `BufferIsolatedAlways`, `RefusalIsExactAlways`: the invariants of the run. The second rests on
  `ChecksLemma`, that below `CapacityAssumption` the sums modulo `Word` are the sums.
- `Refinement`: the C stream implements the same `BitQueue`.

`PackerCacheProofs`, from the named assumptions of `PackerCache` and `RWMutex`, for any number of
goroutines, types and look-ups:

- `Invariance`: the invariant `IInv` adds to `TypeOK` who holds, waits for and has announced the
  lock, by location (`LockInv`), that a goroutine about to store has seen the name missing while it
  holds the write lock (`CacheInv`), and what a look-up has found so far (`AnswerInv`).
- `TypeCorrect`, `MapIsGuarded`, `CacheIsSound`, `CodingHoldsNoLock`: the invariants of the run.
- `Refinement`: `SchemaLookup` is implemented provided no two descriptors share a full name
  (`NamesUnique`); divergence 13 is why that is needed.

`BitStreamProofs` and `CGeneratorProofs` also have `SameWidthsSameValuesAlways`, for any widths and
values, that what `readBits` puts together is what `writeBits` took apart. That needs to know where
each value lies in the stream, which no variable says: `FieldsInv` claims that there is a function
`at`, the sums of the widths, such that bit `j` of value `i` is bit `at[i - 1] + j` written
(`StoredBits`), and likewise for the values read (`Fetched`). The lemmas about streams of fields are in
`BitsProofs`, used by both modules; `FieldsAgree` says that equal widths give equal places, hence
equal bits, and `SameBits` that a number is determined by its bits.

Also in `CGeneratorProofs`, about `CStructOrder`, for any set of messages that are declared in and refer to each other in any
way C can express:

- `OrderInvariance`: that each frame on the stack is a call made by the one below it (`StackInv`), that
  a call that has returned left everything it refers to visited and its struct written (`DoneInv`),
  and nothing written twice (`WrittenInv`), are inductive together with completeness.
- `EveryStructOnceAlways`: no message is entered twice, and at the end of the walk each struct is
  there exactly once. `AllVisited` takes a message that was not visited and no enclosing message
  of which was: `Declared` gives one, and its parent must have visited it.
- `CompleteFirstAlways`: in a file where no message refers to one it is declared in. `NoCallBack`
  is the reason: a field that is still on the stack would close a cycle through the frames.

`ScalarProofs`, for words of any size, any width of 1 to a word, and any values:

- `Invariance`: `code` is what the encoder makes of the value and lies below `2^bits`, and `out` is
  what the decoder makes of `code`. The rest is arithmetic, one lemma per group of kinds
  (`UintCodec`, `SintCodec`, `Int2cCodec`, `EnumCodec`): what is written is decoded as the value
  with the same low bits that the kind and width can hold.
- `RangeIsExactAlways`, `StrategyAsDocumentedAlways`, `RepacksTheSameAlways`: the integer invariants
  of the run `scalar_codec`. The second says wrap or clamp as documented, by the table for unsigned
  and zigzag numbers and enums, by `options.proto` for signed ones (divergence 24), with the
  negative numbers of enums as the exception that the code makes of them (`EnumClamp`, divergence 25).
- `CAgreesAlways`: the C coder reads what Go reads and encodes it to the same bits. For fixed point
  it needs only that `Fl` returns integers and that a code fits its width (`FixedInv`): C computes
  the same numbers, and differs in the masks and in extending the sign by OR (`SignExtensions`).
  `ExponentType` shows that the recursive function in `Exponent` exists and is a natural number.
- `FixedAsDocumentedAlways`, for formats of any two sizes in the order of the code: rounding to a
  double does not pass an integer that a double holds (`DoubleBounds`), nor does rounding to a whole
  number (`UnitBounds`), so the scaled number is on the same side of each bound as the exact one
  (`ScaledRange`); the bounds are exact for all widths up to the significand's (`BoundsAre`). Within
  them a unit in the last place is at most one step of the grid, hence the error of one unit.
  `RefusalInv` adds to `FixedInv` that a number is refused exactly if it overflows under `ERROR`.
- `FixedRepacksTheSameAlways`: `FlError` bounds what one rounding adds, relative to the bits the
  format has to spare. With two bits to spare the roundings of an unpacked number (quotient, float,
  product) stay below half a unit together (`DoubleRepacks`, `FloatRepacks`). It is here that
  `GridAssumption` is needed.
- `HalfTruncatesAlways`, for every float32 (`HalfValuesAssumption`): one lemma for each range of
  exponents (`HalfSpecial`, `HalfSmall`, `HalfDenormal`, `HalfNormal`). That a subnormal is found
  again rests on `ShiftIsUnique`: only one shift brings its leading bit to the implicit one.

`TimestampCodecProofs`, for any word, width, granularity that divides a second, epoch and clock:

- `Invariance`: `code` is the low bits of the time in units, or of its offset, and `out` is
  `FromRolling` or `FromOffset` of it by the clock at the time of reading.
- `OffsetAsDocumentedAlways`, `RollingNearAlways`, `RollingExactAlways`, under the hypothesis
  `Unwrapped`: times and epochs in units fit half the range of an `int64`, and the window of a
  rolling timestamp is narrower than its sign bit. The code checks neither (divergences 8 and 9),
  and without it the three are false; the instance of the run satisfies it.
  `SameInWindow` is the core: of a time and the two a window away from it, the one nearest to the
  clock is within half a window, and by `NearestIsUnique` it is the one that was packed.

`CodecProofs`, for any descriptors, values, strategies, widths and nesting, under `KeysFit`
where the decoder is concerned:

- `EncoderInvariance`, `DecoderInvariance`: the state of the decoder alone says nothing about the
  encoder's, which is long gone when it runs, and `marks` is not enough either, since it has no bits
  and no messages. The invariants claim that there is a history: for each item of `marks`, the work
  the encoder had when it came to it and the message it had kept so far, such that the bits from the
  item's position are the ones its action writes (`Encoded`). The decoder is at some item of that
  history (`DecoderAt`): its work is the encoder's there, with the ends of list elements between
  (`Matches`); its position is that of the item; its message is what the encoder had kept, except
  that an element which is a message joins its list when it is decoded, not when it is begun
  (`OutIs`). That an element still open is never the place that is written to comes from the depth
  of places on the stack (`Stacked`).
- `EncoderStep` and `DecoderStep` are one lemma for each kind of item (`EncoderList`, `DecoderList`
  and so on): where the bits of an item are those its encoder writes, its decoder takes exactly as
  many, leaves the same work and builds the same part of the message, or the bits run out. They rest
  on `ReadScalar` and `ReadKey`, that what is read of bits written is the value (this is where
  `KeysFit` is needed), and on `KeepFits`, that what a strategy keeps fits its width.
  `MinSelectorFits` gives that the number of every member of a oneof fits its selector.
- `PackErrorOnlyIfAskedAlways`, without `KeysFit`, from the encoder's half of the invariant: the
  item of a `Pack` that fails is a field whose strategy is `ERROR`.
- `InStepAlways`, `RoundTripAlways`, `TruncationDetectedAlways`: the invariants of the run.
- `IntactAcceptedAlways`: the action property of the run. `DecoderStep` gives that the actions of `Unpack`
  never miss a bit of a stream that is whole, so that a refusal is `Unpack`'s own. The history
  records that the encoder found the schema of each message it began valid (`EmitsMessage`,
  `EmitsNested`); a list whose schema is not valid was therefore empty (`InvalidListIsEmpty`), and
  no other item gives a `ValidationError`. That no message is returned which had such an item is the
  conjunct `AllPassable` of `DecoderInv`: the items behind the decoder are all of those it takes.
- `KeptAsDocumentedAlways`, without `KeysFit`. Its invariant `KeptInv` is about the places of `raw`
  and `kept`. No two fields share a place, although entries that are messages use the place of their
  map again and again: a place determines by the descriptors alone what it is for (`Walk`,
  `WalkUnique`), and items that wait are never inside each other but for the values of one list or
  map (`Disciplined`). So a step disturbs the place of its own item only (`KeptStep`). Of a list or
  map, the values that wait are one run of the work (`Waiting`), and what is kept together with them
  is what the strategy leaves of the elements or entries packed (`ListWith`, `MapWith`). The rest is
  one lemma for each action of `Pack` (`KeepScalar` to `KeepNested`) and a comparison of
  `Keep` with the table (`KeepIsDoc`). `StrategiesAssumption` says that `Defaults` are among the five
  strategies of `overflow.go`.
- `PartialIsPartAlways`: the decoder has what the encoder had kept when it came to the same item
  (`OutIs`), so the claim is that what the encoder had kept at an item is part of what it keeps in all.
  `PartInv` adds that to the history (`PartsKept`). It is inductive only with a claim about the work
  ahead: an item that still waits is at or around a place that has been written only if it adds an
  element or entry there, or if the place is inside an element its list has already (`Ahead`, and
  `Lined` for the items among themselves). Each action of `Pack` then adds and never overwrites
  (`Adds`, one lemma for each action), and by `KeptInv` a new entry of a map has a key of its own
  (`FreshKey`). Entries that are messages share the places of their fields and do overwrite, so the
  claim ends at the first of them (`Clean`); the decoder refuses the map there, hence never sees one
  (`MessageEntryRefused`).

Also in `CodecProofs`, about `SchemaAnalysis`, for any descriptors whose fields are numbered apart
(`MessagesAssumption`):

- `AnalysisInvariance`: after `n` fields the units of the loop are those of the declarative plan
  that start at one of them, and the oneofs seen are those of these fields; it has stopped only at
  an invalid field. The step is `PlanGrows`: the plan of `n + 1` fields is that of `n`, with one more
  unit at its end exactly if field `n + 1` is not a member of a oneof that has begun.
- `PassComputesPlanAlways`, `SelectorFitsAlways`, `EveryFieldOnceAlways`: the invariants of the run.
  The last rests on `OneStart`: of the members of a oneof, one comes first.

Lemmas about `2 ^ n` are proved in `BitsProofs`, from nothing but arithmetic: `2 ^ n` is the number of
subsets of `1..n`, which gives its type and `2 ^ (n + 1) = 2 * 2 ^ n`. Induction is needed in
one form, over a set of numbers (`Induction`), which follows from the least number principle.

`CCoderProofs`, for any descriptors, values, widths and contents of the struct before:

- `EchoInvariance`: the struct is all that passes from the C decoder to the C encoder, and the
  decoder is done when the encoder begins. The invariant claims that the decoder has left a history
  (`Past`): the work and the position at each of its items, such that the struct as it is now gives,
  for each of them, exactly the bits that were taken (`EncB`) and the items that were gone on with
  (`EncM`). The encoder walks along that history (`Between`).
- One lemma for each kind of item says that a step of the decoder stores what is encoded as the bits
  it took (`CDecodeScalar` to `CDecodeBytes`), and `CEncodeStep` that the encoder writes what the
  struct says. What earlier items stored stays, since items that wait are at no place that one of
  them was encoded from, nor around it, unless they are its value (`Clear`, `ClearNext`); flags and
  lengths of two places are never the same (`ClearPlaces`). This is where the layout of the struct
  matters: two fields that shared a `has_x`, an `x_count` or an `x_len` would break it.
- `EchoIsIdenticalAlways`, so long as no count or length is cut to its `uint16_t` (`cut`), on the bits
  that the Go packer wrote (`BitsEmitted`), whole or truncated, misread because of a map or not.

- `CStepInvariance`: the C decoder stands in the history of the Go encoder (`Traced`, of
  `CodecProofs`), with the work the encoder had there (`CSame`). The two are not equal: Go has the
  elements of a list at the list, in their order, and C has each at its number, so the invariant
  says of those that wait that none is left out from the first that the struct has not got yet
  (`InRank`). One lemma for each kind of item (`StepScalar` to `StepNested`) says that C refuses
  only where bits are missing and else takes the bits that Go wrote and goes on with the items that
  Go went on with.
- `CInStepAlways` follows, where the message has no map and no count or length is cut
  (`Supported`), and `CRefusesTruncatedAlways`: a stream that lost a byte with a bit of the message is
  refused, every other accepted. This is the first half of `CReadsWhatWasPacked`.

Only model-checked: `CallsReturn` (liveness, out of the prover's reach); and of `CReadsWhatWasPacked`
the second half, that a program which follows flags and counts finds the packed values in the struct
and no others (`View = Packed`). For every content of the struct before it would need an invariant on
what an earlier call may have left at all the places that no flag leads to, which the run has by
enumerating old contents. Only `MCCCoder` declares a recursive operator.

## Not modelled

The raw IEEE cases of floats, which write `math.Float32bits` and `Float64bits` unchanged, and
infinities and NaN as fixed-point numbers, whose conversion to an integer Go leaves to the machine;
texts of errors; annotations' parsing (`GetFieldOpts`, `GetOneofOpts` are the fields of a
descriptor); what the C generator emits besides structs and coders (names, enums, header guards,
includes, defaults of array sizes) and its choice of files, which keep no state; generated Go code,
which is not this repository's to get right. Groups behave as messages. Signed integers, floats and
far timestamps do not occur within `MessageCodec` and `CCoder`, where they would only multiply
states: their bits are the same to the traversal, and the scalar modules have each of them alone.

## Plan

1. Done: bit stream, cache, analysis, message codec, integers, timestamps, order of C structs; C
   runtime with its proofs, fixed point and binary16, C scalars, generated C coder against the Go
   packer.
2. Done: proofs of both streams, the cache, the order of C structs, the loop of `SchemaAnalysis`,
   integers, floats, C scalars and timestamps, that the decoder of `MessageCodec` is where the
   encoder was, that what is kept is what is documented and that a partial message is part of the
   one packed, that the decoder of `CCoder` stands in the history of the packer and refuses what is
   truncated, and that C echoes what it decodes, for every schema. To do: the second half of
   `CReadsWhatWasPacked` (`View = Packed`).
3. Models: signed timestamps in `CCoder` (divergence 20), Go `Unpack` of what C encoded from a
   struct a program filled in, widths of 64 bits and more (divergence 14) as operators over widths.
