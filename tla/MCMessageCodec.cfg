SPECIFICATION Spec
CONSTANTS
  NoOneof = NoOneof
  Timestamp = Timestamp
  choice = choice
  optional = optional
  Descriptor <- MCDescriptor
  Roots = {"Scalars", "Choice", "Lists", "Maps", "Flags", "Outer", "Numbers", "Cropped", "Limited", "Entries", "Stamps", "MessageMap"}
  Defaults = {"ERROR", "MODULO", "CLAMP", "CROP_LEFT", "CROP_RIGHT"}
  Ints = {0, 1, 5}
  ByteStrings <- MCStrings
  IntKeys = {1, 3}
  StringKeys <- MCStringKeys
  ByteSize = 2
  MaxCount = 3
  MaxDepth = 2
INVARIANTS
  InStep
  RoundTrip
  TruncationDetected
  PartialIsPart
  KeptAsDocumented
PROPERTIES
  IntactAccepted
  PackErrorOnlyIfAsked
CHECK_DEADLOCK FALSE
