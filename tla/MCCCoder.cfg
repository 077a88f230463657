SPECIFICATION CSpec
CONSTANTS
  NoOneof = NoOneof
  Timestamp = Timestamp
  choice = choice
  optional = optional
  Descriptor <- MCCDescriptor
  Roots = {"Scalars", "Choice", "Words", "Leaves", "Wide", "Mapped"}
  Defaults = {"CROP_LEFT"}
  Ints = {0, 2, 3}
  ByteStrings <- MCCStrings
  IntKeys = {1, 3}
  StringKeys <- MCStringKeys
  ByteSize = 2
  MaxCount = 4
  MaxDepth = 3
  CountWidth = 2
  StaleStruct <- MCStale
INVARIANTS
  CInStep
  CReadsWhatWasPacked
  EchoIsIdentical
CHECK_DEADLOCK FALSE
