SPECIFICATION Spec
CONSTANTS
  NoOneof = NoOneof
  Timestamp = Timestamp
  choice = choice
  optional = optional
  Descriptor <- MCDescriptor
  Roots = {"Maps"}
  Defaults = {"ERROR"}
  Ints = {0}
  ByteStrings <- MCStrings
  IntKeys = {1, 5}
  StringKeys <- MCStringKeys
  ByteSize = 2
  MaxCount = 1
  MaxDepth = 2
INVARIANTS
  ErrorStrategyLosesNothing
CHECK_DEADLOCK FALSE
