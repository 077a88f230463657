SPECIFICATION Spec
CONSTANTS
  Size = 2
  Stale <- MCStale
  Widths <- MCWidths
  Values <- MCValues
  Word = 32
INVARIANTS
  BufferIsolated
  RefusalIsExact
  SameWidthsSameValues
PROPERTIES
  RefinesBitQueue
CHECK_DEADLOCK FALSE
