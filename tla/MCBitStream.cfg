SPECIFICATION Spec
CONSTANTS
  Widths <- MCWidths
  Values <- MCValues
  MaxBits = 14
INVARIANTS
  TypeOK
  BufferHolds
  SameWidthsSameValues
PROPERTIES
  RefinesBitQueue
CHECK_DEADLOCK FALSE
