SPECIFICATION Spec
CONSTANTS
  Word = 8
  Nano = 4
  Granularities = {1, 2, 4}
  Modes = {"signed", "forward", "rolling"}
  Widths = {1, 2, 3, 4, 5, 6, 8}
  Epochs = {0, 3}
  Secs <- MCSecs
  Start = {0, 5}
  MaxNow = 20
INVARIANTS
  RollingExact
  RollingNear
  OffsetAsDocumented
CHECK_DEADLOCK FALSE
