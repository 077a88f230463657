SPECIFICATION OrderSpec
CONSTANTS
  A = A
  B = B
  C = C
  Messages = {A, B, C}
SYMMETRY Symmetry
INVARIANTS
  EveryStructOnce
  CompleteFirstUnlessEnclosing
CHECK_DEADLOCK FALSE
