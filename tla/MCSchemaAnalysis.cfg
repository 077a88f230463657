SPECIFICATION AnalysisSpec
CONSTANTS
  NoOneof = NoOneof
  Timestamp = Timestamp
  oneofA = oneofA
  oneofB = oneofB
  optional = optional
  Messages <- MCMessages
INVARIANTS
  PassComputesPlan
  EveryFieldOnce
  SelectorFits
CHECK_DEADLOCK FALSE
