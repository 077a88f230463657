SPECIFICATION ScalarSpec
CONSTANTS
  Word = 9
  Half = 5
  PS = 4
  PD = 7
  Grid = 13
  Kinds <- MCKinds
  FloatKinds <- MCFloatKinds
  Uses = {"value", "key"}
  DecimalPlaces <- MCPlaces
  FixedValues <- MCFixedValues
  HalfValues <- MCHalfValues
INVARIANTS
  RangeIsExact
  StrategyAsDocumented
  RepacksTheSame
  FixedAsDocumented
  FixedRepacksTheSame
  HalfTruncates
  CAgrees
CHECK_DEADLOCK FALSE
