\* Every bearing and elevation in steps of an eighth of a degree.
SPECIFICATION CueingFairSpec
CONSTANTS
  Degree = 8
  Round <- MCRound
  Error = 1
  NaN = NaN
  UnspecifiedCodes = {0, 65535}
  Orders <- MCOrders
INVARIANTS
  CueingTypeOK
  AnglesNormalized
  DirectionKept
  ReadsInside
PROPERTIES
  EveryStepAdvances
  EveryOrderConverted
\* A conversion ends.
CHECK_DEADLOCK FALSE
