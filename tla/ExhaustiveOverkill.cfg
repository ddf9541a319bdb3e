SPECIFICATION Spec
CONSTANTS
  NumSources = 3
  MaxFunctions = 9
  MaxMergeSize = 2
  ExhaustiveThreshold = 0
  Gains <- MCGains
INVARIANT OnlyStalePlansDie
CHECK_DEADLOCK FALSE
