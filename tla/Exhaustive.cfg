SPECIFICATION FairSpec
CONSTANTS
  NumSources = 3
  MaxFunctions = 9
  MaxMergeSize = 3
  ExhaustiveThreshold = 0
  Gains <- MCGains
INVARIANTS
  TypeOK
  LivePlansAreApplicable
  DependentsMatchQueue
  SpeculationIsAccounted
  AllCombinationsTried
PROPERTIES
  AppliesTheBestPlan
  ImplementsForest
  Terminates
CHECK_DEADLOCK FALSE
