SPECIFICATION Spec
CONSTANTS
  Fn <- MCFn
  Key <- MCKey
  Bands = 3
  BucketSizeCap = 10
  ExplorationThreshold = 3
  NumSources = 4
  Gains <- MCGains
INVARIANTS
  TypeOK
  BucketsHoldCandidates
  RemovalsFindCandidates
  CandidatesAreDefined
  SpeculationIsAccounted
  AllGroupingsTried
PROPERTIES
  ImplementsForest
  ComesToAnEnd
