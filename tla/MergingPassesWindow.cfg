SPECIFICATION Spec
CONSTANTS
  Jobs <- MCDefaultCount
  MaxMergeSize = 3
  ExplorationThreshold <- MCExplorationThreshold
  SizeWidth = 3
INVARIANT WindowIsReplayed
