SPECIFICATION Spec
CONSTANTS
  Jobs <- MCJobs
  MaxMergeSize = 3
  ExplorationThreshold <- MCExplorationThreshold
  SizeWidth = 3
INVARIANTS
  TypeOK
  UsesKeepTheirMeaning
  SymbolsAreKept
  OnlyCallsAreReplaced
  AttemptsAreLive
  LayoutsAreSound
  NothingIsLeftBehind
  WindowIsReplayedUnlessWrapped
PROPERTY WorkShrinks
