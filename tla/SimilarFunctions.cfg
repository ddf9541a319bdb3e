SPECIFICATION Spec
CONSTANTS
  MergeMinInsts = 4
  MergeDifferingMinInsts = 1
  MergeMaxDiffering = 2
  MergeMinSimilarity = 70
  Given <- MCGiven
INVARIANT TypeOK
INVARIANT BehaviourIsKept
INVARIANT RegistryIsSound
INVARIANT NothingIsMissed
PROPERTY OnlyThunksAddBuckets
PROPERTY Finishes
