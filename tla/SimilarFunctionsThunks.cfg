SPECIFICATION Spec
CONSTANTS
  MergeMinInsts = 4
  MergeDifferingMinInsts = 1
  MergeMaxDiffering = 2
  MergeMinSimilarity = 70
  Given <- MCThunks
INVARIANT ThunksAreNotVisited
