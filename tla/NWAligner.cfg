SPECIFICATION Spec
CONSTANTS
  NumFunctions = 3
  Value <- MCValue
  Matching <- MCMatching
  TypeOf <- MCTypeOf
  Linearizations <- MCLinearizations
  MaxLength = 4
  ShapeSizeLimit = 100
  SizeModulus = 65536
INVARIANTS
  TypeOK
  AssertionsHold
  CursorMatchesPoint
  AlignsEveryInstruction
  MatchedEntriesMatch
  AlignmentIsOptimal
CHECK_DEADLOCK FALSE
