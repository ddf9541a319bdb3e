SPECIFICATION Spec
CONSTANTS
  NumFunctions = 3
  Value <- MCValue
  Matching <- MCMatching
  TypeOf <- MCTypeOf
  Linearizations <- MCLinearizations
  MaxLength = 4
  ShapeSizeLimit = 32
  SizeModulus = 64
INVARIANT TableWithinLimit
CHECK_DEADLOCK FALSE
