SPECIFICATION FairSpec
CONSTANTS
  Aligners <- MCAligners
  Groups <- MCGroups
  None = None
INVARIANT TypeOK
PROPERTIES
  ImplementsSource
  PhisSeePredecessorUnlessShared
CHECK_DEADLOCK FALSE
