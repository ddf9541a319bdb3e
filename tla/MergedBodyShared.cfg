SPECIFICATION FairSpec
CONSTANTS
  Aligners <- MCHyFM
  Groups <- MCDiamonds
  None = None
PROPERTY PhisSeePredecessor
CHECK_DEADLOCK FALSE
