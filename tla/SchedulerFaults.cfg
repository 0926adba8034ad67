SPECIFICATION FairSpec
CONSTANTS
  e1 = e1
  e2 = e2
  e3 = e3
  None = None
  Easies = {e1, e2, e3}
  Unsettable = {e2}
  FaultSets <- MCFaultSets
  MaxPerforms <- FirstTwice
CHECK_DEADLOCK FALSE
INVARIANT CallbackErrorsStayHome
INVARIANT NobodyIsForgotten
PROPERTY UsesMultiByContract
PROPERTY EveryPerformEnds
