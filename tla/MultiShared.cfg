SPECIFICATION Spec
CONSTANTS
  e1 = e1
  e2 = e2
  e3 = e3
  m1 = m1
  m2 = m2
  None = None
  Easies = {e1, e2}
  Multis = {m1, m2}
  Autoclose = FALSE
  Liberties = {}
  MaxGeneration <- TwiceEach
SYMMETRY HandleSymmetry
INVARIANT OwnershipAgrees
INVARIANT ActiveIsExact
INVARIANT RunningCoversTransfers
INVARIANT HandleOutlivesPerform
INVARIANT NoReplacementWork
INVARIANT CallbackErrorIsFresh
PROPERTY PerformReturnsIdle
PROPERTY CloseClearsReferences
PROPERTY ImplementsContract
