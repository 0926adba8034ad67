SPECIFICATION FairSpec
CONSTANTS
  e1 = e1
  e2 = e2
  e3 = e3
  m1 = m1
  m2 = m2
  None = None
  Easies = {e1, e2, e3}
  Multis = {m1}
  Autoclose = TRUE
  Liberties = {"close_attached", "non_standard_error"}
  MaxGeneration <- OnceEach
INVARIANT TypeOK
PROPERTY DeferredIsRaised
