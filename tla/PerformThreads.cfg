SPECIFICATION Spec
CONSTANTS
  None = None
  main = main
  worker = worker
  m1 = m1
  m2 = m2
  m3 = m3
  m4 = m4
  Threads = {main, worker}
  Main = main
  Multis = {m1, m2, m3, m4}
  Autoclose = {TRUE, FALSE}
SYMMETRY MultiSymmetry
CHECK_DEADLOCK FALSE
INVARIANT OnePlaceEach
