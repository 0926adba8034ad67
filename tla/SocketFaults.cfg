SPECIFICATION FairSpec
CONSTANTS
  f1 = f1
  f2 = f2
  Fds = {f1, f2}
  Hooks = {"none", "io_wait", "io_select"}
  DefaultTimeout = 2
  MaxTimer = 3
  MaxWork = 4
  Settings <- MCSettings
CHECK_DEADLOCK FALSE
INVARIANT ContextIsCurrent
INVARIANT NeverLate
PROPERTY LoopProgresses
