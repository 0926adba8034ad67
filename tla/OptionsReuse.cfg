SPECIFICATION Spec
CONSTANTS
  e1 = e1
  e2 = e2
  First = e1
  Easies = {e1, e2}
  Values = {"a", "b"}
  CloneValues = {"a"}
  Focus <- MCFocus
  MaxCalls = 5
  Nil = Nil
CHECK_DEADLOCK FALSE
INVARIANT RunsAsAsked
INVARIANT OwnsWhatItUses
