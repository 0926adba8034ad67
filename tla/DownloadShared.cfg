SPECIFICATION Spec
CONSTANTS
  many = many
  single = single
  d1 = d1
  d2 = d2
  d3 = d3
  p1 = p1
  p2 = p2
  Absent = Absent
  Foreign = Foreign
  Calls = {many, single}
  Outputs <- TwoCalls
  Downloads = {d1, d2, d3}
  Paths = {p1, p2}
  PathOf <- PathsOf
  Overwrite <- SecondOverwrites
  Easy = {single}
  Settings <- ThreeSettings
  Faults = {"io", "block"}
  Chunks = 2
CHECK_DEADLOCK FALSE
INVARIANT FailureReported
INVARIANT OneWinner
INVARIANT TempsRemoved
PROPERTY InstallsAtomically
