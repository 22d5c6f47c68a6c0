SPECIFICATION Spec
CONSTANTS
  N = 2
  Words = 2
  Values = {v0, v1}
  HostOps = {"start", "data", "config", "owner"}
  Pullers = {0}
  Walks = TRUE
  DataWait = 4
INVARIANTS PullsAreFresh WalkReadsAreFresh
SYMMETRY AnyValue
