SPECIFICATION Spec
CONSTANTS
  N = 1
  TurnCycles = 2
  Words = 1
  Setups = {s1, s2}
  NoSetup = NoSetup
  HostOps = {"control", "setup"}
  ControlWords <- StartsAndChecks
  Hazards = FALSE
INVARIANT WatchesItsPremises
