SPECIFICATION Spec
CONSTANTS
  N = 2
  TurnCycles = 4
  Words = 1
  Setups = {s1}
  NoSetup = NoSetup
  HostOps = {"control", "data", "frame"}
  ControlWords <- StartCheckOrAll
  Hazards = FALSE
INVARIANTS TypeOK RunsOnlyVouched TurnsKept VerdictStands WalkUndisturbed
PROPERTY WaitEnds
