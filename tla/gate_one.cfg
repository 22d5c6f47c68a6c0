SPECIFICATION Spec
CONSTANTS
  N = 1
  TurnCycles = 2
  Words = 2
  Setups = {s1, s2}
  NoSetup = NoSetup
  HostOps = {"control", "program", "config", "line", "data", "setup"}
  ControlWords <- AllControlWords
  Hazards = TRUE
INVARIANTS RunsOnlyVouched CertifiedIsVouched
PROPERTY FaultStaysDown
