SPECIFICATION Spec
CONSTANTS
  Reports = 1
  SpareRequests = {"device"}
  SpareMax = 0
  ResetMax = 1
  PowerMax = 1
  MemoryKept = FALSE
INVARIANT FullLoadFollows
CHECK_DEADLOCK FALSE
