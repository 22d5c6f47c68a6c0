SPECIFICATION Spec
CONSTANTS
  Reports = 2
  SpareRequests = {"idle", "device", "configure"}
  SpareMax = 2
  ResetMax = 1
  PowerMax = 1
  MemoryKept = TRUE
INVARIANTS TypedOnce LoggedIsTaken AnswersMatch
PROPERTY AllTyped
