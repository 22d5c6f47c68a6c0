SPECIFICATION Spec
CONSTANTS
  Size = 3
  DataBits = 2
  Depth = 2
  Words <- FetchWords
  Firmware <- AllLoads
INVARIANTS TypeOK IssuesItsWord Lockstep ReleasedOnItsEdge
