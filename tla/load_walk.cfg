SPECIFICATION Spec
CONSTANTS
  Half = 4
  DataMax = 3
  Fraction = FALSE
  Loaded <- NothingLoaded
  Size = 4
  IndexMax = 2
  Checks <- AllChecks
  Again <- AgainChecks
INVARIANTS AcceptedIsSound AgreesWithModel
PROPERTY WalkEnds
