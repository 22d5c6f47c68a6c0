SPECIFICATION Spec
CONSTANTS
  Table <- AllTables
  Demo <- AllDemos
  Depth = 15
  BenchDepth = 8
  StreamMax = 17
  Addresses <- SomeAddresses
INVARIANTS
  ShippedIsAccepted
  PatchedIsWhole
  NothingIsIgnored
  NothingIsDropped
  PremiseIsKept
  WaitsAreAnswered
