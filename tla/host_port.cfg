SPECIFICATION Spec
CONSTANTS
  Depth = 2
  Words = 4
  StampDepth = 2
  EdgesMax = 4
  ExchangeDepth = 2
  LoRange = 15
  HiRange = 2
  PopAsks = 2
  Watches <- FewWatches
  WatchesMax = 2
INVARIANTS NowIsNow StampsAreTrue
PROPERTY IsAChannel
