SPECIFICATION Spec
CONSTANTS
  DataWords = 4
  WordMax = 6
  SentMax = 8
  Rearms = TRUE
  BaseMoves = TRUE
INVARIANTS TypeOK FinishedIsWhole DroppedIsMissing LandsInPlace
PROPERTY StaysPut
