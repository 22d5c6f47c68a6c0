SPECIFICATION Spec
CONSTANTS
  Half = 8
  DataMax = 7
  Words <- AllWords
  Rows <- AllRows
  Begins <- FewBegins
  Fraction = TRUE
  Loaded <- AtLeastFour
INVARIANTS TypeOK Within NeverMissed EdgeAfterArm
