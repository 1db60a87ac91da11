SPECIFICATION PartSpec
CONSTANTS
  m1 = m1
  m2 = m2
  c1 = c1
  Restored = {}
  Sections <- MCNo
  Settings <- MCSettings
SYMMETRY MCSymmetry
CHECK_DEADLOCK FALSE
INVARIANTS
  LogIsReadable
  TurnsSettle
  WorkIsDoneOnce
  TitlesAreTrue
  CommandsAreTrue
  ConversationIsTrue
PROPERTIES
  PreservedInputWaits
