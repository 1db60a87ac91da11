SPECIFICATION PartSpec
CONSTANTS
  Threshold = 5
  Retain = 2
  CompactionRetries = 1
  MaxOverflowRetries = 1
  History <- MCHistory
  Settings <- MCSettings
CHECK_DEADLOCK FALSE
INVARIANTS
  HistoryIsKept
  HooksAreTrue
  PromptsAreTrue
PROPERTIES
  CompactionEnds
