SPECIFICATION PartSpec
CONSTANTS
  m1 = m1
  m2 = m2
  c1 = c1
  Restored = {}
  Sections <- MCNo
  Settings <- ClearSettings
CHECK_DEADLOCK FALSE
INVARIANT RestorableLog
