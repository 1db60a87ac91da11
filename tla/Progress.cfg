SPECIFICATION PartSpec
CONSTANTS
  m1 = m1
  r1 = r1
  Restored = {r1}
  Sections <- MCNo
  Settings <- MCSettings
  Configs = {a}
CHECK_DEADLOCK FALSE
INVARIANTS
  CompanionsAreKept
PROPERTIES
  LoopProgresses
  RequestProgresses
  StewardSettles
