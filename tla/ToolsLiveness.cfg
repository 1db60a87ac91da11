SPECIFICATION PartSpec
CONSTANTS
  Calls = {c1, c2}
  NoCall = NoCall
  MaxChanges = 0
  MaxCallFaults = 0
  Versions = {a, b}
  NumTools = 2
  MaxUpdates = 2
  MaxFaults = 1
  MaxTimeouts = 1
  MaxCancels = 1
CHECK_DEADLOCK FALSE
PROPERTIES
  ToolsProgress
