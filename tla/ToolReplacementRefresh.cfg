SPECIFICATION FairSpec
CONSTANTS
  a = a
  b = b
  Versions = {a, b}
  NumTools = 1
  MaxUpdates = 3
  MaxFaults = 1
  MaxTimeouts = 0
  MaxCancels = 0
CHECK_DEADLOCK FALSE
PROPERTY RefreshResumes
