SPECIFICATION PartSpec
CONSTANTS
  Calls = {c1, c2}
  NoCall = NoCall
  MaxChanges = 1
  MaxFaults = 1
  Versions = {a, b}
  NumTools = 3
  MaxUpdates = 2
  MaxFailures = 3
  MaxTimeouts = 2
  MaxCancels = 1
SYMMETRY Symmetry
CHECK_DEADLOCK FALSE
INVARIANTS
  RunsOnceApproved
  ResultsAreTrue
  ToolsAreServed
  SettingsAreTrue
  ConnectionsAreTrue
