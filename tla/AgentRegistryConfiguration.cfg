SPECIFICATION FairSpec
CONSTANTS
  p = p
  q = q
  k = k
  Agents = {p, q}
  NoAgent = NoAgent
  Parent <- Neighbours
  Callers = {c1}
  Commands = FALSE
  Capabilities = 0
  Configured <- OneChange
  Settings <- NeighbourSettings
PROPERTIES
  ConfigurationFollows
CHECK_DEADLOCK FALSE
