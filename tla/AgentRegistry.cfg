SPECIFICATION Spec
CONSTANTS
  p = p
  q = q
  k = k
  Agents = {p, k}
  NoAgent = NoAgent
  Parent <- Family
  Callers = {c1, c2}
  Commands = FALSE
  Capabilities = 1
  Configured <- OneChange
  Settings <- MCSettings
SYMMETRY Symmetry
CHECK_DEADLOCK FALSE
INVARIANTS
  ResourcesAreListed
  LifetimesNest
  ClosesAreMeant
