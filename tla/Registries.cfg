SPECIFICATION PartSpec
CONSTANTS
  p = p
  k = k
  NoAgent = NoAgent
  Askers = {c1}
  Creation = {a, b}
  NoCreation = NoCreation
  Callers = {k1, k2}
  MaxInst = 6
  MaxAttempts = 2
  MaxFaults = 2
CHECK_DEADLOCK FALSE
INVARIANTS
  SessionsAreOwned
PROPERTIES
  CallersAnswered
  AgentsProgress
