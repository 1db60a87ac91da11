SPECIFICATION FairSpec
CONSTANTS
    c1 = c1
    c2 = c2
    Creation <- MCCreation
    None = None
    Seeds <- MCSeeds
    Batches <- MCBatches
    MaxTears = 1
    MaxLen = 2
    MaxInst = 2
CHECK_DEADLOCK FALSE
INVARIANTS
  TypeOK
  AckedIsDurable
  OneHistory
  ClosedStaysClosed
PROPERTIES
  WritersAreFixed
  ImplementsDurableLog
  RequestsAnswered
