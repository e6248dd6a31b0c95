SPECIFICATION Spec
CONSTANTS
  Groups = {o, a}
  Origin = o
  None = None
  Handlers = {h1, h2}
  Rows = {0, 1, 2, 3}
  EarlyRequests = FALSE
  Operations = {"patch"}
  Targets = {"confirm"}
  MaxTs = 1
  LocksExpire = FALSE
  AuctionOutlivesLock = FALSE
  Faults = {}
  MaxFaults = 0
  MaxQueue = 1
SYMMETRY Symmetry
INVARIANTS
  IdempotentOnce
\* The ride may end, and then nothing is left to do.
CHECK_DEADLOCK FALSE
