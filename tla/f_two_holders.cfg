SPECIFICATION Spec
CONSTANTS
  Groups = {o, a, b}
  Origin = o
  None = None
  Handlers = {h1, h2}
  Rows = {0, 1, 2, 3}
  EarlyRequests = FALSE
  Operations = {"acquire"}
  Targets = {}
  MaxTs = 1
  LocksExpire = TRUE
  AuctionOutlivesLock = FALSE
  Faults = {}
  MaxFaults = 0
  MaxQueue = 1
SYMMETRY Symmetry
PROPERTIES
  ActiveLockNotStolen
\* The ride may end, and then nothing is left to do.
CHECK_DEADLOCK FALSE
