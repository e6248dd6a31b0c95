SPECIFICATION Spec
CONSTANTS
  Groups = {o, a}
  Origin = o
  None = None
  Handlers = {h1}
  Rows = {0, 1, 2, 3}
  EarlyRequests = TRUE
  Operations = {"patch", "acquire", "release"}
  Targets = {"confirm", "cancelled"}
  MaxTs = 1
  LocksExpire = TRUE
  AuctionOutlivesLock = TRUE
  Faults = {"lost", "dup", "error", "crash"}
  MaxFaults = 1
  MaxQueue = 0
INVARIANTS
  TypeOK
  AssignedToWinner
  IndInv
PROPERTIES
  SettledOnce
  CausalOrder
  ExcludedOnlyGrows
  ImplementsPromise
\* The ride may end, and then nothing is left to do.
CHECK_DEADLOCK FALSE
