SPECIFICATION FairSpec
CONSTANTS
  Groups = {o, a, b}
  Origin = o
  None = None
  Handlers = {h1}
  Rows = {0, 1, 2, 3}
  EarlyRequests = FALSE
  Operations = {"patch", "acquire"}
  Targets = {"confirm", "in_transit", "complete", "compensating"}
  MaxTs = 3
  LocksExpire = FALSE
  AuctionOutlivesLock = FALSE
  Faults = {"dup"}
  MaxFaults = 1
  MaxQueue = 1
INVARIANTS
  WinnerHoldsLock
PROPERTIES
  StepsFollowSaga
  CompensatingResolves
  ImplementsFairPromise
\* The ride may end, and then nothing is left to do.
CHECK_DEADLOCK FALSE
