SPECIFICATION Spec
CONSTANTS
  Groups = {o, a, b}
  Origin = o
  None = None
  Handlers = {h1}
  Rows = {0, 1, 2, 3}
  EarlyRequests = FALSE
  Operations = {"patch"}
  Targets = {"cancelled"}
  MaxTs = 1
  LocksExpire = FALSE
  AuctionOutlivesLock = FALSE
  Faults = {}
  MaxFaults = 0
  MaxQueue = 1
PROPERTIES
  TerminalIsFinal
\* The ride may end, and then nothing is left to do.
CHECK_DEADLOCK FALSE
