SPECIFICATION FairSpec
CONSTANTS
  Groups = {o, a, b, c, d}
  Origin = o
  None = None
  Handlers = {h1}
  Rows = {0, 1, 2, 3}
  EarlyRequests = FALSE
  Operations = {}
  Targets = {}
  MaxTs = 1
  LocksExpire = TRUE
  AuctionOutlivesLock = FALSE
  Faults = {"lost", "dup", "error", "crash"}
  MaxFaults = 3
  MaxQueue = 1
PROPERTIES
  SilentRideEnds
  NoRepeatWinner
  ResidualLockReaped
  TerminalIsFinal
\* The ride may end, and then nothing is left to do.
CHECK_DEADLOCK FALSE
