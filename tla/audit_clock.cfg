SPECIFICATION FairSpec
CONSTANTS
  Handlers = {h1}
  Worker = w
  Monitor = m
  ClientTs = {0, 4}
  OtherTs = {4}
  MaxInt = 6
  MaxClock = 6
  MaxRows = 2
  MaxBoots = 1
INVARIANTS
  TypeOK
  HappenedBefore
  CauseFirst
PROPERTIES
  QueueServed
\* The bounds on the clock and the log end it.
CHECK_DEADLOCK FALSE
