SPECIFICATION FairSpec
CONSTANTS
  Publishers = {p1, p2}
  Worker = w
  MaxRetries = 2
  FloatLimit = 1
  MaxQueue = 0
INVARIANTS
  TypeOK
  ReportedIsQueued
PROPERTIES
  PublishReturns
  QueueServed
