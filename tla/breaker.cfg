SPECIFICATION FairSpec
CONSTANTS
  FailureThreshold = 2
  RecoveryTimeout = 3
  MaxFailures = 4
  Calls = {c1, c2, c3}
INVARIANTS
  TypeOK
  ClosedWithinThreshold
PROPERTIES
  ServedAgain
