SPECIFICATION FairSpec
CONSTANTS
  Groups = {0, 1, 2, 3}
  Origin = 0
  None = None
  Etas <- MCEtas
  Prices <- MCPrices
INVARIANTS
  TypeOK
  WinnerIsBest
PROPERTIES
  RoundEnds
\* The round ends.
CHECK_DEADLOCK FALSE
