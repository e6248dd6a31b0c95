SPECIFICATION FairSpec
CONSTANTS
  Rides = {r1, r2}
  Groups = {a, b}
  None = None
  MaxErrors = 2
  MaxDue = 1
INVARIANTS
  TypeOK
  PunishedForLapse
PROPERTIES
  ExpiredIsReaped
