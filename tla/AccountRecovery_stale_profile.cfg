\* A profile is saved over a password change.
CONSTANTS
  Procs = {p1, p2}
  Ops = {"login", "recover", "profile"}
  TempCodeTTL = 1
  PendingTTL = 2
  Errors = FALSE
  MaxRequests = 0
  MaxSecrets = 4
  MaxTime = 1
SPECIFICATION Spec
CHECK_DEADLOCK FALSE
PROPERTIES
  RevokedStaysRevoked
