\* Two calls at a time, of every kind that writes the users row or a request.
CONSTANTS
  Procs = {p1, p2}
  Ops <- AllButSignedIn
  TempCodeTTL = 1
  PendingTTL = 1
  Errors = TRUE
  MaxRequests = 2
  MaxSecrets = 5
  MaxTime = 1
SPECIFICATION Spec
SYMMETRY Interchangeable
CHECK_DEADLOCK FALSE
INVARIANTS
  TypeOK
  CodeSpentOnce
  NewestTempOnly
  ResetClosesRequests
PROPERTIES
  ClosedStaysClosed
