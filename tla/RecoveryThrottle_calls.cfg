\* Three calls on one address and two counters of one account.
CONSTANTS
  ip = ip
  acct = acct
  support = support
  Calls = {c1, c2, c3}
  Keys = {ip, acct, support}
  Wants <- RecoveryWants
  Limit <- RecoveryLimit
  Clearable = {support}
  Window = 2
  Retention = 3
  Patience = 1
  Errors = TRUE
  MaxTime = 4
SPECIFICATION Spec
SYMMETRY Interchangeable
CHECK_DEADLOCK FALSE
INVARIANTS
  TypeOK
  AtMostLimit
PROPERTIES
  RowsLeaveForCause
