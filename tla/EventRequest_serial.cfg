\* One API call at a time, all calls, failures and crashes.
CONSTANTS
  Procs = {p1}
  Listings = {l1}
  Comments = {blank, c1}
  Blank = blank
  Ops <- AllOps
  Faults = TRUE
  MaxRevisions = 2
  MaxMail = 2
SPECIFICATION Spec
CHECK_DEADLOCK FALSE
INVARIANTS
  DecisionIsLastWord
PROPERTIES
  ImplementsLifecycle
