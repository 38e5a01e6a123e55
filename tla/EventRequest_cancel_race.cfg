\* The owner cancels while a manager decides.
CONSTANTS
  Procs = {p1, p2}
  Listings = {l1}
  Comments = {blank}
  Blank = blank
  Ops = {"submit", "review", "cancel"}
  Faults = FALSE
  MaxRevisions = 2
  MaxMail = 3
SPECIFICATION FairSpec
CHECK_DEADLOCK FALSE
PROPERTIES
  DecisionsAreFinal
