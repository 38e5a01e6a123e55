\* One API call at a time, no failure: decisions reach the booking and the members.
CONSTANTS
  Procs = {p1}
  Listings = {l1}
  Comments = {blank, c1}
  Blank = blank
  Ops <- ReviewOps
  Faults = FALSE
  MaxRevisions = 2
  MaxMail = 4
SPECIFICATION FairSpec
CHECK_DEADLOCK FALSE
PROPERTIES
  DecisionReachesBooking
  DecisionAnnounced
