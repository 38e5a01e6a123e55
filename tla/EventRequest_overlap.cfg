\* Two API calls on the request at a time, bookings removed beside them.
CONSTANTS
  Procs = {p1, p2}
  Listings = {l1}
  Comments = {blank, c1}
  Blank = blank
  Ops = {"update", "submit", "cancel", "review", "remove"}
  Faults = FALSE
  MaxRevisions = 2
  MaxMail = 3
SPECIFICATION Spec
SYMMETRY Interchangeable
CHECK_DEADLOCK FALSE
INVARIANTS
  TypeOK
  FrozenComment
  BookingIsFirstRevision
  RevisionsGapless
  MailNamesRevision
