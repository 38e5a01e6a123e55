\* An instance dies, or a statement fails, between the code and its delivery.
CONSTANTS
  h1 = h1
  h2 = h2
  w1 = w1
  east = east
  west = west
  Users = {u1}
  Phones = {p1}
  Handlers = {h1}
  Workers = {w1}
  Instance <- OneInstance
  NoPhone = NoPhone
  QueueSize = 1
  MaxAttempts = 2
  CodeTTL = 2
  Cooldown = 1
  Hour = 2
  MaxPerHour = 2
  Retention = 3
  Asks = {"change"}
  PhonesMove = FALSE
  Errors = TRUE
  MaxCodes = 1
  MaxTime = 1
SPECIFICATION Spec
CHECK_DEADLOCK FALSE
INVARIANTS
  UndeliveredDies
