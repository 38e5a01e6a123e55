\* A handler and a worker issue to one user, who moves between two numbers, while
\* nothing fails.
CONSTANTS
  h1 = h1
  h2 = h2
  w1 = w1
  east = east
  west = west
  Users = {u1}
  Phones = {p1, p2}
  Handlers = {h1}
  Workers = {w1}
  Instance <- OneInstance
  NoPhone = NoPhone
  QueueSize = 1
  MaxAttempts = 1
  CodeTTL = 2
  Cooldown = 1
  Hour = 3
  MaxPerHour = 2
  Retention = 4
  Asks = {"change"}
  PhonesMove = TRUE
  Errors = FALSE
  MaxCodes = 3
  MaxTime = 2
SPECIFICATION FairSpec
CHECK_DEADLOCK FALSE

  
PROPERTIES
  DeliveryResolved
