\* Two handlers and a worker of one instance, codes of one user and one number.
CONSTANTS
  h1 = h1
  h2 = h2
  w1 = w1
  east = east
  west = west
  Users = {u1}
  Phones = {p1}
  Handlers = {h1, h2}
  Workers = {w1}
  Instance <- OneInstance
  NoPhone = NoPhone
  QueueSize = 1
  MaxAttempts = 2
  CodeTTL = 2
  Cooldown = 1
  Hour = 2
  MaxPerHour = 1
  Retention = 3
  Asks = {"reset", "change", "email_reset"}
  PhonesMove = FALSE
  Errors = TRUE
  MaxCodes = 2
  MaxTime = 4
SPECIFICATION Spec
SYMMETRY Interchangeable
CHECK_DEADLOCK FALSE
INVARIANTS
  TypeOK
  GuessLimit
