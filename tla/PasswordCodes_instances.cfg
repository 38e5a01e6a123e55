\* One user, two handlers in two instances.
CONSTANTS
  h1 = h1
  h2 = h2
  w1 = w1
  east = east
  west = west
  Users = {u1}
  Phones = {p1}
  Handlers = {h1, h2}
  Workers = {w1}
  Instance <- TwoInstances
  NoPhone = NoPhone
  QueueSize = 1
  MaxAttempts = 1
  CodeTTL = 2
  Cooldown = 1
  Hour = 2
  MaxPerHour = 1
  Retention = 3
  Asks = {"change", "email_reset"}
  PhonesMove = FALSE
  Errors = FALSE
  MaxCodes = 3
  MaxTime = 1
SPECIFICATION Spec
CHECK_DEADLOCK FALSE
INVARIANTS
  OneLive
  CodeSpentOnce
  NewestCodeOnly
  EmailResetSweeps
