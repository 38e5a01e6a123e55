\* A visitor may have done everything the bounds allow.
CHECK_DEADLOCK FALSE
CONSTANTS
  None = None
  MaxCalls = 2
SPECIFICATION Spec
INVARIANTS
  TypeOK
  SessionAgrees
  ClaimSuccessStands
  AdminDoorForAdmins
  FiledOnce
  ThreadKept
  ClicksAnswered
  AnswerMatchesQuestion
  SavesReachScreen
  OrderIsTheCart
  EstimateIsExact
  ReplacedIfConfirmed
  BadgeSettles
  EditorKeepsTheRest
  CardsAsAsked
