SPECIFICATION Spec
CONSTANTS
  Plain = {p}
  Sign = {s}
  Recover = {r}
  None = None
  MaxReloads = 1
VIEW PopupView
INVARIANTS
  AnswerIsOwn
  SensitiveRequestLeavesOnce
  NoPageOutlivesItsCeremony
PROPERTIES
  CeremoniesSettle
CHECK_DEADLOCK FALSE
