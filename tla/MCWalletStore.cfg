SPECIFICATION Spec
CONSTANTS
  Tabs = {t1, t2}
  Handles = {w1, w2}
  Facts = {v1}
  NoFacts = NoFacts
  NoRow = NoRow
  None = None
  WritesMayFail = TRUE
  RollbackMayFail = FALSE
INVARIANTS
  ObservedIsStored
  NoticedUnlessRaced
PROPERTIES
  FailureWritesNothing
CHECK_DEADLOCK FALSE
