SPECIFICATION Spec
CONSTANTS
  Attempts = {a1, a2, a3}
  OperationIds = {o1, o2}
  Targets = {t1}
  MaxAmount = 2
  None = None
INVARIANTS
  ReceiptIsWhatOwnerApproved
PROPERTIES
  AuthorizesWhatOwnerApproved
  RedirectGrantsWhatOwnerApproved
CHECK_DEADLOCK FALSE
