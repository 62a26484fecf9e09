SPECIFICATION FairSpec
CONSTANTS
  w1 = w1
  w2 = w2
  a1 = a1
  a2 = a2
  None = None
  Wallets = {w1, w2}
  Accounts = {a1, a2}
  Bound <- MCBound
  VerifierObeysAbort = FALSE
  MaxRevision = 4
INVARIANTS
  AccessOnlyForBoundPair
PROPERTIES
  AccessNeedsFreshCheck
  KeepsPromise
  CheckingEnds
CHECK_DEADLOCK FALSE
