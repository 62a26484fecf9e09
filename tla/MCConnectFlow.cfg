SPECIFICATION FairPageSpec
CONSTANTS
  w1 = w1
  w2 = w2
  s1 = s1
  s2 = s2
  k1 = k1
  k2 = k2
  here = here
  Elsewhere = {}
  Handles = {w1, w2}
  Facts = {v1}
  NoFacts = NoFacts
  NoRow = NoRow
  None = None
  Loading = Loading
  Tokens = {k1, k2}
  AccountSubjects = {s1, s2}
  SubjectOf <- MCSubjectOf
  OwnerOf <- MCOwnerOf
  MaxRevision = 100
  ProofsChange = {}
  ProofsChangeElsewhere = FALSE
  MaxMoves = 2
VIEW PageView
INVARIANTS
  AccessMatchesUnlessReopened
  FailureRestoresWallet
  WalletUseAwaitsVerdict
  ControlKeepsItsWord
PROPERTIES
  OperationsEnd
CHECK_DEADLOCK FALSE
