SPECIFICATION MCSpec
CONSTANTS
  w1 = w1
  w2 = w2
  s1 = s1
  s2 = s2
  k1 = k1
  k2 = k2
  here = here
  Elsewhere = {t2}
  Handles = {w1, w2}
  Facts = {v1}
  NoFacts = NoFacts
  NoRow = NoRow
  None = None
  Tokens = {k1}
  AccountSubjects = {s1, s2}
  SubjectOf <- MCSubjectOf
  OwnerOf <- MCOwnerOf
  MaxRevision = 100
  ProofsChange = {w1}
  ProofsChangeElsewhere = TRUE
VIEW StateView
INVARIANTS
  AccessIsForActiveWallet
  CandidateIsCurrent
  ExpiredProofIsWatched
  LoadingKeepsLocked
  HydratingOnlyWhileLoading
  InvalidatedAccountStaysOut
CHECK_DEADLOCK FALSE
