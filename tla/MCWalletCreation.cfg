SPECIFICATION Spec
CONSTANTS
  Pages = {p1, p2}
  Passkeys = {k1, k2}
  Allowances = {a1}
  NoVault = NoVault
  None = None
  WritesMayFail = TRUE
INVARIANTS
  PasskeysAreKept
  AbsentStaysAbsent
  TermsAreKept
  DeferredMeansOwnerOnly
SYMMETRY PagesAndPasskeys
CHECK_DEADLOCK FALSE
