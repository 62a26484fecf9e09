SPECIFICATION SignInSpec
CONSTANTS
  Pages = {p1}
  Passkeys = {k1, k2}
  Allowances = {}
  NoVault = NoVault
  None = None
  WritesMayFail = FALSE
  Synced = {k1}
INVARIANTS
  PasskeysAreKept
  ActiveWalletsHaveVaults
PROPERTIES
  InterruptionEnds
CHECK_DEADLOCK FALSE
