SPECIFICATION HookSpec
CONSTANTS
  Vaults = {v1, v2}
  WithAccount = {v1}
  None = None
  Calls = {c1}
  Reads = {r1, r2}
INVARIANTS
  BalanceIsOfVault
CHECK_DEADLOCK FALSE
