SPECIFICATION Spec
CONSTANTS
  Attempts = {a1, a2}
  Vaults = {v1, v2}
  MaxIntents = 2
  None = None
INVARIANTS
  FlipsAsNamed
  SubmitsOwnConsent
  OneFlipPerConsent
CHECK_DEADLOCK FALSE
