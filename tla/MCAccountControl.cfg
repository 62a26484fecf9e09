SPECIFICATION ControlSpec
CONSTANTS
  a1 = a1
  a2 = a2
  b1 = b1
  wa = wa
  wb = wb
  Passkeys = {p1, p2}
  None = None
  NoView = NoView
  Views = {a1, a2, b1}
  WalletOf <- MCWalletOf
  Portfolios = {a1, a2, b1}
  Fits <- MCFits
  MaxRequests = 2
  MaxMoves = 3
SYMMETRY PasskeySymmetry
VIEW StateView
INVARIANTS
  DefiniteFailureEnrolledNothing
  OneUnfinishedEnrollment
  ShownPortfolioIsCurrent
  LoadingIsUnderWay
PROPERTY DismissedSignInStaysOut
CHECK_DEADLOCK FALSE
