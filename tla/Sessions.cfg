SPECIFICATION Spec
CONSTANTS
  l1 = l1
  l2 = l2
  p1 = p1
  s1 = s1
  r1 = r1
  r2 = r2
  t1 = t1
  t2 = t2
  Idle = Idle
  NoLogin = NoLogin
  StaticToken = StaticToken
  Logins <- TwoLogins
  Processes <- OneProcess
  SignIns <- OneSignIn
  Requests <- TwoRequests
  Tokens <- TwoTokens
  HasUserStore = TRUE
  SessionTTL = 2
  ReauthWindow = 1
  SweepEvery = 1
SYMMETRY Symmetry
INVARIANT SignedOutRefused
PROPERTY StepUp
PROPERTY ListSwept
