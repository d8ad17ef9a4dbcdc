SPECIFICATION Spec
CONSTANTS
  g1 = g1
  c1 = c1
  c2 = c2
  p1 = p1
  None = None
  Grants = {g1}
  Conns = {c1, c2}
  Pids = {c1, c2}
  PidOf <- TwoPids
  CertOf <- BothCertified
  Expiry <- ShortGrant
  PendingTTL = 1
  TermGrace = 1
  ClosedRetention = 0
  BackstopSlack = 1
  Jumps = {}
  Horizon = 1
  MaxTime = 3
PROPERTIES AccountsForEverySlice
SYMMETRY ConnSymmetry
CHECK_DEADLOCK FALSE
