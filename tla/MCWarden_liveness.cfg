SPECIFICATION MachineSpec
CONSTANTS
  g1 = g1
  c1 = c1
  c2 = c2
  p1 = p1
  None = None
  Grants = {g1}
  Conns = {c1, c2}
  Pids = {p1}
  PidOf <- SamePid
  CertOf <- OneCertified
  Expiry <- LongGrant
  PendingTTL = 1
  TermGrace = 1
  ClosedRetention = 0
  BackstopSlack = 1
  Jumps <- SetBack
  Horizon = 1
  MaxTime = 2
INVARIANTS OwnGrantOnly
PROPERTIES
  RevocationTerminates
  BackstopTerminates
CHECK_DEADLOCK FALSE
