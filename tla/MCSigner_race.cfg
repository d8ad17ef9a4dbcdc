SPECIFICATION Spec
CONSTANTS
  g1 = g1
  h1 = h1
  h2 = h2
  n1 = n1
  n2 = n2
  None = None
  Holders = {h1, h2}
  Nonces = {n1, n2}
  Serials = {s1, s2}
  SkewRedemption = 1
  NonceRetention = 3
  MaxStall = 1
  PurgeRetention = 3
  GrantIds = {g1}
  Users = {u1, u2}
  Envelopes <- RaceEnvelopes
  Requests = {r1, r2}
  Creates = {c1}
  TTLs = {2}
  MaxActiveGrants = 1
  MaxTime = 5
SYMMETRY RequestSymmetry
INVARIANTS TypeOK SingleUse NoReplayAccepted AuditTrail OnlyProofSpends
PROPERTIES SettledRowsStaySettled IssuedNearLifetime ImplementsLedger
CHECK_DEADLOCK FALSE
