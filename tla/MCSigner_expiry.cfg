SPECIFICATION Spec
CONSTANTS
  g1 = g1
  h1 = h1
  h2 = h2
  n1 = n1
  n2 = n2
  None = None
  Holders = {h1, h2}
  Nonces = {n1, n2}
  Serials = {s1, s2}
  SkewRedemption = 0
  NonceRetention = 1
  MaxStall = 1
  PurgeRetention = 1
  GrantIds = {g1}
  Users = {u1}
  Envelopes <- HonestEnvelopes
  Requests = {r1}
  Creates = {c1}
  TTLs = {1, 2}
  MaxActiveGrants = 1
  MaxTime = 4
PROPERTY RecheckedAtSigning
CHECK_DEADLOCK FALSE
