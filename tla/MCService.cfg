SPECIFICATION ServiceSpec
CONSTANTS
  g1 = g1
  a1 = a1
  a2 = a2
  n1 = n1
  n2 = n2
  q1 = q1
  q2 = q2
  c1 = c1
  r1 = r1
  r2 = r2
  w1 = w1
  w2 = w2
  None = None
  GrantIds = {g1}
  Agents = {a1, a2}
  Nonces = {n1, n2}
  CreatedAt <- FromTheStart
  ExpiresAt <- UntilTwo
  Wires = {w1, w2}
  Messages <- TwoMessages
  Calls = {q1, q2}
  EnvelopeOf <- OneAgent
  Verdicts = {"ok", "bad"}
  Challenges = {c1}
  Registrations = {r1, r2}
  RequestOf <- SharedChallenge
  SkewRegistration = 1
  SkewRedemption = 2
  NonceRetention = 3
  GrantRetention = 0
  RedemptionRetention = 1
  RedeemTimeout = 1
  MaxPublished = 1
  MaxAttempts = 1
  Window = 1
  MaxStall = 1
  MaxFrames = 1
  MaxTime = 4
  ChallengeTTL = 3
  AlarmSlack = 0
SYMMETRY ServiceSymmetry
INVARIANTS
  ServiceTypeOK
  NoCallReplayed
  AttemptsCapped
  AuditMatchesAnswer
  ProofOfWorkPerAgent
CHECK_DEADLOCK FALSE
