SPECIFICATION RelaySpec
CONSTANTS
  g1 = g1
  a1 = a1
  q1 = q1
  q2 = q2
  w1 = w1
  w2 = w2
  None = None
  GrantIds = {g1}
  Agents = {a1}
  Nonces = {1, 2, 3, 4, 5, 6}
  CreatedAt <- FromTheStart
  ExpiresAt <- PastTheEnd
  Wires = {w1, w2}
  Messages <- SignedMessages
  Calls = {q1, q2}
  EnvelopeOf <- Rivals
  Verdicts = {"ok", "error"}
  SkewRegistration = 1
  SkewRedemption = 1
  NonceRetention = 3
  GrantRetention = 1
  RedemptionRetention = 1
  RedeemTimeout = 0
  MaxPublished = 1
  MaxAttempts = 2
  Window = 1
  MaxStall = 1
  MaxFrames = 2
  MaxTime = 0
  MaxInflight = 1
  MaxFaults = 1
INVARIANTS
  RelayTypeOK
  AnswersMatchLedger
  MarkedIsServed
PROPERTIES
  OnlyNewestCarries
  EveryCallAnswered
  GrantsGetPublished
  HostComesBack
  SlotsComeBack
CHECK_DEADLOCK FALSE
