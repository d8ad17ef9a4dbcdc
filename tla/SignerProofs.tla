----------------------------- MODULE SignerProofs -----------------------------
(* TLAPS proofs about Signer.                                              *)
EXTENDS Signer, TLAPS

--------------------------------------------------------------------------------
(* Type correctness.                                                       *)

\* The row of an id that was never used, or that PurgeExpired has deleted, is
\* a row.
LEMMA NoRowType == NoRow \in Row /\ [NoRow EXCEPT !.state = "deleted"] \in Row
  BY DEF Row, NoRow

\* ClaimGrant's UPDATE of redeemed_by yields a row again.
LEMMA RedeemedRowType ==
  ASSUME NEW row \in Row, NEW h \in Holders
  PROVE  [row EXCEPT !.redeemedBy = h] \in Row
BY DEF Row

\* A fresh database with no request running is well typed.
LEMMA InitTypeOK == Init => TypeOK
<1> SUFFICES ASSUME Init PROVE TypeOK
  OBVIOUS
<1>1. grants \in [GrantIds -> Row]
  BY NoRowType DEF Init
<1>2. nonces \in [Nonces -> Nat \cup {Unseen}]
  BY DEF Init
<1>3. draft \in [Creates -> [user : Users \cup {None}, at : Nat, ttl : Nat]]
  BY DEF Init
<1>4. out \in [Requests -> Codes]
  BY DEF Init, Codes
<1> QED
  BY <1>1, <1>2, <1>3, <1>4 DEF Init, TypeOK

\* TypeOK is inductive only with the fact that a principal, once read, is never
\* NULL: a row copies it from the draft, the draft from the enrollment row.
PrincipalInv ==
  /\ \A g \in GrantIds : grants[g].state = "stored" => grants[g].user \in Users
  /\ \A c \in Creates : cpc[c] \in {"count", "insert"} => draft[c].user \in Users
  /\ \A r \in Requests : pc[r] = "issue" => claim[r] # None

\* Every action keeps every table and every request record well typed.
LEMMA StepTypeOK == TypeOK /\ PrincipalInv /\ [Next]_vars => TypeOK'
<1> SUFFICES ASSUME TypeOK, PrincipalInv, [Next]_vars PROVE TypeOK'
  OBVIOUS
<1> USE DEF TypeOK
<1>1. CASE Tick
  BY <1>1 DEF Tick, db, creation, redemption
<1>2. CASE Crash
  BY <1>2 DEF Crash, db, InFlight, Codes
<1>3. CASE PurgeExpired
  <2>1. grants' \in [GrantIds -> Row]
    BY <1>3, NoRowType DEF PurgeExpired
  <2>2. nonces' \in [Nonces -> Nat \cup {Unseen}]
    BY <1>3, TimesAssumption DEF PurgeExpired, Forget, Unseen
  <2> QED
    BY <1>3, <2>1, <2>2 DEF PurgeExpired, creation, redemption
<1>4. ASSUME NEW u \in Users, Enroll(u) PROVE TypeOK'
  BY <1>4 DEF Enroll, creation, redemption
<1>5. ASSUME NEW g \in GrantIds, RevokeGrant(g) PROVE TypeOK'
  BY <1>5 DEF RevokeGrant, Row, creation, redemption
<1>6. ASSUME NEW g \in GrantIds, MarkPublished(g) PROVE TypeOK'
  BY <1>6 DEF MarkPublished, Row, creation, redemption
<1>7. ASSUME NEW c \in Creates, NEW ttl \in TTLs, CreateBegin(c, ttl)
      PROVE TypeOK'
  <2>1. cpc' \in [Creates -> {"idle", "count", "insert", "done"}]
    BY <1>7 DEF CreateBegin
  <2>2. draft' \in [Creates -> [user : Users \cup {None}, at : Nat, ttl : Nat]]
    <3>1. CASE host = None
      BY <1>7, <3>1 DEF CreateBegin
    <3>2. CASE host # None
      <4>1. [user |-> host, at |-> now, ttl |-> ttl]
              \in [user : Users \cup {None}, at : Nat, ttl : Nat]
        BY TimesAssumption
      <4> QED
        BY <1>7, <3>2, <4>1 DEF CreateBegin
    <3> QED
      BY <3>1, <3>2
  <2> QED
    BY <1>7, <2>1, <2>2 DEF CreateBegin, db, redemption
<1>8. ASSUME NEW c \in Creates, CreateCount(c) PROVE TypeOK'
  BY <1>8 DEF CreateCount, db, redemption
<1>9. ASSUME NEW c \in Creates, CreateInsert(c) PROVE TypeOK'
  <2>1. PICK g \in GrantIds :
          grants' = [grants EXCEPT ![g] =
                       [NoRow EXCEPT
                          !.state = "stored",
                          !.user = draft[c].user,
                          !.expiresAt = draft[c].at + draft[c].ttl]]
    BY <1>9 DEF CreateInsert
  <2>2. draft[c].user \in Users \cup {None} /\ draft[c].at + draft[c].ttl \in Nat
    BY DEF TypeOK
  <2>3. [NoRow EXCEPT !.state = "stored", !.user = draft[c].user,
                      !.expiresAt = draft[c].at + draft[c].ttl] \in Row
    BY <2>2 DEF NoRow, Row
  <2>4. grants' \in [GrantIds -> Row]
    BY <2>1, <2>3
  <2> QED
    BY <1>9, <2>4 DEF CreateInsert, redemption
<1>10. ASSUME NEW r \in Requests, Receive(r) PROVE TypeOK'
  BY <1>10 DEF Receive, RequestError, Finish, Codes, db, creation
<1>11. ASSUME NEW r \in Requests, PruneNonces(r) PROVE TypeOK'
  <2>1. nonces' \in [Nonces -> Nat \cup {Unseen}]
    BY <1>11, TimesAssumption DEF PruneNonces, Forget, Unseen
  <2> QED
    BY <1>11, <2>1 DEF PruneNonces, creation
<1>12. ASSUME NEW r \in Requests, InsertNonce(r) PROVE TypeOK'
  <2>1. CASE nonces[env[r].nonce] = Unseen
    BY <1>12, <2>1 DEF InsertNonce, creation
  <2>2. CASE nonces[env[r].nonce] # Unseen
    BY <1>12, <2>2 DEF InsertNonce, Finish, Codes, creation
  <2> QED
    BY <2>1, <2>2
<1>13. ASSUME NEW r \in Requests, ClaimGrant(r) PROVE TypeOK'
  <2> DEFINE g == env[r].grant
             status == ClaimStatus(grants[g], env[r], at[r])
  <2>1. g \in GrantIds /\ env[r].holder \in Holders
    BY EnvelopesAssumption DEF Envelope
  <2>2. CASE status = "OK"
    <3>1. grants[g].user \in Users /\ grants[g].expiresAt \in Nat
      BY <2>1, <2>2 DEF Row, ClaimStatus, PrincipalInv
    <3>2. grants' \in [GrantIds -> Row]
      <4>1. grants' = [grants EXCEPT ![g].redeemedBy = env[r].holder]
        BY <1>13, <2>2 DEF ClaimGrant
      <4>2. [grants[g] EXCEPT !.redeemedBy = env[r].holder] \in Row
        BY <2>1, RedeemedRowType
      <4> QED
        BY <2>1, <4>1, <4>2
    <3>3. claim' \in [Requests -> ClaimResult \cup {None}]
      BY <1>13, <2>2, <3>1 DEF ClaimGrant, ClaimResult
    <3> QED
      BY <1>13, <2>2, <3>2, <3>3 DEF ClaimGrant, creation
  <2>3. CASE status # "OK"
    <3>1. status \in Codes
      BY DEF ClaimStatus, Codes
    <3> QED
      BY <1>13, <2>3, <3>1 DEF ClaimGrant, Finish, creation
  <2> QED
    BY <2>2, <2>3
<1>14. ASSUME NEW r \in Requests, IssueCertificate(r) PROVE TypeOK'
  <2>1. claim[r] \in ClaimResult
    BY <1>14 DEF IssueCertificate, PrincipalInv
  <2>2. \A serial \in Serials : IssuedCertificate(r, serial) \in Certificate
    BY <2>1, EnvelopesAssumption
    DEF IssuedCertificate, Certificate, ClaimResult, Envelope
  <2>3. PICK serial \in Serials :
          \/ Finish(r, "INTERNAL") /\ UNCHANGED <<certificates, answer>>
          \/ /\ certificates' = Recorded(IssuedCertificate(r, serial))
             /\ \/ /\ answer' = [answer EXCEPT ![r] = IssuedCertificate(r, serial)]
                   /\ Finish(r, "OK")
                \/ Finish(r, "LOST") /\ UNCHANGED answer
    BY <1>14 DEF IssueCertificate
  <2>4. certificates' \subseteq Certificate
    BY <2>2, <2>3 DEF Recorded
  <2>5. answer' \in [Requests -> Certificate \cup {None}]
    BY <2>2, <2>3
  <2>6. pc' \in [Requests -> {"idle", "prune", "nonce", "claim", "issue", "done"}]
        /\ out' \in [Requests -> Codes]
    BY <2>3 DEF Finish, Codes
  <2> QED
    BY <1>14, <2>4, <2>5, <2>6 DEF IssueCertificate, creation
<1>15. ASSUME NEW r \in Requests, Fail(r) PROVE TypeOK'
  BY <1>15 DEF Fail, Finish, Codes, db, creation
<1>16. CASE UNCHANGED vars
  BY <1>16 DEF vars
<1> QED
  BY <1>1, <1>2, <1>3, <1>4, <1>5, <1>6, <1>7, <1>8, <1>9, <1>10, <1>11,
     <1>12, <1>13, <1>14, <1>15, <1>16 DEF Next, Create, Redeem

\* A principal once read is never lost: rows keep theirs until deleted.
LEMMA StepPrincipalInv == TypeOK /\ PrincipalInv /\ [Next]_vars => PrincipalInv'
<1> SUFFICES ASSUME TypeOK, PrincipalInv, [Next]_vars PROVE PrincipalInv'
  OBVIOUS
<1> USE DEF TypeOK, PrincipalInv
<1>1. CASE Tick
  BY <1>1 DEF Tick, db, creation, redemption
<1>2. CASE Crash
  BY <1>2 DEF Crash, db, InFlight
<1>3. CASE PurgeExpired
  BY <1>3 DEF PurgeExpired, NoRow, Row, creation, redemption
<1>4. ASSUME NEW u \in Users, Enroll(u) PROVE PrincipalInv'
  BY <1>4 DEF Enroll, creation, redemption
<1>5. ASSUME NEW g \in GrantIds, RevokeGrant(g) \/ MarkPublished(g)
      PROVE PrincipalInv'
  <2>1. \A k \in GrantIds : /\ grants'[k].state = grants[k].state
                            /\ grants'[k].user = grants[k].user
    <3>1. CASE RevokeGrant(g)
      BY <3>1 DEF RevokeGrant, Row
    <3>2. CASE MarkPublished(g)
      BY <3>2 DEF MarkPublished, Row
    <3> QED
      BY <1>5, <3>1, <3>2
  <2> QED
    BY <1>5, <2>1 DEF RevokeGrant, MarkPublished, creation, redemption
<1>6. ASSUME NEW c \in Creates, NEW ttl \in TTLs, CreateBegin(c, ttl)
      PROVE PrincipalInv'
  BY <1>6 DEF CreateBegin, db, redemption
<1>7. ASSUME NEW c \in Creates, CreateCount(c) PROVE PrincipalInv'
  BY <1>7 DEF CreateCount, db, redemption
<1>8. ASSUME NEW c \in Creates, CreateInsert(c) PROVE PrincipalInv'
  <2>1. PICK g \in GrantIds :
          grants' = [grants EXCEPT ![g] =
                       [NoRow EXCEPT
                          !.state = "stored",
                          !.user = draft[c].user,
                          !.expiresAt = draft[c].at + draft[c].ttl]]
    BY <1>8 DEF CreateInsert
  <2>2. draft[c].user \in Users
    BY <1>8 DEF CreateInsert
  <2>3. \A k \in GrantIds :
          grants'[k].state = "stored" => grants'[k].user \in Users
    BY <2>1, <2>2 DEF NoRow
  <2> QED
    BY <1>8, <2>3 DEF CreateInsert, redemption
<1>9. ASSUME NEW r \in Requests, Receive(r) \/ PruneNonces(r) \/ InsertNonce(r)
      PROVE PrincipalInv'
  BY <1>9 DEF Receive, PruneNonces, InsertNonce, Finish, db, creation
<1>10. ASSUME NEW r \in Requests, ClaimGrant(r) PROVE PrincipalInv'
  <2> DEFINE g == env[r].grant
             status == ClaimStatus(grants[g], env[r], at[r])
  <2>1. g \in GrantIds
    BY EnvelopesAssumption DEF Envelope
  <2>2. CASE status = "OK"
    <3>1. grants[g].user \in Users /\ grants[g].expiresAt \in Nat
      BY <2>1, <2>2 DEF Row, ClaimStatus
    <3>2. claim' = [claim EXCEPT ![r] = [user |-> grants[g].user,
                                          expiresAt |-> grants[g].expiresAt]]
      BY <1>10, <2>2 DEF ClaimGrant
    <3>3. claim'[r] # None
      BY <3>1, <3>2, NoneAssumption
    <3>4. \A k \in GrantIds : /\ grants'[k].state = grants[k].state
                              /\ grants'[k].user = grants[k].user
      BY <1>10, <2>1, <2>2 DEF ClaimGrant, Row
    <3>5. \A q \in Requests : q # r => claim'[q] = claim[q] /\ pc'[q] = pc[q]
      BY <1>10, <2>2 DEF ClaimGrant
    <3> QED
      BY <1>10, <3>3, <3>4, <3>5 DEF ClaimGrant, creation
  <2>3. CASE status # "OK"
    BY <1>10, <2>3 DEF ClaimGrant, Finish, creation
  <2> QED
    BY <2>2, <2>3
<1>11. ASSUME NEW r \in Requests, IssueCertificate(r) \/ Fail(r)
       PROVE PrincipalInv'
  BY <1>11 DEF IssueCertificate, Fail, Finish, db, creation
<1>12. CASE UNCHANGED vars
  BY <1>12 DEF vars
<1> QED
  BY <1>1, <1>2, <1>3, <1>4, <1>5, <1>6, <1>7, <1>8, <1>9, <1>10, <1>11,
     <1>12 DEF Next, Create, Redeem

\* TypeOK holds in every reachable state, for any number of requests, grants
\* and envelopes.
THEOREM TypeCorrect == Spec => [](TypeOK /\ PrincipalInv)
<1>1. Init => TypeOK /\ PrincipalInv
  <2>1. Init => PrincipalInv
    <3> SUFFICES ASSUME Init PROVE PrincipalInv
      OBVIOUS
    <3>1. \A g \in GrantIds : grants[g].state # "stored"
      BY DEF Init, NoRow
    <3>2. \A c \in Creates : cpc[c] = "idle"
      BY DEF Init
    <3>3. \A r \in Requests : pc[r] = "idle"
      BY DEF Init
    <3> QED
      BY <3>1, <3>2, <3>3 DEF PrincipalInv
  <2> QED
    BY <2>1, InitTypeOK
<1>2. TypeOK /\ PrincipalInv /\ [Next]_vars => (TypeOK /\ PrincipalInv)'
  BY StepTypeOK, StepPrincipalInv
<1> QED
  BY <1>1, <1>2, PTL DEF Spec

--------------------------------------------------------------------------------
(* Replay protection.  A nonce row can be missing only when so much time   *)
(* has passed that no request still running could have found the envelope  *)
(* fresh.                                                                  *)

\* Requests carry a clock reading that is not in the future.
ClockInv == \A r \in Requests : pc[r] # "idle" => at[r] <= now

\* What a request that is about to use, or has used, its nonce has checked.
FreshInv ==
  \A r \in Requests : r \in accepted \/ pc[r] \in {"prune", "nonce"} =>
    pc[r] # "idle" /\ WithinSkew(at[r], env[r].ts)

\* The row of an accepted nonce is there, or the retention has run out.
RetainInv ==
  \A r \in accepted : \/ at[r] <= nonces[env[r].nonce]
                      \/ at[r] + NonceRetention < now

ReplayInv == ClockInv /\ FreshInv /\ RetainInv /\ NoReplayAccepted

replayVars == <<now, nonces, pc, env, at, accepted>>

\* Steps that touch neither the clock nor the nonces nor the requests.
LEMMA ReplayFrame ==
  ASSUME ReplayInv, UNCHANGED replayVars
  PROVE  ReplayInv'
  BY DEF ReplayInv, ClockInv, FreshInv, RetainInv, NoReplayAccepted,
         WithinSkew, replayVars

\* Deleting rows older than a bound that trails the clock by the retention.
LEMMA ForgetRetains ==
  ASSUME TypeOK, RetainInv, NEW t \in Int, t <= now - NonceRetention,
         nonces' = [n \in Nonces |-> Forget(nonces[n], t)],
         UNCHANGED <<now, env, at, accepted>>
  PROVE  RetainInv'
<1> SUFFICES ASSUME NEW r \in accepted
             PROVE  \/ at[r] <= nonces'[env[r].nonce]
                    \/ at[r] + NonceRetention < now
  BY DEF RetainInv
<1>1. env[r].nonce \in Nonces /\ at[r] \in Nat /\ now \in Nat
  BY EnvelopesAssumption DEF TypeOK, Envelope
<1>2. nonces[env[r].nonce] \in Int
  BY <1>1 DEF TypeOK, Unseen
<1>3. CASE nonces[env[r].nonce] < t
  BY <1>1, <1>2, <1>3, TimesAssumption DEF RetainInv
<1>4. CASE ~(nonces[env[r].nonce] < t)
  BY <1>1, <1>4 DEF RetainInv, Forget
<1> QED
  BY <1>3, <1>4

\* A request about to insert its nonce cannot find the row of an accepted
\* request with the same envelope gone.
LEMMA NoSecondAcceptance ==
  ASSUME TypeOK, ReplayInv,
         NEW q \in Requests, pc[q] = "nonce", Alive(q),
         nonces[env[q].nonce] = Unseen,
         NEW r \in accepted, env[r] = env[q]
  PROVE  FALSE
<1>1. /\ r \in Requests
      /\ at[r] \in Nat /\ at[q] \in Nat /\ now \in Nat
      /\ env[q].ts \in Int
  BY EnvelopesAssumption DEF TypeOK, Envelope
<1>2. at[r] + NonceRetention < now
  BY <1>1 DEF ReplayInv, RetainInv, Unseen
<1>3. WithinSkew(at[r], env[q].ts) /\ WithinSkew(at[q], env[q].ts)
  BY <1>1 DEF ReplayInv, FreshInv
<1>4. at[q] <= at[r] + 2 * SkewRedemption
  BY <1>1, <1>3, TimesAssumption DEF WithinSkew
<1>5. now <= at[r] + 2 * SkewRedemption + MaxStall
  BY <1>1, <1>4, TimesAssumption DEF Alive
<1> QED
  BY <1>1, <1>2, <1>5, TimesAssumption, RetentionAssumption

\* The insertion of a fresh nonce.
LEMMA InsertNonceReplayInv ==
  ASSUME TypeOK, ReplayInv, NEW q \in Requests, InsertNonce(q)
  PROVE  ReplayInv'
<1> USE DEF InsertNonce, TypeOK
<1>1. CASE nonces[env[q].nonce] = Unseen
  <2>0. env[q].nonce \in Nonces /\ at[q] \in Nat /\ now \in Nat
    BY EnvelopesAssumption DEF Envelope
  <2>1. ClockInv'
    BY <1>1 DEF ReplayInv, ClockInv
  <2>2. FreshInv'
    BY <1>1 DEF ReplayInv, FreshInv, WithinSkew
  <2>3. RetainInv'
    <3> SUFFICES ASSUME NEW r \in accepted'
                 PROVE  \/ at[r] <= nonces'[env[r].nonce]
                        \/ at[r] + NonceRetention < now
      BY DEF RetainInv
    <3>1. CASE env[r].nonce = env[q].nonce /\ r # q
      <4>1. r \in accepted
        BY <1>1, <3>1
      <4>2. at[r] \in Nat
        BY <4>1
      <4>3. ~(at[r] <= nonces[env[r].nonce])
        BY <1>1, <3>1, <4>2 DEF Unseen
      <4> QED
        BY <4>1, <4>3 DEF ReplayInv, RetainInv
    <3>2. CASE r = q
      BY <1>1, <2>0, <3>2
    <3>3. CASE env[r].nonce # env[q].nonce
      <4>1. r \in accepted /\ env[r].nonce \in Nonces
        BY <1>1, <3>3, EnvelopesAssumption DEF Envelope
      <4>2. nonces'[env[r].nonce] = nonces[env[r].nonce]
        BY <1>1, <3>3, <4>1
      <4> QED
        BY <4>1, <4>2 DEF ReplayInv, RetainInv
    <3> QED
      BY <3>1, <3>2, <3>3
  <2>4. NoReplayAccepted'
    <3>1. \A r \in accepted : env[r] # env[q]
      BY <1>1, NoSecondAcceptance
    <3> QED
      BY <1>1, <3>1 DEF ReplayInv, NoReplayAccepted
  <2> QED
    BY <2>1, <2>2, <2>3, <2>4 DEF ReplayInv
<1>2. CASE nonces[env[q].nonce] # Unseen
  BY <1>2 DEF Finish, ReplayInv, ClockInv, FreshInv, RetainInv,
              NoReplayAccepted, WithinSkew
<1> QED
  BY <1>1, <1>2

\* Every action preserves the replay invariant.
LEMMA StepReplayInv == TypeOK /\ ReplayInv /\ [Next]_vars => ReplayInv'
<1> SUFFICES ASSUME TypeOK, ReplayInv, [Next]_vars PROVE ReplayInv'
  OBVIOUS
<1>1. CASE Tick
  <2>1. now \in Nat /\ now' = now + 1 /\ \A r \in Requests : at[r] \in Nat
    BY <1>1 DEF Tick, TypeOK
  <2> QED
    BY <1>1, <2>1, TimesAssumption
    DEF Tick, TypeOK, db, redemption, ReplayInv, ClockInv, FreshInv, RetainInv,
        NoReplayAccepted, WithinSkew
<1>2. CASE Crash
  BY <1>2 DEF Crash, TypeOK, db, InFlight, ReplayInv, ClockInv, FreshInv,
              RetainInv, NoReplayAccepted, WithinSkew
<1>3. CASE PurgeExpired
  <2>1. now - PurgeRetention \in Int
        /\ now - PurgeRetention <= now - NonceRetention
    BY TimesAssumption, RetentionAssumption DEF TypeOK
  <2>2. RetainInv'
    <3>1. CASE UNCHANGED nonces
      BY <1>3, <3>1 DEF PurgeExpired, redemption, ReplayInv, RetainInv
    <3>2. CASE nonces' = [n \in Nonces |-> Forget(nonces[n], now - PurgeRetention)]
      BY <1>3, <2>1, <3>2, ForgetRetains DEF PurgeExpired, redemption, ReplayInv
    <3> QED
      BY <1>3, <3>1, <3>2 DEF PurgeExpired
  <2> QED
    BY <1>3, <2>2 DEF PurgeExpired, redemption, ReplayInv, ClockInv, FreshInv,
                      NoReplayAccepted, WithinSkew
<1>4. ASSUME NEW r \in Requests, Receive(r) PROVE ReplayInv'
  <2>1. r \notin accepted
    BY <1>4 DEF Receive, ReplayInv, FreshInv
  <2>2. /\ UNCHANGED <<now, nonces, env, accepted>>
        /\ \A q \in Requests : q # r => at'[q] = at[q] /\ pc'[q] = pc[q]
        /\ at'[r] = now
        /\ pc'[r] \in {"prune", "done"}
        /\ pc'[r] = "prune" => WithinSkew(now, env[r].ts)
    BY <1>4 DEF Receive, RequestError, Finish, TypeOK, db
  <2>3. now \in Nat /\ accepted \subseteq Requests
    BY DEF TypeOK
  <2> QED
    BY <2>1, <2>2, <2>3 DEF ReplayInv, ClockInv, FreshInv, RetainInv,
                            NoReplayAccepted, WithinSkew
<1>5. ASSUME NEW r \in Requests, PruneNonces(r) PROVE ReplayInv'
  <2>1. at[r] - NonceRetention \in Int
        /\ at[r] - NonceRetention <= now - NonceRetention
    BY <1>5, TimesAssumption DEF PruneNonces, TypeOK, ReplayInv, ClockInv
  <2>2. RetainInv'
    BY <1>5, <2>1, ForgetRetains DEF PruneNonces, ReplayInv
  <2> QED
    BY <1>5, <2>2 DEF PruneNonces, TypeOK, ReplayInv, ClockInv, FreshInv,
                      NoReplayAccepted, WithinSkew
<1>6. ASSUME NEW r \in Requests, InsertNonce(r) PROVE ReplayInv'
  BY <1>6, InsertNonceReplayInv
<1>7. ASSUME NEW r \in Requests, ClaimGrant(r) \/ IssueCertificate(r) \/ Fail(r)
      PROVE ReplayInv'
  <2>1. /\ UNCHANGED <<now, nonces, env, at, accepted>>
        /\ \A q \in Requests : q # r => pc'[q] = pc[q]
        /\ pc[r] # "idle" /\ pc'[r] \in {"issue", "done"}
    BY <1>7 DEF ClaimGrant, IssueCertificate, Fail, InFlight, Finish, TypeOK, db
  <2> QED
    BY <2>1 DEF TypeOK, ReplayInv, ClockInv, FreshInv, RetainInv,
                NoReplayAccepted, WithinSkew
<1>8. ASSUME \/ \E u \in Users : Enroll(u)
             \/ \E g \in GrantIds : RevokeGrant(g) \/ MarkPublished(g)
             \/ \E c \in Creates : Create(c)
             \/ UNCHANGED vars
      PROVE ReplayInv'
  <2>1. UNCHANGED replayVars
    BY <1>8 DEF Enroll, RevokeGrant, MarkPublished, Create, CreateBegin,
                CreateCount, CreateInsert, db, redemption, vars, replayVars
  <2> QED
    BY <2>1, ReplayFrame
<1> QED
  BY <1>1, <1>2, <1>3, <1>4, <1>5, <1>6, <1>7, <1>8 DEF Next, Redeem

\* RememberNonce does its job for every skew, retention and stall that satisfy
\* RetentionAssumption: no envelope passes the replay check twice.
THEOREM ReplayProtection == Spec => []NoReplayAccepted
<1>1. Init => ReplayInv
  BY DEF Init, ReplayInv, ClockInv, FreshInv, RetainInv, NoReplayAccepted
<1>2. TypeOK /\ ReplayInv /\ [Next]_vars => ReplayInv'
  BY StepReplayInv
<1>3. ReplayInv => NoReplayAccepted
  BY DEF ReplayInv
<1> QED
  BY <1>1, <1>2, <1>3, TypeCorrect, PTL DEF Spec

--------------------------------------------------------------------------------
(* Single use.  A committed claim leaves a mark that no later step removes *)
(* without also making the identifier unusable.                            *)

\* A row backs every claim committed on it for as long as it exists.
ClaimBacked ==
  \A r \in Requests : Claimed(r) =>
    LET row == grants[env[r].grant]
    IN /\ row.state # "unused"
       /\ row.state = "stored" =>
            /\ row.redeemedBy = env[r].holder
            /\ row.user = claim[r].user
            /\ row.expiresAt = claim[r].expiresAt

ClaimInv == ClaimBacked /\ SingleUse /\ OnlyProofSpends

\* Rows that keep these four columns keep every claim backed.
LEMMA ClaimFrame ==
  ASSUME ClaimInv, UNCHANGED <<claim, env>>,
         \A g \in GrantIds : /\ grants'[g].state = grants[g].state
                             /\ grants'[g].user = grants[g].user
                             /\ grants'[g].expiresAt = grants[g].expiresAt
                             /\ grants'[g].redeemedBy = grants[g].redeemedBy,
         \A r \in Requests : env[r].grant \in GrantIds
  PROVE  ClaimInv'
  BY DEF ClaimInv, ClaimBacked, SingleUse, OnlyProofSpends, Claimed

\* ClaimGrant: the row it commits on backs no claim yet.
LEMMA ClaimGrantInv ==
  ASSUME TypeOK, PrincipalInv, ClaimInv, NEW r \in Requests, ClaimGrant(r)
  PROVE  ClaimInv'
<1> DEFINE g == env[r].grant
           status == ClaimStatus(grants[g], env[r], at[r])
<1>0. \A q \in Requests : env[q].grant \in GrantIds /\ env[q].holder \in Holders
  BY EnvelopesAssumption DEF TypeOK, Envelope
<1>1. CASE status = "OK"
  <2>1. /\ grants[g].state = "stored"
        /\ grants[g].redeemedBy = None
        /\ env[r].proves
    BY <1>1 DEF ClaimStatus
  <2>2. /\ grants' = [grants EXCEPT ![g].redeemedBy = env[r].holder]
        /\ claim' = [claim EXCEPT ![r] = [user |-> grants[g].user,
                                          expiresAt |-> grants[g].expiresAt]]
        /\ UNCHANGED env
    BY <1>1 DEF ClaimGrant
  <2>3. /\ \A k \in GrantIds : k # g => grants'[k] = grants[k]
        /\ grants'[g].state = "stored"
        /\ grants'[g].user = grants[g].user
        /\ grants'[g].expiresAt = grants[g].expiresAt
        /\ grants'[g].redeemedBy = env[r].holder
    BY <1>0, <2>1, <2>2 DEF TypeOK, Row
  <2>4. \A q \in Requests : Claimed(q) => env[q].grant # g
    BY <1>0, <2>1, NoneAssumption DEF ClaimInv, ClaimBacked
  <2>5. /\ \A q \in Requests : q # r => claim'[q] = claim[q]
        /\ claim'[r] = [user |-> grants[g].user,
                        expiresAt |-> grants[g].expiresAt]
    BY <2>2 DEF TypeOK
  <2>6. claim'[r] # None
    <3>1. grants[g].user \in Users /\ grants[g].expiresAt \in Nat
      BY <1>0, <2>1 DEF TypeOK, PrincipalInv, Row
    <3> QED
      BY <2>5, <3>1, NoneAssumption
  <2>7. ClaimBacked'
    BY <1>0, <2>2, <2>3, <2>4, <2>5 DEF ClaimInv, ClaimBacked, Claimed
  <2>8. SingleUse'
    BY <2>2, <2>4, <2>5 DEF ClaimInv, SingleUse, Claimed
  <2>9. OnlyProofSpends'
    <3> SUFFICES ASSUME NEW k \in GrantIds, grants'[k].redeemedBy # None
                 PROVE  \E q \in Requests :
                          /\ Claimed(q)'
                          /\ env[q].grant = k
                          /\ env[q].proves
                          /\ env[q].holder = grants'[k].redeemedBy
      BY <2>2 DEF OnlyProofSpends
    <3>1. CASE k = g
      BY <2>1, <2>3, <2>6, <3>1 DEF Claimed
    <3>2. CASE k # g
      <4>1. PICK q \in Requests : /\ Claimed(q)
                                  /\ env[q].grant = k
                                  /\ env[q].proves
                                  /\ env[q].holder = grants[k].redeemedBy
        BY <2>3, <3>2 DEF ClaimInv, OnlyProofSpends
      <4>2. Claimed(q)'
        BY <2>5, <2>6, <4>1 DEF Claimed
      <4> QED
        BY <2>3, <3>2, <4>1, <4>2
    <3> QED
      BY <3>1, <3>2
  <2> QED
    BY <2>7, <2>8, <2>9 DEF ClaimInv
<1>2. CASE status # "OK"
  <2>1. UNCHANGED <<grants, claim, env>>
    BY <1>2 DEF ClaimGrant
  <2> QED
    BY <1>0, <2>1, ClaimFrame
<1> QED
  BY <1>1, <1>2

\* Every action preserves the claim invariant.
LEMMA StepClaimInv ==
  TypeOK /\ PrincipalInv /\ ClaimInv /\ [Next]_vars => ClaimInv'
<1> SUFFICES ASSUME TypeOK, PrincipalInv, ClaimInv, [Next]_vars PROVE ClaimInv'
  OBVIOUS
<1>0. \A q \in Requests : env[q].grant \in GrantIds /\ env[q].holder \in Holders
  BY EnvelopesAssumption DEF TypeOK, Envelope
<1>1. ASSUME NEW r \in Requests, ClaimGrant(r) PROVE ClaimInv'
  BY <1>1, ClaimGrantInv
<1>2. ASSUME NEW g \in GrantIds, RevokeGrant(g) \/ MarkPublished(g)
      PROVE ClaimInv'
  <2>1. UNCHANGED <<claim, env>>
    BY <1>2 DEF RevokeGrant, MarkPublished, redemption
  <2>2. \A k \in GrantIds : /\ grants'[k].state = grants[k].state
                            /\ grants'[k].user = grants[k].user
                            /\ grants'[k].expiresAt = grants[k].expiresAt
                            /\ grants'[k].redeemedBy = grants[k].redeemedBy
    <3>1. CASE RevokeGrant(g)
      BY <3>1 DEF RevokeGrant, TypeOK, Row
    <3>2. CASE MarkPublished(g)
      BY <3>2 DEF MarkPublished, TypeOK, Row
    <3> QED
      BY <1>2, <3>1, <3>2
  <2> QED
    BY <1>0, <2>1, <2>2, ClaimFrame
<1>3. ASSUME NEW c \in Creates, CreateInsert(c) PROVE ClaimInv'
  <2>1. PICK g \in GrantIds :
          /\ grants[g].state = "unused"
          /\ grants' = [grants EXCEPT ![g] =
                          [NoRow EXCEPT
                             !.state = "stored",
                             !.user = draft[c].user,
                             !.expiresAt = draft[c].at + draft[c].ttl]]
    BY <1>3 DEF CreateInsert
  <2>2. UNCHANGED <<claim, env>>
    BY <1>3 DEF CreateInsert, redemption
  <2>3. /\ \A k \in GrantIds : k # g => grants'[k] = grants[k]
        /\ grants'[g].redeemedBy = None
    BY <2>1 DEF TypeOK, NoRow
  <2>4. \A q \in Requests : Claimed(q) => env[q].grant # g
    BY <2>1 DEF ClaimInv, ClaimBacked
  <2> QED
    BY <1>0, <2>2, <2>3, <2>4
    DEF ClaimInv, ClaimBacked, SingleUse, OnlyProofSpends, Claimed
<1>4. CASE PurgeExpired
  <2>1. UNCHANGED <<claim, env>>
    BY <1>4 DEF PurgeExpired, redemption
  <2>2. \A k \in GrantIds :
          \/ grants'[k] = grants[k]
          \/ grants'[k].state = "deleted" /\ grants'[k].redeemedBy = None
    BY <1>4 DEF PurgeExpired, NoRow
  <2> QED
    BY <1>0, <2>1, <2>2
    DEF ClaimInv, ClaimBacked, SingleUse, OnlyProofSpends, Claimed
<1>5. CASE UNCHANGED <<grants, claim, env>>
  BY <1>0, <1>5, ClaimFrame
<1>6. ASSUME \/ Tick \/ Crash \/ UNCHANGED vars
             \/ \E u \in Users : Enroll(u)
             \/ \E c \in Creates :
                  (\E ttl \in TTLs : CreateBegin(c, ttl)) \/ CreateCount(c)
             \/ \E r \in Requests :
                  \/ Receive(r) \/ PruneNonces(r) \/ InsertNonce(r)
                  \/ IssueCertificate(r) \/ Fail(r)
      PROVE UNCHANGED <<grants, claim, env>>
  BY <1>6 DEF Tick, Crash, vars, Enroll, CreateBegin, CreateCount, Receive,
              PruneNonces, InsertNonce, IssueCertificate, Fail, db, redemption
<1> QED
  BY <1>1, <1>2, <1>3, <1>4, <1>5, <1>6 DEF Next, Create, Redeem

\* The claim invariant holds in every reachable state.
LEMMA ClaimInvariant == Spec => []ClaimInv
<1>1. Init => ClaimInv
  <2> SUFFICES ASSUME Init PROVE ClaimInv
    OBVIOUS
  <2>1. \A r \in Requests : ~Claimed(r)
    BY DEF Init, Claimed
  <2>2. \A g \in GrantIds : grants[g].redeemedBy = None
    BY DEF Init, NoRow
  <2> QED
    BY <2>1, <2>2 DEF ClaimInv, ClaimBacked, SingleUse, OnlyProofSpends
<1>2. TypeOK /\ PrincipalInv /\ ClaimInv /\ [Next]_vars => ClaimInv'
  BY StepClaimInv
<1> QED
  BY <1>1, <1>2, TypeCorrect, PTL DEF Spec

\* At most one redemption ever commits a claim on a grant, whatever the number
\* of concurrent requests, replays, crashes, revocations and purges.
THEOREM GrantsAreSingleUse == Spec => []SingleUse
<1>1. ClaimInv => SingleUse
  BY DEF ClaimInv
<1> QED
  BY <1>1, ClaimInvariant, PTL

\* Only a proof under the grant's own secret consumes it.
THEOREM ProofsAloneSpend == Spec => []OnlyProofSpends
<1>1. ClaimInv => OnlyProofSpends
  BY DEF ClaimInv
<1> QED
  BY <1>1, ClaimInvariant, PTL

--------------------------------------------------------------------------------
(* Action properties.                                                      *)

\* A redeemed or revoked row keeps its redeemer and its revocation until it is
\* purged.  Five operations write the table; of these ClaimGrant alone sets a
\* redeemer, and only on a row that has none and is not revoked.
THEOREM SettledRowsHold == Spec => SettledRowsStaySettled
<1> DEFINE Kept(g) ==
      grants[g].state = "stored" /\ grants'[g].state = "stored" =>
        /\ grants[g].redeemedBy # None \/ grants[g].revoked =>
             grants'[g].redeemedBy = grants[g].redeemedBy
        /\ grants[g].revoked => grants'[g].revoked
<1>1. TypeOK /\ [Next]_vars => [\A g \in GrantIds : Kept(g)]_vars
  <2> SUFFICES ASSUME TypeOK, Next PROVE \A g \in GrantIds : Kept(g)
    OBVIOUS
  <2>1. ASSUME UNCHANGED grants PROVE \A g \in GrantIds : Kept(g)
    BY <2>1
  <2>2. ASSUME NEW g \in GrantIds, RevokeGrant(g)
        PROVE  \A k \in GrantIds : Kept(k)
    BY <2>2 DEF RevokeGrant, TypeOK, Row
  <2>3. ASSUME NEW g \in GrantIds, MarkPublished(g)
        PROVE  \A k \in GrantIds : Kept(k)
    BY <2>3 DEF MarkPublished, TypeOK, Row
  <2>4. ASSUME NEW c \in Creates, CreateInsert(c)
        PROVE  \A k \in GrantIds : Kept(k)
    BY <2>4 DEF CreateInsert, TypeOK
  <2>5. CASE PurgeExpired
    <3>1. \A k \in GrantIds :
            grants'[k] = grants[k] \/ grants'[k].state = "deleted"
      BY <2>5 DEF PurgeExpired, NoRow
    <3> QED
      BY <3>1
  <2>6. ASSUME NEW r \in Requests, ClaimGrant(r)
        PROVE  \A k \in GrantIds : Kept(k)
    <3> DEFINE g == env[r].grant
               status == ClaimStatus(grants[g], env[r], at[r])
    <3>1. CASE status = "OK"
      <4>1. ~grants[g].revoked /\ grants[g].redeemedBy = None
        BY <3>1 DEF ClaimStatus
      <4>2. \A k \in GrantIds : k # g => grants'[k] = grants[k]
        BY <2>6, <3>1 DEF ClaimGrant, TypeOK
      <4> QED
        BY <4>1, <4>2
    <3>2. CASE status # "OK"
      <4>1. UNCHANGED grants
        BY <2>6, <3>2 DEF ClaimGrant
      <4> QED
        BY <2>1, <4>1
    <3> QED
      BY <3>1, <3>2
  <2>7. ASSUME \/ Tick \/ Crash
               \/ \E u \in Users : Enroll(u)
               \/ \E c \in Creates :
                    (\E ttl \in TTLs : CreateBegin(c, ttl)) \/ CreateCount(c)
               \/ \E r \in Requests :
                    \/ Receive(r) \/ PruneNonces(r) \/ InsertNonce(r)
                    \/ IssueCertificate(r) \/ Fail(r)
        PROVE UNCHANGED grants
    BY <2>7 DEF Tick, Crash, Enroll, CreateBegin, CreateCount, Receive,
                PruneNonces, InsertNonce, IssueCertificate, Fail, db
  <2> QED
    BY <2>1, <2>2, <2>3, <2>4, <2>5, <2>6, <2>7 DEF Next, Create, Redeem
<1> QED
  BY <1>1, TypeCorrect, PTL DEF Spec, SettledRowsStaySettled

\* A request that is about to issue claimed a grant that had not expired at
\* the clock reading the request works with.
LiveClaim ==
  \A r \in Requests : pc[r] = "issue" =>
    /\ claim[r] \in ClaimResult
    /\ at[r] < claim[r].expiresAt

\* Only ClaimGrant brings a request to "issue", after comparing expires_at
\* with the reading that Receive took and nothing changes afterwards.
LEMMA LiveClaimInvariant == Spec => []LiveClaim
<1>1. Init => LiveClaim
  BY DEF Init, LiveClaim
<1>2. TypeOK /\ PrincipalInv /\ LiveClaim /\ [Next]_vars => LiveClaim'
  <2> SUFFICES ASSUME TypeOK, PrincipalInv, LiveClaim, [Next]_vars
               PROVE  LiveClaim'
    OBVIOUS
  <2>1. ASSUME \A q \in Requests : pc'[q] = "issue" =>
                 /\ pc[q] = "issue"
                 /\ claim'[q] = claim[q]
                 /\ at'[q] = at[q]
        PROVE  LiveClaim'
    BY <2>1 DEF LiveClaim
  <2>2. ASSUME NEW r \in Requests, ClaimGrant(r) PROVE LiveClaim'
    <3> DEFINE g == env[r].grant
               status == ClaimStatus(grants[g], env[r], at[r])
    <3>1. g \in GrantIds
      BY EnvelopesAssumption DEF TypeOK, Envelope
    <3>2. CASE status = "OK"
      <4>1. grants[g].state = "stored" /\ ~(grants[g].expiresAt <= at[r])
        BY <3>2 DEF ClaimStatus
      <4>2. /\ grants[g].user \in Users
            /\ grants[g].expiresAt \in Nat
            /\ at[r] \in Nat
        BY <3>1, <4>1 DEF TypeOK, PrincipalInv, Row
      <4>3. /\ claim'[r] = [user |-> grants[g].user,
                            expiresAt |-> grants[g].expiresAt]
            /\ at' = at
            /\ \A q \in Requests :
                 q # r => pc'[q] = pc[q] /\ claim'[q] = claim[q]
        BY <2>2, <3>2 DEF ClaimGrant, TypeOK
      <4>4. claim'[r] \in ClaimResult /\ at'[r] < claim'[r].expiresAt
        BY <4>1, <4>2, <4>3 DEF ClaimResult
      <4> QED
        BY <4>3, <4>4 DEF LiveClaim
    <3>3. CASE status # "OK"
      BY <2>1, <2>2, <3>3 DEF ClaimGrant, Finish, TypeOK
    <3> QED
      BY <3>2, <3>3
  <2>3. ASSUME NEW r \in Requests,
               \/ Receive(r) \/ PruneNonces(r) \/ InsertNonce(r)
               \/ IssueCertificate(r) \/ Fail(r)
        PROVE  LiveClaim'
    <3>1. CASE Receive(r)
      BY <2>1, <3>1 DEF Receive, Finish, TypeOK
    <3>2. CASE PruneNonces(r)
      BY <2>1, <3>2 DEF PruneNonces, TypeOK
    <3>3. CASE InsertNonce(r)
      BY <2>1, <3>3 DEF InsertNonce, Finish, TypeOK
    <3>4. CASE IssueCertificate(r)
      BY <2>1, <3>4 DEF IssueCertificate, Finish, TypeOK
    <3>5. CASE Fail(r)
      BY <2>1, <3>5 DEF Fail, Finish, TypeOK
    <3> QED
      BY <2>3, <3>1, <3>2, <3>3, <3>4, <3>5
  <2>4. CASE Crash
    BY <2>1, <2>4 DEF Crash, InFlight
  <2>5. CASE UNCHANGED <<pc, claim, at>>
    BY <2>1, <2>5
  <2>6. ASSUME \/ Tick \/ PurgeExpired \/ UNCHANGED vars
               \/ \E u \in Users : Enroll(u)
               \/ \E g \in GrantIds : RevokeGrant(g) \/ MarkPublished(g)
               \/ \E c \in Creates : Create(c)
        PROVE UNCHANGED <<pc, claim, at>>
    BY <2>6 DEF Tick, PurgeExpired, vars, Enroll, RevokeGrant, MarkPublished,
                Create, CreateBegin, CreateCount, CreateInsert, redemption
  <2> QED
    BY <2>2, <2>3, <2>4, <2>5, <2>6 DEF Next, Redeem
<1> QED
  BY <1>1, <1>2, TypeCorrect, PTL DEF Spec

\* A certificate leaves the signer at most MaxStall after the grant's own
\* expiry: LiveClaim bounds the clock reading by validBefore, and the context
\* of the request bounds the time since that reading.
THEOREM CertificatesAreTimely == Spec => IssuedNearLifetime
<1> DEFINE Timely(r) ==
      answer'[r] # answer[r] => now < answer'[r].validBefore + MaxStall
<1>1. TypeOK /\ LiveClaim /\ [Next]_vars => [\A r \in Requests : Timely(r)]_vars
  <2> SUFFICES ASSUME TypeOK, LiveClaim, Next PROVE \A r \in Requests : Timely(r)
    OBVIOUS
  <2>1. ASSUME UNCHANGED answer PROVE \A r \in Requests : Timely(r)
    BY <2>1
  <2>2. ASSUME NEW r \in Requests, IssueCertificate(r)
        PROVE  \A q \in Requests : Timely(q)
    <3> SUFFICES ASSUME NEW q \in Requests, answer'[q] # answer[q]
                 PROVE  now < answer'[q].validBefore + MaxStall
      OBVIOUS
    <3>1. PICK serial \in Serials :
            \/ UNCHANGED answer
            \/ answer' = [answer EXCEPT ![r] = IssuedCertificate(r, serial)]
      BY <2>2 DEF IssueCertificate
    <3>2. q = r /\ answer'[q] = IssuedCertificate(r, serial)
      BY <3>1 DEF TypeOK
    <3>3. answer'[q].validBefore = claim[r].expiresAt
      BY <3>2 DEF IssuedCertificate
    <3>4. /\ at[r] < claim[r].expiresAt
          /\ claim[r].expiresAt \in Nat
          /\ at[r] \in Nat
          /\ now \in Nat
          /\ now <= at[r] + MaxStall
      BY <2>2 DEF IssueCertificate, Alive, LiveClaim, ClaimResult, TypeOK
    <3> QED
      BY <3>3, <3>4, TimesAssumption
  <2>3. ASSUME \/ Tick \/ Crash \/ PurgeExpired
               \/ \E u \in Users : Enroll(u)
               \/ \E g \in GrantIds : RevokeGrant(g) \/ MarkPublished(g)
               \/ \E c \in Creates : Create(c)
               \/ \E r \in Requests :
                    \/ Receive(r) \/ PruneNonces(r) \/ InsertNonce(r)
                    \/ ClaimGrant(r) \/ Fail(r)
        PROVE UNCHANGED answer
    BY <2>3 DEF Tick, Crash, PurgeExpired, Enroll, RevokeGrant, MarkPublished,
                Create, CreateBegin, CreateCount, CreateInsert, Receive,
                PruneNonces, InsertNonce, ClaimGrant, Fail, redemption
  <2> QED
    BY <2>1, <2>2, <2>3 DEF Next, Redeem
<1> QED
  BY <1>1, TypeCorrect, LiveClaimInvariant, PTL DEF Spec, IssuedNearLifetime
================================================================================
