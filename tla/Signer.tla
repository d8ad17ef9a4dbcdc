-------------------------------- MODULE Signer --------------------------------
(***************************************************************************)
(* grant-signer: the SQLite store (go/signer/store), the operations of     *)
(* go/signer and the HTTP handlers that run them concurrently.             *)
(*                                                                         *)
(* The database (host, grants, nonces, certificates) survives a crash; the *)
(* goroutines serving requests do not.  Every SQL statement or transaction *)
(* is one step and requests interleave between them.  A request is         *)
(* one-shot: Requests is the set of POST /redeem calls the daemon makes,   *)
(* Creates the set of POST /grants calls of the owner.                     *)
(***************************************************************************)
EXTENDS Integers, FiniteSets

CONSTANTS
  GrantIds, Holders, Users, Nonces,
  Serials,          \* certificate serials NewSerial can draw
  Envelopes,        \* the redemption envelopes that circulate
  Requests, Creates,
  None,             \* SQL NULL, and "no value yet"
  SkewRedemption,   \* protocol.SkewRedemption, 120 s
  NonceRetention,   \* signer.NonceRetention, 4 * SkewRedemption
  PurgeRetention,   \* 24 h, the retain argument of PurgeExpired
  MaxStall,         \* longest a request can run after it has read the clock
  TTLs,             \* lifetimes ValidateGrantWindow accepts
  MaxActiveGrants,  \* signer.MaxActiveGrants, 32
  MaxTime           \* bound on the model's clock

\* An envelope names the host it is addressed to, a grant, the holder to
\* certify, a timestamp and a nonce.  wellFormed: version, lengths, agent id,
\* agent signature and SSH key all check out.  proves: its HMAC verifies under
\* the secret of the grant it names.
Envelope ==
  [toUs : BOOLEAN, wellFormed : BOOLEAN, proves : BOOLEAN, ts : Int,
   nonce : Nonces, grant : GrantIds, holder : Holders]

ASSUME EnvelopesAssumption == Envelopes \subseteq Envelope

\* None is no user, no holder and no record.
ASSUME NoneAssumption ==
  /\ None \notin Users \cup Holders
  /\ None \notin [user : Users, expiresAt : Nat]

ASSUME TimesAssumption ==
  /\ SkewRedemption \in Nat
  /\ MaxStall \in Nat
  /\ NonceRetention \in Nat
  /\ PurgeRetention \in Nat
  /\ TTLs \subseteq Nat \ {0}
  /\ MaxTime \in Nat
  /\ MaxActiveGrants \in Nat

\* An envelope is fresh for 2 * SkewRedemption; a request that read the clock
\* at the end of that time may still be running MaxStall later.  In the code:
\* 480 >= 240 + 15, and 24 h >= 480 s.
ASSUME RetentionAssumption ==
  /\ NonceRetention >= 2 * SkewRedemption + MaxStall
  /\ PurgeRetention >= NonceRetention

VARIABLES
  now,           \* wall clock, seconds
  host,          \* enrolled ssh_user, None before init
  grants,        \* table grants
  nonces,        \* table nonces, scope "redeem": seen_at or Unseen
  certificates,  \* table certificates
  cpc, draft,    \* owner calls: program counter, values read so far
  pc, env, at,   \* redemptions: program counter, envelope, clock reading
  claim,         \* result of ClaimGrant once committed, else None
  answer,        \* certificate returned, else None
  out,           \* protocol code returned, "" while unanswered
  accepted       \* history: requests that passed the replay check

db == <<host, grants, nonces, certificates>>
creation == <<cpc, draft>>
redemption == <<pc, env, at, claim, answer, out, accepted>>
vars == <<now, host, grants, nonces, certificates, cpc, draft,
          pc, env, at, claim, answer, out, accepted>>

Unseen == -1

Row == [state : {"unused", "stored", "deleted"}, user : Users \cup {None},
        expiresAt : Nat, redeemedBy : Holders \cup {None},
        revoked : BOOLEAN, published : BOOLEAN]

NoRow == [state |-> "unused", user |-> None, expiresAt |-> 0,
          redeemedBy |-> None, revoked |-> FALSE, published |-> FALSE]

ClaimResult == [user : Users, expiresAt : Nat]

Certificate == [serial : Serials, grant : GrantIds, holder : Holders,
                user : Users, validBefore : Nat]

Codes == {"", "OK", "INTERNAL", "LOST", "ID_MISMATCH", "STALE_TIMESTAMP",
          "BAD_REQUEST", "REPLAYED_NONCE", "GRANT_NOT_FOUND",
          "GRANT_REVOKED", "GRANT_EXPIRED", "GRANT_ALREADY_REDEEMED",
          "BAD_PROOF"}

TypeOK ==
  /\ now \in Nat
  /\ host \in Users \cup {None}
  /\ grants \in [GrantIds -> Row]
  /\ nonces \in [Nonces -> Nat \cup {Unseen}]
  /\ certificates \subseteq Certificate
  /\ cpc \in [Creates -> {"idle", "count", "insert", "done"}]
  /\ draft \in [Creates -> [user : Users \cup {None}, at : Nat, ttl : Nat]]
  /\ pc \in [Requests -> {"idle", "prune", "nonce", "claim", "issue", "done"}]
  /\ env \in [Requests -> Envelopes]
  /\ at \in [Requests -> Nat]
  /\ claim \in [Requests -> ClaimResult \cup {None}]
  /\ answer \in [Requests -> Certificate \cup {None}]
  /\ out \in [Requests -> Codes]
  /\ accepted \subseteq Requests

Init ==
  /\ now = 0
  /\ host = None
  /\ grants = [g \in GrantIds |-> NoRow]
  /\ nonces = [n \in Nonces |-> Unseen]
  /\ certificates = {}
  /\ cpc = [c \in Creates |-> "idle"]
  /\ draft = [c \in Creates |-> [user |-> None, at |-> 0, ttl |-> 0]]
  /\ pc = [r \in Requests |-> "idle"]
  /\ env \in [Requests -> Envelopes]
  /\ at = [r \in Requests |-> 0]
  /\ claim = [r \in Requests |-> None]
  /\ answer = [r \in Requests |-> None]
  /\ out = [r \in Requests |-> ""]
  /\ accepted = {}

--------------------------------------------------------------------------------
(* Enrollment and grant creation: cmdInit, Enroll, CreateGrant.            *)

\* grant-signer init, run again at will: one row, ever.
Enroll(u) ==
  /\ host' = u
  /\ UNCHANGED <<now, grants, nonces, certificates>>
  /\ UNCHANGED creation
  /\ UNCHANGED redemption

\* Grants still redeemable at time t, as ActiveGrantCount counts them.
ActiveGrants(t) ==
  {g \in GrantIds : /\ grants[g].state = "stored"
                    /\ grants[g].expiresAt > t
                    /\ grants[g].redeemedBy = None
                    /\ ~grants[g].revoked}

\* Mutant: the ErrNoHost return is forgotten.
CreateBegin_NoHostCheck(c, ttl) ==
  /\ cpc[c] = "idle"
  /\ cpc' = [cpc EXCEPT ![c] = "count"]
  /\ draft' = [draft EXCEPT ![c] = [user |-> host, at |-> now, ttl |-> ttl]]
  /\ UNCHANGED <<now, db>>
  /\ UNCHANGED redemption

\* An owner call reads the clock and the enrollment row.
CreateBegin(c, ttl) ==
  /\ cpc[c] = "idle"
  /\ IF host = None
       THEN /\ cpc' = [cpc EXCEPT ![c] = "done"]
            /\ UNCHANGED draft
       ELSE /\ cpc' = [cpc EXCEPT ![c] = "count"]
            /\ draft' = [draft EXCEPT ![c] =
                           [user |-> host, at |-> now, ttl |-> ttl]]
  /\ UNCHANGED <<now, db>>
  /\ UNCHANGED redemption

\* It counts the active grants and refuses at the cap.
CreateCount(c) ==
  /\ cpc[c] = "count"
  /\ cpc' = [cpc EXCEPT ![c] =
               IF Cardinality(ActiveGrants(draft[c].at)) >= MaxActiveGrants
                 THEN "done" ELSE "insert"]
  /\ UNCHANGED <<now, db, draft>>
  /\ UNCHANGED redemption

\* It stores the row under a fresh random id, with the principal it read.
CreateInsert(c) ==
  /\ cpc[c] = "insert"
  /\ \E g \in GrantIds :
       /\ grants[g].state = "unused"
       /\ grants' = [grants EXCEPT ![g] =
                       [NoRow EXCEPT
                          !.state = "stored",
                          !.user = draft[c].user,
                          !.expiresAt = draft[c].at + draft[c].ttl]]
  /\ cpc' = [cpc EXCEPT ![c] = "done"]
  /\ UNCHANGED <<now, host, nonces, certificates, draft>>
  /\ UNCHANGED redemption

\* DELETE /grants/{id}: the UPDATE touches only a row not yet revoked.
RevokeGrant(g) ==
  /\ grants[g].state = "stored"
  /\ ~grants[g].revoked
  /\ grants' = [grants EXCEPT ![g].revoked = TRUE]
  /\ UNCHANGED <<now, host, nonces, certificates>>
  /\ UNCHANGED creation
  /\ UNCHANGED redemption

\* POST /grants/{id}/published: unconditional, revoked or expired or not.
MarkPublished(g) ==
  /\ grants[g].state = "stored"
  /\ grants' = [grants EXCEPT ![g].published = TRUE]
  /\ UNCHANGED <<now, host, nonces, certificates>>
  /\ UNCHANGED creation
  /\ UNCHANGED redemption

Forget(seen, before) == IF seen < before THEN Unseen ELSE seen

\* The purge loop of cmdServe: old grants, then old nonces.  The second DELETE
\* can fail after the first has committed.
PurgeExpired ==
  /\ grants' = [g \in GrantIds |->
                  IF /\ grants[g].state = "stored"
                     /\ grants[g].expiresAt < now - PurgeRetention
                  THEN [NoRow EXCEPT !.state = "deleted"]
                  ELSE grants[g]]
  /\ nonces' \in {nonces,
                 [n \in Nonces |-> Forget(nonces[n], now - PurgeRetention)]}
  /\ UNCHANGED <<now, host, certificates>>
  /\ UNCHANGED creation
  /\ UNCHANGED redemption

--------------------------------------------------------------------------------
(* Redemption: Signer.Redeem, one action per database statement.           *)

WithinSkew(t, ts) == t - ts <= SkewRedemption /\ ts - t <= SkewRedemption

\* The checks that write nothing, in the order of the code.
RequestError(e) ==
  IF host = None THEN "INTERNAL"
  ELSE IF ~e.toUs THEN "ID_MISMATCH"
  ELSE IF ~WithinSkew(now, e.ts) THEN "STALE_TIMESTAMP"
  ELSE IF ~e.wellFormed THEN "BAD_REQUEST"
  ELSE ""

Finish(r, code) ==
  /\ pc' = [pc EXCEPT ![r] = "done"]
  /\ out' = [out EXCEPT ![r] = code]

\* The context of a request that has run too long is cancelled, and every
\* statement it still tries fails (Fail below).
Alive(r) == now <= at[r] + MaxStall

\* A request reads the clock, once for its whole life, and runs the checks.
Receive(r) ==
  /\ pc[r] = "idle"
  /\ at' = [at EXCEPT ![r] = now]
  /\ LET code == RequestError(env[r]) IN
       IF code = "" THEN /\ pc' = [pc EXCEPT ![r] = "prune"]
                         /\ UNCHANGED out
                    ELSE Finish(r, code)
  /\ UNCHANGED <<now, db, env, claim, answer, accepted>>
  /\ UNCHANGED creation

\* Mutant: nonces are kept for one skew, not for the whole freshness window.
PruneNonces_OneSkew(r) ==
  /\ pc[r] = "prune"
  /\ Alive(r)
  /\ nonces' = [n \in Nonces |-> Forget(nonces[n], at[r] - SkewRedemption)]
  /\ pc' = [pc EXCEPT ![r] = "nonce"]
  /\ UNCHANGED <<now, host, grants, certificates>>
  /\ UNCHANGED <<env, at, claim, answer, out, accepted>>
  /\ UNCHANGED creation

\* RememberNonce, first statement.
PruneNonces(r) ==
  /\ pc[r] = "prune"
  /\ Alive(r)
  /\ nonces' = [n \in Nonces |-> Forget(nonces[n], at[r] - NonceRetention)]
  /\ pc' = [pc EXCEPT ![r] = "nonce"]
  /\ UNCHANGED <<now, host, grants, certificates>>
  /\ UNCHANGED <<env, at, claim, answer, out, accepted>>
  /\ UNCHANGED creation

\* RememberNonce, second statement: INSERT OR IGNORE.
InsertNonce(r) ==
  /\ pc[r] = "nonce"
  /\ Alive(r)
  /\ IF nonces[env[r].nonce] = Unseen
       THEN /\ nonces' = [nonces EXCEPT ![env[r].nonce] = at[r]]
            /\ accepted' = accepted \cup {r}
            /\ pc' = [pc EXCEPT ![r] = "claim"]
            /\ UNCHANGED out
       ELSE /\ Finish(r, "REPLAYED_NONCE")
            /\ UNCHANGED <<nonces, accepted>>
  /\ UNCHANGED <<now, host, grants, certificates>>
  /\ UNCHANGED <<env, at, claim, answer>>
  /\ UNCHANGED creation

\* Mutants: one check of the transaction is missing.
ClaimStatus_NoRedeemedCheck(row, e, t) ==
  IF row.state # "stored" THEN "GRANT_NOT_FOUND"
  ELSE IF row.revoked THEN "GRANT_REVOKED"
  ELSE IF row.expiresAt <= t THEN "GRANT_EXPIRED"
  ELSE IF ~e.proves THEN "BAD_PROOF"
  ELSE "OK"

ClaimStatus_NoProofCheck(row, e, t) ==
  IF row.state # "stored" THEN "GRANT_NOT_FOUND"
  ELSE IF row.revoked THEN "GRANT_REVOKED"
  ELSE IF row.expiresAt <= t THEN "GRANT_EXPIRED"
  ELSE IF row.redeemedBy # None THEN "GRANT_ALREADY_REDEEMED"
  ELSE "OK"

ClaimStatus_NoRevokedCheck(row, e, t) ==
  IF row.state # "stored" THEN "GRANT_NOT_FOUND"
  ELSE IF row.expiresAt <= t THEN "GRANT_EXPIRED"
  ELSE IF row.redeemedBy # None THEN "GRANT_ALREADY_REDEEMED"
  ELSE IF ~e.proves THEN "BAD_PROOF"
  ELSE "OK"

ClaimStatus_ExpiryOffByOne(row, e, t) ==
  IF row.state # "stored" THEN "GRANT_NOT_FOUND"
  ELSE IF row.revoked THEN "GRANT_REVOKED"
  ELSE IF row.expiresAt < t THEN "GRANT_EXPIRED"
  ELSE IF row.redeemedBy # None THEN "GRANT_ALREADY_REDEEMED"
  ELSE IF ~e.proves THEN "BAD_PROOF"
  ELSE "OK"

\* What ClaimGrant decides for a row, an envelope and the request's clock.
ClaimStatus(row, e, t) ==
  IF row.state # "stored" THEN "GRANT_NOT_FOUND"
  ELSE IF row.revoked THEN "GRANT_REVOKED"
  ELSE IF row.expiresAt <= t THEN "GRANT_EXPIRED"
  ELSE IF row.redeemedBy # None THEN "GRANT_ALREADY_REDEEMED"
  ELSE IF ~e.proves THEN "BAD_PROOF"
  ELSE "OK"

\* ClaimGrant: one BEGIN IMMEDIATE transaction, so one step.
ClaimGrant(r) ==
  /\ pc[r] = "claim"
  /\ Alive(r)
  /\ LET g == env[r].grant
         status == ClaimStatus(grants[g], env[r], at[r])
     IN IF status = "OK"
          THEN /\ grants' = [grants EXCEPT ![g].redeemedBy = env[r].holder]
               /\ claim' = [claim EXCEPT ![r] =
                              [user |-> grants[g].user,
                               expiresAt |-> grants[g].expiresAt]]
               /\ pc' = [pc EXCEPT ![r] = "issue"]
               /\ UNCHANGED out
          ELSE /\ Finish(r, status)
               /\ UNCHANGED <<grants, claim>>
  /\ UNCHANGED <<now, host, nonces, certificates>>
  /\ UNCHANGED <<env, at, answer, accepted>>
  /\ UNCHANGED creation

\* The certificate sshcert.Issue builds for a committed claim.
IssuedCertificate(r, serial) ==
  [serial |-> serial, grant |-> env[r].grant, holder |-> env[r].holder,
   user |-> claim[r].user, validBefore |-> claim[r].expiresAt]

\* The rows after RecordCertificate: ON CONFLICT(grant_id) DO NOTHING.
Recorded(c) ==
  IF \E d \in certificates : d.grant = c.grant
    THEN certificates ELSE certificates \cup {c}

\* NewSerial, Issue, RecordCertificate and the response, which may be lost once
\* the row is committed.  A serial already in the table violates its primary
\* key: the handler answers INTERNAL.
IssueCertificate(r) ==
  /\ pc[r] = "issue"
  /\ Alive(r)
  /\ \E serial \in Serials :
       IF \E d \in certificates : d.serial = serial
         THEN /\ Finish(r, "INTERNAL")
              /\ UNCHANGED <<certificates, answer>>
         ELSE /\ certificates' = Recorded(IssuedCertificate(r, serial))
              /\ \/ /\ answer' = [answer EXCEPT
                                   ![r] = IssuedCertificate(r, serial)]
                    /\ Finish(r, "OK")
                 \/ Finish(r, "LOST") /\ UNCHANGED answer
  /\ UNCHANGED <<now, host, grants, nonces>>
  /\ UNCHANGED <<env, at, claim, accepted>>
  /\ UNCHANGED creation

InFlight(r) == pc[r] \notin {"idle", "done"}

\* Mutant: a failed request gives its grant back, a retry path the code
\* deliberately lacks.
Fail_Refunds(r) ==
  /\ InFlight(r)
  /\ Finish(r, "INTERNAL")
  /\ grants' = IF pc[r] = "issue"
                 THEN [grants EXCEPT ![env[r].grant].redeemedBy = None]
                 ELSE grants
  /\ UNCHANGED <<now, host, nonces, certificates>>
  /\ UNCHANGED <<env, at, claim, answer, accepted>>
  /\ UNCHANGED creation

\* A statement fails or the context is cancelled: what was committed stays.
Fail(r) ==
  /\ InFlight(r)
  /\ Finish(r, "INTERNAL")
  /\ UNCHANGED <<now, db, env, at, claim, answer, accepted>>
  /\ UNCHANGED creation

--------------------------------------------------------------------------------
\* The process dies and is restarted: requests vanish, the database does not.
Crash ==
  /\ pc' = [r \in Requests |-> IF InFlight(r) THEN "done" ELSE pc[r]]
  /\ out' = [r \in Requests |-> IF InFlight(r) THEN "LOST" ELSE out[r]]
  /\ cpc' = [c \in Creates |-> IF cpc[c] = "idle" THEN "idle" ELSE "done"]
  /\ UNCHANGED <<now, db, draft, env, at, claim, answer, accepted>>

Tick ==
  /\ now < MaxTime
  /\ now' = now + 1
  /\ UNCHANGED db
  /\ UNCHANGED creation
  /\ UNCHANGED redemption

Create(c) ==
  \/ \E ttl \in TTLs : CreateBegin(c, ttl)
  \/ CreateCount(c)
  \/ CreateInsert(c)

Redeem(r) ==
  \/ Receive(r)
  \/ PruneNonces(r)
  \/ InsertNonce(r)
  \/ ClaimGrant(r)
  \/ IssueCertificate(r)
  \/ Fail(r)

Next ==
  \/ Tick
  \/ Crash
  \/ PurgeExpired
  \/ \E u \in Users : Enroll(u)
  \/ \E g \in GrantIds : RevokeGrant(g) \/ MarkPublished(g)
  \/ \E c \in Creates : Create(c)
  \/ \E r \in Requests : Redeem(r)

Spec == Init /\ [][Next]_vars

--------------------------------------------------------------------------------
(* Properties.                                                             *)

Claimed(r) == claim[r] # None

\* ClaimGrant is "the one atomic step that makes a grant single-use": over all
\* interleavings of concurrent redemptions, replays, revocations, purges and
\* crashes, at most one request ever commits a claim on a grant.
SingleUse ==
  \A r, q \in Requests :
    Claimed(r) /\ Claimed(q) /\ env[r].grant = env[q].grant => r = q

\* A certificate that left the signer is in the certificates table, and as
\* long as the grant row exists the two tables tell the same story.
\* RecordCertificate ignores a conflicting row silently, so this holds only
\* because a second claim cannot happen.
AuditTrail ==
  \A r \in Requests : out[r] = "OK" =>
    LET c == answer[r]
        row == grants[c.grant]
    IN /\ c \in certificates
       /\ row.state = "stored" =>
            /\ row.redeemedBy = c.holder
            /\ row.user = c.user
            /\ row.expiresAt = c.validBefore

\* RememberNonce: an envelope that passed the replay check never passes it
\* again, although rows are pruned and every request uses the clock reading
\* it took when it started.
NoReplayAccepted ==
  \A r, q \in accepted : env[r] = env[q] => r = q

\* Only an HMAC under the grant's own secret consumes it, and the row then
\* names the holder that made it.  ClaimGrant verifies inside the transaction,
\* so a wrong proof rolls back.
OnlyProofSpends ==
  \A g \in GrantIds : grants[g].redeemedBy # None =>
    \E r \in Requests :
      /\ Claimed(r)
      /\ env[r].grant = g
      /\ env[r].proves
      /\ env[r].holder = grants[g].redeemedBy

\* A row that was redeemed or revoked keeps its redeemer and stays revoked
\* until PurgeExpired deletes it: RevokeGrant cannot reopen a spent grant and
\* ClaimGrant cannot spend a revoked one.
SettledRowsStaySettled ==
  [][\A g \in GrantIds :
       grants[g].state = "stored" /\ grants'[g].state = "stored" =>
         /\ grants[g].redeemedBy # None \/ grants[g].revoked =>
              grants'[g].redeemedBy = grants[g].redeemedBy
         /\ grants[g].revoked => grants'[g].revoked]_vars

\* What the code does keep of the promise below: Redeem compares expires_at
\* with a clock reading taken at its start, so a certificate can be issued after
\* the grant expired, but never later than a request can stall.
IssuedNearLifetime ==
  [][\A r \in Requests : answer'[r] # answer[r] =>
       now < answer'[r].validBefore + MaxStall]_vars

\* docs/whitepaper.md: H's copy of expires_at "is authoritative and is
\* re-checked at signing time"; a capability that expires in flight gets
\* GRANT_EXPIRED.  So no certificate is signed for a grant already expired.
RecheckedAtSigning ==
  [][\A r \in Requests : answer'[r] # answer[r] =>
       now < answer'[r].validBefore]_vars

\* signer.go: "MaxActiveGrants caps how many grants can be outstanding at
\* once."
CapRespected == Cardinality(ActiveGrants(now)) <= MaxActiveGrants

\* docs/whitepaper.md, certificate contents: the principal is "exactly one:
\* the enrolled ssh_user", "read from H's local enrollment record".
EnrolledPrincipal ==
  \A r \in Requests : pc[r] = "issue" => claim[r].user = host

\* The signer implements the ledger: rows that were never inserted are
\* unminted, rows that ClaimGrant would still consume are open, and a claim is
\* held from its COMMIT until the response.
HeldClaim(r) == [grant |-> env[r].grant, holder |-> env[r].holder]

Ledger == INSTANCE GrantLedger WITH
  unminted <- {g \in GrantIds : grants[g].state = "unused"},
  open <- {g \in GrantIds : /\ grants[g].state = "stored"
                            /\ grants[g].redeemedBy = None
                            /\ ~grants[g].revoked},
  held <- {HeldClaim(r) : r \in {q \in Requests : pc[q] = "issue"}},
  delivered <- {HeldClaim(r) : r \in {q \in Requests : out[q] = "OK"}}

\* Every step of the signer is a step of GrantLedger or changes nothing it
\* speaks of.
ImplementsLedger == Ledger!Spec
================================================================================
