--------------------------- MODULE SignerRefinement ---------------------------
(* TLAPS proofs that the signer's audit trail is complete and that the     *)
(* signer implements GrantLedger.                                          *)
EXTENDS SignerProofs

--------------------------------------------------------------------------------
(* The audit trail.  RecordCertificate meets no conflicting row because    *)
(* the certificates in the table belong to finished requests, answered or  *)
(* lost, whose claims are on other grants.                                 *)

\* A request has no answer before it is done.
Unanswered == \A r \in Requests : pc[r] # "done" => out[r] = ""

\* A returned certificate is in the table and says what the claim says.
AnswerRecorded ==
  \A r \in Requests : out[r] = "OK" =>
    /\ Claimed(r)
    /\ answer[r] \in certificates
    /\ answer[r].grant = env[r].grant
    /\ answer[r].holder = env[r].holder
    /\ answer[r].user = claim[r].user
    /\ answer[r].validBefore = claim[r].expiresAt

\* The table holds nothing else.
RowsClaimed ==
  \A c \in certificates :
    \E r \in Requests : pc[r] = "done" /\ Claimed(r) /\ env[r].grant = c.grant

AuditInv == Unanswered /\ AnswerRecorded /\ RowsClaimed

\* A step that answers no request positively, resumes none that is done, and
\* leaves claims, answers and certificates alone.
LEMMA AuditFrame ==
  ASSUME AuditInv, UNCHANGED <<certificates, claim, answer, env>>,
         \A r \in Requests : out'[r] = "OK" <=> out[r] = "OK",
         \A r \in Requests : pc[r] = "done" => pc'[r] = "done",
         Unanswered'
  PROVE  AuditInv'
  BY DEF AuditInv, AnswerRecorded, RowsClaimed, Claimed

\* A request that finishes with an error.
LEMMA AuditError ==
  ASSUME TypeOK, AuditInv, UNCHANGED <<certificates, claim, answer, env>>,
         NEW r \in Requests, NEW code \in Codes, code # "OK",
         pc[r] # "done", Finish(r, code)
  PROVE  AuditInv'
<1>1. out[r] # "OK"
  BY DEF AuditInv, Unanswered
<1>2. \A q \in Requests : out'[q] = "OK" <=> out[q] = "OK"
  BY <1>1 DEF Finish, TypeOK
<1>3. Unanswered'
  BY DEF Finish, TypeOK, AuditInv, Unanswered
<1>4. \A q \in Requests : pc[q] = "done" => pc'[q] = "done"
  BY DEF Finish, TypeOK
<1> QED
  BY <1>2, <1>3, <1>4, AuditFrame

\* ClaimGrant touches neither the certificates nor any answered request.
LEMMA ClaimGrantAudit ==
  ASSUME TypeOK, AuditInv, NEW r \in Requests, ClaimGrant(r)
  PROVE  AuditInv'
<1> DEFINE status == ClaimStatus(grants[env[r].grant], env[r], at[r])
<1>1. CASE status = "OK"
  <2>1. /\ UNCHANGED <<certificates, answer, env, out>>
        /\ \A q \in Requests : q # r => claim'[q] = claim[q]
        /\ pc' = [pc EXCEPT ![r] = "issue"]
    BY <1>1 DEF ClaimGrant, TypeOK
  <2>2. out[r] # "OK"
    BY DEF ClaimGrant, AuditInv, Unanswered
  <2>3. AnswerRecorded'
    BY <2>1, <2>2 DEF AuditInv, AnswerRecorded, Claimed
  <2>4. RowsClaimed'
    <3>1. \A q \in Requests : pc[q] = "done" => pc'[q] = "done" /\ claim'[q] = claim[q]
      BY <2>1 DEF ClaimGrant, TypeOK
    <3> QED
      BY <2>1, <3>1 DEF AuditInv, RowsClaimed, Claimed
  <2>5. Unanswered'
    BY <2>1 DEF AuditInv, Unanswered, TypeOK, ClaimGrant
  <2> QED
    BY <2>3, <2>4, <2>5 DEF AuditInv
<1>2. CASE status # "OK"
  <2>1. status \in Codes
    BY DEF ClaimStatus, Codes
  <2>2. /\ UNCHANGED <<certificates, claim, answer, env>>
        /\ Finish(r, status)
        /\ pc[r] # "done"
    BY <1>2 DEF ClaimGrant
  <2> QED
    BY <1>2, <2>1, <2>2, AuditError
<1> QED
  BY <1>1, <1>2

\* IssueCertificate: no certificate of this grant is in the table yet, so the
\* new one is stored and not dropped.
LEMMA IssueAudit ==
  ASSUME TypeOK, PrincipalInv, ClaimInv, AuditInv,
         NEW r \in Requests, IssueCertificate(r)
  PROVE  AuditInv'
<1>1. pc[r] = "issue" /\ out[r] = "" /\ Claimed(r)
  BY DEF IssueCertificate, AuditInv, Unanswered, PrincipalInv, Claimed
<1>2. UNCHANGED <<claim, env>>
  BY DEF IssueCertificate
<1>3. PICK serial \in Serials :
        \/ /\ Finish(r, "INTERNAL")
           /\ UNCHANGED <<certificates, answer>>
        \/ /\ certificates' = Recorded(IssuedCertificate(r, serial))
           /\ \/ /\ answer' = [answer EXCEPT ![r] = IssuedCertificate(r, serial)]
                 /\ Finish(r, "OK")
              \/ Finish(r, "LOST") /\ UNCHANGED answer
  BY DEF IssueCertificate
<1>4. CASE Finish(r, "INTERNAL") /\ UNCHANGED <<certificates, answer>>
  BY <1>1, <1>2, <1>4, AuditError DEF Codes
<1>5. CASE /\ certificates' = Recorded(IssuedCertificate(r, serial))
           /\ \/ /\ answer' = [answer EXCEPT ![r] = IssuedCertificate(r, serial)]
                 /\ Finish(r, "OK")
              \/ Finish(r, "LOST") /\ UNCHANGED answer
  <2> DEFINE c == IssuedCertificate(r, serial)
  <2>1. /\ c.grant = env[r].grant
        /\ c.holder = env[r].holder
        /\ c.user = claim[r].user
        /\ c.validBefore = claim[r].expiresAt
    BY DEF IssuedCertificate
  <2>2. ~ \E d \in certificates : d.grant = c.grant
    <3> SUFFICES ASSUME NEW d \in certificates, d.grant = c.grant PROVE FALSE
      OBVIOUS
    <3>1. PICK q \in Requests :
            pc[q] = "done" /\ Claimed(q) /\ env[q].grant = d.grant
      BY DEF AuditInv, RowsClaimed
    <3>2. q = r
      BY <1>1, <2>1, <3>1 DEF ClaimInv, SingleUse
    <3> QED
      BY <1>1, <3>1, <3>2
  <2> HIDE DEF c
  <2>3. certificates' = certificates \cup {c}
    BY <1>5, <2>2 DEF Recorded, c
  <2>4. /\ \A q \in Requests : q # r => answer'[q] = answer[q] /\ out'[q] = out[q]
        /\ out'[r] = "OK" => answer'[r] = c
    BY <1>5 DEF TypeOK, Finish, c
  <2>5. pc'[r] = "done" /\ \A q \in Requests : q # r => pc'[q] = pc[q]
    BY <1>5 DEF TypeOK, Finish
  <2>6. AnswerRecorded'
    BY <1>1, <1>2, <2>1, <2>3, <2>4
    DEF AuditInv, AnswerRecorded, Claimed
  <2>7. RowsClaimed'
    BY <1>1, <1>2, <2>1, <2>3, <2>5 DEF AuditInv, RowsClaimed, Claimed
  <2>8. Unanswered'
    BY <2>4, <2>5 DEF AuditInv, Unanswered
  <2> QED
    BY <2>6, <2>7, <2>8 DEF AuditInv
<1> QED
  BY <1>3, <1>4, <1>5

\* Every action preserves the audit invariant.
LEMMA StepAuditInv ==
  TypeOK /\ PrincipalInv /\ ClaimInv /\ AuditInv /\ [Next]_vars => AuditInv'
<1> SUFFICES ASSUME TypeOK, PrincipalInv, ClaimInv, AuditInv, [Next]_vars
             PROVE  AuditInv'
  OBVIOUS
<1>1. ASSUME NEW r \in Requests, ClaimGrant(r) PROVE AuditInv'
  BY <1>1, ClaimGrantAudit
<1>2. ASSUME NEW r \in Requests, IssueCertificate(r) PROVE AuditInv'
  BY <1>2, IssueAudit
<1>3. ASSUME NEW r \in Requests, Fail(r) PROVE AuditInv'
  BY <1>3, AuditError DEF Fail, InFlight, Codes, db
<1>4. ASSUME NEW r \in Requests, Receive(r) PROVE AuditInv'
  <2>1. UNCHANGED <<certificates, claim, answer, env>> /\ pc[r] = "idle"
    BY <1>4 DEF Receive, db
  <2>2. CASE RequestError(env[r]) = ""
    <3>1. UNCHANGED out /\ pc' = [pc EXCEPT ![r] = "prune"]
      BY <1>4, <2>2 DEF Receive
    <3>2. Unanswered'
      BY <2>1, <3>1 DEF AuditInv, Unanswered, TypeOK
    <3> QED
      BY <2>1, <3>1, <3>2, AuditFrame
  <2>3. CASE RequestError(env[r]) # ""
    <3>1. RequestError(env[r]) \in Codes /\ RequestError(env[r]) # "OK"
      BY DEF RequestError, Codes
    <3>2. Finish(r, RequestError(env[r]))
      BY <1>4, <2>3 DEF Receive
    <3> QED
      BY <2>1, <3>1, <3>2, AuditError
  <2> QED
    BY <2>2, <2>3
<1>5. ASSUME NEW r \in Requests, PruneNonces(r) PROVE AuditInv'
  <2>1. Unanswered'
    BY <1>5 DEF PruneNonces, AuditInv, Unanswered, TypeOK
  <2> QED
    BY <1>5, <2>1, AuditFrame DEF PruneNonces
<1>6. ASSUME NEW r \in Requests, InsertNonce(r) PROVE AuditInv'
  <2>1. UNCHANGED <<certificates, claim, answer, env>> /\ pc[r] = "nonce"
    BY <1>6 DEF InsertNonce
  <2>2. CASE nonces[env[r].nonce] = Unseen
    <3>1. UNCHANGED out /\ pc' = [pc EXCEPT ![r] = "claim"]
      BY <1>6, <2>2 DEF InsertNonce
    <3>2. Unanswered'
      BY <2>1, <3>1 DEF AuditInv, Unanswered, TypeOK
    <3> QED
      BY <2>1, <3>1, <3>2, AuditFrame
  <2>3. CASE nonces[env[r].nonce] # Unseen
    <3>1. Finish(r, "REPLAYED_NONCE")
      BY <1>6, <2>3 DEF InsertNonce
    <3> QED
      BY <2>1, <3>1, AuditError DEF Codes
  <2> QED
    BY <2>2, <2>3
<1>7. CASE Crash
  <2>1. UNCHANGED <<certificates, claim, answer, env>>
    BY <1>7 DEF Crash, db
  <2>2. \A r \in Requests : out'[r] = "OK" <=> out[r] = "OK"
    BY <1>7 DEF Crash, InFlight, AuditInv, Unanswered
  <2>3. Unanswered'
    BY <1>7 DEF Crash, InFlight, AuditInv, Unanswered
  <2>4. \A r \in Requests : pc[r] = "done" => pc'[r] = "done"
    BY <1>7 DEF Crash, InFlight
  <2> QED
    BY <2>1, <2>2, <2>3, <2>4, AuditFrame
<1>8. ASSUME UNCHANGED <<certificates, claim, answer, env, out, pc>>
      PROVE  AuditInv'
  BY <1>8, AuditFrame DEF AuditInv, Unanswered
<1>9. ASSUME \/ Tick \/ PurgeExpired \/ UNCHANGED vars
             \/ \E u \in Users : Enroll(u)
             \/ \E g \in GrantIds : RevokeGrant(g) \/ MarkPublished(g)
             \/ \E c \in Creates : Create(c)
      PROVE  UNCHANGED <<certificates, claim, answer, env, out, pc>>
  BY <1>9 DEF Tick, PurgeExpired, vars, Enroll, RevokeGrant, MarkPublished,
              Create, CreateBegin, CreateCount, CreateInsert, db, redemption
<1> QED
  BY <1>1, <1>2, <1>3, <1>4, <1>5, <1>6, <1>7, <1>8, <1>9 DEF Next, Redeem

\* The audit invariant holds in every reachable state.
LEMMA AuditInvariant == Spec => []AuditInv
<1>1. Init => AuditInv
  BY DEF Init, AuditInv, Unanswered, AnswerRecorded, RowsClaimed
<1>2. TypeOK /\ PrincipalInv /\ ClaimInv /\ AuditInv /\ [Next]_vars => AuditInv'
  BY StepAuditInv
<1> QED
  BY <1>1, <1>2, TypeCorrect, ClaimInvariant, PTL DEF Spec

\* Every certificate that left the signer is in the certificates table and
\* agrees with its grant row, for any number of requests and crashes.
THEOREM AuditTrailComplete == Spec => []AuditTrail
<1>1. TypeOK /\ ClaimInv /\ AuditInv => AuditTrail
  <2> SUFFICES ASSUME TypeOK, ClaimInv, AuditInv,
                      NEW r \in Requests, out[r] = "OK"
               PROVE  LET c == answer[r]
                          row == grants[c.grant]
                      IN /\ c \in certificates
                         /\ row.state = "stored" =>
                              /\ row.redeemedBy = c.holder
                              /\ row.user = c.user
                              /\ row.expiresAt = c.validBefore
    BY DEF AuditTrail
  <2> QED
    BY DEF AuditInv, AnswerRecorded, ClaimInv, ClaimBacked
<1> QED
  BY <1>1, TypeCorrect, ClaimInvariant, AuditInvariant, PTL

--------------------------------------------------------------------------------
(* The signer implements GrantLedger.                                      *)

LUnminted == {g \in GrantIds : grants[g].state = "unused"}
LOpen == {g \in GrantIds : /\ grants[g].state = "stored"
                           /\ grants[g].redeemedBy = None
                           /\ ~grants[g].revoked}
LHeld == {HeldClaim(r) : r \in {q \in Requests : pc[q] = "issue"}}
LDelivered == {HeldClaim(r) : r \in {q \in Requests : out[q] = "OK"}}

\* A step of the ledger, said with the names above.
LedgerStep ==
  \/ \E g \in GrantIds :
       /\ g \in LUnminted
       /\ LUnminted' = LUnminted \ {g}
       /\ LOpen' = LOpen \cup {g}
       /\ LHeld' = LHeld /\ LDelivered' = LDelivered
  \/ \E g \in GrantIds, h \in Holders :
       /\ g \in LOpen
       /\ LOpen' = LOpen \ {g}
       /\ LHeld' = LHeld \cup {[grant |-> g, holder |-> h]}
       /\ LUnminted' = LUnminted /\ LDelivered' = LDelivered
  \/ \E c \in LHeld :
       /\ LHeld' = LHeld \ {c}
       /\ LDelivered' = LDelivered \cup {c}
       /\ LUnminted' = LUnminted /\ LOpen' = LOpen
  \/ /\ LHeld' \in SUBSET LHeld
     /\ LUnminted' = LUnminted /\ LOpen' = LOpen /\ LDelivered' = LDelivered
  \/ /\ LOpen' \in SUBSET LOpen
     /\ LUnminted' = LUnminted /\ LHeld' = LHeld /\ LDelivered' = LDelivered

\* LedgerStep is what it says it is.
LEMMA LedgerStepIsNext == LedgerStep => Ledger!Next
  BY DEF LedgerStep, LUnminted, LOpen, LHeld, LDelivered,
         Ledger!Next, Ledger!Mint, Ledger!Consume, Ledger!Deliver, Ledger!Lose,
         Ledger!Withdraw

\* Claims in flight and answers stay as they are.
LEMMA HeldFrame ==
  ASSUME UNCHANGED env,
         \A r \in Requests : pc'[r] = "issue" <=> pc[r] = "issue",
         \A r \in Requests : out'[r] = "OK" <=> out[r] = "OK"
  PROVE  LHeld' = LHeld /\ LDelivered' = LDelivered
  BY DEF LHeld, LDelivered, HeldClaim

\* Rows stay as they are.
LEMMA RowFrame ==
  ASSUME UNCHANGED grants
  PROVE  LUnminted' = LUnminted /\ LOpen' = LOpen
  BY DEF LUnminted, LOpen

\* A request ends in an error: its claim, if it had one, is lost.
LEMMA ErrorLoses ==
  ASSUME TypeOK, AuditInv, UNCHANGED <<env, grants>>,
         NEW r \in Requests, NEW code \in Codes, code # "OK",
         pc[r] # "done", Finish(r, code)
  PROVE  LedgerStep
<1>1. out[r] # "OK"
  BY DEF AuditInv, Unanswered
<1>2. \A q \in Requests : /\ out'[q] = "OK" <=> out[q] = "OK"
                          /\ pc'[q] = "issue" => pc[q] = "issue"
  BY <1>1 DEF Finish, TypeOK
<1>3. LDelivered' = LDelivered
  BY <1>2 DEF LDelivered, HeldClaim
<1>4. LHeld' \in SUBSET LHeld
  BY <1>2 DEF LHeld, HeldClaim
<1> QED
  BY <1>3, <1>4, RowFrame DEF LedgerStep

\* A fresh database is a fresh ledger.
LEMMA InitRefines == Init => Ledger!Init
<1> SUFFICES ASSUME Init PROVE Ledger!Init
  OBVIOUS
<1>1. \A g \in GrantIds : grants[g].state = "unused"
  BY DEF Init, NoRow
<1>2. \A r \in Requests : pc[r] # "issue" /\ out[r] # "OK"
  BY DEF Init
<1> QED
  BY <1>1, <1>2 DEF Ledger!Init

\* Every step of the signer is a step of the ledger.
LEMMA StepRefines ==
  TypeOK /\ PrincipalInv /\ ClaimInv /\ AuditInv /\ [Next]_vars => LedgerStep
<1> SUFFICES ASSUME TypeOK, PrincipalInv, ClaimInv, AuditInv, [Next]_vars
             PROVE  LedgerStep
  OBVIOUS
<1>0. \A q \in Requests : env[q].grant \in GrantIds /\ env[q].holder \in Holders
  BY EnvelopesAssumption DEF TypeOK, Envelope
<1>1. ASSUME NEW c \in Creates, CreateInsert(c) PROVE LedgerStep
  <2>1. PICK g \in GrantIds :
          /\ grants[g].state = "unused"
          /\ grants' = [grants EXCEPT ![g] =
                          [NoRow EXCEPT
                             !.state = "stored",
                             !.user = draft[c].user,
                             !.expiresAt = draft[c].at + draft[c].ttl]]
    BY <1>1 DEF CreateInsert
  <2>2. /\ \A k \in GrantIds : k # g => grants'[k] = grants[k]
        /\ grants'[g].state = "stored"
        /\ grants'[g].redeemedBy = None
        /\ ~grants'[g].revoked
    BY <2>1 DEF TypeOK, NoRow
  <2>3. LUnminted' = LUnminted \ {g} /\ g \in LUnminted
    BY <2>1, <2>2 DEF LUnminted
  <2>4. LOpen' = LOpen \cup {g}
    BY <2>1, <2>2 DEF LOpen
  <2>5. LHeld' = LHeld /\ LDelivered' = LDelivered
    BY <1>1, HeldFrame DEF CreateInsert, redemption
  <2> QED
    BY <2>3, <2>4, <2>5 DEF LedgerStep
<1>2. ASSUME NEW g \in GrantIds, RevokeGrant(g) \/ MarkPublished(g)
      PROVE  LedgerStep
  <2>1. \A k \in GrantIds : /\ grants'[k].state = grants[k].state
                            /\ grants'[k].redeemedBy = grants[k].redeemedBy
                            /\ grants[k].revoked => grants'[k].revoked
    <3>1. CASE RevokeGrant(g)
      BY <3>1 DEF RevokeGrant, TypeOK, Row
    <3>2. CASE MarkPublished(g)
      BY <3>2 DEF MarkPublished, TypeOK, Row
    <3> QED
      BY <1>2, <3>1, <3>2
  <2>2. LUnminted' = LUnminted
    BY <2>1 DEF LUnminted
  <2>3. LOpen' \in SUBSET LOpen
    BY <2>1 DEF LOpen
  <2>4. LHeld' = LHeld /\ LDelivered' = LDelivered
    BY <1>2, HeldFrame DEF RevokeGrant, MarkPublished, redemption
  <2> QED
    BY <2>2, <2>3, <2>4 DEF LedgerStep
<1>3. CASE PurgeExpired
  <2>1. \A k \in GrantIds :
          \/ grants'[k] = grants[k]
          \/ grants[k].state = "stored" /\ grants'[k].state = "deleted"
    BY <1>3 DEF PurgeExpired, NoRow
  <2>2. LUnminted' = LUnminted
    BY <2>1 DEF LUnminted
  <2>3. LOpen' \in SUBSET LOpen
    BY <2>1 DEF LOpen
  <2>4. LHeld' = LHeld /\ LDelivered' = LDelivered
    BY <1>3, HeldFrame DEF PurgeExpired, redemption
  <2> QED
    BY <2>2, <2>3, <2>4 DEF LedgerStep
<1>4. ASSUME NEW r \in Requests, ClaimGrant(r) PROVE LedgerStep
  <2> DEFINE g == env[r].grant
             status == ClaimStatus(grants[g], env[r], at[r])
  <2>1. CASE status = "OK"
    <3>1. g \in LOpen
      BY <1>0, <2>1 DEF ClaimStatus, LOpen
    <3>2. /\ grants' = [grants EXCEPT ![g].redeemedBy = env[r].holder]
          /\ pc' = [pc EXCEPT ![r] = "issue"]
          /\ UNCHANGED <<env, out>>
      BY <1>4, <2>1 DEF ClaimGrant
    <3>3. /\ \A k \in GrantIds : k # g => grants'[k] = grants[k]
          /\ grants'[g].state = grants[g].state
          /\ grants'[g].redeemedBy # None
      BY <1>0, <3>2, NoneAssumption DEF TypeOK, Row
    <3>4. LOpen' = LOpen \ {g}
      BY <3>1, <3>3 DEF LOpen
    <3>5. LUnminted' = LUnminted
      BY <1>0, <3>3 DEF LUnminted
    <3>6. LHeld' = LHeld \cup {[grant |-> g, holder |-> env[r].holder]}
      <4>1. \A q \in Requests : pc'[q] = "issue" <=> (pc[q] = "issue" \/ q = r)
        BY <3>2 DEF TypeOK
      <4> QED
        BY <3>2, <4>1 DEF LHeld, HeldClaim
    <3>7. LDelivered' = LDelivered
      BY <3>2 DEF LDelivered, HeldClaim
    <3> QED
      BY <1>0, <3>1, <3>4, <3>5, <3>6, <3>7 DEF LedgerStep
  <2>2. CASE status # "OK"
    <3>1. status \in Codes
      BY DEF ClaimStatus, Codes
    <3>2. UNCHANGED <<env, grants>> /\ Finish(r, status) /\ pc[r] # "done"
      BY <1>4, <2>2 DEF ClaimGrant
    <3> QED
      BY <2>2, <3>1, <3>2, ErrorLoses
  <2> QED
    BY <2>1, <2>2
<1>5. ASSUME NEW r \in Requests, IssueCertificate(r) PROVE LedgerStep
  <2>1. /\ UNCHANGED <<env, grants>>
        /\ pc[r] = "issue"
        /\ Finish(r, "INTERNAL") \/ Finish(r, "OK") \/ Finish(r, "LOST")
    BY <1>5 DEF IssueCertificate
  <2>2. CASE Finish(r, "INTERNAL") \/ Finish(r, "LOST")
    BY <2>1, <2>2, ErrorLoses DEF Codes
  <2>3. CASE Finish(r, "OK")
    <3>1. \A q \in Requests :
            /\ pc'[q] = "issue" <=> (pc[q] = "issue" /\ q # r)
            /\ out'[q] = "OK" <=> (out[q] = "OK" \/ q = r)
      BY <2>3 DEF Finish, TypeOK
    <3>2. \A q \in Requests :
            pc[q] = "issue" /\ HeldClaim(q) = HeldClaim(r) => q = r
      <4> SUFFICES ASSUME NEW q \in Requests, pc[q] = "issue",
                          HeldClaim(q) = HeldClaim(r)
                   PROVE  q = r
        OBVIOUS
      <4>1. env[q].grant = env[r].grant
        BY DEF HeldClaim
      <4>2. Claimed(q) /\ Claimed(r)
        BY <2>1 DEF PrincipalInv, Claimed
      <4> QED
        BY <4>1, <4>2 DEF ClaimInv, SingleUse
    <3>3. HeldClaim(r) \in LHeld
      BY <2>1 DEF LHeld
    <3>4. LHeld' = LHeld \ {HeldClaim(r)}
      <4>1. \A q \in Requests : HeldClaim(q)' = HeldClaim(q)
        BY <2>1 DEF HeldClaim
      <4> QED
        BY <3>1, <3>2, <4>1 DEF LHeld
    <3>5. LDelivered' = LDelivered \cup {HeldClaim(r)}
      <4>1. \A q \in Requests : HeldClaim(q)' = HeldClaim(q)
        BY <2>1 DEF HeldClaim
      <4> QED
        BY <3>1, <4>1 DEF LDelivered
    <3> QED
      BY <2>1, <3>3, <3>4, <3>5, RowFrame DEF LedgerStep
  <2> QED
    BY <2>1, <2>2, <2>3
<1>6. ASSUME NEW r \in Requests, Fail(r) PROVE LedgerStep
  BY <1>6, ErrorLoses DEF Fail, InFlight, Codes, db
<1>7. ASSUME NEW r \in Requests, Receive(r) PROVE LedgerStep
  <2>1. UNCHANGED <<env, grants>> /\ pc[r] = "idle"
    BY <1>7 DEF Receive, db
  <2>2. CASE RequestError(env[r]) = ""
    <3>1. UNCHANGED out /\ pc' = [pc EXCEPT ![r] = "prune"]
      BY <1>7, <2>2 DEF Receive
    <3>2. \A q \in Requests : pc'[q] = "issue" <=> pc[q] = "issue"
      BY <2>1, <3>1 DEF TypeOK
    <3> QED
      BY <2>1, <3>1, <3>2, HeldFrame, RowFrame DEF LedgerStep
  <2>3. CASE RequestError(env[r]) # ""
    <3>1. RequestError(env[r]) \in Codes /\ RequestError(env[r]) # "OK"
      BY DEF RequestError, Codes
    <3>2. Finish(r, RequestError(env[r]))
      BY <1>7, <2>3 DEF Receive
    <3> QED
      BY <2>1, <3>1, <3>2, ErrorLoses
  <2> QED
    BY <2>2, <2>3
<1>8. ASSUME NEW r \in Requests, PruneNonces(r) PROVE LedgerStep
  <2>1. \A q \in Requests : pc'[q] = "issue" <=> pc[q] = "issue"
    BY <1>8 DEF PruneNonces, TypeOK
  <2> QED
    BY <1>8, <2>1, HeldFrame, RowFrame DEF PruneNonces, LedgerStep
<1>9. ASSUME NEW r \in Requests, InsertNonce(r) PROVE LedgerStep
  <2>1. UNCHANGED <<env, grants>> /\ pc[r] = "nonce"
    BY <1>9 DEF InsertNonce
  <2>2. CASE nonces[env[r].nonce] = Unseen
    <3>1. UNCHANGED out /\ pc' = [pc EXCEPT ![r] = "claim"]
      BY <1>9, <2>2 DEF InsertNonce
    <3>2. \A q \in Requests : pc'[q] = "issue" <=> pc[q] = "issue"
      BY <2>1, <3>1 DEF TypeOK
    <3> QED
      BY <2>1, <3>1, <3>2, HeldFrame, RowFrame DEF LedgerStep
  <2>3. CASE nonces[env[r].nonce] # Unseen
    <3>1. Finish(r, "REPLAYED_NONCE")
      BY <1>9, <2>3 DEF InsertNonce
    <3> QED
      BY <2>1, <3>1, ErrorLoses DEF Codes
  <2> QED
    BY <2>2, <2>3
<1>10. CASE Crash
  <2>1. UNCHANGED <<env, grants>>
    BY <1>10 DEF Crash, db
  <2>2. \A r \in Requests : /\ out'[r] = "OK" <=> out[r] = "OK"
                            /\ pc'[r] = "issue" => pc[r] = "issue"
    BY <1>10 DEF Crash, InFlight, AuditInv, Unanswered
  <2>3. LDelivered' = LDelivered
    BY <2>1, <2>2 DEF LDelivered, HeldClaim
  <2>4. LHeld' \in SUBSET LHeld
    BY <2>1, <2>2 DEF LHeld, HeldClaim
  <2> QED
    BY <2>1, <2>3, <2>4, RowFrame DEF LedgerStep
<1>11. ASSUME UNCHANGED <<grants, env, out, pc>> PROVE LedgerStep
  BY <1>11, HeldFrame, RowFrame DEF LedgerStep
<1>12. ASSUME \/ Tick \/ UNCHANGED vars
              \/ \E u \in Users : Enroll(u)
              \/ \E c \in Creates :
                   (\E ttl \in TTLs : CreateBegin(c, ttl)) \/ CreateCount(c)
       PROVE  UNCHANGED <<grants, env, out, pc>>
  BY <1>12 DEF Tick, vars, Enroll, CreateBegin, CreateCount, db, redemption
<1> QED
  BY <1>1, <1>2, <1>3, <1>4, <1>5, <1>6, <1>7, <1>8, <1>9, <1>10, <1>11, <1>12
  DEF Next, Create, Redeem

\* The signer implements the ledger, for every set of requests, grants and
\* envelopes and whatever crashes: a grant is minted once, consumed once while
\* open, and its certificate is delivered or lost.
THEOREM SignerImplementsLedger == Spec => ImplementsLedger
<1>1. TypeOK /\ PrincipalInv /\ ClaimInv /\ AuditInv /\ [Next]_vars
        => [Ledger!Next]_(Ledger!vars)
  BY StepRefines, LedgerStepIsNext
<1> QED
  BY <1>1, InitRefines, TypeCorrect, ClaimInvariant, AuditInvariant, PTL
  DEF Spec, ImplementsLedger, Ledger!Spec
================================================================================
