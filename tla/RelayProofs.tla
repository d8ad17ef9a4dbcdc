------------------------------ MODULE RelayProofs ------------------------------
(***************************************************************************)
(* Safety of the relay from end to end: what visitors are told agrees with *)
(* the signer, and what is marked as published is served.                  *)
(*                                                                         *)
(* Relay is written as HostDO with a particular host and with GrantLedger  *)
(* for its signer.  RelayIsHostDO and RelayUsesLedger only say so, and let *)
(* the proofs about those two modules be used here.                        *)
(***************************************************************************)
EXTENDS Relay, HostDOProofs

--------------------------------------------------------------------------------
(* Types.                                                                  *)

\* The daemon's variables.  There is a connection exactly while a session is up,
\* and no redemption without one; a publication under way has a grant.
DaemonTypes ==
  /\ D!TypeOK
  /\ dpc = "up" <=> conn # None
  /\ \A q \in Calls : job[q] \in {"asked", "ok", "error"} => conn # None
  /\ dmsg \in Messages \cup {None}
  /\ ppc \in {"put", "mark"} => pub \in GrantIds

\* The rest of the relay's own variables.
WorldTypes ==
  /\ asked \subseteq Calls
  /\ published \cup revoked \subseteq GrantIds
  /\ net \subseteq Messages \cup GrantIds
  /\ drawn \in Nat
  /\ faults \in 0..MaxFaults

\* What can happen to the daemon.
DaemonStep ==
  \/ \E m \in Messages : D!SessionBegins(m) \/ D!Dial(m)
  \/ D!Registered \/ D!AttemptFails \/ D!SessionEnds
  \/ \E w \in Wires : D!Connected(w)
  \/ \E q \in Calls : \/ D!HandleFrame(q) \/ D!RefuseFrame(q) \/ D!Send(q)
                      \/ D!JobTimesOut(q) \/ D!Release(q)
                      \/ \E v \in {"ok", "error"} : D!SignerReplies(q, v)
  \/ \E G \in SUBSET GrantIds : D!PublishTick(G)
  \/ \E g \in GrantIds : D!Put(g)
  \/ D!PutAccepted \/ D!PutRefused \/ D!PutFails \/ D!MarkReturns

\* The daemon's own steps keep its types.
LEMMA DaemonTypesStep == DaemonTypes /\ (DaemonStep \/ UNCHANGED daemon) => DaemonTypes'
<1> SUFFICES ASSUME DaemonTypes, DaemonStep \/ UNCHANGED daemon PROVE DaemonTypes'
  OBVIOUS
<1>0. None \notin Wires BY InputsAssumption
<1> USE <1>0 DEF DaemonTypes, D!TypeOK
<1>1. CASE \/ \E m \in Messages : D!SessionBegins(m) \/ D!Dial(m)
           \/ D!Registered \/ D!AttemptFails
  BY <1>1 DEF D!SessionBegins, D!Dial, D!Registered, D!AttemptFails, D!publisher
<1>2. CASE D!SessionEnds \/ \E w \in Wires : D!Connected(w)
  BY <1>2 DEF D!SessionEnds, D!Connected, D!Cancelled
<1>3. ASSUME NEW q \in Calls, \/ D!HandleFrame(q) \/ D!RefuseFrame(q) \/ D!Send(q)
                              \/ D!JobTimesOut(q) \/ D!Release(q)
                              \/ \E v \in {"ok", "error"} : D!SignerReplies(q, v)
      PROVE  DaemonTypes'
  BY <1>3 DEF D!HandleFrame, D!RefuseFrame, D!Send, D!JobTimesOut, D!Release,
     D!SignerReplies, D!publisher
<1>4. CASE \/ \E G \in SUBSET GrantIds : D!PublishTick(G)
           \/ \E g \in GrantIds : D!Put(g)
           \/ D!PutAccepted \/ D!PutRefused \/ D!PutFails \/ D!MarkReturns
  BY <1>4 DEF D!PublishTick, D!Put, D!PutAccepted, D!PutRefused, D!PutFails, D!AfterFailure,
     D!MarkReturns
<1>5. CASE UNCHANGED daemon
  BY <1>5 DEF daemon
<1> QED BY <1>1, <1>2, <1>3, <1>4, <1>5 DEF DaemonStep

--------------------------------------------------------------------------------
(* Each action of the relay, part by part.                                 *)

\* A step of the object, or of the host on it, that sends the object no answer.
Quiet ==
  \/ ObjectStep
  \/ \E w \in Wires, m \in Messages : SignedBegin(w, m)
  \/ \E g \in GrantIds : PublishGrant(g)
  \/ \E a \in Agents : AgentRegisters(a)
  \/ UNCHANGED vars

\* The daemon answers a call, with what it knows of it.
Answering ==
  \E q \in Calls :
    /\ conn \in Wires
    /\ \/ HostSends(conn, [id |-> q, verdict |-> "error"])
       \/ job[q] = "ok" /\ HostSends(conn, [id |-> q, verdict |-> "ok"])

\* What each kind of step is for the object.
LEMMA ObjectPart ==
  ASSUME DaemonTypes, [RelayNext]_relayVars
  PROVE  Quiet \/ Answering
<1>0. conn \in Wires \cup {None} BY DEF DaemonTypes, D!TypeOK
<1>1. CASE Object
  BY <1>1, Zenon DEF Object, Quiet, ObjectStep
<1>2. CASE Session
  <2>1. ASSUME NEW m \in net \cap Messages, NEW w \in Wires, Arrives(w, m) PROVE Quiet
    BY <2>1 DEF Arrives, Quiet
  <2>2. ASSUME NEW w \in Wires, RegisterEnds(w) \/ RendezvousEnds(w) \/ CloseObserved(w)
        PROVE  Quiet
    BY <2>2 DEF RegisterEnds, RendezvousEnds, CloseObserved, Quiet, ObjectStep
  <2>3. ASSUME \/ SessionBegins \/ Dial \/ NoAnswer \/ SessionEnds
               \/ \E m \in net \cap Messages : Refused(m)
        PROVE  Quiet
    BY <2>3 DEF SessionBegins, Dial, NoAnswer, SessionEnds, Refused, Quiet
  <2> QED BY <1>2, <2>1, <2>2, <2>3, Zenon DEF Session
<1>3. ASSUME NEW q \in Calls, conn \in Wires, NEW v, v = "error" \/ (v = "ok" /\ job[q] = "ok"),
             Replies(q, v)
      PROVE  Quiet \/ Answering
  BY <1>3 DEF Replies, Quiet, Answering
<1>4. CASE Redemption
  <2>1. ASSUME NEW q \in Calls, FrameHandled(q) \/ SignerClaims(q) \/ SignerIssues(q)
                                \/ SignerRefuses(q) \/ SlotReleased(q)
        PROVE  Quiet
    BY <2>1 DEF FrameHandled, SignerClaims, SignerIssues, SignerRefuses, SlotReleased, Quiet
  <2>2. ASSUME NEW q \in Calls, FrameRefused(q) \/ AnswerSent(q)
        PROVE  Quiet \/ Answering
    BY <1>0, <1>3, <2>2 DEF FrameRefused, AnswerSent, D!Send
  <2> QED BY <1>4, <2>1, <2>2, Zenon DEF Redemption
<1>5. CASE Publication
  <2>1. ASSUME NEW g \in GrantIds, MintGrant(g) \/ RevokeGrant(g) \/ Put(g) \/ Published(g)
        PROVE  Quiet
    BY <2>1 DEF MintGrant, RevokeGrant, Put, Published, Quiet
  <2>2. ASSUME PublishTick \/ PutFails \/ MarkPublished PROVE Quiet
    BY <2>2 DEF PublishTick, PutFails, MarkPublished, Quiet
  <2> QED BY <1>5, <2>1, <2>2, Zenon DEF Publication
<1>6. CASE Failure
  <2>1. ASSUME \/ \E m \in net : CallLost(m)
               \/ GivesUp \/ CutAtDaemon \/ MarkFails
        PROVE  Quiet
    BY <2>1 DEF CallLost, GivesUp, CutAtDaemon, MarkFails, Quiet
  <2>2. ASSUME CutAtService \/ ServiceRestarts PROVE Quiet
    BY <1>0, <2>2 DEF CutAtService, ServiceRestarts, Quiet, ObjectStep
  <2>3. ASSUME NEW q \in Calls, RedemptionTimesOut(q) PROVE Quiet \/ Answering
    <3>1. \/ job[q] = "asked" /\ Replies(q, "error")
          \/ UNCHANGED vars
      BY <2>3 DEF RedemptionTimesOut, D!JobTimesOut
    <3>2. job[q] = "asked" => conn \in Wires BY <1>0 DEF DaemonTypes
    <3> QED BY <1>3, <3>1, <3>2 DEF Quiet
  <2> QED BY <1>6, <2>1, <2>2, <2>3, Zenon DEF Failure
<1>7. CASE UNCHANGED relayVars
  BY <1>7 DEF relayVars, Quiet
<1> QED BY <1>1, <1>2, <1>4, <1>5, <1>6, <1>7 DEF RelayNext

\* What each step is for the daemon.
LEMMA DaemonPart ==
  ASSUME WorldTypes, [RelayNext]_relayVars
  PROVE  DaemonStep \/ UNCHANGED daemon
<1> USE DEF DaemonStep
<1>1. CASE Object /\ UNCHANGED <<daemon, signer, net, drawn, faults>>
  BY <1>1
<1>2. CASE Session
  <2>1. ASSUME SessionBegins \/ Dial PROVE DaemonStep
    BY <2>1 DEF SessionBegins, Dial, Sends
  <2>2. ASSUME NEW m \in net \cap Messages, Refused(m) \/ \E w \in Wires : Arrives(w, m)
        PROVE  DaemonStep \/ UNCHANGED daemon
    BY <2>2 DEF Refused, Arrives
  <2>3. ASSUME NEW w \in Wires, RegisterEnds(w) \/ RendezvousEnds(w) \/ CloseObserved(w)
        PROVE  DaemonStep \/ UNCHANGED daemon
    BY <2>3 DEF RegisterEnds, RendezvousEnds, CloseObserved
  <2>4. ASSUME NoAnswer \/ SessionEnds PROVE DaemonStep
    BY <2>4 DEF NoAnswer, SessionEnds
  <2> HIDE DEF DaemonStep
  <2> QED BY <1>2, <2>1, <2>2, <2>3, <2>4, Zenon DEF Session
<1>3. ASSUME NEW q \in Calls, \/ FrameHandled(q) \/ FrameRefused(q)
                              \/ SignerClaims(q) \/ SignerIssues(q) \/ SignerRefuses(q)
                              \/ AnswerSent(q) \/ SlotReleased(q)
      PROVE  DaemonStep \/ UNCHANGED daemon
  BY <1>3 DEF FrameHandled, FrameRefused, SignerClaims, SignerIssues, SignerRefuses,
     AnswerSent, SlotReleased, Hears
<1>4. ASSUME NEW g \in GrantIds, MintGrant(g) \/ RevokeGrant(g) \/ Put(g) \/ Published(g)
      PROVE  DaemonStep \/ UNCHANGED daemon
  BY <1>4 DEF MintGrant, RevokeGrant, Put, Published
<1>5. CASE PublishTick
  <2>1. PendingPublications \in SUBSET GrantIds BY DEF PendingPublications
  <2>2. D!PublishTick(PendingPublications) BY <1>5 DEF PublishTick
  <2> QED BY <2>1, <2>2
<1>6. CASE PutFails \/ MarkPublished
  BY <1>6 DEF PutFails, MarkPublished
<1>7. CASE Failure
  BY <1>7 DEF Failure, CallLost, GivesUp, CutAtService, CutAtDaemon, ServiceRestarts,
     RedemptionTimesOut, MarkFails
<1>8. CASE UNCHANGED relayVars
  BY <1>8 DEF relayVars
<1> HIDE DEF DaemonStep
<1> QED BY <1>1, <1>2, <1>3, <1>4, <1>5, <1>6, <1>7, <1>8, Zenon
        DEF RelayNext, Redemption, Publication

\* What each step is for the signer's ledger.
LEMMA LedgerPart ==
  ASSUME WorldTypes, [RelayNext]_relayVars
  PROVE  L!Next \/ UNCHANGED ledger
<1>0. \A q \in Calls : EnvelopeOf[q].grant \in GrantIds
  BY InputsAssumption DEF Envelope
<1>1. CASE (Object /\ UNCHANGED <<daemon, signer, net, drawn, faults>>) \/ UNCHANGED relayVars
  BY <1>1 DEF signer, relayVars
<1>2. CASE Session
  BY <1>2 DEF Session, SessionBegins, Dial, Refused, Arrives, RegisterEnds, RendezvousEnds,
     CloseObserved, NoAnswer, SessionEnds, signer
<1>3. ASSUME NEW q \in Calls, \/ FrameHandled(q) \/ FrameRefused(q) \/ AnswerSent(q)
                              \/ SlotReleased(q)
      PROVE  UNCHANGED ledger
  BY <1>3 DEF FrameHandled, FrameRefused, AnswerSent, SlotReleased, signer
<1>4. ASSUME NEW q \in Calls, SignerClaims(q) \/ SignerIssues(q) \/ SignerRefuses(q)
      PROVE  L!Next
  BY <1>0, <1>4 DEF SignerClaims, SignerIssues, SignerRefuses, L!Next, L!Deliver
<1>5. ASSUME NEW g \in GrantIds, MintGrant(g) \/ RevokeGrant(g) PROVE L!Next
  BY <1>5 DEF MintGrant, RevokeGrant, L!Next
<1>6. ASSUME \/ \E g \in GrantIds : Put(g) \/ Published(g)
             \/ PublishTick \/ PutFails \/ MarkPublished
      PROVE  UNCHANGED ledger
  BY <1>6 DEF Put, Published, PublishTick, PutFails, MarkPublished, signer
<1>7. CASE Failure
  BY <1>7 DEF Failure, CallLost, GivesUp, CutAtService, CutAtDaemon, ServiceRestarts,
     RedemptionTimesOut, MarkFails, signer
<1> QED BY <1>1, <1>2, <1>3, <1>4, <1>5, <1>6, <1>7, Zenon
        DEF RelayNext, Redemption, Publication

\* Nothing else of the relay leaves its type.
LEMMA WorldTypesStep ==
  ASSUME WorldTypes, DaemonTypes, [RelayNext]_relayVars
  PROVE  WorldTypes'
<1>0. MaxFaults \in Nat BY RelayAssumption
<1> USE DEF WorldTypes, RelayNext, Session, Redemption, Publication, Failure,
     SessionBegins, Dial, Refused, Arrives, RegisterEnds, RendezvousEnds, CloseObserved,
     NoAnswer, SessionEnds, FrameHandled, FrameRefused, SignerClaims, SignerIssues,
     SignerRefuses, AnswerSent, SlotReleased, MintGrant, RevokeGrant, Put, Published, PublishTick,
     PutFails, MarkPublished, CallLost, GivesUp, CutAtService, CutAtDaemon,
     ServiceRestarts, RedemptionTimesOut, MarkFails, signer, relayVars
<1>1. asked' \subseteq Calls OBVIOUS
<1>2. published' \cup revoked' \subseteq GrantIds BY DEF DaemonTypes, D!MarkReturns
<1>3. net' \subseteq Messages \cup GrantIds BY DEF Sends
<1>4. drawn' \in Nat BY DEF Sends
<1>5. faults' \in 0..MaxFaults BY <1>0 DEF Fault
<1> QED BY <1>1, <1>2, <1>3, <1>4, <1>5

--------------------------------------------------------------------------------
(* The refinements, and type correctness.                                  *)

\* What the proofs about GrantLedger say here.
LP == INSTANCE GrantLedgerProofs WITH Holders <- Calls

RelayTypes == DaemonTypes /\ WorldTypes

\* The relay's own types hold throughout.
LEMMA RelayTypesHold == RelaySpec => []RelayTypes
<1>1. RelayInit => RelayTypes
  BY RelayAssumption DEF RelayInit, D!Init, RelayTypes, DaemonTypes, D!TypeOK, WorldTypes
<1>2. RelayTypes /\ [RelayNext]_relayVars => RelayTypes'
  BY DaemonPart, DaemonTypesStep, WorldTypesStep DEF RelayTypes
<1> QED BY <1>1, <1>2, PTL DEF RelaySpec

\* Every frame an answer is made of is one a host could have sent.
LEMMA RelayStep == RelayTypes /\ [RelayNext]_relayVars => [Next]_vars
<1>1. ASSUME Answering PROVE Next
  <2>1. \A q \in Calls : /\ [id |-> q, verdict |-> "ok"] \in Frame
                         /\ [id |-> q, verdict |-> "error"] \in Frame
    BY RelayAssumption DEF Frame
  <2>2. \E w \in Wires, f \in Frame : HostSends(w, f)
    BY <1>1, <2>1 DEF Answering
  <2> QED BY <2>2 DEF Next, HostStep
<1>2. ASSUME Quiet PROVE Next \/ UNCHANGED vars
  BY <1>2, Zenon DEF Quiet, Next, HostStep
<1> QED BY <1>1, <1>2, ObjectPart DEF RelayTypes

\* The daemon is one particular host of HostDO.
LEMMA RelayIsHostDO == RelaySpec => Spec
<1>1. RelayInit => Init BY DEF RelayInit
<1> QED BY <1>1, RelayStep, RelayTypesHold, PTL DEF RelaySpec, Spec

\* What HostDO promises whatever its host does holds with the daemon and the
\* signer as its host: frames go to the newest connection only, no signed call
\* acts twice, the attempts are capped and the audit rows agree with the answers.
THEOREM RelayKeepsHostDO ==
  RelaySpec => /\ OnlyNewestCarries
               /\ [](NoCallReplayed /\ AttemptsCapped /\ AuditMatchesAnswer)
BY RelayIsHostDO, OnlyNewestCarriesHolds, SignedCallsActOnce,
   RedeemAttemptsCapped, AuditTrailMatchesAnswers, PTL

\* The signer of the relay is GrantLedger, which Signer was shown to implement.
LEMMA RelayUsesLedger == RelaySpec => L!Spec
<1>1. RelayInit => L!Init BY DEF RelayInit
<1>2. RelayTypes /\ [RelayNext]_relayVars => [L!Next]_L!vars
  BY LedgerPart DEF RelayTypes, L!vars, ledger
<1> QED BY <1>1, <1>2, RelayTypesHold, PTL DEF RelaySpec, L!Spec

\* The ledger's invariant, with its types.
LEMMA LedgerHolds == RelaySpec => [](L!TypeOK /\ L!OneCertificatePerGrant)
<1>1. L!Init => LP!LedgerInv
  BY DEF L!Init, LP!LedgerInv, LP!TypeOK
<1>2. LP!LedgerInv /\ [L!Next]_L!vars => LP!LedgerInv'
  BY LP!StepLedgerInv DEF L!Next, L!vars, LP!Next, LP!vars, L!Mint, LP!Mint, L!Consume,
     LP!Consume, L!Deliver, LP!Deliver, L!Lose, LP!Lose, L!Withdraw, LP!Withdraw
<1>3. LP!LedgerInv => L!TypeOK /\ L!OneCertificatePerGrant
  BY DEF LP!LedgerInv, LP!TypeOK, L!TypeOK, L!Claim, LP!Claim, L!OneCertificatePerGrant
<1> QED BY <1>1, <1>2, <1>3, RelayUsesLedger, PTL DEF L!Spec

\* Object, daemon, ledger and everything between them is well typed.
THEOREM RelayTypeCorrect == RelaySpec => []RelayTypeOK
<1>1. TypeInv /\ RelayTypes /\ L!TypeOK => RelayTypeOK
  BY DEF TypeInv, RelayTypes, DaemonTypes, WorldTypes, RelayTypeOK
<1> QED
  BY <1>1, RelayIsHostDO, HostDOTypeCorrect, RelayTypesHold, LedgerHolds, PTL

--------------------------------------------------------------------------------
(* A published grant stays served until it expires.                        *)

Served(g) == g \in grants \/ ExpiresAt[g] <= now

\* The alarm deletes expired grants only, and time does not run back.
LEMMA ServedStays ==
  ASSUME TypeOK, [Next]_vars, NEW g \in GrantIds, Served(g)
  PROVE  Served(g)'
<1>0. /\ now \in Nat /\ ExpiresAt[g] \in Int /\ GrantRetention \in Nat /\ MaxTime \in Nat
  BY InputsAssumption, NumbersAssumption DEF TypeOK
<1>1. ASSUME now' = now, grants \subseteq grants' PROVE Served(g)'
  BY <1>1 DEF Served
<1>2. ASSUME NEW w \in Wires, \/ Register(w) \/ Rendezvous(w) \/ WebSocketClose(w)
                              \/ \E f \in toService[w] : WebSocketMessage(w, f)
                              \/ \E f \in Frame : HostSends(w, f)
                              \/ \E m \in Messages : SignedBegin(w, m)
      PROVE  Served(g)'
  <2>1. UNCHANGED <<now, grants>>
    BY <1>2 DEF Register, Rendezvous, WebSocketClose, WebSocketMessage, HostSends,
       SignedBegin, tables
  <2> QED BY <1>1, <2>1
<1>3. ASSUME NEW q \in Calls, Redeem(q) \/ RedeemTimesOut(q) PROVE Served(g)'
  <2>1. UNCHANGED <<now, grants>>
    BY <1>3 DEF Redeem, RedeemBegin, RedeemLookup, RedeemAgent, RedeemForward,
       RedeemTimesOut, tables
  <2> QED BY <1>1, <2>1
<1>4. CASE Alarm
  BY <1>0, <1>4 DEF Alarm, Served
<1>5. CASE Tick
  <2>1. now' >= now /\ now' \in Nat /\ grants' = grants BY <1>0, <1>5 DEF Tick, tables
  <2> QED BY <1>0, <2>1 DEF Served
<1>6. CASE \/ Restart \/ UNCHANGED vars
           \/ \E h \in GrantIds : PublishGrant(h)
           \/ \E a \in Agents : AgentRegisters(a)
  <2>1. now' = now /\ grants \subseteq grants'
    BY <1>6 DEF Restart, vars, PublishGrant, AgentRegisters, tables
  <2> QED BY <1>1, <2>1
<1> QED BY <1>2, <1>3, <1>4, <1>5, <1>6, Zenon DEF Next, ObjectStep, HostStep

\* The grant that is being marked is served already.
ServedInv ==
  /\ \A g \in published : Served(g)
  /\ ppc = "mark" => Served(pub)

\* Only a PUT that was accepted is marked, and only what is marked is published.
LEMMA PublisherPart ==
  ASSUME WorldTypes, DaemonTypes, [RelayNext]_relayVars
  PROVE  /\ \/ published' = published
            \/ ppc = "mark" /\ published' = published \cup {pub}
         /\ ppc' = "mark" =>
              \/ ppc = "mark" /\ pub' = pub
              \/ pub \in GrantIds /\ pub' = pub /\ pub \in grants'
<1> USE DEF signer, relayVars, daemon
<1>1. CASE \/ Object /\ UNCHANGED <<daemon, signer, net, drawn, faults>>
           \/ UNCHANGED relayVars
  BY <1>1
<1>2. CASE Session
  <2>1. UNCHANGED published
    BY <1>2 DEF Session, SessionBegins, Dial, Refused, Arrives, RegisterEnds, RendezvousEnds,
       CloseObserved, NoAnswer, SessionEnds
  <2>2. UNCHANGED <<ppc, pub>> \/ ppc' \in {"idle", "off"}
    BY <1>2 DEF Session, SessionBegins, Dial, Refused, Arrives, RegisterEnds, RendezvousEnds,
       CloseObserved, NoAnswer, SessionEnds, D!SessionBegins, D!Dial, D!Registered,
       D!Connected, D!AttemptFails, D!SessionEnds, D!publisher
  <2> QED BY <2>1, <2>2
<1>3. CASE Redemption
  BY <1>3 DEF Redemption, FrameHandled, FrameRefused, SignerClaims, SignerIssues,
     SignerRefuses, AnswerSent, SlotReleased, Hears, D!HandleFrame, D!RefuseFrame,
     D!SignerReplies, D!Send, D!Release, D!publisher
<1>4. ASSUME NEW g \in GrantIds, Published(g)
      PROVE  /\ UNCHANGED published
             /\ ppc' = "mark" => \/ ppc = "mark" /\ pub' = pub
                                 \/ pub \in GrantIds /\ pub' = pub /\ pub \in grants'
  BY <1>4 DEF Published, PublishGrant, D!PutAccepted, D!PutRefused
<1>5. ASSUME \/ \E g \in GrantIds : MintGrant(g) \/ RevokeGrant(g) \/ Put(g)
             \/ PublishTick \/ PutFails
      PROVE  /\ UNCHANGED published
             /\ ppc' = "mark" => ppc = "mark" /\ pub' = pub
  BY <1>5 DEF MintGrant, RevokeGrant, Put, PublishTick, PutFails, D!Put, D!PublishTick,
     D!PutFails, D!AfterFailure
<1>6. CASE MarkPublished
  BY <1>6 DEF MarkPublished, D!MarkReturns
<1>7. CASE Failure
  <2>1. UNCHANGED published
    BY <1>7 DEF Failure, CallLost, GivesUp, CutAtService, CutAtDaemon, ServiceRestarts,
       RedemptionTimesOut, MarkFails
  <2>2. UNCHANGED <<ppc, pub>> \/ ppc' \in {"idle", "off"}
    BY <1>7 DEF Failure, CallLost, GivesUp, CutAtService, CutAtDaemon, ServiceRestarts,
       RedemptionTimesOut, MarkFails, D!AttemptFails, D!SessionEnds, D!JobTimesOut,
       D!MarkReturns, D!publisher
  <2> QED BY <2>1, <2>2
<1> QED BY <1>1, <1>2, <1>3, <1>4, <1>5, <1>6, <1>7 DEF RelayNext, Publication

\* published_at is only ever set for a grant that the service has, until it has
\* expired: answers to the PUT may be late, lost or to a session that is over.
THEOREM MarkedGrantsAreServed == RelaySpec => []MarkedIsServed
<1>1. RelayInit => ServedInv BY DEF RelayInit, D!Init, ServedInv
<1>2. ASSUME TypeInv, RelayTypes, ServedInv, [RelayNext]_relayVars PROVE ServedInv'
  <2>1. TypeOK /\ [Next]_vars /\ WorldTypes /\ DaemonTypes
    BY <1>2, RelayStep DEF TypeInv, RelayTypes
  <2>2. \A g \in GrantIds : Served(g) => Served(g)' BY <2>1, ServedStays
  <2>3. published \subseteq GrantIds /\ (ppc = "mark" => pub \in GrantIds)
    BY <2>1 DEF WorldTypes, DaemonTypes
  <2>4. /\ published' = published \/ (ppc = "mark" /\ published' = published \cup {pub})
        /\ ppc' = "mark" =>
             \/ ppc = "mark" /\ pub' = pub
             \/ pub \in GrantIds /\ pub' = pub /\ pub \in grants'
    BY <1>2, <2>1, PublisherPart
  <2>5. \A g \in published' : Served(g)' BY <1>2, <2>2, <2>3, <2>4 DEF ServedInv
  <2>6. ppc' = "mark" => Served(pub)' BY <1>2, <2>2, <2>3, <2>4 DEF ServedInv, Served
  <2> QED BY <2>5, <2>6 DEF ServedInv
<1>3. ServedInv => MarkedIsServed BY DEF ServedInv, Served, MarkedIsServed
<1> QED
  BY <1>1, <1>2, <1>3, RelayIsHostDO, HostDOTypeCorrect, RelayTypesHold, PTL
     DEF RelaySpec

--------------------------------------------------------------------------------
(* Visitors are told what the signer did.                                  *)

\* Word of a certificate travels from the signer over the daemon and a frame to
\* the visitor, and at each place it is true.
OkInv ==
  /\ \A q \in Calls : job[q] = "ok" => Claim(q) \in delivered
  /\ \A w \in Wires : \A f \in toService[w] : f.verdict = "ok" => Claim(f.id) \in delivered
  /\ \A q \in Calls : answer[q] = "OK" => Claim(q) \in delivered

\* A visitor is told OK only because a frame under way says so.
LEMMA OkComesFromFrames ==
  ASSUME TypeOK, Quiet \/ \E w \in Wires, f \in Frame : HostSends(w, f)
  PROVE  \A q \in Calls : answer'[q] = "OK" =>
           \/ answer[q] = "OK"
           \/ \E w \in Wires : \E f \in toService[w] : f.id = q /\ f.verdict = "ok"
<1>0. answer \in [Calls -> Answers] BY DEF TypeOK
<1> DEFINE Goal == \A q \in Calls : answer'[q] = "OK" =>
             \/ answer[q] = "OK"
             \/ \E w \in Wires : \E f \in toService[w] : f.id = q /\ f.verdict = "ok"
<1> SUFFICES Goal OBVIOUS
<1>1. ASSUME UNCHANGED answer PROVE Goal
  BY <1>1
<1>2. ASSUME NEW q \in Calls, Redeem(q) \/ RedeemTimesOut(q) PROVE Goal
  <2>1. \A p \in Calls : answer'[p] = "OK" => answer[p] = "OK"
    BY <1>0, <1>2 DEF Redeem, RedeemBegin, RedeemLookup, RedeemAgent, RedeemForward,
       RedeemTimesOut, Answer, Proceed, Settle
  <2> QED BY <2>1
<1>3. ASSUME NEW w \in Wires, WebSocketClose(w) PROVE Goal
  <2>1. \A p \in Calls : answer'[p] = "OK" => answer[p] = "OK"
    BY <1>3 DEF WebSocketClose, Settle
  <2> QED BY <2>1
<1>4. ASSUME NEW w \in Wires, NEW f \in toService[w], WebSocketMessage(w, f) PROVE Goal
  <2>1. f.verdict \in {"ok", "error", "bad"}
    <3>1. f \in Frame /\ Verdicts \subseteq {"ok", "error", "bad"}
      BY InputsAssumption DEF TypeOK
    <3> QED BY <3>1 DEF Frame
  <2>2. \/ UNCHANGED answer
        \/ answer' = [q \in Calls |-> IF q \in {f.id} THEN Relayed(f.verdict) ELSE answer[q]]
    BY <1>4 DEF WebSocketMessage, Settle
  <2>3. Relayed(f.verdict) = "OK" => f.verdict = "ok" BY <2>1 DEF Relayed
  <2> QED BY <2>2, <2>3
<1>5. CASE Restart
  <2>1. \A p \in Calls : answer'[p] = "OK" => answer[p] = "OK" BY <1>5 DEF Restart
  <2> QED BY <2>1
<1>6. ASSUME NEW w \in Wires, \/ Register(w) \/ Rendezvous(w)
                              \/ \E f \in Frame : HostSends(w, f)
                              \/ \E m \in Messages : SignedBegin(w, m)
      PROVE  UNCHANGED answer
  BY <1>6 DEF Register, Rendezvous, HostSends, SignedBegin, redeems
<1>7. ASSUME \/ Alarm \/ Tick \/ UNCHANGED vars
             \/ \E g \in GrantIds : PublishGrant(g)
             \/ \E a \in Agents : AgentRegisters(a)
      PROVE  UNCHANGED answer
  BY <1>7 DEF Alarm, Tick, vars, PublishGrant, AgentRegisters, redeems
<1> HIDE DEF Goal
<1>8. CASE ObjectStep
  BY <1>1, <1>2, <1>3, <1>4, <1>5, <1>6, <1>7, <1>8 DEF ObjectStep
<1>9. CASE \/ \E w \in Wires, m \in Messages : SignedBegin(w, m)
           \/ \E w \in Wires, f \in Frame : HostSends(w, f)
  BY <1>1, <1>6, <1>9
<1>10. CASE \/ UNCHANGED vars \/ \E g \in GrantIds : PublishGrant(g)
            \/ \E a \in Agents : AgentRegisters(a)
  BY <1>1, <1>7, <1>10
<1> QED BY <1>8, <1>9, <1>10 DEF Quiet

\* A step that sends no answer puts no frame on a socket.
LEMMA QuietFrames ==
  ASSUME TypeOK, Quiet
  PROVE  \A w \in Wires : toService'[w] \subseteq toService[w]
<1>0. toService \in [Wires -> SUBSET Frame] BY DEF TypeOK
<1> DEFINE Goal == \A w \in Wires : toService'[w] \subseteq toService[w]
<1> SUFFICES Goal OBVIOUS
<1>1. ASSUME UNCHANGED toService PROVE Goal
  BY <1>1
<1>2. ASSUME NEW q \in Calls, Redeem(q) \/ RedeemTimesOut(q) PROVE UNCHANGED toService
  BY <1>2 DEF Redeem, RedeemBegin, RedeemLookup, RedeemAgent, RedeemForward,
     RedeemTimesOut, links
<1>3. ASSUME NEW w \in Wires,
             WebSocketClose(w) \/ \E f \in toService[w] : WebSocketMessage(w, f)
      PROVE  Goal
  <2>1. \E F \in SUBSET toService[w] : toService' = [toService EXCEPT ![w] = F]
    BY <1>3 DEF WebSocketClose, WebSocketMessage
  <2> QED BY <1>0, <2>1
<1>4. CASE Restart
  BY <1>4 DEF Restart
<1>5. ASSUME NEW w \in Wires, \/ Register(w) \/ Rendezvous(w)
                              \/ \E m \in Messages : SignedBegin(w, m)
      PROVE  UNCHANGED toService
  BY <1>5 DEF Register, Rendezvous, SignedBegin, links
<1>6. ASSUME \/ Alarm \/ Tick \/ UNCHANGED vars
             \/ \E g \in GrantIds : PublishGrant(g)
             \/ \E a \in Agents : AgentRegisters(a)
      PROVE  UNCHANGED toService
  BY <1>6 DEF Alarm, Tick, vars, PublishGrant, AgentRegisters, links
<1> HIDE DEF Goal
<1>7. CASE ObjectStep
  BY <1>1, <1>2, <1>3, <1>4, <1>5, <1>6, <1>7 DEF ObjectStep
<1>8. CASE \E w \in Wires, m \in Messages : SignedBegin(w, m)
  BY <1>1, <1>5, <1>8
<1>9. CASE \/ UNCHANGED vars \/ \E g \in GrantIds : PublishGrant(g)
           \/ \E a \in Agents : AgentRegisters(a)
  BY <1>1, <1>6, <1>9
<1> QED BY <1>7, <1>8, <1>9 DEF Quiet

\* The daemon has an "ok" only from the signer, with the certificate delivered,
\* and a delivered certificate is never taken back.
LEMMA VerdictPart ==
  ASSUME DaemonTypes, [RelayNext]_relayVars
  PROVE  /\ delivered \subseteq delivered'
         /\ \A q \in Calls : job'[q] = "ok" => job[q] = "ok" \/ Claim(q) \in delivered'
<1>0. job \in [Calls -> {"none", "asked", "ok", "error", "answered", "cut", "done"}]
  BY DEF DaemonTypes, D!TypeOK
<1> USE DEF signer, ledger, relayVars, daemon
<1>1. CASE \/ Object /\ UNCHANGED <<daemon, signer, net, drawn, faults>>
           \/ UNCHANGED relayVars
  BY <1>1
<1>2. CASE Session
  <2>1. UNCHANGED delivered
    BY <1>2 DEF Session, SessionBegins, Dial, Refused, Arrives, RegisterEnds, RendezvousEnds,
       CloseObserved, NoAnswer, SessionEnds
  <2>2. UNCHANGED job \/ job' = [q \in Calls |-> D!Cancelled(job[q])]
    BY <1>2 DEF Session, SessionBegins, Dial, Refused, Arrives, RegisterEnds, RendezvousEnds,
       CloseObserved, NoAnswer, SessionEnds, D!SessionBegins, D!Dial, D!Registered,
       D!Connected, D!AttemptFails, D!SessionEnds
  <2> QED BY <2>1, <2>2 DEF D!Cancelled
<1>3. ASSUME NEW q \in Calls, \/ FrameHandled(q) \/ FrameRefused(q) \/ AnswerSent(q)
                              \/ SlotReleased(q)
      PROVE  /\ UNCHANGED delivered
             /\ \E v \in {"asked", "answered", "done"} : job' = [job EXCEPT ![q] = v]
  BY <1>3 DEF FrameHandled, FrameRefused, AnswerSent, SlotReleased, D!HandleFrame,
     D!RefuseFrame, D!Send, D!Release
<1>4. ASSUME NEW q \in Calls, SignerClaims(q) \/ SignerRefuses(q)
      PROVE  /\ UNCHANGED delivered
             /\ UNCHANGED job \/ job' = [job EXCEPT ![q] = "error"]
  BY <1>4 DEF SignerClaims, SignerRefuses, Hears, L!Consume, L!Lose, D!SignerReplies
<1>5. ASSUME NEW q \in Calls, SignerIssues(q)
      PROVE  /\ delivered' = delivered \cup {Claim(q)}
             /\ UNCHANGED job \/ job' = [job EXCEPT ![q] = "ok"]
  BY <1>5 DEF SignerIssues, Hears, L!Deliver, D!SignerReplies
<1>6. CASE Redemption
  BY <1>0, <1>3, <1>4, <1>5, <1>6 DEF Redemption
<1>7. CASE Publication
  BY <1>7 DEF Publication, MintGrant, RevokeGrant, Put, Published, PublishTick, PutFails,
     MarkPublished, L!Mint, L!Withdraw, D!Put, D!PutAccepted, D!PutRefused, D!PublishTick,
     D!PutFails, D!MarkReturns
<1>8. CASE Failure
  <2>1. UNCHANGED delivered
    BY <1>8 DEF Failure, CallLost, GivesUp, CutAtService, CutAtDaemon, ServiceRestarts,
       RedemptionTimesOut, MarkFails
  <2>2. \/ UNCHANGED job \/ job' = [q \in Calls |-> D!Cancelled(job[q])]
        \/ \E q \in Calls : job' = [job EXCEPT ![q] = "cut"]
    BY <1>8 DEF Failure, CallLost, GivesUp, CutAtService, CutAtDaemon, ServiceRestarts,
       RedemptionTimesOut, MarkFails, D!AttemptFails, D!SessionEnds, D!JobTimesOut,
       D!MarkReturns
  <2> QED BY <1>0, <2>1, <2>2 DEF D!Cancelled
<1> QED BY <1>1, <1>2, <1>6, <1>7, <1>8 DEF RelayNext

\* An OK comes with the one certificate issued for the grant, and to nobody but
\* its holder, for any number of calls, grants, wires and failures, whatever
\* connections are replaced and answers late between signer and visitor.
THEOREM AnswersAreTrue == RelaySpec => []AnswersMatchLedger
<1>1. RelayInit => OkInv BY DEF RelayInit, Init, D!Init, OkInv
<1>2. ASSUME TypeInv, RelayTypes, OkInv, [RelayNext]_relayVars PROVE OkInv'
  <2>0. TypeOK /\ DaemonTypes /\ toService \in [Wires -> SUBSET Frame]
    BY <1>2 DEF TypeInv, TypeOK, RelayTypes
  <2>1. /\ delivered \subseteq delivered'
        /\ \A q \in Calls : job'[q] = "ok" => job[q] = "ok" \/ Claim(q) \in delivered'
    BY <1>2, <2>0, VerdictPart
  <2>2. \A q \in Calls : Claim(q)' = Claim(q) BY DEF Claim
  <2>3. \A w \in Wires : \A f \in toService[w] : f.id \in Calls
    BY <2>0 DEF Frame
  <2>4. Quiet \/ Answering BY <1>2, <2>0, ObjectPart
  <2>5. Answering => \E w \in Wires, f \in Frame : HostSends(w, f)
    <3>1. \A q \in Calls : /\ [id |-> q, verdict |-> "ok"] \in Frame
                           /\ [id |-> q, verdict |-> "error"] \in Frame
      BY RelayAssumption DEF Frame
    <3> QED BY <3>1 DEF Answering
  <2>6. \A q \in Calls : answer'[q] = "OK" =>
          \/ answer[q] = "OK"
          \/ \E w \in Wires : \E f \in toService[w] : f.id = q /\ f.verdict = "ok"
    BY <2>0, <2>4, <2>5, OkComesFromFrames
  <2>7. ASSUME NEW w \in Wires, NEW f \in toService'[w], f.verdict = "ok"
        PROVE  f \in toService[w] \/ \E q \in Calls : f.id = q /\ job[q] = "ok"
    <3>1. CASE Quiet BY <2>0, <2>7, <3>1, QuietFrames
    <3>2. ASSUME NEW q \in Calls, conn \in Wires,
                 HostSends(conn, [id |-> q, verdict |-> "error"])
          PROVE  f \in toService[w]
      <4>1. toService' = [toService EXCEPT ![conn] = @ \cup {[id |-> q, verdict |-> "error"]}]
        BY <3>2 DEF HostSends
      <4> QED BY <2>0, <2>7, <3>2, <4>1
    <3>3. ASSUME NEW q \in Calls, conn \in Wires, job[q] = "ok",
                 HostSends(conn, [id |-> q, verdict |-> "ok"])
          PROVE  f \in toService[w] \/ f.id = q
      <4>1. toService' = [toService EXCEPT ![conn] = @ \cup {[id |-> q, verdict |-> "ok"]}]
        BY <3>3 DEF HostSends
      <4> QED BY <2>0, <2>7, <3>3, <4>1
    <3> QED BY <2>4, <3>1, <3>2, <3>3 DEF Answering
  <2>8. \A q \in Calls : job'[q] = "ok" => Claim(q) \in delivered'
    BY <1>2, <2>1 DEF OkInv
  <2>9. \A w \in Wires : \A f \in toService'[w] :
          f.verdict = "ok" => Claim(f.id) \in delivered'
    BY <1>2, <2>1, <2>7 DEF OkInv
  <2>10. \A q \in Calls : answer'[q] = "OK" => Claim(q) \in delivered'
    BY <1>2, <2>1, <2>6 DEF OkInv
  <2> QED BY <2>2, <2>8, <2>9, <2>10 DEF OkInv, Claim
<1>3. ASSUME OkInv, L!OneCertificatePerGrant PROVE AnswersMatchLedger
  <2>1. ASSUME NEW p \in Calls, NEW q \in Calls, answer[p] = "OK", answer[q] = "OK",
               EnvelopeOf[p].grant = EnvelopeOf[q].grant
        PROVE  p = q
    <3>1. Claim(p) \in delivered /\ Claim(q) \in delivered BY <1>3, <2>1 DEF OkInv
    <3>2. Claim(p).grant = Claim(q).grant BY <2>1 DEF Claim
    <3>3. Claim(p) = Claim(q) BY <1>3, <3>1, <3>2 DEF L!OneCertificatePerGrant
    <3>4. Claim(p).holder = p /\ Claim(q).holder = q BY DEF Claim
    <3> QED BY <3>3, <3>4
  <2> QED BY <1>3, <2>1 DEF OkInv, AnswersMatchLedger
<1> QED
  BY <1>1, <1>2, <1>3, RelayIsHostDO, HostDOTypeCorrect, RelayTypesHold, LedgerHolds,
     PTL DEF RelaySpec
================================================================================
