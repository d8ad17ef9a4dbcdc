--------------------------------- MODULE Relay ---------------------------------
(***************************************************************************)
(* The way of a grant and of a redemption from end to end: HostDO, the     *)
(* daemon, and the signer as GrantLedger promises it.                      *)
(*                                                                         *)
(* A call of the daemon is in net from the moment it is sent until the     *)
(* service takes it up or it is lost.  The daemon may give up first, and   *)
(* the call arrive all the same.  What goes wrong by itself is counted in  *)
(* faults and stops at MaxFaults; what follows from it is not counted.     *)
(***************************************************************************)
EXTENDS HostDO

CONSTANTS MaxInflight, MaxFaults

VARIABLES
  dpc, dmsg, conn, ppc, pub, todo, job,      \* Daemon
  unminted, open, held, delivered,           \* GrantLedger
  asked,      \* redemptions the signer is working on
  published,  \* grants with a published_at
  revoked,    \* grants with a revoked_at
  net,        \* calls of the daemon under way to the service
  drawn,      \* nonces the signer has drawn
  faults      \* failures so far

D == INSTANCE Daemon
\* Every call asks for a key of its own to be certified.
L == INSTANCE GrantLedger WITH Holders <- Calls

daemon == <<dpc, dmsg, conn, ppc, pub, todo, job>>
ledger == <<unminted, open, held, delivered>>
signer == <<ledger, asked, published, revoked>>
relayVars == <<vars, daemon, signer, net, drawn, faults>>

ASSUME RelayAssumption ==
  /\ Nonces \subseteq Nat \ {0}
  /\ MaxInflight \in Nat
  /\ MaxFaults \in Nat
  /\ {"ok", "error"} \subseteq Verdicts   \* what the daemon sends

RelayTypeOK ==
  /\ TypeOK
  /\ D!TypeOK
  /\ L!TypeOK
  /\ dmsg \in Messages \cup {None}
  /\ asked \subseteq Calls
  /\ published \cup revoked \subseteq GrantIds
  /\ net \subseteq Messages \cup GrantIds
  /\ drawn \in Nat
  /\ faults \in 0..MaxFaults

RelayInit ==
  /\ Init
  /\ D!Init
  /\ L!Init
  /\ asked = {} /\ published = {} /\ revoked = {}
  /\ net = {}
  /\ drawn = 0
  /\ faults = 0

Fault == faults < MaxFaults /\ faults' = faults + 1

\* The signer signs with the time and a fresh nonce.
Signed(kind) == [kind |-> kind, genuine |-> TRUE, ts |-> now, nonce |-> drawn + 1]

\* The call is signed and sent off.
Sends(m) ==
  /\ m \in Messages
  /\ drawn' = drawn + 1
  /\ net' = net \cup {m}

--------------------------------------------------------------------------------
(* A session comes about.                                                  *)

SessionBegins ==
  /\ D!SessionBegins(Signed("register"))
  /\ Sends(Signed("register"))
  /\ UNCHANGED <<vars, signer, faults>>

Dial ==
  /\ D!Dial(Signed("connect"))
  /\ Sends(Signed("connect"))
  /\ UNCHANGED <<vars, signer, faults>>

\* The service takes up a call.
Arrives(w, m) ==
  /\ m \in net
  /\ SignedBegin(w, m)
  /\ net' = net \ {m}
  /\ UNCHANGED <<daemon, signer, drawn, faults>>

\* Refused before a table is touched.
Refused(m) ==
  /\ m \in net
  /\ ~Admissible(m)
  /\ net' = net \ {m}
  /\ IF dmsg = m THEN D!AttemptFails ELSE UNCHANGED daemon
  /\ UNCHANGED <<vars, signer, drawn, faults>>

\* A handler ends and its answer reaches the daemon, if that still waits.
RegisterEnds(w) ==
  /\ Register(w)
  /\ IF dmsg # serving[w].msg THEN UNCHANGED daemon
     ELSE IF Accepts(w) THEN D!Registered ELSE D!AttemptFails
  /\ UNCHANGED <<signer, net, drawn, faults>>

RendezvousEnds(w) ==
  /\ Rendezvous(w)
  /\ IF dmsg # serving[w].msg THEN UNCHANGED daemon
     ELSE IF Accepts(w) THEN D!Connected(w) ELSE D!AttemptFails
  /\ UNCHANGED <<signer, net, drawn, faults>>

\* A call is lost on its way.
CallLost(m) ==
  /\ Fault
  /\ m \in net
  /\ net' = net \ {m}
  /\ UNCHANGED <<vars, daemon, signer, drawn>>

\* The timeout of a call that nobody will answer any more.
NoAnswer ==
  /\ dmsg # None
  /\ dmsg \notin net
  /\ \A w \in Wires : serving[w] # None => serving[w].msg # dmsg
  /\ D!AttemptFails
  /\ UNCHANGED <<vars, signer, net, drawn, faults>>

\* The daemon gives up while its call is still under way, or the signer fails
\* it between two calls.
GivesUp ==
  /\ Fault
  /\ D!AttemptFails
  /\ UNCHANGED <<vars, signer, net, drawn>>

--------------------------------------------------------------------------------
(* A session ends.                                                         *)

\* The daemon's end of the connection of w is closed.
PeerGone(w) == conn # w

\* The object learns that the other end is gone, or that it has taken note of
\* being replaced.
CloseObserved(w) ==
  /\ PeerGone(w)
  /\ WebSocketClose(w)
  /\ UNCHANGED <<daemon, signer, net, drawn, faults>>

\* Mutant: only a reset ends the session.
SessionEnds_Reset ==
  /\ conn # None
  /\ sock[conn] = "closed"
  /\ D!SessionEnds
  /\ UNCHANGED <<vars, signer, net, drawn, faults>>

\* The daemon reads the object's close frame, or the reset of a connection
\* whose other end is gone.
SessionEnds ==
  /\ conn # None
  /\ sock[conn] # "open"
  /\ D!SessionEnds
  /\ UNCHANGED <<vars, signer, net, drawn, faults>>

\* The connection fails; one end sees it first.
CutAtService ==
  /\ Fault
  /\ conn # None
  /\ WebSocketClose(conn)
  /\ UNCHANGED <<daemon, signer, net, drawn>>

CutAtDaemon ==
  /\ Fault
  /\ D!SessionEnds
  /\ UNCHANGED <<vars, signer, net, drawn>>

ServiceRestarts ==
  /\ Fault
  /\ Restart
  /\ UNCHANGED <<daemon, signer, net, drawn>>

--------------------------------------------------------------------------------
(* Redemptions.                                                            *)

Claim(q) == [grant |-> EnvelopeOf[q].grant, holder |-> q]

\* The daemon writes a frame; on a connection that is gone it is lost.
Replies(q, verdict) ==
  IF sock[conn] \in {"open", "closing"}
    THEN HostSends(conn, [id |-> q, verdict |-> verdict])
    ELSE UNCHANGED vars

\* The request goes on to the signer unchanged.
FrameHandled(q) ==
  /\ conn # None
  /\ q \in toHost[conn]
  /\ D!HandleFrame(q)
  /\ asked' = asked \cup {q}
  /\ UNCHANGED <<vars, ledger, published, revoked, net, drawn, faults>>

FrameRefused(q) ==
  /\ conn # None
  /\ q \in toHost[conn]
  /\ D!RefuseFrame(q)
  /\ Replies(q, "error")
  /\ UNCHANGED <<signer, net, drawn, faults>>

\* The signer commits the claim, whether the daemon still waits or not.
SignerClaims(q) ==
  /\ q \in asked
  /\ L!Consume(EnvelopeOf[q].grant, q)
  /\ UNCHANGED <<vars, daemon, asked, published, revoked, net, drawn, faults>>

\* The signer's answer, to whoever is left to hear it.
Hears(q, verdict) ==
  IF job[q] = "asked" THEN D!SignerReplies(q, verdict) ELSE UNCHANGED daemon

SignerIssues(q) ==
  /\ q \in asked
  /\ L!Deliver(Claim(q))
  /\ asked' = asked \ {q}
  /\ Hears(q, "ok")
  /\ UNCHANGED <<vars, published, revoked, net, drawn, faults>>

\* Refused, or failed with the claim committed: then the grant is spent.
SignerRefuses(q) ==
  /\ q \in asked
  /\ asked' = asked \ {q}
  /\ L!Lose
  /\ held' = held \ {Claim(q)}
  /\ Hears(q, "error")
  /\ UNCHANGED <<vars, published, revoked, net, drawn, faults>>

AnswerSent(q) ==
  /\ conn # None
  /\ D!Send(q)
  /\ Replies(q, job[q])
  /\ UNCHANGED <<signer, net, drawn, faults>>

\* After 15 s the context of the reply has expired too.  What conn.Write does
\* then is the library's business: the error may be sent or not, and the
\* connection may be torn down.  The signer goes on regardless.
RedemptionTimesOut(q) ==
  /\ Fault
  /\ \/ D!JobTimesOut(q) /\ Replies(q, "error")
     \/ D!JobTimesOut(q) /\ UNCHANGED vars
     \/ job[q] = "asked" /\ D!SessionEnds /\ UNCHANGED vars
  /\ UNCHANGED <<signer, net, drawn>>

SlotReleased(q) ==
  /\ D!Release(q)
  /\ UNCHANGED <<vars, signer, net, drawn, faults>>

--------------------------------------------------------------------------------
(* Grants.                                                                 *)

MintGrant(g) ==
  /\ L!Mint(g)
  /\ UNCHANGED <<vars, daemon, asked, published, revoked, net, drawn, faults>>

RevokeGrant(g) ==
  /\ g \notin unminted \cup revoked
  /\ revoked' = revoked \cup {g}
  /\ L!Withdraw
  /\ open' = open \ {g}
  /\ UNCHANGED <<vars, daemon, asked, published, net, drawn, faults>>

\* The signer's list: a grant that was redeemed is still on it.
PendingPublications ==
  {g \in GrantIds \ (unminted \cup published \cup revoked) : ExpiresAt[g] > now}

PublishTick ==
  /\ PendingPublications # {}
  /\ D!PublishTick(PendingPublications)
  /\ UNCHANGED <<vars, signer, net, drawn, faults>>

Put(g) ==
  /\ D!Put(g)
  /\ net' = net \cup {g}
  /\ UNCHANGED <<vars, signer, drawn, faults>>

\* publishGrant, and the daemon hears of it if it still waits.
Published(g) ==
  /\ g \in net
  /\ net' = net \ {g}
  /\ IF MayPublish(g) THEN PublishGrant(g) ELSE UNCHANGED vars
  /\ IF pub = g /\ ppc = "put"
       THEN IF MayPublish(g) THEN D!PutAccepted ELSE D!PutRefused
       ELSE UNCHANGED daemon
  /\ UNCHANGED <<signer, drawn, faults>>

\* The PUT gets no answer; it may have been lost or still be under way.
PutFails ==
  /\ ppc = "put"
  /\ IF pub \in net THEN Fault ELSE UNCHANGED faults
  /\ D!PutFails
  /\ UNCHANGED <<vars, signer, net, drawn>>

MarkPublished ==
  /\ D!MarkReturns
  /\ published' = published \cup {pub}
  /\ UNCHANGED <<vars, ledger, asked, revoked, net, drawn, faults>>

MarkFails ==
  /\ Fault
  /\ D!MarkReturns
  /\ UNCHANGED <<vars, signer, net, drawn>>

--------------------------------------------------------------------------------
\* The object's own steps that concern no one else.
Object ==
  \/ \E q \in Calls : Redeem(q) \/ RedeemTimesOut(q)
  \/ \E w \in Wires : \E f \in toService[w] : WebSocketMessage(w, f)
  \/ \E a \in Agents : AgentRegisters(a)
  \/ Alarm
  \/ Tick

Session ==
  \/ SessionBegins \/ Dial
  \/ \E m \in net \cap Messages : Refused(m) \/ \E w \in Wires : Arrives(w, m)
  \/ \E w \in Wires : RegisterEnds(w) \/ RendezvousEnds(w) \/ CloseObserved(w)
  \/ NoAnswer
  \/ SessionEnds

Redemption ==
  \E q \in Calls :
    \/ FrameHandled(q) \/ FrameRefused(q)
    \/ SignerClaims(q) \/ SignerIssues(q) \/ SignerRefuses(q)
    \/ AnswerSent(q) \/ SlotReleased(q)

Publication ==
  \/ \E g \in GrantIds : MintGrant(g) \/ RevokeGrant(g) \/ Put(g) \/ Published(g)
  \/ PublishTick
  \/ PutFails
  \/ MarkPublished

Failure ==
  \/ \E m \in net : CallLost(m)
  \/ GivesUp
  \/ CutAtService \/ CutAtDaemon \/ ServiceRestarts
  \/ \E q \in Calls : RedemptionTimesOut(q)
  \/ MarkFails

RelayNext ==
  \/ Object /\ UNCHANGED <<daemon, signer, net, drawn, faults>>
  \/ Session
  \/ Redemption
  \/ Publication
  \/ Failure

\* Everything but the choices of owners, visitors and agents, and failures.
Progress ==
  \/ /\ \/ \E q \in Busy : Redeem(q) \/ RedeemTimesOut(q)
        \/ \E w \in Wires : \E f \in toService[w] : WebSocketMessage(w, f)
        \/ Tick
     /\ UNCHANGED <<daemon, signer, net, drawn, faults>>
  \/ Session
  \/ Redemption
  \/ \E g \in GrantIds : Put(g) \/ Published(g)
  \/ PublishTick
  \/ PutFails /\ UNCHANGED faults
  \/ MarkPublished

\* The parts do not all stop while one of them has something to do: handlers
\* and timers run, Run loops, calls arrive or time out, the signer answers.
RelayFairness == WF_relayVars(Progress)

RelaySpec == RelayInit /\ [][RelayNext]_relayVars /\ RelayFairness

--------------------------------------------------------------------------------
(* Properties.                                                             *)

\* What a visitor is told agrees with the signer, with replaced connections,
\* late answers and retries between them: an OK comes with the one certificate
\* issued for the grant, and to nobody but its holder.
AnswersMatchLedger ==
  \A q \in Calls : answer[q] = "OK" =>
    /\ Claim(q) \in delivered
    /\ \A p \in Calls : answer[p] = "OK" /\ EnvelopeOf[p].grant = EnvelopeOf[q].grant
                           => p = q

\* published_at is never cleared, so it may only be set for a grant the service
\* has, and has until it expires: the publish may be answered late, repeated,
\* or answered to a session that is over.
MarkedIsServed ==
  \A g \in published : g \in grants \/ ExpiresAt[g] <= now

\* "The waiter must always be answered": every redemption comes to an end,
\* whatever becomes of the host, the connection or the object.  Neither a start
\* nor an answer is ever taken back, so this is what leads-to comes to.
EveryCallAnswered ==
  \A q \in Calls : <>[](rpc[q] # "idle" => answer[q] # "")

\* publishLoop: "a grant created while offline is published as soon as the
\* network returns", with the signer's list as its only memory.
GrantsGetPublished ==
  \A g \in GrantIds : <>[](g \notin unminted => g \in grants \cup revoked)

\* Run: when failures stop, the host is connected for good, on a connection
\* that both ends hold for the live one, although calls it gave up may still
\* arrive and replace it.
HostComesBack == <>[](dpc = "up" /\ Open # {} /\ LiveSocket = conn)

\* A redemption holds its slot no longer than it runs: when the calls have come
\* to an end every slot is back, although the channel outlives the sessions and
\* redemptions end in timeouts and under sessions that are cut.  A slot lost is
\* lost until the daemon restarts, and eight of them end all redemptions.
SlotsComeBack == <>[](D!Inflight = {})
================================================================================
