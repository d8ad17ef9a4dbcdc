-------------------------------- MODULE HostDO --------------------------------
(***************************************************************************)
(* HostDO, the Durable Object of one host                                  *)
(* (cloudflare/src/durable-objects/host.ts): the host's record, its        *)
(* published grants, the rendezvous sockets and the redemptions relayed    *)
(* over them.                                                              *)
(*                                                                         *)
(* The object is single-threaded, but a handler gives way to others at     *)
(* every await that is not a storage operation.  A step is the code        *)
(* between two such awaits.  Tables survive a restart of the object; the   *)
(* sockets, the map of pending redemptions and the handlers do not.        *)
(*                                                                         *)
(* A wire is a connection of the host to the service.  It carries a signed *)
(* call, and the wire of an accepted connect call becomes the socket.  The *)
(* host and the network are the environment here: they may send any        *)
(* message of Messages, twice or late, and any answer on a socket.         *)
(***************************************************************************)
EXTENDS Integers, FiniteSets, SequencesExt

CONSTANTS
  GrantIds, Agents, Nonces,
  CreatedAt, ExpiresAt,  \* of each grant, signed by the host
  Wires,
  Messages,              \* the signed registrations and connects
  Calls,                 \* the visitors' POST .../redeem calls
  EnvelopeOf,            \* the redemption envelope of each call
  Verdicts,              \* what a host's answers say
  None,
  SkewRegistration,      \* SKEW_REGISTRATION, 300 s
  SkewRedemption,        \* SKEW_REDEMPTION, 120 s
  NonceRetention,        \* SKEW_REGISTRATION * 4
  GrantRetention,        \* GRANT_RETENTION_S
  RedemptionRetention,   \* REDEMPTION_RETENTION_S
  RedeemTimeout,         \* REDEEM_TIMEOUT_MS
  MaxPublished,          \* MAX_PUBLISHED_GRANTS
  MaxAttempts,           \* MAX_REDEEM_ATTEMPTS_PER_WINDOW
  Window,                \* REDEEM_ATTEMPT_WINDOW_S
  MaxStall,              \* longest a handler runs after it has read the clock
  MaxFrames,             \* bound on the answers under way on one socket
  MaxTime                \* bound on the model's clock

\* genuine: the signature verifies under the key the host id is a hash of.
Message ==
  [kind : {"register", "connect"}, genuine : BOOLEAN, ts : Int, nonce : Nonces]

\* wellFormed: the body parses and addresses this host and this grant.
\* genuine: the agent's id is the hash of its key and the signature verifies.
Envelope ==
  [grant : GrantIds, agent : Agents, ts : Int, wellFormed : BOOLEAN,
   genuine : BOOLEAN]

ASSUME InputsAssumption ==
  /\ Messages \subseteq Message
  /\ EnvelopeOf \in [Calls -> Envelope]
  /\ Verdicts \subseteq {"ok", "error", "bad"}
  /\ CreatedAt \in [GrantIds -> Int]
  /\ ExpiresAt \in [GrantIds -> Int]
  /\ None \notin Wires \cup Messages \cup [msg : Messages, at : Nat] \cup Nat
  /\ IsFiniteSet(Calls)
  /\ IsFiniteSet(GrantIds)

ASSUME NumbersAssumption ==
  {SkewRegistration, SkewRedemption, NonceRetention, GrantRetention,
   RedemptionRetention, RedeemTimeout, MaxPublished, MaxAttempts, Window,
   MaxStall, MaxFrames, MaxTime} \subseteq Nat

\* A signed message is fresh for two skews, and a handler that found it fresh
\* may still be running MaxStall later.  In the code 1200 >= 600 + stall.
ASSUME NonceRetentionAssumption ==
  NonceRetention >= 2 * SkewRegistration + MaxStall

VARIABLES
  now,
  record,     \* table host: the registration accepted last, None before
  nonces,     \* table nonces: seen_at, or Unseen
  grants,     \* table grants: the ids published
  attempts,   \* table redeem_attempts: the calls that have a row
  rows,       \* table redemptions: status of each call's row
  serving,    \* the handler of each wire: its message and clock reading
  sockets,    \* getWebSockets(), in the order of connected_at_ms
  sock,       \* readyState of each wire's socket
  toHost,     \* redeem.request frames sent on each socket
  toService,  \* redeem.response frames under way on each socket
  rpc,        \* the handler of each redeem call
  rat,        \* the clock reading of that handler
  via,        \* the socket it picked, later pending's socketId
  pending,    \* this.pending: calls waiting for the host
  timer,      \* what is left of a pending call's timeout
  answer,     \* what the visitor was told, "" before
  agents,     \* agents registered with AgentDO
  accepted,   \* history: how often each message was acted on
  sentAt      \* history: when a call was forwarded, None before

tables == <<record, nonces, grants, attempts, rows>>
links == <<sockets, sock, toHost, toService>>
redeems == <<rpc, rat, via, pending, timer, answer, sentAt>>
vars == <<now, record, nonces, grants, attempts, rows, serving, sockets, sock,
          toHost, toService, rpc, rat, via, pending, timer, answer, agents,
          accepted, sentAt>>

Unseen == -1

Statuses == {"none", "pending", "issued", "rejected", "malformed", "timeout",
             "late", "dropped", "purged"}

Answers == {"", "OK", "REJECTED", "INTERNAL", "HOST_TIMEOUT", "DROPPED", "LOST",
            "HOST_NOT_FOUND", "BAD_REQUEST", "STALE_TIMESTAMP", "BAD_SIGNATURE",
            "GRANT_NOT_FOUND", "GRANT_EXPIRED", "AGENT_NOT_FOUND",
            "HOST_OFFLINE", "RATE_LIMITED"}

\* A redeem.response frame: the call it names and its verdict, where "bad"
\* stands for an impossible status or a body that is not base64.
Frame == [id : Calls, verdict : Verdicts]

TypeOK ==
  /\ now \in Nat
  /\ record \in Messages \cup {None}
  /\ nonces \in [Nonces -> Nat \cup {Unseen}]
  /\ grants \subseteq GrantIds
  /\ attempts \subseteq Calls
  /\ rows \in [Calls -> Statuses]
  /\ serving \in [Wires -> [msg : Messages, at : Nat] \cup {None}]
  /\ sockets \in Seq(Wires)
  /\ sock \in [Wires -> {"none", "open", "closing", "closed"}]
  /\ toHost \in [Wires -> SUBSET Calls]
  /\ toService \in [Wires -> SUBSET Frame]
  /\ rpc \in [Calls -> {"idle", "lookup", "agent", "forward", "wait", "done"}]
  /\ rat \in [Calls -> Nat]
  /\ via \in [Calls -> Wires \cup {None}]
  /\ pending \subseteq Calls
  /\ timer \in [Calls -> Nat]
  /\ answer \in [Calls -> Answers]
  /\ agents \subseteq Agents
  /\ accepted \in [Messages -> Nat]
  /\ sentAt \in [Calls -> Nat \cup {None}]

Init ==
  /\ now = 0
  /\ record = None
  /\ nonces = [n \in Nonces |-> Unseen]
  /\ grants = {} /\ attempts = {}
  /\ rows = [q \in Calls |-> "none"]
  /\ serving = [w \in Wires |-> None]
  /\ sockets = <<>>
  /\ sock = [w \in Wires |-> "none"]
  /\ toHost = [w \in Wires |-> {}]
  /\ toService = [w \in Wires |-> {}]
  /\ rpc = [q \in Calls |-> "idle"]
  /\ rat = [q \in Calls |-> 0]
  /\ via = [q \in Calls |-> None]
  /\ pending = {}
  /\ timer = [q \in Calls |-> 0]
  /\ answer = [q \in Calls |-> ""]
  /\ agents = {}
  /\ accepted = [m \in Messages |-> 0]
  /\ sentAt = [q \in Calls |-> None]

WithinSkew(t, ts, skew) == t - ts <= skew /\ ts - t <= skew

--------------------------------------------------------------------------------
(* The host's signed calls: register, rendezvous, publishGrant.  A call    *)
(* that is refused before it reaches a table changes nothing.              *)

\* A wire that carries nothing and that no redemption still refers to.
Free(w) ==
  /\ serving[w] = None
  /\ sock[w] \in {"none", "closed"}
  /\ \A q \in Calls : via[q] # w

\* The checks before the await: only a registered host may connect.
Admissible(m) ==
  /\ m.kind = "connect" => record # None
  /\ WithinSkew(now, m.ts, SkewRegistration)

\* register and rendezvous up to the await of verifyEd25519: the handler
\* reads the clock.
SignedBegin(w, m) ==
  /\ Free(w)
  /\ Admissible(m)
  /\ serving' = [serving EXCEPT ![w] = [msg |-> m, at |-> now]]
  /\ sock' = [sock EXCEPT ![w] = "none"]
  /\ UNCHANGED <<now, tables, sockets, toHost, toService, redeems, agents, accepted>>

\* Mutant: nonces are kept for the freshness window, not for the handlers that
\* are still running at its end.
KeptNonces_NoStall(before) ==
  [n \in Nonces |-> IF nonces[n] < before + MaxStall THEN Unseen ELSE nonces[n]]

\* seenNonce, first statement: what the DELETE leaves.
KeptNonces(before) ==
  [n \in Nonces |-> IF nonces[n] < before THEN Unseen ELSE nonces[n]]

\* The signature verifies and seenNonce finds nothing.
Accepts(w) ==
  /\ serving[w].msg.genuine
  /\ KeptNonces(serving[w].at - NonceRetention)[serving[w].msg.nonce] = Unseen

\* The await of verifyEd25519 and seenNonce; with it the handler ends.
SeenNonce(w) ==
  LET m == serving[w].msg
      kept == KeptNonces(serving[w].at - NonceRetention)
  IN /\ nonces' = IF ~m.genuine THEN nonces
                  ELSE IF Accepts(w) THEN [kept EXCEPT ![m.nonce] = serving[w].at]
                  ELSE kept
     /\ accepted' = IF Accepts(w) THEN [accepted EXCEPT ![m] = @ + 1] ELSE accepted
     /\ serving' = [serving EXCEPT ![w] = None]

\* register after the await: the row is inserted or overwritten, whatever the
\* age of the registration it replaces.
Register(w) ==
  /\ serving[w] # None
  /\ serving[w].msg.kind = "register"
  /\ SeenNonce(w)
  /\ record' = IF Accepts(w) THEN serving[w].msg ELSE record
  /\ UNCHANGED <<now, grants, attempts, rows, links, redeems, agents>>

\* Mutant: the older connections are left alone.
Superseded_Kept(state) == state

\* "One machine, one connection": what rendezvous does to the others.
Superseded(state) == IF state = "open" THEN "closing" ELSE state

\* rendezvous after the await.
Rendezvous(w) ==
  /\ serving[w] # None
  /\ serving[w].msg.kind = "connect"
  /\ SeenNonce(w)
  /\ IF Accepts(w)
       THEN /\ sock' = [v \in Wires |-> IF v = w THEN "open"
                                        ELSE Superseded(sock[v])]
            /\ sockets' = Append(sockets, w)
       ELSE UNCHANGED <<sock, sockets>>
  /\ UNCHANGED <<now, record, grants, attempts, rows, toHost, toService, redeems,
                 agents>>

Active(t) == {g \in grants : ExpiresAt[g] > t}

\* The cap of publishGrant: a known id may always be published again.
Publishable(g) == Cardinality(Active(now)) < MaxPublished \/ g \in grants

\* publishGrant refuses a grant that is expired, from the future or one too
\* many.
MayPublish(g) ==
  /\ record # None
  /\ ExpiresAt[g] > now
  /\ CreatedAt[g] <= now + SkewRegistration
  /\ Publishable(g)

\* publishGrant reads the clock after its await, so it is one step.  Only the
\* host can sign a grant, and one that does not verify changes nothing.
PublishGrant(g) ==
  /\ MayPublish(g)
  /\ grants' = grants \cup {g}
  /\ UNCHANGED <<now, record, nonces, attempts, rows, serving, links, redeems,
                 agents, accepted>>

--------------------------------------------------------------------------------
(* Redemption: redeem, forwardToHost, settle.                              *)

Answer(q, code) ==
  /\ rpc' = [rpc EXCEPT ![q] = "done"]
  /\ answer' = [answer EXCEPT ![q] = code]
  /\ via' = [via EXCEPT ![q] = None]

Proceed(q, step) ==
  /\ rpc' = [rpc EXCEPT ![q] = step]
  /\ UNCHANGED <<answer, via>>

\* redeem up to the await of deriveAgentId: the only reading of the clock.
RedeemBegin(q) ==
  /\ rpc[q] = "idle"
  /\ rat' = [rat EXCEPT ![q] = now]
  /\ IF record = None THEN Answer(q, "HOST_NOT_FOUND")
     ELSE IF ~EnvelopeOf[q].wellFormed THEN Answer(q, "BAD_REQUEST")
     ELSE IF ~WithinSkew(now, EnvelopeOf[q].ts, SkewRedemption)
       THEN Answer(q, "STALE_TIMESTAMP")
     ELSE Proceed(q, "lookup")
  /\ UNCHANGED <<now, tables, serving, links, pending, timer, sentAt, agents,
                 accepted>>

\* The agent's id and signature, then the grant's row, judged with the reading
\* taken before the awaits; then AgentDO is asked.
RedeemLookup(q) ==
  /\ rpc[q] = "lookup"
  /\ LET g == EnvelopeOf[q].grant IN
       IF ~EnvelopeOf[q].genuine THEN Answer(q, "BAD_SIGNATURE")
       ELSE IF g \notin grants THEN Answer(q, "GRANT_NOT_FOUND")
       ELSE IF ExpiresAt[g] <= rat[q] THEN Answer(q, "GRANT_EXPIRED")
       ELSE Proceed(q, "agent")
  /\ UNCHANGED <<now, tables, serving, links, rat, pending, timer, sentAt, agents,
                 accepted>>

\* liveSocket: the open socket with the latest connect time.
Open == {i \in DOMAIN sockets : sock[sockets[i]] = "open"}
LiveSocket == sockets[CHOOSE i \in Open : \A j \in Open : j <= i]

\* AgentDO has answered.  The call to it may have thrown, or returned an error,
\* which is taken for an agent it does not know.  Otherwise a socket is picked,
\* then the key fingerprint awaited.
RedeemAgent(q) ==
  /\ rpc[q] = "agent"
  /\ \/ Answer(q, "INTERNAL")
     \/ Answer(q, "AGENT_NOT_FOUND")
     \/ /\ EnvelopeOf[q].agent \in agents
        /\ IF Open = {} THEN Answer(q, "HOST_OFFLINE")
           ELSE /\ via' = [via EXCEPT ![q] = LiveSocket]
                /\ rpc' = [rpc EXCEPT ![q] = "forward"]
                /\ UNCHANGED answer
  /\ UNCHANGED <<now, tables, serving, links, rat, pending, timer, sentAt, agents,
                 accepted>>

\* Mutant: only attempts of the current second are counted.
Recent_SameSecond(t) == {p \in attempts : rat[p] >= t}

\* recordRedeemAttempt, first statement: what the DELETE leaves.
Recent(t) == {p \in attempts : rat[p] >= t - Window}

\* recordRedeemAttempt with the old clock reading, the row, and forwardToHost:
\* the call is made pending and the frame sent.  send throws on a socket this
\* object has closed; on one the peer has closed it may throw or lose the frame.
RedeemForward(q) ==
  /\ rpc[q] = "forward"
  /\ IF Cardinality(Recent(rat[q])) >= MaxAttempts
       THEN /\ attempts' = Recent(rat[q])
            /\ Answer(q, "RATE_LIMITED")
            /\ UNCHANGED <<rows, pending, timer, toHost, sentAt>>
       ELSE /\ attempts' = Recent(rat[q]) \cup {q}
            /\ \/ /\ sock[via[q]] \in {"open", "closed"}
                  /\ rows' = [rows EXCEPT ![q] = "pending"]
                  /\ pending' = pending \cup {q}
                  /\ timer' = [timer EXCEPT ![q] = RedeemTimeout]
                  /\ Proceed(q, "wait")
                  /\ toHost' = [toHost EXCEPT ![via[q]] =
                                  IF sock[via[q]] = "open" THEN @ \cup {q} ELSE @]
                  /\ sentAt' = [sentAt EXCEPT ![q] = now]
               \/ /\ sock[via[q]] \in {"closing", "closed"}
                  /\ rows' = [rows EXCEPT ![q] = "dropped"]
                  /\ Answer(q, "DROPPED")
                  /\ UNCHANGED <<pending, timer, toHost, sentAt>>
  /\ UNCHANGED <<now, record, nonces, grants, serving, sockets, sock, toService,
                 rat, agents, accepted>>

\* Mutant: a redemption that failed leaves its row as it was.
Settle_SuccessOnly(Q, status, code) ==
  /\ pending' = pending \ Q
  /\ rows' = [q \in Calls |-> IF q \in Q /\ rows[q] # "purged" /\ status = "issued"
                                THEN status ELSE rows[q]]
  /\ answer' = [q \in Calls |-> IF q \in Q THEN code ELSE answer[q]]
  /\ rpc' = [q \in Calls |-> IF q \in Q THEN "done" ELSE rpc[q]]
  /\ via' = [q \in Calls |-> IF q \in Q THEN None ELSE via[q]]
  /\ timer' = [q \in Calls |-> IF q \in Q THEN 0 ELSE timer[q]]

\* settle, for calls that are pending: each answer once, and the row if the
\* alarm has not deleted it.
Settle(Q, status, code) ==
  /\ pending' = pending \ Q
  /\ rows' = [q \in Calls |-> IF q \in Q /\ rows[q] # "purged" THEN status
                              ELSE rows[q]]
  /\ answer' = [q \in Calls |-> IF q \in Q THEN code ELSE answer[q]]
  /\ rpc' = [q \in Calls |-> IF q \in Q THEN "done" ELSE rpc[q]]
  /\ via' = [q \in Calls |-> IF q \in Q THEN None ELSE via[q]]
  /\ timer' = [q \in Calls |-> IF q \in Q THEN 0 ELSE timer[q]]

\* Mutant: the audit row gets the host's word as it is.
Audit_Raw(v) == v

\* hostResponse: what the audit row and the visitor are told of a verdict.
Audit(v) == CASE v = "ok" -> "issued" [] v = "error" -> "rejected"
              [] v = "bad" -> "malformed"

\* Mutant: a refusal is relayed as a success.
Relayed_Status(v) == IF v = "bad" THEN "INTERNAL" ELSE "OK"

Relayed(v) == CASE v = "ok" -> "OK" [] v = "error" -> "REJECTED"
                [] v = "bad" -> "INTERNAL"

\* The UPDATE for an answer nobody waits for.
LateStatus(status) == IF status = "timeout" THEN "late" ELSE status

\* webSocketMessage with a redeem.response.  The socket is not looked at: one
\* that is being closed still delivers.
WebSocketMessage(w, f) ==
  /\ sock[w] \in {"open", "closing"}
  /\ f \in toService[w]
  /\ toService' = [toService EXCEPT ![w] = @ \ {f}]
  /\ IF f.id \in pending
       THEN Settle({f.id}, Audit(f.verdict), Relayed(f.verdict))
       ELSE /\ rows' = [rows EXCEPT ![f.id] = LateStatus(@)]
            /\ UNCHANGED <<pending, answer, rpc, via, timer>>
  /\ UNCHANGED <<now, record, nonces, grants, attempts, serving, sockets, sock,
                 toHost, rat, sentAt, agents, accepted>>

\* The calls whose answer was to come over this socket.
Stranded(w) == {q \in pending : via[q] = w}

\* webSocketClose: whoever waits for an answer on this socket waits in vain.
WebSocketClose(w) ==
  /\ sock[w] \in {"open", "closing"}
  /\ sock' = [sock EXCEPT ![w] = "closed"]
  /\ \E i \in DOMAIN sockets : sockets[i] = w /\ sockets' = RemoveAt(sockets, i)
  /\ toHost' = [toHost EXCEPT ![w] = {}]
  /\ toService' = [toService EXCEPT ![w] = {}]
  /\ Settle(Stranded(w), "dropped", "DROPPED")
  /\ UNCHANGED <<now, record, nonces, grants, attempts, serving, rat, sentAt,
                 agents, accepted>>

\* Mutant: the timer goes with the socket.
RedeemTimesOut_WithSocket(q) ==
  /\ q \in pending
  /\ timer[q] = 0
  /\ sock[via[q]] = "open"
  /\ Settle({q}, "timeout", "HOST_TIMEOUT")
  /\ UNCHANGED <<now, record, nonces, grants, attempts, serving, links, rat,
                 sentAt, agents, accepted>>

\* The timer of forwardToHost.
RedeemTimesOut(q) ==
  /\ q \in pending
  /\ timer[q] = 0
  /\ Settle({q}, "timeout", "HOST_TIMEOUT")
  /\ UNCHANGED <<now, record, nonces, grants, attempts, serving, links, rat,
                 sentAt, agents, accepted>>

--------------------------------------------------------------------------------
(* Housekeeping, restarts and the environment.                             *)

\* alarm: hourly, and late if the runtime is late.
Alarm ==
  /\ grants' = {g \in grants : ExpiresAt[g] >= now - GrantRetention}
  /\ rows' = [q \in Calls |-> IF /\ rows[q] # "none"
                                 /\ rat[q] < now - RedemptionRetention
                                THEN "purged" ELSE rows[q]]
  /\ nonces' = KeptNonces(now - NonceRetention)
  /\ attempts' = Recent(now)
  /\ UNCHANGED <<now, record, serving, links, redeems, agents, accepted>>

Busy == {q \in Calls : rpc[q] \notin {"idle", "done"}}

\* The object is reset, as by a deployment: memory and sockets are gone, the
\* rows of the redemptions it was waiting for stay "pending".
Restart ==
  /\ pending' = {}
  /\ rpc' = [q \in Calls |-> IF q \in Busy THEN "done" ELSE rpc[q]]
  /\ answer' = [q \in Calls |-> IF q \in Busy THEN "LOST" ELSE answer[q]]
  /\ via' = [q \in Calls |-> None]
  /\ timer' = [q \in Calls |-> 0]
  /\ serving' = [w \in Wires |-> None]
  /\ sockets' = <<>>
  /\ sock' = [w \in Wires |-> IF sock[w] = "none" THEN "none" ELSE "closed"]
  /\ toHost' = [w \in Wires |-> {}]
  /\ toService' = [w \in Wires |-> {}]
  /\ UNCHANGED <<now, tables, rat, sentAt, agents, accepted>>

\* Handlers read the clock and then run for a while, but not for ever.
Prompt ==
  /\ \A q \in Calls : rpc[q] \in {"lookup", "agent", "forward"} =>
       now < rat[q] + MaxStall
  /\ \A w \in Wires : serving[w] # None => now < serving[w].at + MaxStall

Tick ==
  /\ Prompt
  /\ now' = IF now < MaxTime THEN now + 1 ELSE now
  /\ timer' = [q \in Calls |-> IF timer[q] > 0 THEN timer[q] - 1 ELSE 0]
  /\ UNCHANGED <<tables, serving, links, rpc, rat, via, pending, answer, sentAt,
                 agents, accepted>>

\* The other end of a socket sends any answer, any number of times, to any call
\* that was sent to a host: ids are random, so it knows of no other.
HostSends(w, f) ==
  /\ sentAt[f.id] # None
  /\ sock[w] \in {"open", "closing"}
  /\ Cardinality(toService[w]) < MaxFrames
  /\ toService' = [toService EXCEPT ![w] = @ \cup {f}]
  /\ UNCHANGED <<now, tables, serving, sockets, sock, toHost, redeems, agents,
                 accepted>>

\* An agent registers with AgentDO, which never forgets it.
AgentRegisters(a) ==
  /\ agents' = agents \cup {a}
  /\ UNCHANGED <<now, tables, serving, links, redeems, accepted>>

Redeem(q) == RedeemBegin(q) \/ RedeemLookup(q) \/ RedeemAgent(q)
               \/ RedeemForward(q)

\* What the object itself does.
ObjectStep ==
  \/ \E w \in Wires : Register(w) \/ Rendezvous(w) \/ WebSocketClose(w)
  \/ \E w \in Wires : \E f \in toService[w] : WebSocketMessage(w, f)
  \/ \E q \in Calls : Redeem(q) \/ RedeemTimesOut(q)
  \/ Alarm
  \/ Restart
  \/ Tick

\* What the host sends and the network does with it.
HostStep ==
  \/ \E w \in Wires, m \in Messages : SignedBegin(w, m)
  \/ \E g \in GrantIds : PublishGrant(g)
  \/ \E w \in Wires, f \in Frame : HostSends(w, f)

Next == ObjectStep \/ HostStep \/ \E a \in Agents : AgentRegisters(a)

Spec == Init /\ [][Next]_vars

--------------------------------------------------------------------------------
(* Properties.                                                             *)

\* seenNonce: a registration or a connect the object has acted on is never
\* acted on again, so a superseded record or a dead connection cannot be
\* brought back by sending the same call twice.  Handlers prune with old clock
\* readings, the alarm with the current one.
NoCallReplayed == \A m \in Messages : accepted[m] <= 1

\* The window of recordRedeemAttempt.  A call is counted at the clock reading
\* it took before its awaits, so what holds of the frames the host sees is the
\* cap over the window less the longest stall.
AttemptsCapped ==
  Cardinality({q \in Calls : /\ sentAt[q] # None
                             /\ sentAt[q] >= now - (Window - MaxStall)})
    <= MaxAttempts

\* settle writes the audit row and answers the visitor in one go, and the late
\* update touches a timed-out row only: the audit trail never contradicts what
\* the visitor was told, whatever duplicate or late answers the host sends and
\* whichever sockets close.  INTERNAL is also what a visitor is told whose call
\* failed before it reached the host; that one has no row.
AuditMatchesAnswer ==
  \A q \in Calls :
    /\ answer[q] = "OK" => rows[q] \in {"issued", "purged"}
    /\ answer[q] = "REJECTED" => rows[q] \in {"rejected", "purged"}
    /\ answer[q] = "INTERNAL" =>
         rows[q] \in IF sentAt[q] = None THEN {"none"} ELSE {"malformed", "purged"}
    /\ answer[q] = "HOST_TIMEOUT" => rows[q] \in {"timeout", "late", "purged"}
    /\ answer[q] = "DROPPED" => rows[q] \in {"dropped", "purged"}
    /\ rows[q] = "pending" => q \in pending \/ answer[q] = "LOST"

\* One machine, one connection: a frame is only put on the newest socket,
\* although the socket is picked before an await and a reconnect in between
\* replaces it.
OnlyNewestCarries ==
  [][\A w \in Wires :
       toHost'[w] \ toHost[w] # {} => sockets[Len(sockets)] = w]_vars
================================================================================
