# A TLA+ model of grantd

grantd lets the owner of a Linux host hand out short-lived, single-use SSH
access. This directory specifies the parts of it where concurrency, crashes and
clocks decide whether that promise holds, checks them with TLC on small
instances, and proves the central properties with TLAPS for instances of any
size. `PROJECT.json` is the machine-readable index: components, runs, mutants,
the map from definitions to source lines, hazards, findings and theorems.

## The system

| Component | State | Operations | Talks to |
|---|---|---|---|
| `grant-signer` (go/signer, go/signer/store, go/signer/api) | SQLite tables `host`, `grants`, `nonces`, `certificates`; CA and host keys | enroll, create, revoke, mark published, purge, redeem | owner CLI, daemon and warden over three Unix sockets |
| `grant-warden` (go/warden) | `w.grants`, `w.pending`, state file; the grant cgroups | Admit, Attach, Run loop, Reconcile | signer (lifetime socket), sshd through `grant-admit`, systemd |
| `grantd` daemon (go/daemon) | one WebSocket, eight in-flight slots | register, connect, publish, relay redemptions, reconnect | signer, HostDO |
| HostDO (cloudflare/src/durable-objects/host.ts) | tables `host`, `grants`, `redemptions`, `nonces`, `redeem_attempts`; sockets; the map of pending redemptions | register, rendezvous, publish, redeem, alarm, DNS sync | daemon, visitor, AgentDO, DNS provider |
| Worker, ChallengeDO, AgentDO | challenges, agent keys | challenge, register, route | visitor, HostDO |
| Visitor (go/agent, install/redeem.*) | identity, verified host record | register, redeem, verify, ssh | service, host |

A redemption travels visitor -> Worker -> HostDO -> daemon -> signer and its
certificate comes back the same way; sshd then asks the warden twice, once for
the certificate (Admit) and once before the shell (Attach), and the warden asks
the signer each time and while the session runs.

What is hard, and what makes each part correct:

- **Signer.** HTTP handlers run concurrently over one database; a request spans
  four statements and reads the clock once. Correct: a grant is claimed once,
  by a valid proof only; no envelope is accepted twice; the certificates table
  knows every certificate; nothing a crash interrupts can be done again.
- **Warden.** Admit and Attach run beside the loop that closes, kills and
  forgets groups, and Attach releases the lock while systemd works. Correct:
  a visitor's task is always in a group that the warden watches or empties; the
  group belongs to the connection's own certificate; revocation and expiry
  empty it for good, without the warden too.
- **HostDO.** One thread, but every await lets other handlers in, clocks are
  read before awaits and used after them, and the pending redemptions live in
  memory while their rows are on disk. Correct: no signed call acts twice; the
  audit row agrees with what the visitor was told; frames go to the newest
  connection only; the attempt cap holds.
- **Registration.** Worker, ChallengeDO and AgentDO are three places with calls
  between them. Correct: every registered agent has paid with a challenge of
  its own.
- **Daemon.** Its session, publish loop and redemption handlers end together
  while calls they made are still under way. Correct: it comes back after any
  failure; what it marks as published is published; every grant gets published.
- **End to end.** Five parties, three timeouts (15 s daemon, 20 s HostDO, 20 s
  dial), and a certificate that exists once. Correct: at most one visitor is
  told OK, and only with the signer's one certificate; every visitor gets an
  answer.

The full list of hazards, each at its line, is in `PROJECT.json`.

## Modules

| Module | What it is |
|---|---|
| `GrantLedger` | abstract specification of a capability: minted once, consumed once, delivered or lost |
| `Signer` | the signer and its store, one step per SQL statement or transaction |
| `MCSigner` | envelopes and symmetry for TLC |
| `SignerProofs` | type correctness, replay protection, single use, settled rows, late issuance bounded |
| `SignerRefinement` | audit trail; Signer implements GrantLedger |
| `GrantLedgerProofs` | one certificate per grant, on the ledger |
| `Warden` | the warden, sshd, systemd, the cgroups and the clocks |
| `WardenProofs` | own grant only, no shell after revocation, every visitor supervised |
| `MCWarden` | connections, pids and lifetimes for TLC |
| `HostDO` | the durable object of a host, one step per stretch between two awaits; host and network are its environment |
| `HostDOProofs` | signed calls act once, newest connection only, audit rows, the attempt cap |
| `Registration` | challenges and the registration of agents |
| `Service` | `HostDO` with `Registration` in the place of its agent registry |
| `ServiceProofs` | a proof of work per agent; what `HostDO` promises holds of `Service` |
| `MCService` | messages, calls and requests for TLC |
| `Daemon` | what each call, answer and failure does to the daemon; actions only |
| `Relay` | `HostDO`, `Daemon` and `GrantLedger` (the signer's promise) composed, with a network that loses and delays |
| `RelayProofs` | marked is served; one OK per grant; what `HostDO` promises holds of `Relay` |
| `MCRelay` | calls for TLC |
| `HostDns` | DNS syncs of one host against the provider's zone |
| `MCHostDns` | addresses for TLC |

A definition whose name is another one's followed by `_` and a remark (such as
`ClaimStatus_NoProofCheck`) is a mutant: that definition with a plausible bug,
used to show that a property can fail. No specification uses it.

### Signer

`grants`, `nonces`, `certificates` and `host` are the tables. A grant row that
was never inserted is `unused`, a purged one `deleted`; ids are 128-bit random,
so an id is not used twice. `pc[r]` is where `Redeem` of request `r` stands:

| Action | Code |
|---|---|
| `Receive` | reads the clock (`at`), host, and runs the checks that write nothing |
| `PruneNonces`, `InsertNonce` | the two statements of `RememberNonce` |
| `ClaimGrant` | the `BEGIN IMMEDIATE` transaction; `ClaimStatus` is its decision |
| `IssueCertificate` | serial, certificate, `RecordCertificate`, and the answer or its loss |
| `Fail` | any error return or cancelled context; commits stay |
| `CreateBegin`, `CreateCount`, `CreateInsert` | `CreateGrant`: host row, count, insert |
| `Enroll`, `RevokeGrant`, `MarkPublished`, `PurgeExpired` | one statement, or one purge |
| `Crash` | requests are gone, tables stay |

An envelope is a record: what the cryptography establishes about it is
`wellFormed` (version, ids, agent signature, key) and `proves` (HMAC under the
grant's secret). `accepted` is a history variable. `MaxStall` bounds how long a
request runs after it has read the clock: the daemon's client gives up after
15 s, which cancels the request's context (`Alive`), and SQLite's busy timeout
is shorter. The two DELETEs of `PurgeExpired` are one step in which the second,
of the nonces, may fail. A revocation that commits after the claim does not stop
the certificate, in the code and in the model: the warden is what ends such a
session.

### Warden

`grants` is `w.grants` with the unpersisted fields (`mono` is `deadlineMono`,
`age` the time since `closingSince`, `None` while `termSent` is false),
`pending` is `w.pending`, `file` the state file. `pc[c]` is where the handler of
connection `c` stands, `lpc` and `todo` where the Run loop stands. The rest is
the machine: `ssh` (connection), `scope` (whose cgroup holds tasks of the
connection), `slice`, `backstop` (what is left of RuntimeMaxSec), `doomed`
(SIGKILL sent).

| Action | Code |
|---|---|
| `AdmitBegin`, `AdmitCheck`, `AdmitRecord` | Admit before, at and after the unlocked call to the signer |
| `AttachTake`, `AttachCheck`, `AttachOpen`, `AttachPlace`, `AttachCommit` | Attach: pending taken; signer asked; grant opened under the lock; systemd; last look and session recorded |
| `EnforceDeadlines`, `PollSigner`, `Prune`, `Terminate`, `Finalize`, `Forget` | one pass of Run, in this order |
| `Crash`, `Reconcile` | restart from the state file and the slices found |
| `Connect`, `Hangup`, `TasksEnd`, `RuntimeMax`, `SignerChanges`, `SignerDown`, `SignerRestarts`, `ClockStep`, `Tick` | the environment |

`terminate` reads "empty" and `finalize` acts on it later without the lock:
`emptied` remembers the grant in between. `Attach` holds a pointer to its
`Grant`; when the loop forgets that grant the connection joins `orphans`, so
that a new record under the same id is not mistaken for it. SIGTERM needs no
effect of its own, since visitors' tasks may end or not at any time.
`Reconcile` works with what it can read: `LoadState` and `DiscoverGrantIDs` are
sets, with the empty answer the code takes every error for among their members.
`missed` remembers the slices that were on the machine and in neither answer.
Writing `cgroup.kill` and reading `cgroup.events` may fail too (`CgroupIO`).
Simplifications: `now` is read and the lock taken in one step of `AttachOpen`;
slice, scope and the reading back of the cgroup are one step (`AttachPlace`),
which may fail halfway with the scope in place;
every pass polls (in the code every second one does; a pass without a poll only
prunes and advances grants that are already closing or past their deadline);
StopUnit takes effect at once or not at all; a grant's `expires_at` is constant,
as no statement of the signer rewrites it, so the branch of `pollSigner` that
shrinks the deadline cannot be taken and `g.Deadline` is `Expiry[g]`.

### HostDO, Registration, Service

A wire is a connection of the host to the service; it carries one signed call,
and the wire of an accepted connect becomes the socket. `rpc[q]` is where the
`redeem` handler of visitor call `q` stands, `rat[q]` the one clock reading it
works with. `accepted` and `sentAt` are histories.

| Action | Code |
|---|---|
| `SignedBegin` | `register` or `rendezvous` up to the await of the signature check |
| `Register`, `Rendezvous` | the rest of them, with `seenNonce` (`SeenNonce`); the older sockets are closed |
| `PublishGrant` | `publishGrant`, which reads the clock after its await |
| `RedeemBegin`, `RedeemLookup`, `RedeemAgent`, `RedeemForward` | `redeem`, split at `deriveAgentId`, AgentDO and the key fingerprint; the last one counts the attempt, writes the row and sends |
| `WebSocketMessage`, `WebSocketClose`, `RedeemTimesOut` | a host's answer, the end of a socket, the 20 s timer; all through `Settle` |
| `Alarm`, `Restart`, `Tick` | the hourly sweep, a reset of the object, time |
| `HostSends`, `AgentRegisters` | the environment |
| `Create`, `Consume`, `PutAgent`, `Abandon`, `Expire` | a challenge, and the two halves of `POST /v1/agents` |

Storage operations are not awaits that let others in (the runtime's input gate),
so `seenNonce` and `recordRedeemAttempt` are parts of a step. `send` on a socket
this object has closed throws; on one the peer has closed it may throw or lose
the frame. A signature, an id that is the hash of a key and a body that parses
are the booleans `genuine` and `wellFormed`. `connected_at_ms` is taken to tell
sockets apart; `sockets` is `getWebSockets()` in the order of connection.
AgentDO may fail: a call that throws is answered INTERNAL before there is a row,
an error status counts as an unknown agent. `Consume` is one step, since
ChallengeDO runs it under `blockConcurrencyWhile`. Left out: reads
(`publicRecord`, `grantRecord`), `last_seen_at`, `webSocketError`, which does
nothing (the calls of that socket wait for its close or their timer), and the
Worker's rate limiters, which fail open.

### Daemon and Relay

`dpc` is where `session` stands, `ppc` the publish loop, `job[q]` the goroutine
of a redemption; backoff, jitter and pings are delays and have no variable.
`Relay` gives each action of the daemon its counterpart. `net` holds the calls
under way: the daemon may give one up (`GivesUp`, `PutFails`) and the service
take it up later, or never (`CallLost`). A connection is cut at one end first
(`CutAtService`, `CutAtDaemon`); `CloseObserved` and `SessionEnds` are the other
end's notice of it. A half-open connection is one whose end has not noticed yet;
`pingLoop` only gives up pinging, so the notice is TCP's. The signer is the
ledger: `SignerClaims` commits, `SignerIssues` and `SignerRefuses` answer, and
`asked` goes on when the daemon has stopped waiting. `MaxFaults` bounds what
goes wrong by itself. After the 15 s the context of the daemon's reply has
expired as well, and what the library then does with the frame and the
connection is left open (`RedemptionTimesOut`).

A redemption holds its slot until `Release`, the deferred receive, runs in its
goroutine: after the answer (`answered`), or after a timeout or the end of its
session (`cut`), and then perhaps in the next session. The service's answer to a
connect and the daemon's learning of it are one step (`RendezvousEnds`); an
answer that is lost is a `GivesUp` before it. `SignerRefuses` also stands for
the daemon's own refusal of an envelope it cannot decode.
Host and service share a clock in `Relay`; `HostDO` alone lets the host sign any
time.

### HostDns

`syncHostRecord` lists, writes and deletes in separate calls; `row` is the
`dns_ip` a connect read before its await. `Added` and `Replaced` are the
provider's part: it refuses an identical record and does not recreate one that
is gone.

## Runs

| Run | Shows | Bounds | States |
|---|---|---|---|
| `signer_race` | single use, no envelope accepted twice, audit trail, proofs, settled rows, late issuance bounded, refinement of GrantLedger | 1 grant, 2 requests, 4 envelopes, 2 users, 2 serials, skew 1, stall 1, retention 3, time 0..5 | 2.7 M |
| `signer_cap` | violation: the cap can be exceeded | 2 grants, 2 creations, cap 1 | |
| `signer_principal` | violation: certificate for a former account | 1 grant, 1 request, 2 users | |
| `signer_expiry` | violation: a certificate signed after the grant expired | 1 grant, 1 request, stall 1 | |
| `warden_contain` | every visitor's task supervised, unless Reconcile missed its group; no shell after revocation | 1 grant, 2 connections, time 0..3 | 4.2 M |
| `warden_liveness` | own grant only, although the pid is reused; a working warden ends every session of a revoked grant; RuntimeMaxSec ends every scope without the warden | 2 connections on one pid, clock set back, disturbances up to time 1 | 0.6 M |
| `warden_jump` | violation: a reconnect moves the monotonic deadline | clock set back by 1 | |
| `warden_cover` | violation: a scope no termination covers | 2 connections | |
| `warden_reconcile` | violation: admission opens with a slice unaccounted for | 2 connections | |
| `service` | no replay, attempt cap, audit rows agree with answers, a challenge for every agent | 1 grant, 2 calls, 2 wires, 2 signed messages (sent any number of times), 2 registrations on 1 challenge, time 0..4 | 3.7 M |
| `relay` | one OK per grant, marked is served, newest socket only; the host comes back, grants get published, every call is answered, every slot is given back | 1 grant, 2 calls, 2 wires, 6 nonces, 1 slot, 1 failure | 1.1 M |
| `dns` | violation: two records for one host | 3 syncs, 2 addresses | |

Why the bounds are enough: the races are between pairs (two requests on one
grant, a request and a purge or revocation, an attach and the loop, two owners
of a pid), and the time bounds let each deadline, skew, grace and retention pass
with at least one unit before and after it. In `signer_race` an envelope is
fresh over three units, a stall adds one, and the purge, which may run at any
time, deletes whatever a third request's prune would: a retention one skew
shorter lets a replay in. Retention,
skew and stall keep the code's order (`RetentionAssumption`: 480 s >= 2 * 120 s
+ 15 s; 24 h >= 480 s). The theorems remove the bounds for every safety
property.
In `service` the messages are signed one unit ahead, so that they are fresh at
0, 1 and 2, and a handler may stall across a unit: it can look for a nonce at 3.
The row of a message accepted at 0 goes at 4 with the retention of 3, and at 3,
in time for a replay, with one that does not cover the stall (the mutant
`KeptNonces_NoStall`). The cap is one attempt per window of one unit, and both
calls can fall into it; with a stall of one unit `AttemptsCapped` then speaks of
calls sent in the same unit, and the theorem of every window. In `relay` the
timer of HostDO may fire at any moment after the
frame was sent (`RedeemTimeout = 0`), which is every race it can be in; time
stands still there since its own properties are about order. One slot and two
calls reach the daemon's limit, and one failure is a cut, a loss, a timeout or a
restart at any point; two sockets are what a replacement needs, and six nonces
are as many as the sessions of one failure draw: if they did not suffice,
`HostComesBack` would fail. No publication is refused there, as a single grant
stays below the cap of 64 and does not expire.

Deadlock is not checked: requests and connections are one-shot and the clock is
bounded, so every behaviour of the instances ends.

**Fairness.** The safety runs use none. `MachineFairness` says that time passes,
systemd restarts the signer (`Restart=always` in install/install.sh), killed
tasks eventually die, handlers return (every call they make has a timeout) and
a refused hook closes its connection. `RevocationTerminates` adds
`WardenFairness`: the warden is restarted (`Restart=always`), retries Reconcile
as its main does, and Run keeps looping; it assumes nothing of RuntimeMaxSec,
which would end the session anyway. It speaks of groups that the last restart
did not miss: of a group that no file and no listing showed, only RuntimeMaxSec
can be said to end it. `BackstopTerminates` adds `SystemdFairness`
instead (scope timers fire) and assumes nothing of the warden, which may never
run again. Disturbances
(revocations, crashes, signer outages, clock steps, failing cgroup files) stop at `Horizon`, since no
supervisor that is killed for ever in its grace period ends anything. The clock
stops at `MaxTime`, but ages of closing grants and RuntimeMax timers run on.
`RelayFairness` is one weak condition on everything the parts do by themselves:
they do not all stop while one of them has something to do. No part is promised
its turn. It excludes what owners, visitors and agents choose to do, failures,
and the alarm. That is enough, as none of the parts can go on for ever without
getting on. `<>[](started => answered)` is what `started ~> answered` comes to
here, since neither is ever taken back.

Each property of a passing run has a mutant in `PROJECT.json` that violates it.

## What is proved

For every value of the constants that satisfies the named assumptions of
the module.

The signer:

- `TypeCorrect`: `TypeOK` with `PrincipalInv` (a row, a draft and a claim have a
  non-NULL principal), without which `IssueCertificate` could not be typed.
- `ReplayProtection`: no envelope passes the replay check twice. The invariant
  relates three things: a request past `Receive` was fresh at its clock reading
  (`FreshInv`), readings do not run ahead of the clock (`ClockInv`), and the
  nonce row of an accepted request is present as long as any request that
  could still find the envelope fresh runs (`RetainInv`). `RetentionAssumption`
  is used exactly there: 2 skews of freshness plus a stall.
- `GrantsAreSingleUse`, `ProofsAloneSpend`: from `ClaimInv`. `SingleUse` is not
  inductive; it needs `ClaimBacked`: a committed claim leaves a row marked with
  its holder, or a deleted id, and neither can be claimed again.
- `AuditTrailComplete`: from `AuditInv`: the certificates table holds the
  certificate of every answered request, and every row of it belongs to a
  finished request that had claimed the grant (its answer may have been lost),
  so that the
  `ON CONFLICT DO NOTHING` of `RecordCertificate` never meets a conflict.
- `SignerImplementsLedger`: the refinement, one ledger step for each action;
  the delivery step needs `SingleUse`, or two claims in flight could be one in
  the ledger. `OneCertificate` is the ledger's own promise.

- `SettledRowsHold`: the action property, from `TypeOK` alone: of the five
  operations that write the table only `ClaimGrant` sets a redeemer, and
  `ClaimStatus` lets it do so on an open row only.
- `CertificatesAreTimely`: `LiveClaim` says that a request about to issue read
  the clock before its grant expired; that reading is at most `MaxStall` old.

The warden, from `MapsAssumption` (a certificate names at most one grant, an
`expires_at` is a number) and `BoundsAssumption` (durations are numbers):

- `WardenTypeCorrect`, `ShellsRunInOwnGrant`: with `HookInv`, which follows the
  name of a grant from the certificate through `pending` and the attaching
  handler into the scope. At each of these places it is the certificate's own
  grant; that survives the reuse of a pid because `SameProcess` compares start
  times.
- `RevokedGetsNoShell`: `LateInv` says that a hook which began after the
  revocation has still to ask the signer, who will not say "valid" again, or is
  done without a shell.
- `VisitorsAreSupervised`: `Supervised` alone is not inductive. `SliceInv` (a
  scope that holds tasks has its slice) makes `Reconcile` find every group that
  the state file or the listing shows it, so that a group it does not rebuild
  is in `missed`, the exception the property makes;
  `LoopInv` makes `finalize` safe although it acts on an "empty" that was read
  earlier without the lock: the grant is closing, so no Attach passes its last
  look, and nobody has entered since.

The host's durable object, from `InputsAssumption`, `NumbersAssumption` and
`NonceRetentionAssumption` (1200 s >= 2 * 300 s and a stall):

- `HostDOTypeCorrect`: types, with `SocketInv`: the list of sockets has no
  duplicates, and only its last one can be open.
- `OnlyNewestCarriesHolds`: from it, since a send on a socket that is not open
  carries nothing.
- `SignedCallsActOnce`: no registration and no connect is acted on twice. A
  running handler found its message fresh at most `MaxStall` ago (`FreshInv`);
  an accepted message has a nonce row at least as young as its freshness, or no
  handler can still be running that found it fresh (`RetainInv`). Handlers prune
  with the clock reading they started with and the alarm with a current one:
  `PrunedIsOutlived` shows from `NonceRetentionAssumption` that either way only
  rows of outlived messages go. The argument needs the types of four variables
  only (`CallTypes`).
- `AuditTrailMatchesAnswers`: from `CallStages`: a call in the map of pending
  redemptions is unanswered and its row is `pending` or deleted, so that
  `settle` finds what it is about to overwrite.
- `RedeemAttemptsCapped`: from `AttemptsKept`: an attempt stays in the table as
  long as a handler that started up to `MaxStall` ago can count it, and no call
  is counted at a reading more than `MaxStall` from the moment it was sent. The
  calls sent in the window less a stall are then among the rows the next
  handler counts; the rest is cardinality.

The service and the relay:

- `ServiceKeepsHostDO`, `RelayKeepsHostDO`: the compositions keep the promises
  of `HostDO`. `Service` and `Relay` are written with its actions, so that they
  are cases of it and of `GrantLedger` by construction; the lemmas
  `ServiceIsHostDO`, `RelayIsHostDO` and `RelayUsesLedger` say so and are no
  results of their own. For the daemon this needs `DaemonTypes`: it answers
  only while it has a connection.
- `AgentsPayOnce`: `PaidInv` says that a challenge that paid is never fresh
  again and every agent has a registration that paid; `OnlyRegisteredAgents`
  adds that only registered agents are forwarded. Choosing a paid challenge for
  each agent is then injective. `RegistrationAssumption`: a request names one
  agent and one challenge, and challenges are finitely many.
- `MarkedGrantsAreServed`: `ServedInv` includes the grant that is just being
  marked; in between the service can lose it only when it has expired.
- `AnswersAreTrue`: `OkInv` follows the word "ok" from the signer's answer over
  the daemon's goroutine and the frame to the visitor: at each place the
  certificate is in the ledger. With the ledger's promise at most one visitor
  is told OK; `SignerImplementsLedger` is why the signer may be in its place. `RelayAssumption`: `ok` and `error` are among the verdicts a host
  can send.

Only model-checked: the liveness properties (`RevocationTerminates`,
`BackstopTerminates`, `EveryCallAnswered`, `GrantsGetPublished`,
`HostComesBack`, `SlotsComeBack`), since fairness is out of the prover's reach,
and the seven violations, which are about particular behaviours. Every invariant and every
action property that a passing run checks is also a theorem.

## Findings

1. `signer_cap`: `CreateGrant` counts and inserts in two statements; concurrent
   creations exceed `MaxActiveGrants`.
2. `signer_principal`: a certificate carries the account stored in the grant
   row, not the enrolled one, after a second enrollment.
3. `signer_expiry`: the paper has `expires_at` re-checked "at signing time"; the
   code compares it with the clock reading taken when the request arrived, so a
   grant that expires in flight is redeemed. `IssuedNearLifetime` is what holds:
   later than `expires_at` by less than a request can stall, with a certificate
   that is no longer valid itself.
4. `warden_jump`: `deadlineMono` is computed from the wall clock on every
   attach, so a clock set back and a reconnect move it later, against the
   comments beside it.
5. `warden_cover`: a grant closed before its slice exists is finalized at once;
   the scope Attach creates afterwards is covered by no termination, only by
   the refusal.
6. `warden_reconcile`: an unreadable state file and a failing listing of the
   slices both count as empty, and Reconcile opens admission with groups it
   does not know, which no later pass looks for.
7. `dns`: two syncs of one host that overlap before a record exists both create
   one, and later syncs replace only the first they find.

Seen on the way, with no promise broken: the attempts of HostDO are counted with
a clock reading taken before three awaits, so the cap holds over the window less
the longest stall (`AttemptsCapped` says exactly that); an older registration
that arrives late overwrites a newer one; `late` is also written for a late
refusal, which spent nothing; rows of redemptions that a reset interrupted stay
`pending` until the alarm deletes them; `published_at` is never cleared, so
nothing republishes grants after a loss of the service's storage; the branch of
`Run` that resets the backoff is not reached, since `session` returns nil only
when the daemon is being stopped.

## Not modelled, and the plan

Not modelled on purpose: raw cryptography, the proof-of-work hash and certificate
encoding, key generation and `destroy`, schema migration, peer-credential checks,
the WebSocket bridge (a byte pipe), static routes, installers. The visitor's
client is sequential: what it sends is the environment of `HostDO`, and what it
verifies are signatures. The canonical encodings are pure functions on byte
strings which the models keep abstract; the shared test vectors of both
implementations cover them.

Next:

1. A composition of Signer and Warden: a session never outlives its
   certificate's grant.
2. The safety part of the warden's termination argument as an invariant: a
   closing grant's age and a scope's RuntimeMax timer bound what is left of a
   session.
