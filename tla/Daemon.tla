--------------------------------- MODULE Daemon ---------------------------------
(***************************************************************************)
(* The host daemon (go/daemon/rendezvous): one session at a time, its      *)
(* publish loop and the goroutines that answer redemptions.                *)
(*                                                                         *)
(* The module says what each call, answer and failure does to the daemon;  *)
(* Relay composes it with the service and the signer, which decide when    *)
(* they happen.  Backoff, jitter and the ping interval are finite delays   *)
(* and nothing else, so no variable stands for them: the branch of Run     *)
(* that would reset the backoff cannot be reached, since session returns   *)
(* nil only when the daemon is told to stop.                               *)
(***************************************************************************)
EXTENDS Integers, FiniteSets

CONSTANTS
  GrantIds, Calls, Wires, None,
  MaxInflight    \* maxInflightRedeems, 8

VARIABLES
  dpc,   \* session: waiting, or the call it is at
  dmsg,  \* the signed call it waits for
  conn,  \* the connection of the session
  ppc,   \* publishLoop
  pub,   \* the grant it is publishing
  todo,  \* the publications of this round it has not come to
  job    \* handleRedeem of each call: asked, the signer's verdict, or how it ended

publisher == <<ppc, pub, todo>>

\* The tokens in the channel inflight, which belongs to the daemon and outlives
\* the sessions.
Inflight == {q \in Calls : job[q] \in {"asked", "ok", "error", "answered", "cut"}}

TypeOK ==
  /\ dpc \in {"wait", "register", "auth", "dial", "up"}
  /\ conn \in Wires \cup {None}
  /\ ppc \in {"off", "idle", "put", "mark"}
  /\ pub \in GrantIds \cup {None}
  /\ todo \subseteq GrantIds
  /\ job \in [Calls -> {"none", "asked", "ok", "error", "answered", "cut", "done"}]

Init ==
  /\ dpc = "wait"
  /\ dmsg = None
  /\ conn = None
  /\ ppc = "off"
  /\ pub = None
  /\ todo = {}
  /\ job = [q \in Calls |-> "none"]

--------------------------------------------------------------------------------
(* Run and session.                                                        *)

\* Run's wait is over and session begins: the signer answers the ping and signs
\* registration m, which is sent off.
SessionBegins(m) ==
  /\ dpc = "wait"
  /\ dpc' = "register"
  /\ dmsg' = m
  /\ UNCHANGED <<conn, publisher, job>>

\* The registration was answered with a status below 400.
Registered ==
  /\ dpc = "register"
  /\ dpc' = "auth"
  /\ dmsg' = None
  /\ UNCHANGED <<conn, publisher, job>>

\* The signer signs connect m; websocket.Dial.
Dial(m) ==
  /\ dpc = "auth"
  /\ dpc' = "dial"
  /\ dmsg' = m
  /\ UNCHANGED <<conn, publisher, job>>

\* The upgrade succeeded: publishLoop and pingLoop start.
Connected(w) ==
  /\ dpc = "dial"
  /\ dpc' = "up"
  /\ dmsg' = None
  /\ conn' = w
  /\ ppc' = "idle"
  /\ UNCHANGED <<pub, todo, job>>

\* Any error return of session before it is connected: the signer, a status of
\* 400 or more, a transport error or a timeout.
AttemptFails ==
  /\ dpc \in {"register", "auth", "dial"}
  /\ dpc' = "wait"
  /\ dmsg' = None
  /\ UNCHANGED <<conn, publisher, job>>

\* stop() cancels the session's context under a handleRedeem.
Cancelled(state) == IF state \in {"asked", "ok", "error"} THEN "cut" ELSE state

\* conn.Read fails: CloseNow, and stop() ends the loops and the redemptions.
SessionEnds ==
  /\ dpc = "up"
  /\ dpc' = "wait"
  /\ conn' = None
  /\ ppc' = "off"
  /\ pub' = None
  /\ todo' = {}
  /\ job' = [q \in Calls |-> Cancelled(job[q])]
  /\ UNCHANGED dmsg

--------------------------------------------------------------------------------
(* handleFrame and handleRedeem.                                           *)

HasSlot == Cardinality(Inflight) < MaxInflight

\* A redeem.request frame was read and a slot is free.
HandleFrame(q) ==
  /\ dpc = "up"
  /\ job[q] = "none"
  /\ HasSlot
  /\ job' = [job EXCEPT ![q] = "asked"]
  /\ UNCHANGED <<dpc, dmsg, conn, publisher>>

\* No slot is free: RATE_LIMITED, from the read loop itself.
RefuseFrame(q) ==
  /\ dpc = "up"
  /\ job[q] = "none"
  /\ ~HasSlot
  /\ job' = [job EXCEPT ![q] = "done"]
  /\ UNCHANGED <<dpc, dmsg, conn, publisher>>

\* The signer answered in time.
SignerReplies(q, verdict) ==
  /\ job[q] = "asked"
  /\ job' = [job EXCEPT ![q] = verdict]
  /\ UNCHANGED <<dpc, dmsg, conn, publisher>>

\* The answer is written to the connection.
Send(q) ==
  /\ job[q] \in {"ok", "error"}
  /\ job' = [job EXCEPT ![q] = "answered"]
  /\ UNCHANGED <<dpc, dmsg, conn, publisher>>

\* redeemTimeout, 15 s.
JobTimesOut(q) ==
  /\ job[q] = "asked"
  /\ job' = [job EXCEPT ![q] = "cut"]
  /\ UNCHANGED <<dpc, dmsg, conn, publisher>>

\* Mutant: the slot is given back after the answer, not by a deferred call.
Release_AfterAnswer(q) ==
  /\ job[q] = "answered"
  /\ job' = [job EXCEPT ![q] = "done"]
  /\ UNCHANGED <<dpc, dmsg, conn, publisher>>

\* The deferred <-d.inflight, however handleRedeem came to return.
Release(q) ==
  /\ job[q] \in {"answered", "cut"}
  /\ job' = [job EXCEPT ![q] = "done"]
  /\ UNCHANGED <<dpc, dmsg, conn, publisher>>

--------------------------------------------------------------------------------
(* publishLoop.                                                            *)

\* A tick with nothing left of the last round: the signer's list is read.
PublishTick(pendingPublications) ==
  /\ ppc = "idle"
  /\ todo = {}
  /\ todo' = pendingPublications
  /\ UNCHANGED <<dpc, dmsg, conn, ppc, pub, job>>

\* The next publication of the round is put.
Put(g) ==
  /\ ppc = "idle"
  /\ g \in todo
  /\ ppc' = "put"
  /\ pub' = g
  /\ todo' = todo \ {g}
  /\ UNCHANGED <<dpc, dmsg, conn, job>>

\* 2xx: the signer is told next.
PutAccepted ==
  /\ ppc = "put"
  /\ ppc' = "mark"
  /\ UNCHANGED <<dpc, dmsg, conn, pub, todo, job>>

\* 4xx: "Skip it so that it does not block the grants behind it."
PutRefused ==
  /\ ppc = "put"
  /\ ppc' = "idle"
  /\ pub' = None
  /\ UNCHANGED <<dpc, dmsg, conn, todo, job>>

\* Mutant: a transport error ends the loop, not the round.
AfterFailure_Return == "off"

\* The break after a transport error leaves the round, not the loop.
AfterFailure == "idle"

\* Mutant: a publication without an answer is taken for published.
PutFails_Marks ==
  /\ ppc = "put"
  /\ ppc' = "mark"
  /\ UNCHANGED <<dpc, dmsg, conn, pub, todo, job>>

\* 5xx or a transport error: the round is over, the next tick retries.
PutFails ==
  /\ ppc = "put"
  /\ ppc' = AfterFailure
  /\ pub' = None
  /\ todo' = {}
  /\ UNCHANGED <<dpc, dmsg, conn, job>>

\* Mutant: the signer is told although nothing was put.
MarkReturns_Unasked ==
  /\ ppc \in {"idle", "mark"}
  /\ ppc' = "idle"
  /\ pub' = None
  /\ UNCHANGED <<dpc, dmsg, conn, todo, job>>

\* MarkPublished returned, with or without an error.
MarkReturns ==
  /\ ppc = "mark"
  /\ ppc' = "idle"
  /\ pub' = None
  /\ UNCHANGED <<dpc, dmsg, conn, todo, job>>
================================================================================
