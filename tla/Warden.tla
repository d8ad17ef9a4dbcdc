-------------------------------- MODULE Warden --------------------------------
(***************************************************************************)
(* grant-warden (go/warden): admits certificates for sshd, places each     *)
(* session in its grant's cgroup before the visitor's shell exists, and    *)
(* empties the cgroup when the grant ends.                                 *)
(*                                                                         *)
(* Three kinds of process interleave: the Admit and Attach handlers, one   *)
(* per connection; the Run loop; and the machine (sshd, the visitor's      *)
(* tasks, systemd, the signer, the clocks).  A step is a stretch of code   *)
(* that holds w.mu, or one call made without it.  A crash loses all of the *)
(* warden's memory; the state file and the cgroups survive.                *)
(*                                                                         *)
(* The signer never rewrites expires_at, so g.Deadline is Expiry[g]        *)
(* whenever g is open and the "deadline can only shrink" branch of         *)
(* pollSigner cannot be taken; neither is a variable here.                 *)
(***************************************************************************)
EXTENDS Integers

CONSTANTS
  Grants,          \* redeemed grants
  Conns,           \* SSH connections, each one sshd process
  Pids,
  PidOf,           \* pid of each connection's sshd
  CertOf,          \* grant a connection's certificate names, None without one
  Expiry,          \* signer's expires_at of each grant, wall clock
  None,
  PendingTTL,      \* Config.PendingTTL
  TermGrace,       \* Config.TermGrace
  ClosedRetention, \* how long a closed grant is remembered, 30 s
  BackstopSlack,   \* Config.BackstopSlack
  Jumps,           \* steps the wall clock can be set by
  Horizon,         \* revocations, outages, crashes and clock steps end here
  MaxTime          \* the model's clock stops here; the timers below run on

ASSUME MapsAssumption ==
  /\ PidOf \in [Conns -> Pids]
  /\ CertOf \in [Conns -> Grants \cup {None}]
  /\ Expiry \in [Grants -> Nat]
  /\ None \notin Grants \cup Conns

ASSUME BoundsAssumption ==
  /\ {PendingTTL, TermGrace, ClosedRetention, BackstopSlack,
      Horizon, MaxTime} \subseteq Nat
  /\ Jumps \subseteq Int

VARIABLES
  now,        \* elapsed time, what Go's monotonic reading and systemd see
  skew,       \* wall clock minus now
  signer,     \* what the signer would answer for each grant
  signerUp,
  ready,      \* w.ready; FALSE also while the process is down
  grants,     \* w.grants
  pending,    \* w.pending
  file,       \* the state file: sessions of each grant listed, else None
  lpc, todo,  \* Run loop: where it is, grants its current pass has left
  emptied,    \* grant terminate saw empty and is about to finalize, else None
  pc,         \* Admit and Attach handlers
  taken,      \* grant of the pending admission Attach took
  remaining,  \* lifetime Attach computed, until it is used
  orphans,    \* connections whose Attach holds a *Grant no longer in the map
  ssh,        \* the connection: "new", "login", "shell" or "dead"
  slice,      \* grants whose slice cgroup exists
  scope,      \* grant whose slice holds tasks of the connection, else None
  backstop,   \* what is left of RuntimeMaxSec of the connection's scope
  doomed,     \* connections whose tasks have been sent SIGKILL
  ran,        \* history: connections that got a shell
  late,       \* history: connections whose Attach began after revocation
  missed      \* history: slices on the machine that the last Reconcile
              \* accounted for neither by the state file nor by listing them

signing == <<signer, signerUp>>
memory == <<ready, grants, pending, orphans>>
loop == <<lpc, todo, emptied>>
handlers == <<pc, taken, remaining>>
machine == <<ssh, slice, scope, backstop, doomed>>
clocks == <<now, skew>>
history == <<ran, late, missed>>
vars == <<now, skew, signer, signerUp, ready, grants, pending, file, lpc, todo,
          emptied, pc, taken, remaining, orphans, ssh, slice, scope, backstop, doomed,
          ran, late, missed>>

Wall == now + skew

\* mono is deadlineMono.  age is the time since closingSince, None while
\* termSent is FALSE, and is not counted further once no test can see it.
Absent == [state |-> "absent", mono |-> 0, age |-> None, sessions |-> {}]

MaxAge == TermGrace + ClosedRetention + 1

GrantRec == [state : {"absent", "open", "closing", "closed"}, mono : Int,
             age : (0..MaxAge) \cup {None}, sessions : SUBSET Conns]

\* created is a reading of the monotonic clock.
PendingRec == [conn : Conns, grant : Grants, created : Nat]

TypeOK ==
  /\ now \in Nat
  /\ skew \in Int
  /\ signer \in [Grants -> {"valid", "revoked", "purged"}]
  /\ signerUp \in BOOLEAN
  /\ ready \in BOOLEAN
  /\ grants \in [Grants -> GrantRec]
  /\ pending \in [Pids -> PendingRec \cup {None}]
  /\ file \in [Grants -> (SUBSET Conns) \cup {None}]
  /\ lpc \in {"sleep", "poll", "advance"}
  /\ todo \subseteq Grants
  /\ emptied \in Grants \cup {None}
  /\ pc \in [Conns -> {"idle", "admitCheck", "admitRecord", "authed",
                       "attachCheck", "attachOpen", "attachPlace",
                       "attachCommit", "done"}]
  /\ taken \in [Conns -> Grants \cup {None}]
  /\ remaining \in [Conns -> Nat]
  /\ orphans \subseteq Conns
  /\ ssh \in [Conns -> {"new", "login", "shell", "dead"}]
  /\ slice \subseteq Grants
  /\ scope \in [Conns -> Grants \cup {None}]
  /\ backstop \in [Conns -> Nat]
  /\ doomed \subseteq Conns
  /\ ran \subseteq Conns
  /\ late \subseteq Conns
  /\ missed \subseteq Grants

Init ==
  /\ now = 0 /\ skew = 0
  /\ signer = [g \in Grants |-> "valid"]
  /\ signerUp = TRUE
  /\ ready = FALSE
  /\ grants = [g \in Grants |-> Absent]
  /\ pending = [p \in Pids |-> None]
  /\ file = [g \in Grants |-> None]
  /\ lpc = "sleep" /\ todo = {} /\ emptied = None
  /\ pc = [c \in Conns |-> "idle"]
  /\ taken = [c \in Conns |-> None]
  /\ remaining = [c \in Conns |-> 0]
  /\ orphans = {}
  /\ ssh = [c \in Conns |-> "new"]
  /\ slice = {}
  /\ scope = [c \in Conns |-> None]
  /\ backstop = [c \in Conns |-> 0]
  /\ doomed = {}
  /\ ran = {} /\ late = {} /\ missed = {}

--------------------------------------------------------------------------------
(* Helpers.                                                                *)

\* The tasks in a grant's slice, by connection: cgroup.procs.
Members(g) == {c \in Conns : scope[c] = g}

\* cgroup.kill: every task of the group is sent SIGKILL, none can refuse it.
Kill(g) == doomed' = doomed \cup Members(g)

\* ReadProc and the start time it reads: is the process of a session still there?
Running(c) == ssh[c] # "dead"

\* An admission belongs to the process that asked for it, not to its pid.
SameProcess(p, c) == p.conn = c

\* The tasks of these connections end; a connection ends with its sshd.
Exits(C) ==
  /\ scope' = [c \in Conns |-> IF c \in C THEN None ELSE scope[c]]
  /\ ssh' = [c \in Conns |-> IF c \in C THEN "dead" ELSE ssh[c]]

\* persistLocked; a write error is logged and the old file stays.
Persist ==
  file' \in {file, [g \in Grants |->
                      IF grants'[g].state = "absent" THEN None
                                                     ELSE grants'[g].sessions]}

\* The handler refuses; grant-admit fails closed and sshd hangs up later.
Deny(c) == pc' = [pc EXCEPT ![c] = "done"]

\* SignerClient.Grant: what the signer says of a grant, if it can be asked.
SignerGrant(g) == IF signerUp THEN signer[g] ELSE "error"

Ping == signerUp

\* checkGrant: the signer must answer, and the grant must be live.
CheckGrant(g) == SignerGrant(g) = "valid" /\ Expiry[g] > Wall

Shut(g) == grants[g].state \in {"closing", "closed"}

\* closeLocked for a set of grants, those not open excepted.
CloseLocked(G) ==
  grants' = [g \in Grants |->
               IF g \in G /\ grants[g].state = "open"
                 THEN [grants[g] EXCEPT !.state = "closing", !.age = None]
                 ELSE grants[g]]

--------------------------------------------------------------------------------
(* Admit: the AuthorizedPrincipalsCommand.                                 *)

\* Ready, and no closing or closed group on this host.
AdmitBegin(c) ==
  /\ pc[c] = "idle"
  /\ ssh[c] = "login"
  /\ CertOf[c] # None
  /\ IF ready /\ ~Shut(CertOf[c])
       THEN pc' = [pc EXCEPT ![c] = "admitCheck"]
       ELSE Deny(c)
  /\ UNCHANGED <<clocks, signing, memory, file, loop, taken, remaining,
                 machine, history>>

AdmitCheck(c) ==
  /\ pc[c] = "admitCheck"
  /\ IF CheckGrant(CertOf[c])
       THEN pc' = [pc EXCEPT ![c] = "admitRecord"]
       ELSE Deny(c)
  /\ UNCHANGED <<clocks, signing, memory, file, loop, taken, remaining,
                 machine, history>>

\* The admission is remembered under the pid of the sshd process.
AdmitRecord(c) ==
  /\ pc[c] = "admitRecord"
  /\ IF Shut(CertOf[c])
       THEN Deny(c) /\ UNCHANGED pending
       ELSE /\ pending' = [pending EXCEPT ![PidOf[c]] =
                             [conn |-> c, grant |-> CertOf[c], created |-> now]]
            /\ pc' = [pc EXCEPT ![c] = "authed"]
  /\ UNCHANGED <<clocks, signing, ready, grants, orphans, file, loop, taken,
                 remaining, machine, history>>

--------------------------------------------------------------------------------
(* Attach: the PAM session hook.                                           *)

\* A connection without a certificate reaches the hook too.
AtHook(c) ==
  /\ ssh[c] = "login"
  /\ pc[c] = "authed" \/ (pc[c] = "idle" /\ CertOf[c] = None)

\* Mutant: a pending admission is matched by pid alone.
AttachTake_AnyProcess(c) ==
  /\ AtHook(c)
  /\ LET p == pending[PidOf[c]] IN
       IF ~ready
         THEN Deny(c) /\ UNCHANGED <<pending, taken, late>>
         ELSE /\ pending' = [pending EXCEPT ![PidOf[c]] = None]
              /\ IF p = None \/ now - p.created > PendingTTL
                   THEN Deny(c) /\ UNCHANGED <<taken, late>>
                   ELSE /\ taken' = [taken EXCEPT ![c] = p.grant]
                        /\ late' = IF signer[p.grant] = "valid"
                                     THEN late ELSE late \cup {c}
                        /\ pc' = [pc EXCEPT ![c] = "attachCheck"]
  /\ UNCHANGED <<clocks, signing, ready, grants, orphans, file, loop,
                 remaining, machine, ran, missed>>

\* The pending admission is used up, whatever becomes of it: it must be of the
\* same process (SameProcess) and fresh.
AttachTake(c) ==
  /\ AtHook(c)
  /\ LET p == pending[PidOf[c]] IN
       IF ~ready
         THEN Deny(c) /\ UNCHANGED <<pending, taken, late>>
         ELSE /\ pending' = [pending EXCEPT ![PidOf[c]] = None]
              /\ IF p = None \/ ~SameProcess(p, c) \/ now - p.created > PendingTTL
                   THEN Deny(c) /\ UNCHANGED <<taken, late>>
                   ELSE /\ taken' = [taken EXCEPT ![c] = p.grant]
                        /\ late' = IF signer[p.grant] = "valid"
                                     THEN late ELSE late \cup {c}
                        /\ pc' = [pc EXCEPT ![c] = "attachCheck"]
  /\ UNCHANGED <<clocks, signing, ready, grants, orphans, file, loop,
                 remaining, machine, ran, missed>>

\* Mutant: the second question to the signer is saved.
AttachCheck_Trusting(c) ==
  /\ pc[c] = "attachCheck"
  /\ pc' = [pc EXCEPT ![c] = "attachOpen"]
  /\ UNCHANGED <<clocks, signing, memory, file, loop, taken, remaining,
                 machine, history>>

AttachCheck(c) ==
  /\ pc[c] = "attachCheck"
  /\ IF CheckGrant(taken[c])
       THEN pc' = [pc EXCEPT ![c] = "attachOpen"]
       ELSE Deny(c)
  /\ UNCHANGED <<clocks, signing, memory, file, loop, taken, remaining,
                 machine, history>>

\* Mutant: time that passed since the signer's answer is not looked at.
AttachOpen_NoTimeLeftCheck(c) ==
  /\ pc[c] = "attachOpen"
  /\ LET g == taken[c]
         left == Expiry[g] - Wall
     IN IF Shut(g)
          THEN Deny(c) /\ UNCHANGED <<grants, remaining>>
          ELSE /\ grants' = [grants EXCEPT ![g] =
                               [@ EXCEPT !.state = "open", !.mono = now + left]]
               /\ remaining' = [remaining EXCEPT ![c] = left]
               /\ pc' = [pc EXCEPT ![c] = "attachPlace"]
  /\ UNCHANGED <<clocks, signing, ready, pending, orphans, file, loop, taken,
                 machine, history>>

\* The grant is opened, or found open, and both deadlines set anew.  The
\* monotonic one is "now plus what the wall clock says is left".
AttachOpen(c) ==
  /\ pc[c] = "attachOpen"
  /\ LET g == taken[c]
         left == Expiry[g] - Wall
     IN IF left <= 0 \/ Shut(g)
          THEN Deny(c) /\ UNCHANGED <<grants, remaining>>
          ELSE /\ grants' = [grants EXCEPT ![g] =
                               [@ EXCEPT !.state = "open", !.mono = now + left]]
               /\ remaining' = [remaining EXCEPT ![c] = left]
               /\ pc' = [pc EXCEPT ![c] = "attachPlace"]
  /\ UNCHANGED <<clocks, signing, ready, pending, orphans, file, loop, taken,
                 machine, history>>

\* A slice that exists already is as good as a new one.
StartSlice(g) == slice' = slice \cup {g}

\* systemd ends a slice together with whatever is in it.
StopUnit(g) ==
  /\ slice' = slice \ {g}
  /\ Exits(Members(g))

\* Mutant: the scope is started without RuntimeMaxSec.
StartScope_NoRuntimeMax(c) ==
  /\ scope' = [scope EXCEPT ![c] = taken[c]]
  /\ backstop' = [backstop EXCEPT ![c] = -1]

\* The sshd process moves into a scope that systemd ends by itself.
StartScope(c) ==
  /\ scope' = [scope EXCEPT ![c] = taken[c]]
  /\ backstop' = [backstop EXCEPT ![c] = remaining[c] + BackstopSlack]

\* StartSlice, StartScope and the read-back of the cgroup: the process is seen
\* in its scope, or a call failed, before or after it took effect, and the hook
\* refuses.
AttachPlace(c) ==
  /\ pc[c] = "attachPlace"
  /\ remaining' = [remaining EXCEPT ![c] = 0]
  /\ \/ /\ ssh[c] = "login"
        /\ StartSlice(taken[c])
        /\ StartScope(c)
        /\ pc' = [pc EXCEPT ![c] = "attachCommit"]
     \/ /\ \/ ssh[c] = "login" /\ StartSlice(taken[c]) /\ StartScope(c)
           \/ StartSlice(taken[c]) /\ UNCHANGED <<scope, backstop>>
           \/ UNCHANGED <<slice, scope, backstop>>
        /\ Deny(c)
  /\ UNCHANGED <<clocks, signing, memory, file, loop, taken, ssh, doomed,
                 history>>

\* Success starts the shell, if the connection still waits for the hook.
StartShell(c) ==
  IF ssh[c] = "login"
    THEN ssh' = [ssh EXCEPT ![c] = "shell"] /\ ran' = ran \cup {c}
    ELSE UNCHANGED <<ssh, ran>>

\* Mutant: the grant's state is not looked at again after placement.
AttachCommit_NoRecheck(c) ==
  /\ pc[c] = "attachCommit"
  /\ pc' = [pc EXCEPT ![c] = "done"]
  /\ IF grants[taken[c]].state = "absent"
       THEN UNCHANGED grants
       ELSE grants' = [grants EXCEPT ![taken[c]].sessions = @ \cup {c}]
  /\ Persist
  /\ StartShell(c)
  /\ UNCHANGED <<clocks, signing, ready, pending, orphans, loop, taken,
                 remaining, slice, scope, backstop, doomed, late, missed>>

\* Last look at the grant Attach opened, then the session is recorded.
AttachCommit(c) ==
  /\ pc[c] = "attachCommit"
  /\ pc' = [pc EXCEPT ![c] = "done"]
  /\ IF grants[taken[c]].state = "open" /\ c \notin orphans
       THEN /\ grants' = [grants EXCEPT ![taken[c]].sessions = @ \cup {c}]
            /\ Persist
            /\ StartShell(c)
       ELSE UNCHANGED <<grants, file, ssh, ran>>
  /\ UNCHANGED <<clocks, signing, ready, pending, orphans, loop, taken,
                 remaining, slice, scope, backstop, doomed, late, missed>>

--------------------------------------------------------------------------------
(* Run: one pass is enforceDeadlines, pollSigner, expirePending,           *)
(* pruneSessions, advanceClosing, in this order.                           *)

\* Open grants past the monotonic or the wall deadline are closed; the others
\* are polled next.
EnforceDeadlines ==
  /\ ready
  /\ lpc = "sleep"
  /\ LET over == {g \in Grants : /\ grants[g].state = "open"
                                 /\ now >= grants[g].mono \/ Wall >= Expiry[g]}
     IN /\ CloseLocked(over)
        /\ IF over = {} THEN UNCHANGED file ELSE Persist
  /\ todo' = {g \in Grants : grants'[g].state = "open"}
  /\ lpc' = "poll"
  /\ UNCHANGED <<clocks, signing, ready, pending, orphans, emptied, handlers,
                 machine, history>>

\* A signer that does not answer changes nothing.
PollSigner(g) ==
  /\ lpc = "poll"
  /\ g \in todo
  /\ todo' = todo \ {g}
  /\ IF SignerGrant(g) # "error" /\ ~CheckGrant(g) /\ grants[g].state = "open"
       THEN CloseLocked({g}) /\ Persist
       ELSE UNCHANGED <<grants, file>>
  /\ UNCHANGED <<clocks, signing, ready, pending, orphans, lpc, emptied,
                 handlers, machine, history>>

\* expirePending and pruneSessions, and the list advanceClosing works on.
Prune ==
  /\ lpc = "poll"
  /\ todo = {}
  /\ pending' = [p \in Pids |->
                   IF pending[p] # None /\ now - pending[p].created > PendingTTL
                     THEN None ELSE pending[p]]
  /\ grants' = [g \in Grants |->
                  [grants[g] EXCEPT !.sessions = {c \in @ : Running(c)}]]
  /\ IF grants' = grants THEN UNCHANGED file ELSE Persist
  /\ todo' = {g \in Grants : grants[g].state = "closing"}
  /\ lpc' = "advance"
  /\ UNCHANGED <<clocks, signing, ready, orphans, emptied, handlers, machine,
                 history>>

\* Mutant: termination stays polite for ever.
Terminate_NeverKills(g) ==
  /\ lpc = "advance" /\ emptied = None
  /\ g \in todo
  /\ todo' = todo \ {g}
  /\ grants' = [grants EXCEPT ![g].age = IF @ = None THEN 0 ELSE @]
  /\ emptied' = IF Members(g) = {} THEN g ELSE None
  /\ UNCHANGED <<clocks, signing, ready, pending, orphans, file, lpc, handlers,
                 machine, history>>

\* Whether a read or write of a cgroup file succeeds; none fails for ever.
CgroupIO == {TRUE, now > Horizon}

\* terminate: SIGTERM within the grace period, which the visitor's tasks may
\* ignore; cgroup.kill after it, which they cannot.  A group that is missing, or
\* that cgroup.events says is empty, is finalized next; the others, and those
\* whose files could not be written or read, are left for the next pass.
Terminate(g) ==
  /\ lpc = "advance" /\ emptied = None
  /\ g \in todo
  /\ todo' = todo \ {g}
  /\ grants' = [grants EXCEPT ![g].age = IF @ = None THEN 0 ELSE @]
  /\ \E kills, reads \in CgroupIO :
       /\ IF grants'[g].age >= TermGrace /\ kills
            THEN Kill(g) ELSE UNCHANGED doomed
       /\ emptied' = IF Members(g) = {} /\ (g \in slice => reads)
                       THEN g ELSE None
  /\ UNCHANGED <<clocks, signing, ready, pending, orphans, file, lpc, handlers,
                 ssh, slice, scope, backstop, history>>

\* finalize: systemd stops the slice, with whatever was placed in it since, or
\* fails to; the grant is closed either way.
Finalize(g) ==
  /\ emptied = g
  /\ emptied' = None
  /\ \/ StopUnit(g)
     \/ UNCHANGED <<slice, scope, ssh>>
  /\ grants' = [grants EXCEPT ![g] =
                  [@ EXCEPT !.state = "closed", !.age = 0, !.sessions = {}]]
  /\ Persist
  /\ UNCHANGED <<clocks, signing, ready, pending, orphans, lpc, todo, handlers,
                 backstop, doomed, history>>

\* The end of advanceClosing: grants closed for long enough are forgotten.
Forget ==
  /\ lpc = "advance" /\ todo = {} /\ emptied = None
  /\ lpc' = "sleep"
  /\ LET old == {g \in Grants : /\ grants[g].state = "closed"
                                /\ grants[g].age > ClosedRetention}
     IN /\ grants' = [g \in Grants |-> IF g \in old THEN Absent ELSE grants[g]]
        /\ orphans' = orphans \cup
             {c \in Conns : /\ pc[c] \in {"attachPlace", "attachCommit"}
                            /\ taken[c] \in old}
  /\ Persist
  /\ UNCHANGED <<clocks, signing, ready, pending, todo, emptied, handlers,
                 machine, history>>

--------------------------------------------------------------------------------
(* Crash and restart.                                                      *)

\* The process dies: memory is gone and the hooks it was serving fail.
Crash ==
  /\ ready
  /\ now <= Horizon
  /\ ready' = FALSE
  /\ grants' = [g \in Grants |-> Absent]
  /\ pending' = [p \in Pids |-> None]
  /\ orphans' = {}
  /\ lpc' = "sleep" /\ todo' = {} /\ emptied' = None
  /\ pc' = [c \in Conns |-> IF pc[c] \in {"idle", "authed"} THEN pc[c]
                                                            ELSE "done"]
  /\ UNCHANGED <<clocks, signing, file, taken, remaining, machine, history>>

\* What the state file can be read as: a file that is missing, unreadable or
\* not JSON counts as one that lists no grant.
LoadState == {file, [g \in Grants |-> None]}

\* Grants whose slices are found on the machine, known to the file or not: all
\* of them, or none when their parent cannot be listed.
DiscoverGrantIDs == {slice, {}}

\* The record of a grant after a restart: open if the signer vouches for it now,
\* to be terminated otherwise.
Rebuilt(g, sessions, vouched) ==
  IF vouched
    THEN [Absent EXCEPT !.state = "open",
                        !.mono = now + Expiry[g] - Wall,
                        !.sessions = {c \in sessions : Running(c)}]
    ELSE [Absent EXCEPT !.state = "closing", !.sessions = sessions]

\* Every grant read from the state file and every slice found is rebuilt; the
\* signer may fail to answer for some of them.  Admission opens whatever could
\* not be read.
Reconcile ==
  /\ ~ready
  /\ Ping
  /\ ready' = TRUE
  /\ \E loaded \in LoadState, found \in DiscoverGrantIDs :
       LET ids == {g \in Grants : loaded[g] # None} \cup found
           listed(g) == IF loaded[g] = None THEN {} ELSE loaded[g]
       IN /\ missed' = slice \ ids
          /\ \E answered \in SUBSET ids :
               grants' = [g \in Grants |->
                 IF g \in ids
                   THEN Rebuilt(g, listed(g), g \in answered /\ CheckGrant(g))
                   ELSE Absent]
  /\ Persist
  /\ UNCHANGED <<clocks, signing, pending, orphans, loop, handlers, machine,
                 ran, late>>

--------------------------------------------------------------------------------
(* The machine around the warden.                                          *)

\* A pid is given to a new sshd only when its previous owner is gone.
Connect(c) ==
  /\ ssh[c] = "new"
  /\ \A d \in Conns : PidOf[d] = PidOf[c] => ssh[d] \in {"new", "dead"}
  /\ ssh' = [ssh EXCEPT ![c] = "login"]
  /\ UNCHANGED <<clocks, signing, memory, file, loop, handlers, slice, scope,
                 backstop, doomed, history>>

\* The connection ends: the visitor leaves, the hook refused or gave up.  A
\* shell may leave tasks behind in the cgroup.
Hangup(c) ==
  /\ ssh[c] \in {"login", "shell"}
  /\ \/ Exits({c})
     \/ /\ ssh[c] = "shell"
        /\ ssh' = [ssh EXCEPT ![c] = "dead"]
        /\ UNCHANGED scope
  /\ UNCHANGED <<clocks, signing, memory, file, loop, handlers, slice,
                 backstop, doomed, history>>

\* The tasks left of a connection end, by themselves or by SIGKILL.
TasksEnd(c) ==
  /\ scope[c] # None
  /\ c \in doomed \/ ssh[c] = "dead"
  /\ Exits({c})
  /\ UNCHANGED <<clocks, signing, memory, file, loop, handlers, slice,
                 backstop, doomed, history>>

\* systemd ends a scope that has used up its RuntimeMaxSec.
RuntimeMax(c) ==
  /\ scope[c] # None
  /\ backstop[c] = 0
  /\ Exits({c})
  /\ UNCHANGED <<clocks, signing, memory, file, loop, handlers, slice,
                 backstop, doomed, history>>

\* The owner revokes a grant, or the signer forgets an expired one.
SignerChanges(g) ==
  /\ \/ signer[g] = "valid" /\ now <= Horizon
        /\ signer' = [signer EXCEPT ![g] = "revoked"]
     \/ signer[g] # "purged" /\ Wall > Expiry[g]
        /\ signer' = [signer EXCEPT ![g] = "purged"]
  /\ UNCHANGED <<clocks, signerUp, memory, file, loop, handlers, machine,
                 history>>

SignerDown ==
  /\ signerUp /\ now <= Horizon
  /\ signerUp' = FALSE
  /\ UNCHANGED <<clocks, signer, memory, file, loop, handlers, machine, history>>

SignerRestarts ==
  /\ ~signerUp
  /\ signerUp' = TRUE
  /\ UNCHANGED <<clocks, signer, memory, file, loop, handlers, machine, history>>

\* Someone sets the wall clock.
ClockStep(d) ==
  /\ now <= Horizon
  /\ skew = 0
  /\ skew' = d
  /\ UNCHANGED <<now, signing, memory, file, loop, handlers, machine, history>>

\* Time passes for the clock, the closing grants and the scopes' timers.
Tick ==
  /\ now' = IF now < MaxTime THEN now + 1 ELSE now
  /\ grants' = [g \in Grants |-> [grants[g] EXCEPT !.age =
                  IF @ \in 0..(MaxAge - 1) THEN @ + 1 ELSE @]]
  /\ backstop' = [c \in Conns |-> IF scope[c] # None /\ backstop[c] > 0
                                    THEN backstop[c] - 1 ELSE backstop[c]]
  /\ UNCHANGED <<skew, signing, ready, pending, orphans, file, loop, handlers,
                 ssh, slice, scope, doomed, history>>

--------------------------------------------------------------------------------
Handler(c) ==
  \/ AdmitBegin(c) \/ AdmitCheck(c) \/ AdmitRecord(c)
  \/ AttachTake(c) \/ AttachCheck(c) \/ AttachOpen(c)
  \/ AttachPlace(c) \/ AttachCommit(c)

Pass ==
  \/ EnforceDeadlines
  \/ \E g \in Grants : PollSigner(g)
  \/ Prune
  \/ \E g \in Grants : Terminate(g)
  \/ \E g \in Grants : Finalize(g)
  \/ Forget

Next ==
  \/ \E c \in Conns : Handler(c)
  \/ Pass
  \/ Crash \/ Reconcile
  \/ \E c \in Conns : Connect(c) \/ Hangup(c) \/ TasksEnd(c) \/ RuntimeMax(c)
  \/ \E g \in Grants : SignerChanges(g)
  \/ SignerDown \/ SignerRestarts
  \/ \E d \in Jumps : ClockStep(d)
  \/ Tick

\* Time passes, killed tasks die, handlers return, the signer is restarted and
\* a refused connection is closed.
MachineFairness ==
  /\ WF_vars(Tick)
  /\ WF_vars(SignerRestarts)
  /\ \A c \in Conns :
       /\ WF_vars(Handler(c))
       /\ WF_vars(c \in doomed /\ TasksEnd(c))
       /\ WF_vars(pc[c] = "done" /\ ssh[c] = "login" /\ Hangup(c))

\* systemd keeps its timers.
SystemdFairness == \A c \in Conns : WF_vars(RuntimeMax(c))

\* The unit has Restart=always, main retries Reconcile, and Run loops.
WardenFairness == WF_vars(Reconcile) /\ WF_vars(Pass)

Spec == Init /\ [][Next]_vars

\* The machine runs; nothing is assumed of the warden or of systemd's timers.
MachineSpec == Spec /\ MachineFairness

--------------------------------------------------------------------------------
(* Properties.                                                             *)

\* Visitors' tasks in a grant's cgroup: of connections that got a shell.
Visitors(g) == Members(g) \cap ran

\* Whenever the warden is up, every group with a visitor's task in it is one
\* the warden watches or is emptying, never one it has closed or forgotten.  The
\* only exception is a group Reconcile missed at the last restart because both
\* the state file and the listing of the slices failed it (see
\* AccountsForEverySlice).
Supervised ==
  ready => \A g \in Grants \ missed :
             Visitors(g) # {} => grants[g].state \in {"open", "closing"}

\* A shell runs only inside the cgroup of the grant its own certificate named,
\* although admissions are keyed by pid and pids are reused.
OwnGrantOnly ==
  \A c \in ran : CertOf[c] # None /\ scope[c] \in {CertOf[c], None}

\* "Ask again": a grant revoked before the session hook started gives nobody a
\* shell, although the certificate had been admitted.
NoShellAfterRevocation == ran \cap late = {}

\* Revocation ends every session of the grant for good, tasks left behind
\* included, whatever crashes, signer outages, failing cgroup files and
\* half-done attachments come with it: a warden that does its work, and whose
\* last restart did not miss the group, is enough, whatever systemd's timers do.
RevocationTerminates ==
  WardenFairness =>
    \A g \in Grants :
      <>[](g \notin missed) =>
        (signer[g] # "valid" ~> [](Visitors(g) = {}))

\* Even with no warden left alive, no visitor's task outlives its grant for
\* ever: systemd's RuntimeMaxSec is enough to end it.
BackstopTerminates ==
  SystemdFairness =>
    \A c \in Conns : scope[c] # None ~> scope[c] = None

\* warden.go, Attach: "A reconnect does not move it ... so a wall-clock jump
\* cannot move it."
ReconnectKeepsDeadline ==
  [][\A g \in Grants :
       grants[g].state = "open" /\ grants'[g].state = "open" =>
         grants'[g].mono <= grants[g].mono]_vars

\* warden.go, Reconcile: "It refuses to open until it can reach the signer and
\* account for every grant slice already on the machine".
AccountsForEverySlice ==
  [][~ready /\ ready' =>
       \A g \in slice : grants'[g].state \in {"open", "closing"}]_vars

\* warden.go, Attach: "Terminated while the scope was being created. The scope
\* is inside the slice, so the termination already covers it".
TerminationCovers ==
  \A c \in Conns :
    pc[c] = "attachCommit" /\ scope[c] # None /\ c \notin doomed =>
      grants[taken[c]].state \in {"open", "closing"}
================================================================================
