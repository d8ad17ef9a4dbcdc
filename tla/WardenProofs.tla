------------------------------ MODULE WardenProofs ------------------------------
(***************************************************************************)
(* Safety of the warden for any number of grants, connections and pids,    *)
(* any clock steps and any number of crashes.                              *)
(***************************************************************************)
EXTENDS Warden, TLAPS

--------------------------------------------------------------------------------
(* Types, and whose admission a handler holds.                             *)

Attaching == {"attachCheck", "attachOpen", "attachPlace", "attachCommit"}

\* What the hooks know of a connection is what its certificate says.
HookInv ==
  /\ \A c \in Conns : pc[c] \in {"admitCheck", "admitRecord"} => CertOf[c] # None
  /\ \A p \in Pids : pending[p] # None => pending[p].grant = CertOf[pending[p].conn]
  /\ \A c \in Conns : pc[c] \in Attaching => CertOf[c] # None /\ taken[c] = CertOf[c]
  /\ \A c \in Conns : scope[c] # None => scope[c] = CertOf[c]
  /\ \A c \in ran : pc[c] = "done" /\ CertOf[c] # None

TypeInv == TypeOK /\ HookInv

\* The numbers in the form the steps use.
LEMMA Numbers ==
  /\ PendingTTL \in Nat /\ TermGrace \in Nat /\ ClosedRetention \in Nat
  /\ BackstopSlack \in Nat /\ MaxTime \in Nat /\ MaxAge \in Nat
BY BoundsAssumption DEF MaxAge

\* Every way the code changes a grant's record keeps it one.
LEMMA RecordTypes ==
  ASSUME NEW r \in GrantRec
  PROVE  /\ \A m \in Int : [r EXCEPT !.state = "open", !.mono = m] \in GrantRec
         /\ [r EXCEPT !.state = "closing", !.age = None] \in GrantRec
         /\ [r EXCEPT !.state = "closed", !.age = 0, !.sessions = {}] \in GrantRec
         /\ \A S \in SUBSET Conns : [r EXCEPT !.sessions = S] \in GrantRec
         /\ \A a \in (0..MaxAge) \cup {None} : [r EXCEPT !.age = a] \in GrantRec
<1>1. ASSUME NEW m \in Int PROVE [r EXCEPT !.state = "open", !.mono = m] \in GrantRec
  BY DEF GrantRec
<1>2. [r EXCEPT !.state = "closing", !.age = None] \in GrantRec BY DEF GrantRec
<1>3. [r EXCEPT !.state = "closed", !.age = 0, !.sessions = {}] \in GrantRec
  <2>1. 0 \in 0..MaxAge BY Numbers
  <2> QED BY <2>1 DEF GrantRec
<1>4. ASSUME NEW S \in SUBSET Conns PROVE [r EXCEPT !.sessions = S] \in GrantRec
  BY DEF GrantRec
<1>5. ASSUME NEW a \in (0..MaxAge) \cup {None} PROVE [r EXCEPT !.age = a] \in GrantRec
  BY DEF GrantRec
<1> QED BY <1>1, <1>2, <1>3, <1>4, <1>5

\* A grant the warden does not know.
LEMMA AbsentType == Absent \in GrantRec
BY Numbers DEF Absent, GrantRec

\* The state file lists sessions of grants, whichever write of it survives.
LEMMA PersistType ==
  ASSUME file \in [Grants -> (SUBSET Conns) \cup {None}],
         grants' \in [Grants -> GrantRec], Persist
  PROVE  file' \in [Grants -> (SUBSET Conns) \cup {None}]
BY DEF Persist, GrantRec

\* Closing a set of grants is well typed.
LEMMA CloseType ==
  ASSUME grants \in [Grants -> GrantRec], NEW G, CloseLocked(G)
  PROVE  grants' \in [Grants -> GrantRec]
BY DEF CloseLocked, GrantRec

\* What Reconcile makes of one grant, from what it loaded and found.
ReconciledTo(g, loaded, found) ==
  \/ /\ loaded[g] # None \/ g \in found
     /\ g \notin missed'
     /\ \E v \in BOOLEAN :
          grants'[g] = Rebuilt(g, IF loaded[g] = None THEN {} ELSE loaded[g], v)
  \/ /\ loaded[g] = None /\ g \notin found
     /\ g \in slice => g \in missed'
     /\ grants'[g] = Absent

\* Reconcile, grant by grant.
LEMMA ReconcileStep ==
  ASSUME Reconcile
  PROVE  \E loaded \in LoadState, found \in DiscoverGrantIDs :
           \A g \in Grants : ReconciledTo(g, loaded, found)
<1>1. PICK loaded \in LoadState, found \in DiscoverGrantIDs :
        LET ids == {g \in Grants : loaded[g] # None} \cup found
            listed(g) == IF loaded[g] = None THEN {} ELSE loaded[g]
        IN /\ missed' = slice \ ids
           /\ \E answered \in SUBSET ids :
                grants' = [g \in Grants |->
                  IF g \in ids
                    THEN Rebuilt(g, listed(g), g \in answered /\ CheckGrant(g))
                    ELSE Absent]
  BY Zenon DEF Reconcile
<1> DEFINE ids == {g \in Grants : loaded[g] # None} \cup found
           listed(g) == IF loaded[g] = None THEN {} ELSE loaded[g]
<1>2. PICK answered \in SUBSET ids :
        grants' = [g \in Grants |->
          IF g \in ids
            THEN Rebuilt(g, listed(g), g \in answered /\ CheckGrant(g))
            ELSE Absent]
  BY <1>1, Zenon
<1>3. missed' = slice \ ids BY <1>1, Zenon
<1>4. ASSUME NEW g \in Grants PROVE ReconciledTo(g, loaded, found)
  <2>1. CASE g \in ids
    <3> DEFINE v == g \in answered /\ CheckGrant(g)
    <3>1. v \in BOOLEAN OBVIOUS
    <3>2. grants'[g] = Rebuilt(g, listed(g), v) BY <1>2, <2>1, Zenon
    <3>3. g \notin missed' BY <1>3, <2>1
    <3> HIDE DEF v
    <3> QED BY <2>1, <3>1, <3>2, <3>3, Zenon DEF ReconciledTo
  <2>2. CASE g \notin ids
    <3>1. grants'[g] = Absent BY <1>2, <2>2, Zenon
    <3> QED BY <1>3, <2>2, <3>1 DEF ReconciledTo
  <2> QED BY <2>1, <2>2
<1> QED BY <1>4

\* The warden starts with nothing.
LEMMA InitTypeInv == Init => TypeInv
<1> SUFFICES ASSUME Init PROVE TypeInv
  OBVIOUS
<1>1. grants \in [Grants -> GrantRec] BY AbsentType DEF Init
<1>2. /\ now \in Nat /\ skew \in Int
      /\ signer \in [Grants -> {"valid", "revoked", "purged"}]
      /\ pending \in [Pids -> PendingRec \cup {None}]
      /\ file \in [Grants -> (SUBSET Conns) \cup {None}]
  BY DEF Init
<1>3. /\ pc \in [Conns -> {"idle", "admitCheck", "admitRecord", "authed",
                         "attachCheck", "attachOpen", "attachPlace",
                         "attachCommit", "done"}]
      /\ taken \in [Conns -> Grants \cup {None}]
      /\ remaining \in [Conns -> Nat]
      /\ ssh \in [Conns -> {"new", "login", "shell", "dead"}]
      /\ scope \in [Conns -> Grants \cup {None}]
      /\ backstop \in [Conns -> Nat]
  BY DEF Init
<1>4. TypeOK BY <1>1, <1>2, <1>3, Zenon DEF Init, TypeOK
<1>5. HookInv BY DEF Init, HookInv, Attaching
<1> QED BY <1>4, <1>5 DEF TypeInv

\* The handlers of one connection.
LEMMA HandlerTypeInv ==
  ASSUME TypeInv, NEW c \in Conns, Handler(c)
  PROVE  TypeInv'
<1> USE MapsAssumption, Numbers DEF TypeInv
<1>1. CASE AdmitBegin(c)
  <2>1. pc' = [pc EXCEPT ![c] = "admitCheck"] \/ pc' = [pc EXCEPT ![c] = "done"]
    BY <1>1 DEF AdmitBegin, Deny
  <2>2. TypeOK'
    BY <1>1, <2>1 DEF AdmitBegin, TypeOK, clocks, signing, memory, loop, machine, history
  <2>3. HookInv'
    BY <1>1, <2>1 DEF AdmitBegin, TypeOK, HookInv, Attaching, clocks, signing, memory,
       loop, machine, history
  <2> QED BY <2>2, <2>3
<1>2. CASE AdmitCheck(c)
  <2>1. pc' = [pc EXCEPT ![c] = "admitRecord"] \/ pc' = [pc EXCEPT ![c] = "done"]
    BY <1>2 DEF AdmitCheck, Deny
  <2>2. TypeOK'
    BY <1>2, <2>1 DEF AdmitCheck, TypeOK, clocks, signing, memory, loop, machine, history
  <2>3. HookInv'
    BY <1>2, <2>1 DEF AdmitCheck, TypeOK, HookInv, Attaching, clocks, signing, memory,
       loop, machine, history
  <2> QED BY <2>2, <2>3
<1>3. CASE AdmitRecord(c)
  <2>1. CertOf[c] \in Grants /\ PidOf[c] \in Pids
    BY <1>3 DEF AdmitRecord, HookInv
  <2> DEFINE r == [conn |-> c, grant |-> CertOf[c], created |-> now]
  <2>2. r \in PendingRec /\ r.grant = CertOf[r.conn]
    BY <2>1 DEF TypeOK, PendingRec
  <2>3. \/ pc' = [pc EXCEPT ![c] = "done"] /\ pending' = pending
        \/ /\ pc' = [pc EXCEPT ![c] = "authed"]
           /\ pending' = [pending EXCEPT ![PidOf[c]] = r]
    BY <1>3 DEF AdmitRecord, Deny
  <2> HIDE DEF r
  <2>4. TypeOK'
    BY <1>3, <2>1, <2>2, <2>3 DEF AdmitRecord, TypeOK, clocks, signing, loop, machine, history
  <2>5. HookInv'
    BY <1>3, <2>1, <2>2, <2>3 DEF AdmitRecord, TypeOK, HookInv, Attaching, clocks, signing,
       loop, machine, history
  <2> QED BY <2>4, <2>5
<1>4. CASE AttachTake(c)
  <2> DEFINE p == pending[PidOf[c]]
  <2>1. PidOf[c] \in Pids OBVIOUS
  <2>2. p # None => p \in PendingRec BY <2>1 DEF TypeOK, PendingRec
  <2>3. pc[c] \in {"authed", "idle"} /\ c \notin ran
    BY <1>4 DEF AttachTake, AtHook, HookInv
  <2>4. pending' = [pending EXCEPT ![PidOf[c]] = None] \/ pending' = pending
    BY <1>4 DEF AttachTake
  <2>5. \/ pc' = [pc EXCEPT ![c] = "done"] /\ taken' = taken
        \/ /\ pc' = [pc EXCEPT ![c] = "attachCheck"]
           /\ p # None /\ p.conn = c
           /\ taken' = [taken EXCEPT ![c] = p.grant]
    BY <1>4 DEF AttachTake, SameProcess, Deny
  <2>6. late' \subseteq Conns BY <1>4 DEF AttachTake, TypeOK
  <2>7. p # None => p.grant \in Grants /\ p.grant = CertOf[p.conn]
    BY <2>1, <2>2 DEF PendingRec, HookInv
  <2> HIDE DEF p
  <2>8. TypeOK'
    BY <1>4, <2>1, <2>4, <2>5, <2>6, <2>7 DEF AttachTake, TypeOK, clocks, signing, loop,
       machine
  <2>9. HookInv'
    BY <1>4, <2>1, <2>3, <2>4, <2>5, <2>7 DEF AttachTake, TypeOK, HookInv, Attaching, clocks,
       signing, loop, machine
  <2> QED BY <2>8, <2>9
<1>5. CASE AttachCheck(c)
  <2>1. pc' = [pc EXCEPT ![c] = "attachOpen"] \/ pc' = [pc EXCEPT ![c] = "done"]
    BY <1>5 DEF AttachCheck, Deny
  <2>2. TypeOK'
    BY <1>5, <2>1 DEF AttachCheck, TypeOK, clocks, signing, memory, loop, machine, history
  <2>3. HookInv'
    BY <1>5, <2>1 DEF AttachCheck, TypeOK, HookInv, Attaching, clocks, signing, memory,
       loop, machine, history
  <2> QED BY <2>2, <2>3
<1>6. CASE AttachOpen(c)
  <2>1. taken[c] \in Grants /\ Expiry[taken[c]] - Wall \in Int
    BY <1>6 DEF AttachOpen, HookInv, Attaching, TypeOK, Wall
  <2> DEFINE left == Expiry[taken[c]] - Wall
             opened == [grants[taken[c]] EXCEPT !.state = "open", !.mono = now + left]
  <2>a. opened \in GrantRec
    <3>1. grants[taken[c]] \in GrantRec /\ now + left \in Int BY <2>1 DEF TypeOK
    <3> QED BY <3>1, RecordTypes
  <2>b. \/ UNCHANGED <<grants, remaining>>
        \/ /\ grants' = [grants EXCEPT ![taken[c]] = opened]
           /\ left > 0 /\ remaining' = [remaining EXCEPT ![c] = left]
    BY <1>6, <2>1 DEF AttachOpen, TypeOK
  <2> HIDE DEF opened
  <2>2. grants' \in [Grants -> GrantRec] /\ remaining' \in [Conns -> Nat]
    BY <2>1, <2>a, <2>b DEF TypeOK
  <2>3. pc' = [pc EXCEPT ![c] = "attachPlace"] \/ pc' = [pc EXCEPT ![c] = "done"]
    BY <1>6 DEF AttachOpen, Deny
  <2>4. TypeOK'
    BY <1>6, <2>2, <2>3 DEF AttachOpen, TypeOK, clocks, signing, loop, machine,
       history
  <2>5. HookInv'
    BY <1>6, <2>3 DEF AttachOpen, TypeOK, HookInv, Attaching, clocks, signing,
       loop, machine, history
  <2> QED BY <2>4, <2>5
<1>7. CASE AttachPlace(c)
  <2>1. taken[c] \in Grants /\ taken[c] = CertOf[c]
    BY <1>7 DEF AttachPlace, HookInv, Attaching
  <2>2. slice' \subseteq Grants /\ scope' \in [Conns -> Grants \cup {None}]
        /\ backstop' \in [Conns -> Nat] /\ remaining' \in [Conns -> Nat]
    BY <1>7, <2>1 DEF AttachPlace, StartSlice, StartScope, TypeOK
  <2>3. pc' = [pc EXCEPT ![c] = "attachCommit"] \/ pc' = [pc EXCEPT ![c] = "done"]
    BY <1>7 DEF AttachPlace, Deny
  <2>4. TypeOK'
    BY <1>7, <2>2, <2>3 DEF AttachPlace, TypeOK, clocks, signing, memory, loop, history
  <2>5. scope' = [scope EXCEPT ![c] = taken[c]] \/ scope' = scope
    BY <1>7 DEF AttachPlace, StartScope
  <2>6. HookInv'
    BY <1>7, <2>1, <2>3, <2>5 DEF AttachPlace, TypeOK, HookInv, Attaching, clocks, signing,
       memory, loop, history
  <2> QED BY <2>4, <2>6
<1>8. CASE AttachCommit(c)
  <2>1. taken[c] \in Grants /\ CertOf[c] # None
    BY <1>8 DEF AttachCommit, HookInv, Attaching
  <2> DEFINE S == grants[taken[c]].sessions \cup {c}
             joined == [grants[taken[c]] EXCEPT !.sessions = S]
  <2>a. joined \in GrantRec
    <3>1. grants[taken[c]] \in GrantRec BY <2>1 DEF TypeOK
    <3>2. S \in SUBSET Conns BY <3>1 DEF GrantRec
    <3> QED BY <3>1, <3>2, RecordTypes
  <2>b. UNCHANGED grants \/ grants' = [grants EXCEPT ![taken[c]] = joined]
    BY <1>8, <2>1 DEF AttachCommit, TypeOK, GrantRec
  <2>2. grants' \in [Grants -> GrantRec] BY <2>1, <2>a, <2>b DEF TypeOK
  <2>3. file' \in [Grants -> (SUBSET Conns) \cup {None}]
    BY <1>8, <2>2, PersistType DEF AttachCommit, TypeOK
  <2>4. ran' \in {ran, ran \cup {c}} /\ ssh' \in {ssh, [ssh EXCEPT ![c] = "shell"]}
    BY <1>8 DEF AttachCommit, StartShell
  <2>5. TypeOK'
    BY <1>8, <2>2, <2>3, <2>4 DEF AttachCommit, TypeOK, clocks, signing, loop
  <2>6. HookInv'
    BY <1>8, <2>1, <2>4 DEF AttachCommit, TypeOK, HookInv, Attaching, clocks, signing, loop
  <2> QED BY <2>5, <2>6
<1> QED
  BY <1>1, <1>2, <1>3, <1>4, <1>5, <1>6, <1>7, <1>8 DEF Handler

\* The steps of the Run loop.
LEMMA PassTypeInv ==
  ASSUME TypeInv, Pass
  PROVE  TypeInv'
<1> USE MapsAssumption, Numbers DEF TypeInv
<1> DEFINE FileType == file' \in [Grants -> (SUBSET Conns) \cup {None}]
<1>1. CASE EnforceDeadlines
  <2> DEFINE over == {g \in Grants : /\ grants[g].state = "open"
                                     /\ now >= grants[g].mono \/ Wall >= Expiry[g]}
  <2>1. CloseLocked(over) /\ (UNCHANGED file \/ Persist)
    BY <1>1, Zenon DEF EnforceDeadlines
  <2> HIDE DEF over
  <2>2. grants' \in [Grants -> GrantRec] BY <2>1, CloseType DEF TypeOK
  <2>3. FileType BY <2>1, <2>2, PersistType DEF TypeOK
  <2>4. todo' \subseteq Grants /\ lpc' = "poll" BY <1>1 DEF EnforceDeadlines
  <2>5. UNCHANGED <<clocks, signing, ready, pending, orphans, emptied, handlers, machine,
                    history>>
    BY <1>1 DEF EnforceDeadlines
  <2>6. TypeOK'
    BY <2>2, <2>3, <2>4, <2>5 DEF TypeOK, clocks, signing, handlers, machine, history
  <2>7. HookInv' BY <2>5 DEF HookInv, handlers, machine, history
  <2> QED BY <2>6, <2>7
<1>2. ASSUME NEW g \in Grants, PollSigner(g) PROVE TypeInv'
  <2>1. \/ UNCHANGED <<grants, file>>
        \/ CloseLocked({g}) /\ Persist
    BY <1>2 DEF PollSigner
  <2>2. grants' \in [Grants -> GrantRec] BY <2>1, CloseType DEF TypeOK
  <2>3. FileType BY <2>1, <2>2, PersistType DEF TypeOK
  <2>4. todo' \subseteq Grants BY <1>2 DEF PollSigner, TypeOK
  <2>5. UNCHANGED <<clocks, signing, ready, pending, orphans, lpc, emptied, handlers, machine,
                    history>>
    BY <1>2 DEF PollSigner
  <2>6. TypeOK'
    BY <2>2, <2>3, <2>4, <2>5 DEF TypeOK, clocks, signing, handlers, machine, history
  <2>7. HookInv' BY <2>5 DEF HookInv, handlers, machine, history
  <2> QED BY <2>6, <2>7
<1>3. CASE Prune
  <2>1. ASSUME NEW g \in Grants
        PROVE  [grants[g] EXCEPT !.sessions = {c \in @ : Running(c)}] \in GrantRec
    <3>1. grants[g] \in GrantRec BY DEF TypeOK
    <3>2. {c \in grants[g].sessions : Running(c)} \in SUBSET Conns BY <3>1 DEF GrantRec
    <3> QED BY <3>1, <3>2, RecordTypes
  <2>2. grants' \in [Grants -> GrantRec] BY <1>3, <2>1 DEF Prune
  <2>3. UNCHANGED file \/ Persist BY <1>3 DEF Prune
  <2>4. FileType BY <2>2, <2>3, PersistType DEF TypeOK
  <2>5. /\ pending' \in [Pids -> PendingRec \cup {None}]
        /\ \A p \in Pids : pending'[p] \in {None, pending[p]}
    BY <1>3 DEF Prune, TypeOK
  <2>6. todo' \subseteq Grants /\ lpc' = "advance" BY <1>3 DEF Prune
  <2>7. UNCHANGED <<clocks, signing, ready, orphans, emptied, handlers, machine, history>>
    BY <1>3 DEF Prune
  <2>8. TypeOK'
    BY <2>2, <2>4, <2>5, <2>6, <2>7 DEF TypeOK, clocks, signing, handlers, machine, history
  <2>9. HookInv' BY <2>5, <2>7 DEF HookInv, handlers, machine, history
  <2> QED BY <2>8, <2>9
<1>4. ASSUME NEW g \in Grants, Terminate(g) PROVE TypeInv'
  <2> DEFINE a == IF grants[g].age = None THEN 0 ELSE grants[g].age
             aged == [grants[g] EXCEPT !.age = a]
  <2>1. aged \in GrantRec
    <3>1. grants[g] \in GrantRec BY DEF TypeOK
    <3>2. a \in (0..MaxAge) \cup {None} BY <3>1 DEF GrantRec
    <3> QED BY <3>1, <3>2, RecordTypes
  <2>2. grants' = [grants EXCEPT ![g] = aged] BY <1>4 DEF Terminate, TypeOK
  <2> HIDE DEF aged
  <2>3. grants' \in [Grants -> GrantRec] BY <2>1, <2>2 DEF TypeOK
  <2>4. todo' \subseteq Grants /\ emptied' \in Grants \cup {None}
    BY <1>4 DEF Terminate, TypeOK
  <2>5. doomed' \subseteq Conns BY <1>4 DEF Terminate, Kill, Members, TypeOK
  <2>6. UNCHANGED <<clocks, signing, ready, pending, orphans, file, lpc, handlers, ssh, slice,
                    scope, backstop, history>>
    BY <1>4 DEF Terminate
  <2>7. TypeOK'
    BY <2>3, <2>4, <2>5, <2>6 DEF TypeOK, clocks, signing, handlers, history
  <2>8. HookInv' BY <2>6 DEF HookInv, handlers, history
  <2> QED BY <2>7, <2>8
<1>5. ASSUME NEW g \in Grants, Finalize(g) PROVE TypeInv'
  <2>1. [grants[g] EXCEPT !.state = "closed", !.age = 0, !.sessions = {}] \in GrantRec
    BY RecordTypes DEF TypeOK
  <2>2. grants' \in [Grants -> GrantRec] BY <1>5, <2>1 DEF Finalize, TypeOK
  <2>3. FileType BY <1>5, <2>2, PersistType DEF Finalize, TypeOK
  <2>4. \/ UNCHANGED <<slice, scope, ssh>>
        \/ slice' = slice \ {g} /\ Exits(Members(g))
    BY <1>5 DEF Finalize, StopUnit
  <2>5. /\ slice' \subseteq Grants
        /\ scope' \in [Conns -> Grants \cup {None}]
        /\ \A c \in Conns : scope'[c] \in {None, scope[c]}
        /\ ssh' \in [Conns -> {"new", "login", "shell", "dead"}]
    BY <2>4 DEF Exits, TypeOK
  <2>6. emptied' = None BY <1>5 DEF Finalize
  <2>7. UNCHANGED <<clocks, signing, ready, pending, orphans, lpc, todo, handlers, backstop,
                    doomed, history>>
    BY <1>5 DEF Finalize
  <2>8. TypeOK'
    BY <2>2, <2>3, <2>5, <2>6, <2>7 DEF TypeOK, clocks, signing, handlers, history
  <2>9. HookInv' BY <2>5, <2>7 DEF HookInv, handlers, history
  <2> QED BY <2>8, <2>9
<1>6. CASE Forget
  <2>1. grants' \in [Grants -> GrantRec] BY <1>6, AbsentType DEF Forget, TypeOK
  <2>2. FileType BY <1>6, <2>1, PersistType DEF Forget, TypeOK
  <2>3. orphans' \subseteq Conns /\ lpc' = "sleep" BY <1>6 DEF Forget, TypeOK
  <2>4. UNCHANGED <<clocks, signing, ready, pending, todo, emptied, handlers, machine, history>>
    BY <1>6 DEF Forget
  <2>5. TypeOK'
    BY <2>1, <2>2, <2>3, <2>4 DEF TypeOK, clocks, signing, handlers, machine, history
  <2>6. HookInv' BY <2>4 DEF HookInv, handlers, machine, history
  <2> QED BY <2>5, <2>6
<1> QED BY <1>1, <1>2, <1>3, <1>4, <1>5, <1>6 DEF Pass

\* Crash and restart, the machine, the signer and the clocks.
LEMMA MachineTypeInv ==
  ASSUME TypeInv,
         \/ Crash \/ Reconcile
         \/ \E c \in Conns : Connect(c) \/ Hangup(c) \/ TasksEnd(c) \/ RuntimeMax(c)
         \/ \E g \in Grants : SignerChanges(g)
         \/ SignerDown \/ SignerRestarts
         \/ \E d \in Jumps : ClockStep(d)
         \/ Tick
  PROVE  TypeInv'
<1> USE MapsAssumption, Numbers DEF TypeInv
<1>1. CASE Crash
  <2>1. grants' \in [Grants -> GrantRec] BY <1>1, AbsentType DEF Crash
  <2>2. TypeOK'
    BY <1>1, <2>1 DEF Crash, TypeOK, clocks, signing, machine, history
  <2>3. HookInv'
    BY <1>1 DEF Crash, TypeOK, HookInv, Attaching, clocks, signing, machine, history
  <2> QED BY <2>2, <2>3
<1>2. CASE Reconcile
  <2>1. grants' \in [Grants -> GrantRec]
    <3>1. PICK loaded \in LoadState, found \in DiscoverGrantIDs :
            \A g \in Grants : ReconciledTo(g, loaded, found)
      BY <1>2, ReconcileStep
    <3> SUFFICES ASSUME NEW g \in Grants PROVE grants'[g] \in GrantRec
      BY <1>2 DEF Reconcile
    <3>2. loaded[g] = None \/ loaded[g] \in SUBSET Conns
      BY DEF LoadState, TypeOK
    <3>3. ASSUME NEW S \in SUBSET Conns, NEW v \in BOOLEAN
          PROVE  Rebuilt(g, S, v) \in GrantRec
      <4>1. {c \in S : Running(c)} \in SUBSET Conns OBVIOUS
      <4>2. now + Expiry[g] - Wall \in Int BY DEF TypeOK, Wall
      <4>3. ASSUME NEW r \in GrantRec, NEW T \in SUBSET Conns, NEW m \in Int
            PROVE  /\ [r EXCEPT !.state = "open", !.mono = m, !.sessions = T] \in GrantRec
                   /\ [r EXCEPT !.state = "closing", !.sessions = T] \in GrantRec
        BY DEF GrantRec
      <4> QED BY <4>1, <4>2, <4>3, AbsentType DEF Rebuilt
    <3> QED BY <3>1, <3>2, <3>3, AbsentType DEF ReconciledTo
  <2>2. file' \in [Grants -> (SUBSET Conns) \cup {None}]
    BY <1>2, <2>1, PersistType DEF Reconcile, TypeOK
  <2>3. /\ ready' \in BOOLEAN /\ missed' \subseteq Grants
        /\ UNCHANGED <<clocks, signing, pending, orphans, loop, handlers, machine,
                       ran, late>>
    BY <1>2 DEF Reconcile, TypeOK
  <2>4. TypeOK'
    BY <2>1, <2>2, <2>3 DEF TypeOK, clocks, signing, loop, handlers, machine
  <2>5. HookInv' BY <2>3 DEF HookInv, handlers, machine
  <2> QED BY <2>4, <2>5
<1>3. ASSUME NEW c \in Conns, Connect(c) \/ Hangup(c) \/ TasksEnd(c) \/ RuntimeMax(c)
      PROVE  TypeInv'
  <2>1. /\ ssh' \in [Conns -> {"new", "login", "shell", "dead"}]
        /\ scope' \in [Conns -> Grants \cup {None}]
        /\ \A d \in Conns : scope'[d] \in {None, scope[d]}
    BY <1>3 DEF Connect, Hangup, TasksEnd, RuntimeMax, Exits, TypeOK
  <2>2. UNCHANGED <<clocks, signing, memory, file, loop, handlers, slice, backstop, doomed,
                    history>>
    BY <1>3 DEF Connect, Hangup, TasksEnd, RuntimeMax
  <2>3. TypeOK' BY <2>1, <2>2 DEF TypeOK, clocks, signing, memory, loop, handlers, history
  <2>4. HookInv' BY <2>1, <2>2 DEF HookInv, memory, handlers, history
  <2> QED BY <2>3, <2>4
<1>4. ASSUME NEW g \in Grants, SignerChanges(g) PROVE TypeInv'
  <2>1. TypeOK'
    BY <1>4 DEF SignerChanges, TypeOK, clocks, memory, loop, handlers, machine, history
  <2>2. HookInv' BY <1>4 DEF SignerChanges, HookInv, memory, handlers, machine, history
  <2> QED BY <2>1, <2>2
<1>5. CASE SignerDown \/ SignerRestarts
  <2>1. TypeOK'
    BY <1>5 DEF SignerDown, SignerRestarts, TypeOK, clocks, memory, loop, handlers, machine,
       history
  <2>2. HookInv'
    BY <1>5 DEF SignerDown, SignerRestarts, HookInv, memory, handlers, machine, history
  <2> QED BY <2>1, <2>2
<1>6. ASSUME NEW d \in Jumps, ClockStep(d) PROVE TypeInv'
  <2>1. TypeOK'
    BY <1>6, BoundsAssumption DEF ClockStep, TypeOK, signing, memory, loop, handlers, machine,
       history
  <2>2. HookInv' BY <1>6 DEF ClockStep, HookInv, memory, handlers, machine, history
  <2> QED BY <2>1, <2>2
<1>7. CASE Tick
  <2>1. ASSUME NEW g \in Grants
        PROVE  [grants[g] EXCEPT !.age = IF @ \in 0..(MaxAge - 1) THEN @ + 1 ELSE @]
                 \in GrantRec
    <3> DEFINE a == IF grants[g].age \in 0..(MaxAge - 1) THEN grants[g].age + 1
                                                         ELSE grants[g].age
    <3>1. grants[g] \in GrantRec BY DEF TypeOK
    <3>2. grants[g].age \in (0..MaxAge) \cup {None} BY <3>1 DEF GrantRec
    <3>3. a \in (0..MaxAge) \cup {None} BY <3>2
    <3>4. [grants[g] EXCEPT !.age = a] \in GrantRec BY <3>1, <3>3, RecordTypes
    <3> QED BY <3>4
  <2>2. grants' \in [Grants -> GrantRec] BY <1>7, <2>1 DEF Tick
  <2>3. now' \in Nat /\ backstop' \in [Conns -> Nat] BY <1>7 DEF Tick, TypeOK
  <2>4. UNCHANGED <<skew, signing, ready, pending, orphans, file, loop, handlers, ssh, slice,
                    scope, doomed, history>>
    BY <1>7 DEF Tick
  <2>5. TypeOK' BY <2>2, <2>3, <2>4 DEF TypeOK, signing, loop, handlers, history
  <2>6. HookInv' BY <2>4 DEF HookInv, handlers, history
  <2> QED BY <2>5, <2>6
<1> QED BY <1>1, <1>2, <1>3, <1>4, <1>5, <1>6, <1>7, Zenon

\* Every step keeps the types and what the hooks know.
LEMMA StepTypeInv == TypeInv /\ [Next]_vars => TypeInv'
<1> SUFFICES ASSUME TypeInv, [Next]_vars PROVE TypeInv'
  OBVIOUS
<1>1. CASE UNCHANGED vars
  <2>1. TypeOK' BY <1>1 DEF TypeInv, TypeOK, vars
  <2>2. HookInv' BY <1>1 DEF TypeInv, HookInv, vars
  <2> QED BY <2>1, <2>2 DEF TypeInv
<1>2. CASE \E c \in Conns : Handler(c) BY <1>2, HandlerTypeInv
<1>3. CASE Pass BY <1>3, PassTypeInv
<1>4. CASE Next /\ ~Pass /\ ~\E c \in Conns : Handler(c)
  BY <1>4, MachineTypeInv, Zenon DEF Next
<1> QED BY <1>1, <1>2, <1>3, <1>4

\* TypeInv is an invariant.
LEMMA TypeInvariant == Spec => []TypeInv
BY InitTypeInv, StepTypeInv, PTL DEF Spec

\* The warden's maps, the state file and the handlers are well typed in every
\* reachable state: in particular no handler attaches without a grant, so no
\* lookup of w.grants is made for a name that is none.
THEOREM WardenTypeCorrect == Spec => []TypeOK
<1>1. TypeInv => TypeOK BY DEF TypeInv
<1> QED BY <1>1, TypeInvariant, PTL

\* A shell runs only in the cgroup of the grant its own certificate named
\* (Attach matches the pending admission with SameProcess), for any reuse of
\* pids.
THEOREM ShellsRunInOwnGrant == Spec => []OwnGrantOnly
<1>1. TypeInv => OwnGrantOnly BY DEF TypeInv, TypeOK, HookInv, OwnGrantOnly
<1> QED BY <1>1, TypeInvariant, PTL

--------------------------------------------------------------------------------
(* "Ask again": no shell after a revocation.                               *)

\* A session hook that began after the revocation has still to ask the signer,
\* or was refused.
LateInv ==
  \A c \in late :
    /\ c \notin ran
    /\ pc[c] = "done" \/ (pc[c] = "attachCheck" /\ signer[taken[c]] # "valid")

\* What LateInv is about is mostly left alone.
LEMMA LateFrame ==
  ASSUME LateInv, UNCHANGED <<pc, taken, signer, ran, late>>
  PROVE  LateInv'
BY DEF LateInv

\* Every step keeps LateInv: a revoked grant is never valid again.
LEMMA LateStep == TypeInv /\ LateInv /\ [Next]_vars => LateInv'
<1> SUFFICES ASSUME TypeInv, LateInv, [Next]_vars PROVE LateInv'
  OBVIOUS
<1>0. late \subseteq Conns /\ pc \in [Conns -> {"idle", "admitCheck", "admitRecord",
        "authed", "attachCheck", "attachOpen", "attachPlace", "attachCommit", "done"}]
      /\ taken \in [Conns -> Grants \cup {None}]
  BY DEF TypeInv, TypeOK
<1>1. ASSUME NEW c \in Conns, AdmitBegin(c) \/ AdmitCheck(c) \/ AdmitRecord(c)
      PROVE  LateInv'
  <2>1. pc[c] \in {"idle", "admitCheck", "admitRecord"} /\ c \notin late
    BY <1>1 DEF AdmitBegin, AdmitCheck, AdmitRecord, LateInv
  <2>2. \E v : pc' = [pc EXCEPT ![c] = v]
    BY <1>1 DEF AdmitBegin, AdmitCheck, AdmitRecord, Deny
  <2>3. UNCHANGED <<taken, signer, ran, late>>
    BY <1>1 DEF AdmitBegin, AdmitCheck, AdmitRecord, signing, history
  <2> QED BY <1>0, <2>1, <2>2, <2>3 DEF LateInv
<1>2. ASSUME NEW c \in Conns, AttachTake(c) PROVE LateInv'
  <2>1. c \notin ran /\ c \notin late
    BY <1>2 DEF AttachTake, AtHook, LateInv, TypeInv, HookInv
  <2>2. UNCHANGED <<signer, ran>> BY <1>2 DEF AttachTake, signing
  <2>3. \/ pc' = [pc EXCEPT ![c] = "done"] /\ UNCHANGED <<taken, late>>
        \/ \E g : /\ pc' = [pc EXCEPT ![c] = "attachCheck"]
                  /\ taken' = [taken EXCEPT ![c] = g]
                  /\ late' = IF signer[g] = "valid" THEN late ELSE late \cup {c}
    BY <1>2 DEF AttachTake, Deny
  <2> QED BY <1>0, <2>1, <2>2, <2>3 DEF LateInv
<1>3. ASSUME NEW c \in Conns, AttachCheck(c) PROVE LateInv'
  <2>1. \/ pc' = [pc EXCEPT ![c] = "done"]
        \/ pc' = [pc EXCEPT ![c] = "attachOpen"] /\ signer[taken[c]] = "valid"
    BY <1>3 DEF AttachCheck, CheckGrant, SignerGrant, Deny
  <2>2. UNCHANGED <<taken, signer, ran, late>> /\ pc[c] = "attachCheck"
    BY <1>3 DEF AttachCheck, signing, history
  <2> QED BY <1>0, <2>1, <2>2 DEF LateInv
<1>4. ASSUME NEW c \in Conns, AttachOpen(c) \/ AttachPlace(c) \/ AttachCommit(c)
      PROVE  LateInv'
  <2>1. pc[c] \in {"attachOpen", "attachPlace", "attachCommit"} /\ c \notin late
    BY <1>4 DEF AttachOpen, AttachPlace, AttachCommit, LateInv
  <2>2. /\ \E v : pc' = [pc EXCEPT ![c] = v]
        /\ ran' \in {ran, ran \cup {c}}
    BY <1>4 DEF AttachOpen, AttachPlace, AttachCommit, StartShell, Deny, history
  <2>3. UNCHANGED <<taken, signer, late>>
    BY <1>4 DEF AttachOpen, AttachPlace, AttachCommit, signing, history
  <2> QED BY <1>0, <2>1, <2>2, <2>3 DEF LateInv
<1>5. CASE Pass
  BY <1>5, LateFrame DEF Pass, EnforceDeadlines, PollSigner, Prune, Terminate, Finalize,
     Forget, signing, handlers, history
<1>6. CASE Crash
  BY <1>0, <1>6 DEF Crash, LateInv, signing, history
<1>7. ASSUME NEW g \in Grants, SignerChanges(g) PROVE LateInv'
  <2>1. UNCHANGED <<pc, taken, ran, late>> BY <1>7 DEF SignerChanges, handlers, history
  <2>2. \A h \in Grants : signer[h] # "valid" => signer'[h] # "valid"
    BY <1>7 DEF SignerChanges, TypeInv, TypeOK
  <2>3. \A c \in Conns : pc[c] = "attachCheck" => taken[c] \in Grants
    BY MapsAssumption DEF TypeInv, HookInv, Attaching
  <2> QED BY <1>0, <2>1, <2>2, <2>3 DEF LateInv
<1>8. CASE \/ Reconcile \/ SignerDown \/ SignerRestarts \/ Tick \/ UNCHANGED vars
           \/ \E d \in Jumps : ClockStep(d)
           \/ \E c \in Conns : Connect(c) \/ Hangup(c) \/ TasksEnd(c) \/ RuntimeMax(c)
  BY <1>8, LateFrame DEF Reconcile, SignerDown, SignerRestarts, ClockStep, Tick, vars,
     Connect, Hangup, TasksEnd, RuntimeMax, signing, handlers, history
<1> QED
  BY <1>1, <1>2, <1>3, <1>4, <1>5, <1>6, <1>7, <1>8, Zenon DEF Next, Handler

\* A grant revoked before the session hook started gives nobody a shell: Attach
\* asks the signer again, and the signer never takes a revocation back.
THEOREM RevokedGetsNoShell == Spec => []NoShellAfterRevocation
<1>1. Init => LateInv BY DEF Init, LateInv
<1>2. LateInv => NoShellAfterRevocation BY DEF LateInv, NoShellAfterRevocation
<1> QED BY <1>1, <1>2, LateStep, TypeInvariant, PTL DEF Spec

--------------------------------------------------------------------------------
(* Every group with a visitor in it is supervised.                         *)

\* A slice outlives its tasks, so discoverGrantIDs finds every group.
SliceInv == \A c \in Conns : scope[c] # None => scope[c] \in slice

\* The Run loop: advanceClosing works on closing grants only, and a group that
\* terminate saw empty gets no visitor before it is finalized.
LoopInv ==
  /\ ~ready => lpc = "sleep"
  /\ lpc = "sleep" => todo = {} /\ emptied = None
  /\ lpc = "poll" => emptied = None
  /\ lpc = "advance" =>
       \A g \in todo : grants[g].state = "closing" /\ g # emptied
  /\ emptied # None => grants[emptied].state = "closing" /\ Visitors(emptied) = {}

SupInv == SliceInv /\ LoopInv /\ Supervised

\* A step that leaves the loop and the grants' states alone, and adds no task
\* to a group.
LEMMA SupFrame ==
  ASSUME TypeInv, SupInv,
         UNCHANGED <<ready, lpc, todo, emptied, slice, ran, missed>>,
         \A c \in Conns : scope'[c] \in {None, scope[c]},
         \A g \in Grants : grants'[g].state = grants[g].state
  PROVE  SupInv'
<1>1. todo \subseteq Grants /\ emptied \in Grants \cup {None}
  BY DEF TypeInv, TypeOK
<1>2. \A g \in Grants : Visitors(g)' \subseteq Visitors(g)
  BY MapsAssumption DEF Visitors, Members
<1>3. SliceInv' BY DEF SupInv, SliceInv
<1>4. LoopInv' BY <1>1, <1>2 DEF SupInv, LoopInv
<1>5. Supervised' BY <1>2 DEF SupInv, Supervised
<1> QED BY <1>3, <1>4, <1>5 DEF SupInv

\* The handlers: a placement adds a task that is no visitor's yet, and only an
\* open grant gets a visitor.
LEMMA HandlerSup ==
  ASSUME TypeInv, SupInv, NEW c \in Conns, Handler(c)
  PROVE  SupInv'
<1>0. /\ grants \in [Grants -> GrantRec] /\ scope \in [Conns -> Grants \cup {None}]
      /\ emptied \in Grants \cup {None} /\ todo \subseteq Grants /\ ran \subseteq Conns
  BY DEF TypeInv, TypeOK
<1>1. CASE AdmitBegin(c) \/ AdmitCheck(c) \/ AdmitRecord(c) \/ AttachTake(c)
           \/ AttachCheck(c)
  <2>1. UNCHANGED <<missed, ready, lpc, todo, emptied, slice, ran, scope, grants>>
    BY <1>1 DEF AdmitBegin, AdmitCheck, AdmitRecord, AttachTake, AttachCheck, memory, loop,
       machine, history
  <2> QED BY <2>1, SupFrame
<1>2. CASE AttachOpen(c)
  <2>1. UNCHANGED <<missed, ready, lpc, todo, emptied, slice, ran, scope>>
    BY <1>2 DEF AttachOpen, loop, machine, history
  <2>2. taken[c] \in Grants
    BY <1>2, MapsAssumption DEF AttachOpen, TypeInv, HookInv, Attaching
  <2>3. \A g \in Grants : \/ grants'[g].state = grants[g].state
                          \/ /\ grants[g].state \in {"absent", "open"}
                             /\ grants'[g].state = "open"
    <3> DEFINE m == now + (Expiry[taken[c]] - Wall)
               rec == [grants[taken[c]] EXCEPT !.state = "open", !.mono = m]
    <3>1. \/ UNCHANGED grants
          \/ ~Shut(taken[c]) /\ grants' = [grants EXCEPT ![taken[c]] = rec]
      BY <1>2 DEF AttachOpen
    <3>2. rec.state = "open" /\ grants[taken[c]].state \in {"absent", "open", "closing", "closed"}
      BY <1>0, <2>2 DEF GrantRec
    <3> HIDE DEF rec, m
    <3> QED BY <1>0, <2>2, <3>1, <3>2 DEF Shut
  <2>4. \A g \in Grants : Visitors(g)' = Visitors(g)
    BY <2>1 DEF Visitors, Members
  <2>5. SliceInv' BY <2>1 DEF SupInv, SliceInv
  <2>6. LoopInv' BY <1>0, <2>1, <2>3, <2>4 DEF SupInv, LoopInv
  <2>7. Supervised' BY <2>1, <2>3, <2>4 DEF SupInv, Supervised
  <2> QED BY <2>5, <2>6, <2>7 DEF SupInv
<1>3. CASE AttachPlace(c)
  <2>1. UNCHANGED <<missed, ready, lpc, todo, emptied, ran, grants>>
    BY <1>3 DEF AttachPlace, memory, loop, history
  <2>2. c \notin ran BY <1>3 DEF AttachPlace, TypeInv, HookInv
  <2>3. \/ scope' = [scope EXCEPT ![c] = taken[c]] /\ slice' = slice \cup {taken[c]}
        \/ UNCHANGED scope /\ slice \subseteq slice'
    BY <1>3 DEF AttachPlace, StartSlice, StartScope
  <2>4. \A g \in Grants : Visitors(g)' = Visitors(g)
    BY <1>0, <2>1, <2>2, <2>3 DEF Visitors, Members
  <2>5. SliceInv' BY <1>0, <2>3 DEF SupInv, SliceInv
  <2>6. LoopInv' BY <1>0, <2>1, <2>4 DEF SupInv, LoopInv
  <2>7. Supervised' BY <2>1, <2>4 DEF SupInv, Supervised
  <2> QED BY <2>5, <2>6, <2>7 DEF SupInv
<1>4. CASE AttachCommit(c)
  <2>1. UNCHANGED <<missed, ready, lpc, todo, emptied, slice, scope>>
    BY <1>4 DEF AttachCommit, loop
  <2>2. /\ taken[c] \in Grants /\ taken[c] = CertOf[c]
        /\ scope[c] \in {None, taken[c]}
    BY <1>4, MapsAssumption, <1>0 DEF AttachCommit, TypeInv, HookInv, Attaching
  <2>3. \A g \in Grants : grants'[g].state = grants[g].state
    <3>1. \/ UNCHANGED grants
          \/ \E S : grants' = [grants EXCEPT ![taken[c]] = [@ EXCEPT !.sessions = S]]
      BY <1>4 DEF AttachCommit
    <3>2. grants[taken[c]] \in GrantRec BY <1>0, <2>2
    <3> QED BY <1>0, <2>2, <3>1, <3>2 DEF GrantRec
  <2>4. \/ UNCHANGED ran
        \/ ran' = ran \cup {c} /\ grants[taken[c]].state = "open"
    BY <1>4 DEF AttachCommit, StartShell
  <2>5. \A g \in Grants : \/ Visitors(g)' = Visitors(g)
                          \/ grants[g].state = "open" /\ g = taken[c]
    BY <1>0, <2>1, <2>2, <2>4, MapsAssumption DEF Visitors, Members
  <2>6. SliceInv' BY <2>1 DEF SupInv, SliceInv
  <2>7. LoopInv' BY <1>0, <2>1, <2>3, <2>5 DEF SupInv, LoopInv
  <2>8. Supervised' BY <2>1, <2>3, <2>5 DEF SupInv, Supervised
  <2> QED BY <2>6, <2>7, <2>8 DEF SupInv
<1> QED BY <1>1, <1>2, <1>3, <1>4 DEF Handler

\* closeLocked turns open grants into closing ones and touches no other.
LEMMA CloseStates ==
  ASSUME grants \in [Grants -> GrantRec], NEW G, CloseLocked(G)
  PROVE  \A g \in Grants : \/ grants'[g] = grants[g]
                           \/ grants[g].state = "open" /\ grants'[g].state = "closing"
BY DEF CloseLocked, GrantRec

\* The Run loop: a group is declared closed only after it was seen empty, and
\* is forgotten only when closed.
LEMMA PassSup ==
  ASSUME TypeInv, SupInv, Pass
  PROVE  SupInv'
<1>0. /\ grants \in [Grants -> GrantRec] /\ scope \in [Conns -> Grants \cup {None}]
      /\ emptied \in Grants \cup {None} /\ todo \subseteq Grants /\ None \notin Grants
  BY MapsAssumption DEF TypeInv, TypeOK
<1>1. CASE EnforceDeadlines
  <2>1. UNCHANGED <<missed, ready, emptied, slice, ran, scope>> /\ lpc' = "poll" /\ emptied = None
    BY <1>1 DEF EnforceDeadlines, machine, history, SupInv, LoopInv
  <2>2. \A g \in Grants : \/ grants'[g] = grants[g]
                          \/ grants[g].state = "open" /\ grants'[g].state = "closing"
    BY <1>0, <1>1, CloseStates DEF EnforceDeadlines
  <2>3. \A g \in Grants : Visitors(g)' = Visitors(g) BY <2>1 DEF Visitors, Members
  <2>4. ready BY <1>1 DEF EnforceDeadlines
  <2>5. SliceInv' BY <2>1 DEF SupInv, SliceInv
  <2>6. LoopInv' BY <2>1, <2>4 DEF LoopInv
  <2>7. Supervised' BY <2>1, <2>2, <2>3 DEF SupInv, Supervised
  <2> QED BY <2>5, <2>6, <2>7 DEF SupInv
<1>2. ASSUME NEW g \in Grants, PollSigner(g) PROVE SupInv'
  <2>1. UNCHANGED <<missed, ready, lpc, emptied, slice, ran, scope>> /\ lpc = "poll" /\ emptied = None
    BY <1>2 DEF PollSigner, machine, history, SupInv, LoopInv
  <2>2. \A h \in Grants : \/ grants'[h] = grants[h]
                          \/ grants[h].state = "open" /\ grants'[h].state = "closing"
    BY <1>0, <1>2, CloseStates DEF PollSigner
  <2>3. \A h \in Grants : Visitors(h)' = Visitors(h) BY <2>1 DEF Visitors, Members
  <2>5. SliceInv' BY <2>1 DEF SupInv, SliceInv
  <2>6. LoopInv' BY <2>1 DEF SupInv, LoopInv
  <2>7. Supervised' BY <2>1, <2>2, <2>3 DEF SupInv, Supervised
  <2> QED BY <2>5, <2>6, <2>7 DEF SupInv
<1>3. CASE Prune
  <2>1. /\ UNCHANGED <<missed, ready, emptied, slice, ran, scope>>
        /\ lpc = "poll" /\ lpc' = "advance" /\ emptied = None
        /\ todo' = {g \in Grants : grants[g].state = "closing"}
    BY <1>3 DEF Prune, machine, history, SupInv, LoopInv
  <2>2. \A g \in Grants : grants'[g].state = grants[g].state
    BY <1>0, <1>3 DEF Prune, GrantRec
  <2>3. \A g \in Grants : Visitors(g)' = Visitors(g) BY <2>1 DEF Visitors, Members
  <2>5. SliceInv' BY <2>1 DEF SupInv, SliceInv
  <2>6. LoopInv' BY <1>0, <2>1, <2>2 DEF SupInv, LoopInv
  <2>7. Supervised' BY <2>1, <2>2, <2>3 DEF SupInv, Supervised
  <2> QED BY <2>5, <2>6, <2>7 DEF SupInv
<1>4. ASSUME NEW g \in Grants, Terminate(g) PROVE SupInv'
  <2>1. /\ UNCHANGED <<missed, ready, lpc, slice, ran, scope>>
        /\ lpc = "advance" /\ emptied = None /\ g \in todo /\ todo' = todo \ {g}
        /\ emptied' = None \/ (emptied' = g /\ Members(g) = {})
    BY <1>4 DEF Terminate, history
  <2>2. \A h \in Grants : grants'[h].state = grants[h].state
    <3> DEFINE a == IF grants[g].age = None THEN 0 ELSE grants[g].age
               rec == [grants[g] EXCEPT !.age = a]
    <3>1. grants' = [grants EXCEPT ![g] = rec] BY <1>4 DEF Terminate
    <3>2. rec.state = grants[g].state BY <1>0 DEF GrantRec
    <3> HIDE DEF rec
    <3> QED BY <1>0, <3>1, <3>2
  <2>3. \A h \in Grants : Visitors(h)' = Visitors(h) BY <2>1 DEF Visitors, Members
  <2>4. Members(g) = {} => Visitors(g) = {} BY DEF Visitors
  <2>5. SliceInv' BY <2>1 DEF SupInv, SliceInv
  <2>6. LoopInv' BY <1>0, <2>1, <2>2, <2>3, <2>4 DEF SupInv, LoopInv
  <2>7. Supervised' BY <2>1, <2>2, <2>3 DEF SupInv, Supervised
  <2> QED BY <2>5, <2>6, <2>7 DEF SupInv
<1>5. ASSUME NEW g \in Grants, Finalize(g) PROVE SupInv'
  <2>1. /\ UNCHANGED <<missed, ready, lpc, todo, ran>> /\ emptied = g /\ emptied' = None
        /\ lpc = "advance" /\ Visitors(g) = {}
    BY <1>0, <1>5 DEF Finalize, history, SupInv, LoopInv, TypeInv, TypeOK
  <2>2. \A h \in Grants : h # g => grants'[h] = grants[h]
    BY <1>0, <1>5 DEF Finalize
  <2>3. \/ slice' = slice \ {g} /\ scope' = [c \in Conns |-> IF scope[c] = g THEN None ELSE scope[c]]
        \/ UNCHANGED <<slice, scope>>
    BY <1>5 DEF Finalize, StopUnit, Exits, Members
  <2>4. \A h \in Grants : Visitors(h)' \subseteq Visitors(h)
    BY <1>0, <2>1, <2>3 DEF Visitors, Members
  <2>5. SliceInv' BY <1>0, <2>3 DEF SupInv, SliceInv
  <2>6. LoopInv' BY <1>0, <2>1, <2>2 DEF SupInv, LoopInv
  <2>7. Supervised' BY <2>1, <2>2, <2>4 DEF SupInv, Supervised
  <2> QED BY <2>5, <2>6, <2>7 DEF SupInv
<1>6. CASE Forget
  <2>1. /\ UNCHANGED <<missed, ready, todo, emptied, slice, ran, scope>>
        /\ todo = {} /\ emptied = None /\ lpc' = "sleep"
    BY <1>6 DEF Forget, machine, history
  <2>2. \A g \in Grants : grants'[g] = grants[g] \/ grants[g].state = "closed"
    BY <1>6 DEF Forget
  <2>3. \A g \in Grants : Visitors(g)' = Visitors(g) BY <2>1 DEF Visitors, Members
  <2>5. SliceInv' BY <2>1 DEF SupInv, SliceInv
  <2>6. LoopInv' BY <2>1 DEF LoopInv
  <2>7. Supervised' BY <2>1, <2>2, <2>3 DEF SupInv, Supervised
  <2> QED BY <2>5, <2>6, <2>7 DEF SupInv
<1> QED BY <1>1, <1>2, <1>3, <1>4, <1>5, <1>6 DEF Pass

\* Crash, restart and the machine: reconcile opens or terminates every slice
\* it does not miss.
LEMMA MachineSup ==
  ASSUME TypeInv, SupInv, [Next]_vars,
         ~Pass, \A c \in Conns : ~Handler(c)
  PROVE  SupInv'
<1>0. /\ grants \in [Grants -> GrantRec] /\ scope \in [Conns -> Grants \cup {None}]
      /\ slice \subseteq Grants /\ None \notin Grants
  BY MapsAssumption DEF TypeInv, TypeOK
<1>1. CASE Crash
  <2>1. /\ ready' = FALSE /\ lpc' = "sleep" /\ todo' = {} /\ emptied' = None
        /\ UNCHANGED <<slice, scope>>
    BY <1>1 DEF Crash, machine
  <2> QED BY <2>1 DEF SupInv, SliceInv, LoopInv, Supervised
<1>2. CASE Reconcile
  <2>1. /\ UNCHANGED <<lpc, todo, emptied, slice, scope, ran>>
        /\ lpc = "sleep" /\ todo = {} /\ emptied = None /\ ready'
    BY <1>2 DEF Reconcile, loop, machine, history, SupInv, LoopInv
  <2>2. \A g \in slice \ missed' : grants'[g].state \in {"open", "closing"}
    <3>1. PICK loaded \in LoadState, found \in DiscoverGrantIDs :
            \A g \in Grants : ReconciledTo(g, loaded, found)
      BY <1>2, ReconcileStep
    <3>2. ASSUME NEW g, NEW S, NEW v \in BOOLEAN
          PROVE  Rebuilt(g, S, v).state \in {"open", "closing"}
      BY DEF Rebuilt, Absent
    <3>3. ASSUME NEW g \in slice, g \notin missed'
          PROVE  grants'[g].state \in {"open", "closing"}
      <4>1. ReconciledTo(g, loaded, found) BY <1>0, <3>1
      <4> DEFINE S == IF loaded[g] = None THEN {} ELSE loaded[g]
      <4>2. \E v \in BOOLEAN : grants'[g] = Rebuilt(g, S, v)
        BY <3>3, <4>1 DEF ReconciledTo
      <4> HIDE DEF S
      <4> QED BY <3>2, <4>2
    <3> QED BY <3>3
  <2>3. \A g \in Grants : Visitors(g)' # {} => g \in slice
    BY <1>0, <2>1 DEF SupInv, SliceInv, Visitors, Members
  <2>4. SliceInv' BY <2>1 DEF SupInv, SliceInv
  <2>5. LoopInv' BY <2>1 DEF LoopInv
  <2>6. Supervised' BY <2>2, <2>3 DEF Supervised
  <2> QED BY <2>4, <2>5, <2>6 DEF SupInv
<1>3. ASSUME NEW c \in Conns, Connect(c) \/ Hangup(c) \/ TasksEnd(c) \/ RuntimeMax(c)
      PROVE  SupInv'
  <2>1. UNCHANGED <<missed, ready, lpc, todo, emptied, slice, ran, grants>>
    BY <1>3 DEF Connect, Hangup, TasksEnd, RuntimeMax, memory, loop, history
  <2>2. \A d \in Conns : scope'[d] \in {None, scope[d]}
    BY <1>3 DEF Connect, Hangup, TasksEnd, RuntimeMax, Exits
  <2> QED BY <2>1, <2>2, SupFrame
<1>4. CASE Tick
  <2>1. UNCHANGED <<missed, ready, lpc, todo, emptied, slice, ran, scope>>
    BY <1>4 DEF Tick, loop, history
  <2>2. \A g \in Grants : grants'[g].state = grants[g].state
    BY <1>0, <1>4 DEF Tick, GrantRec
  <2> QED BY <2>1, <2>2, SupFrame
<1>5. CASE \/ SignerDown \/ SignerRestarts \/ UNCHANGED vars
           \/ \E d \in Jumps : ClockStep(d)
           \/ \E g \in Grants : SignerChanges(g)
  <2>1. UNCHANGED <<missed, ready, lpc, todo, emptied, slice, ran, scope, grants>>
    BY <1>5 DEF SignerDown, SignerRestarts, ClockStep, SignerChanges, vars, memory, loop,
       machine, history
  <2> QED BY <2>1, SupFrame
<1> QED BY <1>1, <1>2, <1>3, <1>4, <1>5 DEF Next

\* Whenever the warden is up, every group with a visitor's task in it is open
\* or being emptied, unless the last Reconcile could neither list it nor read of
\* it in the state file, for any number of grants and connections and any
\* crashes, systemd and cgroup failures and interleaving of Attach with the Run
\* loop.
THEOREM VisitorsAreSupervised == Spec => []Supervised
<1>1. Init => SupInv
  BY DEF Init, SupInv, SliceInv, LoopInv, Supervised
<1>2. TypeInv /\ SupInv /\ [Next]_vars => SupInv'
  BY HandlerSup, PassSup, MachineSup
<1>3. SupInv => Supervised BY DEF SupInv
<1> QED BY <1>1, <1>2, <1>3, TypeInvariant, PTL DEF Spec
================================================================================
