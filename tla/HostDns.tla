-------------------------------- MODULE HostDns --------------------------------
(***************************************************************************)
(* The address record of one host: syncDns of HostDO                       *)
(* (cloudflare/src/durable-objects/host.ts) and syncHostRecord             *)
(* (cloudflare/src/dns.ts) against the zone of the DNS provider.           *)
(*                                                                         *)
(* Every registration and every connect from a new address starts a sync,  *)
(* and nothing makes one wait for another: each call to the provider is an *)
(* await.  A call may fail without effect, or take effect and be reported  *)
(* as failed when its 5 s are over.                                        *)
(***************************************************************************)
EXTENDS Integers, FiniteSets

CONSTANTS
  Ips,     \* addresses the machine reaches the service from
  TypeOf,  \* recordTypeFor: "A" or "AAAA" for each
  Syncs,   \* the registrations and connects that may start a sync
  IpOf,    \* the client address of each
  Connects, \* those that are connects
  None

VARIABLES
  zone,    \* the provider's records for the host's name: {[id, ip]}
  dnsIp,   \* column dns_ip
  row,     \* what a handler read of dns_ip when it began
  step,    \* where each sync stands
  listed,  \* the records it found
  stale    \* records of the other family it has still to delete

vars == <<zone, dnsIp, row, step, listed, stale>>

\* A record is known by the sync that created it.
Record == [id : Syncs, ip : Ips]

TypeOK ==
  /\ zone \subseteq Record
  /\ dnsIp \in Ips \cup {None}
  /\ row \in [Syncs -> Ips \cup {None}]
  /\ step \in [Syncs -> {"idle", "begun", "list", "write", "delete", "done"}]
  /\ listed \in [Syncs -> SUBSET Record]
  /\ stale \in [Syncs -> SUBSET Syncs]

Init ==
  /\ zone = {}
  /\ dnsIp = None
  /\ row = [s \in Syncs |-> None]
  /\ step = [s \in Syncs |-> "idle"]
  /\ listed = [s \in Syncs |-> {}]
  /\ stale = [s \in Syncs |-> {}]

\* A registration has been written.
Registered == \E s \in Syncs \ Connects : step[s] \notin {"idle", "begun"}

\* The handler reads the host's row, which a connect must find, and awaits the
\* signature check.
Begin(s) ==
  /\ step[s] = "idle"
  /\ s \in Connects => Registered
  /\ step' = [step EXCEPT ![s] = "begun"]
  /\ row' = [row EXCEPT ![s] = dnsIp]
  /\ UNCHANGED <<zone, dnsIp, listed, stale>>

\* A registration always syncs, a connect only from an address that is not the
\* one in the row it read.
Start(s) ==
  /\ step[s] = "begun"
  /\ step' = [step EXCEPT ![s] = IF s \in Connects /\ row[s] = IpOf[s]
                                   THEN "done" ELSE "list"]
  /\ UNCHANGED <<zone, dnsIp, row, listed, stale>>

\* GET dns_records.
List(s) ==
  /\ step[s] = "list"
  /\ step' = [step EXCEPT ![s] = "write"]
  /\ listed' = [listed EXCEPT ![s] = zone]
  /\ UNCHANGED <<zone, dnsIp, row, stale>>

SameType(s) == {r \in listed[s] : TypeOf[r.ip] = TypeOf[IpOf[s]]}

\* The provider replaces a record it still has.
Replaced(id, ip) ==
  IF \E r \in zone : r.id = id
    THEN {r \in zone : r.id # id} \cup {[id |-> id, ip |-> ip]} ELSE zone

\* The provider refuses a second record with the same content.
Added(s) ==
  IF \E r \in zone : r.ip = IpOf[s] THEN zone
  ELSE zone \cup {[id |-> s, ip |-> IpOf[s]]}

\* PUT over the first record of the type that was listed, or POST.  The answer
\* may come too late: then the sync ends here.
Write(s) ==
  /\ step[s] = "write"
  /\ IF SameType(s) # {}
       THEN \E mine \in SameType(s) : zone' = Replaced(mine.id, IpOf[s])
       ELSE zone' = Added(s)
  /\ \E after \in {"delete", "done"} : step' = [step EXCEPT ![s] = after]
  /\ stale' = [stale EXCEPT ![s] = {r.id : r \in listed[s] \ SameType(s)}]
  /\ UNCHANGED <<dnsIp, row, listed>>

\* DELETE of one record of the other family; an error is swallowed.
Delete(s, id) ==
  /\ step[s] = "delete"
  /\ id \in stale[s]
  /\ stale' = [stale EXCEPT ![s] = @ \ {id}]
  /\ zone' \in {zone, {r \in zone : r.id # id}}
  /\ UNCHANGED <<dnsIp, row, step, listed>>

\* The UPDATE of the host's row.
Finish(s) ==
  /\ step[s] = "delete"
  /\ stale[s] = {}
  /\ step' = [step EXCEPT ![s] = "done"]
  /\ dnsIp' = IpOf[s]
  /\ UNCHANGED <<zone, row, listed, stale>>

\* The list or the write fails: syncDns logs it and returns.  Nothing is retried
\* until the host registers or connects again.
Fail(s) ==
  /\ step[s] \in {"list", "write"}
  /\ step' = [step EXCEPT ![s] = "done"]
  /\ UNCHANGED <<zone, dnsIp, row, listed, stale>>

Next ==
  \E s \in Syncs :
    \/ Begin(s) \/ Start(s) \/ List(s) \/ Write(s) \/ Finish(s) \/ Fail(s)
    \/ \E id \in stale[s] : Delete(s, id)

Spec == Init /\ [][Next]_vars

--------------------------------------------------------------------------------
\* dns.ts: "A host enrolled with a DNS suffix gets one address record under it,
\* pointing at the address its machine reaches this service from."  Checked
\* when no sync is in progress and dns_ip holds the address of one that ended.
OneRecord ==
  \A s \in Syncs :
    /\ step[s] = "done" /\ dnsIp = IpOf[s]
    /\ \A t \in Syncs : step[t] \in {"idle", "done"}
    => Cardinality(zone) <= 1
================================================================================
