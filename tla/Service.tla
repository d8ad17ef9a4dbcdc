-------------------------------- MODULE Service --------------------------------
(***************************************************************************)
(* The coordination service: HostDO of one host together with the          *)
(* registration of agents it consults (registeredAgentKey).  The host is   *)
(* still the environment.                                                  *)
(***************************************************************************)
EXTENDS HostDO

CONSTANTS Challenges, Registrations, RequestOf, ChallengeTTL, AlarmSlack

VARIABLES challenge, createdAt, step, paid

R == INSTANCE Registration

ASSUME RegistrationAssumption ==
  /\ RequestOf \in [Registrations -> R!Request]
  /\ IsFiniteSet(Challenges)

registry == <<challenge, createdAt, step, paid>>
serviceVars == <<vars, registry>>

ServiceTypeOK == TypeOK /\ R!TypeOK

ServiceInit == Init /\ R!Init

\* AgentDO is an object of its own: nothing of HostDO moves with it.
Registering ==
  /\ R!Next
  /\ UNCHANGED <<tables, serving, links, redeems, accepted>>

ServiceNext ==
  \/ ObjectStep /\ UNCHANGED registry
  \/ HostStep /\ UNCHANGED registry
  \/ Registering

ServiceSpec == ServiceInit /\ [][ServiceNext]_serviceVars

--------------------------------------------------------------------------------
\* "It makes reaching a customer's machine cost a proof of work": as many
\* challenges were consumed, each for one registration, as there are agents
\* that are registered or have had a frame sent to the host.
ProofOfWorkPerAgent ==
  /\ R!ChallengePaysOnce
  /\ Cardinality(agents \cup {EnvelopeOf[q].agent : q \in {p \in Calls : sentAt[p] # None}})
       <= Cardinality({RequestOf[r].challenge : r \in paid})
================================================================================
