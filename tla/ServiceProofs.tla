----------------------------- MODULE ServiceProofs -----------------------------
(***************************************************************************)
(* Safety of the coordination service: what holds of HostDO with any       *)
(* registry holds of it here, and a proof of work pays for one agent.      *)
(***************************************************************************)
EXTENDS Service, HostDOProofs

\* A step of the registry is at most a registration for the object of the host.
LEMMA RegisteringStep ==
  ASSUME Registering
  PROVE  /\ UNCHANGED now
         /\ UNCHANGED vars \/ \E a \in Agents : AgentRegisters(a)
<1>0. \A r \in Registrations : RequestOf[r].agent \in Agents
  BY RegistrationAssumption DEF R!Request
<1>1. UNCHANGED <<tables, serving, links, redeems, accepted>> BY DEF Registering
<1>2. /\ UNCHANGED now
      /\ \/ UNCHANGED agents
         \/ \E r \in Registrations : agents' = agents \cup {RequestOf[r].agent}
  BY DEF Registering, R!Next, R!Create, R!Expire, R!Consume, R!PutAgent, R!Abandon
<1>3. CASE UNCHANGED agents
  BY <1>1, <1>2, <1>3 DEF vars, tables, links, redeems
<1>4. ASSUME NEW r \in Registrations, agents' = agents \cup {RequestOf[r].agent}
      PROVE  \E a \in Agents : AgentRegisters(a)
  BY <1>0, <1>1, <1>2, <1>4 DEF AgentRegisters
<1> QED BY <1>2, <1>3, <1>4

\* Every step of the service is a step of HostDO or of no concern to it.
LEMMA ServiceStep == [ServiceNext]_serviceVars => [Next]_vars
BY RegisteringStep, Zenon DEF ServiceNext, serviceVars, Next

\* The service is HostDO with one particular registry, so everything proved of
\* HostDO holds of it.
LEMMA ServiceIsHostDO == ServiceSpec => Spec
BY ServiceStep, PTL DEF ServiceSpec, ServiceInit, Spec

\* What HostDO promises holds of the service with its registration of agents:
\* no signed call acts twice, the attempts are capped and the audit rows agree
\* with the answers.
THEOREM ServiceKeepsHostDO ==
  ServiceSpec => [](NoCallReplayed /\ AttemptsCapped /\ AuditMatchesAnswer)
BY ServiceIsHostDO, SignedCallsActOnce, RedeemAttemptsCapped,
   AuditTrailMatchesAnswers, PTL

--------------------------------------------------------------------------------
(* Types.                                                                  *)

\* The registry's types are kept by its steps.
LEMMA RegistryTypes == TypeOK /\ R!TypeOK /\ [ServiceNext]_serviceVars => R!TypeOK'
<1> SUFFICES ASSUME TypeOK, R!TypeOK, [ServiceNext]_serviceVars PROVE R!TypeOK'
  OBVIOUS
<1>0. /\ \A r \in Registrations : RequestOf[r].agent \in Agents
      /\ \A r \in Registrations : RequestOf[r].challenge \in Challenges
      /\ now \in Nat
  BY RegistrationAssumption DEF R!Request, TypeOK
<1>1. CASE (ObjectStep \/ HostStep) /\ UNCHANGED registry
  <2>1. UNCHANGED agents
    BY <1>1 DEF ObjectStep, HostStep, Register, Rendezvous, WebSocketClose, WebSocketMessage,
       Redeem, RedeemBegin, RedeemLookup, RedeemAgent, RedeemForward, RedeemTimesOut, Alarm,
       Restart, Tick, SignedBegin, PublishGrant, HostSends
  <2> QED BY <1>1, <2>1 DEF R!TypeOK, registry
<1>2. ASSUME NEW c \in Challenges, R!Create(c) \/ R!Expire(c) PROVE R!TypeOK'
  BY <1>0, <1>2 DEF R!TypeOK, R!Create, R!Expire
<1>3. ASSUME NEW r \in Registrations, R!Consume(r) PROVE R!TypeOK'
  BY <1>0, <1>3 DEF R!TypeOK, R!Consume
<1>4. ASSUME NEW r \in Registrations, R!PutAgent(r) \/ R!Abandon(r) PROVE R!TypeOK'
  BY <1>0, <1>4 DEF R!TypeOK, R!PutAgent, R!Abandon
<1>5. CASE UNCHANGED serviceVars
  BY <1>5 DEF R!TypeOK, serviceVars, registry, vars
<1> QED BY <1>1, <1>2, <1>3, <1>4, <1>5 DEF ServiceNext, Registering, R!Next

\* Every table, socket, handler and challenge of the service is well typed, and
\* liveSocket never picks among several open sockets.
THEOREM ServiceTypeCorrect == ServiceSpec => []ServiceTypeOK
<1>1. ServiceInit => R!TypeOK BY DEF ServiceInit, R!Init, R!TypeOK
<1>2. TypeInv => TypeOK BY DEF TypeInv
<1>3. TypeOK /\ R!TypeOK => ServiceTypeOK BY DEF ServiceTypeOK
<1> QED
  BY <1>1, <1>2, <1>3, RegistryTypes, ServiceIsHostDO, HostDOTypeCorrect, PTL
     DEF ServiceSpec

--------------------------------------------------------------------------------
(* Proof of work.                                                          *)

\* A challenge that has paid is never fresh again, a registration that reaches
\* AgentDO has paid, and so has one for every agent on record.
PaidInv ==
  /\ \A r \in paid : challenge[RequestOf[r].challenge] \in {"consumed", "deleted"}
  /\ R!ChallengePaysOnce
  /\ \A r \in Registrations : step[r] = "put" => r \in paid
  /\ \A a \in agents : \E r \in paid : RequestOf[r].agent = a

\* Every step of the service keeps it.
LEMMA PaidStep ==
  ServiceTypeOK /\ PaidInv /\ [ServiceNext]_serviceVars => PaidInv'
<1> SUFFICES ASSUME ServiceTypeOK, PaidInv, [ServiceNext]_serviceVars PROVE PaidInv'
  OBVIOUS
<1>0. /\ \A r \in Registrations : RequestOf[r].challenge \in Challenges
      /\ challenge \in [Challenges -> {"none", "fresh", "consumed", "deleted"}]
      /\ step \in [Registrations -> {"idle", "put", "done"}]
      /\ paid \subseteq Registrations
  BY RegistrationAssumption DEF R!Request, ServiceTypeOK, R!TypeOK
<1>1. CASE (ObjectStep \/ HostStep) /\ UNCHANGED registry
  <2>1. UNCHANGED agents
    BY <1>1 DEF ObjectStep, HostStep, Register, Rendezvous, WebSocketClose, WebSocketMessage,
       Redeem, RedeemBegin, RedeemLookup, RedeemAgent, RedeemForward, RedeemTimesOut, Alarm,
       Restart, Tick, SignedBegin, PublishGrant, HostSends
  <2> QED BY <1>1, <2>1 DEF PaidInv, R!ChallengePaysOnce, registry
<1>2. ASSUME NEW c \in Challenges, R!Create(c) \/ R!Expire(c) PROVE PaidInv'
  BY <1>0, <1>2 DEF PaidInv, R!ChallengePaysOnce, R!Create, R!Expire
<1>3. ASSUME NEW r \in Registrations, R!Consume(r) PROVE PaidInv'
  <2> DEFINE c == RequestOf[r].challenge
  <2>1. UNCHANGED agents BY <1>3 DEF R!Consume
  <2>2. CASE step' = [step EXCEPT ![r] = "done"] /\ UNCHANGED <<challenge, paid>>
    BY <1>0, <2>1, <2>2 DEF PaidInv, R!ChallengePaysOnce
  <2>3. CASE /\ challenge[c] = "fresh" /\ challenge' = [challenge EXCEPT ![c] = "consumed"]
             /\ step' = [step EXCEPT ![r] = "put"] /\ paid' = paid \cup {r}
    <3>1. \A x \in paid : RequestOf[x].challenge # c BY <2>3 DEF PaidInv
    <3>2. \A x \in paid' : challenge'[RequestOf[x].challenge] \in {"consumed", "deleted"}
      BY <1>0, <2>3 DEF PaidInv
    <3>3. R!ChallengePaysOnce' BY <2>3, <3>1 DEF PaidInv, R!ChallengePaysOnce
    <3>4. \A x \in Registrations : step'[x] = "put" => x \in paid'
      BY <1>0, <2>3 DEF PaidInv
    <3>5. \A a \in agents' : \E x \in paid' : RequestOf[x].agent = a
      BY <2>1, <2>3 DEF PaidInv
    <3> QED BY <3>2, <3>3, <3>4, <3>5 DEF PaidInv
  <2> QED BY <1>3, <2>2, <2>3 DEF R!Consume, R!Consumable
<1>4. ASSUME NEW r \in Registrations, R!PutAgent(r) \/ R!Abandon(r) PROVE PaidInv'
  <2>1. /\ step[r] = "put" /\ step' = [step EXCEPT ![r] = "done"]
        /\ UNCHANGED <<challenge, paid>>
        /\ agents' \in {agents, agents \cup {RequestOf[r].agent}}
    BY <1>4 DEF R!PutAgent, R!Abandon
  <2>2. r \in paid BY <2>1 DEF PaidInv
  <2> QED BY <1>0, <2>1, <2>2 DEF PaidInv, R!ChallengePaysOnce
<1>5. CASE UNCHANGED serviceVars
  BY <1>5 DEF PaidInv, R!ChallengePaysOnce, serviceVars, registry, vars
<1> QED BY <1>1, <1>2, <1>3, <1>4, <1>5 DEF ServiceNext, Registering, R!Next

\* Distinct agents have paid with distinct challenges.
LEMMA AgentsCost ==
  ASSUME ServiceTypeOK, PaidInv, AgentsKnown
  PROVE  ProofOfWorkPerAgent
<1> DEFINE used == {RequestOf[r].challenge : r \in paid}
           payer == [a \in agents |-> CHOOSE r \in paid : RequestOf[r].agent = a]
           spent == [a \in agents |-> RequestOf[payer[a]].challenge]
<1>1. \A a \in agents : payer[a] \in paid /\ RequestOf[payer[a]].agent = a
  BY DEF PaidInv
<1> HIDE DEF payer
<1>2. spent \in Injection(agents, used)
  <2>1. spent \in [agents -> used] BY <1>1
  <2>2. ASSUME NEW a \in agents, NEW b \in agents, spent[a] = spent[b] PROVE a = b
    <3>1. payer[a] = payer[b] BY <1>1, <2>2 DEF PaidInv, R!ChallengePaysOnce
    <3> QED BY <1>1, <3>1
  <2> QED BY <2>1, <2>2 DEF Injection, IsInjective
<1>3. IsFiniteSet(used)
  <2>1. used \in SUBSET Challenges
    BY RegistrationAssumption DEF R!Request, ServiceTypeOK, R!TypeOK
  <2> QED BY <2>1, RegistrationAssumption, FS_Subset
<1>4. Cardinality(agents) <= Cardinality(used) BY <1>2, <1>3, FS_Injection
<1>5. agents \cup {EnvelopeOf[q].agent : q \in {p \in Calls : sentAt[p] # None}} = agents
  BY DEF AgentsKnown
<1> QED BY <1>4, <1>5 DEF ProofOfWorkPerAgent, PaidInv

\* Reaching the host costs a proof of work per agent, for any number of agents,
\* challenges and interleavings of the Worker with the objects, evictions of the
\* Worker included.
THEOREM AgentsPayOnce == ServiceSpec => []ProofOfWorkPerAgent
<1>1. ServiceInit => PaidInv BY DEF ServiceInit, R!Init, Init, PaidInv, R!ChallengePaysOnce
<1>2. ServiceSpec => []PaidInv
  BY <1>1, PaidStep, ServiceTypeCorrect, PTL DEF ServiceSpec
<1> QED
  BY <1>2, AgentsCost, ServiceTypeCorrect, ServiceIsHostDO, OnlyRegisteredAgents, PTL
================================================================================
