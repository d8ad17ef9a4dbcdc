------------------------------ MODULE Registration ------------------------------
(***************************************************************************)
(* The registration of agents: the Worker's routes for challenges and      *)
(* agents (cloudflare/src/worker.ts), ChallengeDO and AgentDO              *)
(* (cloudflare/src/durable-objects/challenge.ts and agent.ts).             *)
(*                                                                         *)
(* A challenge is an object of its own that is consumed under              *)
(* blockConcurrencyWhile, so consuming is one step.  The Worker then calls *)
(* AgentDO; it may be evicted, or the call lost, in between.               *)
(***************************************************************************)
EXTENDS Integers, FiniteSets

CONSTANTS
  Agents,
  Challenges,        \* challenge ids, drawn at random by newChallengeId
  Registrations,     \* the POST /v1/agents calls
  RequestOf,         \* the request of each call
  None,
  SkewRegistration,  \* SKEW_REGISTRATION
  ChallengeTTL,      \* TTL_SECONDS
  AlarmSlack         \* 60 s, from expiry to the alarm

\* solves: the proof of work is one for the challenge.  genuine: the agent id
\* is the hash of the key and the signature verifies.
Request == [challenge : Challenges, agent : Agents, ts : Int, solves : BOOLEAN,
            genuine : BOOLEAN]

VARIABLES
  now,
  challenge,   \* the state of each ChallengeDO
  createdAt,   \* its created_at
  step,        \* where the Worker stands with each call
  agents,      \* agents with a record in their AgentDO
  paid         \* history: calls whose challenge was consumed for them

registration == <<challenge, createdAt, step, agents, paid>>

TypeOK ==
  /\ challenge \in [Challenges -> {"none", "fresh", "consumed", "deleted"}]
  /\ createdAt \in [Challenges -> Nat]
  /\ step \in [Registrations -> {"idle", "put", "done"}]
  /\ agents \subseteq Agents
  /\ paid \subseteq Registrations

Init ==
  /\ challenge = [c \in Challenges |-> "none"]
  /\ createdAt = [c \in Challenges |-> 0]
  /\ step = [r \in Registrations |-> "idle"]
  /\ agents = {}
  /\ paid = {}

\* POST /v1/agent-challenges.  The rate limiters fail open, so they decide
\* nothing that is relied on.
Create(c) ==
  /\ challenge[c] = "none"
  /\ challenge' = [challenge EXCEPT ![c] = "fresh"]
  /\ createdAt' = [createdAt EXCEPT ![c] = now]
  /\ UNCHANGED <<now, step, agents, paid>>

\* Mutant: a challenge that was consumed is not told from a fresh one.
Consumable_Again(c) ==
  /\ challenge[c] \in {"fresh", "consumed"}
  /\ createdAt[c] + ChallengeTTL > now

\* What consume requires of the stored state.
Consumable(c) ==
  /\ challenge[c] = "fresh"
  /\ createdAt[c] + ChallengeTTL > now

\* POST /v1/agents, first half: the challenge is consumed before anything else
\* of the registration is looked at.
Consume(r) ==
  LET c == RequestOf[r].challenge IN
  /\ step[r] = "idle"
  /\ IF Consumable(c) /\ RequestOf[r].solves
       THEN /\ challenge' = [challenge EXCEPT ![c] = "consumed"]
            /\ step' = [step EXCEPT ![r] = "put"]
            /\ paid' = paid \cup {r}
       ELSE /\ step' = [step EXCEPT ![r] = "done"]
            /\ UNCHANGED <<challenge, paid>>
  /\ UNCHANGED <<now, createdAt, agents>>

\* Second half: AgentDO.register.  An agent's key is the preimage of its id, so
\* a record that exists is the same record.
PutAgent(r) ==
  /\ step[r] = "put"
  /\ step' = [step EXCEPT ![r] = "done"]
  /\ agents' = IF /\ RequestOf[r].genuine
                  /\ now - RequestOf[r].ts <= SkewRegistration
                  /\ RequestOf[r].ts - now <= SkewRegistration
                 THEN agents \cup {RequestOf[r].agent} ELSE agents
  /\ UNCHANGED <<now, challenge, createdAt, paid>>

\* The Worker is evicted, or its call to AgentDO fails: the challenge is spent.
Abandon(r) ==
  /\ step[r] = "put"
  /\ step' = [step EXCEPT ![r] = "done"]
  /\ UNCHANGED <<now, challenge, createdAt, agents, paid>>

\* ChallengeDO.alarm: deleteAll, a minute after expiry or later.
Expire(c) ==
  /\ challenge[c] \in {"fresh", "consumed"}
  /\ now >= createdAt[c] + ChallengeTTL + AlarmSlack
  /\ challenge' = [challenge EXCEPT ![c] = "deleted"]
  /\ UNCHANGED <<now, createdAt, step, agents, paid>>

Next ==
  \/ \E c \in Challenges : Create(c) \/ Expire(c)
  \/ \E r \in Registrations : Consume(r) \/ PutAgent(r) \/ Abandon(r)

--------------------------------------------------------------------------------
\* blockConcurrencyWhile and consumed_at: no two registrations are admitted on
\* one proof of work, however their calls interleave, and no step after it
\* gives the proof back.
ChallengePaysOnce ==
  \A r, s \in paid : RequestOf[r].challenge = RequestOf[s].challenge => r = s
================================================================================
