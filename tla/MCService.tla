------------------------------- MODULE MCService -------------------------------
(* Instances of Service for TLC.                                           *)
EXTENDS Service, TLC

CONSTANTS g1, a1, a2, n1, n2, q1, q2, c1, r1, r2, w1, w2

\* A registration and a connect, signed by a host whose clock is ahead.
TwoMessages ==
  { [kind |-> "register", genuine |-> TRUE, ts |-> 1, nonce |-> n1],
    [kind |-> "connect", genuine |-> TRUE, ts |-> 1, nonce |-> n2] }

\* Two calls of one agent for one grant.
OneAgent ==
  [q \in Calls |-> [grant |-> g1, agent |-> a1, ts |-> 0, wellFormed |-> TRUE,
                    genuine |-> TRUE]]

\* Two agents answer the same challenge.
SharedChallenge ==
  [r \in Registrations |->
     [challenge |-> c1, agent |-> IF r = r1 THEN a1 ELSE a2, ts |-> 0,
      solves |-> TRUE, genuine |-> TRUE]]

FromTheStart == [g \in GrantIds |-> 0]
UntilTwo == [g \in GrantIds |-> 2]

ServiceSymmetry == Permutations(Wires) \cup Permutations(Calls)
================================================================================
