-------------------------------- MODULE MCRelay --------------------------------
(* Instances of Relay for TLC.                                             *)
EXTENDS Relay

CONSTANTS g1, a1, q1, q2, w1, w2

SignedMessages ==
  [kind : {"register", "connect"}, genuine : {TRUE}, ts : 0..MaxTime, nonce : Nonces]

\* Two redemptions of one grant.
Rivals ==
  [q \in Calls |-> [grant |-> g1, agent |-> a1, ts |-> 0,
                    wellFormed |-> TRUE, genuine |-> TRUE]]

FromTheStart == [g \in GrantIds |-> 0]
PastTheEnd == [g \in GrantIds |-> MaxTime + 1]
================================================================================
