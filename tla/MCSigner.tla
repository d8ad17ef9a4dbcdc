------------------------------- MODULE MCSigner -------------------------------
(* Instances of Signer for TLC.                                            *)
EXTENDS Signer, TLC

CONSTANTS g1, h1, h2, n1, n2

Env(good, proves, ts, n, h) ==
  [toUs |-> TRUE, wellFormed |-> good, proves |-> proves, ts |-> ts,
   nonce |-> n, grant |-> g1, holder |-> h]

\* Two holders race for g1; one of them also sends a proof made with the
\* wrong secret under the other's nonce.  Each envelope may be sent twice, over
\* its whole freshness window; h2's is fresh late enough for its prune to remove
\* the nonce of an early redemption by h1.  The last is addressed to another
\* host.
RaceEnvelopes ==
  {Env(TRUE, TRUE, 1, n1, h1),
   Env(TRUE, TRUE, 3, n2, h2),
   Env(TRUE, FALSE, 1, n1, h2),
   [Env(TRUE, TRUE, 1, n1, h1) EXCEPT !.toUs = FALSE]}

\* One honest envelope.
HonestEnvelopes == {Env(TRUE, TRUE, 1, n1, h1)}

RequestSymmetry == Permutations(Requests)
================================================================================
