------------------------------- MODULE MCWarden -------------------------------
(* Instances of Warden for TLC.                                            *)
EXTENDS Warden, TLC

CONSTANTS g1, c1, c2, p1

\* Two visitors with the same certificate, on processes of their own:
\* the pid is named after the connection.
TwoPids == [c \in Conns |-> c]
\* The second connection inherits the pid of the first.
SamePid == (c1 :> p1) @@ (c2 :> p1)

BothCertified == [c \in Conns |-> g1]
\* The second connection authenticated without a certificate.
OneCertified == (c1 :> g1) @@ (c2 :> None)

ShortGrant == g1 :> 2
LongGrant == g1 :> 4

\* The wall clock is set back by one.
SetBack == {-1}

ConnSymmetry == Permutations(Conns)
================================================================================
