------------------------------- MODULE MCHostDns -------------------------------
(* An instance of HostDns for TLC.                                         *)
EXTENDS HostDns, TLC

CONSTANTS s1, s2, s3, i1, i2

\* A registration and a connect from one address, a registration from another.
Addresses == (s1 :> i1) @@ (s2 :> i1) @@ (s3 :> i2)
AllIPv4 == [i \in Ips |-> "A"]
================================================================================
