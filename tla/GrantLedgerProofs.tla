--------------------------- MODULE GrantLedgerProofs ---------------------------
(* TLAPS proofs about GrantLedger.                                         *)
EXTENDS GrantLedger, TLAPS

\* A grant is in one place only: not handed out, open, or claimed; and one
\* claim on it exists, held or delivered.
LedgerInv ==
  /\ TypeOK
  /\ unminted \cap open = {}
  /\ \A c \in held \cup delivered : c.grant \notin unminted \cup open
  /\ \A c, d \in held \cup delivered : c.grant = d.grant => c = d

\* Each step of the ledger keeps a grant in one place.
LEMMA StepLedgerInv == LedgerInv /\ [Next]_vars => LedgerInv'
<1> SUFFICES ASSUME LedgerInv, [Next]_vars PROVE LedgerInv'
  OBVIOUS
<1> USE DEF LedgerInv, TypeOK
<1>1. ASSUME NEW g \in GrantIds, Mint(g) PROVE LedgerInv'
  BY <1>1 DEF Mint
<1>2. ASSUME NEW g \in GrantIds, NEW h \in Holders, Consume(g, h)
      PROVE  LedgerInv'
  <2> DEFINE new == [grant |-> g, holder |-> h]
  <2>1. new \in Claim /\ new.grant = g
    BY DEF Claim
  <2> HIDE DEF new
  <2>2. /\ g \in open /\ open' = open \ {g}
        /\ held' = held \cup {new}
        /\ UNCHANGED <<unminted, delivered>>
    BY <1>2 DEF Consume, new
  <2> QED
    BY <2>1, <2>2
<1>3. ASSUME NEW c \in held, Deliver(c) PROVE LedgerInv'
  BY <1>3 DEF Deliver
<1>4. CASE Lose
  BY <1>4 DEF Lose
<1>5. CASE Withdraw
  BY <1>5 DEF Withdraw
<1>6. CASE UNCHANGED vars
  BY <1>6 DEF vars
<1> QED
  BY <1>1, <1>2, <1>3, <1>4, <1>5, <1>6 DEF Next

\* The promise the signer inherits: at most one certificate is ever delivered
\* for a grant.
THEOREM OneCertificate == Spec => []OneCertificatePerGrant
<1>1. Init => LedgerInv
  BY DEF Init, LedgerInv, TypeOK
<1>2. LedgerInv /\ [Next]_vars => LedgerInv'
  BY StepLedgerInv
<1>3. LedgerInv => OneCertificatePerGrant
  BY DEF LedgerInv, OneCertificatePerGrant
<1> QED
  BY <1>1, <1>2, <1>3, PTL DEF Spec
================================================================================
