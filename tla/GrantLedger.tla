------------------------------ MODULE GrantLedger ------------------------------
(***************************************************************************)
(* What the signer promises about a capability, with no clock, database,   *)
(* thread or message in sight: a grant id is minted once, can be claimed   *)
(* once while it is open, and at most one certificate ever leaves for it.  *)
(* A claim may be lost (a crash, a failed write): then the grant is spent  *)
(* and no certificate exists, which is the price docs/whitepaper.md        *)
(* section 7 accepts.  Signer.tla is shown to implement this.              *)
(***************************************************************************)
CONSTANTS
  GrantIds,   \* grant identifiers, drawn at random by NewGrantID
  Holders     \* an agent id together with the SSH key it wants certified

VARIABLES
  unminted,   \* identifiers never handed out
  open,       \* grants that a valid redemption would still consume
  held,       \* claims committed but not answered: {[grant, holder]}
  delivered   \* certificates that left the signer: {[grant, holder]}

vars == <<unminted, open, held, delivered>>

Claim == [grant : GrantIds, holder : Holders]

TypeOK ==
  /\ unminted \subseteq GrantIds
  /\ open \subseteq GrantIds
  /\ held \subseteq Claim
  /\ delivered \subseteq Claim

Init ==
  /\ unminted = GrantIds
  /\ open = {}
  /\ held = {}
  /\ delivered = {}

\* The owner creates a grant.
Mint(g) ==
  /\ g \in unminted
  /\ unminted' = unminted \ {g}
  /\ open' = open \cup {g}
  /\ UNCHANGED <<held, delivered>>

\* One redemption consumes an open grant.
Consume(g, h) ==
  /\ g \in open
  /\ open' = open \ {g}
  /\ held' = held \cup {[grant |-> g, holder |-> h]}
  /\ UNCHANGED <<unminted, delivered>>

\* The certificate for a committed claim reaches the caller.
Deliver(c) ==
  /\ c \in held
  /\ held' = held \ {c}
  /\ delivered' = delivered \cup {c}
  /\ UNCHANGED <<unminted, open>>

\* Committed claims are lost before their answer: one request fails, or the
\* process dies with several in flight.
Lose ==
  /\ held' \in SUBSET held
  /\ UNCHANGED <<unminted, open, delivered>>

\* Open grants stop being redeemable: revoked, or deleted after expiry.
Withdraw ==
  /\ open' \in SUBSET open
  /\ UNCHANGED <<unminted, held, delivered>>

Next ==
  \/ \E g \in GrantIds : Mint(g)
  \/ \E g \in GrantIds, h \in Holders : Consume(g, h)
  \/ \E c \in held : Deliver(c)
  \/ Lose
  \/ Withdraw

Spec == Init /\ [][Next]_vars

--------------------------------------------------------------------------------
\* At most one certificate is ever delivered for a grant, whoever asks.
OneCertificatePerGrant ==
  \A c, d \in delivered : c.grant = d.grant => c = d
================================================================================
