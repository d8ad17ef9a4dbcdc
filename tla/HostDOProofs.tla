------------------------------ MODULE HostDOProofs ------------------------------
(***************************************************************************)
(* Safety of HostDO for every host, network and clock, any number of       *)
(* calls, wires and messages.                                              *)
(***************************************************************************)
EXTENDS HostDO, SequenceTheorems, FiniteSetTheorems, TLAPS

--------------------------------------------------------------------------------
(* Signed calls act once.                                                  *)

\* The part of TypeOK the argument needs.
CallTypes ==
  /\ now \in Nat
  /\ nonces \in [Nonces -> Nat \cup {Unseen}]
  /\ serving \in [Wires -> [msg : Messages, at : Nat] \cup {None}]
  /\ accepted \in [Messages -> Nat]

\* A running handler found its message fresh not long ago.
FreshInv ==
  \A w \in Wires : serving[w] # None =>
    /\ serving[w].at <= now
    /\ now <= serving[w].at + MaxStall
    /\ WithinSkew(serving[w].at, serving[w].msg.ts, SkewRegistration)

\* No handler can still be running that found m fresh.
Outlived(m) == now > m.ts + SkewRegistration + MaxStall

\* The nonce of m has a row that was written when m was fresh, or later.
Remembered(m) ==
  nonces[m.nonce] # Unseen /\ nonces[m.nonce] >= m.ts - SkewRegistration

RetainInv ==
  \A m \in Messages : accepted[m] > 0 => Outlived(m) \/ Remembered(m)

CallInv == CallTypes /\ FreshInv /\ RetainInv /\ NoCallReplayed

\* What no handler of a signed call touches but its own steps, the alarm, a
\* restart and the clock.
calls == <<now, nonces, serving, accepted>>

\* The constants in the form the steps use.
LEMMA ConstantTypes ==
  /\ Messages \subseteq Message
  /\ SkewRegistration \in Nat /\ NonceRetention \in Nat /\ MaxStall \in Nat
  /\ NonceRetention >= 2 * SkewRegistration + MaxStall
  /\ \A m \in Messages : m.ts \in Int /\ m.nonce \in Nonces
BY InputsAssumption, NumbersAssumption, NonceRetentionAssumption DEF Message

\* A row that a prune removes belongs to a message that is outlived.
LEMMA PrunedIsOutlived ==
  ASSUME CallTypes, NEW m \in Messages, Remembered(m), NEW t \in Int, t <= now,
         KeptNonces(t - NonceRetention)[m.nonce] = Unseen
  PROVE  Outlived(m)
<1>1. m.ts \in Int /\ m.nonce \in Nonces BY ConstantTypes
<1>2. nonces[m.nonce] < t - NonceRetention BY <1>1 DEF KeptNonces, Remembered
<1>3. nonces[m.nonce] \in Nat BY <1>1 DEF CallTypes, Remembered
<1> QED BY <1>1, <1>2, <1>3, ConstantTypes DEF Outlived, Remembered, CallTypes

\* A prune keeps or removes a row, and changes none.
LEMMA PruneKeeps ==
  ASSUME CallTypes, NEW t \in Int, NEW n \in Nonces
  PROVE  /\ KeptNonces(t) \in [Nonces -> Nat \cup {Unseen}]
         /\ KeptNonces(t)[n] \in {nonces[n], Unseen}
BY DEF CallTypes, KeptNonces

\* Nothing that leaves the calls alone and lets time pass breaks the invariant.
LEMMA CallsUnchanged == CallInv /\ UNCHANGED calls => CallInv'
BY DEF CallInv, CallTypes, FreshInv, RetainInv, NoCallReplayed, Outlived,
       Remembered, WithinSkew, calls

\* The step that judges a signed call keeps the invariant: what it accepts was
\* never accepted before, and is remembered from now on.
LEMMA SeenNonceStep ==
  ASSUME CallInv, NEW w \in Wires, serving[w] # None, SeenNonce(w), now' = now
  PROVE  CallInv'
<1> DEFINE m == serving[w].msg
           a == serving[w].at
           kept == KeptNonces(a - NonceRetention)
<1>1. m \in Messages /\ a \in Nat BY DEF CallInv, CallTypes
<1>2. /\ m.ts \in Int /\ m.nonce \in Nonces
      /\ a <= now /\ now <= a + MaxStall
      /\ a - m.ts <= SkewRegistration /\ m.ts - a <= SkewRegistration
  BY <1>1, ConstantTypes DEF CallInv, FreshInv, WithinSkew
<1>3. ASSUME Accepts(w) PROVE accepted[m] = 0
  <2>1. CASE accepted[m] > 0 /\ Outlived(m)
    BY <2>1, <1>1, <1>2, ConstantTypes DEF Outlived, CallInv, CallTypes
  <2>2. CASE accepted[m] > 0 /\ Remembered(m)
    <3>1. nonces[m.nonce] < a - NonceRetention
      BY <2>2, <1>2, <1>3 DEF Accepts, KeptNonces, Remembered
    <3>2. nonces[m.nonce] \in Nat BY <2>2, <1>2 DEF CallInv, CallTypes, Remembered
    <3> QED BY <2>2, <3>1, <3>2, <1>1, <1>2, ConstantTypes DEF Remembered
  <2> QED BY <2>1, <2>2, <1>1 DEF CallInv, CallTypes, RetainInv
<1>4. kept \in [Nonces -> Nat \cup {Unseen}]
  BY <1>1, PruneKeeps, ConstantTypes DEF CallInv, KeptNonces, CallTypes
<1>5. nonces' \in [Nonces -> Nat \cup {Unseen}]
  BY <1>1, <1>2, <1>4 DEF SeenNonce, CallInv, CallTypes
<1>6. accepted' \in [Messages -> Nat]
  BY <1>1 DEF SeenNonce, CallInv, CallTypes
<1>7. serving' \in [Wires -> [msg : Messages, at : Nat] \cup {None}]
  BY DEF SeenNonce, CallInv, CallTypes
<1>8. CallTypes' BY <1>5, <1>6, <1>7 DEF CallInv, CallTypes
<1>9. FreshInv'
  BY DEF SeenNonce, CallInv, CallTypes, FreshInv, WithinSkew
<1>10. NoCallReplayed'
  BY <1>1, <1>3 DEF SeenNonce, CallInv, CallTypes, NoCallReplayed
<1>11. ASSUME NEW x \in Messages, accepted'[x] > 0
       PROVE  Outlived(x)' \/ Remembered(x)'
  <2>1. x.ts \in Int /\ x.nonce \in Nonces BY ConstantTypes
  <2>2. CASE Accepts(w) /\ x = m
    <3>1. nonces'[x.nonce] = a
      BY <2>2, <1>2, <1>4, <1>1 DEF SeenNonce, Accepts
    <3> QED BY <3>1, <2>2, <1>1, <1>2, ConstantTypes DEF Remembered, Unseen
  <2>3. CASE ~(Accepts(w) /\ x = m)
    <3>1. accepted[x] > 0 BY <2>3, <1>1, <1>11 DEF SeenNonce, CallInv, CallTypes
    <3>2. CASE Outlived(x) BY <3>2 DEF Outlived
    <3>3. CASE Remembered(x) /\ kept[x.nonce] = Unseen
      <4>1. Outlived(x)
        BY <3>3, <1>1, <1>2, PrunedIsOutlived DEF CallInv
      <4> QED BY <4>1 DEF Outlived
    <3>4. CASE Remembered(x) /\ kept[x.nonce] # Unseen
      <4>1. kept[x.nonce] = nonces[x.nonce] BY <3>4, <2>1 DEF KeptNonces
      <4>2. nonces'[x.nonce] = nonces[x.nonce]
        BY <3>4, <4>1, <1>4, <2>1, <1>2 DEF SeenNonce, Accepts
      <4> QED BY <3>4, <4>2 DEF Remembered
    <3> QED BY <3>1, <3>2, <3>3, <3>4 DEF CallInv, RetainInv
  <2> QED BY <2>2, <2>3
<1>12. RetainInv' BY <1>11 DEF RetainInv
<1> QED BY <1>8, <1>9, <1>10, <1>12 DEF CallInv

\* Every action keeps the invariant; only five kinds of step touch the calls.
LEMMA CallStep == CallInv /\ [Next]_vars => CallInv'
<1> SUFFICES ASSUME CallInv, [Next]_vars PROVE CallInv'
  OBVIOUS
<1>1. ASSUME NEW w \in Wires, NEW m \in Messages, SignedBegin(w, m) PROVE CallInv'
  <2>1. m.ts \in Int /\ now \in Nat /\ MaxStall \in Nat
    BY ConstantTypes DEF CallInv, CallTypes
  <2>2. CallTypes'
    BY <1>1 DEF SignedBegin, tables, redeems, CallInv, CallTypes
  <2>3. FreshInv'
    BY <1>1, <2>1 DEF SignedBegin, Admissible, WithinSkew, CallInv, CallTypes, FreshInv
  <2> QED
    BY <1>1, <2>2, <2>3 DEF SignedBegin, tables, CallInv, RetainInv, Outlived,
       Remembered, NoCallReplayed
<1>2. ASSUME NEW w \in Wires, Register(w) PROVE CallInv'
  BY <1>2, SeenNonceStep DEF Register
<1>3. ASSUME NEW w \in Wires, Rendezvous(w) PROVE CallInv'
  BY <1>3, SeenNonceStep DEF Rendezvous
<1>4. CASE Alarm
  <2>1. now \in Int /\ NonceRetention \in Int
    BY ConstantTypes DEF CallInv, CallTypes
  <2>2. CallTypes'
    BY <1>4, <2>1, PruneKeeps DEF Alarm, CallInv, CallTypes, KeptNonces
  <2>3. ASSUME NEW m \in Messages, accepted[m] > 0 PROVE Outlived(m)' \/ Remembered(m)'
    <3>1. m.nonce \in Nonces BY ConstantTypes
    <3>2. CASE Outlived(m) BY <1>4, <3>2 DEF Alarm, Outlived
    <3>3. CASE Remembered(m) /\ nonces'[m.nonce] = Unseen
      <4>1. Outlived(m)
        BY <1>4, <3>3, <2>1, PrunedIsOutlived DEF Alarm, CallInv
      <4> QED BY <1>4, <4>1 DEF Alarm, Outlived
    <3>4. CASE Remembered(m) /\ nonces'[m.nonce] # Unseen
      BY <1>4, <3>4, <3>1 DEF Alarm, KeptNonces, Remembered
    <3> QED BY <2>3, <3>2, <3>3, <3>4 DEF CallInv, RetainInv
  <2> QED
    BY <1>4, <2>2, <2>3 DEF Alarm, CallInv, FreshInv, WithinSkew, RetainInv,
       NoCallReplayed
<1>5. CASE Restart
  BY <1>5 DEF Restart, tables, CallInv, CallTypes, FreshInv, RetainInv, Outlived,
     Remembered, NoCallReplayed
<1>6. CASE Tick
  <2>1. now' \in Nat /\ now <= now' /\ now' <= now + 1
    BY <1>6, NumbersAssumption DEF Tick, CallInv, CallTypes
  <2>2. UNCHANGED <<nonces, serving, accepted>>
    BY <1>6 DEF Tick, tables
  <2>3. CallTypes' BY <2>1, <2>2 DEF CallInv, CallTypes
  <2>4. ASSUME NEW w \in Wires, serving[w] # None
        PROVE  serving[w].at <= now' /\ now' <= serving[w].at + MaxStall
    BY <1>6, <2>1, <2>4, ConstantTypes DEF Tick, Prompt, CallInv, CallTypes, FreshInv
  <2>5. FreshInv' BY <2>2, <2>4 DEF CallInv, FreshInv, WithinSkew
  <2>6. RetainInv'
    BY <2>1, <2>2, ConstantTypes DEF CallInv, CallTypes, RetainInv, Outlived, Remembered
  <2> QED BY <2>2, <2>3, <2>5, <2>6 DEF CallInv, NoCallReplayed
<1>7. ASSUME NEW q \in Calls, Redeem(q) \/ RedeemTimesOut(q) PROVE CallInv'
  BY <1>7, CallsUnchanged DEF Redeem, RedeemBegin, RedeemLookup, RedeemAgent,
     RedeemForward, RedeemTimesOut, tables, calls
<1>8. ASSUME NEW w \in Wires, NEW f \in toService[w], WebSocketMessage(w, f)
      PROVE CallInv'
  BY <1>8, CallsUnchanged DEF WebSocketMessage, calls
<1>9. ASSUME NEW w \in Wires, WebSocketClose(w) PROVE CallInv'
  BY <1>9, CallsUnchanged DEF WebSocketClose, calls
<1>10. ASSUME NEW g \in GrantIds, PublishGrant(g) PROVE CallInv'
  BY <1>10, CallsUnchanged DEF PublishGrant, calls
<1>11. ASSUME NEW w \in Wires, NEW f \in Frame, HostSends(w, f) PROVE CallInv'
  BY <1>11, CallsUnchanged DEF HostSends, tables, calls
<1>12. ASSUME NEW a \in Agents, AgentRegisters(a) PROVE CallInv'
  BY <1>12, CallsUnchanged DEF AgentRegisters, tables, calls
<1>13. CASE UNCHANGED vars
  BY <1>13, CallsUnchanged DEF vars, calls
<1>14. CASE ObjectStep
  BY <1>2, <1>3, <1>4, <1>5, <1>6, <1>7, <1>8, <1>9, <1>14, Zenon DEF ObjectStep
<1>15. CASE HostStep
  BY <1>1, <1>10, <1>11, <1>15, Zenon DEF HostStep
<1>16. CASE \E a \in Agents : AgentRegisters(a)
  BY <1>12, <1>16, Zenon
<1> QED BY <1>13, <1>14, <1>15, <1>16, Zenon DEF Next

\* No registration and no connect is ever acted on twice (seenNonce in host.ts),
\* for all skews, stalls and retentions with NonceRetentionAssumption: handlers
\* may prune with old clock readings and the alarm with new ones.
THEOREM SignedCallsActOnce == Spec => []NoCallReplayed
<1>1. ASSUME Init PROVE CallInv
  <2>1. CallTypes BY <1>1 DEF Init, CallTypes
  <2>2. FreshInv BY <1>1 DEF Init, FreshInv
  <2>3. \A m \in Messages : accepted[m] = 0 BY <1>1 DEF Init
  <2>4. RetainInv BY <2>3 DEF RetainInv
  <2>5. NoCallReplayed BY <2>3 DEF NoCallReplayed
  <2> QED BY <2>1, <2>2, <2>4, <2>5 DEF CallInv
<1>2. CallInv => NoCallReplayed BY DEF CallInv
<1> QED BY <1>1, <1>2, CallStep, PTL DEF Spec
--------------------------------------------------------------------------------
(* Type correctness, and the socket list.                                  *)

\* getWebSockets(): the sockets whose close has not been seen, each once.  Of
\* these only the newest can be open.  A call is carried by a wire that is no
\* socket yet.
SocketInv ==
  /\ \A i \in DOMAIN sockets : sock[sockets[i]] \in {"open", "closing"}
  /\ \A i, j \in DOMAIN sockets : sockets[i] = sockets[j] => i = j
  /\ \A w \in Wires : serving[w] # None => sock[w] = "none"
  /\ \A w \in Wires : sock[w] = "open" =>
       Len(sockets) > 0 /\ sockets[Len(sockets)] = w

TypeInv == TypeOK /\ SocketInv

\* What the types and the socket list are made of, in groups that steps leave
\* alone together.
wires == <<serving, sockets, sock>>

\* RemoveAt takes out one element and closes the gap.
LEMMA RemoveAtFacts ==
  ASSUME NEW s \in Seq(Wires), NEW i \in DOMAIN s
  PROVE  /\ RemoveAt(s, i) \in Seq(Wires)
         /\ Len(RemoveAt(s, i)) = Len(s) - 1
         /\ \A k \in 1..(Len(s) - 1) :
              RemoveAt(s, i)[k] = IF k < i THEN s[k] ELSE s[k + 1]
<1> DEFINE a == SubSeq(s, 1, i - 1)
           b == SubSeq(s, i + 1, Len(s))
<1>1. i \in 1..Len(s) /\ Len(s) \in Nat BY LenProperties
<1>2. a \in Seq(Wires) /\ Len(a) = i - 1 /\ \A k \in 1..(i - 1) : a[k] = s[k]
  BY <1>1, SubSeqProperties
<1>3. b \in Seq(Wires) /\ Len(b) = Len(s) - i /\ \A k \in 1..(Len(s) - i) : b[k] = s[i + k]
  BY <1>1, SubSeqProperties
<1> HIDE DEF a, b
<1>4. /\ a \o b \in Seq(Wires) /\ Len(a \o b) = Len(s) - 1
      /\ \A k \in 1..(Len(s) - 1) : (a \o b)[k] = IF k <= i - 1 THEN a[k] ELSE b[k - (i - 1)]
  BY <1>1, <1>2, <1>3, ConcatProperties
<1>5. RemoveAt(s, i) = a \o b BY DEF RemoveAt, a, b
<1>6. ASSUME NEW k \in 1..(Len(s) - 1)
      PROVE  (a \o b)[k] = IF k < i THEN s[k] ELSE s[k + 1]
  <2>1. CASE k < i
    BY <1>1, <1>2, <1>4, <2>1
  <2>2. CASE ~(k < i)
    <3>1. k - (i - 1) \in 1..(Len(s) - i) /\ i + (k - (i - 1)) = k + 1
      BY <1>1, <2>2
    <3>2. b[k - (i - 1)] = s[k + 1] BY <1>3, <3>1
    <3> QED BY <1>1, <1>4, <2>2, <3>2
  <2> QED BY <2>1, <2>2
<1> QED BY <1>4, <1>5, <1>6

\* Which wires are sockets is left alone by most steps.
LEMMA SocketFrame ==
  ASSUME SocketInv, UNCHANGED wires
  PROVE  SocketInv'
BY DEF SocketInv, wires

\* liveSocket is well defined: the open socket is the last of the list.
LEMMA LiveIsLast ==
  ASSUME TypeInv, Open # {}
  PROVE  /\ LiveSocket \in Wires
         /\ sock[LiveSocket] = "open"
         /\ LiveSocket = sockets[Len(sockets)]
<1>1. sockets \in Seq(Wires) /\ DOMAIN sockets = 1..Len(sockets) /\ Len(sockets) \in Nat
  BY LenProperties DEF TypeInv, TypeOK
<1>2. \A i \in Open : i = Len(sockets)
  BY <1>1 DEF Open, TypeInv, SocketInv
<1>3. Len(sockets) \in Open BY <1>2
<1>4. (CHOOSE i \in Open : \A j \in Open : j <= i) = Len(sockets)
  <2>1. \A j \in Open : j <= Len(sockets) BY <1>1, <1>2
  <2>2. \E i \in Open : \A j \in Open : j <= i BY <1>3, <2>1
  <2>3. (CHOOSE i \in Open : \A j \in Open : j <= i) \in Open BY <2>2
  <2> QED BY <1>2, <2>3
<1> QED BY <1>1, <1>3, <1>4 DEF LiveSocket, Open

\* A call that is answered.
LEMMA AnswerType ==
  ASSUME TypeOK, NEW q \in Calls, NEW code \in Answers, Answer(q, code)
  PROVE  /\ rpc' \in [Calls -> {"idle", "lookup", "agent", "forward", "wait", "done"}]
         /\ answer' \in [Calls -> Answers]
         /\ via' \in [Calls -> Wires \cup {None}]
BY DEF TypeOK, Answer

\* A call that goes on.
LEMMA ProceedType ==
  ASSUME TypeOK, NEW q \in Calls, NEW s \in {"lookup", "agent", "wait"}, Proceed(q, s)
  PROVE  /\ rpc' \in [Calls -> {"idle", "lookup", "agent", "forward", "wait", "done"}]
         /\ answer' \in [Calls -> Answers]
         /\ via' \in [Calls -> Wires \cup {None}]
BY DEF TypeOK, Proceed

\* Calls that are settled.
LEMMA SettleType ==
  ASSUME TypeOK, NEW Q, NEW status \in Statuses, NEW code \in Answers,
         Settle(Q, status, code)
  PROVE  /\ pending' \subseteq Calls
         /\ rows' \in [Calls -> Statuses]
         /\ answer' \in [Calls -> Answers]
         /\ rpc' \in [Calls -> {"idle", "lookup", "agent", "forward", "wait", "done"}]
         /\ via' \in [Calls -> Wires \cup {None}]
         /\ timer' \in [Calls -> Nat]
BY DEF TypeOK, Settle

\* The status and the code a verdict is translated to exist.
LEMMA VerdictType ==
  ASSUME NEW v \in Verdicts
  PROVE  Audit(v) \in Statuses /\ Relayed(v) \in Answers
BY InputsAssumption DEF Audit, Relayed, Statuses, Answers

\* The steps of a redemption.
LEMMA RedeemTypeInv ==
  ASSUME TypeInv, NEW q \in Calls, Redeem(q) \/ RedeemTimesOut(q)
  PROVE  TypeInv'
<1>0. TypeOK /\ RedeemTimeout \in Nat /\ SocketInv BY NumbersAssumption DEF TypeInv
<1>1. UNCHANGED wires
  BY DEF Redeem, RedeemBegin, RedeemLookup, RedeemAgent, RedeemForward, RedeemTimesOut,
         links, wires
<1>2. SocketInv' BY <1>0, <1>1, SocketFrame
<1>3. CASE RedeemBegin(q)
  <2>1. \/ \E code \in Answers : Answer(q, code)
        \/ Proceed(q, "lookup")
    BY <1>3 DEF RedeemBegin, Answers
  <2>2. /\ rpc' \in [Calls -> {"idle", "lookup", "agent", "forward", "wait", "done"}]
        /\ answer' \in [Calls -> Answers] /\ via' \in [Calls -> Wires \cup {None}]
    BY <1>0, <2>1, AnswerType, ProceedType
  <2>3. UNCHANGED <<now, tables, serving, links, pending, timer, sentAt, agents, accepted>>
        /\ rat' = [rat EXCEPT ![q] = now]
    BY <1>3 DEF RedeemBegin
  <2> QED BY <1>0, <1>2, <2>2, <2>3 DEF TypeInv, TypeOK, tables, links
<1>4. CASE RedeemLookup(q)
  <2>1. \/ \E code \in Answers : Answer(q, code)
        \/ Proceed(q, "agent")
    BY <1>4 DEF RedeemLookup, Answers
  <2>2. /\ rpc' \in [Calls -> {"idle", "lookup", "agent", "forward", "wait", "done"}]
        /\ answer' \in [Calls -> Answers] /\ via' \in [Calls -> Wires \cup {None}]
    BY <1>0, <2>1, AnswerType, ProceedType
  <2>3. UNCHANGED <<now, tables, serving, links, rat, pending, timer, sentAt, agents,
                    accepted>>
    BY <1>4 DEF RedeemLookup
  <2> QED BY <1>0, <1>2, <2>2, <2>3 DEF TypeInv, TypeOK, tables, links
<1>5. CASE RedeemAgent(q)
  <2>1. \/ \E code \in Answers : Answer(q, code)
        \/ /\ Open # {} /\ via' = [via EXCEPT ![q] = LiveSocket]
           /\ rpc' = [rpc EXCEPT ![q] = "forward"] /\ UNCHANGED answer
    BY <1>5 DEF RedeemAgent, Answers
  <2>2. Open # {} => LiveSocket \in Wires BY LiveIsLast
  <2>3. /\ rpc' \in [Calls -> {"idle", "lookup", "agent", "forward", "wait", "done"}]
        /\ answer' \in [Calls -> Answers] /\ via' \in [Calls -> Wires \cup {None}]
    <3>1. ASSUME NEW code \in Answers, Answer(q, code)
          PROVE  /\ rpc' \in [Calls -> {"idle", "lookup", "agent", "forward", "wait", "done"}]
                 /\ answer' \in [Calls -> Answers] /\ via' \in [Calls -> Wires \cup {None}]
      BY <1>0, <3>1, AnswerType
    <3>2. CASE /\ Open # {} /\ via' = [via EXCEPT ![q] = LiveSocket]
               /\ rpc' = [rpc EXCEPT ![q] = "forward"] /\ UNCHANGED answer
      BY <1>0, <2>2, <3>2 DEF TypeOK
    <3> QED BY <2>1, <3>1, <3>2
  <2>4. UNCHANGED <<now, tables, serving, links, rat, pending, timer, sentAt, agents,
                    accepted>>
    BY <1>5 DEF RedeemAgent
  <2> QED BY <1>0, <1>2, <2>3, <2>4 DEF TypeInv, TypeOK, tables, links
<1>6. CASE RedeemForward(q)
  <2>1. \/ \E code \in Answers : Answer(q, code)
        \/ Proceed(q, "wait")
    BY <1>6 DEF RedeemForward, Answers
  <2>2. /\ rpc' \in [Calls -> {"idle", "lookup", "agent", "forward", "wait", "done"}]
        /\ answer' \in [Calls -> Answers] /\ via' \in [Calls -> Wires \cup {None}]
    BY <1>0, <2>1, AnswerType, ProceedType
  <2>3. UNCHANGED <<now, record, nonces, grants, serving, sockets, sock, toService, rat,
                    agents, accepted>>
    BY <1>6 DEF RedeemForward
  <2>4. attempts' \subseteq Calls BY <1>0, <1>6 DEF RedeemForward, Recent, TypeOK
  <2>5. rows' \in [Calls -> Statuses] /\ pending' \subseteq Calls
        /\ timer' \in [Calls -> Nat] /\ sentAt' \in [Calls -> Nat \cup {None}]
    <3>1. /\ rows' = rows \/ \E s \in Statuses : rows' = [rows EXCEPT ![q] = s]
          /\ pending' = pending \/ pending' = pending \cup {q}
          /\ timer' = timer \/ timer' = [timer EXCEPT ![q] = RedeemTimeout]
          /\ sentAt' = sentAt \/ sentAt' = [sentAt EXCEPT ![q] = now]
      BY <1>6 DEF RedeemForward, Statuses
    <3>2. rows' \in [Calls -> Statuses] BY <1>0, <3>1 DEF TypeOK
    <3>3. pending' \subseteq Calls BY <1>0, <3>1 DEF TypeOK
    <3>4. timer' \in [Calls -> Nat] BY <1>0, <3>1 DEF TypeOK
    <3>5. sentAt' \in [Calls -> Nat \cup {None}] BY <1>0, <3>1 DEF TypeOK
    <3> QED BY <3>2, <3>3, <3>4, <3>5
  <2>6. toHost' \in [Wires -> SUBSET Calls]
    <3> DEFINE old == toHost[via[q]]
               new == IF sock[via[q]] = "open" THEN old \cup {q} ELSE old
    <3>1. UNCHANGED toHost \/ toHost' = [toHost EXCEPT ![via[q]] = new]
      BY <1>6 DEF RedeemForward
    <3>2. via[q] \in Wires => new \in SUBSET Calls BY <1>0 DEF TypeOK
    <3>3. toHost \in [Wires -> SUBSET Calls] BY <1>0 DEF TypeOK
    <3> HIDE DEF old, new
    <3> QED BY <3>1, <3>2, <3>3
  <2> QED BY <1>0, <1>2, <2>2, <2>3, <2>4, <2>5, <2>6 DEF TypeInv, TypeOK
<1>7. CASE RedeemTimesOut(q)
  <2>1. /\ pending' \subseteq Calls /\ rows' \in [Calls -> Statuses]
        /\ answer' \in [Calls -> Answers] /\ via' \in [Calls -> Wires \cup {None}]
        /\ rpc' \in [Calls -> {"idle", "lookup", "agent", "forward", "wait", "done"}]
        /\ timer' \in [Calls -> Nat]
    <3>1. Settle({q}, "timeout", "HOST_TIMEOUT") BY <1>7 DEF RedeemTimesOut
    <3>2. "timeout" \in Statuses /\ "HOST_TIMEOUT" \in Answers BY DEF Statuses, Answers
    <3> QED BY <1>0, <3>1, <3>2, SettleType
  <2>2. UNCHANGED <<now, record, nonces, grants, attempts, serving, links, rat,
                    sentAt, agents, accepted>>
    BY <1>7 DEF RedeemTimesOut
  <2> QED BY <1>0, <1>2, <2>1, <2>2 DEF TypeInv, TypeOK, links
<1> QED BY <1>3, <1>4, <1>5, <1>6, <1>7 DEF Redeem

\* A handler of a signed call begins or ends.
LEMMA SignedTypeInv ==
  ASSUME TypeInv, NEW w \in Wires,
         (\E m \in Messages : SignedBegin(w, m)) \/ Register(w) \/ Rendezvous(w)
  PROVE  TypeInv'
<1>0. TypeOK /\ SocketInv BY DEF TypeInv
<1>1. ASSUME NEW m \in Messages, SignedBegin(w, m) PROVE TypeInv'
  <2>1. UNCHANGED <<now, tables, sockets, toHost, toService, redeems, agents, accepted>>
    BY <1>1 DEF SignedBegin
  <2>2. /\ serving[w] = None /\ sock[w] \in {"none", "closed"}
        /\ serving' = [serving EXCEPT ![w] = [msg |-> m, at |-> now]]
        /\ sock' = [sock EXCEPT ![w] = "none"]
    BY <1>1 DEF SignedBegin, Free
  <2>3. TypeOK' BY <1>0, <2>1, <2>2 DEF TypeOK, tables, redeems
  <2>4. \A i \in DOMAIN sockets : sockets[i] \in Wires
    BY <1>0, LenProperties DEF TypeOK
  <2>5. SocketInv' BY <1>0, <2>1, <2>2, <2>4 DEF TypeOK, SocketInv
  <2> QED BY <2>3, <2>5 DEF TypeInv
<1>2. ASSUME serving[w] # None, SeenNonce(w)
      PROVE  /\ nonces' \in [Nonces -> Nat \cup {Unseen}]
             /\ accepted' \in [Messages -> Nat]
             /\ serving' = [serving EXCEPT ![w] = None]
             /\ serving' \in [Wires -> [msg : Messages, at : Nat] \cup {None}]
             /\ sock[w] = "none"
  <2>1. serving[w].msg \in Messages /\ serving[w].at \in Nat
        /\ serving[w].msg.nonce \in Nonces
    BY <1>0, <1>2, ConstantTypes DEF TypeOK
  <2>2. KeptNonces(serving[w].at - NonceRetention) \in [Nonces -> Nat \cup {Unseen}]
    BY <1>0 DEF TypeOK, KeptNonces
  <2> QED BY <1>0, <1>2, <2>1, <2>2 DEF SeenNonce, TypeOK, SocketInv
<1>3. CASE Register(w)
  <2>1. UNCHANGED <<now, grants, attempts, rows, links, redeems, agents>>
        /\ serving[w] # None /\ SeenNonce(w)
        /\ record' = IF Accepts(w) THEN serving[w].msg ELSE record
    BY <1>3 DEF Register
  <2>2. serving[w].msg \in Messages BY <1>0, <2>1 DEF TypeOK
  <2>3. TypeOK' BY <1>0, <1>2, <2>1, <2>2 DEF TypeOK, links, redeems
  <2>4. SocketInv' BY <1>0, <1>2, <2>1 DEF TypeOK, SocketInv, links
  <2> QED BY <2>3, <2>4 DEF TypeInv
<1>4. CASE Rendezvous(w)
  <2>1. UNCHANGED <<now, record, grants, attempts, rows, toHost, toService, redeems, agents>>
        /\ serving[w] # None /\ SeenNonce(w)
    BY <1>4 DEF Rendezvous
  <2>2. CASE ~Accepts(w)
    <3>1. UNCHANGED <<sock, sockets>> BY <1>4, <2>2 DEF Rendezvous
    <3>2. TypeOK' BY <1>0, <1>2, <2>1, <3>1 DEF TypeOK, redeems
    <3>3. SocketInv' BY <1>0, <1>2, <2>1, <3>1 DEF TypeOK, SocketInv
    <3> QED BY <3>2, <3>3 DEF TypeInv
  <2>3. CASE Accepts(w)
    <3>1. /\ sock' = [v \in Wires |-> IF v = w THEN "open" ELSE Superseded(sock[v])]
          /\ sockets' = Append(sockets, w)
      BY <1>4, <2>3 DEF Rendezvous
    <3>2. /\ sockets \in Seq(Wires) /\ Len(sockets) \in Nat
          /\ DOMAIN sockets = 1..Len(sockets)
          /\ \A i \in 1..Len(sockets) : sockets[i] \in Wires /\ sockets[i] # w
      <4>1. sock[w] = "none" BY <1>2, <2>1
      <4>2. /\ sockets \in Seq(Wires) /\ Len(sockets) \in Nat
            /\ DOMAIN sockets = 1..Len(sockets)
            /\ \A i \in 1..Len(sockets) : sockets[i] \in Wires
        BY <1>0, LenProperties DEF TypeOK
      <4> QED BY <1>0, <4>1, <4>2 DEF SocketInv
    <3>3. /\ sockets' \in Seq(Wires) /\ Len(sockets') = Len(sockets) + 1
          /\ \A i \in 1..Len(sockets) : sockets'[i] = sockets[i]
          /\ sockets'[Len(sockets) + 1] = w
      BY <3>1, <3>2, AppendProperties
    <3>4. DOMAIN sockets' = 1..(Len(sockets) + 1) BY <3>3, LenProperties
    <3>5. sock' \in [Wires -> {"none", "open", "closing", "closed"}]
      BY <1>0, <3>1 DEF TypeOK, Superseded
    <3>6. TypeOK' BY <1>0, <1>2, <2>1, <3>3, <3>5 DEF TypeOK, redeems
    <3>7. ASSUME NEW i \in DOMAIN sockets' PROVE sock'[sockets'[i]] \in {"open", "closing"}
      BY <1>0, <3>1, <3>2, <3>3, <3>4 DEF SocketInv, Superseded
    <3>8. ASSUME NEW i \in DOMAIN sockets', NEW j \in DOMAIN sockets',
                 sockets'[i] = sockets'[j]
          PROVE  i = j
      BY <1>0, <3>2, <3>3, <3>4, <3>8 DEF SocketInv
    <3>9. ASSUME NEW v \in Wires PROVE /\ serving'[v] # None => sock'[v] = "none"
                                       /\ sock'[v] = "open" => v = w
      BY <1>0, <1>2, <2>1, <3>1 DEF TypeOK, SocketInv, Superseded
    <3>10. SocketInv' BY <3>2, <3>3, <3>7, <3>8, <3>9 DEF SocketInv
    <3> QED BY <3>6, <3>10 DEF TypeInv
  <2> QED BY <2>2, <2>3
<1> QED BY <1>1, <1>3, <1>4

\* A socket speaks or closes.
LEMMA SocketTypeInv ==
  ASSUME TypeInv, NEW w \in Wires,
         (\E f \in toService[w] : WebSocketMessage(w, f)) \/ WebSocketClose(w)
         \/ (\E f \in Frame : HostSends(w, f))
  PROVE  TypeInv'
<1>0. TypeOK /\ SocketInv BY DEF TypeInv
<1>1. ASSUME NEW f \in toService[w], WebSocketMessage(w, f) PROVE TypeInv'
  <2>1. f.id \in Calls /\ f.verdict \in Verdicts BY <1>0 DEF TypeOK, Frame
  <2>2. /\ UNCHANGED <<now, record, nonces, grants, attempts, serving, sockets, sock,
                       toHost, rat, sentAt, agents, accepted>>
        /\ toService' = [toService EXCEPT ![w] = @ \ {f}]
    BY <1>1 DEF WebSocketMessage
  <2>3. /\ pending' \subseteq Calls /\ rows' \in [Calls -> Statuses]
        /\ answer' \in [Calls -> Answers] /\ via' \in [Calls -> Wires \cup {None}]
        /\ rpc' \in [Calls -> {"idle", "lookup", "agent", "forward", "wait", "done"}]
        /\ timer' \in [Calls -> Nat]
    <3>1. CASE f.id \in pending
      <4>1. Settle({f.id}, Audit(f.verdict), Relayed(f.verdict))
        BY <1>1, <3>1 DEF WebSocketMessage
      <4> QED BY <1>0, <2>1, <4>1, SettleType, VerdictType
    <3>2. CASE f.id \notin pending
      <4>1. /\ rows' = [rows EXCEPT ![f.id] = LateStatus(@)]
            /\ UNCHANGED <<pending, answer, rpc, via, timer>>
        BY <1>1, <3>2 DEF WebSocketMessage
      <4> QED BY <1>0, <2>1, <4>1 DEF TypeOK, LateStatus, Statuses
    <3> QED BY <3>1, <3>2
  <2>4. TypeOK' BY <1>0, <2>2, <2>3 DEF TypeOK
  <2>5. SocketInv' BY <1>0, <2>2, SocketFrame DEF wires
  <2> QED BY <2>4, <2>5 DEF TypeInv
<1>2. CASE WebSocketClose(w)
  <2>1. /\ UNCHANGED <<now, record, nonces, grants, attempts, serving, rat, sentAt,
                       agents, accepted>>
        /\ sock[w] \in {"open", "closing"} /\ sock' = [sock EXCEPT ![w] = "closed"]
        /\ toHost' = [toHost EXCEPT ![w] = {}]
        /\ toService' = [toService EXCEPT ![w] = {}]
    BY <1>2 DEF WebSocketClose
  <2>2. PICK n \in DOMAIN sockets : sockets[n] = w /\ sockets' = RemoveAt(sockets, n)
    BY <1>2 DEF WebSocketClose
  <2>3. sockets \in Seq(Wires) /\ Len(sockets) \in Nat /\ DOMAIN sockets = 1..Len(sockets)
    BY <1>0, LenProperties DEF TypeOK
  <2>4. /\ sockets' \in Seq(Wires) /\ Len(sockets') = Len(sockets) - 1
        /\ \A k \in 1..(Len(sockets) - 1) :
             sockets'[k] = IF k < n THEN sockets[k] ELSE sockets[k + 1]
    BY <2>2, <2>3, RemoveAtFacts
  <2>5. DOMAIN sockets' = 1..(Len(sockets) - 1) BY <2>4, LenProperties
  <2>6. /\ pending' \subseteq Calls /\ rows' \in [Calls -> Statuses]
        /\ answer' \in [Calls -> Answers] /\ via' \in [Calls -> Wires \cup {None}]
        /\ rpc' \in [Calls -> {"idle", "lookup", "agent", "forward", "wait", "done"}]
        /\ timer' \in [Calls -> Nat]
    <3>1. Settle(Stranded(w), "dropped", "DROPPED") BY <1>2 DEF WebSocketClose
    <3>2. "dropped" \in Statuses /\ "DROPPED" \in Answers BY DEF Statuses, Answers
    <3> QED BY <1>0, <3>1, <3>2, SettleType
  <2>7. TypeOK' BY <1>0, <2>1, <2>4, <2>6 DEF TypeOK
  <2>8. ASSUME NEW k \in 1..(Len(sockets) - 1)
        PROVE  /\ sockets'[k] \in Wires /\ sockets'[k] # w
               /\ sock'[sockets'[k]] \in {"open", "closing"}
    <3>1. PICK i \in DOMAIN sockets : i # n /\ sockets'[k] = sockets[i]
      BY <2>2, <2>3, <2>4
    <3>2. sockets[i] # w /\ sockets[i] \in Wires
      BY <1>0, <2>2, <2>3, <3>1 DEF SocketInv
    <3> QED BY <1>0, <2>1, <3>1, <3>2 DEF SocketInv, TypeOK
  <2>9. ASSUME NEW j \in 1..(Len(sockets) - 1), NEW k \in 1..(Len(sockets) - 1),
               sockets'[j] = sockets'[k]
        PROVE  j = k
    <3>1. /\ j \in DOMAIN sockets /\ k \in DOMAIN sockets
          /\ j + 1 \in DOMAIN sockets /\ k + 1 \in DOMAIN sockets
      BY <2>3
    <3>2. \A x, y \in DOMAIN sockets : sockets[x] = sockets[y] => x = y
      BY <1>0 DEF SocketInv
    <3>3. n \in Nat /\ j \in Nat /\ k \in Nat BY <2>2, <2>3
    <3> QED BY <2>4, <2>9, <3>1, <3>2, <3>3
  <2>10. ASSUME NEW v \in Wires, sock'[v] = "open"
         PROVE  Len(sockets') > 0 /\ sockets'[Len(sockets')] = v
    <3>1. v # w /\ sock[v] = "open" BY <1>0, <2>1, <2>10 DEF TypeOK
    <3>2. Len(sockets) > 0 /\ sockets[Len(sockets)] = v BY <1>0, <3>1 DEF SocketInv
    <3>3. n # Len(sockets) BY <2>2, <3>1, <3>2
    <3>4. Len(sockets) - 1 \in 1..(Len(sockets) - 1) /\ n <= Len(sockets) - 1
      BY <2>2, <2>3, <3>2, <3>3
    <3>5. sockets'[Len(sockets) - 1] = sockets[Len(sockets)]
      BY <2>2, <2>3, <2>4, <3>4
    <3> QED BY <2>3, <2>4, <3>2, <3>4, <3>5
  <2>11. \A v \in Wires : serving'[v] # None => sock'[v] = "none"
    BY <1>0, <2>1 DEF TypeOK, SocketInv
  <2>12. SocketInv' BY <2>5, <2>8, <2>9, <2>10, <2>11 DEF SocketInv
  <2> QED BY <2>7, <2>12 DEF TypeInv
<1>3. ASSUME NEW f \in Frame, HostSends(w, f) PROVE TypeInv'
  <2>1. /\ UNCHANGED <<now, tables, serving, sockets, sock, toHost, redeems, agents, accepted>>
        /\ toService' = [toService EXCEPT ![w] = @ \cup {f}]
    BY <1>3 DEF HostSends
  <2>2. TypeOK' BY <1>0, <2>1 DEF TypeOK, tables, redeems
  <2>3. SocketInv' BY <1>0, <2>1, SocketFrame DEF wires
  <2> QED BY <2>2, <2>3 DEF TypeInv
<1> QED BY <1>1, <1>2, <1>3

\* Housekeeping, restarts, time and the environment.
LEMMA OtherTypeInv ==
  ASSUME TypeInv,
         \/ Alarm \/ Restart \/ Tick \/ UNCHANGED vars
         \/ \E g \in GrantIds : PublishGrant(g)
         \/ \E a \in Agents : AgentRegisters(a)
  PROVE  TypeInv'
<1>0. TypeOK /\ SocketInv BY DEF TypeInv
<1>1. CASE Alarm
  <2>1. UNCHANGED <<now, record, serving, links, redeems, agents, accepted>>
    BY <1>1 DEF Alarm
  <2>2. /\ grants' \subseteq GrantIds /\ rows' \in [Calls -> Statuses]
        /\ nonces' \in [Nonces -> Nat \cup {Unseen}] /\ attempts' \subseteq Calls
    BY <1>0, <1>1 DEF Alarm, TypeOK, Statuses, KeptNonces, Recent
  <2>3. TypeOK' BY <1>0, <2>1, <2>2 DEF TypeOK, links, redeems
  <2>4. SocketInv' BY <1>0, <2>1, SocketFrame DEF links, wires
  <2> QED BY <2>3, <2>4 DEF TypeInv
<1>2. CASE Restart
  <2>1. TypeOK'
    <3>1. UNCHANGED <<now, tables, rat, sentAt, agents, accepted>> BY <1>2 DEF Restart
    <3>2. /\ rpc' \in [Calls -> {"idle", "lookup", "agent", "forward", "wait", "done"}]
          /\ answer' \in [Calls -> Answers] /\ via' \in [Calls -> Wires \cup {None}]
          /\ pending' = {} /\ timer' \in [Calls -> Nat]
      BY <1>0, <1>2 DEF Restart, TypeOK, Answers
    <3>3. /\ serving' \in [Wires -> [msg : Messages, at : Nat] \cup {None}]
          /\ sock' \in [Wires -> {"none", "open", "closing", "closed"}]
          /\ toHost' \in [Wires -> SUBSET Calls] /\ toService' \in [Wires -> SUBSET Frame]
      BY <1>0, <1>2 DEF Restart, TypeOK
    <3>4. sockets' \in Seq(Wires) BY <1>2, EmptySeq DEF Restart
    <3> QED BY <1>0, <3>1, <3>2, <3>3, <3>4 DEF TypeOK, tables
  <2>2. SocketInv'
    <3>1. DOMAIN sockets' = {} BY <1>2 DEF Restart
    <3>2. \A w \in Wires : serving'[w] = None /\ sock'[w] # "open"
      BY <1>0, <1>2 DEF Restart, TypeOK
    <3> QED BY <3>1, <3>2 DEF SocketInv
  <2> QED BY <2>1, <2>2 DEF TypeInv
<1>3. CASE Tick
  <2>1. UNCHANGED <<tables, serving, links, rpc, rat, via, pending, answer, sentAt,
                    agents, accepted>>
    BY <1>3 DEF Tick
  <2>2. now' \in Nat /\ timer' \in [Calls -> Nat]
    BY <1>0, <1>3, NumbersAssumption DEF Tick, TypeOK
  <2>3. TypeOK' BY <1>0, <2>1, <2>2 DEF TypeOK, tables, links
  <2>4. SocketInv' BY <1>0, <2>1, SocketFrame DEF links, wires
  <2> QED BY <2>3, <2>4 DEF TypeInv
<1>4. ASSUME NEW g \in GrantIds, PublishGrant(g) PROVE TypeInv'
  <2>1. TypeOK' BY <1>0, <1>4 DEF PublishGrant, TypeOK, links, redeems
  <2>2. SocketInv' BY <1>0, <1>4, SocketFrame DEF PublishGrant, links, wires
  <2> QED BY <2>1, <2>2 DEF TypeInv
<1>5. ASSUME NEW a \in Agents, AgentRegisters(a) PROVE TypeInv'
  <2>1. TypeOK' BY <1>0, <1>5 DEF AgentRegisters, TypeOK, tables, links, redeems
  <2>2. SocketInv' BY <1>0, <1>5, SocketFrame DEF AgentRegisters, links, wires
  <2> QED BY <2>1, <2>2 DEF TypeInv
<1>6. CASE UNCHANGED vars
  BY <1>0, <1>6 DEF TypeInv, TypeOK, SocketInv, vars
<1> QED BY <1>1, <1>2, <1>3, <1>4, <1>5, <1>6

\* Every step keeps the types and the socket list.
LEMMA StepTypeInv == TypeInv /\ [Next]_vars => TypeInv'
BY RedeemTypeInv, SignedTypeInv, SocketTypeInv, OtherTypeInv, Zenon
   DEF Next, ObjectStep, HostStep

\* The types hold, and at most the newest socket is open, always.
THEOREM HostDOTypeCorrect == Spec => []TypeInv
<1>1. ASSUME Init PROVE TypeInv
  <2>1. TypeOK BY <1>1, EmptySeq DEF Init, TypeOK, Statuses, Answers
  <2>2. DOMAIN sockets = {} /\ \A w \in Wires : serving[w] = None /\ sock[w] = "none"
    <3>1. sockets = <<>> /\ <<>> \in Seq(Wires) /\ Len(<<>>) = 0 BY <1>1, EmptySeq DEF Init
    <3>2. DOMAIN sockets = 1..0 BY <3>1, LenProperties
    <3>3. DOMAIN sockets = {} BY <3>2
    <3>4. \A w \in Wires : serving[w] = None /\ sock[w] = "none"
      <4>1. serving = [w \in Wires |-> None] /\ sock = [w \in Wires |-> "none"]
        BY <1>1 DEF Init
      <4> QED BY <4>1
    <3> QED BY <3>3, <3>4
  <2>3. SocketInv BY <2>2 DEF SocketInv
  <2> QED BY <2>1, <2>3 DEF TypeInv
<1> QED BY <1>1, StepTypeInv, PTL DEF Spec

--------------------------------------------------------------------------------
(* One machine, one connection.                                            *)

\* A redemption's frame goes to the newest connection of the host or to none:
\* a socket that a reconnect has replaced while the handler was waiting for the
\* key's fingerprint refuses the frame.
THEOREM OnlyNewestCarriesHolds == Spec => OnlyNewestCarries
<1> DEFINE A == \A w \in Wires : toHost'[w] \ toHost[w] # {} => sockets[Len(sockets)] = w
<1>1. ASSUME TypeInv, Next PROVE A
  <2>0. toHost \in [Wires -> SUBSET Calls] BY <1>1 DEF TypeInv, TypeOK
  <2>1. ASSUME NEW q \in Calls, RedeemForward(q) PROVE A
    <3> DEFINE new == IF sock[via[q]] = "open" THEN toHost[via[q]] \cup {q} ELSE toHost[via[q]]
    <3>1. UNCHANGED toHost \/ toHost' = [toHost EXCEPT ![via[q]] = new]
      BY <2>1 DEF RedeemForward
    <3>2. ASSUME NEW w \in Wires, toHost'[w] \ toHost[w] # {}
          PROVE  sock[w] = "open"
      BY <2>0, <3>1, <3>2
    <3> QED BY <1>1, <3>2 DEF TypeInv, SocketInv
  <2>2. ASSUME UNCHANGED toHost PROVE A
    BY <2>2
  <2>3. ASSUME NEW w \in Wires, WebSocketClose(w) PROVE A
    BY <2>0, <2>3 DEF WebSocketClose
  <2>4. CASE Restart
    BY <2>0, <2>4 DEF Restart
  <2>5. ASSUME NEW q \in Calls,
               RedeemBegin(q) \/ RedeemLookup(q) \/ RedeemAgent(q) \/ RedeemTimesOut(q)
        PROVE  UNCHANGED toHost
    BY <2>5 DEF RedeemBegin, RedeemLookup, RedeemAgent, RedeemTimesOut, links
  <2>6. ASSUME NEW w \in Wires, \/ Register(w) \/ Rendezvous(w)
                                \/ \E f \in toService[w] : WebSocketMessage(w, f)
                                \/ \E f \in Frame : HostSends(w, f)
                                \/ \E m \in Messages : SignedBegin(w, m)
        PROVE  UNCHANGED toHost
    BY <2>6 DEF Register, Rendezvous, WebSocketMessage, HostSends, SignedBegin, links
  <2>7. CASE Alarm \/ Tick \/ (\E g \in GrantIds : PublishGrant(g))
             \/ \E a \in Agents : AgentRegisters(a)
    <3>1. UNCHANGED toHost BY <2>7 DEF Alarm, Tick, PublishGrant, AgentRegisters, links
    <3> QED BY <2>2, <3>1
  <2> HIDE DEF A
  <2> QED BY <1>1, <2>1, <2>2, <2>3, <2>4, <2>5, <2>6, <2>7, Zenon
          DEF Next, ObjectStep, HostStep, Redeem
<1>2. TypeInv /\ [Next]_vars => [A]_vars BY <1>1
<1> QED BY <1>2, HostDOTypeCorrect, PTL DEF Spec, OnlyNewestCarries

--------------------------------------------------------------------------------
(* The audit trail agrees with the answers.                                *)

\* A call that has not been forwarded has no row, no answer and was not sent; a
\* pending one was sent and has no answer, and its row says so unless the alarm
\* deleted it.
CallStages ==
  \A q \in Calls :
    /\ rpc[q] \in {"idle", "lookup", "agent", "forward"} =>
         rows[q] = "none" /\ answer[q] = "" /\ sentAt[q] = None
    /\ q \in pending => /\ rpc[q] = "wait" /\ answer[q] = "" /\ sentAt[q] # None
                        /\ rows[q] \in {"pending", "purged"}

AuditInv == CallStages /\ AuditMatchesAnswer

\* The variables AuditInv is about.
audited == <<rows, rpc, pending, answer, sentAt>>

\* A step that touches none of them.
LEMMA AuditFrame ==
  ASSUME AuditInv, UNCHANGED audited
  PROVE  AuditInv'
BY DEF AuditInv, CallStages, AuditMatchesAnswer, audited

\* A call that is refused before it is forwarded.
LEMMA AnswerAudit ==
  ASSUME TypeOK, AuditInv, NEW q \in Calls, NEW code,
         rpc[q] \in {"idle", "lookup", "agent", "forward"},
         code \notin {"OK", "REJECTED", "HOST_TIMEOUT", "DROPPED"},
         Answer(q, code), UNCHANGED <<rows, pending, sentAt>>
  PROVE  AuditInv'
BY DEF TypeOK, AuditInv, CallStages, AuditMatchesAnswer, Answer

\* A call that goes on before it is forwarded.
LEMMA ProceedAudit ==
  ASSUME TypeOK, AuditInv, NEW q \in Calls, NEW s \in {"lookup", "agent", "forward"},
         rpc[q] \in {"idle", "lookup", "agent"},
         rpc' = [rpc EXCEPT ![q] = s], UNCHANGED <<rows, pending, answer, sentAt>>
  PROVE  AuditInv'
BY DEF TypeOK, AuditInv, CallStages, AuditMatchesAnswer

\* The status a row may get with an answer.
Agree(status, code) ==
  \/ status = "issued" /\ code = "OK"
  \/ status = "rejected" /\ code = "REJECTED"
  \/ status = "malformed" /\ code = "INTERNAL"
  \/ status = "timeout" /\ code = "HOST_TIMEOUT"
  \/ status = "dropped" /\ code = "DROPPED"

\* settle answers pending calls only, once, and with the row's word.
LEMMA SettleAudit ==
  ASSUME TypeOK, AuditInv, NEW Q \in SUBSET pending, NEW status, NEW code,
         Agree(status, code), Settle(Q, status, code), UNCHANGED sentAt
  PROVE  AuditInv'
<1>1. ASSUME NEW q \in Calls
      PROVE  /\ q \in Q => /\ q \notin pending' /\ rpc'[q] = "done" /\ answer'[q] = code
                           /\ rows'[q] = status \/ rows'[q] = "purged"
             /\ q \notin Q => /\ q \in pending' <=> q \in pending
                              /\ rpc'[q] = rpc[q] /\ answer'[q] = answer[q]
                              /\ rows'[q] = rows[q]
  BY DEF Settle
<1>2. CallStages' BY <1>1 DEF AuditInv, CallStages
<1>3. \A q \in Q : sentAt[q] # None BY DEF AuditInv, CallStages, TypeOK
<1>4. AuditMatchesAnswer' BY <1>1, <1>3 DEF AuditInv, AuditMatchesAnswer, Agree
<1> QED BY <1>2, <1>4 DEF AuditInv

\* Every step keeps the audit trail.
LEMMA AuditStep == TypeInv /\ AuditInv /\ [Next]_vars => AuditInv'
<1> SUFFICES ASSUME TypeInv, AuditInv, [Next]_vars PROVE AuditInv'
  OBVIOUS
<1>0. TypeOK BY DEF TypeInv
<1>1. ASSUME NEW q \in Calls, RedeemBegin(q) \/ RedeemLookup(q) \/ RedeemAgent(q)
      PROVE  AuditInv'
  <2>1. rpc[q] \in {"idle", "lookup", "agent"} /\ UNCHANGED <<rows, pending, sentAt>>
    BY <1>1 DEF RedeemBegin, RedeemLookup, RedeemAgent, tables
  <2>2. \/ \E code \in {"HOST_NOT_FOUND", "BAD_REQUEST", "STALE_TIMESTAMP", "BAD_SIGNATURE",
                        "GRANT_NOT_FOUND", "GRANT_EXPIRED", "AGENT_NOT_FOUND",
                        "INTERNAL", "HOST_OFFLINE"} : Answer(q, code)
        \/ /\ \E s \in {"lookup", "agent", "forward"} : rpc' = [rpc EXCEPT ![q] = s]
           /\ UNCHANGED answer
    BY <1>1 DEF RedeemBegin, RedeemLookup, RedeemAgent, Proceed
  <2> QED BY <1>0, <2>1, <2>2, AnswerAudit, ProceedAudit
<1>2. ASSUME NEW q \in Calls, RedeemForward(q) PROVE AuditInv'
  <2>1. rpc[q] = "forward" BY <1>2 DEF RedeemForward
  <2>2. CASE Answer(q, "RATE_LIMITED") /\ UNCHANGED <<rows, pending, sentAt>>
    BY <1>0, <2>1, <2>2, AnswerAudit
  <2>3. CASE /\ rows' = [rows EXCEPT ![q] = "pending"] /\ pending' = pending \cup {q}
             /\ rpc' = [rpc EXCEPT ![q] = "wait"] /\ UNCHANGED answer
             /\ sentAt' = [sentAt EXCEPT ![q] = now]
    BY <1>0, <2>1, <2>3, InputsAssumption
    DEF TypeOK, AuditInv, CallStages, AuditMatchesAnswer
  <2>4. CASE /\ rows' = [rows EXCEPT ![q] = "dropped"] /\ Answer(q, "DROPPED")
             /\ UNCHANGED <<pending, sentAt>>
    BY <1>0, <2>1, <2>4 DEF TypeOK, AuditInv, CallStages, AuditMatchesAnswer, Answer
  <2> QED BY <1>2, <2>2, <2>3, <2>4 DEF RedeemForward, Proceed
<1>3. ASSUME NEW q \in Calls, RedeemTimesOut(q) PROVE AuditInv'
  <2>1. {q} \in SUBSET pending /\ Settle({q}, "timeout", "HOST_TIMEOUT") /\ UNCHANGED sentAt
    BY <1>3 DEF RedeemTimesOut
  <2>2. Agree("timeout", "HOST_TIMEOUT") BY DEF Agree
  <2> QED BY <1>0, <2>1, <2>2, SettleAudit
<1>4. ASSUME NEW w \in Wires, WebSocketClose(w) PROVE AuditInv'
  <2>1. /\ Stranded(w) \in SUBSET pending /\ Settle(Stranded(w), "dropped", "DROPPED")
        /\ UNCHANGED sentAt
    BY <1>4 DEF WebSocketClose, Stranded
  <2>2. Agree("dropped", "DROPPED") BY DEF Agree
  <2> QED BY <1>0, <2>1, <2>2, SettleAudit
<1>5. ASSUME NEW w \in Wires, NEW f \in toService[w], WebSocketMessage(w, f)
      PROVE  AuditInv'
  <2>1. f.id \in Calls /\ f.verdict \in {"ok", "error", "bad"}
    <3>1. f \in Frame BY <1>0 DEF TypeOK
    <3>2. Verdicts \subseteq {"ok", "error", "bad"} BY InputsAssumption
    <3> QED BY <3>1, <3>2 DEF Frame
  <2>2. CASE f.id \in pending
    <3>1. /\ {f.id} \in SUBSET pending /\ UNCHANGED sentAt
          /\ Settle({f.id}, Audit(f.verdict), Relayed(f.verdict))
      BY <1>5, <2>2 DEF WebSocketMessage
    <3>2. Agree(Audit(f.verdict), Relayed(f.verdict)) BY <2>1 DEF Agree, Audit, Relayed
    <3> QED BY <1>0, <3>1, <3>2, SettleAudit
  <2>3. CASE f.id \notin pending
    <3>1. /\ rows' = [rows EXCEPT ![f.id] = LateStatus(@)]
          /\ UNCHANGED <<rpc, pending, answer, sentAt>>
      BY <1>5, <2>3 DEF WebSocketMessage
    <3>2. \A q \in Calls : \/ rows'[q] = rows[q]
                           \/ rows[q] = "timeout" /\ rows'[q] = "late"
      BY <1>0, <3>1 DEF TypeOK, LateStatus
    <3> QED BY <3>1, <3>2 DEF AuditInv, CallStages, AuditMatchesAnswer
  <2> QED BY <2>2, <2>3
<1>6. CASE Alarm
  <2>1. UNCHANGED <<rpc, pending, answer, sentAt>> BY <1>6 DEF Alarm, redeems
  <2>2. \A q \in Calls : rows'[q] = rows[q] \/ (rows[q] # "none" /\ rows'[q] = "purged")
    BY <1>6 DEF Alarm
  <2>3. CallStages' BY <2>1, <2>2 DEF AuditInv, CallStages
  <2>5. AuditMatchesAnswer' BY <2>1, <2>2 DEF AuditInv, AuditMatchesAnswer
  <2> QED BY <2>3, <2>5 DEF AuditInv
<1>7. CASE Restart
  <2>1. /\ UNCHANGED <<rows, sentAt>> /\ pending' = {}
        /\ rpc' = [q \in Calls |-> IF q \in Busy THEN "done" ELSE rpc[q]]
        /\ answer' = [q \in Calls |-> IF q \in Busy THEN "LOST" ELSE answer[q]]
    BY <1>7 DEF Restart, tables
  <2>2. ASSUME NEW q \in Calls
        PROVE  /\ q \in Busy => rpc'[q] = "done" /\ answer'[q] = "LOST"
               /\ q \notin Busy => rpc'[q] = rpc[q] /\ answer'[q] = answer[q] /\ q \notin pending
    BY <2>1 DEF Busy, AuditInv, CallStages
  <2>3. CallStages' BY <2>1, <2>2 DEF AuditInv, CallStages
  <2>4. AuditMatchesAnswer' BY <2>1, <2>2 DEF AuditInv, AuditMatchesAnswer
  <2> QED BY <2>3, <2>4 DEF AuditInv
<1>8. ASSUME NEW w \in Wires, \/ Register(w) \/ Rendezvous(w)
                              \/ \E f \in Frame : HostSends(w, f)
                              \/ \E m \in Messages : SignedBegin(w, m)
      PROVE  AuditInv'
  <2>1. UNCHANGED audited
    BY <1>8 DEF Register, Rendezvous, HostSends, SignedBegin, audited, redeems, tables
  <2> QED BY <2>1, AuditFrame
<1>9. CASE Tick \/ (\E g \in GrantIds : PublishGrant(g))
           \/ (\E a \in Agents : AgentRegisters(a)) \/ UNCHANGED vars
  <2>1. UNCHANGED audited
    BY <1>9 DEF Tick, PublishGrant, AgentRegisters, vars, audited, redeems, tables
  <2> QED BY <2>1, AuditFrame
<1> QED BY <1>1, <1>2, <1>3, <1>4, <1>5, <1>6, <1>7, <1>8, <1>9, Zenon
        DEF Next, ObjectStep, HostStep, Redeem

\* What the visitor is told and what the redemptions table says agree at all
\* times, for any number of calls and any answers of the host, late, repeated
\* or on a replaced socket.
THEOREM AuditTrailMatchesAnswers == Spec => []AuditMatchesAnswer
<1>1. Init => AuditInv BY DEF Init, AuditInv, CallStages, AuditMatchesAnswer
<1>2. AuditInv => AuditMatchesAnswer BY DEF AuditInv
<1> QED BY <1>1, <1>2, AuditStep, HostDOTypeCorrect, PTL DEF Spec

--------------------------------------------------------------------------------
(* The cap on redemption attempts.                                         *)

\* A handler forwards soon after it has read the clock; a call that was sent
\* has a row in redeem_attempts for as long as any handler can still count it.
AttemptsKept ==
  \A q \in Calls :
    /\ rpc[q] \in {"lookup", "agent", "forward"} =>
         rat[q] <= now /\ now <= rat[q] + MaxStall
    /\ sentAt[q] # None => /\ rpc[q] \notin {"idle", "lookup", "agent", "forward"}
                           /\ rat[q] <= sentAt[q] /\ sentAt[q] <= rat[q] + MaxStall
                           /\ rat[q] >= now - Window => q \in attempts

\* The calls that AttemptsCapped counts.
Counted == {q \in Calls : /\ sentAt[q] # None
                          /\ sentAt[q] >= now - (Window - MaxStall)}

AttemptsInv == AttemptsKept /\ Cardinality(Counted) <= MaxAttempts

\* Fewer calls are counted, and none is forgotten that still counts.
LEMMA AttemptsFrame ==
  ASSUME TypeOK, TypeOK', AttemptsInv, AttemptsKept', Counted' \subseteq Counted
  PROVE  AttemptsInv'
<1>1. IsFiniteSet(Counted) BY InputsAssumption, FS_Subset DEF Counted
<1>2. Cardinality(Counted') <= Cardinality(Counted) BY <1>1, FS_Subset
<1>3. IsFiniteSet(Counted') BY <1>1, FS_Subset
<1>4. /\ Cardinality(Counted) \in Nat /\ Cardinality(Counted') \in Nat
      /\ MaxAttempts \in Nat
  BY <1>1, <1>3, FS_CardinalityType, NumbersAssumption
<1> QED BY <1>2, <1>4 DEF AttemptsInv

\* The variables AttemptsInv is about.
counting == <<now, attempts, rpc, rat, sentAt>>

\* Every step keeps the cap.  When a call is forwarded, the calls still counted
\* are all in the window its handler looks at, although its clock reading is
\* old.
LEMMA AttemptsStep == TypeInv /\ TypeInv' /\ AttemptsInv /\ [Next]_vars => AttemptsInv'
<1> SUFFICES ASSUME TypeInv, TypeInv', AttemptsInv, [Next]_vars PROVE AttemptsInv'
  OBVIOUS
<1>0. /\ TypeOK /\ TypeOK' /\ AttemptsKept
      /\ Window \in Nat /\ MaxStall \in Nat /\ MaxAttempts \in Nat /\ MaxTime \in Nat
      /\ None \notin Nat
  BY NumbersAssumption, InputsAssumption DEF TypeInv, AttemptsInv
<1>1. /\ now \in Nat /\ rat \in [Calls -> Nat] /\ sentAt \in [Calls -> Nat \cup {None}]
      /\ rpc \in [Calls -> {"idle", "lookup", "agent", "forward", "wait", "done"}]
      /\ attempts \subseteq Calls
  BY <1>0 DEF TypeOK
<1>2. ASSUME NEW q \in Calls, RedeemBegin(q) PROVE AttemptsInv'
  <2>1. /\ rpc[q] = "idle" /\ rat' = [rat EXCEPT ![q] = now]
        /\ \E s \in {"lookup", "done"} : rpc' = [rpc EXCEPT ![q] = s]
        /\ UNCHANGED <<now, attempts, sentAt>>
    BY <1>2 DEF RedeemBegin, Answer, Proceed, tables
  <2>2. sentAt[q] = None BY <1>0, <2>1 DEF AttemptsKept
  <2>3. AttemptsKept' BY <1>0, <1>1, <2>1, <2>2 DEF AttemptsKept
  <2>4. Counted' = Counted BY <2>1 DEF Counted
  <2> QED BY <1>0, <2>3, <2>4, AttemptsFrame
<1>3. ASSUME NEW q \in Calls, RedeemLookup(q) \/ RedeemAgent(q) PROVE AttemptsInv'
  <2>1. /\ rpc[q] \in {"lookup", "agent"}
        /\ \E s \in {"agent", "forward", "done"} : rpc' = [rpc EXCEPT ![q] = s]
        /\ UNCHANGED <<now, attempts, sentAt, rat>>
    BY <1>3 DEF RedeemLookup, RedeemAgent, Answer, Proceed, tables
  <2>2. AttemptsKept' BY <1>0, <1>1, <2>1 DEF AttemptsKept
  <2>3. Counted' = Counted BY <2>1 DEF Counted
  <2> QED BY <1>0, <2>2, <2>3, AttemptsFrame
<1>4. ASSUME NEW q \in Calls, RedeemForward(q) PROVE AttemptsInv'
  <2>0. /\ rpc[q] = "forward" /\ UNCHANGED <<now, rat>>
        /\ rat[q] \in Nat /\ rat[q] <= now /\ now <= rat[q] + MaxStall
        /\ sentAt[q] = None
    BY <1>0, <1>1, <1>4 DEF RedeemForward, AttemptsKept
  <2>1. \E s \in {"wait", "done"} : rpc' = [rpc EXCEPT ![q] = s]
    BY <1>4 DEF RedeemForward, Answer, Proceed
  <2>2. Recent(rat[q]) \subseteq attempts'
    BY <1>4 DEF RedeemForward
  <2>3. \A p \in Calls : p \in attempts /\ rat[p] >= now - Window => p \in attempts'
    BY <1>0, <1>1, <2>0, <2>2 DEF Recent
  <2>4. CASE UNCHANGED sentAt
    <3>1. AttemptsKept' BY <1>0, <1>1, <2>0, <2>1, <2>3, <2>4 DEF AttemptsKept
    <3>2. Counted' = Counted BY <2>0, <2>4 DEF Counted
    <3> QED BY <1>0, <3>1, <3>2, AttemptsFrame
  <2>5. CASE sentAt' # sentAt
    <3>1. /\ sentAt' = [sentAt EXCEPT ![q] = now] /\ attempts' = Recent(rat[q]) \cup {q}
          /\ ~(Cardinality(Recent(rat[q])) >= MaxAttempts)
          /\ rpc' = [rpc EXCEPT ![q] = "wait"]
      BY <1>4, <2>5 DEF RedeemForward, Proceed
    <3>2. AttemptsKept' BY <1>0, <1>1, <2>0, <2>3, <3>1 DEF AttemptsKept
    <3>3. Counted' \subseteq Recent(rat[q]) \cup {q}
      <4>1. SUFFICES ASSUME NEW p \in Counted', p # q PROVE p \in Recent(rat[q])
        OBVIOUS
      <4>2. p \in Calls /\ sentAt[p] # None /\ sentAt[p] >= now - (Window - MaxStall)
        BY <1>1, <2>0, <3>1, <4>1 DEF Counted
      <4>3. sentAt[p] \in Nat /\ rat[p] \in Nat BY <1>1, <4>2
      <4>4. sentAt[p] <= rat[p] + MaxStall BY <1>0, <4>2 DEF AttemptsKept
      <4>5. rat[p] >= now - Window BY <1>0, <1>1, <4>2, <4>3, <4>4
      <4>6. p \in attempts BY <1>0, <4>2, <4>5 DEF AttemptsKept
      <4> QED BY <1>0, <1>1, <2>0, <4>3, <4>5, <4>6 DEF Recent
    <3>4. IsFiniteSet(Recent(rat[q]))
      <4>1. Recent(rat[q]) \in SUBSET Calls BY <1>1 DEF Recent
      <4> QED BY <4>1, InputsAssumption, FS_Subset
    <3>5. /\ IsFiniteSet(Recent(rat[q]) \cup {q})
          /\ Cardinality(Recent(rat[q]) \cup {q}) <= Cardinality(Recent(rat[q])) + 1
          /\ Cardinality(Recent(rat[q])) \in Nat
      <4>1. Cardinality(Recent(rat[q])) \in Nat BY <3>4, FS_CardinalityType
      <4>2. /\ IsFiniteSet(Recent(rat[q]) \cup {q})
            /\ Cardinality(Recent(rat[q]) \cup {q}) =
                 IF q \in Recent(rat[q]) THEN Cardinality(Recent(rat[q]))
                                         ELSE Cardinality(Recent(rat[q])) + 1
        BY <3>4, FS_AddElement
      <4> QED BY <4>1, <4>2
    <3>6. /\ Cardinality(Counted') <= Cardinality(Recent(rat[q]) \cup {q})
          /\ IsFiniteSet(Counted')
      BY <3>3, <3>5, FS_Subset
    <3>7. Cardinality(Counted') \in Nat /\ Cardinality(Recent(rat[q]) \cup {q}) \in Nat
      BY <3>5, <3>6, FS_CardinalityType
    <3>8. Cardinality(Counted') <= MaxAttempts BY <1>0, <3>1, <3>5, <3>6, <3>7
    <3> QED BY <3>2, <3>8 DEF AttemptsInv
  <2> QED BY <2>4, <2>5
<1>5. ASSUME NEW Q, NEW status, NEW code, Settle(Q, status, code),
             UNCHANGED <<now, attempts, rat, sentAt>>
      PROVE  AttemptsInv'
  <2>1. \A q \in Calls : rpc'[q] \in {"done", rpc[q]} BY <1>5 DEF Settle
  <2>2. AttemptsKept' BY <1>0, <1>1, <1>5, <2>1 DEF AttemptsKept
  <2>3. Counted' = Counted BY <1>5 DEF Counted
  <2> QED BY <1>0, <2>2, <2>3, AttemptsFrame
<1>6. ASSUME UNCHANGED counting PROVE AttemptsInv'
  BY <1>6 DEF counting, AttemptsInv, AttemptsKept, Counted
<1>7. ASSUME NEW w \in Wires, WebSocketClose(w) PROVE AttemptsInv'
  BY <1>5, <1>7 DEF WebSocketClose
<1>8. ASSUME NEW q \in Calls, RedeemTimesOut(q) PROVE AttemptsInv'
  BY <1>5, <1>8 DEF RedeemTimesOut
<1>9. ASSUME NEW w \in Wires, NEW f \in toService[w], WebSocketMessage(w, f)
      PROVE  AttemptsInv'
  <2>1. UNCHANGED <<now, attempts, rat, sentAt>> BY <1>9 DEF WebSocketMessage
  <2>2. \/ Settle({f.id}, Audit(f.verdict), Relayed(f.verdict))
        \/ UNCHANGED rpc
    BY <1>9 DEF WebSocketMessage
  <2> QED BY <1>5, <1>6, <2>1, <2>2 DEF counting
<1>10. CASE Alarm
  <2>1. attempts' = Recent(now) /\ UNCHANGED <<now, rpc, rat, sentAt>>
    BY <1>10 DEF Alarm, redeems
  <2>2. AttemptsKept' BY <1>0, <1>1, <2>1 DEF AttemptsKept, Recent
  <2>3. Counted' = Counted BY <2>1 DEF Counted
  <2> QED BY <1>0, <2>2, <2>3, AttemptsFrame
<1>11. CASE Restart
  <2>1. UNCHANGED <<now, attempts, rat, sentAt>> /\ \A q \in Calls : rpc'[q] \in {"done", rpc[q]}
    BY <1>11 DEF Restart, tables
  <2>2. AttemptsKept' BY <1>0, <1>1, <2>1 DEF AttemptsKept
  <2>3. Counted' = Counted BY <2>1 DEF Counted
  <2> QED BY <1>0, <2>2, <2>3, AttemptsFrame
<1>12. CASE Tick
  <2>1. UNCHANGED <<attempts, rpc, rat, sentAt>> BY <1>12 DEF Tick, tables
  <2>2. now' \in Nat /\ now <= now' /\ now' <= now + 1
    BY <1>0, <1>1, <1>12 DEF Tick
  <2>3. \A q \in Calls : rpc[q] \in {"lookup", "agent", "forward"} => now < rat[q] + MaxStall
    BY <1>12 DEF Tick, Prompt
  <2>4. AttemptsKept' BY <1>0, <1>1, <2>1, <2>2, <2>3 DEF AttemptsKept
  <2>5. Counted' \subseteq Counted BY <1>0, <1>1, <2>1, <2>2 DEF Counted
  <2> QED BY <1>0, <2>4, <2>5, AttemptsFrame
<1>13. ASSUME NEW w \in Wires, \/ Register(w) \/ Rendezvous(w)
                               \/ \E f \in Frame : HostSends(w, f)
                               \/ \E m \in Messages : SignedBegin(w, m)
       PROVE  UNCHANGED counting
  BY <1>13 DEF Register, Rendezvous, HostSends, SignedBegin, counting, redeems, tables
<1>14. CASE (\E g \in GrantIds : PublishGrant(g)) \/ (\E a \in Agents : AgentRegisters(a))
            \/ UNCHANGED vars
  <2>1. UNCHANGED counting
    BY <1>14 DEF PublishGrant, AgentRegisters, vars, counting, redeems, tables
  <2> QED BY <1>6, <2>1
<1> QED BY <1>2, <1>3, <1>4, <1>6, <1>7, <1>8, <1>9, <1>10, <1>11, <1>12, <1>13, <1>14, Zenon
        DEF Next, ObjectStep, HostStep, Redeem

\* The host is sent at most MaxAttempts redemptions in any stretch of the window
\* less the longest stall (recordRedeemAttempt), for any number of calls,
\* although each is counted at the clock reading its handler took before its
\* awaits, and handlers prune with old readings.
THEOREM RedeemAttemptsCapped == Spec => []AttemptsCapped
<1>1. ASSUME Init PROVE AttemptsInv
  <2>1. AttemptsKept BY <1>1 DEF Init, AttemptsKept
  <2>2. Counted = {} BY <1>1 DEF Init, Counted
  <2> QED BY <2>1, <2>2, FS_EmptySet, NumbersAssumption DEF AttemptsInv
<1>2. AttemptsInv => AttemptsCapped BY DEF AttemptsInv, AttemptsCapped, Counted
<1> QED BY <1>1, <1>2, AttemptsStep, HostDOTypeCorrect, PTL DEF Spec

--------------------------------------------------------------------------------
(* Only registered agents reach the host.                                  *)

\* A call that is about to be forwarded, or was, is of an agent AgentDO knows.
AgentsKnown ==
  \A q \in Calls : rpc[q] = "forward" \/ sentAt[q] # None => EnvelopeOf[q].agent \in agents

\* The answer of AgentDO stays true, since an agent is never forgotten.
LEMMA AgentsKnownStep == TypeInv /\ AgentsKnown /\ [Next]_vars => AgentsKnown'
<1> SUFFICES ASSUME TypeInv, AgentsKnown, [Next]_vars PROVE AgentsKnown'
  OBVIOUS
<1>0. /\ rpc \in [Calls -> {"idle", "lookup", "agent", "forward", "wait", "done"}]
      /\ sentAt \in [Calls -> Nat \cup {None}]
  BY DEF TypeInv, TypeOK
<1>1. ASSUME UNCHANGED sentAt, agents \subseteq agents',
             \A q \in Calls : rpc'[q] = "forward" => rpc[q] = "forward"
      PROVE  AgentsKnown'
  BY <1>1 DEF AgentsKnown
<1>2. ASSUME NEW q \in Calls, RedeemBegin(q) \/ RedeemLookup(q) \/ RedeemTimesOut(q)
      PROVE  AgentsKnown'
  <2>1. UNCHANGED <<sentAt, agents>>
    BY <1>2 DEF RedeemBegin, RedeemLookup, RedeemTimesOut
  <2>2. \A p \in Calls : rpc'[p] = "forward" => rpc[p] = "forward"
    BY <1>0, <1>2 DEF RedeemBegin, RedeemLookup, RedeemTimesOut, Answer, Proceed, Settle
  <2> QED BY <1>1, <2>1, <2>2
<1>3. ASSUME NEW q \in Calls, RedeemAgent(q) PROVE AgentsKnown'
  <2>1. UNCHANGED <<sentAt, agents>> BY <1>3 DEF RedeemAgent
  <2>2. \/ rpc' = [rpc EXCEPT ![q] = "done"]
        \/ rpc' = [rpc EXCEPT ![q] = "forward"] /\ EnvelopeOf[q].agent \in agents
    BY <1>3 DEF RedeemAgent, Answer
  <2> QED BY <1>0, <2>1, <2>2 DEF AgentsKnown
<1>4. ASSUME NEW q \in Calls, RedeemForward(q) PROVE AgentsKnown'
  <2>1. /\ UNCHANGED agents /\ rpc[q] = "forward"
        /\ UNCHANGED sentAt \/ sentAt' = [sentAt EXCEPT ![q] = now]
        /\ \E s \in {"wait", "done"} : rpc' = [rpc EXCEPT ![q] = s]
    BY <1>4 DEF RedeemForward, Answer, Proceed
  <2> QED BY <1>0, <2>1 DEF AgentsKnown
<1>5. ASSUME NEW w \in Wires,
             WebSocketClose(w) \/ \E f \in toService[w] : WebSocketMessage(w, f)
      PROVE  AgentsKnown'
  <2>1. UNCHANGED <<sentAt, agents>> BY <1>5 DEF WebSocketClose, WebSocketMessage
  <2>2. \A p \in Calls : rpc'[p] = "forward" => rpc[p] = "forward"
    BY <1>5 DEF WebSocketClose, WebSocketMessage, Settle
  <2> QED BY <1>1, <2>1, <2>2
<1>6. CASE Restart \/ Alarm \/ Tick
  <2>1. UNCHANGED <<sentAt, agents>> BY <1>6 DEF Restart, Alarm, Tick, redeems
  <2>2. \A p \in Calls : rpc'[p] = "forward" => rpc[p] = "forward"
    BY <1>6 DEF Restart, Alarm, Tick, redeems
  <2> QED BY <1>1, <2>1, <2>2
<1>7. ASSUME NEW w \in Wires, \/ Register(w) \/ Rendezvous(w)
                              \/ \E f \in Frame : HostSends(w, f)
                              \/ \E m \in Messages : SignedBegin(w, m)
      PROVE  AgentsKnown'
  <2>1. UNCHANGED <<sentAt, agents, rpc>>
    BY <1>7 DEF Register, Rendezvous, HostSends, SignedBegin, redeems
  <2> QED BY <1>1, <2>1
<1>8. CASE (\E g \in GrantIds : PublishGrant(g)) \/ (\E a \in Agents : AgentRegisters(a))
           \/ UNCHANGED vars
  <2>1. UNCHANGED <<sentAt, rpc>> /\ agents \subseteq agents'
    BY <1>8 DEF PublishGrant, AgentRegisters, vars, redeems
  <2> QED BY <1>1, <2>1
<1> QED BY <1>2, <1>3, <1>4, <1>5, <1>6, <1>7, <1>8, Zenon
        DEF Next, ObjectStep, HostStep, Redeem

\* No call of an unregistered agent is ever sent to the host (redeem asks
\* AgentDO before it picks a socket).
LEMMA OnlyRegisteredAgents == Spec => []AgentsKnown
<1>1. Init => AgentsKnown BY DEF Init, AgentsKnown
<1> QED BY <1>1, AgentsKnownStep, HostDOTypeCorrect, PTL DEF Spec
================================================================================
