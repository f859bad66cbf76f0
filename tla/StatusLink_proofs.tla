-------------------------- MODULE StatusLink_proofs --------------------------
(***************************************************************************)
(* Proofs about StatusLink: the connection invariant, and from it that the *)
(* retained status follows the node and never goes back to an earlier      *)
(* power-up, for every number of power-ups and faults.                     *)
(***************************************************************************)
EXTENDS StatusLink, WellFoundedInduction, TLAPS

\* Connections that carry nothing, or one message.
LEMMA ShortQueues ==
    /\ <<>> \in Seq(Message)
    /\ \A i \in DOMAIN <<>> : FALSE
    /\ \A m \in Message : /\ <<m>> \in Seq(Message)
                          /\ \A i \in DOMAIN <<m>> : <<m>>[i] = m
                          /\ Append(<<>>, m) = <<m>>
<1>1. DOMAIN <<>> = {}
  OBVIOUS
<1>2. ASSUME NEW m \in Message
      PROVE  /\ <<m>> \in Seq(Message)
             /\ \A i \in DOMAIN <<m>> : <<m>>[i] = m
             /\ Append(<<>>, m) = <<m>>
  OBVIOUS
<1> QED
  BY <1>1, <1>2

\* What the node sends is a message.
LEMMA StatusType ==
    ASSUME boot \in Nat, NEW online \in BOOLEAN, bootIso' \in BOOLEAN
    PROVE  /\ Status(online) \in Message
           /\ Status(online).online = online
           /\ Status(online).boot = boot
  BY DEF Status, Message

\* After a single message is routed, it is the retained one.
LEMMA RouteOne ==
    ASSUME NEW m \in Message, Route(<<m>>)
    PROVE  retained' = m
  BY DEF Route, Retain, Last

\* Routing nothing retains nothing.
LEMMA RouteNone ==
    ASSUME Route(<<>>)
    PROVE  retained' = retained
  BY DEF Route, Retain

\* A server that is away gets nothing.
LEMMA RouteAway ==
    ASSUME NEW ms, Route(ms), ~serverConnected
    PROVE  toServer' = toServer
  BY DEF Route

-----------------------------------------------------------------------------
\* A set of numbers without a least one is empty: the induction principle in the
\* form in which the provers can use it.
LEMMA LeastNumber ==
    ASSUME NEW T \in SUBSET Nat, T # {}
    PROVE  \E k \in T : \A j \in T : k <= j
<1> DEFINE less == OpToRel(<, Nat)
<1>1. \E k \in T : \A j \in T : ~(<<j, k>> \in less)
  BY WFMin, NatLessThanWellFounded
<1>2. \A j, k \in T : ~(<<j, k>> \in less) => k <= j
  BY DEF OpToRel
<1> QED
  BY <1>1, <1>2

\* What is kept of the first i messages, when this was kept of the first i - 1.
Keep(kept, ms, i) == IF ms[i].qos = 1 THEN Append(kept, ms[i]) ELSE kept

\* f is what QoS1 computes for the first n of ms.
KeepsOf(f, ms, n) ==
    f = [i \in 0..n |-> IF i = 0 THEN <<>> ELSE Keep(f[i-1], ms, i)]

\* There is such a function: at the least n without one, that of n - 1 extends.
LEMMA KeepsExists ==
    ASSUME NEW ms, NEW n \in Nat
    PROVE  \E f : KeepsOf(f, ms, n)
<1> DEFINE T == {k \in Nat : ~ \E f : KeepsOf(f, ms, k)}
<1> SUFFICES ASSUME T # {} PROVE FALSE
  OBVIOUS
<1>1. PICK k \in T : \A j \in T : k <= j
  BY LeastNumber
<1>2. k # 0
  <2> DEFINE f == [i \in 0..0 |-> <<>>]
  <2>1. KeepsOf(f, ms, 0)
    BY DEF KeepsOf
  <2> QED
    BY <2>1
<1>3. PICK f : KeepsOf(f, ms, k - 1)
  <2>1. k - 1 \in Nat /\ ~(k <= k - 1)
    BY <1>2
  <2> QED
    BY <1>1, <2>1
<1> DEFINE g == [i \in 0..k |-> IF i = k THEN Keep(f[k-1], ms, k) ELSE f[i]]
<1>4. \A i \in 0..k : g[i] = IF i = 0 THEN <<>> ELSE Keep(g[i-1], ms, i)
  <2>1. \A i \in 0..(k-1) : f[i] = IF i = 0 THEN <<>> ELSE Keep(f[i-1], ms, i)
    BY <1>3 DEF KeepsOf
  <2> QED
    BY <1>2, <2>1
<1>5. KeepsOf(g, ms, k)
  BY <1>4 DEF KeepsOf
<1> QED
  BY <1>5

\* Of messages it keeps some, those with QoS 1.
LEMMA QoS1Type ==
    ASSUME NEW S \in SUBSET Message, NEW ms \in Seq(S)
    PROVE  QoS1(ms) \in Seq({m \in S : m.qos = 1})
<1> DEFINE n == Len(ms)
           Good(q) == q \in Seq({m \in S : m.qos = 1})
<1>1. PICK f : KeepsOf(f, ms, n) /\ QoS1(ms) = f[n]
  <2> DEFINE f == CHOOSE f : KeepsOf(f, ms, n)
  <2>1. KeepsOf(f, ms, n)
    BY KeepsExists
  <2>2. QoS1(ms) = f[n]
    BY DEF QoS1, KeepsOf, Keep
  <2> QED
    BY <2>1, <2>2
<1>2. /\ n \in Nat /\ f[0] = <<>>
      /\ \A k \in 1..n : f[k] = Keep(f[k-1], ms, k) /\ ms[k] \in S
  <2>1. n \in Nat /\ \A k \in 1..n : ms[k] \in S
    OBVIOUS
  <2>2. f = [i \in 0..n |-> IF i = 0 THEN <<>> ELSE Keep(f[i-1], ms, i)]
    BY <1>1 DEF KeepsOf
  <2> HIDE DEF n
  <2> QED
    BY <2>1, <2>2
<1>3. Good(<<>>)
  OBVIOUS
<1>4. ASSUME NEW q, Good(q), NEW k \in 1..n PROVE Good(Keep(q, ms, k))
  <2> DEFINE m == ms[k]
  <2>1. m \in S
    OBVIOUS
  <2> HIDE DEF m
  <2>2. ASSUME m.qos = 1 PROVE Good(Append(q, m))
    BY <1>4, <2>1, <2>2
  <2> HIDE DEF Good
  <2> QED
    BY <1>4, <2>2 DEF Keep, m
<1> HIDE DEF Good, n
<1>5. \A k \in 0..n : Good(f[k])
  <2> DEFINE T == {k \in 0..n : ~Good(f[k])}
  <2> SUFFICES ASSUME T # {} PROVE FALSE
    OBVIOUS
  <2>1. PICK k \in T : \A j \in T : k <= j
    <3>1. T \in SUBSET Nat
      BY <1>2
    <3> HIDE DEF T
    <3> QED
      BY <3>1, LeastNumber
  <2>2. k # 0
    BY <1>2, <1>3
  <2>3. k \in 1..n /\ k - 1 \in 0..n /\ ~(k <= k - 1)
    BY <1>2, <2>2
  <2>4. Good(f[k-1])
    BY <2>1, <2>3
  <2>5. Good(f[k])
    BY <1>2, <1>4, <2>3, <2>4
  <2> QED
    BY <2>5
<1>6. Good(f[n])
  BY <1>2, <1>5
<1> QED
  BY <1>1, <1>6 DEF Good
-----------------------------------------------------------------------------
\* What routing, subscribing and handling do to the queues keeps them sequences of
\* the same messages.
LEMMA QueueTypes ==
    ASSUME NEW S \in SUBSET Message,
           queued \in Seq(S), toServer \in Seq(S), unacked \in Seq(S)
    PROVE  /\ unacked \o QoS1(toServer) \o queued \in Seq(S)
           /\ \A ms \in Seq(S) : /\ toServer \o ms \in Seq(S)
                                /\ queued \o QoS1(ms) \in Seq(S)
           /\ \A m \in S : /\ <<m>> \in Seq(S)
                           /\ unacked \o QoS1(<<m>>) \in Seq(S)
                           /\ Append(toServer, m) \in Seq(S)
<1>1. ASSUME NEW ms \in Seq(S) PROVE QoS1(ms) \in Seq(S)
  <2>1. QoS1(ms) \in Seq({m \in S : m.qos = 1})
    BY QoS1Type
  <2> QED
    BY <2>1
<1>2. \A q, r \in Seq(S) : q \o r \in Seq(S)
  OBVIOUS
<1>3. \A q \in Seq(S), m \in S : Append(q, m) \in Seq(S) /\ <<m>> \in Seq(S)
  OBVIOUS
<1>4. unacked \o QoS1(toServer) \o queued \in Seq(S)
  BY <1>1, <1>2
<1> QED
  BY <1>1, <1>2, <1>3, <1>4

LEMMA InitLink == Init => LinkInv
<1> SUFFICES ASSUME Init PROVE LinkInv
  OBVIOUS
<1>1. LinkTypeOK
  BY ShortQueues DEF Init, LinkTypeOK
<1>2. \A i \in DOMAIN toBroker : toBroker[i].online /\ toBroker[i].boot = boot
  BY ShortQueues DEF Init
<1>3. retained.boot <= boot
  BY DEF Init, None
<1> QED
  BY <1>1, <1>2, <1>3 DEF Init, LinkInv

\* The connection invariant is inductive.
LEMMA NextLink == LinkInv /\ [Next]_vars => LinkInv'
<1> SUFFICES ASSUME LinkInv, [Next]_vars PROVE LinkInv'
  OBVIOUS
<1> USE DEF LinkInv, LinkTypeOK
<1>1. CASE PowerUp
  <2>1. /\ power' = TRUE /\ boot' = boot + 1 /\ UNCHANGED broker
        /\ statusFinalized' = FALSE /\ connected' = FALSE /\ bootIso' = FALSE
        /\ synced' = FALSE /\ UNCHANGED wifi /\ UNCHANGED server
        /\ ~tcp /\ toBroker = <<>>
    BY <1>1 DEF PowerUp
  <2>2. retained.boot \in Int /\ \A s \in sessions : s.will.boot \in Int
    BY DEF Message, None
  <2>3. \A i \in DOMAIN toBroker' : FALSE
    BY <2>1, ShortQueues DEF broker
  <2> QED
    <3>1. LinkTypeOK'
      <4>1. boot' \in Nat
        BY <2>1
      <4>2. /\ brokerUp' \in BOOLEAN /\ tcp' \in BOOLEAN
            /\ toBroker' \in Seq(Message)
            /\ sessions' \in SUBSET [client : Nat, will : Message]
            /\ retained' \in Message \cup {None}
        BY <2>1 DEF broker
      <4>3. /\ power' \in BOOLEAN /\ wifi' \in BOOLEAN /\ synced' \in BOOLEAN
            /\ bootIso' \in BOOLEAN /\ statusFinalized' \in BOOLEAN
            /\ connected' \in BOOLEAN
        BY <2>1
      <4> QED
        BY <4>1, <4>2, <4>3
    <3>2. /\ \A s \in sessions' : retained'.boot <= s.will.boot
                                  /\ s.will.boot <= boot'
          /\ retained'.boot <= boot'
      BY <2>1, <2>2 DEF broker
    <3> QED
      BY <2>1, <2>3, <3>1, <3>2 DEF broker, server
<1>2. CASE EnsureWifi
  BY <1>2 DEF EnsureWifi, broker, server, hist
<1>3. CASE SntpSync
  BY <1>3 DEF SntpSync, broker, server, hist
<1>4. CASE MqttConnect
  <2>1. CASE ~brokerUp
    BY <1>4, <2>1 DEF MqttConnect, UpdateBootIso
  <2>2. CASE brokerUp
    <3> DEFINE old == {s \in sessions : s.client = ClientId}
               new == [client |-> ClientId, will |-> Status(FALSE)]
    <3>1. bootIso' \in BOOLEAN /\ bootIso' = (bootIso \/ synced)
      BY <1>4 DEF MqttConnect, UpdateBootIso
    <3>2. /\ Status(FALSE) \in Message /\ Status(FALSE).online = FALSE
          /\ Status(FALSE).boot = boot
          /\ Status(TRUE) \in Message /\ Status(TRUE).online = TRUE
          /\ Status(TRUE).boot = boot
      BY <3>1, StatusType
    <3>3. sessions' = {new} /\ new \in [client : Nat, will : Message]
      <4>1. sessions \ old = {}
        OBVIOUS
      <4>2. sessions' = (sessions \ old) \cup {new}
        BY <1>4, <2>2 DEF MqttConnect
      <4> QED
        BY <4>1, <4>2, <3>2 DEF ClientId
    <3>4. retained' \in Message \cup {None} /\ retained'.boot <= boot
      <4>1. Route(WillOf(old))
        BY <1>4, <2>2 DEF MqttConnect
      <4>2. CASE old = {}
        BY <4>1, <4>2, RouteNone DEF WillOf
      <4>3. CASE old # {}
        <5>1. PICK s \in sessions : WillOf(old) = <<s.will>>
          BY <4>3 DEF WillOf
        <5>2. s.will \in Message
          OBVIOUS
        <5>3. retained' = s.will
          BY <4>1, <5>1, <5>2, RouteOne
        <5> QED
          BY <5>2, <5>3
      <4> QED
        BY <4>2, <4>3
    <3>5. toBroker' = <<Status(TRUE)>>
      BY <1>4, <2>2, <3>2, ShortQueues DEF MqttConnect, PublishStatus
    <3>6. /\ connected' /\ tcp' /\ boot' = boot /\ power' = power
          /\ wifi' = wifi /\ synced' = synced
          /\ statusFinalized' = statusFinalized /\ brokerUp' = brokerUp
          /\ serverConnected' = serverConnected /\ resubscribe' = resubscribe
          /\ unacked' = unacked /\ power
          /\ connected' \in BOOLEAN /\ tcp' \in BOOLEAN
      BY <1>4, <2>2 DEF MqttConnect
    <3>7. ~serverConnected => toServer' = toServer
      BY <1>4, <2>2, RouteAway DEF MqttConnect
    <3>8. LinkTypeOK'
      BY <3>1, <3>2, <3>3, <3>4, <3>5, <3>6, ShortQueues
    <3>9. /\ \A s \in sessions' : s.client = ClientId /\ ~s.will.online
          /\ \A s \in sessions' : retained'.boot <= s.will.boot
                                  /\ s.will.boot <= boot'
          /\ \A s, t \in sessions' : s = t
          /\ \E s \in sessions' : s.will.boot = boot'
      <4>1. new.client = ClientId /\ ~new.will.online /\ new.will.boot = boot
        BY <3>2
      <4>2. boot <= boot
        OBVIOUS
      <4> HIDE DEF new
      <4> QED
        BY <3>3, <3>4, <3>6, <4>1, <4>2
    <3>10. \A i \in DOMAIN toBroker' : toBroker'[i].online
                                       /\ toBroker'[i].boot = boot'
      BY <3>2, <3>5, <3>6, ShortQueues
    <3> HIDE DEF new, old
    <3> QED
      BY <2>2, <3>1, <3>4, <3>6, <3>7, <3>8, <3>9, <3>10 DEF ClientId
  <2> QED
    BY <2>1, <2>2
<1>5. CASE FinalizeStatus
  <2>1. bootIso' = TRUE /\ boot' = boot /\ tcp' = tcp
    BY <1>5 DEF FinalizeStatus, UpdateBootIso
  <2>2. /\ Status(TRUE) \in Message /\ Status(TRUE).online
        /\ Status(TRUE).boot = boot
    BY <2>1, StatusType
  <2>3. /\ toBroker' \in Seq(Message)
        /\ ~tcp => toBroker' = <<>>
        /\ \A i \in DOMAIN toBroker' : toBroker'[i].online
                                       /\ toBroker'[i].boot = boot
    <3>1. CASE ~tcp
      BY <1>5, <3>1 DEF FinalizeStatus, PublishStatus
    <3>2. CASE tcp
      <4> DEFINE m == Status(TRUE)
      <4>1. toBroker' = Append(toBroker, m)
        BY <1>5, <3>2 DEF FinalizeStatus, PublishStatus
      <4>0. m \in Message /\ m.online /\ m.boot = boot
        BY <2>2
      <4> HIDE DEF m
      <4>2. \A i \in DOMAIN Append(toBroker, m) :
              \/ i \in DOMAIN toBroker /\ Append(toBroker, m)[i] = toBroker[i]
              \/ Append(toBroker, m)[i] = m
        BY <4>0
      <4> QED
        BY <4>0, <3>2, <4>1, <4>2
    <3> QED
      BY <3>1, <3>2
  <2> QED
    BY <1>5, <2>1, <2>3 DEF FinalizeStatus, server, hist
<1>6. CASE NodeDetect
  BY <1>6 DEF NodeDetect, broker, server, hist
<1>7. CASE BrokerReceive
  <2>1. /\ Head(toBroker) \in Message /\ Tail(toBroker) \in Seq(Message)
        /\ Head(toBroker).boot = boot
        /\ \A i \in DOMAIN Tail(toBroker) : Tail(toBroker)[i].online
                                            /\ Tail(toBroker)[i].boot = boot
    BY <1>7 DEF BrokerReceive
  <2>2. retained' = Head(toBroker)
    BY <1>7, <2>1, RouteOne DEF BrokerReceive
  <2>3. \A s \in sessions : s.will.boot = boot
    BY <1>7 DEF BrokerReceive
  <2>4. ~serverConnected => toServer' = toServer
    BY <1>7, RouteAway DEF BrokerReceive
  <2> QED
    BY <1>7, <2>1, <2>2, <2>3, <2>4 DEF BrokerReceive, node, hist
<1>8. ASSUME NEW s \in sessions, BrokerDetect(s) PROVE LinkInv'
  <2>1. sessions' = {}
    BY <1>8 DEF BrokerDetect
  <2>2. retained' = s.will /\ s.will \in Message /\ s.will.boot <= boot
    BY <1>8, RouteOne DEF BrokerDetect
  <2>3. ~tcp
    BY <1>8 DEF BrokerDetect
  <2>4. ~serverConnected => toServer' = toServer
    BY <1>8, RouteAway DEF BrokerDetect
  <2> QED
    BY <1>8, <2>1, <2>2, <2>3, <2>4 DEF BrokerDetect, node, hist
<1>9. CASE BrokerStart
  BY <1>9 DEF BrokerStart, node, server, hist
<1>10. CASE ServerConnect
  BY <1>10 DEF ServerConnect, node, hist
<1>11. CASE Subscribe
  BY <1>11 DEF Subscribe, node, broker, hist
<1>12. CASE HandleStatus
  BY <1>12 DEF HandleStatus, OnStatus, UpsertStatus, node, broker
<1>13. CASE Acknowledge
  BY <1>13 DEF Acknowledge, node, broker, hist
<1>14. CASE PowerLoss
  BY <1>14, ShortQueues DEF PowerLoss, CutConnection, server
<1>15. CASE LinkLoss
  BY <1>15, ShortQueues DEF LinkLoss, CutConnection, server
<1>16. CASE BrokerCrash
  BY <1>16, ShortQueues DEF BrokerCrash, CutConnection, DropServer, node
<1>17. CASE ServerLoss
  BY <1>17 DEF ServerLoss, DropServer, node
<1>18. CASE DeliverReading
  BY <1>18 DEF DeliverReading, node, broker, hist
<1>19. CASE UNCHANGED vars
  BY <1>19 DEF vars, node, broker, server, hist
<1> QED
  BY <1>1, <1>2, <1>3, <1>4, <1>5, <1>6, <1>7, <1>8, <1>9, <1>10, <1>11,
     <1>12, <1>13, <1>14, <1>15, <1>16, <1>17, <1>18, <1>19
     DEF Next, Node, Broker, Server, Faults

\* The node's view of its connection and the broker's agree in every reachable
\* state, for every number of power-ups and faults.
THEOREM LinkConsistent == Spec => []LinkInv
  BY InitLink, NextLink, PTL DEF Spec

-----------------------------------------------------------------------------
Queues(S) == queued \in Seq(S) /\ toServer \in Seq(S) /\ unacked \in Seq(S)

\* A step that routes ms.
LEMMA RouteQueues ==
    ASSUME NEW S \in SUBSET Message, Queues(S), retained' # None => retained' \in S,
           NEW ms, Route(ms), ms = <<>> \/ \E m \in Message : ms = <<m>>,
           UNCHANGED unacked
    PROVE  Queues(S)'
<1>1. ASSUME NEW m \in Message, ms = <<m>> PROVE ms \in Seq(S)
  <2>1. retained' = m /\ m # None
    BY <1>1, RouteOne DEF Message, None
  <2>2. \A e \in S : <<e>> \in Seq(S)
    OBVIOUS
  <2> QED
    BY <1>1, <2>1, <2>2
<1>2. <<>> \in Seq(S)
  OBVIOUS
<1>3. ms \in Seq(S)
  BY <1>1, <1>2
<1>4. toServer \o ms \in Seq(S) /\ queued \o QoS1(ms) \in Seq(S)
  BY <1>3, QueueTypes DEF Queues
<1> QED
  BY <1>4 DEF Route, Queues

\* Whatever a step queues, sends, sends again or shows was on its way before or is
\* what the topic retains before or after it.
LEMMA QueuesStep ==
    ASSUME LinkInv, [Next]_vars, NEW S \in SUBSET Message, Queues(S),
           retained # None => retained \in S, retained' # None => retained' \in S
    PROVE  Queues(S)' /\ (status' = status \/ status' \in S)
<1>0. LinkTypeOK
  BY DEF LinkInv
<1>e. <<>> \in Seq(S)
  OBVIOUS
<1>1. CASE \/ PowerUp \/ EnsureWifi \/ SntpSync \/ FinalizeStatus \/ NodeDetect
           \/ BrokerStart \/ PowerLoss \/ LinkLoss \/ DeliverReading \/ UNCHANGED vars
  BY <1>1 DEF PowerUp, EnsureWifi, SntpSync, FinalizeStatus, NodeDetect, BrokerStart,
     PowerLoss, LinkLoss, DeliverReading, vars, broker, server, Queues
<1>2. CASE MqttConnect
  <2>1. CASE ~brokerUp
    BY <1>2, <2>1 DEF MqttConnect, Queues
  <2>2. CASE brokerUp
    <3> DEFINE old == {s \in sessions : s.client = ClientId}
    <3>1. Route(WillOf(old)) /\ UNCHANGED <<unacked, status>>
      BY <1>2, <2>2 DEF MqttConnect
    <3>2. WillOf(old) = <<>> \/ \E m \in Message : WillOf(old) = <<m>>
      BY <1>0 DEF WillOf, LinkTypeOK
    <3> HIDE DEF old
    <3> QED
      BY <3>1, <3>2, RouteQueues
  <2> QED
    BY <2>1, <2>2
<1>3. CASE BrokerReceive
  <2>1. /\ Head(toBroker) \in Message /\ Route(<<Head(toBroker)>>)
        /\ UNCHANGED <<unacked, status>>
    BY <1>0, <1>3 DEF BrokerReceive, LinkTypeOK
  <2> QED
    BY <2>1, RouteQueues
<1>4. ASSUME NEW s \in sessions, BrokerDetect(s)
      PROVE  Queues(S)' /\ status' = status
  <2>1. s.will \in Message /\ Route(<<s.will>>) /\ UNCHANGED <<unacked, status>>
    BY <1>0, <1>4 DEF BrokerDetect, LinkTypeOK
  <2> QED
    BY <2>1, RouteQueues
<1>5. CASE ServerConnect
  BY <1>5, <1>e DEF ServerConnect, Queues
<1>6. CASE Subscribe
  <2>1. /\ UNCHANGED <<queued, unacked, status>>
        /\ toServer' = IF retained = None THEN toServer ELSE Append(toServer, retained)
    BY <1>6 DEF Subscribe, broker
  <2>2. \A m \in S : Append(toServer, m) \in Seq(S)
    BY QueueTypes DEF Queues
  <2> QED
    BY <2>1, <2>2 DEF Queues
<1>7. ASSUME NEW ok \in BOOLEAN, OnStatus(ok)
      PROVE  Queues(S)' /\ (status' = status \/ status' \in S)
  <2>1. /\ toServer # <<>> /\ toServer' = Tail(toServer) /\ queued' = queued
        /\ unacked' = unacked \o QoS1(<<Head(toServer)>>)
        /\ status' = status \/ status' = Head(toServer)
    BY <1>7 DEF OnStatus, UpsertStatus, broker
  <2>2. Head(toServer) \in S /\ Tail(toServer) \in Seq(S)
    BY <2>1 DEF Queues
  <2>3. unacked' \in Seq(S)
    BY <2>1, <2>2, QueueTypes DEF Queues
  <2> QED
    BY <2>1, <2>2, <2>3 DEF Queues
<1>8. CASE Acknowledge
  BY <1>8, <1>e DEF Acknowledge, broker, Queues
<1>9. CASE BrokerCrash \/ ServerLoss
  <2>1. /\ queued' = unacked \o QoS1(toServer) \o queued /\ status' = status
        /\ toServer' = <<>> /\ unacked' = <<>>
    BY <1>9 DEF BrokerCrash, ServerLoss, DropServer
  <2>2. unacked \o QoS1(toServer) \o queued \in Seq(S)
    BY QueueTypes DEF Queues
  <2> QED
    BY <2>1, <2>2, <1>e DEF Queues
<1> QED
  BY <1>1, <1>2, <1>3, <1>4, <1>5, <1>6, <1>7, <1>8, <1>9
     DEF Next, Node, Broker, Server, HandleStatus, Faults

\* What the connection invariant and the queues say nothing of.
FlagsTypeOK ==
    /\ serverConnected \in BOOLEAN /\ subscribed \in BOOLEAN
    /\ resubscribe \in BOOLEAN
    /\ eventTimes \subseteq {"epoch", "clock", "arrival"}
    /\ faults \in Nat /\ willLost \in BOOLEAN /\ upsertFailed \in BOOLEAN

LEMMA NextFlags == FlagsTypeOK /\ [Next]_vars => FlagsTypeOK'
<1> SUFFICES ASSUME FlagsTypeOK, [Next]_vars PROVE FlagsTypeOK'
  OBVIOUS
<1> USE DEF FlagsTypeOK
<1>1. CASE Node \/ PowerUp
  BY <1>1 DEF Node, PowerUp, EnsureWifi, SntpSync, MqttConnect, FinalizeStatus,
              NodeDetect, broker, server, hist
<1>2. CASE Broker
  BY <1>2 DEF Broker, BrokerReceive, BrokerDetect, BrokerStart, server, hist
<1>3. CASE ServerConnect \/ Subscribe \/ Acknowledge
  BY <1>3 DEF ServerConnect, Subscribe, Acknowledge, broker, hist
<1>4. CASE HandleStatus
  BY <1>4 DEF HandleStatus, OnStatus, UpsertStatus, Fault, broker
<1>5. CASE PowerLoss \/ LinkLoss
  <2>1. UNCHANGED <<server, willLost, upsertFailed>> /\ faults' = faults + 1
    BY <1>5 DEF PowerLoss, LinkLoss, Fault
  <2> QED
    BY <2>1 DEF server
<1>6. CASE BrokerCrash \/ ServerLoss
  <2>1. /\ faults' = faults + 1 /\ serverConnected' = FALSE /\ resubscribe' = FALSE
        /\ UNCHANGED <<subscribed, eventTimes, upsertFailed>>
    BY <1>6 DEF BrokerCrash, ServerLoss, DropServer, Fault
  <2>2. willLost' \in BOOLEAN
    BY <1>6 DEF BrokerCrash, ServerLoss
  <2>3. faults' \in Nat
    BY <2>1
  <2> QED
    BY <2>1, <2>2, <2>3, Zenon
<1>7. CASE DeliverReading
  BY <1>7 DEF DeliverReading, EventTime, IsoNow, broker, hist
<1>8. CASE UNCHANGED vars
  BY <1>8 DEF vars, broker, server, hist
<1> QED
  BY <1>1, <1>2, <1>3, <1>4, <1>5, <1>6, <1>7, <1>8 DEF Next, Server, Faults

LEMMA NextType == LinkInv /\ TypeOK /\ [Next]_vars => TypeOK'
<1> SUFFICES ASSUME LinkInv, TypeOK, [Next]_vars PROVE TypeOK'
  OBVIOUS
<1>1. LinkTypeOK /\ LinkTypeOK'
  BY NextLink DEF LinkInv
<1>2. Queues(Message)' /\ (status' = status \/ status' \in Message)
  <2>1. /\ retained # None => retained \in Message
        /\ retained' # None => retained' \in Message
    BY <1>1 DEF LinkTypeOK
  <2>2. Queues(Message)
    BY DEF TypeOK, Queues
  <2> QED
    BY <2>1, <2>2, QueuesStep
<1>3. FlagsTypeOK'
  BY NextFlags DEF TypeOK, FlagsTypeOK
<1> QED
  BY <1>1, <1>2, <1>3 DEF TypeOK, Queues, FlagsTypeOK

LEMMA InitType == Init => TypeOK
<1> SUFFICES ASSUME Init PROVE TypeOK
  OBVIOUS
<1>1. LinkTypeOK
  BY InitLink DEF LinkInv
<1> QED
  BY <1>1, ShortQueues DEF Init, TypeOK

\* Every variable keeps its type: what is queued, sent again or shown is a message
\* that the node or the broker for it published.
THEOREM TypeCorrect == Spec => []TypeOK
  BY InitLink, NextLink, InitType, NextType, PTL DEF Spec

\* What a step does to the retained status: it stays, or a message of the node or
\* the will of one of its sessions takes its place.
LEMMA RetainedStep ==
    ASSUME LinkInv, [Next]_vars
    PROVE  \/ retained' = retained
           \/ BrokerReceive /\ retained' = Head(toBroker)
           \/ ~tcp /\ \E s \in sessions : retained' = s.will
<1> USE DEF LinkInv, LinkTypeOK
<1>1. CASE MqttConnect
  <2>1. CASE ~brokerUp
    BY <1>1, <2>1 DEF MqttConnect
  <2>2. CASE brokerUp
    <3> DEFINE old == {s \in sessions : s.client = ClientId}
    <3>1. ~tcp /\ Route(WillOf(old))
      BY <1>1, <2>2 DEF MqttConnect
    <3>2. CASE old = {}
      BY <3>1, <3>2, RouteNone DEF WillOf
    <3>3. CASE old # {}
      <4>1. PICK s \in sessions : WillOf(old) = <<s.will>>
        BY <3>3 DEF WillOf
      <4>2. retained' = s.will
        BY <3>1, <4>1, RouteOne
      <4> QED
        BY <3>1, <4>2
    <3> QED
      BY <3>2, <3>3
  <2> QED
    BY <2>1, <2>2
<1>2. CASE BrokerReceive
  <2>1. Head(toBroker) \in Message
    BY <1>2 DEF BrokerReceive
  <2> QED
    BY <1>2, <2>1, RouteOne DEF BrokerReceive
<1>3. ASSUME NEW s \in sessions, BrokerDetect(s)
      PROVE  ~tcp /\ retained' = s.will
  BY <1>3, RouteOne DEF BrokerDetect
<1>4. CASE \/ PowerUp \/ EnsureWifi \/ SntpSync \/ FinalizeStatus \/ NodeDetect
           \/ BrokerStart \/ Server \/ Faults \/ DeliverReading \/ UNCHANGED vars
  BY <1>4 DEF PowerUp, EnsureWifi, SntpSync, FinalizeStatus, NodeDetect,
     BrokerStart, Server, ServerConnect, Subscribe, HandleStatus, OnStatus,
     Acknowledge, Faults, PowerLoss, LinkLoss, BrokerCrash, ServerLoss,
     DeliverReading, vars, broker
<1> QED
  BY <1>1, <1>2, <1>3, <1>4 DEF Next, Node, Broker

LEMMA BootMonotone ==
    ASSUME LinkInv, [Next]_vars PROVE retained.boot <= retained'.boot
<1> USE DEF LinkInv, LinkTypeOK
<1>1. retained.boot \in Int
  BY DEF Message, None
<1>2. CASE retained' = retained
  BY <1>1, <1>2
<1>3. CASE BrokerReceive /\ retained' = Head(toBroker)
  <2>1. Head(toBroker).boot = boot
    BY <1>3 DEF BrokerReceive
  <2> QED
    BY <1>3, <2>1
<1>4. CASE \E s \in sessions : retained' = s.will
  BY <1>4
<1> QED
  BY <1>2, <1>3, <1>4, RetainedStep

\* The retained status never goes back to an earlier power-up: of all wills the
\* broker may still hold, none is older than what it has already published.
THEOREM BootsInOrder == Spec => BootOrder
<1>1. LinkInv /\ [Next]_vars => [retained.boot <= retained'.boot]_vars
  BY BootMonotone
<1> QED
  BY <1>1, LinkConsistent, PTL DEF Spec, BootOrder

\* While the node is really connected and the broker has taken what it sent, the
\* retained status is its own online message.
THEOREM RetainedIsNode == Spec => []RetainedFollowsNode
<1>1. Init => RetainedFollowsNode
  BY DEF Init, RetainedFollowsNode
<1>2. ASSUME LinkInv, RetainedFollowsNode, [Next]_vars, tcp', toBroker' = <<>>
      PROVE  retained'.online /\ retained'.boot = boot'
  <2> USE DEF LinkInv, LinkTypeOK
  <2>1. CASE BrokerReceive
    <3>1. /\ Head(toBroker).online /\ Head(toBroker).boot = boot
          /\ Head(toBroker) \in Message
      BY <1>2, <2>1 DEF BrokerReceive
    <3>2. retained' = Head(toBroker) /\ boot' = boot
      BY <2>1, <3>1, RouteOne DEF BrokerReceive, node
    <3> QED
      BY <3>1, <3>2
  <2>2. CASE MqttConnect /\ brokerUp
    <3>1. toBroker' # <<>>
      BY <2>2 DEF MqttConnect, PublishStatus
    <3> QED
      BY <1>2, <3>1
  <2>3. CASE ~BrokerReceive /\ ~(MqttConnect /\ brokerUp)
    <3>1. tcp /\ boot' = boot /\ toBroker = <<>>
      <4>1. CASE FinalizeStatus
        <5>1. tcp /\ boot' = boot /\ bootIso' \in BOOLEAN
          BY <1>2, <4>1 DEF FinalizeStatus, UpdateBootIso
        <5>2. Status(TRUE) \in Message
          BY <1>2, <5>1, StatusType
        <5>3. toBroker' = Append(toBroker, Status(TRUE))
          BY <4>1, <5>1 DEF FinalizeStatus, PublishStatus
        <5>4. ASSUME NEW m \in Message PROVE Append(toBroker, m) # <<>>
          BY <1>2
        <5> QED
          BY <1>2, <5>2, <5>3, <5>4
      <4>2. CASE PowerUp \/ EnsureWifi \/ SntpSync \/ NodeDetect
        BY <1>2, <4>2 DEF PowerUp, EnsureWifi, SntpSync, NodeDetect, broker
      <4>3. CASE MqttConnect
        BY <1>2, <2>3, <4>3 DEF MqttConnect
      <4>4. CASE (\E s \in sessions : BrokerDetect(s)) \/ BrokerStart
        BY <1>2, <4>4 DEF BrokerDetect, BrokerStart, node
      <4>5. CASE Server \/ DeliverReading
        BY <1>2, <4>5 DEF Server, ServerConnect, Subscribe, HandleStatus,
           OnStatus, Acknowledge, DeliverReading, node, broker
      <4>6. CASE Faults
        BY <1>2, <4>6 DEF Faults, PowerLoss, LinkLoss, BrokerCrash,
           CutConnection, ServerLoss, node
      <4>7. CASE UNCHANGED vars
        BY <1>2, <4>7 DEF vars, node, broker
      <4> QED
        BY <1>2, <2>3, <4>1, <4>2, <4>3, <4>4, <4>5, <4>6, <4>7
           DEF Next, Node, Broker
    <3>2. retained' = retained
      BY <1>2, <2>3, <3>1, RetainedStep
    <3> QED
      BY <1>2, <3>1, <3>2 DEF RetainedFollowsNode
  <2> QED
    BY <2>1, <2>2, <2>3
<1>3. LinkInv /\ RetainedFollowsNode /\ [Next]_vars => RetainedFollowsNode'
  BY <1>2 DEF RetainedFollowsNode
<1> QED
  BY <1>1, <1>3, LinkConsistent, PTL DEF Spec

-----------------------------------------------------------------------------
\* The last of a queue that grows, and of one that loses its first.
LEMMA LastOfQueue ==
    ASSUME NEW q \in Seq(Message)
    PROVE  /\ \A m \in Message : /\ Append(q, m) # <<>> /\ Last(Append(q, m)) = m
                                /\ q \o <<m>> = Append(q, m)
           /\ q \o <<>> = q
           /\ q # <<>> => IF Tail(q) = <<>> THEN Head(q) = Last(q)
                                         ELSE Last(Tail(q)) = Last(q)
<1>1. ASSUME NEW m \in Message
      PROVE  Append(q, m) # <<>> /\ Last(Append(q, m)) = m
  BY DEF Last
<1>2. ASSUME NEW m \in Message PROVE q \o <<m>> = Append(q, m)
  OBVIOUS
<1>3. q \o <<>> = q
  OBVIOUS
<1>4. ASSUME q # <<>>
      PROVE  IF Tail(q) = <<>> THEN Head(q) = Last(q) ELSE Last(Tail(q)) = Last(q)
  <2>1. CASE Tail(q) = <<>>
    <3>1. Len(Tail(q)) = Len(q) - 1
      BY <1>4
    <3>2. Len(<<>>) = 0
      OBVIOUS
    <3>3. Len(q) \in Nat
      OBVIOUS
    <3>4. Len(Tail(q)) = Len(<<>>)
      BY <2>1, Zenon
    <3>5. Len(q) = 1
      BY <3>1, <3>2, <3>3, <3>4
    <3> QED
      BY <1>4, <2>1, <3>5 DEF Last
  <2>2. CASE Tail(q) # <<>>
    <3>1. Len(Tail(q)) > 0 /\ Len(Tail(q)) = Len(q) - 1 /\ Tail(q) \in Seq(Message)
      BY <1>4, <2>2
    <3>2. \A i \in 1..Len(Tail(q)) : Tail(q)[i] = q[i + 1]
      BY <1>4
    <3> QED
      BY <2>2, <3>1, <3>2 DEF Last
  <2> QED
    BY <2>1, <2>2
<1> QED
  BY <1>1, <1>2, <1>3, <1>4

\* A status the broker takes comes last on the way to a server that has subscribed.
LEMMA RouteKeepsRow ==
    ASSUME TypeOK, StatusIsRetained, NEW ms, Route(ms),
           ms = <<>> \/ \E m \in Message : ms = <<m>>,
           UNCHANGED <<serverConnected, subscribed, resubscribe, status, upsertFailed>>
    PROVE  StatusIsRetained'
<1> SUFFICES ASSUME serverConnected, subscribed, ~resubscribe, retained' # None
             PROVE  IF toServer' # <<>> THEN Last(toServer') = retained'
                                        ELSE status = retained' \/ upsertFailed
  BY DEF StatusIsRetained
<1>1. toServer \in Seq(Message) /\ toServer' = toServer \o ms
  BY DEF TypeOK, Route
<1>2. CASE ms = <<>>
  <2>1. retained' = retained /\ toServer' = toServer
    BY <1>1, <1>2, RouteNone, LastOfQueue
  <2> QED
    BY <2>1 DEF StatusIsRetained
<1>3. ASSUME NEW m \in Message, ms = <<m>>
      PROVE  toServer' # <<>> /\ Last(toServer') = retained'
  <2>1. retained' = m
    BY <1>3, RouteOne
  <2>2. toServer' = Append(toServer, m)
    BY <1>1, <1>3, LastOfQueue
  <2> QED
    BY <1>1, <2>1, <2>2, LastOfQueue
<1> QED
  BY <1>2, <1>3

LEMMA NextRow ==
    LinkInv /\ TypeOK /\ StatusIsRetained /\ [Next]_vars => StatusIsRetained'
<1> SUFFICES ASSUME LinkInv, TypeOK, StatusIsRetained, [Next]_vars
             PROVE  StatusIsRetained'
  OBVIOUS
<1>0. LinkTypeOK /\ toServer \in Seq(Message)
  BY DEF TypeOK
<1>1. CASE \/ PowerUp \/ EnsureWifi \/ SntpSync \/ FinalizeStatus \/ NodeDetect
           \/ BrokerStart \/ Acknowledge \/ PowerLoss \/ LinkLoss \/ DeliverReading
           \/ UNCHANGED vars
  <2>1. UNCHANGED <<serverConnected, subscribed, resubscribe, retained, toServer,
                    status, upsertFailed>>
    BY <1>1 DEF PowerUp, EnsureWifi, SntpSync, FinalizeStatus, NodeDetect, BrokerStart,
       Acknowledge, PowerLoss, LinkLoss, DeliverReading, vars, broker, server, hist
  <2> QED
    BY <2>1 DEF StatusIsRetained
<1>2. CASE MqttConnect
  <2>1. CASE ~brokerUp
    BY <1>2, <2>1 DEF MqttConnect, StatusIsRetained
  <2>2. CASE brokerUp
    <3> DEFINE old == {s \in sessions : s.client = ClientId}
    <3>1. /\ Route(WillOf(old))
          /\ UNCHANGED <<serverConnected, subscribed, resubscribe, status, upsertFailed>>
      BY <1>2, <2>2 DEF MqttConnect
    <3>2. WillOf(old) = <<>> \/ \E m \in Message : WillOf(old) = <<m>>
      BY <1>0 DEF WillOf, LinkTypeOK
    <3> HIDE DEF old
    <3> QED
      BY <3>1, <3>2, RouteKeepsRow
  <2> QED
    BY <2>1, <2>2
<1>3. CASE BrokerReceive
  <2>1. /\ Head(toBroker) \in Message /\ Route(<<Head(toBroker)>>)
        /\ UNCHANGED <<serverConnected, subscribed, resubscribe, status, upsertFailed>>
    BY <1>0, <1>3 DEF BrokerReceive, LinkTypeOK, hist
  <2> QED
    BY <2>1, RouteKeepsRow
<1>4. ASSUME NEW s \in sessions, BrokerDetect(s) PROVE StatusIsRetained'
  <2>1. /\ s.will \in Message /\ Route(<<s.will>>)
        /\ UNCHANGED <<serverConnected, subscribed, resubscribe, status, upsertFailed>>
    BY <1>0, <1>4 DEF BrokerDetect, LinkTypeOK, hist
  <2> QED
    BY <2>1, RouteKeepsRow
<1>5. CASE ServerConnect
  BY <1>5 DEF ServerConnect, StatusIsRetained
<1>6. CASE Subscribe
  <2>1. retained' = retained /\ (retained # None => retained \in Message)
    BY <1>0, <1>6 DEF Subscribe, broker, LinkTypeOK
  <2>2. retained # None => toServer' = Append(toServer, retained)
    BY <1>6 DEF Subscribe
  <2>3. retained # None => toServer' # <<>> /\ Last(toServer') = retained
    <3>1. \A m \in Message : Append(toServer, m) # <<>> /\ Last(Append(toServer, m)) = m
      BY <1>0, LastOfQueue
    <3> QED
      BY <2>1, <2>2, <3>1
  <2> QED
    BY <2>1, <2>3 DEF StatusIsRetained
<1>7. ASSUME NEW ok \in BOOLEAN, OnStatus(ok) PROVE StatusIsRetained'
  <2>1. /\ toServer # <<>> /\ toServer' = Tail(toServer)
        /\ upsertFailed' = ~ok /\ (ok => status' = Head(toServer))
        /\ UNCHANGED <<serverConnected, subscribed, resubscribe, retained>>
    BY <1>7 DEF OnStatus, UpsertStatus, broker
  <2>2. IF Tail(toServer) = <<>> THEN Head(toServer) = Last(toServer)
                                 ELSE Last(Tail(toServer)) = Last(toServer)
    BY <1>0, <2>1, LastOfQueue
  <2> QED
    BY <2>1, <2>2 DEF StatusIsRetained
<1>8. CASE BrokerCrash \/ ServerLoss
  BY <1>8 DEF BrokerCrash, ServerLoss, DropServer, StatusIsRetained
<1> QED
  BY <1>1, <1>2, <1>3, <1>4, <1>5, <1>6, <1>7, <1>8
     DEF Next, Node, Broker, Server, HandleStatus, Faults

\* Once the server has resubscribed and handled what was sent to it, its row is the
\* broker's retained status, or the last upsert failed, for every number of faults
\* and whatever was queued, dropped or sent twice.
THEOREM RowIsRetained == Spec => []StatusIsRetained
<1>1. Init => StatusIsRetained
  BY DEF Init, StatusIsRetained
<1> QED
  BY <1>1, NextRow, LinkConsistent, TypeCorrect, PTL DEF Spec

-----------------------------------------------------------------------------
\* Messages that name no later power-up than b.
Until(b) == {m \in Message : m.boot <= b}

\* Nothing on its way to the server names a power-up that the topic has not named.
OrderInv ==
    /\ Queues(Until(retained.boot))
    /\ status.boot <= retained.boot

LEMMA InitOrder == Init => OrderInv
<1>1. \A S : <<>> \in Seq(S)
  OBVIOUS
<1> QED
  BY <1>1 DEF Init, OrderInv, Queues, None

LEMMA NextOrder ==
    LinkInv /\ TypeOK /\ OrderInv /\ [Next]_vars => OrderInv'
<1> SUFFICES ASSUME LinkInv, TypeOK, OrderInv, [Next]_vars PROVE OrderInv'
  OBVIOUS
<1>0. PICK S : S = Until(retained'.boot)
  OBVIOUS
<1>1. LinkTypeOK /\ LinkTypeOK'
  BY NextLink DEF LinkInv
<1>2. retained.boot \in Int /\ retained'.boot \in Int /\ status.boot \in Int
  BY <1>1 DEF LinkTypeOK, TypeOK, Message, None
<1>3. retained.boot <= retained'.boot
  BY BootMonotone
<1>4. Until(retained.boot) \subseteq S /\ S \in SUBSET Message
  BY <1>0, <1>2, <1>3 DEF Until, Message
<1>5. /\ retained # None => retained \in S
      /\ retained' # None => retained' \in S
  BY <1>0, <1>1, <1>2, <1>3 DEF LinkTypeOK, Until
<1>6. Queues(S)
  <2>1. \A q \in Seq(Until(retained.boot)) : q \in Seq(S)
    BY <1>4
  <2> QED
    BY <2>1 DEF OrderInv, Queues
<1>7. Queues(S)' /\ (status' = status \/ status' \in S)
  BY <1>4, <1>5, <1>6, QueuesStep
<1>8. status'.boot <= retained'.boot
  BY <1>0, <1>2, <1>3, <1>7 DEF Until, OrderInv
<1> QED
  BY <1>0, <1>7, <1>8 DEF OrderInv, Queues, Until

LEMMA BoardStep ==
    LinkInv /\ TypeOK /\ OrderInv /\ [Next]_vars => [Board!Next]_Board!vars
<1> SUFFICES ASSUME LinkInv, TypeOK, OrderInv, [Next]_vars
             PROVE  Board!Next \/ UNCHANGED Board!vars
  OBVIOUS
<1>0. LinkTypeOK /\ LinkTypeOK'
  BY NextLink DEF LinkInv
<1>b. /\ boot \in Nat /\ retained.boot \in Nat /\ retained.boot <= boot
      /\ \A s \in sessions : /\ ~s.will.online /\ s.will.online \in BOOLEAN
                              /\ s.will.boot \in retained.boot..boot
  BY <1>0 DEF LinkInv, LinkTypeOK, Message, None
<1> DEFINE old == {s \in sessions : s.client = ClientId}
<1>1. CASE \/ EnsureWifi \/ SntpSync \/ FinalizeStatus \/ NodeDetect \/ BrokerStart
           \/ ServerConnect \/ Subscribe \/ Acknowledge \/ ServerLoss
           \/ DeliverReading \/ UNCHANGED vars
  <2>1. UNCHANGED <<boot, tcp, retained, status>>
    BY <1>1 DEF EnsureWifi, SntpSync, FinalizeStatus, NodeDetect, BrokerStart,
       ServerConnect, Subscribe, Acknowledge, ServerLoss, DeliverReading, vars, node,
       broker, server
  <2> QED
    BY <2>1 DEF Board!vars, SeenAs
<1>2. CASE PowerUp
  <2>1. ~tcp /\ boot' = boot + 1 /\ UNCHANGED <<tcp, retained, status>>
    BY <1>2 DEF PowerUp, LinkInv, broker, server
  <2> QED
    BY <2>1 DEF Board!Next, Board!PowerUp, SeenAs
<1>3. CASE PowerLoss \/ LinkLoss \/ BrokerCrash
  <2>1. tcp' = FALSE /\ UNCHANGED <<boot, retained, status>>
    BY <1>3 DEF PowerLoss, LinkLoss, BrokerCrash, CutConnection, node, server
  <2>2. tcp \in BOOLEAN
    BY <1>0 DEF LinkTypeOK
  <2> QED
    BY <2>1, <2>2 DEF Board!Next, Board!Disconnect, Board!vars, SeenAs
<1>4. CASE MqttConnect
  <2>1. CASE ~brokerUp
    BY <1>4, <2>1 DEF MqttConnect, Board!vars, SeenAs
  <2>2. CASE brokerUp
    <3>1. ~tcp /\ tcp' = TRUE /\ UNCHANGED <<boot, status>> /\ Route(WillOf(old))
      BY <1>4, <2>2 DEF MqttConnect, LinkInv
    <3>2. CASE old = {}
      BY <3>1, <3>2, RouteNone DEF WillOf, Board!Next, Board!Connect, SeenAs
    <3>3. CASE old # {}
      <4>1. PICK s \in sessions : WillOf(old) = <<s.will>>
        BY <3>3 DEF WillOf
      <4>2. retained' = s.will
        BY <1>0, <3>1, <4>1, RouteOne DEF LinkTypeOK
      <4>3. SeenAs(retained') = [online |-> FALSE, boot |-> s.will.boot]
        BY <1>b, <4>2 DEF SeenAs
      <4> QED
        BY <1>b, <3>1, <4>3 DEF Board!Next, Board!Connect, Board!Withdrawn, Board!Entry,
                                SeenAs
    <3> QED
      BY <3>2, <3>3
  <2> QED
    BY <2>1, <2>2
<1>5. CASE BrokerReceive
  <2>1. /\ tcp /\ UNCHANGED <<boot, tcp, status>>
        /\ Head(toBroker).online /\ Head(toBroker).boot = boot
        /\ Head(toBroker) \in Message
    BY <1>0, <1>5 DEF BrokerReceive, node, LinkInv, LinkTypeOK
  <2>2. retained' = Head(toBroker)
    BY <1>5, <2>1, RouteOne DEF BrokerReceive
  <2>3. SeenAs(retained') = [online |-> TRUE, boot |-> boot]
    BY <2>1, <2>2 DEF SeenAs, Message
  <2> QED
    BY <2>1, <2>3 DEF Board!Next, Board!Announce, Board!Entry, SeenAs
<1>6. ASSUME NEW s \in sessions, BrokerDetect(s) PROVE Board!Next
  <2>1. ~tcp /\ UNCHANGED <<boot, tcp, status>>
    BY <1>6 DEF BrokerDetect, node, LinkInv
  <2>2. retained' = s.will
    BY <1>0, <1>6, RouteOne DEF BrokerDetect, LinkTypeOK
  <2>3. SeenAs(retained') = [online |-> FALSE, boot |-> s.will.boot]
    BY <1>b, <2>2 DEF SeenAs
  <2> QED
    BY <1>b, <2>1, <2>3 DEF Board!Next, Board!Withdraw, Board!Withdrawn, Board!Entry,
                            SeenAs
<1>7. ASSUME NEW ok \in BOOLEAN, OnStatus(ok)
      PROVE  Board!Next \/ UNCHANGED Board!vars
  <2>1. /\ UNCHANGED <<boot, tcp, retained>> /\ toServer # <<>>
        /\ status' = status \/ status' = Head(toServer)
    BY <1>7 DEF OnStatus, UpsertStatus, node, broker
  <2>2. CASE status' = status
    BY <2>1, <2>2 DEF Board!vars, SeenAs
  <2>3. CASE status' = Head(toServer)
    <3>1. status' \in Until(retained.boot)
      BY <2>1, <2>3 DEF OrderInv, Queues
    <3>2. status'.online \in BOOLEAN /\ status'.boot \in 0..retained.boot
      BY <1>b, <3>1 DEF Until, Message
    <3> QED
      BY <2>1, <3>2 DEF Board!Next, Board!Show, Board!Entry, SeenAs
  <2> QED
    BY <2>1, <2>2, <2>3
<1> QED
  BY <1>1, <1>2, <1>3, <1>4, <1>5, <1>6, <1>7
     DEF Next, Node, Broker, Server, HandleStatus, Faults

\* The link implements the board: for every number of power-ups and faults, the
\* topic says online only of the present power-up and only by the connected node, is
\* withdrawn only while that is not connected, and the row names no power-up that the
\* topic has not named.
THEOREM Implementation == Spec => ImplementsBoard
<1>1. Init => Board!Init
  BY DEF Init, Board!Init, Board!Entry, SeenAs, None
<1>2. LinkInv /\ TypeOK /\ OrderInv /\ [Next]_vars => (LinkInv /\ TypeOK /\ OrderInv)'
  BY NextLink, NextType, NextOrder
<1> QED
  BY <1>1, <1>2, InitLink, InitType, InitOrder, BoardStep, PTL
     DEF Spec, Board!Spec, ImplementsBoard
=============================================================================
