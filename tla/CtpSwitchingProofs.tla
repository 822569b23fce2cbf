-------------------------- MODULE CtpSwitchingProofs --------------------------
(***************************************************************************)
(* No message is lost and no kernel stops while the pairs change their     *)
(* switching mode, for any number of PEs, tasks, pairs and subnets, when   *)
(* the NoC manager finds the paths it is asked for.                        *)
(*                                                                         *)
(* The inductive invariant follows each managed pair through the change of *)
(* its mode: a stage is the mode the pair is changing to and the place the *)
(* order is at.  The stage fixes the orders in flight, the ones kept in    *)
(* the TCBs and the CTPs of both ends.                                     *)
(***************************************************************************)
EXTENDS CtpSwitching, QueueLemmas

-----------------------------------------------------------------------------
(* The stages of a change of mode *)

\* The order is in a packet, kept in the TCB, or has been concluded.
Place == OrderService \cup {"kept", "concluded"}
Stage == [cs_mode : BOOLEAN, place : Place]
At(mode, place) == [cs_mode |-> mode, place |-> place]

\* What the QoS manager knows of a pair in stage g.
QosOf(g) == IF g.place = "concluded" THEN IF g.cs_mode THEN "cs" ELSE "ps"
                                     ELSE IF g.cs_mode THEN "entering" ELSE "leaving"

\* Before the consumer has obeyed, and before the producer has.
Ordered == {"SET_NOC_SWITCHING_CONSUMER", "kept"}
Halfway == Ordered \cup {"SET_NOC_SWITCHING_PRODUCER"}

\* The ends that have a CTP; the consumer's is not enabled until the producer's is known.
Has(g, op) == g.cs_mode <=> g.place \notin IF op = "send" THEN Halfway ELSE Ordered
Enabled(g, op) ==
    /\ Has(g, op)
    /\ op = "receive" => g.place \notin {"SET_NOC_SWITCHING_PRODUCER", "NOC_SWITCHING_PRODUCER_ACK"}

-----------------------------------------------------------------------------
(* Packets *)

Message == [service : {"MESSAGE_REQUEST", "MESSAGE_DELIVERY"}, producer : Task, consumer : Task]
AnOrder == [service : OrderService, producer : Task, consumer : Task, cs_mode : BOOLEAN,
            cs_net : Subnet \cup {NoSubnet}]
Packet == Message \cup AnOrder

IsOrder(m) == m.service \in OrderService
Pair(m) == <<m.producer, m.consumer>>
Key == [m \in Packet |-> <<m.producer, m.consumer, IsOrder(m)>>]

\* The link of the pair's answers and the link of its requests.
Forth(e) == <<Home[e[1]], Home[e[2]]>>
Back(e)  == <<Home[e[2]], Home[e[1]]>>

RequestOf(e) == Request(e[1], e[2])
DeliveryOf(e) == Delivery(e[1], e[2])

\* The order of a pair whose change is at stage g, on the link it travels.
LinkOf(e, place) ==
    CASE place = "SET_NOC_SWITCHING_CONSUMER" -> <<Manager, Home[e[2]]>>
      [] place = "SET_NOC_SWITCHING_PRODUCER" -> Back(e)
      [] place = "NOC_SWITCHING_PRODUCER_ACK" -> Forth(e)
      [] place = "NOC_SWITCHING_CTP_CONCLUDED" -> <<Home[e[2]], Manager>>

NetOf(g, s) == IF ~g.cs_mode /\ g.place = "SET_NOC_SWITCHING_CONSUMER" THEN NoSubnet ELSE s
OrderOf(e, g, s) == Order(g.place, e[1], e[2], g.cs_mode, NetOf(g, s))

\* Where the order of a change, and where the message of a pair, may be found.
OrderPlaced(x, stage, subnet) ==
    LET e == Pair(x[2])
    IN  /\ e \in Managed /\ stage[e].place = x[2].service
        /\ x = <<LinkOf(e, stage[e].place), OrderOf(e, stage[e], subnet[e])>>
MessagePlaced(x) ==
    LET e == Pair(x[2])
    IN  e \in Edge /\ x \in {<<Back(e), RequestOf(e)>>, <<Forth(e), DeliveryOf(e)>>}

\* The network net carries the orders the stages say, and the messages of edges.
NetInv(net, stage, subnet) ==
    /\ net \in [Link -> Seq(Packet)]
    /\ Once(net, Key)
    /\ \A x \in Items(net) : IF IsOrder(x[2]) THEN OrderPlaced(x, stage, subnet)
                                              ELSE MessagePlaced(x)

\* The order o is on its way to the producer of e, ahead of the request if there is one.
Ahead(net, e, o, asked) ==
    /\ <<Back(e), o>> \in Items(net)
    /\ asked => Before(net[Back(e)], o, RequestOf(e))

\* While the order is on its way to the producer, the consumer has no request or
\* only one that follows it on the same link.
OrderFirst(net, stage, subnet, waits) ==
    \A e \in Managed : stage[e].place = "SET_NOC_SWITCHING_PRODUCER" =>
        Ahead(net, e, OrderOf(e, stage[e], subnet[e]), e \in waits)

-----------------------------------------------------------------------------
(* The tables of CTPs and the orders kept in the TCBs *)

\* The part of TypeOK about the tables.
CtpRecord == [producer_task : Task \cup {NoTask}, consumer_task : Task \cup {NoTask},
              dmni_op : {"none", "send", "receive"},
              subnet : Subnet \cup {NoSubnet, Garbage}, CS_enabled : BOOLEAN]
CtpTyped ==
    /\ ctp \in [PE -> [Slot -> CtpRecord]]
    /\ \A d \in PE : \A i \in Slot :
        /\ ctp[d][i].subnet = NoSubnet <=> ctp[d][i].dmni_op = "none"
        /\ ctp[d][i].CS_enabled => ctp[d][i].subnet # NoSubnet

Used(d, i) == ctp[d][i].subnet # NoSubnet
CtpPair(d, i) == <<ctp[d][i].producer_task, ctp[d][i].consumer_task>>

\* The pairs of one subnet have no end in common.
PathsApart ==
    \A e, f \in Managed : path[e] = path[f] /\ path[e] # NoSubnet /\ e # f =>
        Home[e[1]] # Home[f[1]] /\ Home[e[2]] # Home[f[2]]

\* The end of a pair where the CTP of operation op is.
End(e, op) == Home[IF op = "send" THEN e[1] ELSE e[2]]
Ops == {"send", "receive"}

CtpShape(stage) ==
    \A d \in PE : \A i \in Slot : Used(d, i) =>
        LET e == CtpPair(d, i)
            op == ctp[d][i].dmni_op
        IN  /\ e \in Managed /\ ctp[d][i].subnet = path[e]
            /\ op \in Ops /\ d = End(e, op) /\ Has(stage[e], op)
            /\ ctp[d][i].CS_enabled = Enabled(stage[e], op)

CtpExists(stage) ==
    \A e \in Managed : \A op \in Ops :
        Has(stage[e], op) => SlotsOf(End(e, op), path[e], op) # {}

CtpOnce ==
    \A d \in PE : \A i, j \in Slot :
        Used(d, i) /\ ctp[d][i].subnet = ctp[d][j].subnet /\ ctp[d][i].dmni_op = ctp[d][j].dmni_op
            => i = j

TableInv(stage) == PathsApart /\ CtpShape(stage) /\ CtpExists(stage) /\ CtpOnce

\* An order is kept for a task that waits, and there is one at most.
KeptInv(stage) ==
    \A c \in Task :
        /\ add_ctp[c] # NoOrder =>
             LET e == <<add_ctp[c].producer, c>>
             IN  /\ e \in Managed /\ stage[e] = At(TRUE, "kept")
                 /\ add_ctp[c].subnet = path[e] /\ waiting[c] # NoTask
        /\ remove_ctp[c] # NoTask =>
             LET e == <<remove_ctp[c], c>>
             IN  e \in Managed /\ stage[e] = At(FALSE, "kept") /\ waiting[c] # NoTask

\* The QoS manager knows the stage, and holds a path until it is given back.
QosInv(stage) ==
    \A e \in Managed : /\ qos[e] = QosOf(stage[e])
                       /\ (path[e] = NoSubnet) <=> (stage[e] = At(FALSE, "concluded"))

-----------------------------------------------------------------------------
(* Where the request or the answer of a pair is *)

MessagesIn(net) == {Pair(x[2]) : x \in {y \in Items(net) : ~IsOrder(y[2])}}
Waits == {e \in Edge : waiting[e[2]] = e[1]}
InNet == MessagesIn(ps_net)
InPending == {x[2] : x \in Items(pending)}
InTable == UNION {message_request[d] : d \in PE}
OnWire == {e \in Managed : <<Home[e[1]], path[e]>> \in wire}
OnLine == {line[k] : k \in DOMAIN line}

Partition(W, N, P, T, R, L) ==
    /\ W = N \cup P \cup T \cup R \cup L
    /\ N \cap (P \cup T \cup R \cup L) = {}
    /\ P \cap (T \cup R \cup L) = {}
    /\ T \cap (R \cup L) = {}
    /\ R \cap L = {}

\* A consumer that waits has its request or its answer in exactly one place.
Conservation == Partition(Waits, InNet, InPending, InTable, OnWire, OnLine)

EdgeKey == [e \in Edge |-> e]

AtProducers ==
    /\ pending \in [PE -> Seq(Edge)] /\ Once(pending, EdgeKey)
    /\ \A x \in Items(pending) : x[1] = Home[x[2][1]]
    /\ \A d \in PE : \A e \in message_request[d] : d = Home[e[1]]

\* The wires and the circuits are those of the paths, and the CTPs are there.
CircuitInv(stage) ==
    /\ \A k \in wire : \E e \in Managed : k = <<Home[e[1]], path[e]>> /\ Enabled(stage[e], "receive")
    /\ \A k \in DOMAIN line : /\ line[k] \in Managed /\ k = <<Home[line[k][2]], path[line[k]]>>
                              /\ \A op \in Ops : Has(stage[line[k]], op)

\* A pair is one message ahead exactly while the answer is on its way.
InAnswers(net) == {e \in Edge : <<Forth(e), DeliveryOf(e)>> \in Items(net)}
Answers == InAnswers(ps_net) \cup OnLine
OneAhead == \A e \in Edge : put[e] = IF e \in Answers THEN got[e] + 1 ELSE got[e]

-----------------------------------------------------------------------------
(* The inductive invariant *)

\* The types of the variables that are not typed above.
Typed ==
    /\ add_ctp \in [Task -> [subnet : Subnet \cup {NoSubnet, Garbage}, producer : Task \cup {NoTask}]]
    /\ remove_ctp \in [Task -> Task \cup {NoTask}]
    /\ waiting \in [Task -> Task \cup {NoTask}]
    /\ message_request \in [PE -> SUBSET Edge]
    /\ wire \subseteq PE \X Subnet /\ DOMAIN line \subseteq PE \X Subnet
    /\ path \in [Managed -> Subnet \cup {NoSubnet}]
    /\ qos \in [Managed -> {"ps", "entering", "cs", "leaving"}]
    /\ put \in [Edge -> Nat] /\ got \in [Edge -> Nat]

Inv(stage) ==
    /\ CtpTyped /\ Typed /\ NoErrorLoop
    /\ NetInv(ps_net, stage, path) /\ OrderFirst(ps_net, stage, path, Waits)
    /\ TableInv(stage) /\ KeptInv(stage) /\ QosInv(stage)
    /\ Conservation /\ AtProducers /\ CircuitInv(stage) /\ OneAhead

IInv == \E stage \in [Managed -> Stage] : Inv(stage)

-----------------------------------------------------------------------------
(* Lemmas about the packets *)

\* The ends of a pair are tasks on two PEs, and its links are two.
LEMMA EdgeFacts ==
    ASSUME NEW e \in Edge
    PROVE  /\ e[1] \in Task /\ e[2] \in Task /\ e = <<e[1], e[2]>>
           /\ Home[e[1]] \in PE /\ Home[e[2]] \in PE /\ Home[e[1]] # Home[e[2]]
           /\ Back(e) \in Link /\ Forth(e) \in Link /\ Back(e) # Forth(e)
BY SystemAssumption DEF Back, Forth, Link, Node

\* The managed pairs are edges, and have different consumers.
LEMMA ManagedFacts ==
    ASSUME NEW e \in Managed
    PROVE  /\ e \in Edge
           /\ \A f \in Managed : e[2] = f[2] => e = f
BY SystemAssumption

\* The request and the answer of a pair are packets, and no orders.
LEMMA MessageFacts ==
    ASSUME NEW e \in Edge
    PROVE  /\ RequestOf(e) \in Packet /\ ~IsOrder(RequestOf(e)) /\ Pair(RequestOf(e)) = e
           /\ DeliveryOf(e) \in Packet /\ ~IsOrder(DeliveryOf(e)) /\ Pair(DeliveryOf(e)) = e
           /\ RequestOf(e).service = "MESSAGE_REQUEST"
           /\ DeliveryOf(e).service = "MESSAGE_DELIVERY"
           /\ RequestOf(e) # DeliveryOf(e)
BY EdgeFacts DEF RequestOf, DeliveryOf, Request, Delivery, Packet, Message, IsOrder, OrderService,
                 Pair

\* The order of a change is a packet, and its link is one of the network.
LEMMA OrderFacts ==
    ASSUME NEW e \in Managed, NEW g \in Stage, g.place \in OrderService,
           NEW s \in Subnet \cup {NoSubnet}
    PROVE  /\ OrderOf(e, g, s) \in Packet /\ IsOrder(OrderOf(e, g, s))
           /\ Pair(OrderOf(e, g, s)) = e
           /\ OrderOf(e, g, s).service = g.place /\ OrderOf(e, g, s).cs_mode = g.cs_mode
           /\ OrderOf(e, g, s).producer = e[1] /\ OrderOf(e, g, s).consumer = e[2]
           /\ OrderOf(e, g, s).cs_net = NetOf(g, s)
           /\ LinkOf(e, g.place) \in Link
<1>1. e[1] \in Task /\ e[2] \in Task /\ e = <<e[1], e[2]>> /\ Home[e[2]] \in PE
  BY EdgeFacts, ManagedFacts
<1>2. NetOf(g, s) \in Subnet \cup {NoSubnet} /\ g.cs_mode \in BOOLEAN
  BY DEF NetOf, Stage
<1>3. OrderOf(e, g, s) \in AnOrder
  BY <1>1, <1>2 DEF OrderOf, Order, AnOrder
<1>4. LinkOf(e, g.place) \in Link
  BY <1>1, EdgeFacts, ManagedFacts DEF OrderService, LinkOf, Link, Node
<1>5. QED BY <1>1, <1>3, <1>4 DEF OrderOf, Order, Packet, IsOrder, Pair

\* Two packets have one key when they are of one pair, both orders or neither.
LEMMA KeyFacts ==
    ASSUME NEW m \in Packet, NEW n \in Packet
    PROVE  /\ Pair(m) \in Task \X Task
           /\ Key[m] = Key[n] <=> Pair(m) = Pair(n) /\ (IsOrder(m) <=> IsOrder(n))
<1>1. m.producer \in Task /\ m.consumer \in Task /\ n.producer \in Task /\ n.consumer \in Task
  BY DEF Packet, Message, AnOrder
<1>2. IsOrder(m) \in BOOLEAN /\ IsOrder(n) \in BOOLEAN
  BY DEF IsOrder
<1>3. QED BY <1>1, <1>2 DEF Key, Pair

\* A packet is never both, and the pairs of all are known.
LEMMA NetPacket ==
    ASSUME NEW net, NEW stage, NEW subnet, NetInv(net, stage, subnet), NEW x \in Items(net)
    PROVE  /\ x[1] \in Link /\ x[2] \in Packet /\ x = <<x[1], x[2]>>
           /\ IsOrder(x[2]) => OrderPlaced(x, stage, subnet)
           /\ ~IsOrder(x[2]) => MessagePlaced(x)
BY ItemAt DEF NetInv

\* A request or an answer joins the network.
LEMMA PutMessage ==
    ASSUME NEW net, NEW stage, NEW subnet, NetInv(net, stage, subnet),
           NEW e \in Edge, e \notin MessagesIn(net),
           NEW l, NEW m, <<l, m>> \in {<<Back(e), RequestOf(e)>>, <<Forth(e), DeliveryOf(e)>>}
    PROVE  /\ NetInv(Put(net, l, m), stage, subnet)
           /\ Items(Put(net, l, m)) = Items(net) \cup {<<l, m>>}
           /\ MessagesIn(Put(net, l, m)) = MessagesIn(net) \cup {e}
<1>1. l \in Link /\ m \in Packet /\ ~IsOrder(m) /\ Pair(m) = e
  BY EdgeFacts, MessageFacts
<1>2. \A x \in Items(net) : Key[x[2]] # Key[m]
  <2>1. SUFFICES ASSUME NEW x \in Items(net), Key[x[2]] = Key[m] PROVE FALSE
    OBVIOUS
  <2>2. ~IsOrder(x[2]) /\ Pair(x[2]) = e
    BY <1>1, <2>1, NetPacket, KeyFacts
  <2>3. QED BY <2>2 DEF MessagesIn
<1>3. net \in [Link -> Seq(Packet)] /\ Once(net, Key)
  BY DEF NetInv
<1>4. /\ Put(net, l, m) \in [Link -> Seq(Packet)]
      /\ Items(Put(net, l, m)) = Items(net) \cup {<<l, m>>}
      /\ Once(Put(net, l, m), Key)
  BY <1>1, <1>2, <1>3, PutItem
<1>5. MessagePlaced(<<l, m>>)
  BY <1>1 DEF MessagePlaced
<1>6. MessagesIn(Put(net, l, m)) = MessagesIn(net) \cup {e}
  <2> DEFINE N == Items(net)
             M == Items(Put(net, l, m))
  <2>1. M = N \cup {<<l, m>>} /\ <<l, m>>[2] = m
    BY <1>4
  <2> HIDE DEF N, M
  <2>2. {Pair(x[2]) : x \in {y \in M : ~IsOrder(y[2])}}
          = {Pair(x[2]) : x \in {y \in N : ~IsOrder(y[2])}} \cup {e}
    BY <1>1, <2>1
  <2>3. QED BY <2>2 DEF M, N, MessagesIn
<1>7. \A x \in Items(Put(net, l, m)) : IF IsOrder(x[2]) THEN OrderPlaced(x, stage, subnet)
                                                       ELSE MessagePlaced(x)
  <2>1. SUFFICES ASSUME NEW x \in Items(Put(net, l, m))
                 PROVE  IF IsOrder(x[2]) THEN OrderPlaced(x, stage, subnet) ELSE MessagePlaced(x)
    OBVIOUS
  <2>2. CASE x \in Items(net)
    BY <2>2, NetPacket
  <2>3. CASE x = <<l, m>>
    BY <1>1, <1>5, <2>3
  <2>4. QED BY <1>4, <2>2, <2>3
<1>8. QED BY <1>4, <1>6, <1>7 DEF NetInv

\* A request or an answer leaves the network.
LEMMA TakeMessage ==
    ASSUME NEW net, NEW stage, NEW subnet, NetInv(net, stage, subnet),
           NEW l \in Link, net[l] # <<>>, ~IsOrder(Head(net[l]))
    PROVE  LET m == Head(net[l])
               e == Pair(m)
           IN  /\ e \in Edge /\ e \in MessagesIn(net) /\ m \in Packet
               /\ <<l, m>> \in Items(net)
               /\ <<l, m>> \in {<<Back(e), RequestOf(e)>>, <<Forth(e), DeliveryOf(e)>>}
               /\ NetInv(Drop(net, l), stage, subnet)
               /\ Items(Drop(net, l)) = Items(net) \ {<<l, m>>}
               /\ MessagesIn(Drop(net, l)) = MessagesIn(net) \ {e}
<1> DEFINE m == Head(net[l])
           e == Pair(m)
<1>1. net \in [Link -> Seq(Packet)] /\ Once(net, Key)
  BY DEF NetInv
<1>2. /\ m \in Packet /\ <<l, m>> \in Items(net)
      /\ Drop(net, l) \in [Link -> Seq(Packet)]
      /\ Items(Drop(net, l)) = Items(net) \ {<<l, m>>}
      /\ Once(Drop(net, l), Key)
  BY <1>1, DropItem
<1> HIDE DEF m
<1>3. ~IsOrder(m)
  BY DEF m
<1>4. MessagePlaced(<<l, m>>)
  BY <1>2, <1>3, NetPacket
<1>5. e \in MessagesIn(net)
  BY <1>2, <1>3 DEF MessagesIn
<1>6. \A x \in Items(net) : ~IsOrder(x[2]) /\ Pair(x[2]) = e => x = <<l, m>>
  <2>1. SUFFICES ASSUME NEW x \in Items(net), ~IsOrder(x[2]), Pair(x[2]) = e PROVE x = <<l, m>>
    OBVIOUS
  <2>2. x[2] \in Packet
    BY NetPacket
  <2>3. Key[x[2]] = Key[m]
    BY <1>2, <1>3, <2>1, <2>2, KeyFacts
  <2>4. QED BY <1>1, <1>2, <2>3, SameItem
<1>7. MessagesIn(Drop(net, l)) = MessagesIn(net) \ {e}
  BY <1>2, <1>3, <1>6 DEF MessagesIn
<1>8. NetInv(Drop(net, l), stage, subnet)
  BY <1>2 DEF NetInv
<1>9. QED BY <1>2, <1>4, <1>5, <1>7, <1>8 DEF MessagePlaced, m

NoOrderOf(net, e) == \A x \in Items(net) : IsOrder(x[2]) => Pair(x[2]) # e

\* A change whose order is in no packet.
LEMMA NotInNet ==
    ASSUME NEW net, NEW stage, NEW subnet, NetInv(net, stage, subnet), NEW e,
           stage[e].place \notin OrderService
    PROVE  NoOrderOf(net, e)
<1>1. SUFFICES ASSUME NEW x \in Items(net), IsOrder(x[2]), Pair(x[2]) = e PROVE FALSE
  BY DEF NoOrderOf
<1>2. stage[e].place = x[2].service
  BY <1>1, NetPacket DEF OrderPlaced
<1>3. QED BY <1>1, <1>2 DEF IsOrder

\* The network does not see a change of stage, or of path, of a pair without order.
LEMMA Restage ==
    ASSUME NEW net, NEW stage, NEW subnet, NetInv(net, stage, subnet),
           NEW e, NoOrderOf(net, e), NEW stage2, NEW subnet2,
           \A f \in Managed : f # e => stage2[f] = stage[f] /\ subnet2[f] = subnet[f]
    PROVE  NetInv(net, stage2, subnet2)
<1>1. ASSUME NEW x \in Items(net)
      PROVE  IF IsOrder(x[2]) THEN OrderPlaced(x, stage2, subnet2) ELSE MessagePlaced(x)
  <2>1. CASE IsOrder(x[2])
    <3>1. OrderPlaced(x, stage, subnet) /\ Pair(x[2]) # e
      BY <2>1, NetPacket DEF NoOrderOf
    <3>2. QED BY <2>1, <3>1 DEF OrderPlaced
  <2>2. CASE ~IsOrder(x[2])
    BY <2>2, NetPacket
  <2>3. QED BY <2>1, <2>2
<1>2. QED BY <1>1 DEF NetInv

\* An order leaves the network, and it was the only one of its pair.
LEMMA TakeOrder ==
    ASSUME NEW net, NEW stage, NEW subnet, NetInv(net, stage, subnet),
           NEW l \in Link, net[l] # <<>>, IsOrder(Head(net[l]))
    PROVE  LET m == Head(net[l])
               e == Pair(m)
           IN  /\ e \in Managed /\ m \in Packet /\ stage[e].place = m.service
               /\ m.service \in OrderService
               /\ l = LinkOf(e, stage[e].place) /\ m = OrderOf(e, stage[e], subnet[e])
               /\ NetInv(Drop(net, l), stage, subnet) /\ NoOrderOf(Drop(net, l), e)
               /\ Items(Drop(net, l)) = Items(net) \ {<<l, m>>}
               /\ MessagesIn(Drop(net, l)) = MessagesIn(net)
<1> DEFINE m == Head(net[l])
           e == Pair(m)
<1>1. net \in [Link -> Seq(Packet)] /\ Once(net, Key)
  BY DEF NetInv
<1>2. /\ m \in Packet /\ <<l, m>> \in Items(net)
      /\ Drop(net, l) \in [Link -> Seq(Packet)]
      /\ Items(Drop(net, l)) = Items(net) \ {<<l, m>>}
      /\ Once(Drop(net, l), Key)
  BY <1>1, DropItem
<1> HIDE DEF m
<1>3. IsOrder(m)
  BY DEF m
<1>4. OrderPlaced(<<l, m>>, stage, subnet)
  BY <1>2, <1>3, NetPacket
<1>5. NoOrderOf(Drop(net, l), e)
  <2>1. SUFFICES ASSUME NEW x \in Items(net), IsOrder(x[2]), Pair(x[2]) = e PROVE x = <<l, m>>
    BY <1>2 DEF NoOrderOf
  <2>2. x[2] \in Packet
    BY NetPacket
  <2>3. Key[x[2]] = Key[m]
    BY <1>2, <1>3, <2>1, <2>2, KeyFacts
  <2>4. QED BY <1>1, <1>2, <2>3, SameItem
<1>6. MessagesIn(Drop(net, l)) = MessagesIn(net)
  BY <1>2, <1>3 DEF MessagesIn
<1>7. NetInv(Drop(net, l), stage, subnet)
  BY <1>2 DEF NetInv
<1>8. QED BY <1>2, <1>3, <1>4, <1>5, <1>6, <1>7 DEF OrderPlaced, m, IsOrder

\* The order of a pair that has none in the network joins it.
LEMMA PutOrder ==
    ASSUME NEW net, NEW stage, NEW subnet, NetInv(net, stage, subnet),
           NEW e \in Managed, NoOrderOf(net, e), stage[e] \in Stage,
           stage[e].place \in OrderService, subnet[e] \in Subnet \cup {NoSubnet}
    PROVE  LET l == LinkOf(e, stage[e].place)
               m == OrderOf(e, stage[e], subnet[e])
           IN  /\ l \in Link /\ m \in Packet
               /\ NetInv(Put(net, l, m), stage, subnet)
               /\ Items(Put(net, l, m)) = Items(net) \cup {<<l, m>>}
               /\ MessagesIn(Put(net, l, m)) = MessagesIn(net)
<1> DEFINE l == LinkOf(e, stage[e].place)
           m == OrderOf(e, stage[e], subnet[e])
<1>1. /\ l \in Link /\ m \in Packet /\ IsOrder(m) /\ Pair(m) = e /\ m.service = stage[e].place
  BY OrderFacts
<1>2. OrderPlaced(<<l, m>>, stage, subnet)
  BY <1>1 DEF OrderPlaced
<1> HIDE DEF l, m
<1>3. \A x \in Items(net) : Key[x[2]] # Key[m]
  <2>1. SUFFICES ASSUME NEW x \in Items(net), Key[x[2]] = Key[m] PROVE FALSE
    OBVIOUS
  <2>2. IsOrder(x[2]) /\ Pair(x[2]) = e
    BY <1>1, <2>1, NetPacket, KeyFacts
  <2>3. QED BY <2>2 DEF NoOrderOf
<1>4. net \in [Link -> Seq(Packet)] /\ Once(net, Key)
  BY DEF NetInv
<1>5. /\ Put(net, l, m) \in [Link -> Seq(Packet)]
      /\ Items(Put(net, l, m)) = Items(net) \cup {<<l, m>>}
      /\ Once(Put(net, l, m), Key)
  BY <1>1, <1>3, <1>4, PutItem
<1>6. MessagesIn(Put(net, l, m)) = MessagesIn(net)
  BY <1>1, <1>5 DEF MessagesIn
<1>7. \A x \in Items(Put(net, l, m)) : IF IsOrder(x[2]) THEN OrderPlaced(x, stage, subnet)
                                                       ELSE MessagePlaced(x)
  <2>1. SUFFICES ASSUME NEW x \in Items(Put(net, l, m))
                 PROVE  IF IsOrder(x[2]) THEN OrderPlaced(x, stage, subnet) ELSE MessagePlaced(x)
    OBVIOUS
  <2>2. CASE x \in Items(net)
    BY <2>2, NetPacket
  <2>3. CASE x = <<l, m>>
    BY <1>1, <1>2, <2>3
  <2>4. QED BY <1>5, <2>2, <2>3
<1>8. NetInv(Put(net, l, m), stage, subnet)
  BY <1>5, <1>7 DEF NetInv
<1>9. QED BY <1>1, <1>5, <1>6, <1>8 DEF l, m

\* An order stays ahead when another packet joins the network.
LEMMA PutAhead ==
    ASSUME NEW net \in [Link -> Seq(Packet)], NEW e \in Edge, NEW o, NEW asked,
           Ahead(net, e, o, asked), NEW l \in Link, NEW m \in Packet,
           Items(net) \subseteq Items(Put(net, l, m))
    PROVE  Ahead(Put(net, l, m), e, o, asked)
BY EdgeFacts, PutBefore DEF Ahead

\* An order stays ahead when another packet leaves the network.
LEMMA DropAhead ==
    ASSUME NEW net \in [Link -> Seq(Packet)], NEW e \in Edge, NEW o, NEW asked,
           Ahead(net, e, o, asked), NEW l \in Link, net[l] # <<>>, Head(net[l]) # o,
           Items(Drop(net, l)) = Items(net) \ {<<l, Head(net[l])>>}
    PROVE  Ahead(Drop(net, l), e, o, asked)
<1>1. <<Back(e), o>> \in Items(Drop(net, l))
  BY DEF Ahead
<1>2. asked => Before(Drop(net, l)[Back(e)], o, RequestOf(e))
  BY EdgeFacts, DropBefore DEF Ahead
<1>3. QED BY <1>1, <1>2 DEF Ahead

\* What has an order ahead of it is in the network, and not first on its link.
LEMMA OrderBefore ==
    ASSUME NEW net, NEW stage, NEW subnet, NetInv(net, stage, subnet),
           NEW e \in Edge, NEW o, Ahead(net, e, o, TRUE)
    PROVE  /\ <<Back(e), RequestOf(e)>> \in Items(net) /\ e \in MessagesIn(net)
           /\ net[Back(e)] # <<>> => Head(net[Back(e)]) # RequestOf(e)
<1>1. net \in [Link -> Seq(Packet)] /\ Once(net, Key)
  BY DEF NetInv
<1>2. Back(e) \in Link /\ Before(net[Back(e)], o, RequestOf(e))
  BY EdgeFacts DEF Ahead
<1>3. PICK j \in DOMAIN net[Back(e)] : net[Back(e)][j] = RequestOf(e)
  BY <1>2 DEF Before
<1>4. <<Back(e), RequestOf(e)>> \in Items(net)
  BY <1>1, <1>2, <1>3, ItemOf
<1>5. e \in MessagesIn(net)
  BY <1>4, MessageFacts DEF MessagesIn
<1>6. QED BY <1>1, <1>2, <1>4, <1>5, HeadNotLater

-----------------------------------------------------------------------------
(* Lemmas about the tables of CTPs *)

\* The scan of a table stops at a slot of the set it looks for.
LEMMA FirstIn ==
    ASSUME NEW S, S \subseteq Slot, S # {}
    PROVE  First(S) \in S
<1>1. MAX_CTP \in Nat
  BY SystemAssumption, FS_CardinalityType
<1>2. S \subseteq Nat
  BY <1>1 DEF Slot
<1>3. PICK x \in S : \A y \in S : ~(<<y, x>> \in OpToRel(<, Nat))
  BY <1>2, NatLessThanWellFounded, WFMin, Zenon
<1>4. \A y \in S : ~(y < x)
  BY <1>2, <1>3, Zenon DEF OpToRel
<1>5. \A y \in S : x <= y
  BY <1>2, <1>4
<1>6. QED BY <1>5 DEF First

\* An end of a pair is a PE.
LEMMA EndIn ==
    ASSUME NEW e \in Managed, NEW op \in Ops
    PROVE  End(e, op) \in PE
BY ManagedFacts, EdgeFacts DEF End

\* The pairs of one subnet have different ends.
LEMMA EndsApart ==
    ASSUME PathsApart, NEW e \in Managed, NEW f \in Managed, NEW op \in Ops,
           path[e] = path[f], path[e] # NoSubnet, End(e, op) = End(f, op)
    PROVE  e = f
BY DEF PathsApart, End

\* A slot with an operation and the subnet of a pair is the pair's.
LEMMA CtpKnown ==
    ASSUME NEW stage, CtpTyped, TableInv(stage), NEW e \in Managed, NEW op \in Ops,
           NEW i \in SlotsOf(End(e, op), path[e], op)
    PROVE  /\ i \in Slot /\ Used(End(e, op), i) /\ CtpPair(End(e, op), i) = e
           /\ Has(stage[e], op) /\ path[e] # NoSubnet
           /\ ctp[End(e, op)][i].CS_enabled = Enabled(stage[e], op)
<1> DEFINE d == End(e, op)
           f == CtpPair(d, i)
<1>1. d \in PE /\ i \in Slot /\ ctp[d][i].subnet = path[e] /\ ctp[d][i].dmni_op = op
  BY EndIn DEF SlotsOf
<1>2. Used(d, i) /\ path[e] # NoSubnet
  BY <1>1 DEF CtpTyped, Used, Ops
<1>3. /\ f \in Managed /\ path[f] = path[e] /\ d = End(f, op) /\ Has(stage[f], op)
      /\ ctp[d][i].CS_enabled = Enabled(stage[f], op)
  BY <1>1, <1>2 DEF TableInv, CtpShape
<1>4. f = e
  BY <1>2, <1>3, EndsApart DEF TableInv
<1>5. QED BY <1>1, <1>2, <1>3, <1>4

\* Slot i is the one of pair e and operation op, at stage g.
IsCtp(i, e, op, g) ==
    LET d == End(e, op)
    IN  /\ SlotsOf(d, path[e], op) = {i} /\ SlotsOfPair(d, e[1], e[2], op) = {i} /\ First({i}) = i
        /\ ctp[d][i].producer_task = e[1] /\ ctp[d][i].consumer_task = e[2]
        /\ ctp[d][i].subnet = path[e] /\ ctp[d][i].dmni_op = op
        /\ ctp[d][i].CS_enabled = Enabled(g, op) /\ path[e] # NoSubnet

\* The CTP of a pair is in one slot, which every search of the table finds.
LEMMA CtpOf ==
    ASSUME NEW stage, CtpTyped, TableInv(stage), NEW e \in Managed, NEW op \in Ops,
           Has(stage[e], op)
    PROVE  \E i \in Slot : IsCtp(i, e, op, stage[e])
<1> DEFINE d == End(e, op)
<1>1. PICK i \in SlotsOf(d, path[e], op) : TRUE
  BY DEF TableInv, CtpExists
<1>2. /\ i \in Slot /\ Used(d, i) /\ CtpPair(d, i) = e /\ path[e] # NoSubnet
      /\ ctp[d][i].CS_enabled = Enabled(stage[e], op)
  BY CtpKnown
<1>3. d \in PE /\ ctp[d][i].subnet = path[e] /\ ctp[d][i].dmni_op = op
  BY EndIn DEF SlotsOf
<1>4. ctp[d][i].producer_task = e[1] /\ ctp[d][i].consumer_task = e[2]
  BY <1>2 DEF CtpPair
<1>5. \A j \in Slot : ctp[d][j].subnet = path[e] /\ ctp[d][j].dmni_op = op => j = i
  BY <1>2, <1>3 DEF TableInv, CtpOnce
<1>6. SlotsOf(d, path[e], op) = {i}
  BY <1>2, <1>3, <1>5 DEF SlotsOf
<1>7. ASSUME NEW j \in SlotsOfPair(d, e[1], e[2], op) PROVE j = i
  <2>1. j \in Slot /\ Used(d, j) /\ CtpPair(d, j) = <<e[1], e[2]>> /\ ctp[d][j].dmni_op = op
    BY <1>3 DEF SlotsOfPair, Used, CtpTyped, Ops, CtpPair
  <2>2. ctp[d][j].subnet = path[e]
    BY <1>3, <2>1, ManagedFacts, EdgeFacts DEF TableInv, CtpShape
  <2>3. QED BY <1>5, <2>1, <2>2
<1>8. SlotsOfPair(d, e[1], e[2], op) = {i}
  BY <1>2, <1>3, <1>4, <1>7 DEF SlotsOfPair
<1>9. First({i}) = i
  BY <1>2, FirstIn
<1>10. QED BY <1>2, <1>3, <1>4, <1>6, <1>8, <1>9 DEF IsCtp

\* A pair without CTP at an end is found by no search there.
LEMMA NoCtpOf ==
    ASSUME NEW stage, CtpTyped, TableInv(stage), NEW e \in Edge, NEW op \in Ops,
           e \in Managed => ~Has(stage[e], op), NEW d \in PE
    PROVE  /\ SlotsOfPair(d, e[1], e[2], op) = {}
           /\ e \in Managed => SlotsOf(End(e, op), path[e], op) = {}
<1>1. ASSUME NEW i \in SlotsOfPair(d, e[1], e[2], op) PROVE FALSE
  <2>1. i \in Slot /\ Used(d, i) /\ CtpPair(d, i) = e /\ ctp[d][i].dmni_op = op
    BY EdgeFacts DEF SlotsOfPair, Used, CtpTyped, Ops, CtpPair
  <2>2. QED BY <2>1 DEF TableInv, CtpShape
<1>2. QED BY <1>1, CtpKnown

\* get_subnet finds the path of a pair whose CTP is enabled, and no other.
LEMMA SubnetOf ==
    ASSUME NEW stage, CtpTyped, TableInv(stage), NEW e \in Edge, NEW op \in Ops
    PROVE  get_subnet(End(e, op), e[1], e[2], op) =
              IF e \in Managed /\ Enabled(stage[e], op) THEN path[e] ELSE NoSubnet
<1>1. End(e, op) \in PE
  BY EdgeFacts DEF End
<1>2. \A g : Enabled(g, op) => Has(g, op)
  BY DEF Enabled, Has, Ordered
<1>3. CASE e \in Managed /\ Has(stage[e], op)
  <2>1. PICK i \in Slot : IsCtp(i, e, op, stage[e])
    BY <1>3, CtpOf
  <2>2. QED BY <1>3, <2>1 DEF get_subnet, IsCtp
<1>4. CASE ~(e \in Managed /\ Has(stage[e], op))
  <2>1. SlotsOfPair(End(e, op), e[1], e[2], op) = {}
    BY <1>1, <1>4, NoCtpOf
  <2>2. QED BY <1>2, <1>4, <2>1 DEF get_subnet
<1>5. QED BY <1>3, <1>4

\* An end that has to enter a circuit finds room for its CTP: the table has a
\* slot for every subnet and operation, and one subnet serves one pair of an end.
LEMMA RoomForCtp ==
    ASSUME NEW stage, CtpTyped, TableInv(stage), NEW e \in Managed, NEW op \in Ops,
           ~Has(stage[e], op), path[e] \in Subnet, path \in [Managed -> Subnet \cup {NoSubnet}]
    PROVE  UnusedSlots(End(e, op)) # {}
<1> DEFINE d == End(e, op)
           S == Subnet \X Ops
<1>1. SUFFICES ASSUME UnusedSlots(d) = {} PROVE FALSE
  OBVIOUS
<1>2. d \in PE
  BY EndIn
<1>3. IsFiniteSet(S) /\ Cardinality(S) = MAX_CTP /\ MAX_CTP \in Nat
  <2>1. IsFiniteSet(Subnet) /\ MAX_CTP = 2 * Cardinality(Subnet) /\ Cardinality(Subnet) \in Nat
    BY SystemAssumption, FS_CardinalityType
  <2>2. IsFiniteSet(Ops) /\ Cardinality(Ops) = 2
    <3>1. Ops = {"receive"} \cup {"send"} /\ "send" \notin {"receive"}
      BY DEF Ops
    <3>2. IsFiniteSet({"receive"}) /\ Cardinality({"receive"}) = 1
      BY FS_Singleton
    <3>3. IsFiniteSet(Ops) /\ Cardinality(Ops) = 1 + 1
      BY <3>1, <3>2, FS_AddElement
    <3>4. QED BY <3>3
  <2>3. IsFiniteSet(S) /\ Cardinality(S) = Cardinality(Subnet) * Cardinality(Ops)
    BY <2>1, <2>2, FS_Product
  <2> HIDE DEF S
  <2>4. QED BY <2>1, <2>2, <2>3
<1>4. ASSUME NEW i \in Slot
      PROVE  /\ Used(d, i) /\ ctp[d][i].subnet \in Subnet /\ ctp[d][i].dmni_op \in Ops
  <2>1. Used(d, i)
    BY <1>1 DEF UnusedSlots, Used
  <2>2. CtpPair(d, i) \in Managed /\ ctp[d][i].subnet = path[CtpPair(d, i)]
        /\ ctp[d][i].dmni_op \in Ops
    BY <1>2, <2>1 DEF TableInv, CtpShape
  <2>3. QED BY <2>1, <2>2 DEF Used
<1> DEFINE f == [i \in 1..MAX_CTP |-> <<ctp[d][i].subnet, ctp[d][i].dmni_op>>]
<1>5. f \in [1..MAX_CTP -> S]
  BY <1>4 DEF Slot
<1>6. <<path[e], op>> \in S
  OBVIOUS
<1>7. \A i \in 1..MAX_CTP : f[i] # <<path[e], op>>
  <2>1. SlotsOf(d, path[e], op) = {}
    BY CtpKnown
  <2>2. QED BY <2>1 DEF SlotsOf, Slot
<1>8. \A i, j \in 1..MAX_CTP : f[i] = f[j] => i = j
  BY <1>2, <1>4 DEF TableInv, CtpOnce, Slot
<1> HIDE DEF f, S
<1>9. QED BY <1>3, <1>5, <1>6, <1>7, <1>8, NoRoomLeft, SMTT(30)

\* What SwitchesBetweenMessages compares.
SameCtps(f, o) == CtpsOf(End(f, o), f, o)' = CtpsOf(End(f, o), f, o)

\* From stage to stage2 the CTPs of the pairs change at one end of e at most.
OnlyEnd(stage, stage2, e, op) ==
    /\ \A f \in Managed : f # e => stage2[f] = stage[f]
    /\ \A o \in Ops : o # op => /\ Has(stage2[e], o) = Has(stage[e], o)
                              /\ Enabled(stage2[e], o) = Enabled(stage[e], o)

\* What the slot of pair e and operation op holds at stage g.
SlotOf(r, e, op, g) ==
    \/ /\ Has(g, op) /\ path[e] # NoSubnet
       /\ <<r.producer_task, r.consumer_task>> = e /\ r.subnet = path[e] /\ r.dmni_op = op
       /\ r.CS_enabled = Enabled(g, op)
    \/ /\ ~Has(g, op)
       /\ r.subnet = NoSubnet /\ r.dmni_op = "none" /\ ~r.CS_enabled

\* One slot of the table of an end changes, for the pair to enter or to leave the
\* circuit or to enable its CTP.
LEMMA ChangeCtp ==
    ASSUME NEW stage, CtpTyped, TableInv(stage), path' = path,
           NEW e \in Managed, NEW op \in Ops, NEW stage2,
           OnlyEnd(stage, stage2, e, op),
           NEW i \in Slot, NEW r \in CtpRecord,
           ctp' = [ctp EXCEPT ![End(e, op)][i] = r],
           SlotsOf(End(e, op), path[e], op) \subseteq {i},
           Used(End(e, op), i) => i \in SlotsOf(End(e, op), path[e], op),
           SlotOf(r, e, op, stage2[e])
    PROVE  /\ CtpTyped' /\ TableInv(stage2)'
           /\ \A f \in Managed : \A o \in Ops : f # e \/ o # op => SameCtps(f, o)
<1> DEFINE d == End(e, op)
<1>1. d \in PE
  BY EndIn
<1>2. /\ ctp' \in [PE -> [Slot -> CtpRecord]] /\ ctp'[d][i] = r
      /\ \A k \in PE : \A j \in Slot : k # d \/ j # i => ctp'[k][j] = ctp[k][j]
  BY <1>1 DEF CtpTyped
<1> HIDE DEF d
<1>3. CtpTyped'
  BY <1>2 DEF CtpTyped, Ops, SlotOf
<1>4. PathsApart'
  BY DEF TableInv, PathsApart
<1>5. ASSUME NEW f \in Managed, NEW o \in Ops, NEW j \in SlotsOf(End(f, o), path[f], o)
      PROVE  End(f, o) # d \/ j # i \/ (f = e /\ o = op)
  <2>1. SUFFICES ASSUME End(f, o) = d, j = i PROVE f = e /\ o = op
    OBVIOUS
  <2>2. /\ Used(d, i) /\ CtpPair(d, i) = f /\ ctp[d][i].dmni_op = o
    BY <2>1, CtpKnown DEF SlotsOf
  <2>3. ctp[d][i].dmni_op = op /\ CtpPair(d, i) = e
    BY <2>2, CtpKnown DEF SlotsOf, d
  <2>4. QED BY <2>2, <2>3
<1>6. CtpShape(stage2)'
  <2>1. SUFFICES ASSUME NEW k \in PE, NEW j \in Slot, Used(k, j)'
                 PROVE  LET f == CtpPair(k, j)'
                            o == ctp'[k][j].dmni_op
                        IN  /\ f \in Managed /\ ctp'[k][j].subnet = path[f]
                            /\ o \in Ops /\ k = End(f, o) /\ Has(stage2[f], o)
                            /\ ctp'[k][j].CS_enabled = Enabled(stage2[f], o)
    BY DEF CtpShape
  <2>2. CASE k = d /\ j = i
    BY <1>2, <2>1, <2>2 DEF Used, CtpPair, SlotOf, d
  <2>3. CASE k # d \/ j # i
    <3> DEFINE f == CtpPair(k, j)
               o == ctp[k][j].dmni_op
    <3>1. ctp'[k][j] = ctp[k][j] /\ CtpPair(k, j)' = f /\ Used(k, j)
      BY <1>2, <2>1, <2>3 DEF CtpPair, Used
    <3>2. /\ f \in Managed /\ ctp[k][j].subnet = path[f] /\ o \in Ops /\ k = End(f, o)
          /\ Has(stage[f], o) /\ ctp[k][j].CS_enabled = Enabled(stage[f], o)
      BY <3>1 DEF TableInv, CtpShape
    <3>3. f = e => o # op
      BY <2>3, <3>2 DEF SlotsOf, d
    <3> HIDE DEF f
    <3>4. Has(stage2[f], o) = Has(stage[f], o) /\ Enabled(stage2[f], o) = Enabled(stage[f], o)
      BY <3>2, <3>3 DEF OnlyEnd
    <3>5. QED BY <3>1, <3>2, <3>4
  <2>4. QED BY <2>2, <2>3
<1>7. CtpExists(stage2)'
  <2>1. SUFFICES ASSUME NEW f \in Managed, NEW o \in Ops, Has(stage2[f], o)
                 PROVE  \E j \in Slot : /\ ctp'[End(f, o)][j].subnet = path[f]
                                        /\ ctp'[End(f, o)][j].dmni_op = o
    BY DEF CtpExists, SlotsOf
  <2>2. CASE f = e /\ o = op
    BY <1>2, <2>1, <2>2 DEF SlotOf, d
  <2>3. CASE ~(f = e /\ o = op)
    <3>1. Has(stage[f], o)
      BY <2>1, <2>3 DEF OnlyEnd
    <3>2. PICK j \in SlotsOf(End(f, o), path[f], o) : TRUE
      BY <3>1 DEF TableInv, CtpExists
    <3>3. ctp'[End(f, o)][j] = ctp[End(f, o)][j]
      BY <1>2, <1>5, <2>3, <3>2, EndIn DEF SlotsOf
    <3>4. QED BY <3>2, <3>3 DEF SlotsOf
  <2>4. QED BY <2>2, <2>3
<1>8. CtpOnce'
  <2>1. SUFFICES ASSUME NEW k \in PE, NEW j \in Slot, NEW h \in Slot, Used(k, j)',
                        ctp'[k][j].subnet = ctp'[k][h].subnet,
                        ctp'[k][j].dmni_op = ctp'[k][h].dmni_op
                 PROVE  j = h
    BY DEF CtpOnce
  <2>2. CASE k = d /\ (j = i \/ h = i)
    <3>1. r.subnet = path[e] /\ r.dmni_op = op
      BY <1>2, <2>1, <2>2 DEF Used, SlotOf
    <3>2. \A n \in Slot : ctp[d][n].subnet = path[e] /\ ctp[d][n].dmni_op = op => n = i
      BY DEF SlotsOf, d
    <3>3. QED BY <1>2, <2>1, <2>2, <3>1, <3>2
  <2>3. CASE ~(k = d /\ (j = i \/ h = i))
    BY <1>2, <2>1, <2>3 DEF Used, TableInv, CtpOnce
  <2>4. QED BY <2>2, <2>3
<1>9. ASSUME NEW f \in Managed, NEW o \in Ops, f # e \/ o # op PROVE SameCtps(f, o)
  <2>1. End(f, o) \in PE /\ f = <<f[1], f[2]>>
    BY EndIn, ManagedFacts, EdgeFacts
  <2>2. ASSUME End(f, o) = d
        PROVE  /\ ~(CtpPair(d, i) = f /\ ctp[d][i].dmni_op = o)
               /\ ~(<<r.producer_task, r.consumer_task>> = f /\ r.dmni_op = o)
    <3>1. Used(d, i) => CtpPair(d, i) = e /\ ctp[d][i].dmni_op = op
      BY CtpKnown DEF SlotsOf, d
    <3>2. ~Used(d, i) => ctp[d][i].dmni_op \notin Ops
      BY <1>1 DEF Used, CtpTyped, Ops
    <3>3. QED BY <1>9, <3>1, <3>2 DEF Ops, SlotOf
  <2>3. \A j \in Slot :
           \/ ctp'[End(f, o)][j] = ctp[End(f, o)][j]
           \/ /\ ~(CtpPair(End(f, o), j) = f /\ ctp[End(f, o)][j].dmni_op = o)
              /\ ~(CtpPair(End(f, o), j)' = f /\ ctp'[End(f, o)][j].dmni_op = o)
    BY <1>2, <2>1, <2>2 DEF CtpPair
  <2>4. QED BY <2>1, <2>3 DEF SameCtps, CtpsOf, SlotsOfPair, CtpPair
<1>10. QED BY <1>3, <1>4, <1>6, <1>7, <1>8, <1>9 DEF TableInv

\* An end enters the circuit in the first unused slot.
LEMMA AddCtp ==
    ASSUME NEW stage, CtpTyped, TableInv(stage), path' = path,
           NEW e \in Managed, NEW op \in Ops, NEW stage2,
           OnlyEnd(stage, stage2, e, op),
           ~Has(stage[e], op), UnusedSlots(End(e, op)) # {},
           NEW r \in CtpRecord, SlotOf(r, e, op, stage2[e]),
           ctp' = [ctp EXCEPT ![End(e, op)][First(UnusedSlots(End(e, op)))] = r]
    PROVE  /\ CtpTyped' /\ TableInv(stage2)'
           /\ \A f \in Managed : \A o \in Ops : f # e \/ o # op => SameCtps(f, o)
<1> DEFINE d == End(e, op)
           i == First(UnusedSlots(d))
<1>1. i \in UnusedSlots(d)
  BY FirstIn DEF UnusedSlots
<1>2. i \in Slot /\ ~Used(d, i)
  BY <1>1 DEF UnusedSlots, Used
<1>3. SlotsOf(d, path[e], op) = {}
  BY NoCtpOf, EndIn, ManagedFacts
<1> HIDE DEF i
<1>4. SlotsOf(d, path[e], op) \subseteq {i} /\ (Used(d, i) => i \in SlotsOf(d, path[e], op))
  BY <1>2, <1>3
<1>5. ctp' = [ctp EXCEPT ![d][i] = r]
  BY DEF i
<1>6. QED BY <1>2, <1>4, <1>5, ChangeCtp

\* An end leaves the circuit: the slot of its CTP becomes unused.
LEMMA RemoveCtp ==
    ASSUME NEW stage, CtpTyped, TableInv(stage), path' = path,
           NEW e \in Managed, NEW op \in Ops, NEW stage2,
           OnlyEnd(stage, stage2, e, op),
           Has(stage[e], op), ~Has(stage2[e], op),
           ctp' = remove_ctp_entry(End(e, op), path[e], op)
    PROVE  /\ CtpTyped' /\ TableInv(stage2)'
           /\ \A f \in Managed : \A o \in Ops : f # e \/ o # op => SameCtps(f, o)
<1> DEFINE d == End(e, op)
<1>0. PICK i \in Slot : IsCtp(i, e, op, stage[e])
  BY CtpOf
<1>1. SlotsOf(d, path[e], op) = {i} /\ First({i}) = i
  BY <1>0 DEF IsCtp
<1> DEFINE r == [ctp[d][i] EXCEPT !.subnet = NoSubnet, !.dmni_op = "none", !.CS_enabled = FALSE]
<1>2. d \in PE /\ ctp[d][i] \in CtpRecord
  BY EndIn DEF CtpTyped
<1>3. r \in CtpRecord /\ r.subnet = NoSubnet /\ r.dmni_op = "none" /\ ~r.CS_enabled
  BY <1>2 DEF CtpRecord
<1>4. ctp' = [ctp EXCEPT ![d][i] = r]
  BY <1>1, <1>2 DEF remove_ctp_entry, CtpTyped
<1>5. SlotsOf(d, path[e], op) \subseteq {i} /\ i \in SlotsOf(d, path[e], op)
  BY <1>1
<1> HIDE DEF r
<1>6. SlotOf(r, e, op, stage2[e])
  BY <1>3 DEF SlotOf
<1>7. /\ ctp' = [ctp EXCEPT ![End(e, op)][i] = r]
      /\ SlotsOf(End(e, op), path[e], op) \subseteq {i}
      /\ Used(End(e, op), i) => i \in SlotsOf(End(e, op), path[e], op)
  BY <1>4, <1>5
<1>8. r \in CtpRecord
  BY <1>3
<1> HIDE DEF d
<1>9. QED BY <1>6, <1>7, <1>8, ChangeCtp

\* The consumer enables its CTP, which counts as no change of mode.
LEMMA EnableCtp ==
    ASSUME NEW stage, CtpTyped, TableInv(stage), path' = path,
           NEW e \in Managed, NEW op \in Ops, NEW stage2,
           OnlyEnd(stage, stage2, e, op),
           Has(stage[e], op), Has(stage2[e], op), Enabled(stage2[e], op),
           ctp' = [ctp EXCEPT ![End(e, op)][First(SlotsOf(End(e, op), path[e], op))].CS_enabled
                                 = TRUE]
    PROVE  /\ CtpTyped' /\ TableInv(stage2)'
           /\ \A f \in Managed : \A o \in Ops : SameCtps(f, o)
<1> DEFINE d == End(e, op)
<1>0. PICK i \in Slot : IsCtp(i, e, op, stage[e])
  BY CtpOf
<1>1. /\ SlotsOf(d, path[e], op) = {i} /\ First({i}) = i
      /\ ctp[d][i].producer_task = e[1] /\ ctp[d][i].consumer_task = e[2]
      /\ ctp[d][i].subnet = path[e] /\ ctp[d][i].dmni_op = op /\ path[e] # NoSubnet
  BY <1>0 DEF IsCtp
<1> DEFINE r == [ctp[d][i] EXCEPT !.CS_enabled = TRUE]
<1>2. d \in PE /\ ctp[d][i] \in CtpRecord
  BY EndIn DEF CtpTyped
<1>3. /\ r \in CtpRecord /\ r.subnet = path[e] /\ r.dmni_op = op /\ r.CS_enabled = TRUE
      /\ r.producer_task = e[1] /\ r.consumer_task = e[2]
  BY <1>1, <1>2 DEF CtpRecord
<1>4. ctp' = [ctp EXCEPT ![d][i] = r]
  BY <1>1, <1>2 DEF CtpTyped
<1>5. SlotsOf(d, path[e], op) \subseteq {i} /\ i \in SlotsOf(d, path[e], op)
  BY <1>1
<1>6. <<r.producer_task, r.consumer_task>> = e /\ r.CS_enabled = Enabled(stage2[e], op)
  BY <1>3, ManagedFacts, EdgeFacts DEF Enabled, Has
<1>7. /\ ctp' \in [PE -> [Slot -> CtpRecord]]
      /\ \A k \in PE : \A j \in Slot :
            /\ ctp'[k][j].producer_task = ctp[k][j].producer_task
            /\ ctp'[k][j].consumer_task = ctp[k][j].consumer_task
            /\ ctp'[k][j].subnet = ctp[k][j].subnet /\ ctp'[k][j].dmni_op = ctp[k][j].dmni_op
  <2> HIDE DEF r, d
  <2>1. \A k \in PE : \A j \in Slot : ctp'[k][j] = IF k = d /\ j = i THEN r ELSE ctp[k][j]
    BY <1>2, <1>4 DEF CtpTyped
  <2>2. ctp' \in [PE -> [Slot -> CtpRecord]]
    <3>1. ctp \in [PE -> [Slot -> CtpRecord]] /\ ctp' = [ctp EXCEPT ![d] = [ctp[d] EXCEPT ![i] = r]]
      BY <1>4 DEF CtpTyped
    <3>2. [ctp[d] EXCEPT ![i] = r] \in [Slot -> CtpRecord]
      BY <1>2, <1>3, <3>1
    <3>3. QED BY <1>2, <3>1, <3>2
  <2>3. ASSUME NEW k \in PE, NEW j \in Slot
        PROVE  /\ ctp'[k][j].producer_task = ctp[k][j].producer_task
               /\ ctp'[k][j].consumer_task = ctp[k][j].consumer_task
               /\ ctp'[k][j].subnet = ctp[k][j].subnet /\ ctp'[k][j].dmni_op = ctp[k][j].dmni_op
    BY <1>1, <1>3, <2>1
  <2>4. QED BY <2>2, <2>3
<1>8. \A f \in Managed : \A o \in Ops : SameCtps(f, o)
  BY <1>7, EndIn DEF SameCtps, CtpsOf, SlotsOfPair
<1> HIDE DEF r
<1>9. SlotOf(r, e, op, stage2[e])
  BY <1>1, <1>3, <1>6 DEF SlotOf
<1>10. CtpTyped' /\ TableInv(stage2)'
  BY <1>3, <1>4, <1>5, <1>9, ChangeCtp
<1>11. QED BY <1>8, <1>10

\* The tables stay, and the stage of one pair changes to one with the same CTPs.
\* Its path changes only if it has none.
LEMMA SameTables ==
    ASSUME NEW stage, CtpTyped, TableInv(stage), UNCHANGED ctp, NEW e \in Managed, NEW stage2,
           \A f \in Managed : f # e => stage2[f] = stage[f] /\ path'[f] = path[f],
           \A o \in Ops : /\ Has(stage2[e], o) = Has(stage[e], o)
                          /\ Enabled(stage2[e], o) = Enabled(stage[e], o),
           path'[e] = path[e] \/ ((\A o \in Ops : ~Has(stage[e], o)) /\ PathsApart')
    PROVE  CtpTyped' /\ TableInv(stage2)'
<1>1. CtpTyped'
  BY DEF CtpTyped
<1>2. PathsApart'
  BY DEF TableInv, PathsApart
<1>3. \A f \in Managed : \A o \in Ops : /\ Has(stage2[f], o) = Has(stage[f], o)
                                        /\ Enabled(stage2[f], o) = Enabled(stage[f], o)
                                        /\ Has(stage[f], o) => path'[f] = path[f]
  OBVIOUS
<1>4. CtpShape(stage2)'
  BY <1>3 DEF TableInv, CtpShape, Used, CtpPair
<1>5. CtpExists(stage2)'
  BY <1>3 DEF TableInv, CtpExists, SlotsOf
<1>6. CtpOnce'
  BY DEF TableInv, CtpOnce, Used
<1>7. QED BY <1>1, <1>2, <1>4, <1>5, <1>6 DEF TableInv

-----------------------------------------------------------------------------
(* Lemmas about the places of a message *)

\* The sets of pairs change only with the variables they are taken from.
LEMMA SameSets ==
    /\ waiting' = waiting => Waits' = Waits
    /\ ps_net' = ps_net => InNet' = InNet
    /\ pending' = pending => InPending' = InPending
    /\ message_request' = message_request => InTable' = InTable
    /\ wire' = wire /\ path' = path => OnWire' = OnWire
    /\ line' = line => OnLine' = OnLine
    /\ ps_net' = ps_net /\ line' = line => Answers' = Answers
BY DEF Waits, InNet, InPending, InTable, OnWire, OnLine, Answers, InAnswers

\* A consumer starts to wait.
LEMMA Asks ==
    ASSUME Typed, NEW e \in Edge, waiting[e[2]] = NoTask,
           waiting' = [waiting EXCEPT ![e[2]] = e[1]]
    PROVE  e \notin Waits /\ Waits' = Waits \cup {e}
<1>1. e[2] \in Task /\ e[1] \in Task /\ NoTask \notin Task
  BY EdgeFacts, SystemAssumption
<1>2. ASSUME NEW f \in Edge PROVE f \in Waits' <=> f \in Waits \/ f = e
  <2>1. f[1] \in Task /\ f[2] \in Task /\ f = <<f[1], f[2]>> /\ e = <<e[1], e[2]>>
    BY EdgeFacts
  <2>2. waiting'[f[2]] = IF f[2] = e[2] THEN e[1] ELSE waiting[f[2]]
    BY <2>1 DEF Typed
  <2>3. QED BY <1>1, <2>1, <2>2 DEF Waits
<1>3. e \notin Waits
  BY <1>1 DEF Waits
<1>4. Waits' \subseteq Edge /\ Waits \subseteq Edge
  BY DEF Waits
<1>5. QED BY <1>2, <1>3, <1>4

\* A consumer gets its message.
LEMMA Released ==
    ASSUME Typed, NEW e \in Edge, e \in Waits, waiting' = [waiting EXCEPT ![e[2]] = NoTask]
    PROVE  Waits' = Waits \ {e}
<1>1. e[2] \in Task /\ e[1] \in Task /\ NoTask \notin Task
  BY EdgeFacts, SystemAssumption
<1>2. ASSUME NEW f \in Edge PROVE f \in Waits' <=> f \in Waits /\ f # e
  <2>1. f[1] \in Task /\ f[2] \in Task /\ f = <<f[1], f[2]>> /\ e = <<e[1], e[2]>>
    BY EdgeFacts
  <2>2. waiting'[f[2]] = IF f[2] = e[2] THEN NoTask ELSE waiting[f[2]]
    BY <2>1 DEF Typed
  <2>3. QED BY <1>1, <2>1, <2>2 DEF Waits
<1>3. Waits' \subseteq Edge /\ Waits \subseteq Edge
  BY DEF Waits
<1>4. QED BY <1>2, <1>3

\* A pair of a circuit, by the wire and by the subnet.
LEMMA OnWireFacts ==
    ASSUME NEW stage, Inv(stage), NEW e \in OnWire
    PROVE  /\ e \in Managed /\ e \in Waits /\ Enabled(stage[e], "receive") /\ path[e] \in Subnet
           /\ \A f \in Managed : <<Home[f[1]], path[f]>> = <<Home[e[1]], path[e]>> => f = e
<1>1. e \in Managed /\ <<Home[e[1]], path[e]>> \in wire /\ path[e] \in Subnet
  BY DEF OnWire, Inv, Typed
<1>2. PathsApart /\ path[e] # NoSubnet
  BY <1>1, SystemAssumption DEF Inv, TableInv
<1>3. \A f \in Managed : <<Home[f[1]], path[f]>> = <<Home[e[1]], path[e]>> => f = e
  BY <1>1, <1>2 DEF PathsApart
<1>4. Enabled(stage[e], "receive")
  BY <1>1, <1>3 DEF Inv, CircuitInv
<1>5. e \in Waits
  BY DEF Inv, Conservation, Partition
<1>6. QED BY <1>1, <1>3, <1>4, <1>5

\* The pair of a message on a circuit, by the subnet.
LEMMA OnLineFacts ==
    ASSUME NEW stage, Inv(stage), NEW k \in DOMAIN line
    PROVE  /\ line[k] \in Managed /\ line[k] \in Waits /\ k = <<Home[line[k][2]], path[line[k]]>>
           /\ \A op \in Ops : Has(stage[line[k]], op)
           /\ k \in PE \X Subnet
           /\ \A f \in Managed : <<Home[f[2]], path[f]>> = k => f = line[k]
<1>1. /\ line[k] \in Managed /\ k = <<Home[line[k][2]], path[line[k]]>>
      /\ \A op \in Ops : Has(stage[line[k]], op)
      /\ k \in PE \X Subnet
  BY DEF Inv, CircuitInv, Typed
<1>2. PathsApart /\ path[line[k]] # NoSubnet
  BY <1>1, SystemAssumption DEF Inv, TableInv
<1>3. \A f \in Managed : <<Home[f[2]], path[f]>> = k => f = line[k]
  BY <1>1, <1>2 DEF PathsApart
<1>4. line[k] \in Waits
  BY DEF Inv, Conservation, Partition, OnLine
<1>5. QED BY <1>1, <1>3, <1>4

-----------------------------------------------------------------------------
(* The steps of the tasks *)

\* The parts of the invariant that a step of a message leaves alone.
LEMMA SameSwitching ==
    ASSUME NEW stage, Inv(stage), UNCHANGED <<halted, ctp, add_ctp, remove_ctp, qosVars>>,
           \A t \in Task : waiting[t] # NoTask => waiting'[t] # NoTask
    PROVE  CtpTyped' /\ NoErrorLoop' /\ TableInv(stage)' /\ KeptInv(stage)' /\ QosInv(stage)'
<1>1. CtpTyped /\ TableInv(stage)
  BY DEF Inv
<1>2. CtpTyped' /\ TableInv(stage)'
  BY <1>1 DEF CtpTyped, TableInv, PathsApart, CtpShape, CtpExists, CtpOnce, SlotsOf, Used, CtpPair,
              qosVars
<1>3. NoErrorLoop'
  BY DEF Inv, NoErrorLoop
<1>4. KeptInv(stage)' /\ QosInv(stage)'
  BY DEF Inv, KeptInv, QosInv, qosVars
<1>5. QED BY <1>2, <1>3, <1>4

\* The order stays ahead of every pair that does not ask.
LEMMA SameOrderFirst ==
    ASSUME NEW net, NEW stage, NEW subnet, NEW waits, NEW waits2,
           OrderFirst(net, stage, subnet, waits),
           \A f \in Managed : stage[f].place = "SET_NOC_SWITCHING_PRODUCER" /\ f \in waits2
                                  => f \in waits
    PROVE  OrderFirst(net, stage, subnet, waits2)
BY DEF OrderFirst, Ahead

\* The order stays ahead when a message joins the network.
LEMMA OrderFirstPut ==
    ASSUME NEW net \in [Link -> Seq(Packet)], NEW stage, NEW subnet, NEW waits,
           OrderFirst(net, stage, subnet, waits), NEW l \in Link, NEW m \in Packet,
           Items(net) \subseteq Items(Put(net, l, m))
    PROVE  OrderFirst(Put(net, l, m), stage, subnet, waits)
BY PutAhead, ManagedFacts DEF OrderFirst

\* The same when a message leaves the network.
LEMMA OrderFirstDrop ==
    ASSUME NEW net \in [Link -> Seq(Packet)], NEW stage \in [Managed -> Stage], NEW subnet,
           NEW waits, OrderFirst(net, stage, subnet, waits), NEW l \in Link, net[l] # <<>>,
           ~IsOrder(Head(net[l])), Items(Drop(net, l)) = Items(net) \ {<<l, Head(net[l])>>}
    PROVE  OrderFirst(Drop(net, l), stage, subnet, waits)
<1>1. SUFFICES ASSUME NEW e \in Managed, stage[e].place = "SET_NOC_SWITCHING_PRODUCER"
               PROVE  Ahead(Drop(net, l), e, OrderOf(e, stage[e], subnet[e]), e \in waits)
  BY DEF OrderFirst
<1>2. Ahead(net, e, OrderOf(e, stage[e], subnet[e]), e \in waits)
  BY <1>1 DEF OrderFirst
<1>3. IsOrder(OrderOf(e, stage[e], subnet[e]))
  BY <1>1 DEF OrderOf, Order, IsOrder, OrderService
<1>4. QED BY <1>2, <1>3, DropAhead, ManagedFacts

\* Where the subnet of a pair leads from both ends.
LEMMA PathLeads ==
    ASSUME PathsApart, NEW e \in Managed, path[e] # NoSubnet
    PROVE  /\ PathsTo(Home[e[2]], path[e]) = {e}
           /\ PathsFrom(Home[e[1]], path[e]) = {e}
BY DEF PathsTo, PathsFrom, PathsApart

\* Receive: the request of the consumer is a packet.
LEMMA ReceivePacketInv ==
    ASSUME NEW stage \in [Managed -> Stage], Inv(stage), NEW e \in Edge,
           Receive(e[1], e[2]), get_subnet(Home[e[2]], e[1], e[2], "receive") = NoSubnet
    PROVE  Inv(stage)'
<1>1. /\ waiting[e[2]] = NoTask /\ waiting' = [waiting EXCEPT ![e[2]] = e[1]]
      /\ ps_net' = Sent(ps_net, Home[e[2]], Home[e[1]], Request(e[1], e[2]))
      /\ UNCHANGED <<wire, halted, ctp, add_ctp, remove_ctp, message_request, pending, line,
                     qosVars, put, got>>
  BY DEF Receive
<1>2. e[1] \in Task /\ e[2] \in Task /\ NoTask \notin Task /\ Back(e) \in Link
  BY EdgeFacts, SystemAssumption
<1>3. e \notin Waits /\ Waits' = Waits \cup {e}
  BY <1>1, Asks DEF Inv
<1>4. ps_net' = Put(ps_net, Back(e), RequestOf(e))
  BY <1>1 DEF Sent, Put, Back, RequestOf
<1>5. e \notin InNet
  BY <1>3 DEF Inv, Conservation, Partition
<1>6. /\ NetInv(ps_net', stage, path) /\ Items(ps_net') = Items(ps_net) \cup {<<Back(e), RequestOf(e)>>}
      /\ InNet' = InNet \cup {e}
  BY <1>4, <1>5, PutMessage DEF Inv, InNet
<1>7. ps_net \in [Link -> Seq(Packet)] /\ RequestOf(e) \in Packet
  BY MessageFacts DEF Inv, NetInv
<1>8. OrderFirst(ps_net', stage, path, Waits)
  BY <1>2, <1>4, <1>6, <1>7, OrderFirstPut DEF Inv
<1>9. OrderFirst(ps_net', stage, path, Waits')
  <2>1. SUFFICES ASSUME NEW f \in Managed, stage[f].place = "SET_NOC_SWITCHING_PRODUCER"
                 PROVE  Ahead(ps_net', f, OrderOf(f, stage[f], path[f]), f \in Waits')
    BY DEF OrderFirst
  <2>2. Ahead(ps_net', f, OrderOf(f, stage[f], path[f]), f \in Waits)
    BY <1>8, <2>1 DEF OrderFirst
  <2>3. CASE f = e
    <3>1. <<Back(e), OrderOf(f, stage[f], path[f])>> \in Items(ps_net)
      BY <2>1, <2>3 DEF Inv, OrderFirst, Ahead
    <3>2. Before(ps_net'[Back(e)], OrderOf(f, stage[f], path[f]), RequestOf(e))
      BY <1>2, <1>4, <1>7, <3>1, PutAfter
    <3>3. QED BY <2>2, <2>3, <3>2 DEF Ahead
  <2>4. CASE f # e
    BY <1>3, <2>2, <2>4
  <2>5. QED BY <2>3, <2>4
<1>10. /\ InPending' = InPending /\ InTable' = InTable /\ OnWire' = OnWire /\ OnLine' = OnLine
  BY <1>1, SameSets DEF qosVars
<1>11. Conservation'
  BY <1>3, <1>6, <1>10 DEF Inv, Conservation, Partition
<1>12. OneAhead'
  <2>1. InAnswers(ps_net') = InAnswers(ps_net)
    <3>1. \A f \in Edge : DeliveryOf(f) # RequestOf(e)
      BY MessageFacts
    <3>2. QED BY <1>6, <3>1 DEF InAnswers
  <2>2. Answers' = Answers
    BY <1>10, <2>1 DEF Answers
  <2>3. QED BY <1>1, <2>2 DEF Inv, OneAhead
<1>13. CtpTyped' /\ NoErrorLoop' /\ TableInv(stage)' /\ KeptInv(stage)' /\ QosInv(stage)'
  <2>1. \A t \in Task : waiting[t] # NoTask => waiting'[t] # NoTask
    BY <1>1, <1>2 DEF Inv, Typed
  <2>2. QED BY <1>1, <2>1, SameSwitching
<1>14. Typed' /\ AtProducers' /\ CircuitInv(stage)'
  BY <1>1, <1>2 DEF Inv, Typed, AtProducers, CircuitInv, qosVars
<1>15. path' = path
  BY <1>1 DEF qosVars
<1>16. QED BY <1>6, <1>9, <1>11, <1>12, <1>13, <1>14, <1>15 DEF Inv

\* Receive: the request of the consumer goes over the wire of its subnet.
LEMMA ReceiveWireInv ==
    ASSUME NEW stage \in [Managed -> Stage], Inv(stage), NEW e \in Edge,
           Receive(e[1], e[2]), get_subnet(Home[e[2]], e[1], e[2], "receive") # NoSubnet
    PROVE  Inv(stage)'
<1>1. /\ e \in Managed /\ Enabled(stage[e], "receive") /\ path[e] # NoSubnet
      /\ get_subnet(Home[e[2]], e[1], e[2], "receive") = path[e]
  <2>1. End(e, "receive") = Home[e[2]] /\ "receive" \in Ops
    BY DEF End, Ops
  <2>2. QED BY <2>1, SubnetOf DEF Inv
<1>2. /\ waiting[e[2]] = NoTask /\ waiting' = [waiting EXCEPT ![e[2]] = e[1]]
      /\ wire' = wire \cup {<<Home[f[1]], path[e]>> : f \in PathsTo(Home[e[2]], path[e])}
      /\ UNCHANGED <<ps_net, halted, ctp, add_ctp, remove_ctp, message_request, pending, line,
                     qosVars, put, got>>
  BY <1>1 DEF Receive
<1>3. wire' = wire \cup {<<Home[e[1]], path[e]>>} /\ path' = path
  BY <1>1, <1>2, PathLeads DEF Inv, TableInv, qosVars
<1>4. /\ e[1] \in Task /\ e[2] \in Task /\ NoTask \notin Task
      /\ Home[e[1]] \in PE /\ path[e] \in Subnet
  BY <1>1, EdgeFacts, SystemAssumption DEF Inv, Typed
<1>5. e \notin Waits /\ Waits' = Waits \cup {e}
  BY <1>2, Asks DEF Inv
<1>6. OnWire' = OnWire \cup {e}
  BY <1>1, <1>3 DEF OnWire, Inv, TableInv, PathsApart
<1>7. /\ InNet' = InNet /\ InPending' = InPending /\ InTable' = InTable /\ OnLine' = OnLine
      /\ Answers' = Answers
  BY <1>2, SameSets
<1>8. Conservation'
  BY <1>5, <1>6, <1>7 DEF Inv, Conservation, Partition
<1>9. OrderFirst(ps_net, stage, path, Waits')
  <2>1. stage[e].place # "SET_NOC_SWITCHING_PRODUCER"
    BY <1>1 DEF Enabled, Has, Ordered
  <2>2. QED BY <1>5, <2>1, SameOrderFirst DEF Inv
<1>10. CtpTyped' /\ NoErrorLoop' /\ TableInv(stage)' /\ KeptInv(stage)' /\ QosInv(stage)'
  <2>1. \A t \in Task : waiting[t] # NoTask => waiting'[t] # NoTask
    BY <1>2, <1>4 DEF Inv, Typed
  <2>2. QED BY <1>2, <2>1, SameSwitching
<1>11. Typed' /\ AtProducers' /\ OneAhead'
  <2>1. Typed'
    BY <1>2, <1>3, <1>4 DEF Inv, Typed, qosVars
  <2>2. AtProducers' /\ OneAhead'
    BY <1>2, <1>7 DEF Inv, AtProducers, OneAhead
  <2>3. QED BY <2>1, <2>2
<1>12. CircuitInv(stage)'
  BY <1>1, <1>2, <1>3 DEF Inv, CircuitInv
<1>13. QED BY <1>2, <1>3, <1>8, <1>9, <1>10, <1>11, <1>12 DEF Inv

\* Receive, by packet or by wire, is the Ask of the rendezvous.
LEMMA ReceiveInv ==
    ASSUME NEW stage \in [Managed -> Stage], Inv(stage), NEW e \in Edge, Receive(e[1], e[2])
    PROVE  Inv(stage)' /\ RV!Ask(e[1], e[2])
<1>1. Inv(stage)'
  BY ReceivePacketInv, ReceiveWireInv
<1>2. QED BY <1>1 DEF Receive, RV!Ask

\* A request leaves the table of its producer's PE, or joins it.
LEMMA TableLeft ==
    ASSUME Typed, AtProducers, NEW e \in Edge, e \in message_request[Home[e[1]]],
           message_request' = [message_request EXCEPT ![Home[e[1]]] = @ \ {e}]
    PROVE  e \in InTable /\ InTable' = InTable \ {e}
<1>1. Home[e[1]] \in PE
  BY EdgeFacts
<1>2. \A d \in PE : message_request'[d] = IF d = Home[e[1]] THEN message_request[d] \ {e}
                                                          ELSE message_request[d]
  BY <1>1 DEF Typed
<1>3. \A d \in PE : e \in message_request[d] => d = Home[e[1]]
  BY DEF AtProducers
<1>4. QED BY <1>1, <1>2, <1>3 DEF InTable

\* A request joins the table of its producer's PE.
LEMMA TableJoined ==
    ASSUME Typed, AtProducers, NEW e \in Edge, AddRequest(Home[e[1]], e[1], e[2])
    PROVE  /\ InTable' = InTable \cup {e} /\ message_request' \in [PE -> SUBSET Edge]
           /\ \A d \in PE : \A f \in message_request'[d] : d = Home[f[1]]
<1>1. Home[e[1]] \in PE /\ e = <<e[1], e[2]>>
  BY EdgeFacts
<1>2. message_request' = [message_request EXCEPT ![Home[e[1]]] = @ \cup {e}]
  BY <1>1 DEF AddRequest
<1>3. message_request' \in [PE -> SUBSET Edge]
  BY <1>1, <1>2 DEF Typed
<1>4. \A d \in PE : message_request'[d] = IF d = Home[e[1]] THEN message_request[d] \cup {e}
                                                          ELSE message_request[d]
  BY <1>1, <1>2 DEF Typed
<1>5. InTable' = InTable \cup {e}
  <2>1. \A f : (\E d \in PE : f \in message_request'[d])
                 <=> (\E d \in PE : f \in message_request[d]) \/ f = e
    BY <1>1, <1>4
  <2>2. QED BY <2>1 DEF InTable
<1>6. \A d \in PE : \A f \in message_request'[d] : d = Home[f[1]]
  <2>1. \A d \in PE : \A f \in message_request[d] : d = Home[f[1]]
    BY DEF AtProducers
  <2>2. QED BY <1>4, <2>1, ZenonT(60)
<1>7. QED BY <1>3, <1>5, <1>6

\* The answers in the network are messages in the network.
LEMMA AnswersInNet ==
    ASSUME NEW net
    PROVE  InAnswers(net) \subseteq MessagesIn(net)
<1>1. ASSUME NEW e \in Edge, <<Forth(e), DeliveryOf(e)>> \in Items(net) PROVE e \in MessagesIn(net)
  BY <1>1, MessageFacts DEF MessagesIn
<1>2. QED BY <1>1 DEF InAnswers

\* A message is accepted by a producer that has none of the pair on its way.
LEMMA Accepted ==
    ASSUME NEW stage, Inv(stage), NEW e \in Edge, e \in InTable,
           Answers' = Answers \cup {e}, put' = [put EXCEPT ![<<e[1], e[2]>>] = @ + 1],
           UNCHANGED <<waiting, got>>
    PROVE  OneAhead' /\ RV!Accept(e[1], e[2]) /\ put' \in [Edge -> Nat]
<1>1. e \in Waits /\ e \notin InNet /\ e \notin OnLine
  BY DEF Inv, Conservation, Partition
<1>2. e \notin Answers
  BY <1>1, AnswersInNet DEF Answers, InNet
<1>3. /\ put \in [Edge -> Nat] /\ got \in [Edge -> Nat] /\ e = <<e[1], e[2]>>
      /\ put' = [put EXCEPT ![e] = put[e] + 1] /\ put[e] = got[e]
  BY <1>2, EdgeFacts DEF Inv, Typed, OneAhead
<1>4. OneAhead'
  BY <1>2, <1>3 DEF Inv, OneAhead
<1>5. RV!Accept(e[1], e[2])
  BY <1>1, <1>3 DEF RV!Accept, Waits
<1>6. QED BY <1>3, <1>4, <1>5

\* Send: the answer is a packet.
LEMMA SendPSInv ==
    ASSUME NEW stage \in [Managed -> Stage], Inv(stage), NEW e \in Edge, SendPS(e[1], e[2])
    PROVE  Inv(stage)' /\ RV!Accept(e[1], e[2])
<1>1. /\ e \in message_request[Home[e[1]]]
      /\ message_request' = [message_request EXCEPT ![Home[e[1]]] = @ \ {e}]
      /\ put' = [put EXCEPT ![<<e[1], e[2]>>] = @ + 1]
      /\ ps_net' = Put(ps_net, Forth(e), DeliveryOf(e))
      /\ UNCHANGED <<halted, ctp, add_ctp, remove_ctp, waiting, pending, wire, line, qosVars, got>>
  BY EdgeFacts DEF SendPS, Sent, Put, Forth, DeliveryOf
<1>2. e \in InTable /\ InTable' = InTable \ {e}
  BY <1>1, TableLeft DEF Inv
<1>3. e \notin InNet
  BY <1>2 DEF Inv, Conservation, Partition
<1>4. /\ NetInv(ps_net', stage, path) /\ Items(ps_net') = Items(ps_net) \cup {<<Forth(e), DeliveryOf(e)>>}
      /\ InNet' = InNet \cup {e}
  BY <1>1, <1>3, PutMessage DEF Inv, InNet
<1>5. ps_net \in [Link -> Seq(Packet)] /\ DeliveryOf(e) \in Packet /\ Forth(e) \in Link
  BY MessageFacts, EdgeFacts DEF Inv, NetInv
<1>6. OrderFirst(ps_net', stage, path, Waits)
  BY <1>1, <1>4, <1>5, OrderFirstPut DEF Inv
<1>7. /\ Waits' = Waits /\ InPending' = InPending /\ OnWire' = OnWire /\ OnLine' = OnLine
      /\ path' = path
  BY <1>1, SameSets DEF qosVars
<1>8. Conservation'
  BY <1>2, <1>4, <1>7 DEF Inv, Conservation, Partition
<1>9. Answers' = Answers \cup {e}
  <2>1. \A f \in Edge : <<Forth(f), DeliveryOf(f)>> = <<Forth(e), DeliveryOf(e)>> => f = e
    BY MessageFacts
  <2>2. InAnswers(ps_net') = InAnswers(ps_net) \cup {e}
    BY <1>4, <2>1 DEF InAnswers
  <2>3. QED BY <1>7, <2>2 DEF Answers
<1>10. OneAhead' /\ RV!Accept(e[1], e[2]) /\ put' \in [Edge -> Nat]
  BY <1>1, <1>2, <1>9, Accepted
<1>11. CtpTyped' /\ NoErrorLoop' /\ TableInv(stage)' /\ KeptInv(stage)' /\ QosInv(stage)'
  BY <1>1, SameSwitching
<1>12. Typed' /\ AtProducers' /\ CircuitInv(stage)'
  <2>1. message_request' \in [PE -> SUBSET Edge]
        /\ \A d \in PE : message_request'[d] \subseteq message_request[d]
    BY <1>1 DEF Inv, Typed
  <2>2. QED BY <1>1, <1>10, <2>1 DEF Inv, Typed, AtProducers, CircuitInv, qosVars
<1>13. QED BY <1>4, <1>6, <1>7, <1>8, <1>10, <1>11, <1>12 DEF Inv

\* Send: the answer takes the circuit.
LEMMA SendCSInv ==
    ASSUME NEW stage \in [Managed -> Stage], Inv(stage), NEW e \in Edge, SendCS(e[1], e[2])
    PROVE  Inv(stage)' /\ RV!Accept(e[1], e[2])
<1>1. /\ e \in Managed /\ Enabled(stage[e], "send") /\ path[e] # NoSubnet
      /\ get_subnet(Home[e[1]], e[1], e[2], "send") = path[e]
  <2>1. End(e, "send") = Home[e[1]] /\ "send" \in Ops /\ get_subnet(Home[e[1]], e[1], e[2], "send") # NoSubnet
    BY DEF End, Ops, SendCS
  <2>2. QED BY <2>1, SubnetOf DEF Inv
<1> DEFINE K == <<Home[e[2]], path[e]>>
<1>2. PathsFrom(Home[e[1]], path[e]) = {e}
  BY <1>1, PathLeads DEF Inv, TableInv
<1>3. {<<Home[f[2]], path[e]>> : f \in PathsFrom(Home[e[1]], path[e])} = {K}
  BY <1>2
<1>4. e = <<e[1], e[2]>>
  BY EdgeFacts
<1>5. /\ e \in message_request[Home[e[1]]]
       /\ \A f \in PathsFrom(Home[e[1]], path[e]) : <<Home[f[2]], path[e]>> \notin DOMAIN line
       /\ message_request' = [message_request EXCEPT ![Home[e[1]]] = @ \ {e}]
       /\ put' = [put EXCEPT ![<<e[1], e[2]>>] = @ + 1]
       /\ UNCHANGED <<halted, ctp, add_ctp, remove_ctp, waiting, pending, ps_net, wire, qosVars, got>>
  BY <1>1, <1>4 DEF SendCS
<1>6. line' = [k \in DOMAIN line \cup {<<Home[f[2]], path[e]>> : f \in PathsFrom(Home[e[1]], path[e])} |->
                  IF k \in DOMAIN line THEN line[k] ELSE <<e[1], e[2]>>]
  BY <1>1, Zenon DEF SendCS
<1>7. /\ e \in message_request[Home[e[1]]] /\ K \notin DOMAIN line
      /\ message_request' = [message_request EXCEPT ![Home[e[1]]] = @ \ {e}]
      /\ put' = [put EXCEPT ![<<e[1], e[2]>>] = @ + 1]
      /\ UNCHANGED <<halted, ctp, add_ctp, remove_ctp, waiting, pending, ps_net, wire, qosVars, got>>
  BY <1>2, <1>5
<1>8. e \in InTable /\ InTable' = InTable \ {e}
  BY <1>7, TableLeft DEF Inv
<1>9. K \in PE \X Subnet
  BY <1>1, EdgeFacts DEF Inv, Typed
<1> HIDE DEF K
<1>10. /\ DOMAIN line' = DOMAIN line \cup {K} /\ line'[K] = e
      /\ \A k \in DOMAIN line : line'[k] = line[k]
  <2>1. line' = [k \in DOMAIN line \cup {K} |-> IF k \in DOMAIN line THEN line[k] ELSE e]
    BY <1>3, <1>4, <1>6, Zenon
  <2>2. QED BY <1>7, <2>1
<1>11. OnLine' = OnLine \cup {e}
  BY <1>7, <1>10 DEF OnLine
<1>12. /\ Waits' = Waits /\ InNet' = InNet /\ InPending' = InPending /\ OnWire' = OnWire
      /\ path' = path
  BY <1>7, SameSets DEF qosVars
<1>13. Conservation'
  BY <1>8, <1>11, <1>12 DEF Inv, Conservation, Partition
<1>14. Answers' = Answers \cup {e}
  BY <1>7, <1>11 DEF Answers, InAnswers
<1>15. OneAhead' /\ RV!Accept(e[1], e[2]) /\ put' \in [Edge -> Nat]
  BY <1>7, <1>8, <1>14, Accepted
<1>16. CtpTyped' /\ NoErrorLoop' /\ TableInv(stage)' /\ KeptInv(stage)' /\ QosInv(stage)'
  BY <1>7, SameSwitching
\* The order to leave the circuit would be ahead of the request that is answered here.
<1>17. \A op \in Ops : Has(stage[e], op)
  <2>1. stage[e].place # "SET_NOC_SWITCHING_PRODUCER"
    <3>1. SUFFICES ASSUME stage[e].place = "SET_NOC_SWITCHING_PRODUCER" PROVE FALSE
      OBVIOUS
    <3>2. e \in Waits /\ e \notin InNet
      BY <1>8 DEF Inv, Conservation, Partition
    <3>3. Ahead(ps_net, e, OrderOf(e, stage[e], path[e]), TRUE)
      BY <1>1, <3>1, <3>2 DEF Inv, OrderFirst
    <3>4. QED BY <3>2, <3>3, OrderBefore DEF Inv, InNet
  <2>2. QED BY <1>1, <2>1 DEF Enabled, Has, Ops, Ordered, Halfway
<1>18. CircuitInv(stage)'
  BY <1>1, <1>7, <1>10, <1>12, <1>17 DEF Inv, CircuitInv, K
<1>19. Typed' /\ AtProducers'
  <2>1. message_request' \in [PE -> SUBSET Edge]
        /\ \A d \in PE : message_request'[d] \subseteq message_request[d]
    BY <1>7 DEF Inv, Typed
  <2>2. QED BY <1>7, <1>9, <1>10, <1>12, <1>15, <2>1 DEF Inv, Typed, AtProducers, qosVars
<1>20. QED BY <1>7, <1>12, <1>13, <1>15, <1>16, <1>18, <1>19 DEF Inv

-----------------------------------------------------------------------------
(* The packets that a kernel reads *)

\* A request that a kernel reads is at the producer's PE.
LEMMA RequestRead ==
    ASSUME NEW stage \in [Managed -> Stage], Inv(stage), NEW s \in Node, NEW d \in PE,
           PacketAt(s, d, "MESSAGE_REQUEST")
    PROVE  \E e \in Edge :
              /\ PacketOf(s, d) = RequestOf(e) /\ d = Home[e[1]] /\ e \in InNet
              /\ NetInv(Taken(s, d), stage, path) /\ OrderFirst(Taken(s, d), stage, path, Waits)
              /\ MessagesIn(Taken(s, d)) = InNet \ {e}
              /\ InAnswers(Taken(s, d)) = InAnswers(ps_net)
<1> DEFINE l == <<s, d>>
           m == Head(ps_net[l])
           e == Pair(m)
<1>1. /\ l \in Link /\ ps_net[l] # <<>> /\ ~IsOrder(m) /\ m.service = "MESSAGE_REQUEST"
      /\ Taken(s, d) = Drop(ps_net, l) /\ PacketOf(s, d) = m
  BY DEF PacketAt, Link, Node, IsOrder, OrderService, Taken, Drop, PacketOf
<1>2. NetInv(ps_net, stage, path)
  BY DEF Inv
<1>3. /\ e \in Edge /\ e \in InNet /\ <<l, m>> \in {<<Back(e), RequestOf(e)>>, <<Forth(e), DeliveryOf(e)>>}
      /\ NetInv(Drop(ps_net, l), stage, path)
      /\ Items(Drop(ps_net, l)) = Items(ps_net) \ {<<l, m>>}
      /\ MessagesIn(Drop(ps_net, l)) = InNet \ {e}
  BY <1>1, <1>2, TakeMessage DEF InNet
<1>4. m = RequestOf(e) /\ d = Home[e[1]]
  BY <1>1, <1>3, MessageFacts DEF Back
<1>5. OrderFirst(Drop(ps_net, l), stage, path, Waits)
  BY <1>1, <1>2, <1>3, OrderFirstDrop DEF Inv, NetInv
<1>6. InAnswers(Drop(ps_net, l)) = InAnswers(ps_net)
  <2>1. \A f \in Edge : DeliveryOf(f) # m
    BY <1>3, <1>4, MessageFacts
  <2>2. QED BY <1>3, <2>1 DEF InAnswers
<1> HIDE DEF m, l
<1>7. QED BY <1>1, <1>3, <1>4, <1>5, <1>6

\* An answer that a kernel reads is at the consumer's PE.
LEMMA DeliveryRead ==
    ASSUME NEW stage \in [Managed -> Stage], Inv(stage), NEW s \in Node, NEW d \in PE,
           PacketAt(s, d, "MESSAGE_DELIVERY")
    PROVE  \E e \in Edge :
              /\ PacketOf(s, d) = DeliveryOf(e) /\ d = Home[e[2]] /\ e \in InNet
              /\ e \in InAnswers(ps_net)
              /\ NetInv(Taken(s, d), stage, path) /\ OrderFirst(Taken(s, d), stage, path, Waits)
              /\ MessagesIn(Taken(s, d)) = InNet \ {e}
              /\ InAnswers(Taken(s, d)) = InAnswers(ps_net) \ {e}
<1> DEFINE l == <<s, d>>
           m == Head(ps_net[l])
           e == Pair(m)
<1>1. /\ l \in Link /\ ps_net[l] # <<>> /\ ~IsOrder(m) /\ m.service = "MESSAGE_DELIVERY"
      /\ Taken(s, d) = Drop(ps_net, l) /\ PacketOf(s, d) = m
  BY DEF PacketAt, Link, Node, IsOrder, OrderService, Taken, Drop, PacketOf
<1>2. NetInv(ps_net, stage, path)
  BY DEF Inv
<1>3. /\ e \in Edge /\ e \in InNet /\ <<l, m>> \in {<<Back(e), RequestOf(e)>>, <<Forth(e), DeliveryOf(e)>>}
      /\ <<l, m>> \in Items(ps_net)
      /\ NetInv(Drop(ps_net, l), stage, path)
      /\ Items(Drop(ps_net, l)) = Items(ps_net) \ {<<l, m>>}
      /\ MessagesIn(Drop(ps_net, l)) = InNet \ {e}
  BY <1>1, <1>2, TakeMessage DEF InNet
<1>4. m = DeliveryOf(e) /\ l = Forth(e) /\ d = Home[e[2]]
  BY <1>1, <1>3, MessageFacts DEF Forth
<1>5. OrderFirst(Drop(ps_net, l), stage, path, Waits)
  BY <1>1, <1>2, <1>3, OrderFirstDrop DEF Inv, NetInv
<1>6. InAnswers(Drop(ps_net, l)) = InAnswers(ps_net) \ {e} /\ e \in InAnswers(ps_net)
  <2>1. \A f \in Edge : DeliveryOf(f) = m => f = e
    BY <1>3, <1>4, MessageFacts
  <2>2. QED BY <1>3, <1>4, <2>1 DEF InAnswers
<1> HIDE DEF m, l
<1>7. QED BY <1>1, <1>3, <1>4, <1>5, <1>6

\* An order that is read says the stage of its pair, and was its only one.
LEMMA OrderRead ==
    ASSUME NEW stage \in [Managed -> Stage], Inv(stage), NEW s \in Node, NEW d \in Node,
           NEW place \in OrderService, PacketAt(s, d, place)
    PROVE  \E e \in Managed :
              /\ stage[e].place = place /\ <<s, d>> = LinkOf(e, place)
              /\ PacketOf(s, d) = OrderOf(e, stage[e], path[e])
              /\ NetInv(Taken(s, d), stage, path) /\ NoOrderOf(Taken(s, d), e)
              /\ MessagesIn(Taken(s, d)) = InNet
              /\ InAnswers(Taken(s, d)) = InAnswers(ps_net)
              /\ \A f \in Managed : f # e /\ stage[f].place = "SET_NOC_SWITCHING_PRODUCER" =>
                    Ahead(Taken(s, d), f, OrderOf(f, stage[f], path[f]), f \in Waits)
<1> DEFINE l == <<s, d>>
           m == Head(ps_net[l])
           e == Pair(m)
<1>1. /\ l \in Link /\ ps_net[l] # <<>> /\ IsOrder(m) /\ m.service = place
      /\ Taken(s, d) = Drop(ps_net, l) /\ PacketOf(s, d) = m
  BY DEF PacketAt, Link, IsOrder, Taken, Drop, PacketOf
<1>2. NetInv(ps_net, stage, path)
  BY DEF Inv
<1>3. /\ e \in Managed /\ m \in Packet /\ stage[e].place = place
      /\ l = LinkOf(e, stage[e].place) /\ m = OrderOf(e, stage[e], path[e])
      /\ NetInv(Drop(ps_net, l), stage, path) /\ NoOrderOf(Drop(ps_net, l), e)
      /\ Items(Drop(ps_net, l)) = Items(ps_net) \ {<<l, m>>}
      /\ MessagesIn(Drop(ps_net, l)) = InNet
  BY <1>1, <1>2, TakeOrder DEF InNet
<1>4. InAnswers(Drop(ps_net, l)) = InAnswers(ps_net)
  <2>1. \A f \in Edge : DeliveryOf(f) # m
    BY <1>1, MessageFacts
  <2>2. QED BY <1>3, <2>1 DEF InAnswers
<1>5. ASSUME NEW f \in Managed, f # e, stage[f].place = "SET_NOC_SWITCHING_PRODUCER"
      PROVE  Ahead(Drop(ps_net, l), f, OrderOf(f, stage[f], path[f]), f \in Waits)
  <2>1. Ahead(ps_net, f, OrderOf(f, stage[f], path[f]), f \in Waits)
    BY <1>5 DEF Inv, OrderFirst
  <2>2. Pair(OrderOf(f, stage[f], path[f])) = f
    BY ManagedFacts, EdgeFacts DEF OrderOf, Order, Pair
  <2>3. OrderOf(f, stage[f], path[f]) # m
    BY <1>5, <2>2
  <2>4. ps_net \in [Link -> Seq(Packet)]
    BY <1>2 DEF NetInv
  <2> HIDE DEF e
  <2>5. QED BY <1>1, <1>3, <2>1, <2>3, <2>4, DropAhead, ManagedFacts
<1>6. /\ stage[e].place = place /\ <<s, d>> = LinkOf(e, place)
      /\ PacketOf(s, d) = OrderOf(e, stage[e], path[e])
      /\ NetInv(Taken(s, d), stage, path) /\ NoOrderOf(Taken(s, d), e)
      /\ MessagesIn(Taken(s, d)) = InNet
      /\ InAnswers(Taken(s, d)) = InAnswers(ps_net)
  BY <1>1, <1>3, <1>4
<1>7. \A f \in Managed : f # e /\ stage[f].place = "SET_NOC_SWITCHING_PRODUCER" =>
         Ahead(Taken(s, d), f, OrderOf(f, stage[f], path[f]), f \in Waits)
  BY <1>1, <1>5
<1>8. e \in Managed
  BY <1>3
<1> HIDE DEF e
<1>9. QED BY <1>6, <1>7, <1>8

\* A request goes from the network to the table.
LEMMA HandleRequestInv ==
    ASSUME NEW stage \in [Managed -> Stage], Inv(stage), NEW s \in Node, NEW d \in PE,
           HandleRequest(s, d)
    PROVE  Inv(stage)' /\ UNCHANGED RV!vars
<1>1. /\ PacketAt(s, d, "MESSAGE_REQUEST") /\ ps_net' = Taken(s, d)
      /\ AddRequest(d, PacketOf(s, d).producer, PacketOf(s, d).consumer)
      /\ UNCHANGED <<halted, ctp, add_ctp, remove_ctp, waiting, pending, wire, line, qosVars,
                     put, got>>
  BY DEF HandleRequest
<1>2. PICK e \in Edge :
         /\ PacketOf(s, d) = RequestOf(e) /\ d = Home[e[1]] /\ e \in InNet
         /\ NetInv(ps_net', stage, path) /\ OrderFirst(ps_net', stage, path, Waits)
         /\ MessagesIn(ps_net') = InNet \ {e}
         /\ InAnswers(ps_net') = InAnswers(ps_net)
  BY <1>1, RequestRead
<1>3. AddRequest(Home[e[1]], e[1], e[2])
  BY <1>1, <1>2 DEF RequestOf, Request
<1>4. /\ InTable' = InTable \cup {e} /\ message_request' \in [PE -> SUBSET Edge]
      /\ \A k \in PE : \A f \in message_request'[k] : k = Home[f[1]]
  BY <1>3, TableJoined DEF Inv
<1>5. /\ Waits' = Waits /\ InPending' = InPending /\ OnWire' = OnWire /\ OnLine' = OnLine
      /\ path' = path
  BY <1>1, SameSets DEF qosVars
<1>6. InNet' = InNet \ {e} /\ Answers' = Answers
  BY <1>2, <1>5 DEF InNet, Answers
<1>7. Conservation'
  BY <1>2, <1>4, <1>5, <1>6 DEF Inv, Conservation, Partition
<1>8. CtpTyped' /\ NoErrorLoop' /\ TableInv(stage)' /\ KeptInv(stage)' /\ QosInv(stage)'
  BY <1>1, SameSwitching
<1>9. Typed' /\ AtProducers' /\ CircuitInv(stage)' /\ OneAhead'
  BY <1>1, <1>4, <1>6 DEF Inv, Typed, AtProducers, CircuitInv, OneAhead, qosVars
<1>10. QED BY <1>1, <1>2, <1>5, <1>7, <1>8, <1>9 DEF Inv, RV!vars

\* The requests deferred at the PEs.
LEMMA PendingRead ==
    ASSUME AtProducers, NEW d \in PE, pending[d] # <<>>
    PROVE  LET e == Head(pending[d])
               left == Drop(pending, d)
           IN  /\ e \in Edge /\ e \in InPending /\ d = Home[e[1]]
               /\ left \in [PE -> Seq(Edge)] /\ Once(left, EdgeKey)
               /\ Items(left) \subseteq Items(pending)
               /\ {x[2] : x \in Items(left)} = InPending \ {e}
<1> DEFINE e == Head(pending[d])
           left == Drop(pending, d)
<1>1. pending \in [PE -> Seq(Edge)] /\ Once(pending, EdgeKey)
  BY DEF AtProducers
<1>2. /\ e \in Edge /\ <<d, e>> \in Items(pending)
      /\ left \in [PE -> Seq(Edge)] /\ Once(left, EdgeKey)
      /\ Items(left) = Items(pending) \ {<<d, e>>}
  BY <1>1, DropItem
<1>3. d = Home[e[1]]
  BY <1>2 DEF AtProducers
<1> HIDE DEF e, left
<1>4. \A x \in Items(pending) : x[2] = e => x = <<d, e>>
  <2>1. SUFFICES ASSUME NEW x \in Items(pending), x[2] = e PROVE x = <<d, e>>
    OBVIOUS
  <2>2. EdgeKey[x[2]] = EdgeKey[<<d, e>>[2]]
    BY <2>1
  <2>3. QED BY <1>1, <1>2, <2>2, SameItem
<1>5. {x[2] : x \in Items(left)} = InPending \ {e}
  BY <1>2, <1>4 DEF InPending
<1>6. e \in InPending
  BY <1>2 DEF InPending
<1>7. QED BY <1>2, <1>3, <1>5, <1>6 DEF e, left

\* A request goes from the network to the pending ones.
LEMMA DeferRequestInv ==
    ASSUME NEW stage \in [Managed -> Stage], Inv(stage), NEW s \in Node, NEW d \in PE,
           DeferRequest(s, d)
    PROVE  Inv(stage)' /\ UNCHANGED RV!vars
<1>1. /\ PacketAt(s, d, "MESSAGE_REQUEST") /\ ps_net' = Taken(s, d)
      /\ pending' = [pending EXCEPT ![d] =
                       Append(@, <<PacketOf(s, d).producer, PacketOf(s, d).consumer>>)]
      /\ UNCHANGED <<halted, ctp, add_ctp, remove_ctp, waiting, message_request, wire, line,
                     qosVars, put, got>>
  BY DEF DeferRequest
<1>2. PICK e \in Edge :
         /\ PacketOf(s, d) = RequestOf(e) /\ d = Home[e[1]] /\ e \in InNet
         /\ NetInv(ps_net', stage, path) /\ OrderFirst(ps_net', stage, path, Waits)
         /\ MessagesIn(ps_net') = InNet \ {e}
         /\ InAnswers(ps_net') = InAnswers(ps_net)
  BY <1>1, RequestRead
<1>3. pending' = Put(pending, d, e)
  <2>1. <<PacketOf(s, d).producer, PacketOf(s, d).consumer>> = e
    BY <1>2, EdgeFacts DEF RequestOf, Request
  <2>2. QED BY <1>1, <2>1 DEF Put
<1>4. pending \in [PE -> Seq(Edge)] /\ Once(pending, EdgeKey)
  BY DEF Inv, AtProducers
<1>5. \A x \in Items(pending) : EdgeKey[x[2]] # EdgeKey[e]
  <2>1. e \notin InPending
    BY <1>2 DEF Inv, Conservation, Partition
  <2>2. \A x \in Items(pending) : x[2] \in Edge
    BY <1>4, ItemAt
  <2>3. QED BY <2>1, <2>2 DEF InPending, EdgeKey
<1>6. /\ pending' \in [PE -> Seq(Edge)] /\ Once(pending', EdgeKey)
      /\ Items(pending') = Items(pending) \cup {<<d, e>>}
  BY <1>3, <1>4, <1>5, PutItem
<1>7. InPending' = InPending \cup {e} /\ \A x \in Items(pending') : x[1] = Home[x[2][1]]
  <2>1. <<d, e>>[1] = d /\ <<d, e>>[2] = e /\ \A x \in Items(pending) : x[1] = Home[x[2][1]]
    BY DEF Inv, AtProducers
  <2> DEFINE M == Items(pending')
  <2>2. M = Items(pending) \cup {<<d, e>>}
    BY <1>6
  <2> HIDE DEF M
  <2>3. {x[2] : x \in M} = {x[2] : x \in Items(pending)} \cup {e}
    BY <2>1, <2>2
  <2>4. \A x \in M : x[1] = Home[x[2][1]]
    BY <1>2, <2>1, <2>2
  <2>5. QED BY <2>3, <2>4 DEF InPending, M
<1>8. /\ Waits' = Waits /\ InTable' = InTable /\ OnWire' = OnWire /\ OnLine' = OnLine
      /\ path' = path
  BY <1>1, SameSets DEF qosVars
<1>9. InNet' = InNet \ {e} /\ Answers' = Answers
  BY <1>2, <1>8 DEF InNet, Answers
<1>10. Conservation'
  BY <1>2, <1>7, <1>8, <1>9 DEF Inv, Conservation, Partition
<1>11. CtpTyped' /\ NoErrorLoop' /\ TableInv(stage)' /\ KeptInv(stage)' /\ QosInv(stage)'
  BY <1>1, SameSwitching
<1>12. AtProducers'
  BY <1>1, <1>6, <1>7 DEF Inv, AtProducers
<1>13. Typed' /\ CircuitInv(stage)' /\ OneAhead'
  BY <1>1, <1>9 DEF Inv, Typed, CircuitInv, OneAhead, qosVars
<1>14. QED BY <1>1, <1>2, <1>8, <1>10, <1>11, <1>12, <1>13 DEF Inv, RV!vars

\* A pending request goes to the table.
LEMMA HandlePendingInv ==
    ASSUME NEW stage \in [Managed -> Stage], Inv(stage), NEW d \in PE, HandlePending(d)
    PROVE  Inv(stage)' /\ UNCHANGED RV!vars
<1> DEFINE e == Head(pending[d])
<1>1. /\ pending[d] # <<>> /\ pending' = Drop(pending, d) /\ AddRequest(d, e[1], e[2])
      /\ UNCHANGED <<halted, ctp, add_ctp, remove_ctp, waiting, netVars, qosVars, put, got>>
  BY DEF HandlePending, Drop
<1>2. /\ e \in Edge /\ e \in InPending /\ d = Home[e[1]]
      /\ pending' \in [PE -> Seq(Edge)] /\ Once(pending', EdgeKey)
      /\ Items(pending') \subseteq Items(pending)
      /\ InPending' = InPending \ {e}
  BY <1>1, PendingRead DEF Inv, InPending
<1> HIDE DEF e
<1>3. /\ InTable' = InTable \cup {e} /\ message_request' \in [PE -> SUBSET Edge]
      /\ \A k \in PE : \A f \in message_request'[k] : k = Home[f[1]]
  BY <1>1, <1>2, TableJoined DEF Inv
<1>4. /\ Waits' = Waits /\ InNet' = InNet /\ OnWire' = OnWire /\ OnLine' = OnLine
      /\ Answers' = Answers /\ path' = path /\ ps_net' = ps_net
  BY <1>1, SameSets DEF qosVars, netVars
<1>5. Conservation'
  BY <1>2, <1>3, <1>4 DEF Inv, Conservation, Partition
<1>6. CtpTyped' /\ NoErrorLoop' /\ TableInv(stage)' /\ KeptInv(stage)' /\ QosInv(stage)'
  BY <1>1, SameSwitching
<1>7. AtProducers'
  BY <1>2, <1>3 DEF Inv, AtProducers
<1>8. Typed' /\ CircuitInv(stage)' /\ OneAhead'
  BY <1>1, <1>3, <1>4 DEF Inv, Typed, CircuitInv, OneAhead, qosVars, netVars
<1>9. NetInv(ps_net', stage, path') /\ OrderFirst(ps_net', stage, path', Waits')
  BY <1>4 DEF Inv
<1>10. QED BY <1>1, <1>5, <1>6, <1>7, <1>8, <1>9 DEF Inv, RV!vars

\* A wire that is up finds the CTP of its pair.
LEMMA HandleWireInv ==
    ASSUME NEW stage \in [Managed -> Stage], Inv(stage), NEW d \in PE, NEW s \in Subnet,
           HandleWire(d, s)
    PROVE  Inv(stage)' /\ UNCHANGED RV!vars
<1>1. PICK e \in Managed : <<d, s>> = <<Home[e[1]], path[e]>> /\ Enabled(stage[e], "receive")
  BY DEF HandleWire, Inv, CircuitInv
<1>2. e \in OnWire
  BY <1>1 DEF HandleWire, OnWire
<1>3. Has(stage[e], "send") /\ End(e, "send") = d /\ "send" \in Ops
  BY <1>1 DEF Enabled, Has, Ordered, Halfway, End, Ops
<1>4. PICK i \in Slot : IsCtp(i, e, "send", stage[e])
  BY <1>3, CtpOf DEF Inv
<1>5. /\ SlotsOf(d, s, "send") # {}
      /\ get_ctp_ptr(d, s, "send").producer_task = e[1]
      /\ get_ctp_ptr(d, s, "send").consumer_task = e[2]
  BY <1>1, <1>3, <1>4 DEF IsCtp, get_ctp_ptr
<1>6. /\ AddRequest(Home[e[1]], e[1], e[2]) /\ wire' = wire \ {<<d, s>>}
      /\ UNCHANGED <<halted, ctp, add_ctp, remove_ctp, waiting, pending, ps_net, line, qosVars,
                     put, got>>
  BY <1>1, <1>5 DEF HandleWire
<1>7. e \in Edge
  BY ManagedFacts
<1>8. /\ InTable' = InTable \cup {e} /\ message_request' \in [PE -> SUBSET Edge]
      /\ \A k \in PE : \A f \in message_request'[k] : k = Home[f[1]]
  BY <1>6, <1>7, TableJoined DEF Inv
<1>9. /\ Waits' = Waits /\ InNet' = InNet /\ InPending' = InPending /\ OnLine' = OnLine
      /\ Answers' = Answers /\ path' = path /\ ps_net' = ps_net
  BY <1>6, SameSets DEF qosVars
<1>10. OnWire' = OnWire \ {e}
  BY <1>1, <1>2, <1>6, <1>9, OnWireFacts DEF OnWire
<1>11. Conservation'
  BY <1>2, <1>8, <1>9, <1>10 DEF Inv, Conservation, Partition
<1>12. CtpTyped' /\ NoErrorLoop' /\ TableInv(stage)' /\ KeptInv(stage)' /\ QosInv(stage)'
  BY <1>6, SameSwitching
<1>13. Typed' /\ AtProducers' /\ CircuitInv(stage)' /\ OneAhead'
  BY <1>6, <1>8, <1>9 DEF Inv, Typed, AtProducers, CircuitInv, OneAhead, qosVars
<1>14. NetInv(ps_net', stage, path') /\ OrderFirst(ps_net', stage, path', Waits')
  BY <1>9 DEF Inv
<1>15. QED BY <1>6, <1>11, <1>12, <1>13, <1>14 DEF Inv, RV!vars

-----------------------------------------------------------------------------
(* The orders that are sent *)

\* From one stage to the next the network has what the other pairs have in it.
OthersAhead(net, stage, subnet, waits, e) ==
    \A f \in Managed : f # e /\ stage[f].place = "SET_NOC_SWITCHING_PRODUCER" =>
        Ahead(net, f, OrderOf(f, stage[f], subnet[f]), f \in waits)

\* The change of pair e is at stage g, the others are where they were.
Becomes(stage, stage2, e, g) ==
    /\ stage \in [Managed -> Stage] /\ stage2 \in [Managed -> Stage]
    /\ e \in Managed /\ g \in Stage /\ stage2[e] = g
    /\ \A f \in Managed : f # e => stage2[f] = stage[f]

\* Every change of stage of a pair is one.
LEMMA Change ==
    ASSUME NEW stage \in [Managed -> Stage], NEW e \in Managed, NEW g \in Stage
    PROVE  \E stage2 : Becomes(stage, stage2, e, g)
<1>1. Becomes(stage, [stage EXCEPT ![e] = g], e, g)
  BY DEF Becomes
<1>2. QED BY <1>1

\* A pair may change its stage: none of its orders is in the network.
MayChange(net, stage, subnet, waits, e, g, stage2, subnet2) ==
    /\ Becomes(stage, stage2, e, g)
    /\ NetInv(net, stage, subnet) /\ NoOrderOf(net, e) /\ OthersAhead(net, stage, subnet, waits, e)
    /\ \A f \in Managed : f # e => subnet2[f] = subnet[f]

\* A pair gets to a stage without an order in the network.
LEMMA OrderEnds ==
    ASSUME NEW net, NEW stage, NEW subnet, NEW waits, NEW e, NEW g, NEW stage2, NEW subnet2,
           MayChange(net, stage, subnet, waits, e, g, stage2, subnet2), g.place \notin OrderService
    PROVE  NetInv(net, stage2, subnet2) /\ OrderFirst(net, stage2, subnet2, waits)
<1>1. /\ NetInv(net, stage, subnet) /\ NoOrderOf(net, e) /\ OthersAhead(net, stage, subnet, waits, e)
      /\ stage2[e] = g
      /\ \A f \in Managed : f # e => stage2[f] = stage[f] /\ subnet2[f] = subnet[f]
  BY DEF MayChange, Becomes
<1>2. NetInv(net, stage2, subnet2)
  BY <1>1, Restage
<1>3. OrderFirst(net, stage2, subnet2, waits)
  <2>1. SUFFICES ASSUME NEW f \in Managed, stage2[f].place = "SET_NOC_SWITCHING_PRODUCER"
                 PROVE  Ahead(net, f, OrderOf(f, stage2[f], subnet2[f]), f \in waits)
    BY DEF OrderFirst
  <2>2. f # e
    BY <1>1, <2>1 DEF OrderService
  <2>3. QED BY <1>1, <2>1, <2>2 DEF OthersAhead
<1>4. QED BY <1>2, <1>3

\* A pair gets to a stage with an order, which joins the network. The consumer does
\* not ask while an order to its producer is sent.
LEMMA OrderSent ==
    ASSUME NEW net, NEW stage, NEW subnet, NEW waits, NEW e, NEW g, NEW stage2, NEW subnet2,
           MayChange(net, stage, subnet, waits, e, g, stage2, subnet2), g.place \in OrderService,
           e \notin waits \/ g.place # "SET_NOC_SWITCHING_PRODUCER",
           subnet2[e] \in Subnet \cup {NoSubnet},
           NEW net2, net2 = Put(net, LinkOf(e, g.place), OrderOf(e, g, subnet2[e]))
    PROVE  /\ NetInv(net2, stage2, subnet2) /\ OrderFirst(net2, stage2, subnet2, waits)
           /\ MessagesIn(net2) = MessagesIn(net) /\ InAnswers(net2) = InAnswers(net)
<1> DEFINE l == LinkOf(e, g.place)
           m == OrderOf(e, g, subnet2[e])
<1>1. /\ NetInv(net, stage, subnet) /\ NoOrderOf(net, e) /\ OthersAhead(net, stage, subnet, waits, e)
      /\ e \in Managed /\ g \in Stage /\ stage2[e] = g
      /\ \A f \in Managed : f # e => stage2[f] = stage[f] /\ subnet2[f] = subnet[f]
  BY DEF MayChange, Becomes
<1>2. NetInv(net, stage2, subnet2)
  BY <1>1, Restage
<1>3. /\ l \in Link /\ m \in Packet
      /\ NetInv(Put(net, l, m), stage2, subnet2)
      /\ Items(Put(net, l, m)) = Items(net) \cup {<<l, m>>}
      /\ MessagesIn(Put(net, l, m)) = MessagesIn(net)
  BY <1>1, <1>2, PutOrder
<1>4. IsOrder(m)
  BY DEF OrderOf, Order, IsOrder
<1> HIDE DEF m, l
<1>5. InAnswers(Put(net, l, m)) = InAnswers(net)
  <2>1. \A f \in Edge : DeliveryOf(f) # m
    BY <1>4, MessageFacts
  <2>2. QED BY <1>3, <2>1 DEF InAnswers
<1>6. OrderFirst(Put(net, l, m), stage2, subnet2, waits)
  <2>1. SUFFICES ASSUME NEW f \in Managed, stage2[f].place = "SET_NOC_SWITCHING_PRODUCER"
                 PROVE  Ahead(Put(net, l, m), f, OrderOf(f, stage2[f], subnet2[f]), f \in waits)
    BY DEF OrderFirst
  <2>2. CASE f = e
    <3>1. l = Back(e) /\ m = OrderOf(f, stage2[f], subnet2[f]) /\ e \notin waits
      BY <1>1, <2>1, <2>2 DEF LinkOf, l, m
    <3>2. QED BY <1>3, <2>2, <3>1 DEF Ahead
  <2>3. CASE f # e
    <3>1. Ahead(net, f, OrderOf(f, stage2[f], subnet2[f]), f \in waits)
      BY <1>1, <2>1, <2>3 DEF OthersAhead
    <3>2. net \in [Link -> Seq(Packet)]
      BY <1>1 DEF NetInv
    <3>3. QED BY <1>3, <3>1, <3>2, PutAhead, ManagedFacts
  <2>4. QED BY <2>2, <2>3
<1>7. QED BY <1>3, <1>5, <1>6 DEF l, m

-----------------------------------------------------------------------------
(* check_ctp_reconfiguration *)

\* The orders add and rem that consumer c finds, one at most.
OrdersOf(c, add, rem, stage, net) ==
    /\ add # NoOrder =>
         LET e == <<add.producer, c>>
         IN  /\ e \in Managed /\ stage[e].cs_mode /\ stage[e].place \in Ordered
             /\ add.subnet = path[e] /\ NoOrderOf(net, e)
    /\ rem # NoTask =>
         LET e == <<rem, c>>
         IN  /\ e \in Managed /\ ~stage[e].cs_mode /\ stage[e].place \in Ordered
             /\ NoOrderOf(net, e)
    /\ add = NoOrder => add_ctp[c] = NoOrder
    /\ rem = NoTask => remove_ctp[c] = NoTask

\* What holds when the kernel of consumer c, which does not wait, looks at its orders.
Ready(c, add, rem, stage, net) ==
    /\ CtpTyped /\ Typed /\ NoErrorLoop /\ TableInv(stage) /\ KeptInv(stage) /\ QosInv(stage)
    /\ NetInv(net, stage, path) /\ OrderFirst(net, stage, path, Waits')
    /\ OrdersOf(c, add, rem, stage, net)
    /\ c \in Task /\ \A f \in Managed : f[2] = c => f \notin Waits'
    /\ \A t \in Task \ {c} : waiting'[t] = waiting[t]
    /\ UNCHANGED qosVars

\* What holds after it.
Obeyed(c, stage, stage2, net) ==
    /\ stage2 \in [Managed -> Stage]
    /\ \A f \in Managed : f[2] # c => stage2[f] = stage[f]
    /\ CtpTyped' /\ NoErrorLoop' /\ TableInv(stage2)' /\ KeptInv(stage2)' /\ QosInv(stage2)'
    /\ NetInv(ps_net', stage2, path') /\ OrderFirst(ps_net', stage2, path', Waits')
    /\ MessagesIn(ps_net') = MessagesIn(net) /\ InAnswers(ps_net') = InAnswers(net)
    /\ add_ctp' \in [Task -> [subnet : Subnet \cup {NoSubnet, Garbage}, producer : Task \cup {NoTask}]]
    /\ remove_ctp' \in [Task -> Task \cup {NoTask}]
    /\ \A f \in Managed : SameCtps(f, "send") /\ (f[2] # c => SameCtps(f, "receive"))

\* Has and Enabled are Boolean.
LEMMA BooleanFacts ==
    ASSUME NEW g, NEW op
    PROVE  Has(g, op) \in BOOLEAN /\ Enabled(g, op) \in BOOLEAN
BY DEF Has, Enabled

\* The orders kept for the other tasks.
LEMMA KeptForOthers ==
    ASSUME NEW stage, NEW c \in Task, NEW stage2, KeptInv(stage), path' = path,
           \A f \in Managed : f[2] # c => stage2[f] = stage[f],
           \A t \in Task \ {c} : /\ waiting'[t] = waiting[t] /\ add_ctp'[t] = add_ctp[t]
                                 /\ remove_ctp'[t] = remove_ctp[t],
           add_ctp'[c] = NoOrder, remove_ctp'[c] = NoTask
    PROVE  KeptInv(stage2)'
<1>1. SUFFICES ASSUME NEW t \in Task
               PROVE  /\ add_ctp'[t] # NoOrder =>
                           LET f == <<add_ctp'[t].producer, t>>
                           IN  /\ f \in Managed /\ stage2[f] = At(TRUE, "kept")
                               /\ add_ctp'[t].subnet = path[f] /\ waiting'[t] # NoTask
                      /\ remove_ctp'[t] # NoTask =>
                           LET f == <<remove_ctp'[t], t>>
                           IN  /\ f \in Managed /\ stage2[f] = At(FALSE, "kept")
                               /\ waiting'[t] # NoTask
  BY DEF KeptInv
<1>2. CASE t = c
  BY <1>2
<1>3. CASE t # c
  <2>1. \A p : <<p, t>> \in Managed => stage2[<<p, t>>] = stage[<<p, t>>]
    BY <1>3
  <2>2. /\ waiting'[t] = waiting[t] /\ add_ctp'[t] = add_ctp[t] /\ remove_ctp'[t] = remove_ctp[t]
    BY <1>3
  <2>3. /\ add_ctp[t] # NoOrder =>
             LET f == <<add_ctp[t].producer, t>>
             IN  /\ f \in Managed /\ stage[f] = At(TRUE, "kept")
                 /\ add_ctp[t].subnet = path[f] /\ waiting[t] # NoTask
        /\ remove_ctp[t] # NoTask =>
             LET f == <<remove_ctp[t], t>>
             IN  f \in Managed /\ stage[f] = At(FALSE, "kept") /\ waiting[t] # NoTask
    BY DEF KeptInv
  <2>4. QED BY <2>1, <2>2, <2>3
<1>4. QED BY <1>2, <1>3

\* add_ctp_online: the consumer enters the circuit and orders its producer to.
LEMMA EnterCircuit ==
    ASSUME NEW stage \in [Managed -> Stage], NEW c, NEW add, NEW rem, NEW net,
           Ready(c, add, rem, stage, net), add # NoOrder,
           add_ctp_online(c, add, net), remove_ctp' = [remove_ctp EXCEPT ![c] = rem]
    PROVE  \E stage2 : Obeyed(c, stage, stage2, net)
<1> DEFINE e == <<add.producer, c>>
           g == At(TRUE, "SET_NOC_SWITCHING_PRODUCER")
<1>1. /\ e \in Managed /\ stage[e].cs_mode /\ stage[e].place \in Ordered
      /\ add.subnet = path[e] /\ NoOrderOf(net, e) /\ e[2] = c /\ e[1] = add.producer
      /\ e \notin Waits' /\ path' = path
  BY DEF Ready, OrdersOf, qosVars
<1> HIDE DEF e
<1>2. /\ g \in Stage /\ g.place \in OrderService /\ g.cs_mode
      /\ g.place = "SET_NOC_SWITCHING_PRODUCER"
  BY DEF At, Stage, Place, OrderService
<1>3. PICK stage2 : Becomes(stage, stage2, e, g)
  BY <1>1, <1>2, Change
<1>4. /\ ~Has(stage[e], "receive") /\ Has(g, "receive") /\ ~Enabled(g, "receive")
      /\ Has(g, "send") = Has(stage[e], "send") /\ Enabled(g, "send") = Enabled(stage[e], "send")
  BY <1>1 DEF At, Has, Enabled, Ordered, Halfway
<1>5. path[e] \in Subnet
  <2>1. stage[e] # At(FALSE, "concluded")
    BY <1>1 DEF At
  <2>2. QED BY <1>1, <2>1 DEF Ready, QosInv, Typed
<1>6. rem = NoTask
  <2>1. SUFFICES ASSUME rem # NoTask PROVE FALSE
    OBVIOUS
  <2>2. <<rem, c>> \in Managed /\ ~stage[<<rem, c>>].cs_mode
    BY <2>1 DEF Ready, OrdersOf
  <2>3. <<rem, c>>[2] = e[2]
    BY <1>1
  <2>4. <<rem, c>> = e
    BY <1>1, <2>2, <2>3, ManagedFacts
  <2>5. QED BY <1>1, <2>2, <2>4
<1>7. End(e, "receive") = Home[c] /\ "receive" \in Ops /\ "send" \in Ops
  BY <1>1 DEF End, Ops
<1>8. UnusedSlots(Home[c]) # {}
  <2>1. CtpTyped /\ TableInv(stage) /\ path \in [Managed -> Subnet \cup {NoSubnet}]
    BY DEF Ready, Typed
  <2>2. UnusedSlots(End(e, "receive")) # {}
    BY <1>1, <1>4, <1>5, <1>7, <2>1, RoomForCtp
  <2>3. QED BY <1>7, <2>2
<1>9. /\ ctp' = add_ctp_entry(Home[c], e[1], e[2], "receive", path[e], FALSE)
      /\ ps_net' = Put(net, LinkOf(e, g.place), OrderOf(e, g, path[e]))
      /\ add_ctp' = [add_ctp EXCEPT ![c] = NoOrder] /\ UNCHANGED halted
  BY <1>1, <1>8 DEF add_ctp_online, Sent, Put, LinkOf, Back, OrderOf, Order, At, NetOf
<1> HIDE DEF g
<1>10. /\ stage2 \in [Managed -> Stage] /\ stage2[e] = g
       /\ \A f \in Managed : f # e => stage2[f] = stage[f]
  BY <1>3 DEF Becomes
<1>11. OnlyEnd(stage, stage2, e, "receive")
  BY <1>4, <1>10 DEF OnlyEnd, Ops
<1>12. /\ CtpTyped' /\ TableInv(stage2)'
       /\ \A f \in Managed : \A o \in Ops : f # e \/ o # "receive" => SameCtps(f, o)
  <2> DEFINE r == [producer_task |-> e[1], consumer_task |-> e[2], dmni_op |-> "receive",
                   subnet |-> path[e], CS_enabled |-> FALSE]
  <2>1. r \in CtpRecord
    BY <1>1, <1>5, ManagedFacts, EdgeFacts DEF CtpRecord
  <2>2. SlotOf(r, e, "receive", stage2[e])
    BY <1>1, <1>4, <1>5, <1>10, ManagedFacts, EdgeFacts, SystemAssumption, BooleanFacts DEF SlotOf
  <2>3. /\ UnusedSlots(End(e, "receive")) # {} /\ CtpTyped /\ TableInv(stage)
        /\ ctp' = [ctp EXCEPT ![End(e, "receive")][First(UnusedSlots(End(e, "receive")))] = r]
    BY <1>7, <1>8, <1>9 DEF add_ctp_entry, Ready
  <2> HIDE DEF r
  <2>4. QED BY <1>1, <1>4, <1>7, <1>11, <2>1, <2>2, <2>3, AddCtp, ZenonT(60)
<1>13. /\ NetInv(ps_net', stage2, path) /\ OrderFirst(ps_net', stage2, path, Waits')
       /\ MessagesIn(ps_net') = MessagesIn(net) /\ InAnswers(ps_net') = InAnswers(net)
  <2>1. MayChange(net, stage, path, Waits', e, g, stage2, path)
    BY <1>1, <1>3 DEF Ready, OrderFirst, OthersAhead, MayChange
  <2>2. QED BY <1>1, <1>2, <1>5, <1>9, <2>1, OrderSent
<1>14. \A f \in Managed : f[2] # c => f # e /\ stage2[f] = stage[f]
  BY <1>1, <1>10
<1>15. KeptInv(stage2)'
  <2>1. /\ add_ctp'[c] = NoOrder /\ remove_ctp'[c] = NoTask
        /\ \A t \in Task \ {c} : /\ waiting'[t] = waiting[t] /\ add_ctp'[t] = add_ctp[t]
                                 /\ remove_ctp'[t] = remove_ctp[t]
    BY <1>6, <1>9 DEF Ready, Typed
  <2>2. QED BY <1>1, <1>14, <2>1, KeptForOthers DEF Ready
<1>16. QosInv(stage2)'
  <2>1. QosOf(g) = QosOf(stage[e]) /\ g # At(FALSE, "concluded") /\ stage[e] # At(FALSE, "concluded")
    BY <1>1, <1>2 DEF QosOf, At, Ordered
  <2>2. QED BY <1>1, <1>10, <2>1 DEF Ready, QosInv, qosVars
<1>17. /\ NoErrorLoop'
       /\ add_ctp' \in [Task -> [subnet : Subnet \cup {NoSubnet, Garbage}, producer : Task \cup {NoTask}]]
       /\ remove_ctp' \in [Task -> Task \cup {NoTask}]
  BY <1>6, <1>9 DEF Ready, NoErrorLoop, Typed, NoOrder
<1>18. \A f \in Managed : SameCtps(f, "send") /\ (f[2] # c => SameCtps(f, "receive"))
  BY <1>7, <1>12, <1>14
<1>19. QED BY <1>1, <1>10, <1>12, <1>13, <1>14, <1>15, <1>16, <1>17, <1>18 DEF Obeyed

\* remove_ctp_online: the consumer leaves the circuit and orders its producer to. Its CTP
\* is enabled, so the kernel finds it.
LEMMA LeaveCircuit ==
    ASSUME NEW stage \in [Managed -> Stage], NEW c, NEW rem, NEW net,
           Ready(c, NoOrder, rem, stage, net), rem # NoTask,
           remove_ctp_online(c, rem, net), UNCHANGED add_ctp
    PROVE  \E stage2 : Obeyed(c, stage, stage2, net)
<1> DEFINE e == <<rem, c>>
           g == At(FALSE, "SET_NOC_SWITCHING_PRODUCER")
<1>1. /\ e \in Managed /\ ~stage[e].cs_mode /\ stage[e].place \in Ordered
      /\ NoOrderOf(net, e) /\ e[2] = c /\ e[1] = rem
      /\ e \notin Waits' /\ path' = path /\ add_ctp'[c] = NoOrder
  BY DEF Ready, OrdersOf, qosVars
<1> HIDE DEF e
<1>2. /\ g \in Stage /\ g.place \in OrderService /\ ~g.cs_mode
      /\ g.place = "SET_NOC_SWITCHING_PRODUCER"
  BY DEF At, Stage, Place, OrderService
<1>3. PICK stage2 : Becomes(stage, stage2, e, g)
  BY <1>1, <1>2, Change
<1>4. /\ Has(stage[e], "receive") /\ Enabled(stage[e], "receive") /\ ~Has(g, "receive")
      /\ Has(g, "send") = Has(stage[e], "send") /\ Enabled(g, "send") = Enabled(stage[e], "send")
  BY <1>1 DEF At, Has, Enabled, Ordered, Halfway
<1>5. path[e] \in Subnet
  <2>1. stage[e] # At(FALSE, "concluded")
    BY <1>1 DEF At, Ordered
  <2>2. QED BY <1>1, <2>1 DEF Ready, QosInv, Typed
<1>6. End(e, "receive") = Home[c] /\ "receive" \in Ops /\ "send" \in Ops
  BY <1>1 DEF End, Ops
<1>7. get_subnet(Home[c], e[1], e[2], "receive") = path[e]
  <2>1. get_subnet(End(e, "receive"), e[1], e[2], "receive") = path[e]
    BY <1>1, <1>4, <1>6, ManagedFacts, SubnetOf DEF Ready
  <2>2. QED BY <1>6, <2>1
<1>8. path[e] # NoSubnet
  BY <1>5, SystemAssumption
<1>9. /\ ctp' = remove_ctp_entry(Home[c], path[e], "receive")
      /\ ps_net' = Put(net, LinkOf(e, g.place), OrderOf(e, g, path[e]))
      /\ remove_ctp' = [remove_ctp EXCEPT ![c] = NoTask] /\ UNCHANGED halted
  BY <1>1, <1>7, <1>8 DEF remove_ctp_online, Sent, Put, LinkOf, Back, OrderOf, Order, At, NetOf
<1> HIDE DEF g
<1>10. /\ stage2 \in [Managed -> Stage] /\ stage2[e] = g
       /\ \A f \in Managed : f # e => stage2[f] = stage[f]
  BY <1>3 DEF Becomes
<1>11. OnlyEnd(stage, stage2, e, "receive")
  BY <1>4, <1>10 DEF OnlyEnd, Ops
<1>12. /\ CtpTyped' /\ TableInv(stage2)'
       /\ \A f \in Managed : \A o \in Ops : f # e \/ o # "receive" => SameCtps(f, o)
  BY <1>1, <1>4, <1>6, <1>9, <1>10, <1>11, RemoveCtp DEF Ready
<1>13. /\ NetInv(ps_net', stage2, path) /\ OrderFirst(ps_net', stage2, path, Waits')
       /\ MessagesIn(ps_net') = MessagesIn(net) /\ InAnswers(ps_net') = InAnswers(net)
  <2>1. MayChange(net, stage, path, Waits', e, g, stage2, path)
    BY <1>1, <1>3 DEF Ready, OrderFirst, OthersAhead, MayChange
  <2>2. QED BY <1>1, <1>2, <1>5, <1>9, <2>1, OrderSent
<1>14. \A f \in Managed : f[2] # c => f # e /\ stage2[f] = stage[f]
  BY <1>1, <1>10
<1>15. KeptInv(stage2)'
  <2>1. /\ add_ctp'[c] = NoOrder /\ remove_ctp'[c] = NoTask
        /\ \A t \in Task \ {c} : /\ waiting'[t] = waiting[t] /\ add_ctp'[t] = add_ctp[t]
                                 /\ remove_ctp'[t] = remove_ctp[t]
    BY <1>1, <1>9 DEF Ready, Typed
  <2>2. QED BY <1>1, <1>14, <2>1, KeptForOthers DEF Ready
<1>16. QosInv(stage2)'
  <2>1. QosOf(g) = QosOf(stage[e]) /\ g # At(FALSE, "concluded") /\ stage[e] # At(FALSE, "concluded")
    BY <1>1, <1>2 DEF QosOf, At, Ordered
  <2>2. QED BY <1>1, <1>10, <2>1 DEF Ready, QosInv, qosVars
<1>17. /\ NoErrorLoop'
       /\ add_ctp' \in [Task -> [subnet : Subnet \cup {NoSubnet, Garbage}, producer : Task \cup {NoTask}]]
       /\ remove_ctp' \in [Task -> Task \cup {NoTask}]
  BY <1>9 DEF Ready, NoErrorLoop, Typed
<1>18. \A f \in Managed : SameCtps(f, "send") /\ (f[2] # c => SameCtps(f, "receive"))
  BY <1>6, <1>12, <1>14
<1>19. QED BY <1>1, <1>10, <1>12, <1>13, <1>14, <1>15, <1>16, <1>17, <1>18 DEF Obeyed

\* No order: nothing changes but the messages that wait.
LEMMA NothingKept ==
    ASSUME NEW stage \in [Managed -> Stage], NEW c, NEW net,
           Ready(c, NoOrder, NoTask, stage, net), ps_net' = net,
           UNCHANGED <<halted, ctp, add_ctp, remove_ctp>>
    PROVE  Obeyed(c, stage, stage, net)
<1>1. path' = path /\ qos' = qos
  BY DEF Ready, qosVars
<1>2. CtpTyped' /\ TableInv(stage)'
  BY <1>1 DEF Ready, CtpTyped, TableInv, PathsApart, CtpShape, CtpExists, CtpOnce, SlotsOf, Used,
              CtpPair
<1>3. KeptInv(stage)'
  <2>1. /\ add_ctp'[c] = NoOrder /\ remove_ctp'[c] = NoTask /\ c \in Task /\ KeptInv(stage)
        /\ \A t \in Task \ {c} : /\ waiting'[t] = waiting[t] /\ add_ctp'[t] = add_ctp[t]
                                 /\ remove_ctp'[t] = remove_ctp[t]
    BY DEF Ready, OrdersOf
  <2>2. QED BY <1>1, <2>1, KeptForOthers
<1>4. NoErrorLoop' /\ QosInv(stage)'
  BY <1>1 DEF Ready, NoErrorLoop, QosInv
<1>5. NetInv(ps_net', stage, path') /\ OrderFirst(ps_net', stage, path', Waits')
  BY <1>1 DEF Ready
<1>6. \A f \in Managed : \A o \in Ops : SameCtps(f, o)
  BY DEF SameCtps, CtpsOf, SlotsOfPair
<1>7. QED BY <1>2, <1>3, <1>4, <1>5, <1>6 DEF Obeyed, Ready, Typed, Ops

\* check_ctp_reconfiguration, with at most one order.
LEMMA Reconfigured ==
    ASSUME NEW stage \in [Managed -> Stage], NEW c, NEW add, NEW rem, NEW net,
           Ready(c, add, rem, stage, net), check_ctp_reconfiguration(c, add, rem, net)
    PROVE  \E stage2 : Obeyed(c, stage, stage2, net)
<1>1. CASE add # NoOrder
  <2>1. add_ctp_online(c, add, net) /\ remove_ctp' = [remove_ctp EXCEPT ![c] = rem]
    BY <1>1 DEF check_ctp_reconfiguration
  <2>2. QED BY <1>1, <2>1, EnterCircuit
<1>2. CASE add = NoOrder /\ rem # NoTask
  <2>1. remove_ctp_online(c, rem, net) /\ UNCHANGED add_ctp
    BY <1>2 DEF check_ctp_reconfiguration
  <2>2. QED BY <1>2, <2>1, LeaveCircuit
<1>3. CASE add = NoOrder /\ rem = NoTask
  <2>1. ps_net' = net /\ UNCHANGED <<halted, ctp, add_ctp, remove_ctp>>
    BY <1>3 DEF check_ctp_reconfiguration
  <2>2. QED BY <1>3, <2>1, NothingKept
<1>4. QED BY <1>1, <1>2, <1>3

-----------------------------------------------------------------------------
(* The release of the consumer *)

\* What SwitchesBetweenMessages says of a step.
SwitchStep ==
    \A e \in Managed :
        /\ SameCtps(e, "receive") \/ (waiting[e[2]] # e[1])'
        /\ SameCtps(e, "send") \/ (~AtProducer(e) /\ ~OnCircuit(e))

\* The orders kept for the consumer can be obeyed when it is released.
LEMMA ReleaseReady ==
    ASSUME NEW stage \in [Managed -> Stage], Inv(stage), NEW e \in Waits, NEW net,
           NetInv(net, stage, path), OrderFirst(net, stage, path, Waits),
           waiting' = [waiting EXCEPT ![e[2]] = NoTask], UNCHANGED qosVars
    PROVE  Ready(e[2], add_ctp[e[2]], remove_ctp[e[2]], stage, net)
<1> DEFINE c == e[2]
<1>1. e \in Edge /\ c \in Task /\ NoTask \notin Task
  BY EdgeFacts, SystemAssumption DEF Waits
<1>2. Waits' = Waits \ {e}
  BY <1>1, Released DEF Inv
<1>3. OrderFirst(net, stage, path, Waits')
  BY <1>2, SameOrderFirst
<1>4. waiting'[c] = NoTask /\ \A t \in Task \ {c} : waiting'[t] = waiting[t]
  BY <1>1 DEF Inv, Typed
<1>5. ASSUME NEW f \in Managed, f[2] = c PROVE f \notin Waits'
  BY <1>1, <1>4, <1>5, ManagedFacts, EdgeFacts DEF Waits
<1>6. \A f : stage[f] = At(TRUE, "kept") \/ stage[f] = At(FALSE, "kept") =>
                stage[f].place \in Ordered /\ NoOrderOf(net, f)
  <2>1. SUFFICES ASSUME NEW f, stage[f] = At(TRUE, "kept") \/ stage[f] = At(FALSE, "kept")
                 PROVE  stage[f].place \in Ordered /\ NoOrderOf(net, f)
    OBVIOUS
  <2>2. stage[f].place \in Ordered /\ stage[f].place \notin OrderService
    BY <2>1 DEF At, Ordered, OrderService
  <2>3. QED BY <2>2, NotInNet
<1>7. KeptInv(stage)
  BY DEF Inv
<1>8. OrdersOf(c, add_ctp[c], remove_ctp[c], stage, net)
  <2>1. ASSUME add_ctp[c] # NoOrder
        PROVE  LET f == <<add_ctp[c].producer, c>>
               IN  /\ f \in Managed /\ stage[f].cs_mode /\ stage[f].place \in Ordered
                   /\ add_ctp[c].subnet = path[f] /\ NoOrderOf(net, f)
    <3> DEFINE f == <<add_ctp[c].producer, c>>
    <3>1. f \in Managed /\ stage[f] = At(TRUE, "kept") /\ add_ctp[c].subnet = path[f]
      BY <1>1, <1>7, <2>1 DEF KeptInv
    <3>2. QED BY <1>6, <3>1 DEF At
  <2>2. ASSUME remove_ctp[c] # NoTask
        PROVE  LET f == <<remove_ctp[c], c>>
               IN  /\ f \in Managed /\ ~stage[f].cs_mode /\ stage[f].place \in Ordered
                   /\ NoOrderOf(net, f)
    <3> DEFINE f == <<remove_ctp[c], c>>
    <3>1. f \in Managed /\ stage[f] = At(FALSE, "kept")
      BY <1>1, <1>7, <2>2 DEF KeptInv
    <3>2. QED BY <1>6, <3>1 DEF At
  <2>3. QED BY <2>1, <2>2 DEF OrdersOf
<1>9. QED BY <1>1, <1>3, <1>4, <1>5, <1>8 DEF Ready, Inv

\* What is on the circuits belongs to pairs whose consumers wait, so to others than the
\* pair that changed its mode.
LEMMA ObeyedCircuit ==
    ASSUME NEW stage \in [Managed -> Stage], Inv(stage), NEW c, NEW stage2, NEW net,
           Obeyed(c, stage, stage2, net), Conservation', \A f \in Waits' : f[2] # c,
           UNCHANGED <<wire, path>>,
           DOMAIN line' \subseteq DOMAIN line, \A k \in DOMAIN line' : line'[k] = line[k]
    PROVE  CircuitInv(stage2)' /\ SwitchStep
<1>1. ASSUME NEW f \in Managed, f \in Waits' PROVE stage2[f] = stage[f]
  BY <1>1 DEF Obeyed
<1>2. ASSUME NEW k \in wire'
      PROVE  \E f \in Managed : k = <<Home[f[1]], path'[f]>> /\ Enabled(stage2[f], "receive")
  <2>1. PICK f \in Managed : k = <<Home[f[1]], path[f]>> /\ Enabled(stage[f], "receive")
    BY DEF Inv, CircuitInv
  <2>2. f \in OnWire'
    BY <2>1 DEF OnWire
  <2>3. f \in Waits'
    BY <2>2 DEF Conservation, Partition
  <2>4. QED BY <1>1, <2>1, <2>3
<1>3. ASSUME NEW k \in DOMAIN line'
      PROVE  /\ line'[k] \in Managed /\ k = <<Home[line'[k][2]], path'[line'[k]]>>
             /\ \A op \in Ops : Has(stage2[line'[k]], op)
  <2>1. /\ line'[k] = line[k] /\ line[k] \in Managed /\ k = <<Home[line[k][2]], path[line[k]]>>
        /\ \A op \in Ops : Has(stage[line[k]], op)
    BY OnLineFacts
  <2>2. line[k] \in OnLine'
    BY <2>1 DEF OnLine
  <2>3. line[k] \in Waits'
    BY <2>2 DEF Conservation, Partition
  <2>4. QED BY <1>1, <2>1, <2>3
<1>4. SwitchStep
  <2>1. ASSUME NEW f \in Managed, f[2] = c PROVE (waiting[f[2]] # f[1])'
    BY <2>1, ManagedFacts DEF Waits
  <2>2. QED BY <2>1 DEF SwitchStep, Obeyed
<1>5. QED BY <1>2, <1>3, <1>4 DEF CircuitInv

\* The message has gone from its place, and the orders of its consumer are obeyed.
LEMMA ReleaseInv ==
    ASSUME NEW stage \in [Managed -> Stage], Inv(stage), NEW e \in Waits, NEW stage2, NEW net,
           Obeyed(e[2], stage, stage2, net),
           waiting' = [waiting EXCEPT ![e[2]] = NoTask], got' = [got EXCEPT ![e] = @ + 1],
           UNCHANGED <<message_request, pending, wire, qosVars, put>>,
           Conservation', e \in Answers, Answers' = Answers \ {e},
           DOMAIN line' \subseteq DOMAIN line, \A k \in DOMAIN line' : line'[k] = line[k]
    PROVE  Inv(stage2)' /\ RV!Arrive(e[1], e[2]) /\ SwitchStep
<1> DEFINE c == e[2]
<1>1. e \in Edge /\ c \in Task /\ e[1] \in Task /\ NoTask \notin Task /\ e = <<e[1], e[2]>>
      /\ waiting[c] = e[1] /\ path' = path
  BY EdgeFacts, SystemAssumption DEF Waits, qosVars
<1>2. waiting' \in [Task -> Task \cup {NoTask}] /\ waiting'[c] = NoTask
  BY <1>1 DEF Inv, Typed
<1>3. \A f \in Waits' : f[2] # c
  BY <1>1, <1>2, EdgeFacts DEF Waits
<1>4. CircuitInv(stage2)' /\ SwitchStep
  BY <1>1, <1>3, ObeyedCircuit
<1>5. put \in [Edge -> Nat] /\ got \in [Edge -> Nat] /\ put[e] = got[e] + 1
  BY <1>1 DEF Inv, Typed, OneAhead
<1>6. OneAhead'
  BY <1>1, <1>5 DEF Inv, OneAhead
<1>7. RV!Arrive(e[1], e[2])
  BY <1>1, <1>5 DEF RV!Arrive
<1>8. Typed'
  <2>1. got' \in [Edge -> Nat]
    BY <1>1, <1>5
  <2>2. DOMAIN line' \subseteq PE \X Subnet
    BY DEF Inv, Typed
  <2>3. QED BY <1>2, <2>1, <2>2 DEF Inv, Typed, Obeyed, qosVars
<1>9. AtProducers'
  BY DEF Inv, AtProducers
<1>10. QED BY <1>4, <1>6, <1>7, <1>8, <1>9 DEF Inv, Obeyed

\* The answer by packet releases its consumer.
LEMMA HandleDeliveryInv ==
    ASSUME NEW stage \in [Managed -> Stage], Inv(stage), NEW s \in Node, NEW d \in PE,
           HandleDelivery(s, d)
    PROVE  /\ \E stage2 \in [Managed -> Stage] : Inv(stage2)'
           /\ \E e \in Edge : RV!Arrive(e[1], e[2])
           /\ SwitchStep
<1>1. PICK e \in Edge :
              /\ PacketOf(s, d) = DeliveryOf(e) /\ e \in InNet /\ e \in InAnswers(ps_net)
              /\ NetInv(Taken(s, d), stage, path) /\ OrderFirst(Taken(s, d), stage, path, Waits)
              /\ MessagesIn(Taken(s, d)) = InNet \ {e}
              /\ InAnswers(Taken(s, d)) = InAnswers(ps_net) \ {e}
  BY DeliveryRead DEF HandleDelivery
<1> DEFINE net == Taken(s, d)
<1>2. PacketOf(s, d).producer = e[1] /\ PacketOf(s, d).consumer = e[2]
  BY <1>1 DEF DeliveryOf, Delivery
<1>3. /\ e \in Waits /\ e[1] \in Task /\ NoTask \notin Task /\ e = <<e[1], e[2]>>
      /\ waiting[e[2]] # NoTask /\ e \notin OnLine
  BY <1>1, EdgeFacts, SystemAssumption DEF Inv, Conservation, Partition, Waits
<1>4. Release(e[2], e, net) /\ UNCHANGED <<message_request, pending, wire, line, qosVars, put>>
  BY <1>2, <1>3 DEF HandleDelivery
<1> HIDE DEF net
<1>5. /\ waiting' = [waiting EXCEPT ![e[2]] = NoTask] /\ got' = [got EXCEPT ![e] = @ + 1]
      /\ check_ctp_reconfiguration(e[2], add_ctp[e[2]], remove_ctp[e[2]], net)
  BY <1>4 DEF Release
<1>6. Ready(e[2], add_ctp[e[2]], remove_ctp[e[2]], stage, net)
  BY <1>1, <1>3, <1>4, <1>5, ReleaseReady DEF net
<1>7. PICK stage2 : Obeyed(e[2], stage, stage2, net)
  BY <1>5, <1>6, Reconfigured
<1>8. InNet' = InNet \ {e} /\ InAnswers(ps_net') = InAnswers(ps_net) \ {e}
  BY <1>1, <1>7 DEF Obeyed, InNet, net
<1>9. Waits' = Waits \ {e}
  BY <1>3, <1>5, Released DEF Inv
<1>10. /\ InPending' = InPending /\ InTable' = InTable /\ OnWire' = OnWire /\ OnLine' = OnLine
  BY <1>4, SameSets DEF qosVars
<1>11. Conservation'
  BY <1>1, <1>8, <1>9, <1>10 DEF Inv, Conservation, Partition
<1>12. e \in Answers /\ Answers' = Answers \ {e}
  BY <1>1, <1>3, <1>8, <1>10 DEF Answers
<1>13. Inv(stage2)' /\ RV!Arrive(e[1], e[2]) /\ SwitchStep
  BY <1>3, <1>4, <1>5, <1>7, <1>11, <1>12, ReleaseInv
<1>14. stage2 \in [Managed -> Stage]
  BY <1>7 DEF Obeyed
<1>15. QED BY <1>13, <1>14

\* The answer by circuit releases its consumer, which the CTP of the subnet names.
LEMMA HandleCSDeliveryInv ==
    ASSUME NEW stage \in [Managed -> Stage], Inv(stage), NEW d \in PE, NEW s \in Subnet,
           HandleCSDelivery(d, s)
    PROVE  /\ \E stage2 \in [Managed -> Stage] : Inv(stage2)'
           /\ \E e \in Edge : RV!Arrive(e[1], e[2])
           /\ SwitchStep
<1> DEFINE K == <<d, s>>
           e == line[K]
<1>1. /\ e \in Managed /\ e \in Waits /\ d = Home[e[2]] /\ s = path[e] /\ K \in DOMAIN line
      /\ Has(stage[e], "receive") /\ K = <<Home[e[2]], path[e]>>
  <2>1. K \in DOMAIN line
    BY DEF HandleCSDelivery
  <2>2. "receive" \in Ops
    BY DEF Ops
  <2>3. QED BY <2>1, <2>2, OnLineFacts
<1>2. line' = [k \in DOMAIN line \ {K} |-> line[k]]
  BY DEF HandleCSDelivery
<1> HIDE DEF K
<1>3. DOMAIN line' = DOMAIN line \ {K} /\ \A k \in DOMAIN line' : line'[k] = line[k]
  BY <1>2
<1>4. OnLine' = OnLine \ {e}
  <2>1. \A k \in DOMAIN line : line[k] = e => k = K
    BY <1>1, OnLineFacts
  <2>2. QED BY <1>3, <2>1 DEF OnLine
<1> HIDE DEF e
<1>5. End(e, "receive") = d /\ "receive" \in Ops
  BY <1>1 DEF End, Ops
<1>6. PICK i \in Slot : IsCtp(i, e, "receive", stage[e])
  BY <1>1, <1>5, CtpOf DEF Inv
<1>7. SlotsOf(d, s, "receive") # {} /\ get_ctp_ptr(d, s, "receive").consumer_task = e[2]
  BY <1>1, <1>5, <1>6 DEF IsCtp, get_ctp_ptr
<1>8. waiting[e[2]] # NoTask /\ e \in Edge
  BY <1>1, EdgeFacts, SystemAssumption DEF Waits
<1>9. Release(e[2], e, ps_net) /\ UNCHANGED <<message_request, pending, wire, qosVars, put>>
  BY <1>7, <1>8 DEF HandleCSDelivery, e, K
<1>10. /\ waiting' = [waiting EXCEPT ![e[2]] = NoTask] /\ got' = [got EXCEPT ![e] = @ + 1]
       /\ check_ctp_reconfiguration(e[2], add_ctp[e[2]], remove_ctp[e[2]], ps_net)
  BY <1>9 DEF Release
<1>11. Ready(e[2], add_ctp[e[2]], remove_ctp[e[2]], stage, ps_net)
  BY <1>1, <1>9, <1>10, ReleaseReady DEF Inv
<1>12. PICK stage2 : Obeyed(e[2], stage, stage2, ps_net)
  BY <1>10, <1>11, Reconfigured
<1>13. InNet' = InNet /\ InAnswers(ps_net') = InAnswers(ps_net)
  BY <1>12 DEF Obeyed, InNet
<1>14. Waits' = Waits \ {e}
  BY <1>1, <1>8, <1>10, Released DEF Inv
<1>15. /\ InPending' = InPending /\ InTable' = InTable /\ OnWire' = OnWire
  BY <1>9, SameSets DEF qosVars
<1>16. e \in OnLine
  BY <1>1 DEF OnLine, e
<1>17. Conservation'
  BY <1>4, <1>13, <1>14, <1>15, <1>16 DEF Inv, Conservation, Partition
<1>18. e \in Answers /\ Answers' = Answers \ {e}
  <2>1. e \notin InAnswers(ps_net)
    BY <1>16, AnswersInNet DEF Inv, Conservation, Partition, InNet
  <2>2. QED BY <1>4, <1>13, <1>16, <2>1 DEF Answers
<1>19. Inv(stage2)' /\ RV!Arrive(e[1], e[2]) /\ SwitchStep
  BY <1>1, <1>3, <1>9, <1>10, <1>12, <1>17, <1>18, ReleaseInv
<1>20. stage2 \in [Managed -> Stage]
  BY <1>12 DEF Obeyed
<1>21. QED BY <1>8, <1>19, <1>20

-----------------------------------------------------------------------------
(* The orders *)

\* A step that moves an order leaves the messages alone.
LEMMA OrderStep ==
    ASSUME NEW stage, Inv(stage), NEW stage2,
           UNCHANGED <<halted, waiting, message_request, pending, wire, line, put, got>>,
           OnWire' = OnWire, MessagesIn(ps_net') = InNet, InAnswers(ps_net') = InAnswers(ps_net),
           CtpTyped' /\ TableInv(stage2)', KeptInv(stage2)' /\ QosInv(stage2)',
           NetInv(ps_net', stage2, path') /\ OrderFirst(ps_net', stage2, path', Waits),
           CircuitInv(stage2)', Typed'
    PROVE  Inv(stage2)' /\ UNCHANGED RV!vars
<1>1. /\ Waits' = Waits /\ InPending' = InPending /\ InTable' = InTable /\ OnLine' = OnLine
      /\ InNet' = InNet
  BY SameSets DEF InNet
<1>2. Conservation'
  BY <1>1 DEF Inv, Conservation, Partition
<1>3. OneAhead'
  BY <1>1 DEF Inv, OneAhead, Answers
<1>4. NoErrorLoop' /\ AtProducers'
  BY DEF Inv, NoErrorLoop, AtProducers
<1>5. QED BY <1>1, <1>2, <1>3, <1>4 DEF Inv, RV!vars

\* Two stages with the same CTPs at both ends.
SameEnds(g, h) == \A o \in Ops : Has(h, o) = Has(g, o) /\ Enabled(h, o) = Enabled(g, o)

\* The circuits stay, and the stage of one pair changes to one with the same CTPs.
LEMMA SameCircuits ==
    ASSUME NEW stage, CircuitInv(stage), UNCHANGED <<wire, line>>, NEW e \in Managed, NEW stage2,
           \A f \in Managed : f # e => stage2[f] = stage[f] /\ path'[f] = path[f],
           SameEnds(stage[e], stage2[e]),
           path'[e] = path[e] \/ \A o \in Ops : ~Has(stage[e], o)
    PROVE  CircuitInv(stage2)'
<1>1. \A f \in Managed : \A o \in Ops : /\ Has(stage2[f], o) = Has(stage[f], o)
                                        /\ Enabled(stage2[f], o) = Enabled(stage[f], o)
                                        /\ Has(stage[f], o) => path'[f] = path[f]
  BY DEF SameEnds
<1>2. "receive" \in Ops /\ \A g : Enabled(g, "receive") => Has(g, "receive")
  BY DEF Ops, Enabled
<1>3. ASSUME NEW k \in wire'
      PROVE  \E f \in Managed : k = <<Home[f[1]], path'[f]>> /\ Enabled(stage2[f], "receive")
  <2>1. PICK f \in Managed : k = <<Home[f[1]], path[f]>> /\ Enabled(stage[f], "receive")
    BY DEF CircuitInv
  <2>2. QED BY <1>1, <1>2, <2>1
<1>4. ASSUME NEW k \in DOMAIN line'
      PROVE  /\ line'[k] \in Managed /\ k = <<Home[line'[k][2]], path'[line'[k]]>>
             /\ \A op \in Ops : Has(stage2[line'[k]], op)
  <2>1. /\ line'[k] = line[k] /\ line[k] \in Managed /\ k = <<Home[line[k][2]], path[line[k]]>>
        /\ \A op \in Ops : Has(stage[line[k]], op)
    BY DEF CircuitInv
  <2>2. QED BY <1>1, <1>2, <2>1
<1>5. QED BY <1>3, <1>4 DEF CircuitInv

\* The orders kept stay, and no order of the pair that changes is kept.
LEMMA SameKept ==
    ASSUME NEW stage, KeptInv(stage), UNCHANGED <<add_ctp, remove_ctp, waiting>>, NEW e,
           stage[e].place # "kept", NEW stage2,
           \A f \in Managed : f # e => stage2[f] = stage[f] /\ path'[f] = path[f]
    PROVE  KeptInv(stage2)'
<1>1. \A mode : stage[e] # At(mode, "kept")
  BY DEF At
<1>2. QED BY <1>1 DEF KeptInv

\* An order moves on without a change at the ends.
LEMMA OrderMoves ==
    ASSUME NEW stage, Inv(stage), NEW stage2, NEW e, NEW g, Becomes(stage, stage2, e, g),
           SameEnds(stage[e], g),
           UNCHANGED <<halted, ctp, waiting, message_request, pending, wire, line, put, got>>,
           \A f \in Managed : f # e => path'[f] = path[f],
           \/ path'[e] = path[e]
           \/ /\ \A o \in Ops : ~Has(stage[e], o)
              /\ PathsApart' /\ <<Home[e[1]], path'[e]>> \notin wire,
           MessagesIn(ps_net') = InNet, InAnswers(ps_net') = InAnswers(ps_net),
           KeptInv(stage2)' /\ QosInv(stage2)',
           NetInv(ps_net', stage2, path') /\ OrderFirst(ps_net', stage2, path', Waits),
           Typed'
    PROVE  Inv(stage2)' /\ UNCHANGED RV!vars /\ SwitchStep
<1>1. /\ e \in Managed /\ stage2[e] = g
      /\ \A f \in Managed : f # e => stage2[f] = stage[f] /\ path'[f] = path[f]
  BY DEF Becomes
<1>2. CtpTyped' /\ TableInv(stage2)'
  BY <1>1, SameTables DEF Inv, SameEnds
<1>3. CircuitInv(stage2)'
  BY <1>1, SameCircuits DEF Inv
<1>4. OnWire' = OnWire
  <2>1. e \in OnWire => Has(stage[e], "receive") /\ "receive" \in Ops
    BY OnWireFacts DEF Enabled, Ops
  <2>2. QED BY <1>1, <2>1 DEF OnWire
<1>5. SwitchStep
  BY DEF SwitchStep, SameCtps, CtpsOf, SlotsOfPair
<1>6. QED BY <1>2, <1>3, <1>4, <1>5, OrderStep

\* The order is obeyed at once: the consumer waits for no message.
LEMMA ObeyAtOnce ==
    ASSUME NEW stage \in [Managed -> Stage], Inv(stage), NEW e \in Managed,
           stage[e].place = "SET_NOC_SWITCHING_CONSUMER", waiting[e[2]] = NoTask,
           NEW add, NEW rem, NEW net,
           add = IF stage[e].cs_mode THEN [subnet |-> path[e], producer |-> e[1]] ELSE add_ctp[e[2]],
           rem = IF stage[e].cs_mode THEN remove_ctp[e[2]] ELSE e[1],
           NetInv(net, stage, path), NoOrderOf(net, e), OthersAhead(net, stage, path, Waits, e),
           MessagesIn(net) = InNet, InAnswers(net) = InAnswers(ps_net),
           check_ctp_reconfiguration(e[2], add, rem, net),
           UNCHANGED <<waiting, message_request, pending, wire, line, qosVars, put, got>>
    PROVE  /\ \E stage2 \in [Managed -> Stage] : Inv(stage2)'
           /\ UNCHANGED RV!vars /\ SwitchStep
<1> DEFINE c == e[2]
<1>1. c \in Task /\ e[1] \in Task /\ NoTask \notin Task /\ e = <<e[1], c>>
  BY ManagedFacts, EdgeFacts, SystemAssumption
<1>2. add_ctp[c] = NoOrder /\ remove_ctp[c] = NoTask
  BY <1>1 DEF Inv, KeptInv
<1>3. \A f \in Waits : f[2] # c
  BY <1>1, EdgeFacts DEF Waits
<1>4. Waits' = Waits /\ path' = path
  BY SameSets DEF qosVars
<1>5. OrderFirst(net, stage, path, Waits)
  <2>1. SUFFICES ASSUME NEW f \in Managed, stage[f].place = "SET_NOC_SWITCHING_PRODUCER"
                 PROVE  Ahead(net, f, OrderOf(f, stage[f], path[f]), f \in Waits)
    BY DEF OrderFirst
  <2>2. QED BY <2>1 DEF OthersAhead
<1>6. stage[e].place \in Ordered
  BY DEF Ordered
<1>7. OrdersOf(c, add, rem, stage, net)
  <2>1. CASE stage[e].cs_mode
    <3>1. add.producer = e[1] /\ add.subnet = path[e] /\ rem = NoTask
      BY <1>2, <2>1
    <3>2. QED BY <1>1, <1>2, <1>6, <2>1, <3>1 DEF OrdersOf
  <2>2. CASE ~stage[e].cs_mode
    BY <1>1, <1>2, <1>6, <2>2 DEF OrdersOf
  <2>3. QED BY <2>1, <2>2
<1>8. Ready(c, add, rem, stage, net)
  BY <1>1, <1>3, <1>4, <1>5, <1>7 DEF Ready, Inv
<1>9. PICK stage2 : Obeyed(c, stage, stage2, net)
  BY <1>8, Reconfigured
<1>10. /\ InNet' = InNet /\ InPending' = InPending /\ InTable' = InTable /\ OnWire' = OnWire
       /\ OnLine' = OnLine /\ InAnswers(ps_net') = InAnswers(ps_net)
  BY <1>4, <1>9, SameSets DEF Obeyed, InNet
<1>11. Conservation'
  BY <1>4, <1>10 DEF Inv, Conservation, Partition
<1>12. CircuitInv(stage2)' /\ SwitchStep
  <2>1. \A f \in Waits' : f[2] # c
    BY <1>3, <1>4
  <2>2. QED BY <1>4, <1>9, <1>11, <2>1, ObeyedCircuit
<1>13. OneAhead' /\ AtProducers'
  <2>1. Answers' = Answers
    BY <1>10 DEF Answers
  <2>2. QED BY <2>1 DEF Inv, OneAhead, AtProducers
<1>14. Typed'
  BY <1>4, <1>9 DEF Inv, Typed, Obeyed, qosVars
<1>15. stage2 \in [Managed -> Stage]
  BY <1>9 DEF Obeyed
<1>16. Inv(stage2)'
  BY <1>9, <1>11, <1>12, <1>13, <1>14 DEF Inv, Obeyed
<1>17. QED BY <1>12, <1>15, <1>16 DEF RV!vars

\* The order is kept in the TCB until the consumer has its message.
LEMMA OrderKept ==
    ASSUME NEW stage \in [Managed -> Stage], Inv(stage), NEW e \in Managed,
           stage[e].place = "SET_NOC_SWITCHING_CONSUMER", waiting[e[2]] # NoTask,
           NEW add, NEW rem,
           add = IF stage[e].cs_mode THEN [subnet |-> path[e], producer |-> e[1]] ELSE add_ctp[e[2]],
           rem = IF stage[e].cs_mode THEN remove_ctp[e[2]] ELSE e[1],
           NetInv(ps_net', stage, path), NoOrderOf(ps_net', e),
           OthersAhead(ps_net', stage, path, Waits, e),
           MessagesIn(ps_net') = InNet, InAnswers(ps_net') = InAnswers(ps_net),
           add_ctp' = [add_ctp EXCEPT ![e[2]] = add], remove_ctp' = [remove_ctp EXCEPT ![e[2]] = rem],
           UNCHANGED <<halted, ctp, waiting, message_request, pending, wire, line, qosVars, put, got>>
    PROVE  /\ \E stage2 \in [Managed -> Stage] : Inv(stage2)'
           /\ UNCHANGED RV!vars /\ SwitchStep
<1> DEFINE c == e[2]
           g == At(stage[e].cs_mode, "kept")
<1>1. /\ c \in Task /\ e[1] \in Task /\ NoTask \notin Task /\ e = <<e[1], c>>
      /\ path' = path /\ qos' = qos
  BY ManagedFacts, EdgeFacts, SystemAssumption DEF qosVars
<1>2. /\ g \in Stage /\ g.place \notin OrderService /\ g.cs_mode = stage[e].cs_mode
      /\ g.place = "kept" /\ stage[e].cs_mode \in BOOLEAN
  BY DEF At, Stage, Place, OrderService
<1>3. PICK stage2 : Becomes(stage, stage2, e, g)
  BY <1>2, Change
<1>4. SameEnds(stage[e], g)
  BY <1>2 DEF SameEnds, Has, Enabled, Ordered, Halfway, Ops
<1>5. /\ stage2 \in [Managed -> Stage] /\ stage2[e] = g
      /\ \A f \in Managed : f # e => stage2[f] = stage[f]
  BY <1>3 DEF Becomes
<1>6. /\ NetInv(ps_net', stage2, path) /\ OrderFirst(ps_net', stage2, path, Waits)
  <2>1. MayChange(ps_net', stage, path, Waits, e, g, stage2, path)
    BY <1>3 DEF MayChange
  <2>2. QED BY <1>2, <2>1, OrderEnds
<1>7. path[e] \in Subnet \cup {NoSubnet}
  BY DEF Inv, Typed
<1>8. Typed'
  <2>1. /\ add_ctp' \in [Task -> [subnet : Subnet \cup {NoSubnet, Garbage}, producer : Task \cup {NoTask}]]
        /\ remove_ctp' \in [Task -> Task \cup {NoTask}]
    BY <1>1, <1>7 DEF Inv, Typed
  <2>2. QED BY <1>1, <2>1 DEF Inv, Typed
<1>9. add_ctp[c] = NoOrder /\ remove_ctp[c] = NoTask
  <2>1. \A f \in Managed : f[2] = c => f = e
    BY ManagedFacts
  <2>2. \A mode : stage[e] # At(mode, "kept")
    BY DEF At
  <2>3. add_ctp[c] = NoOrder
    <3>1. <<add_ctp[c].producer, c>> # e \/ add_ctp[c] = NoOrder
      BY <1>1, <2>2 DEF Inv, KeptInv
    <3>2. add_ctp[c] # NoOrder => <<add_ctp[c].producer, c>> \in Managed
      BY <1>1 DEF Inv, KeptInv
    <3>3. QED BY <2>1, <3>1, <3>2
  <2>4. remove_ctp[c] = NoTask
    <3>1. <<remove_ctp[c], c>> # e \/ remove_ctp[c] = NoTask
      BY <1>1, <2>2 DEF Inv, KeptInv
    <3>2. remove_ctp[c] # NoTask => <<remove_ctp[c], c>> \in Managed
      BY <1>1 DEF Inv, KeptInv
    <3>3. QED BY <2>1, <3>1, <3>2
  <2>5. QED BY <2>3, <2>4
<1>10. KeptInv(stage2)'
  <2>1. add_ctp'[c] = add /\ remove_ctp'[c] = rem
    BY <1>1 DEF Inv, Typed
  <2>2. \A t \in Task \ {c} : add_ctp'[t] = add_ctp[t] /\ remove_ctp'[t] = remove_ctp[t]
    BY <1>1 DEF Inv, Typed
  <2>3. KeptInv(stage)
    BY DEF Inv
  <2>4. SUFFICES ASSUME NEW t \in Task
                 PROVE  /\ add_ctp'[t] # NoOrder =>
                             LET f == <<add_ctp'[t].producer, t>>
                             IN  /\ f \in Managed /\ stage2[f] = At(TRUE, "kept")
                                 /\ add_ctp'[t].subnet = path[f] /\ waiting[t] # NoTask
                        /\ remove_ctp'[t] # NoTask =>
                             LET f == <<remove_ctp'[t], t>>
                             IN  /\ f \in Managed /\ stage2[f] = At(FALSE, "kept")
                                 /\ waiting[t] # NoTask
    BY <1>1 DEF KeptInv
  <2>5. CASE t # c
    <3>1. \A p : <<p, t>> \in Managed => stage2[<<p, t>>] = stage[<<p, t>>]
      BY <1>5, <2>5
    <3>2. add_ctp'[t] = add_ctp[t] /\ remove_ctp'[t] = remove_ctp[t]
      BY <2>2, <2>5
    <3>3. /\ add_ctp[t] # NoOrder =>
               LET f == <<add_ctp[t].producer, t>>
               IN  /\ f \in Managed /\ stage[f] = At(TRUE, "kept")
                   /\ add_ctp[t].subnet = path[f] /\ waiting[t] # NoTask
          /\ remove_ctp[t] # NoTask =>
               LET f == <<remove_ctp[t], t>>
               IN  f \in Managed /\ stage[f] = At(FALSE, "kept") /\ waiting[t] # NoTask
      BY <2>3 DEF KeptInv
    <3>4. QED BY <3>1, <3>2, <3>3
  <2>6. CASE t = c /\ stage[e].cs_mode
    <3>1. add.producer = e[1] /\ add.subnet = path[e] /\ rem = NoTask
      BY <1>9, <2>6
    <3>2. stage2[e] = At(TRUE, "kept")
      BY <1>2, <1>5, <2>6
    <3>3. QED BY <1>1, <2>1, <2>6, <3>1, <3>2, ZenonT(60)
  <2>7. CASE t = c /\ ~stage[e].cs_mode
    <3>1. add = NoOrder /\ rem = e[1]
      BY <1>9, <2>7
    <3>2. stage2[e] = At(FALSE, "kept")
      BY <1>2, <1>5, <2>7
    <3>3. QED BY <1>1, <2>1, <2>7, <3>1, <3>2
  <2>8. QED BY <2>5, <2>6, <2>7
<1>11. QosInv(stage2)'
  <2>1. QosOf(g) = QosOf(stage[e]) /\ g # At(FALSE, "concluded") /\ stage[e] # At(FALSE, "concluded")
    BY DEF QosOf, At
  <2>2. QED BY <1>1, <1>5, <2>1 DEF Inv, QosInv
<1> HIDE DEF g
<1>12. Inv(stage2)' /\ UNCHANGED RV!vars /\ SwitchStep
  BY <1>1, <1>3, <1>4, <1>6, <1>8, <1>10, <1>11, OrderMoves
<1>13. QED BY <1>5, <1>12

\* The order of the QoS manager is obeyed or kept.
LEMMA SetConsumerInv ==
    ASSUME NEW stage \in [Managed -> Stage], Inv(stage), NEW s \in Node, NEW d \in PE,
           SetConsumer(s, d)
    PROVE  /\ \E stage2 \in [Managed -> Stage] : Inv(stage2)'
           /\ UNCHANGED RV!vars /\ SwitchStep
<1> DEFINE net == Taken(s, d)
<1>1. PICK e \in Managed :
              /\ stage[e].place = "SET_NOC_SWITCHING_CONSUMER"
              /\ PacketOf(s, d) = OrderOf(e, stage[e], path[e])
              /\ NetInv(net, stage, path) /\ NoOrderOf(net, e)
              /\ MessagesIn(net) = InNet /\ InAnswers(net) = InAnswers(ps_net)
              /\ OthersAhead(net, stage, path, Waits, e)
  <2>1. "SET_NOC_SWITCHING_CONSUMER" \in OrderService /\ d \in Node
    BY DEF OrderService, Node
  <2>2. PacketAt(s, d, "SET_NOC_SWITCHING_CONSUMER")
    BY DEF SetConsumer
  <2>3. QED BY <2>1, <2>2, OrderRead DEF OthersAhead
<1>2. /\ PacketOf(s, d).producer = e[1] /\ PacketOf(s, d).consumer = e[2]
      /\ PacketOf(s, d).cs_mode = stage[e].cs_mode
      /\ stage[e].cs_mode => PacketOf(s, d).cs_net = path[e]
  BY <1>1 DEF OrderOf, Order, NetOf
<1> DEFINE add == IF stage[e].cs_mode THEN [subnet |-> path[e], producer |-> e[1]]
                                       ELSE add_ctp[e[2]]
           rem == IF stage[e].cs_mode THEN remove_ctp[e[2]] ELSE e[1]
<1>3. /\ IF waiting[e[2]] = NoTask
         THEN check_ctp_reconfiguration(e[2], add, rem, net)
         ELSE /\ add_ctp' = [add_ctp EXCEPT ![e[2]] = add]
              /\ remove_ctp' = [remove_ctp EXCEPT ![e[2]] = rem]
              /\ ps_net' = net
              /\ UNCHANGED <<halted, ctp>>
      /\ UNCHANGED <<waiting, message_request, pending, wire, line, qosVars, put, got>>
  BY <1>2 DEF SetConsumer
<1> HIDE DEF net
<1>4. CASE waiting[e[2]] = NoTask
  <2>1. check_ctp_reconfiguration(e[2], add, rem, net)
    BY <1>3, <1>4
  <2>2. add = IF stage[e].cs_mode THEN [subnet |-> path[e], producer |-> e[1]] ELSE add_ctp[e[2]]
    OBVIOUS
  <2>3. rem = IF stage[e].cs_mode THEN remove_ctp[e[2]] ELSE e[1]
    OBVIOUS
  <2> HIDE DEF add, rem
  <2>4. QED BY <1>1, <1>3, <1>4, <2>1, <2>2, <2>3, ObeyAtOnce
<1>5. CASE waiting[e[2]] # NoTask
  <2>1. /\ add_ctp' = [add_ctp EXCEPT ![e[2]] = add] /\ remove_ctp' = [remove_ctp EXCEPT ![e[2]] = rem]
        /\ ps_net' = net /\ UNCHANGED <<halted, ctp>>
    BY <1>3, <1>5
  <2>2. add = IF stage[e].cs_mode THEN [subnet |-> path[e], producer |-> e[1]] ELSE add_ctp[e[2]]
    OBVIOUS
  <2>3. rem = IF stage[e].cs_mode THEN remove_ctp[e[2]] ELSE e[1]
    OBVIOUS
  <2> HIDE DEF add, rem
  <2>4. QED BY <1>1, <1>3, <1>5, <2>1, <2>2, <2>3, OrderKept
<1>6. QED BY <1>4, <1>5

\* A pair whose request is in the network, or that has none, has nothing at its producer.
LEMMA NothingAtProducer ==
    ASSUME NEW stage, Inv(stage), NEW e \in Managed, e \in InNet \/ e \notin Waits
    PROVE  ~AtProducer(e) /\ ~OnCircuit(e)
<1>1. e \notin InPending /\ e \notin InTable /\ e \notin OnWire /\ e \notin OnLine
  BY DEF Inv, Conservation, Partition
<1>2. Home[e[1]] \in PE
  BY ManagedFacts, EdgeFacts
<1>3. ASSUME NEW i \in DOMAIN pending[Home[e[1]]], pending[Home[e[1]]][i] = e PROVE FALSE
  <2>1. <<Home[e[1]], e>> \in Items(pending)
    BY <1>2, <1>3, ItemOf DEF Inv, AtProducers
  <2>2. QED BY <1>1, <2>1 DEF InPending
<1>4. QED BY <1>1, <1>2, <1>3 DEF AtProducer, OnCircuit, InTable, OnWire, OnLine

\* The producer changes, and its answer to the consumer's order is on its way.
LEMMA ProducerChanges ==
    ASSUME NEW stage \in [Managed -> Stage], Inv(stage), NEW e, NEW g, NEW stage2,
           Becomes(stage, stage2, e, g), stage[e].place = "SET_NOC_SWITCHING_PRODUCER",
           g = At(stage[e].cs_mode, "NOC_SWITCHING_PRODUCER_ACK"),
           NEW net, NetInv(net, stage, path), NoOrderOf(net, e),
           OthersAhead(net, stage, path, Waits, e),
           MessagesIn(net) = InNet, InAnswers(net) = InAnswers(ps_net),
           ps_net' = Put(net, LinkOf(e, g.place), OrderOf(e, g, path[e])),
           CtpTyped' /\ TableInv(stage2)',
           \A f \in Managed : \A o \in Ops : f # e \/ o # "send" => SameCtps(f, o),
           UNCHANGED <<halted, add_ctp, remove_ctp, waiting, message_request, pending, wire, line,
                       qosVars, put, got>>
    PROVE  Inv(stage2)' /\ UNCHANGED RV!vars /\ SwitchStep
<1>1. /\ e \in Managed /\ g \in Stage /\ stage2[e] = g /\ path' = path /\ qos' = qos
      /\ \A f \in Managed : f # e => stage2[f] = stage[f]
      /\ g.place \in OrderService /\ g.place # "SET_NOC_SWITCHING_PRODUCER"
      /\ path[e] \in Subnet \cup {NoSubnet}
  BY DEF Becomes, At, OrderService, Inv, Typed, qosVars
<1>2. /\ NetInv(ps_net', stage2, path) /\ OrderFirst(ps_net', stage2, path, Waits)
      /\ MessagesIn(ps_net') = InNet /\ InAnswers(ps_net') = InAnswers(ps_net)
  <2>1. MayChange(net, stage, path, Waits, e, g, stage2, path)
    BY DEF MayChange
  <2>2. QED BY <1>1, <2>1, OrderSent
<1>3. KeptInv(stage2)'
  BY <1>1, SameKept DEF Inv
<1>4. QosInv(stage2)'
  <2>1. QosOf(g) = QosOf(stage[e]) /\ g # At(FALSE, "concluded") /\ stage[e] # At(FALSE, "concluded")
    BY DEF QosOf, At
  <2>2. QED BY <1>1, <2>1 DEF Inv, QosInv
<1>5. e \in InNet \/ e \notin Waits
  <2>1. SUFFICES ASSUME e \in Waits PROVE e \in InNet
    OBVIOUS
  <2>2. Ahead(ps_net, e, OrderOf(e, stage[e], path[e]), TRUE)
    BY <1>1, <2>1 DEF Inv, OrderFirst
  <2>3. QED BY <1>1, <2>2, ManagedFacts, OrderBefore DEF Inv, InNet
<1>6. ~AtProducer(e) /\ ~OnCircuit(e)
  BY <1>1, <1>5, NothingAtProducer
<1>7. CircuitInv(stage2)'
  <2>1. ~Enabled(stage[e], "receive")
    BY DEF Enabled
  <2>2. \A k \in DOMAIN line : line[k] # e
    BY <1>6 DEF OnCircuit
  <2>3. CircuitInv(stage)
    BY DEF Inv
  <2>4. QED BY <1>1, <2>1, <2>2, <2>3 DEF CircuitInv
<1>8. OnWire' = OnWire /\ Typed'
  BY <1>1 DEF OnWire, Inv, Typed
<1>9. SwitchStep
  <2>1. "receive" # "send" /\ "receive" \in Ops /\ "send" \in Ops
    BY DEF Ops
  <2>2. QED BY <1>6, <2>1 DEF SwitchStep
<1>10. Inv(stage2)' /\ UNCHANGED RV!vars
  BY <1>1, <1>2, <1>3, <1>4, <1>7, <1>8, OrderStep
<1>11. QED BY <1>9, <1>10

\* The producer finds room for its CTP, or the CTP it has to remove.
LEMMA SetProducerInv ==
    ASSUME NEW stage \in [Managed -> Stage], Inv(stage), NEW s \in Node, NEW d \in PE,
           SetProducer(s, d)
    PROVE  /\ \E stage2 \in [Managed -> Stage] : Inv(stage2)'
           /\ UNCHANGED RV!vars /\ SwitchStep
<1> DEFINE net == Taken(s, d)
           place == "SET_NOC_SWITCHING_PRODUCER"
<1>1. PICK e \in Managed :
              /\ stage[e].place = place /\ <<s, d>> = LinkOf(e, place)
              /\ PacketOf(s, d) = OrderOf(e, stage[e], path[e])
              /\ NetInv(net, stage, path) /\ NoOrderOf(net, e)
              /\ MessagesIn(net) = InNet /\ InAnswers(net) = InAnswers(ps_net)
              /\ OthersAhead(net, stage, path, Waits, e)
  <2>1. place \in OrderService /\ d \in Node /\ PacketAt(s, d, place)
    BY DEF OrderService, Node, SetProducer
  <2>2. QED BY <2>1, OrderRead DEF OthersAhead
<1> DEFINE m == stage[e].cs_mode
           g == At(m, "NOC_SWITCHING_PRODUCER_ACK")
<1>2. m \in BOOLEAN /\ d = End(e, "send") /\ d = Home[e[1]] /\ "send" \in Ops
  BY <1>1 DEF Stage, LinkOf, Back, End, Ops
<1>3. /\ PacketOf(s, d).producer = e[1] /\ PacketOf(s, d).consumer = e[2]
      /\ PacketOf(s, d).cs_mode = m /\ PacketOf(s, d).cs_net = path[e]
  BY <1>1 DEF OrderOf, Order, NetOf
<1>4. g \in Stage /\ g.cs_mode = m /\ g.place = "NOC_SWITCHING_PRODUCER_ACK"
  BY <1>2 DEF At, Stage, Place, OrderService
<1>5. PICK stage2 : Becomes(stage, stage2, e, g)
  BY <1>4, Change
<1>6. path[e] \in Subnet
  <2>1. stage[e] # At(FALSE, "concluded")
    BY <1>1 DEF At
  <2>2. QED BY <2>1 DEF Inv, QosInv, Typed
<1>7. /\ m => ~Has(stage[e], "send") /\ Has(g, "send") /\ Enabled(g, "send")
      /\ ~m => Has(stage[e], "send") /\ ~Has(g, "send")
      /\ Has(g, "receive") = Has(stage[e], "receive")
      /\ Enabled(g, "receive") = Enabled(stage[e], "receive")
  BY <1>1, <1>2, <1>4 DEF Has, Enabled, Ordered, Halfway
<1>8. stage2 \in [Managed -> Stage] /\ stage2[e] = g /\ OnlyEnd(stage, stage2, e, "send")
  BY <1>5, <1>7 DEF Becomes, OnlyEnd, Ops
<1>9. CtpTyped /\ TableInv(stage) /\ path \in [Managed -> Subnet \cup {NoSubnet}]
  BY DEF Inv, Typed
<1>10. IF m THEN UnusedSlots(d) # {} ELSE SlotsOf(d, path[e], "send") # {}
  <2>1. m => UnusedSlots(d) # {}
    BY <1>2, <1>6, <1>7, <1>9, RoomForCtp
  <2>2. ~m => SlotsOf(d, path[e], "send") # {}
    BY <1>2, <1>7, <1>9 DEF TableInv, CtpExists
  <2>3. QED BY <2>1, <2>2
<1>11. /\ ctp' = IF m THEN add_ctp_entry(d, e[1], e[2], "send", path[e], TRUE)
                      ELSE remove_ctp_entry(d, path[e], "send")
       /\ ps_net' = Sent(net, d, Home[e[2]], Order("NOC_SWITCHING_PRODUCER_ACK", e[1], e[2], m, path[e]))
       /\ UNCHANGED <<halted, add_ctp, remove_ctp, waiting, message_request, pending, wire, line,
                      qosVars, put, got>>
  BY <1>3, <1>10 DEF SetProducer
<1> HIDE DEF net
<1>12. ps_net' = Put(net, LinkOf(e, g.place), OrderOf(e, g, path[e]))
  BY <1>2, <1>4, <1>11 DEF Sent, Put, LinkOf, Forth, OrderOf, NetOf
<1>13. path' = path
  BY <1>11 DEF qosVars
<1>14. /\ CtpTyped' /\ TableInv(stage2)'
       /\ \A f \in Managed : \A o \in Ops : f # e \/ o # "send" => SameCtps(f, o)
  <2> HIDE DEF g
  <2>1. CASE m
    <3> DEFINE r == [producer_task |-> e[1], consumer_task |-> e[2], dmni_op |-> "send",
                     subnet |-> path[e], CS_enabled |-> TRUE]
    <3>1. r \in CtpRecord
      BY <1>6, ManagedFacts, EdgeFacts DEF CtpRecord
    <3>2. SlotOf(r, e, "send", stage2[e])
      BY <1>6, <1>7, <1>8, <2>1, ManagedFacts, EdgeFacts, SystemAssumption, BooleanFacts DEF SlotOf
    <3>3. /\ UnusedSlots(End(e, "send")) # {} /\ ~Has(stage[e], "send")
          /\ ctp' = [ctp EXCEPT ![End(e, "send")][First(UnusedSlots(End(e, "send")))] = r]
      BY <1>2, <1>7, <1>10, <1>11, <2>1 DEF add_ctp_entry
    <3> HIDE DEF r
    <3>4. QED BY <1>2, <1>8, <1>9, <1>13, <3>1, <3>2, <3>3, AddCtp, ZenonT(60)
  <2>2. CASE ~m
    <3>1. ctp' = remove_ctp_entry(End(e, "send"), path[e], "send")
      BY <1>2, <1>11, <2>2
    <3>2. QED BY <1>2, <1>7, <1>8, <1>9, <1>13, <2>2, <3>1, RemoveCtp
  <2>3. QED BY <2>1, <2>2
<1>15. g = At(stage[e].cs_mode, "NOC_SWITCHING_PRODUCER_ACK")
  OBVIOUS
<1> HIDE DEF g
<1>16. Inv(stage2)' /\ UNCHANGED RV!vars /\ SwitchStep
  BY <1>1, <1>5, <1>11, <1>12, <1>14, <1>15, ProducerChanges
<1>17. QED BY <1>8, <1>16

\* The acknowledgement of the producer enables the consumer's CTP, which is there.
LEMMA ProducerAckInv ==
    ASSUME NEW stage \in [Managed -> Stage], Inv(stage), NEW s \in Node, NEW d \in PE,
           ProducerAck(s, d)
    PROVE  /\ \E stage2 \in [Managed -> Stage] : Inv(stage2)'
           /\ UNCHANGED RV!vars /\ SwitchStep
<1> DEFINE net == Taken(s, d)
           place == "NOC_SWITCHING_PRODUCER_ACK"
<1>1. PICK e \in Managed :
              /\ stage[e].place = place /\ <<s, d>> = LinkOf(e, place)
              /\ PacketOf(s, d) = OrderOf(e, stage[e], path[e])
              /\ NetInv(net, stage, path) /\ NoOrderOf(net, e)
              /\ MessagesIn(net) = InNet /\ InAnswers(net) = InAnswers(ps_net)
              /\ OthersAhead(net, stage, path, Waits, e)
  <2>1. place \in OrderService /\ d \in Node /\ PacketAt(s, d, place)
    BY DEF OrderService, Node, ProducerAck
  <2>2. QED BY <2>1, OrderRead DEF OthersAhead
<1> DEFINE m == stage[e].cs_mode
           g == At(m, "NOC_SWITCHING_CTP_CONCLUDED")
<1>2. m \in BOOLEAN /\ d = End(e, "receive") /\ d = Home[e[2]] /\ "receive" \in Ops
  BY <1>1 DEF Stage, LinkOf, Forth, End, Ops
<1>3. /\ PacketOf(s, d).producer = e[1] /\ PacketOf(s, d).consumer = e[2]
      /\ PacketOf(s, d).cs_mode = m /\ PacketOf(s, d).cs_net = path[e]
  BY <1>1 DEF OrderOf, Order, NetOf
<1>4. /\ g \in Stage /\ g.cs_mode = m /\ g.place = "NOC_SWITCHING_CTP_CONCLUDED"
      /\ g.place \in OrderService
  BY <1>2 DEF At, Stage, Place, OrderService
<1>5. PICK stage2 : Becomes(stage, stage2, e, g)
  BY <1>4, Change
<1>6. /\ m => Has(stage[e], "receive") /\ Enabled(g, "receive")
      /\ ~m => Enabled(g, "receive") = Enabled(stage[e], "receive")
      /\ Enabled(g, "send") = Enabled(stage[e], "send")
      /\ \A o \in Ops : Has(g, o) = Has(stage[e], o)
  BY <1>1, <1>2, <1>4 DEF Has, Enabled, Ordered, Halfway, Ops
<1>7. /\ stage2 \in [Managed -> Stage] /\ stage2[e] = g
      /\ \A f \in Managed : f # e => stage2[f] = stage[f]
  BY <1>5 DEF Becomes
<1>8. CtpTyped /\ TableInv(stage) /\ path[e] \in Subnet \cup {NoSubnet}
  BY DEF Inv, Typed
<1>9. m => SlotsOf(d, path[e], "receive") # {}
  BY <1>2, <1>6, <1>8 DEF TableInv, CtpExists
<1>10. /\ ctp' = IF m THEN [ctp EXCEPT ![d][First(SlotsOf(d, path[e], "receive"))].CS_enabled = TRUE]
                      ELSE ctp
       /\ ps_net' = Sent(net, d, Manager,
                         Order("NOC_SWITCHING_CTP_CONCLUDED", e[1], e[2], m, path[e]))
       /\ UNCHANGED <<halted, add_ctp, remove_ctp, waiting, message_request, pending, wire, line,
                      qosVars, put, got>>
  BY <1>3, <1>9 DEF ProducerAck
<1> HIDE DEF net
<1>11. ps_net' = Put(net, LinkOf(e, g.place), OrderOf(e, g, path[e])) /\ path' = path /\ qos' = qos
  BY <1>2, <1>4, <1>10 DEF Sent, Put, LinkOf, OrderOf, NetOf, qosVars
<1>12. QosOf(g) = QosOf(stage[e]) /\ g # At(FALSE, "concluded") /\ stage[e] # At(FALSE, "concluded")
  BY <1>1 DEF QosOf, At
<1>13. stage[e].place # "kept" /\ g.place # "SET_NOC_SWITCHING_PRODUCER"
  BY <1>1, <1>4
<1> HIDE DEF g
<1>14. /\ NetInv(ps_net', stage2, path) /\ OrderFirst(ps_net', stage2, path, Waits)
       /\ MessagesIn(ps_net') = InNet /\ InAnswers(ps_net') = InAnswers(ps_net)
  <2>1. MayChange(net, stage, path, Waits, e, g, stage2, path)
    BY <1>1, <1>5 DEF MayChange
  <2>2. QED BY <1>1, <1>4, <1>8, <1>11, <1>13, <2>1, OrderSent
<1>15. KeptInv(stage2)' /\ QosInv(stage2)' /\ Typed'
  <2>1. KeptInv(stage2)'
    BY <1>7, <1>10, <1>11, <1>13, SameKept DEF Inv
  <2>2. QosInv(stage2)'
    BY <1>7, <1>11, <1>12 DEF Inv, QosInv
  <2>3. QED BY <1>10, <1>11, <2>1, <2>2 DEF Inv, Typed
<1>16. CASE m
  <2>1. ctp' = [ctp EXCEPT ![End(e, "receive")]
                            [First(SlotsOf(End(e, "receive"), path[e], "receive"))].CS_enabled = TRUE]
    BY <1>2, <1>10, <1>16
  <2>2. OnlyEnd(stage, stage2, e, "receive")
    BY <1>6, <1>7 DEF OnlyEnd, Ops
  <2>3. /\ CtpTyped' /\ TableInv(stage2)'
        /\ \A f \in Managed : \A o \in Ops : SameCtps(f, o)
    BY <1>2, <1>6, <1>7, <1>8, <1>11, <1>16, <2>1, <2>2, EnableCtp
  <2>4. CircuitInv(stage2)'
    <3>1. ~Enabled(stage[e], "receive")
      BY <1>1 DEF Enabled
    <3>2. CircuitInv(stage)
      BY DEF Inv
    <3>3. \A f \in Managed : \A o \in Ops : Has(stage2[f], o) = Has(stage[f], o)
      BY <1>6, <1>7
    <3>4. QED BY <1>7, <1>10, <1>11, <3>1, <3>2, <3>3 DEF CircuitInv
  <2>5. OnWire' = OnWire
    BY <1>10, <1>11 DEF OnWire
  <2>6. SwitchStep
    BY <2>3 DEF SwitchStep, Ops
  <2>7. Inv(stage2)' /\ UNCHANGED RV!vars
    BY <1>10, <1>11, <1>14, <1>15, <2>3, <2>4, <2>5, OrderStep
  <2>8. QED BY <1>7, <2>6, <2>7
<1>17. CASE ~m
  <2>1. SameEnds(stage[e], g)
    BY <1>6, <1>17 DEF SameEnds, Ops
  <2>2. Inv(stage2)' /\ UNCHANGED RV!vars /\ SwitchStep
    BY <1>5, <1>10, <1>11, <1>14, <1>15, <1>17, <2>1, OrderMoves
  <2>3. QED BY <1>7, <2>2
<1>18. QED BY <1>16, <1>17

\* PATH_CONNECTION_ACK with a path.
LEMMA ConnectionAckInv ==
    ASSUME NEW stage \in [Managed -> Stage], Inv(stage), NEW e \in Managed, NEW s, ~PathFails,
           handle_SDN_ack(e, s)
    PROVE  /\ \E stage2 \in [Managed -> Stage] : Inv(stage2)'
           /\ UNCHANGED RV!vars /\ SwitchStep
<1> DEFINE g == At(TRUE, "SET_NOC_SWITCHING_CONSUMER")
<1>1. /\ qos[e] = "ps" /\ s \in Subnet
      /\ \A f \in Managed : path[f] = s => Home[f[1]] # Home[e[1]] /\ Home[f[2]] # Home[e[2]]
      /\ path' = [path EXCEPT ![e] = s] /\ qos' = [qos EXCEPT ![e] = "entering"]
      /\ ps_net' = Sent(ps_net, Manager, Home[e[2]],
                        Order("SET_NOC_SWITCHING_CONSUMER", e[1], e[2], TRUE, s))
      /\ UNCHANGED <<halted, ctp, add_ctp, remove_ctp, waiting, message_request, pending,
                     wire, line, put, got>>
  BY DEF handle_SDN_ack, kernelVars
<1>2. stage[e].place = "concluded" /\ ~stage[e].cs_mode
  BY <1>1 DEF Inv, QosInv, QosOf
<1>3. /\ g \in Stage /\ g.cs_mode /\ g.place = "SET_NOC_SWITCHING_CONSUMER"
      /\ g.place \in OrderService /\ QosOf(g) = "entering" /\ g # At(FALSE, "concluded")
  BY DEF At, Stage, Place, OrderService, QosOf
<1>4. PICK stage2 : Becomes(stage, stage2, e, g)
  BY <1>3, Change
<1>5. /\ stage2 \in [Managed -> Stage] /\ stage2[e] = g
      /\ \A f \in Managed : f # e => stage2[f] = stage[f]
  BY <1>4 DEF Becomes
<1>6. SameEnds(stage[e], g) /\ \A o \in Ops : ~Has(stage[e], o)
  BY <1>2, <1>3 DEF SameEnds, Has, Enabled, Ordered, Halfway, Ops
<1>7. /\ path'[e] = s /\ qos'[e] = "entering" /\ s # NoSubnet
      /\ \A f \in Managed : f # e => path'[f] = path[f] /\ qos'[f] = qos[f]
  BY <1>1, SystemAssumption DEF Inv, Typed
<1>8. ps_net' = Put(ps_net, LinkOf(e, g.place), OrderOf(e, g, path'[e]))
  BY <1>1, <1>7 DEF Sent, Put, LinkOf, OrderOf, NetOf, At
<1> HIDE DEF g
<1>9. /\ NetInv(ps_net', stage2, path') /\ OrderFirst(ps_net', stage2, path', Waits)
      /\ MessagesIn(ps_net') = InNet /\ InAnswers(ps_net') = InAnswers(ps_net)
  <2>1. NoOrderOf(ps_net, e)
    BY <1>2, NotInNet DEF Inv, OrderService
  <2>2. MayChange(ps_net, stage, path, Waits, e, g, stage2, path')
    BY <1>4, <1>7, <2>1 DEF MayChange, Inv, OrderFirst, OthersAhead
  <2>3. g.place # "SET_NOC_SWITCHING_PRODUCER" /\ path'[e] \in Subnet \cup {NoSubnet}
    BY <1>1, <1>3, <1>7
  <2>4. QED BY <1>3, <1>8, <2>2, <2>3, OrderSent DEF InNet
<1>10. PathsApart' /\ <<Home[e[1]], path'[e]>> \notin wire
  <2>1. PathsApart'
    BY <1>1, <1>7 DEF Inv, TableInv, PathsApart
  <2>2. <<Home[e[1]], s>> \notin wire
    BY <1>1 DEF Inv, CircuitInv
  <2>3. QED BY <1>7, <2>1, <2>2
<1>11. KeptInv(stage2)'
  BY <1>1, <1>2, <1>5, <1>7, SameKept DEF Inv
<1>12. QosInv(stage2)' /\ Typed'
  <2>1. QosInv(stage2)'
    BY <1>3, <1>5, <1>7 DEF Inv, QosInv
  <2>2. path' \in [Managed -> Subnet \cup {NoSubnet}]
    BY <1>1 DEF Inv, Typed
  <2>3. qos' \in [Managed -> {"ps", "entering", "cs", "leaving"}]
    BY <1>1 DEF Inv, Typed
  <2>4. QED BY <1>1, <2>1, <2>2, <2>3 DEF Inv, Typed
<1>13. Inv(stage2)' /\ UNCHANGED RV!vars /\ SwitchStep
  <2>1. \A f \in Managed : f # e => path'[f] = path[f]
    BY <1>7
  <2>2. \/ path'[e] = path[e]
        \/ /\ \A o \in Ops : ~Has(stage[e], o)
           /\ PathsApart' /\ <<Home[e[1]], path'[e]>> \notin wire
    BY <1>6, <1>10
  <2>3. UNCHANGED <<halted, ctp, waiting, message_request, pending, wire, line, put, got>>
    BY <1>1
  <2>4. QED BY <1>4, <1>6, <1>9, <1>11, <1>12, <2>1, <2>2, <2>3, OrderMoves
<1>14. QED BY <1>5, <1>13

\* The QoS manager orders a pair to leave its circuit.
LEMMA SetPSInv ==
    ASSUME NEW stage \in [Managed -> Stage], Inv(stage), NEW e \in Managed,
           CTP_set_PS_switching(e)
    PROVE  /\ \E stage2 \in [Managed -> Stage] : Inv(stage2)'
           /\ UNCHANGED RV!vars /\ SwitchStep
<1> DEFINE g == At(FALSE, "SET_NOC_SWITCHING_CONSUMER")
<1>1. /\ qos[e] = "cs" /\ qos' = [qos EXCEPT ![e] = "leaving"] /\ path' = path
      /\ ps_net' = Sent(ps_net, Manager, Home[e[2]],
                        Order("SET_NOC_SWITCHING_CONSUMER", e[1], e[2], FALSE, NoSubnet))
      /\ UNCHANGED <<halted, ctp, add_ctp, remove_ctp, waiting, message_request, pending,
                     wire, line, put, got>>
  BY DEF CTP_set_PS_switching, kernelVars
<1>2. stage[e].place = "concluded" /\ stage[e].cs_mode = TRUE
  BY <1>1 DEF Inv, QosInv, QosOf, Stage
<1>3. /\ g \in Stage /\ ~g.cs_mode /\ g.place = "SET_NOC_SWITCHING_CONSUMER"
      /\ g.place \in OrderService /\ QosOf(g) = "leaving" /\ g # At(FALSE, "concluded")
  BY DEF At, Stage, Place, OrderService, QosOf
<1>4. PICK stage2 : Becomes(stage, stage2, e, g)
  BY <1>3, Change
<1>5. /\ stage2 \in [Managed -> Stage] /\ stage2[e] = g
      /\ \A f \in Managed : f # e => stage2[f] = stage[f]
  BY <1>4 DEF Becomes
<1>6. SameEnds(stage[e], g) /\ stage[e] # At(FALSE, "concluded")
  BY <1>2, <1>3 DEF SameEnds, Has, Enabled, Ordered, Halfway, Ops, At
<1>7. qos'[e] = "leaving" /\ \A f \in Managed : f # e => qos'[f] = qos[f]
  BY <1>1 DEF Inv, Typed
<1>8. ps_net' = Put(ps_net, LinkOf(e, g.place), OrderOf(e, g, path[e]))
  BY <1>1 DEF Sent, Put, LinkOf, OrderOf, NetOf, At
<1> HIDE DEF g
<1>9. /\ NetInv(ps_net', stage2, path) /\ OrderFirst(ps_net', stage2, path, Waits)
      /\ MessagesIn(ps_net') = InNet /\ InAnswers(ps_net') = InAnswers(ps_net)
  <2>1. NoOrderOf(ps_net, e)
    BY <1>2, NotInNet DEF Inv, OrderService
  <2>2. MayChange(ps_net, stage, path, Waits, e, g, stage2, path)
    BY <1>4, <2>1 DEF MayChange, Inv, OrderFirst, OthersAhead
  <2>3. g.place # "SET_NOC_SWITCHING_PRODUCER" /\ path[e] \in Subnet \cup {NoSubnet}
    BY <1>3 DEF Inv, Typed
  <2>4. QED BY <1>3, <1>8, <2>2, <2>3, OrderSent DEF InNet
<1>10. KeptInv(stage2)'
  BY <1>1, <1>2, <1>5, SameKept DEF Inv
<1>11. QosInv(stage2)' /\ Typed'
  <2>1. QosInv(stage2)'
    BY <1>1, <1>3, <1>5, <1>6, <1>7 DEF Inv, QosInv
  <2>2. qos' \in [Managed -> {"ps", "entering", "cs", "leaving"}]
    BY <1>1 DEF Inv, Typed
  <2>3. QED BY <1>1, <2>1, <2>2 DEF Inv, Typed
<1>12. Inv(stage2)' /\ UNCHANGED RV!vars /\ SwitchStep
  BY <1>1, <1>4, <1>6, <1>9, <1>10, <1>11, OrderMoves
<1>13. QED BY <1>5, <1>12

\* The order of a pair is concluded; after the release its path is given back.
LEMMA ConcludedInv ==
    ASSUME NEW stage \in [Managed -> Stage], Inv(stage), NEW d \in PE, Concluded(d)
    PROVE  /\ \E stage2 \in [Managed -> Stage] : Inv(stage2)'
           /\ UNCHANGED RV!vars /\ SwitchStep
<1> DEFINE net == Taken(d, Manager)
           place == "NOC_SWITCHING_CTP_CONCLUDED"
<1>1. PICK e \in Managed :
              /\ stage[e].place = place
              /\ PacketOf(d, Manager) = OrderOf(e, stage[e], path[e])
              /\ NetInv(net, stage, path) /\ NoOrderOf(net, e)
              /\ MessagesIn(net) = InNet /\ InAnswers(net) = InAnswers(ps_net)
              /\ OthersAhead(net, stage, path, Waits, e)
  <2>1. place \in OrderService /\ d \in Node /\ Manager \in Node /\ PacketAt(d, Manager, place)
    BY DEF OrderService, Node, Concluded
  <2>2. QED BY <2>1, OrderRead DEF OthersAhead
<1> DEFINE m == stage[e].cs_mode
           g == At(m, "concluded")
<1>2. /\ PacketOf(d, Manager).cs_mode = m
      /\ <<PacketOf(d, Manager).producer, PacketOf(d, Manager).consumer>> = e
  BY <1>1, ManagedFacts, EdgeFacts DEF OrderOf, Order
<1>3. /\ ps_net' = net /\ qos' = [qos EXCEPT ![e] = IF m THEN "cs" ELSE "ps"]
      /\ path' = IF m THEN path ELSE [path EXCEPT ![e] = NoSubnet]
      /\ UNCHANGED <<halted, ctp, add_ctp, remove_ctp, waiting, message_request, pending,
                     wire, line, put, got>>
  BY <1>2 DEF Concluded, kernelVars
<1>4. /\ m \in BOOLEAN /\ g \in Stage /\ g.cs_mode = m /\ g.place = "concluded"
      /\ g.place \notin OrderService /\ stage[e] # At(FALSE, "concluded")
      /\ g = At(FALSE, "concluded") <=> ~m
      /\ QosOf(g) = IF m THEN "cs" ELSE "ps"
  <2>1. m \in BOOLEAN
    BY DEF Stage
  <2>2. /\ g.cs_mode = m /\ g.place = "concluded" /\ g.place \notin OrderService
        /\ stage[e] # At(FALSE, "concluded")
    BY <1>1 DEF At, OrderService
  <2>3. g \in Stage
    BY <2>1 DEF At, Stage, Place
  <2>4. g = At(FALSE, "concluded") <=> ~m
    BY <2>1 DEF At
  <2>5. QosOf(g) = IF m THEN "cs" ELSE "ps"
    BY <2>2 DEF QosOf
  <2>6. QED BY <2>1, <2>2, <2>3, <2>4, <2>5
<1>5. PICK stage2 : Becomes(stage, stage2, e, g)
  BY <1>4, Change
<1>6. /\ stage2 \in [Managed -> Stage] /\ stage2[e] = g
      /\ \A f \in Managed : f # e => stage2[f] = stage[f]
  BY <1>5 DEF Becomes
<1>7. SameEnds(stage[e], g) /\ (~m => \A o \in Ops : ~Has(stage[e], o))
  BY <1>1, <1>4 DEF SameEnds, Has, Enabled, Ordered, Halfway, Ops
<1>8. path[e] \in Subnet /\ NoSubnet \notin Subnet
  BY <1>4, SystemAssumption DEF Inv, QosInv, Typed
<1>9. /\ path'[e] = IF m THEN path[e] ELSE NoSubnet
      /\ qos'[e] = IF m THEN "cs" ELSE "ps"
      /\ \A f \in Managed : f # e => path'[f] = path[f] /\ qos'[f] = qos[f]
      /\ path' \in [Managed -> Subnet \cup {NoSubnet}]
      /\ qos' \in [Managed -> {"ps", "entering", "cs", "leaving"}]
  BY <1>3 DEF Inv, Typed
<1> HIDE DEF g, net
<1>10. /\ NetInv(ps_net', stage2, path') /\ OrderFirst(ps_net', stage2, path', Waits)
       /\ MessagesIn(ps_net') = InNet /\ InAnswers(ps_net') = InAnswers(ps_net)
  <2>1. MayChange(net, stage, path, Waits, e, g, stage2, path')
    BY <1>1, <1>5, <1>9 DEF MayChange
  <2>2. QED BY <1>1, <1>3, <1>4, <2>1, OrderEnds
<1>11. \/ path'[e] = path[e]
       \/ /\ \A o \in Ops : ~Has(stage[e], o)
          /\ PathsApart' /\ <<Home[e[1]], path'[e]>> \notin wire
  <2>1. ASSUME ~m
        PROVE  PathsApart' /\ <<Home[e[1]], path'[e]>> \notin wire
    <3>1. path'[e] = NoSubnet
      BY <1>9, <2>1
    <3>2. PathsApart'
      BY <1>9, <3>1 DEF Inv, TableInv, PathsApart
    <3>3. QED BY <1>8, <3>1, <3>2 DEF Inv, Typed
  <2>2. QED BY <1>7, <1>9, <2>1
<1>12. KeptInv(stage2)'
  <2>1. stage[e].place # "kept"
    BY <1>1
  <2>2. QED BY <1>3, <1>6, <1>9, <2>1, SameKept DEF Inv
<1>13. QosInv(stage2)' /\ Typed'
  <2>1. QosInv(stage2)'
    BY <1>4, <1>6, <1>8, <1>9, ZenonT(60) DEF Inv, QosInv
  <2>2. QED BY <1>3, <1>9, <2>1 DEF Inv, Typed
<1>14. Inv(stage2)' /\ UNCHANGED RV!vars /\ SwitchStep
  <2>1. \A f \in Managed : f # e => path'[f] = path[f]
    BY <1>9
  <2>2. UNCHANGED <<halted, ctp, waiting, message_request, pending, wire, line, put, got>>
    BY <1>3
  <2>3. QED BY <1>5, <1>7, <1>10, <1>11, <1>12, <1>13, <2>1, <2>2, OrderMoves
<1>15. QED BY <1>6, <1>14

-----------------------------------------------------------------------------
(* The invariant and the theorems *)

\* No pair has a circuit, and nothing is on its way.
LEMMA InitInv == Init => IInv
<1> SUFFICES ASSUME Init PROVE IInv
  OBVIOUS
<1> DEFINE stage == [e \in Managed |-> At(FALSE, "concluded")]
<1>1. At(FALSE, "concluded") \in Stage
  BY DEF At, Stage, Place
<1>2. stage \in [Managed -> Stage] /\ \A e \in Managed : stage[e] = At(FALSE, "concluded")
  BY <1>1
<1> HIDE DEF stage
<1>3. \A e \in Managed : \A o \in Ops : ~Has(stage[e], o)
  BY <1>2 DEF Has, At, Ordered, Halfway, Ops
<1>4. /\ ctp = [d \in PE |-> [i \in Slot |-> FreeCtp]] /\ halted = {}
      /\ \A d \in PE : \A i \in Slot : ctp[d][i] = FreeCtp
  BY DEF Init
<1>5. CtpTyped
  <2>1. FreeCtp \in CtpRecord
    BY DEF FreeCtp, CtpRecord
  <2>2. ctp \in [PE -> [Slot -> CtpRecord]]
    BY <1>4, <2>1
  <2>3. QED BY <1>4, <2>2 DEF CtpTyped, FreeCtp
<1>6. Typed
  BY DEF Init, Typed, NoOrder
<1>7. Items(ps_net) = {} /\ Items(pending) = {}
  <2>1. \A l \in Link : ps_net[l] = <<>>
    BY DEF Init
  <2>2. \A d \in PE : pending[d] = <<>>
    BY DEF Init
  <2>3. DOMAIN ps_net = Link /\ DOMAIN pending = PE
    BY DEF Init
  <2>4. QED BY <2>1, <2>2, <2>3 DEF Items
<1>8. NetInv(ps_net, stage, path)
  <2>1. ps_net \in [Link -> Seq(Packet)]
    BY DEF Init
  <2>2. Once(ps_net, Key)
    BY DEF Init, Once
  <2>3. QED BY <1>7, <2>1, <2>2 DEF NetInv
<1>9. OrderFirst(ps_net, stage, path, Waits)
  BY <1>2 DEF OrderFirst, At
<1>10. TableInv(stage)
  <2>1. PathsApart
    BY DEF Init, PathsApart
  <2>2. \A d \in PE : \A i \in Slot : ~Used(d, i)
    BY <1>4 DEF Used, FreeCtp
  <2>3. QED BY <1>3, <2>1, <2>2 DEF TableInv, CtpShape, CtpExists, CtpOnce
<1>11. KeptInv(stage) /\ QosInv(stage)
  <2>1. KeptInv(stage)
    BY DEF Init, KeptInv
  <2>2. QosOf(At(FALSE, "concluded")) = "ps"
    BY DEF QosOf, At
  <2>3. QED BY <1>2, <2>1, <2>2 DEF Init, QosInv
<1>12. /\ Waits = {} /\ InNet = {} /\ InPending = {} /\ InTable = {} /\ OnWire = {}
       /\ OnLine = {} /\ Answers = {}
  <2>1. \A e \in Edge : waiting[e[2]] # e[1]
    BY EdgeFacts, SystemAssumption DEF Init
  <2>2. Waits = {}
    BY <2>1 DEF Waits
  <2>3. InNet = {} /\ InPending = {} /\ InAnswers(ps_net) = {}
    BY <1>7 DEF InNet, MessagesIn, InPending, InAnswers
  <2>4. InTable = {} /\ OnWire = {} /\ OnLine = {}
    BY DEF Init, InTable, OnWire, OnLine
  <2>5. QED BY <2>2, <2>3, <2>4 DEF Answers
<1>13. Conservation
  BY <1>12 DEF Conservation, Partition
<1>14. AtProducers
  <2>1. pending \in [PE -> Seq(Edge)] /\ Once(pending, EdgeKey)
    BY DEF Init, Once
  <2>2. QED BY <1>7, <2>1 DEF AtProducers, Init
<1>15. CircuitInv(stage)
  BY DEF Init, CircuitInv
<1>16. OneAhead
  BY <1>12 DEF Init, OneAhead
<1>17. Inv(stage)
  BY <1>4, <1>5, <1>6, <1>8, <1>9, <1>10, <1>11, <1>13, <1>14, <1>15, <1>16 DEF Inv, NoErrorLoop
<1>18. QED BY <1>2, <1>17 DEF IInv

\* A step that leaves the tables of CTPs alone switches no mode.
LEMMA NoSwitch ==
    ASSUME UNCHANGED ctp
    PROVE  SwitchStep
BY DEF SwitchStep, SameCtps, CtpsOf, SlotsOfPair

\* A step as the tasks see it.
Visible == RV!Next \/ UNCHANGED RV!vars

\* Every action keeps the invariant, is a step of the rendezvous and switches no mode
\* in the middle of a message.
LEMMA NextInv ==
    ASSUME ~PathFails, IInv, [Next]_vars
    PROVE  IInv' /\ Visible /\ SwitchStep
<1> PICK stage \in [Managed -> Stage] : Inv(stage)
  BY DEF IInv
<1>1. ASSUME NEW e \in Edge, TaskStep(e[1], e[2]) PROVE IInv' /\ Visible /\ SwitchStep
  <2>1. CASE Receive(e[1], e[2])
    <3>1. Inv(stage)' /\ RV!Ask(e[1], e[2])
      BY <2>1, ReceiveInv
    <3>2. SwitchStep
      BY <2>1, NoSwitch DEF Receive
    <3>3. QED BY <3>1, <3>2 DEF IInv, Visible, RV!Next
  <2>2. CASE SendPS(e[1], e[2])
    <3>1. Inv(stage)' /\ RV!Accept(e[1], e[2])
      BY <2>2, SendPSInv
    <3>2. SwitchStep
      BY <2>2, NoSwitch DEF SendPS
    <3>3. QED BY <3>1, <3>2 DEF IInv, Visible, RV!Next
  <2>3. CASE SendCS(e[1], e[2])
    <3>1. Inv(stage)' /\ RV!Accept(e[1], e[2])
      BY <2>3, SendCSInv
    <3>2. SwitchStep
      BY <2>3, NoSwitch DEF SendCS
    <3>3. QED BY <3>1, <3>2 DEF IInv, Visible, RV!Next
  <2>4. QED BY <1>1, <2>1, <2>2, <2>3 DEF TaskStep
<1>2. ASSUME NEW s \in Node, NEW d \in PE, PacketStep(s, d) PROVE IInv' /\ Visible /\ SwitchStep
  <2>1. CASE HandleRequest(s, d)
    <3>1. Inv(stage)' /\ UNCHANGED RV!vars
      BY <2>1, HandleRequestInv
    <3>2. SwitchStep
      BY <2>1, NoSwitch DEF HandleRequest
    <3>3. QED BY <3>1, <3>2 DEF IInv, Visible
  <2>2. CASE DeferRequest(s, d)
    <3>1. Inv(stage)' /\ UNCHANGED RV!vars
      BY <2>2, DeferRequestInv
    <3>2. SwitchStep
      BY <2>2, NoSwitch DEF DeferRequest
    <3>3. QED BY <3>1, <3>2 DEF IInv, Visible
  <2>3. CASE HandleDelivery(s, d)
    BY <2>3, HandleDeliveryInv DEF IInv, Visible, RV!Next
  <2>4. CASE SetConsumer(s, d)
    BY <2>4, SetConsumerInv DEF IInv, Visible
  <2>5. CASE SetProducer(s, d)
    BY <2>5, SetProducerInv DEF IInv, Visible
  <2>6. CASE ProducerAck(s, d)
    BY <2>6, ProducerAckInv DEF IInv, Visible
  <2>7. QED BY <1>2, <2>1, <2>2, <2>3, <2>4, <2>5, <2>6 DEF PacketStep
<1>3. ASSUME NEW d \in PE, KernelStep(d) PROVE IInv' /\ Visible /\ SwitchStep
  <2>1. CASE HandlePending(d)
    <3>1. Inv(stage)' /\ UNCHANGED RV!vars
      BY <2>1, HandlePendingInv
    <3>2. SwitchStep
      BY <2>1, NoSwitch DEF HandlePending
    <3>3. QED BY <3>1, <3>2 DEF IInv, Visible
  <2>2. CASE Concluded(d)
    BY <2>2, ConcludedInv DEF IInv, Visible
  <2>3. ASSUME NEW s \in Subnet, HandleWire(d, s) PROVE IInv' /\ Visible /\ SwitchStep
    <3>1. Inv(stage)' /\ UNCHANGED RV!vars
      BY <2>3, HandleWireInv
    <3>2. SwitchStep
      BY <2>3, NoSwitch DEF HandleWire
    <3>3. QED BY <3>1, <3>2 DEF IInv, Visible
  <2>4. ASSUME NEW s \in Subnet, HandleCSDelivery(d, s) PROVE IInv' /\ Visible /\ SwitchStep
    BY <2>4, HandleCSDeliveryInv DEF IInv, Visible, RV!Next
  <2>5. QED BY <1>3, <2>1, <2>2, <2>3, <2>4 DEF KernelStep
<1>4. ASSUME NEW e \in Managed, ManagerStep(e) PROVE IInv' /\ Visible /\ SwitchStep
  <2>1. ASSUME NEW s, handle_SDN_ack(e, s) PROVE IInv' /\ Visible /\ SwitchStep
    BY <2>1, ConnectionAckInv DEF IInv, Visible
  <2>2. CASE CTP_set_PS_switching(e)
    BY <2>2, SetPSInv DEF IInv, Visible
  <2>3. QED BY <1>4, <2>1, <2>2 DEF ManagerStep
<1>5. CASE UNCHANGED vars
  <2>1. UNCHANGED <<kernelVars, netVars, qosVars, put, got>>
    BY <1>5 DEF vars
  <2>2. Inv(stage)'
    <3>1. CtpTyped' /\ NoErrorLoop' /\ TableInv(stage)' /\ KeptInv(stage)' /\ QosInv(stage)'
      BY <2>1, SameSwitching DEF kernelVars
    <3>2. /\ Waits' = Waits /\ InNet' = InNet /\ InPending' = InPending /\ InTable' = InTable
          /\ OnWire' = OnWire /\ OnLine' = OnLine /\ Answers' = Answers
      BY <2>1, SameSets DEF kernelVars, netVars, qosVars
    <3>3. Conservation' /\ OneAhead'
      BY <2>1, <3>2 DEF Inv, Conservation, OneAhead
    <3>4. NetInv(ps_net', stage, path') /\ OrderFirst(ps_net', stage, path', Waits')
      BY <2>1, <3>2 DEF Inv, netVars, qosVars
    <3>5. Typed' /\ AtProducers' /\ CircuitInv(stage)'
      BY <2>1 DEF Inv, Typed, AtProducers, CircuitInv, kernelVars, netVars, qosVars
    <3>6. QED BY <3>1, <3>3, <3>4, <3>5 DEF Inv
  <2>3. QED BY <2>1, <2>2, NoSwitch DEF IInv, Visible, RV!vars, kernelVars
<1>6. CASE Next
  <2>1. ASSUME NEW l \in Node \X PE, PacketStep(l[1], l[2]) PROVE IInv' /\ Visible /\ SwitchStep
    BY <1>2, <2>1
  <2>2. QED BY <1>1, <1>3, <1>4, <1>6, <2>1 DEF Next
<1>7. QED BY <1>5, <1>6

\* The invariant holds when the NoC manager finds the paths it is asked for.
LEMMA Inductive ==
    ASSUME ~PathFails
    PROVE  Spec => []IInv /\ [][SwitchStep]_vars /\ [][Visible]_vars
<1>1. Init => IInv
  BY InitInv
<1>2. IInv /\ [Next]_vars => IInv' /\ Visible /\ SwitchStep
  BY NextInv
<1>3. QED BY <1>1, <1>2, PTL DEF Spec

\* What the invariant says of the types.
LEMMA InvMeansTypeOK == IInv => TypeOK
<1> SUFFICES ASSUME NEW stage \in [Managed -> Stage], Inv(stage) PROVE TypeOK
  BY DEF IInv
<1>1. DOMAIN ps_net = Link
  BY DEF Inv, NetInv
<1>2. pending \in [PE -> Seq(Edge)] /\ halted \subseteq PE
  BY DEF Inv, AtProducers, NoErrorLoop
<1>3. \A k \in DOMAIN line : line[k] \in Edge
  BY OnLineFacts, ManagedFacts
<1>4. QED BY <1>1, <1>2, <1>3 DEF Inv, Typed, CtpTyped, CtpRecord, TypeOK

\* A pair that waits is in one of the places of Conservation.
LEMMA InvMeansNoMessageLost == IInv => NoMessageLost
<1> SUFFICES ASSUME NEW stage \in [Managed -> Stage], Inv(stage), NEW e \in Edge,
                    waiting[e[2]] = e[1]
             PROVE  \/ InFlight("MESSAGE_REQUEST", e) \/ InFlight("MESSAGE_DELIVERY", e)
                    \/ AtProducer(e) \/ OnCircuit(e)
  BY DEF IInv, NoMessageLost
<1>1. e \in InNet \/ e \in InPending \/ e \in InTable \/ e \in OnWire \/ e \in OnLine
  BY DEF Inv, Conservation, Partition, Waits
<1>2. CASE e \in InNet
  <2>1. PICK x \in Items(ps_net) : ~IsOrder(x[2]) /\ Pair(x[2]) = e
    BY <1>2 DEF InNet, MessagesIn
  <2>2. x = <<Back(e), RequestOf(e)>> \/ x = <<Forth(e), DeliveryOf(e)>>
    BY <2>1, NetPacket DEF Inv, MessagePlaced
  <2>3. x[1] \in Link /\ \E i \in DOMAIN ps_net[x[1]] : ps_net[x[1]][i] = x[2]
    BY ItemAt, SMTT(30) DEF Inv, NetInv
  <2>4. QED BY <2>2, <2>3 DEF InFlight, RequestOf, Request, DeliveryOf, Delivery
<1>3. CASE e \in InPending
  <2>1. PICK x \in Items(pending) : x[2] = e
    BY <1>3 DEF InPending
  <2>2. x[1] = Home[e[1]] /\ \E i \in DOMAIN pending[x[1]] : pending[x[1]][i] = e
    BY <2>1, ItemAt DEF Inv, AtProducers
  <2>3. QED BY <2>2 DEF AtProducer
<1>4. CASE e \in InTable
  <2>1. e \in message_request[Home[e[1]]]
    BY <1>4 DEF InTable, Inv, AtProducers
  <2>2. QED BY <2>1 DEF AtProducer
<1>5. CASE e \in OnWire
  BY <1>5 DEF OnWire, AtProducer
<1>6. CASE e \in OnLine
  BY <1>6 DEF OnLine, OnCircuit
<1>7. QED BY <1>1, <1>2, <1>3, <1>4, <1>5, <1>6

\* A pair that has a CTP, or whose change is not concluded, holds its path.
LEMMA PathHeld ==
    ASSUME NEW stage \in [Managed -> Stage], QosInv(stage), NEW e \in Managed,
           stage[e].place # "concluded" \/ \E op \in Ops : Has(stage[e], op)
    PROVE  HoldsPath(e, path[e])
<1>1. stage[e].place # "concluded" \/ stage[e].cs_mode
  BY DEF Has, Ops, Ordered, Halfway
<1>2. QosOf(stage[e]) # "ps"
  BY <1>1 DEF QosOf
<1>3. QED BY <1>2 DEF QosInv, HoldsPath

\* An order in a packet or in a TCB is of a pair whose change is not concluded.
LEMMA UnderwayNotConcluded ==
    ASSUME NEW stage \in [Managed -> Stage], Inv(stage), NEW e \in Managed, OrderUnderway(e)
    PROVE  stage[e].place # "concluded"
<1>1. e \in Edge /\ e = <<e[1], e[2]>> /\ e[1] \in Task /\ e[2] \in Task
  BY ManagedFacts, EdgeFacts
<1>2. CASE \E service \in OrderService : InFlight(service, e)
  <2>1. PICK l \in Link : \E i \in DOMAIN ps_net[l] :
               /\ ps_net[l][i].service \in OrderService
               /\ ps_net[l][i].producer = e[1] /\ ps_net[l][i].consumer = e[2]
    BY <1>2 DEF InFlight
  <2>2. PICK i \in DOMAIN ps_net[l] :
               /\ ps_net[l][i].service \in OrderService
               /\ ps_net[l][i].producer = e[1] /\ ps_net[l][i].consumer = e[2]
    BY <2>1
  <2> DEFINE x == <<l, ps_net[l][i]>>
  <2>3. x \in Items(ps_net) /\ IsOrder(x[2]) /\ Pair(x[2]) = e
    BY <1>1, <2>2, ItemOf DEF Inv, NetInv, IsOrder, Pair
  <2>4. OrderPlaced(x, stage, path)
    BY <2>3 DEF Inv, NetInv
  <2>5. stage[e].place = x[2].service
    BY <2>3, <2>4 DEF OrderPlaced
  <2>6. QED BY <2>2, <2>5 DEF OrderService
<1>3. CASE add_ctp[e[2]].producer = e[1]
  <2>1. add_ctp[e[2]] # NoOrder
    BY <1>1, <1>3, SystemAssumption DEF NoOrder
  <2>2. stage[<<add_ctp[e[2]].producer, e[2]>>] = At(TRUE, "kept")
    BY <1>1, <2>1, Zenon DEF Inv, KeptInv
  <2>3. QED BY <1>1, <1>3, <2>2 DEF At
<1>4. CASE remove_ctp[e[2]] = e[1]
  <2>1. remove_ctp[e[2]] # NoTask
    BY <1>1, <1>4, SystemAssumption
  <2>2. stage[<<remove_ctp[e[2]], e[2]>>] = At(FALSE, "kept")
    BY <1>1, <2>1, Zenon DEF Inv, KeptInv
  <2>3. QED BY <1>1, <1>4, <2>2 DEF At
<1>5. QED BY <1>2, <1>3, <1>4 DEF OrderUnderway

\* Whatever uses a subnet belongs to a pair that holds it, at the PE where it does.
LEMMA InvMeansPathIdle == IInv => PathIdleWhenReturned
<1> SUFFICES ASSUME NEW stage \in [Managed -> Stage], Inv(stage) PROVE PathIdleWhenReturned
  BY DEF IInv
<1>0. QosInv(stage)
  BY DEF Inv
<1>1. ASSUME NEW d \in PE, NEW i \in Slot, ctp[d][i].subnet # NoSubnet
      PROVE  LET e == <<ctp[d][i].producer_task, ctp[d][i].consumer_task>>
             IN  /\ HoldsPath(e, ctp[d][i].subnet)
                 /\ d = Home[IF ctp[d][i].dmni_op = "send" THEN e[1] ELSE e[2]]
  <2> DEFINE e == CtpPair(d, i)
             op == ctp[d][i].dmni_op
  <2>1. /\ e \in Managed /\ ctp[d][i].subnet = path[e]
        /\ op \in Ops /\ d = End(e, op) /\ Has(stage[e], op)
    BY <1>1 DEF Inv, TableInv, CtpShape, Used
  <2>2. HoldsPath(e, path[e])
    BY <1>0, <2>1, PathHeld
  <2>3. QED BY <2>1, <2>2 DEF CtpPair, End
<1>2. ASSUME NEW k \in wire PROVE \E e \in Managed : HoldsPath(e, k[2]) /\ k[1] = Home[e[1]]
  <2>1. PICK e \in Managed : k = <<Home[e[1]], path[e]>> /\ Enabled(stage[e], "receive")
    BY <1>2 DEF Inv, CircuitInv
  <2>2. HoldsPath(e, path[e])
    BY <1>0, <2>1, PathHeld DEF Enabled, Ops
  <2>3. QED BY <2>1, <2>2
<1>3. ASSUME NEW k \in DOMAIN line PROVE HoldsPath(line[k], k[2]) /\ k[1] = Home[line[k][2]]
  <2>1. /\ line[k] \in Managed /\ k = <<Home[line[k][2]], path[line[k]]>>
        /\ \A op \in Ops : Has(stage[line[k]], op)
    BY <1>3 DEF Inv, CircuitInv
  <2>2. HoldsPath(line[k], path[line[k]])
    BY <1>0, <2>1, PathHeld DEF Ops
  <2>3. QED BY <2>1, <2>2
<1>4. ASSUME NEW e \in Managed, OrderUnderway(e) PROVE qos[e] # "ps"
  BY <1>0, <1>4, PathHeld, UnderwayNotConcluded DEF HoldsPath
<1>5. QED BY <1>1, <1>2, <1>3, <1>4 DEF PathIdleWhenReturned

\* SwitchStep in the words of the property.
LEMMA StepMeansSwitch ==
    SwitchStep =>
        \A e \in Managed :
          /\ CtpsOf(Home[e[2]], e, "receive")' # CtpsOf(Home[e[2]], e, "receive") =>
                (waiting[e[2]] # e[1])'
          /\ CtpsOf(Home[e[1]], e, "send")' # CtpsOf(Home[e[1]], e, "send") =>
                ~AtProducer(e) /\ ~OnCircuit(e)
BY DEF SwitchStep, SameCtps, End

\* The initial states are those of the rendezvous.
LEMMA InitVisible == Init => RV!Init
BY DEF Init, RV!Init

\* Every variable has its type, and only a slot with a subnet has an operation.
THEOREM TypeCorrect ==
    ASSUME ~PathFails
    PROVE  Spec => []TypeOK
BY Inductive, InvMeansTypeOK, PTL

\* However often the mode changes, a consumer that waits has its request or its answer
\* somewhere: "No message is lost" (enforcer_sdn.c:104).
THEOREM NoMessageIsLost ==
    ASSUME ~PathFails
    PROVE  Spec => []NoMessageLost
BY Inductive, InvMeansNoMessageLost, PTL

\* No kernel ends in an error loop: every wire, every message of a circuit and every order
\* to leave finds its CTP, and the table has room for every order to enter.
THEOREM NoKernelStops ==
    ASSUME ~PathFails
    PROVE  Spec => []NoErrorLoop
<1>1. IInv => NoErrorLoop
  BY DEF IInv, Inv
<1>2. QED BY <1>1, Inductive, PTL

\* When the NoC manager gets a path back, nothing uses it any more: each CTP, raised wire,
\* circuit message and order belongs to a pair that still holds the path it was given.
THEOREM PathReturnedIdle ==
    ASSUME ~PathFails
    PROVE  Spec => []PathIdleWhenReturned
BY Inductive, InvMeansPathIdle, PTL

\* An end changes its mode only between two messages of the pair.
THEOREM ModeSwitchesBetweenMessages ==
    ASSUME ~PathFails
    PROVE  Spec => SwitchesBetweenMessages
BY Inductive, StepMeansSwitch, PTL DEF SwitchesBetweenMessages

\* To the tasks the switching mode makes no difference: the kernels implement the
\* abstract Send and Receive whatever the pairs switch to.
THEOREM SwitchingImplementsRendezvous ==
    ASSUME ~PathFails
    PROVE  Spec => ImplementsRendezvous
<1>1. [Visible]_vars => [RV!Next]_(RV!vars)
  BY DEF Visible, vars, kernelVars, RV!vars
<1>2. QED BY <1>1, Inductive, InitVisible, PTL DEF Spec, ImplementsRendezvous, RV!Spec

=============================================================================
