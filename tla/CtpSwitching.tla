---------------------------- MODULE CtpSwitching ----------------------------
(***************************************************************************)
(* The change of switching mode of a communicating task pair (CTP):        *)
(* enforcer_sdn.c of the kernels of producer and consumer, the parts of    *)
(* task_communication.c and of the interrupt handler that read the CTPs,   *)
(* and the QoS manager that gives the orders.                              *)
(*                                                                         *)
(*   QoS manager     consumer             producer                         *)
(*   SET_NOC_SWITCHING_CONSUMER ->                                         *)
(*                   SET_NOC_SWITCHING_PRODUCER ->                         *)
(*                   <- NOC_SWITCHING_PRODUCER_ACK                         *)
(*   <- NOC_SWITCHING_CTP_CONCLUDED                                        *)
(*                                                                         *)
(* while both tasks go on communicating. TaskCommunication has the DMNI    *)
(* and its waits; here a packet leaves when it is sent, and a request that *)
(* meets a busy DMNI is deferred by choice. The circuits are the paths the *)
(* NoC manager has configured in the routers.                              *)
(***************************************************************************)
EXTENDS Naturals, Sequences, FiniteSets

CONSTANTS
    PE,          \* the processing elements
    Manager,     \* the PE of the QoS manager, no other task runs there
    Task,        \* the user tasks
    Home,        \* the PE of each task
    Edge,        \* <<producer, consumer>> pairs, all remote
    Managed,     \* the pairs the QoS manager gives orders for
    Subnet,      \* the circuit-switching subnets
    MAX_CTP,     \* slots of the table of CTPs of a PE
    PathFails,   \* the NoC manager may find no path for a pair
    MaxMsgs,     \* bound: messages of a pair
    NoTask, NoSubnet, Garbage

ASSUME SystemAssumption ==
    /\ Manager \notin PE
    /\ Home \in [Task -> PE]
    /\ Edge \subseteq {e \in Task \X Task : Home[e[1]] # Home[e[2]]}
    /\ Managed \subseteq Edge
    \* The TCB has one word for an order: the pairs have different consumers.
    /\ \A e, f \in Managed : e[2] = f[2] => e = f
    /\ IsFiniteSet(Subnet) /\ MAX_CTP = 2 * Cardinality(Subnet)
    /\ PathFails \in BOOLEAN /\ MaxMsgs \in Nat
    /\ NoTask \notin Task /\ NoSubnet \notin Subnet /\ Garbage \notin Subnet \cup {NoSubnet}

Slot == 1..MAX_CTP
Node == PE \cup {Manager}
Link == Node \X Node
\* Links between the ends of a pair, and from the manager to a consumer.
UsedLink == UNION {{<<Home[e[1]], Home[e[2]]>>, <<Home[e[2]], Home[e[1]]>>} : e \in Edge}
                \cup {<<Manager, Home[e[2]]>> : e \in Managed}

-----------------------------------------------------------------------------
VARIABLES
    halted,           \* kernels in one of their endless error loops
    ctp,              \* table of CTPs of each PE
    add_ctp,          \* order to enter the circuit kept in the TCB of the consumer
    remove_ctp,       \* order to leave it: the producer
    waiting,          \* the producer each consumer waits for, or NoTask
    message_request,  \* requests that wait for their Send, per PE
    pending,          \* requests deferred by the interrupt handler, per PE
    ps_net,           \* packets in flight on each link
    wire,             \* request wires raised: <<PE of the producer, subnet>>
    line,             \* messages on the circuits: <<PE of the consumer, subnet>> -> pair
    path,             \* the subnet of the path configured for each managed pair
    qos,              \* what the QoS manager knows of each managed pair
    put, got          \* messages accepted and received per pair

kernelVars == <<halted, ctp, add_ctp, remove_ctp, waiting, message_request, pending>>
netVars    == <<ps_net, wire, line>>
qosVars    == <<path, qos>>
vars == <<kernelVars, netVars, qosVars, put, got>>

-----------------------------------------------------------------------------
(* The table of CTPs. A removed CTP keeps its tasks: get_subnet stops at the
   first slot of the pair and the operation, in use or not. *)

FreeCtp == [producer_task |-> NoTask, consumer_task |-> NoTask, dmni_op |-> "none",
            subnet |-> NoSubnet, CS_enabled |-> FALSE]

First(S) == CHOOSE i \in S : \A j \in S : i <= j

SlotsOf(d, s, op) == {i \in Slot : ctp[d][i].subnet = s /\ ctp[d][i].dmni_op = op}
UnusedSlots(d) == {i \in Slot : ctp[d][i].subnet = NoSubnet}
SlotsOfPair(d, p, c, op) ==
    {i \in Slot : /\ ctp[d][i].producer_task = p /\ ctp[d][i].consumer_task = c
                  /\ ctp[d][i].dmni_op = op}

get_ctp_ptr(d, s, op) == ctp[d][First(SlotsOf(d, s, op))]

add_ctp_entry(d, p, c, op, s, enabled) ==
    [ctp EXCEPT ![d][First(UnusedSlots(d))] =
        [producer_task |-> p, consumer_task |-> c, dmni_op |-> op,
         subnet |-> s, CS_enabled |-> enabled]]

\* Mutant of remove_ctp_entry: the subnet of the slot is not reset.
RemoveKeepsSubnet(d, s, op) ==
    [ctp EXCEPT ![d][First(SlotsOf(d, s, op))].CS_enabled = FALSE]

remove_ctp_entry(d, s, op) ==
    [ctp EXCEPT ![d][First(SlotsOf(d, s, op))] =
        [@ EXCEPT !.subnet = NoSubnet, !.dmni_op = "none", !.CS_enabled = FALSE]]

\* Mutant of get_subnet: a CTP counts before the producer has acknowledged it.
SubnetAtOnce(d, p, c, op) ==
    LET S == SlotsOfPair(d, p, c, op)
    IN  IF S = {} THEN NoSubnet ELSE ctp[d][First(S)].subnet

get_subnet(d, p, c, op) ==
    LET S == SlotsOfPair(d, p, c, op)
    IN  IF S = {} THEN NoSubnet
        ELSE IF ctp[d][First(S)].CS_enabled THEN ctp[d][First(S)].subnet ELSE NoSubnet

-----------------------------------------------------------------------------
(* Packets *)

Request(p, c) == [service |-> "MESSAGE_REQUEST", producer |-> p, consumer |-> c]
Delivery(p, c) == [service |-> "MESSAGE_DELIVERY", producer |-> p, consumer |-> c]
Order(service, p, c, mode, s) ==
    [service |-> service, producer |-> p, consumer |-> c, cs_mode |-> mode, cs_net |-> s]

Sent(net, s, d, pkt) == [net EXCEPT ![<<s, d>>] = Append(@, pkt)]
Taken(s, d) == [ps_net EXCEPT ![<<s, d>>] = Tail(@)]

PacketAt(s, d, service) ==
    /\ d \notin halted
    /\ ps_net[<<s, d>>] # <<>> /\ Head(ps_net[<<s, d>>]).service = service
PacketOf(s, d) == Head(ps_net[<<s, d>>])

Halt(d) == halted' = halted \cup {d}

\* Where the circuit of subnet s leads from the consumer's PE d and from the
\* producer's PE d. A subnet without a path leads nowhere.
PathsTo(d, s)   == {e \in Managed : path[e] = s /\ Home[e[2]] = d}
PathsFrom(d, s) == {e \in Managed : path[e] = s /\ Home[e[1]] = d}

-----------------------------------------------------------------------------
(* check_ctp_reconfiguration, called with the orders kept for task c once it
   waits for no message: net is the network without the packet just read. *)

NoOrder == [subnet |-> NoSubnet, producer |-> NoTask]

add_ctp_online(c, order, net) ==
    /\ IF UnusedSlots(Home[c]) = {}
       THEN Halt(Home[c]) /\ ps_net' = net /\ UNCHANGED ctp
       ELSE /\ ctp' = add_ctp_entry(Home[c], order.producer, c, "receive", order.subnet, FALSE)
            /\ ps_net' = Sent(net, Home[c], Home[order.producer],
                              Order("SET_NOC_SWITCHING_PRODUCER", order.producer, c, TRUE,
                                    order.subnet))
            /\ UNCHANGED halted
    /\ add_ctp' = [add_ctp EXCEPT ![c] = NoOrder]

\* With the CTP not yet enabled the subnet is -1 and the kernel stops.
remove_ctp_online(c, p, net) ==
    LET s == get_subnet(Home[c], p, c, "receive")
    IN  /\ IF s = NoSubnet
           THEN Halt(Home[c]) /\ ps_net' = net /\ UNCHANGED ctp
           ELSE /\ ctp' = remove_ctp_entry(Home[c], s, "receive")
                /\ ps_net' = Sent(net, Home[c], Home[p],
                                  Order("SET_NOC_SWITCHING_PRODUCER", p, c, FALSE, s))
                /\ UNCHANGED halted
        /\ remove_ctp' = [remove_ctp EXCEPT ![c] = NoTask]

check_ctp_reconfiguration(c, add, rem, net) ==
    \/ /\ add # NoOrder
       /\ add_ctp_online(c, add, net)
       /\ remove_ctp' = [remove_ctp EXCEPT ![c] = rem]
    \/ /\ add = NoOrder /\ rem # NoTask
       /\ remove_ctp_online(c, rem, net)
       /\ UNCHANGED add_ctp
    \/ /\ add = NoOrder /\ rem = NoTask
       /\ ps_net' = net
       /\ UNCHANGED <<halted, ctp, add_ctp, remove_ctp>>

-----------------------------------------------------------------------------
(* Receive and Send *)

\* The request goes over the wire of the subnet of an enabled CTP, else by
\* packet. A wire of a subnet that does not exist is never seen.
Receive(p, c) ==
    LET s == get_subnet(Home[c], p, c, "receive")
    IN  /\ Home[c] \notin halted /\ waiting[c] = NoTask /\ got[<<p, c>>] < MaxMsgs
        /\ waiting' = [waiting EXCEPT ![c] = p]
        /\ IF s = NoSubnet
           THEN /\ ps_net' = Sent(ps_net, Home[c], Home[p], Request(p, c))
                /\ UNCHANGED wire
           ELSE /\ wire' = wire \cup {<<Home[e[1]], s>> : e \in PathsTo(Home[c], s)}
                /\ UNCHANGED ps_net
        /\ UNCHANGED <<halted, ctp, add_ctp, remove_ctp, message_request, pending, line,
                       qosVars, put, got>>

SendPS(p, c) ==
    /\ Home[p] \notin halted
    /\ <<p, c>> \in message_request[Home[p]]
    /\ get_subnet(Home[p], p, c, "send") = NoSubnet
    /\ message_request' = [message_request EXCEPT ![Home[p]] = @ \ {<<p, c>>}]
    /\ put' = [put EXCEPT ![<<p, c>>] = @ + 1]
    /\ ps_net' = Sent(ps_net, Home[p], Home[c], Delivery(p, c))
    /\ UNCHANGED <<halted, ctp, add_ctp, remove_ctp, waiting, pending, wire, line, qosVars, got>>

\* The message takes the circuit that leaves this PE on the subnet of the CTP.
SendCS(p, c) ==
    LET s == get_subnet(Home[p], p, c, "send")
    IN  /\ Home[p] \notin halted
        /\ <<p, c>> \in message_request[Home[p]]
        /\ s # NoSubnet
        /\ \A e \in PathsFrom(Home[p], s) : <<Home[e[2]], s>> \notin DOMAIN line
        /\ message_request' = [message_request EXCEPT ![Home[p]] = @ \ {<<p, c>>}]
        /\ put' = [put EXCEPT ![<<p, c>>] = @ + 1]
        /\ line' = [k \in DOMAIN line \cup {<<Home[e[2]], s>> : e \in PathsFrom(Home[p], s)} |->
                      IF k \in DOMAIN line THEN line[k] ELSE <<p, c>>]
        /\ UNCHANGED <<halted, ctp, add_ctp, remove_ctp, waiting, pending, ps_net, wire, qosVars, got>>

-----------------------------------------------------------------------------
(* Interrupt handlers of the communication *)

AddRequest(d, p, c) == message_request' = [message_request EXCEPT ![d] = @ \cup {<<p, c>>}]

HandleRequest(s, d) ==
    /\ PacketAt(s, d, "MESSAGE_REQUEST")
    /\ ps_net' = Taken(s, d)
    /\ AddRequest(d, PacketOf(s, d).producer, PacketOf(s, d).consumer)
    /\ UNCHANGED <<halted, ctp, add_ctp, remove_ctp, waiting, pending, wire, line, qosVars, put, got>>

\* The DMNI is sending.
DeferRequest(s, d) ==
    /\ PacketAt(s, d, "MESSAGE_REQUEST")
    /\ ps_net' = Taken(s, d)
    /\ pending' = [pending EXCEPT ![d] =
                     Append(@, <<PacketOf(s, d).producer, PacketOf(s, d).consumer>>)]
    /\ UNCHANGED <<halted, ctp, add_ctp, remove_ctp, waiting, message_request, wire, line,
                   qosVars, put, got>>

HandlePending(d) ==
    /\ d \notin halted /\ pending[d] # <<>>
    /\ pending' = [pending EXCEPT ![d] = Tail(@)]
    /\ AddRequest(d, Head(pending[d])[1], Head(pending[d])[2])
    /\ UNCHANGED <<halted, ctp, add_ctp, remove_ctp, waiting, netVars, qosVars, put, got>>

\* Interrupt of a request wire: the pair is the one of the CTP of the subnet.
HandleWire(d, s) ==
    /\ d \notin halted /\ <<d, s>> \in wire
    /\ IF SlotsOf(d, s, "send") = {}
       THEN Halt(d) /\ UNCHANGED <<message_request, wire>>
       ELSE /\ AddRequest(d, get_ctp_ptr(d, s, "send").producer_task,
                          get_ctp_ptr(d, s, "send").consumer_task)
            /\ wire' = wire \ {<<d, s>>}
            /\ UNCHANGED halted
    /\ UNCHANGED <<ctp, add_ctp, remove_ctp, waiting, pending, ps_net, line, qosVars, put, got>>

\* The consumer is released, and only then are its orders looked at.
Release(c, e, net) ==
    /\ waiting' = [waiting EXCEPT ![c] = NoTask]
    /\ got' = [got EXCEPT ![e] = @ + 1]
    /\ check_ctp_reconfiguration(c, add_ctp[c], remove_ctp[c], net)

HandleDelivery(s, d) ==
    /\ PacketAt(s, d, "MESSAGE_DELIVERY")
    /\ IF waiting[PacketOf(s, d).consumer] = NoTask
       THEN /\ Halt(d) /\ ps_net' = Taken(s, d)
            /\ UNCHANGED <<ctp, add_ctp, remove_ctp, waiting, got>>
       ELSE Release(PacketOf(s, d).consumer, <<PacketOf(s, d).producer, PacketOf(s, d).consumer>>,
                    Taken(s, d))
    /\ UNCHANGED <<message_request, pending, wire, line, qosVars, put>>

\* Interrupt of a CS subnet: the consumer is the one of the CTP of the subnet.
HandleCSDelivery(d, s) ==
    /\ d \notin halted /\ <<d, s>> \in DOMAIN line
    /\ line' = [k \in DOMAIN line \ {<<d, s>>} |-> line[k]]
    /\ IF \/ SlotsOf(d, s, "receive") = {}
          \/ waiting[get_ctp_ptr(d, s, "receive").consumer_task] = NoTask
       THEN Halt(d) /\ UNCHANGED <<ctp, add_ctp, remove_ctp, waiting, ps_net, got>>
       ELSE Release(get_ctp_ptr(d, s, "receive").consumer_task, line[<<d, s>>], ps_net)
    /\ UNCHANGED <<message_request, pending, wire, qosVars, put>>

-----------------------------------------------------------------------------
(* handle_dynamic_CS_setup *)

\* Mutant of SetConsumer: an order is obeyed while the consumer waits.
SetConsumerAtOnce(s, d) ==
    LET pkt == PacketOf(s, d)
        c == pkt.consumer
        add == IF pkt.cs_mode THEN [subnet |-> pkt.cs_net, producer |-> pkt.producer] ELSE add_ctp[c]
        rem == IF pkt.cs_mode THEN remove_ctp[c] ELSE pkt.producer
    IN  /\ PacketAt(s, d, "SET_NOC_SWITCHING_CONSUMER")
        /\ check_ctp_reconfiguration(c, add, rem, Taken(s, d))
        /\ UNCHANGED <<waiting, message_request, pending, wire, line, qosVars, put, got>>

\* The order is kept in the TCB, and obeyed at once unless the task waits.
SetConsumer(s, d) ==
    LET pkt == PacketOf(s, d)
        c == pkt.consumer
        add == IF pkt.cs_mode THEN [subnet |-> pkt.cs_net, producer |-> pkt.producer] ELSE add_ctp[c]
        rem == IF pkt.cs_mode THEN remove_ctp[c] ELSE pkt.producer
    IN  /\ PacketAt(s, d, "SET_NOC_SWITCHING_CONSUMER")
        /\ IF waiting[c] = NoTask
           THEN check_ctp_reconfiguration(c, add, rem, Taken(s, d))
           ELSE /\ add_ctp' = [add_ctp EXCEPT ![c] = add]
                /\ remove_ctp' = [remove_ctp EXCEPT ![c] = rem]
                /\ ps_net' = Taken(s, d)
                /\ UNCHANGED <<halted, ctp>>
        /\ UNCHANGED <<waiting, message_request, pending, wire, line, qosVars, put, got>>

\* The producer changes at once and acknowledges.
SetProducer(s, d) ==
    LET pkt == PacketOf(s, d)
        ok == IF pkt.cs_mode THEN UnusedSlots(d) # {} ELSE SlotsOf(d, pkt.cs_net, "send") # {}
    IN  /\ PacketAt(s, d, "SET_NOC_SWITCHING_PRODUCER")
        /\ IF ok
           THEN /\ ctp' = IF pkt.cs_mode
                          THEN add_ctp_entry(d, pkt.producer, pkt.consumer, "send", pkt.cs_net, TRUE)
                          ELSE remove_ctp_entry(d, pkt.cs_net, "send")
                /\ ps_net' = Sent(Taken(s, d), d, Home[pkt.consumer],
                                  Order("NOC_SWITCHING_PRODUCER_ACK", pkt.producer, pkt.consumer,
                                        pkt.cs_mode, pkt.cs_net))
                /\ UNCHANGED halted
           ELSE Halt(d) /\ ps_net' = Taken(s, d) /\ UNCHANGED ctp
        /\ UNCHANGED <<add_ctp, remove_ctp, waiting, message_request, pending, wire, line,
                       qosVars, put, got>>

\* Mutant of ProducerAck: the consumer never learns that the producer changed.
AckIgnored(s, d) ==
    LET pkt == PacketOf(s, d)
    IN  /\ PacketAt(s, d, "NOC_SWITCHING_PRODUCER_ACK")
        /\ ps_net' = Sent(Taken(s, d), d, Manager,
                          Order("NOC_SWITCHING_CTP_CONCLUDED", pkt.producer, pkt.consumer,
                                pkt.cs_mode, pkt.cs_net))
        /\ UNCHANGED <<halted, ctp, add_ctp, remove_ctp, waiting, message_request, pending, wire, line,
                       qosVars, put, got>>

ProducerAck(s, d) ==
    LET pkt == PacketOf(s, d)
        known == SlotsOf(d, pkt.cs_net, "receive")
    IN  /\ PacketAt(s, d, "NOC_SWITCHING_PRODUCER_ACK")
        /\ IF pkt.cs_mode /\ known = {}
           THEN Halt(d) /\ ps_net' = Taken(s, d) /\ UNCHANGED ctp
           ELSE /\ ctp' = IF pkt.cs_mode THEN [ctp EXCEPT ![d][First(known)].CS_enabled = TRUE]
                          ELSE ctp
                /\ ps_net' = Sent(Taken(s, d), d, Manager,
                                  Order("NOC_SWITCHING_CTP_CONCLUDED", pkt.producer, pkt.consumer,
                                        pkt.cs_mode, pkt.cs_net))
                /\ UNCHANGED halted
        /\ UNCHANGED <<add_ctp, remove_ctp, waiting, message_request, pending, wire, line,
                       qosVars, put, got>>

-----------------------------------------------------------------------------
(* The QoS manager *)

\* PATH_CONNECTION_ACK of the NoC manager: a path that shares no local port
\* with another one, or none. The order goes out whatever the answer says.
handle_SDN_ack(e, s) ==
    /\ qos[e] = "ps"
    /\ \/ /\ s \in Subnet
          /\ \A f \in Managed : path[f] = s => Home[f[1]] # Home[e[1]] /\ Home[f[2]] # Home[e[2]]
          /\ path' = [path EXCEPT ![e] = s]
       \/ PathFails /\ s = Garbage /\ UNCHANGED path
    /\ qos' = [qos EXCEPT ![e] = "entering"]
    /\ ps_net' = Sent(ps_net, Manager, Home[e[2]],
                      Order("SET_NOC_SWITCHING_CONSUMER", e[1], e[2], TRUE, s))
    /\ UNCHANGED <<kernelVars, wire, line, put, got>>

CTP_set_PS_switching(e) ==
    /\ qos[e] = "cs"
    /\ qos' = [qos EXCEPT ![e] = "leaving"]
    /\ ps_net' = Sent(ps_net, Manager, Home[e[2]],
                      Order("SET_NOC_SWITCHING_CONSUMER", e[1], e[2], FALSE, NoSubnet))
    /\ UNCHANGED <<kernelVars, wire, line, path, put, got>>

\* NOC_SWITCHING_CTP_CONCLUDED: after the release the path may be given back.
Concluded(d) ==
    LET pkt == PacketOf(d, Manager)
        e == <<pkt.producer, pkt.consumer>>
    IN  /\ PacketAt(d, Manager, "NOC_SWITCHING_CTP_CONCLUDED")
        /\ ps_net' = Taken(d, Manager)
        /\ qos' = [qos EXCEPT ![e] = IF pkt.cs_mode THEN "cs" ELSE "ps"]
        /\ path' = IF pkt.cs_mode THEN path ELSE [path EXCEPT ![e] = NoSubnet]
        /\ UNCHANGED <<kernelVars, wire, line, put, got>>

-----------------------------------------------------------------------------
Init ==
    /\ halted = {}
    /\ ctp = [d \in PE |-> [i \in Slot |-> FreeCtp]]
    /\ add_ctp = [t \in Task |-> NoOrder]
    /\ remove_ctp = [t \in Task |-> NoTask]
    /\ waiting = [t \in Task |-> NoTask]
    /\ message_request = [d \in PE |-> {}]
    /\ pending = [d \in PE |-> <<>>]
    /\ ps_net = [l \in Link |-> <<>>]
    /\ wire = {}
    /\ line = [k \in {} |-> <<>>]
    /\ path = [e \in Managed |-> NoSubnet]
    /\ qos = [e \in Managed |-> "ps"]
    /\ put = [e \in Edge |-> 0]
    /\ got = [e \in Edge |-> 0]

TaskStep(p, c) == Receive(p, c) \/ SendPS(p, c) \/ SendCS(p, c)

PacketStep(s, d) ==
    \/ HandleRequest(s, d) \/ DeferRequest(s, d) \/ HandleDelivery(s, d)
    \/ SetConsumer(s, d) \/ SetProducer(s, d) \/ ProducerAck(s, d)

KernelStep(d) ==
    \/ HandlePending(d) \/ Concluded(d)
    \/ \E s \in Subnet : HandleWire(d, s) \/ HandleCSDelivery(d, s)

ManagerStep(e) ==
    \/ \E s \in Subnet \cup {Garbage} : handle_SDN_ack(e, s)
    \/ CTP_set_PS_switching(e)

Next ==
    \/ \E e \in Edge : TaskStep(e[1], e[2])
    \/ \E l \in Node \X PE : PacketStep(l[1], l[2])
    \/ \E d \in PE : KernelStep(d)
    \/ \E e \in Managed : ManagerStep(e)

Spec == Init /\ [][Next]_vars

\* The tasks go on communicating, the kernels take every interrupt that is up
\* (OS_interruption_handler looks at them all) and the NoC delivers on every
\* link. Nobody has to order a change.
FairSpec ==
    /\ Spec
    /\ \A e \in Edge : WF_vars(SendPS(e[1], e[2]) \/ SendCS(e[1], e[2]))
    /\ \A l \in UsedLink : WF_vars(PacketStep(l[1], l[2]))
    /\ \A d \in PE : WF_vars(HandlePending(d)) /\ WF_vars(Concluded(d))
    /\ \A d \in PE, s \in Subnet : WF_vars(HandleWire(d, s) \/ HandleCSDelivery(d, s))

-----------------------------------------------------------------------------
(* Properties *)

\* The type of every variable; a slot of the table has an operation exactly
\* when it has a subnet, and only such a slot is enabled.
TypeOK ==
    /\ \A d \in PE : \A i \in Slot :
        /\ ctp[d][i].subnet = NoSubnet <=> ctp[d][i].dmni_op = "none"
        /\ ctp[d][i].CS_enabled => ctp[d][i].subnet # NoSubnet
    /\ halted \subseteq PE
    /\ ctp \in [PE -> [Slot -> [producer_task : Task \cup {NoTask}, consumer_task : Task \cup {NoTask},
                                dmni_op : {"none", "send", "receive"},
                                subnet : Subnet \cup {NoSubnet, Garbage}, CS_enabled : BOOLEAN]]]
    /\ add_ctp \in [Task -> [subnet : Subnet \cup {NoSubnet, Garbage}, producer : Task \cup {NoTask}]]
    /\ remove_ctp \in [Task -> Task \cup {NoTask}]
    /\ waiting \in [Task -> Task \cup {NoTask}]
    /\ message_request \in [PE -> SUBSET Edge]
    /\ pending \in [PE -> Seq(Edge)]
    /\ DOMAIN ps_net = Link
    /\ wire \subseteq PE \X Subnet
    /\ DOMAIN line \subseteq PE \X Subnet /\ \A k \in DOMAIN line : line[k] \in Edge
    /\ path \in [Managed -> Subnet \cup {NoSubnet}]
    /\ qos \in [Managed -> {"ps", "entering", "cs", "leaving"}]
    /\ put \in [Edge -> Nat] /\ got \in [Edge -> Nat]

InFlight(service, e) ==
    \E l \in Link : \E i \in DOMAIN ps_net[l] :
        LET pkt == ps_net[l][i]
        IN  pkt.service = service /\ pkt.producer = e[1] /\ pkt.consumer = e[2]

\* Where the request of pair e, or its answer, may be, except for the network.
AtProducer(e) ==
    \/ e \in message_request[Home[e[1]]]
    \/ \E i \in DOMAIN pending[Home[e[1]]] : pending[Home[e[1]]][i] = e
    \/ e \in Managed /\ <<Home[e[1]], path[e]>> \in wire
OnCircuit(e) == \E k \in DOMAIN line : line[k] = e

\* "No message is lost" (enforcer_sdn.c:104): whatever the switching mode and
\* however often it changes, a consumer that waits has its request or its answer
\* somewhere in the system.
NoMessageLost ==
    \A e \in Edge : waiting[e[2]] = e[1] =>
        \/ InFlight("MESSAGE_REQUEST", e) \/ InFlight("MESSAGE_DELIVERY", e)
        \/ AtProducer(e) \/ OnCircuit(e)

\* No kernel ends in an error loop: every wire and every message of a circuit
\* finds its CTP, no order to leave meets a CTP that is not enabled, no CTP is
\* removed twice, and the table has a slot for every CTP.
NoErrorLoop == halted = {}

\* Pair e holds subnet s: its path was given to it and has not been given back.
HoldsPath(e, s) == e \in Managed /\ qos[e] # "ps" /\ path[e] = s

OrderService == {"SET_NOC_SWITCHING_CONSUMER", "SET_NOC_SWITCHING_PRODUCER",
                 "NOC_SWITCHING_PRODUCER_ACK", "NOC_SWITCHING_CTP_CONCLUDED"}

\* An order of pair e is in a packet or kept in the TCB of the consumer.
OrderUnderway(e) ==
    \/ \E service \in OrderService : InFlight(service, e)
    \/ add_ctp[e[2]].producer = e[1] \/ remove_ctp[e[2]] = e[1]

\* The QoS manager gives a path back only when nothing uses it any more: each
\* CTP in use, each raised wire and each message on a circuit is of a subnet
\* that a pair with its end at that PE still holds, and that pair is the one of
\* the CTP and of the message; and each order of a pair that is in a packet or
\* kept is of a pair whose path has not been given back.
PathIdleWhenReturned ==
    /\ \A d \in PE : \A i \in Slot : ctp[d][i].subnet # NoSubnet =>
          LET e == <<ctp[d][i].producer_task, ctp[d][i].consumer_task>>
          IN  /\ HoldsPath(e, ctp[d][i].subnet)
              /\ d = Home[IF ctp[d][i].dmni_op = "send" THEN e[1] ELSE e[2]]
    /\ \A k \in wire : \E e \in Managed : HoldsPath(e, k[2]) /\ k[1] = Home[e[1]]
    /\ \A k \in DOMAIN line : HoldsPath(line[k], k[2]) /\ k[1] = Home[line[k][2]]
    /\ \A e \in Managed : OrderUnderway(e) => qos[e] # "ps"

CtpsOf(d, e, op) == {i \in SlotsOfPair(d, e[1], e[2], op) : ctp[d][i].subnet # NoSubnet}

\* An end changes its mode only between two messages: the consumer with no
\* request and no answer of the pair anywhere, the producer with none at its PE.
SwitchesBetweenMessages ==
    [][\A e \in Managed :
          /\ CtpsOf(Home[e[2]], e, "receive")' # CtpsOf(Home[e[2]], e, "receive") =>
                (waiting[e[2]] # e[1])'
          /\ CtpsOf(Home[e[1]], e, "send")' # CtpsOf(Home[e[1]], e, "send") =>
                ~AtProducer(e) /\ ~OnCircuit(e)]_vars

\* Every order of the QoS manager is concluded: the consumer of the pair is not
\* kept waiting, so the order that waits for its message is obeyed.
OrdersConclude == \A e \in Managed : []<>(qos[e] \in {"ps", "cs"})

RV == INSTANCE Rendezvous WITH wants <- waiting

\* To the tasks the switching mode makes no difference: the messages pass as
\* the abstract Send and Receive promise, each once and in order.
ImplementsRendezvous == RV!Spec

=============================================================================
