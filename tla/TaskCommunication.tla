-------------------------- MODULE TaskCommunication --------------------------
(***************************************************************************)
(* Inter-task communication of the MEMPHIS kernel: the SENDMESSAGE,        *)
(* RECVMESSAGE and EXIT system calls of the user tasks, the interrupt      *)
(* handlers of MESSAGE_REQUEST, MESSAGE_DELIVERY and TASK_RELEASE, the     *)
(* FIFO of deferred services, the circuit-switched (CS) request wires, and *)
(* the one send channel per subnet of each DMNI.                           *)
(*                                                                         *)
(* A consumer asks before a producer answers: Receive() sends one request  *)
(* to the processor (PE) of the producer and waits; Send() finds the       *)
(* request in the table message_request of its own PE and answers it.      *)
(* Both calls are retried by the task, "while(!SystemCall(...))", until    *)
(* the kernel returns 1: a system call that returns 0 changes nothing and  *)
(* is a stuttering step here.                                              *)
(*                                                                         *)
(* The kernel is not preempted: a handler is one step, except where it     *)
(* spins on the DMNI, which is a kernel mode of its own.                   *)
(***************************************************************************)
EXTENDS Naturals, Sequences, FiniteSets

CONSTANTS
    PE,                   \* the processing elements
    Task,                 \* the user tasks (ids: app << 8 | index)
    AppOf,                \* the application of each task
    Home,                 \* the PE each task was allocated to
    Edge,                 \* <<producer, consumer>> pairs of the task graphs
    Circuit,              \* the pairs whose CTP is CS enabled at both ends
    REQUEST_SIZE,         \* slots of the message_request table
    PENDING_SERVICE_TAM,  \* slots of the pending service FIFO
    Absorbed,             \* <<service, sender>> whose packets fit in the buffers
    MaxMsgs,              \* bound: messages a task sends to one consumer, per edge
    Manager,              \* the PE of the mapper, outside the model
    NoPE, NoTask          \* the id -1 of a PE and of a task

Service == {"MESSAGE_REQUEST", "MESSAGE_DELIVERY"}

Link == PE \X PE

\* The requests that may ever wait in the table of PE d at the same time.
EdgesAt(d) == {e \in Edge : Home[e[1]] = d}

ASSUME SystemAssumption ==
    /\ NoPE \notin PE /\ Manager \notin PE /\ NoPE # Manager /\ NoTask \notin Task
    /\ IsFiniteSet(PE) /\ IsFiniteSet(Task)
    /\ AppOf \in [Task -> Nat]
    /\ Home \in [Task -> PE]
    /\ Edge \subseteq Task \X Task
    /\ \A e \in Edge : e[1] # e[2] /\ AppOf[e[1]] = AppOf[e[2]]
    /\ Circuit \subseteq {e \in Edge : Home[e[1]] # Home[e[2]]}
    /\ Absorbed \subseteq Service \X PE
    /\ MaxMsgs \in [Edge -> Nat]
    /\ REQUEST_SIZE \in Nat
    /\ PENDING_SERVICE_TAM \in Nat

\* REQUEST_SIZE is MAX_LOCAL_TASKS*(MAX_TASKS_APP-1) (task_communication.h:27).
\* PENDING_SERVICE_TAM is the constant 20 (pending_service.h:20): that it is
\* as large as the table holds for the small configurations only.
ASSUME CapacityAssumption ==
    \A d \in PE : /\ Cardinality(EdgesAt(d)) <= REQUEST_SIZE
                  /\ Cardinality(EdgesAt(d)) <= PENDING_SERVICE_TAM

-----------------------------------------------------------------------------
VARIABLES
    kernel,           \* kernel mode of each PE: "user", "spin" (on the DMNI) or "error"
    status,           \* scheduling status of each task
    call,             \* the API call each task is retrying
    waiting_msg,      \* the task waits for a message
    recv_buffer,      \* the task has a receive buffer registered
    buffer,           \* what the producer last wrote in its message
    message_request,  \* table of requests of each PE
    task_location,    \* task location table of each PE
    pending,          \* pending_services_FIFO of each PE
    ps_net,           \* packets in flight on each link of the PS network
    ps_send,          \* PE the DMNI is sending a PS packet to, or NoPE
    cs_request,       \* request wire of each circuit
    cs_line,          \* message on each circuit
    put, got          \* number of the last message accepted and received per edge

kernelVars == <<kernel, message_request, task_location, pending>>
taskVars   == <<status, call, waiting_msg, recv_buffer, buffer>>
netVars    == <<ps_net, ps_send, cs_request, cs_line>>
vars == <<kernelVars, taskVars, netVars, put, got>>

-----------------------------------------------------------------------------
(* Data *)

Slot == 1..REQUEST_SIZE
FreeSlot == [requester |-> NoTask, requested |-> NoTask, requester_proc |-> NoPE]
UsedSlot == [requester : Task, requested : Task, requester_proc : PE \cup {NoPE}]

Packet == [service : Service, producer : Task, consumer : Task,
           requesting_processor : PE \cup {NoPE}, num : Nat]

Request(p, c, proc) ==
    [service |-> "MESSAGE_REQUEST", producer |-> p, consumer |-> c,
     requesting_processor |-> proc, num |-> 0]
Delivery(p, c, n) ==
    [service |-> "MESSAGE_DELIVERY", producer |-> p, consumer |-> c,
     requesting_processor |-> NoPE, num |-> n]

Call(op, peer) == [op |-> op, peer |-> peer]
NoCall(t) == Call("none", t)

IdleLine == [state |-> "idle", num |-> 0]

SendActive(pe) == ps_send[pe] # NoPE
CSSendActive(pe) == \E k \in Circuit : Home[k[1]] = pe /\ cs_line[k].state = "sending"

\* A task the kernel may be running: the scheduler is abstracted to any choice.
Runs(t) == kernel[Home[t]] = "user" /\ status[t] = "READY" /\ ~waiting_msg[t]

-----------------------------------------------------------------------------
(* The table of message requests *)

First(S) == CHOOSE i \in S : \A j \in S : i <= j
FreeSlots(d) == {i \in Slot : message_request[d][i].requester = NoTask}
Matching(d, p, c) == {i \in Slot : /\ message_request[d][i].requested = p
                                   /\ message_request[d][i].requester = c}

\* The callers ignore the result 0 of a full table: the request is dropped.
insert_message_request(d, p, c, proc) ==
    message_request' =
        IF FreeSlots(d) = {} THEN message_request
        ELSE [message_request EXCEPT ![d][First(FreeSlots(d))] =
                [requester |-> c, requested |-> p, requester_proc |-> proc]]

\* Mutant of remove_message_request: the slot stays in use.
RemoveNothing(d, p, c) == UNCHANGED message_request

remove_message_request(d, p, c) ==
    message_request' =
        [message_request EXCEPT ![d][First(Matching(d, p, c))] = FreeSlot]

RequestSlot(d, p, c) == message_request[d][First(Matching(d, p, c))]

-----------------------------------------------------------------------------
(* The kernel hands message n of p to the waiting consumer c *)

\* Mutant of ReleaseConsumer: the receive buffer stays registered.
ReleaseKeepsBuffer(p, c, n) ==
    /\ waiting_msg' = [waiting_msg EXCEPT ![c] = FALSE]
    /\ got' = [got EXCEPT ![<<p, c>>] = n]
    /\ UNCHANGED recv_buffer

ReleaseConsumer(p, c, n) ==
    /\ waiting_msg' = [waiting_msg EXCEPT ![c] = FALSE]
    /\ recv_buffer' = [recv_buffer EXCEPT ![c] = FALSE]
    /\ got' = [got EXCEPT ![<<p, c>>] = n]

KernelError(d) == kernel' = [kernel EXCEPT ![d] = "error"]

\* The DMNI of s is idle once the last word of its packet has been read by d.
PacketRead(s, d) ==
    /\ ps_net' = [ps_net EXCEPT ![<<s, d>>] = Tail(@)]
    /\ ps_send' = IF ps_send[s] = d /\ Len(ps_net[<<s, d>>]) = 1
                  THEN [ps_send EXCEPT ![s] = NoPE] ELSE ps_send

send_packet(s, d, pkt) ==
    /\ ps_net' = [ps_net EXCEPT ![<<s, d>>] = Append(@, pkt)]
    /\ ps_send' = [ps_send EXCEPT ![s] = d]

-----------------------------------------------------------------------------
(* The program of the tasks: which API call a task makes next *)

CallSend(p, c) ==
    /\ Runs(p) /\ call[p].op = "none" /\ put[<<p, c>>] < MaxMsgs[<<p, c>>]
    /\ buffer' = [buffer EXCEPT ![p] = [to |-> c, num |-> put[<<p, c>>] + 1]]
    /\ call' = [call EXCEPT ![p] = Call("send", c)]
    /\ UNCHANGED <<kernelVars, netVars, status, waiting_msg, recv_buffer, put, got>>

CallReceive(p, c) ==
    /\ Runs(c) /\ call[c].op = "none" /\ got[<<p, c>>] < MaxMsgs[<<p, c>>]
    /\ call' = [call EXCEPT ![c] = Call("receive", p)]
    /\ UNCHANGED <<kernelVars, netVars, status, waiting_msg, recv_buffer, buffer, put, got>>

-----------------------------------------------------------------------------
(* SENDMESSAGE *)

\* The call gets past its first test and finds the request of the consumer.
\* Otherwise it returns 0 and the task calls again.
SendEntered(p, c) ==
    /\ Runs(p) /\ call[p] = Call("send", c)
    /\ ~SendActive(Home[p])
    /\ Matching(Home[p], p, c) # {}

IsLocal(p, c) == RequestSlot(Home[p], p, c).requester_proc = Home[p]

\* The consumer is here: the message is copied to its page.
SendLocal(p, c) ==
    /\ SendEntered(p, c) /\ IsLocal(p, c)
    /\ remove_message_request(Home[p], p, c)
    /\ IF recv_buffer[c]
       THEN /\ ReleaseConsumer(p, c, buffer[p].num)
            /\ call' = [call EXCEPT ![c] = NoCall(c), ![p] = NoCall(p)]
            /\ put' = [put EXCEPT ![<<p, c>>] = buffer[p].num]
            /\ UNCHANGED kernel
       ELSE KernelError(Home[p]) /\ UNCHANGED <<waiting_msg, recv_buffer, call, put, got>>
    /\ UNCHANGED <<status, buffer, task_location, pending, netVars>>

\* Mutant of SendPS: the call returns while the DMNI reads the message.
SendPSReturns(p, c) ==
    /\ SendEntered(p, c) /\ ~IsLocal(p, c) /\ <<p, c>> \notin Circuit
    /\ remove_message_request(Home[p], p, c)
    /\ send_packet(Home[p], RequestSlot(Home[p], p, c).requester_proc,
                   Delivery(p, c, buffer[p].num))
    /\ call' = [call EXCEPT ![p] = NoCall(p)]
    /\ put' = [put EXCEPT ![<<p, c>>] = buffer[p].num]
    /\ UNCHANGED <<kernel, status, waiting_msg, recv_buffer, buffer, task_location, pending,
                   cs_request, cs_line, got>>

\* The consumer is remote and the pair communicates by packet switching: the
\* kernel programs the DMNI and spins until the packet has left the memory.
SendPS(p, c) ==
    /\ SendEntered(p, c) /\ ~IsLocal(p, c) /\ <<p, c>> \notin Circuit
    /\ remove_message_request(Home[p], p, c)
    /\ send_packet(Home[p], RequestSlot(Home[p], p, c).requester_proc,
                   Delivery(p, c, buffer[p].num))
    /\ kernel' = [kernel EXCEPT ![Home[p]] = "spin"]
    /\ call' = [call EXCEPT ![p] = NoCall(p)]
    /\ put' = [put EXCEPT ![<<p, c>>] = buffer[p].num]
    /\ UNCHANGED <<status, waiting_msg, recv_buffer, buffer, task_location, pending,
                   cs_request, cs_line, got>>

\* By circuit switching the kernel also waits for the PS send channel, which
\* is idle, and so returns at once. If the channel of the circuit is still
\* sending, the request is restored and the call returns 0.
SendCS(p, c) ==
    /\ SendEntered(p, c) /\ ~IsLocal(p, c) /\ <<p, c>> \in Circuit
    /\ cs_line[<<p, c>>].state # "sending"
    /\ remove_message_request(Home[p], p, c)
    /\ cs_line' = [cs_line EXCEPT ![<<p, c>>] =
                     [state |-> "sending", num |-> buffer[p].num]]
    /\ call' = [call EXCEPT ![p] = NoCall(p)]
    /\ put' = [put EXCEPT ![<<p, c>>] = buffer[p].num]
    /\ UNCHANGED <<kernel, status, waiting_msg, recv_buffer, buffer, task_location, pending,
                   ps_net, ps_send, cs_request, got>>

-----------------------------------------------------------------------------
(* RECVMESSAGE *)

Asked(c) ==
    /\ waiting_msg' = [waiting_msg EXCEPT ![c] = TRUE]
    /\ recv_buffer' = [recv_buffer EXCEPT ![c] = TRUE]

\* The request goes to the table of this kernel, by packet, or by wire.
AskLocal(p, c) ==
    /\ task_location[Home[c]][p] = Home[c]
    /\ insert_message_request(Home[c], p, c, Home[c])
    /\ UNCHANGED netVars

AskPS(p, c) ==
    /\ task_location[Home[c]][p] # Home[c] /\ <<p, c>> \notin Circuit
    /\ send_packet(Home[c], task_location[Home[c]][p], Request(p, c, Home[c]))
    /\ UNCHANGED <<message_request, cs_request, cs_line>>

AskCS(p, c) ==
    /\ task_location[Home[c]][p] # Home[c] /\ <<p, c>> \in Circuit
    /\ cs_request' = [cs_request EXCEPT ![<<p, c>>] = TRUE]
    /\ UNCHANGED <<message_request, ps_net, ps_send, cs_line>>

Ask(p, c) == AskLocal(p, c) \/ AskPS(p, c) \/ AskCS(p, c)

\* With the location of the producer unknown the task is blocked until a
\* TASK_RELEASE; a receive buffer already in use stops the kernel.
Receive(p, c) ==
    /\ Runs(c) /\ call[c] = Call("receive", p)
    /\ ~SendActive(Home[c])
    /\ IF task_location[Home[c]][p] = NoPE
       THEN /\ status' = [status EXCEPT ![c] = "BLOCKED"]
            /\ UNCHANGED <<kernel, waiting_msg, recv_buffer, message_request, netVars>>
       ELSE /\ UNCHANGED status
            /\ IF recv_buffer[c]
               THEN /\ KernelError(Home[c])
                    /\ UNCHANGED <<waiting_msg, recv_buffer, message_request, netVars>>
               ELSE Ask(p, c) /\ Asked(c) /\ UNCHANGED kernel
    /\ UNCHANGED <<task_location, pending, call, buffer, put, got>>

-----------------------------------------------------------------------------
(* EXIT: TASK_TERMINATED goes to the mapper and the TCB is freed. The id of
   the TCB stays: a later request to the task is still accepted here. *)

\* Mutant of Exit: the locations go with the first task of the application.
ExitClears(t) ==
    /\ Runs(t) /\ call[t].op = "none" /\ ~SendActive(Home[t])
    /\ ps_send' = [ps_send EXCEPT ![Home[t]] = Manager]
    /\ kernel' = [kernel EXCEPT ![Home[t]] = "spin"]
    /\ status' = [status EXCEPT ![t] = "FREE"]
    /\ task_location' = [task_location EXCEPT ![Home[t]] =
                           [u \in Task |-> IF AppOf[u] = AppOf[t] THEN NoPE ELSE @[u]]]
    /\ UNCHANGED <<message_request, pending, call, waiting_msg, recv_buffer, buffer,
                   ps_net, cs_request, cs_line, put, got>>

Exit(t) ==
    /\ Runs(t) /\ call[t].op = "none" /\ ~SendActive(Home[t])
    /\ ps_send' = [ps_send EXCEPT ![Home[t]] = Manager]
    /\ kernel' = [kernel EXCEPT ![Home[t]] = "spin"]
    /\ status' = [status EXCEPT ![t] = "FREE"]
    /\ task_location' =
         IF \E u \in Task \ {t} : /\ Home[u] = Home[t] /\ AppOf[u] = AppOf[t]
                                  /\ status[u] # "FREE"
         THEN task_location
         ELSE [task_location EXCEPT ![Home[t]] =
                 [u \in Task |-> IF AppOf[u] = AppOf[t] THEN NoPE ELSE @[u]]]
    /\ UNCHANGED <<message_request, pending, call, waiting_msg, recv_buffer, buffer,
                   ps_net, cs_request, cs_line, put, got>>

-----------------------------------------------------------------------------
(* Interrupt handlers, run when the kernel is not in a system call *)

\* MESSAGE_REQUEST: the producer is here, so the request is kept for its Send.
handle_message_request(d, pkt) ==
    insert_message_request(d, pkt.producer, pkt.consumer, pkt.requesting_processor)

\* MESSAGE_DELIVERY: the message is read into the buffer of the consumer.
handle_message_delivery(d, pkt) ==
    IF recv_buffer[pkt.consumer]
    THEN /\ ReleaseConsumer(pkt.producer, pkt.consumer, pkt.num)
         /\ call' = [call EXCEPT ![pkt.consumer] = NoCall(pkt.consumer)]
         /\ UNCHANGED kernel
    ELSE KernelError(d) /\ UNCHANGED <<waiting_msg, recv_buffer, got, call>>

PacketAt(s, d) == kernel[d] = "user" /\ ps_net[<<s, d>>] # <<>>

HandleRequest(s, d) ==
    /\ PacketAt(s, d) /\ Head(ps_net[<<s, d>>]).service = "MESSAGE_REQUEST"
    /\ ~SendActive(d)
    /\ PacketRead(s, d)
    /\ handle_message_request(d, Head(ps_net[<<s, d>>]))
    /\ UNCHANGED <<kernel, task_location, pending, taskVars, cs_request, cs_line, put, got>>

\* While the DMNI sends, a request is deferred; a full FIFO stops the kernel.
DeferRequest(s, d) ==
    /\ PacketAt(s, d) /\ Head(ps_net[<<s, d>>]).service = "MESSAGE_REQUEST"
    /\ SendActive(d)
    /\ PacketRead(s, d)
    /\ IF Len(pending[d]) < PENDING_SERVICE_TAM
       THEN pending' = [pending EXCEPT ![d] = Append(@, Head(ps_net[<<s, d>>]))]
            /\ UNCHANGED kernel
       ELSE KernelError(d) /\ UNCHANGED pending
    /\ UNCHANGED <<message_request, task_location, taskVars, cs_request, cs_line, put, got>>

HandleDelivery(s, d) ==
    /\ PacketAt(s, d) /\ Head(ps_net[<<s, d>>]).service = "MESSAGE_DELIVERY"
    /\ PacketRead(s, d)
    /\ handle_message_delivery(d, Head(ps_net[<<s, d>>]))
    /\ UNCHANGED <<message_request, task_location, pending, status, buffer,
                   cs_request, cs_line, put>>

\* Mutant of HandlePending: the service is taken from the FIFO and not handled.
PendingDropped(d) ==
    /\ kernel[d] = "user" /\ pending[d] # <<>>
    /\ ~SendActive(d) /\ ~CSSendActive(d)
    /\ pending' = [pending EXCEPT ![d] = Tail(@)]
    /\ UNCHANGED <<kernel, message_request, task_location, taskVars, netVars, put, got>>

\* Interrupt IRQ_PENDING_SERVICE, raised while no subnet of the DMNI sends.
HandlePending(d) ==
    /\ kernel[d] = "user" /\ pending[d] # <<>>
    /\ ~SendActive(d) /\ ~CSSendActive(d)
    /\ pending' = [pending EXCEPT ![d] = Tail(@)]
    /\ handle_message_request(d, Head(pending[d]))
    /\ UNCHANGED <<kernel, task_location, taskVars, netVars, put, got>>

\* Mutant of HandleCSRequest: the wire stays raised.
CSRequestKept(p, c) ==
    /\ kernel[Home[p]] = "user" /\ cs_request[<<p, c>>]
    /\ handle_message_request(Home[p], Request(p, c, task_location[Home[p]][c]))
    /\ UNCHANGED <<kernel, task_location, pending, taskVars, netVars, put, got>>

\* Interrupt IRQ_CS_REQUEST: one iteration of the loop over the wires.
HandleCSRequest(p, c) ==
    /\ kernel[Home[p]] = "user" /\ cs_request[<<p, c>>]
    /\ cs_request' = [cs_request EXCEPT ![<<p, c>>] = FALSE]
    /\ handle_message_request(Home[p], Request(p, c, task_location[Home[p]][c]))
    /\ UNCHANGED <<kernel, task_location, pending, taskVars, ps_net, ps_send, cs_line,
                   put, got>>

\* Interrupt of a CS subnet: the consumer is the one of the CTP.
HandleCSDelivery(p, c) ==
    /\ kernel[Home[c]] = "user" /\ cs_line[<<p, c>>].state # "idle"
    /\ cs_line' = [cs_line EXCEPT ![<<p, c>>] = IdleLine]
    /\ handle_message_delivery(Home[c], Delivery(p, c, cs_line[<<p, c>>].num))
    /\ UNCHANGED <<message_request, task_location, pending, status, buffer, ps_net, ps_send,
                   cs_request, put>>

\* TASK_RELEASE: the mapper gives the locations of every task of the application.
TaskRelease(t) ==
    /\ kernel[Home[t]] = "user" /\ status[t] = "BLOCKED"
    /\ status' = [status EXCEPT ![t] = "READY"]
    /\ task_location' = [task_location EXCEPT ![Home[t]] =
                           [u \in Task |-> IF AppOf[u] = AppOf[t] THEN Home[u] ELSE @[u]]]
    /\ UNCHANGED <<kernel, message_request, pending, call, waiting_msg, recv_buffer, buffer,
                   netVars, put, got>>

-----------------------------------------------------------------------------
(* The DMNI *)

\* The last word leaves the memory before the receiver reads the packet: the
\* packet fits in the buffers of the path, or it goes to the mapper.
PSSendEnds(s) ==
    /\ SendActive(s)
    /\ \/ ps_send[s] = Manager
       \/ /\ ps_send[s] # Manager
          /\ LET link == ps_net[<<s, ps_send[s]>>]
             IN  <<link[Len(link)].service, s>> \in Absorbed
    /\ ps_send' = [ps_send EXCEPT ![s] = NoPE]
    /\ UNCHANGED <<kernelVars, taskVars, ps_net, cs_request, cs_line, put, got>>

CSSendEnds(p, c) ==
    /\ cs_line[<<p, c>>].state = "sending"
    /\ cs_line' = [cs_line EXCEPT ![<<p, c>>].state = "sent"]
    /\ UNCHANGED <<kernelVars, taskVars, ps_net, ps_send, cs_request, put, got>>

\* The spinning kernel sees the DMNI idle and ends the system call.
SpinEnds(d) ==
    /\ kernel[d] = "spin" /\ ~SendActive(d)
    /\ kernel' = [kernel EXCEPT ![d] = "user"]
    /\ UNCHANGED <<message_request, task_location, pending, taskVars, netVars, put, got>>

-----------------------------------------------------------------------------
Init ==
    /\ kernel = [d \in PE |-> "user"]
    /\ status = [t \in Task |-> "BLOCKED"]
    /\ call = [t \in Task |-> NoCall(t)]
    /\ waiting_msg = [t \in Task |-> FALSE]
    /\ recv_buffer = [t \in Task |-> FALSE]
    /\ buffer = [t \in Task |-> [to |-> t, num |-> 0]]
    /\ message_request = [d \in PE |-> [i \in Slot |-> FreeSlot]]
    /\ task_location = [d \in PE |-> [t \in Task |-> NoPE]]
    /\ pending = [d \in PE |-> <<>>]
    /\ ps_net = [l \in Link |-> <<>>]
    /\ ps_send = [d \in PE |-> NoPE]
    /\ cs_request = [k \in Circuit |-> FALSE]
    /\ cs_line = [k \in Circuit |-> IdleLine]
    /\ put = [e \in Edge |-> 0]
    /\ got = [e \in Edge |-> 0]

EdgeStep(p, c) ==
    \/ CallSend(p, c) \/ CallReceive(p, c)
    \/ SendLocal(p, c) \/ SendPS(p, c) \/ SendCS(p, c)
    \/ Receive(p, c)

CircuitStep(p, c) ==
    HandleCSRequest(p, c) \/ HandleCSDelivery(p, c) \/ CSSendEnds(p, c)

LinkStep(s, d) ==
    HandleRequest(s, d) \/ DeferRequest(s, d) \/ HandleDelivery(s, d)

PEStep(d) == HandlePending(d) \/ PSSendEnds(d) \/ SpinEnds(d)

TaskStep(t) == TaskRelease(t) \/ Exit(t)

Next ==
    \/ \E e \in Edge : EdgeStep(e[1], e[2])
    \/ \E k \in Circuit : CircuitStep(k[1], k[2])
    \/ \E l \in Link : LinkStep(l[1], l[2])
    \/ \E d \in PE : PEStep(d)
    \/ \E t \in Task : TaskStep(t)

Spec == Init /\ [][Next]_vars

-----------------------------------------------------------------------------
(* Fairness: the scheduler gives every runnable task a slice in turn, an idle
   kernel takes its interrupts, and the NoC delivers. No task has to make a
   call, and no task has to exit. *)

\* The call of one producer: which of the three it is the edge decides.
Send(p, c) == SendLocal(p, c) \/ SendPS(p, c) \/ SendCS(p, c)

FairSpec ==
    /\ Spec
    /\ \A e \in Edge : WF_vars(Send(e[1], e[2])) /\ WF_vars(Receive(e[1], e[2]))
    /\ \A k \in Circuit : WF_vars(CircuitStep(k[1], k[2]))
    /\ \A l \in Link : WF_vars(LinkStep(l[1], l[2]))
    /\ \A d \in PE : WF_vars(PEStep(d))

-----------------------------------------------------------------------------
(* Properties *)

\* The type of every variable: one TCB per task, tables of fixed size, and the
\* records the handlers exchange.
TypeOK ==
    /\ kernel \in [PE -> {"user", "spin", "error"}]
    /\ status \in [Task -> {"BLOCKED", "READY", "FREE"}]
    /\ call \in [Task -> [op : {"none", "send", "receive"}, peer : Task]]
    /\ waiting_msg \in [Task -> BOOLEAN]
    /\ recv_buffer \in [Task -> BOOLEAN]
    /\ buffer \in [Task -> [to : Task, num : Nat]]
    /\ message_request \in [PE -> [Slot -> UsedSlot \cup {FreeSlot}]]
    /\ task_location \in [PE -> [Task -> PE \cup {NoPE}]]
    /\ pending \in [PE -> Seq(Packet)]
    /\ ps_net \in [Link -> Seq(Packet)]
    /\ ps_send \in [PE -> PE \cup {Manager, NoPE}]
    /\ cs_request \in [Circuit -> BOOLEAN]
    /\ cs_line \in [Circuit -> [state : {"idle", "sending", "sent"}, num : Nat]]
    /\ put \in [Edge -> Nat]
    /\ got \in [Edge -> Nat]

\* The consumers named by the packets of a family of queues, and that no two
\* packets name the same one.
ConsumersIn(q) == {c \in Task : \E l \in DOMAIN q : \E i \in DOMAIN q[l] : q[l][i].consumer = c}
OnceIn(q) ==
    \A l, m \in DOMAIN q : \A i \in DOMAIN q[l], j \in DOMAIN q[m] :
        q[l][i].consumer = q[m][j].consumer => l = m /\ i = j

\* Where the request of a waiting consumer, or its answer, may be.
InNet     == ConsumersIn(ps_net)
InPending == ConsumersIn(pending)
InTable   == {c \in Task : \E d \in PE : \E i \in Slot : message_request[d][i].requester = c}
OnWire    == {c \in Task : \E k \in Circuit : cs_request[k] /\ k[2] = c}
OnLine    == {c \in Task : \E k \in Circuit : cs_line[k].state # "idle" /\ k[2] = c}

Waiting == {c \in Task : waiting_msg[c]}

TableOnce ==
    \A d, e \in PE : \A i, j \in Slot :
        /\ message_request[d][i].requester # NoTask
        /\ message_request[d][i].requester = message_request[e][j].requester
        => d = e /\ i = j
WireOnce == \A k, h \in Circuit : cs_request[k] /\ cs_request[h] /\ k[2] = h[2] => k = h
LineOnce ==
    \A k, h \in Circuit :
        cs_line[k].state # "idle" /\ cs_line[h].state # "idle" /\ k[2] = h[2] => k = h

PairwiseDisjoint ==
    /\ InNet \cap InPending = {} /\ InNet \cap InTable = {}
    /\ InNet \cap OnWire = {}    /\ InNet \cap OnLine = {}
    /\ InPending \cap InTable = {} /\ InPending \cap OnWire = {} /\ InPending \cap OnLine = {}
    /\ InTable \cap OnWire = {}  /\ InTable \cap OnLine = {}
    /\ OnWire \cap OnLine = {}

\* Every waiting consumer has one request or one answer in the system, and
\* nobody else has: no request is dropped by a full table, lost between two
\* kernels, deferred twice, or answered twice.
RequestConservation ==
    /\ Waiting = InNet \cup InPending \cup InTable \cup OnWire \cup OnLine
    /\ PairwiseDisjoint
    /\ OnceIn(ps_net) /\ OnceIn(pending) /\ TableOnce /\ WireOnce /\ LineOnce

\* No kernel enters one of its endless error loops: a delivery without a
\* receive buffer, a local copy without one, a full FIFO of pending services.
NoErrorLoop == \A d \in PE : kernel[d] # "error"

\* A released task finds the location of every task of its application, until
\* it exits: the exit of a neighbour does not clear what it still needs, and
\* Receive never blocks it for good.
PeersLocated ==
    \A t, u \in Task : status[t] = "READY" /\ AppOf[u] = AppOf[t]
                       => task_location[Home[t]][u] = Home[u]

\* The memory a DMNI still reads holds the message that was sent: the producer
\* does not overwrite it (task_communication.c:448), for packet switching.
PSMessageIntact ==
    \A s, d \in PE :
        ps_send[s] = d =>
            LET pkt == ps_net[<<s, d>>][Len(ps_net[<<s, d>>])]
            IN  pkt.service = "MESSAGE_DELIVERY"
                => buffer[pkt.producer] = [to |-> pkt.consumer, num |-> pkt.num]

\* The same for the messages sent through a circuit.
CSMessageIntact ==
    \A k \in Circuit : cs_line[k].state = "sending"
                       => buffer[k[1]] = [to |-> k[2], num |-> cs_line[k].num]

\* When producer and consumer are both in their calls, the message passes.
Answered ==
    \A e \in Edge :
        call[e[1]] = Call("send", e[2]) /\ call[e[2]] = Call("receive", e[1])
            ~> call[e[2]] # Call("receive", e[1])

wants == [c \in Task |-> IF waiting_msg[c] THEN call[c].peer ELSE NoTask]

R == INSTANCE Rendezvous WITH wants <- wants, put <- put, got <- got

\* The kernels implement the promise of Send and Receive.
ImplementsRendezvous == R!Spec

=============================================================================
