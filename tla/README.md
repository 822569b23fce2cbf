# Formal verification of MEMPHIS

TLA+ models of the MEMPHIS many-core platform (kernel, management tasks and
hardware of this repository), TLC configurations that check them on small
systems, and proofs checked by TLAPS for systems of any size.

    tlc -config TaskCommunication_messages.cfg MCTaskCommunication.tla
    tlapm TaskCommunicationProofs.tla

## 1. The system

A MEMPHIS chip is a mesh of processing elements (PEs). Each PE has a processor,
a local memory, a packet-switching (PS) router, circuit-switching (CS) routers
and a network interface (DMNI). The same kernel runs on every PE. User
applications are graphs of tasks that call `Send` and `Receive`; the system is
managed by tasks too, the management application (MA): global mapper, local
mappers, QoS manager and NoC manager.

| Component | State it keeps | Operations | Talks to |
|---|---|---|---|
| Inter-task communication (`task_communication.c`) | `message_request` table, per task `recv_buffer`, `waiting_msg` | SENDMESSAGE, RECVMESSAGE, MESSAGE_REQUEST, MESSAGE_DELIVERY | the other kernels by packets and wires, DMNI, CTP table |
| Dispatcher (`kernel.c`) | `current`, the flag that schedules after a call | system calls, interrupts | all kernel modules |
| Pending services (`pending_service.c`) | ring of packet headers, `add_fifo`, interrupt register | add, get next | dispatcher |
| Packet slots (`packet.c`) | two header slots used in turn | `get_service_header_slot`, `send_packet`, `read_packet` | DMNI |
| TCBs (`TCB.c`) | id, page, registers, `add_ctp`, `proc_to_migrate` of each local task | search, add, free | all kernel modules |
| Scheduler (`task_scheduler.c`) | status, period, deadline, slack of each task | `LST`, `real_time_task`, `update_real_time` | dispatcher |
| Mapping enforcer (`enforcer_mapping.c`) | `task_location` table | allocate, release, terminate a task | local mapper |
| Migration enforcer (`enforcer_migration.c`) | `proc_to_migrate` | moves code, TCB, locations, requests, stack, data | the kernel of the target PE |
| SDN enforcer (`enforcer_sdn.c`) | CTP table (producer, consumer, subnet, enabled) | switch a pair between PS and CS | QoS manager, both kernels |
| Monitor (`monitor.c`) | windows | slack, latency and deadline reports | MA |
| Application injector (`app_injector.cpp`) | the next line of `appstart.txt` | asks for an application, sends its descriptor and the code of its tasks | global mapper, local mappers, kernels |
| Global mapper | free resources per cluster and in total, one pending request | new application, allocated, terminated | injector, local mappers |
| Local mapper, reclustering | applications, pages of its PEs, a loan round | map, release, borrow and lend pages | kernels, other local mappers, injector |
| QoS manager, NoC manager | paths, token, queues | local and global path search, release | kernels, other NoC managers |
| PS router (`hardware/sc/pe/PS_router`) | an input queue per port, the connections of inputs to outputs | store, ask, connect, pass, release | its neighbours, DMNI |
| DMNI, CS router | one send and one receive channel per subnet, a register per port | move flits | each other |
| User applications (`src/applications`) | their data | `Send`, `Receive`, `exit` in a fixed order | each other, through the kernel |

What is hard here:

* **Concurrency.** Kernels run in parallel and exchange packets; each kernel is
  sequential and is not preempted, but takes its interrupts in any order between
  system calls. It also *spins* on its own DMNI with the interrupts masked.
* **Memory shared with hardware.** The DMNI reads messages and packet headers
  out of the memory while the processor continues.
* **Deferred work.** Requests are kept in a table until the producer sends;
  packets that cannot be handled are put in a FIFO and handled later; a change
  of network and a migration wait for the end of a `Receive`.
* **Tables at their limits.** A full FIFO, location table or CTP table is an
  endless loop; a full request table drops the request without a word.
* **Protocols of several managers.** The loans between clusters and the token of
  the NoC managers are agreements among concurrent tasks.
* **Things that move.** A pair of tasks changes its network, and a task its PE,
  while messages and requests are under way; nobody is told but those concerned.
* **Two edges of a clock.** The queues of a router decide on one edge what they
  do on the other; its switch control works several cycles behind the queues.

There are no crashes and no lost packets: the NoC is lossless and keeps the order
of the packets between two PEs, and nothing is persistent.

What makes each component correct:

* *communication*: a message is accepted only for a consumer that waits for it
  and arrives once; requests are neither lost nor answered twice; a kernel never
  enters an error loop; memory the DMNI reads is not written; matching calls end;
* *pending services*: order, no loss, interrupt on while one waits;
* *mapping enforcer*: a running task can locate its peers until it exits;
* *SDN enforcer*: no message is lost or read from the wrong network while a pair
  changes network; every CTP, raised wire, circuit message and order belongs to a pair
  that still holds its path; every order is concluded;
* *migration*: each request is in one place, from which it gets to the task; the
  locations lead to the task, it is in one place and runs only when it is complete;
* *local mapper*: pages are neither lost nor given twice, every application is
  loaded in the end; *global mapper*: its counts agree with the local mappers;
* *NoC manager*: one token; a circuit is complete when its owner hears of it; no
  port is lost; the borders a controller routes by are true; a set-up ends;
* *scheduler*: a ready task of the right class runs, slack stays in its range;
* *router*: no flit is lost, an output passes whole packets of one input at a
  time, and every packet passes;
* *applications*: no tasks wait for each other in a circle, and each message has
  the words its consumer reads.

## 2. Modules

### TaskCommunication (the core)

One module for the life of a message through all the kernels it crosses.

| Model | Code |
|---|---|
| `message_request[d]`, `insert_message_request`, `remove_message_request` | the array of `task_communication.c` and its functions, first free slot first; a full table drops the request, as callers ignore the result |
| `waiting_msg`, `recv_buffer`, `status` | fields of TCB and `Scheduling`; `FREE` is a task that has exited |
| `call` | which `SystemCall` the task repeats: `Send` and `Receive` are `while(!SystemCall(...))` loops (`api.h`). A call that returns 0 changes nothing and is a stuttering step |
| `buffer` | what the producer last wrote in its message |
| `pending[d]` | the pending services, a sequence bounded by `PENDING_SERVICE_TAM` (module PendingService shows that the ring behaves so) |
| `ps_net`, `ps_send` | packets between two PEs in order; the PE the PS channel of the DMNI sends to |
| `cs_request`, `cs_line` | the request wire and the data of each circuit |
| `kernel[d]` | `user`, `spin` (waits for the DMNI inside a call, interrupts masked), `error` (an endless loop) |
| `SendLocal`, `SendPS`, `SendCS` | the three ways through `send_message` |
| `Receive` | `receive_message`: block, stop on a buffer in use, or ask by table, packet or wire |
| `HandleRequest`, `DeferRequest`, `HandleDelivery`, `HandlePending`, `HandleCSRequest`, `HandleCSDelivery` | the branches of `OS_interruption_handler` with the handlers they call |
| `Exit`, `TaskRelease` | EXIT and TASK_RELEASE |
| `PSSendEnds`, `CSSendEnds`, `SpinEnds` | the last word leaves the memory; the spin sees it |

`Rendezvous` is what it promises: a message is accepted only when its consumer
waits for that producer, and it arrives before that consumer goes on.
`ImplementsRendezvous` is the refinement, with `wants` read off `waiting_msg`
and the retried call.

Choices a reader should know:

* The scheduler is any choice of a runnable task. Interrupt priorities are
  abstracted: any pending interrupt may be taken next.
* A handler is one step; the kernel cannot be interrupted. The two exceptions
  are the waits for the DMNI that can really last, after a PS delivery and after
  TASK_TERMINATED.
* `Absorbed` says which packets fit in the buffers of a path. A packet that does
  not fit leaves the memory only when its receiver reads it.
* The loop over the request wires takes one wire per step; the wires are
  independent of each other and acknowledged as they were read.
* No task moves: the by-pass of requests and the moves at the end of a `Receive`
  are in TaskMigration.
* The set of circuits is fixed during a run; switching is in CtpSwitching.
* `Exit` frees the task and its locations in the step that starts the spin; the
  code does so after it. Nothing runs on that PE in between, and no other PE
  reads either.
* `requester_proc` of a freed slot is reset; the code leaves it, and never reads
  it again.
* The receiver of TASK_TERMINATED is a management task on a PE outside the
  model, which always reads.
* A request to a producer that has exited stays in the table, because the TCB
  keeps its id; its consumer waits for ever. That is the application's affair.

### PendingService, ServiceQueue

`PendingService` is the ring of `pending_service.c` as it is: the array, two
indices, `add_fifo`, the register behind the interrupt, and the pointer
`get_next_pending_service` returns, which is read after the indices have moved.
`ServiceQueue` is a bounded queue. `ImplementsQueue` reads the queue off the ring
(`Count`, `Place`) and the service off the pointer.

### MappingGrid, DiamondSearch, LocalMapper, AppMapping

The way of an application from `appstart.txt` to the end of its last task, with
everybody who has a say in it. The modules build on each other:

* `MappingGrid` has what only computes: PEs and clusters, distances, the clusters
  a round of loans asks (`AtLevel`), and the searches of a PE.
* `DiamondSearch` is the loop of `diamond_search_initial` step by step. The
  mapper's model uses its result in closed form, and the run walk shows that the
  two agree.
* `LocalMapper` has the handlers of `local_mapper.c`, `reclustering.h`,
  `resoucer_controller.h`, `processors.h` and `application.h`, as operators from
  the state of a mapper to its state afterwards, with the messages sent in `out`.
  An endless loop of the code is `error`, and nothing follows it.
* `AppMapping` has the variables and the steps, and composes the mappers with
  global mapper, injector and kernels.

| Model | Code |
|---|---|
| `lm[c].page`, `free_resources` | the tasks in the pages of each processor, and their count |
| `lm[c].app`, `pending_app_to_map` | `applications[]` with place, lender and state of each task |
| `lm[c].reclustering` | the round of loans: its task, level, answers awaited, best PE so far |
| `gm.clusters`, `total`, `pending` | `clusters[].free_resources`, `total_mpsoc_resources`, `pending_app_req` |
| `MapperReceives`, `MapperHearsKernel` | one turn of the loop of `main`: `handle_message`, then `handle_pending_application` when the NoC is quiet |
| `GlobalMapperReceives` | `handle_new_app_req`, `handle_app_allocated`, `handle_app_terminated` |
| `InjectorAsks`, `InjectorSendsApp`, `InjectorMappingComplete`, `LoadTask` | the machines of the injector |
| `LoadTask`, `TaskExits` | TASK_ALLOCATION with its TASK_ALLOCATED, EXIT with its TASK_TERMINATED |
| `net[from][to]`, `kmsg` | messages among the management tasks, in order between two of them; messages of the kernels |

Choices a reader should know:

* It begins after the boot: `NewMapper`, `InitialClusters` and `InitialTotal` are
  what `map_management_tasks` and the initialisation leave, in the places `MaTask`.
* `Quiet` is what the test of line 406 of `local_mapper.c` may find. Both values
  are always possible in the code; {TRUE} is the case of a NoC that is never busy.
* TASK_RELEASE and the code of a task take no time of their own: `MapperStep`
  releases the tasks with the step that sends the message, `LoadTask` sends code
  and allocates. In between the kernel does nothing with the task.
* A slot of `applications[]` keeps the old states of its tasks when it is freed;
  they are rewritten before they are read, and the model starts them anew.
* A page given back to the cluster that waits for a loan itself is not used by
  its waiting application: only other clusters are asked, as in the code.
* `BootAssumption`: the index of `get_cluster_index_from_PE` may be larger than
  the array of clusters (in a tall system whose clusters are few in a column), and the
  code then decrements whatever lies behind it. The model is of the other systems.

### CtpSwitching

How a communicating task pair (CTP) enters and leaves a circuit, as ordered by
the QoS manager, while its tasks go on sending and receiving.

| Model | Code |
|---|---|
| `ctp[d]`, `get_ctp_ptr`, `add_ctp_entry`, `remove_ctp_entry`, `get_subnet` | the table of `enforcer_sdn.c` and its functions. A removed slot keeps its tasks, as in the code |
| `add_ctp`, `remove_ctp` | the words of the consumer's TCB that keep an order |
| `add_ctp_online`, `remove_ctp_online`, `check_ctp_reconfiguration` | the same functions, called when an order comes and when a message has |
| `SetConsumer`, `SetProducer`, `ProducerAck` | the three cases of `handle_dynamic_CS_setup` |
| `Receive`, `SendPS`, `SendCS`, `HandleRequest`, `DeferRequest`, `HandlePending`, `HandleWire`, `HandleDelivery`, `HandleCSDelivery` | what TaskCommunication has in detail, as far as it reads the table |
| `handle_SDN_ack`, `CTP_set_PS_switching`, `Concluded` | `qos_manager.c`; when it orders is any choice |
| `path`, `PathsTo`, `PathsFrom` | the circuits the NoC manager has configured: where a wire and a line of a subnet lead |
| `PathFails`, `Garbage` | the NoC manager may answer that it found no path; what stands in the word of the subnet then |

The DMNI and its waits are those of TaskCommunication: here a packet leaves when
it is sent, and a request may be deferred at any time. The pairs under orders
have different consumers (`SystemAssumption`): the TCB has one word for an order.
The table has two slots per subnet, as `MAX_CTP` has (`enforcer_sdn.c:23`). Both modules implement the same `Rendezvous`.

### PathSearch, NoCManager

`noc_manager.c` with `noc_manager.h`. `PathSearch` has what only computes:
Hadlock's search, the retrace of the path found, and the walk along a path that
is released. The code has these once for routers and once for clusters; here
they take the set of neighbours that can be entered as a parameter.

| Model | Code |
|---|---|
| `ctl[c]` | the globals of the controller: status, request, counters, queues, borders, utilization, `subnet_selector` |
| `cs_inport` | the array of the same name: where each input port leads |
| `token`, `token_fifo` | of the coordinator, cluster 0 |
| `Turn`, `main_loop` | one turn of the loop of `main`: the handler of the message, then one request out of a queue |
| `Configure`, `GiveBack` | `retrace` with its router configuration, `CS_connection_release` |
| `CS_connection_setup`, `detailed_routing`, `global_routing` | the same functions |
| `send_update_border_request` ... `handle_local_release_ack` | the same functions, as operators from the state of a turn to the next. An endless loop is `halt` |
| `request_SDN_path`, `request_SDN_path_release`, `client` | a requester: asks for its pair, knows the answer, may give the path back |

* `data3` is word 3 of the buffer of received messages. `LOCAL_RELEASE_ACK` has
  three words, but its handler reads the fourth: `word3` says what each message
  leaves there.
* `main_loop` has two results for an idle controller: while the DMNI sends, no
  request is taken.
* The second `ReceiveService` of the loop, for a controller that is not idle, is
  `at = "second"`: after it no request is looked for.
* `NoCAssumption`: `detour` and `plist` are arrays of the size of a cluster, used
  for the grid of clusters as well.
* The answers of a turn are heard at once. Faults of links (`set_fault`,
  `NI_STATUS`) are not modelled.

### TaskMigration

The seven services of `handle_migration`, the three callers of
`migrate_dynamic_memory`, and the by-pass of requests, for the tasks of one
application.

| Model | Code |
|---|---|
| `tcbs[d]` | the TCBs of a PE, by page: `id`, status, `waiting_msg`, `proc_to_migrate`; `parts` is what of the task has arrived |
| `searchTCB`, `search_free_TCB` | the same functions; an exited task keeps its id |
| `migrate_dynamic_memory`, `MigrationPackets` | the packets in their order, TASK_MIGRATED to the mapper, the freed TCB and the location that leads on |
| `handle_task_migration` | the code goes at once, the rest unless the task waits |
| `ReleaseConsumer` | the end of a Receive, by `SendLocal` or by `HandleDelivery`, where a kept order is carried out |
| `HandleCode`, `HandlePart` | the handlers of the new PE; `handle_migration_TCB` makes a real-time task READY |
| `handle_message_request` | a request for a task that is not here is passed on |
| `Defer`, `HandlePending` | MESSAGE_REQUEST and TASK_MIGRATION while the DMNI sends |
| `Exit` | EXIT with `clear_app_tasks_locations` |
| `OrderMigration`, `MigrationReported` | the mapper, which is not in the repository (external): one order at a time for each task |

Here each task has its `Program`, so that `put`, `got` and `wants` of `Rendezvous` are
read off the place where each task is.

### Applications, ApplicationRun

`Applications` has the tasks of thirteen applications, one definition per
program: the calls of `Send` and `Receive` its `main` makes, in order, in loops,
with the words of each message. `ApplicationRun` runs one application over what
the kernel promises (the steps of `Rendezvous`): a Send waits for its consumer,
a Receive for its message. Computation between the calls is left out, and no
application lets it decide what is called next, except for counts that are constants of
its headers.

For a Receive, `least` is the fewest words the task reads of the message and
`most` the most it has room for.

### Router

The packet-switching router, cycle by cycle: `Pos` is the rising edge, `Neg` the
falling one. Processes that are sensitive to an edge are conjuncts of it and read
the signals as they were; combinational processes are operators.

| Model | Code |
|---|---|
| `buffer_in`, `first`, `last`, `tem_espaco_na_fila` | the ring of a queue and whether it takes flits (`queue.cpp`) |
| `in_proc_FSM`, `in_proc_updPtr` | room decided on `Pos`, flit stored on `Neg` |
| `EA_fila`, `h`, `data_av`, `sender`, `counter_flit`, `out_proc_FSM` | the machine that asks, sends header and payload, and ends |
| `EA`, `controle_comb`, `controle_sequ`, `prox` | the switch control and its round robin (`switchcontrol.cpp`) |
| `mux_in`, `mux_out`, `free` | connections; given back one edge after `sender` falls |
| `data_ack`, `upd_tx` | the crossbar (`router_cc.cpp`) |
| `Upstream`, `Downstream` | the neighbours: flits of whole packets with pauses, room that comes and goes (external) |

A flit is its packet and its place in it. The payload is never looked at, except
by a queue that takes it for a length (`Word`). Reset and the traffic statistics
are left out.

### Instances and proofs

`MCTaskCommunication`, `MCAppMapping`, `MCCtpSwitching`, `MCNoCManager`,
`MCTaskMigration` and `MCRouter` are the instances for TLC;
`TaskCommunicationProofs`, `CtpSwitchingProofs`, `TaskMigrationProofs`,
`NoCManagerProofs`, `PendingServiceProofs`, `DiamondSearchProofs` and `RouterProofs` are the proofs of section 4; `QueueLemmas` has what they need to know about families of queues.

### How the modules fit together

`Rendezvous` is the contract between kernel and tasks. Below it,
`TaskCommunication` implements it with requests, deliveries and the DMNI,
`CtpSwitching` while the network of a pair changes, `TaskMigration` while the tasks
move. Above it, `ApplicationRun` runs the applications on nothing but the
contract. `TaskCommunication` takes its pending services as a queue, which
`PendingService` implements (`ServiceQueue`), and its links as ordered and lossless,
which is what `Router` shows of one router. `CtpSwitching` takes the circuits as
disjoint paths that are complete: `NoCManager` shows that they are. `AppMapping`
takes the search of a PE in closed form, which `DiamondSearch` implements.

## 3. Runs

| Run | Instance | Shows |
|---|---|---|
| messages | 2 PEs, 4 tasks: a-c (circuit), b-c and d-b (packets), a-b (inside a PE), 2 messages to c on each edge; deliveries of PE 1 longer than the buffers of the NoC | RequestConservation, NoErrorLoop, PeersLocated, PSMessageIntact, Answered, refinement |
| ring | 3 packets, an array of 4 | InterruptIffPending, refinement |
| walk | a cluster of 3 x 2 that is not at the origin, all begins, all sets of free PEs | FindsNearest, CountsOnce |
| mapping | 3 clusters of 2 PEs with 2 pages, applications of 4, 3 and 1 tasks for 6 pages, a NoC that may be busy | PagesTrue, LoansInOrder, OnlyFullClusterStops, NeverOverbooked, AccountsReturn, AllApplicationsRun |
| switching | 2 PEs, two pairs with one producer under orders, a third pair with the consumer of one of them, 2 subnets | NoMessageLost, NoErrorLoop, PathIdleWhenReturned, SwitchesBetweenMessages, OrdersConclude, refinement |
| noc | 4 clusters of 2 x 2 routers, 1 subnet, 3 pairs | TokenHeldOnce, NoErrorLoop, PathsComplete, Accounts, BordersTrue, SetupEnds |
| migration | 3 PEs, a pipeline of 3 tasks, 3 moves | NoErrorLoop, TasksWhole, LocationsLead, RequestFollowsProducer, OrdersEnd, refinement |
| applications | VOPD, MWD, MPEG4, synthetic, communication, prod_cons, mpeg, audio_video, dtw, aes, quicksort, matrix, fixe | LengthsAgree, AllTasksExit |
| router | a router at the left border, packets of EAST and of its own PE to one output, queues of 5 | NeverFull, WholePackets, OwnOutput, PacketsPass |
| overwrite | messages, with short messages | CSMessageIntact fails (below) |
| cleared | migration, with a task that exits on a PE another one came by | NoErrorLoop fails (below) |
| nopath | switching, with a path search that may fail | NoMessageLost fails (below) |

**Bounds.** *messages*: two messages to the task that receives through the
circuit and by packets, so that the second meets whatever the first left in
tables, buffers and lines. Two PEs: a protocol step never involves more than a
producer and a consumer, and both directions of one pair of PEs are in use, with
other edges through a circuit and inside one PE. Table and FIFO have exactly one
slot per edge that leaves PE 1, so that one request too many would be dropped
or would stop the kernel. *ring*: an array of 4 wraps several times, and is seen
full, empty and wrapped with every index.

*mapping*: three clusters in a row are the smallest system with a middle, with two
distances and with two lenders for one round. Two PEs of two pages each, most of
them in use by the management tasks, make six pages: the first two applications have to
borrow. They see a static place, offers of both neighbours of which one is given
back, refusals followed by the second level, a full cluster, and a request that
waits in the global mapper. *walk* is of one cluster, but from every PE and for every
set of free ones.

*switching*: `MaxMsgs` is one message of each pair; the orders are not bounded, so
that a switch meets every stage of that message, and its pair leaves and enters a circuit before, during and
after it. Two subnets and four slots: the second pair finds the table with the slots
of the first, used, freed and used again. *noc*: one request for each pair.
One subnet has the three circuits compete for the same ports: a search is refused half-way and
repeated over the other clusters, the token is waited for, a release frees what the next one needs. The
far pair crosses three clusters, so that one of them has borders on both sides. The searches,
with retrace and walk, are evaluated on every set of taken ports that the three pairs make.
*migration*: the source moves once and the filter twice, in
with the sink and possibly back, so that a PE is seen that knows nothing of a task,
one the task left and one it returned to; every hop of a request over such PEs occurs.
No two tasks leave one PE for two others: the links of the model hold any number of
packets, and a request sent after the second task could arrive before the code of the first. In the NoC
the packets of a task (code, TCB, stack, data) are longer than the buffers of a path,
so that the first has mostly arrived when the kernel turns to the second.
*router*: queues of 5 are the smallest that open again; an output is
asked for by two inputs, and one input has packets for two outputs. One of the
neighbours pauses between flits, the other, downstream, runs out of room at any time.
*applications* is the whole of each program, with all its rounds.

Deadlock checking is off where the system really may stop: when the finite programs of
the tasks have ended (messages, mapping, migration, applications, noc), tasks may also
wait for each other in a circle (messages, switching), and a kernel with a full ring
stops by design (ring).

**Fairness.** `TaskCommunication` asks weak fairness of the system calls of a task
that makes them, of the interrupts, and of the DMNI. The scheduler turns round robin
over the best-effort tasks, an idle kernel takes its interrupts, and hardware
does not stop. Nothing is asked of `CallSend`, `CallReceive`, `Exit` and
`TaskRelease`: no task has to do anything. Weak fairness is enough because the
program of the tasks is finite (`MaxMsgs`): a `Send` is not disabled by the
traffic of others infinitely often. Real-time tasks have priority over
best-effort ones in `LST`; that one may starve the other is not modelled.
`AppMapping` asks weak fairness of injector, global mapper and the end of the
tasks, and that each mapper goes on hearing each of its peers: two mappers may
exchange requests and refusals for ever, and the queue of a kernel takes the
messages of all senders. Tasks are assumed to end, which is what a waiting
application waits for. `CtpSwitching` asks it of the Sends of each pair, of each
link and of each interrupt; nobody has to receive or to order a change.
`NoCManager` asks only that some controller receives while one can, and that some
handler ends while one runs. `TaskMigration` asks it of each task, link and
kernel; the mapper has to order nothing. `ApplicationRun` asks that the system goes on while a
call can return. The clock of `Router` runs, a packet that has begun
goes on in the end, and room comes back: both are the same promise of the neighbour, which
is a router of the same kind or a DMNI whose kernel reads.

**Disagreements between comments and code**, shown by a run:

* *overwrite*: the wait of `task_communication.c:449` is there so that "the
  producer task" does not overwrite "the send_buffer before message is sent" (448),
  but it waits for `PS_SUBNET`. A message sent through a circuit is not protected.
* *cleared*: a request for a task without a TCB here "means that task was migrated to
  another PE" (265) and is passed on. EXIT clears the locations when the last task
  of the application on the PE ends (`kernel.c:75`), also the one that leads after
  a task that came by: the next request for it stops the kernel.
* *nopath*: the protocol of `enforcer_sdn.c:104` is to "ensure that no message is
  lost". The QoS manager prints the success of the path search (`qos_manager.c:53`)
  and orders the switch in any case.

Seen while modelling, without a run of their own:

* Two kernels that send deliveries longer than the buffers of the path to each
  other both spin at `task_communication.c:449`, with interrupts masked, for ever.
  In messages only one of the two has long messages. The handlers of
  `enforcer_sdn.c` wait in the same way (384), for short packets.
* A round of loans at a level where no cluster lies (the middle of a row) asks
  nobody, and stays active for ever (`reclustering.h:375`).
* In a full cluster where something runs, the search begins at PE -1, whose free
  pages are asked for, and that never returns (`resoucer_controller.h:147`).
  `OnlyFullClusterStops` says that nothing else stops a mapper.
* `get_cluster_index_from_PE` takes x from y and divides by the number of clusters
  (`cluster_controller.h:74`): the books of the global mapper may name a full cluster as the
  freest. With more rows of PEs than clusters in a column the index may leave the
  array (77), which `BootAssumption` excludes.
* An application that waits is looked at only just after a message, if the NoC is quiet
  then (`local_mapper.c:406`). After the last message that is the only chance:
  `AllApplicationsRun` leaves that state out by name (`WorkLeft`).
* A place given after the first task without one keeps no page
  (`resoucer_controller.h:151`); seven words per task are written in a message of
  100 (`local_mapper.c:91`). Neither happens with the applications here.
* The last acknowledgement of a release across clusters is marked by a word that is
  not sent (`noc_manager.c:1673`, read at 1456). Its receiver finds what an earlier
  message left there, by chance 1. Otherwise the release never ends, the token is
  kept, and the requests behind it wait for ever. `SetupEnds` therefore speaks of a master
  that sets up a path, and not of the requests that never get the token.
* "Set itss own utilization" (`noc_manager.c:1316`) adds to what was there before,
  so that a controller that was master before counts itself several times.
* Through the circuit a message may arrive before the acknowledgement of the order
  to enter it, against the comment of `enforcer_sdn.c:282`. Nothing goes wrong: the
  consumer reads it by the slot, enabled or not.
* A second order for a consumer that waits overwrites the first
  (`enforcer_sdn.c:324`).
* TASK_MIGRATED is sent by the old PE when the last packet of the task leaves, not
  when the task has arrived. A mapper that orders the next move at once meets a PE without
  the task, which stops (`enforcer_migration.c:521`): `OrderMigration` waits until
  the task has arrived, which the code gives a mapper no means to know.
* A migrated task with a period is READY with its TCB, before its stack and data have come
  (`enforcer_migration.c:342`): `TasksWhole` fails when `RealTime` has a task that moves.
* `adpcm_dec.c:612` sends `COMPRESSED_SAMPLES` words, of which FIR filters twice as many:
  `LengthsAgree` excepts FIR (`ShortFor`). `aes_master.c:133` gives one slave one
  block more than line 75 does; the slaves of the matrix application add to an array
  they never set to 0. These are results, not messages.
* In the router, two inputs that keep an output busy and the polling of a third can fall into step, so that
  the third is looked at only when the output is taken (`switchcontrol.cpp:212`):
  `PacketsPass` is checked with two inputs. A packet whose output is the port it came in by
  (a task that writes to its own PE through the NoC) is never acknowledged
  (`router_cc.cpp:175`); the kernel never sends one. A queue of 4 closes at two flits, which
  is where it is to open again. A packet without payload would have its next
  flit taken for a length; every packet of the kernel has one.

## 4. Proofs

`TaskCommunicationProofs` proves, for every finite set of PEs and tasks, every
task graph inside the applications and every set of circuits:

* `TypeCorrect`: Spec => []TypeOK
* `RequestsConserved`: Spec => []RequestConservation
* `KernelsNeverFail`: Spec => []NoErrorLoop
* `PeersStayLocated`: Spec => []PeersLocated

under `SystemAssumption` (the shape of the instance) and `CapacityAssumption`:
table and FIFO of a PE have a slot for each edge that leaves its tasks. The first
is how `REQUEST_SIZE` is computed; the second holds of the constant 20 only for
small systems, see the hazard of `pending_service.c:37`.

The four do not hold by themselves. A request cannot be dropped because a slot is
free; a slot is free because each used one belongs to a different edge of the PE;
that is because no consumer has two requests; that in turn needs that a delivery
always finds its consumer waiting. The inductive invariant `IInv` joins the four
with what each place may contain: `NetShape` (a request travels from the
consumer's PE to the producer's and a delivery back, along an edge), `PendingShape`,
`TableShape`, `WaitShape` (a consumer waits exactly when its buffer is registered,
in a Receive). The central lemmas say how the sets of consumers found in a
family of queues change when a packet is sent or read (`NetSend`, `NetRead`,
`FifoAdd`, `FifoTake`), and the same for table, wires and lines; `FreeSlotLeft` and
`PendingRoom` are the pigeonhole arguments. Then there is one lemma per action.
`IInv` has also been checked by TLC on small instances.

Under the same two assumptions the second half of the module proves

* `MessagesStayIntact`: Spec => []PSMessageIntact
* `KernelsImplementRendezvous`: Spec => ImplementsRendezvous

That the memory the DMNI reads is not written needs the whole way of a message. A
producer may write its next message as soon as its call returns; the call returns when
the kernel has finished spinning; so `Sending` says that while the DMNI sends a message
the kernel of that PE spins, that it is the last packet of its link, and that the buffer
still is what was sent. `MessageWritten` says what a producer in a Send has in its buffer. For
the refinement, `PeersAsked` ties each request and answer to the producer its consumer
has asked, and `OneAhead` says that a pair is one message ahead exactly while its answer is
on its way: an acceptance thus finds `put` and `got` equal, and an arrival finds them one apart.
`LastAccepted` numbers the message on the way. The invariant `RInv` is these with `IInv`.

`CtpSwitchingProofs` proves, for every set of PEs and tasks, every graph of pairs between
different PEs, every finite set of subnets and every order of switches,

* `TypeCorrect`: Spec => []TypeOK
* `NoMessageIsLost`: Spec => []NoMessageLost
* `NoKernelStops`: Spec => []NoErrorLoop
* `PathReturnedIdle`: Spec => []PathIdleWhenReturned
* `ModeSwitchesBetweenMessages`: Spec => SwitchesBetweenMessages
* `SwitchingImplementsRendezvous`: Spec => ImplementsRendezvous

from `SystemAssumption` and `~PathFails`: with a path search that fails, the first of
them is false, which is what the run nopath shows. The invariant follows each pair under
orders through its change. A function `stage` gives the mode a pair changes to and where the order
is: with the consumer's kernel, kept in its TCB, on its way to the producer, back, on
its way to the manager, or concluded. It is not a variable of the model; `IInv` says that
some such function exists (`\E stage : Inv(stage)`), and each action's lemma gives the next
one. The stage fixes what the manager believes (`QosInv`), which order is in which packet
(`NetInv`) or TCB (`KeptInv`), which end has a CTP and whether the consumer's is enabled
(`TableInv`). Then `Conservation` says that a waiting consumer has its request or answer in exactly
one of five places, `CircuitInv` that wires and circuits carry only what both ends can
read, and `OrderFirst` is the heart of the protocol: while an order travels to the
producer, a request of the same pair can only be behind it on the same link, so that the
producer has changed when it reads the request. `CtpOnce` and the size of the table
give the free slot (`RoomForCtp`). `PathReturnedIdle` joins these: the stage of a pair whose
path has been given back leaves room for no CTP (`TableInv`), no wire and no message on a
circuit (`CircuitInv`), no order in a packet (`NetInv`) and none in a TCB (`KeptInv`). TLC has checked
`IInv` on the instance of switching.

`TaskMigrationProofs` proves `TasksStayWhole` (`TasksWhole`) and `TypeCorrect` for every
set of PEs, every finite set of tasks with any programs, every number of pages, moves and
targets. A PE may run out of pages, a request may find nobody, a part may find no TCB: the
kernel stops, and what the theorem says still holds. The one hypothesis is that no task
with a period has a target (`\A t \in RealTime : Target[t] = {}`): without it the property is
false, because `handle_migration_TCB` makes such a task READY at once.

`TasksWhole` is far from inductive: that the last packet of a task makes it whole depends
on the packets before it, on the order that sent them, and on there being no second order.
The invariant `IInv` gives each task a *journey* with a start, a goal and a phase: at
home; its order in a packet, deferred, or kept in the TCB for the message the task waits
for; left; or its order lost in a kernel that stopped. `Pages` says on which pages the task
may then be, `Sent` on which link each packet about it is and which come before which,
`Kept` where its order is deferred, `Complete` that a part of a task that has left is on
its page there or before the last one on the way. The journey is not a variable: `AllOn`
says that one exists. Three facts carry the proof: the mapper has one order at a time for
a task (`moving`), so that a TASK_MIGRATION, a TASK_MIGRATED and the code are each there
once at most; the link between two PEs keeps its order, so that the last part comes last and
the code first; a task on its way is on no page it can run from, so that `searchTCB` at
its goal finds the page its code took. A task that has exited keeps its id and page, and
a task that comes may take that page: this is why `Pages` and `Under` speak of `Exited`.
There is a lemma for each action. TLC has checked `IInv` on the instances of the two
runs, and with one page for each PE, where kernels do stop.

Its second and third parts prove on top of that, under the same hypothesis on the tasks with
a period, that the messages follow:

* `OneRequestEach`: Spec => [](NoErrorLoop => RequestInOnePlace)
* `RequestFollows`: Spec => [](NoErrorLoop /\ NoneExited => RequestFollowsProducer)
* `MigrationTransparent`: Spec => ImplementsRendezvous

The first two name `NoErrorLoop` because a kernel that stops takes the request it was handling
with it; the last needs no such condition, since a kernel that has stopped does nothing
the tasks can see. The new invariant gives each consumer an *errand*: the one place where its
request or its message is, if it has one: kept with the page of the producer, deferred in a
kernel, or in a packet. `Only` says that there is nothing of this consumer anywhere else, in the
message requests of the page tables, the queues of deferred services or the links, and not twice
in a queue; `There` that what is at that place is what the consumer waits for; `Settled` that a
message accepted and not received is on its way. Together (`Fine`) they are kept by each
action because an action moves one errand at most: a request that finds nobody here goes on to the next
location, one that finds its producer is answered or kept, a page that leaves takes its kept requests with it, and one
that arrives brings them. `Noticed` draws the refinement from that: each step is a Send, a
Receive, a delivery or a copy that one consumer at most notices, which is a step of `Rendezvous`.

`OneRequestEach` follows from these errands: a consumer that waits has one request. That this
request is where it gets to its producer is the second half of `RequestFollowsProducer`
(`RequestOnTrack`), and the third part of the module. Its invariant `Tracked` speaks of every
PE to which a request to a task may come: `Named` by a location in a table, by a packet that brings
locations, or by a request on its way there or deferred there. Such a PE `Answers`: its kernel has
stopped, it `Hosts` the task (on a page, or the code is on a link to it), or it `PassesOn`, knowing
where the task went; and a page table keeps requests only for tasks its PE hosts. `Follow` reduces an
action to what it adds: no name of a PE that does not answer, and no task taken from a PE that does
not then know where it goes. `Leads`, drawn from the journeys, says that the parts of a task are sent
from one PE to another that hosts it, with the last part on the same link: the requests that are
carried along arrive where their producer is.

`RequestFollows` also names `NoneExited`: no task has come to its exit. It cannot do without a
condition of this kind. A PE whose last task exits forgets every location, also those of the tasks that left
it, and a request that comes later stops its kernel (the finding *cleared* below): until it comes, it is
on its way to a PE that neither has the producer nor knows where it went. `OneRequestEach`
and `MigrationTransparent` hold across exits, and the *migration* run checks
`RequestFollowsProducer` with a sink that does exit.

`DiamondSearchProofs` proves, for every grid and cluster (`GridAssumption`,
`ClusterAssumption`), any PE to begin at and any set of PEs with free pages,

* `NearestIsFound`: Spec => []FindsNearest
* `PEsCountedOnce`: Spec => []CountsOnce

The code turns around the first PE by changing x and y by one, and leaves out what is outside
of the cluster. `Place` gives the PE after a number of steps of a round in closed form, and
`Turn` the number of the step at which a PE comes: the two are each other's inverse
(`PlaceOfStep`, `StepOfPlace`), so that a round comes to each place of its distance once,
in or out of the cluster, and the next step is the one the code takes (`StepToNext`). `Searched` is then what the walk has
left behind: no PE with a free page, and as many PEs of the cluster as it has counted. That the search ends is
a liveness property and left to the run.

`NoCManagerProofs` proves, for every number of clusters, routers and subnets
(`NoCAssumption`), any pairs and any number of requests,

* `TokenIsHeldOnce`: Spec => [](NoErrorLoop => TokenHeldOnce)

It names `NoErrorLoop` because a controller that stops on a grant (`noc_manager.c:157`) keeps the
token for ever. What paths the searches find, and whether they are right, plays no part. The
invariant `TokenInv` gathers the signs of the token at a cluster (`Signs`): it is master; each grant
on its way to it or being handled there; each release on its way back or being handled by the
coordinator. There is exactly one sign at the cluster the coordinator has recorded and none elsewhere, while
`TokenHeldOnce` alone would allow a second grant to a master. With it go the places the messages of the
token may be in: a grant comes from the coordinator, a request and a release go to it.
A turn is a chain of handlers that call each other, up to the coordinator granting the
token to itself, so the proof follows the state of the turn. Most handlers are
`Neutral`: they make no master, end none, and send nothing about the token; there is a lemma for
each. For the others `Turning` says where the one sign is after what the turn has done so far
(`GrantMakesMaster`, `TokenSent`, `RequestServed`, `ReleaseServed`,
`MasterGivesBack`), with the record made before the grant in one place and after it in another, as in
the code. TLC has checked `TokenInv`, without the types of the queues, on the instance of noc.

`PendingServiceProofs` proves for every length of the array

* `InterruptFollowsFIFO`: Spec => []InterruptIffPending
* `RingImplementsQueue`: Spec => ImplementsQueue

from `RingAssumption`. The invariant says that the elements between the two
indices are services, and so is the one being handled; the lemma `CountPlace` has
the arithmetic of the wrapping indices.

`RouterProofs` proves, for every address and pause, for any packets with a payload
(`PacketAssumption`), and for queues of any size from 5 on (`BufferAssumption`),

* `TypeCorrect`: Spec => []TypeOK
* `QueuesNeverFull`: Spec => NeverFull
* `OutputsAreOwned`: Spec => []OwnOutput
* `PacketsStayWhole`: Spec => WholePackets

Room is decided on the rising edge and used on the falling one, by comparisons that do
not wrap and miss one of the places where a queue is full. `IInv` says why that is no
matter: after the rising edge a queue with room can take one flit, and taking it does
not lead to the place that is missed (`RoomIsThere`); where it is reached in another way the
queue is closed already (`ClosedAtTheEnd`); and what a queue offers is there
(`OffersWhatItHas`), so that `first` does not run past `last`. Ownership needs the
pipeline of the switch control: `QueueStages` and `SwitchStages` tie the state of a queue
and that of the control to the signals between them, and `HoldersOwn` extends the
property to the whole time from the grant to the edge after the tail, in which the
output is not free and cannot be given away.

Whole packets need the contents of the queues as well (`PInv`). `Ordered`: a queue holds
flits that follow one another, and the one its neighbour offers follows the last. A flit
is stored half a cycle after its room was decided and before the neighbour moves on, so that
between the falling edge and the rising one the flit offered is already in: `Coming` is what
comes next in either half. `InPacket`: the state and `counter_flit` agree with the place in
its packet of the flit to be sent next (`Front`), so that the queue stops at the tail and not
before. `Offered` and `TakenByHolder`: an output passes on what its holder offers, and one that
is being freed offers nothing. `Routed`: from the moment the switch control has looked at a
header until it is sent, the connection is the one that header asks for. `Passed` ties what left
an output last to what its holder sends next. TLC has checked `PInv` on the instance of the run.

Model-checked only: `NoErrorLoop` and `LocationsLead` of TaskMigration, which turn on the
length of a chain of locations (the first is false in general: with few pages, or with
a task that exits, see cleared); the other properties of NoCManager, and all of AppMapping and
ApplicationRun, whose models fold over clusters, paths and programs, so that what they say needs
induction over data; and all liveness, which is out of reach of the prover.

## 5. Not modelled, and the plan

Next, the most important first:

1. `ManagementMessages`: READSERVICE, SENDRAW, two slots per task; the rule that
   a management task runs with its interrupts masked. AppMapping and NoCManager
   take their channels as ordered and lossless.
2. The boot of the management tasks (I_AM_ALIVE, INITIALIZE_MA_TASK), whose end is
   the initial state of AppMapping.
3. `Scheduler`: LST with bounded time, the slack and the period of real-time tasks.
4. `Dmni`: arbitration of send and receive by words, the two header slots of `packet.c`.
5. Faults of links in the NoC manager (`set_fault`, NI_STATUS).

Left out for good: the Plasma core and the memory (an instruction-set simulator),
the CS router (a register and a multiplexer per port), the VHDL description (the
same hardware in another language), the build scripts and the debugger; of the
applications `sorting_single_task`, which sends nothing, and `dijkstra`, whose tasks
send to a `print_dij` that does not exist. Monitor reports are one-way messages
without a protocol; their wait for the DMNI is that of EXIT.
