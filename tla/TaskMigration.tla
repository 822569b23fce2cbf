---------------------------- MODULE TaskMigration ----------------------------
(***************************************************************************)
(* Task migration of the MEMPHIS kernel: the seven services of             *)
(* handle_migration, the three places that move a task, and the passing on *)
(* of MESSAGE_REQUESTs that reach a PE its producer has left.              *)
(*                                                                         *)
(* On TASK_MIGRATION the code of the task goes to its new PE at once; its  *)
(* registers, known locations, requests, stack and data follow, at once if *)
(* the task is not waiting for a message and else when the message comes.  *)
(* Nobody tells the other PEs: they keep sending to the old one, whose     *)
(* location table leads on.                                                *)
(*                                                                         *)
(* The tasks are those of one application, after its TASK_RELEASE. The     *)
(* send channel of the DMNI and the slots of the request table are those   *)
(* of TaskCommunication; here a packet leaves at once, and a service that  *)
(* the kernel defers while the channel sends may be deferred at any time.  *)
(* The mapper that orders a migration is not in the repository.            *)
(***************************************************************************)
EXTENDS Naturals, Sequences, FiniteSets

CONSTANTS
    PE,                 \* the processing elements
    Manager,            \* the PE of the local mapper, outside the model
    Task,               \* the tasks of one application
    Home,               \* the PE each task was allocated to
    Program,            \* the calls of each task: [op : {"send", "receive"}, peer : Task]
    Exits,              \* the tasks that call exit when their program ends
    RealTime,           \* the tasks with a period
    MAX_LOCAL_TASKS,    \* pages of a PE
    Target,             \* where the mapper may send each task
    MaxMoves,           \* bound: the orders of the mapper, per task
    NoPE, NoTask        \* the id -1 of a PE and of a task

ASSUME MigrationAssumption ==
    /\ Manager \notin PE /\ NoPE \notin PE \cup {Manager} /\ NoTask \notin Task
    /\ IsFiniteSet(Task)
    /\ Home \in [Task -> PE]
    /\ Program \in [Task -> Seq([op : {"send", "receive"}, peer : Task])]
    /\ Exits \subseteq Task /\ RealTime \subseteq Task
    /\ Target \in [Task -> SUBSET PE]
    /\ MaxMoves \in [Task -> Nat]
    /\ MAX_LOCAL_TASKS \in Nat \ {0}
    /\ \A d \in PE : Cardinality({t \in Task : Home[t] = d}) <= MAX_LOCAL_TASKS

VARIABLES
    kernel,           \* "ok", or "error" in one of the while(1) of the kernel
    tcbs,             \* the TCBs of each PE, one per page
    message_request,  \* the requests in the table of each PE
    task_location,    \* the location table of each PE
    pending,          \* the deferred services of each PE
    net,              \* the packets between each two nodes, in order
    pc,               \* the call each task is at
    moving,           \* the mapper waits for the TASK_MIGRATED of the task
    moves             \* orders given, per task

kernelVars == <<kernel, tcbs, message_request, task_location>>
mapperVars == <<moving, moves>>
vars == <<kernelVars, pending, net, pc, mapperVars>>

-----------------------------------------------------------------------------
(* Data *)

Node == PE \cup {Manager}
Page == 1..MAX_LOCAL_TASKS
Part == {"code", "registers", "stack", "data"}

FreeTCB == [id |-> NoTask, status |-> "FREE", waiting_msg |-> FALSE,
            proc_to_migrate |-> NoPE, parts |-> {}]

Requests == [requester : Task, requested : Task, requester_proc : PE]

MESSAGE_REQUEST(p, c, proc) ==
    [service |-> "MESSAGE_REQUEST", producer |-> p, consumer |-> c, proc |-> proc]
MESSAGE_DELIVERY(p, c) == [service |-> "MESSAGE_DELIVERY", producer |-> p, consumer |-> c]
TASK_MIGRATION(t, to) == [service |-> "TASK_MIGRATION", task |-> t, to |-> to]
MIGRATION(part, t, data) == [service |-> part, task |-> t, data |-> data]
TASK_MIGRATED(t) == [service |-> "TASK_MIGRATED", task |-> t]

Deferrable == {"MESSAGE_REQUEST", "TASK_MIGRATION"}

\* The first page whose TCB has the id, or 0. An exited task keeps its id.
PagesOf(d, t) == {i \in Page : tcbs[d][i].id = t}
searchTCB(d, t) ==
    IF PagesOf(d, t) = {} THEN 0 ELSE CHOOSE i \in PagesOf(d, t) : \A j \in PagesOf(d, t) : i <= j

FreePages(d) == {i \in Page : tcbs[d][i].status = "FREE"}
search_free_TCB(d) == CHOOSE i \in FreePages(d) : \A j \in FreePages(d) : i <= j

CallOf(t) == IF pc[t] <= Len(Program[t]) THEN Program[t][pc[t]] ELSE [op |-> "end", peer |-> t]

\* The kernel may run the task of page i: the scheduler is any choice.
Runs(d, i) == /\ kernel[d] = "ok" /\ tcbs[d][i].id \in Task
              /\ tcbs[d][i].status = "READY" /\ ~tcbs[d][i].waiting_msg

KernelError(d) == kernel' = [kernel EXCEPT ![d] = "error"]

-----------------------------------------------------------------------------
(* Leaving a PE: the state after the task t of page i has left d, given the
   TCBs, requests and packets the caller has already changed. *)

RequestsTo(R, t) == {r \in R : r.requested = t}

LocationsAfter(d, t, to) == [task_location[d] EXCEPT ![t] = to]

\* Mutant of MigrationPackets: the stack goes last.
StackLast(d, t, to, R) ==
    <<MIGRATION("MIGRATION_TCB", t, {}),
      MIGRATION("MIGRATION_TASK_LOCATION", t, LocationsAfter(d, t, to))>>
    \o (IF R = {} THEN <<>> ELSE <<MIGRATION("MIGRATION_MSG_REQUEST", t, R)>>)
    \o <<MIGRATION("MIGRATION_DATA_BSS", t, {}), MIGRATION("MIGRATION_STACK", t, {})>>

MigrationPackets(d, t, to, R) ==
    <<MIGRATION("MIGRATION_TCB", t, {}),
      MIGRATION("MIGRATION_TASK_LOCATION", t, LocationsAfter(d, t, to))>>
    \o (IF R = {} THEN <<>> ELSE <<MIGRATION("MIGRATION_MSG_REQUEST", t, R)>>)
    \o <<MIGRATION("MIGRATION_STACK", t, {}), MIGRATION("MIGRATION_DATA_BSS", t, {})>>

\* Mutant of migrate_dynamic_memory: the requests stay in the table of the old PE.
RequestsLeftBehind(d, i, to, T, R, N) ==
    LET t == T[d][i].id IN
    IF task_location[d][t] = NoPE
    THEN KernelError(d) /\ tcbs' = T /\ message_request' = R /\ net' = N /\ UNCHANGED task_location
    ELSE /\ net' = [N EXCEPT ![<<d, to>>] = @ \o MigrationPackets(d, t, to, {}),
                             ![<<d, Manager>>] = Append(@, TASK_MIGRATED(t))]
         /\ task_location' = [task_location EXCEPT ![d] = LocationsAfter(d, t, to)]
         /\ message_request' = R
         /\ tcbs' = [T EXCEPT ![d][i] = FreeTCB]
         /\ UNCHANGED kernel

\* remove_task_location stops the kernel when it finds no location to remove.
migrate_dynamic_memory(d, i, to, T, R, N) ==
    LET t == T[d][i].id IN
    IF task_location[d][t] = NoPE
    THEN KernelError(d) /\ tcbs' = T /\ message_request' = R /\ net' = N /\ UNCHANGED task_location
    ELSE /\ net' = [N EXCEPT ![<<d, to>>] = @ \o MigrationPackets(d, t, to, RequestsTo(R[d], t)),
                             ![<<d, Manager>>] = Append(@, TASK_MIGRATED(t))]
         /\ task_location' = [task_location EXCEPT ![d] = LocationsAfter(d, t, to)]
         /\ message_request' = [R EXCEPT ![d] = @ \ RequestsTo(@, t)]
         /\ tcbs' = [T EXCEPT ![d][i] = FreeTCB]
         /\ UNCHANGED kernel

-----------------------------------------------------------------------------
(* The calls of the tasks *)

Matching(d, p, c) == {r \in message_request[d] : r.requested = p /\ r.requester = c}

TCBReleased(T, d, i) == [T EXCEPT ![d][i].waiting_msg = FALSE]

\* Mutant of ReleaseConsumer: the order stays pending when the message comes.
OrderForgotten(d, i, R, N) ==
    /\ tcbs' = TCBReleased(tcbs, d, i)
    /\ message_request' = R /\ net' = N
    /\ UNCHANGED <<kernel, task_location>>

\* A consumer that gets its message on page i of d leaves if it has an order to.
ReleaseConsumer(d, i, R, N) ==
    IF tcbs[d][i].proc_to_migrate = NoPE
    THEN /\ tcbs' = TCBReleased(tcbs, d, i)
         /\ message_request' = R /\ net' = N
         /\ UNCHANGED <<kernel, task_location>>
    ELSE migrate_dynamic_memory(d, i, tcbs[d][i].proc_to_migrate, TCBReleased(tcbs, d, i), R, N)

Stopped(d, R, N) ==
    KernelError(d) /\ message_request' = R /\ net' = N /\ UNCHANGED <<tcbs, task_location>>

\* The TCB of the consumer must be here and have its receive buffer registered.
Waits(d, i) == i # 0 /\ tcbs[d][i].waiting_msg

\* SENDMESSAGE to a consumer of this PE. Without a request the call returns 0.
SendLocal(d, i, r) ==
    /\ Runs(d, i) /\ CallOf(tcbs[d][i].id).op = "send"
    /\ r \in Matching(d, tcbs[d][i].id, CallOf(tcbs[d][i].id).peer)
    /\ r.requester_proc = d
    /\ IF Waits(d, searchTCB(d, r.requester))
       THEN /\ ReleaseConsumer(d, searchTCB(d, r.requester),
                               [message_request EXCEPT ![d] = @ \ {r}], net)
            /\ pc' = [pc EXCEPT ![r.requested] = @ + 1, ![r.requester] = @ + 1]
       ELSE Stopped(d, [message_request EXCEPT ![d] = @ \ {r}], net) /\ UNCHANGED pc
    /\ UNCHANGED <<pending, mapperVars>>

SendRemote(d, i, r) ==
    /\ Runs(d, i) /\ CallOf(tcbs[d][i].id).op = "send"
    /\ r \in Matching(d, tcbs[d][i].id, CallOf(tcbs[d][i].id).peer)
    /\ r.requester_proc # d
    /\ message_request' = [message_request EXCEPT ![d] = @ \ {r}]
    /\ net' = [net EXCEPT ![<<d, r.requester_proc>>] =
                 Append(@, MESSAGE_DELIVERY(r.requested, r.requester))]
    /\ pc' = [pc EXCEPT ![r.requested] = @ + 1]
    /\ UNCHANGED <<kernel, tcbs, task_location, pending, mapperVars>>

\* RECVMESSAGE: to this PE, or to where this PE last knew the producer.
Receive(d, i) ==
    LET c == tcbs[d][i].id  p == CallOf(c).peer  proc == task_location[d][p] IN
    /\ Runs(d, i) /\ CallOf(c).op = "receive"
    /\ IF proc = NoPE
       THEN /\ tcbs' = [tcbs EXCEPT ![d][i].status = "BLOCKED"]
            /\ UNCHANGED <<message_request, net>>
       ELSE /\ tcbs' = [tcbs EXCEPT ![d][i].waiting_msg = TRUE]
            /\ IF proc = d
               THEN /\ message_request' = [message_request EXCEPT ![d] = @ \cup
                         {[requester |-> c, requested |-> p, requester_proc |-> d]}]
                    /\ UNCHANGED net
               ELSE /\ net' = [net EXCEPT ![<<d, proc>>] = Append(@, MESSAGE_REQUEST(p, c, d))]
                    /\ UNCHANGED message_request
    /\ UNCHANGED <<kernel, task_location, pending, pc, mapperVars>>

\* EXIT: the page is free, the TCB keeps the id. With the last task of the
\* application on this PE go all the locations of its tasks.
Exit(d, i) ==
    /\ Runs(d, i) /\ CallOf(tcbs[d][i].id).op = "end" /\ tcbs[d][i].id \in Exits
    /\ tcbs' = [tcbs EXCEPT ![d][i].status = "FREE"]
    /\ task_location' =
         IF \E j \in Page \ {i} : tcbs[d][j].status # "FREE" THEN task_location
         ELSE [task_location EXCEPT ![d] = [u \in Task |-> NoPE]]
    /\ UNCHANGED <<kernel, message_request, pending, net, pc, mapperVars>>

-----------------------------------------------------------------------------
(* The interrupt handlers. N is the network without the packet. *)

\* A request for a task that is not here is passed on to where it went.
handle_message_request(d, pkt, N) ==
    LET proc == task_location[d][pkt.producer] IN
    IF searchTCB(d, pkt.producer) # 0
    THEN /\ message_request' = [message_request EXCEPT ![d] = @ \cup
              {[requester |-> pkt.consumer, requested |-> pkt.producer,
                requester_proc |-> pkt.proc]}]
         /\ net' = N /\ UNCHANGED <<kernel, tcbs, task_location>>
    ELSE IF proc \in {d, NoPE} THEN Stopped(d, message_request, N)
    ELSE /\ net' = [N EXCEPT ![<<d, proc>>] = Append(@, pkt)]
         /\ UNCHANGED kernelVars

\* Mutant of handle_task_migration: a waiting task goes too.
MovesWaiting(d, pkt, N) ==
    LET i == searchTCB(d, pkt.task) IN
    IF i = 0 \/ tcbs[d][i].proc_to_migrate # NoPE THEN Stopped(d, message_request, N)
    ELSE migrate_dynamic_memory(d, i, pkt.to, tcbs, message_request,
           [N EXCEPT ![<<d, pkt.to>>] = Append(@, MIGRATION("MIGRATION_CODE", pkt.task, {}))])

\* TASK_MIGRATION: the code goes now, the rest when the task does not wait.
handle_task_migration(d, pkt, N) ==
    LET i == searchTCB(d, pkt.task)
        M == [N EXCEPT ![<<d, pkt.to>>] = Append(@, MIGRATION("MIGRATION_CODE", pkt.task, {}))]
    IN
    IF i = 0 \/ tcbs[d][i].proc_to_migrate # NoPE THEN Stopped(d, message_request, N)
    ELSE IF tcbs[d][i].waiting_msg
    THEN /\ tcbs' = [tcbs EXCEPT ![d][i].proc_to_migrate = pkt.to]
         /\ net' = M
         /\ UNCHANGED <<kernel, message_request, task_location>>
    ELSE migrate_dynamic_memory(d, i, pkt.to, tcbs, message_request, M)

handle_deferrable(d, pkt, N) ==
    \/ pkt.service = "MESSAGE_REQUEST" /\ handle_message_request(d, pkt, N)
    \/ pkt.service = "TASK_MIGRATION" /\ handle_task_migration(d, pkt, N)

PacketAt(s, d) == kernel[d] = "ok" /\ net[<<s, d>>] # <<>>
HeadPacket(s, d) == Head(net[<<s, d>>])
Popped(s, d) == [net EXCEPT ![<<s, d>>] = Tail(@)]

HandleNow(s, d) ==
    /\ PacketAt(s, d) /\ HeadPacket(s, d).service \in Deferrable
    /\ handle_deferrable(d, HeadPacket(s, d), Popped(s, d))
    /\ UNCHANGED <<pending, pc, mapperVars>>

\* While the DMNI sends.
Defer(s, d) ==
    /\ PacketAt(s, d) /\ HeadPacket(s, d).service \in Deferrable
    /\ pending' = [pending EXCEPT ![d] = Append(@, HeadPacket(s, d))]
    /\ net' = Popped(s, d)
    /\ UNCHANGED <<kernelVars, pc, mapperVars>>

HandlePending(d) ==
    /\ kernel[d] = "ok" /\ pending[d] # <<>>
    /\ pending' = [pending EXCEPT ![d] = Tail(@)]
    /\ handle_deferrable(d, Head(pending[d]), net)
    /\ UNCHANGED <<pc, mapperVars>>

HandleDelivery(s, d) ==
    /\ PacketAt(s, d) /\ HeadPacket(s, d).service = "MESSAGE_DELIVERY"
    /\ LET c == HeadPacket(s, d).consumer IN
       IF Waits(d, searchTCB(d, c))
       THEN /\ ReleaseConsumer(d, searchTCB(d, c), message_request, Popped(s, d))
            /\ pc' = [pc EXCEPT ![c] = @ + 1]
       ELSE Stopped(d, message_request, Popped(s, d)) /\ UNCHANGED pc
    /\ UNCHANGED <<pending, mapperVars>>

-----------------------------------------------------------------------------
(* Arriving at a PE: one handler per part *)

\* Mutant of handle_migration_code: the TCB takes the id with the registers.
CodeIsAnonymous(d, i, t) ==
    tcbs' = [tcbs EXCEPT ![d][i] = [@ EXCEPT !.status = "MIGRATING", !.parts = {"code"}]]

\* The TCB takes the id now: requests that come before the task are kept here.
handle_migration_code(d, i, t) ==
    tcbs' = [tcbs EXCEPT ![d][i] =
               [@ EXCEPT !.id = t, !.status = "MIGRATING", !.parts = {"code"}]]

HandleCode(s, d) ==
    /\ PacketAt(s, d) /\ HeadPacket(s, d).service = "MIGRATION_CODE"
    /\ net' = Popped(s, d)
    /\ IF FreePages(d) = {} THEN KernelError(d) /\ UNCHANGED tcbs
       ELSE /\ handle_migration_code(d, search_free_TCB(d), HeadPacket(s, d).task)
            /\ UNCHANGED kernel
    /\ UNCHANGED <<message_request, task_location, pending, pc, mapperVars>>

Arrived(d, i, part) == [tcbs EXCEPT ![d][i].parts = @ \cup {part}]

\* real_time_task, called for a task with a period, makes it READY.
handle_migration_TCB(d, i, t) ==
    tcbs' = [Arrived(d, i, "registers") EXCEPT
               ![d][i].status = IF t \in RealTime THEN "READY" ELSE @]

\* Mutant of handle_migration_task_location: nothing is taken.
LocationsIgnored(d, locations) == UNCHANGED task_location

\* Only locations unknown here are taken from the old PE.
handle_migration_task_location(d, locations) ==
    task_location' = [task_location EXCEPT ![d] =
        [u \in Task |-> IF @[u] = NoPE THEN locations[u] ELSE @[u]]]

handle_migration_request_msg(d, t, requests) ==
    message_request' = [message_request EXCEPT ![d] = @ \cup RequestsTo(requests, t)]

handle_migration_stack(d, i) == tcbs' = Arrived(d, i, "stack")

handle_migration_DATA_BSS(d, i) ==
    tcbs' = [Arrived(d, i, "data") EXCEPT
               ![d][i].status = "READY", ![d][i].proc_to_migrate = NoPE]

\* A part for which searchTCB finds no TCB is written through a null pointer.
HandlePart(s, d) ==
    LET pkt == HeadPacket(s, d)  i == searchTCB(d, pkt.task) IN
    /\ PacketAt(s, d)
    /\ pkt.service \in {"MIGRATION_TCB", "MIGRATION_TASK_LOCATION", "MIGRATION_MSG_REQUEST",
                        "MIGRATION_STACK", "MIGRATION_DATA_BSS"}
    /\ IF i = 0 THEN Stopped(d, message_request, Popped(s, d))
       ELSE /\ net' = Popped(s, d)
            /\ \/ /\ pkt.service = "MIGRATION_TCB" /\ handle_migration_TCB(d, i, pkt.task)
                  /\ UNCHANGED <<message_request, task_location>>
               \/ /\ pkt.service = "MIGRATION_TASK_LOCATION"
                  /\ handle_migration_task_location(d, pkt.data)
                  /\ UNCHANGED <<tcbs, message_request>>
               \/ /\ pkt.service = "MIGRATION_MSG_REQUEST"
                  /\ handle_migration_request_msg(d, pkt.task, pkt.data)
                  /\ UNCHANGED <<tcbs, task_location>>
               \/ /\ pkt.service = "MIGRATION_STACK" /\ handle_migration_stack(d, i)
                  /\ UNCHANGED <<message_request, task_location>>
               \/ /\ pkt.service = "MIGRATION_DATA_BSS" /\ handle_migration_DATA_BSS(d, i)
                  /\ UNCHANGED <<message_request, task_location>>
            /\ UNCHANGED kernel
    /\ UNCHANGED <<pending, pc, mapperVars>>

-----------------------------------------------------------------------------
(* The local mapper, outside the model: it gives one order at a time for a
   task that has not exited, and waits for TASK_MIGRATED. *)

Whole(d, i) == tcbs[d][i].parts = Part
RunsAt(t, d) == \E i \in Page : /\ tcbs[d][i].id = t /\ tcbs[d][i].status = "READY"
                                /\ Whole(d, i)

\* The task has arrived: the code gives the mapper no means to know.
OrderMigration(t, d, to) ==
    /\ ~moving[t] /\ moves[t] < MaxMoves[t]
    /\ RunsAt(t, d) /\ to \in Target[t] \ {d}
    /\ net' = [net EXCEPT ![<<Manager, d>>] = Append(@, TASK_MIGRATION(t, to))]
    /\ moving' = [moving EXCEPT ![t] = TRUE]
    /\ moves' = [moves EXCEPT ![t] = @ + 1]
    /\ UNCHANGED <<kernelVars, pending, pc>>

MigrationReported(d) ==
    /\ net[<<d, Manager>>] # <<>>
    /\ moving' = [moving EXCEPT ![HeadPacket(d, Manager).task] = FALSE]
    /\ net' = Popped(d, Manager)
    /\ UNCHANGED <<kernelVars, pending, pc, moves>>

-----------------------------------------------------------------------------
(* Specification *)

TasksAt(d) == {t \in Task : Home[t] = d}

\* Some assignment of the tasks of a PE to its first pages.
FirstPages(d) == CHOOSE f \in [1..Cardinality(TasksAt(d)) -> TasksAt(d)] :
                   \A t \in TasksAt(d) : \E i \in DOMAIN f : f[i] = t

ReadyTCB(t) == [FreeTCB EXCEPT !.id = t, !.status = "READY", !.parts = Part]

Init ==
    /\ kernel = [d \in PE |-> "ok"]
    /\ tcbs = [d \in PE |-> [i \in Page |-> IF i <= Cardinality(TasksAt(d))
                                            THEN ReadyTCB(FirstPages(d)[i]) ELSE FreeTCB]]
    /\ message_request = [d \in PE |-> {}]
    /\ task_location = [d \in PE |-> IF TasksAt(d) = {} THEN [t \in Task |-> NoPE] ELSE Home]
    /\ pending = [d \in PE |-> <<>>]
    /\ net = [l \in Node \X Node |-> <<>>]
    /\ pc = [t \in Task |-> 1]
    /\ moving = [t \in Task |-> FALSE]
    /\ moves = [t \in Task |-> 0]

TaskStep(d, i) ==
    \/ \E r \in message_request[d] : SendLocal(d, i, r) \/ SendRemote(d, i, r)
    \/ Receive(d, i)
    \/ Exit(d, i)

Handle(s, d) == HandleNow(s, d) \/ HandleDelivery(s, d) \/ HandleCode(s, d) \/ HandlePart(s, d)

KernelStep(d) ==
    \/ \E i \in Page : TaskStep(d, i)
    \/ \E s \in Node : Handle(s, d) \/ Defer(s, d)
    \/ HandlePending(d)

Next ==
    \/ \E d \in PE : KernelStep(d)
    \/ \E t \in Task, d \in PE, to \in PE : OrderMigration(t, d, to)
    \/ \E d \in PE : MigrationReported(d)

Spec == Init /\ [][Next]_vars

\* A ready task is scheduled again and again; a packet is read in the end; the
\* pending service interrupt comes when the DMNI rests.
FairSpec ==
    /\ Spec
    /\ \A d \in PE : /\ \A i \in Page : WF_vars(TaskStep(d, i))
                     /\ \A s \in Node : WF_vars(Handle(s, d))
                     /\ WF_vars(HandlePending(d))
                     /\ WF_vars(MigrationReported(d))

-----------------------------------------------------------------------------
(* Properties *)

TCB == [id : Task \cup {NoTask}, status : {"FREE", "READY", "MIGRATING", "BLOCKED"},
        waiting_msg : BOOLEAN, proc_to_migrate : PE \cup {NoPE}, parts : SUBSET Part]

\* Every variable has its type.
TypeOK ==
    /\ kernel \in [PE -> {"ok", "error"}]
    /\ tcbs \in [PE -> [Page -> TCB]]
    /\ \A d \in PE : message_request[d] \subseteq Requests
    /\ task_location \in [PE -> [Task -> PE \cup {NoPE}]]
    /\ \A d \in PE : \A k \in DOMAIN pending[d] : pending[d][k].service \in Deferrable
    /\ DOMAIN net = Node \X Node
    /\ \A t \in Task : pc[t] \in 1..Len(Program[t]) + 1
    /\ moving \in [Task -> BOOLEAN]
    /\ \A t \in Task : moves[t] \in 0..MaxMoves[t]

\* No kernel enters one of its endless loops or reads through a null pointer:
\* a request passed on always finds a PE to go to, a message its consumer, a
\* part its TCB, an order its task.
NoErrorLoop == \A d \in PE : kernel[d] = "ok"

InFlight(t, service) ==
    {l \in Node \X Node : \E k \in DOMAIN net[l] :
       net[l][k].service = service /\ net[l][k].task = t}

\* A task is in one place: a page from which it runs, or the packets that carry
\* it, the last of which is on one link; only an exited task is nowhere, once
\* its page is used again.
Places(t) ==
    Cardinality({x \in PE \X Page : /\ tcbs[x[1]][x[2]].id = t
                                    /\ tcbs[x[1]][x[2]].status # "MIGRATING"})
    + Cardinality(InFlight(t, "MIGRATION_DATA_BSS"))

OneHome ==
    \A t \in Task : /\ Places(t) <= 1
                    /\ Places(t) = 0 => t \in Exits /\ CallOf(t).op = "end"

\* A task that may be scheduled has all its memory.
WholeBeforeRun ==
    \A d \in PE, i \in Page : tcbs[d][i].status = "READY" => Whole(d, i)

\* A task in transit is neither lost nor doubled, and never scheduled before its
\* code, TCB, data and stack have all come.
TasksWhole == OneHome /\ WholeBeforeRun

\* Where t is or is about to be.
Held(t) == {d \in PE : \/ searchTCB(d, t) # 0
                       \/ \E s \in PE : <<s, d>> \in InFlight(t, "MIGRATION_CODE")}

\* The PEs whose locations lead to t, at most n[...] PEs further.
LeadTo(t) ==
    LET Reach[n \in 0..Cardinality(PE)] ==
          IF n = 0 THEN Held(t)
          ELSE Reach[n - 1] \cup {d \in PE : task_location[d][t] \in Reach[n - 1]}
    IN Reach[Cardinality(PE)]

WillReceive(c, p) ==
    \E k \in pc[c]..Len(Program[c]) : Program[c][k] = [op |-> "receive", peer |-> p]

RequestsAt(d) == {pending[d][k] : k \in DOMAIN pending[d]}
                 \cup UNION {{net[<<s, d>>][k] : k \in DOMAIN net[<<s, d>>]} : s \in Node}

\* Whatever moves were made, and while they are made, the locations lead from
\* every PE with a task that will receive from t, and from every PE a request
\* to t is on its way to, to t itself: no request goes round in circles or
\* comes to a PE that knows nothing of t.
LocationsLead ==
    \A t \in Task, d \in PE :
        \/ \E i \in Page : /\ tcbs[d][i].id \in Task /\ tcbs[d][i].status = "READY"
                           /\ WillReceive(tcbs[d][i].id, t)
        \/ \E m \in RequestsAt(d) : m.service = "MESSAGE_REQUEST" /\ m.producer = t
        => d \in LeadTo(t)

-----------------------------------------------------------------------------
Edge == {e \in Task \X Task :
           \E k \in DOMAIN Program[e[2]] : Program[e[2]][k] = [op |-> "receive", peer |-> e[1]]}

CallsMade(t, op, peer) ==
    Cardinality({k \in 1..(pc[t] - 1) : Program[t][k] = [op |-> op, peer |-> peer]})

put == [e \in Edge |-> CallsMade(e[1], "send", e[2])]
got == [e \in Edge |-> CallsMade(e[2], "receive", e[1])]
wants == [c \in Task |-> IF \E d \in PE, i \in Page : tcbs[d][i].id = c /\ tcbs[d][i].waiting_msg
                         THEN CallOf(c).peer ELSE NoTask]

IsRequest(m, p, c) == m.service = "MESSAGE_REQUEST" /\ m.producer = p /\ m.consumer = c
Carried(m, p, c) == m.service = "MIGRATION_MSG_REQUEST"
                    /\ \E r \in m.data : r.requested = p /\ r.requester = c
InQueue(q, p, c) == Cardinality({k \in DOMAIN q : IsRequest(q[k], p, c) \/ Carried(q[k], p, c)})

\* Where the request of c to p may be: kept at one PE, deferred at one, on one link.
RequestPlaces(p, c) ==
    {<<"kept", d>> : d \in {e \in PE : Matching(e, p, c) # {}}}
    \cup {<<"deferred", d>> : d \in {e \in PE : InQueue(pending[e], p, c) > 0}}
    \cup {<<"sent", l>> : l \in {k \in Node \X Node : InQueue(net[k], p, c) > 0}}

\* A consumer that waits for a message not yet accepted has one request, in one
\* place; one that does not wait, or whose message is on its way, has none.
RequestInOnePlace ==
    \A e \in Edge :
        Cardinality(RequestPlaces(e[1], e[2])) =
            IF wants[e[2]] = e[1] /\ put[e] = got[e] THEN 1 ELSE 0

\* PE d knows where p went.
PassesOn(d, p) == task_location[d][p] \notin {d, NoPE}

\* The place is one from which the request gets to the producer: kept where the
\* producer is or where its code is coming; carried on the link on which the last
\* part of the producer follows; deferred, or on its way, to a PE that has the
\* producer or knows where it went.
RequestOnTrack ==
    \A e \in Edge, d \in PE :
        /\ Matching(d, e[1], e[2]) # {} => d \in Held(e[1])
        /\ \A s \in Node : (\E k \in DOMAIN net[<<s, d>>] : Carried(net[<<s, d>>][k], e[1], e[2]))
                              => <<s, d>> \in InFlight(e[1], "MIGRATION_DATA_BSS")
        /\ \A m \in RequestsAt(d) : IsRequest(m, e[1], e[2]) => d \in Held(e[1]) \/ PassesOn(d, e[1])

\* The request of a consumer that waits is neither lost, doubled nor left behind
\* when its producer moves.
RequestFollowsProducer == RequestInOnePlace /\ RequestOnTrack

Rendezvouses == INSTANCE Rendezvous WITH wants <- wants, put <- put, got <- got

\* Migration is transparent: to the tasks, messages pass as the abstract Send
\* and Receive promise, wherever the tasks have gone meanwhile.
ImplementsRendezvous == Rendezvouses!Spec

\* An order the mapper gave is carried out, at once or when the message the
\* task waits for has come, and the mapper hears of it.
OrdersEnd == \A t \in Task : []<>~moving[t]

=============================================================================
