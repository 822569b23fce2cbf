----------------------------- MODULE LocalMapper -----------------------------
(***************************************************************************)
(* The local mapper (local_mapper.c and its headers): the pages of the PEs *)
(* of its cluster, the applications it is responsible for, and the loans   *)
(* of PEs between clusters (reclustering.h).                               *)
(*                                                                         *)
(* A handler is an operator from the state s of a mapper to its state      *)
(* after the handler, with the messages it has sent appended to s.out.     *)
(* The code stops for ever in while(1) where it finds its books wrong:     *)
(* s.error then names the reason, and what follows in the handler is not   *)
(* done.                                                                   *)
(***************************************************************************)
EXTENDS MappingGrid, Sequences, FiniteSetsExt, SequencesExt

CONSTANTS
  MaTask,   \* the PE of each management task; the mapper c is at MaTask[c + 1]
  Apps      \* the applications of appstart.txt: [cluster, place], where place
            \* gives each task its static PE, or NoProc

ASSUME MaTaskAssumption ==
  /\ MaTask \in Seq(PE)
  /\ Len(MaTask) > XNum * YNum
  /\ \A c \in Mapper : MaTask[c + 1] \in PEs(c)

ASSUME AppsAssumption ==
  \A a \in DOMAIN Apps :
    /\ Apps[a].cluster \in Mapper \cup {NoMaster}
    /\ Apps[a].place \in Seq(PE \cup {NoProc}) \ {<<>>}

AppId == DOMAIN Apps
Injector == XNum * YNum + 1

TasksOf(a) == DOMAIN Apps[a].place

\* (app_ID << 8) | index; the management tasks are those of application 0.
UserTask == UNION {{<<a, i>> : i \in TasksOf(a)} : a \in AppId}
MaTaskId == {<<0, k>> : k \in DOMAIN MaTask}

net_address(c) == MaTask[c + 1]

-----------------------------------------------------------------------------
FreeApp == [status |-> "FREE", task |-> <<>>]

NewMapper(c) ==
  LET used(p) == {<<0, k>> : k \in {k \in DOMAIN MaTask : MaTask[k] = p}}
  IN  [page |-> [p \in PEs(c) |-> used(p)],
       free_resources |->
         MAX_CLUSTER_TASKS - Cardinality(UNION {used(p) : p \in PEs(c)}),
       pending_app_to_map |-> 0,
       app |-> [a \in AppId |-> FreeApp],
       reclustering |-> [active |-> FALSE, task |-> <<0, 0>>, pending |-> 0,
                         min_hops |-> 0, proc |-> NoProc,
                         master |-> NoMaster, level |-> 0],
       error |-> "none",
       out |-> <<>>]

Failed(s) == s.error # "none"
Fail(s, reason) == [s EXCEPT !.error = reason]

Send(s, to, message) == [s EXCEPT !.out = Append(@, [to |-> to, m |-> message])]

OpenPEs(c, s) == {p \in PEs(c) : Cardinality(s.page[p]) < MaxLocalTasks}

\* add_task and its count.
page_used(s, p, t) ==
  IF p \notin DOMAIN s.page THEN Fail(s, "processor not found")
  ELSE IF Cardinality(s.page[p]) = MaxLocalTasks THEN Fail(s, "free pages is 0")
  ELSE IF t \in s.page[p] THEN Fail(s, "task already added")
  ELSE [s EXCEPT !.page[p] = @ \cup {t}, !.free_resources = @ - 1]

\* remove_task and its count.
page_released(s, p, t) ==
  IF p \notin DOMAIN s.page THEN Fail(s, "processor not found")
  ELSE IF t \notin s.page[p] THEN Fail(s, "task not found to remove")
  ELSE [s EXCEPT !.page[p] = @ \ {t}, !.free_resources = @ + 1]

-----------------------------------------------------------------------------
\* Placing a new application.

\* The slot of a finished application keeps the states of its tasks, which
\* request_application overwrites before they are read.
NewApp(a) ==
  [status |-> "FREE",
   task |-> [i \in TasksOf(a) |-> [proc |-> Apps[a].place[i],
                                   master |-> NoMaster,
                                   status |-> "REQUESTED"]]]

read_and_create_application(s, a) ==
  IF Cardinality({b \in AppId : s.app[b].task # <<>>}) = MAX_CLUSTER_TASKS
  THEN Fail(s, "application not found")
  ELSE [s EXCEPT !.app[a] = NewApp(a), !.pending_app_to_map = @ + 1]

\* The open PE with the largest mean distance to the first tasks of the
\* running applications; the upper left PE when none runs; NoProc when some
\* runs and no PE is open.
initial_app_pe(c, s) ==
  LET running == {a \in AppId : s.app[a].status = "RUNNING"}
      far(p) == MapThenSumSet(LAMBDA a : Hops(p, s.app[a].task[1].proc), running)
                  \div Cardinality(running)
      open == OpenPEs(c, s)
  IN  IF running = {}
      THEN <<cluster_x_offset(c), cluster_y_offset(c) + YCluster - 1>>
      ELSE IF open = {} THEN NoProc
      ELSE FirstPE({p \in open : \A q \in open : far(q) <= far(p)})

\* One task of application_mapping.  A task without a PE has ended the loop.
\* The search asks for the free pages of the PE it begins with, and does not
\* return when that is -1.
MapTask(c, s, start, a, i) ==
  LET static == Apps[a].place[i]
      proc == IF static # NoProc THEN static
              ELSE diamond_search_initial(start, OpenPEs(c, s))
  IN  IF Failed(s) \/ \E j \in 1 .. i - 1 : s.app[a].task[j].proc = NoProc
      THEN s
      ELSE IF static = NoProc /\ start = NoProc
      THEN Fail(s, "no page to begin with")
      ELSE IF proc = NoProc THEN s
      ELSE page_used([s EXCEPT !.app[a].task[i].proc = proc], proc, <<a, i>>)

application_mapping(c, s, a) ==
  LET start == initial_app_pe(c, s)
  IN  FoldLeft(LAMBDA acc, i : MapTask(c, acc, start, a, i), s,
               [i \in TasksOf(a) |-> i])

Unplaced(s, a) == {i \in TasksOf(a) : s.app[a].task[i].proc = NoProc}

\* request_application with READY_TO_LOAD: the injector is asked to load each
\* task.
request_application(c, s, a) ==
  LET ready == [s EXCEPT
        !.app[a].status = "READY_TO_LOAD",
        !.app[a].task = [i \in DOMAIN @ |-> [@[i] EXCEPT !.status = "REQUESTED"]],
        !.pending_app_to_map = @ - 1]
  IN  FoldLeft(LAMBDA acc, i :
                 Send(acc, Injector,
                      [type |-> "APP_ALLOCATION_REQUEST", task |-> <<a, i>>,
                       proc |-> s.app[a].task[i].proc, master |-> c]),
               ready, [i \in TasksOf(a) |-> i])

handle_new_app(c, s, a) ==
  LET created == read_and_create_application(s, a)
      mapped == application_mapping(c, created, a)
  IN  IF Failed(created) THEN created
      ELSE IF Failed(mapped) THEN mapped
      ELSE IF Unplaced(mapped, a) = {} THEN request_application(c, mapped, a)
      ELSE [mapped EXCEPT !.app[a].status = "WAITING_RECLUSTERING"]

-----------------------------------------------------------------------------
\* Loans of PEs between clusters.

\* A round asks every cluster of the level, by increasing identifier.
fires_reclustering_protocol(c, s) ==
  LET asked == AtLevel(c, s.reclustering.level)
      task == s.reclustering.task
      first == s.app[task[1]].task[1].proc
      ref == IF first = NoProc THEN net_address(c) ELSE first
      fresh == [s EXCEPT !.reclustering.pending = Cardinality(asked),
                         !.reclustering.proc = NoProc,
                         !.reclustering.master = NoMaster,
                         !.reclustering.min_hops = 16777215]
  IN  FoldLeft(LAMBDA acc, d :
                 Send(acc, d, [type |-> "LOAN_PROCESSOR_REQUEST", from |-> c,
                               task |-> task, ref |-> ref]),
               fresh, SetToSortSeq(asked, <))

\* The first task without a PE; nothing to do when there is none.
reclustering_next_task(c, s, a) ==
  IF Unplaced(s, a) = {} THEN s
  ELSE fires_reclustering_protocol(c,
         [s EXCEPT !.reclustering.active = TRUE,
                   !.reclustering.task = <<a, Min(Unplaced(s, a))>>,
                   !.reclustering.level = 1])

handle_loan_request(c, s, m) ==
  LET proc == reclustering_map(m.ref, OpenPEs(c, s))
      delivery(p, hops) == [type |-> "LOAN_PROCESSOR_DELIVERY", from |-> c,
                            task |-> m.task, hops |-> hops, proc |-> p]
  IN  IF s.free_resources < 1
      THEN Send(s, m.from, delivery(NoProc, -1))
      ELSE page_used(Send(s, m.from, delivery(proc, Hops(m.ref, proc))),
                     proc, m.task)

\* Mutant: the PE chosen so far is not given back.
KeepsBoth(c, s, m) ==
  IF m.proc # NoProc /\ m.hops < s.reclustering.min_hops
  THEN [s EXCEPT !.reclustering.min_hops = m.hops,
                 !.reclustering.proc = m.proc,
                 !.reclustering.master = m.from]
  ELSE s

\* One answer of the round: the nearest PE so far is kept, another one is
\* given back.
KeepNearest(c, s, m) ==
  LET rec == s.reclustering
      release(p) == [type |-> "LOAN_PROCESSOR_RELEASE", from |-> c,
                     task |-> m.task, proc |-> p]
      given == IF rec.proc = NoProc THEN s
               ELSE Send(s, rec.master, release(rec.proc))
  IN  IF m.proc = NoProc THEN s
      ELSE IF m.hops < rec.min_hops
      THEN [given EXCEPT !.reclustering.min_hops = m.hops,
                         !.reclustering.proc = m.proc,
                         !.reclustering.master = m.from]
      ELSE Send(s, m.from, release(m.proc))

\* The end of a round: the task is placed and the next one looked at, or the
\* clusters of the next level are asked, from the first one after the last.
EndOfRound(c, s) ==
  LET rec == s.reclustering
      a == rec.task[1]
      i == rec.task[2]
  IN  IF rec.proc # NoProc
      THEN reclustering_next_task(c,
             [s EXCEPT !.reclustering.active = FALSE,
                       !.app[a].task[i].proc = rec.proc,
                       !.app[a].task[i].master = rec.master], a)
      ELSE fires_reclustering_protocol(c,
             [s EXCEPT !.reclustering.level =
                IF @ + 1 > max_neighbors_level THEN 1 ELSE @ + 1])

\* Mutant: only an answer that lends a PE is counted.
RefusalUncounted(c, s, m) ==
  LET counted == IF m.proc = NoProc THEN s
                 ELSE [s EXCEPT !.reclustering.pending = @ - 1]
      kept == KeepNearest(c, counted, m)
  IN  IF kept.reclustering.pending = 0 THEN EndOfRound(c, kept) ELSE kept

handle_loan_delivery(c, s, m) ==
  LET counted == [s EXCEPT !.reclustering.pending = @ - 1]
      kept == KeepNearest(c, counted, m)
  IN  IF kept.reclustering.pending = 0 THEN EndOfRound(c, kept) ELSE kept

-----------------------------------------------------------------------------
\* Start and end of the tasks.

\* With its last task loaded, the application is announced to the global
\* mapper and its tasks are released.
handle_task_allocated(c, s, t) ==
  LET a == t[1]
      allocated == [s EXCEPT !.app[a].task[t[2]].status = "ALLOCATED"]
      task == allocated.app[a].task
      announced == Send(allocated, GlobalMapper,
        [type |-> "APP_ALLOCATED", app |-> a,
         clusters |-> [i \in DOMAIN task |->
                         IF task[i].master = NoMaster THEN c ELSE task[i].master]])
  IN  IF s.app[a].task = <<>> THEN Fail(s, "application not found")
      ELSE IF \E i \in DOMAIN task : task[i].status # "ALLOCATED" THEN allocated
      ELSE [announced EXCEPT
              !.app[a].status = "RUNNING",
              !.app[a].task = [i \in DOMAIN @ |->
                                 [@[i] EXCEPT !.status = "TASK_RUNNING"]]]

\* The page of the task is free again, here or in the cluster that lent it;
\* with its last task the application is removed.  terminated_tasks is the
\* number of tasks with that status.
handle_task_terminated(c, s, t) ==
  LET a == t[1]
      marked == [s EXCEPT !.app[a].task[t[2]].status = "TERMINATED_TASK"]
      task == marked.app[a].task
      me == task[t[2]]
      freed == IF me.master = NoMaster THEN page_released(marked, me.proc, t)
               ELSE Send(marked, me.master,
                         [type |-> "TASK_TERMINATED_OTHER_CLUSTER",
                          task |-> t, proc |-> me.proc])
  IN  IF s.app[a].task = <<>> THEN Fail(s, "application not found")
      ELSE IF Failed(freed) THEN freed
      ELSE IF \E i \in DOMAIN task : task[i].status # "TERMINATED_TASK" THEN freed
      ELSE [Send(freed, GlobalMapper,
                 [type |-> "APP_TERMINATED", app |-> a,
                  clusters |-> [i \in DOMAIN task |->
                    IF task[i].master = NoMaster THEN c ELSE task[i].master]])
              EXCEPT !.app[a] = FreeApp]

-----------------------------------------------------------------------------
handle_message(c, s, m) ==
  CASE m.type = "NEW_APP" -> handle_new_app(c, s, m.app)
    [] m.type = "TASK_ALLOCATED" -> handle_task_allocated(c, s, m.task)
    [] m.type = "TASK_TERMINATED" -> handle_task_terminated(c, s, m.task)
    [] m.type \in {"TASK_TERMINATED_OTHER_CLUSTER", "LOAN_PROCESSOR_RELEASE"} ->
         page_released(s, m.proc, m.task)
    [] m.type = "LOAN_PROCESSOR_REQUEST" -> handle_loan_request(c, s, m)
    [] m.type = "LOAN_PROCESSOR_DELIVERY" -> handle_loan_delivery(c, s, m)
    [] OTHER -> Fail(s, "message unknown")

\* The oldest application that waits: all its tasks placed, it is loaded,
\* otherwise a loan is asked for.
handle_pending_application(c, s) ==
  LET waiting == {a \in AppId : s.app[a].status = "WAITING_RECLUSTERING"}
      a == Min(waiting)
  IN  IF waiting = {} THEN Fail(s, "no one app waiting reclustering")
      ELSE IF Unplaced(s, a) = {} THEN request_application(c, s, a)
      ELSE reclustering_next_task(c, s, a)

\* Mutant: a pending application is looked for without the count.
AlwaysLooks(c, s, m, quiet) ==
  LET handled == handle_message(c, s, m)
  IN  IF ~Failed(handled) /\ quiet /\ ~handled.reclustering.active
      THEN handle_pending_application(c, handled)
      ELSE handled

\* The body of the loop of main(): one message, then a pending application if
\* the NoC is quiet at that moment (IncomingPacket, NoCSendFree).
MainLoop(c, s, m, quiet) ==
  LET handled == handle_message(c, s, m)
  IN  IF ~Failed(handled) /\ quiet /\ ~handled.reclustering.active
           /\ handled.pending_app_to_map > 0
      THEN handle_pending_application(c, handled)
      ELSE handled

=============================================================================
