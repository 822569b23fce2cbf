------------------------------ MODULE AppMapping ------------------------------
(***************************************************************************)
(* The admission and the mapping of applications: the application          *)
(* injector, the global mapper, the local mapper of each cluster and, of   *)
(* the kernels, the load and the end of a task.  The management tasks have *)
(* been initialised: the state begins when the first application may       *)
(* enter.                                                                  *)
(*                                                                         *)
(* Management messages between two ends arrive in order (one route in the  *)
(* packet-switched NoC, one queue in the receiving kernel); those of       *)
(* different senders in any order.                                         *)
(***************************************************************************)
EXTENDS LocalMapper

CONSTANT Quiet   \* what the test of the NoC may find after a message: a
                 \* nonempty subset of BOOLEAN

ASSUME QuietAssumption == Quiet \in SUBSET BOOLEAN \ {{}}

VARIABLES
  lm,     \* the local mappers
  gm,     \* the global mapper
  inj,    \* the application injector
  net,    \* the management messages in flight, by sender and receiver
  kern,   \* what the kernels know of each task: its PE, its mapper, its stage
  kmsg    \* TASK_ALLOCATED and TASK_TERMINATED in flight

vars == <<lm, gm, inj, net, kern, kmsg>>

Node == GlobalMapper .. Injector

\* The messages a component has sent in a step go to their channels.
Route(n, from, out) ==
  [n EXCEPT ![from] =
     [to \in Node |-> @[to] \o
        LET mine == SelectSeq(out, LAMBDA o : o.to = to)
        IN  [k \in DOMAIN mine |-> mine[k].m]]]

Taken(from, to) == [net EXCEPT ![from][to] = Tail(@)]

-----------------------------------------------------------------------------
\* The global mapper (global_mapper.c, cluster_controller.h).

\* The index of the cluster a management task is counted in.  It divides by
\* the number of clusters, and takes x from y.
get_cluster_index_from_PE(p) ==
  LET y == p[2] \div YNum
      x == y \div XNum
  IN  y * XNum + x + 1

\* A larger index writes outside of the clusters: see the README.
ASSUME BootAssumption ==
  \A k \in DOMAIN MaTask : get_cluster_index_from_PE(MaTask[k]) \in Mapper

\* The global mapper itself, the first management task, is counted in the
\* total and in no cluster.
InitialClusters ==
  [c \in Mapper |-> MAX_CLUSTER_TASKS
     - Cardinality({k \in 2 .. Len(MaTask) :
                      get_cluster_index_from_PE(MaTask[k]) = c})]

\* Mutant: the page of the global mapper is forgotten.
TotalWithoutGlobal == MaxLocalTasks * Cardinality(PE) - Len(MaTask) + 1

InitialTotal == MaxLocalTasks * Cardinality(PE) - Len(MaTask)

\* The first cluster with the most free resources; none when no cluster has
\* any.
search_cluster(clusters) ==
  LET best == {c \in Mapper : /\ clusters[c] > 0
                              /\ \A d \in Mapper : clusters[d] <= clusters[c]}
  IN  IF best = {} THEN NoMaster ELSE Min(best)

NoRequest == [tasks |-> 0, cluster |-> NoMaster]

\* A request that does not fit waits, one at most.
handle_new_app_req(g, req) ==
  LET cluster == IF req.cluster = NoMaster THEN search_cluster(g.clusters)
                 ELSE req.cluster
  IN  IF req.tasks > g.total THEN [g EXCEPT !.pending = req]
      ELSE IF cluster = NoMaster THEN [g EXCEPT !.error = "no cluster found"]
      ELSE [g EXCEPT
              !.pending = NoRequest,
              !.total = @ - req.tasks,
              !.next_id = @ + 1,
              !.out = Append(@, [to |-> Injector,
                                 m |-> [type |-> "APP_REQ_ACK", app |-> g.next_id,
                                        cluster |-> cluster]])]

TasksIn(m, c) == Cardinality({i \in DOMAIN m.clusters : m.clusters[i] = c})

\* Mutant: the request that waits is not looked at again.
PendingForgotten(g, m) ==
  [g EXCEPT !.clusters = [c \in Mapper |-> @[c] + TasksIn(m, c)],
            !.total = @ + Len(m.clusters)]

handle_app_terminated(g, m) ==
  LET freed == [g EXCEPT
        !.clusters = [c \in Mapper |-> @[c] + TasksIn(m, c)],
        !.total = @ + Len(m.clusters)]
  IN  IF g.pending = NoRequest THEN freed
      ELSE handle_new_app_req(freed, g.pending)

\* Mutant: a cluster is counted once for all the tasks it has.
AllocatedOnce(g, m) ==
  [g EXCEPT
     !.clusters = [c \in Mapper |-> @[c] - (IF TasksIn(m, c) > 0 THEN 1 ELSE 0)],
     !.out = Append(@, [to |-> Injector, m |-> [type |-> "APP_MAPPING_COMPLETE"]])]

handle_app_allocated(g, m) ==
  [g EXCEPT
     !.clusters = [c \in Mapper |-> @[c] - TasksIn(m, c)],
     !.out = Append(@, [to |-> Injector, m |-> [type |-> "APP_MAPPING_COMPLETE"]])]

GlobalMapperReceives(from) ==
  /\ gm.error = "none"
  /\ net[from][GlobalMapper] # <<>>
  /\ LET m == Head(net[from][GlobalMapper])
         g == CASE m.type = "NEW_APP_REQ" -> handle_new_app_req(gm, m.req)
                [] m.type = "APP_ALLOCATED" -> handle_app_allocated(gm, m)
                [] m.type = "APP_TERMINATED" -> handle_app_terminated(gm, m)
     IN  /\ gm' = [g EXCEPT !.out = <<>>]
         /\ net' = Route(Taken(from, GlobalMapper), GlobalMapper, g.out)
  /\ UNCHANGED <<lm, inj, kern, kmsg>>

-----------------------------------------------------------------------------
\* A local mapper takes a message of another mapper or of the injector, or
\* one of a kernel.
MapperStep(c, m, taken) ==
  \E quiet \in Quiet :
    LET s == MainLoop(c, lm[c], m, quiet)
        released == {t \in UserTask :
                       /\ lm[c].app[t[1]].status = "READY_TO_LOAD"
                       /\ s.app[t[1]].status = "RUNNING"}
    IN  /\ lm' = [lm EXCEPT ![c] = [s EXCEPT !.out = <<>>]]
        /\ net' = Route(taken, c, s.out)
        /\ kern' = [t \in UserTask |->
                      IF t \in released THEN [kern[t] EXCEPT !.stage = "released"]
                      ELSE kern[t]]

MapperReceives(c, from) ==
  /\ ~Failed(lm[c])
  /\ net[from][c] # <<>>
  /\ MapperStep(c, Head(net[from][c]), Taken(from, c))
  /\ UNCHANGED <<gm, inj, kmsg>>

MapperHearsKernel(c, k) ==
  /\ ~Failed(lm[c])
  /\ k \in kmsg /\ kern[k.task].master = c
  /\ MapperStep(c, k, net)
  /\ kmsg' = kmsg \ {k}
  /\ UNCHANGED <<gm, inj>>

-----------------------------------------------------------------------------

\* The injector reads the next application once the one before is mapped.
InjectorAsks ==
  /\ inj.ready /\ inj.read < Len(Apps)
  /\ LET app == Apps[inj.read + 1]
     IN  net' = [net EXCEPT ![Injector][GlobalMapper] =
                   Append(@, [type |-> "NEW_APP_REQ",
                              req |-> [tasks |-> Len(app.place),
                                       cluster |-> app.cluster]])]
  /\ inj' = [read |-> inj.read + 1, ready |-> FALSE]
  /\ UNCHANGED <<lm, gm, kern, kmsg>>

\* The answer of the global mapper: the descriptor of the application goes to
\* its mapper.
InjectorSendsApp ==
  /\ net[GlobalMapper][Injector] # <<>>
  /\ LET m == Head(net[GlobalMapper][Injector])
     IN  /\ m.type = "APP_REQ_ACK"
         /\ net' = [Taken(GlobalMapper, Injector) EXCEPT ![Injector][m.cluster] =
                      Append(@, [type |-> "NEW_APP", app |-> m.app])]
  /\ UNCHANGED <<lm, gm, inj, kern, kmsg>>

InjectorMappingComplete ==
  /\ net[GlobalMapper][Injector] # <<>>
  /\ Head(net[GlobalMapper][Injector]).type = "APP_MAPPING_COMPLETE"
  /\ inj' = [inj EXCEPT !.ready = TRUE]
  /\ net' = Taken(GlobalMapper, Injector)
  /\ UNCHANGED <<lm, gm, kern, kmsg>>

\* The injector sends the code of a task to its PE, whose kernel allocates a
\* TCB for it and tells the mapper.
LoadTask(c) ==
  /\ net[c][Injector] # <<>>
  /\ LET m == Head(net[c][Injector])
     IN  /\ kern' = [kern EXCEPT ![m.task] = [proc |-> m.proc, master |-> m.master,
                                              stage |-> "allocated"]]
         /\ kmsg' = kmsg \cup {[type |-> "TASK_ALLOCATED", task |-> m.task]}
  /\ net' = Taken(c, Injector)
  /\ UNCHANGED <<lm, gm, inj>>

\* EXIT of a released task.
TaskExits(t) ==
  /\ kern[t].stage = "released"
  /\ kern' = [kern EXCEPT ![t].stage = "ended"]
  /\ kmsg' = kmsg \cup {[type |-> "TASK_TERMINATED", task |-> t]}
  /\ UNCHANGED <<lm, gm, inj, net>>

-----------------------------------------------------------------------------
Init ==
  /\ lm = [c \in Mapper |-> NewMapper(c)]
  /\ gm = [clusters |-> InitialClusters, total |-> InitialTotal,
           pending |-> NoRequest, next_id |-> 1, error |-> "none", out |-> <<>>]
  /\ inj = [read |-> 0, ready |-> TRUE]
  /\ net = [from \in Node |-> [to \in Node |-> <<>>]]
  /\ kern = [t \in UserTask |-> [proc |-> NoProc, master |-> NoMaster,
                                 stage |-> "unknown"]]
  /\ kmsg = {}

Next ==
  \/ InjectorAsks
  \/ InjectorSendsApp
  \/ InjectorMappingComplete
  \/ \E from \in Node : GlobalMapperReceives(from)
  \/ \E c \in Mapper, from \in Node : MapperReceives(c, from)
  \/ \E c \in Mapper : \E k \in kmsg : MapperHearsKernel(c, k)
  \/ \E c \in Mapper : LoadTask(c)
  \/ \E t \in UserTask : TaskExits(t)

\* Weak fairness of the steps of a mapper, with their enabling written out:
\* TLC is slow on ENABLED of a whole handler.
FairlyHeard(c, d) ==
  \/ []<>(Failed(lm[c]) \/ net[d][c] = <<>>)
  \/ []<><<MapperReceives(c, d)>>_vars

FairlyServed(c) ==
  \/ []<>(Failed(lm[c]) \/ /\ net[Injector][c] = <<>>
                           /\ \A k \in kmsg : kern[k.task].master # c)
  \/ []<><<\/ MapperReceives(c, Injector)
           \/ \E k \in kmsg : MapperHearsKernel(c, k)>>_vars

\* Every component goes on while it has something to do, and a mapper hears
\* each of its peers in the end, whatever the others send.  Only mappers may
\* exchange messages for ever (the rounds of loans): every other channel
\* carries a bounded number, and needs no fairness of its own.
Fairness ==
  /\ WF_vars(InjectorAsks \/ InjectorSendsApp \/ InjectorMappingComplete
               \/ \E c \in Mapper : LoadTask(c))
  /\ WF_vars(\E from \in Node : GlobalMapperReceives(from))
  /\ \A c \in Mapper : FairlyServed(c)
  /\ \A c, d \in Mapper : FairlyHeard(c, d)
  /\ WF_vars(\E t \in UserTask : TaskExits(t))

Spec == Init /\ [][Next]_vars

FairSpec == Spec /\ Fairness

-----------------------------------------------------------------------------
\* The messages in flight, as a set of records: at most one copy of each.
InFlight(type) ==
  {m \in UNION {ToSet(net[from][to]) : from, to \in Node} : m.type = type}

Stage == {"unknown", "allocated", "released", "ended"}
AppStatus == {"FREE", "WAITING_RECLUSTERING", "READY_TO_LOAD", "RUNNING"}
TaskStatus == {"REQUESTED", "ALLOCATED", "TASK_RUNNING", "TERMINATED_TASK"}

\* Types, and the count of a mapper is that of the pages of its PEs
\* (free_resources, resoucer_controller.h:32, 49).
TypeOK ==
  /\ \A c \in Mapper :
       LET s == lm[c] IN
       /\ s.page \in [PEs(c) -> SUBSET (MaTaskId \cup UserTask)]
       /\ s.free_resources =
            MAX_CLUSTER_TASKS - MapThenSumSet(LAMBDA p : Cardinality(s.page[p]), PEs(c))
       /\ s.pending_app_to_map \in 0 .. Len(Apps)
       /\ \A a \in AppId :
            /\ s.app[a].status \in AppStatus
            /\ \A i \in DOMAIN s.app[a].task :
                 s.app[a].task[i] \in [proc : PE \cup {NoProc},
                                       master : Mapper \cup {NoMaster},
                                       status : TaskStatus]
       /\ s.out = <<>>
  /\ gm.clusters \in [Mapper -> Int] /\ gm.total \in Nat
  /\ inj \in [read : 0 .. Len(Apps), ready : BOOLEAN]
  /\ kern \in [UserTask -> [proc : PE \cup {NoProc}, master : Mapper \cup {NoMaster},
                            stage : Stage]]
  /\ kmsg \subseteq [type : {"TASK_ALLOCATED", "TASK_TERMINATED"}, task : UserTask]

-----------------------------------------------------------------------------
\* Why a page may be taken: a task is placed in it, by the mapper of its
\* cluster or by one that borrowed it; the round of another mapper has chosen
\* it; it is offered to another mapper, or on its way back from it.  A reason
\* names the cluster of the page, its PE, its task and what holds it.
PlacedReasons ==
  LET task(d, t) == lm[d].app[t[1]].task[t[2]]
      placed == {dt \in Mapper \X UserTask :
                   /\ dt[2][2] \in DOMAIN lm[dt[1]].app[dt[2][1]].task
                   /\ task(dt[1], dt[2]).proc # NoProc
                   /\ task(dt[1], dt[2]).status # "TERMINATED_TASK"}
  IN  {LET me == task(dt[1], dt[2])
       IN  <<IF me.master = NoMaster THEN dt[1] ELSE me.master, me.proc, dt[2],
             <<"placed", dt[1]>>>> : dt \in placed}

ChosenReasons ==
  {LET rec == lm[d].reclustering
   IN  <<rec.master, rec.proc, rec.task, <<"chosen", d>>>> :
     d \in {d \in Mapper : /\ lm[d].reclustering.active
                           /\ lm[d].reclustering.proc # NoProc}}

OfferedReasons ==
  UNION {{<<c, m.proc, m.task, <<"offered", d>>>> :
            m \in {m \in ToSet(net[c][d]) : m.type = "LOAN_PROCESSOR_DELIVERY"
                                            /\ m.proc # NoProc}} :
         c, d \in Mapper}

ReturnedReasons ==
  UNION {{<<c, m.proc, m.task, <<m.type, d>>>> :
            m \in {m \in ToSet(net[d][c]) :
                     m.type \in {"LOAN_PROCESSOR_RELEASE",
                                 "TASK_TERMINATED_OTHER_CLUSTER"}}} :
         c, d \in Mapper}

UserPages ==
  UNION {UNION {{<<c, p, t>> : t \in lm[c].page[p] \ MaTaskId} : p \in PEs(c)} :
         c \in Mapper}

\* Every page a mapper counts as taken is taken for exactly one reason, here,
\* in another mapper or in a message: none is lost, none is lent or returned
\* twice (page_used and page_released, resoucer_controller.h:27-52, and the
\* loans, reclustering.h:261-330).
PagesConserved ==
  LET reasons == PlacedReasons \cup ChosenReasons \cup OfferedReasons
                   \cup ReturnedReasons
  IN  /\ UserPages = {<<r[1], r[2], r[3]>> : r \in reasons}
      /\ Cardinality(UserPages) = Cardinality(reasons)

\* The kernels are not asked to load a task without a free TCB: what the
\* mappers count as free is free (search_free_TCB stops the kernel).
KernelsHavePages ==
  \A p \in PE :
    Cardinality({k \in DOMAIN MaTask : MaTask[k] = p})
      + Cardinality({t \in UserTask : /\ kern[t].proc = p
                                      /\ kern[t].stage \in {"allocated", "released"}})
    <= MaxLocalTasks

\* The two together: the books of a mapper say what is used, and they and the
\* kernels agree, across loans, refusals and ends of tasks.
PagesTrue == PagesConserved /\ KernelsHavePages

\* A mapper waits for as many answers as there are requests and answers of
\* its round in flight, and only during a round (reclustering.h:166-229,302).
RoundCounted ==
  \A c \in Mapper :
    LET rec == lm[c].reclustering
        asked == {m \in InFlight("LOAN_PROCESSOR_REQUEST") : m.from = c}
        requests == {d \in Mapper : ToSet(net[c][d]) \cap asked # {}}
        answers == {d \in Mapper : \E k \in DOMAIN net[d][c] :
                      net[d][c][k].type = "LOAN_PROCESSOR_DELIVERY"}
    IN  /\ requests \cap answers = {}
        /\ Cardinality(requests \cup answers) = IF rec.active THEN rec.pending ELSE 0

\* A mapper counts the applications that wait for a loan, so that it looks
\* for one exactly when there is one (local_mapper.c:406,
\* application.h:151-154).
PendingCounted ==
  \A c \in Mapper :
    ~Failed(lm[c]) =>
      lm[c].pending_app_to_map =
        Cardinality({a \in AppId : lm[c].app[a].status = "WAITING_RECLUSTERING"})

\* Of all the error loops of the mappers only one is reached: the search of
\* a first PE in a full cluster.  None finds its books wrong, gets a task it
\* does not know or an application without a slot.
OnlyFullClusterStops ==
  /\ gm.error = "none"
  /\ \A c \in Mapper : lm[c].error \in {"none", "no page to begin with"}

\* The applications that the global mapper has admitted and that are not yet
\* announced to it as allocated.
Admitted(a) == a < gm.next_id
Announced(a) ==
  /\ Admitted(a)
  /\ \/ \E c \in Mapper : lm[c].app[a].status = "RUNNING"
     \/ \A i \in TasksOf(a) : kern[<<a, i>>].stage = "ended"

\* One application at a time is mapped in the whole system, whichever its
\* mapper, so that one mapper at most asks for loans; and the descriptor the
\* injector has read is that of the application admitted
\* (app_injector.cpp:205-211, global_mapper.c:379-383).
OneAtATime ==
  /\ Cardinality({a \in AppId : Admitted(a) /\ ~Announced(a)}) <= 1
  /\ Cardinality({c \in Mapper : lm[c].reclustering.active}) <= 1
  /\ \A m \in InFlight("APP_REQ_ACK") : m.app = inj.read

\* The counts by which mappers lend and borrow are true at every moment: answers
\* awaited, applications pending, and one borrower in the whole system.
LoansInOrder == RoundCounted /\ PendingCounted /\ OneAtATime

\* The pages an admitted application still needs exist: free in some
\* cluster, offered to it, or on their way back to a cluster.  The total of
\* the global mapper never promises a page twice, although it is counted by
\* applications and the pages by tasks (global_mapper.c:379, 405, 457).
NeverOverbooked ==
  LET needed(a) ==
        IF ~Admitted(a) \/ Announced(a) THEN 0
        ELSE Cardinality({i \in TasksOf(a) :
               \A c \in Mapper : \A p \in PEs(c) : <<a, i>> \notin lm[c].page[p]})
  IN  MapThenSumSet(needed, AppId) <=
        MapThenSumSet(LAMBDA c : lm[c].free_resources, Mapper)
          + Cardinality(ReturnedReasons)

\* The sums of the whole system are back at their first values whenever
\* nothing runs and nothing is under way: no page is leaked and no count
\* drifts, in the mappers and in the global mapper, whatever was lent.
AccountsReturn ==
  (/\ \A from, to \in Node : net[from][to] = <<>>
   /\ kmsg = {}
   /\ \A t \in UserTask : kern[t].stage \in {"unknown", "ended"}
   /\ \A c \in Mapper : lm[c].error = "none" /\ ~lm[c].reclustering.active
                        /\ lm[c].pending_app_to_map = 0)
  => /\ gm.clusters = InitialClusters
     /\ gm.total = InitialTotal
     /\ \A c \in Mapper : lm[c].page = NewMapper(c).page
                          /\ lm[c].free_resources = NewMapper(c).free_resources

\* A mapper that waits for a message with an application to map: it has not
\* looked for a loan after the last one (local_mapper.c:406), and nobody writes.
WorkLeft ==
  \E c \in Mapper :
    /\ ~Failed(lm[c]) /\ lm[c].pending_app_to_map > 0 /\ ~lm[c].reclustering.active
    /\ kmsg = {} /\ \A from, to \in Node : net[from][to] = <<>>

\* Every application of the list runs in the end: one that does not fit in
\* its cluster is completed by loans, one that does not fit in the system is
\* admitted when another has ended (local_mapper.c:139-158, 406,
\* reclustering.h:335-377, global_mapper.c:379, 467-474). Only a NoC that is
\* busy at the wrong moment stands in the way.
AllApplicationsRun == \A a \in AppId : <>(Announced(a) \/ WorkLeft)

=============================================================================
