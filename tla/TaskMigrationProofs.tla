------------------------- MODULE TaskMigrationProofs -------------------------
(***************************************************************************)
(* For any number of PEs, tasks, pages and moves, when no task with a      *)
(* period moves. First part: a task in transit is neither lost nor         *)
(* doubled, and never runs before all of it has come, whatever kernel      *)
(* stops meanwhile. The inductive invariant gives each task a journey:     *)
(* where it is, where the mapper sends it, and how far it is on that way.  *)
(*                                                                         *)
(* Second part: messages find their tasks wherever these go: the request   *)
(* of a consumer is in one place, there is one as long as no kernel has    *)
(* stopped, and what the tasks see of their calls is a Rendezvous. The     *)
(* invariant adds to the journeys an errand of each consumer: the one      *)
(* thing that is under way or kept for it.                                 *)
(*                                                                         *)
(* Third part: that place is one from which the request gets to its        *)
(* producer, until a task has come to its exit. The invariant says so of   *)
(* every place a request may come to, and of all the locations that send   *)
(* it there.                                                               *)
(***************************************************************************)
EXTENDS TaskMigration, QueueLemmas, NaturalsInduction, FiniteSetTheorems

-----------------------------------------------------------------------------
(* Journeys *)

\* Nobody moves the task; its order is in a packet, deferred, or kept for the
\* message the task waits for; the task has left; its kernel stopped on the order.
Phase == {"home", "ordered", "deferred", "kept", "left", "stuck"}
Journey == [phase : Phase, from : PE, to : PE]
Way(j) == <<j.from, j.to>>

-----------------------------------------------------------------------------
(* Packets *)

\* The links.
Link == Node \X Node

\* The packets, by what they carry.
Bare == [service : {"MIGRATION_CODE", "MIGRATION_TCB", "MIGRATION_STACK", "MIGRATION_DATA_BSS"},
         task : Task, data : {{}}]
Locations == [service : {"MIGRATION_TASK_LOCATION"}, task : Task, data : [Task -> PE \cup {NoPE}]]
RequestList == [service : {"MIGRATION_MSG_REQUEST"}, task : Task, data : SUBSET Requests]
TaskPart == Bare \cup Locations \cup RequestList
Order == [service : {"TASK_MIGRATION"}, task : Task, to : PE]
Report == [service : {"TASK_MIGRATED"}, task : Task]
Ask == [service : {"MESSAGE_REQUEST"}, producer : Task, consumer : Task, proc : PE]
Answer == [service : {"MESSAGE_DELIVERY"}, producer : Task, consumer : Task]
Packet == TaskPart \cup Order \cup Report \cup Ask \cup Answer

\* The first and the last packet of a task that moves.
CODE(t) == MIGRATION("MIGRATION_CODE", t, {})
DATA_BSS(t) == MIGRATION("MIGRATION_DATA_BSS", t, {})
PacketOf(part, t) ==
    CASE part = "code" -> CODE(t)
      [] part = "registers" -> MIGRATION("MIGRATION_TCB", t, {})
      [] part = "stack" -> MIGRATION("MIGRATION_STACK", t, {})

\* The packets about task t.
About(t, m) == m \in TaskPart \cup Order \cup Report /\ m.task = t

-----------------------------------------------------------------------------
(* The inductive invariant *)

\* The types of the variables, as far as steps rely on them.
Typed ==
    /\ kernel \in [PE -> {"ok", "error"}]
    /\ tcbs \in [PE -> [Page -> TCB]]
    /\ message_request \in [PE -> SUBSET Requests]
    /\ task_location \in [PE -> [Task -> PE \cup {NoPE}]]
    /\ pending \in [PE -> Seq(Ask \cup Order)]
    /\ net \in [Link -> Seq(Packet)]
    /\ \A s \in Node : net[<<s, Manager>>] \in Seq(Report)
    /\ pc \in [Task -> Nat] /\ \A t \in Task : pc[t] \in 1..Len(Program[t]) + 1
    /\ moving \in [Task -> BOOLEAN]
    /\ moves \in [Task -> Nat] /\ \A t \in Task : moves[t] <= MaxMoves[t]

\* The task has called exit.
Exited(t) == t \in Exits /\ CallOf(t).op = "end"

\* What may stand in the TCB x of a PE whose kernel is in state k.
Sound(k, x) ==
    /\ x.status = "READY" => x.parts = Part
    /\ x.waiting_msg => x.status = "READY" /\ x.id \in Task /\ CallOf(x.id).op = "receive"
    /\ x.status = "FREE" /\ x.id \in Task => Exited(x.id)
    /\ k = "ok" /\ x.proc_to_migrate # NoPE => x.waiting_msg
SoundTCBs == \A d \in PE : \A i \in Page : Sound(kernel[d], tcbs[d][i])

\* Task t is at the beginning of its journey, or at its end on a page it cannot
\* run from; and on no other page.
Pages(t, j) ==
    /\ \A d \in PE : \A i \in Page : tcbs[d][i].id = t =>
         /\ IF tcbs[d][i].status = "MIGRATING"
            THEN d = j.to /\ j.phase \in {"kept", "left", "stuck"}
            ELSE d = j.from /\ j.phase # "left"
         /\ kernel[d] = "ok" /\ tcbs[d][i].proc_to_migrate # NoPE =>
                j.phase = "kept" /\ tcbs[d][i].proc_to_migrate = j.to
    /\ \A d \in PE : \A i, k \in Page : tcbs[d][i].id = t /\ tcbs[d][k].id = t => i = k

\* A page of d has the task's id; one has that part of it.
IsAt(t, d) == \E i \in Page : tcbs[d][i].id = t
HasPart(t, d, part) == \E i \in Page : tcbs[d][i].id = t /\ part \in tcbs[d][i].parts

\* Where a packet m about task t may be.
Placed(t, j, l, m) ==
    /\ m \in TaskPart =>
           l = Way(j) /\ j.phase \in IF m = CODE(t) THEN {"kept", "left", "stuck"} ELSE {"left"}
    /\ m \in Order => l = <<Manager, j.from>> /\ j.phase = "ordered" /\ m.to = j.to
    /\ m \in Report => l[2] = Manager /\ j.phase \in {"home", "left"} /\ moving[t]

\* The packets about t in the network q are where they may be, none twice where
\* that matters, the last part last; and the code comes where t is not.
Sent(t, j, q) ==
    /\ \A l \in Link : \A m \in Contents(q[l]) : About(t, m) => Placed(t, j, l, m)
    /\ \A l \in Link : \A m \in {CODE(t), TASK_MIGRATION(t, j.to), TASK_MIGRATED(t)} :
           ~Before(q[l], m, m)
    /\ \A k, l \in Link : TASK_MIGRATED(t) \in Contents(q[k]) \cap Contents(q[l]) => k = l
    /\ \A m \in Contents(q[Way(j)]) : About(t, m) => ~Before(q[Way(j)], DATA_BSS(t), m)
    /\ CODE(t) \in Contents(q[Way(j)]) => ~IsAt(t, j.to)

\* The order deferred.
Kept(t, j, p) ==
    \A d \in PE : \A m \in Contents(p[d]) : About(t, m) =>
        d = j.from /\ j.phase = "deferred" /\ m.to = j.to /\ ~Before(p[d], m, m)

\* What has left is there or before the last part, which is on its way.
Complete(t, j, q) ==
    /\ j.phase = "kept" /\ kernel[j.to] = "ok" =>
           HasPart(t, j.to, "code") \/ CODE(t) \in Contents(q[Way(j)])
    /\ j.phase = "left" =>
           /\ DATA_BSS(t) \in Contents(q[Way(j)])
           /\ kernel[j.to] = "ok" => \A part \in {"code", "registers", "stack"} :
                  \/ HasPart(t, j.to, part)
                  \/ Before(q[Way(j)], PacketOf(part, t), DATA_BSS(t))

\* What the phase says of the task, its order and its start.
Under(t, j) ==
    /\ j.phase # "home" => j.from # j.to /\ t \notin RealTime
    /\ j.phase \notin {"home", "left"} => moving[t]
    /\ j.phase # "left" /\ ~IsAt(t, j.from) => Exited(t)

\* With the network N and the deferred services p, which a step may have begun to change.
On(t, j, N, p) ==
    Under(t, j) /\ Pages(t, j) /\ Sent(t, j, N) /\ Kept(t, j, p) /\ Complete(t, j, N)

\* Every task is on a journey.
AllOn(N, p) == \A t \in Task : \E j \in Journey : On(t, j, N, p)

IInv == Typed /\ SoundTCBs /\ AllOn(net, pending)


-----------------------------------------------------------------------------
(* The packets about a task *)

\* The network r holds no more about t than q does, in no other order.
NoMore(t, r, q) ==
    \A l \in Link : \A a, b : About(t, a) /\ About(t, b) =>
        /\ a \in Contents(r[l]) => a \in Contents(q[l])
        /\ Before(r[l], a, b) => Before(q[l], a, b)

\* A network of packets; the mapper hears only of tasks that left.
Family(N) == N \in [Link -> Seq(Packet)] /\ \A s \in Node : N[<<s, Manager>>] \in Seq(Report)

\* In r the packets p follow those of q on link l.
Extends(r, q, l, p) ==
    /\ r[l] = q[l] \o p
    /\ \A k \in Link : k # l => r[k] = q[k]

\* What the packets about a task are.
LEMMA PacketFacts ==
    ASSUME NEW t \in Task
    PROVE  /\ CODE(t) \in TaskPart /\ About(t, CODE(t))
           /\ DATA_BSS(t) \in TaskPart /\ About(t, DATA_BSS(t)) /\ CODE(t) # DATA_BSS(t)
           /\ TASK_MIGRATED(t) \in Report /\ About(t, TASK_MIGRATED(t))
           /\ \A d \in PE : TASK_MIGRATION(t, d) \in Order /\ About(t, TASK_MIGRATION(t, d))
           /\ \A part \in {"code", "registers", "stack"} :
                PacketOf(part, t) \in TaskPart /\ About(t, PacketOf(part, t))
                /\ PacketOf(part, t) # DATA_BSS(t)
                /\ (part # "code" => PacketOf(part, t) # CODE(t))
           /\ PacketOf("code", t) = CODE(t)
<1>1. /\ CODE(t) \in Bare /\ DATA_BSS(t) \in Bare /\ TASK_MIGRATED(t) \in Report
      /\ \A d \in PE : TASK_MIGRATION(t, d) \in Order
      /\ CODE(t).task = t /\ DATA_BSS(t).task = t /\ TASK_MIGRATED(t).task = t
      /\ \A d \in PE : TASK_MIGRATION(t, d).task = t
      /\ CODE(t).service = "MIGRATION_CODE" /\ DATA_BSS(t).service = "MIGRATION_DATA_BSS"
  BY DEF CODE, DATA_BSS, MIGRATION, TASK_MIGRATED, TASK_MIGRATION, Bare, Report, Order
<1>2. \A part \in {"code", "registers", "stack"} :
         /\ PacketOf(part, t) \in Bare /\ PacketOf(part, t).task = t
         /\ PacketOf(part, t).service = CASE part = "code" -> "MIGRATION_CODE"
                                          [] part = "registers" -> "MIGRATION_TCB"
                                          [] part = "stack" -> "MIGRATION_STACK"
  BY DEF PacketOf, CODE, MIGRATION, Bare
<1>3. PacketOf("code", t) = CODE(t)
  BY DEF PacketOf
<1>4. QED BY <1>1, <1>2, <1>3 DEF TaskPart, About

\* The sets of packets are apart.
LEMMA PacketsApart ==
    /\ \A m \in TaskPart : m \notin Order \cup Report \cup Ask \cup Answer
    /\ \A m \in Order : m \notin Report \cup Ask \cup Answer
    /\ \A m \in Report : m \notin Ask \cup Answer
    /\ \A m \in Ask : m \notin Answer
<1> DEFINE Services == {"MIGRATION_CODE", "MIGRATION_TCB", "MIGRATION_STACK", "MIGRATION_DATA_BSS",
                        "MIGRATION_TASK_LOCATION", "MIGRATION_MSG_REQUEST"}
<1>1. \A m \in TaskPart : m.service \in Services
  BY DEF TaskPart, Bare, Locations, RequestList
<1>2. \A m \in Order : m.service = "TASK_MIGRATION"
  BY DEF Order
<1>3. \A m \in Report : m.service = "TASK_MIGRATED"
  BY DEF Report
<1>4. \A m \in Ask : m.service = "MESSAGE_REQUEST"
  BY DEF Ask
<1>5. \A m \in Answer : m.service = "MESSAGE_DELIVERY"
  BY DEF Answer
<1>6. QED BY <1>1, <1>2, <1>3, <1>4, <1>5

\* A queue that loses its first packet holds no more, and no less about the tasks
\* that packet is not about.
LEMMA Dropped ==
    ASSUME NEW N, N \in [Link -> Seq(Packet)], NEW l \in Link, N[l] # <<>>, NEW t \in Task
    PROVE  /\ NoMore(t, Drop(N, l), N)
           /\ ~About(t, Head(N[l])) => NoMore(t, N, Drop(N, l))
<1> DEFINE r == Drop(N, l)
<1>1. r[l] = Tail(N[l]) /\ (\A k \in Link : k # l => r[k] = N[k]) /\ N[l] \in Seq(Packet)
  BY DEF Drop
<1>2. \A a, b : /\ Contents(N[l]) = Contents(Tail(N[l])) \cup {Head(N[l])}
                /\ Before(Tail(N[l]), a, b) => Before(N[l], a, b)
                /\ Before(N[l], a, b) /\ a # Head(N[l]) => Before(Tail(N[l]), a, b)
  BY <1>1, WithoutHead
<1> HIDE DEF r
<1>3. NoMore(t, r, N)
  BY <1>1, <1>2 DEF NoMore
<1>4. ASSUME ~About(t, Head(N[l])) PROVE NoMore(t, N, r)
  BY <1>1, <1>2, <1>4 DEF NoMore
<1>5. QED BY <1>3, <1>4 DEF r

\* A queue that grows holds no less, and no more about the tasks the new packets
\* are not about.
LEMMA Extended ==
    ASSUME NEW N, N \in [Link -> Seq(Packet)], NEW l \in Link, NEW p \in Seq(Packet),
           NEW r, Extends(r, N, l, p), NEW t \in Task
    PROVE  /\ NoMore(t, N, r)
           /\ (\A m \in Contents(p) : ~About(t, m)) => NoMore(t, r, N)
<1>1. r[l] = N[l] \o p /\ (\A k \in Link : k # l => r[k] = N[k]) /\ N[l] \in Seq(Packet)
  BY DEF Extends
<1>2. /\ Contents(r[l]) = Contents(N[l]) \cup Contents(p)
      /\ \A a, b : Before(r[l], a, b) <=>
                  \/ Before(N[l], a, b) \/ Before(p, a, b)
                  \/ a \in Contents(N[l]) /\ b \in Contents(p)
  BY <1>1, Concatenated
<1>3. \A a, b : Before(p, a, b) => a \in Contents(p) /\ b \in Contents(p)
  BY DEF Before, Contents
<1>4. NoMore(t, N, r)
  BY <1>1, <1>2 DEF NoMore
<1>5. ASSUME \A m \in Contents(p) : ~About(t, m) PROVE NoMore(t, r, N)
  BY <1>1, <1>2, <1>3, <1>5 DEF NoMore
<1>6. QED BY <1>4, <1>5

-----------------------------------------------------------------------------
(* Steps that are nothing to a task *)

\* A kernel may stop.
Worse == \A d \in PE : kernel'[d] = kernel[d] \/ kernel'[d] = "error"

\* On its pages, the task is where it was, with no part less and no new order.
PagesKept(t) ==
    \A d \in PE : \A i \in Page :
        /\ tcbs'[d][i].id = t <=> tcbs[d][i].id = t
        /\ tcbs[d][i].id = t =>
             /\ tcbs'[d][i].status = "MIGRATING" <=> tcbs[d][i].status = "MIGRATING"
             /\ tcbs[d][i].parts \subseteq tcbs'[d][i].parts
             /\ kernel'[d] = "ok" /\ tcbs'[d][i].proc_to_migrate # NoPE =>
                    tcbs'[d][i].proc_to_migrate = tcbs[d][i].proc_to_migrate

\* With no more packets about a task, all of them are where they may be.
LEMMA SentLess ==
    ASSUME NEW t \in Task, NEW j \in Journey, NEW q, NEW r, Sent(t, j, q), NoMore(t, r, q)
    PROVE  Sent(t, j, r)
<1>1. j.from \in PE /\ j.to \in PE /\ Way(j) \in Link
  BY DEF Journey, Way, Link, Node
<1>2. \A l \in Link : \A m : m \in Contents(r[l]) /\ About(t, m) => m \in Contents(q[l])
  BY DEF NoMore
<1>3. \A l \in Link : \A a, b : About(t, a) /\ About(t, b) /\ Before(r[l], a, b) => Before(q[l], a, b)
  BY DEF NoMore
<1>4. /\ About(t, CODE(t)) /\ About(t, DATA_BSS(t)) /\ About(t, TASK_MIGRATED(t))
      /\ About(t, TASK_MIGRATION(t, j.to))
  BY <1>1, PacketFacts
<1>5. \A l \in Link : \A m \in Contents(r[l]) : About(t, m) => Placed(t, j, l, m)
  BY <1>2 DEF Sent
<1>6. \A l \in Link : \A m \in {CODE(t), TASK_MIGRATION(t, j.to), TASK_MIGRATED(t)} :
         ~Before(r[l], m, m)
  BY <1>3, <1>4 DEF Sent
<1>7. \A k, l \in Link : TASK_MIGRATED(t) \in Contents(r[k]) \cap Contents(r[l]) => k = l
  BY <1>2, <1>4 DEF Sent
<1>8. \A m \in Contents(r[Way(j)]) : About(t, m) => ~Before(r[Way(j)], DATA_BSS(t), m)
  BY <1>1, <1>2, <1>3, <1>4 DEF Sent
<1>9. CODE(t) \in Contents(r[Way(j)]) => ~IsAt(t, j.to)
  BY <1>1, <1>2, <1>4 DEF Sent
<1>10. QED BY <1>5, <1>6, <1>7, <1>8, <1>9 DEF Sent

\* With no fewer, none of it is missing.
LEMMA CompleteMore ==
    ASSUME NEW t \in Task, NEW j \in Journey, NEW q, NEW r, Complete(t, j, q), NoMore(t, q, r)
    PROVE  Complete(t, j, r)
<1>1. Way(j) \in Link
  BY DEF Journey, Way, Link, Node
<1>2. \A m \in Contents(q[Way(j)]) : About(t, m) => m \in Contents(r[Way(j)])
  BY <1>1 DEF NoMore
<1>3. \A a, b : About(t, a) /\ About(t, b) /\ Before(q[Way(j)], a, b) => Before(r[Way(j)], a, b)
  BY <1>1 DEF NoMore
<1>4. About(t, CODE(t)) /\ About(t, DATA_BSS(t))
      /\ \A part \in {"code", "registers", "stack"} : About(t, PacketOf(part, t))
  BY PacketFacts
<1>5. QED BY <1>2, <1>3, <1>4 DEF Complete

\* Such a task stays on its journey, if its pages allow it.
LEMMA Stays ==
    ASSUME NEW t \in Task, NEW j \in Journey, NEW N, NEW p, On(t, j, N, p), Worse, Pages(t, j)',
           \A d \in PE : IsAt(t, d)' <=> IsAt(t, d),
           \A d \in PE : \A part \in Part : HasPart(t, d, part) => HasPart(t, d, part)',
           NoMore(t, net', N), NoMore(t, N, net'), pending' = p,
           moving'[t] = moving[t], Exited(t) => Exited(t)'
    PROVE  On(t, j, net, pending)'
<1>1. j.from \in PE /\ j.to \in PE /\ Way(j) \in Link
  BY DEF Journey, Way, Link, Node
<1>2. Under(t, j)'
  BY <1>1 DEF On, Under
<1>3. Sent(t, j, net)'
  <2>1. Sent(t, j, net')
    BY SentLess DEF On
  <2>2. \A l, m : Placed(t, j, l, m) => Placed(t, j, l, m)'
    BY DEF Placed
  <2>3. QED BY <1>1, <2>1, <2>2 DEF Sent
<1>4. Kept(t, j, pending)'
  BY DEF On, Kept
<1>5. Complete(t, j, net)'
  <2>1. Complete(t, j, net')
    BY CompleteMore DEF On
  <2>2. kernel'[j.to] = "ok" => kernel[j.to] = "ok"
    BY <1>1 DEF Worse
  <2>3. QED BY <1>1, <2>1, <2>2 DEF Complete, Part
<1>6. QED BY <1>2, <1>3, <1>4, <1>5 DEF On

\* They do when they are kept.
LEMMA Undisturbed ==
    ASSUME NEW t \in Task, NEW j \in Journey, NEW N, NEW p, On(t, j, N, p),
           Worse, PagesKept(t), NoMore(t, net', N), NoMore(t, N, net'), pending' = p,
           moving'[t] = moving[t], Exited(t) => Exited(t)'
    PROVE  On(t, j, net, pending)'
<1>1. \A d : d \in PE => (IsAt(t, d)' <=> IsAt(t, d))
  BY DEF IsAt, PagesKept
<1>2. \A d : d \in PE => \A part : HasPart(t, d, part) => HasPart(t, d, part)'
  BY DEF HasPart, PagesKept
<1>3. Pages(t, j)'
  BY DEF On, Pages, PagesKept, Worse
<1>4. QED BY <1>1, <1>2, <1>3, Stays

\* Page i of d becomes x.
Becomes(d, i, x) ==
    /\ tcbs' \in [PE -> [Page -> TCB]]
    /\ tcbs'[d][i] = x
    /\ \A e \in PE : \A k \in Page : e # d \/ k # i => tcbs'[e][k] = tcbs[e][k]

\* A step that leaves the TCBs sound but for one, leaves all sound if that one is.
LEMMA SoundBut ==
    ASSUME SoundTCBs, Worse, NEW d \in PE, NEW i \in Page, NEW x, Becomes(d, i, x),
           Sound(kernel[d], x)',
           \A t \in Task : Exited(t) => Exited(t)',
           \A u \in Task : \A e \in PE : \A k \in Page :
               (e # d \/ k # i) /\ tcbs[e][k].waiting_msg /\ tcbs[e][k].id = u =>
                   CallOf(u)'.op = "receive"
    PROVE  SoundTCBs'
<1> SUFFICES ASSUME NEW e \in PE, NEW k \in Page PROVE Sound(kernel[e], tcbs[e][k])'
  BY DEF SoundTCBs
<1>1. CASE e = d /\ k = i
  BY <1>1 DEF Becomes
<1>2. CASE e # d \/ k # i
  <2>1. tcbs'[e][k] = tcbs[e][k] /\ Sound(kernel[e], tcbs[e][k])
    BY <1>2 DEF Becomes, SoundTCBs
  <2>2. kernel'[e] = "ok" => kernel[e] = "ok"
    BY DEF Worse
  <2>3. QED BY <1>2, <2>1, <2>2 DEF Sound
<1>3. QED BY <1>1, <1>2

\* A changed page is nothing to a task it neither held nor holds, or holds as before.
LEMMA PageKept ==
    ASSUME NEW t \in Task, NEW d \in PE, NEW i \in Page, NEW x, Becomes(d, i, x),
           x.id = t <=> tcbs[d][i].id = t,
           x.id = t =>
             /\ x.status = "MIGRATING" <=> tcbs[d][i].status = "MIGRATING"
             /\ tcbs[d][i].parts \subseteq x.parts
             /\ kernel'[d] = "ok" /\ x.proc_to_migrate # NoPE =>
                    x.proc_to_migrate = tcbs[d][i].proc_to_migrate
    PROVE  PagesKept(t)
<1> SUFFICES ASSUME NEW e \in PE, NEW k \in Page
             PROVE  /\ tcbs'[e][k].id = t <=> tcbs[e][k].id = t
                    /\ tcbs[e][k].id = t =>
                         /\ tcbs'[e][k].status = "MIGRATING" <=> tcbs[e][k].status = "MIGRATING"
                         /\ tcbs[e][k].parts \subseteq tcbs'[e][k].parts
                         /\ kernel'[e] = "ok" /\ tcbs'[e][k].proc_to_migrate # NoPE =>
                                tcbs'[e][k].proc_to_migrate = tcbs[e][k].proc_to_migrate
  BY DEF PagesKept
<1>1. CASE e = d /\ k = i
  BY <1>1 DEF Becomes
<1>2. CASE e # d \/ k # i
  <2>1. tcbs'[e][k] = tcbs[e][k]
    BY <1>2 DEF Becomes
  <2>2. QED BY <2>1
<1>3. QED BY <1>1, <1>2

\* The same without a change.
LEMMA PagesSame ==
    ASSUME Typed, tcbs' = tcbs
    PROVE  /\ \A t \in Task : PagesKept(t)
           /\ \A d \in PE : \A i \in Page : Becomes(d, i, tcbs[d][i])
BY DEF PagesKept, Becomes, Typed

\* A step that is nothing to any task leaves all on their journeys.
LEMMA Quiet ==
    ASSUME NEW N, NEW p, AllOn(N, p), Worse, pending' = p, moving' = moving,
           \A t \in Task : /\ PagesKept(t) /\ NoMore(t, net', N) /\ NoMore(t, N, net')
                           /\ Exited(t) => Exited(t)'
    PROVE  AllOn(net, pending)'
<1> SUFFICES ASSUME NEW t \in Task PROVE \E j \in Journey : On(t, j, net, pending)'
  BY DEF AllOn
<1>1. PICK j \in Journey : On(t, j, N, p)
  BY DEF AllOn
<1>2. QED BY <1>1, Undisturbed

-----------------------------------------------------------------------------
(* Types *)

\* A network that sends more packets from a PE to a PE.
LEMMA Grows ==
    ASSUME NEW N, Family(N), NEW d \in Node, NEW e \in PE, NEW p \in Seq(Packet),
           NEW r, r = [N EXCEPT ![<<d, e>>] = @ \o p]
    PROVE  Family(r) /\ Extends(r, N, <<d, e>>, p)
<1>1. <<d, e>> \in Link /\ N \in [Link -> Seq(Packet)] /\ e # Manager
  BY MigrationAssumption DEF Link, Node, Family
<1>2. N[<<d, e>>] \o p \in Seq(Packet)
  BY <1>1
<1>3. Extends(r, N, <<d, e>>, p) /\ r \in [Link -> Seq(Packet)]
  BY <1>1, <1>2 DEF Extends
<1>4. \A s \in Node : <<s, Manager>> # <<d, e>> /\ <<s, Manager>> \in Link
  BY <1>1 DEF Link, Node
<1>5. \A s \in Node : r[<<s, Manager>>] = N[<<s, Manager>>]
  BY <1>3, <1>4 DEF Extends
<1>6. QED BY <1>3, <1>5 DEF Family

\* The same of one packet.
LEMMA GrowsByOne ==
    ASSUME NEW N, Family(N), NEW d \in Node, NEW e \in PE, NEW m \in Packet,
           NEW r, r = [N EXCEPT ![<<d, e>>] = Append(@, m)]
    PROVE  Family(r) /\ Extends(r, N, <<d, e>>, <<m>>) /\ Contents(<<m>>) = {m} /\ <<m>> \in Seq(Packet)
<1>1. <<d, e>> \in Link /\ N[<<d, e>>] \in Seq(Packet)
  BY DEF Link, Node, Family
<1> DEFINE p == <<m>>
<1>2. Append(N[<<d, e>>], m) = N[<<d, e>>] \o p
  BY <1>1
<1>3. r = [N EXCEPT ![<<d, e>>] = @ \o p]
  BY <1>2
<1>4. p \in Seq(Packet) /\ Contents(p) = {m}
  BY DEF Contents
<1> HIDE DEF p
<1>5. Family(r) /\ Extends(r, N, <<d, e>>, p)
  BY <1>3, <1>4, Grows
<1>6. QED BY <1>4, <1>5 DEF p

\* The network without a packet that has arrived.
LEMMA Shrinks ==
    ASSUME Typed, NEW s \in Node, NEW d \in Node, net[<<s, d>>] # <<>>
    PROVE  /\ Family(net) /\ Family(Popped(s, d)) /\ <<s, d>> \in Link
           /\ Popped(s, d) = Drop(net, <<s, d>>)
           /\ HeadPacket(s, d) = Head(net[<<s, d>>]) /\ HeadPacket(s, d) \in Packet
           /\ HeadPacket(s, d) \in Contents(net[<<s, d>>])
           /\ d = Manager => HeadPacket(s, d) \in Report
<1>1. <<s, d>> \in Link /\ net \in [Link -> Seq(Packet)] /\ Family(net)
  BY DEF Link, Typed, Family
<1>2. /\ Tail(net[<<s, d>>]) \in Seq(Packet) /\ Head(net[<<s, d>>]) \in Packet
      /\ Head(net[<<s, d>>]) \in Contents(net[<<s, d>>])
  BY <1>1, WithoutHead
<1>3. d = Manager => Tail(net[<<s, d>>]) \in Seq(Report) /\ Head(net[<<s, d>>]) \in Report
  <2>1. d = Manager => net[<<s, d>>] \in Seq(Report)
    BY DEF Typed
  <2>2. QED BY <2>1, WithoutHead
<1>4. Family(Popped(s, d))
  <2>1. Popped(s, d) \in [Link -> Seq(Packet)]
    BY <1>1, <1>2 DEF Popped
  <2>2. ASSUME NEW e \in Node PROVE Popped(s, d)[<<e, Manager>>] \in Seq(Report)
    <3>1. net[<<e, Manager>>] \in Seq(Report) /\ <<e, Manager>> \in Link
      BY <1>1 DEF Family, Link, Node
    <3>2. Popped(s, d)[<<e, Manager>>] =
             IF <<e, Manager>> = <<s, d>> THEN Tail(net[<<s, d>>]) ELSE net[<<e, Manager>>]
      BY <1>1, <3>1 DEF Popped
    <3>3. QED BY <1>3, <3>1, <3>2
  <2>3. QED BY <2>1, <2>2 DEF Family
<1>5. QED BY <1>1, <1>2, <1>3, <1>4 DEF Popped, Drop, HeadPacket

\* A task that makes a call of its program goes on to the next.
LEMMA Calls ==
    ASSUME Typed, NEW S \in SUBSET Task, \A t \in S : CallOf(t).op \in {"send", "receive"},
           pc' = [t \in Task |-> IF t \in S THEN pc[t] + 1 ELSE pc[t]]
    PROVE  /\ pc' \in [Task -> Nat] /\ \A t \in Task : pc'[t] \in 1..Len(Program[t]) + 1
           /\ \A t \in Task : Exited(t) => Exited(t)'
           /\ \A t \in Task \ S : CallOf(t)' = CallOf(t)
<1>1. \A t \in Task : Len(Program[t]) \in Nat
  BY MigrationAssumption
<1>2. \A t \in S : pc[t] <= Len(Program[t])
  BY DEF CallOf
<1>3. pc \in [Task -> Nat] /\ \A t \in Task : pc[t] \in 1..Len(Program[t]) + 1
  BY DEF Typed
<1>4. pc' \in [Task -> Nat] /\ \A t \in Task : pc'[t] \in 1..Len(Program[t]) + 1
  BY <1>1, <1>2, <1>3
<1>5. \A t \in Task \ S : CallOf(t)' = CallOf(t)
  BY DEF CallOf
<1>6. \A t \in Task : Exited(t) => t \notin S
  BY DEF Exited
<1>7. \A t \in Task : Exited(t) => Exited(t)'
  BY <1>5, <1>6 DEF Exited
<1>8. QED BY <1>4, <1>5, <1>7

\* Nobody makes a call.
LEMMA CallsSame ==
    ASSUME pc' = pc
    PROVE  (\A t : Exited(t) => Exited(t)') /\ (\A t : CallOf(t)' = CallOf(t))
BY DEF Exited, CallOf

-----------------------------------------------------------------------------
(* The pages of a task *)

\* A task is on one page outside its way, and on one page of a PE.
LEMMA OnePage ==
    ASSUME NEW N, NEW p, AllOn(N, p), NEW t \in Task, NEW d \in PE, NEW i \in Page,
           NEW e \in PE, NEW k \in Page, tcbs[d][i].id = t, tcbs[e][k].id = t,
           d = e \/ (tcbs[d][i].status # "MIGRATING" /\ tcbs[e][k].status # "MIGRATING")
    PROVE  d = e /\ i = k
<1>1. PICK j \in Journey : On(t, j, N, p)
  BY DEF AllOn
<1>2. Pages(t, j)
  BY <1>1 DEF On
<1>3. d = e
  BY <1>2 DEF Pages
<1>4. QED BY <1>2, <1>3 DEF Pages

\* A scan of the pages stops at a page of the set it looks for.
LEMMA FirstPage ==
    ASSUME NEW S, S \subseteq Page, S # {}
    PROVE  (CHOOSE i \in S : \A k \in S : i <= k) \in S
<1>1. S \subseteq Nat
  BY MigrationAssumption DEF Page
<1>2. PICK x \in S : \A y \in S : ~(<<y, x>> \in OpToRel(<, Nat))
  BY <1>1, NatLessThanWellFounded, WFMin, Zenon
<1>3. \A y \in S : ~(y < x)
  BY <1>1, <1>2, Zenon DEF OpToRel
<1>4. \A y \in S : x <= y
  BY <1>1, <1>3
<1>5. QED BY <1>4

\* searchTCB finds the page of a task, if there is one.
LEMMA Searched ==
    ASSUME NEW d \in PE, NEW t \in Task
    PROVE  /\ searchTCB(d, t) # 0 => searchTCB(d, t) \in Page /\ tcbs[d][searchTCB(d, t)].id = t
           /\ searchTCB(d, t) = 0 <=> ~IsAt(t, d)
<1>1. PagesOf(d, t) \subseteq Page /\ (PagesOf(d, t) = {} <=> ~IsAt(t, d))
  BY DEF PagesOf, IsAt
<1>2. CASE PagesOf(d, t) = {}
  BY <1>1, <1>2 DEF searchTCB
<1>3. CASE PagesOf(d, t) # {}
  <2>1. searchTCB(d, t) \in PagesOf(d, t)
    BY <1>1, <1>3, FirstPage DEF searchTCB
  <2>2. 0 \notin Page
    BY MigrationAssumption DEF Page
  <2>3. QED BY <1>1, <1>3, <2>1, <2>2 DEF PagesOf
<1>4. QED BY <1>2, <1>3

\* A task that runs is ready, on no page that waits.
LEMMA Running ==
    ASSUME Typed, SoundTCBs, NEW N, NEW p, AllOn(N, p), NEW d \in PE, NEW i \in Page, Runs(d, i)
    PROVE  /\ tcbs[d][i] \in TCB /\ tcbs[d][i].id \in Task /\ tcbs[d][i].status = "READY"
           /\ kernel[d] = "ok" /\ ~tcbs[d][i].waiting_msg /\ tcbs[d][i].proc_to_migrate = NoPE
           /\ \A e \in PE : \A k \in Page :
                 tcbs[e][k].waiting_msg => tcbs[e][k].id # tcbs[d][i].id
<1>1. /\ tcbs[d][i] \in TCB /\ tcbs[d][i].id \in Task /\ tcbs[d][i].status = "READY"
      /\ kernel[d] = "ok" /\ ~tcbs[d][i].waiting_msg
  BY DEF Runs, Typed
<1>2. tcbs[d][i].proc_to_migrate = NoPE
  BY <1>1 DEF SoundTCBs, Sound
<1>3. ASSUME NEW e \in PE, NEW k \in Page, tcbs[e][k].waiting_msg, tcbs[e][k].id = tcbs[d][i].id
      PROVE  FALSE
  <2>1. tcbs[e][k].status = "READY"
    BY <1>3 DEF SoundTCBs, Sound
  <2>2. d = e /\ i = k
    BY <1>1, <1>3, <2>1, OnePage
  <2>3. QED BY <1>1, <1>3, <2>2
<1>4. QED BY <1>1, <1>2, <1>3

-----------------------------------------------------------------------------
(* The calls that send a packet or nothing *)

\* A message sent to another PE is nothing to any journey: the producer makes one call.
LEMMA SendRemoteInv ==
    ASSUME IInv, NEW d \in PE, NEW i \in Page, NEW r \in message_request[d], SendRemote(d, i, r)
    PROVE  IInv'
<1>1. Typed /\ SoundTCBs /\ AllOn(net, pending) /\ Family(net)
  BY DEF IInv, Typed, Family
<1> DEFINE t == tcbs[d][i].id
<1>2. /\ Runs(d, i) /\ CallOf(t).op = "send" /\ r \in message_request[d] /\ r.requested = t
      /\ message_request' = [message_request EXCEPT ![d] = @ \ {r}]
      /\ net' = [net EXCEPT ![<<d, r.requester_proc>>] = Append(@, MESSAGE_DELIVERY(r.requested, r.requester))]
      /\ pc' = [pc EXCEPT ![r.requested] = @ + 1]
      /\ kernel' = kernel /\ tcbs' = tcbs /\ task_location' = task_location
      /\ pending' = pending /\ moving' = moving /\ moves' = moves
  BY DEF SendRemote, Matching, mapperVars
<1>3. r \in Requests
  BY <1>1 DEF Typed
<1>4. MESSAGE_DELIVERY(r.requested, r.requester) \in Answer /\ r.requester_proc \in PE
  BY <1>3 DEF Requests, Answer, MESSAGE_DELIVERY
<1> DEFINE m == MESSAGE_DELIVERY(r.requested, r.requester)
<1> HIDE DEF m
<1>5. /\ Family(net') /\ Extends(net', net, <<d, r.requester_proc>>, <<m>>)
      /\ Contents(<<m>>) = {m} /\ <<m>> \in Seq(Packet)
  <2>1. m \in Packet /\ net' = [net EXCEPT ![<<d, r.requester_proc>>] = Append(@, m)]
    BY <1>2, <1>4 DEF Packet, m
  <2>2. d \in Node
    BY DEF Node
  <2>3. QED BY <1>1, <1>4, <2>1, <2>2, GrowsByOne
<1>6. \A u \in Task : NoMore(u, net', net) /\ NoMore(u, net, net')
  <2>1. \A u : ~About(u, m)
    BY <1>4, PacketsApart DEF About, m
  <2>2. <<d, r.requester_proc>> \in Link /\ net \in [Link -> Seq(Packet)]
    BY <1>1, <1>4 DEF Link, Node, Family
  <2>3. QED BY <1>5, <2>1, <2>2, Extended
<1>7. /\ pc' \in [Task -> Nat] /\ \A u \in Task : pc'[u] \in 1..Len(Program[u]) + 1
      /\ \A u \in Task : Exited(u) => Exited(u)'
      /\ \A u \in Task \ {t} : CallOf(u)' = CallOf(u)
  <2>1. t \in Task
    BY <1>1, <1>2, Running
  <2>2. pc' = [u \in Task |-> IF u \in {t} THEN pc[u] + 1 ELSE pc[u]]
    BY <1>1, <1>2 DEF Typed
  <2>3. QED BY <1>1, <1>2, <2>1, <2>2, Calls
<1>8. Typed'
  BY <1>1, <1>2, <1>5, <1>7 DEF Typed, Family
<1>9. Worse
  BY <1>2 DEF Worse
<1>10. SoundTCBs'
  <2>1. \A e \in PE : \A k \in Page : tcbs[e][k].waiting_msg =>
            CallOf(tcbs[e][k].id)'.op = "receive" /\ tcbs[e][k].id \in Task
    BY <1>1, <1>2, <1>7, Running DEF SoundTCBs, Sound
  <2>2. QED BY <1>1, <1>2, <1>7, <2>1 DEF SoundTCBs, Sound
<1>11. AllOn(net, pending)'
  BY <1>1, <1>2, <1>6, <1>7, <1>9, PagesSame, Quiet
<1>12. QED BY <1>8, <1>10, <1>11 DEF IInv

\* A call is of a task of the application.
LEMMA CallTyped ==
    ASSUME Typed, NEW t \in Task, CallOf(t).op # "end"
    PROVE  CallOf(t).peer \in Task /\ CallOf(t).op \in {"send", "receive"}
<1>1. PICK s : s = Program[t]
  OBVIOUS
<1>2. PICK n : n = pc[t]
  OBVIOUS
<1> DEFINE S == [op : {"send", "receive"}, peer : Task]
<1>3. s \in Seq(S)
  BY <1>1, MigrationAssumption
<1> HIDE DEF S
<1>4. n <= Len(s) /\ CallOf(t) = s[n]
  BY <1>1, <1>2 DEF CallOf
<1>5. n \in 1..Len(s)
  BY <1>1, <1>2, <1>3, <1>4 DEF Typed
<1>6. s[n] \in S
  BY <1>3, <1>5
<1>7. QED BY <1>4, <1>6 DEF S

\* A TCB is written.
LEMMA Written ==
    ASSUME Typed, NEW d \in PE, NEW i \in Page, NEW x \in TCB, tcbs' = [tcbs EXCEPT ![d][i] = x]
    PROVE  Becomes(d, i, x)
BY DEF Typed, Becomes

\* A task that is whole stops running, or begins to wait.
LEMMA PageOfCaller ==
    ASSUME IInv, NEW d \in PE, NEW i \in Page, Runs(d, i), NEW x \in TCB, Becomes(d, i, x),
           kernel' = kernel, pc' = pc, x.id = tcbs[d][i].id, x.parts = tcbs[d][i].parts,
           x.proc_to_migrate = tcbs[d][i].proc_to_migrate, x.status # "MIGRATING",
           x.waiting_msg => x.status = "READY" /\ CallOf(x.id).op = "receive",
           x.status = "FREE" => Exited(x.id)
    PROVE  /\ Worse /\ SoundTCBs'
           /\ \A t \in Task : PagesKept(t) /\ (Exited(t) => Exited(t)')
<1>1. Typed /\ SoundTCBs /\ AllOn(net, pending)
  BY DEF IInv
<1>2. /\ tcbs[d][i].id \in Task /\ tcbs[d][i].status = "READY" /\ tcbs[d][i].proc_to_migrate = NoPE
      /\ tcbs[d][i].parts = Part
  BY <1>1, Running DEF SoundTCBs, Sound
<1>3. Worse /\ (\A t : Exited(t) => Exited(t)') /\ (\A t : CallOf(t)' = CallOf(t))
  BY CallsSame DEF Worse
<1>4. Sound(kernel[d], x)'
  BY <1>2, <1>3 DEF Sound
<1>5. SoundTCBs'
  <2>1. \A u \in Task : \A e \in PE : \A k \in Page :
            tcbs[e][k].waiting_msg /\ tcbs[e][k].id = u => CallOf(u)'.op = "receive"
    BY <1>1, <1>3 DEF SoundTCBs, Sound
  <2>2. QED BY <1>1, <1>3, <1>4, <2>1, SoundBut
<1>6. \A t \in Task : PagesKept(t)
  <2> SUFFICES ASSUME NEW t \in Task PROVE PagesKept(t)
    OBVIOUS
  <2>1. tcbs[d][i].parts \subseteq x.parts /\ tcbs[d][i].status # "MIGRATING"
    BY <1>2
  <2>2. QED BY <2>1, PageKept
<1>7. QED BY <1>3, <1>5, <1>6

\* A task that exits has come to the end of its program: its page is free, its journey over.
LEMMA ExitInv ==
    ASSUME IInv, NEW d \in PE, NEW i \in Page, Exit(d, i)
    PROVE  IInv'
<1>1. Typed /\ SoundTCBs /\ AllOn(net, pending)
  BY DEF IInv
<1>2. /\ Runs(d, i) /\ CallOf(tcbs[d][i].id).op = "end" /\ tcbs[d][i].id \in Exits
      /\ tcbs' = [tcbs EXCEPT ![d][i].status = "FREE"]
      /\ kernel' = kernel /\ message_request' = message_request /\ pending' = pending
      /\ net' = net /\ pc' = pc /\ moving' = moving /\ moves' = moves
      /\ task_location' = task_location
         \/ task_location' = [task_location EXCEPT ![d] = [u \in Task |-> NoPE]]
  BY DEF Exit, mapperVars
<1>3. tcbs[d][i] \in TCB /\ tcbs[d][i].id \in Task /\ ~tcbs[d][i].waiting_msg
  BY <1>1, <1>2, Running
<1>4. PICK x : x = [tcbs[d][i] EXCEPT !.status = "FREE"]
  OBVIOUS
<1>5. /\ x \in TCB /\ x.id = tcbs[d][i].id /\ x.parts = tcbs[d][i].parts
      /\ x.proc_to_migrate = tcbs[d][i].proc_to_migrate /\ x.status = "FREE"
      /\ x.waiting_msg = tcbs[d][i].waiting_msg
  BY <1>3, <1>4 DEF TCB
<1>6. Becomes(d, i, x)
  <2>1. tcbs' = [tcbs EXCEPT ![d][i] = x]
    BY <1>2, <1>4
  <2>2. QED BY <1>1, <1>5, <2>1, Written
<1>7. /\ Worse /\ SoundTCBs'
      /\ \A t \in Task : PagesKept(t) /\ (Exited(t) => Exited(t)')
  <2>1. Exited(x.id)
    BY <1>2, <1>5 DEF Exited
  <2>2. QED BY <1>2, <1>3, <1>5, <1>6, <2>1, PageOfCaller
<1>8. task_location' \in [PE -> [Task -> PE \cup {NoPE}]]
  <2> DEFINE none == [u \in Task |-> NoPE]
  <2>1. none \in [Task -> PE \cup {NoPE}]
    OBVIOUS
  <2>2. task_location' = task_location \/ task_location' = [task_location EXCEPT ![d] = none]
    BY <1>2
  <2> HIDE DEF none
  <2>3. QED BY <1>1, <2>1, <2>2 DEF Typed
<1>9. Typed'
  BY <1>1, <1>2, <1>6, <1>8 DEF Typed, Becomes
<1>10. AllOn(net, pending)'
  <2>1. \A t \in Task : NoMore(t, net', net) /\ NoMore(t, net, net')
    BY <1>2 DEF NoMore
  <2>2. QED BY <1>1, <1>2, <1>7, <2>1, Quiet
<1>11. QED BY <1>7, <1>9, <1>10 DEF IInv

\* A task that asks for a message waits, or blocks; it has no order on its page then.
LEMMA ReceiveInv ==
    ASSUME IInv, NEW d \in PE, NEW i \in Page, Receive(d, i)
    PROVE  IInv'
<1>1. Typed /\ SoundTCBs /\ AllOn(net, pending) /\ Family(net)
  BY DEF IInv, Typed, Family
<1> DEFINE c == tcbs[d][i].id
           p == CallOf(c).peer
           proc == task_location[d][p]
<1>2. /\ Runs(d, i) /\ CallOf(c).op = "receive"
      /\ \/ /\ tcbs' = [tcbs EXCEPT ![d][i].status = "BLOCKED"]
            /\ message_request' = message_request /\ net' = net
         \/ /\ tcbs' = [tcbs EXCEPT ![d][i].waiting_msg = TRUE] /\ proc # NoPE
            /\ \/ /\ message_request' = [message_request EXCEPT ![d] = @ \cup
                         {[requester |-> c, requested |-> p, requester_proc |-> d]}]
                  /\ net' = net
               \/ /\ net' = [net EXCEPT ![<<d, proc>>] = Append(@, MESSAGE_REQUEST(p, c, d))]
                  /\ message_request' = message_request
      /\ kernel' = kernel /\ task_location' = task_location /\ pending' = pending
      /\ pc' = pc /\ moving' = moving /\ moves' = moves
  BY DEF Receive, mapperVars
<1>3. tcbs[d][i] \in TCB /\ c \in Task /\ ~tcbs[d][i].waiting_msg /\ tcbs[d][i].status = "READY"
  BY <1>1, <1>2, Running
<1>4. p \in Task
  BY <1>1, <1>2, <1>3, CallTyped
<1> HIDE DEF p, c
<1>5. PICK x : x = IF tcbs' = [tcbs EXCEPT ![d][i].status = "BLOCKED"]
                   THEN [tcbs[d][i] EXCEPT !.status = "BLOCKED"]
                   ELSE [tcbs[d][i] EXCEPT !.waiting_msg = TRUE]
  OBVIOUS
<1>6. /\ x \in TCB /\ x.id = c /\ x.parts = tcbs[d][i].parts
      /\ x.proc_to_migrate = tcbs[d][i].proc_to_migrate /\ x.status \in {"READY", "BLOCKED"}
      /\ x.waiting_msg => x.status = "READY"
  BY <1>3, <1>5 DEF TCB, c
<1>7. Becomes(d, i, x)
  <2>1. tcbs' = [tcbs EXCEPT ![d][i] = x]
    BY <1>2, <1>5
  <2>2. QED BY <1>1, <1>6, <2>1, Written
<1>8. /\ Worse /\ SoundTCBs'
      /\ \A t \in Task : PagesKept(t) /\ (Exited(t) => Exited(t)')
  <2>1. /\ x.id = tcbs[d][i].id /\ x.status # "MIGRATING" /\ x.status # "FREE"
        /\ x.waiting_msg => x.status = "READY" /\ CallOf(x.id).op = "receive"
    BY <1>2, <1>6 DEF c
  <2>2. QED BY <1>2, <1>6, <1>7, <2>1, PageOfCaller
<1>9. message_request' \in [PE -> SUBSET Requests]
  <2>1. [requester |-> c, requested |-> p, requester_proc |-> d] \in Requests
    BY <1>3, <1>4 DEF Requests
  <2>2. \/ message_request' = message_request
        \/ message_request' = [message_request EXCEPT ![d] = @ \cup
              {[requester |-> c, requested |-> p, requester_proc |-> d]}]
    BY <1>2
  <2>3. message_request \in [PE -> SUBSET Requests]
    BY <1>1 DEF Typed
  <2>4. QED BY <2>1, <2>2, <2>3
<1>10. Family(net') /\ \A t \in Task : NoMore(t, net', net) /\ NoMore(t, net, net')
  <2>1. CASE net' = net
    BY <1>1, <2>1 DEF NoMore
  <2>2. CASE net' # net
    <3> DEFINE m == MESSAGE_REQUEST(p, c, d)
    <3>1. m \in Ask
      BY <1>3, <1>4 DEF Ask, MESSAGE_REQUEST
    <3>2. net' = [net EXCEPT ![<<d, proc>>] = Append(@, m)] /\ proc \in PE
      <4>1. task_location[d][p] \in PE \cup {NoPE}
        BY <1>1, <1>4 DEF Typed
      <4>2. QED BY <1>2, <2>2, <4>1
    <3> HIDE DEF m, proc
    <3>3. m \in Packet /\ d \in Node /\ <<d, proc>> \in Link
      BY <3>1, <3>2 DEF Packet, Node, Link
    <3>4. /\ Family(net') /\ Extends(net', net, <<d, proc>>, <<m>>)
          /\ Contents(<<m>>) = {m} /\ <<m>> \in Seq(Packet)
      BY <1>1, <3>2, <3>3, GrowsByOne
    <3>5. \A u : ~About(u, m)
      BY <3>1, PacketsApart DEF About
    <3>6. QED BY <1>1, <3>3, <3>4, <3>5, Extended DEF Family
  <2>3. QED BY <2>1, <2>2
<1>11. Typed'
  BY <1>1, <1>2, <1>7, <1>9, <1>10 DEF Typed, Becomes, Family
<1>12. AllOn(net, pending)'
  BY <1>1, <1>2, <1>8, <1>10, Quiet
<1>13. QED BY <1>8, <1>11, <1>12 DEF IInv

-----------------------------------------------------------------------------
(* The handlers of requests. A handler finds the network N and the deferred
   services p, from which its packet has been taken. *)

\* What the handler of a packet may rely on.
Taken(N, p) ==
    /\ Typed /\ SoundTCBs /\ AllOn(N, p)
    /\ Family(N) /\ p \in [PE -> Seq(Ask \cup Order)]

\* What a handler leaves alone.
Handling(p) == pending' = p /\ pc' = pc /\ moving' = moving /\ moves' = moves

\* A kernel that stops on a packet leaves every task where it is.
LEMMA StoppedInv ==
    ASSUME NEW N, NEW p, Taken(N, p), NEW d \in PE, NEW R \in [PE -> SUBSET Requests],
           Stopped(d, R, N), Handling(p)
    PROVE  IInv'
<1>1. /\ Typed /\ SoundTCBs /\ AllOn(N, p) /\ Family(N) /\ p \in [PE -> Seq(Ask \cup Order)]
      /\ pending' = p /\ pc' = pc /\ moving' = moving /\ moves' = moves
  BY DEF Taken, Handling
<1>2. /\ kernel' = [kernel EXCEPT ![d] = "error"] /\ message_request' = R /\ net' = N
      /\ tcbs' = tcbs /\ task_location' = task_location
  BY DEF Stopped, KernelError
<1>3. Worse /\ kernel' \in [PE -> {"ok", "error"}]
  BY <1>1, <1>2 DEF Worse, Typed
<1>4. (\A t : Exited(t) => Exited(t)') /\ (\A t : CallOf(t)' = CallOf(t))
  BY <1>1, CallsSame
<1>5. Typed'
  BY <1>1, <1>2, <1>3 DEF Typed, Family
<1>6. SoundTCBs'
  BY <1>1, <1>2, <1>3, <1>4 DEF SoundTCBs, Sound, Worse
<1>7. AllOn(net, pending)'
  <2>1. \A t \in Task : NoMore(t, net', N) /\ NoMore(t, N, net')
    BY <1>2 DEF NoMore
  <2>2. QED BY <1>1, <1>2, <1>3, <1>4, <2>1, PagesSame, Quiet
<1>8. QED BY <1>5, <1>6, <1>7 DEF IInv

\* A request is kept, passed on, or stops the kernel: nothing to any journey.
LEMMA RequestInv ==
    ASSUME NEW N, NEW p, Taken(N, p), NEW d \in PE, NEW m \in Ask,
           handle_message_request(d, m, N), Handling(p)
    PROVE  IInv'
<1>1. /\ Typed /\ SoundTCBs /\ AllOn(N, p) /\ Family(N) /\ p \in [PE -> Seq(Ask \cup Order)]
      /\ pending' = p /\ pc' = pc /\ moving' = moving /\ moves' = moves
  BY DEF Taken, Handling
<1>2. m.producer \in Task /\ m.consumer \in Task /\ m.proc \in PE
  BY DEF Ask
<1>3. (\A t : Exited(t) => Exited(t)') /\ (\A t : CallOf(t)' = CallOf(t))
  BY <1>1, CallsSame
<1> DEFINE r == [requester |-> m.consumer, requested |-> m.producer, requester_proc |-> m.proc]
           proc == task_location[d][m.producer]
<1>4. r \in Requests
  BY <1>2 DEF Requests
<1>5. \/ /\ message_request' = [message_request EXCEPT ![d] = @ \cup {r}]
         /\ net' = N /\ kernel' = kernel /\ tcbs' = tcbs /\ task_location' = task_location
      \/ Stopped(d, message_request, N)
      \/ /\ proc \notin {d, NoPE} /\ net' = [N EXCEPT ![<<d, proc>>] = Append(@, m)]
         /\ kernel' = kernel /\ tcbs' = tcbs /\ message_request' = message_request
         /\ task_location' = task_location
  BY DEF handle_message_request, kernelVars
<1> HIDE DEF r, proc
<1>6. CASE Stopped(d, message_request, N)
  BY <1>1, <1>6, StoppedInv DEF Typed
<1>7. CASE ~Stopped(d, message_request, N)
  <2>1. kernel' = kernel /\ tcbs' = tcbs /\ task_location' = task_location
    BY <1>5, <1>7
  <2>2. message_request' \in [PE -> SUBSET Requests]
    <3>1. \/ message_request' = message_request
          \/ message_request' = [message_request EXCEPT ![d] = @ \cup {r}]
      BY <1>5, <1>7
    <3>2. message_request \in [PE -> SUBSET Requests]
      BY <1>1 DEF Typed
    <3>3. QED BY <1>4, <3>1, <3>2
  <2>3. Family(net') /\ \A t \in Task : NoMore(t, net', N) /\ NoMore(t, N, net')
    <3>1. CASE net' = N
      BY <1>1, <3>1 DEF NoMore
    <3>2. CASE net' # N
      <4>1. net' = [N EXCEPT ![<<d, proc>>] = Append(@, m)] /\ proc # NoPE
        BY <1>5, <1>7, <3>2
      <4>2. proc \in PE /\ m \in Packet /\ d \in Node /\ <<d, proc>> \in Link
        <5>1. task_location[d][m.producer] \in PE \cup {NoPE}
          BY <1>1, <1>2 DEF Typed
        <5>2. proc \in PE
          BY <4>1, <5>1 DEF proc
        <5>3. QED BY <5>2 DEF Packet, Node, Link
      <4>3. /\ Family(net') /\ Extends(net', N, <<d, proc>>, <<m>>)
            /\ Contents(<<m>>) = {m} /\ <<m>> \in Seq(Packet)
        BY <1>1, <4>1, <4>2, GrowsByOne
      <4>4. \A u : ~About(u, m)
        BY PacketsApart DEF About
      <4>5. QED BY <1>1, <4>2, <4>3, <4>4, Extended DEF Family
    <3>3. QED BY <3>1, <3>2
  <2>4. Typed'
    BY <1>1, <2>1, <2>2, <2>3 DEF Typed, Family
  <2>5. Worse
    BY <2>1 DEF Worse
  <2>6. SoundTCBs'
    BY <1>1, <1>3, <2>1 DEF SoundTCBs, Sound
  <2>7. AllOn(net, pending)'
    BY <1>1, <1>3, <2>1, <2>3, <2>5, PagesSame, Quiet
  <2>8. QED BY <2>4, <2>6, <2>7 DEF IInv
<1>8. QED BY <1>6, <1>7

-----------------------------------------------------------------------------
(* The handlers of orders *)

\* One task goes on in its journey, the others do not notice.
LEMMA OneMoves ==
    ASSUME NEW N, NEW p, AllOn(N, p), NEW t \in Task, NEW j \in Journey, On(t, j, net, pending)',
           Worse, pending' = p,
           \A u \in Task \ {t} : /\ PagesKept(u) /\ NoMore(u, net', N) /\ NoMore(u, N, net')
                                 /\ moving'[u] = moving[u] /\ (Exited(u) => Exited(u)')
    PROVE  AllOn(net, pending)'
<1> SUFFICES ASSUME NEW u \in Task PROVE \E g \in Journey : On(u, g, net, pending)'
  BY DEF AllOn
<1>1. CASE u = t
  BY <1>1
<1>2. CASE u # t
  <2>1. PICK g \in Journey : On(u, g, N, p)
    BY DEF AllOn
  <2>2. u \in Task \ {t}
    BY <1>2
  <2>3. On(u, g, net, pending)'
    BY <2>1, <2>2, Undisturbed
  <2>4. QED BY <2>3
<1>3. QED BY <1>1, <1>2

\* No packet about t is under way.
Clear(t, N, p) ==
    /\ \A l \in Link : \A m \in Contents(N[l]) : ~About(t, m)
    /\ \A d \in PE : \A m \in Contents(p[d]) : ~About(t, m)

\* The journey of a task whose order has been taken, and of one about to leave.
Stuck(d, to) == [phase |-> "stuck", from |-> d, to |-> to]
Leaving(d, to) == [phase |-> "kept", from |-> d, to |-> to]
Away(d, to) == [phase |-> "left", from |-> d, to |-> to]

\* The task is not where it goes.
LEMMA NotThere ==
    ASSUME NEW t \in Task, NEW j \in Journey, Under(t, j), Pages(t, j),
           j.phase \in {"ordered", "deferred"}
    PROVE  ~IsAt(t, j.to)
<1>1. j.from # j.to /\ j.to \in PE
  BY DEF Under, Journey
<1>2. QED BY <1>1 DEF Pages, IsAt

\* The order is taken from its queue, where it was the only packet about the task.
LEMMA OrderTaken ==
    ASSUME NEW N, NEW p, NEW t \in Task, NEW j \in Journey, j.phase \in {"ordered", "deferred"},
           Under(t, j), Pages(t, j), Clear(t, N, p)
    PROVE  On(t, Stuck(j.from, j.to), N, p) /\ ~IsAt(t, j.to) /\ Stuck(j.from, j.to) \in Journey
<1> DEFINE g == Stuck(j.from, j.to)
<1>1. g \in Journey /\ g.from = j.from /\ g.to = j.to /\ g.phase = "stuck"
  BY DEF Stuck, Journey, Phase
<1> HIDE DEF g
<1>2. Under(t, g)
  BY <1>1 DEF Under
<1>3. Pages(t, g)
  BY <1>1 DEF Pages
<1>4. Way(g) \in Link
  BY <1>1 DEF Journey, Way, Link, Node
<1>5. Sent(t, g, N)
  <2>1. \A l \in Link : \A m : About(t, m) => ~Before(N[l], m, m)
    BY DEF Clear, Before, Contents
  <2>2. QED BY <1>1, <1>4, <2>1, PacketFacts DEF Sent, Clear, Journey
<1>6. Kept(t, g, p)
  BY DEF Kept, Clear
<1>7. Complete(t, g, N)
  BY <1>1 DEF Complete
<1>8. ~IsAt(t, j.to)
  BY NotThere
<1>9. QED BY <1>1, <1>2, <1>3, <1>5, <1>6, <1>7, <1>8 DEF On, g

\* r is the network N with the code of a task.
CodeLeaves(r, N, d, to, t) == r = [N EXCEPT ![<<d, to>>] = Append(@, CODE(t))]

\* The code is sent: the task may leave, or its kernel stop on the order.
LEMMA CodeSent ==
    ASSUME NEW N, NEW p, Family(N), NEW t \in Task, NEW d \in PE, NEW to \in PE,
           On(t, Stuck(d, to), N, p), Clear(t, N, p), ~IsAt(t, to),
           NEW r, CodeLeaves(r, N, d, to, t)
    PROVE  /\ On(t, Leaving(d, to), r, p) /\ On(t, Stuck(d, to), r, p) /\ Family(r)
           /\ \A u \in Task \ {t} : NoMore(u, r, N) /\ NoMore(u, N, r)
<1> DEFINE l == <<d, to>>
           m == CODE(t)
<1>1. /\ m \in TaskPart /\ About(t, m) /\ m \in Packet /\ m # DATA_BSS(t)
      /\ \A u \in Task \ {t} : ~About(u, m)
      /\ TASK_MIGRATED(t) \in Report /\ TASK_MIGRATION(t, to) \in Order
  BY PacketFacts DEF Packet, About
<1>2. m # TASK_MIGRATED(t) /\ m # TASK_MIGRATION(t, to)
  BY <1>1, PacketsApart
<1>3. l \in Link /\ d \in Node /\ N \in [Link -> Seq(Packet)]
  BY DEF Link, Node, Family
<1> HIDE DEF m
<1>4. Family(r) /\ Extends(r, N, l, <<m>>) /\ Contents(<<m>>) = {m} /\ <<m>> \in Seq(Packet)
  BY <1>1, <1>3, GrowsByOne DEF m, CodeLeaves
<1> HIDE DEF l
<1>5. \A u \in Task \ {t} : NoMore(u, r, N) /\ NoMore(u, N, r)
  BY <1>1, <1>3, <1>4, Extended
<1>6. /\ Contents(r[l]) = Contents(N[l]) \cup {m}
      /\ \A k \in Link : k # l => r[k] = N[k]
      /\ \A a, b : Before(r[l], a, b) =>
                      Before(N[l], a, b) \/ Before(<<m>>, a, b) \/ a \in Contents(N[l])
  <2> DEFINE q == <<m>>
  <2>1. N[l] \in Seq(Packet) /\ q \in Seq(Packet) /\ r[l] = N[l] \o q
    BY <1>3, <1>4 DEF Extends
  <2>2. Contents(q) = {m} /\ \A k \in Link : k # l => r[k] = N[k]
    BY <1>4 DEF Extends
  <2> HIDE DEF q
  <2>3. /\ Contents(r[l]) = Contents(N[l]) \cup Contents(q)
        /\ \A a, b : Before(r[l], a, b) =>
                      Before(N[l], a, b) \/ Before(q, a, b) \/ a \in Contents(N[l])
    BY <2>1, Concatenated
  <2>4. QED BY <2>2, <2>3 DEF q
<1>7. \A a, b : ~Before(<<m>>, a, b)
  BY DEF Before
<1>8. \A k \in Link : \A a : a \in Contents(r[k]) /\ About(t, a) => k = l /\ a = m
  BY <1>6 DEF Clear
<1>9. \A k \in Link : \A a, b : About(t, a) => ~Before(r[k], a, b)
  <2>1. \A k \in Link : \A a, b : About(t, a) => ~Before(N[k], a, b)
    BY DEF Clear, Before, Contents
  <2>2. \A a, b : About(t, a) => ~Before(r[l], a, b)
    BY <1>3, <1>6, <1>7, <2>1 DEF Clear, l
  <2>3. QED BY <1>6, <2>1, <2>2
<1>10. ASSUME NEW g \in {Leaving(d, to), Stuck(d, to)}
       PROVE  On(t, g, r, p)
  <2>1. g.from = d /\ g.to = to /\ g.phase \in {"kept", "stuck"} /\ Way(g) = l
    BY DEF Leaving, Stuck, Way, l
  <2>2. Under(t, g) /\ Pages(t, g)
    BY <2>1 DEF On, Under, Pages, Stuck
  <2>3. Sent(t, g, r)
    <3>1. \A k \in Link : \A a \in Contents(r[k]) : About(t, a) => Placed(t, g, k, a)
      <4>1. Placed(t, g, l, m)
        BY <1>1, <2>1, PacketsApart DEF Placed, m
      <4>2. QED BY <1>8, <4>1
    <3>2. \A k \in Link : \A a \in {CODE(t), TASK_MIGRATION(t, g.to), TASK_MIGRATED(t)} : ~Before(r[k], a, a)
      BY <1>9, <2>1, PacketFacts
    <3>3. \A k \in Link : TASK_MIGRATED(t) \notin Contents(r[k])
      BY <1>2, <1>8, PacketFacts
    <3>4. \A a : ~Before(r[l], DATA_BSS(t), a)
      BY <1>3, <1>9, PacketFacts DEF l
    <3>5. QED BY <2>1, <3>1, <3>2, <3>3, <3>4 DEF Sent
  <2>4. Kept(t, g, p)
    BY DEF Kept, Clear
  <2>5. Complete(t, g, r)
    BY <1>6, <2>1 DEF Complete, m
  <2>6. QED BY <2>2, <2>3, <2>4, <2>5 DEF On
<1>11. QED BY <1>4, <1>5, <1>10

\* The packets that carry a task: the last part is the last.
LEMMA TaskPackets ==
    ASSUME Typed, NEW t \in Task, NEW d \in PE, NEW to \in PE, NEW R \in SUBSET Requests,
           NEW p, p = MigrationPackets(d, t, to, R)
    PROVE  /\ p \in Seq(TaskPart)
           /\ \A m \in Contents(p) : m \in TaskPart /\ m.task = t /\ m # CODE(t)
           /\ DATA_BSS(t) \in Contents(p) /\ \A m : ~Before(p, DATA_BSS(t), m)
           /\ Before(p, PacketOf("registers", t), DATA_BSS(t))
           /\ Before(p, PacketOf("stack", t), DATA_BSS(t))
<1> DEFINE a == PacketOf("registers", t)
           b == MIGRATION("MIGRATION_TASK_LOCATION", t, LocationsAfter(d, t, to))
           c == MIGRATION("MIGRATION_MSG_REQUEST", t, R)
           e == PacketOf("stack", t)
           f == DATA_BSS(t)
           U == {m \in TaskPart : m.task = t /\ m # CODE(t) /\ m # DATA_BSS(t)}
<1>1. LocationsAfter(d, t, to) \in [Task -> PE \cup {NoPE}]
  BY DEF Typed, LocationsAfter
<1>2. b \in U /\ c \in U
  <2>1. b \in Locations /\ c \in RequestList
    BY <1>1 DEF Locations, RequestList, MIGRATION
  <2>2. b.task = t /\ c.task = t /\ b.service = "MIGRATION_TASK_LOCATION" /\ c.service = "MIGRATION_MSG_REQUEST"
    BY DEF MIGRATION
  <2>3. CODE(t).service = "MIGRATION_CODE" /\ f.service = "MIGRATION_DATA_BSS"
    BY DEF CODE, DATA_BSS, MIGRATION
  <2>4. QED BY <2>1, <2>2, <2>3 DEF TaskPart
<1>3. a \in U /\ e \in U /\ f \in TaskPart /\ f.task = t /\ f # CODE(t)
  BY PacketFacts DEF About
<1>4. p = <<a, b>> \o (IF R = {} THEN <<>> ELSE <<c>>) \o <<e, f>>
  BY DEF MigrationPackets, PacketOf, DATA_BSS
<1> HIDE DEF a, b, c, e, f, U
<1> DEFINE V == U \cup {f}
           x == <<a, b>>
           y == IF R = {} THEN <<>> ELSE <<c>>
           z == <<e, f>>
<1>5. /\ x \in Seq(V) /\ y \in Seq(V) /\ z \in Seq(V) /\ f \notin U
      /\ Contents(x) \subseteq U /\ a \in Contents(x) /\ Contents(y) \subseteq U
      /\ Contents(z) = {e, f} /\ Before(z, e, f) /\ \A m : ~Before(z, f, m)
  <2>1. f \notin U
    BY DEF U, f
  <2>2. x \in Seq(V) /\ y \in Seq(V) /\ z \in Seq(V)
    BY <1>2, <1>3
  <2>3. DOMAIN x = {1, 2} /\ x[1] = a /\ x[2] = b /\ DOMAIN z = {1, 2} /\ z[1] = e /\ z[2] = f
    OBVIOUS
  <2>4. Contents(y) \subseteq {c}
    BY DEF Contents
  <2> HIDE DEF x, y, z, V
  <2>5. Contents(x) = {a, b} /\ Contents(z) = {e, f}
    BY <2>3 DEF Contents
  <2>6. e # f
    BY <1>3, <2>1
  <2>7. Before(z, e, f) /\ \A m : ~Before(z, f, m)
    BY <2>3, <2>6 DEF Before
  <2>8. QED BY <1>2, <1>3, <2>1, <2>2, <2>4, <2>5, <2>7
<1>6. p = x \o y \o z
  BY <1>4
<1> HIDE DEF x, y, z, V
<1>7. /\ x \o y \in Seq(V) /\ Contents(x \o y) = Contents(x) \cup Contents(y)
  BY <1>5, Concatenated
<1>8. PICK w : w = x \o y
  OBVIOUS
<1>9. w \in Seq(V) /\ Contents(w) = Contents(x) \cup Contents(y) /\ p = w \o z
  BY <1>6, <1>7, <1>8
<1>10. /\ p \in Seq(V) /\ Contents(p) = Contents(w) \cup Contents(z)
       /\ \A m, n : Before(p, m, n) <=>
             Before(w, m, n) \/ Before(z, m, n) \/ (m \in Contents(w) /\ n \in Contents(z))
  BY <1>5, <1>9, Concatenated
<1>11. \A m, n : Before(w, m, n) => m \in Contents(w)
  BY DEF Before, Contents
<1>12. U \cup {f} \subseteq TaskPart /\ \A m \in U \cup {f} : m.task = t /\ m # CODE(t)
  BY <1>3 DEF U
<1>13. p \in Seq(U \cup {f}) /\ Contents(p) \subseteq U \cup {f} /\ f \in Contents(p)
      /\ (\A m : ~Before(p, f, m)) /\ Before(p, a, f) /\ Before(p, e, f)
  <2>1. p \in Seq(U \cup {f})
    BY <1>10 DEF V
  <2>2. Contents(w) \subseteq U /\ a \in Contents(w)
    BY <1>5, <1>9
  <2>3. Contents(p) \subseteq U \cup {f} /\ f \in Contents(p)
    BY <1>3, <1>5, <1>10, <2>2
  <2>4. \A m : ~Before(p, f, m)
    BY <1>5, <1>10, <1>11, <2>2
  <2>5. QED BY <1>5, <1>10, <2>1, <2>2, <2>3, <2>4
<1>14. p \in Seq(TaskPart)
  BY <1>12, <1>13
<1>15. QED BY <1>12, <1>13, <1>14 DEF a, e, f

\* What a queue holds that has grown.
LEMMA Behind ==
    ASSUME NEW N, N \in [Link -> Seq(Packet)], NEW l \in Link, NEW q \in Seq(Packet),
           NEW r, Extends(r, N, l, q)
    PROVE  /\ \A k \in Link : k # l => r[k] = N[k]
           /\ Contents(r[l]) = Contents(N[l]) \cup Contents(q)
           /\ \A a, b : Before(r[l], a, b) <=>
                 Before(N[l], a, b) \/ Before(q, a, b) \/ (a \in Contents(N[l]) /\ b \in Contents(q))
<1>1. (\A k \in Link : k # l => r[k] = N[k]) /\ r[l] = N[l] \o q /\ N[l] \in Seq(Packet)
  BY DEF Extends
<1>2. Contents(r[l]) = Contents(N[l]) \cup Contents(q)
  BY <1>1, Concatenated
<1>3. \A a, b : Before(r[l], a, b) <=>
          Before(N[l], a, b) \/ Before(q, a, b) \/ (a \in Contents(N[l]) /\ b \in Contents(q))
  BY <1>1, Concatenated
<1>4. QED BY <1>1, <1>2, <1>3

\* The report of a PE to the mapper.
LEMMA Reports ==
    ASSUME NEW N, Family(N), NEW d \in PE, NEW m \in Report,
           NEW r, r = [N EXCEPT ![<<d, Manager>>] = Append(@, m)]
    PROVE  /\ Family(r) /\ Extends(r, N, <<d, Manager>>, <<m>>) /\ <<d, Manager>> \in Link
           /\ <<m>> \in Seq(Packet) /\ Contents(<<m>>) = {m} /\ \A a, b : ~Before(<<m>>, a, b)
<1> DEFINE l == <<d, Manager>>
           q == <<m>>
<1>1. l \in Link /\ N \in [Link -> Seq(Packet)] /\ N[l] \in Seq(Report) /\ N[l] \in Seq(Packet)
  BY DEF Link, Node, Family
<1>2. q \in Seq(Report) /\ q \in Seq(Packet) /\ Contents(q) = {m} /\ \A a, b : ~Before(q, a, b)
  BY DEF Packet, Contents, Before
<1>3. Append(N[l], m) = N[l] \o q
  BY <1>1
<1>4. l = <<d, Manager>>
  OBVIOUS
<1> HIDE DEF q, l
<1>5. N[l] \o q \in Seq(Report) /\ N[l] \o q \in Seq(Packet)
  BY <1>1, <1>2
<1>6. r = [N EXCEPT ![l] = N[l] \o q]
  BY <1>3, <1>4
<1>7. r[l] = N[l] \o q /\ (\A k \in Link : k # l => r[k] = N[k]) /\ r \in [Link -> Seq(Packet)]
  BY <1>1, <1>5, <1>6
<1>8. Family(r)
  <2> SUFFICES ASSUME NEW s \in Node PROVE r[<<s, Manager>>] \in Seq(Report)
    BY <1>7 DEF Family
  <2>1. <<s, Manager>> \in Link /\ N[<<s, Manager>>] \in Seq(Report)
    BY DEF Link, Node, Family
  <2>2. QED BY <1>5, <1>7, <2>1
<1>9. Extends(r, N, l, q)
  BY <1>7 DEF Extends
<1>10. QED BY <1>1, <1>2, <1>4, <1>8, <1>9 DEF q

\* r is the network N with the packets of a task that leaves.
Departs(r, N, d, to, t, R) ==
    r = [N EXCEPT ![<<d, to>>] = @ \o MigrationPackets(d, t, to, R),
                  ![<<d, Manager>>] = Append(@, TASK_MIGRATED(t))]

\* All that is to follow the code is then on its way.
LEMMA AllSent ==
    ASSUME Typed, NEW N, NEW p, Family(N), NEW t \in Task, NEW d \in PE, NEW to \in PE,
           On(t, Leaving(d, to), N, p), NEW R \in SUBSET Requests,
           NEW r, Departs(r, N, d, to, t, R)
    PROVE  /\ Family(r) /\ Sent(t, Away(d, to), r) /\ Complete(t, Away(d, to), r)
           /\ \A u \in Task \ {t} : NoMore(u, r, N) /\ NoMore(u, N, r)
<1> DEFINE l == <<d, to>>
           h == <<d, Manager>>
           m == TASK_MIGRATED(t)
           g == Leaving(d, to)
           j == Away(d, to)
<1>1. /\ l \in Link /\ h \in Link /\ h # l /\ d \in Node /\ N \in [Link -> Seq(Packet)]
      /\ to # Manager /\ h[2] = Manager /\ l[2] = to
  BY MigrationAssumption DEF Link, Node, Family
<1>2. PICK q : q = MigrationPackets(d, t, to, R)
  OBVIOUS
<1>3. /\ q \in Seq(TaskPart)
      /\ \A a \in Contents(q) : a \in TaskPart /\ a.task = t /\ a # CODE(t)
      /\ DATA_BSS(t) \in Contents(q) /\ \A a : ~Before(q, DATA_BSS(t), a)
      /\ Before(q, PacketOf("registers", t), DATA_BSS(t))
      /\ Before(q, PacketOf("stack", t), DATA_BSS(t))
  BY <1>2, TaskPackets
<1>4. q \in Seq(Packet) /\ TaskPart \subseteq Packet
  BY <1>3 DEF Packet
<1>5. PICK M : M = [N EXCEPT ![<<d, to>>] = @ \o q]
  OBVIOUS
<1>6. Family(M) /\ Extends(M, N, <<d, to>>, q)
  BY <1>1, <1>4, <1>5, Grows
<1>7. r = [M EXCEPT ![<<d, Manager>>] = Append(@, m)]
  BY <1>1, <1>2, <1>5 DEF Departs
<1>8. /\ m \in Report /\ About(t, m) /\ m # CODE(t) /\ m # DATA_BSS(t)
      /\ \A u \in Task \ {t} : ~About(u, m) /\ \A a \in Contents(q) : ~About(u, a)
  BY <1>3, PacketFacts, PacketsApart DEF About
<1> HIDE DEF m
<1> HIDE DEF l, h
<1>9. /\ Family(r) /\ (\A k \in Link : k # h => r[k] = M[k])
      /\ Contents(r[h]) = Contents(M[h]) \cup {m}
      /\ \A a, b : Before(r[h], a, b) => Before(M[h], a, b) \/ a \in Contents(M[h])
      /\ Extends(r, M, h, <<m>>) /\ <<m>> \in Seq(Packet) /\ Contents(<<m>>) = {m}
  <2>1. PICK z : z = <<m>>
    OBVIOUS
  <2>2. /\ Family(r) /\ Extends(r, M, h, z) /\ z \in Seq(Packet)
        /\ Contents(z) = {m} /\ \A a, b : ~Before(z, a, b)
    BY <1>6, <1>7, <1>8, <2>1, Reports DEF h
  <2>3. M \in [Link -> Seq(Packet)]
    BY <1>6 DEF Family
  <2>4. /\ (\A k \in Link : k # h => r[k] = M[k])
        /\ Contents(r[h]) = Contents(M[h]) \cup Contents(z)
        /\ \A a, b : Before(r[h], a, b) <=>
              Before(M[h], a, b) \/ Before(z, a, b) \/ (a \in Contents(M[h]) /\ b \in Contents(z))
    BY <1>1, <2>2, <2>3, Behind
  <2>5. QED BY <2>1, <2>2, <2>4
<1>10. /\ (\A k \in Link : k # l => M[k] = N[k])
       /\ Contents(M[l]) = Contents(N[l]) \cup Contents(q)
       /\ \A a, b : Before(M[l], a, b) <=>
                      Before(N[l], a, b) \/ Before(q, a, b) \/ (a \in Contents(N[l]) /\ b \in Contents(q))
  <2>1. Extends(M, N, l, q)
    BY <1>6 DEF l
  <2>2. QED BY <1>1, <1>4, <2>1, Behind
<1>11. \A u \in Task \ {t} : NoMore(u, r, N) /\ NoMore(u, N, r)
  <2> SUFFICES ASSUME NEW u \in Task \ {t} PROVE NoMore(u, r, N) /\ NoMore(u, N, r)
    OBVIOUS
  <2>1. M \in [Link -> Seq(Packet)]
    BY <1>6 DEF Family
  <2>2. NoMore(u, M, N) /\ NoMore(u, N, M)
    BY <1>1, <1>4, <1>6, <1>8, Extended DEF l
  <2>3. NoMore(u, r, M) /\ NoMore(u, M, r)
    <3>1. PICK z : z = <<m>>
      OBVIOUS
    <3>2. z \in Seq(Packet) /\ Extends(r, M, h, z) /\ \A a \in Contents(z) : ~About(u, a)
      BY <1>8, <1>9, <3>1
    <3>3. QED BY <1>1, <2>1, <3>2, Extended
  <2>4. QED BY <2>2, <2>3 DEF NoMore
<1>12. /\ g.from = d /\ g.to = to /\ g.phase = "kept" /\ Way(g) = l
       /\ j.from = d /\ j.to = to /\ j.phase = "left" /\ Way(j) = l
  BY DEF Leaving, Away, Way, l
<1> HIDE DEF g, j
<1>13. Sent(t, g, N) /\ Under(t, g) /\ Complete(t, g, N)
  BY DEF On, g
<1>14. \A k \in Link : \A a \in Contents(N[k]) : About(t, a) => k = l /\ a = CODE(t)
  BY <1>12, <1>13 DEF Sent, Placed, About
<1>15. \A k \in Link : \A a, b : Before(N[k], a, b) => a \in Contents(N[k]) /\ b \in Contents(N[k])
  BY DEF Before, Contents
<1>16. \A a, b : Before(q, a, b) => a \in Contents(q) /\ b \in Contents(q)
  BY DEF Before, Contents
<1>17. About(t, CODE(t)) /\ About(t, DATA_BSS(t)) /\ CODE(t) # DATA_BSS(t)
       /\ About(t, TASK_MIGRATION(t, to)) /\ TASK_MIGRATION(t, to) # CODE(t)
       /\ TASK_MIGRATION(t, to) \notin Contents(q) /\ TASK_MIGRATION(t, to) # m
       /\ m \notin Contents(q) /\ CODE(t) \in TaskPart
  BY <1>3, <1>8, PacketFacts, PacketsApart
<1>18. \A k \in Link : \A a \in Contents(r[k]) : About(t, a) =>
           (k = l /\ (a = CODE(t) \/ a \in Contents(q))) \/ (k = h /\ a = m)
  BY <1>1, <1>9, <1>10, <1>14
<1>19. Sent(t, j, r)
  <2>1. \A k \in Link : \A a \in Contents(r[k]) : About(t, a) => Placed(t, j, k, a)
    <3>1. \A a \in Contents(q) \cup {CODE(t)} : Placed(t, j, l, a)
      BY <1>3, <1>12, <1>17, PacketsApart DEF Placed
    <3>2. moving[t]
      BY <1>12, <1>13 DEF Under
    <3>3. Placed(t, j, h, m)
      BY <1>1, <1>8, <1>12, <3>2, PacketsApart DEF Placed, h
    <3>4. QED BY <1>18, <3>1, <3>3
  <2>2. \A k \in Link : ~Before(r[k], CODE(t), CODE(t))
    <3>1. \A k \in Link : ~Before(N[k], CODE(t), CODE(t))
      BY <1>13 DEF Sent
    <3>2. ~Before(r[l], CODE(t), CODE(t))
      <4>1. r[l] = M[l] /\ CODE(t) \notin Contents(q)
        BY <1>1, <1>3, <1>9
      <4>2. ~Before(M[l], CODE(t), CODE(t))
        BY <1>1, <1>10, <1>16, <3>1, <4>1
      <4>3. QED BY <4>1, <4>2
    <3>3. ~Before(r[h], CODE(t), CODE(t))
      BY <1>1, <1>9, <1>10, <1>14, <1>17, <3>1
    <3>4. QED BY <1>9, <1>10, <3>1, <3>2, <3>3
  <2>3. \A k \in Link : \A a \in {TASK_MIGRATION(t, to), m} : ~Before(r[k], a, a)
    <3>1. \A k \in Link : \A a \in {TASK_MIGRATION(t, to), m} : a \notin Contents(N[k]) /\ a \notin Contents(q)
      BY <1>8, <1>14, <1>17
    <3>2. \A a \in {TASK_MIGRATION(t, to), m} : ~Before(r[l], a, a)
      <4>1. r[l] = M[l]
        BY <1>1, <1>9
      <4>2. QED BY <1>1, <1>10, <1>15, <1>16, <3>1, <4>1
    <3>3. \A a \in {TASK_MIGRATION(t, to), m} : ~Before(r[h], a, a)
      BY <1>1, <1>9, <1>10, <1>15, <3>1
    <3>4. \A k \in Link : k # l /\ k # h => r[k] = N[k]
      BY <1>9, <1>10
    <3>5. QED BY <1>15, <3>1, <3>2, <3>3, <3>4
  <2>4. \A k \in Link : m \in Contents(r[k]) => k = h
    BY <1>8, <1>17, <1>18
  <2>5. \A a : ~Before(r[l], DATA_BSS(t), a)
    <3>1. DATA_BSS(t) \notin Contents(N[l])
      BY <1>1, <1>14, <1>17
    <3>2. r[l] = M[l]
      BY <1>1, <1>9
    <3>3. QED BY <1>1, <1>3, <1>10, <1>15, <3>1, <3>2
  <2>6. CODE(t) \in Contents(r[l]) => ~IsAt(t, to)
    <3>1. CODE(t) \in Contents(r[l]) => CODE(t) \in Contents(N[l])
      BY <1>1, <1>3, <1>9, <1>10
    <3>2. QED BY <1>12, <1>13, <3>1 DEF Sent
  <2>7. QED BY <1>12, <2>1, <2>2, <2>3, <2>4, <2>5, <2>6 DEF Sent, m
<1>20. Complete(t, j, r)
  <2>1. r[l] = M[l] /\ DATA_BSS(t) \in Contents(r[l])
    BY <1>1, <1>3, <1>9, <1>10
  <2>2. \A part \in {"registers", "stack"} : Before(r[l], PacketOf(part, t), DATA_BSS(t))
    BY <1>3, <1>10, <2>1
  <2>3. kernel[to] = "ok" => HasPart(t, to, "code") \/ CODE(t) \in Contents(N[l])
    BY <1>12, <1>13 DEF Complete
  <2>4. CODE(t) \in Contents(N[l]) => Before(r[l], PacketOf("code", t), DATA_BSS(t))
    BY <1>3, <1>10, <2>1, PacketFacts
  <2>5. QED BY <1>12, <2>1, <2>2, <2>3, <2>4 DEF Complete
<1>21. QED BY <1>9, <1>11, <1>19, <1>20 DEF j

-----------------------------------------------------------------------------
(* Leaving a PE *)

\* The task is then on its way, and on no page of the PE it left.
LEMMA Gone ==
    ASSUME Typed, SoundTCBs, NEW N, Family(N), NEW p, NEW t \in Task, NEW d \in PE, NEW to \in PE,
           On(t, Leaving(d, to), N, p), NEW i \in Page, tcbs[d][i].id = t, Becomes(d, i, FreeTCB),
           NEW R \in SUBSET Requests, Departs(net', N, d, to, t, R),
           kernel' = kernel, pending' = p, moving' = moving
    PROVE  /\ Family(net') /\ Away(d, to) \in Journey /\ On(t, Away(d, to), net, pending)'
           /\ \A u \in Task \ {t} : NoMore(u, net', N) /\ NoMore(u, N, net')
<1> DEFINE g == Leaving(d, to)
           j == Away(d, to)
<1>1. /\ g.from = d /\ g.to = to /\ g.phase = "kept" /\ Way(g) = <<d, to>>
      /\ j.from = d /\ j.to = to /\ j.phase = "left" /\ Way(j) = <<d, to>> /\ j \in Journey
  BY DEF Leaving, Away, Way, Journey, Phase
<1> HIDE DEF g, j
<1>2. Under(t, g) /\ Pages(t, g) /\ Kept(t, g, p)
  BY DEF On, g
<1>3. d # to /\ t \notin RealTime
  BY <1>1, <1>2 DEF Under
<1>4. FreeTCB.id # t
  BY MigrationAssumption DEF FreeTCB
<1>5. /\ Family(net') /\ Sent(t, j, net') /\ Complete(t, j, net')
      /\ \A u \in Task \ {t} : NoMore(u, net', N) /\ NoMore(u, N, net')
  BY AllSent DEF j
<1>6. \A e \in PE : \A k \in Page :
         tcbs'[e][k].id = t => tcbs[e][k] = tcbs'[e][k] /\ tcbs[e][k].id = t /\ e # d
  <2>1. \A k \in Page : tcbs[d][k].id = t => k = i
    BY <1>2 DEF Pages
  <2>2. QED BY <1>4, <2>1 DEF Becomes
<1>7. \A k \in Page : tcbs'[to][k] = tcbs[to][k]
  BY <1>3 DEF Becomes
<1>8. Under(t, j)'
  BY <1>1, <1>3 DEF Under
<1>9. Pages(t, j)'
  <2>1. ASSUME NEW e \in PE, NEW k \in Page, tcbs'[e][k].id = t
        PROVE  /\ tcbs'[e][k].status = "MIGRATING" /\ e = to
               /\ ~(kernel'[e] = "ok" /\ tcbs'[e][k].proc_to_migrate # NoPE)
    <3>1. tcbs[e][k] = tcbs'[e][k] /\ tcbs[e][k].id = t /\ e # d
      BY <1>6, <2>1
    <3>2. tcbs[e][k].status = "MIGRATING" /\ e = to
      BY <1>1, <1>2, <3>1 DEF Pages
    <3>3. ~(kernel[e] = "ok" /\ tcbs[e][k].proc_to_migrate # NoPE)
      BY <3>2 DEF SoundTCBs, Sound
    <3>4. QED BY <3>1, <3>2, <3>3
  <2>2. \A e \in PE : \A k, n \in Page : tcbs'[e][k].id = t /\ tcbs'[e][n].id = t => k = n
    BY <1>2, <1>6 DEF Pages
  <2>3. QED BY <1>1, <2>1, <2>2 DEF Pages
<1>10. Sent(t, j, net)'
  <2>1. \A l, m : Placed(t, j, l, m) => Placed(t, j, l, m)'
    BY DEF Placed
  <2>2. IsAt(t, j.to)' <=> IsAt(t, j.to)
    BY <1>1, <1>7 DEF IsAt
  <2>3. QED BY <1>5, <2>1, <2>2 DEF Sent
<1>11. Kept(t, j, pending)'
  BY <1>1, <1>2 DEF Kept
<1>12. Complete(t, j, net)'
  <2>1. \A part : HasPart(t, j.to, part)' <=> HasPart(t, j.to, part)
    BY <1>1, <1>7 DEF HasPart
  <2>2. QED BY <1>5, <2>1 DEF Complete
<1>13. QED BY <1>1, <1>5, <1>8, <1>9, <1>10, <1>11, <1>12 DEF On, j

\* The calls that end with the step.
Advance(d, i) ==
    /\ pc' \in [Task -> Nat] /\ \A u \in Task : pc'[u] \in 1..Len(Program[u]) + 1
    /\ \A u \in Task : Exited(u) => Exited(u)'
    /\ \A u \in Task : \A e \in PE : \A k \in Page :
          (e # d \/ k # i) /\ tcbs[e][k].waiting_msg /\ tcbs[e][k].id = u => CallOf(u)'.op = "receive"

\* migrate_dynamic_memory, of a task that waits no more.
LEMMA Leaves ==
    ASSUME NEW N, NEW p, Taken(N, p), NEW t \in Task, NEW d \in PE, NEW to \in PE, NEW i \in Page,
           On(t, Leaving(d, to), N, p), tcbs[d][i].id = t,
           NEW T \in {tcbs, TCBReleased(tcbs, d, i)}, ~T[d][i].waiting_msg,
           NEW R \in [PE -> SUBSET Requests],
           migrate_dynamic_memory(d, i, to, T, R, N),
           pending' = p, moving' = moving, moves' = moves, Advance(d, i)
    PROVE  IInv'
<1>1. /\ Typed /\ SoundTCBs /\ AllOn(N, p) /\ Family(N) /\ p \in [PE -> Seq(Ask \cup Order)]
      /\ tcbs \in [PE -> [Page -> TCB]] /\ tcbs[d][i] \in TCB
  BY DEF Taken, Typed
<1>2. PICK x : x = T[d][i]
  OBVIOUS
<1>3. /\ T \in [PE -> [Page -> TCB]] /\ x \in TCB /\ x.id = t /\ ~x.waiting_msg
      /\ x.status = tcbs[d][i].status /\ x.parts = tcbs[d][i].parts
      /\ x.proc_to_migrate = tcbs[d][i].proc_to_migrate
      /\ \A e \in PE : \A k \in Page : e # d \/ k # i => T[e][k] = tcbs[e][k]
  <2>1. CASE T = tcbs
    BY <1>1, <1>2, <2>1
  <2>2. CASE T = TCBReleased(tcbs, d, i)
    <3>1. PICK y : y = [tcbs[d][i] EXCEPT !.waiting_msg = FALSE]
      OBVIOUS
    <3>2. /\ y \in TCB /\ y.id = tcbs[d][i].id /\ ~y.waiting_msg
          /\ y.status = tcbs[d][i].status /\ y.parts = tcbs[d][i].parts
          /\ y.proc_to_migrate = tcbs[d][i].proc_to_migrate
      BY <1>1, <3>1 DEF TCB
    <3>3. T = [tcbs EXCEPT ![d][i] = y]
      BY <2>2, <3>1 DEF TCBReleased
    <3>4. QED BY <1>1, <1>2, <3>2, <3>3
  <2>3. QED BY <2>1, <2>2
<1>4. /\ pc' \in [Task -> Nat] /\ \A u \in Task : pc'[u] \in 1..Len(Program[u]) + 1
      /\ \A u \in Task : Exited(u) => Exited(u)'
      /\ \A u \in Task : \A e \in PE : \A k \in Page :
          (e # d \/ k # i) /\ tcbs[e][k].waiting_msg /\ tcbs[e][k].id = u => CallOf(u)'.op = "receive"
  BY DEF Advance
<1>5. CASE task_location[d][t] = NoPE
  <2>1. /\ kernel' = [kernel EXCEPT ![d] = "error"] /\ tcbs' = T /\ message_request' = R
        /\ net' = N /\ task_location' = task_location
    BY <1>2, <1>3, <1>5 DEF migrate_dynamic_memory, KernelError
  <2>2. Worse /\ kernel' \in [PE -> {"ok", "error"}] /\ kernel'[d] = "error"
    BY <1>1, <2>1 DEF Worse, Typed
  <2>3. Becomes(d, i, x)
    BY <1>2, <1>3, <2>1 DEF Becomes
  <2>4. Typed'
    BY <1>1, <1>3, <1>4, <2>1, <2>2 DEF Typed, Family
  <2>5. SoundTCBs'
    <3>1. Sound(kernel[d], x)'
      BY <1>1, <1>3, <1>4, <2>2 DEF SoundTCBs, Sound
    <3>2. SoundTCBs /\ Worse /\ Becomes(d, i, x)
      BY <1>1, <2>2, <2>3
    <3>3. QED BY <1>4, <3>1, <3>2, SoundBut
  <2>6. \A u \in Task : PagesKept(u) /\ NoMore(u, net', N) /\ NoMore(u, N, net')
    <3> SUFFICES ASSUME NEW u \in Task PROVE PagesKept(u) /\ NoMore(u, net', N) /\ NoMore(u, N, net')
      OBVIOUS
    <3>1. PagesKept(u)
      BY <1>3, <2>2, <2>3, PageKept
    <3>2. QED BY <2>1, <3>1 DEF NoMore
  <2>7. AllOn(net, pending)'
    BY <1>1, <1>4, <2>2, <2>6, Quiet
  <2>8. QED BY <2>4, <2>5, <2>7 DEF IInv
<1>6. CASE task_location[d][t] # NoPE
  <2>1. /\ Departs(net', N, d, to, t, RequestsTo(R[d], t))
        /\ task_location' = [task_location EXCEPT ![d] = LocationsAfter(d, t, to)]
        /\ message_request' = [R EXCEPT ![d] = @ \ RequestsTo(@, t)]
        /\ tcbs' = [T EXCEPT ![d][i] = FreeTCB]
        /\ kernel' = kernel
    BY <1>2, <1>3, <1>6 DEF migrate_dynamic_memory, Departs
  <2>2. FreeTCB \in TCB /\ FreeTCB.id = NoTask /\ FreeTCB.status = "FREE" /\ ~FreeTCB.waiting_msg
        /\ FreeTCB.proc_to_migrate = NoPE
    BY DEF FreeTCB, TCB
  <2>3. Becomes(d, i, FreeTCB)
    BY <1>3, <2>1, <2>2 DEF Becomes
  <2>4. /\ Family(net') /\ Away(d, to) \in Journey /\ On(t, Away(d, to), net, pending)'
        /\ \A u \in Task \ {t} : NoMore(u, net', N) /\ NoMore(u, N, net')
    <3>1. RequestsTo(R[d], t) \in SUBSET Requests
      BY DEF RequestsTo
    <3>2. QED BY <1>1, <2>1, <2>3, <3>1, Gone
  <2>5. Worse
    BY <2>1 DEF Worse
  <2>6. SoundTCBs'
    <3>1. Sound(kernel[d], FreeTCB)'
      BY <2>2, MigrationAssumption DEF Sound
    <3>2. SoundTCBs /\ Worse /\ Becomes(d, i, FreeTCB)
      BY <1>1, <2>3, <2>5
    <3>3. QED BY <1>4, <3>1, <3>2, SoundBut
  <2>7. AllOn(net, pending)'
    <3>1. \A u \in Task \ {t} : PagesKept(u)
      <4> SUFFICES ASSUME NEW u \in Task \ {t} PROVE PagesKept(u)
        OBVIOUS
      <4>1. FreeTCB.id # u /\ tcbs[d][i].id # u
        BY <2>2, MigrationAssumption
      <4>2. QED BY <2>3, <4>1, PageKept
    <3>2. QED BY <1>1, <1>4, <2>4, <2>5, <3>1, OneMoves
  <2>8. task_location' \in [PE -> [Task -> PE \cup {NoPE}]] /\ message_request' \in [PE -> SUBSET Requests]
    <3>1. LocationsAfter(d, t, to) \in [Task -> PE \cup {NoPE}]
      BY <1>1 DEF Typed, LocationsAfter
    <3>2. task_location' \in [PE -> [Task -> PE \cup {NoPE}]]
      BY <1>1, <2>1, <3>1 DEF Typed
    <3>3. R[d] \ RequestsTo(R[d], t) \in SUBSET Requests
      OBVIOUS
    <3>4. QED BY <2>1, <3>2, <3>3
  <2>9. Typed'
    BY <1>1, <1>4, <2>1, <2>3, <2>4, <2>8 DEF Typed, Family, Becomes
  <2>10. QED BY <2>6, <2>7, <2>9 DEF IInv
<1>7. QED BY <1>5, <1>6

-----------------------------------------------------------------------------
(* TASK_MIGRATION *)

\* The handler of the order, which has been taken from its queue.
LEMMA OrderInv ==
    ASSUME NEW N, NEW p, Taken(N, p), NEW t \in Task, NEW d \in PE, NEW to \in PE,
           On(t, Stuck(d, to), N, p), Clear(t, N, p), ~IsAt(t, to),
           handle_task_migration(d, TASK_MIGRATION(t, to), N), Handling(p)
    PROVE  IInv'
<1>1. /\ Typed /\ SoundTCBs /\ AllOn(N, p) /\ Family(N) /\ p \in [PE -> Seq(Ask \cup Order)]
      /\ pending' = p /\ pc' = pc /\ moving' = moving /\ moves' = moves
  BY DEF Taken, Handling
<1>2. (\A u : Exited(u) => Exited(u)') /\ (\A u : CallOf(u)' = CallOf(u))
  BY <1>1, CallsSame
<1>3. PICK i : i = searchTCB(d, t)
  OBVIOUS
<1>4. PICK M : CodeLeaves(M, N, d, to, t)
  BY DEF CodeLeaves
<1>5. \/ (i = 0 \/ tcbs[d][i].proc_to_migrate # NoPE) /\ Stopped(d, message_request, N)
      \/ /\ i # 0 /\ tcbs[d][i].waiting_msg
         /\ tcbs' = [tcbs EXCEPT ![d][i].proc_to_migrate = to] /\ net' = M
         /\ kernel' = kernel /\ message_request' = message_request /\ task_location' = task_location
      \/ /\ i # 0 /\ ~tcbs[d][i].waiting_msg
         /\ migrate_dynamic_memory(d, i, to, tcbs, message_request, M)
  BY <1>3, <1>4 DEF handle_task_migration, TASK_MIGRATION, CODE, CodeLeaves
<1>6. i # 0 => i \in Page /\ tcbs[d][i].id = t
  BY <1>3, Searched
<1>7. message_request \in [PE -> SUBSET Requests]
  BY <1>1 DEF Typed
<1>8. /\ On(t, Leaving(d, to), M, p) /\ Family(M) /\ Leaving(d, to) \in Journey
      /\ \A u \in Task \ {t} : NoMore(u, M, N) /\ NoMore(u, N, M)
  <2>1. Leaving(d, to) \in Journey
    BY DEF Leaving, Journey, Phase
  <2>2. QED BY <1>1, <1>4, <2>1, CodeSent
<1>9. CASE Stopped(d, message_request, N)
  BY <1>1, <1>7, <1>9, StoppedInv
<1>10. CASE /\ i # 0 /\ tcbs[d][i].waiting_msg
            /\ tcbs' = [tcbs EXCEPT ![d][i].proc_to_migrate = to] /\ net' = M
            /\ kernel' = kernel /\ message_request' = message_request
            /\ task_location' = task_location
  <2>1. i \in Page /\ tcbs[d][i].id = t /\ tcbs[d][i] \in TCB
    BY <1>1, <1>6, <1>10 DEF Typed
  <2>2. PICK x : x = [tcbs[d][i] EXCEPT !.proc_to_migrate = to]
    OBVIOUS
  <2>3. /\ x \in TCB /\ x.id = t /\ x.status = tcbs[d][i].status /\ x.parts = tcbs[d][i].parts
        /\ x.waiting_msg = tcbs[d][i].waiting_msg /\ x.proc_to_migrate = to
    BY <2>1, <2>2 DEF TCB
  <2>4. Becomes(d, i, x)
    <3>1. tcbs' = [tcbs EXCEPT ![d][i] = x]
      BY <1>10, <2>2
    <3>2. QED BY <1>1, <2>1, <2>3, <3>1, Written
  <2>5. Worse
    BY <1>10 DEF Worse
  <2>6. Typed'
    BY <1>1, <1>8, <1>10, <2>4 DEF Typed, Family, Becomes
  <2>7. SoundTCBs'
    <3>1. Sound(kernel[d], x)'
      BY <1>1, <1>2, <1>10, <2>1, <2>3 DEF SoundTCBs, Sound
    <3>2. \A u \in Task : \A e \in PE : \A k \in Page :
              tcbs[e][k].waiting_msg /\ tcbs[e][k].id = u => CallOf(u)'.op = "receive"
      BY <1>1, <1>2 DEF SoundTCBs, Sound
    <3>3. QED BY <1>1, <1>2, <2>1, <2>4, <2>5, <3>1, <3>2, SoundBut
  <2>8. AllOn(net, pending)'
    <3> DEFINE g == Leaving(d, to)
    <3>1. g.from = d /\ g.to = to /\ g.phase = "kept"
      BY DEF Leaving
    <3>2. g \in Journey /\ On(t, g, M, p) /\ Pages(t, g)
      BY <1>8 DEF On
    <3> HIDE DEF g
    <3>3. Pages(t, g)'
      BY <1>10, <2>1, <2>3, <2>4, <3>1, <3>2 DEF Pages, Becomes
    <3>4. \A e \in PE : IsAt(t, e)' <=> IsAt(t, e)
      BY <2>1, <2>3, <2>4 DEF IsAt, Becomes
    <3>5. \A e \in PE : \A part \in Part : HasPart(t, e, part) => HasPart(t, e, part)'
      BY <2>1, <2>3, <2>4 DEF HasPart, Becomes
    <3>6. NoMore(t, net', M) /\ NoMore(t, M, net')
      BY <1>10 DEF NoMore
    <3>7. On(t, g, net, pending)'
      BY <1>1, <1>2, <2>5, <3>2, <3>3, <3>4, <3>5, <3>6, Stays
    <3>8. \A u \in Task \ {t} : PagesKept(u)
      BY <2>1, <2>3, <2>4, PageKept
    <3>9. QED BY <1>1, <1>2, <1>8, <1>10, <2>5, <3>2, <3>7, <3>8, OneMoves
  <2>9. QED BY <2>6, <2>7, <2>8 DEF IInv
<1>11. CASE i # 0 /\ ~tcbs[d][i].waiting_msg /\ migrate_dynamic_memory(d, i, to, tcbs, message_request, M)
  <2>1. AllOn(M, p)
    <3> SUFFICES ASSUME NEW u \in Task, u # t PROVE \E j \in Journey : On(u, j, M, p)
      BY <1>8 DEF AllOn
    <3>1. PICK j \in Journey : On(u, j, N, p)
      BY <1>1 DEF AllOn
    <3>2. Sent(u, j, M) /\ Complete(u, j, M)
      BY <1>8, <3>1, SentLess, CompleteMore DEF On
    <3>3. QED BY <3>1, <3>2 DEF On
  <2>2. Taken(M, p)
    BY <1>1, <1>8, <2>1 DEF Taken
  <2>3. Advance(d, i)
    BY <1>1, <1>2 DEF Advance, Typed, SoundTCBs, Sound
  <2>4. QED BY <1>1, <1>6, <1>7, <1>8, <1>11, <2>2, <2>3, Leaves
<1>12. QED BY <1>5, <1>9, <1>10, <1>11

-----------------------------------------------------------------------------
(* A message comes *)

\* ReleaseConsumer: the consumer goes on, or leaves if it was ordered to.
LEMMA ReleaseInv ==
    ASSUME NEW N, NEW p, Taken(N, p), NEW t \in Task, NEW d \in PE, NEW i \in Page,
           tcbs[d][i].id = t, tcbs[d][i].waiting_msg, kernel[d] = "ok",
           NEW R \in [PE -> SUBSET Requests], ReleaseConsumer(d, i, R, N),
           pending' = p, moving' = moving, moves' = moves, Advance(d, i)
    PROVE  IInv'
<1>1. /\ Typed /\ SoundTCBs /\ AllOn(N, p) /\ Family(N) /\ p \in [PE -> Seq(Ask \cup Order)]
      /\ tcbs \in [PE -> [Page -> TCB]] /\ tcbs[d][i] \in TCB
  BY DEF Taken, Typed
<1>2. /\ pc' \in [Task -> Nat] /\ \A u \in Task : pc'[u] \in 1..Len(Program[u]) + 1
      /\ \A u \in Task : Exited(u) => Exited(u)'
      /\ \A u \in Task : \A e \in PE : \A k \in Page :
          (e # d \/ k # i) /\ tcbs[e][k].waiting_msg /\ tcbs[e][k].id = u => CallOf(u)'.op = "receive"
  BY DEF Advance
<1>3. PICK x : x = [tcbs[d][i] EXCEPT !.waiting_msg = FALSE]
  OBVIOUS
<1>4. /\ x \in TCB /\ x.id = t /\ ~x.waiting_msg
      /\ x.status = tcbs[d][i].status /\ x.parts = tcbs[d][i].parts
      /\ x.proc_to_migrate = tcbs[d][i].proc_to_migrate
  BY <1>1, <1>3 DEF TCB
<1>5. TCBReleased(tcbs, d, i) = [tcbs EXCEPT ![d][i] = x]
  BY <1>3 DEF TCBReleased
<1>6. CASE tcbs[d][i].proc_to_migrate = NoPE
  <2>1. /\ tcbs' = [tcbs EXCEPT ![d][i] = x] /\ message_request' = R /\ net' = N
        /\ kernel' = kernel /\ task_location' = task_location
    BY <1>5, <1>6 DEF ReleaseConsumer
  <2>2. Becomes(d, i, x) /\ Worse
    BY <1>1, <1>4, <2>1, Written DEF Worse
  <2>3. Typed'
    BY <1>1, <1>2, <2>1, <2>2 DEF Typed, Family, Becomes
  <2>4. SoundTCBs'
    <3>1. Sound(kernel[d], x)'
      BY <1>1, <1>2, <1>4, <1>6 DEF SoundTCBs, Sound
    <3>2. QED BY <1>1, <1>2, <2>2, <3>1, SoundBut
  <2>5. \A u \in Task : PagesKept(u) /\ NoMore(u, net', N) /\ NoMore(u, N, net')
    BY <1>4, <2>1, <2>2, PageKept DEF NoMore
  <2>6. AllOn(net, pending)'
    BY <1>1, <1>2, <2>2, <2>5, Quiet
  <2>7. QED BY <2>3, <2>4, <2>6 DEF IInv
<1>7. CASE tcbs[d][i].proc_to_migrate # NoPE
  <2>1. PICK to : to = tcbs[d][i].proc_to_migrate
    OBVIOUS
  <2>2. to \in PE
    BY <1>1, <1>7, <2>1 DEF TCB
  <2>3. On(t, Leaving(d, to), N, p)
    <3>1. PICK j \in Journey : On(t, j, N, p)
      BY <1>1 DEF AllOn
    <3>2. tcbs[d][i].status = "READY"
      BY <1>1 DEF SoundTCBs, Sound
    <3>3. j.from = d /\ j.to = to /\ j.phase = "kept"
      BY <1>7, <2>1, <3>1, <3>2 DEF On, Pages
    <3>4. j = Leaving(d, to)
      BY <3>3 DEF Journey, Leaving
    <3>5. QED BY <3>1, <3>4
  <2>4. ~TCBReleased(tcbs, d, i)[d][i].waiting_msg
    BY <1>1, <1>4, <1>5
  <2>5. migrate_dynamic_memory(d, i, to, TCBReleased(tcbs, d, i), R, N)
    BY <1>7, <2>1 DEF ReleaseConsumer
  <2>6. QED BY <2>2, <2>3, <2>4, <2>5, Leaves
<1>8. QED BY <1>6, <1>7

\* The consumer of the message is waiting for it; the tasks of S go on to their
\* next calls.
LEMMA Awaited ==
    ASSUME NEW N, NEW p, Taken(N, p), NEW d \in PE, NEW c \in Task, Waits(d, searchTCB(d, c)),
           NEW S \in SUBSET Task, \A u \in S : CallOf(u).op \in {"send", "receive"},
           \A u \in S : u = c \/ \A e \in PE : \A k \in Page : tcbs[e][k].waiting_msg => tcbs[e][k].id # u,
           pc' = [u \in Task |-> IF u \in S THEN pc[u] + 1 ELSE pc[u]]
    PROVE  /\ searchTCB(d, c) \in Page /\ tcbs[d][searchTCB(d, c)].id = c
           /\ tcbs[d][searchTCB(d, c)].waiting_msg /\ Advance(d, searchTCB(d, c))
<1>1. Typed /\ SoundTCBs /\ AllOn(N, p)
  BY DEF Taken
<1>2. PICK i : i = searchTCB(d, c)
  OBVIOUS
<1>3. i \in Page /\ tcbs[d][i].id = c /\ tcbs[d][i].waiting_msg
  BY <1>2, Searched DEF Waits
<1>4. /\ pc' \in [Task -> Nat] /\ \A t \in Task : pc'[t] \in 1..Len(Program[t]) + 1
      /\ \A t \in Task : Exited(t) => Exited(t)'
      /\ \A t \in Task \ S : CallOf(t)' = CallOf(t)
  BY <1>1, Calls
<1>5. ASSUME NEW u \in Task, NEW e \in PE, NEW k \in Page, e # d \/ k # i,
             tcbs[e][k].waiting_msg, tcbs[e][k].id = u
      PROVE  CallOf(u)'.op = "receive"
  <2>1. tcbs[e][k].status = "READY" /\ tcbs[d][i].status = "READY" /\ CallOf(u).op = "receive"
    BY <1>1, <1>3, <1>5 DEF SoundTCBs, Sound
  <2>2. u # c
    <3>1. SUFFICES ASSUME u = c PROVE FALSE
      OBVIOUS
    <3>2. d = e /\ i = k
      BY <1>1, <1>3, <1>5, <2>1, <3>1, OnePage
    <3>3. QED BY <1>5, <3>2
  <2>3. u \notin S
    BY <1>5, <2>2
  <2>4. QED BY <1>4, <2>1, <2>3
<1>6. Advance(d, i)
  BY <1>4, <1>5 DEF Advance
<1>7. QED BY <1>2, <1>3, <1>6

\* SENDMESSAGE to a consumer of this PE.
LEMMA SendLocalInv ==
    ASSUME IInv, NEW d \in PE, NEW i \in Page, NEW r \in message_request[d], SendLocal(d, i, r)
    PROVE  IInv'
<1>1. Typed /\ SoundTCBs /\ AllOn(net, pending) /\ Taken(net, pending)
  BY DEF IInv, Typed, Family, Taken
<1> DEFINE t == tcbs[d][i].id
           c == r.requester
           R == [message_request EXCEPT ![d] = @ \ {r}]
           k == searchTCB(d, c)
<1>2. /\ Runs(d, i) /\ CallOf(t).op = "send" /\ r.requested = t
      /\ \/ /\ Waits(d, k) /\ ReleaseConsumer(d, k, R, net)
            /\ pc' = [pc EXCEPT ![t] = @ + 1, ![c] = @ + 1]
         \/ Stopped(d, R, net) /\ pc' = pc
      /\ pending' = pending /\ moving' = moving /\ moves' = moves
  BY DEF SendLocal, Matching, mapperVars
<1>3. /\ message_request \in [PE -> SUBSET Requests] /\ r \in Requests
  BY <1>1 DEF Typed
<1>4. c \in Task /\ R \in [PE -> SUBSET Requests]
  BY <1>3 DEF Requests
<1>5. /\ t \in Task /\ kernel[d] = "ok"
      /\ \A e \in PE : \A n \in Page : tcbs[e][n].waiting_msg => tcbs[e][n].id # t
  BY <1>1, <1>2, Running
<1> HIDE DEF t, c, R, k
<1>6. CASE Stopped(d, R, net) /\ pc' = pc
  <2>1. Handling(pending)
    BY <1>2, <1>6 DEF Handling
  <2>2. QED BY <1>1, <1>4, <1>6, <2>1, StoppedInv
<1>7. CASE /\ Waits(d, k) /\ ReleaseConsumer(d, k, R, net)
           /\ pc' = [pc EXCEPT ![t] = @ + 1, ![c] = @ + 1]
  <2>1. k \in Page /\ tcbs[d][k].id = c /\ tcbs[d][k].waiting_msg
    BY <1>4, <1>7, Searched DEF Waits, k
  <2>2. c # t /\ CallOf(c).op = "receive"
    BY <1>1, <1>5, <2>1 DEF SoundTCBs, Sound
  <2>3. pc' = [u \in Task |-> IF u \in {t, c} THEN pc[u] + 1 ELSE pc[u]]
    BY <1>1, <1>4, <1>5, <1>7, <2>2 DEF Typed
  <2>4. Advance(d, k)
    <3> DEFINE S == {t, c}
    <3>1. S \in SUBSET Task /\ \A u \in S : CallOf(u).op \in {"send", "receive"}
      BY <1>2, <1>4, <1>5, <2>2
    <3>2. \A u \in S : u = c \/ \A e \in PE : \A n \in Page : tcbs[e][n].waiting_msg => tcbs[e][n].id # u
      BY <1>5
    <3>3. pc' = [u \in Task |-> IF u \in S THEN pc[u] + 1 ELSE pc[u]]
      BY <2>3
    <3>4. Waits(d, searchTCB(d, c))
      BY <1>7 DEF k
    <3> HIDE DEF S
    <3>5. QED BY <1>1, <1>4, <3>1, <3>2, <3>3, <3>4, Awaited DEF k
  <2>5. QED BY <1>1, <1>2, <1>4, <1>5, <1>7, <2>1, <2>4, ReleaseInv
<1>8. QED BY <1>2, <1>6, <1>7

-----------------------------------------------------------------------------
(* Taking a packet or a deferred service *)

\* A task goes on when the network holds as much of it as before.
LEMMA OnSame ==
    ASSUME NEW N, NEW p, NEW q, NEW u \in Task, AllOn(N, p), NoMore(u, q, N), NoMore(u, N, q)
    PROVE  \E j \in Journey : On(u, j, q, p)
<1>1. PICK j \in Journey : On(u, j, N, p)
  BY DEF AllOn
<1>2. Sent(u, j, q) /\ Complete(u, j, q)
  BY <1>1, SentLess, CompleteMore DEF On
<1>3. QED BY <1>1, <1>2 DEF On

\* A packet that is about no task.
LEMMA HeadTaken ==
    ASSUME IInv, NEW s \in Node, NEW d \in Node, net[<<s, d>>] # <<>>,
           \A u \in Task : ~About(u, HeadPacket(s, d))
    PROVE  Taken(Popped(s, d), pending)
<1>1. /\ Typed /\ SoundTCBs /\ AllOn(net, pending) /\ net \in [Link -> Seq(Packet)]
      /\ pending \in [PE -> Seq(Ask \cup Order)]
  BY DEF IInv, Typed
<1>2. /\ Family(Popped(s, d)) /\ <<s, d>> \in Link /\ Popped(s, d) = Drop(net, <<s, d>>)
      /\ HeadPacket(s, d) = Head(net[<<s, d>>])
  BY <1>1, Shrinks
<1>3. \A u \in Task : NoMore(u, Popped(s, d), net) /\ NoMore(u, net, Popped(s, d))
  BY <1>1, <1>2, Dropped
<1>4. AllOn(Popped(s, d), pending)
  BY <1>1, <1>3, OnSame DEF AllOn
<1>5. QED BY <1>1, <1>2, <1>4 DEF Taken

\* An order that arrives: its task leaves from the PE it arrives at.
LEMMA OrderArrives ==
    ASSUME IInv, NEW s \in Node, NEW d \in PE, net[<<s, d>>] # <<>>, HeadPacket(s, d) \in Order
    PROVE  \E t \in Task, to \in PE :
              /\ HeadPacket(s, d) = TASK_MIGRATION(t, to)
              /\ Taken(Popped(s, d), pending) /\ Clear(t, Popped(s, d), pending)
              /\ On(t, Stuck(d, to), Popped(s, d), pending) /\ ~IsAt(t, to)
<1>1. /\ Typed /\ SoundTCBs /\ AllOn(net, pending) /\ net \in [Link -> Seq(Packet)]
      /\ pending \in [PE -> Seq(Ask \cup Order)] /\ d \in Node
  BY DEF IInv, Typed, Node
<1>2. PICK l : l = <<s, d>>
  OBVIOUS
<1>3. PICK m : m = HeadPacket(s, d)
  OBVIOUS
<1>4. PICK N : N = Popped(s, d)
  OBVIOUS
<1>5. /\ Family(N) /\ l \in Link /\ N = Drop(net, l) /\ m = Head(net[l]) /\ m \in Contents(net[l])
      /\ net[l] # <<>>
  BY <1>1, <1>2, <1>3, <1>4, Shrinks
<1>6. PICK t \in Task : m.task = t
  BY <1>3 DEF Order
<1>7. About(t, m) /\ m \in Order /\ m.to \in PE /\ m = TASK_MIGRATION(t, m.to)
  BY <1>3, <1>6 DEF About, Order, TASK_MIGRATION
<1>8. PICK j \in Journey : On(t, j, net, pending)
  BY <1>1 DEF AllOn
<1>9. Sent(t, j, net) /\ Kept(t, j, pending) /\ Under(t, j) /\ Pages(t, j)
  BY <1>8 DEF On
<1>10. l = <<Manager, j.from>> /\ j.phase = "ordered" /\ m.to = j.to
  BY <1>5, <1>7, <1>9 DEF Sent, Placed
<1>11. d = j.from /\ \A a \in Order : a.task = t /\ a.to = j.to => a = m
  BY <1>2, <1>6, <1>7, <1>10 DEF Order
<1>12. \A u \in Task : NoMore(u, N, net) /\ (u # t => NoMore(u, net, N))
  <2>1. \A u \in Task : u # t => ~About(u, m)
    BY <1>6 DEF About
  <2>2. QED BY <1>1, <1>5, <2>1, Dropped
<1>13. Clear(t, N, pending)
  <2>1. ASSUME NEW k \in Link, NEW a \in Contents(N[k]), About(t, a) PROVE FALSE
    <3>1. a \in Contents(net[k])
      BY <1>12, <2>1 DEF NoMore
    <3>2. Placed(t, j, k, a)
      BY <1>9, <2>1, <3>1 DEF Sent
    <3>3. a \in Order /\ k = l /\ a.to = j.to /\ a.task = t
      BY <1>10, <2>1, <3>2 DEF Placed, About
    <3>4. a = m
      BY <1>11, <3>3
    <3>5. Before(net[l], m, m)
      <4>1. net[l] \in Seq(Packet) /\ N[l] = Tail(net[l])
        BY <1>1, <1>5 DEF Drop
      <4>2. QED BY <1>5, <2>1, <3>3, <3>4, <4>1, WithoutHead
    <3>6. QED BY <1>5, <1>7, <1>9, <1>10, <3>5 DEF Sent
  <2>2. \A e \in PE : \A a \in Contents(pending[e]) : ~About(t, a)
    BY <1>9, <1>10 DEF Kept
  <2>3. QED BY <2>1, <2>2 DEF Clear
<1>14. On(t, Stuck(j.from, j.to), N, pending) /\ ~IsAt(t, j.to) /\ Stuck(j.from, j.to) \in Journey
  BY <1>9, <1>10, <1>13, OrderTaken
<1>15. AllOn(N, pending)
  <2> SUFFICES ASSUME NEW u \in Task, u # t PROVE \E g \in Journey : On(u, g, N, pending)
    BY <1>14 DEF AllOn
  <2>1. QED BY <1>1, <1>12, OnSame
<1>16. Taken(N, pending)
  BY <1>1, <1>5, <1>15 DEF Taken
<1>17. QED BY <1>3, <1>4, <1>6, <1>7, <1>10, <1>11, <1>13, <1>14, <1>16

\* The deferred services p hold no more about t than q do.
NoLater(t, p, q) ==
    \A d \in PE : \A a : About(t, a) =>
        /\ a \in Contents(p[d]) => a \in Contents(q[d])
        /\ Before(p[d], a, a) => Before(q[d], a, a)

\* A task whose deferred orders are no more than before stays on its journey.
LEMMA OnDeferred ==
    ASSUME NEW N, NEW p, NEW q, NEW u \in Task, AllOn(N, p), NoLater(u, q, p)
    PROVE  \E j \in Journey : On(u, j, N, q)
<1>1. PICK j \in Journey : On(u, j, N, p)
  BY DEF AllOn
<1>2. Kept(u, j, q)
  BY <1>1 DEF On, Kept, NoLater
<1>3. QED BY <1>1, <1>2 DEF On

\* p is what is left of the deferred services without the first of d.
Without(p, d) ==
    /\ p \in [PE -> Seq(Ask \cup Order)] /\ p[d] = Tail(pending[d])
    /\ \A e \in PE : e # d => p[e] = pending[e]

\* The first deferred service is taken out: no more is deferred than before, and of that
\* one no other is left, unless it was there twice.
LEMMA LessLater ==
    ASSUME Typed, NEW d \in PE, pending[d] # <<>>, NEW p, Without(p, d)
    PROVE  /\ \A u \in Task : NoLater(u, p, pending)
           /\ Head(pending[d]) \in Ask \cup Order /\ Head(pending[d]) \in Contents(pending[d])
           /\ Head(pending[d]) \in Contents(p[d]) =>
                 Before(pending[d], Head(pending[d]), Head(pending[d]))
<1>1. PICK S : S = Ask \cup Order
  OBVIOUS
<1>2. pending[d] \in Seq(S) /\ p[d] = Tail(pending[d]) /\ \A e \in PE : e # d => p[e] = pending[e]
  BY <1>1 DEF Typed, Without
<1>3. \A a, b : /\ Head(pending[d]) \in S
                /\ Contents(pending[d]) = Contents(Tail(pending[d])) \cup {Head(pending[d])}
                /\ Before(Tail(pending[d]), a, b) => Before(pending[d], a, b)
                /\ a \in Contents(Tail(pending[d])) => Before(pending[d], Head(pending[d]), a)
  BY <1>2, WithoutHead
<1>4. QED BY <1>1, <1>2, <1>3 DEF NoLater

\* A deferred order that is taken up again.
LEMMA OrderResumes ==
    ASSUME IInv, NEW d \in PE, pending[d] # <<>>, Head(pending[d]) \in Order, NEW p, Without(p, d)
    PROVE  \E t \in Task, to \in PE :
              /\ Head(pending[d]) = TASK_MIGRATION(t, to)
              /\ Taken(net, p) /\ Clear(t, net, p)
              /\ On(t, Stuck(d, to), net, p) /\ ~IsAt(t, to)
<1>1. /\ Typed /\ SoundTCBs /\ AllOn(net, pending) /\ net \in [Link -> Seq(Packet)] /\ Family(net)
      /\ pending \in [PE -> Seq(Ask \cup Order)] /\ p \in [PE -> Seq(Ask \cup Order)]
  BY DEF IInv, Typed, Without, Family
<1>2. PICK m : m = Head(pending[d])
  OBVIOUS
<1>3. /\ \A u \in Task : NoLater(u, p, pending)
      /\ m \in Contents(pending[d])
      /\ m \in Contents(p[d]) => Before(pending[d], m, m)
  BY <1>1, <1>2, LessLater
<1>4. PICK t \in Task : m.task = t
  BY <1>2 DEF Order
<1>5. About(t, m) /\ m \in Order /\ m.to \in PE /\ m = TASK_MIGRATION(t, m.to)
  BY <1>2, <1>4 DEF About, Order, TASK_MIGRATION
<1>6. PICK j \in Journey : On(t, j, net, pending)
  BY <1>1 DEF AllOn
<1>7. Sent(t, j, net) /\ Kept(t, j, pending) /\ Under(t, j) /\ Pages(t, j)
  BY <1>6 DEF On
<1>8. d = j.from /\ j.phase = "deferred" /\ m.to = j.to /\ ~Before(pending[d], m, m)
  BY <1>3, <1>5, <1>7 DEF Kept
<1>9. Clear(t, net, p)
  <2>1. \A k \in Link : \A a \in Contents(net[k]) : ~About(t, a)
    BY <1>7, <1>8 DEF Sent, Placed, About
  <2>2. ASSUME NEW e \in PE, NEW a \in Contents(p[e]), About(t, a) PROVE FALSE
    <3>1. a \in Contents(pending[e])
      BY <1>3, <2>2 DEF NoLater
    <3>2. e = d /\ a.to = j.to
      BY <1>7, <1>8, <2>2, <3>1 DEF Kept
    <3>3. a \in Ask \cup Order
      <4>1. PICK S : S = Ask \cup Order
        OBVIOUS
      <4>2. p[e] \in Seq(S)
        BY <1>1, <4>1
      <4>3. a \in S
        BY <2>2, <4>2 DEF Contents
      <4>4. QED BY <4>1, <4>3
    <3>4. a \in Order /\ a.task = t
      BY <2>2, <3>3, PacketsApart DEF About
    <3>5. a = m
      BY <1>4, <1>5, <1>8, <3>2, <3>4 DEF Order
    <3>6. QED BY <1>3, <1>8, <2>2, <3>2, <3>5
  <2>3. QED BY <2>1, <2>2 DEF Clear
<1>10. On(t, Stuck(j.from, j.to), net, p) /\ ~IsAt(t, j.to) /\ Stuck(j.from, j.to) \in Journey
  BY <1>7, <1>8, <1>9, OrderTaken
<1>11. AllOn(net, p)
  BY <1>1, <1>3, OnDeferred DEF AllOn
<1>12. Taken(net, p)
  BY <1>1, <1>11 DEF Taken
<1>13. QED BY <1>2, <1>4, <1>5, <1>8, <1>9, <1>10, <1>12

\* handle_deferrable, of a service that has been taken.
LEMMA DeferrableInv ==
    ASSUME NEW N, NEW p, Taken(N, p), NEW d \in PE, NEW m, handle_deferrable(d, m, N), Handling(p),
           m \in Ask \/ (\E t \in Task, to \in PE :
              /\ m = TASK_MIGRATION(t, to) /\ Clear(t, N, p)
              /\ On(t, Stuck(d, to), N, p) /\ ~IsAt(t, to))
    PROVE  IInv'
<1>1. CASE m \in Ask
  <2>1. m.service # "TASK_MIGRATION"
    BY <1>1 DEF Ask
  <2>2. QED BY <1>1, <2>1, RequestInv DEF handle_deferrable
<1>2. CASE m \notin Ask
  <2>1. PICK t \in Task, to \in PE :
              /\ m = TASK_MIGRATION(t, to) /\ Clear(t, N, p)
              /\ On(t, Stuck(d, to), N, p) /\ ~IsAt(t, to)
    BY <1>2
  <2>2. handle_task_migration(d, TASK_MIGRATION(t, to), N)
    BY <2>1 DEF handle_deferrable, TASK_MIGRATION
  <2>3. QED BY <2>1, <2>2, OrderInv
<1>3. QED BY <1>1, <1>2

\* What a packet is, by its service.
LEMMA ByService ==
    ASSUME NEW m \in Packet
    PROVE  /\ m.service = "MESSAGE_REQUEST" <=> m \in Ask
           /\ m.service = "TASK_MIGRATION" <=> m \in Order
           /\ m.service = "MESSAGE_DELIVERY" <=> m \in Answer
           /\ m.service \in {"MIGRATION_CODE", "MIGRATION_TCB", "MIGRATION_TASK_LOCATION",
                             "MIGRATION_MSG_REQUEST", "MIGRATION_STACK", "MIGRATION_DATA_BSS"}
              <=> m \in TaskPart
           /\ m.service \in {"MIGRATION_CODE", "MIGRATION_TCB", "MIGRATION_STACK", "MIGRATION_DATA_BSS"}
              => m = MIGRATION(m.service, m.task, {}) /\ m.task \in Task
BY DEF Packet, TaskPart, Bare, Locations, RequestList, Order, Report, Ask, Answer, MIGRATION

\* A request or an order handled as it comes.
LEMMA HandleNowInv ==
    ASSUME IInv, NEW s \in Node, NEW d \in PE, HandleNow(s, d)
    PROVE  IInv'
<1>1. /\ net[<<s, d>>] # <<>> /\ handle_deferrable(d, HeadPacket(s, d), Popped(s, d))
      /\ Handling(pending) /\ HeadPacket(s, d).service \in {"MESSAGE_REQUEST", "TASK_MIGRATION"}
  BY DEF HandleNow, PacketAt, Deferrable, Handling, mapperVars
<1>2. Typed /\ d \in Node
  BY DEF IInv, Node
<1>3. HeadPacket(s, d) \in Packet
  BY <1>1, <1>2, Shrinks
<1>4. CASE HeadPacket(s, d) \in Ask
  <2>1. \A u \in Task : ~About(u, HeadPacket(s, d))
    BY <1>4, PacketsApart DEF About
  <2>2. Taken(Popped(s, d), pending)
    BY <1>1, <1>2, <2>1, HeadTaken
  <2>3. QED BY <1>1, <1>4, <2>2, DeferrableInv
<1>5. CASE HeadPacket(s, d) \in Order
  <2>1. PICK t \in Task, to \in PE :
              /\ HeadPacket(s, d) = TASK_MIGRATION(t, to)
              /\ Taken(Popped(s, d), pending) /\ Clear(t, Popped(s, d), pending)
              /\ On(t, Stuck(d, to), Popped(s, d), pending) /\ ~IsAt(t, to)
    BY <1>1, <1>5, OrderArrives
  <2>2. QED BY <1>1, <2>1, DeferrableInv
<1>6. QED BY <1>1, <1>3, <1>4, <1>5, ByService

\* A request or an order handled after it was deferred.
LEMMA HandlePendingInv ==
    ASSUME IInv, NEW d \in PE, HandlePending(d)
    PROVE  IInv'
<1>1. /\ pending[d] # <<>> /\ pending' = [pending EXCEPT ![d] = Tail(@)]
      /\ handle_deferrable(d, Head(pending[d]), net)
      /\ pc' = pc /\ moving' = moving /\ moves' = moves
  BY DEF HandlePending, mapperVars
<1>2. Typed /\ SoundTCBs /\ AllOn(net, pending) /\ Family(net) /\ pending \in [PE -> Seq(Ask \cup Order)]
  BY DEF IInv, Typed, Family
<1>3. PICK p : p = pending'
  OBVIOUS
<1>4. Without(p, d) /\ Handling(p)
  <2>1. PICK S : S = Ask \cup Order
    OBVIOUS
  <2>2. pending \in [PE -> Seq(S)] /\ Tail(pending[d]) \in Seq(S)
    BY <1>1, <1>2, <2>1, WithoutHead
  <2>3. p \in [PE -> Seq(S)] /\ p[d] = Tail(pending[d]) /\ \A e \in PE : e # d => p[e] = pending[e]
    BY <1>1, <1>3, <2>2
  <2>4. QED BY <1>1, <1>3, <2>1, <2>3 DEF Without, Handling
<1>5. CASE Head(pending[d]) \in Ask
  <2>1. AllOn(net, p)
    BY <1>1, <1>2, <1>4, LessLater, OnDeferred DEF AllOn
  <2>2. Taken(net, p)
    BY <1>2, <1>4, <2>1 DEF Taken, Without
  <2>3. QED BY <1>1, <1>4, <1>5, <2>2, DeferrableInv
<1>6. CASE Head(pending[d]) \in Order
  <2>1. PICK t \in Task, to \in PE :
              /\ Head(pending[d]) = TASK_MIGRATION(t, to)
              /\ Taken(net, p) /\ Clear(t, net, p)
              /\ On(t, Stuck(d, to), net, p) /\ ~IsAt(t, to)
    BY <1>1, <1>4, <1>6, OrderResumes
  <2>2. QED BY <1>1, <1>4, <2>1, DeferrableInv
<1>7. QED BY <1>1, <1>2, <1>4, <1>5, <1>6, LessLater

Deferred(d, to) == [phase |-> "deferred", from |-> d, to |-> to]

\* In q the service m is deferred at d, after those of p.
Defers(q, p, d, m) == q = [p EXCEPT ![d] = Append(@, m)]

\* A service that is deferred is the last of those of its PE.
LEMMA LaterLast ==
    ASSUME NEW p \in [PE -> Seq(Ask \cup Order)], NEW d \in PE, NEW m \in Ask \cup Order,
           NEW q, Defers(q, p, d, m)
    PROVE  /\ q \in [PE -> Seq(Ask \cup Order)] /\ \A e \in PE : e # d => q[e] = p[e]
           /\ Contents(q[d]) = Contents(p[d]) \cup {m}
           /\ \A a : Before(q[d], a, a) => Before(p[d], a, a) \/ (a = m /\ m \in Contents(p[d]))
<1>1. PICK S : S = Ask \cup Order
  OBVIOUS
<1>2. PICK z : z = <<m>>
  OBVIOUS
<1>3. PICK v : v = p[d]
  OBVIOUS
<1>4. Contents(z) = {m} /\ \A a, b : ~Before(z, a, b)
  BY <1>2 DEF Contents, Before
<1>5. v \in Seq(S) /\ m \in S /\ p \in [PE -> Seq(S)]
  BY <1>1, <1>3
<1>6. z \in Seq(S) /\ Append(v, m) = v \o z /\ v \o z \in Seq(S)
  BY <1>2, <1>5
<1>7. PICK w : w = q[d]
  OBVIOUS
<1>8. w = v \o z /\ (\A e \in PE : e # d => q[e] = p[e]) /\ q \in [PE -> Seq(S)]
  BY <1>3, <1>5, <1>6, <1>7 DEF Defers
<1>9. v \in Seq(S) /\ z \in Seq(S) /\ w = v \o z
  BY <1>5, <1>6, <1>8
<1>10. Contents(w) = Contents(v) \cup Contents(z)
  BY <1>9, Concatenated
<1>11. \A a, b : Before(w, a, b) <=>
          Before(v, a, b) \/ Before(z, a, b) \/ (a \in Contents(v) /\ b \in Contents(z))
  BY <1>9, Concatenated
<1>12. QED BY <1>1, <1>3, <1>4, <1>7, <1>10, <1>11, <1>8

\* A request or an order deferred: the journey of an ordered task goes on to that.
LEMMA DeferInv ==
    ASSUME IInv, NEW s \in Node, NEW d \in PE, Defer(s, d)
    PROVE  IInv'
<1>1. /\ net[<<s, d>>] # <<>> /\ HeadPacket(s, d).service \in {"MESSAGE_REQUEST", "TASK_MIGRATION"}
      /\ pending' = [pending EXCEPT ![d] = Append(@, HeadPacket(s, d))] /\ net' = Popped(s, d)
      /\ kernel' = kernel /\ tcbs' = tcbs /\ message_request' = message_request
      /\ task_location' = task_location /\ pc' = pc /\ moving' = moving /\ moves' = moves
  BY DEF Defer, PacketAt, Deferrable, kernelVars, mapperVars
<1>2. Typed /\ SoundTCBs /\ d \in Node /\ pending \in [PE -> Seq(Ask \cup Order)]
  BY DEF IInv, Typed, Node
<1>3. PICK m : m = HeadPacket(s, d)
  OBVIOUS
<1>4. m \in Ask \cup Order
  <2>1. HeadPacket(s, d) \in Packet
    BY <1>1, <1>2, Shrinks
  <2>2. QED BY <1>1, <1>3, <2>1, ByService
<1>5. PICK N : N = Popped(s, d)
  OBVIOUS
<1>6. PICK q : q = pending'
  OBVIOUS
<1>7. /\ q \in [PE -> Seq(Ask \cup Order)] /\ \A e \in PE : e # d => q[e] = pending[e]
      /\ Contents(q[d]) = Contents(pending[d]) \cup {m}
      /\ \A a : Before(q[d], a, a) => Before(pending[d], a, a) \/ (a = m /\ m \in Contents(pending[d]))
  <2>1. Defers(q, pending, d, m)
    BY <1>1, <1>3, <1>6 DEF Defers
  <2>2. QED BY <1>2, <1>4, <2>1, LaterLast
<1>8. \A u \in Task : ~About(u, m) => NoLater(u, q, pending)
  BY <1>7 DEF NoLater
<1>9. Family(N) /\ AllOn(N, q)
  <2>1. CASE m \in Ask
    <3>1. \A u \in Task : ~About(u, m)
      BY <2>1, PacketsApart DEF About
    <3>2. Taken(N, pending)
      BY <1>1, <1>2, <1>3, <1>5, <3>1, HeadTaken
    <3>3. QED BY <1>8, <3>1, <3>2, OnDeferred DEF Taken, AllOn
  <2>2. CASE m \in Order
    <3>1. PICK t \in Task, to \in PE :
              /\ m = TASK_MIGRATION(t, to)
              /\ Taken(N, pending) /\ Clear(t, N, pending)
              /\ On(t, Stuck(d, to), N, pending) /\ ~IsAt(t, to)
      BY <1>1, <1>3, <1>5, <2>2, OrderArrives
    <3>2. m.to = to /\ m.task = t /\ About(t, m) /\ \A u \in Task : u # t => ~About(u, m)
      BY <2>2, <3>1 DEF TASK_MIGRATION, About
    <3> DEFINE g == Deferred(d, to)
    <3>3. g.from = d /\ g.to = to /\ g.phase = "deferred" /\ g \in Journey
      BY DEF Deferred, Journey, Phase
    <3>4. /\ Stuck(d, to).from = d /\ Stuck(d, to).to = to /\ Stuck(d, to).phase = "stuck"
          /\ Way(Stuck(d, to)) = <<d, to>> /\ <<d, to>> \in Link
      BY <1>2 DEF Stuck, Way, Link, Node
    <3> HIDE DEF g
    <3>5. On(t, g, N, q)
      <4>1. Under(t, g)
        BY <3>1, <3>3, <3>4 DEF On, Under
      <4>2. Pages(t, g)
        <5>1. \A k \in Page : tcbs[to][k].id # t
          BY <3>1 DEF IsAt
        <5>2. QED BY <3>1, <3>3, <3>4, <5>1 DEF On, Pages
      <4>3. Sent(t, g, N)
        <5>1. Sent(t, Stuck(d, to), N)
          BY <3>1 DEF On
        <5>2. \A l \in Link : \A a \in Contents(N[l]) : ~About(t, a)
          BY <3>1 DEF Clear
        <5>3. \A l \in Link : \A a, b : About(t, a) => ~Before(N[l], a, b)
          BY <5>2 DEF Before, Contents
        <5>4. /\ About(t, CODE(t)) /\ About(t, DATA_BSS(t)) /\ About(t, TASK_MIGRATED(t))
              /\ About(t, TASK_MIGRATION(t, to))
          BY PacketFacts
        <5>5. Way(g) \in Link
          BY <3>3, <3>4 DEF Way
        <5>6. QED BY <3>3, <5>2, <5>3, <5>4, <5>5 DEF Sent
      <4>4. Kept(t, g, q)
        <5> SUFFICES ASSUME NEW e \in PE, NEW a \in Contents(q[e]), About(t, a)
                     PROVE  e = d /\ a.to = to /\ ~Before(q[e], a, a)
          BY <3>3 DEF Kept
        <5>1. \A b \in Contents(pending[e]) : ~About(t, b)
          BY <3>1 DEF Clear
        <5>2. e = d /\ a = m
          BY <1>7, <5>1
        <5>3. ~Before(pending[d], a, a)
          BY <5>1, <5>2 DEF Before, Contents
        <5>4. QED BY <1>7, <3>2, <5>1, <5>2, <5>3
      <4>5. Complete(t, g, N)
        BY <3>3 DEF Complete
      <4>6. QED BY <4>1, <4>2, <4>3, <4>4, <4>5 DEF On
    <3>6. ASSUME NEW u \in Task, u # t PROVE \E j \in Journey : On(u, j, N, q)
      BY <1>8, <3>1, <3>2, <3>6, OnDeferred DEF Taken
    <3>7. AllOn(N, q)
      BY <3>3, <3>5, <3>6 DEF AllOn
    <3>8. QED BY <3>1, <3>7 DEF Taken
  <2>3. QED BY <1>4, <2>1, <2>2
<1>10. (\A t : Exited(t) => Exited(t)') /\ (\A t : CallOf(t)' = CallOf(t)) /\ Worse
  BY <1>1, CallsSame DEF Worse
<1>11. Typed'
  BY <1>1, <1>2, <1>5, <1>6, <1>7, <1>9 DEF Typed, Family
<1>12. SoundTCBs'
  BY <1>1, <1>2, <1>10 DEF SoundTCBs, Sound
<1>13. AllOn(net, pending)'
  <2>1. \A t \in Task : NoMore(t, net', N) /\ NoMore(t, N, net')
    BY <1>1, <1>5 DEF NoMore
  <2>2. QED BY <1>1, <1>2, <1>6, <1>9, <1>10, <2>1, PagesSame, Quiet
<1>14. QED BY <1>11, <1>12, <1>13 DEF IInv

\* A message that comes: its consumer goes on, or leaves if it has an order to.
LEMMA HandleDeliveryInv ==
    ASSUME IInv, NEW s \in Node, NEW d \in PE, HandleDelivery(s, d)
    PROVE  IInv'
<1> DEFINE c == HeadPacket(s, d).consumer
<1>1. /\ net[<<s, d>>] # <<>> /\ HeadPacket(s, d).service = "MESSAGE_DELIVERY" /\ kernel[d] = "ok"
      /\ \/ /\ Waits(d, searchTCB(d, c))
            /\ ReleaseConsumer(d, searchTCB(d, c), message_request, Popped(s, d))
            /\ pc' = [pc EXCEPT ![c] = @ + 1]
         \/ Stopped(d, message_request, Popped(s, d)) /\ pc' = pc
      /\ pending' = pending /\ moving' = moving /\ moves' = moves
  BY DEF HandleDelivery, PacketAt, mapperVars
<1>2. Typed /\ SoundTCBs /\ d \in Node /\ message_request \in [PE -> SUBSET Requests]
  BY DEF IInv, Typed, Node
<1>3. HeadPacket(s, d) \in Answer /\ c \in Task
  <2>1. HeadPacket(s, d) \in Packet
    BY <1>1, <1>2, Shrinks
  <2>2. QED BY <1>1, <2>1, ByService DEF Answer
<1>4. Taken(Popped(s, d), pending)
  <2>1. \A u \in Task : ~About(u, HeadPacket(s, d))
    BY <1>3, PacketsApart DEF About
  <2>2. QED BY <1>1, <1>2, <2>1, HeadTaken
<1> HIDE DEF c
<1>5. PICK N : N = Popped(s, d)
  OBVIOUS
<1>6. PICK k : k = searchTCB(d, c)
  OBVIOUS
<1>7. CASE Stopped(d, message_request, Popped(s, d)) /\ pc' = pc
  <2>1. Handling(pending)
    BY <1>1, <1>7 DEF Handling
  <2>2. QED BY <1>2, <1>4, <1>7, <2>1, StoppedInv
<1>8. CASE /\ Waits(d, k) /\ ReleaseConsumer(d, k, message_request, N)
           /\ pc' = [pc EXCEPT ![c] = @ + 1]
  <2>1. k \in Page /\ tcbs[d][k].id = c /\ tcbs[d][k].waiting_msg /\ Taken(N, pending)
    BY <1>3, <1>4, <1>5, <1>6, <1>8, Searched DEF Waits
  <2>2. Advance(d, k)
    <3> DEFINE S == {c}
    <3>1. S \in SUBSET Task /\ (\A u \in S : CallOf(u).op \in {"send", "receive"}) /\ \A u \in S : u = c
      BY <1>2, <1>3, <2>1 DEF SoundTCBs, Sound
    <3>2. pc' = [u \in Task |-> IF u \in S THEN pc[u] + 1 ELSE pc[u]]
      BY <1>2, <1>3, <1>8 DEF Typed
    <3>3. Waits(d, searchTCB(d, c))
      BY <1>6, <1>8
    <3> HIDE DEF S
    <3>4. QED BY <1>3, <1>6, <2>1, <3>1, <3>2, <3>3, Awaited
  <2>3. QED BY <1>1, <1>2, <1>3, <1>8, <2>1, <2>2, ReleaseInv
<1>9. QED BY <1>1, <1>5, <1>6, <1>7, <1>8

-----------------------------------------------------------------------------
(* Arriving at a PE *)

\* A part of a task comes to where the task goes.
LEMMA PartArrives ==
    ASSUME IInv, NEW s \in Node, NEW d \in PE, net[<<s, d>>] # <<>>, HeadPacket(s, d) \in TaskPart
    PROVE  \E t \in Task, j \in Journey :
              /\ HeadPacket(s, d).task = t /\ On(t, j, net, pending)
              /\ Way(j) = <<s, d>> /\ j.to = d /\ j.phase \in {"kept", "left", "stuck"}
              /\ HeadPacket(s, d) # CODE(t) => j.phase = "left"
              /\ \A u \in Task \ {t} : NoMore(u, Popped(s, d), net) /\ NoMore(u, net, Popped(s, d))
<1>1. Typed /\ AllOn(net, pending) /\ net \in [Link -> Seq(Packet)] /\ d \in Node
  BY DEF IInv, Typed, Node
<1>2. PICK m : m = HeadPacket(s, d)
  OBVIOUS
<1>3. PICK t \in Task : m.task = t
  BY <1>2 DEF TaskPart, Bare, Locations, RequestList
<1>4. PICK l : l = <<s, d>>
  OBVIOUS
<1>5. /\ l \in Link /\ Popped(s, d) = Drop(net, l) /\ m = Head(net[l]) /\ m \in Contents(net[l])
      /\ net[l] # <<>>
  BY <1>1, <1>2, <1>4, Shrinks
<1>6. PICK j \in Journey : On(t, j, net, pending)
  BY <1>1 DEF AllOn
<1>7. About(t, m) /\ \A u \in Task \ {t} : ~About(u, m)
  BY <1>2, <1>3 DEF About
<1>8. Placed(t, j, l, m)
  BY <1>5, <1>6, <1>7 DEF On, Sent
<1>9. Way(j) = l /\ j.phase \in {"kept", "left", "stuck"} /\ (m # CODE(t) => j.phase = "left")
  BY <1>2, <1>8 DEF Placed
<1>10. j.to = d
  BY <1>4, <1>9 DEF Way
<1>11. \A u \in Task \ {t} : NoMore(u, Popped(s, d), net) /\ NoMore(u, net, Popped(s, d))
  BY <1>1, <1>5, <1>7, Dropped
<1>12. QED BY <1>2, <1>3, <1>4, <1>6, <1>9, <1>10, <1>11

\* A part that is not the last has been taken, or stopped the kernel.
LEMMA PartTaken ==
    ASSUME NEW t \in Task, NEW j \in Journey, On(t, j, net, pending), net \in [Link -> Seq(Packet)],
           NEW l \in Link, l = Way(j), net[l] # <<>>, NEW m, m = Head(net[l]), m # DATA_BSS(t),
           net' = Drop(net, l), Worse, pending' = pending, moving'[t] = moving[t],
           Exited(t) => Exited(t)', Pages(t, j)', IsAt(t, j.from)' <=> IsAt(t, j.from),
           \A part \in Part : HasPart(t, j.to, part) => HasPart(t, j.to, part)',
           kernel'[j.to] = "ok" => \A part \in {"code", "registers", "stack"} :
               m = PacketOf(part, t) => HasPart(t, j.to, part)',
           CODE(t) \in Contents(net'[l]) => ~IsAt(t, j.to)'
    PROVE  On(t, j, net, pending)'
<1>1. j.to \in PE /\ net[l] \in Seq(Packet) /\ net'[l] = Tail(net[l])
  BY DEF Journey, Drop
<1>2. \A a, b : /\ Contents(net[l]) = Contents(net'[l]) \cup {m}
                /\ Before(net[l], a, b) /\ a # m => Before(net'[l], a, b)
  <2>1. PICK v : v = net[l]
    OBVIOUS
  <2>2. v \in Seq(Packet) /\ v # <<>> /\ m = Head(v) /\ net'[l] = Tail(v)
    BY <1>1, <2>1
  <2>3. \A a, b : /\ Contents(v) = Contents(Tail(v)) \cup {Head(v)}
                  /\ Before(v, a, b) /\ a # Head(v) => Before(Tail(v), a, b)
    BY <2>2, WithoutHead
  <2>4. QED BY <2>1, <2>2, <2>3
<1>3. Under(t, j)'
  BY DEF On, Under
<1>4. Sent(t, j, net)'
  <2>1. NoMore(t, net', net)
    BY Dropped
  <2>2. Sent(t, j, net')
    BY <2>1, SentLess DEF On
  <2>3. \A k, a : Placed(t, j, k, a) => Placed(t, j, k, a)'
    BY DEF Placed
  <2>4. QED BY <2>2, <2>3 DEF Sent
<1>5. Kept(t, j, pending)'
  BY DEF On, Kept
<1>6. Complete(t, j, net)'
  <2>1. kernel'[j.to] = "ok" => kernel[j.to] = "ok"
    BY <1>1 DEF Worse
  <2>2. /\ CODE(t) = PacketOf("code", t)
        /\ \A part \in {"code", "registers", "stack"} : PacketOf(part, t) # DATA_BSS(t)
    BY PacketFacts
  <2>3. Complete(t, j, net)
    BY DEF On
  <2>4. j.phase = "kept" /\ kernel'[j.to] = "ok" =>
            HasPart(t, j.to, "code")' \/ CODE(t) \in Contents(net'[l])
    BY <1>2, <2>1, <2>2, <2>3 DEF Complete, Part
  <2>5. j.phase = "left" => DATA_BSS(t) \in Contents(net'[l])
    BY <1>2, <2>3 DEF Complete
  <2>6. j.phase = "left" /\ kernel'[j.to] = "ok" => \A part \in {"code", "registers", "stack"} :
            HasPart(t, j.to, part)' \/ Before(net'[l], PacketOf(part, t), DATA_BSS(t))
    BY <1>2, <2>1, <2>3 DEF Complete, Part
  <2>7. QED BY <2>4, <2>5, <2>6 DEF Complete
<1>7. QED BY <1>3, <1>4, <1>5, <1>6 DEF On

\* A task whose page, free since its exit, is used again.
LEMMA Overwritten ==
    ASSUME SoundTCBs, NEW u \in Task, NEW g \in Journey, NEW N, NEW p, On(u, g, N, p),
           NEW d \in PE, NEW i \in Page, tcbs[d][i].id = u, tcbs[d][i].status = "FREE",
           NEW x, x.id # u, Becomes(d, i, x), kernel' = kernel,
           NoMore(u, net', N), NoMore(u, N, net'), pending' = p, moving'[u] = moving[u],
           Exited(u) => Exited(u)'
    PROVE  On(u, g, net, pending)'
<1>1. Under(u, g) /\ Pages(u, g) /\ Sent(u, g, N) /\ Kept(u, g, p) /\ Complete(u, g, N)
  BY DEF On
<1>2. Exited(u)
  BY DEF SoundTCBs, Sound
<1>3. d = g.from /\ g.phase # "left"
  BY <1>1 DEF Pages
<1>4. \A e \in PE : \A k \in Page :
         tcbs'[e][k].id = u => tcbs[e][k] = tcbs'[e][k] /\ tcbs[e][k].id = u
  BY DEF Becomes
<1>5. g.to \in PE /\ Way(g) \in Link
  BY DEF Journey, Way, Link, Node
<1>6. Under(u, g)'
  BY <1>1, <1>2 DEF Under
<1>7. Pages(u, g)'
  BY <1>1, <1>4 DEF Pages
<1>8. Sent(u, g, net)'
  <2>1. Sent(u, g, net')
    BY <1>1, SentLess
  <2>2. \A l, m : Placed(u, g, l, m) => Placed(u, g, l, m)'
    BY DEF Placed
  <2>3. IsAt(u, g.to)' => IsAt(u, g.to)
    BY <1>4, <1>5 DEF IsAt
  <2>4. QED BY <2>1, <2>2, <2>3 DEF Sent
<1>9. Kept(u, g, pending)'
  BY <1>1 DEF Kept
<1>10. Complete(u, g, net)'
  <2>1. Complete(u, g, net')
    BY <1>1, CompleteMore
  <2>2. g.phase = "kept" => \A k \in Page : tcbs'[g.to][k] = tcbs[g.to][k]
    BY <1>1, <1>3, <1>5 DEF Under, Becomes
  <2>3. g.phase = "kept" => \A part : HasPart(u, g.to, part) => HasPart(u, g.to, part)'
    BY <2>2 DEF HasPart
  <2>4. QED BY <1>3, <2>1, <2>3 DEF Complete
<1>11. QED BY <1>6, <1>7, <1>8, <1>9, <1>10 DEF On

\* The code of a task comes: the task takes a page, on which it is not already.
LEMMA HandleCodeInv ==
    ASSUME IInv, NEW s \in Node, NEW d \in PE, HandleCode(s, d)
    PROVE  IInv'
<1>1. /\ net[<<s, d>>] # <<>> /\ kernel[d] = "ok" /\ HeadPacket(s, d).service = "MIGRATION_CODE"
      /\ net' = Popped(s, d)
      /\ \/ FreePages(d) = {} /\ kernel' = [kernel EXCEPT ![d] = "error"] /\ tcbs' = tcbs
         \/ /\ FreePages(d) # {} /\ kernel' = kernel
            /\ handle_migration_code(d, search_free_TCB(d), HeadPacket(s, d).task)
      /\ message_request' = message_request /\ task_location' = task_location
      /\ pending' = pending /\ pc' = pc /\ moving' = moving /\ moves' = moves
  BY DEF HandleCode, PacketAt, KernelError, mapperVars
<1>2. /\ Typed /\ SoundTCBs /\ AllOn(net, pending) /\ net \in [Link -> Seq(Packet)] /\ d \in Node
      /\ tcbs \in [PE -> [Page -> TCB]]
  BY DEF IInv, Typed, Node
<1>3. PICK l : l = <<s, d>>
  OBVIOUS
<1>4. PICK m : m = HeadPacket(s, d)
  OBVIOUS
<1>5. /\ Family(net') /\ l \in Link /\ net' = Drop(net, l) /\ m = Head(net[l]) /\ m \in Packet
      /\ net[l] # <<>>
  BY <1>1, <1>2, <1>3, <1>4, Shrinks
<1>6. m \in TaskPart /\ m = CODE(m.task)
  BY <1>1, <1>4, <1>5, ByService DEF CODE
<1>7. PICK t \in Task, j \in Journey :
              /\ m.task = t /\ On(t, j, net, pending)
              /\ Way(j) = l /\ j.to = d /\ j.phase \in {"kept", "left", "stuck"}
              /\ \A u \in Task \ {t} : NoMore(u, net', net) /\ NoMore(u, net, net')
  BY <1>1, <1>3, <1>4, <1>6, PartArrives
<1>8. /\ Under(t, j) /\ Pages(t, j) /\ Sent(t, j, net) /\ About(t, m) /\ m = CODE(t)
      /\ m # DATA_BSS(t)
  BY <1>6, <1>7, PacketFacts DEF On
<1>9. (\A u : Exited(u) => Exited(u)') /\ (\A u : CallOf(u)' = CallOf(u))
  BY <1>1, CallsSame
<1>10. ~IsAt(t, d) /\ CODE(t) \notin Contents(net'[l])
  <2>1. PICK v : v = net[l]
    OBVIOUS
  <2>2. v \in Seq(Packet) /\ v # <<>> /\ m = Head(v) /\ net'[l] = Tail(v)
    BY <1>2, <1>5, <2>1 DEF Drop
  <2>3. /\ Contents(v) = Contents(Tail(v)) \cup {Head(v)}
        /\ m \in Contents(Tail(v)) => Before(v, Head(v), m)
    BY <2>2, WithoutHead
  <2>4. QED BY <1>5, <1>7, <1>8, <2>1, <2>2, <2>3 DEF Sent
<1>11. Worse /\ kernel' \in [PE -> {"ok", "error"}] /\ (FreePages(d) = {} => kernel'[d] = "error")
  BY <1>1, <1>2 DEF Worse, Typed
<1>12. CASE FreePages(d) = {}
  <2>1. tcbs' = tcbs
    BY <1>1, <1>12
  <2>2. Typed'
    BY <1>1, <1>2, <1>5, <1>11, <2>1 DEF Typed, Family
  <2>3. SoundTCBs'
    BY <1>2, <1>9, <1>11, <2>1 DEF SoundTCBs, Sound, Worse
  <2>4. On(t, j, net, pending)'
    <3>1. Pages(t, j)'
      BY <1>8, <1>11, <2>1 DEF Pages, Worse
    <3>2. \A e : IsAt(t, e)' <=> IsAt(t, e)
      BY <2>1 DEF IsAt
    <3>3. \A part : HasPart(t, j.to, part) => HasPart(t, j.to, part)'
      BY <2>1 DEF HasPart
    <3>4. kernel'[j.to] # "ok"
      BY <1>7, <1>11, <1>12
    <3>5. QED BY <1>1, <1>2, <1>5, <1>7, <1>8, <1>9, <1>10, <1>11, <3>1, <3>2, <3>3, <3>4, PartTaken
  <2>5. AllOn(net, pending)'
    <3>1. \A u \in Task : PagesKept(u)
      BY <1>2, <2>1, PagesSame
    <3>2. QED BY <1>1, <1>2, <1>7, <1>9, <1>11, <2>4, <3>1, OneMoves
  <2>6. QED BY <2>2, <2>3, <2>5 DEF IInv
<1>13. CASE FreePages(d) # {}
  <2>1. PICK i : i = search_free_TCB(d)
    OBVIOUS
  <2>2. i \in Page /\ tcbs[d][i].status = "FREE" /\ kernel' = kernel
    <3>1. i \in FreePages(d)
      BY <1>13, <2>1, FirstPage DEF search_free_TCB, FreePages
    <3>2. QED BY <1>1, <1>13, <3>1 DEF FreePages
  <2>3. PICK x : x = [tcbs[d][i] EXCEPT !.id = t, !.status = "MIGRATING", !.parts = {"code"}]
    OBVIOUS
  <2>4. tcbs[d][i] \in TCB /\ ~tcbs[d][i].waiting_msg /\ tcbs[d][i].proc_to_migrate = NoPE
    BY <1>1, <1>2, <2>2 DEF SoundTCBs, Sound
  <2>5. /\ x \in TCB /\ x.id = t /\ x.status = "MIGRATING" /\ x.parts = {"code"}
        /\ ~x.waiting_msg /\ x.proc_to_migrate = NoPE
    BY <2>3, <2>4 DEF TCB, Part
  <2>6. Becomes(d, i, x)
    <3>1. tcbs' = [tcbs EXCEPT ![d][i] = x]
      BY <1>1, <1>4, <1>7, <1>13, <2>1, <2>3 DEF handle_migration_code
    <3>2. QED BY <1>2, <2>2, <2>5, <3>1, Written
  <2>7. Typed'
    BY <1>1, <1>2, <1>5, <1>11, <2>6 DEF Typed, Family, Becomes
  <2>8. SoundTCBs'
    <3>1. Sound(kernel[d], x)'
      BY <2>5 DEF Sound
    <3>2. \A u \in Task : \A e \in PE : \A k \in Page :
              tcbs[e][k].waiting_msg /\ tcbs[e][k].id = u => CallOf(u)'.op = "receive"
      BY <1>2, <1>9 DEF SoundTCBs, Sound
    <3>3. QED BY <1>2, <1>9, <1>11, <2>2, <2>6, <3>1, <3>2, SoundBut
  <2>9. On(t, j, net, pending)'
    <3>1. \A e \in PE : \A k \in Page :
             tcbs'[e][k].id = t => (e = d /\ k = i /\ tcbs'[e][k] = x)
                                   \/ (e # d /\ tcbs'[e][k] = tcbs[e][k] /\ tcbs[e][k].id = t)
      BY <1>10, <2>6 DEF Becomes, IsAt
    <3>2. Pages(t, j)'
      BY <1>7, <1>8, <2>2, <2>5, <3>1 DEF Pages
    <3>3. j.from # d /\ j.from \in PE
      BY <1>7, <1>8 DEF Under, Journey
    <3>4. IsAt(t, j.from)' <=> IsAt(t, j.from)
      BY <2>6, <3>3 DEF IsAt, Becomes
    <3>5. \A part : ~HasPart(t, j.to, part)
      BY <1>7, <1>10 DEF HasPart, IsAt
    <3>6. HasPart(t, j.to, "code")'
      BY <1>7, <2>2, <2>5, <2>6 DEF HasPart, Becomes
    <3>7. \A part \in {"code", "registers", "stack"} : m = PacketOf(part, t) => part = "code"
      BY <1>8, PacketFacts
    <3>8. /\ On(t, j, net, pending) /\ net \in [Link -> Seq(Packet)] /\ l \in Link /\ l = Way(j)
          /\ net[l] # <<>> /\ m = Head(net[l]) /\ m # DATA_BSS(t) /\ net' = Drop(net, l)
          /\ Worse /\ pending' = pending /\ moving'[t] = moving[t] /\ (Exited(t) => Exited(t)')
      BY <1>1, <1>2, <1>5, <1>7, <1>8, <1>9, <1>11
    <3>9. CODE(t) \notin Contents(net'[l])
      BY <1>10
    <3>10. /\ \A part \in Part : HasPart(t, j.to, part) => HasPart(t, j.to, part)'
           /\ \A part \in {"code", "registers", "stack"} :
                m = PacketOf(part, t) => HasPart(t, j.to, part)'
      BY <3>5, <3>6, <3>7
    <3>11. QED BY <3>2, <3>4, <3>8, <3>9, <3>10, PartTaken
  <2>10. ASSUME NEW u \in Task, u # t PROVE \E g \in Journey : On(u, g, net, pending)'
    <3>1. PICK g \in Journey : On(u, g, net, pending)
      BY <1>2 DEF AllOn
    <3>2. x.id # u /\ NoMore(u, net', net) /\ NoMore(u, net, net')
      BY <1>7, <2>5, <2>10
    <3>3. CASE tcbs[d][i].id = u
      <4>1. On(u, g, net, pending)'
        BY <1>1, <1>2, <1>9, <2>2, <2>6, <3>1, <3>2, <3>3, Overwritten
      <4>2. QED BY <4>1
    <3>4. CASE tcbs[d][i].id # u
      <4>1. PagesKept(u)
        BY <2>2, <2>6, <3>2, <3>4, PageKept
      <4>2. On(u, g, net, pending)'
        BY <1>1, <1>9, <1>11, <3>1, <3>2, <4>1, Undisturbed
      <4>3. QED BY <4>2
    <3>5. QED BY <3>3, <3>4
  <2>11. AllOn(net, pending)'
    BY <1>7, <2>9, <2>10 DEF AllOn
  <2>12. QED BY <2>7, <2>8, <2>11 DEF IInv
<1>14. QED BY <1>12, <1>13

\* With a part in the middle, all tasks stay on their journeys.
LEMMA MiddlePart ==
    ASSUME IInv, NEW s \in Node, NEW d \in PE, net[<<s, d>>] # <<>>, net' = Popped(s, d),
           NEW t \in Task, NEW j \in Journey, On(t, j, net, pending), Way(j) = <<s, d>>, j.to = d,
           HeadPacket(s, d) # DATA_BSS(t),
           \A u \in Task \ {t} : NoMore(u, net', net) /\ NoMore(u, net, net'),
           Worse, pending' = pending, moving' = moving,
           \A u \in Task : PagesKept(u) /\ (Exited(u) => Exited(u)'),
           kernel'[d] = "ok" => \A part \in {"code", "registers", "stack"} :
               HeadPacket(s, d) = PacketOf(part, t) => HasPart(t, d, part)'
    PROVE  AllOn(net, pending)'
<1>1. Typed /\ AllOn(net, pending) /\ net \in [Link -> Seq(Packet)] /\ d \in Node
  BY DEF IInv, Typed, Node
<1>2. PICK l : l = <<s, d>>
  OBVIOUS
<1>3. PICK m : m = HeadPacket(s, d)
  OBVIOUS
<1>4. l \in Link /\ net' = Drop(net, l) /\ m = Head(net[l]) /\ net[l] # <<>> /\ l = Way(j)
  BY <1>1, <1>2, <1>3, Shrinks
<1>5. Pages(t, j) /\ Sent(t, j, net)
  BY DEF On
<1>6. Pages(t, j)'
  BY <1>5 DEF Pages, PagesKept, Worse
<1>7. \A e \in PE : IsAt(t, e)' <=> IsAt(t, e)
  BY DEF IsAt, PagesKept
<1>8. \A e \in PE : \A part : HasPart(t, e, part) => HasPart(t, e, part)'
  BY DEF HasPart, PagesKept
<1>9. CODE(t) \in Contents(net'[l]) => ~IsAt(t, j.to)'
  <2>1. NoMore(t, net', net) /\ About(t, CODE(t))
    BY <1>1, <1>4, Dropped, PacketFacts
  <2>2. CODE(t) \in Contents(net'[l]) => CODE(t) \in Contents(net[l])
    BY <1>4, <2>1 DEF NoMore
  <2>3. QED BY <1>4, <1>5, <1>7, <2>2 DEF Sent
<1>10. j.from \in PE
  BY DEF Journey
<1>11. On(t, j, net, pending)'
  BY <1>1, <1>3, <1>4, <1>6, <1>7, <1>8, <1>9, <1>10, PartTaken
<1>12. QED BY <1>1, <1>11, OneMoves

\* After the last part the task is home on its page, with all its parts.
LEMMA LastPart ==
    ASSUME IInv, NEW s \in Node, NEW d \in PE, net[<<s, d>>] # <<>>, net' = Popped(s, d),
           NEW t \in Task, NEW j \in Journey, On(t, j, net, pending), Way(j) = <<s, d>>, j.to = d,
           j.phase = "left", HeadPacket(s, d) = DATA_BSS(t), kernel[d] = "ok"
    PROVE  /\ \E i \in Page : /\ tcbs[d][i].id = t /\ {"code", "registers", "stack"} \subseteq tcbs[d][i].parts
                              /\ tcbs[d][i].status = "MIGRATING"
           /\ \A l \in Link : \A m \in Contents(net'[l]) : About(t, m) => m \in Report
<1>1. Typed /\ net \in [Link -> Seq(Packet)] /\ d \in Node
  BY DEF IInv, Typed, Node
<1>2. PICK l : l = <<s, d>>
  OBVIOUS
<1>3. PICK m : m = DATA_BSS(t)
  OBVIOUS
<1>4. l \in Link /\ net' = Drop(net, l) /\ m = Head(net[l]) /\ net[l] # <<>> /\ l = Way(j)
  BY <1>1, <1>2, <1>3, Shrinks
<1>5. Pages(t, j) /\ Sent(t, j, net) /\ Complete(t, j, net)
  BY DEF On
<1>6. About(t, m) /\ m \in TaskPart
  BY <1>3, PacketFacts
<1>7. PICK v : v = net[l]
  OBVIOUS
<1>8. \A a : /\ v \in Seq(Packet) /\ Contents(v) = Contents(Tail(v)) \cup {m} /\ net'[l] = Tail(v)
             /\ a \in Contents(Tail(v)) => Before(v, m, a)
             /\ Before(v, a, m) => Before(v, m, m)
  <2>1. v \in Seq(Packet) /\ v # <<>> /\ m = Head(v) /\ net'[l] = Tail(v)
    BY <1>1, <1>4, <1>7 DEF Drop
  <2>2. \A a : /\ Contents(v) = Contents(Tail(v)) \cup {Head(v)}
               /\ a \in Contents(Tail(v)) => Before(v, Head(v), a)
               /\ Before(v, a, Head(v)) => Before(v, Head(v), Head(v))
    BY <2>1, WithoutHead
  <2>3. QED BY <2>1, <2>2
<1>9. \A a \in Contents(v) : About(t, a) => ~Before(v, m, a)
  BY <1>3, <1>4, <1>5, <1>7 DEF Sent
<1>10. \A a : ~Before(v, a, m)
  BY <1>6, <1>8, <1>9
<1>11. \A part \in {"code", "registers", "stack"} : HasPart(t, d, part)
  BY <1>3, <1>4, <1>5, <1>7, <1>10 DEF Complete
<1>12. PICK i \in Page : tcbs[d][i].id = t /\ "code" \in tcbs[d][i].parts
  BY <1>11 DEF HasPart
<1>13. \A k \in Page : tcbs[d][k].id = t => k = i
  BY <1>5, <1>12 DEF Pages
<1>14. {"code", "registers", "stack"} \subseteq tcbs[d][i].parts
  BY <1>11, <1>13 DEF HasPart
<1>15. tcbs[d][i].status = "MIGRATING"
  BY <1>5, <1>12 DEF Pages
<1>16. ASSUME NEW k \in Link, NEW a \in Contents(net'[k]), About(t, a) PROVE a \in Report
  <2>1. NoMore(t, net', net)
    BY <1>1, <1>4, Dropped
  <2>2. Placed(t, j, k, a)
    BY <1>5, <1>16, <2>1 DEF NoMore, Sent
  <2>3. a \notin Order
    BY <2>2 DEF Placed
  <2>4. a \notin TaskPart
    <3>1. SUFFICES ASSUME a \in TaskPart PROVE FALSE
      OBVIOUS
    <3>2. k = l
      BY <1>4, <2>2, <3>1 DEF Placed
    <3>3. Before(v, m, a) /\ a \in Contents(v)
      BY <1>8, <1>16, <3>2
    <3>4. QED BY <1>9, <1>16, <3>3
  <2>5. QED BY <1>16, <2>3, <2>4 DEF About
<1>17. QED BY <1>12, <1>14, <1>15, <1>16

AtHome(d) == [phase |-> "home", from |-> d, to |-> d]

\* With its last part a task that left is at home where it came.
LEMMA Arrives ==
    ASSUME IInv, NEW d \in PE, NEW t \in Task, NEW j \in Journey, On(t, j, net, pending),
           j.to = d, j.phase = "left", NEW i \in Page, tcbs[d][i].id = t,
           NEW x, x.id = t, x.status = "READY", x.proc_to_migrate = NoPE, Becomes(d, i, x),
           NoMore(t, net', net), \A l \in Link : \A m \in Contents(net'[l]) : About(t, m) => m \in Report,
           pending' = pending, moving' = moving
    PROVE  AtHome(d) \in Journey /\ On(t, AtHome(d), net, pending)'
<1> DEFINE g == AtHome(d)
<1>1. g.from = d /\ g.to = d /\ g.phase = "home" /\ g \in Journey /\ Way(g) \in Link
  BY DEF AtHome, Journey, Phase, Way, Link, Node
<1> HIDE DEF g
<1>2. Pages(t, j) /\ Sent(t, j, net) /\ Kept(t, j, pending)
  BY DEF On
<1>3. \A e \in PE : \A k \in Page :
         tcbs'[e][k].id = t => e = d /\ k = i /\ tcbs'[e][k] = x
  <2> SUFFICES ASSUME NEW e \in PE, NEW k \in Page, tcbs'[e][k].id = t, e # d \/ k # i PROVE FALSE
    BY DEF Becomes
  <2>1. tcbs[e][k].id = t
    BY DEF Becomes
  <2>2. e = d
    BY <1>2, <2>1 DEF Pages
  <2>3. QED BY <1>2, <2>1, <2>2 DEF Pages
<1>4. Under(t, g)'
  <2>1. IsAt(t, d)'
    BY DEF IsAt, Becomes
  <2>2. QED BY <1>1, <2>1 DEF Under
<1>5. Pages(t, g)'
  BY <1>1, <1>3 DEF Pages
<1>6. Sent(t, g, net)'
  <2>1. \A l \in Link : \A m \in Contents(net'[l]) : About(t, m) => Placed(t, g, l, m)'
    <3> SUFFICES ASSUME NEW l \in Link, NEW m \in Contents(net'[l]), About(t, m) PROVE Placed(t, g, l, m)'
      OBVIOUS
    <3>1. m \in Report /\ m \in Contents(net[l])
      BY DEF NoMore
    <3>2. l[2] = Manager /\ moving[t]
      BY <1>2, <3>1 DEF Sent, Placed
    <3>3. QED BY <1>1, <3>1, <3>2, PacketsApart DEF Placed
  <2>2. /\ About(t, CODE(t)) /\ About(t, DATA_BSS(t)) /\ About(t, TASK_MIGRATED(t))
        /\ About(t, TASK_MIGRATION(t, d))
        /\ CODE(t) \notin Report /\ DATA_BSS(t) \notin Report /\ TASK_MIGRATION(t, d) \notin Report
    BY PacketFacts, PacketsApart
  <2>3. \A l \in Link : \A a, b : Before(net'[l], a, b) => a \in Contents(net'[l])
    BY DEF Before, Contents
  <2>4. \A l \in Link : \A m \in {CODE(t), TASK_MIGRATION(t, d), TASK_MIGRATED(t)} : ~Before(net'[l], m, m)
    <3>1. \A l \in Link : ~Before(net'[l], TASK_MIGRATED(t), TASK_MIGRATED(t))
      BY <1>2, <2>2 DEF Sent, NoMore
    <3>2. QED BY <2>2, <2>3, <3>1
  <2>5. \A k, l \in Link : TASK_MIGRATED(t) \in Contents(net'[k]) \cap Contents(net'[l]) => k = l
    BY <1>2, <2>2 DEF Sent, NoMore
  <2>6. \A a : ~Before(net'[Way(g)], DATA_BSS(t), a)
    BY <1>1, <2>2, <2>3
  <2>7. CODE(t) \notin Contents(net'[Way(g)])
    BY <1>1, <2>2
  <2>8. QED BY <1>1, <2>1, <2>4, <2>5, <2>6, <2>7 DEF Sent
<1>7. Kept(t, g, pending)'
  BY <1>2 DEF Kept
<1>8. Complete(t, g, net)'
  BY <1>1 DEF Complete
<1>9. QED BY <1>1, <1>4, <1>5, <1>6, <1>7, <1>8 DEF On, g

\* A part enters the TCB.
LEMMA PartWritten ==
    ASSUME Typed, NEW d \in PE, NEW i \in Page, NEW part \in Part, NEW T, T = Arrived(d, i, part)
    PROVE  \E y \in TCB :
              /\ y.id = tcbs[d][i].id /\ y.waiting_msg = tcbs[d][i].waiting_msg
              /\ y.parts = tcbs[d][i].parts \cup {part}
              /\ y.status = tcbs[d][i].status /\ y.proc_to_migrate = tcbs[d][i].proc_to_migrate
              /\ T \in [PE -> [Page -> TCB]] /\ T[d][i] = y
              /\ \A e \in PE : \A k \in Page : e # d \/ k # i => T[e][k] = tcbs[e][k]
<1>1. tcbs \in [PE -> [Page -> TCB]] /\ tcbs[d][i] \in TCB
  BY DEF Typed
<1>2. PICK y : y = [tcbs[d][i] EXCEPT !.parts = @ \cup {part}]
  OBVIOUS
<1>3. /\ y \in TCB /\ y.id = tcbs[d][i].id /\ y.waiting_msg = tcbs[d][i].waiting_msg
      /\ y.parts = tcbs[d][i].parts \cup {part}
      /\ y.status = tcbs[d][i].status /\ y.proc_to_migrate = tcbs[d][i].proc_to_migrate
  BY <1>1, <1>2 DEF TCB
<1>4. T = [tcbs EXCEPT ![d][i] = y]
  BY <1>2 DEF Arrived
<1>5. /\ T \in [PE -> [Page -> TCB]] /\ T[d][i] = y
      /\ \A e \in PE : \A k \in Page : e # d \/ k # i => T[e][k] = tcbs[e][k]
  BY <1>1, <1>3, <1>4
<1>6. QED BY <1>3, <1>5

\* What the services that write the TCB of a task without a period make of it.
PartIn(d, i, part, x) ==
    /\ x \in TCB /\ Becomes(d, i, x)
    /\ x.id = tcbs[d][i].id /\ x.waiting_msg = tcbs[d][i].waiting_msg
    /\ x.parts = tcbs[d][i].parts \cup {part}

\* What the three parts that go to the TCB write there, for a task without a period.
LEMMA PartOfTCB ==
    ASSUME Typed, NEW d \in PE, NEW i \in Page, NEW t \in Task \ RealTime
    PROVE  /\ handle_migration_TCB(d, i, t) => \E x : PartIn(d, i, "registers", x)
              /\ x.status = tcbs[d][i].status /\ x.proc_to_migrate = tcbs[d][i].proc_to_migrate
           /\ handle_migration_stack(d, i) => \E x : PartIn(d, i, "stack", x)
              /\ x.status = tcbs[d][i].status /\ x.proc_to_migrate = tcbs[d][i].proc_to_migrate
           /\ handle_migration_DATA_BSS(d, i) => \E x : PartIn(d, i, "data", x)
              /\ x.status = "READY" /\ x.proc_to_migrate = NoPE
<1>1. ASSUME handle_migration_stack(d, i)
      PROVE  \E x : PartIn(d, i, "stack", x)
              /\ x.status = tcbs[d][i].status /\ x.proc_to_migrate = tcbs[d][i].proc_to_migrate
  <2>1. PICK T : T = Arrived(d, i, "stack")
    OBVIOUS
  <2>2. PICK y \in TCB :
              /\ y.id = tcbs[d][i].id /\ y.waiting_msg = tcbs[d][i].waiting_msg
              /\ y.parts = tcbs[d][i].parts \cup {"stack"}
              /\ y.status = tcbs[d][i].status /\ y.proc_to_migrate = tcbs[d][i].proc_to_migrate
              /\ T \in [PE -> [Page -> TCB]] /\ T[d][i] = y
              /\ \A e \in PE : \A k \in Page : e # d \/ k # i => T[e][k] = tcbs[e][k]
    BY <2>1, PartWritten DEF Part
  <2>3. tcbs' = T
    BY <1>1, <2>1 DEF handle_migration_stack
  <2>4. PartIn(d, i, "stack", y)
    BY <2>2, <2>3 DEF PartIn, Becomes
  <2>5. QED BY <2>2, <2>4
<1>2. ASSUME handle_migration_TCB(d, i, t)
      PROVE  \E x : PartIn(d, i, "registers", x)
              /\ x.status = tcbs[d][i].status /\ x.proc_to_migrate = tcbs[d][i].proc_to_migrate
  <2>1. PICK T : T = Arrived(d, i, "registers")
    OBVIOUS
  <2>2. PICK y \in TCB :
              /\ y.id = tcbs[d][i].id /\ y.waiting_msg = tcbs[d][i].waiting_msg
              /\ y.parts = tcbs[d][i].parts \cup {"registers"}
              /\ y.status = tcbs[d][i].status /\ y.proc_to_migrate = tcbs[d][i].proc_to_migrate
              /\ T \in [PE -> [Page -> TCB]] /\ T[d][i] = y
              /\ \A e \in PE : \A k \in Page : e # d \/ k # i => T[e][k] = tcbs[e][k]
    BY <2>1, PartWritten DEF Part
  <2>3. PICK x : x = [y EXCEPT !.status = y.status]
    OBVIOUS
  <2>4. x = y
    BY <2>2, <2>3 DEF TCB
  <2>5. tcbs' = [T EXCEPT ![d][i] = x]
    BY <1>2, <2>1, <2>2, <2>3 DEF handle_migration_TCB
  <2>6. PartIn(d, i, "registers", y)
    BY <2>2, <2>4, <2>5 DEF PartIn, Becomes
  <2>7. QED BY <2>2, <2>6
<1>3. ASSUME handle_migration_DATA_BSS(d, i)
      PROVE  \E x : PartIn(d, i, "data", x) /\ x.status = "READY" /\ x.proc_to_migrate = NoPE
  <2>1. PICK T : T = Arrived(d, i, "data")
    OBVIOUS
  <2>2. PICK y \in TCB :
              /\ y.id = tcbs[d][i].id /\ y.waiting_msg = tcbs[d][i].waiting_msg
              /\ y.parts = tcbs[d][i].parts \cup {"data"}
              /\ y.status = tcbs[d][i].status /\ y.proc_to_migrate = tcbs[d][i].proc_to_migrate
              /\ T \in [PE -> [Page -> TCB]] /\ T[d][i] = y
              /\ \A e \in PE : \A k \in Page : e # d \/ k # i => T[e][k] = tcbs[e][k]
    BY <2>1, PartWritten DEF Part
  <2>3. PICK w : w = [y EXCEPT !.status = "READY"]
    OBVIOUS
  <2>4. PICK x : x = [w EXCEPT !.proc_to_migrate = NoPE]
    OBVIOUS
  <2>5. /\ w \in TCB /\ w.id = y.id /\ w.waiting_msg = y.waiting_msg /\ w.parts = y.parts
        /\ w.status = "READY"
    BY <2>2, <2>3 DEF TCB
  <2>6. /\ x \in TCB /\ x.id = y.id /\ x.waiting_msg = y.waiting_msg /\ x.parts = y.parts
        /\ x.status = "READY" /\ x.proc_to_migrate = NoPE
    BY <2>4, <2>5 DEF TCB
  <2>7. PICK W : W = [T EXCEPT ![d][i] = w]
    OBVIOUS
  <2>8. /\ W \in [PE -> [Page -> TCB]] /\ W[d][i] = w
        /\ \A e \in PE : \A k \in Page : e # d \/ k # i => W[e][k] = T[e][k]
    BY <2>2, <2>5, <2>7
  <2>9. tcbs' = [W EXCEPT ![d][i] = x]
    <3>1. W = [T EXCEPT ![d][i].status = "READY"]
      BY <2>2, <2>3, <2>7
    <3>2. tcbs' = [W EXCEPT ![d][i].proc_to_migrate = NoPE]
      BY <1>3, <2>1, <3>1 DEF handle_migration_DATA_BSS
    <3>3. QED BY <2>4, <2>8, <3>2
  <2>10. PartIn(d, i, "data", x)
    BY <2>2, <2>6, <2>8, <2>9 DEF PartIn, Becomes
  <2>11. QED BY <2>6, <2>10
<1>4. QED BY <1>1, <1>2, <1>3

\* A part of a task comes: it is written where the code of the task came; with the last
\* one, which finds all others written, the journey ends.
LEMMA HandlePartInv ==
    ASSUME IInv, NEW s \in Node, NEW d \in PE, HandlePart(s, d)
    PROVE  IInv'
<1>1. PICK m : m = HeadPacket(s, d)
  OBVIOUS
<1>2. PICK i : i = searchTCB(d, m.task)
  OBVIOUS
<1>3. /\ net[<<s, d>>] # <<>> /\ kernel[d] = "ok" /\ pending' = pending /\ pc' = pc
      /\ moving' = moving /\ moves' = moves
      /\ m.service \in {"MIGRATION_TCB", "MIGRATION_TASK_LOCATION", "MIGRATION_MSG_REQUEST",
                        "MIGRATION_STACK", "MIGRATION_DATA_BSS"}
      /\ i = 0 => Stopped(d, message_request, Popped(s, d))
      /\ i # 0 =>
           /\ net' = Popped(s, d)
           /\ \/ /\ m.service = "MIGRATION_TCB" /\ handle_migration_TCB(d, i, m.task)
                 /\ message_request' = message_request /\ task_location' = task_location
              \/ /\ m.service = "MIGRATION_TASK_LOCATION"
                 /\ handle_migration_task_location(d, m.data)
                 /\ tcbs' = tcbs /\ message_request' = message_request
              \/ /\ m.service = "MIGRATION_MSG_REQUEST"
                 /\ handle_migration_request_msg(d, m.task, m.data)
                 /\ tcbs' = tcbs /\ task_location' = task_location
              \/ /\ m.service = "MIGRATION_STACK" /\ handle_migration_stack(d, i)
                 /\ message_request' = message_request /\ task_location' = task_location
              \/ /\ m.service = "MIGRATION_DATA_BSS" /\ handle_migration_DATA_BSS(d, i)
                 /\ message_request' = message_request /\ task_location' = task_location
           /\ kernel' = kernel
  BY <1>1, <1>2 DEF HandlePart, PacketAt, mapperVars
<1>4. /\ Typed /\ SoundTCBs /\ AllOn(net, pending) /\ net \in [Link -> Seq(Packet)] /\ d \in Node
      /\ message_request \in [PE -> SUBSET Requests]
      /\ task_location \in [PE -> [Task -> PE \cup {NoPE}]]
  BY DEF IInv, Typed, Node
<1>5. Family(Popped(s, d)) /\ m \in Packet
  BY <1>1, <1>3, <1>4, Shrinks
<1>6. m \in TaskPart
  BY <1>3, <1>5, ByService
<1>7. PICK t \in Task, j \in Journey :
              /\ m.task = t /\ On(t, j, net, pending)
              /\ Way(j) = <<s, d>> /\ j.to = d
              /\ m # CODE(t) => j.phase = "left"
              /\ \A u \in Task \ {t} : NoMore(u, Popped(s, d), net) /\ NoMore(u, net, Popped(s, d))
  BY <1>1, <1>3, <1>6, PartArrives
<1>8. j.phase = "left" /\ t \notin RealTime
  <2>1. m # CODE(t)
    BY <1>3 DEF CODE, MIGRATION
  <2>2. QED BY <1>7, <2>1 DEF On, Under
<1>9. /\ m.service = "MIGRATION_DATA_BSS" <=> m = DATA_BSS(t)
      /\ m.service = "MIGRATION_TCB" <=> m = PacketOf("registers", t)
      /\ m.service = "MIGRATION_STACK" <=> m = PacketOf("stack", t)
      /\ m # PacketOf("code", t)
  <2>1. m.service \in {"MIGRATION_CODE", "MIGRATION_TCB", "MIGRATION_STACK", "MIGRATION_DATA_BSS"}
              => m = MIGRATION(m.service, t, {})
    BY <1>5, <1>7, ByService
  <2>2. /\ DATA_BSS(t).service = "MIGRATION_DATA_BSS"
        /\ PacketOf("registers", t).service = "MIGRATION_TCB"
        /\ PacketOf("stack", t).service = "MIGRATION_STACK"
        /\ PacketOf("code", t).service = "MIGRATION_CODE"
    BY DEF PacketOf, DATA_BSS, CODE, MIGRATION
  <2>3. /\ DATA_BSS(t) = MIGRATION("MIGRATION_DATA_BSS", t, {})
        /\ PacketOf("registers", t) = MIGRATION("MIGRATION_TCB", t, {})
        /\ PacketOf("stack", t) = MIGRATION("MIGRATION_STACK", t, {})
    BY DEF PacketOf, DATA_BSS
  <2>4. QED BY <1>3, <2>1, <2>2, <2>3
<1>10. i # 0 => i \in Page /\ tcbs[d][i].id = t
  BY <1>2, <1>7, Searched
<1>11. i # 0 => tcbs[d][i].status = "MIGRATING" /\ ~tcbs[d][i].waiting_msg
                /\ tcbs[d][i].proc_to_migrate = NoPE
  BY <1>3, <1>4, <1>7, <1>8, <1>10 DEF On, Pages, SoundTCBs, Sound
<1>12. /\ (\A u : Exited(u) => Exited(u)')
       /\ \A u \in Task : \A e \in PE : \A k \in Page :
              tcbs[e][k].waiting_msg /\ tcbs[e][k].id = u => CallOf(u)'.op = "receive"
  <2>1. (\A u : Exited(u) => Exited(u)') /\ (\A u : CallOf(u)' = CallOf(u))
    BY <1>3, CallsSame
  <2>2. QED BY <1>4, <2>1 DEF SoundTCBs, Sound
<1>13. net' = Popped(s, d) /\ Worse /\ kernel' \in [PE -> {"ok", "error"}] /\ (i = 0 => kernel'[d] = "error")
  BY <1>3, <1>4 DEF Stopped, KernelError, Worse, Typed
<1>14. /\ message_request' \in [PE -> SUBSET Requests]
       /\ task_location' \in [PE -> [Task -> PE \cup {NoPE}]]
  <2>1. m.service = "MIGRATION_MSG_REQUEST" => m.data \in SUBSET Requests
    BY <1>6 DEF TaskPart, Bare, Locations, RequestList
  <2>2. m.service = "MIGRATION_TASK_LOCATION" => m.data \in [Task -> PE \cup {NoPE}]
    BY <1>6 DEF TaskPart, Bare, Locations, RequestList
  <2>3. message_request' \in [PE -> SUBSET Requests]
    <3>1. RequestsTo(m.data, t) \subseteq m.data
      BY DEF RequestsTo
    <3>2. \/ message_request' = message_request
          \/ /\ m.service = "MIGRATION_MSG_REQUEST"
             /\ message_request' = [message_request EXCEPT ![d] = @ \cup RequestsTo(m.data, t)]
      BY <1>3, <1>7 DEF handle_migration_request_msg, Stopped
    <3>3. QED BY <1>4, <2>1, <3>1, <3>2
  <2>4. task_location' \in [PE -> [Task -> PE \cup {NoPE}]]
    <3>1. \/ task_location' = task_location
          \/ /\ m.service = "MIGRATION_TASK_LOCATION"
             /\ task_location' = [task_location EXCEPT ![d] =
                   [u \in Task |-> IF @[u] = NoPE THEN m.data[u] ELSE @[u]]]
      BY <1>3 DEF handle_migration_task_location, Stopped
    <3>2. m.service = "MIGRATION_TASK_LOCATION" =>
             [u \in Task |-> IF task_location[d][u] = NoPE THEN m.data[u] ELSE task_location[d][u]]
                \in [Task -> PE \cup {NoPE}]
      BY <1>4, <2>2
    <3>3. QED BY <1>4, <3>1, <3>2
  <2>5. QED BY <2>3, <2>4
<1>15. CASE m # DATA_BSS(t)
  <2>1. CASE i = 0 \/ m.service \in {"MIGRATION_TASK_LOCATION", "MIGRATION_MSG_REQUEST"}
    <3>1. tcbs' = tcbs
      BY <1>3, <2>1 DEF Stopped
    <3>2. Typed'
      BY <1>3, <1>4, <1>5, <1>13, <1>14, <3>1 DEF Typed, Family
    <3>3. SoundTCBs'
      BY <1>4, <1>12, <1>13, <3>1 DEF SoundTCBs, Sound, Worse
    <3>4. \A u \in Task : PagesKept(u)
      BY <1>4, <3>1, PagesSame
    <3>5. kernel'[d] = "ok" => \A part \in {"code", "registers", "stack"} :
               m = PacketOf(part, t) => HasPart(t, d, part)'
      BY <1>9, <1>13, <2>1
    <3>6. AllOn(net, pending)'
      BY <1>1, <1>3, <1>7, <1>12, <1>13, <1>15, <3>4, <3>5, MiddlePart
    <3>7. QED BY <3>2, <3>3, <3>6 DEF IInv
  <2>2. CASE ~(i = 0 \/ m.service \in {"MIGRATION_TASK_LOCATION", "MIGRATION_MSG_REQUEST"})
    <3>1. i # 0 /\ kernel' = kernel /\ (m.service = "MIGRATION_TCB" \/ m.service = "MIGRATION_STACK")
      BY <1>3, <1>9, <1>15, <2>2 DEF Stopped
    <3>2. PICK x, part : /\ PartIn(d, i, part, x) /\ x.status = tcbs[d][i].status
                         /\ x.proc_to_migrate = tcbs[d][i].proc_to_migrate
                         /\ m = PacketOf(part, t) /\ part \in {"registers", "stack"}
      BY <1>3, <1>4, <1>7, <1>8, <1>9, <1>10, <3>1, PartOfTCB
    <3>3. /\ x \in TCB /\ Becomes(d, i, x) /\ x.id = t /\ ~x.waiting_msg /\ x.status = "MIGRATING"
          /\ x.parts = tcbs[d][i].parts \cup {part} /\ x.proc_to_migrate = NoPE /\ i \in Page
      BY <1>10, <1>11, <3>1, <3>2 DEF PartIn
    <3>4. Typed'
      BY <1>3, <1>4, <1>5, <1>13, <1>14, <3>3 DEF Typed, Family, Becomes
    <3>5. SoundTCBs'
      <4>1. Sound(kernel[d], x)'
        BY <3>3 DEF Sound
      <4>2. QED BY <1>4, <1>12, <1>13, <3>3, <4>1, SoundBut
    <3>6. \A u \in Task : PagesKept(u)
      <4> SUFFICES ASSUME NEW u \in Task PROVE PagesKept(u)
        OBVIOUS
      <4>1. QED BY <1>10, <1>11, <3>1, <3>3, PageKept
    <3>7. \A q \in {"code", "registers", "stack"} : m = PacketOf(q, t) => HasPart(t, d, q)'
      <4>1. \A q \in {"code", "registers", "stack"} : m = PacketOf(q, t) => q = part
        BY <1>9, <3>2 DEF PacketOf, MIGRATION
      <4>2. HasPart(t, d, part)'
        BY <3>3 DEF HasPart, Becomes
      <4>3. QED BY <4>1, <4>2
    <3>8. AllOn(net, pending)'
      BY <1>1, <1>3, <1>7, <1>12, <1>13, <1>15, <3>6, <3>7, MiddlePart
    <3>9. QED BY <3>4, <3>5, <3>8 DEF IInv
  <2>3. QED BY <2>1, <2>2
<1>16. CASE m = DATA_BSS(t)
  <2>1. /\ \E k \in Page : /\ tcbs[d][k].id = t /\ {"code", "registers", "stack"} \subseteq tcbs[d][k].parts
                           /\ tcbs[d][k].status = "MIGRATING"
        /\ \A l \in Link : \A a \in Contents(Popped(s, d)[l]) : About(t, a) => a \in Report
    <3>1. net' = Popped(s, d) /\ HeadPacket(s, d) = DATA_BSS(t)
      BY <1>1, <1>13, <1>16
    <3>2. QED BY <1>3, <1>7, <1>8, <3>1, LastPart
  <2>2. PICK k \in Page : /\ tcbs[d][k].id = t
                          /\ {"code", "registers", "stack"} \subseteq tcbs[d][k].parts
    BY <2>1
  <2>3. i # 0
    BY <1>2, <1>7, <2>2, Searched DEF IsAt
  <2>4. i = k
    BY <1>7, <1>10, <2>2, <2>3 DEF On, Pages
  <2>5. PICK x : PartIn(d, i, "data", x) /\ x.status = "READY" /\ x.proc_to_migrate = NoPE
    BY <1>3, <1>4, <1>7, <1>8, <1>9, <1>10, <1>16, <2>3, PartOfTCB
  <2>6. /\ x \in TCB /\ Becomes(d, i, x) /\ x.id = t /\ ~x.waiting_msg /\ x.status = "READY"
        /\ x.parts = Part /\ x.proc_to_migrate = NoPE /\ i \in Page /\ kernel' = kernel
    <3>1. tcbs[d][i].parts \subseteq Part
      BY <1>4, <1>10, <2>3 DEF Typed, TCB
    <3>2. QED BY <1>3, <1>10, <1>11, <2>2, <2>3, <2>4, <2>5, <3>1 DEF PartIn, Part
  <2>7. Typed'
    BY <1>3, <1>4, <1>5, <1>13, <1>14, <2>6 DEF Typed, Family, Becomes
  <2>8. SoundTCBs'
    <3>1. Sound(kernel[d], x)'
      BY <2>6 DEF Sound
    <3>2. QED BY <1>4, <1>12, <1>13, <2>6, <3>1, SoundBut
  <2>9. AtHome(d) \in Journey /\ On(t, AtHome(d), net, pending)'
    <3>1. NoMore(t, net', net)
      BY <1>3, <1>4, <1>13, Shrinks, Dropped
    <3>2. QED BY <1>3, <1>7, <1>8, <1>10, <1>13, <2>1, <2>3, <2>6, <3>1, Arrives
  <2>10. \A u \in Task \ {t} : PagesKept(u)
    BY <1>10, <2>3, <2>6, PageKept
  <2>11. AllOn(net, pending)'
    BY <1>3, <1>4, <1>7, <1>12, <1>13, <2>9, <2>10, OneMoves
  <2>12. QED BY <2>7, <2>8, <2>11 DEF IInv
<1>17. QED BY <1>15, <1>16

-----------------------------------------------------------------------------
(* The mapper *)

Ordered(d, to) == [phase |-> "ordered", from |-> d, to |-> to]

\* The mapper orders a task to move that runs where it is at home.
LEMMA OrderMigrationInv ==
    ASSUME IInv, NEW t \in Task \ RealTime, NEW d \in PE, NEW to \in PE, OrderMigration(t, d, to)
    PROVE  IInv'
<1>1. PICK m : m = TASK_MIGRATION(t, to)
  OBVIOUS
<1>2. /\ ~moving[t] /\ moves[t] < MaxMoves[t] /\ RunsAt(t, d) /\ to # d
      /\ net' = [net EXCEPT ![<<Manager, d>>] = Append(@, m)]
      /\ moving' = [moving EXCEPT ![t] = TRUE] /\ moves' = [moves EXCEPT ![t] = @ + 1]
      /\ kernel' = kernel /\ tcbs' = tcbs /\ message_request' = message_request
      /\ task_location' = task_location /\ pending' = pending /\ pc' = pc
  BY <1>1 DEF OrderMigration, kernelVars
<1>3. /\ Typed /\ SoundTCBs /\ AllOn(net, pending) /\ net \in [Link -> Seq(Packet)] /\ Family(net)
      /\ Manager \in Node
  BY DEF IInv, Typed, Node, Family
<1>4. /\ m \in Order /\ About(t, m) /\ m \in Packet /\ m.to = to /\ \A u \in Task \ {t} : ~About(u, m)
  BY <1>1, PacketFacts DEF Packet, About, TASK_MIGRATION
<1>5. PICK l : l = <<Manager, d>>
  OBVIOUS
<1>6. PICK q : q = <<m>>
  OBVIOUS
<1>7. /\ Family(net') /\ Extends(net', net, l, q) /\ Contents(q) = {m} /\ q \in Seq(Packet) /\ l \in Link
  <2>1. l \in Link
    BY <1>3, <1>5 DEF Link, Node
  <2>2. QED BY <1>2, <1>3, <1>4, <1>5, <1>6, <2>1, GrowsByOne
<1>8. \A u \in Task \ {t} : NoMore(u, net', net) /\ NoMore(u, net, net')
  BY <1>3, <1>4, <1>7, Extended
<1>9. /\ \A k \in Link : k # l => net'[k] = net[k]
      /\ Contents(net'[l]) = Contents(net[l]) \cup Contents(q)
      /\ \A a, b : Before(net'[l], a, b) <=>
            Before(net[l], a, b) \/ Before(q, a, b) \/ (a \in Contents(net[l]) /\ b \in Contents(q))
  BY <1>3, <1>7, Behind
<1>10. \A a, b : ~Before(q, a, b)
  BY <1>6 DEF Before
<1>11. PICK j \in Journey : On(t, j, net, pending)
  BY <1>3 DEF AllOn
<1>12. Under(t, j) /\ Pages(t, j) /\ Sent(t, j, net) /\ Kept(t, j, pending)
  BY <1>11 DEF On
<1>13. PICK i \in Page : tcbs[d][i].id = t /\ tcbs[d][i].status = "READY"
  BY <1>2 DEF RunsAt
<1>14. j.phase = "home" /\ j.from = d
  <2>1. d = j.from /\ j.phase # "left"
    BY <1>12, <1>13 DEF Pages
  <2>2. QED BY <1>2, <1>12, <2>1 DEF Under
<1> DEFINE g == Ordered(d, to)
<1>15. g \in Journey /\ g.from = d /\ g.to = to /\ g.phase = "ordered" /\ Way(g) \in Link /\ Way(g) # l
  BY <1>5, MigrationAssumption DEF Ordered, Journey, Phase, Way, Link, Node
<1> HIDE DEF g
<1>16. \A k \in Link : \A a \in Contents(net[k]) : ~About(t, a)
  BY <1>2, <1>12, <1>14 DEF Sent, Placed, About
<1>17. On(t, g, net, pending)'
  <2>1. Under(t, g)'
    <3>1. IsAt(t, d)'
      BY <1>2, <1>13 DEF IsAt
    <3>2. moving'[t] /\ t \notin RealTime
      BY <1>2, <1>3 DEF Typed
    <3>3. QED BY <1>2, <1>15, <3>1, <3>2 DEF Under
  <2>2. Pages(t, g)'
    BY <1>2, <1>12, <1>14, <1>15 DEF Pages
  <2>3. Sent(t, g, net)'
    <3>1. \A k \in Link : \A a \in Contents(net'[k]) : About(t, a) => a = m /\ k = l
      BY <1>7, <1>9, <1>16
    <3>2. Placed(t, g, l, m)'
      BY <1>4, <1>5, <1>15, PacketsApart DEF Placed
    <3>3. \A k \in Link : \A a, b : About(t, a) => ~Before(net'[k], a, b)
      <4>1. \A k \in Link : \A a, b : About(t, a) => ~Before(net[k], a, b)
        BY <1>16 DEF Before, Contents
      <4>2. \A a, b : About(t, a) => ~Before(net'[l], a, b)
        BY <1>7, <1>9, <1>10, <1>16, <4>1
      <4>3. QED BY <1>9, <4>1, <4>2
    <3>4. /\ About(t, CODE(t)) /\ About(t, DATA_BSS(t)) /\ About(t, TASK_MIGRATED(t))
          /\ About(t, TASK_MIGRATION(t, to))
          /\ CODE(t) # m /\ TASK_MIGRATED(t) # m
      BY <1>4, PacketFacts, PacketsApart
    <3>5. \A k \in Link : \A a \in Contents(net'[k]) : About(t, a) => Placed(t, g, k, a)'
      BY <3>1, <3>2
    <3>6. CODE(t) \notin Contents(net'[Way(g)]) /\ \A k \in Link : TASK_MIGRATED(t) \notin Contents(net'[k])
      BY <1>15, <3>1, <3>4
    <3>7. QED BY <1>15, <3>3, <3>4, <3>5, <3>6 DEF Sent
  <2>4. Kept(t, g, pending)'
    BY <1>2, <1>12, <1>14 DEF Kept
  <2>5. Complete(t, g, net)'
    BY <1>15 DEF Complete
  <2>6. QED BY <2>1, <2>2, <2>3, <2>4, <2>5 DEF On
<1>18. (\A u : Exited(u) => Exited(u)') /\ (\A u : CallOf(u)' = CallOf(u)) /\ Worse
  BY <1>2, CallsSame DEF Worse
<1>19. Typed'
  <2>1. moves' \in [Task -> Nat] /\ \A u \in Task : moves'[u] <= MaxMoves[u]
    <3>1. MaxMoves[t] \in Nat /\ moves[t] \in Nat
      BY <1>3, MigrationAssumption DEF Typed
    <3>2. moves[t] + 1 <= MaxMoves[t]
      BY <1>2, <3>1
    <3>3. QED BY <1>2, <1>3, <3>1, <3>2 DEF Typed
  <2>2. moving' \in [Task -> BOOLEAN]
    BY <1>2, <1>3 DEF Typed
  <2>3. QED BY <1>2, <1>3, <1>7, <2>1, <2>2 DEF Typed, Family
<1>20. SoundTCBs'
  BY <1>2, <1>3, <1>18 DEF SoundTCBs, Sound
<1>21. AllOn(net, pending)'
  <2>1. \A u \in Task \ {t} : moving'[u] = moving[u]
    BY <1>2, <1>3 DEF Typed
  <2>2. \A u \in Task : PagesKept(u)
    BY <1>2, <1>3, PagesSame
  <2>3. QED BY <1>2, <1>3, <1>8, <1>15, <1>17, <1>18, <2>1, <2>2, OneMoves
<1>22. QED BY <1>19, <1>20, <1>21 DEF IInv

\* The mapper hears that a task has left; until then it gives it no other order.
LEMMA MigrationReportedInv ==
    ASSUME IInv, NEW d \in PE, MigrationReported(d)
    PROVE  IInv'
<1>1. PICK m : m = HeadPacket(d, Manager)
  OBVIOUS
<1>2. /\ net[<<d, Manager>>] # <<>> /\ moving' = [moving EXCEPT ![m.task] = FALSE]
      /\ net' = Popped(d, Manager)
      /\ kernel' = kernel /\ tcbs' = tcbs /\ message_request' = message_request
      /\ task_location' = task_location /\ pending' = pending /\ pc' = pc /\ moves' = moves
  BY <1>1 DEF MigrationReported, kernelVars
<1>3. /\ Typed /\ SoundTCBs /\ AllOn(net, pending) /\ net \in [Link -> Seq(Packet)]
      /\ Manager \in Node /\ d \in Node
  BY DEF IInv, Typed, Node
<1>4. PICK l : l = <<d, Manager>>
  OBVIOUS
<1>5. /\ Family(net') /\ l \in Link /\ net' = Drop(net, l) /\ m = Head(net[l])
      /\ m \in Contents(net[l]) /\ m \in Report /\ net[l] # <<>>
  BY <1>1, <1>2, <1>3, <1>4, Shrinks
<1>6. PICK t \in Task : m.task = t
  BY <1>5 DEF Report
<1>7. m = TASK_MIGRATED(t) /\ About(t, m) /\ \A u \in Task \ {t} : ~About(u, m)
  BY <1>5, <1>6 DEF Report, TASK_MIGRATED, About
<1>8. \A u \in Task : NoMore(u, net', net) /\ (u # t => NoMore(u, net, net'))
  BY <1>3, <1>5, <1>7, Dropped
<1>9. PICK j \in Journey : On(t, j, net, pending)
  BY <1>3 DEF AllOn
<1>10. Under(t, j) /\ Pages(t, j) /\ Sent(t, j, net) /\ Kept(t, j, pending) /\ Complete(t, j, net)
  BY <1>9 DEF On
<1>11. j.phase \in {"home", "left"} /\ j.to # Manager /\ Way(j) \in Link
  <2>1. Placed(t, j, l, m)
    BY <1>5, <1>7, <1>10 DEF Sent
  <2>2. QED BY <1>5, <2>1, MigrationAssumption DEF Placed, Journey, Way, Link, Node
<1>12. \A k \in Link : m \notin Contents(net'[k])
  <2>1. PICK v : v = net[l]
    OBVIOUS
  <2>2. v \in Seq(Packet) /\ v # <<>> /\ m = Head(v) /\ net'[l] = Tail(v)
    BY <1>3, <1>5, <2>1 DEF Drop
  <2>3. m \in Contents(Tail(v)) => Before(v, Head(v), m)
    BY <2>2, WithoutHead
  <2>4. m \notin Contents(net'[l])
    BY <1>5, <1>7, <1>10, <2>1, <2>2, <2>3 DEF Sent
  <2>5. \A k \in Link : m \in Contents(net'[k]) => k = l
    BY <1>5, <1>7, <1>8, <1>10 DEF Sent, NoMore
  <2>6. QED BY <2>4, <2>5
<1>13. On(t, j, net, pending)'
  <2>1. Under(t, j)'
    BY <1>2, <1>10, <1>11 DEF Under, IsAt, Exited, CallOf
  <2>2. Pages(t, j)'
    BY <1>2, <1>10 DEF Pages
  <2>3. Sent(t, j, net)'
    <3>1. Sent(t, j, net')
      BY <1>8, <1>10, SentLess
    <3>2. \A k \in Link : \A a \in Contents(net'[k]) : About(t, a) => a \notin Report
      BY <1>7, <1>12 DEF About, Report, TASK_MIGRATED
    <3>3. \A k \in Link : \A a \in Contents(net'[k]) : About(t, a) => Placed(t, j, k, a)'
      BY <3>1, <3>2 DEF Sent, Placed
    <3>4. IsAt(t, j.to)' <=> IsAt(t, j.to)
      BY <1>2 DEF IsAt
    <3>5. QED BY <3>1, <3>3, <3>4 DEF Sent
  <2>4. Kept(t, j, pending)'
    BY <1>2, <1>10 DEF Kept
  <2>5. Complete(t, j, net)'
    <3>1. Way(j) # l
      BY <1>4, <1>11 DEF Way
    <3>2. net'[Way(j)] = net[Way(j)]
      BY <1>3, <1>5, <1>11, <3>1 DEF Drop
    <3>3. QED BY <1>2, <1>10, <3>2 DEF Complete, HasPart
  <2>6. QED BY <2>1, <2>2, <2>3, <2>4, <2>5 DEF On
<1>14. (\A u : Exited(u) => Exited(u)') /\ (\A u : CallOf(u)' = CallOf(u)) /\ Worse
  BY <1>2, CallsSame DEF Worse
<1>15. Typed'
  BY <1>2, <1>3, <1>5 DEF Typed, Family
<1>16. SoundTCBs'
  BY <1>2, <1>3, <1>14 DEF SoundTCBs, Sound
<1>17. AllOn(net, pending)'
  <2>1. \A u \in Task \ {t} : moving'[u] = moving[u]
    BY <1>2, <1>3, <1>6 DEF Typed
  <2>2. \A u \in Task : PagesKept(u)
    BY <1>2, <1>3, PagesSame
  <2>3. QED BY <1>2, <1>3, <1>8, <1>13, <1>14, <2>1, <2>2, OneMoves
<1>18. QED BY <1>15, <1>16, <1>17 DEF IInv

\* Nothing changes.
LEMMA Stutters ==
    ASSUME IInv, UNCHANGED vars
    PROVE  IInv'
<1>1. /\ kernel' = kernel /\ tcbs' = tcbs /\ message_request' = message_request
      /\ task_location' = task_location /\ pending' = pending /\ net' = net /\ pc' = pc
      /\ moving' = moving /\ moves' = moves
  BY DEF vars, kernelVars, mapperVars
<1>2. /\ Typed /\ SoundTCBs /\ AllOn(net, pending)
      /\ (\A u : Exited(u) => Exited(u)') /\ (\A u : CallOf(u)' = CallOf(u))
  BY <1>1, CallsSame DEF IInv
<1>3. Typed'
  BY <1>1, <1>2 DEF Typed
<1>4. SoundTCBs'
  BY <1>1, <1>2 DEF SoundTCBs, Sound
<1>5. AllOn(net, pending)'
  <2>1. ASSUME NEW t, NEW j, On(t, j, net, pending) PROVE On(t, j, net, pending)'
    <3>1. \A e, part : (IsAt(t, e)' <=> IsAt(t, e)) /\ (HasPart(t, e, part)' <=> HasPart(t, e, part))
      BY <1>1 DEF IsAt, HasPart
    <3>2. Under(t, j)'
      BY <1>1, <1>2, <2>1, <3>1 DEF On, Under
    <3>3. Pages(t, j)'
      BY <1>1, <2>1 DEF On, Pages
    <3>4. Sent(t, j, net)'
      BY <1>1, <2>1, <3>1 DEF On, Sent, Placed
    <3>5. Kept(t, j, pending)' /\ Complete(t, j, net)'
      BY <1>1, <2>1, <3>1 DEF On, Kept, Complete
    <3>6. QED BY <3>2, <3>3, <3>4, <3>5 DEF On
  <2>2. QED BY <1>2, <2>1 DEF AllOn
<1>6. QED BY <1>3, <1>4, <1>5 DEF IInv

-----------------------------------------------------------------------------
(* The invariant *)

\* Every step preserves the invariant, when no task with a period may move.
LEMMA NextInv ==
    ASSUME \A t \in RealTime : Target[t] = {}, IInv, [Next]_vars
    PROVE  IInv'
<1>1. CASE UNCHANGED vars
  BY <1>1, Stutters
<1>2. ASSUME NEW d \in PE, NEW i \in Page, TaskStep(d, i)
      PROVE  IInv'
  <2>1. ASSUME NEW r \in message_request[d], SendLocal(d, i, r) PROVE IInv'
    BY <2>1, SendLocalInv
  <2>2. ASSUME NEW r \in message_request[d], SendRemote(d, i, r) PROVE IInv'
    BY <2>2, SendRemoteInv
  <2>3. CASE Receive(d, i)
    BY <2>3, ReceiveInv
  <2>4. CASE Exit(d, i)
    BY <2>4, ExitInv
  <2>5. QED BY <1>2, <2>1, <2>2, <2>3, <2>4 DEF TaskStep
<1>3. ASSUME NEW d \in PE, NEW s \in Node, Handle(s, d) \/ Defer(s, d)
      PROVE  IInv'
  <2>1. CASE HandleNow(s, d)
    BY <2>1, HandleNowInv
  <2>2. CASE HandleDelivery(s, d)
    BY <2>2, HandleDeliveryInv
  <2>3. CASE HandleCode(s, d)
    BY <2>3, HandleCodeInv
  <2>4. CASE HandlePart(s, d)
    BY <2>4, HandlePartInv
  <2>5. CASE Defer(s, d)
    BY <2>5, DeferInv
  <2>6. QED BY <1>3, <2>1, <2>2, <2>3, <2>4, <2>5 DEF Handle
<1>4. ASSUME NEW d \in PE, HandlePending(d) PROVE IInv'
  BY <1>4, HandlePendingInv
<1>5. ASSUME NEW t \in Task, NEW d \in PE, NEW to \in PE, OrderMigration(t, d, to)
      PROVE  IInv'
  <2>1. t \notin RealTime
    BY <1>5 DEF OrderMigration
  <2>2. QED BY <1>5, <2>1, OrderMigrationInv
<1>6. ASSUME NEW d \in PE, MigrationReported(d) PROVE IInv'
  BY <1>6, MigrationReportedInv
<1>7. QED BY <1>1, <1>2, <1>3, <1>4, <1>5, <1>6 DEF Next, KernelStep

\* At first each task is on one page of its PE.
LEMMA Allocated ==
    ASSUME NEW d \in PE
    PROVE  LET n == Cardinality(TasksAt(d)) IN
           /\ n \in Nat /\ n <= MAX_LOCAL_TASKS
           /\ FirstPages(d) \in [1..n -> TasksAt(d)]
           /\ \A t \in TasksAt(d) : \E i \in 1..n : FirstPages(d)[i] = t
           /\ \A i, k \in 1..n : FirstPages(d)[i] = FirstPages(d)[k] => i = k
<1> DEFINE S == TasksAt(d)
           n == Cardinality(S)
<1>1. IsFiniteSet(S)
  <2>1. S \in SUBSET Task
    BY DEF TasksAt
  <2>2. QED BY <2>1, MigrationAssumption, FS_Subset
<1>2. n \in Nat /\ ExistsBijection(1..n, S)
  BY <1>1, FS_CardinalityType
<1>3. n <= MAX_LOCAL_TASKS
  BY MigrationAssumption DEF TasksAt
<1> HIDE DEF S
<1>4. PICK f : f \in Bijection(1..n, S)
  BY <1>2 DEF ExistsBijection
<1>5. f \in [1..n -> S] /\ \A t \in S : \E i \in DOMAIN f : f[i] = t
  BY <1>4 DEF Bijection, Surjection, Injection
<1>6. FirstPages(d) = CHOOSE g \in [1..n -> S] : \A t \in S : \E i \in DOMAIN g : g[i] = t
  BY DEF FirstPages, S
<1>7. PICK g : g = FirstPages(d)
  OBVIOUS
<1>8. g \in [1..n -> S] /\ \A t \in S : \E i \in DOMAIN g : g[i] = t
  BY <1>5, <1>6, <1>7
<1>9. g \in Surjection(1..n, S)
  BY <1>8 DEF Surjection
<1>10. IsFiniteSet(1..n) /\ Cardinality(1..n) = n
  BY <1>2, FS_Interval
<1>11. g \in Injection(1..n, S)
  BY <1>9, <1>10, FS_SurjSameCardinalityImpliesInj
<1>12. \A i, k \in 1..n : g[i] = g[k] => i = k
  BY <1>11 DEF Injection, IsInjective
<1>13. QED BY <1>2, <1>3, <1>7, <1>8, <1>12 DEF S

\* It holds at first: every task is at home.
LEMMA InitIInv ==
    ASSUME Init
    PROVE  IInv
<1> DEFINE n(d) == Cardinality(TasksAt(d))
<1>1. /\ kernel = [d \in PE |-> "ok"]
      /\ tcbs = [d \in PE |-> [i \in Page |-> IF i <= n(d) THEN ReadyTCB(FirstPages(d)[i])
                                              ELSE FreeTCB]]
      /\ message_request = [d \in PE |-> {}]
      /\ task_location = [d \in PE |-> IF TasksAt(d) = {} THEN [t \in Task |-> NoPE] ELSE Home]
      /\ pending = [d \in PE |-> <<>>]
      /\ net = [l \in Link |-> <<>>]
      /\ pc = [t \in Task |-> 1]
      /\ moving = [t \in Task |-> FALSE]
      /\ moves = [t \in Task |-> 0]
  BY DEF Init, Link
<1>2. \A t \in Task : /\ ReadyTCB(t) \in TCB /\ ReadyTCB(t).id = t /\ ReadyTCB(t).status = "READY"
                      /\ ReadyTCB(t).parts = Part /\ ~ReadyTCB(t).waiting_msg
                      /\ ReadyTCB(t).proc_to_migrate = NoPE
  BY DEF ReadyTCB, FreeTCB, TCB
<1>3. /\ FreeTCB \in TCB /\ FreeTCB.id = NoTask /\ FreeTCB.status = "FREE" /\ ~FreeTCB.waiting_msg
      /\ FreeTCB.proc_to_migrate = NoPE
  BY DEF FreeTCB, TCB
<1>4. \A d \in PE : /\ n(d) \in Nat /\ n(d) <= MAX_LOCAL_TASKS
                    /\ \A i \in 1..n(d) : FirstPages(d)[i] \in Task /\ Home[FirstPages(d)[i]] = d
                    /\ \A t \in Task : Home[t] = d => \E i \in 1..n(d) : FirstPages(d)[i] = t
                    /\ \A i, k \in 1..n(d) : FirstPages(d)[i] = FirstPages(d)[k] => i = k
  BY Allocated DEF TasksAt
<1> HIDE DEF n
<1>5. \A d \in PE : \A i \in Page :
         \/ /\ i \in 1..n(d) /\ tcbs[d][i] = ReadyTCB(FirstPages(d)[i])
         \/ i > n(d) /\ tcbs[d][i] = FreeTCB
  BY <1>1, <1>4, MigrationAssumption DEF Page
<1>6. Typed
  <2>1. tcbs \in [PE -> [Page -> TCB]]
    <3>1. \A d \in PE : \A i \in Page : tcbs[d][i] \in TCB
      BY <1>2, <1>3, <1>4, <1>5
    <3>2. QED BY <1>1, <3>1
  <2>2. /\ kernel \in [PE -> {"ok", "error"}] /\ message_request \in [PE -> SUBSET Requests]
        /\ pending \in [PE -> Seq(Ask \cup Order)] /\ moving \in [Task -> BOOLEAN]
    BY <1>1
  <2>3. task_location \in [PE -> [Task -> PE \cup {NoPE}]]
    BY <1>1, MigrationAssumption
  <2>4. net \in [Link -> Seq(Packet)]
    BY <1>1
  <2>5. \A s \in Node : net[<<s, Manager>>] \in Seq(Report)
    BY <1>1 DEF Link, Node
  <2>6. pc \in [Task -> Nat] /\ \A t \in Task : pc[t] \in 1..Len(Program[t]) + 1
    <3>1. \A t \in Task : Len(Program[t]) \in Nat
      BY MigrationAssumption
    <3>2. QED BY <1>1, <3>1
  <2>7. moves \in [Task -> Nat] /\ \A t \in Task : moves[t] <= MaxMoves[t]
    BY <1>1, MigrationAssumption
  <2>8. QED BY <2>1, <2>2, <2>3, <2>4, <2>5, <2>6, <2>7 DEF Typed
<1>7. SoundTCBs
  <2>1. \A t \in Task : \A k : Sound(k, ReadyTCB(t))
    BY <1>2 DEF Sound
  <2>2. \A k : Sound(k, FreeTCB)
    BY <1>3, MigrationAssumption DEF Sound
  <2>3. \A d \in PE : \A i \in Page :
           tcbs[d][i] = FreeTCB \/ \E t \in Task : tcbs[d][i] = ReadyTCB(t)
    BY <1>4, <1>5
  <2>4. QED BY <2>1, <2>2, <2>3 DEF SoundTCBs
<1>8. ASSUME NEW t \in Task PROVE \E j \in Journey : On(t, j, net, pending)
  <2> DEFINE j == AtHome(Home[t])
  <2>1. /\ j \in Journey /\ j.phase = "home" /\ j.from = Home[t] /\ j.to = Home[t]
        /\ Home[t] \in PE
    BY MigrationAssumption DEF AtHome, Journey, Phase
  <2> HIDE DEF j
  <2>2. \A d \in PE : \A i \in Page : tcbs[d][i].id = t =>
           /\ i \in 1..n(d) /\ FirstPages(d)[i] = t /\ d = Home[t]
           /\ tcbs[d][i].status = "READY" /\ tcbs[d][i].proc_to_migrate = NoPE
    BY <1>2, <1>3, <1>4, <1>5, MigrationAssumption
  <2>3. Pages(t, j)
    BY <1>4, <2>1, <2>2 DEF Pages
  <2>4. IsAt(t, Home[t])
    <3>1. PICK i \in 1..n(Home[t]) : FirstPages(Home[t])[i] = t
      BY <1>4, <2>1
    <3>2. i \in Page
      BY <1>4, <2>1, MigrationAssumption DEF Page
    <3>3. tcbs[Home[t]][i].id = t
      BY <1>2, <1>4, <1>5, <2>1, <3>1, <3>2
    <3>4. QED BY <3>2, <3>3 DEF IsAt
  <2>5. Under(t, j)
    BY <2>1, <2>4 DEF Under
  <2>6. \A l \in Link : Contents(net[l]) = {} /\ \A a, b : ~Before(net[l], a, b)
    BY <1>1 DEF Contents, Before
  <2>7. Way(j) \in Link
    BY <2>1 DEF Way, Link, Node
  <2>8. Sent(t, j, net)
    BY <2>6, <2>7 DEF Sent
  <2>9. \A d \in PE : Contents(pending[d]) = {}
    BY <1>1 DEF Contents
  <2>10. Kept(t, j, pending)
    BY <2>9 DEF Kept
  <2>11. Complete(t, j, net)
    BY <2>1 DEF Complete
  <2>12. QED BY <2>1, <2>3, <2>5, <2>8, <2>10, <2>11 DEF On
<1>9. QED BY <1>6, <1>7, <1>8 DEF IInv, AllOn

-----------------------------------------------------------------------------
(* What it gives *)

\* The last part of a task is on the way of its journey, when it has left.
LEMMA LastPartOnItsWay ==
    ASSUME Typed, NEW t \in Task, NEW j \in Journey, On(t, j, net, pending)
    PROVE  InFlight(t, "MIGRATION_DATA_BSS") = IF j.phase = "left" THEN {Way(j)} ELSE {}
<1> DEFINE F == InFlight(t, "MIGRATION_DATA_BSS")
<1>1. Way(j) \in Link
  BY DEF Journey, Way, Link, Node
<1>2. \A m \in Packet : m.service = "MIGRATION_DATA_BSS" =>
         m \in TaskPart /\ (m.task = t => About(t, m) /\ m # CODE(t))
  <2> SUFFICES ASSUME NEW m \in Packet, m.service = "MIGRATION_DATA_BSS"
               PROVE  m \in TaskPart /\ m # CODE(t)
    BY DEF About
  <2>1. m \notin Order \cup Report \cup Ask \cup Answer
    BY DEF Order, Report, Ask, Answer
  <2>2. m # CODE(t)
    BY DEF CODE, MIGRATION
  <2>3. QED BY <2>1, <2>2 DEF Packet
<1>3. ASSUME NEW l \in F PROVE l = Way(j) /\ j.phase = "left"
  <2>1. l \in Link
    BY DEF InFlight, Link
  <2>2. PICK v : v = net[l]
    OBVIOUS
  <2>3. v \in Seq(Packet)
    BY <2>1, <2>2 DEF Typed
  <2>4. PICK k \in DOMAIN v : v[k].service = "MIGRATION_DATA_BSS" /\ v[k].task = t
    BY <2>2 DEF InFlight
  <2>5. v[k] \in Packet /\ v[k] \in Contents(v)
    BY <2>3, <2>4 DEF Contents
  <2>6. v[k] \in TaskPart /\ About(t, v[k]) /\ v[k] # CODE(t)
    BY <1>2, <2>4, <2>5
  <2>7. Placed(t, j, l, v[k])
    BY <2>1, <2>2, <2>5, <2>6 DEF On, Sent
  <2>8. QED BY <2>6, <2>7 DEF Placed
<1>4. ASSUME j.phase = "left" PROVE Way(j) \in F
  <2>1. DATA_BSS(t) \in Contents(net[Way(j)])
    BY <1>4 DEF On, Complete
  <2>2. PICK k \in DOMAIN net[Way(j)] : net[Way(j)][k] = DATA_BSS(t)
    BY <2>1 DEF Contents
  <2>3. DATA_BSS(t).service = "MIGRATION_DATA_BSS" /\ DATA_BSS(t).task = t
    BY DEF DATA_BSS, MIGRATION
  <2>4. QED BY <1>1, <2>2, <2>3 DEF InFlight, Link
<1> HIDE DEF F
<1>5. QED BY <1>3, <1>4 DEF F

\* The pages of PEs from which the task t can run.
PlacesOf(t) == {x \in PE \X Page : /\ tcbs[x[1]][x[2]].id = t
                                   /\ tcbs[x[1]][x[2]].status # "MIGRATING"}

\* The task has one such page before it leaves, unless it has exited, and then none.
LEMMA PageUntilItLeaves ==
    ASSUME NEW t \in Task, NEW j \in Journey, On(t, j, net, pending)
    PROVE  \/ PlacesOf(t) = {} /\ (j.phase = "left" \/ Exited(t))
           \/ j.phase # "left" /\ \E x : PlacesOf(t) = {x}
<1>1. j.from \in PE /\ j.to \in PE
  BY DEF Journey
<1>2. \A d \in PE : \A i \in Page : tcbs[d][i].id = t =>
         IF tcbs[d][i].status = "MIGRATING"
         THEN d = j.to /\ j.phase \in {"kept", "left", "stuck"}
         ELSE d = j.from /\ j.phase # "left"
  BY DEF On, Pages
<1>3. \A d \in PE : \A i, k \in Page : tcbs[d][i].id = t /\ tcbs[d][k].id = t => i = k
  BY DEF On, Pages
<1>4. \A x \in PlacesOf(t) : /\ x \in PE \X Page /\ x[1] = j.from /\ j.phase # "left"
                             /\ tcbs[j.from][x[2]].id = t
  BY <1>2 DEF PlacesOf
<1>5. CASE PlacesOf(t) = {}
  <2>1. SUFFICES ASSUME j.phase # "left" PROVE Exited(t)
    BY <1>5
  <2>2. ~IsAt(t, j.from)
    <3>1. SUFFICES ASSUME NEW i \in Page, tcbs[j.from][i].id = t PROVE FALSE
      BY DEF IsAt
    <3>2. tcbs[j.from][i].status # "MIGRATING"
      BY <1>1, <1>2, <3>1 DEF On, Under
    <3>3. <<j.from, i>> \in PlacesOf(t)
      BY <1>1, <3>1, <3>2 DEF PlacesOf
    <3>4. QED BY <1>5, <3>3
  <2>3. QED BY <2>1, <2>2 DEF On, Under
<1>6. CASE PlacesOf(t) # {}
  <2>1. PICK x : x \in PlacesOf(t)
    BY <1>6
  <2>2. \A y \in PlacesOf(t) : y = x
    BY <1>1, <1>3, <1>4, <2>1
  <2>3. QED BY <1>4, <2>1, <2>2
<1>7. QED BY <1>5, <1>6

\* Every task is whole: in one place, or exited, and not run from a page that
\* lacks a part of it.
LEMMA WholeIfIInv ==
    ASSUME IInv
    PROVE  TasksWhole
<1>1. ASSUME NEW t \in Task
      PROVE  Places(t) <= 1 /\ (Places(t) = 0 => t \in Exits /\ CallOf(t).op = "end")
  <2> DEFINE F == InFlight(t, "MIGRATION_DATA_BSS")
             P == PlacesOf(t)
  <2>1. PICK j \in Journey : On(t, j, net, pending)
    BY DEF IInv, AllOn
  <2>2. F = IF j.phase = "left" THEN {Way(j)} ELSE {}
    BY <2>1, LastPartOnItsWay DEF IInv
  <2>3. \/ P = {} /\ (j.phase = "left" \/ Exited(t))
        \/ j.phase # "left" /\ \E x : P = {x}
    BY <2>1, PageUntilItLeaves
  <2>4. Places(t) = Cardinality(P) + Cardinality(F)
    BY DEF Places, PlacesOf
  <2> HIDE DEF F, P
  <2>5. Cardinality({}) = 0 /\ \A x : Cardinality({x}) = 1
    BY FS_EmptySet, FS_Singleton
  <2>6. CASE j.phase = "left"
    <3>1. Cardinality(P) = 0 /\ Cardinality(F) = 1
      BY <2>2, <2>3, <2>5, <2>6
    <3>2. QED BY <2>4, <3>1
  <2>7. CASE j.phase # "left"
    <3>1. Cardinality(F) = 0
      BY <2>2, <2>5, <2>7
    <3>2. Cardinality(P) = 1 \/ (Cardinality(P) = 0 /\ Exited(t))
      BY <2>3, <2>5, <2>7
    <3>3. QED BY <2>4, <3>1, <3>2 DEF Exited
  <2>8. QED BY <2>6, <2>7
<1>2. WholeBeforeRun
  BY DEF IInv, SoundTCBs, Sound, WholeBeforeRun, Whole
<1>3. QED BY <1>1, <1>2 DEF TasksWhole, OneHome

\* The variables have their types.
LEMMA TypeOKIfIInv ==
    ASSUME IInv
    PROVE  TypeOK
<1>1. /\ kernel \in [PE -> {"ok", "error"}]
      /\ tcbs \in [PE -> [Page -> TCB]]
      /\ message_request \in [PE -> SUBSET Requests]
      /\ task_location \in [PE -> [Task -> PE \cup {NoPE}]]
      /\ pending \in [PE -> Seq(Ask \cup Order)]
      /\ net \in [Link -> Seq(Packet)]
      /\ \A t \in Task : pc[t] \in 1..Len(Program[t]) + 1
      /\ moving \in [Task -> BOOLEAN]
      /\ moves \in [Task -> Nat] /\ \A t \in Task : moves[t] <= MaxMoves[t]
  BY DEF IInv, Typed
<1>2. \A d \in PE : \A k \in DOMAIN pending[d] : pending[d][k].service \in Deferrable
  <2>1. \A m \in Ask \cup Order : m.service \in Deferrable
    BY DEF Ask, Order, Deferrable
  <2>2. QED BY <1>1, <2>1
<1>3. \A t \in Task : moves[t] \in 0..MaxMoves[t]
  BY <1>1, MigrationAssumption
<1>4. QED BY <1>1, <1>2, <1>3 DEF TypeOK, Link

-----------------------------------------------------------------------------
(* The theorems *)

\* When no task with a period may be ordered to move, every variable keeps its
\* type, whatever the mapper orders, the kernels defer and the tasks call.
THEOREM TypeCorrect ==
    ASSUME \A t \in RealTime : Target[t] = {}
    PROVE  Spec => []TypeOK
<1>1. Init => IInv
  BY InitIInv
<1>2. IInv /\ [Next]_vars => IInv'
  BY NextInv
<1>3. IInv => TypeOK
  BY TypeOKIfIInv
<1>4. QED BY <1>1, <1>2, <1>3, PTL DEF Spec

\* When no task with a period may be ordered to move (the handler of
\* MIGRATION_TCB makes such a task READY before its memory has come), a task in
\* transit is neither lost nor doubled and runs only when it is whole: it is on
\* one page from which it runs, or its last packet is on one link, until it exits;
\* also after a kernel has stopped.
THEOREM TasksStayWhole ==
    ASSUME \A t \in RealTime : Target[t] = {}
    PROVE  Spec => []TasksWhole
<1>1. Init => IInv
  BY InitIInv
<1>2. IInv /\ [Next]_vars => IInv'
  BY NextInv
<1>3. IInv => TasksWhole
  BY WholeIfIInv
<1>4. QED BY <1>1, <1>2, <1>3, PTL DEF Spec

-----------------------------------------------------------------------------
(* Errands *)

\* The task c waits for a message on a page of d.
WaitsAt(c, d) == \E i \in Page : tcbs[d][i].id = c /\ tcbs[d][i].waiting_msg
Waiting(c) == \E d \in PE : WaitsAt(c, d)

\* The calls of p and c that passed messages from p to c.
Accepted(p, c) == CallsMade(p, "send", c)
Received(p, c) == CallsMade(c, "receive", p)

SendTo(c) == [op |-> "send", peer |-> c]
ReceiveFrom(p) == [op |-> "receive", peer |-> p]

\* c waits on d for p: nothing is accepted for it yet, or its message is on the way.
Sought(c, p, d) ==
    WaitsAt(c, d) /\ CallOf(c) = ReceiveFrom(p) /\ Accepted(p, c) = Received(p, c)
Coming(c, p, d) ==
    WaitsAt(c, d) /\ CallOf(c) = ReceiveFrom(p) /\ Accepted(p, c) = Received(p, c) + 1

\* Packet m is, or carries, a request of the consumer c or a message to it.
Concerns(m, c) ==
    \/ m \in Ask /\ m.consumer = c
    \/ m \in RequestList /\ \E r \in m.data : r.requester = c
    \/ m \in Answer /\ m.consumer = c

\* It is one that c waits for; a message goes to d.
Right(c, m, d) ==
    /\ m \in Ask => Sought(c, m.producer, m.proc)
    /\ m \in RequestList => \A r \in m.data : r.requester = c =>
           r.requested = m.task /\ Sought(c, r.requested, r.requester_proc)
    /\ m \in Answer => Coming(c, m.producer, d)

\* The errand of a consumer: nothing, a request in a table, or a packet.
None == <<"none">>
KeptAt(d, r) == <<"kept", d, r>>
DeferredAt(d, m) == <<"deferred", d, m>>
SentOn(l, m) == <<"sent", l, m>>

\* There is nothing else of c in the tables R, the network N and the deferred services
\* p, and that not twice.
Only(c, x, R, N, p) ==
    /\ \A d \in PE : \A r \in R[d] : r.requester = c => x = KeptAt(d, r)
    /\ \A d \in PE : \A m \in Contents(p[d]) : Concerns(m, c) =>
           x = DeferredAt(d, m) /\ ~Before(p[d], m, m)
    /\ \A l \in Link : \A m \in Contents(N[l]) : Concerns(m, c) =>
           x = SentOn(l, m) /\ ~Before(N[l], m, m)

\* It is there, and it is what c waits for.
There(c, x, R, N, p) ==
    \/ x = None
    \/ \E d \in PE : \E r \in R[d] :
           r.requester = c /\ x = KeptAt(d, r) /\ Sought(c, r.requested, r.requester_proc)
    \/ \E d \in PE : \E m \in Contents(p[d]) :
           Concerns(m, c) /\ x = DeferredAt(d, m) /\ Right(c, m, d)
    \/ \E l \in Link : \E m \in Contents(N[l]) :
           Concerns(m, c) /\ x = SentOn(l, m) /\ Right(c, m, l[2])

\* A message that was accepted and is not received is on its way.
Settled(c, x) ==
    \A p \in Task : Accepted(p, c) # Received(p, c) =>
        \E l \in Link : x = SentOn(l, MESSAGE_DELIVERY(p, c))

Errand(c, x, R, N, p) == Only(c, x, R, N, p) /\ There(c, x, R, N, p) /\ Settled(c, x)

\* While all kernels run, a consumer that waits has an errand.
Fine(c, R, N, p) ==
    \E x : Errand(c, x, R, N, p) /\ (NoErrorLoop /\ Waiting(c) => x # None)

RInv == IInv /\ \A c \in Task : Fine(c, message_request, net, pending)

-----------------------------------------------------------------------------
(* Calls *)

\* A task that ends a call has made one more of that kind.
LEMMA CallsCounted ==
    ASSUME Typed, NEW t \in Task, NEW op, NEW peer
    PROVE  /\ CallsMade(t, op, peer) \in Nat
           /\ pc'[t] = pc[t] => CallsMade(t, op, peer)' = CallsMade(t, op, peer)
           /\ pc[t] <= Len(Program[t]) /\ pc'[t] = pc[t] + 1 =>
                CallsMade(t, op, peer)' =
                    CallsMade(t, op, peer) + IF CallOf(t) = [op |-> op, peer |-> peer] THEN 1 ELSE 0
<1> DEFINE C(n) == {k \in 1..(n - 1) : Program[t][k] = [op |-> op, peer |-> peer]}
<1>1. PICK n : n = pc[t] /\ n \in Nat \ {0}
  BY DEF Typed
<1>2. CallsMade(t, op, peer) = Cardinality(C(n))
  BY <1>1 DEF CallsMade
<1>3. IsFiniteSet(C(n)) /\ Cardinality(C(n)) \in Nat
  <2>1. IsFiniteSet(1..(n - 1))
    BY <1>1, FS_Interval
  <2>2. C(n) \subseteq 1..(n - 1)
    OBVIOUS
  <2>3. IsFiniteSet(C(n))
    BY <2>1, <2>2, FS_Subset
  <2>4. QED BY <2>3, FS_CardinalityType
<1>4. ASSUME pc'[t] = pc[t]
      PROVE  CallsMade(t, op, peer)' = CallsMade(t, op, peer)
  BY <1>4 DEF CallsMade
<1>5. ASSUME pc[t] <= Len(Program[t]), pc'[t] = pc[t] + 1
      PROVE  CallsMade(t, op, peer)' =
                 CallsMade(t, op, peer) + IF CallOf(t) = [op |-> op, peer |-> peer] THEN 1 ELSE 0
  <2>1. CallsMade(t, op, peer)' = Cardinality(C(n + 1))
    BY <1>1, <1>5 DEF CallsMade
  <2>2. CallOf(t) = Program[t][n]
    BY <1>1, <1>5 DEF CallOf
  <2>3. CASE CallOf(t) = [op |-> op, peer |-> peer]
    <3>1. Program[t][n] = [op |-> op, peer |-> peer] /\ 1..(n + 1 - 1) = 1..(n - 1) \cup {n}
          /\ n \notin 1..(n - 1)
      BY <1>1, <2>2, <2>3
    <3>2. C(n + 1) = C(n) \cup {n} /\ n \notin C(n)
      BY <3>1
    <3>3. Cardinality(C(n + 1)) = Cardinality(C(n)) + 1
      BY <1>3, <3>2, FS_AddElement
    <3>4. QED BY <1>2, <2>1, <2>3, <3>3
  <2>4. CASE CallOf(t) # [op |-> op, peer |-> peer]
    <3>1. C(n + 1) = C(n)
      BY <1>1, <2>2, <2>4
    <3>2. QED BY <1>2, <1>3, <2>1, <2>4, <3>1
  <2>5. QED BY <2>3, <2>4
<1>6. QED BY <1>2, <1>3, <1>4, <1>5

\* A call of a task is to a task, and with the operation known it is known.
LEMMA CallIs ==
    ASSUME Typed, NEW t \in Task
    PROVE  /\ CallOf(t).op = "send" => CallOf(t) = SendTo(CallOf(t).peer)
           /\ CallOf(t).op = "receive" => CallOf(t) = ReceiveFrom(CallOf(t).peer)
           /\ CallOf(t).op # "end" => CallOf(t).peer \in Task /\ pc[t] <= Len(Program[t])
<1>1. PICK s : s = Program[t]
  OBVIOUS
<1>2. PICK n : n = pc[t]
  OBVIOUS
<1> DEFINE S == [op : {"send", "receive"}, peer : Task]
<1>3. s \in Seq(S)
  BY <1>1, MigrationAssumption
<1> HIDE DEF S
<1>4. CallOf(t) = IF n <= Len(s) THEN s[n] ELSE [op |-> "end", peer |-> t]
  BY <1>1, <1>2 DEF CallOf
<1>5. n \in 1..Len(s) + 1
  BY <1>1, <1>2 DEF Typed
<1>6. n <= Len(s) => s[n] \in S
  BY <1>3, <1>5
<1>7. \A x \in S : /\ x.op = "send" => x = SendTo(x.peer)
                   /\ x.op = "receive" => x = ReceiveFrom(x.peer)
                   /\ x.peer \in Task
  BY DEF S, SendTo, ReceiveFrom
<1>8. QED BY <1>1, <1>2, <1>4, <1>6, <1>7

\* The tasks of S end their calls.
LEMMA CallsEnd ==
    ASSUME Typed, NEW S \in SUBSET Task, \A t \in S : CallOf(t).op # "end",
           pc' = [t \in Task |-> IF t \in S THEN pc[t] + 1 ELSE pc[t]],
           NEW p \in Task, NEW c \in Task
    PROVE  /\ Accepted(p, c) \in Nat /\ Received(p, c) \in Nat
           /\ Accepted(p, c)' = Accepted(p, c) + IF p \in S /\ CallOf(p) = SendTo(c) THEN 1 ELSE 0
           /\ Received(p, c)' = Received(p, c) + IF c \in S /\ CallOf(c) = ReceiveFrom(p) THEN 1 ELSE 0
<1>1. \A t \in S : pc[t] <= Len(Program[t]) /\ pc'[t] = pc[t] + 1
  BY CallIs
<1>2. \A t \in Task \ S : pc'[t] = pc[t]
  OBVIOUS
<1>3. /\ CallsMade(p, "send", c) \in Nat
      /\ CallsMade(p, "send", c)' =
           CallsMade(p, "send", c) + IF p \in S /\ CallOf(p) = SendTo(c) THEN 1 ELSE 0
  BY <1>1, <1>2, CallsCounted DEF SendTo
<1>4. /\ CallsMade(c, "receive", p) \in Nat
      /\ CallsMade(c, "receive", p)' =
           CallsMade(c, "receive", p) + IF c \in S /\ CallOf(c) = ReceiveFrom(p) THEN 1 ELSE 0
  BY <1>1, <1>2, CallsCounted DEF ReceiveFrom
<1>5. QED BY <1>3, <1>4 DEF Accepted, Received

-----------------------------------------------------------------------------
(* What there is of a consumer *)

\* In R2, N2 and p2 there is the same of c as in R, N and p, nothing of it twice that
\* was not.
QueueSame(c, q, q2) ==
    /\ \A m : Concerns(m, c) => (m \in Contents(q) <=> m \in Contents(q2))
    /\ \A m : Concerns(m, c) /\ Before(q2, m, m) => Before(q, m, m)
SameFor(c, R, N, p, R2, N2, p2) ==
    /\ \A d \in PE : \A r : r.requester = c => (r \in R[d] <=> r \in R2[d])
    /\ \A d \in PE : QueueSame(c, p[d], p2[d])
    /\ \A l \in Link : QueueSame(c, N[l], N2[l])

\* Nothing has changed for c: its calls, its waiting, and its call if it waits.
Still(c) ==
    /\ \A p \in Task : Accepted(p, c)' = Accepted(p, c) /\ Received(p, c)' = Received(p, c)
    /\ \A d \in PE : WaitsAt(c, d)' <=> WaitsAt(c, d)
    /\ Waiting(c) => CallOf(c)' = CallOf(c)

LEMMA SameTwice ==
    ASSUME NEW c, NEW R, NEW N, NEW p, NEW R2, NEW N2, NEW p2, NEW R3, NEW N3, NEW p3,
           SameFor(c, R, N, p, R2, N2, p2), SameFor(c, R2, N2, p2, R3, N3, p3)
    PROVE  SameFor(c, R, N, p, R3, N3, p3)
BY DEF SameFor, QueueSame

\* What was right for c still is.
LEMMA StillRight ==
    ASSUME NEW c \in Task, Still(c)
    PROVE  /\ \A p \in Task : \A d \in PE : Sought(c, p, d) => Sought(c, p, d)'
           /\ \A p \in Task : \A d \in PE : Coming(c, p, d) => Coming(c, p, d)'
           /\ \A m, d : (m \in Answer => d \in PE) /\ Right(c, m, d) => Right(c, m, d)'
<1>1. /\ \A p \in Task : \A d \in PE : Sought(c, p, d) => Sought(c, p, d)'
      /\ \A p \in Task : \A d \in PE : Coming(c, p, d) => Coming(c, p, d)'
  BY DEF Still, Sought, Coming, Waiting
<1>2. ASSUME NEW m, NEW d, m \in Answer => d \in PE, Right(c, m, d)
      PROVE  Right(c, m, d)'
  <2>1. m \in Ask => Sought(c, m.producer, m.proc)'
    BY <1>1, <1>2 DEF Right, Ask
  <2>2. m \in RequestList => \A r \in m.data : r.requester = c =>
           r.requested = m.task /\ Sought(c, r.requested, r.requester_proc)'
    BY <1>1, <1>2 DEF Right, RequestList, Requests
  <2>3. m \in Answer => Coming(c, m.producer, d)'
    BY <1>1, <1>2 DEF Right, Answer
  <2>4. QED BY <2>1, <2>2, <2>3 DEF Right
<1>3. QED BY <1>1, <1>2

\* Messages go to PEs.
LEMMA AnswersToPE ==
    ASSUME NEW N, Family(N), NEW l \in Link, NEW m \in Contents(N[l]), m \in Answer
    PROVE  l[2] \in PE
<1>1. SUFFICES ASSUME l[2] \notin PE
               PROVE  FALSE
  OBVIOUS
<1>2. l[1] \in Node /\ l = <<l[1], Manager>>
  BY <1>1 DEF Link, Node
<1>3. N[l] \in Seq(Report)
  BY <1>2 DEF Family
<1>4. m \in Report
  BY <1>3 DEF Contents
<1>5. QED BY <1>4, PacketsApart

\* An errand, told of the next state.
LEMMA Concludes ==
    ASSUME NEW c \in Task, NEW x, NEW R, NEW N, NEW p,
           R = message_request', N = net', p = pending', Errand(c, x, R, N, p)',
           NoErrorLoop' /\ Waiting(c)' => x # None
    PROVE  Fine(c, message_request, net, pending)'
<1>1. Only(c, x, message_request, net, pending)'
  BY DEF Errand, Only
<1>2. There(c, x, message_request, net, pending)'
  BY DEF Errand, There
<1>3. Settled(c, x)'
  BY DEF Errand
<1>4. QED BY <1>1, <1>2, <1>3 DEF Fine, Errand

\* The same of c elsewhere: its errand is the same.
LEMMA SameErrand ==
    ASSUME NEW c \in Task, NEW x, NEW R, NEW N, NEW p, NEW R2, NEW N2, NEW p2,
           Errand(c, x, R, N, p), SameFor(c, R, N, p, R2, N2, p2)
    PROVE  Errand(c, x, R2, N2, p2)
<1>1. Only(c, x, R2, N2, p2)
  <2>1. \A d \in PE : \A r \in R2[d] : r.requester = c => x = KeptAt(d, r)
    BY DEF Errand, Only, SameFor
  <2>2. \A d \in PE : \A m \in Contents(p2[d]) : Concerns(m, c) =>
            x = DeferredAt(d, m) /\ ~Before(p2[d], m, m)
    BY DEF Errand, Only, SameFor, QueueSame
  <2>3. \A l \in Link : \A m \in Contents(N2[l]) : Concerns(m, c) =>
            x = SentOn(l, m) /\ ~Before(N2[l], m, m)
    BY DEF Errand, Only, SameFor, QueueSame
  <2>4. QED BY <2>1, <2>2, <2>3 DEF Only
<1>2. There(c, x, R2, N2, p2)
  <2>1. There(c, x, R, N, p)
    BY DEF Errand
  <2>2. \A d \in PE : \A r \in R[d] : r.requester = c => r \in R2[d]
    BY DEF SameFor
  <2>3. \A d \in PE : \A m \in Contents(p[d]) : Concerns(m, c) => m \in Contents(p2[d])
    BY DEF SameFor, QueueSame
  <2>4. \A l \in Link : \A m \in Contents(N[l]) : Concerns(m, c) => m \in Contents(N2[l])
    BY DEF SameFor, QueueSame
  <2>5. QED BY <2>1, <2>2, <2>3, <2>4 DEF There
<1>3. QED BY <1>1, <1>2 DEF Errand

\* Nothing has changed for c: neither has its errand.
LEMMA StillErrand ==
    ASSUME NEW c \in Task, NEW x, NEW R \in [PE -> SUBSET Requests], NEW N, NEW p,
           Family(N), Errand(c, x, R, N, p), Still(c)
    PROVE  Errand(c, x, R, N, p)'
<1>1. Only(c, x, R, N, p)'
  BY DEF Errand, Only
<1>2. There(c, x, R, N, p)'
  <2>1. CASE x = None
    BY <2>1 DEF There
  <2>2. CASE \E d \in PE : \E r \in R[d] :
               r.requester = c /\ x = KeptAt(d, r) /\ Sought(c, r.requested, r.requester_proc)
    <3> PICK d \in PE : \E r \in R[d] :
               r.requester = c /\ x = KeptAt(d, r) /\ Sought(c, r.requested, r.requester_proc)
      BY <2>2
    <3>1. PICK r \in R[d] :
               r.requester = c /\ x = KeptAt(d, r) /\ Sought(c, r.requested, r.requester_proc)
      OBVIOUS
    <3>2. r \in Requests
      OBVIOUS
    <3>3. Sought(c, r.requested, r.requester_proc)'
      BY <3>1, <3>2, StillRight DEF Requests
    <3>4. QED BY <3>1, <3>3 DEF There
  <2>3. CASE \E d \in PE : \E m \in Contents(p[d]) :
               Concerns(m, c) /\ x = DeferredAt(d, m) /\ Right(c, m, d)
    BY <2>3, StillRight DEF There
  <2>4. CASE \E l \in Link : \E m \in Contents(N[l]) :
               Concerns(m, c) /\ x = SentOn(l, m) /\ Right(c, m, l[2])
    BY <2>4, AnswersToPE, StillRight DEF There
  <2>5. QED BY <2>1, <2>2, <2>3, <2>4 DEF There, Errand
<1>3. Settled(c, x)'
  BY DEF Errand, Settled, Still
<1>4. QED BY <1>1, <1>2, <1>3 DEF Errand

-----------------------------------------------------------------------------
(* Packets, services and requests that come and go *)

\* The kinds of errands are apart.
LEMMA ErrandsApart ==
    ASSUME NEW a, NEW b, NEW y, NEW z
    PROVE  /\ None # KeptAt(a, b) /\ None # DeferredAt(a, b) /\ None # SentOn(a, b)
           /\ KeptAt(a, b) # DeferredAt(y, z) /\ KeptAt(a, b) # SentOn(y, z)
           /\ DeferredAt(a, b) # SentOn(y, z)
           /\ KeptAt(a, b) = KeptAt(y, z) => a = y /\ b = z
           /\ DeferredAt(a, b) = DeferredAt(y, z) => a = y /\ b = z
           /\ SentOn(a, b) = SentOn(y, z) => a = y /\ b = z
BY DEF None, KeptAt, DeferredAt, SentOn

\* No table, no service, no packet has anything of c.
NoRequest(c, R) == \A d \in PE : \A r \in R[d] : r.requester # c
NoService(c, p) == \A d \in PE : \A m \in Contents(p[d]) : ~Concerns(m, c)
NoPacket(c, N) == \A l \in Link : \A m \in Contents(N[l]) : ~Concerns(m, c)

\* An errand of one kind is none of the others.
LEMMA NothingElse ==
    ASSUME NEW c, NEW R, NEW N, NEW p, NEW a, NEW b
    PROVE  /\ Only(c, None, R, N, p) <=> NoRequest(c, R) /\ NoService(c, p) /\ NoPacket(c, N)
           /\ Only(c, SentOn(a, b), R, N, p) => NoRequest(c, R) /\ NoService(c, p)
           /\ Only(c, DeferredAt(a, b), R, N, p) => NoRequest(c, R) /\ NoPacket(c, N)
           /\ Only(c, KeptAt(a, b), R, N, p) => NoService(c, p) /\ NoPacket(c, N)
<1>1. Only(c, None, R, N, p) <=> NoRequest(c, R) /\ NoService(c, p) /\ NoPacket(c, N)
  BY ErrandsApart DEF Only, NoRequest, NoService, NoPacket
<1>2. ASSUME NEW x, Only(c, x, R, N, p), \A d, r : x # KeptAt(d, r)
      PROVE  NoRequest(c, R)
  BY <1>2 DEF Only, NoRequest
<1>3. ASSUME NEW x, Only(c, x, R, N, p), \A d, m : x # DeferredAt(d, m)
      PROVE  NoService(c, p)
  BY <1>3 DEF Only, NoService
<1>4. ASSUME NEW x, Only(c, x, R, N, p), \A l, m : x # SentOn(l, m)
      PROVE  NoPacket(c, N)
  BY <1>4 DEF Only, NoPacket
<1>5. \A y, z : /\ SentOn(a, b) # KeptAt(y, z) /\ SentOn(a, b) # DeferredAt(y, z)
              /\ DeferredAt(a, b) # KeptAt(y, z) /\ DeferredAt(a, b) # SentOn(y, z)
              /\ KeptAt(a, b) # DeferredAt(y, z) /\ KeptAt(a, b) # SentOn(y, z)
  BY ErrandsApart
<1>6. QED BY <1>1, <1>2, <1>3, <1>4, <1>5

\* A queue without its first item.
LEMMA QueuePopped ==
    ASSUME NEW P, NEW q \in Seq(P), q # <<>>, NEW c
    PROVE  /\ ~Concerns(Head(q), c) => QueueSame(c, q, Tail(q))
           /\ Head(q) \in Contents(q)
           /\ \A m \in Contents(Tail(q)) : m \in Contents(q) /\ (m = Head(q) => Before(q, m, m))
           /\ \A m : Before(Tail(q), m, m) => Before(q, m, m)
<1>1. \A a, b : /\ Contents(q) = Contents(Tail(q)) \cup {Head(q)}
                /\ Before(Tail(q), a, b) => Before(q, a, b)
                /\ a \in Contents(Tail(q)) => Before(q, Head(q), a)
  BY WithoutHead
<1>2. QED BY <1>1 DEF QueueSame

\* A queue with others behind it.
LEMMA QueueGrown ==
    ASSUME NEW P, NEW q \in Seq(P), NEW s \in Seq(P), NEW c
    PROVE  /\ (\A m \in Contents(s) : ~Concerns(m, c)) => QueueSame(c, q, q \o s)
           /\ \A m : m \in Contents(q \o s) <=> m \in Contents(q) \/ m \in Contents(s)
           /\ \A m : Before(q \o s, m, m) =>
                  Before(q, m, m) \/ Before(s, m, m) \/ (m \in Contents(q) /\ m \in Contents(s))
<1>1. \A a, b : /\ Contents(q \o s) = Contents(q) \cup Contents(s)
                /\ Before(q \o s, a, b) <=> \/ Before(q, a, b) \/ Before(s, a, b)
                                            \/ a \in Contents(q) /\ b \in Contents(s)
  BY Concatenated
<1>2. \A a : Before(s, a, a) => a \in Contents(s)
  BY DEF Before, Contents
<1>3. QED BY <1>1, <1>2 DEF QueueSame

\* A packet is taken from the network: nothing to those it does not concern.
LEMMA OtherPacketTaken ==
    ASSUME NEW R, NEW N \in [Link -> Seq(Packet)], NEW p, NEW l \in Link, N[l] # <<>>,
           NEW N2, N2 = Drop(N, l), NEW c, ~Concerns(Head(N[l]), c)
    PROVE  SameFor(c, R, N, p, R, N2, p)
<1>1. N2[l] = Tail(N[l]) /\ \A k \in Link : k # l => N2[k] = N[k]
  BY DEF Drop
<1>2. QueueSame(c, N[l], N2[l])
  BY <1>1, QueuePopped
<1>3. QED BY <1>1, <1>2 DEF SameFor, QueueSame

\* A packet is taken from the network: what concerned a consumer was its errand.
LEMMA PacketTaken ==
    ASSUME NEW R, NEW N \in [Link -> Seq(Packet)], NEW p, NEW l \in Link, N[l] # <<>>,
           NEW N2, N2 = Drop(N, l), NEW c, Concerns(Head(N[l]), c), NEW x, Only(c, x, R, N, p)
    PROVE  x = SentOn(l, Head(N[l])) /\ Only(c, None, R, N2, p)
<1>1. N2[l] = Tail(N[l]) /\ \A k \in Link : k # l => N2[k] = N[k]
  BY DEF Drop
<1>2. /\ Head(N[l]) \in Contents(N[l])
      /\ \A m \in Contents(N2[l]) : m \in Contents(N[l]) /\ (m = Head(N[l]) => Before(N[l], m, m))
  BY <1>1, QueuePopped
<1>3. x = SentOn(l, Head(N[l]))
  BY <1>2 DEF Only
<1>4. NoRequest(c, R) /\ NoService(c, p)
  BY <1>3, NothingElse
<1>5. ASSUME NEW k \in Link, NEW m \in Contents(N2[k])
      PROVE  ~Concerns(m, c)
  <2>1. m \in Contents(N[k]) /\ (k = l /\ m = Head(N[l]) => Before(N[l], m, m))
    BY <1>1, <1>2, <1>5
  <2>2. Concerns(m, c) => SentOn(l, Head(N[l])) = SentOn(k, m) /\ ~Before(N[k], m, m)
    BY <1>3, <2>1 DEF Only
  <2>3. QED BY <2>1, <2>2, ErrandsApart
<1>6. QED BY <1>3, <1>4, <1>5, NothingElse DEF NoPacket

\* The same of a deferred service.
LEMMA OtherServiceTaken ==
    ASSUME NEW R, NEW N, Typed, NEW d \in PE, pending[d] # <<>>, NEW p, Without(p, d),
           NEW c, ~Concerns(Head(pending[d]), c)
    PROVE  SameFor(c, R, N, pending, R, N, p)
<1>1. PICK q : q = pending[d]
  OBVIOUS
<1>2. p[d] = Tail(q) /\ q \in Seq(Ask \cup Order) /\ \A e \in PE : e # d => p[e] = pending[e]
  BY <1>1 DEF Without, Typed
<1>3. QueueSame(c, q, p[d])
  BY <1>1, <1>2, QueuePopped
<1>4. QED BY <1>1, <1>2, <1>3 DEF SameFor, QueueSame

LEMMA ServiceTaken ==
    ASSUME NEW R, NEW N, Typed, NEW d \in PE, pending[d] # <<>>, NEW p, Without(p, d),
           NEW c, Concerns(Head(pending[d]), c), NEW x, Only(c, x, R, N, pending)
    PROVE  x = DeferredAt(d, Head(pending[d])) /\ Only(c, None, R, N, p)
<1>1. PICK q : q = pending[d]
  OBVIOUS
<1>2. p[d] = Tail(q) /\ q \in Seq(Ask \cup Order) /\ \A e \in PE : e # d => p[e] = pending[e]
  BY <1>1 DEF Without, Typed
<1>3. /\ Head(q) \in Contents(q)
      /\ \A m \in Contents(p[d]) : m \in Contents(q) /\ (m = Head(q) => Before(q, m, m))
  BY <1>1, <1>2, QueuePopped
<1>4. x = DeferredAt(d, Head(q))
  BY <1>1, <1>3 DEF Only
<1>5. NoRequest(c, R) /\ NoPacket(c, N)
  BY <1>4, NothingElse
<1>6. ASSUME NEW e \in PE, NEW m \in Contents(p[e])
      PROVE  ~Concerns(m, c)
  <2>1. m \in Contents(pending[e]) /\ (e = d /\ m = Head(q) => Before(pending[e], m, m))
    BY <1>1, <1>2, <1>3, <1>6
  <2>2. Concerns(m, c) => DeferredAt(d, Head(q)) = DeferredAt(e, m) /\ ~Before(pending[e], m, m)
    BY <1>4, <2>1 DEF Only
  <2>3. QED BY <2>1, <2>2, ErrandsApart
<1>7. QED BY <1>1, <1>4, <1>5, <1>6, NothingElse DEF NoService

\* Packets are sent: nothing to those they do not concern.
LEMMA OtherPacketsSent ==
    ASSUME NEW R, NEW N \in [Link -> Seq(Packet)], NEW p, NEW l \in Link, NEW q \in Seq(Packet),
           NEW N2, Extends(N2, N, l, q), NEW c, \A a \in Contents(q) : ~Concerns(a, c)
    PROVE  SameFor(c, R, N, p, R, N2, p)
<1>1. N2[l] = N[l] \o q /\ \A k \in Link : k # l => N2[k] = N[k]
  BY DEF Extends
<1>2. QueueSame(c, N[l], N2[l])
  BY <1>1, QueueGrown
<1>3. QED BY <1>1, <1>2 DEF SameFor, QueueSame

\* The packet that concerns c is its errand, if it had none.
LEMMA PacketsSent ==
    ASSUME NEW R, NEW N \in [Link -> Seq(Packet)], NEW p, NEW l \in Link, NEW q \in Seq(Packet),
           NEW N2, Extends(N2, N, l, q), NEW c, Only(c, None, R, N, p),
           NEW m, ~Before(q, m, m), \A a \in Contents(q) : Concerns(a, c) => a = m
    PROVE  Only(c, SentOn(l, m), R, N2, p)
<1>1. N2[l] = N[l] \o q /\ \A k \in Link : k # l => N2[k] = N[k]
  BY DEF Extends
<1>2. /\ \A a : a \in Contents(N2[l]) <=> a \in Contents(N[l]) \/ a \in Contents(q)
      /\ \A a : Before(N2[l], a, a) =>
             Before(N[l], a, a) \/ Before(q, a, a) \/ (a \in Contents(N[l]) /\ a \in Contents(q))
  BY <1>1, QueueGrown
<1>3. /\ \A d \in PE : \A r \in R[d] : r.requester # c
      /\ \A d \in PE : \A a \in Contents(p[d]) : ~Concerns(a, c)
      /\ \A k \in Link : \A a \in Contents(N[k]) : ~Concerns(a, c)
  BY NothingElse DEF NoRequest, NoService, NoPacket
<1>4. \A a : Before(N[l], a, a) => a \in Contents(N[l])
  BY DEF Before, Contents
<1>5. \A k \in Link : \A a \in Contents(N2[k]) : Concerns(a, c) =>
          SentOn(l, m) = SentOn(k, a) /\ ~Before(N2[k], a, a)
  BY <1>1, <1>2, <1>3, <1>4
<1>6. QED BY <1>3, <1>5 DEF Only

\* A service is deferred.
LEMMA OtherServiceDeferred ==
    ASSUME NEW R, NEW N, NEW p \in [PE -> Seq(Ask \cup Order)], NEW d \in PE, NEW m \in Ask \cup Order,
           NEW p2, Defers(p2, p, d, m), NEW c, ~Concerns(m, c)
    PROVE  SameFor(c, R, N, p, R, N, p2)
<1>1. /\ p2 \in [PE -> Seq(Ask \cup Order)] /\ \A e \in PE : e # d => p2[e] = p[e]
      /\ Contents(p2[d]) = Contents(p[d]) \cup {m}
      /\ \A a : Before(p2[d], a, a) => Before(p[d], a, a) \/ (a = m /\ m \in Contents(p[d]))
  BY LaterLast
<1>2. QED BY <1>1 DEF SameFor, QueueSame

LEMMA ServiceDeferred ==
    ASSUME NEW R, NEW N, NEW p \in [PE -> Seq(Ask \cup Order)], NEW d \in PE, NEW m \in Ask \cup Order,
           NEW p2, Defers(p2, p, d, m), NEW c, Only(c, None, R, N, p)
    PROVE  Only(c, DeferredAt(d, m), R, N, p2)
<1>1. /\ p2 \in [PE -> Seq(Ask \cup Order)] /\ \A e \in PE : e # d => p2[e] = p[e]
      /\ Contents(p2[d]) = Contents(p[d]) \cup {m}
      /\ \A a : Before(p2[d], a, a) => Before(p[d], a, a) \/ (a = m /\ m \in Contents(p[d]))
  BY LaterLast
<1>2. /\ \A e \in PE : \A r \in R[e] : r.requester # c
      /\ \A e \in PE : \A a \in Contents(p[e]) : ~Concerns(a, c)
      /\ \A k \in Link : \A a \in Contents(N[k]) : ~Concerns(a, c)
  BY NothingElse DEF NoRequest, NoService, NoPacket
<1>3. \A a : Before(p[d], a, a) => a \in Contents(p[d])
  BY DEF Before, Contents
<1>4. \A e \in PE : \A a \in Contents(p2[e]) : Concerns(a, c) =>
          DeferredAt(d, m) = DeferredAt(e, a) /\ ~Before(p2[e], a, a)
  BY <1>1, <1>2, <1>3
<1>5. QED BY <1>2, <1>4 DEF Only

\* The requests Q join the table of d, or leave it.
Joins(R2, R, d, Q) == R2[d] = R[d] \cup Q /\ \A e \in PE : e # d => R2[e] = R[e]
Quits(R2, R, d, Q) == R2[d] = R[d] \ Q /\ \A e \in PE : e # d => R2[e] = R[e]

LEMMA OtherRequestsJoin ==
    ASSUME NEW R, NEW N, NEW p, NEW d \in PE, NEW Q, NEW R2, Joins(R2, R, d, Q),
           NEW c, \A a \in Q : a.requester # c
    PROVE  SameFor(c, R, N, p, R2, N, p)
BY DEF SameFor, QueueSame, Joins

LEMMA RequestsJoin ==
    ASSUME NEW R, NEW N, NEW p, NEW d \in PE, NEW Q, NEW R2, Joins(R2, R, d, Q),
           NEW c, Only(c, None, R, N, p), NEW r, \A a \in Q : a.requester = c => a = r
    PROVE  Only(c, KeptAt(d, r), R2, N, p)
BY ErrandsApart DEF Only, Joins

LEMMA OtherRequestsQuit ==
    ASSUME NEW R, NEW N, NEW p, NEW d \in PE, NEW Q, NEW R2, Quits(R2, R, d, Q),
           NEW c, \A a \in Q : a.requester # c
    PROVE  SameFor(c, R, N, p, R2, N, p)
BY DEF SameFor, QueueSame, Quits

LEMMA RequestsQuit ==
    ASSUME NEW R, NEW N, NEW p, NEW d \in PE, NEW Q, NEW R2, Quits(R2, R, d, Q),
           NEW c, NEW r \in R[d], r \in Q, r.requester = c, NEW x, Only(c, x, R, N, p)
    PROVE  x = KeptAt(d, r) /\ Only(c, None, R2, N, p)
<1>1. x = KeptAt(d, r)
  BY DEF Only
<1>2. NoService(c, p) /\ NoPacket(c, N)
  BY <1>1, NothingElse
<1>3. ASSUME NEW e \in PE, NEW a \in R2[e]
      PROVE  a.requester # c
  <2>1. a \in R[e] /\ (e = d => a # r)
    BY <1>3 DEF Quits
  <2>2. a.requester = c => KeptAt(d, r) = KeptAt(e, a)
    BY <1>1, <2>1 DEF Only
  <2>3. QED BY <2>1, <2>2, ErrandsApart
<1>4. QED BY <1>1, <1>2, <1>3, NothingElse DEF NoRequest

-----------------------------------------------------------------------------
(* Steps *)

\* Each message accepted for c has been received.
Even(c) == \A p \in Task : Accepted(p, c) = Received(p, c)

\* A kernel that has stopped does not run again.
LEMMA NoneRestarts ==
    ASSUME Worse, NoErrorLoop'
    PROVE  NoErrorLoop
BY DEF Worse, NoErrorLoop

\* A consumer to which nothing has happened keeps its errand.
LEMMA FineStill ==
    ASSUME NEW c \in Task, NEW R \in [PE -> SUBSET Requests], NEW N, NEW p, Family(N),
           NEW R2, NEW N2, NEW p2, R2 = message_request', N2 = net', p2 = pending',
           Fine(c, R, N, p), SameFor(c, R, N, p, R2, N2, p2), Still(c), Worse,
           R2 \in [PE -> SUBSET Requests], Family(N2)
    PROVE  Fine(c, message_request, net, pending)'
<1>1. PICK x : Errand(c, x, R, N, p) /\ (NoErrorLoop /\ Waiting(c) => x # None)
  BY DEF Fine
<1>2. Errand(c, x, R2, N2, p2)
  BY <1>1, SameErrand
<1>3. Errand(c, x, R2, N2, p2)'
  BY <1>2, StillErrand
<1>4. Waiting(c)' => Waiting(c)
  BY DEF Still, Waiting
<1>5. QED BY <1>1, <1>3, <1>4, NoneRestarts, Concludes

\* A consumer without an errand needs none when it does not wait, or a kernel has stopped.
LEMMA FineWithout ==
    ASSUME NEW c \in Task, NEW R, NEW N, NEW p,
           R = message_request', N = net', p = pending',
           Only(c, None, R, N, p), Even(c)', NoErrorLoop' => ~Waiting(c)'
    PROVE  Fine(c, message_request, net, pending)'
<1>1. Only(c, None, R, N, p)'
  BY DEF Only
<1>2. There(c, None, R, N, p)' /\ Settled(c, None)'
  BY DEF There, Settled, Even
<1>3. Errand(c, None, R, N, p)'
  BY <1>1, <1>2 DEF Errand
<1>4. QED BY <1>3, Concludes

\* A written page on which nobody begins or ends to wait.
LEMMA WaitsKept ==
    ASSUME NEW d \in PE, NEW i \in Page, NEW y, Becomes(d, i, y),
           y.waiting_msg <=> tcbs[d][i].waiting_msg,
           y.waiting_msg => y.id = tcbs[d][i].id,
           NEW c, NEW e \in PE
    PROVE  WaitsAt(c, e)' <=> WaitsAt(c, e)
BY DEF Becomes, WaitsAt

\* Nobody makes a call, begins or ends to wait.
LEMMA AllStill ==
    ASSUME pc' = pc, NEW c \in Task, \A d \in PE : WaitsAt(c, d)' <=> WaitsAt(c, d)
    PROVE  Still(c)
<1>1. \A t, op, peer : CallsMade(t, op, peer)' = CallsMade(t, op, peer)
  BY DEF CallsMade
<1>2. QED BY <1>1, CallsSame DEF Still, Accepted, Received

\* The packet or service m has been taken by the kernel of d, and is not handled yet.
InHand(c, m, d, R, N, p) ==
    IF Concerns(m, c)
    THEN /\ Only(c, None, R, N, p) /\ Right(c, m, d)
         /\ \A q \in Task : Accepted(q, c) # Received(q, c) => m = MESSAGE_DELIVERY(q, c)
    ELSE Fine(c, R, N, p)

LEMMA PacketInHand ==
    ASSUME RInv, NEW s \in Node, NEW d \in Node, net[<<s, d>>] # <<>>, NEW c \in Task
    PROVE  InHand(c, HeadPacket(s, d), d, message_request, Popped(s, d), pending)
<1>0. PICK l : l = <<s, d>>
  OBVIOUS
<1>1. /\ net \in [Link -> Seq(Packet)] /\ l \in Link /\ net[l] # <<>> /\ Popped(s, d) = Drop(net, l)
      /\ HeadPacket(s, d) = Head(net[l])
  BY <1>0, Shrinks DEF RInv, IInv, Family
<1>2. PICK x : /\ Errand(c, x, message_request, net, pending)
               /\ NoErrorLoop /\ Waiting(c) => x # None
  BY DEF RInv, Fine
<1>3. PICK m : m = HeadPacket(s, d)
  OBVIOUS
<1>4. PICK N : N = Popped(s, d)
  OBVIOUS
<1>5. CASE ~Concerns(m, c)
  <2>1. SameFor(c, message_request, net, pending, message_request, N, pending)
    BY <1>1, <1>3, <1>4, <1>5, OtherPacketTaken
  <2>2. Errand(c, x, message_request, N, pending)
    BY <1>2, <2>1, SameErrand
  <2>3. QED BY <1>2, <1>3, <1>4, <1>5, <2>2 DEF InHand, Fine
<1>6. CASE Concerns(m, c)
  <2>1. x = SentOn(l, m) /\ Only(c, None, message_request, N, pending)
    <3>1. Only(c, x, message_request, net, pending)
      BY <1>2 DEF Errand
    <3>2. N = Drop(net, l) /\ m = Head(net[l])
      BY <1>1, <1>3, <1>4
    <3>3. /\ net \in [Link -> Seq(Packet)] /\ l \in Link /\ net[l] # <<>>
          /\ Concerns(Head(net[l]), c)
      BY <1>1, <1>6, <3>2
    <3>4. x = SentOn(l, Head(net[l])) /\ Only(c, None, message_request, N, pending)
      BY <3>1, <3>2, <3>3, PacketTaken, SMTT(30)
    <3>5. QED BY <3>2, <3>4
  <2>2. Right(c, m, d)
    <3>1. There(c, x, message_request, net, pending)
      BY <1>2 DEF Errand
    <3>2. \A a, b : x # None /\ x # KeptAt(a, b) /\ x # DeferredAt(a, b)
      BY <2>1, ErrandsApart
    <3>3. PICK k \in Link : \E a \in Contents(net[k]) : x = SentOn(k, a) /\ Right(c, a, k[2])
      BY <3>1, <3>2 DEF There
    <3>4. PICK a \in Contents(net[k]) : x = SentOn(k, a) /\ Right(c, a, k[2])
      BY <3>3
    <3>5. k = l /\ a = m
      BY <2>1, <3>4 DEF SentOn
    <3>6. l[2] = d
      BY <1>0
    <3>7. QED BY <3>4, <3>5, <3>6
  <2>3. \A q \in Task : Accepted(q, c) # Received(q, c) => m = MESSAGE_DELIVERY(q, c)
    <3> SUFFICES ASSUME NEW q \in Task, Accepted(q, c) # Received(q, c)
                 PROVE  m = MESSAGE_DELIVERY(q, c)
      OBVIOUS
    <3>1. PICK k \in Link : x = SentOn(k, MESSAGE_DELIVERY(q, c))
      BY <1>2 DEF Errand, Settled
    <3>2. PICK a : a = MESSAGE_DELIVERY(q, c)
      OBVIOUS
    <3>3. SentOn(l, m) = SentOn(k, a)
      BY <2>1, <3>1, <3>2
    <3>4. m = a
      BY <3>3, ErrandsApart
    <3>5. QED BY <3>2, <3>4
  <2>4. QED BY <1>3, <1>4, <1>6, <2>1, <2>2, <2>3 DEF InHand
<1>7. QED BY <1>5, <1>6

LEMMA ServiceInHand ==
    ASSUME RInv, NEW d \in PE, pending[d] # <<>>, NEW p, Without(p, d), NEW c \in Task
    PROVE  InHand(c, Head(pending[d]), d, message_request, net, p)
<1>1. Typed
  BY DEF RInv, IInv
<1>2. PICK x : /\ Errand(c, x, message_request, net, pending)
               /\ NoErrorLoop /\ Waiting(c) => x # None
  BY DEF RInv, Fine
<1>3. PICK m : m = Head(pending[d])
  OBVIOUS
<1>4. CASE ~Concerns(m, c)
  <2>1. SameFor(c, message_request, net, pending, message_request, net, p)
    BY <1>1, <1>3, <1>4, OtherServiceTaken
  <2>2. Errand(c, x, message_request, net, p)
    BY <1>2, <2>1, SameErrand
  <2>3. QED BY <1>2, <1>3, <1>4, <2>2 DEF InHand, Fine
<1>5. CASE Concerns(m, c)
  <2>1. x = DeferredAt(d, m) /\ Only(c, None, message_request, net, p)
    BY <1>1, <1>2, <1>3, <1>5, ServiceTaken DEF Errand
  <2>2. Right(c, m, d)
    <3>1. There(c, x, message_request, net, pending)
      BY <1>2 DEF Errand
    <3>2. \A a, b : x # None /\ x # KeptAt(a, b) /\ x # SentOn(a, b)
      BY <2>1, ErrandsApart
    <3>3. PICK e \in PE : \E a \in Contents(pending[e]) : x = DeferredAt(e, a) /\ Right(c, a, e)
      BY <3>1, <3>2 DEF There
    <3>4. PICK a \in Contents(pending[e]) : x = DeferredAt(e, a) /\ Right(c, a, e)
      BY <3>3
    <3>5. e = d /\ a = m
      BY <2>1, <3>4 DEF DeferredAt
    <3>6. QED BY <3>4, <3>5
  <2>3. \A q \in Task : Accepted(q, c) # Received(q, c) => m = MESSAGE_DELIVERY(q, c)
    <3> SUFFICES ASSUME NEW q \in Task, Accepted(q, c) # Received(q, c)
                 PROVE  FALSE
      OBVIOUS
    <3>1. PICK k \in Link : x = SentOn(k, MESSAGE_DELIVERY(q, c))
      BY <1>2 DEF Errand, Settled
    <3>2. DeferredAt(d, m) = SentOn(k, MESSAGE_DELIVERY(q, c))
      BY <2>1, <3>1
    <3>3. QED BY <3>2, ErrandsApart
  <2>4. QED BY <1>3, <1>5, <2>1, <2>2, <2>3 DEF InHand
<1>6. QED BY <1>4, <1>5

\* A consumer with an errand that is a request.
LEMMA FineWith ==
    ASSUME NEW c \in Task, NEW R, NEW N, NEW p,
           R = message_request', N = net', p = pending',
           NEW x, x # None, Only(c, x, R, N, p), There(c, x, R, N, p)', Even(c)'
    PROVE  Fine(c, message_request, net, pending)'
<1>1. Only(c, x, R, N, p)'
  BY DEF Only
<1>2. Settled(c, x)'
  BY DEF Settled, Even
<1>3. Errand(c, x, R, N, p)'
  BY <1>1, <1>2 DEF Errand
<1>4. QED BY <1>3, Concludes

-----------------------------------------------------------------------------
(* The handlers of requests *)

\* Taken from its queue, the packet or service m is in the hands of the kernel of d.
Handed(m, d, N, p) ==
    Typed /\ Family(N) /\ \A c \in Task : InHand(c, m, d, message_request, N, p)

\* With a request in hand, all messages of its consumer have been received.
LEMMA EvenInHand ==
    ASSUME NEW m, m \notin Answer, NEW d, NEW N, NEW p, NEW c \in Task,
           InHand(c, m, d, message_request, N, p), Concerns(m, c)
    PROVE  Even(c) /\ Only(c, None, message_request, N, p) /\ Right(c, m, d)
<1>1. \A q \in Task : MESSAGE_DELIVERY(q, c) \in Answer
  BY DEF MESSAGE_DELIVERY, Answer
<1>2. QED BY <1>1 DEF InHand, Even

\* Steps that change no page and end no call are nothing to any consumer.
LEMMA PagesStill ==
    ASSUME pc' = pc, tcbs' = tcbs, NEW c \in Task
    PROVE  Still(c)
<1>1. \A d \in PE : WaitsAt(c, d)' <=> WaitsAt(c, d)
  BY DEF WaitsAt
<1>2. QED BY <1>1, AllStill

LEMMA StoppedFine ==
    ASSUME NEW m, m \notin Answer, NEW d \in PE, NEW N, NEW p, Handed(m, d, N, p),
           Stopped(d, message_request, N), Handling(p), NEW c \in Task
    PROVE  Still(c) /\ Fine(c, message_request, net, pending)'
<1>1. /\ Typed /\ Family(N) /\ InHand(c, m, d, message_request, N, p)
      /\ kernel' = [kernel EXCEPT ![d] = "error"] /\ tcbs' = tcbs /\ pc' = pc
      /\ message_request' = message_request /\ net' = N /\ pending' = p
  BY DEF Handed, Stopped, KernelError, Handling
<1>2. PICK R : R = message_request
  OBVIOUS
<1>3. R \in [PE -> SUBSET Requests] /\ R = message_request' /\ N = net' /\ p = pending'
  BY <1>1, <1>2 DEF Typed
<1>4. Worse /\ ~NoErrorLoop'
  BY <1>1 DEF Typed, Worse, NoErrorLoop
<1>5. Still(c)
  BY <1>1, PagesStill
<1>6. CASE Concerns(m, c)
  <2>1. Even(c) /\ Only(c, None, R, N, p)
    BY <1>1, <1>2, <1>6, EvenInHand
  <2>2. Even(c)'
    BY <1>5, <2>1 DEF Even, Still
  <2>3. QED BY <1>3, <1>4, <1>5, <2>1, <2>2, FineWithout
<1>7. CASE ~Concerns(m, c)
  <2>1. Fine(c, R, N, p)
    BY <1>1, <1>2, <1>7 DEF InHand
  <2>2. SameFor(c, R, N, p, R, N, p)
    BY DEF SameFor, QueueSame
  <2>3. QED BY <1>1, <1>3, <1>4, <1>5, <2>1, <2>2, FineStill
<1>8. QED BY <1>6, <1>7

\* A request is kept where its producer is, passed on, or stops the kernel.
LEMMA RequestFine ==
    ASSUME NEW m \in Ask, NEW d \in PE, NEW N, NEW p, Handed(m, d, N, p),
           handle_message_request(d, m, N), Handling(p), NEW c \in Task
    PROVE  Still(c) /\ Fine(c, message_request, net, pending)'
<1>1. /\ Typed /\ Family(N) /\ N \in [Link -> Seq(Packet)] /\ InHand(c, m, d, message_request, N, p)
      /\ pending' = p /\ pc' = pc
  BY DEF Handed, Handling, Family
<1>2. m \notin Answer /\ m \in Packet
  BY PacketsApart DEF Packet
<1>3. PICK R : R = message_request
  OBVIOUS
<1>4. PICK R2 : R2 = message_request'
  OBVIOUS
<1>5. PICK N2 : N2 = net'
  OBVIOUS
<1>6. R \in [PE -> SUBSET Requests]
  BY <1>1, <1>3 DEF Typed
<1> DEFINE r == [requester |-> m.consumer, requested |-> m.producer, requester_proc |-> m.proc]
           proc == task_location[d][m.producer]
<1>7. r \in Requests /\ m.producer \in Task /\ m.consumer \in Task /\ m.proc \in PE
      /\ r.requester = m.consumer /\ r.requested = m.producer /\ r.requester_proc = m.proc
  BY DEF Ask, Requests
<1>8. Concerns(m, c) <=> m.consumer = c
  BY <1>2, PacketsApart DEF Concerns, RequestList, TaskPart
<1> HIDE DEF r
<1>9. CASE /\ searchTCB(d, m.producer) # 0
           /\ R2 = [R EXCEPT ![d] = @ \cup {r}]
           /\ N2 = N /\ UNCHANGED <<kernel, tcbs, task_location>>
  <2>1. Joins(R2, R, d, {r}) /\ R2 \in [PE -> SUBSET Requests]
    BY <1>6, <1>7, <1>9 DEF Joins
  <2>2. Still(c) /\ Worse
    BY <1>1, <1>9, PagesStill DEF Worse
  <2>3. CASE Concerns(m, c)
    <3>1. Even(c) /\ Only(c, None, R, N, p) /\ Right(c, m, d)
      BY <1>1, <1>2, <1>3, <2>3, EvenInHand
    <3>2. Only(c, KeptAt(d, r), R2, N, p)
      BY <2>1, <3>1, RequestsJoin
    <3>3. Sought(c, m.producer, m.proc)'
      BY <1>7, <2>2, <3>1, StillRight DEF Right
    <3>4. There(c, KeptAt(d, r), R2, N, p)'
      <4>1. r \in R2[d]
        BY <2>1 DEF Joins
      <4>2. QED BY <1>7, <1>8, <2>3, <3>3, <4>1 DEF There
    <3>5. Even(c)'
      BY <2>2, <3>1 DEF Even, Still
    <3>6. QED BY <1>1, <1>4, <1>5, <1>9, <2>2, <3>2, <3>4, <3>5, ErrandsApart, FineWith
  <2>4. CASE ~Concerns(m, c)
    <3>1. Fine(c, R, N, p)
      BY <1>1, <1>3, <2>4 DEF InHand
    <3>2. SameFor(c, R, N, p, R2, N, p)
      BY <1>7, <1>8, <2>1, <2>4, OtherRequestsJoin
    <3>3. QED BY <1>1, <1>4, <1>5, <1>6, <1>9, <2>1, <2>2, <3>1, <3>2, FineStill
  <2>5. QED BY <2>3, <2>4
<1>10. CASE Stopped(d, message_request, N)
  BY <1>2, <1>10, StoppedFine
<1>11. CASE /\ proc \notin {d, NoPE}
            /\ N2 = [N EXCEPT ![<<d, proc>>] = Append(@, m)]
            /\ UNCHANGED kernelVars
  <2>1. proc \in PE /\ d \in Node
    BY <1>1, <1>7, <1>11 DEF Typed, Node
  <2>2. PICK l : l = <<d, proc>>
    OBVIOUS
  <2>3. /\ Family(N2) /\ Extends(N2, N, l, <<m>>) /\ l \in Link
        /\ Contents(<<m>>) = {m} /\ <<m>> \in Seq(Packet)
    BY <1>1, <1>2, <1>11, <2>1, <2>2, GrowsByOne DEF Link, Node
  <2>4. Still(c) /\ Worse /\ R2 = R
    BY <1>1, <1>3, <1>4, <1>11, PagesStill DEF Worse, kernelVars
  <2>5. CASE Concerns(m, c)
    <3>1. Even(c) /\ Only(c, None, R, N, p) /\ Right(c, m, d)
      BY <1>1, <1>2, <1>3, <2>5, EvenInHand
    <3>2. ~Before(<<m>>, m, m)
      BY DEF Before
    <3>3. Only(c, SentOn(l, m), R2, N2, p)
      BY <1>1, <2>3, <2>4, <3>1, <3>2, PacketsSent
    <3>4. There(c, SentOn(l, m), R2, N2, p)'
      <4>1. m \in Contents(N2[l])
        BY <1>1, <2>3, QueueGrown DEF Extends
      <4>2. Right(c, m, l[2])'
        BY <1>2, <2>2, <2>4, <3>1, StillRight DEF Right
      <4>3. QED BY <2>3, <2>5, <4>1, <4>2 DEF There
    <3>5. Even(c)'
      BY <2>4, <3>1 DEF Even, Still
    <3>6. QED BY <1>1, <1>4, <1>5, <2>4, <3>3, <3>4, <3>5, ErrandsApart, FineWith
  <2>6. CASE ~Concerns(m, c)
    <3>1. Fine(c, R, N, p)
      BY <1>1, <1>3, <2>6 DEF InHand
    <3>2. SameFor(c, R, N, p, R, N2, p)
      BY <1>1, <2>3, <2>6, OtherPacketsSent
    <3>3. QED BY <1>1, <1>4, <1>5, <1>6, <2>3, <2>4, <3>1, <3>2, FineStill
  <2>7. QED BY <2>5, <2>6
<1>12. QED BY <1>3, <1>4, <1>5, <1>9, <1>10, <1>11 DEF handle_message_request, r

-----------------------------------------------------------------------------
(* Requests that go with their producer *)

Requested(t, Q) == MIGRATION("MIGRATION_MSG_REQUEST", t, Q)

\* Of the packets that carry a task, one has all requests to it, if there are any.
LEMMA RequestsPacked ==
    ASSUME Typed, NEW t \in Task, NEW d \in PE, NEW to \in PE, NEW Q \in SUBSET Requests,
           NEW q, q = MigrationPackets(d, t, to, Q), NEW m, m = Requested(t, Q)
    PROVE  /\ q \in Seq(Packet) /\ ~Before(q, m, m)
           /\ m \in RequestList /\ m.task = t /\ m.data = Q /\ m \notin Ask \cup Answer
           /\ \A a \in Contents(q) : a = m \/ a \notin RequestList \cup Ask \cup Answer
           /\ Q # {} => m \in Contents(q)
<1>1. q \in Seq(TaskPart)
  BY TaskPackets
<1>2. q \in Seq(Packet)
  BY <1>1 DEF Packet
<1>3. m \in RequestList /\ m.task = t /\ m.data = Q /\ m \notin Ask \cup Answer
      /\ m.service = "MIGRATION_MSG_REQUEST"
  BY PacketsApart DEF Requested, MIGRATION, RequestList, TaskPart
<1> DEFINE a == MIGRATION("MIGRATION_TCB", t, {})
           b == MIGRATION("MIGRATION_TASK_LOCATION", t, LocationsAfter(d, t, to))
           e == MIGRATION("MIGRATION_STACK", t, {})
           f == MIGRATION("MIGRATION_DATA_BSS", t, {})
<1>4. \A z \in {a, b, e, f} : z.service # "MIGRATION_MSG_REQUEST"
  BY DEF MIGRATION
<1>5. q = <<a, b>> \o (IF Q = {} THEN <<>> ELSE <<m>>) \o <<e, f>>
  BY DEF MigrationPackets, Requested
<1>6. \A z \in TaskPart : z \in RequestList \cup Ask \cup Answer => z.service = "MIGRATION_MSG_REQUEST"
  BY PacketsApart DEF RequestList
<1> HIDE DEF a, b, e, f
<1> DEFINE V == {a, b, e, f, m}
<1>7. PICK x : x = <<a, b>>
  OBVIOUS
<1>8. PICK y : y = IF Q = {} THEN <<>> ELSE <<m>>
  OBVIOUS
<1>9. PICK z : z = <<e, f>>
  OBVIOUS
<1>10. x \in Seq(V) /\ y \in Seq(V) /\ z \in Seq(V)
  <2>1. x \in Seq(V)
    BY <1>7
  <2>2. <<m>> \in Seq(V) /\ <<>> \in Seq(V)
    OBVIOUS
  <2>3. y \in Seq(V)
    <3> HIDE DEF V
    <3>1. QED BY <1>8, <2>2
  <2>4. z \in Seq(V)
    BY <1>9
  <2>5. QED BY <2>1, <2>3, <2>4
<1>11. Contents(x) = {a, b} /\ Contents(z) = {e, f}
  <2>1. DOMAIN x = {1, 2} /\ x[1] = a /\ x[2] = b /\ DOMAIN z = {1, 2} /\ z[1] = e /\ z[2] = f
    BY <1>7, <1>9
  <2>2. QED BY <2>1 DEF Contents
<1>12. Contents(y) = (IF Q = {} THEN {} ELSE {m}) /\ ~Before(y, m, m)
  <2>1. y = <<>> \/ (DOMAIN y = {1} /\ y[1] = m)
    BY <1>8
  <2>2. CASE Q = {}
    BY <1>8, <2>2 DEF Contents, Before
  <2>3. CASE Q # {}
    <3>1. DOMAIN y = {1} /\ y[1] = m
      BY <1>8, <2>3
    <3>2. QED BY <2>3, <3>1 DEF Contents, Before
  <2>4. QED BY <2>2, <2>3
<1> HIDE DEF V
<1>13. PICK w : w = x \o y
  OBVIOUS
<1>14. /\ w \in Seq(V) /\ Contents(w) = Contents(x) \cup Contents(y)
       /\ Before(w, m, m) <=> \/ Before(x, m, m) \/ Before(y, m, m)
                              \/ m \in Contents(x) /\ m \in Contents(y)
  BY <1>10, <1>13, Concatenated
<1>15. q = w \o z
  BY <1>5, <1>7, <1>8, <1>9, <1>13
<1>16. /\ Contents(q) = Contents(w) \cup Contents(z)
       /\ Before(q, m, m) <=> \/ Before(w, m, m) \/ Before(z, m, m)
                              \/ m \in Contents(w) /\ m \in Contents(z)
  BY <1>10, <1>14, <1>15, Concatenated
<1>17. m \notin Contents(x) /\ m \notin Contents(z) /\ ~Before(x, m, m) /\ ~Before(z, m, m)
  <2>1. m \notin {a, b, e, f}
    BY <1>3, <1>4
  <2>2. \A s : Before(s, m, m) => m \in Contents(s)
    BY DEF Before, Contents
  <2>3. QED BY <1>11, <2>1, <2>2
<1>18. ~Before(q, m, m)
  BY <1>12, <1>14, <1>16, <1>17
<1>19. ASSUME NEW n \in Contents(q)
       PROVE  n = m \/ n \notin RequestList \cup Ask \cup Answer
  <2>1. n \in {a, b, e, f, m}
    BY <1>11, <1>12, <1>14, <1>16, <1>19
  <2>2. n \in TaskPart
    BY <1>1, <1>19 DEF Contents
  <2>3. QED BY <1>4, <1>6, <2>1, <2>2
<1>20. Q # {} => m \in Contents(q)
  BY <1>12, <1>14, <1>16
<1>21. QED BY <1>2, <1>3, <1>18, <1>19, <1>20

\* The packets of the task go first, then the report.
LEMMA DepartsInTwo ==
    ASSUME Typed, NEW N, Family(N), NEW t \in Task, NEW d \in PE, NEW to \in PE,
           NEW Q \in SUBSET Requests, NEW N2, Departs(N2, N, d, to, t, Q)
    PROVE  /\ <<d, to>> \in Link /\ <<d, Manager>> \in Link
           /\ \E N1 : /\ Family(N1) /\ Extends(N1, N, <<d, to>>, MigrationPackets(d, t, to, Q))
                      /\ Family(N2) /\ Extends(N2, N1, <<d, Manager>>, <<TASK_MIGRATED(t)>>)
           /\ <<TASK_MIGRATED(t)>> \in Seq(Packet)
           /\ \A a \in Contents(<<TASK_MIGRATED(t)>>) : a \notin RequestList \cup Ask \cup Answer
<1>1. /\ <<d, to>> \in Link /\ <<d, Manager>> \in Link /\ <<d, to>> # <<d, Manager>> /\ d \in Node
      /\ N \in [Link -> Seq(Packet)]
  BY MigrationAssumption DEF Link, Node, Family
<1>2. PICK q : q = MigrationPackets(d, t, to, Q)
  OBVIOUS
<1>3. q \in Seq(Packet)
  BY <1>2, RequestsPacked
<1>4. PICK N1 : N1 = [N EXCEPT ![<<d, to>>] = @ \o q]
  OBVIOUS
<1>5. Family(N1) /\ Extends(N1, N, <<d, to>>, q)
  BY <1>1, <1>3, <1>4, Grows
<1>6. PICK r : r = TASK_MIGRATED(t)
  OBVIOUS
<1>7. N2 = [N1 EXCEPT ![<<d, Manager>>] = Append(@, r)]
  BY <1>1, <1>2, <1>4, <1>6 DEF Departs
<1>8. r \in Report
  BY <1>6, PacketFacts
<1>9. /\ Family(N2) /\ Extends(N2, N1, <<d, Manager>>, <<r>>)
      /\ <<r>> \in Seq(Packet) /\ Contents(<<r>>) = {r}
  BY <1>5, <1>7, <1>8, Reports
<1>10. r \notin RequestList \cup Ask \cup Answer
  BY <1>8, PacketsApart DEF TaskPart
<1>11. QED BY <1>1, <1>2, <1>5, <1>6, <1>9, <1>10

\* The departure of t is nothing to a consumer none of whose requests goes with it.
LEMMA OtherDeparture ==
    ASSUME Typed, NEW N, Family(N), NEW p, NEW t \in Task, NEW d \in PE, NEW to \in PE,
           NEW R, NEW Q \in SUBSET Requests, NEW R2, Quits(R2, R, d, Q),
           NEW N2, Departs(N2, N, d, to, t, Q), NEW c, \A r \in Q : r.requester # c
    PROVE  SameFor(c, R, N, p, R2, N2, p)
<1>1. PICK q : q = MigrationPackets(d, t, to, Q)
  OBVIOUS
<1>2. PICK h : h = <<TASK_MIGRATED(t)>>
  OBVIOUS
<1>3. PICK N1 : /\ Family(N1) /\ Extends(N1, N, <<d, to>>, q)
                /\ Family(N2) /\ Extends(N2, N1, <<d, Manager>>, h)
  BY <1>1, <1>2, DepartsInTwo
<1>4. /\ <<d, to>> \in Link /\ <<d, Manager>> \in Link /\ h \in Seq(Packet)
      /\ \A a \in Contents(h) : a \notin RequestList \cup Ask \cup Answer
  BY <1>2, DepartsInTwo
<1>5. PICK m : m = Requested(t, Q)
  OBVIOUS
<1>6. /\ q \in Seq(Packet) /\ m.data = Q /\ m \notin Ask \cup Answer
      /\ \A a \in Contents(q) : a = m \/ a \notin RequestList \cup Ask \cup Answer
  BY <1>1, <1>5, RequestsPacked
<1>7. N \in [Link -> Seq(Packet)] /\ N1 \in [Link -> Seq(Packet)]
  BY <1>3 DEF Family
<1>8. SameFor(c, R, N, p, R2, N, p)
  BY OtherRequestsQuit
<1>9. SameFor(c, R2, N, p, R2, N1, p)
  <2>1. \A a \in Contents(q) : ~Concerns(a, c)
    BY <1>6 DEF Concerns
  <2>2. QED BY <1>3, <1>4, <1>6, <1>7, <2>1, OtherPacketsSent
<1>10. SameFor(c, R2, N1, p, R2, N2, p)
  <2>1. \A a \in Contents(h) : ~Concerns(a, c)
    BY <1>4 DEF Concerns
  <2>2. QED BY <1>3, <1>4, <1>7, <2>1, OtherPacketsSent
<1>11. SameFor(c, R, N, p, R2, N1, p)
  BY <1>8, <1>9, SameTwice
<1>12. QED BY <1>10, <1>11, SameTwice

\* A request that goes with t is then in the packet of the requests.
LEMMA Departure ==
    ASSUME Typed, NEW N, Family(N), NEW p, NEW t \in Task, NEW d \in PE, NEW to \in PE,
           NEW R, NEW Q \in SUBSET Requests, NEW R2, Quits(R2, R, d, Q),
           NEW N2, Departs(N2, N, d, to, t, Q), Q \subseteq R[d],
           NEW c, \E r \in Q : r.requester = c, \E x : Only(c, x, R, N, p)
    PROVE  /\ Only(c, SentOn(<<d, to>>, Requested(t, Q)), R2, N2, p)
           /\ <<d, to>> \in Link /\ Requested(t, Q) \in Contents(N2[<<d, to>>])
           /\ Concerns(Requested(t, Q), c)
<1>1. PICK q : q = MigrationPackets(d, t, to, Q)
  OBVIOUS
<1>2. PICK h : h = <<TASK_MIGRATED(t)>>
  OBVIOUS
<1>3. PICK l : l = <<d, to>>
  OBVIOUS
<1>4. PICK N1 : /\ Family(N1) /\ Extends(N1, N, l, q)
                /\ Family(N2) /\ Extends(N2, N1, <<d, Manager>>, h)
  BY <1>1, <1>2, <1>3, DepartsInTwo
<1>5. /\ l \in Link /\ <<d, Manager>> \in Link /\ h \in Seq(Packet) /\ l # <<d, Manager>>
      /\ \A a \in Contents(h) : a \notin RequestList \cup Ask \cup Answer
  BY <1>2, <1>3, DepartsInTwo, MigrationAssumption
<1>6. PICK m : m = Requested(t, Q)
  OBVIOUS
<1>7. /\ q \in Seq(Packet) /\ ~Before(q, m, m) /\ m \in RequestList /\ m.data = Q
      /\ \A a \in Contents(q) : a = m \/ a \notin RequestList \cup Ask \cup Answer
      /\ m \in Contents(q)
  BY <1>1, <1>6, RequestsPacked
<1>8. N \in [Link -> Seq(Packet)] /\ N1 \in [Link -> Seq(Packet)]
  BY <1>4 DEF Family
<1>9. Only(c, None, R2, N, p)
  <2>1. PICK r \in Q : r.requester = c
    OBVIOUS
  <2>2. PICK x : Only(c, x, R, N, p)
    OBVIOUS
  <2>3. r \in R[d]
    OBVIOUS
  <2>4. QED BY <2>1, <2>2, <2>3, RequestsQuit
<1>10. Only(c, SentOn(l, m), R2, N1, p)
  <2>1. \A a \in Contents(q) : Concerns(a, c) => a = m
    BY <1>7 DEF Concerns
  <2>2. QED BY <1>4, <1>5, <1>7, <1>8, <1>9, <2>1, PacketsSent
<1>11. SameFor(c, R2, N1, p, R2, N2, p)
  <2>1. \A a \in Contents(h) : ~Concerns(a, c)
    BY <1>5 DEF Concerns
  <2>2. QED BY <1>4, <1>5, <1>8, <2>1, OtherPacketsSent
<1>12. Only(c, SentOn(l, m), R2, N2, p)
  BY <1>10, <1>11 DEF Only, SameFor, QueueSame
<1>13. m \in Contents(N2[l])
  <2>1. N[l] \in Seq(Packet) /\ N1[l] = N[l] \o q /\ N2[l] = N1[l]
    BY <1>4, <1>5, <1>8 DEF Extends
  <2>2. m \in Contents(N[l] \o q)
    BY <1>7, <2>1, QueueGrown
  <2>3. QED BY <2>1, <2>2
<1>14. Concerns(m, c)
  BY <1>7 DEF Concerns
<1>15. QED BY <1>3, <1>5, <1>6, <1>12, <1>13, <1>14

\* What a consumer brings into a departure: its errand, or it has just got its message.
Brings(c, R, N, p) ==
    \/ Still(c) /\ Fine(c, R, N, p)
    \/ Only(c, None, R, N, p) /\ Even(c)' /\ ~Waiting(c)'

\* It also brings it into a step that changes nothing.
LEMMA BroughtFine ==
    ASSUME NEW c \in Task, NEW R \in [PE -> SUBSET Requests], NEW N, NEW p, Family(N),
           NEW R2, NEW N2, NEW p2, R2 = message_request', N2 = net', p2 = pending',
           R2 \in [PE -> SUBSET Requests], Family(N2), Worse,
           Brings(c, R, N, p), SameFor(c, R, N, p, R2, N2, p2)
    PROVE  Fine(c, message_request, net, pending)'
<1>1. CASE Still(c) /\ Fine(c, R, N, p)
  BY <1>1, FineStill
<1>2. CASE Only(c, None, R, N, p) /\ Even(c)' /\ ~Waiting(c)'
  <2>1. Only(c, None, R2, N2, p2)
    BY <1>2 DEF Only, SameFor, QueueSame
  <2>2. QED BY <1>2, <2>1, FineWithout
<1>3. QED BY <1>1, <1>2 DEF Brings

\* migrate_dynamic_memory: the requests to the task go along.
LEMMA LeavesFine ==
    ASSUME Typed, Typed', NEW N, NEW p, Family(N), NEW t \in Task, NEW d \in PE, NEW to \in PE,
           NEW i \in Page, NEW T, T[d][i].id = t, NEW R \in [PE -> SUBSET Requests],
           migrate_dynamic_memory(d, i, to, T, R, N), pending' = p,
           NEW c \in Task, Brings(c, R, N, p)
    PROVE  Fine(c, message_request, net, pending)'
<1>1. PICK R2 : R2 = message_request'
  OBVIOUS
<1>2. PICK N2 : N2 = net'
  OBVIOUS
<1>3. R2 \in [PE -> SUBSET Requests] /\ Family(N2)
  BY <1>1, <1>2 DEF Typed, Family
<1>4. PICK Q : Q = RequestsTo(R[d], t)
  OBVIOUS
<1>5. /\ Q \in SUBSET Requests /\ Q \subseteq R[d] /\ \A r \in Q : r.requested = t
      /\ \A r \in R[d] : r.requested = t => r \in Q
  BY <1>4 DEF RequestsTo
<1>6. CASE task_location[d][t] = NoPE
  <2>1. kernel' = [kernel EXCEPT ![d] = "error"] /\ R2 = R /\ N2 = N
    BY <1>1, <1>2, <1>6 DEF migrate_dynamic_memory, KernelError
  <2>2. Worse
    BY <2>1 DEF Typed, Worse
  <2>3. SameFor(c, R, N, p, R2, N2, p)
    BY <2>1 DEF SameFor, QueueSame
  <2>4. QED BY <1>1, <1>2, <1>3, <2>2, <2>3, BroughtFine
<1>7. CASE task_location[d][t] # NoPE
  <2>1. Departs(N2, N, d, to, t, Q) /\ R2 = [R EXCEPT ![d] = @ \ Q] /\ kernel' = kernel
    BY <1>1, <1>2, <1>4, <1>7 DEF migrate_dynamic_memory, Departs
  <2>2. Quits(R2, R, d, Q) /\ Worse
    BY <2>1 DEF Quits, Worse
  <2>3. CASE \A r \in Q : r.requester # c
    <3>1. SameFor(c, R, N, p, R2, N2, p)
      BY <1>5, <2>1, <2>2, <2>3, OtherDeparture
    <3>2. QED BY <1>1, <1>2, <1>3, <2>2, <3>1, BroughtFine
  <2>4. CASE \E r \in Q : r.requester = c
    <3>1. PICK r \in Q : r.requester = c
      BY <2>4
    <3>2. r \in R[d] /\ r.requested = t /\ r \in Requests
      BY <1>5, <3>1
    <3>3. ~Only(c, None, R, N, p)
      BY <3>1, <3>2, NothingElse DEF NoRequest
    <3>4. PICK x : Errand(c, x, R, N, p)
      BY <3>3 DEF Brings, Fine
    <3>5. Still(c)
      BY <3>3 DEF Brings
    <3> DEFINE m == Requested(t, Q)
               l == <<d, to>>
    <3>6. /\ x = KeptAt(d, r) /\ Only(c, SentOn(l, m), R2, N2, p)
          /\ l \in Link /\ m \in Contents(N2[l]) /\ Concerns(m, c)
      <4>1. Only(c, x, R, N, p)
        BY <3>4 DEF Errand
      <4>2. x = KeptAt(d, r)
        BY <3>1, <3>2, <4>1 DEF Only
      <4>3. (\E a \in Q : a.requester = c) /\ \E y : Only(c, y, R, N, p)
        BY <3>1, <4>1
      <4>4. Typed /\ Family(N) /\ Q \in SUBSET Requests /\ Quits(R2, R, d, Q) /\ Departs(N2, N, d, to, t, Q)
            /\ Q \subseteq R[d]
        BY <1>5, <2>1, <2>2
      <4>5. /\ Only(c, SentOn(<<d, to>>, Requested(t, Q)), R2, N2, p)
            /\ <<d, to>> \in Link /\ Requested(t, Q) \in Contents(N2[<<d, to>>])
            /\ Concerns(Requested(t, Q), c)
        BY SMTT(60), <4>3, <4>4, Departure
      <4>6. QED BY <4>2, <4>5
    <3>7. Sought(c, t, r.requester_proc)
      <4>1. There(c, x, R, N, p)
        BY <3>4 DEF Errand
      <4>2. \A a, b : x # None /\ x # SentOn(a, b) /\ x # DeferredAt(a, b)
        BY <3>6, ErrandsApart
      <4>3. PICK e \in PE : \E a \in R[e] : x = KeptAt(e, a) /\ Sought(c, a.requested, a.requester_proc)
        BY <4>1, <4>2 DEF There
      <4>4. PICK a \in R[e] : x = KeptAt(e, a) /\ Sought(c, a.requested, a.requester_proc)
        BY <4>3
      <4>5. a = r
        BY <3>6, <4>4 DEF KeptAt
      <4>6. QED BY <3>2, <4>4, <4>5
    <3>8. Right(c, m, to)'
      <4>1. Sought(c, t, r.requester_proc)'
        BY <3>2, <3>5, <3>7, StillRight DEF Requests
      <4>2. \A a \in Q : a.requester = c => a = r
        <5>1. \A a \in Q : a.requester = c => x = KeptAt(d, a)
          BY <1>5, <3>4 DEF Errand, Only
        <5>2. QED BY <3>6, <5>1 DEF KeptAt
      <4>3. m.data = Q /\ m.task = t /\ m \notin Ask \cup Answer
        BY <1>5, RequestsPacked
      <4>4. QED BY <3>2, <4>1, <4>2, <4>3 DEF Right
    <3>9. There(c, SentOn(l, m), R2, N2, p)'
      <4>1. l[2] = to
        OBVIOUS
      <4>2. Right(c, m, l[2])'
        BY <3>8, <4>1
      <4> HIDE DEF l, m
      <4>3. QED BY <3>6, <4>2 DEF There
    <3>10. Even(c)'
      <4>1. Settled(c, x)
        BY <3>4 DEF Errand
      <4>2. Even(c)
        BY <3>6, <4>1, ErrandsApart DEF Settled, Even
      <4>3. QED BY <3>5, <4>2 DEF Even, Still
    <3>11. QED BY <1>1, <1>2, <3>6, <3>9, <3>10, ErrandsApart, FineWith
  <2>5. QED BY <2>3, <2>4
<1>8. QED BY <1>6, <1>7

-----------------------------------------------------------------------------
(* Tasks that no longer wait *)

\* A page on which nobody waits any more is nothing to those who did not wait on it.
LEMMA WaitEnds ==
    ASSUME NEW d \in PE, NEW i \in Page, NEW y, Becomes(d, i, y), ~y.waiting_msg,
           NEW c, tcbs[d][i].id # c \/ ~tcbs[d][i].waiting_msg, NEW e \in PE
    PROVE  WaitsAt(c, e)' <=> WaitsAt(c, e)
BY DEF Becomes, WaitsAt

\* A task waits on one page; it is one that it may run from.
LEMMA WaitsOnce ==
    ASSUME SoundTCBs, NEW N, NEW p, AllOn(N, p), NEW c \in Task,
           NEW d \in PE, NEW i \in Page, tcbs[d][i].id = c, tcbs[d][i].waiting_msg,
           NEW e \in PE, NEW k \in Page, tcbs[e][k].id = c, tcbs[e][k].waiting_msg
    PROVE  d = e /\ i = k
<1>1. tcbs[d][i].status = "READY" /\ tcbs[e][k].status = "READY"
  BY DEF SoundTCBs, Sound
<1>2. QED BY <1>1, OnePage

\* The one who did waits nowhere then.
LEMMA NoLongerWaits ==
    ASSUME SoundTCBs, NEW N, NEW p, AllOn(N, p),
           NEW d \in PE, NEW i \in Page, NEW y, Becomes(d, i, y), ~y.waiting_msg,
           NEW c \in Task, tcbs[d][i].id = c, tcbs[d][i].waiting_msg
    PROVE  ~Waiting(c)'
<1>1. SUFFICES ASSUME NEW e \in PE, NEW k \in Page, tcbs'[e][k].id = c, tcbs'[e][k].waiting_msg
               PROVE  FALSE
  BY DEF Waiting, WaitsAt
<1>2. (e # d \/ k # i) /\ tcbs[e][k].id = c /\ tcbs[e][k].waiting_msg
  BY <1>1 DEF Becomes
<1>3. QED BY <1>2, WaitsOnce

\* A task that leaves, or whose kernel stops then, is on a page that does not wait.
LEMMA PageLeft ==
    ASSUME Typed, NEW d \in PE, NEW i \in Page, NEW T \in [PE -> [Page -> TCB]], ~T[d][i].waiting_msg,
           \A e \in PE : \A k \in Page : e # d \/ k # i => T[e][k] = tcbs[e][k],
           NEW to, NEW R, NEW N, migrate_dynamic_memory(d, i, to, T, R, N)
    PROVE  \E y : Becomes(d, i, y) /\ ~y.waiting_msg
<1>1. FreeTCB \in TCB /\ ~FreeTCB.waiting_msg
  BY DEF FreeTCB, TCB
<1>2. tcbs' = T \/ tcbs' = [T EXCEPT ![d][i] = FreeTCB]
  BY DEF migrate_dynamic_memory
<1>3. CASE tcbs' = T
  <2>1. Becomes(d, i, T[d][i])
    BY <1>3 DEF Becomes
  <2>2. QED BY <2>1
<1>4. CASE tcbs' = [T EXCEPT ![d][i] = FreeTCB]
  <2>1. Becomes(d, i, FreeTCB)
    BY <1>1, <1>4 DEF Becomes
  <2>2. QED BY <1>1, <2>1
<1>5. QED BY <1>2, <1>3, <1>4

\* A fine errand is fine in tables with the same of c.
LEMMA FineSame ==
    ASSUME NEW c \in Task, NEW R, NEW N, NEW p, Fine(c, R, N, p),
           NEW R2, NEW N2, NEW p2, SameFor(c, R, N, p, R2, N2, p2)
    PROVE  Fine(c, R2, N2, p2)
<1>1. PICK x : Errand(c, x, R, N, p) /\ (NoErrorLoop /\ Waiting(c) => x # None)
  BY DEF Fine
<1>2. Errand(c, x, R2, N2, p2)
  BY <1>1, SameErrand
<1>3. QED BY <1>1, <1>2 DEF Fine

\* TASK_MIGRATION: what leaves with the task is a request of no other than before.
LEMMA OrderFine ==
    ASSUME NEW t \in Task, NEW d \in PE, NEW to \in PE, NEW m, m = TASK_MIGRATION(t, to),
           NEW N, NEW p, Handed(m, d, N, p), Typed',
           handle_task_migration(d, m, N), Handling(p), NEW c \in Task
    PROVE  Still(c) /\ Fine(c, message_request, net, pending)'
<1>1. /\ Typed /\ Family(N) /\ InHand(c, m, d, message_request, N, p) /\ pending' = p /\ pc' = pc
      /\ N \in [Link -> Seq(Packet)]
  BY DEF Handed, Handling, Family
<1>2. m \in Order /\ m \notin Ask \cup Answer \cup RequestList
  BY PacketFacts, PacketsApart DEF TaskPart
<1>3. PICK R : R = message_request
  OBVIOUS
<1>4. R \in [PE -> SUBSET Requests]
  BY <1>1, <1>3 DEF Typed
<1>5. Fine(c, R, N, p)
  BY <1>1, <1>2, <1>3 DEF InHand, Concerns
<1>6. PICK i : i = searchTCB(d, t)
  OBVIOUS
<1>7. PICK M : CodeLeaves(M, N, d, to, t)
  BY DEF CodeLeaves
<1>8. \/ Stopped(d, message_request, N)
      \/ /\ i # 0 /\ tcbs[d][i].waiting_msg
         /\ tcbs' = [tcbs EXCEPT ![d][i].proc_to_migrate = to] /\ net' = M
         /\ kernel' = kernel /\ message_request' = R
      \/ /\ i # 0 /\ ~tcbs[d][i].waiting_msg
         /\ migrate_dynamic_memory(d, i, to, tcbs, R, M)
  BY <1>3, <1>6, <1>7 DEF handle_task_migration, TASK_MIGRATION, CODE, CodeLeaves
<1>9. i # 0 => i \in Page /\ tcbs[d][i].id = t
  BY <1>6, Searched
<1>10. Family(M) /\ Fine(c, R, M, p)
  <2>1. CODE(t) \in Packet /\ CODE(t) \notin RequestList \cup Ask \cup Answer
    BY PacketFacts, PacketsApart DEF Packet, CODE, MIGRATION, RequestList
  <2>2. PICK a : a = CODE(t)
    OBVIOUS
  <2>3. PICK l : l = <<d, to>>
    OBVIOUS
  <2>4. d \in Node /\ M = [N EXCEPT ![<<d, to>>] = Append(@, a)]
    BY <1>7, <2>2 DEF CodeLeaves, Node
  <2>5. Family(M) /\ Extends(M, N, l, <<a>>) /\ Contents(<<a>>) = {a} /\ <<a>> \in Seq(Packet)
    BY <1>1, <2>1, <2>2, <2>3, <2>4, GrowsByOne
  <2>6. l \in Link
    BY <2>3 DEF Link, Node
  <2>7. \A b \in Contents(<<a>>) : ~Concerns(b, c)
    BY <2>1, <2>2, <2>5 DEF Concerns
  <2>8. SameFor(c, R, N, p, R, M, p)
    BY <1>1, <2>5, <2>6, <2>7, OtherPacketsSent
  <2>9. QED BY <1>5, <2>5, <2>8, FineSame
<1>11. CASE Stopped(d, message_request, N)
  BY <1>2, <1>11, StoppedFine
<1>12. CASE /\ i # 0 /\ tcbs[d][i].waiting_msg
            /\ tcbs' = [tcbs EXCEPT ![d][i].proc_to_migrate = to] /\ net' = M
            /\ kernel' = kernel /\ message_request' = R
  <2>1. PICK x : x = [tcbs[d][i] EXCEPT !.proc_to_migrate = to]
    OBVIOUS
  <2>2. x \in TCB /\ x.id = tcbs[d][i].id /\ x.waiting_msg = tcbs[d][i].waiting_msg
    <3>1. tcbs[d][i] \in TCB
      BY <1>1, <1>9, <1>12 DEF Typed
    <3>2. QED BY <2>1, <3>1 DEF TCB
  <2>3. Becomes(d, i, x)
    BY <1>1, <1>9, <1>12, <2>1, <2>2, Written
  <2>4. \A e \in PE : WaitsAt(c, e)' <=> WaitsAt(c, e)
    BY <1>9, <1>12, <2>2, <2>3, WaitsKept
  <2>5. Still(c) /\ Worse
    BY <1>1, <1>12, <2>4, AllStill DEF Worse
  <2>6. SameFor(c, R, M, p, R, M, p)
    BY DEF SameFor, QueueSame
  <2>7. QED BY <1>1, <1>4, <1>10, <1>12, <2>5, <2>6, FineStill
<1>13. CASE i # 0 /\ ~tcbs[d][i].waiting_msg /\ migrate_dynamic_memory(d, i, to, tcbs, R, M)
  <2>1. tcbs \in [PE -> [Page -> TCB]] /\ tcbs[d][i].id = t /\ i \in Page
    BY <1>1, <1>9, <1>13 DEF Typed
  <2>2. PICK y : Becomes(d, i, y) /\ ~y.waiting_msg
    BY <1>1, <1>13, <2>1, PageLeft
  <2>3. \A e \in PE : WaitsAt(c, e)' <=> WaitsAt(c, e)
    BY <1>13, <2>1, <2>2, WaitEnds
  <2>4. Still(c)
    BY <1>1, <2>3, AllStill
  <2>5. Brings(c, R, M, p)
    BY <1>10, <2>4 DEF Brings
  <2>6. QED BY <1>1, <1>4, <1>10, <1>13, <2>1, <2>4, <2>5, LeavesFine
<1>14. QED BY <1>8, <1>11, <1>12, <1>13

-----------------------------------------------------------------------------
(* Requests and orders, at once or deferred *)

\* handle_deferrable, of a request or an order that has been taken.
LEMMA DeferrableFine ==
    ASSUME NEW d \in PE, NEW m, NEW N, NEW p, Handed(m, d, N, p), Typed',
           handle_deferrable(d, m, N), Handling(p), NEW c \in Task,
           m \in Ask \/ \E t \in Task, to \in PE : m = TASK_MIGRATION(t, to)
    PROVE  Still(c) /\ Fine(c, message_request, net, pending)'
<1>1. CASE m \in Ask
  <2>1. m.service # "TASK_MIGRATION"
    BY <1>1 DEF Ask
  <2>2. QED BY <1>1, <2>1, RequestFine DEF handle_deferrable
<1>2. CASE m \notin Ask
  <2>1. PICK t \in Task, to \in PE : m = TASK_MIGRATION(t, to)
    BY <1>2
  <2>2. handle_task_migration(d, m, N)
    BY <2>1 DEF handle_deferrable, TASK_MIGRATION
  <2>3. QED BY <2>1, <2>2, OrderFine
<1>3. QED BY <1>1, <1>2

LEMMA HandleNowFine ==
    ASSUME RInv, NEW s \in Node, NEW d \in PE, HandleNow(s, d), Typed', NEW c \in Task
    PROVE  Still(c) /\ Fine(c, message_request, net, pending)'
<1>1. /\ net[<<s, d>>] # <<>> /\ handle_deferrable(d, HeadPacket(s, d), Popped(s, d))
      /\ Handling(pending) /\ HeadPacket(s, d).service \in {"MESSAGE_REQUEST", "TASK_MIGRATION"}
  BY DEF HandleNow, PacketAt, Deferrable, Handling, mapperVars
<1>2. IInv /\ Typed /\ d \in Node
  BY DEF RInv, IInv, Node
<1>3. PICK m : m = HeadPacket(s, d)
  OBVIOUS
<1>4. PICK N : N = Popped(s, d)
  OBVIOUS
<1>5. m \in Ask \cup Order
  <2>1. m \in Packet
    BY <1>1, <1>2, <1>3, Shrinks
  <2>2. QED BY <1>1, <1>3, <2>1, ByService
<1>6. Taken(N, pending) /\ (m \in Ask \/ \E t \in Task, to \in PE : m = TASK_MIGRATION(t, to))
  <2>1. CASE m \in Ask
    <3>1. \A u \in Task : ~About(u, m)
      BY <2>1, PacketsApart DEF About
    <3>2. QED BY <1>1, <1>2, <1>3, <1>4, <2>1, <3>1, HeadTaken
  <2>2. CASE m \in Order
    BY <1>1, <1>2, <1>3, <1>4, <2>2, OrderArrives
  <2>3. QED BY <1>5, <2>1, <2>2
<1>7. Handed(m, d, N, pending)
  <2>1. \A u \in Task : InHand(u, m, d, message_request, N, pending)
    BY <1>1, <1>2, <1>3, <1>4, PacketInHand
  <2>2. QED BY <1>6, <2>1 DEF Handed, Taken
<1>8. QED BY <1>1, <1>3, <1>4, <1>6, <1>7, DeferrableFine

LEMMA HandlePendingFine ==
    ASSUME RInv, NEW d \in PE, HandlePending(d), Typed', NEW c \in Task
    PROVE  Still(c) /\ Fine(c, message_request, net, pending)'
<1>1. /\ pending[d] # <<>> /\ pending' = [pending EXCEPT ![d] = Tail(@)]
      /\ handle_deferrable(d, Head(pending[d]), net)
      /\ pc' = pc /\ moving' = moving /\ moves' = moves
  BY DEF HandlePending, mapperVars
<1>2. IInv /\ Typed /\ SoundTCBs /\ AllOn(net, pending) /\ Family(net)
      /\ pending \in [PE -> Seq(Ask \cup Order)]
  BY DEF RInv, IInv, Typed, Family
<1>3. PICK p : p = pending'
  OBVIOUS
<1>4. Without(p, d) /\ Handling(p)
  <2>1. PICK S : S = Ask \cup Order
    OBVIOUS
  <2>2. pending \in [PE -> Seq(S)] /\ Tail(pending[d]) \in Seq(S)
    BY <1>1, <1>2, <2>1, WithoutHead
  <2>3. p \in [PE -> Seq(S)] /\ p[d] = Tail(pending[d]) /\ \A e \in PE : e # d => p[e] = pending[e]
    BY <1>1, <1>3, <2>2
  <2>4. QED BY <1>1, <1>3, <2>1, <2>3 DEF Without, Handling
<1>5. PICK m : m = Head(pending[d])
  OBVIOUS
<1>6. m \in Ask \cup Order
  BY <1>1, <1>2, <1>4, <1>5, LessLater
<1>7. Taken(net, p) /\ (m \in Ask \/ \E t \in Task, to \in PE : m = TASK_MIGRATION(t, to))
  <2>1. CASE m \in Ask
    <3>1. AllOn(net, p)
      BY <1>1, <1>2, <1>4, LessLater, OnDeferred DEF AllOn
    <3>2. QED BY <1>2, <1>4, <2>1, <3>1 DEF Taken, Without
  <2>2. CASE m \in Order
    BY <1>1, <1>2, <1>4, <1>5, <2>2, OrderResumes
  <2>3. QED BY <1>6, <2>1, <2>2
<1>8. Handed(m, d, net, p)
  <2>1. \A u \in Task : InHand(u, m, d, message_request, net, p)
    BY <1>1, <1>4, <1>5, ServiceInHand
  <2>2. QED BY <1>7, <2>1 DEF Handed, Taken
<1>9. QED BY <1>1, <1>4, <1>5, <1>7, <1>8, DeferrableFine

\* A request that is deferred is there still.
LEMMA DeferFine ==
    ASSUME RInv, NEW s \in Node, NEW d \in PE, Defer(s, d), Typed', NEW c \in Task
    PROVE  Still(c) /\ Fine(c, message_request, net, pending)'
<1>1. /\ net[<<s, d>>] # <<>> /\ HeadPacket(s, d).service \in {"MESSAGE_REQUEST", "TASK_MIGRATION"}
      /\ pending' = [pending EXCEPT ![d] = Append(@, HeadPacket(s, d))] /\ net' = Popped(s, d)
      /\ kernel' = kernel /\ tcbs' = tcbs /\ message_request' = message_request
      /\ pc' = pc
  BY DEF Defer, PacketAt, Deferrable, kernelVars, mapperVars
<1>2. /\ IInv /\ Typed /\ d \in Node /\ pending \in [PE -> Seq(Ask \cup Order)]
      /\ message_request \in [PE -> SUBSET Requests]
  BY DEF RInv, IInv, Typed, Node
<1>3. PICK m : m = HeadPacket(s, d)
  OBVIOUS
<1>4. PICK N : N = Popped(s, d)
  OBVIOUS
<1>5. PICK p : p = pending'
  OBVIOUS
<1>6. PICK R : R = message_request
  OBVIOUS
<1>7. m \in Ask \cup Order /\ Family(N)
  <2>1. m \in Packet /\ Family(N)
    BY <1>1, <1>2, <1>3, <1>4, Shrinks
  <2>2. QED BY <1>1, <1>3, <2>1, ByService
<1>8. InHand(c, m, d, R, N, pending)
  BY <1>1, <1>2, <1>3, <1>4, <1>6, PacketInHand
<1>9. Still(c) /\ Worse
  BY <1>1, PagesStill DEF Worse
<1>10. Defers(p, pending, d, m)
  BY <1>1, <1>3, <1>5 DEF Defers
<1>11. m \notin Answer
  BY <1>7, PacketsApart
<1>12. CASE Concerns(m, c)
  <2>1. Even(c) /\ Only(c, None, R, N, pending) /\ Right(c, m, d)
    BY <1>8, <1>11, <1>12, <1>6, EvenInHand
  <2>2. Only(c, DeferredAt(d, m), R, N, p)
    BY <1>2, <1>7, <1>10, <2>1, ServiceDeferred
  <2>3. There(c, DeferredAt(d, m), R, N, p)'
    <3>1. m \in Contents(p[d])
      <4>1. /\ p \in [PE -> Seq(Ask \cup Order)] /\ \A e \in PE : e # d => p[e] = pending[e]
            /\ Contents(p[d]) = Contents(pending[d]) \cup {m}
            /\ \A a : Before(p[d], a, a) => Before(pending[d], a, a) \/ (a = m /\ m \in Contents(pending[d]))
        BY <1>2, <1>7, <1>10, LaterLast
      <4>2. QED BY <4>1
    <3>2. Right(c, m, d)'
      BY <1>9, <1>11, <2>1, StillRight
    <3>3. QED BY <1>12, <3>1, <3>2 DEF There
  <2>4. Even(c)'
    BY <1>9, <2>1 DEF Even, Still
  <2>5. QED BY <1>1, <1>4, <1>5, <1>6, <1>9, <2>2, <2>3, <2>4, ErrandsApart, FineWith
<1>13. CASE ~Concerns(m, c)
  <2>1. Fine(c, R, N, pending)
    BY <1>8, <1>13 DEF InHand
  <2>2. SameFor(c, R, N, pending, R, N, p)
    BY <1>2, <1>7, <1>10, <1>13, OtherServiceDeferred
  <2>3. QED BY <1>1, <1>2, <1>4, <1>5, <1>6, <1>7, <1>9, <2>1, <2>2, FineStill
<1>14. QED BY <1>12, <1>13

-----------------------------------------------------------------------------
(* The steps that no consumer notices *)

\* A packet that concerns nobody is taken; no table changes.
LEMMA NothingIn ==
    ASSUME RInv, NEW s \in Node, NEW d \in Node, net[<<s, d>>] # <<>>, net' = Popped(s, d),
           NEW c \in Task, ~Concerns(HeadPacket(s, d), c), Still(c), Worse,
           message_request' = message_request, pending' = pending
    PROVE  Fine(c, message_request, net, pending)'
<1>1. PICK R : R = message_request
  OBVIOUS
<1>2. PICK p : p = pending
  OBVIOUS
<1>3. PICK N : N = Popped(s, d)
  OBVIOUS
<1>4. Fine(c, R, N, p)
  BY <1>1, <1>2, <1>3, PacketInHand DEF InHand
<1>5. Family(N) /\ R \in [PE -> SUBSET Requests]
  BY <1>1, <1>3, Shrinks DEF RInv, IInv, Typed
<1>6. SameFor(c, R, N, p, R, N, p)
  BY DEF SameFor, QueueSame
<1>7. QED BY <1>1, <1>2, <1>3, <1>4, <1>5, <1>6, FineStill

\* Nothing is sent, taken or kept.
LEMMA NothingMoves ==
    ASSUME RInv, NEW c \in Task, Still(c), Worse,
           message_request' = message_request, pending' = pending, net' = net
    PROVE  Fine(c, message_request, net, pending)'
<1>1. PICK R : R = message_request
  OBVIOUS
<1>2. PICK p : p = pending
  OBVIOUS
<1>3. PICK N : N = net
  OBVIOUS
<1>4. Fine(c, R, N, p) /\ Family(N) /\ R \in [PE -> SUBSET Requests]
  BY <1>1, <1>2, <1>3 DEF RInv, IInv, Typed, Family
<1>5. SameFor(c, R, N, p, R, N, p)
  BY DEF SameFor, QueueSame
<1>6. QED BY <1>1, <1>2, <1>3, <1>4, <1>5, FineStill

LEMMA ExitFine ==
    ASSUME RInv, NEW d \in PE, NEW i \in Page, Exit(d, i), NEW c \in Task
    PROVE  Still(c) /\ Fine(c, message_request, net, pending)'
<1>1. Typed /\ SoundTCBs /\ AllOn(net, pending)
  BY DEF RInv, IInv
<1>2. /\ Runs(d, i) /\ tcbs' = [tcbs EXCEPT ![d][i].status = "FREE"]
      /\ kernel' = kernel /\ message_request' = message_request /\ pending' = pending
      /\ net' = net /\ pc' = pc
  BY DEF Exit, mapperVars
<1>3. tcbs[d][i] \in TCB /\ ~tcbs[d][i].waiting_msg
  BY <1>1, <1>2, Running
<1>4. PICK x : x = [tcbs[d][i] EXCEPT !.status = "FREE"]
  OBVIOUS
<1>5. x \in TCB /\ ~x.waiting_msg
  BY <1>3, <1>4 DEF TCB
<1>6. Becomes(d, i, x)
  BY <1>1, <1>2, <1>4, <1>5, Written
<1>7. \A e \in PE : WaitsAt(c, e)' <=> WaitsAt(c, e)
  BY <1>3, <1>5, <1>6, WaitEnds
<1>8. Still(c) /\ Worse
  BY <1>2, <1>7, AllStill DEF Worse
<1>9. QED BY <1>2, <1>8, NothingMoves

\* A page that is free is not one a task waits on.
LEMMA HandleCodeFine ==
    ASSUME RInv, NEW s \in Node, NEW d \in PE, HandleCode(s, d), NEW c \in Task
    PROVE  Still(c) /\ Fine(c, message_request, net, pending)'
<1>1. /\ net[<<s, d>>] # <<>> /\ HeadPacket(s, d).service = "MIGRATION_CODE" /\ net' = Popped(s, d)
      /\ \/ kernel' = [kernel EXCEPT ![d] = "error"] /\ tcbs' = tcbs
         \/ /\ FreePages(d) # {} /\ kernel' = kernel
            /\ handle_migration_code(d, search_free_TCB(d), HeadPacket(s, d).task)
      /\ message_request' = message_request /\ pending' = pending /\ pc' = pc
  BY DEF HandleCode, PacketAt, KernelError, mapperVars
<1>2. IInv /\ Typed /\ SoundTCBs /\ d \in Node
  BY DEF RInv, IInv, Node
<1>3. PICK m : m = HeadPacket(s, d)
  OBVIOUS
<1>4. m \in Packet /\ m.service = "MIGRATION_CODE"
  BY <1>1, <1>2, <1>3, Shrinks
<1>5. ~Concerns(m, c) /\ m.task \in Task
  <2>1. m \notin Ask /\ m \notin Answer /\ m \notin RequestList
    BY <1>4 DEF Ask, Answer, RequestList
  <2>2. QED BY <1>4, <2>1, ByService DEF Concerns
<1>6. Worse
  BY <1>1, <1>2 DEF Worse, Typed
<1>7. Still(c)
  <2>1. CASE tcbs' = tcbs
    BY <1>1, <2>1, PagesStill
  <2>2. CASE /\ FreePages(d) # {}
             /\ handle_migration_code(d, search_free_TCB(d), HeadPacket(s, d).task)
    <3>1. PICK i : i = search_free_TCB(d)
      OBVIOUS
    <3>2. i \in FreePages(d)
      BY <2>2, <3>1, FirstPage DEF search_free_TCB, FreePages
    <3>3. i \in Page /\ tcbs[d][i].status = "FREE" /\ tcbs[d][i] \in TCB
      BY <1>2, <3>2 DEF FreePages, Typed
    <3>4. ~tcbs[d][i].waiting_msg
      BY <1>2, <3>3 DEF SoundTCBs, Sound
    <3>5. PICK x : x = [tcbs[d][i] EXCEPT !.id = m.task, !.status = "MIGRATING", !.parts = {"code"}]
      OBVIOUS
    <3>6. x \in TCB /\ ~x.waiting_msg
      BY <1>5, <3>3, <3>4, <3>5 DEF TCB, Part
    <3>7. Becomes(d, i, x)
      <4>1. tcbs' = [tcbs EXCEPT ![d][i] = x]
        BY <1>3, <2>2, <3>1, <3>5 DEF handle_migration_code
      <4>2. QED BY <1>2, <3>3, <3>6, <4>1, Written
    <3>8. \A e \in PE : WaitsAt(c, e)' <=> WaitsAt(c, e)
      BY <3>3, <3>4, <3>6, <3>7, WaitEnds
    <3>9. QED BY <1>1, <3>8, AllStill
  <2>3. QED BY <1>1, <2>1, <2>2
<1>8. QED BY <1>1, <1>2, <1>3, <1>5, <1>6, <1>7, NothingIn

\* The mapper gives an order: a packet that concerns no consumer.
LEMMA OrderMigrationFine ==
    ASSUME RInv, NEW t \in Task, NEW d \in PE, NEW to \in PE, OrderMigration(t, d, to), NEW c \in Task
    PROVE  Still(c) /\ Fine(c, message_request, net, pending)'
<1>1. PICK m : m = TASK_MIGRATION(t, to)
  OBVIOUS
<1>2. PICK R : R = message_request
  OBVIOUS
<1>3. PICK p : p = pending
  OBVIOUS
<1>4. PICK N : N = net
  OBVIOUS
<1>5. PICK N2 : N2 = net'
  OBVIOUS
<1>6. /\ N2 = [N EXCEPT ![<<Manager, d>>] = Append(@, m)]
      /\ kernel' = kernel /\ tcbs' = tcbs /\ message_request' = R /\ pending' = p /\ pc' = pc
  BY <1>1, <1>2, <1>3, <1>4, <1>5 DEF OrderMigration, kernelVars
<1>7. /\ Family(N) /\ N \in [Link -> Seq(Packet)] /\ Fine(c, R, N, p) /\ R \in [PE -> SUBSET Requests]
      /\ Manager \in Node
  BY <1>2, <1>3, <1>4 DEF RInv, IInv, Typed, Family, Node
<1>8. m \in Packet /\ m \notin Ask \cup Answer \cup RequestList
  BY <1>1, PacketFacts, PacketsApart DEF Packet, TaskPart
<1>9. PICK l : l = <<Manager, d>>
  OBVIOUS
<1>10. /\ Family(N2) /\ Extends(N2, N, l, <<m>>) /\ l \in Link
       /\ Contents(<<m>>) = {m} /\ <<m>> \in Seq(Packet)
  <2>1. l \in Link
    BY <1>7, <1>9 DEF Link, Node
  <2>2. QED BY <1>6, <1>7, <1>8, <1>9, <2>1, GrowsByOne
<1>11. SameFor(c, R, N, p, R, N2, p)
  <2>1. \A a \in Contents(<<m>>) : ~Concerns(a, c)
    BY <1>8, <1>10 DEF Concerns
  <2>2. QED BY <1>7, <1>10, <2>1, OtherPacketsSent
<1>12. Still(c) /\ Worse
  BY <1>6, PagesStill DEF Worse
<1>13. QED BY <1>2, <1>3, <1>5, <1>6, <1>7, <1>10, <1>11, <1>12, FineStill

LEMMA MigrationReportedFine ==
    ASSUME RInv, NEW d \in PE, MigrationReported(d), NEW c \in Task
    PROVE  Still(c) /\ Fine(c, message_request, net, pending)'
<1>1. /\ net[<<d, Manager>>] # <<>> /\ net' = Popped(d, Manager)
      /\ kernel' = kernel /\ tcbs' = tcbs /\ message_request' = message_request
      /\ pending' = pending /\ pc' = pc
  BY DEF MigrationReported, kernelVars
<1>2. Typed /\ Manager \in Node /\ d \in Node
  BY DEF RInv, IInv, Node
<1>3. ~Concerns(HeadPacket(d, Manager), c)
  <2>1. HeadPacket(d, Manager) \in Report
    BY <1>1, <1>2, Shrinks
  <2>2. QED BY <2>1, PacketsApart DEF Concerns, TaskPart
<1>4. Still(c) /\ Worse
  BY <1>1, PagesStill DEF Worse
<1>5. QED BY <1>1, <1>2, <1>3, <1>4, NothingIn

\* The requests that came along with their producer: each is kept again, and that of
\* one consumer is one.
LEMMA RequestsCome ==
    ASSUME RInv, NEW s \in Node, NEW d \in PE, net[<<s, d>>] # <<>>, net' = Popped(s, d),
           NEW m, m = HeadPacket(s, d), m \in RequestList,
           handle_migration_request_msg(d, m.task, m.data),
           kernel' = kernel, tcbs' = tcbs, pending' = pending, pc' = pc, NEW c \in Task
    PROVE  Still(c) /\ Fine(c, message_request, net, pending)'
<1>1. Typed /\ SoundTCBs /\ AllOn(net, pending) /\ d \in Node
  BY DEF RInv, IInv, Node
<1>2. PICK R : R = message_request
  OBVIOUS
<1>3. PICK R2 : R2 = message_request'
  OBVIOUS
<1>4. PICK p : p = pending
  OBVIOUS
<1>5. PICK N : N = Popped(s, d)
  OBVIOUS
<1>6. PICK Q : Q = RequestsTo(m.data, m.task)
  OBVIOUS
<1>7. /\ Q \subseteq m.data /\ m.data \in SUBSET Requests /\ m.task \in Task
      /\ \A r \in m.data : r.requested = m.task => r \in Q
  BY <1>6 DEF RequestsTo, RequestList
<1>8. R \in [PE -> SUBSET Requests] /\ Family(N)
  BY <1>1, <1>2, <1>5, Shrinks DEF Typed
<1>9. Joins(R2, R, d, Q) /\ R2 \in [PE -> SUBSET Requests]
  <2>1. R2 = [R EXCEPT ![d] = @ \cup Q]
    BY <1>2, <1>3, <1>6 DEF handle_migration_request_msg
  <2>2. QED BY <1>7, <1>8, <2>1 DEF Joins
<1>10. Still(c) /\ Worse
  BY PagesStill DEF Worse
<1>11. InHand(c, m, d, R, N, p)
  BY <1>1, <1>2, <1>4, <1>5, PacketInHand
<1>12. m \notin Answer /\ m \notin Ask
  BY PacketsApart DEF TaskPart
<1>13. CASE Concerns(m, c)
  <2>1. Even(c) /\ Only(c, None, R, N, p) /\ Right(c, m, d)
    BY <1>11, <1>12, <1>13, EvenInHand, <1>2
  <2>2. PICK r \in m.data : r.requester = c
    BY <1>12, <1>13 DEF Concerns
  <2>3. \A a \in m.data : a.requester = c => a.requested = m.task /\ Sought(c, a.requested, a.requester_proc)
    BY <2>1 DEF Right
  <2>4. r \in Q /\ r \in Requests
    BY <1>7, <2>2, <2>3
  <2>5. \A a \in Q : a.requester = c => a = r
    <3> SUFFICES ASSUME NEW a \in Q, a.requester = c PROVE a = r
      OBVIOUS
    <3>1. a \in m.data /\ a \in Requests
      BY <1>7
    <3>2. a.requested = r.requested
      BY <2>2, <2>3, <3>1
    <3>3. a.requester_proc = r.requester_proc
      <4>1. PICK e \in PE : e = a.requester_proc
        BY <3>1 DEF Requests
      <4>2. PICK f \in PE : f = r.requester_proc
        BY <2>4 DEF Requests
      <4>3. WaitsAt(c, e) /\ WaitsAt(c, f)
        BY <2>2, <2>3, <3>1, <4>1, <4>2 DEF Sought
      <4>4. e = f
        BY <1>1, <4>3, WaitsOnce DEF WaitsAt
      <4>5. QED BY <4>1, <4>2, <4>4
    <3>4. QED BY <2>2, <2>4, <3>1, <3>2, <3>3 DEF Requests
  <2>6. Only(c, KeptAt(d, r), R2, N, p)
    BY <1>9, <2>1, <2>5, RequestsJoin
  <2>7. There(c, KeptAt(d, r), R2, N, p)'
    <3>1. r \in R2[d]
      BY <1>9, <2>4 DEF Joins
    <3>2. Sought(c, r.requested, r.requester_proc)
      BY <2>2, <2>3
    <3>3. Sought(c, r.requested, r.requester_proc)'
      BY <1>10, <2>4, <3>2, StillRight DEF Requests
    <3>4. QED BY <2>2, <3>1, <3>3 DEF There
  <2>8. Even(c)'
    BY <1>10, <2>1 DEF Even, Still
  <2>9. QED BY <1>3, <1>4, <1>5, <1>10, <2>6, <2>7, <2>8, ErrandsApart, FineWith
<1>14. CASE ~Concerns(m, c)
  <2>1. Fine(c, R, N, p)
    BY <1>11, <1>14 DEF InHand
  <2>2. \A a \in Q : a.requester # c
    BY <1>7, <1>14 DEF Concerns
  <2>3. SameFor(c, R, N, p, R2, N, p)
    BY <1>9, <2>2, OtherRequestsJoin
  <2>4. QED BY <1>3, <1>4, <1>5, <1>8, <1>9, <1>10, <2>1, <2>3, FineStill
<1>15. QED BY <1>13, <1>14

\* A part of a task comes, or stops the kernel.
LEMMA HandlePartFine ==
    ASSUME RInv, NEW s \in Node, NEW d \in PE, HandlePart(s, d), NEW c \in Task
    PROVE  Still(c) /\ Fine(c, message_request, net, pending)'
<1>1. PICK m : m = HeadPacket(s, d)
  OBVIOUS
<1>2. PICK i : i = searchTCB(d, m.task)
  OBVIOUS
<1>3. /\ net[<<s, d>>] # <<>> /\ pending' = pending /\ pc' = pc
      /\ moving' = moving /\ moves' = moves
      /\ m.service \in {"MIGRATION_TCB", "MIGRATION_TASK_LOCATION", "MIGRATION_MSG_REQUEST",
                        "MIGRATION_STACK", "MIGRATION_DATA_BSS"}
      /\ i = 0 => Stopped(d, message_request, Popped(s, d))
      /\ i # 0 =>
           /\ net' = Popped(s, d)
           /\ \/ /\ m.service = "MIGRATION_TCB" /\ handle_migration_TCB(d, i, m.task)
                 /\ message_request' = message_request
              \/ /\ m.service = "MIGRATION_TASK_LOCATION"
                 /\ tcbs' = tcbs /\ message_request' = message_request
              \/ /\ m.service = "MIGRATION_MSG_REQUEST"
                 /\ handle_migration_request_msg(d, m.task, m.data)
                 /\ tcbs' = tcbs
              \/ /\ m.service = "MIGRATION_STACK" /\ handle_migration_stack(d, i)
                 /\ message_request' = message_request
              \/ /\ m.service = "MIGRATION_DATA_BSS" /\ handle_migration_DATA_BSS(d, i)
                 /\ message_request' = message_request
           /\ kernel' = kernel
  BY <1>1, <1>2 DEF HandlePart, PacketAt, mapperVars
<1>4. IInv /\ Typed /\ d \in Node
  BY DEF RInv, IInv, Node
<1>5. Family(Popped(s, d)) /\ m \in Packet
  BY <1>1, <1>3, <1>4, Shrinks
<1>6. m \in TaskPart /\ m \notin Ask \cup Answer
  BY <1>3, <1>5, ByService, PacketsApart
<1>7. PICK t \in Task : m.task = t /\ t \notin RealTime
  <2>1. PICK t \in Task, j \in Journey :
              m.task = t /\ On(t, j, net, pending) /\ (m # CODE(t) => j.phase = "left")
    BY <1>1, <1>3, <1>4, <1>6, PartArrives
  <2>2. m # CODE(t)
    BY <1>3 DEF CODE, MIGRATION
  <2>3. QED BY <2>1, <2>2 DEF On, Under
<1>8. i # 0 => i \in Page
  BY <1>2, <1>7, Searched
<1>9. CASE i = 0
  <2>1. Handed(m, d, Popped(s, d), pending)
    <3>1. \A u \in Task : InHand(u, m, d, message_request, Popped(s, d), pending)
      BY <1>1, <1>3, <1>4, PacketInHand
    <3>2. QED BY <1>4, <1>5, <3>1 DEF Handed
  <2>2. Handling(pending)
    BY <1>3 DEF Handling
  <2>3. QED BY <1>3, <1>6, <1>9, <2>1, <2>2, StoppedFine
<1>10. CASE i # 0 /\ m.service = "MIGRATION_MSG_REQUEST"
  <2>1. m \in RequestList
    BY <1>6, <1>10 DEF TaskPart, Bare, Locations
  <2>2. QED BY <1>1, <1>3, <1>10, <2>1, RequestsCome
<1>11. CASE i # 0 /\ m.service # "MIGRATION_MSG_REQUEST"
  <2>1. ~Concerns(m, c)
    BY <1>6, <1>11 DEF Concerns, RequestList
  <2>2. /\ message_request' = message_request /\ kernel' = kernel /\ net' = Popped(s, d)
        /\ \/ tcbs' = tcbs
           \/ handle_migration_TCB(d, i, t) \/ handle_migration_stack(d, i) \/ handle_migration_DATA_BSS(d, i)
    BY <1>3, <1>7, <1>11
  <2>3. Still(c)
    <3>1. CASE tcbs' = tcbs
      BY <1>3, <3>1, PagesStill
    <3>2. CASE handle_migration_TCB(d, i, t) \/ handle_migration_stack(d, i) \/ handle_migration_DATA_BSS(d, i)
      <4>1. PICK part, x : PartIn(d, i, part, x)
        BY <1>4, <1>7, <1>8, <1>11, <3>2, PartOfTCB
      <4>2. Becomes(d, i, x) /\ x.id = tcbs[d][i].id /\ x.waiting_msg = tcbs[d][i].waiting_msg /\ i \in Page
        BY <1>8, <1>11, <4>1 DEF PartIn
      <4>3. \A e \in PE : WaitsAt(c, e)' <=> WaitsAt(c, e)
        BY <4>2, WaitsKept
      <4>4. QED BY <1>3, <4>3, AllStill
    <3>3. QED BY <2>2, <3>1, <3>2
  <2>4. Worse
    BY <2>2 DEF Worse
  <2>5. QED BY <1>1, <1>3, <1>4, <2>1, <2>2, <2>3, <2>4, NothingIn
<1>12. QED BY <1>9, <1>10, <1>11

-----------------------------------------------------------------------------
(* The steps that one consumer notices *)

\* What the messages from p to c have come to: a more accepted, b more received.
Counted(p, c, a, b) ==
    \A q \in Task : /\ Accepted(q, c)' = Accepted(q, c) + IF q = p THEN a ELSE 0
                    /\ Received(q, c)' = Received(q, c) + IF q = p THEN b ELSE 0

\* c begins to wait for p; a message to it is accepted; one comes; both at once.
Asks(p, c) ==
    /\ CallOf(c) = ReceiveFrom(p) /\ CallOf(c)' = CallOf(c) /\ ~Waiting(c) /\ Waiting(c)'
    /\ Counted(p, c, 0, 0)
Accepts(p, c) ==
    /\ CallOf(c) = ReceiveFrom(p) /\ CallOf(c)' = CallOf(c) /\ Waiting(c) /\ Waiting(c)'
    /\ Accepted(p, c) = Received(p, c) /\ Counted(p, c, 1, 0)
Delivers(p, c) ==
    /\ CallOf(c) = ReceiveFrom(p) /\ Waiting(c) /\ ~Waiting(c)'
    /\ Accepted(p, c) = Received(p, c) + 1 /\ Counted(p, c, 0, 1)
Copies(p, c) ==
    /\ CallOf(c) = ReceiveFrom(p) /\ Waiting(c) /\ ~Waiting(c)'
    /\ Accepted(p, c) = Received(p, c) /\ Counted(p, c, 1, 1)

\* One consumer at most notices a step.
Noticed ==
    \/ \A c \in Task : Still(c)
    \/ \E p \in Task, c \in Task :
          /\ \A u \in Task \ {c} : Still(u)
          /\ Asks(p, c) \/ Accepts(p, c) \/ Delivers(p, c) \/ Copies(p, c)

\* Calls that end are nothing to those they are not of, or to.
LEMMA OthersStill ==
    ASSUME Typed, NEW S \in SUBSET Task, \A u \in S : CallOf(u).op # "end",
           pc' = [u \in Task |-> IF u \in S THEN pc[u] + 1 ELSE pc[u]],
           NEW c \in Task, \A u \in S : CallOf(u) # SendTo(c),
           c \in S => ~Waiting(c) /\ CallOf(c).op = "send",
           \A e \in PE : WaitsAt(c, e)' <=> WaitsAt(c, e)
    PROVE  Still(c)
<1>1. \A p \in Task : Accepted(p, c)' = Accepted(p, c) /\ Received(p, c)' = Received(p, c)
  <2> SUFFICES ASSUME NEW p \in Task
               PROVE  Accepted(p, c)' = Accepted(p, c) /\ Received(p, c)' = Received(p, c)
    OBVIOUS
  <2>1. /\ Accepted(p, c) \in Nat /\ Received(p, c) \in Nat
        /\ Accepted(p, c)' = Accepted(p, c) + IF p \in S /\ CallOf(p) = SendTo(c) THEN 1 ELSE 0
        /\ Received(p, c)' = Received(p, c) + IF c \in S /\ CallOf(c) = ReceiveFrom(p) THEN 1 ELSE 0
    BY CallsEnd
  <2>2. ~(p \in S /\ CallOf(p) = SendTo(c))
    OBVIOUS
  <2>3. ~(c \in S /\ CallOf(c) = ReceiveFrom(p))
    BY DEF ReceiveFrom
  <2>4. QED BY <2>1, <2>2, <2>3
<1>2. Waiting(c) => CallOf(c)' = CallOf(c)
  <2>1. Waiting(c) => pc'[c] = pc[c]
    OBVIOUS
  <2>2. QED BY <2>1 DEF CallOf
<1>3. QED BY <1>1, <1>2 DEF Still

\* The page that ReleaseConsumer leaves does not wait.
LEMMA ReleasedPage ==
    ASSUME Typed, NEW d \in PE, NEW i \in Page, NEW R, NEW N, ReleaseConsumer(d, i, R, N)
    PROVE  \E y : Becomes(d, i, y) /\ ~y.waiting_msg
<1>1. tcbs \in [PE -> [Page -> TCB]] /\ tcbs[d][i] \in TCB
  BY DEF Typed
<1>2. PICK x : x = [tcbs[d][i] EXCEPT !.waiting_msg = FALSE]
  OBVIOUS
<1>3. x \in TCB /\ ~x.waiting_msg
  BY <1>1, <1>2 DEF TCB
<1>4. PICK T : T = TCBReleased(tcbs, d, i)
  OBVIOUS
<1>5. T = [tcbs EXCEPT ![d][i] = x]
  BY <1>2, <1>4 DEF TCBReleased
<1>6. /\ T \in [PE -> [Page -> TCB]] /\ T[d][i] = x
      /\ \A e \in PE : \A k \in Page : e # d \/ k # i => T[e][k] = tcbs[e][k]
  BY <1>1, <1>3, <1>5
<1>7. CASE tcbs' = T
  <2>1. Becomes(d, i, x)
    BY <1>6, <1>7 DEF Becomes
  <2>2. QED BY <1>3, <2>1
<1>8. CASE migrate_dynamic_memory(d, i, tcbs[d][i].proc_to_migrate, T, R, N)
  BY <1>3, <1>6, <1>8, PageLeft
<1>9. QED BY <1>4, <1>7, <1>8 DEF ReleaseConsumer

\* What a consumer brings into ReleaseConsumer, it takes out.
LEMMA ReleaseFine ==
    ASSUME Typed, Typed', NEW N, NEW p, Family(N), NEW t \in Task, NEW d \in PE, NEW i \in Page,
           tcbs[d][i].id = t, NEW R \in [PE -> SUBSET Requests],
           ReleaseConsumer(d, i, R, N), pending' = p, NEW c \in Task, Brings(c, R, N, p)
    PROVE  Fine(c, message_request, net, pending)'
<1>1. CASE tcbs[d][i].proc_to_migrate = NoPE
  <2>1. message_request' = R /\ net' = N /\ kernel' = kernel
    BY <1>1 DEF ReleaseConsumer
  <2>2. SameFor(c, R, N, p, R, N, p) /\ Worse
    BY <2>1 DEF SameFor, QueueSame, Worse
  <2>3. QED BY <2>1, <2>2, BroughtFine
<1>2. CASE tcbs[d][i].proc_to_migrate # NoPE
  <2>1. PICK to : to = tcbs[d][i].proc_to_migrate
    OBVIOUS
  <2>2. tcbs \in [PE -> [Page -> TCB]] /\ tcbs[d][i] \in TCB
    BY DEF Typed
  <2>3. to \in PE
    BY <1>2, <2>1, <2>2 DEF TCB
  <2>4. PICK T : T = TCBReleased(tcbs, d, i)
    OBVIOUS
  <2>5. T[d][i].id = t
    BY <2>2, <2>4 DEF TCBReleased, TCB
  <2>6. migrate_dynamic_memory(d, i, to, T, R, N)
    BY <1>2, <2>1, <2>4 DEF ReleaseConsumer
  <2>7. QED BY <2>3, <2>5, <2>6, LeavesFine
<1>3. QED BY <1>1, <1>2

\* A consumer that waits on d is found there, on a page that waits.
LEMMA FoundWaiting ==
    ASSUME SoundTCBs, NEW N, NEW p, AllOn(N, p), NEW d \in PE, NEW c \in Task, WaitsAt(c, d)
    PROVE  /\ searchTCB(d, c) \in Page /\ tcbs[d][searchTCB(d, c)].id = c
           /\ tcbs[d][searchTCB(d, c)].waiting_msg /\ Waits(d, searchTCB(d, c))
<1>1. PICK k \in Page : tcbs[d][k].id = c /\ tcbs[d][k].waiting_msg
  BY DEF WaitsAt
<1>2. PICK i : i = searchTCB(d, c)
  OBVIOUS
<1>3. IsAt(c, d)
  BY <1>1 DEF IsAt
<1>4. i # 0 /\ i \in Page /\ tcbs[d][i].id = c
  BY <1>2, <1>3, Searched
<1>5. i = k
  BY <1>1, <1>4, OnePage
<1>6. QED BY <1>1, <1>2, <1>4, <1>5 DEF Waits

\* A message comes: its consumer goes on, all others keep their errands.
LEMMA HandleDeliveryFine ==
    ASSUME RInv, NEW s \in Node, NEW d \in PE, HandleDelivery(s, d), Typed'
    PROVE  Noticed /\ \A u \in Task : Fine(u, message_request, net, pending)'
<1>1. PICK m : m = HeadPacket(s, d)
  OBVIOUS
<1>2. PICK c : c = m.consumer
  OBVIOUS
<1>3. PICK p : p = m.producer
  OBVIOUS
<1>4. PICK N : N = Popped(s, d)
  OBVIOUS
<1>5. PICK R : R = message_request
  OBVIOUS
<1>6. PICK P : P = pending
  OBVIOUS
<1>7. PICK i : i = searchTCB(d, c)
  OBVIOUS
<1>8. /\ net[<<s, d>>] # <<>> /\ m.service = "MESSAGE_DELIVERY" /\ pending' = P
      /\ Waits(d, i) => ReleaseConsumer(d, i, R, N) /\ pc' = [pc EXCEPT ![c] = @ + 1]
  BY <1>1, <1>2, <1>4, <1>5, <1>6, <1>7 DEF HandleDelivery, PacketAt
<1>9. /\ IInv /\ Typed /\ SoundTCBs /\ AllOn(net, pending) /\ d \in Node
      /\ R \in [PE -> SUBSET Requests]
  BY <1>5 DEF RInv, IInv, Typed, Node
<1>10. m \in Answer /\ c \in Task /\ p \in Task /\ Family(N)
  <2>1. m \in Packet /\ Family(N)
    BY <1>1, <1>4, <1>8, <1>9, Shrinks
  <2>2. QED BY <1>2, <1>3, <1>8, <2>1, ByService DEF Answer
<1>11. m \notin Ask \cup RequestList
  BY <1>10, PacketsApart DEF TaskPart
<1>12. \A u \in Task : InHand(u, m, d, R, N, P)
  BY <1>1, <1>4, <1>5, <1>6, <1>8, <1>9, PacketInHand
<1>13. \A u \in Task : Concerns(m, u) <=> u = c
  BY <1>2, <1>10, <1>11 DEF Concerns
<1>14. /\ Only(c, None, R, N, P) /\ Coming(c, p, d)
       /\ \A q \in Task : Accepted(q, c) # Received(q, c) => q = p
  <2>1. /\ Only(c, None, R, N, P) /\ Right(c, m, d)
        /\ \A q \in Task : Accepted(q, c) # Received(q, c) => m = MESSAGE_DELIVERY(q, c)
    BY <1>10, <1>12, <1>13 DEF InHand
  <2>2. QED BY <1>3, <1>10, <2>1 DEF Right, MESSAGE_DELIVERY
<1>15. WaitsAt(c, d) /\ Waiting(c) /\ CallOf(c) = ReceiveFrom(p) /\ Accepted(p, c) = Received(p, c) + 1
  BY <1>14 DEF Coming, Waiting
<1>16. i \in Page /\ tcbs[d][i].id = c /\ tcbs[d][i].waiting_msg /\ Waits(d, i)
  BY <1>7, <1>9, <1>10, <1>15, FoundWaiting
<1>17. ReleaseConsumer(d, i, R, N) /\ pc' = [pc EXCEPT ![c] = @ + 1]
  BY <1>8, <1>16
<1>18. PICK y : Becomes(d, i, y) /\ ~y.waiting_msg
  BY <1>9, <1>16, <1>17, ReleasedPage
<1>19. ~Waiting(c)'
  BY <1>9, <1>10, <1>16, <1>18, NoLongerWaits
<1>20. PICK S : S = {c}
  OBVIOUS
<1>21. /\ S \in SUBSET Task /\ \A u \in S : CallOf(u).op # "end" /\ \A v : CallOf(u) # SendTo(v)
       /\ pc' = [u \in Task |-> IF u \in S THEN pc[u] + 1 ELSE pc[u]]
  <2>1. CallOf(c).op # "end" /\ \A v : CallOf(c) # SendTo(v)
    BY <1>15 DEF ReceiveFrom, SendTo
  <2>2. pc \in [Task -> Nat]
    BY <1>9 DEF Typed
  <2>3. QED BY <1>10, <1>17, <1>20, <2>1, <2>2
<1>22. ASSUME NEW u \in Task \ {c} PROVE Still(u)
  <2>1. \A e \in PE : WaitsAt(u, e)' <=> WaitsAt(u, e)
    BY <1>16, <1>18, WaitEnds
  <2>2. u \notin S
    BY <1>20
  <2>3. QED BY <1>9, <1>21, <2>1, <2>2, OthersStill
<1>23. Counted(p, c, 0, 1) /\ Even(c)'
  <2>1. ASSUME NEW q \in Task
        PROVE  /\ Accepted(q, c)' = Accepted(q, c) + IF q = p THEN 0 ELSE 0
               /\ Received(q, c)' = Received(q, c) + IF q = p THEN 1 ELSE 0
               /\ Accepted(q, c)' = Received(q, c)'
    <3>1. /\ Accepted(q, c) \in Nat /\ Received(q, c) \in Nat
          /\ Accepted(q, c)' = Accepted(q, c) + IF q \in S /\ CallOf(q) = SendTo(c) THEN 1 ELSE 0
          /\ Received(q, c)' = Received(q, c) + IF c \in S /\ CallOf(c) = ReceiveFrom(q) THEN 1 ELSE 0
      BY <1>9, <1>10, <1>21, CallsEnd
    <3>2. ~(q \in S /\ CallOf(q) = SendTo(c))
      BY <1>21
    <3>3. c \in S /\ CallOf(c) = ReceiveFrom(q) <=> q = p
      BY <1>15, <1>20 DEF ReceiveFrom
    <3>4. QED BY <1>14, <1>15, <3>1, <3>2, <3>3
  <2>2. QED BY <2>1 DEF Counted, Even
<1>24. Noticed
  BY <1>10, <1>15, <1>19, <1>22, <1>23 DEF Noticed, Delivers
<1>25. ASSUME NEW u \in Task PROVE Fine(u, message_request, net, pending)'
  <2>1. Brings(u, R, N, P)
    <3>1. CASE u = c
      BY <1>14, <1>19, <1>23, <3>1 DEF Brings
    <3>2. CASE u # c
      BY <1>12, <1>13, <1>22, <3>2 DEF Brings, InHand
    <3>3. QED BY <3>1, <3>2
  <2>2. QED BY <1>8, <1>9, <1>10, <1>16, <1>17, <2>1, ReleaseFine
<1>26. QED BY <1>24, <1>25

\* A request in a table is the errand of its consumer, which waits for that producer.
LEMMA KeptFor ==
    ASSUME RInv, NEW d \in PE, NEW r \in message_request[d]
    PROVE  /\ r \in Requests /\ r.requester \in Task /\ r.requested \in Task /\ r.requester_proc \in PE
           /\ Only(r.requester, KeptAt(d, r), message_request, net, pending) /\ Even(r.requester)
           /\ Sought(r.requester, r.requested, r.requester_proc)
<1>1. message_request \in [PE -> SUBSET Requests]
  BY DEF RInv, IInv, Typed
<1>2. r \in Requests /\ r.requester \in Task /\ r.requested \in Task /\ r.requester_proc \in PE
  BY <1>1 DEF Requests
<1>3. PICK c \in Task : c = r.requester
  BY <1>2
<1>4. PICK x : Errand(c, x, message_request, net, pending)
  BY DEF RInv, Fine
<1>5. Only(c, x, message_request, net, pending) /\ x = KeptAt(d, r)
  BY <1>3, <1>4 DEF Errand, Only
<1>6. Even(c)
  BY <1>4, <1>5, ErrandsApart DEF Errand, Settled, Even
<1>7. Sought(c, r.requested, r.requester_proc)
  <2>1. There(c, x, message_request, net, pending)
    BY <1>4 DEF Errand
  <2>2. \A a, b : x # None /\ x # SentOn(a, b) /\ x # DeferredAt(a, b)
    BY <1>5, ErrandsApart
  <2>3. PICK e \in PE : \E a \in message_request[e] :
            x = KeptAt(e, a) /\ Sought(c, a.requested, a.requester_proc)
    BY <2>1, <2>2 DEF There
  <2>4. PICK a \in message_request[e] :
            x = KeptAt(e, a) /\ Sought(c, a.requested, a.requester_proc)
    BY <2>3
  <2>5. a = r
    BY <1>5, <2>4 DEF KeptAt
  <2>6. QED BY <2>4, <2>5
<1>8. QED BY <1>2, <1>3, <1>5, <1>6, <1>7

\* SENDMESSAGE on the PE of the consumer: both go on, and the consumer is here.
LEMMA SendLocalFine ==
    ASSUME RInv, NEW d \in PE, NEW i \in Page, NEW r \in message_request[d], SendLocal(d, i, r), Typed'
    PROVE  Noticed /\ \A u \in Task : Fine(u, message_request, net, pending)'
<1>1. PICK t : t = tcbs[d][i].id
  OBVIOUS
<1>2. PICK c : c = r.requester
  OBVIOUS
<1>3. PICK R : R = message_request
  OBVIOUS
<1>4. PICK R2 : R2 = [R EXCEPT ![d] = @ \ {r}]
  OBVIOUS
<1>5. PICK N : N = net
  OBVIOUS
<1>6. PICK P : P = pending
  OBVIOUS
<1>7. PICK k : k = searchTCB(d, c)
  OBVIOUS
<1>8. /\ IInv /\ Typed /\ SoundTCBs /\ AllOn(net, pending) /\ Family(N)
      /\ R \in [PE -> SUBSET Requests]
  BY <1>3, <1>5 DEF RInv, IInv, Typed, Family
<1>9. /\ Runs(d, i) /\ CallOf(t).op = "send" /\ CallOf(t).peer = c /\ r.requested = t
      /\ r.requester_proc = d /\ pending' = P
      /\ Waits(d, k) => ReleaseConsumer(d, k, R2, N) /\ pc' = [pc EXCEPT ![t] = @ + 1, ![c] = @ + 1]
  BY <1>1, <1>2, <1>3, <1>4, <1>5, <1>6, <1>7 DEF SendLocal, Matching
<1>10. /\ r \in Requests /\ c \in Task /\ t \in Task /\ Only(c, KeptAt(d, r), R, N, P) /\ Even(c)
       /\ Sought(c, t, d)
  BY <1>2, <1>3, <1>5, <1>6, <1>9, KeptFor
<1>11. /\ WaitsAt(c, d) /\ Waiting(c) /\ CallOf(c) = ReceiveFrom(t) /\ CallOf(t) = SendTo(c)
       /\ Accepted(t, c) = Received(t, c)
  BY <1>8, <1>9, <1>10, CallIs DEF Sought, Waiting
<1>12. k \in Page /\ tcbs[d][k].id = c /\ tcbs[d][k].waiting_msg /\ Waits(d, k)
  BY <1>7, <1>8, <1>10, <1>11, FoundWaiting
<1>13. ReleaseConsumer(d, k, R2, N) /\ pc' = [pc EXCEPT ![t] = @ + 1, ![c] = @ + 1]
  BY <1>9, <1>12
<1>14. t # c /\ ~Waiting(t)
  <2>1. \A e \in PE : \A n \in Page : tcbs[e][n].waiting_msg => tcbs[e][n].id # t
    BY <1>1, <1>8, <1>9, Running
  <2>2. QED BY <1>12, <2>1 DEF Waiting, WaitsAt
<1>15. PICK y : Becomes(d, k, y) /\ ~y.waiting_msg
  BY <1>8, <1>12, <1>13, ReleasedPage
<1>16. ~Waiting(c)'
  BY <1>8, <1>10, <1>12, <1>15, NoLongerWaits
<1>17. PICK S : S = {t, c}
  OBVIOUS
<1>18. /\ S \in SUBSET Task /\ \A u \in S : CallOf(u).op # "end" /\ \A v : v # c => CallOf(u) # SendTo(v)
       /\ pc' = [u \in Task |-> IF u \in S THEN pc[u] + 1 ELSE pc[u]]
  <2>1. /\ CallOf(c).op # "end" /\ \A v : CallOf(c) # SendTo(v)
        /\ CallOf(t).op # "end" /\ \A v : v # c => CallOf(t) # SendTo(v)
    BY <1>11 DEF ReceiveFrom, SendTo
  <2>2. pc \in [Task -> Nat]
    BY <1>8 DEF Typed
  <2>3. pc' = [u \in Task |-> IF u \in {t, c} THEN pc[u] + 1 ELSE pc[u]]
    BY <1>10, <1>13, <1>14, <2>2
  <2>4. QED BY <1>10, <1>17, <2>1, <2>3
<1>19. ASSUME NEW u \in Task \ {c} PROVE Still(u)
  <2>1. \A e \in PE : WaitsAt(u, e)' <=> WaitsAt(u, e)
    BY <1>12, <1>15, WaitEnds
  <2>2. u \in S => ~Waiting(u) /\ CallOf(u).op = "send"
    BY <1>9, <1>14, <1>17
  <2>3. QED BY <1>8, <1>18, <2>1, <2>2, OthersStill
<1>20. Counted(t, c, 1, 1) /\ Even(c)'
  <2>1. ASSUME NEW q \in Task
        PROVE  /\ Accepted(q, c)' = Accepted(q, c) + IF q = t THEN 1 ELSE 0
               /\ Received(q, c)' = Received(q, c) + IF q = t THEN 1 ELSE 0
               /\ Accepted(q, c)' = Received(q, c)'
    <3>1. /\ Accepted(q, c) \in Nat /\ Received(q, c) \in Nat
          /\ Accepted(q, c)' = Accepted(q, c) + IF q \in S /\ CallOf(q) = SendTo(c) THEN 1 ELSE 0
          /\ Received(q, c)' = Received(q, c) + IF c \in S /\ CallOf(c) = ReceiveFrom(q) THEN 1 ELSE 0
      BY <1>8, <1>10, <1>18, CallsEnd
    <3>2. q \in S /\ CallOf(q) = SendTo(c) <=> q = t
      BY <1>11, <1>17 DEF ReceiveFrom, SendTo
    <3>3. c \in S /\ CallOf(c) = ReceiveFrom(q) <=> q = t
      BY <1>11, <1>17 DEF ReceiveFrom
    <3>4. Accepted(q, c) = Received(q, c)
      BY <1>10 DEF Even
    <3>5. QED BY <3>1, <3>2, <3>3, <3>4
  <2>2. QED BY <2>1 DEF Counted, Even
<1>21. Noticed
  BY <1>10, <1>11, <1>16, <1>19, <1>20 DEF Noticed, Copies
<1>22. R2 \in [PE -> SUBSET Requests] /\ Quits(R2, R, d, {r})
  BY <1>4, <1>8 DEF Quits
<1>23. ASSUME NEW u \in Task PROVE Fine(u, message_request, net, pending)'
  <2>1. Brings(u, R2, N, P)
    <3>1. CASE u = c
      <4>1. r \in R[d] /\ r \in {r} /\ r.requester = c
        BY <1>2, <1>3
      <4>2. Only(c, None, R2, N, P)
        BY <1>10, <1>22, <4>1, RequestsQuit
      <4>3. QED BY <1>16, <1>20, <3>1, <4>2 DEF Brings
    <3>2. CASE u # c
      <4>1. \A a \in {r} : a.requester # u
        BY <1>2, <3>2
      <4>2. SameFor(u, R, N, P, R2, N, P)
        BY <1>22, <4>1, OtherRequestsQuit
      <4>3. Fine(u, R, N, P)
        BY <1>3, <1>5, <1>6 DEF RInv
      <4>4. Fine(u, R2, N, P)
        BY <4>2, <4>3, FineSame
      <4>5. QED BY <1>19, <3>2, <4>4 DEF Brings
    <3>3. QED BY <3>1, <3>2
  <2>2. QED BY <1>8, <1>9, <1>10, <1>12, <1>13, <1>22, <2>1, ReleaseFine
<1>24. QED BY <1>21, <1>23

\* SENDMESSAGE to another PE: the message is on its way to where the consumer waits.
LEMMA SendRemoteFine ==
    ASSUME RInv, NEW d \in PE, NEW i \in Page, NEW r \in message_request[d], SendRemote(d, i, r), Typed'
    PROVE  Noticed /\ \A u \in Task : Fine(u, message_request, net, pending)'
<1>1. PICK t : t = tcbs[d][i].id
  OBVIOUS
<1>2. PICK c : c = r.requester
  OBVIOUS
<1>3. PICK R : R = message_request
  OBVIOUS
<1>4. PICK R2 : R2 = message_request'
  OBVIOUS
<1>5. PICK N : N = net
  OBVIOUS
<1>6. PICK N2 : N2 = net'
  OBVIOUS
<1>7. PICK P : P = pending
  OBVIOUS
<1>8. PICK m : m = MESSAGE_DELIVERY(t, c)
  OBVIOUS
<1>9. PICK to : to = r.requester_proc
  OBVIOUS
<1>10. /\ IInv /\ Typed /\ SoundTCBs /\ AllOn(net, pending) /\ Family(N)
       /\ R \in [PE -> SUBSET Requests] /\ N \in [Link -> Seq(Packet)] /\ d \in Node
  BY <1>3, <1>5 DEF RInv, IInv, Typed, Family, Node
<1>11. /\ Runs(d, i) /\ CallOf(t).op = "send" /\ CallOf(t).peer = c /\ r.requested = t
       /\ R2 = [R EXCEPT ![d] = @ \ {r}] /\ N2 = [N EXCEPT ![<<d, to>>] = Append(@, m)]
       /\ pc' = [pc EXCEPT ![t] = @ + 1]
       /\ kernel' = kernel /\ tcbs' = tcbs /\ pending' = P
  BY <1>1, <1>2, <1>3, <1>4, <1>5, <1>6, <1>7, <1>8, <1>9 DEF SendRemote, Matching
<1>12. /\ r \in Requests /\ c \in Task /\ t \in Task /\ to \in PE /\ Only(c, KeptAt(d, r), R, N, P)
       /\ Even(c) /\ Sought(c, t, to)
  BY <1>2, <1>3, <1>5, <1>7, <1>9, <1>11, KeptFor
<1>13. /\ WaitsAt(c, to) /\ Waiting(c) /\ CallOf(c) = ReceiveFrom(t) /\ CallOf(t) = SendTo(c)
       /\ Accepted(t, c) = Received(t, c)
  BY <1>10, <1>11, <1>12, CallIs DEF Sought, Waiting
<1>14. t # c /\ ~Waiting(t)
  <2>1. \A e \in PE : \A n \in Page : tcbs[e][n].waiting_msg => tcbs[e][n].id # t
    BY <1>1, <1>10, <1>11, Running
  <2>2. QED BY <1>13, <2>1 DEF Waiting, WaitsAt
<1>15. PICK S : S = {t}
  OBVIOUS
<1>16. /\ S \in SUBSET Task /\ \A u \in S : CallOf(u).op # "end" /\ \A v : v # c => CallOf(u) # SendTo(v)
       /\ pc' = [u \in Task |-> IF u \in S THEN pc[u] + 1 ELSE pc[u]]
  <2>1. CallOf(t).op # "end" /\ \A v : v # c => CallOf(t) # SendTo(v)
    BY <1>13 DEF SendTo
  <2>2. pc \in [Task -> Nat]
    BY <1>10 DEF Typed
  <2>3. QED BY <1>11, <1>12, <1>15, <2>1, <2>2
<1>17. \A u \in Task : \A e \in PE : WaitsAt(u, e)' <=> WaitsAt(u, e)
  BY <1>11 DEF WaitsAt
<1>18. ASSUME NEW u \in Task \ {c} PROVE Still(u)
  <2>1. u \in S => ~Waiting(u) /\ CallOf(u).op = "send"
    BY <1>11, <1>14, <1>15
  <2>2. QED BY <1>10, <1>16, <1>17, <2>1, OthersStill
<1>19. /\ Counted(t, c, 1, 0) /\ CallOf(c)' = CallOf(c) /\ Waiting(c)' /\ Coming(c, t, to)'
       /\ \A q \in Task : q # t => Accepted(q, c)' = Received(q, c)'
  <2>1. ASSUME NEW q \in Task
        PROVE  /\ Accepted(q, c)' = Accepted(q, c) + IF q = t THEN 1 ELSE 0
               /\ Received(q, c)' = Received(q, c) + IF q = t THEN 0 ELSE 0
               /\ Accepted(q, c)' = Received(q, c)' + IF q = t THEN 1 ELSE 0
               /\ Accepted(q, c)' \in Nat /\ Received(q, c)' \in Nat
    <3>1. /\ Accepted(q, c) \in Nat /\ Received(q, c) \in Nat
          /\ Accepted(q, c)' = Accepted(q, c) + IF q \in S /\ CallOf(q) = SendTo(c) THEN 1 ELSE 0
          /\ Received(q, c)' = Received(q, c) + IF c \in S /\ CallOf(c) = ReceiveFrom(q) THEN 1 ELSE 0
      BY <1>10, <1>12, <1>16, CallsEnd
    <3>2. q \in S /\ CallOf(q) = SendTo(c) <=> q = t
      BY <1>13, <1>15
    <3>3. ~(c \in S /\ CallOf(c) = ReceiveFrom(q))
      BY <1>14, <1>15
    <3>4. Accepted(q, c) = Received(q, c)
      BY <1>12 DEF Even
    <3>5. QED BY <3>1, <3>2, <3>3, <3>4
  <2>2. pc'[c] = pc[c]
    BY <1>12, <1>14, <1>15, <1>16
  <2>3. CallOf(c)' = CallOf(c)
    BY <2>2 DEF CallOf
  <2>4. WaitsAt(c, to)' /\ Waiting(c)'
    BY <1>12, <1>13, <1>17 DEF Waiting
  <2>5. Coming(c, t, to)'
    BY <1>12, <1>13, <2>1, <2>3, <2>4 DEF Coming
  <2>6. QED BY <2>1, <2>3, <2>4, <2>5 DEF Counted
<1>20. Noticed
  BY <1>12, <1>13, <1>18, <1>19 DEF Noticed, Accepts
<1>21. R2 \in [PE -> SUBSET Requests] /\ Quits(R2, R, d, {r}) /\ Worse
  BY <1>10, <1>11 DEF Quits, Worse
<1>22. m \in Answer /\ m \in Packet /\ m.consumer = c /\ m.producer = t
  BY <1>8, <1>12 DEF Answer, MESSAGE_DELIVERY, Packet
<1>23. PICK l : l = <<d, to>>
  OBVIOUS
<1>24. /\ Family(N2) /\ Extends(N2, N, l, <<m>>) /\ l \in Link /\ l[2] = to
       /\ Contents(<<m>>) = {m} /\ <<m>> \in Seq(Packet)
  <2>1. l \in Link /\ l[2] = to
    BY <1>10, <1>12, <1>23 DEF Link, Node
  <2>2. Family(N) /\ d \in Node /\ to \in PE /\ m \in Packet /\ N2 = [N EXCEPT ![<<d, to>>] = Append(@, m)]
    BY <1>10, <1>11, <1>12, <1>22
  <2>3. Family(N2) /\ Extends(N2, N, <<d, to>>, <<m>>) /\ Contents(<<m>>) = {m} /\ <<m>> \in Seq(Packet)
    BY <2>2, GrowsByOne
  <2>4. QED BY <1>23, <2>1, <2>3
<1>25. m \notin Ask \cup RequestList
  BY <1>22, PacketsApart DEF TaskPart
<1>26. Fine(c, message_request, net, pending)'
  <2>1. Only(c, None, R2, N, P)
    <3>1. r \in R[d] /\ r \in {r} /\ r.requester = c
      BY <1>2, <1>3
    <3>2. QED BY <1>12, <1>21, <3>1, RequestsQuit
  <2>2. Only(c, SentOn(l, m), R2, N2, P)
    <3>1. ~Before(<<m>>, m, m)
      BY DEF Before
    <3>2. QED BY <1>10, <1>24, <2>1, <3>1, PacketsSent
  <2>3. There(c, SentOn(l, m), R2, N2, P)'
    <3>1. m \in Contents(N2[l])
      BY <1>10, <1>24, QueueGrown DEF Extends
    <3>2. Concerns(m, c)
      BY <1>22 DEF Concerns
    <3>3. Right(c, m, l[2])'
      BY <1>19, <1>22, <1>24, <1>25 DEF Right
    <3>4. QED BY <1>24, <3>1, <3>2, <3>3 DEF There
  <2>4. Settled(c, SentOn(l, m))'
    BY <1>8, <1>19, <1>24 DEF Settled
  <2>5. Errand(c, SentOn(l, m), R2, N2, P)'
    BY <2>2, <2>3, <2>4 DEF Errand, Only
  <2>6. QED BY <1>4, <1>6, <1>11, <1>12, <2>5, ErrandsApart, Concludes
<1>27. ASSUME NEW u \in Task, u # c PROVE Fine(u, message_request, net, pending)'
  <2>1. SameFor(u, R, N, P, R2, N, P)
    <3>1. \A a \in {r} : a.requester # u
      BY <1>2, <1>27
    <3>2. QED BY <1>21, <3>1, OtherRequestsQuit
  <2>2. SameFor(u, R2, N, P, R2, N2, P)
    <3>1. \A a \in Contents(<<m>>) : ~Concerns(a, u)
      BY <1>22, <1>24, <1>25, <1>27 DEF Concerns
    <3>2. QED BY <1>10, <1>24, <3>1, OtherPacketsSent
  <2>3. SameFor(u, R, N, P, R2, N2, P)
    BY <2>1, <2>2, SameTwice
  <2>4. Fine(u, R, N, P)
    BY <1>3, <1>5, <1>7 DEF RInv
  <2>5. QED BY <1>4, <1>6, <1>10, <1>11, <1>18, <1>21, <1>24, <1>27, <2>3, <2>4, FineStill
<1>28. QED BY <1>20, <1>26, <1>27


-----------------------------------------------------------------------------
(* The call that waits *)

\* A task that does not wait has no errand.
LEMMA NoErrand ==
    ASSUME NEW c \in Task, ~Waiting(c), NEW R \in [PE -> SUBSET Requests], NEW N, NEW p,
           Family(N), NEW x, Errand(c, x, R, N, p)
    PROVE  Only(c, None, R, N, p) /\ Even(c)
<1>1. \A q : \A d \in PE : ~Sought(c, q, d) /\ ~Coming(c, q, d)
  BY DEF Sought, Coming, Waiting
<1>2. ASSUME NEW m, NEW d, m \in Answer => d \in PE, Concerns(m, c)
      PROVE  ~Right(c, m, d)
  <2>1. CASE m \in Ask
    BY <1>1, <2>1 DEF Right, Ask
  <2>2. CASE m \in RequestList /\ \E r \in m.data : r.requester = c
    <3>1. PICK r \in m.data : r.requester = c
      BY <2>2
    <3>2. r.requester_proc \in PE
      BY <2>2 DEF RequestList, Requests
    <3>3. QED BY <1>1, <2>2, <3>1, <3>2 DEF Right
  <2>3. CASE m \in Answer
    BY <1>1, <1>2, <2>3 DEF Right
  <2>4. QED BY <1>2, <2>1, <2>2, <2>3 DEF Concerns
<1>3. ASSUME NEW d \in PE, NEW r \in R[d] PROVE ~Sought(c, r.requested, r.requester_proc)
  <2>1. r \in Requests
    OBVIOUS
  <2>2. QED BY <1>1, <2>1 DEF Requests
<1>4. \A d \in PE : \A m : Concerns(m, c) => ~Right(c, m, d)
  BY <1>2
<1>5. \A l \in Link : \A m \in Contents(N[l]) : Concerns(m, c) => ~Right(c, m, l[2])
  BY <1>2, AnswersToPE
<1>6. x = None
  BY <1>3, <1>4, <1>5 DEF Errand, There
<1>7. QED BY <1>6, ErrandsApart DEF Errand, Settled, Even

\* RECVMESSAGE: the request is kept here, or on its way to the producer.
LEMMA ReceiveFine ==
    ASSUME RInv, NEW d \in PE, NEW i \in Page, Receive(d, i)
    PROVE  Noticed /\ \A u \in Task : Fine(u, message_request, net, pending)'
<1>1. /\ IInv /\ Typed /\ SoundTCBs /\ AllOn(net, pending) /\ Family(net)
      /\ message_request \in [PE -> SUBSET Requests] /\ net \in [Link -> Seq(Packet)] /\ d \in Node
  BY DEF RInv, IInv, Typed, Family, Node
<1>2. PICK c : c = tcbs[d][i].id
  OBVIOUS
<1>3. PICK p : p = CallOf(c).peer
  OBVIOUS
<1>4. PICK proc : proc = task_location[d][p]
  OBVIOUS
<1>5. PICK r : r = [requester |-> c, requested |-> p, requester_proc |-> d]
  OBVIOUS
<1>6. PICK m : m = MESSAGE_REQUEST(p, c, d)
  OBVIOUS
<1>7. /\ Runs(d, i) /\ CallOf(c).op = "receive"
      /\ \/ /\ tcbs' = [tcbs EXCEPT ![d][i].status = "BLOCKED"]
            /\ message_request' = message_request /\ net' = net
         \/ /\ tcbs' = [tcbs EXCEPT ![d][i].waiting_msg = TRUE] /\ proc # NoPE
            /\ \/ /\ message_request' = [message_request EXCEPT ![d] = @ \cup {r}]
                  /\ net' = net
               \/ /\ net' = [net EXCEPT ![<<d, proc>>] = Append(@, m)]
                  /\ message_request' = message_request
      /\ kernel' = kernel /\ pending' = pending /\ pc' = pc
  BY <1>2, <1>3, <1>4, <1>5, <1>6 DEF Receive
<1>8. /\ tcbs[d][i] \in TCB /\ c \in Task /\ ~tcbs[d][i].waiting_msg
      /\ \A e \in PE : \A k \in Page : tcbs[e][k].waiting_msg => tcbs[e][k].id # c
  BY <1>1, <1>2, <1>7, Running
<1>9. p \in Task /\ CallOf(c) = ReceiveFrom(p) /\ ~Waiting(c)
  BY <1>1, <1>3, <1>7, <1>8, CallIs DEF Waiting, WaitsAt
<1>10. Worse
  BY <1>7 DEF Worse
<1>11. CASE tcbs' = [tcbs EXCEPT ![d][i].status = "BLOCKED"] /\ message_request' = message_request
            /\ net' = net
  <2>1. PICK y : y = [tcbs[d][i] EXCEPT !.status = "BLOCKED"]
    OBVIOUS
  <2>2. y \in TCB /\ ~y.waiting_msg
    BY <1>8, <2>1 DEF TCB
  <2>3. Becomes(d, i, y)
    <3>1. tcbs' = [tcbs EXCEPT ![d][i] = y]
      BY <1>11, <2>1
    <3>2. QED BY <1>1, <2>2, <3>1, Written
  <2>4. \A u \in Task : Still(u)
    <3>1. \A u \in Task : \A e \in PE : WaitsAt(u, e)' <=> WaitsAt(u, e)
      BY <1>8, <2>2, <2>3, WaitEnds
    <3>2. QED BY <1>7, <3>1, AllStill
  <2>5. QED BY <1>7, <1>10, <1>11, <2>4, NothingMoves DEF Noticed
<1>12. CASE tcbs' = [tcbs EXCEPT ![d][i].waiting_msg = TRUE]
            /\ \/ /\ message_request' = [message_request EXCEPT ![d] = @ \cup {r}]
                  /\ net' = net
               \/ /\ net' = [net EXCEPT ![<<d, proc>>] = Append(@, m)] /\ proc # NoPE
                  /\ message_request' = message_request
  <2>1. PICK y : y = [tcbs[d][i] EXCEPT !.waiting_msg = TRUE]
    OBVIOUS
  <2>2. y \in TCB /\ y.waiting_msg /\ y.id = c
    BY <1>2, <1>8, <2>1 DEF TCB
  <2>3. Becomes(d, i, y)
    <3>1. tcbs' = [tcbs EXCEPT ![d][i] = y]
      BY <1>12, <2>1
    <3>2. QED BY <1>1, <2>2, <3>1, Written
  <2>4. \A u \in Task \ {c} : \A e \in PE : WaitsAt(u, e)' <=> WaitsAt(u, e)
    BY <1>2, <2>2, <2>3 DEF Becomes, WaitsAt
  <2>5. \A u \in Task \ {c} : Still(u)
    BY <1>7, <2>4, AllStill
  <2>6. WaitsAt(c, d)' /\ Waiting(c)'
    BY <2>2, <2>3 DEF Becomes, WaitsAt, Waiting
  <2>7. \A q \in Task : Accepted(q, c)' = Accepted(q, c) /\ Received(q, c)' = Received(q, c)
    BY <1>7 DEF Accepted, Received, CallsMade
  <2>8. CallOf(c)' = CallOf(c)
    BY <1>7 DEF CallOf
  <2>9. Asks(p, c)
    <3>1. \A q \in Task : Accepted(q, c) \in Nat /\ Received(q, c) \in Nat
      BY <1>1, <1>8, CallsCounted DEF Accepted, Received
    <3>2. Counted(p, c, 0, 0)
      BY <2>7, <3>1 DEF Counted
    <3>3. QED BY <1>9, <2>6, <2>8, <3>2 DEF Asks
  <2>10. Noticed
    BY <1>8, <1>9, <2>5, <2>9 DEF Noticed
  <2>11. Only(c, None, message_request, net, pending) /\ Even(c)
    <3>1. PICK x : Errand(c, x, message_request, net, pending)
      BY <1>8 DEF RInv, Fine
    <3>2. QED BY <1>1, <1>8, <1>9, <3>1, NoErrand
  <2>12. Even(c)' /\ Sought(c, p, d)'
    BY <1>9, <2>6, <2>7, <2>8, <2>11 DEF Even, Sought
  <2>13. PICK R2 : R2 = message_request'
    OBVIOUS
  <2>14. PICK N2 : N2 = net'
    OBVIOUS
  <2>15. CASE message_request' = [message_request EXCEPT ![d] = @ \cup {r}] /\ net' = net
    <3>1. Joins(R2, message_request, d, {r}) /\ r.requester = c /\ r.requested = p
          /\ r.requester_proc = d /\ r \in Requests
      BY <1>1, <1>5, <1>8, <1>9, <2>13, <2>15 DEF Joins, Requests
    <3>2. Fine(c, message_request, net, pending)'
      <4>1. Only(c, KeptAt(d, r), R2, net, pending)
        BY <2>11, <3>1, RequestsJoin
      <4>2. There(c, KeptAt(d, r), R2, net, pending)'
        BY <2>12, <3>1 DEF There, Joins
      <4>3. QED BY <1>7, <1>8, <2>12, <2>13, <2>15, <4>1, <4>2, ErrandsApart, FineWith
    <3>3. ASSUME NEW u \in Task, u # c PROVE Fine(u, message_request, net, pending)'
      <4>1. SameFor(u, message_request, net, pending, R2, net, pending)
        BY <3>1, <3>3, OtherRequestsJoin
      <4>2. Fine(u, message_request, net, pending)
        BY DEF RInv
      <4>3. R2 \in [PE -> SUBSET Requests]
        BY <1>1, <2>13, <2>15, <3>1
      <4>4. QED BY <1>1, <1>7, <1>10, <2>5, <2>13, <2>15, <3>3, <4>1, <4>2, <4>3, FineStill
    <3>4. QED BY <2>10, <3>2, <3>3
  <2>16. CASE net' = [net EXCEPT ![<<d, proc>>] = Append(@, m)] /\ proc # NoPE
              /\ message_request' = message_request
    <3>1. m \in Ask /\ m \in Packet /\ m.consumer = c /\ m.producer = p /\ m.proc = d
      BY <1>6, <1>8, <1>9 DEF Ask, MESSAGE_REQUEST, Packet
    <3>2. proc \in PE
      BY <1>1, <1>4, <1>9, <2>16 DEF Typed
    <3>3. PICK l : l = <<d, proc>>
      OBVIOUS
    <3>4. /\ Family(N2) /\ Extends(N2, net, l, <<m>>) /\ l \in Link
          /\ Contents(<<m>>) = {m} /\ <<m>> \in Seq(Packet)
      <4>1. l \in Link
        BY <1>1, <3>2, <3>3 DEF Link, Node
      <4>2. QED BY <1>1, <2>14, <2>16, <3>1, <3>2, <3>3, <4>1, GrowsByOne
    <3>5. m \notin RequestList \cup Answer
      BY <3>1, PacketsApart DEF TaskPart
    <3>6. Fine(c, message_request, net, pending)'
      <4>1. Only(c, SentOn(l, m), message_request, N2, pending)
        <5>1. ~Before(<<m>>, m, m)
          BY DEF Before
        <5>2. QED BY <1>1, <2>11, <3>4, <5>1, PacketsSent
      <4>2. There(c, SentOn(l, m), message_request, N2, pending)'
        <5>1. m \in Contents(N2[l])
          BY <1>1, <3>4, QueueGrown DEF Extends
        <5>2. Concerns(m, c) /\ Right(c, m, l[2])'
          BY <2>12, <3>1, <3>5 DEF Concerns, Right
        <5>3. QED BY <3>4, <5>1, <5>2 DEF There
      <4>3. QED BY <1>7, <1>8, <2>12, <2>14, <2>16, <4>1, <4>2, ErrandsApart, FineWith
    <3>7. ASSUME NEW u \in Task, u # c PROVE Fine(u, message_request, net, pending)'
      <4>1. SameFor(u, message_request, net, pending, message_request, N2, pending)
        <5>1. \A a \in Contents(<<m>>) : ~Concerns(a, u)
          BY <3>1, <3>4, <3>5, <3>7 DEF Concerns
        <5>2. QED BY <1>1, <3>4, <5>1, OtherPacketsSent
      <4>2. Fine(u, message_request, net, pending)
        BY DEF RInv
      <4>3. QED BY <1>1, <1>7, <1>10, <2>5, <2>14, <2>16, <3>4, <3>7, <4>1, <4>2, FineStill
    <3>8. QED BY <2>10, <3>6, <3>7
  <2>17. QED BY <1>12, <2>15, <2>16
<1>13. QED BY <1>7, <1>11, <1>12

-----------------------------------------------------------------------------
(* The invariant *)

\* Every step preserves the errands, and one consumer at most notices it.
LEMMA NextFine ==
    ASSUME \A t \in RealTime : Target[t] = {}, RInv, [Next]_vars
    PROVE  RInv' /\ Noticed
<1>1. IInv' /\ Typed'
  BY NextInv DEF RInv, IInv
<1>2. SUFFICES Noticed /\ \A c \in Task : Fine(c, message_request, net, pending)'
  BY <1>1 DEF RInv
<1>3. SUFFICES \/ Noticed /\ \A c \in Task : Fine(c, message_request, net, pending)'
               \/ \A c \in Task : Still(c) /\ Fine(c, message_request, net, pending)'
  BY DEF Noticed
<1>4. CASE UNCHANGED vars
  <2>1. /\ pc' = pc /\ tcbs' = tcbs /\ kernel' = kernel /\ message_request' = message_request
        /\ pending' = pending /\ net' = net
    BY <1>4 DEF vars, kernelVars
  <2>2. Worse
    BY <2>1 DEF Worse
  <2>3. QED BY <2>1, <2>2, PagesStill, NothingMoves
<1>5. ASSUME NEW d \in PE, NEW i \in Page, TaskStep(d, i)
      PROVE  \/ Noticed /\ \A c \in Task : Fine(c, message_request, net, pending)'
             \/ \A c \in Task : Still(c) /\ Fine(c, message_request, net, pending)'
  <2>1. ASSUME NEW r \in message_request[d], SendLocal(d, i, r)
        PROVE  Noticed /\ \A c \in Task : Fine(c, message_request, net, pending)'
    BY <1>1, <2>1, SendLocalFine
  <2>2. ASSUME NEW r \in message_request[d], SendRemote(d, i, r)
        PROVE  Noticed /\ \A c \in Task : Fine(c, message_request, net, pending)'
    BY <1>1, <2>2, SendRemoteFine
  <2>3. CASE Receive(d, i)
    BY <2>3, ReceiveFine
  <2>4. CASE Exit(d, i)
    BY <2>4, ExitFine
  <2>5. QED BY <1>5, <2>1, <2>2, <2>3, <2>4 DEF TaskStep
<1>6. ASSUME NEW d \in PE, NEW s \in Node, Handle(s, d) \/ Defer(s, d)
      PROVE  \/ Noticed /\ \A c \in Task : Fine(c, message_request, net, pending)'
             \/ \A c \in Task : Still(c) /\ Fine(c, message_request, net, pending)'
  <2>1. CASE HandleNow(s, d)
    BY <1>1, <2>1, HandleNowFine
  <2>2. CASE HandleDelivery(s, d)
    BY <1>1, <2>2, HandleDeliveryFine
  <2>3. CASE HandleCode(s, d)
    BY <2>3, HandleCodeFine
  <2>4. CASE HandlePart(s, d)
    BY <2>4, HandlePartFine
  <2>5. CASE Defer(s, d)
    BY <1>1, <2>5, DeferFine
  <2>6. QED BY <1>6, <2>1, <2>2, <2>3, <2>4, <2>5 DEF Handle
<1>7. ASSUME NEW d \in PE, HandlePending(d)
      PROVE  \A c \in Task : Still(c) /\ Fine(c, message_request, net, pending)'
  BY <1>1, <1>7, HandlePendingFine
<1>8. ASSUME NEW t \in Task, NEW d \in PE, NEW to \in PE, OrderMigration(t, d, to)
      PROVE  \A c \in Task : Still(c) /\ Fine(c, message_request, net, pending)'
  BY <1>8, OrderMigrationFine
<1>9. ASSUME NEW d \in PE, MigrationReported(d)
      PROVE  \A c \in Task : Still(c) /\ Fine(c, message_request, net, pending)'
  BY <1>9, MigrationReportedFine
<1>10. QED BY <1>4, <1>5, <1>6, <1>7, <1>8, <1>9 DEF Next, KernelStep

\* At first no task waits, and no call was made.
LEMMA InitFine ==
    ASSUME Init
    PROVE  /\ RInv
           /\ \A c \in Task : ~Waiting(c)
           /\ \A p \in Task, c \in Task : Accepted(p, c) = 0 /\ Received(p, c) = 0
<1>1. IInv
  BY InitIInv
<1>2. /\ message_request = [d \in PE |-> {}] /\ pending = [d \in PE |-> <<>>]
      /\ net = [l \in Link |-> <<>>] /\ pc = [t \in Task |-> 1]
      /\ \A d \in PE : \A i \in Page : ~tcbs[d][i].waiting_msg
  <2>1. \A d \in PE : \A i \in Page : tcbs[d][i] = FreeTCB \/ \E t : tcbs[d][i] = ReadyTCB(t)
    BY DEF Init
  <2>2. ~FreeTCB.waiting_msg /\ \A t : ~ReadyTCB(t).waiting_msg
    BY DEF FreeTCB, ReadyTCB
  <2>3. QED BY <2>1, <2>2 DEF Init, Link
<1>3. ASSUME NEW c \in Task PROVE ~Waiting(c)
  BY <1>2 DEF Waiting, WaitsAt
<1>4. ASSUME NEW t \in Task, NEW op, NEW peer PROVE CallsMade(t, op, peer) = 0
  <2>1. {k \in 1..(pc[t] - 1) : Program[t][k] = [op |-> op, peer |-> peer]} = {}
    BY <1>2
  <2>2. QED BY <2>1, FS_EmptySet DEF CallsMade
<1>5. \A p \in Task, c \in Task : Accepted(p, c) = 0 /\ Received(p, c) = 0
  BY <1>4 DEF Accepted, Received
<1>6. ASSUME NEW c \in Task PROVE Fine(c, message_request, net, pending)
  <2>1. Only(c, None, message_request, net, pending)
    <3>1. \A d \in PE : Contents(pending[d]) = {}
      BY <1>2 DEF Contents
    <3>2. \A l \in Link : Contents(net[l]) = {}
      BY <1>2 DEF Contents
    <3>3. QED BY <1>2, <3>1, <3>2 DEF Only
  <2>2. Errand(c, None, message_request, net, pending)
    BY <1>5, <2>1 DEF Errand, There, Settled
  <2>3. QED BY <1>3, <2>2 DEF Fine
<1>7. QED BY <1>1, <1>3, <1>5, <1>6 DEF RInv

-----------------------------------------------------------------------------
(* What the tasks see *)

\* The variables of the rendezvous, told of the calls.
LEMMA Views ==
    /\ wants = [c \in Task |-> IF Waiting(c) THEN CallOf(c).peer ELSE NoTask]
    /\ put = [e \in Edge |-> Accepted(e[1], e[2])]
    /\ got = [e \in Edge |-> Received(e[1], e[2])]
<1>1. \A c \in Task : Waiting(c) <=> \E d \in PE, i \in Page : tcbs[d][i].id = c /\ tcbs[d][i].waiting_msg
  BY DEF Waiting, WaitsAt
<1>2. wants = [c \in Task |-> IF Waiting(c) THEN CallOf(c).peer ELSE NoTask]
  BY <1>1 DEF wants
<1>3. QED BY <1>2 DEF put, got, Accepted, Received

\* A task and the one it receives from have an edge.
LEMMA EdgeOfCall ==
    ASSUME Typed, NEW p \in Task, NEW c \in Task, CallOf(c) = ReceiveFrom(p)
    PROVE  <<p, c>> \in Edge
<1>1. pc[c] <= Len(Program[c]) /\ pc[c] \in 1..Len(Program[c]) + 1 /\ Len(Program[c]) \in Nat
  <2>1. CallOf(c).op # "end"
    BY DEF ReceiveFrom
  <2>2. pc[c] <= Len(Program[c])
    BY <2>1, CallIs
  <2>3. pc[c] \in 1..Len(Program[c]) + 1
    BY DEF Typed
  <2>4. Program[c] \in Seq([op : {"send", "receive"}, peer : Task])
    BY MigrationAssumption
  <2>5. QED BY <2>2, <2>3, <2>4
<1>2. pc[c] \in DOMAIN Program[c]
  BY <1>1, MigrationAssumption
<1>3. Program[c][pc[c]] = ReceiveFrom(p)
  BY <1>1 DEF CallOf
<1>4. QED BY <1>2, <1>3 DEF Edge, ReceiveFrom

\* A step that one consumer at most notices is a step of the rendezvous, or none.
LEMMA NoticedStep ==
    ASSUME Typed, Noticed
    PROVE  [Rendezvouses!Next]_(Rendezvouses!vars)
<1>1. /\ wants = [c \in Task |-> IF Waiting(c) THEN CallOf(c).peer ELSE NoTask]
      /\ wants' = [c \in Task |-> IF Waiting(c)' THEN CallOf(c)'.peer ELSE NoTask]
      /\ put = [e \in Edge |-> Accepted(e[1], e[2])]
      /\ put' = [e \in Edge |-> Accepted(e[1], e[2])']
      /\ got = [e \in Edge |-> Received(e[1], e[2])]
      /\ got' = [e \in Edge |-> Received(e[1], e[2])']
  <2>1. \A c \in Task : Waiting(c)' <=> \E d \in PE, i \in Page : tcbs'[d][i].id = c /\ tcbs'[d][i].waiting_msg
    BY DEF Waiting, WaitsAt
  <2>2. wants' = [c \in Task |-> IF Waiting(c)' THEN CallOf(c)'.peer ELSE NoTask]
    BY <2>1 DEF wants
  <2>3. put' = [e \in Edge |-> Accepted(e[1], e[2])'] /\ got' = [e \in Edge |-> Received(e[1], e[2])']
    BY DEF put, got, Accepted, Received, Edge
  <2>4. QED BY <2>2, <2>3, Views
<1>2. \A e \in Edge : e[1] \in Task /\ e[2] \in Task /\ e = <<e[1], e[2]>>
  BY DEF Edge
<1>3. ASSUME NEW u \in Task, Still(u)
      PROVE  /\ wants'[u] = wants[u]
             /\ \A e \in Edge : e[2] = u => put'[e] = put[e] /\ got'[e] = got[e]
  <2>1. Waiting(u)' <=> Waiting(u)
    BY <1>3 DEF Still, Waiting
  <2>2. wants'[u] = wants[u]
    BY <1>1, <1>3, <2>1 DEF Still
  <2>3. QED BY <1>1, <1>2, <1>3, <2>2 DEF Still
<1>4. CASE \A u \in Task : Still(u)
  <2>1. wants' = wants /\ put' = put /\ got' = got
    <3>1. wants' = wants
      BY <1>1, <1>3, <1>4
    <3>2. put' = put
      BY <1>1, <1>2, <1>3, <1>4
    <3>3. got' = got
      BY <1>1, <1>2, <1>3, <1>4
    <3>4. QED BY <3>1, <3>2, <3>3
  <2>2. QED BY <2>1 DEF Rendezvouses!vars
<1>5. ASSUME NEW p \in Task, NEW c \in Task, \A u \in Task \ {c} : Still(u),
             Asks(p, c) \/ Accepts(p, c) \/ Delivers(p, c) \/ Copies(p, c)
      PROVE  Rendezvouses!Next
  <2>1. CallOf(c) = ReceiveFrom(p) /\ CallOf(c).peer = p
    BY <1>5 DEF Asks, Accepts, Delivers, Copies, ReceiveFrom
  <2>2. PICK k : k = <<p, c>>
    OBVIOUS
  <2>3. k \in Edge /\ k[1] = p /\ k[2] = c /\ \A q \in Task : Accepted(q, c) \in Nat /\ Received(q, c) \in Nat
    BY <2>1, <2>2, EdgeOfCall, CallsCounted DEF Accepted, Received
  <2>4. ASSUME NEW a \in {0, 1}, NEW b \in {0, 1}, Counted(p, c, a, b)
        PROVE  /\ put' = [put EXCEPT ![k] = @ + a]
               /\ got' = [got EXCEPT ![k] = @ + b]
               /\ put[k] \in Nat /\ got[k] \in Nat
    <3>1. ASSUME NEW e \in Edge
          PROVE  /\ put'[e] = IF e = k THEN put[k] + a ELSE put[e]
                 /\ got'[e] = IF e = k THEN got[k] + b ELSE got[e]
      <4>1. CASE e[2] # c
        BY <1>2, <1>3, <1>5, <2>3, <4>1
      <4>2. CASE e[2] = c /\ e[1] # p
        BY <1>1, <1>2, <2>3, <2>4, <4>2 DEF Counted
      <4>3. CASE e[2] = c /\ e[1] = p
        BY <1>1, <1>2, <2>2, <2>3, <2>4, <4>3 DEF Counted
      <4>4. QED BY <4>1, <4>2, <4>3
    <3>2. QED BY <1>1, <2>3, <3>1
  <2>5. ASSUME Waiting(c)' => CallOf(c)' = CallOf(c)
        PROVE  wants' = [wants EXCEPT ![c] = IF Waiting(c)' THEN p ELSE NoTask]
    BY <1>1, <1>3, <1>5, <2>1, <2>5
  <2>6. /\ Waiting(c) => wants[c] = p
        /\ ~Waiting(c) => wants[c] = NoTask
        /\ put[k] = Accepted(p, c) /\ got[k] = Received(p, c)
    BY <1>1, <2>1, <2>3
  <2>7. CASE Asks(p, c)
    <3>1. wants[c] = NoTask /\ wants' = [wants EXCEPT ![c] = p]
      BY <2>5, <2>6, <2>7 DEF Asks
    <3>2. put' = put /\ got' = got
      <4>1. put' = [put EXCEPT ![k] = @ + 0] /\ got' = [got EXCEPT ![k] = @ + 0]
            /\ put[k] \in Nat /\ got[k] \in Nat
        BY <2>4, <2>7 DEF Asks
      <4>2. QED BY <1>1, <4>1
    <3>3. Rendezvouses!Ask(p, c)
      BY <3>1, <3>2 DEF Rendezvouses!Ask
    <3>4. QED BY <2>3, <3>3 DEF Rendezvouses!Next
  <2>8. CASE Accepts(p, c)
    <3>1. wants[c] = p /\ wants' = wants /\ put[k] = got[k]
      <4>1. wants' = [wants EXCEPT ![c] = p] /\ wants[c] = p /\ put[k] = got[k]
        BY <2>5, <2>6, <2>8 DEF Accepts
      <4>2. QED BY <1>1, <4>1
    <3>2. put' = [put EXCEPT ![k] = @ + 1] /\ got' = got
      <4>1. put' = [put EXCEPT ![k] = @ + 1] /\ got' = [got EXCEPT ![k] = @ + 0] /\ got[k] \in Nat
        BY <2>4, <2>8 DEF Accepts
      <4>2. QED BY <1>1, <4>1
    <3>3. Rendezvouses!Accept(p, c)
      BY <2>2, <3>1, <3>2 DEF Rendezvouses!Accept
    <3>4. QED BY <2>3, <3>3 DEF Rendezvouses!Next
  <2>9. CASE Delivers(p, c)
    <3>1. wants[c] = p /\ wants' = [wants EXCEPT ![c] = NoTask] /\ put[k] = got[k] + 1
      BY <2>5, <2>6, <2>9 DEF Delivers
    <3>2. put' = put /\ got' = [got EXCEPT ![k] = @ + 1]
      <4>1. put' = [put EXCEPT ![k] = @ + 0] /\ got' = [got EXCEPT ![k] = @ + 1] /\ put[k] \in Nat
        BY <2>4, <2>9 DEF Delivers
      <4>2. QED BY <1>1, <4>1
    <3>3. Rendezvouses!Arrive(p, c)
      BY <2>2, <3>1, <3>2 DEF Rendezvouses!Arrive
    <3>4. QED BY <2>3, <3>3 DEF Rendezvouses!Next
  <2>10. CASE Copies(p, c)
    <3>1. wants[c] = p /\ wants' = [wants EXCEPT ![c] = NoTask] /\ put[k] = got[k]
      BY <2>5, <2>6, <2>10 DEF Copies
    <3>2. put' = [put EXCEPT ![k] = @ + 1] /\ got' = [got EXCEPT ![k] = @ + 1]
      BY <2>4, <2>10 DEF Copies
    <3>3. Rendezvouses!Copy(p, c)
      BY <2>2, <3>1, <3>2 DEF Rendezvouses!Copy
    <3>4. QED BY <2>3, <3>3 DEF Rendezvouses!Next
  <2>11. QED BY <1>5, <2>7, <2>8, <2>9, <2>10
<1>6. QED BY <1>4, <1>5 DEF Noticed

\* A packet that is, or carries, a request of c to p.
Bears(m, p, c) == IsRequest(m, p, c) \/ Carried(m, p, c)

\* A request of c to p is at the place y.
FoundAt(y, p, c) ==
    \/ \E d \in PE : \E r \in message_request[d] :
           y = <<"kept", d>> /\ r.requested = p /\ r.requester = c
    \/ \E d \in PE : \E m \in Contents(pending[d]) : y = <<"deferred", d>> /\ Bears(m, p, c)
    \/ \E l \in Link : \E m \in Contents(net[l]) : y = <<"sent", l>> /\ Bears(m, p, c)

LEMMA QueueHolds ==
    ASSUME NEW P, NEW q \in Seq(P), NEW p, NEW c
    PROVE  InQueue(q, p, c) > 0 <=> \E m \in Contents(q) : Bears(m, p, c)
<1> DEFINE K == {k \in DOMAIN q : IsRequest(q[k], p, c) \/ Carried(q[k], p, c)}
<1>1. IsFiniteSet(K)
  <2>1. Len(q) \in Nat /\ DOMAIN q = 1..Len(q)
    OBVIOUS
  <2>2. IsFiniteSet(DOMAIN q)
    BY <2>1, FS_Interval
  <2>3. K \subseteq DOMAIN q
    OBVIOUS
  <2>4. QED BY <2>2, <2>3, FS_Subset
<1>2. Cardinality(K) \in Nat /\ (Cardinality(K) = 0 <=> K = {})
  BY <1>1, FS_CardinalityType, FS_EmptySet
<1>3. InQueue(q, p, c) = Cardinality(K)
  BY DEF InQueue
<1>4. K # {} <=> \E m \in Contents(q) : Bears(m, p, c)
  BY DEF Contents, Bears
<1> HIDE DEF K
<1>5. QED BY <1>2, <1>3, <1>4

LEMMA PlacesFound ==
    ASSUME Typed, NEW p \in Task, NEW c \in Task
    PROVE  \A y : y \in RequestPlaces(p, c) <=> FoundAt(y, p, c)
<1>1. \A d \in PE : Matching(d, p, c) # {} <=>
          \E r \in message_request[d] : r.requested = p /\ r.requester = c
  BY DEF Matching
<1>2. \A d \in PE : InQueue(pending[d], p, c) > 0 <=>
          \E m \in Contents(pending[d]) : Bears(m, p, c)
  <2>1. \A d \in PE : pending[d] \in Seq(Ask \cup Order)
    BY DEF Typed
  <2>2. QED BY <2>1, QueueHolds
<1>3. \A l \in Link : InQueue(net[l], p, c) > 0 <=> \E m \in Contents(net[l]) : Bears(m, p, c)
  <2>1. \A l \in Link : net[l] \in Seq(Packet)
    BY DEF Typed
  <2>2. QED BY <2>1, QueueHolds
<1>4. \A y : y \in RequestPlaces(p, c) <=>
         \/ \E d \in PE : y = <<"kept", d>> /\ Matching(d, p, c) # {}
         \/ \E d \in PE : y = <<"deferred", d>> /\ InQueue(pending[d], p, c) > 0
         \/ \E l \in Link : y = <<"sent", l>> /\ InQueue(net[l], p, c) > 0
  BY DEF RequestPlaces, Link
<1>5. QED BY <1>1, <1>2, <1>3, <1>4 DEF FoundAt

\* What bears a request concerns its consumer, and is for the one it waits for.
LEMMA RequestConcerns ==
    ASSUME NEW m \in Packet, NEW p \in Task, NEW c \in Task
    PROVE  /\ Bears(m, p, c) => Concerns(m, c) /\ m \notin Answer
           /\ \A d : Concerns(m, c) /\ m \notin Answer /\ Right(c, m, d) =>
                \E q \in Task : \E e \in PE : Sought(c, q, e) /\ (Bears(m, p, c) <=> p = q)
<1>1. m.service = "MESSAGE_REQUEST" <=> m \in Ask
  BY DEF Packet, TaskPart, Bare, Locations, RequestList, Order, Report, Ask, Answer
<1>2. m.service = "MIGRATION_MSG_REQUEST" <=> m \in RequestList
  BY DEF Packet, TaskPart, Bare, Locations, RequestList, Order, Report, Ask, Answer
<1>3. m \in Ask => m \notin RequestList \cup Answer
  BY PacketsApart DEF TaskPart
<1>4. m \in RequestList => m \notin Answer
  BY PacketsApart DEF TaskPart
<1>5. Bears(m, p, c) <=> \/ m \in Ask /\ m.producer = p /\ m.consumer = c
                         \/ m \in RequestList /\ \E r \in m.data : r.requested = p /\ r.requester = c
  BY <1>1, <1>2 DEF Bears, IsRequest, Carried
<1>6. ASSUME NEW d, Concerns(m, c), m \notin Answer, Right(c, m, d)
      PROVE  \E q \in Task : \E e \in PE : Sought(c, q, e) /\ (Bears(m, p, c) <=> p = q)
  <2>1. CASE m \in Ask
    <3>1. Sought(c, m.producer, m.proc) /\ m.producer \in Task /\ m.proc \in PE /\ m.consumer = c
      BY <1>3, <1>6, <2>1 DEF Right, Concerns, Ask
    <3>2. QED BY <1>3, <1>5, <2>1, <3>1
  <2>2. CASE m \in RequestList
    <3>1. PICK r \in m.data : r.requester = c
      BY <1>3, <1>6, <2>2 DEF Concerns
    <3>2. r \in Requests /\ r.requested \in Task /\ r.requester_proc \in PE
      BY <2>2 DEF RequestList, Requests
    <3>3. \A a \in m.data : a.requester = c => a.requested = m.task
      BY <1>6, <2>2 DEF Right
    <3>4. Sought(c, r.requested, r.requester_proc) /\ r.requested = m.task
      BY <1>6, <2>2, <3>1 DEF Right
    <3>5. Bears(m, p, c) <=> p = r.requested
      BY <1>3, <1>5, <2>2, <3>1, <3>3, <3>4
    <3>6. QED BY <3>2, <3>4, <3>5
  <2>3. QED BY <1>6, <2>1, <2>2 DEF Concerns
<1>7. QED BY <1>3, <1>4, <1>5, <1>6 DEF Concerns

\* The errand of a consumer tells where its request is.
LEMMA OneRequest ==
    ASSUME RInv, NoErrorLoop, NEW p \in Task, NEW c \in Task, <<p, c>> \in Edge
    PROVE  Cardinality(RequestPlaces(p, c)) =
               IF wants[c] = p /\ put[<<p, c>>] = got[<<p, c>>] THEN 1 ELSE 0
<1>1. Typed /\ Family(net)
  BY DEF RInv, IInv, Typed, Family
<1>2. PICK x : Errand(c, x, message_request, net, pending) /\ (Waiting(c) => x # None)
  BY DEF RInv, Fine
<1>3. put[<<p, c>>] = Accepted(p, c) /\ got[<<p, c>>] = Received(p, c)
      /\ wants[c] = IF Waiting(c) THEN CallOf(c).peer ELSE NoTask
  BY Views
<1>4. Accepted(p, c) \in Nat /\ Received(p, c) \in Nat /\ p # NoTask
  BY <1>1, CallsCounted, MigrationAssumption DEF Accepted, Received
<1> DEFINE asked == wants[c] = p /\ put[<<p, c>>] = got[<<p, c>>]
<1>5. ASSUME NEW q \in Task, NEW e \in PE, Sought(c, q, e)
      PROVE  asked <=> p = q
  BY <1>3, <1>5 DEF Sought, Waiting, ReceiveFrom
<1>6. ASSUME NEW q \in Task, NEW e \in PE, Coming(c, q, e)
      PROVE  ~asked
  BY <1>3, <1>4, <1>6 DEF Coming, Waiting, ReceiveFrom
<1>7. \A y : y \in RequestPlaces(p, c) <=> FoundAt(y, p, c)
  BY <1>1, PlacesFound
<1>8. Only(c, x, message_request, net, pending) /\ There(c, x, message_request, net, pending)
  BY <1>2 DEF Errand
<1>9. /\ \A d \in PE : \A m \in Contents(pending[d]) : m \in Packet
      /\ \A l \in Link : \A m \in Contents(net[l]) : m \in Packet
  BY <1>1 DEF Typed, Contents, Packet
<1>10. ASSUME NEW y, FoundAt(y, p, c)
       PROVE  \/ \E d \in PE : \E r \in message_request[d] : y = <<"kept", d>> /\ x = KeptAt(d, r)
                    /\ r.requested = p
              \/ \E d \in PE : \E m \in Contents(pending[d]) : y = <<"deferred", d>> /\ x = DeferredAt(d, m)
                    /\ Bears(m, p, c)
              \/ \E l \in Link : \E m \in Contents(net[l]) : y = <<"sent", l>> /\ x = SentOn(l, m)
                    /\ Bears(m, p, c)
  BY <1>8, <1>9, <1>10, RequestConcerns DEF FoundAt, Only
<1>11. ASSUME ~asked, \A y : ~FoundAt(y, p, c)
       PROVE  Cardinality(RequestPlaces(p, c)) = IF asked THEN 1 ELSE 0
  <2>1. RequestPlaces(p, c) = {}
    BY <1>7, <1>11
  <2>2. QED BY <1>11, <2>1, FS_EmptySet
<1>12. ASSUME asked, NEW y, FoundAt(y, p, c), \A z : FoundAt(z, p, c) => z = y
       PROVE  Cardinality(RequestPlaces(p, c)) = IF asked THEN 1 ELSE 0
  <2>1. RequestPlaces(p, c) = {y}
    BY <1>7, <1>12
  <2>2. QED BY <1>12, <2>1, FS_Singleton
<1> HIDE DEF asked
<1>13. ASSUME x = None
       PROVE  Cardinality(RequestPlaces(p, c)) = IF asked THEN 1 ELSE 0
  <2>1. ~asked
    BY <1>2, <1>3, <1>4, <1>13 DEF asked
  <2>2. \A y : ~FoundAt(y, p, c)
    BY <1>10, <1>13, ErrandsApart
  <2>3. QED BY <1>11, <2>1, <2>2
<1>14. ASSUME NEW d \in PE, NEW r \in message_request[d], r.requester = c, x = KeptAt(d, r),
              Sought(c, r.requested, r.requester_proc)
       PROVE  Cardinality(RequestPlaces(p, c)) = IF asked THEN 1 ELSE 0
  <2>1. r.requested \in Task /\ r.requester_proc \in PE
    BY <1>1 DEF Typed, Requests
  <2>2. asked <=> p = r.requested
    BY <1>5, <1>14, <2>1
  <2>3. \A z : FoundAt(z, p, c) => z = <<"kept", d>> /\ r.requested = p
    BY <1>10, <1>14, ErrandsApart
  <2>4. p = r.requested => FoundAt(<<"kept", d>>, p, c)
    BY <1>14 DEF FoundAt
  <2>5. QED BY <1>11, <1>12, <2>2, <2>3, <2>4
<1>15. ASSUME NEW d \in PE, NEW m \in Contents(pending[d]), Concerns(m, c), x = DeferredAt(d, m),
              Right(c, m, d)
       PROVE  Cardinality(RequestPlaces(p, c)) = IF asked THEN 1 ELSE 0
  <2>1. m \in Packet /\ m \notin Answer
    BY <1>1, <1>9, PacketsApart DEF Typed, Contents
  <2>2. PICK q \in Task : \E e \in PE : Sought(c, q, e) /\ (Bears(m, p, c) <=> p = q)
    BY <1>15, <2>1, RequestConcerns
  <2>3. asked <=> Bears(m, p, c)
    BY <1>5, <2>2
  <2>4. \A z : FoundAt(z, p, c) => z = <<"deferred", d>> /\ Bears(m, p, c)
    BY <1>10, <1>15, ErrandsApart
  <2>5. Bears(m, p, c) => FoundAt(<<"deferred", d>>, p, c)
    BY <1>15 DEF FoundAt
  <2>6. QED BY <1>11, <1>12, <2>3, <2>4, <2>5
<1>16. ASSUME NEW l \in Link, NEW m \in Contents(net[l]), Concerns(m, c), x = SentOn(l, m),
              Right(c, m, l[2])
       PROVE  Cardinality(RequestPlaces(p, c)) = IF asked THEN 1 ELSE 0
  <2>1. m \in Packet
    BY <1>9
  <2>2. asked <=> Bears(m, p, c)
    <3>1. CASE m \in Answer
      <4>1. Coming(c, m.producer, l[2]) /\ l[2] \in PE /\ m.producer \in Task
        BY <1>1, <1>16, <3>1, AnswersToPE DEF Right, Answer
      <4>2. QED BY <1>6, <2>1, <3>1, <4>1, RequestConcerns
    <3>2. CASE m \notin Answer
      <4>1. PICK q \in Task : \E e \in PE : Sought(c, q, e) /\ (Bears(m, p, c) <=> p = q)
        BY <1>16, <2>1, <3>2, RequestConcerns
      <4>2. QED BY <1>5, <4>1
    <3>3. QED BY <3>1, <3>2
  <2>3. \A z : FoundAt(z, p, c) => z = <<"sent", l>> /\ Bears(m, p, c)
    BY <1>10, <1>16, ErrandsApart
  <2>4. Bears(m, p, c) => FoundAt(<<"sent", l>>, p, c)
    BY <1>16 DEF FoundAt
  <2>5. QED BY <1>11, <1>12, <2>2, <2>3, <2>4
<1>17. Cardinality(RequestPlaces(p, c)) = IF asked THEN 1 ELSE 0
  <2>1. \/ x = None
        \/ \E d \in PE : \E r \in message_request[d] :
               r.requester = c /\ x = KeptAt(d, r) /\ Sought(c, r.requested, r.requester_proc)
        \/ \E d \in PE : \E m \in Contents(pending[d]) :
               Concerns(m, c) /\ x = DeferredAt(d, m) /\ Right(c, m, d)
        \/ \E l \in Link : \E m \in Contents(net[l]) :
               Concerns(m, c) /\ x = SentOn(l, m) /\ Right(c, m, l[2])
    BY <1>8 DEF There
  <2>2. QED BY <1>13, <1>14, <1>15, <1>16, <2>1
<1>18. QED BY <1>17 DEF asked

\* The same of all consumers.
LEMMA OneRequestIfRInv ==
    ASSUME RInv, NoErrorLoop
    PROVE  RequestInOnePlace
<1> SUFFICES ASSUME NEW e \in Edge
             PROVE  Cardinality(RequestPlaces(e[1], e[2])) =
                        IF wants[e[2]] = e[1] /\ put[e] = got[e] THEN 1 ELSE 0
  BY DEF RequestInOnePlace
<1>1. e[1] \in Task /\ e[2] \in Task /\ e = <<e[1], e[2]>>
  BY DEF Edge
<1>2. QED BY <1>1, OneRequest

-----------------------------------------------------------------------------
(* Where the requests to a task may go *)

\* No task has exited: no PE has forgotten where the tasks are.
NoneExited == \A t \in Task : ~Exited(t)

\* A page of d has p, or its code is coming to d.
Hosts(p, d) == IsAt(p, d) \/ \E s \in PE : CODE(p) \in Contents(net[<<s, d>>])

\* A request to p that comes to d is kept or passed on there, unless its kernel stopped.
Answers(p, d) == kernel[d] = "error" \/ Hosts(p, d) \/ PassesOn(d, p)

\* The packet m to e says that p is at d, or brings a request to p there.
Names(m, e, p, d) ==
    \/ m \in Ask /\ m.producer = p /\ e = d
    \/ m \in Locations /\ m.data[p] = d

\* A request to p comes to d, or may be sent there.
Named(p, d) ==
    \/ \E e \in PE : task_location[e][p] = d
    \/ \E l \in Link : \E m \in Contents(net[l]) : Names(m, l[2], p, d)
    \/ \E e \in PE : \E m \in Contents(pending[e]) : Names(m, e, p, d)

\* Requests come only to PEs that answer them, and are kept where their producer is.
Tracked ==
    /\ \A p \in Task, d \in PE : Named(p, d) => Answers(p, d)
    /\ \A d \in PE : \A r \in message_request[d] : kernel[d] = "error" \/ Hosts(r.requested, d)

TInv == NoneExited => Tracked

\* A step that names no PE but those that were named or now answer, and takes a task from
\* no PE that does not know where it goes.
LEMMA Follow ==
    ASSUME Tracked, Worse,
           \A p \in Task, d \in PE : Hosts(p, d) => Answers(p, d)',
           \A p \in Task, d \in PE : PassesOn(d, p) => PassesOn(d, p)',
           \A e \in PE, p \in Task, d \in PE :
               task_location'[e][p] = d => Named(p, d) \/ Answers(p, d)',
           \A l \in Link : \A m \in Contents(net'[l]) : \A p \in Task, d \in PE :
               Names(m, l[2], p, d) => Named(p, d) \/ Answers(p, d)',
           \A e \in PE : \A m \in Contents(pending'[e]) : \A p \in Task, d \in PE :
               Names(m, e, p, d) => Named(p, d) \/ Answers(p, d)',
           \A d \in PE : \A r \in message_request'[d] :
               kernel'[d] = "error" \/ Hosts(r.requested, d)'
    PROVE  Tracked'
<1>1. ASSUME NEW p \in Task, NEW d \in PE, Named(p, d)' PROVE Answers(p, d)'
  <2>1. Named(p, d) \/ Answers(p, d)'
    BY <1>1 DEF Named, Names
  <2>2. CASE Named(p, d)
    <3>1. Answers(p, d)
      BY <2>2 DEF Tracked
    <3>2. kernel[d] = "error" => kernel'[d] = "error"
      BY DEF Worse
    <3>3. QED BY <3>1, <3>2 DEF Answers
  <2>3. QED BY <2>1, <2>2
<1>2. QED BY <1>1 DEF Tracked

\* The packet brings no request to a PE, and no location, that was not named before.
Tells(m, e) == \A p \in Task, d \in PE : Names(m, e, p, d) => Named(p, d)

\* A step after which every task is where it was.
LEMMA Settles ==
    ASSUME Typed, Tracked, Worse,
           \A p \in Task, d \in PE : Hosts(p, d) => kernel'[d] = "error" \/ Hosts(p, d)',
           task_location' = task_location,
           \A l \in Link : \A m \in Contents(net'[l]) : m \in Contents(net[l]) \/ Tells(m, l[2]),
           \A e \in PE : \A m \in Contents(pending'[e]) : m \in Contents(pending[e]) \/ Tells(m, e),
           \A d \in PE : \A r \in message_request'[d] :
               r \in message_request[d] \/ Hosts(r.requested, d)'
    PROVE  Tracked'
<1>1. \A p \in Task, d \in PE : Hosts(p, d) => Answers(p, d)'
  BY DEF Answers
<1>2. \A p \in Task, d \in PE : PassesOn(d, p) => PassesOn(d, p)'
  BY DEF PassesOn
<1>3. \A e \in PE, p \in Task, d \in PE : task_location'[e][p] = d => Named(p, d)
  BY DEF Named
<1>4. \A l \in Link : \A m \in Contents(net'[l]) : \A p \in Task, d \in PE :
          Names(m, l[2], p, d) => Named(p, d)
  BY DEF Named, Tells
<1>5. \A e \in PE : \A m \in Contents(pending'[e]) : \A p \in Task, d \in PE :
          Names(m, e, p, d) => Named(p, d)
  BY DEF Named, Tells
<1>6. ASSUME NEW d \in PE, NEW r \in message_request'[d]
      PROVE  kernel'[d] = "error" \/ Hosts(r.requested, d)'
  <2>1. CASE r \in message_request[d]
    <3>1. r.requested \in Task
      BY <2>1 DEF Typed, Requests
    <3>2. kernel[d] = "error" \/ Hosts(r.requested, d)
      BY <2>1 DEF Tracked
    <3>3. QED BY <3>1, <3>2 DEF Worse
  <2>2. QED BY <1>6, <2>1
<1>7. QED BY <1>1, <1>2, <1>3, <1>4, <1>5, <1>6, Follow

\* Only requests and locations name a PE.
LEMMA NamesNone ==
    ASSUME NEW m \in Packet, m \notin Ask, m \notin Locations, NEW e
    PROVE  Tells(m, e) /\ \A p \in Task, d \in PE : ~Names(m, e, p, d)
BY DEF Tells, Names

\* The packets that have the code of a task, and those that name none.
LEMMA CodeNamesNone ==
    ASSUME NEW t \in Task
    PROVE  CODE(t) \notin Ask /\ CODE(t) \notin Locations /\ CODE(t) \in Packet
<1>1. CODE(t).service = "MIGRATION_CODE"
  BY DEF CODE, MIGRATION
<1>2. CODE(t) \in Packet
  BY PacketFacts DEF Packet
<1>3. QED BY <1>1, <1>2 DEF Ask, Locations

\* Where no page loses its id and no code is taken, each task is where it was.
LEMMA HostsStay ==
    ASSUME \A p \in Task, d \in PE : IsAt(p, d) => IsAt(p, d)',
           \A l \in Link : \A t \in Task : CODE(t) \in Contents(net[l]) => CODE(t) \in Contents(net'[l])
    PROVE  \A p \in Task, d \in PE : Hosts(p, d) => Hosts(p, d)'
<1>1. \A s \in PE, d \in PE : <<s, d>> \in Link
  BY DEF Link, Node
<1>2. QED BY <1>1 DEF Hosts

LEMMA IdsStay ==
    ASSUME \A e \in PE : \A k \in Page : tcbs'[e][k].id = tcbs[e][k].id
    PROVE  \A p \in Task, d \in PE : IsAt(p, d) <=> IsAt(p, d)'
BY DEF IsAt

LEMMA IdStays ==
    ASSUME NEW d \in PE, NEW i \in Page, NEW x, Becomes(d, i, x), x.id = tcbs[d][i].id
    PROVE  \A p \in Task, e \in PE : IsAt(p, e) <=> IsAt(p, e)'
<1>1. \A e \in PE : \A k \in Page : tcbs'[e][k].id = tcbs[e][k].id
  BY DEF Becomes
<1>2. QED BY <1>1, IdsStay

\* N is the network, perhaps without packets that are no code.
Thins(N) ==
    /\ Family(N)
    /\ \A l \in Link : \A a \in Contents(N[l]) : a \in Contents(net[l])
    /\ \A l \in Link : \A t \in Task : CODE(t) \in Contents(net[l]) => CODE(t) \in Contents(N[l])

LEMMA SameThins == ASSUME Typed PROVE Thins(net)
BY DEF Thins, Typed, Family

\* N is the network without the packet m from s to d.
LEMMA TakenOut ==
    ASSUME Typed, NEW s \in Node, NEW d \in Node, net[<<s, d>>] # <<>>,
           NEW N, N = Popped(s, d), NEW m, m = HeadPacket(s, d)
    PROVE  /\ Family(N) /\ m \in Packet /\ <<s, d>> \in Link /\ m \in Contents(net[<<s, d>>])
           /\ \A l \in Link : \A a \in Contents(N[l]) : a \in Contents(net[l])
           /\ \A l \in Link : \A a \in Contents(net[l]) :
                  a \in Contents(N[l]) \/ (a = m /\ l = <<s, d>>)
           /\ (\A t \in Task : m # CODE(t)) => Thins(N)
<1>1. /\ Family(N) /\ m \in Packet /\ <<s, d>> \in Link /\ m \in Contents(net[<<s, d>>])
      /\ N = Drop(net, <<s, d>>) /\ m = Head(net[<<s, d>>]) /\ Family(net)
  BY Shrinks
<1>2. PICK l : l = <<s, d>>
  OBVIOUS
<1>3. N[l] = Tail(net[l]) /\ (\A k \in Link : k # l => N[k] = net[k]) /\ net[l] \in Seq(Packet)
  BY <1>1, <1>2 DEF Drop, Family
<1>4. Contents(net[l]) = Contents(N[l]) \cup {m}
  BY <1>1, <1>2, <1>3, WithoutHead
<1>5. /\ \A k \in Link : \A a \in Contents(N[k]) : a \in Contents(net[k])
      /\ \A k \in Link : \A a \in Contents(net[k]) :
             a \in Contents(N[k]) \/ (a = m /\ k = <<s, d>>)
  BY <1>1, <1>2, <1>3, <1>4
<1>6. (\A t \in Task : m # CODE(t)) => Thins(N)
  BY <1>1, <1>5 DEF Thins
<1>7. QED BY <1>1, <1>5, <1>6

\* Of the packets about a task all but its code are where the last one is; the code came first.
Leads ==
    \A t \in Task, l \in Link : \A m \in Contents(net[l]) :
        m \in TaskPart /\ m.task = t /\ m # CODE(t) =>
            /\ l[1] \in PE /\ l[2] \in PE /\ l[1] # l[2]
            /\ DATA_BSS(t) \in Contents(net[l])
            /\ kernel[l[2]] = "ok" => Hosts(t, l[2])

LEMMA PartsLead == IInv => Leads
<1> SUFFICES ASSUME IInv, NEW t \in Task, NEW l \in Link, NEW m \in Contents(net[l]),
                    m \in TaskPart, m.task = t, m # CODE(t)
             PROVE  /\ l[1] \in PE /\ l[2] \in PE /\ l[1] # l[2]
                    /\ DATA_BSS(t) \in Contents(net[l])
                    /\ kernel[l[2]] = "ok" => Hosts(t, l[2])
  BY DEF Leads
<1>1. PICK j \in Journey : On(t, j, net, pending)
  BY DEF IInv, AllOn
<1>2. Sent(t, j, net) /\ Under(t, j) /\ Complete(t, j, net)
  BY <1>1 DEF On
<1>3. Placed(t, j, l, m)
  BY <1>2 DEF Sent, About
<1>4. l = <<j.from, j.to>> /\ j.phase = "left" /\ j.from \in PE /\ j.to \in PE
  BY <1>3 DEF Placed, Way, Journey
<1>5. j.from # j.to
  BY <1>2, <1>4 DEF Under
<1>6. DATA_BSS(t) \in Contents(net[l])
  BY <1>2, <1>4 DEF Complete, Way
<1>7. ASSUME kernel[j.to] = "ok" PROVE Hosts(t, j.to)
  <2>1. HasPart(t, j.to, "code") \/ Before(net[l], PacketOf("code", t), DATA_BSS(t))
    BY <1>2, <1>4, <1>7 DEF Complete, Way
  <2>2. CASE HasPart(t, j.to, "code")
    BY <2>2 DEF HasPart, IsAt, Hosts
  <2>3. CASE Before(net[l], PacketOf("code", t), DATA_BSS(t))
    <3>1. CODE(t) \in Contents(net[l])
      BY <2>3, PacketFacts DEF Before, Contents
    <3>2. QED BY <1>4, <3>1 DEF Hosts
  <2>4. QED BY <2>1, <2>2, <2>3
<1>8. QED BY <1>4, <1>5, <1>6, <1>7

LEMMA PartsLeadThen ==
    ASSUME IInv' PROVE Leads'
BY PartsLead, PTL

\* More packets on a link.
LEMMA SentMore ==
    ASSUME NEW N, Family(N), NEW l \in Link, NEW q \in Seq(Packet), NEW N2, Extends(N2, N, l, q)
    PROVE  /\ \A k \in Link : \A a \in Contents(N[k]) : a \in Contents(N2[k])
           /\ \A k \in Link : \A a \in Contents(N2[k]) :
                  a \in Contents(N[k]) \/ (k = l /\ a \in Contents(q))
<1>1. N[l] \in Seq(Packet) /\ N2[l] = N[l] \o q /\ \A k \in Link : k # l => N2[k] = N[k]
  BY DEF Family, Extends
<1>2. Contents(N2[l]) = Contents(N[l]) \cup Contents(q)
  BY <1>1, Concatenated
<1>3. QED BY <1>1, <1>2

\* The packets q on one link, then h on another.
LEMMA SentTwice ==
    ASSUME NEW N, Family(N), NEW k1 \in Link, NEW q \in Seq(Packet), NEW N1, Family(N1),
           Extends(N1, N, k1, q), NEW k2 \in Link, NEW h \in Seq(Packet), NEW N2, Extends(N2, N1, k2, h)
    PROVE  /\ \A k \in Link : \A a \in Contents(N[k]) : a \in Contents(N2[k])
           /\ \A k \in Link : \A a \in Contents(N2[k]) :
                  a \in Contents(N[k]) \/ (k = k1 /\ a \in Contents(q)) \/ a \in Contents(h)
           /\ \A a \in Contents(q) : a \in Contents(N2[k1])
<1>1. /\ \A k \in Link : \A a \in Contents(N[k]) : a \in Contents(N1[k])
      /\ \A k \in Link : \A a \in Contents(N1[k]) :
            a \in Contents(N[k]) \/ (k = k1 /\ a \in Contents(q))
  BY SentMore
<1>2. /\ \A k \in Link : \A a \in Contents(N1[k]) : a \in Contents(N2[k])
      /\ \A k \in Link : \A a \in Contents(N2[k]) :
            a \in Contents(N1[k]) \/ (k = k2 /\ a \in Contents(h))
  BY SentMore, SMTT(30)
<1>3. \A a \in Contents(q) : a \in Contents(N1[k1])
  <2>1. PICK v : v = N[k1]
    OBVIOUS
  <2>2. v \in Seq(Packet) /\ N1[k1] = v \o q
    BY <2>1 DEF Family, Extends
  <2>3. Contents(N1[k1]) = Contents(v) \cup Contents(q)
    BY <2>2, Concatenated
  <2>4. QED BY <2>3
<1>4. QED BY <1>1, <1>2, <1>3

\* The packets of a task that leaves: one has the locations.
LEMMA LocationsPacked ==
    ASSUME Typed, NEW t \in Task, NEW d \in PE, NEW to \in PE, NEW Q \in SUBSET Requests,
           NEW a \in Contents(MigrationPackets(d, t, to, Q))
    PROVE  a \in Packet /\ a \notin Ask /\ (a \in Locations => a.data = LocationsAfter(d, t, to))
<1>1. PICK q : q = MigrationPackets(d, t, to, Q)
  OBVIOUS
<1>2. a \in TaskPart
  BY <1>1, TaskPackets
<1>3. a \in Packet /\ a \notin Ask
  BY <1>2, PacketsApart DEF Packet
<1> DEFINE b == MIGRATION("MIGRATION_TCB", t, {})
           c == MIGRATION("MIGRATION_TASK_LOCATION", t, LocationsAfter(d, t, to))
           f == MIGRATION("MIGRATION_MSG_REQUEST", t, Q)
           g == MIGRATION("MIGRATION_STACK", t, {})
           h == MIGRATION("MIGRATION_DATA_BSS", t, {})
<1>4. /\ \A z \in {b, f, g, h} : z.service # "MIGRATION_TASK_LOCATION"
      /\ c.data = LocationsAfter(d, t, to)
  BY DEF MIGRATION
<1>5. q = <<b, c>> \o (IF Q = {} THEN <<>> ELSE <<f>>) \o <<g, h>>
  BY <1>1 DEF MigrationPackets
<1> HIDE DEF b, c, f, g, h
<1> DEFINE V == {b, c, f, g, h}
<1>6. <<b, c>> \in Seq(V) /\ <<>> \in Seq(V) /\ <<f>> \in Seq(V) /\ <<g, h>> \in Seq(V)
  OBVIOUS
<1> HIDE DEF V
<1>7. a \in V
  <2>1. PICK x : x = <<b, c>>
    OBVIOUS
  <2>2. PICK y : y = IF Q = {} THEN <<>> ELSE <<f>>
    OBVIOUS
  <2>3. PICK z : z = <<g, h>>
    OBVIOUS
  <2>4. x \in Seq(V) /\ y \in Seq(V) /\ z \in Seq(V) /\ q = x \o y \o z
    BY <1>5, <1>6, <2>1, <2>2, <2>3
  <2>5. q \in Seq(V)
    BY <2>4
  <2>6. QED BY <1>1, <2>5 DEF Contents
<1>8. a \in Locations => a.service = "MIGRATION_TASK_LOCATION"
  BY DEF Locations
<1>9. QED BY <1>3, <1>4, <1>7, <1>8 DEF V

\* The packets with which t leaves: those of its parts on the link to its new PE.
Adds(N2, N, d, to, t, Q) ==
    \E k1 \in Link, q \in Seq(Packet) :
       /\ k1 = <<d, to>> /\ q = MigrationPackets(d, t, to, Q)
       /\ \A k \in Link : \A a \in Contents(N[k]) : a \in Contents(N2[k])
       /\ \A k \in Link : \A a \in Contents(N2[k]) :
              a \in Contents(N[k]) \/ (k = k1 /\ a \in Contents(q)) \/ a = TASK_MIGRATED(t)
       /\ \A a \in Contents(q) : a \in Contents(N2[k1])

LEMMA Departing ==
    ASSUME Typed, NEW N, Family(N), NEW t \in Task, NEW d \in PE, NEW to \in PE,
           NEW Q \in SUBSET Requests, NEW N2, Departs(N2, N, d, to, t, Q)
    PROVE  Adds(N2, N, d, to, t, Q)
<1>1. PICK h : h = <<TASK_MIGRATED(t)>>
  OBVIOUS
<1>2. PICK k1, k2 : k1 = <<d, to>> /\ k2 = <<d, Manager>>
  OBVIOUS
<1>3. PICK q : q = MigrationPackets(d, t, to, Q)
  OBVIOUS
<1>4. /\ k1 \in Link /\ k2 \in Link /\ h \in Seq(Packet)
      /\ \E N1 : /\ Family(N1) /\ Extends(N1, N, k1, q)
                 /\ Family(N2) /\ Extends(N2, N1, k2, h)
  BY <1>1, <1>2, <1>3, DepartsInTwo
<1>5. q \in Seq(Packet)
  BY <1>3, RequestsPacked
<1>6. \A a \in Contents(h) : a = TASK_MIGRATED(t)
  BY <1>1 DEF Contents
<1>7. PICK N1 : Family(N1) /\ Extends(N1, N, k1, q) /\ Extends(N2, N1, k2, h)
  BY <1>4
<1>8. /\ \A k \in Link : \A a \in Contents(N[k]) : a \in Contents(N2[k])
      /\ \A k \in Link : \A a \in Contents(N2[k]) :
             a \in Contents(N[k]) \/ (k = k1 /\ a \in Contents(q)) \/ a \in Contents(h)
      /\ \A a \in Contents(q) : a \in Contents(N2[k1])
  BY <1>4, <1>5, <1>7, SentTwice
<1>9. QED BY <1>2, <1>3, <1>4, <1>5, <1>6, <1>8 DEF Adds

-----------------------------------------------------------------------------
(* Steps that leave the tasks where they are *)

\* A kernel that stops may lose what it had in hand.
LEMMA StoppedTracked ==
    ASSUME Typed, Tracked, NEW d \in PE, NEW R, NEW N, Thins(N), Stopped(d, R, N),
           \A e \in PE : R[e] \subseteq message_request[e],
           \A e \in PE : \A a \in Contents(pending'[e]) : a \in Contents(pending[e])
    PROVE  Tracked'
<1>1. /\ kernel' = [kernel EXCEPT ![d] = "error"] /\ message_request' = R /\ net' = N
      /\ tcbs' = tcbs /\ task_location' = task_location
  BY DEF Stopped, KernelError
<1>2. Worse
  BY <1>1 DEF Worse, Typed
<1>3. \A p \in Task, e \in PE : Hosts(p, e) => Hosts(p, e)'
  BY <1>1, IdsStay, HostsStay DEF Thins
<1>4. QED BY <1>1, <1>2, <1>3, Settles DEF Thins

\* The packets a step adds to N, which are about no place, and the task it takes from none.
LEMMA SendsTracked ==
    ASSUME Typed, Tracked, kernel' = kernel, task_location' = task_location,
           \A p \in Task, e \in PE : IsAt(p, e) => IsAt(p, e)',
           NEW N, Thins(N), NEW l \in Link, NEW q \in Seq(Packet), Extends(net', N, l, q),
           \A m \in Contents(q) : Tells(m, l[2]),
           \A e \in PE : \A m \in Contents(pending'[e]) : m \in Contents(pending[e]) \/ Tells(m, e),
           \A d \in PE : \A r \in message_request'[d] :
               r \in message_request[d] \/ Hosts(r.requested, d)'
    PROVE  Tracked'
<1>1. PICK N2 : N2 = net'
  OBVIOUS
<1>2. /\ \A k \in Link : \A a \in Contents(N[k]) : a \in Contents(N2[k])
      /\ \A k \in Link : \A a \in Contents(N2[k]) :
             a \in Contents(N[k]) \/ (k = l /\ a \in Contents(q))
  BY <1>1, SentMore DEF Thins
<1>3. \A p \in Task, e \in PE : Hosts(p, e) => Hosts(p, e)'
  BY <1>1, <1>2, HostsStay DEF Thins
<1>4. \A k \in Link : \A m \in Contents(N2[k]) : m \in Contents(net[k]) \/ Tells(m, k[2])
  BY <1>2 DEF Thins
<1>5. Worse
  BY DEF Worse
<1>6. QED BY <1>1, <1>3, <1>4, <1>5, Settles

LEMMA SendRemoteTracked ==
    ASSUME Typed, Tracked, NEW d \in PE, NEW i \in Page, NEW r \in message_request[d], SendRemote(d, i, r)
    PROVE  Tracked'
<1>1. PICK m : m = MESSAGE_DELIVERY(r.requested, r.requester)
  OBVIOUS
<1>2. /\ message_request' = [message_request EXCEPT ![d] = @ \ {r}]
      /\ net' = [net EXCEPT ![<<d, r.requester_proc>>] = Append(@, m)]
      /\ kernel' = kernel /\ tcbs' = tcbs /\ task_location' = task_location /\ pending' = pending
  BY <1>1 DEF SendRemote
<1>3. r \in Requests /\ Family(net)
  BY DEF Typed, Family
<1>4. m \in Answer /\ r.requester_proc \in PE
  BY <1>1, <1>3 DEF Requests, Answer, MESSAGE_DELIVERY
<1>5. PICK l : l = <<d, r.requester_proc>>
  OBVIOUS
<1>6. l \in Link /\ d \in Node
  BY <1>4, <1>5 DEF Link, Node
<1>7. PICK N2 : N2 = net'
  OBVIOUS
<1>8. Extends(N2, net, l, <<m>>) /\ Contents(<<m>>) = {m} /\ <<m>> \in Seq(Packet)
  BY <1>2, <1>3, <1>4, <1>5, <1>6, <1>7, GrowsByOne DEF Packet
<1>9. Tells(m, l[2])
  <2>1. m \notin Ask /\ m \notin Locations /\ m \in Packet
    BY <1>4, PacketsApart DEF TaskPart, Packet
  <2>2. QED BY <2>1, NamesNone
<1>10. \A e \in PE : message_request'[e] \subseteq message_request[e]
  BY <1>2 DEF Typed
<1>11. QED BY <1>2, <1>3, <1>6, <1>7, <1>8, <1>9, <1>10, IdsStay, SendsTracked, SameThins

LEMMA OrderMigrationTracked ==
    ASSUME Typed, Tracked, NEW t \in Task, NEW d \in PE, NEW to \in PE, OrderMigration(t, d, to)
    PROVE  Tracked'
<1>1. PICK m : m = TASK_MIGRATION(t, to)
  OBVIOUS
<1>2. /\ net' = [net EXCEPT ![<<Manager, d>>] = Append(@, m)]
      /\ kernel' = kernel /\ tcbs' = tcbs /\ task_location' = task_location /\ pending' = pending
      /\ message_request' = message_request
  BY <1>1 DEF OrderMigration, kernelVars
<1>3. m \in Order /\ Family(net)
  BY <1>1, PacketFacts DEF Typed, Family
<1>4. PICK l : l = <<Manager, d>>
  OBVIOUS
<1>5. l \in Link /\ Manager \in Node
  BY <1>4 DEF Link, Node
<1>6. PICK N2 : N2 = net'
  OBVIOUS
<1>7. Extends(N2, net, l, <<m>>) /\ Contents(<<m>>) = {m} /\ <<m>> \in Seq(Packet)
  BY <1>2, <1>3, <1>4, <1>5, <1>6, GrowsByOne DEF Packet
<1>8. Tells(m, l[2])
  <2>1. m \notin Ask /\ m \notin Locations /\ m \in Packet
    BY <1>3, PacketsApart DEF TaskPart, Packet
  <2>2. QED BY <2>1, NamesNone
<1>9. QED BY <1>2, <1>3, <1>5, <1>6, <1>7, <1>8, IdsStay, SendsTracked, SameThins

LEMMA MigrationReportedTracked ==
    ASSUME Typed, Tracked, NEW d \in PE, MigrationReported(d)
    PROVE  Tracked'
<1>1. /\ net[<<d, Manager>>] # <<>> /\ net' = Popped(d, Manager)
      /\ kernel' = kernel /\ tcbs' = tcbs /\ message_request' = message_request
      /\ pending' = pending /\ task_location' = task_location
  BY DEF MigrationReported, kernelVars
<1>2. Manager \in Node /\ d \in Node
  BY DEF Node
<1>3. PICK m : m = HeadPacket(d, Manager)
  OBVIOUS
<1>4. PICK N : N = net'
  OBVIOUS
<1>5. \A t \in Task : m # CODE(t)
  <2>1. m \in Report
    BY <1>1, <1>2, <1>3, Shrinks
  <2>2. QED BY <2>1, PacketFacts, PacketsApart
<1>6. Thins(N)
  <2>1. PICK z : z = Manager
    OBVIOUS
  <2>2. N = Popped(d, z) /\ m = HeadPacket(d, z) /\ net[<<d, z>>] # <<>> /\ z \in Node
    BY <1>1, <1>2, <1>3, <1>4, <2>1
  <2>3. QED BY <1>2, <1>5, <2>2, TakenOut
<1>7. \A p \in Task, e \in PE : Hosts(p, e) => Hosts(p, e)'
  BY <1>1, <1>4, <1>6, IdsStay, HostsStay DEF Thins
<1>8. Worse
  BY <1>1 DEF Worse
<1>9. QED BY <1>1, <1>4, <1>6, <1>7, <1>8, Settles DEF Thins

\* RECVMESSAGE asks where the producer is said to be.
LEMMA ReceiveTracked ==
    ASSUME IInv, Tracked, NEW d \in PE, NEW i \in Page, Receive(d, i)
    PROVE  Tracked'
<1>1. Typed /\ SoundTCBs /\ AllOn(net, pending) /\ Family(net)
  BY DEF IInv, Typed, Family
<1>2. PICK c : c = tcbs[d][i].id
  OBVIOUS
<1>3. PICK p : p = CallOf(c).peer
  OBVIOUS
<1>4. PICK proc : proc = task_location[d][p]
  OBVIOUS
<1>5. /\ Runs(d, i) /\ CallOf(c).op = "receive"
      /\ kernel' = kernel /\ task_location' = task_location /\ pending' = pending
      /\ \/ /\ tcbs' = [tcbs EXCEPT ![d][i].status = "BLOCKED"]
            /\ message_request' = message_request /\ net' = net
         \/ /\ tcbs' = [tcbs EXCEPT ![d][i].waiting_msg = TRUE] /\ proc # NoPE
            /\ \/ /\ proc = d /\ net' = net
                  /\ message_request' = [message_request EXCEPT ![d] = @ \cup
                         {[requester |-> c, requested |-> p, requester_proc |-> d]}]
               \/ /\ proc # d /\ net' = [net EXCEPT ![<<d, proc>>] = Append(@, MESSAGE_REQUEST(p, c, d))]
                  /\ message_request' = message_request
  BY <1>2, <1>3, <1>4 DEF Receive
<1>6. c \in Task /\ tcbs[d][i] \in TCB /\ kernel[d] = "ok"
  BY <1>1, <1>2, <1>5, Running
<1>7. p \in Task /\ proc \in PE \cup {NoPE}
  <2>1. p \in Task
    BY <1>1, <1>3, <1>5, <1>6, CallTyped
  <2>2. QED BY <1>1, <1>4, <2>1 DEF Typed
<1>8. \A u \in Task, e \in PE : IsAt(u, e) => IsAt(u, e)'
  <2>1. \A e \in PE : \A k \in Page : tcbs'[e][k].id = tcbs[e][k].id
    <3>1. PICK x \in TCB : tcbs' = [tcbs EXCEPT ![d][i] = x] /\ x.id = tcbs[d][i].id
      <4>1. PICK y : y = [tcbs[d][i] EXCEPT !.status = "BLOCKED"]
        OBVIOUS
      <4>2. PICK z : z = [tcbs[d][i] EXCEPT !.waiting_msg = TRUE]
        OBVIOUS
      <4>3. y \in TCB /\ z \in TCB /\ y.id = tcbs[d][i].id /\ z.id = tcbs[d][i].id
        BY <1>6, <4>1, <4>2 DEF TCB
      <4>4. tcbs' = [tcbs EXCEPT ![d][i] = y] \/ tcbs' = [tcbs EXCEPT ![d][i] = z]
        BY <1>5, <4>1, <4>2
      <4>5. QED BY <4>3, <4>4
    <3>2. Becomes(d, i, x)
      BY <1>1, <3>1, Written
    <3>3. QED BY <3>1, <3>2 DEF Becomes
  <2>2. QED BY <2>1, IdsStay
<1>9. Worse
  BY <1>5 DEF Worse
<1>10. CASE net' = net /\ message_request' = message_request
  <2>1. \A u \in Task, e \in PE : Hosts(u, e) => Hosts(u, e)'
    BY <1>8, <1>10, HostsStay
  <2>2. QED BY <1>1, <1>5, <1>9, <1>10, <2>1, Settles
<1>11. CASE /\ proc = d /\ net' = net
            /\ message_request' = [message_request EXCEPT ![d] = @ \cup
                   {[requester |-> c, requested |-> p, requester_proc |-> d]}]
  <2>1. \A u \in Task, e \in PE : Hosts(u, e) => Hosts(u, e)'
    BY <1>8, <1>11, HostsStay
  <2>2. Hosts(p, d)
    <3>1. Named(p, d)
      BY <1>4, <1>11 DEF Named
    <3>2. ~PassesOn(d, p)
      BY <1>4, <1>11 DEF PassesOn
    <3>3. QED BY <1>6, <1>7, <3>1, <3>2 DEF Tracked, Answers
  <2>3. \A e \in PE : \A r \in message_request'[e] :
            r \in message_request[e] \/ Hosts(r.requested, e)'
    BY <1>1, <1>7, <1>11, <2>1, <2>2 DEF Typed
  <2>4. QED BY <1>1, <1>5, <1>9, <1>11, <2>1, <2>3, Settles
<1>12. CASE /\ proc \notin {d, NoPE} /\ message_request' = message_request
            /\ net' = [net EXCEPT ![<<d, proc>>] = Append(@, MESSAGE_REQUEST(p, c, d))]
  <2>1. PICK m : m = MESSAGE_REQUEST(p, c, d)
    OBVIOUS
  <2>2. m \in Ask /\ m.producer = p /\ m \in Packet
    BY <1>6, <1>7, <2>1 DEF MESSAGE_REQUEST, Ask, Packet
  <2>3. PICK l : l = <<d, proc>>
    OBVIOUS
  <2>4. l \in Link /\ d \in Node /\ proc \in PE
    BY <1>7, <1>12, <2>3 DEF Link, Node
  <2>5. PICK N2 : N2 = net'
    OBVIOUS
  <2>6. Extends(N2, net, l, <<m>>) /\ Contents(<<m>>) = {m} /\ <<m>> \in Seq(Packet)
    BY <1>1, <1>12, <2>1, <2>2, <2>3, <2>4, <2>5, GrowsByOne
  <2>7. Tells(m, l[2])
    <3>1. m \notin Locations
      BY <2>2, PacketsApart DEF TaskPart
    <3>2. Named(p, proc)
      BY <1>4 DEF Named
    <3>3. QED BY <2>2, <2>3, <3>1, <3>2 DEF Tells, Names
  <2>8. /\ kernel' = kernel /\ task_location' = task_location /\ pending' = pending
        /\ message_request' = message_request /\ Thins(net)
    BY <1>1, <1>5, <1>12, SameThins
  <2>9. PICK q \in Seq(Packet) : q = <<m>>
    BY <2>6
  <2>10. Extends(N2, net, l, q) /\ \A a \in Contents(q) : Tells(a, l[2])
    BY <2>6, <2>7, <2>9
  <2>11. QED BY <1>1, <1>8, <2>4, <2>5, <2>8, <2>10, SendsTracked
<1>13. QED BY <1>5, <1>10, <1>11, <1>12

-----------------------------------------------------------------------------
(* Steps with which a task leaves *)

\* A task that leaves is led to, and its requests go along.
LEMMA LeavesTracked ==
    ASSUME IInv, IInv', Tracked, NEW N, Family(N), NEW t \in Task, NEW d \in PE, NEW to \in PE,
           NEW i \in Page, tcbs[d][i].id = t, NEW T \in [PE -> [Page -> TCB]],
           \A e \in PE : \A k \in Page : T[e][k].id = tcbs[e][k].id,
           NEW R \in [PE -> SUBSET Requests], \A e \in PE : R[e] \subseteq message_request[e],
           migrate_dynamic_memory(d, i, to, T, R, N),
           \A l \in Link : \A a \in Contents(N[l]) : a \in Contents(net[l]) \/ a = CODE(t),
           \A l \in Link : \A u \in Task :
               CODE(u) \in Contents(net[l]) => CODE(u) \in Contents(N[l]),
           \A e \in PE : \A a \in Contents(pending'[e]) : a \in Contents(pending[e])
    PROVE  Tracked'
<1>1. Typed /\ SoundTCBs /\ AllOn(net, pending) /\ T[d][i].id = t
  BY DEF IInv
<1>2. \A l \in Link : \A a \in Contents(N[l]) : a \in Contents(net[l]) \/ Tells(a, l[2])
  BY CodeNamesNone, NamesNone
<1>3. CASE task_location[d][t] = NoPE
  <2>1. /\ kernel' = [kernel EXCEPT ![d] = "error"] /\ message_request' = R /\ net' = N
        /\ tcbs' = T /\ task_location' = task_location
    BY <1>1, <1>3 DEF migrate_dynamic_memory, KernelError
  <2>2. Worse
    BY <1>1, <2>1 DEF Worse, Typed
  <2>3. \A p \in Task, e \in PE : Hosts(p, e) => Hosts(p, e)'
    BY <2>1, IdsStay, HostsStay
  <2>4. QED BY <1>1, <1>2, <2>1, <2>2, <2>3, Settles
<1>4. CASE task_location[d][t] # NoPE
  <2>1. PICK Q : Q = RequestsTo(R[d], t)
    OBVIOUS
  <2>2. PICK N2 : N2 = net'
    OBVIOUS
  <2>3. /\ Departs(N2, N, d, to, t, Q)
        /\ task_location' = [task_location EXCEPT ![d] = LocationsAfter(d, t, to)]
        /\ message_request' = [R EXCEPT ![d] = @ \ Q]
        /\ tcbs' = [T EXCEPT ![d][i] = FreeTCB] /\ kernel' = kernel
    BY <1>1, <1>4, <2>1, <2>2 DEF migrate_dynamic_memory, Departs
  <2>4. Q \in SUBSET Requests /\ \A r \in R[d] \ Q : r.requested # t
    BY <2>1 DEF RequestsTo
  <2>5. PICK k1 \in Link, q \in Seq(Packet) :
            /\ k1 = <<d, to>> /\ q = MigrationPackets(d, t, to, Q)
            /\ \A k \in Link : \A a \in Contents(N[k]) : a \in Contents(N2[k])
            /\ \A k \in Link : \A a \in Contents(N2[k]) :
                   a \in Contents(N[k]) \/ (k = k1 /\ a \in Contents(q)) \/ a = TASK_MIGRATED(t)
            /\ \A a \in Contents(q) : a \in Contents(N2[k1])
    <3>1. Adds(N2, N, d, to, t, Q)
      BY <1>1, <2>3, <2>4, Departing
    <3>2. QED BY <3>1 DEF Adds
  <2>7. \A a \in Contents(q) : /\ a \in Packet /\ a \notin Ask
                               /\ a \in Locations => a.data = LocationsAfter(d, t, to)
    BY <1>1, <2>4, <2>5, LocationsPacked
  <2>8. PICK h : h = TASK_MIGRATED(t)
    OBVIOUS
  <2>9. h \in Packet /\ h \notin Ask /\ h \notin Locations
    <3>1. h \in Report
      BY <2>8, PacketFacts
    <3>2. QED BY <3>1, PacketsApart DEF Packet, TaskPart
  <2>10. /\ k1 \in Link
         /\ \A k \in Link : \A a \in Contents(N[k]) : a \in Contents(N2[k])
         /\ \A k \in Link : \A a \in Contents(N2[k]) :
                a \in Contents(N[k]) \/ (k = k1 /\ a \in Contents(q)) \/ a = h
         /\ \A a \in Contents(q) : a \in Contents(N2[k1])
    BY <2>5, <2>8
  <2>11. d # to /\ (kernel'[to] = "ok" => Hosts(t, to)')
    <3>1. Leads'
      BY PartsLeadThen
    <3>2. DATA_BSS(t) \in Contents(q) /\ DATA_BSS(t) \in TaskPart /\ DATA_BSS(t) # CODE(t)
          /\ DATA_BSS(t).task = t
      BY <1>1, <2>4, <2>5, TaskPackets, PacketFacts DEF About
    <3>3. DATA_BSS(t) \in Contents(net'[k1])
      BY <2>2, <2>10, <3>2
    <3>4. k1[1] # k1[2] /\ (kernel'[k1[2]] = "ok" => Hosts(t, k1[2])')
      BY <2>10, <3>1, <3>2, <3>3 DEF Leads
    <3>5. QED BY <2>5, <3>4
  <2>12. Answers(t, to)'
    BY <1>1, <2>3, <2>11 DEF Answers, Typed
  <2>13. \A p \in Task, e \in PE :
             task_location'[e][p] = IF e = d /\ p = t THEN to ELSE task_location[e][p]
    BY <1>1, <2>3 DEF Typed, LocationsAfter
  <2>14. PassesOn(d, t)'
    BY <2>11, <2>13, MigrationAssumption DEF PassesOn
  <2>15. \A p \in Task, e \in PE : Hosts(p, e) => Hosts(p, e)' \/ (p = t /\ e = d)
    <3>1. \A p \in Task, e \in PE : IsAt(p, e) => IsAt(p, e)' \/ (p = t /\ e = d)
      <4>1. \A e \in PE : \A k \in Page : tcbs'[e][k].id = tcbs[e][k].id \/ (e = d /\ k = i)
        BY <2>3
      <4>2. QED BY <4>1 DEF IsAt
    <3>2. \A s \in PE, e \in PE : <<s, e>> \in Link
      BY DEF Link, Node
    <3>3. QED BY <2>2, <2>10, <3>1, <3>2 DEF Hosts
  <2>16. Worse
    BY <2>3 DEF Worse
  <2>17. \A p \in Task, e \in PE : Hosts(p, e) => Answers(p, e)'
    BY <2>14, <2>15 DEF Answers
  <2>18. \A p \in Task, e \in PE : PassesOn(e, p) => PassesOn(e, p)'
    BY <2>13, <2>14 DEF PassesOn
  <2>19. ASSUME NEW e \in PE, NEW p \in Task, NEW f \in PE, task_location'[e][p] = f
         PROVE  Named(p, f) \/ Answers(p, f)'
    <3>1. CASE e = d /\ p = t
      BY <2>12, <2>13, <2>19, <3>1
    <3>2. CASE task_location[e][p] = f
      BY <3>2 DEF Named
    <3>3. QED BY <2>13, <2>19, <3>1, <3>2
  <2>20. ASSUME NEW l \in Link, NEW m \in Contents(net'[l]), NEW p \in Task, NEW f \in PE,
                Names(m, l[2], p, f)
         PROVE  Named(p, f) \/ Answers(p, f)'
    <3>1. CASE m \in Contents(N[l])
      BY <1>2, <2>20, <3>1 DEF Named, Tells
    <3>2. CASE m \in Contents(q)
      <4>1. m.data[p] = f /\ m.data = LocationsAfter(d, t, to)
        BY <2>7, <2>20, <3>2 DEF Names
      <4>2. f = IF p = t THEN to ELSE task_location[d][p]
        BY <1>1, <4>1 DEF LocationsAfter, Typed
      <4>3. QED BY <2>12, <4>2 DEF Named
    <3>3. CASE m = h
      BY <2>9, <2>20, <3>3, NamesNone
    <3>4. QED BY <2>2, <2>10, <2>20, <3>1, <3>2, <3>3
  <2>21. \A e \in PE : \A m \in Contents(pending'[e]) : \A p \in Task, f \in PE :
             Names(m, e, p, f) => Named(p, f)
    BY DEF Named
  <2>22. ASSUME NEW e \in PE, NEW r \in message_request'[e]
         PROVE  kernel'[e] = "error" \/ Hosts(r.requested, e)'
    <3>1. r \in message_request[e] /\ ~(r.requested = t /\ e = d)
      BY <2>3, <2>4, <2>22
    <3>2. r.requested \in Task /\ (kernel[e] = "error" \/ Hosts(r.requested, e))
      BY <1>1, <3>1 DEF Tracked, Typed, Requests
    <3>3. QED BY <2>3, <2>15, <3>1, <3>2
  <2>23. QED BY <2>16, <2>17, <2>18, <2>19, <2>20, <2>21, <2>22, Follow
<1>5. QED BY <1>3, <1>4

\* A consumer that gets its message stays, or leaves.
LEMMA ReleaseTracked ==
    ASSUME IInv, IInv', Tracked, NEW N, Thins(N), NEW t \in Task, NEW d \in PE, NEW i \in Page,
           tcbs[d][i].id = t,
           NEW R \in [PE -> SUBSET Requests], \A e \in PE : R[e] \subseteq message_request[e],
           ReleaseConsumer(d, i, R, N), pending' = pending
    PROVE  Tracked'
<1>1. Typed
  BY DEF IInv
<1>2. PICK T : T = TCBReleased(tcbs, d, i)
  OBVIOUS
<1>3. T \in [PE -> [Page -> TCB]] /\ \A e \in PE : \A k \in Page : T[e][k].id = tcbs[e][k].id
  <2>1. PICK x : x = [tcbs[d][i] EXCEPT !.waiting_msg = FALSE]
    OBVIOUS
  <2>2. tcbs \in [PE -> [Page -> TCB]] /\ tcbs[d][i] \in TCB
    BY <1>1 DEF Typed
  <2>3. x \in TCB /\ x.id = tcbs[d][i].id
    BY <2>1, <2>2 DEF TCB
  <2>4. T = [tcbs EXCEPT ![d][i] = x]
    BY <1>2, <2>1 DEF TCBReleased
  <2>5. QED BY <2>2, <2>3, <2>4
<1>4. CASE tcbs[d][i].proc_to_migrate = NoPE
  <2>1. /\ message_request' = R /\ net' = N /\ kernel' = kernel /\ tcbs' = T
        /\ task_location' = task_location
    BY <1>2, <1>4 DEF ReleaseConsumer
  <2>2. \A p \in Task, e \in PE : Hosts(p, e) => Hosts(p, e)'
    BY <1>3, <2>1, IdsStay, HostsStay DEF Thins
  <2>3. Worse
    BY <2>1 DEF Worse
  <2>4. QED BY <1>1, <2>1, <2>2, <2>3, Settles DEF Thins
<1>5. CASE tcbs[d][i].proc_to_migrate # NoPE
  <2>1. PICK to : to = tcbs[d][i].proc_to_migrate
    OBVIOUS
  <2>2. to \in PE
    BY <1>1, <1>5, <2>1 DEF Typed, TCB
  <2>3. migrate_dynamic_memory(d, i, to, T, R, N)
    BY <1>2, <1>5, <2>1 DEF ReleaseConsumer
  <2>4. QED BY <1>1, <1>3, <2>2, <2>3, LeavesTracked DEF Thins
<1>6. QED BY <1>4, <1>5

LEMMA SendLocalTracked ==
    ASSUME IInv, IInv', Tracked, NEW d \in PE, NEW i \in Page, NEW r \in message_request[d],
           SendLocal(d, i, r)
    PROVE  Tracked'
<1>1. Typed /\ Thins(net)
  BY SameThins DEF IInv
<1>2. PICK R : R = [message_request EXCEPT ![d] = @ \ {r}]
  OBVIOUS
<1>3. PICK c : c = r.requester
  OBVIOUS
<1>4. PICK k : k = searchTCB(d, c)
  OBVIOUS
<1>5. /\ \/ Waits(d, k) /\ ReleaseConsumer(d, k, R, net)
         \/ Stopped(d, R, net)
      /\ pending' = pending
  BY <1>2, <1>3, <1>4 DEF SendLocal
<1>6. /\ R \in [PE -> SUBSET Requests] /\ \A e \in PE : R[e] \subseteq message_request[e]
      /\ c \in Task
  BY <1>1, <1>2, <1>3 DEF Typed, Requests
<1>7. CASE Stopped(d, R, net)
  BY <1>1, <1>5, <1>6, <1>7, StoppedTracked
<1>8. CASE Waits(d, k) /\ ReleaseConsumer(d, k, R, net)
  <2>1. k \in Page /\ tcbs[d][k].id = c
    BY <1>4, <1>6, <1>8, Searched DEF Waits
  <2>2. QED BY <1>1, <1>5, <1>6, <1>8, <2>1, ReleaseTracked
<1>9. QED BY <1>5, <1>7, <1>8

LEMMA HandleDeliveryTracked ==
    ASSUME IInv, IInv', Tracked, NEW s \in Node, NEW d \in PE, HandleDelivery(s, d)
    PROVE  Tracked'
<1>1. Typed /\ d \in Node
  BY DEF IInv, Node
<1>2. PICK m : m = HeadPacket(s, d)
  OBVIOUS
<1>3. PICK c : c = m.consumer
  OBVIOUS
<1>4. PICK k : k = searchTCB(d, c)
  OBVIOUS
<1>5. PICK N : N = Popped(s, d)
  OBVIOUS
<1>6. /\ net[<<s, d>>] # <<>> /\ m.service = "MESSAGE_DELIVERY"
      /\ \/ Waits(d, k) /\ ReleaseConsumer(d, k, message_request, N)
         \/ Stopped(d, message_request, N)
      /\ pending' = pending
  BY <1>2, <1>3, <1>4, <1>5 DEF HandleDelivery, PacketAt
<1>7. m \in Answer
  <2>1. m \in Packet
    BY <1>1, <1>2, <1>6, Shrinks
  <2>2. QED BY <1>6, <2>1, ByService
<1>8. c \in Task
  BY <1>3, <1>7 DEF Answer
<1>9. Thins(N)
  <2>1. \A t \in Task : m # CODE(t)
    BY <1>7, PacketFacts, PacketsApart
  <2>2. QED BY <1>1, <1>2, <1>5, <1>6, <2>1, TakenOut
<1>10. message_request \in [PE -> SUBSET Requests]
  BY <1>1 DEF Typed
<1>11. CASE Stopped(d, message_request, N)
  BY <1>1, <1>6, <1>9, <1>11, StoppedTracked
<1>12. CASE Waits(d, k) /\ ReleaseConsumer(d, k, message_request, N)
  <2>1. k \in Page /\ tcbs[d][k].id = c
    BY <1>4, <1>8, <1>12, Searched DEF Waits
  <2>2. QED BY <1>6, <1>8, <1>9, <1>10, <1>12, <2>1, ReleaseTracked
<1>13. QED BY <1>6, <1>11, <1>12

-----------------------------------------------------------------------------
(* Requests and orders that are handled *)

\* A request that has come is kept if the producer is there, and else passed on.
LEMMA RequestTracked ==
    ASSUME IInv, Tracked, NEW N, Thins(N), NEW d \in PE, NEW m \in Ask, Named(m.producer, d),
           handle_message_request(d, m, N),
           \A e \in PE : \A a \in Contents(pending'[e]) : a \in Contents(pending[e])
    PROVE  Tracked'
<1>1. Typed
  BY DEF IInv
<1>2. PICK p, proc : p = m.producer /\ proc = task_location[d][p]
  OBVIOUS
<1>3. p \in Task /\ proc \in PE \cup {NoPE} /\ m.consumer \in Task /\ m.proc \in PE
  BY <1>1, <1>2 DEF Ask, Typed
<1>4. PICK r : r = [requester |-> m.consumer, requested |-> p, requester_proc |-> m.proc]
  OBVIOUS
<1>5. r.requested = p
  BY <1>4
<1>6. CASE searchTCB(d, p) # 0
  <2>1. /\ message_request' = [message_request EXCEPT ![d] = @ \cup {r}]
        /\ net' = N /\ kernel' = kernel /\ tcbs' = tcbs /\ task_location' = task_location
    BY <1>2, <1>4, <1>6 DEF handle_message_request
  <2>2. IsAt(p, d)
    BY <1>3, <1>6, Searched
  <2>3. \A u \in Task, e \in PE : Hosts(u, e) => Hosts(u, e)'
    BY <2>1, IdsStay, HostsStay DEF Thins
  <2>4. Hosts(p, d)'
    BY <1>3, <2>2, <2>3 DEF Hosts
  <2>5. \A e \in PE : \A x \in message_request'[e] :
            x \in message_request[e] \/ Hosts(x.requested, e)'
    BY <1>1, <1>5, <2>1, <2>4 DEF Typed
  <2>6. Worse
    BY <2>1 DEF Worse
  <2>7. \A l \in Link : \A a \in Contents(net'[l]) : a \in Contents(net[l])
    BY <2>1 DEF Thins
  <2>8. QED BY <1>1, <2>1, <2>3, <2>5, <2>6, <2>7, Settles
<1>7. CASE searchTCB(d, p) = 0 /\ proc \in {d, NoPE}
  <2>1. Stopped(d, message_request, N)
    BY <1>2, <1>7 DEF handle_message_request
  <2>2. QED BY <1>1, <2>1, StoppedTracked
<1>8. CASE searchTCB(d, p) = 0 /\ proc \notin {d, NoPE}
  <2>1. /\ net' = [N EXCEPT ![<<d, proc>>] = Append(@, m)]
        /\ kernel' = kernel /\ tcbs' = tcbs /\ message_request' = message_request
        /\ task_location' = task_location
    BY <1>2, <1>8 DEF handle_message_request, kernelVars
  <2>2. PICK l : l = <<d, proc>>
    OBVIOUS
  <2>3. l \in Link /\ d \in Node /\ proc \in PE
    BY <1>3, <1>8, <2>2 DEF Link, Node
  <2>4. PICK N2 : N2 = net'
    OBVIOUS
  <2>5. Extends(N2, N, l, <<m>>) /\ Contents(<<m>>) = {m} /\ <<m>> \in Seq(Packet)
    BY <2>1, <2>2, <2>3, <2>4, GrowsByOne DEF Thins, Packet
  <2>6. Tells(m, l[2])
    <3>1. m \notin Locations
      BY PacketsApart DEF TaskPart
    <3>2. Named(p, proc)
      BY <1>2 DEF Named
    <3>3. QED BY <1>2, <2>2, <3>1, <3>2 DEF Tells, Names
  <2>7. \A u \in Task, e \in PE : IsAt(u, e) => IsAt(u, e)'
    BY <2>1, IdsStay
  <2>8. QED BY <1>1, <2>1, <2>3, <2>4, <2>5, <2>6, <2>7, SendsTracked
<1>9. QED BY <1>6, <1>7, <1>8

\* An ordered task sends its code; it leaves, stays until its message comes, or its kernel stops.
LEMMA OrderTracked ==
    ASSUME IInv, IInv', Tracked, NEW N, Thins(N), NEW t \in Task, NEW d \in PE, NEW to \in PE,
           handle_task_migration(d, TASK_MIGRATION(t, to), N),
           \A e \in PE : \A a \in Contents(pending'[e]) : a \in Contents(pending[e])
    PROVE  Tracked'
<1>1. Typed
  BY DEF IInv
<1>2. PICK i : i = searchTCB(d, t)
  OBVIOUS
<1>3. PICK M : CodeLeaves(M, N, d, to, t)
  BY DEF CodeLeaves
<1>4. PICK m : m = CODE(t)
  OBVIOUS
<1>5. PICK l : l = <<d, to>>
  OBVIOUS
<1>6. l \in Link /\ d \in Node
  BY <1>5 DEF Link, Node
<1>7. /\ m \in Packet /\ Tells(m, l[2])
  BY <1>4, CodeNamesNone, NamesNone
<1>8. Extends(M, N, l, <<m>>) /\ Contents(<<m>>) = {m} /\ <<m>> \in Seq(Packet) /\ Family(M)
  BY <1>3, <1>4, <1>5, <1>6, <1>7, GrowsByOne DEF CodeLeaves, Thins
<1>9. \/ (i = 0 \/ tcbs[d][i].proc_to_migrate # NoPE) /\ Stopped(d, message_request, N)
      \/ /\ i # 0 /\ tcbs[d][i].waiting_msg
         /\ tcbs' = [tcbs EXCEPT ![d][i].proc_to_migrate = to] /\ net' = M
         /\ kernel' = kernel /\ message_request' = message_request /\ task_location' = task_location
      \/ i # 0 /\ migrate_dynamic_memory(d, i, to, tcbs, message_request, M)
  BY <1>2, <1>3 DEF handle_task_migration, CodeLeaves, CODE, TASK_MIGRATION
<1>10. i # 0 => i \in Page /\ tcbs[d][i].id = t
  BY <1>2, Searched
<1>11. CASE Stopped(d, message_request, N)
  BY <1>1, <1>11, StoppedTracked
<1>12. CASE /\ i # 0 /\ tcbs' = [tcbs EXCEPT ![d][i].proc_to_migrate = to] /\ net' = M
            /\ kernel' = kernel /\ message_request' = message_request /\ task_location' = task_location
  <2>1. PICK x : x = [tcbs[d][i] EXCEPT !.proc_to_migrate = to]
    OBVIOUS
  <2>2. tcbs[d][i] \in TCB
    BY <1>1, <1>10, <1>12 DEF Typed
  <2>3. x \in TCB /\ x.id = tcbs[d][i].id
    BY <2>1, <2>2 DEF TCB
  <2>4. tcbs' = [tcbs EXCEPT ![d][i] = x]
    BY <1>12, <2>1
  <2>5. Becomes(d, i, x)
    BY <1>1, <1>10, <1>12, <2>3, <2>4, Written
  <2>6. \A p \in Task, e \in PE : IsAt(p, e) => IsAt(p, e)'
    BY <1>10, <1>12, <2>3, <2>5, IdStays
  <2>7. PICK N2 : N2 = net'
    OBVIOUS
  <2>8. Extends(N2, N, l, <<m>>)
    BY <1>8, <1>12, <2>7
  <2>9. QED BY <1>1, <1>6, <1>7, <1>8, <1>12, <2>6, <2>7, <2>8, SendsTracked
<1>13. CASE i # 0 /\ migrate_dynamic_memory(d, i, to, tcbs, message_request, M)
  <2>1. /\ \A k \in Link : \A a \in Contents(N[k]) : a \in Contents(M[k])
        /\ \A k \in Link : \A a \in Contents(M[k]) :
               a \in Contents(N[k]) \/ (k = l /\ a \in Contents(<<m>>))
    <3>1. Family(N)
      BY DEF Thins
    <3>2. PICK q : q = <<m>>
      OBVIOUS
    <3>3. Extends(M, N, l, q) /\ q \in Seq(Packet)
      BY <1>8, <3>2
    <3>4. /\ \A k \in Link : \A a \in Contents(N[k]) : a \in Contents(M[k])
          /\ \A k \in Link : \A a \in Contents(M[k]) :
                 a \in Contents(N[k]) \/ (k = l /\ a \in Contents(q))
      BY <1>6, <3>1, <3>3, SentMore
    <3>5. QED BY <3>2, <3>4
  <2>2. /\ \A k \in Link : \A a \in Contents(M[k]) : a \in Contents(net[k]) \/ a = CODE(t)
        /\ \A k \in Link : \A u \in Task : CODE(u) \in Contents(net[k]) => CODE(u) \in Contents(M[k])
    BY <1>4, <1>8, <2>1 DEF Thins
  <2>3. tcbs \in [PE -> [Page -> TCB]] /\ message_request \in [PE -> SUBSET Requests]
    BY <1>1 DEF Typed
  <2>4. QED BY <1>8, <1>10, <1>13, <2>2, <2>3, LeavesTracked
<1>14. QED BY <1>9, <1>11, <1>12, <1>13
LEMMA DeferrableTracked ==
    ASSUME IInv, IInv', Tracked, NEW N, Thins(N), NEW d \in PE, NEW m, handle_deferrable(d, m, N),
           \/ m \in Ask /\ Named(m.producer, d)
           \/ \E t \in Task, to \in PE : m = TASK_MIGRATION(t, to),
           \A e \in PE : \A a \in Contents(pending'[e]) : a \in Contents(pending[e])
    PROVE  Tracked'
<1>1. CASE m \in Ask /\ Named(m.producer, d)
  <2>1. m.service # "TASK_MIGRATION"
    BY <1>1 DEF Ask
  <2>2. handle_message_request(d, m, N)
    BY <2>1 DEF handle_deferrable
  <2>3. QED BY <1>1, <2>2, RequestTracked
<1>2. ASSUME NEW t \in Task, NEW to \in PE, m = TASK_MIGRATION(t, to)
      PROVE  Tracked'
  <2>1. handle_task_migration(d, TASK_MIGRATION(t, to), N)
    BY <1>2 DEF handle_deferrable, TASK_MIGRATION
  <2>2. QED BY <2>1, OrderTracked
<1>3. QED BY <1>1, <1>2

\* What is asked of a PE, here or there, names it.
LEMMA AskNames ==
    ASSUME NEW m \in Ask
    PROVE  /\ m.producer \in Task
           /\ \A l \in Link : m \in Contents(net[l]) => Named(m.producer, l[2])
           /\ \A e \in PE : m \in Contents(pending[e]) => Named(m.producer, e)
BY DEF Ask, Named, Names

LEMMA HandleNowTracked ==
    ASSUME IInv, IInv', Tracked, NEW s \in Node, NEW d \in PE, HandleNow(s, d)
    PROVE  Tracked'
<1>1. PICK m : m = HeadPacket(s, d)
  OBVIOUS
<1>2. PICK N : N = Popped(s, d)
  OBVIOUS
<1>3. /\ net[<<s, d>>] # <<>> /\ handle_deferrable(d, m, N) /\ pending' = pending
      /\ m.service \in {"MESSAGE_REQUEST", "TASK_MIGRATION"}
  BY <1>1, <1>2 DEF HandleNow, PacketAt, Deferrable
<1>4. Typed /\ d \in Node
  BY DEF IInv, Node
<1>5. PICK l \in Link : l = <<s, d>> /\ m \in Contents(net[l]) /\ m \in Packet
  BY <1>1, <1>3, <1>4, Shrinks
<1>6. m \in Ask \/ m \in Order
  BY <1>3, <1>5, ByService
<1>7. Thins(N)
  <2>1. \A t \in Task : m # CODE(t)
    BY <1>3 DEF CODE, MIGRATION
  <2>2. QED BY <1>1, <1>2, <1>3, <1>4, <2>1, TakenOut
<1>8. \/ m \in Ask /\ Named(m.producer, d)
      \/ \E t \in Task, to \in PE : m = TASK_MIGRATION(t, to)
  <2>1. CASE m \in Ask
    <3>1. l[2] = d
      BY <1>5
    <3>2. QED BY <1>5, <2>1, <3>1, AskNames
  <2>2. CASE m \in Order
    BY <2>2 DEF Order, TASK_MIGRATION
  <2>3. QED BY <1>6, <2>1, <2>2
<1>9. QED BY <1>3, <1>7, <1>8, DeferrableTracked

LEMMA HandlePendingTracked ==
    ASSUME IInv, IInv', Tracked, NEW d \in PE, HandlePending(d)
    PROVE  Tracked'
<1>1. PICK m : m = Head(pending[d])
  OBVIOUS
<1>2. /\ pending[d] # <<>> /\ pending' = [pending EXCEPT ![d] = Tail(@)]
      /\ handle_deferrable(d, m, net)
  BY <1>1 DEF HandlePending
<1>3. Typed /\ Thins(net)
  BY SameThins DEF IInv
<1>4. PICK S : S = Ask \cup Order
  OBVIOUS
<1>5. pending \in [PE -> Seq(S)]
  BY <1>3, <1>4 DEF Typed
<1>6. /\ m \in S /\ Contents(pending[d]) = Contents(Tail(pending[d])) \cup {m}
  BY <1>1, <1>2, <1>5, WithoutHead
<1>7. \A e \in PE : \A a \in Contents(pending'[e]) : a \in Contents(pending[e])
  BY <1>2, <1>5, <1>6
<1>8. \/ m \in Ask /\ Named(m.producer, d)
      \/ \E t \in Task, to \in PE : m = TASK_MIGRATION(t, to)
  <2>1. CASE m \in Ask
    BY <1>6, <2>1, AskNames
  <2>2. CASE m \in Order
    BY <2>2 DEF Order, TASK_MIGRATION
  <2>3. QED BY <1>4, <1>6, <2>1, <2>2
<1>9. QED BY <1>2, <1>3, <1>7, <1>8, DeferrableTracked

LEMMA DeferTracked ==
    ASSUME IInv, Tracked, NEW s \in Node, NEW d \in PE, Defer(s, d)
    PROVE  Tracked'
<1>1. PICK m : m = HeadPacket(s, d)
  OBVIOUS
<1>2. PICK N : N = Popped(s, d)
  OBVIOUS
<1>3. /\ net[<<s, d>>] # <<>> /\ m.service \in {"MESSAGE_REQUEST", "TASK_MIGRATION"}
      /\ pending' = [pending EXCEPT ![d] = Append(@, m)] /\ net' = N
      /\ kernel' = kernel /\ tcbs' = tcbs /\ message_request' = message_request
      /\ task_location' = task_location
  BY <1>1, <1>2 DEF Defer, PacketAt, Deferrable, kernelVars
<1>4. Typed /\ d \in Node /\ pending \in [PE -> Seq(Ask \cup Order)]
  BY DEF IInv, Typed, Node
<1>5. PICK l \in Link : l = <<s, d>> /\ m \in Contents(net[l]) /\ m \in Packet
  BY <1>1, <1>3, <1>4, Shrinks
<1>6. m \in Ask \cup Order
  BY <1>3, <1>5, ByService
<1>7. Thins(N)
  <2>1. \A t \in Task : m # CODE(t)
    BY <1>3 DEF CODE, MIGRATION
  <2>2. QED BY <1>1, <1>2, <1>3, <1>4, <2>1, TakenOut
<1>8. PICK q : q = pending'
  OBVIOUS
<1>9. /\ q \in [PE -> Seq(Ask \cup Order)] /\ \A e \in PE : e # d => q[e] = pending[e]
      /\ Contents(q[d]) = Contents(pending[d]) \cup {m}
      /\ \A a : Before(q[d], a, a) => Before(pending[d], a, a) \/ (a = m /\ m \in Contents(pending[d]))
  <2>1. Defers(q, pending, d, m)
    BY <1>3, <1>8 DEF Defers
  <2>2. QED BY <1>4, <1>6, <2>1, LaterLast
<1>10. Tells(m, d)
  <2>1. l[2] = d
    BY <1>5
  <2>2. QED BY <1>5, <2>1 DEF Tells, Named
<1>11. \A e \in PE : \A a \in Contents(q[e]) : a \in Contents(pending[e]) \/ Tells(a, e)
  BY <1>9, <1>10
<1>12. \A p \in Task, e \in PE : Hosts(p, e) => Hosts(p, e)'
  BY <1>3, <1>7, IdsStay, HostsStay DEF Thins
<1>13. Worse
  BY <1>3 DEF Worse
<1>14. \A k \in Link : \A a \in Contents(net'[k]) : a \in Contents(net[k])
  BY <1>3, <1>7 DEF Thins
<1>15. QED BY <1>3, <1>4, <1>8, <1>11, <1>12, <1>13, <1>14, Settles

-----------------------------------------------------------------------------
(* Steps with which a task comes *)

\* The task is on a page when its code is no longer on its way; no page of another is taken.
LEMMA HandleCodeTracked ==
    ASSUME IInv, NoneExited, Tracked, NEW s \in Node, NEW d \in PE, HandleCode(s, d)
    PROVE  Tracked'
<1>1. PICK m : m = HeadPacket(s, d)
  OBVIOUS
<1>2. PICK N : N = Popped(s, d)
  OBVIOUS
<1>3. /\ net[<<s, d>>] # <<>> /\ m.service = "MIGRATION_CODE" /\ net' = N
      /\ \/ kernel' = [kernel EXCEPT ![d] = "error"] /\ tcbs' = tcbs
         \/ /\ FreePages(d) # {} /\ kernel' = kernel
            /\ handle_migration_code(d, search_free_TCB(d), m.task)
      /\ message_request' = message_request /\ task_location' = task_location
      /\ pending' = pending
  BY <1>1, <1>2 DEF HandleCode, PacketAt, KernelError
<1>4. Typed /\ SoundTCBs /\ d \in Node
  BY DEF IInv, Node
<1>5. /\ \A k \in Link : \A a \in Contents(N[k]) : a \in Contents(net[k])
      /\ \A k \in Link : \A a \in Contents(net[k]) :
             a \in Contents(N[k]) \/ (a = m /\ k = <<s, d>>)
      /\ m \in Packet
  BY <1>1, <1>2, <1>3, <1>4, TakenOut, SMTT(30)
<1>6. PICK t \in Task : t = m.task
  BY <1>3, <1>5, ByService
<1>7. m = CODE(t) /\ \A u \in Task : CODE(u) = m => u = t
  BY <1>3, <1>5, <1>6, ByService DEF CODE, MIGRATION
<1>8. \A k, e \in PE : <<k, e>> \in Link
  BY DEF Link, Node
<1>9. kernel'[d] = "error" \/ IsAt(t, d)'
  <2>1. CASE kernel' = [kernel EXCEPT ![d] = "error"]
    BY <1>4, <2>1 DEF Typed
  <2>2. CASE FreePages(d) # {} /\ handle_migration_code(d, search_free_TCB(d), m.task)
    <3>1. PICK i : i = search_free_TCB(d)
      OBVIOUS
    <3>2. i \in Page
      BY <2>2, <3>1, FirstPage DEF search_free_TCB, FreePages
    <3>3. PICK x : x = [tcbs[d][i] EXCEPT !.id = m.task, !.status = "MIGRATING", !.parts = {"code"}]
      OBVIOUS
    <3>4. tcbs[d][i] \in TCB
      BY <1>4, <3>2 DEF Typed
    <3>5. x \in TCB /\ x.id = t
      BY <1>6, <3>3, <3>4 DEF TCB, Part
    <3>6. tcbs' = [tcbs EXCEPT ![d][i] = x]
      BY <2>2, <3>1, <3>3 DEF handle_migration_code
    <3>7. Becomes(d, i, x)
      BY <1>4, <3>2, <3>5, <3>6, Written
    <3>8. QED BY <3>2, <3>5, <3>7 DEF Becomes, IsAt
  <2>3. QED BY <1>3, <2>1, <2>2
<1>10. \A p \in Task, e \in PE : IsAt(p, e) => IsAt(p, e)'
  <2>1. CASE tcbs' = tcbs
    BY <2>1, IdsStay
  <2>2. CASE FreePages(d) # {} /\ handle_migration_code(d, search_free_TCB(d), m.task)
    <3>1. PICK i : i = search_free_TCB(d)
      OBVIOUS
    <3>2. i \in FreePages(d)
      BY <2>2, <3>1, FirstPage DEF search_free_TCB, FreePages
    <3>3. i \in Page /\ tcbs[d][i].status = "FREE" /\ tcbs[d][i] \in TCB
      BY <1>4, <3>2 DEF FreePages, Typed
    <3>4. tcbs[d][i].id \notin Task
      BY <1>4, <3>3 DEF SoundTCBs, Sound, NoneExited
    <3>5. PICK x : x = [tcbs[d][i] EXCEPT !.id = m.task, !.status = "MIGRATING", !.parts = {"code"}]
      OBVIOUS
    <3>6. x \in TCB
      BY <1>6, <3>3, <3>5 DEF TCB, Part
    <3>7. tcbs' = [tcbs EXCEPT ![d][i] = x]
      BY <2>2, <3>1, <3>5 DEF handle_migration_code
    <3>8. Becomes(d, i, x)
      BY <1>4, <3>3, <3>6, <3>7, Written
    <3>9. QED BY <3>4, <3>8 DEF Becomes, IsAt
  <2>3. QED BY <1>3, <2>1, <2>2
<1>11. ASSUME NEW p \in Task, NEW e \in PE, Hosts(p, e)
       PROVE  kernel'[e] = "error" \/ Hosts(p, e)'
  <2>1. CASE IsAt(p, e)
    BY <1>10, <2>1 DEF Hosts
  <2>2. ASSUME NEW k \in PE, CODE(p) \in Contents(net[<<k, e>>])
        PROVE  kernel'[e] = "error" \/ Hosts(p, e)'
    <3>1. CODE(p) \in Contents(N[<<k, e>>]) \/ (CODE(p) = m /\ <<k, e>> = <<s, d>>)
      BY <1>5, <1>8, <2>2
    <3>2. CASE CODE(p) = m /\ <<k, e>> = <<s, d>>
      BY <1>7, <1>9, <3>2 DEF Hosts
    <3>3. CASE CODE(p) \in Contents(N[<<k, e>>])
      BY <1>3, <3>3 DEF Hosts
    <3>4. QED BY <3>1, <3>2, <3>3
  <2>3. QED BY <1>11, <2>1, <2>2 DEF Hosts
<1>12. Worse
  BY <1>3, <1>4 DEF Worse, Typed
<1>13. QED BY <1>3, <1>4, <1>5, <1>11, <1>12, Settles

\* The requests that come are for the task that comes; so are the locations.
LEMMA HandlePartTracked ==
    ASSUME IInv, Tracked, NEW s \in Node, NEW d \in PE, HandlePart(s, d)
    PROVE  Tracked'
<1>1. PICK m : m = HeadPacket(s, d)
  OBVIOUS
<1>2. PICK i : i = searchTCB(d, m.task)
  OBVIOUS
<1>3. PICK N : N = Popped(s, d)
  OBVIOUS
<1>4. /\ net[<<s, d>>] # <<>> /\ pending' = pending
      /\ m.service \in {"MIGRATION_TCB", "MIGRATION_TASK_LOCATION", "MIGRATION_MSG_REQUEST",
                        "MIGRATION_STACK", "MIGRATION_DATA_BSS"}
      /\ i = 0 => Stopped(d, message_request, N)
      /\ i # 0 =>
           /\ net' = N
           /\ \/ /\ \/ handle_migration_TCB(d, i, m.task) \/ handle_migration_stack(d, i)
                    \/ handle_migration_DATA_BSS(d, i)
                 /\ message_request' = message_request /\ task_location' = task_location
              \/ /\ m.service = "MIGRATION_TASK_LOCATION"
                 /\ handle_migration_task_location(d, m.data)
                 /\ tcbs' = tcbs /\ message_request' = message_request
              \/ /\ handle_migration_request_msg(d, m.task, m.data)
                 /\ tcbs' = tcbs /\ task_location' = task_location
           /\ kernel' = kernel
  BY <1>1, <1>2, <1>3 DEF HandlePart, PacketAt
<1>5. Typed /\ d \in Node
  BY DEF IInv, Node
<1>6. PICK l \in Link : l = <<s, d>> /\ m \in Contents(net[l]) /\ m \in Packet
  BY <1>1, <1>4, <1>5, Shrinks
<1>7. m \in TaskPart /\ \A u \in Task : m # CODE(u)
  BY <1>4, <1>6, ByService DEF CODE, MIGRATION
<1>8. Thins(N)
  BY <1>1, <1>3, <1>4, <1>5, <1>7, TakenOut
<1>9. PICK t \in Task : m.task = t /\ t \notin RealTime
  <2>1. PICK t \in Task, j \in Journey :
              m.task = t /\ On(t, j, net, pending) /\ (m # CODE(t) => j.phase = "left")
    BY <1>1, <1>4, <1>7, PartArrives
  <2>2. QED BY <1>7, <2>1 DEF On, Under
<1>10. CASE i = 0
  BY <1>4, <1>5, <1>8, <1>10, StoppedTracked
<1>11. CASE i # 0
  <2>1. i \in Page /\ IsAt(t, d)
    BY <1>2, <1>9, <1>11, Searched
  <2>2. \A p \in Task, e \in PE : IsAt(p, e) => IsAt(p, e)'
    <3>1. CASE tcbs' = tcbs
      BY <3>1, IdsStay
    <3>2. CASE handle_migration_TCB(d, i, t) \/ handle_migration_stack(d, i) \/ handle_migration_DATA_BSS(d, i)
      <4>1. PICK part, x : PartIn(d, i, part, x)
        BY <1>5, <1>9, <2>1, <3>2, PartOfTCB
      <4>2. Becomes(d, i, x) /\ x.id = tcbs[d][i].id
        BY <4>1 DEF PartIn
      <4>3. QED BY <2>1, <4>2, IdStays
    <3>3. QED BY <1>4, <1>9, <1>11, <3>1, <3>2
  <2>3. \A p \in Task, e \in PE : Hosts(p, e) => Hosts(p, e)'
    BY <1>4, <1>8, <1>11, <2>2, HostsStay DEF Thins
  <2>4. Worse
    BY <1>4, <1>11 DEF Worse
  <2>5. Hosts(t, d)'
    BY <1>9, <2>1, <2>3 DEF Hosts
  <2>6. \A k \in Link : \A a \in Contents(net'[k]) : a \in Contents(net[k])
    BY <1>4, <1>8, <1>11 DEF Thins
  <2>7. CASE task_location' = task_location
    <3>1. \A e \in PE : \A r \in message_request'[e] :
              r \in message_request[e] \/ Hosts(r.requested, e)'
      <4>1. CASE message_request' = message_request
        BY <4>1
      <4>2. CASE handle_migration_request_msg(d, t, m.data)
        <5>1. \A r \in RequestsTo(m.data, t) : r.requested = t
          BY DEF RequestsTo
        <5>2. message_request' = [message_request EXCEPT ![d] = @ \cup RequestsTo(m.data, t)]
          BY <4>2 DEF handle_migration_request_msg
        <5>3. QED BY <1>5, <2>5, <5>1, <5>2 DEF Typed
      <4>3. QED BY <1>4, <1>9, <1>11, <4>1, <4>2
    <3>2. QED BY <1>4, <1>5, <2>3, <2>4, <2>6, <2>7, <3>1, Settles
  <2>8. CASE /\ m.service = "MIGRATION_TASK_LOCATION" /\ message_request' = message_request
             /\ handle_migration_task_location(d, m.data)
    <3>1. m \in Locations
      BY <1>7, <2>8 DEF TaskPart, Bare, RequestList
    <3>2. \A e \in PE, p \in Task :
              task_location'[e][p] = IF e = d /\ task_location[d][p] = NoPE THEN m.data[p]
                                     ELSE task_location[e][p]
      BY <1>5, <2>8 DEF handle_migration_task_location, Typed
    <3>3. ASSUME NEW e \in PE, NEW p \in Task, NEW f \in PE, task_location'[e][p] = f
          PROVE  Named(p, f)
      <4>1. CASE task_location[e][p] = f
        BY <4>1 DEF Named
      <4>2. CASE m.data[p] = f
        BY <1>6, <3>1, <4>2 DEF Named, Names
      <4>3. QED BY <3>2, <3>3, <4>1, <4>2
    <3>4. \A p \in Task, e \in PE : PassesOn(e, p) => PassesOn(e, p)'
      BY <3>2 DEF PassesOn
    <3>5. \A p \in Task, e \in PE : Hosts(p, e) => Answers(p, e)'
      BY <2>3 DEF Answers
    <3>6. \A k \in Link : \A a \in Contents(net'[k]) : \A p \in Task, f \in PE :
              Names(a, k[2], p, f) => Named(p, f)
      BY <2>6 DEF Named
    <3>7. \A e \in PE : \A a \in Contents(pending'[e]) : \A p \in Task, f \in PE :
              Names(a, e, p, f) => Named(p, f)
      BY <1>4 DEF Named
    <3>8. ASSUME NEW e \in PE, NEW r \in message_request'[e]
          PROVE  kernel'[e] = "error" \/ Hosts(r.requested, e)'
      <4>1. r \in message_request[e] /\ r.requested \in Task
        BY <1>5, <2>8, <3>8 DEF Typed, Requests
      <4>2. QED BY <1>4, <1>11, <2>3, <4>1 DEF Tracked
    <3>9. QED BY <2>4, <3>3, <3>4, <3>5, <3>6, <3>7, <3>8, Follow
  <2>9. QED BY <1>4, <1>11, <2>7, <2>8
<1>12. QED BY <1>10, <1>11

-----------------------------------------------------------------------------
(* The invariant of the places *)

\* No step takes a call back.
LEMMA CallsGrow ==
    ASSUME Typed, [Next]_vars, NEW u \in Task
    PROVE  pc'[u] >= pc[u]
<1>1. pc \in [Task -> Nat]
  BY DEF Typed
<1>2. SUFFICES \/ pc' = pc
               \/ \E p \in Task : pc' = [pc EXCEPT ![p] = @ + 1]
               \/ \E p, c \in Task : pc' = [pc EXCEPT ![p] = @ + 1, ![c] = @ + 1]
  BY <1>1
<1>3. ASSUME NEW d \in PE, NEW i \in Page, NEW r \in message_request[d],
             SendLocal(d, i, r) \/ SendRemote(d, i, r)
      PROVE  \/ pc' = pc
             \/ \E p \in Task : pc' = [pc EXCEPT ![p] = @ + 1]
             \/ \E p, c \in Task : pc' = [pc EXCEPT ![p] = @ + 1, ![c] = @ + 1]
  <2>1. r.requested \in Task /\ r.requester \in Task
    BY DEF Typed, Requests
  <2>2. QED BY <1>3, <2>1 DEF SendLocal, SendRemote
<1>4. ASSUME NEW d \in PE, NEW s \in Node, HandleDelivery(s, d)
      PROVE  \/ pc' = pc
             \/ \E p \in Task : pc' = [pc EXCEPT ![p] = @ + 1]
  <2>1. HeadPacket(s, d) \in Packet /\ HeadPacket(s, d).service = "MESSAGE_DELIVERY"
    <3>1. d \in Node /\ net[<<s, d>>] # <<>>
      BY <1>4 DEF HandleDelivery, PacketAt, Node
    <3>2. QED BY <1>4, <3>1, Shrinks DEF HandleDelivery
  <2>2. HeadPacket(s, d).consumer \in Task
    BY <2>1, ByService DEF Answer
  <2>3. QED BY <1>4, <2>2 DEF HandleDelivery
<1>5. ASSUME NEW d \in PE, NEW i \in Page, Receive(d, i) \/ Exit(d, i)
      PROVE  pc' = pc
  BY <1>5 DEF Receive, Exit
<1>6. ASSUME NEW d \in PE, NEW s \in Node,
             HandleNow(s, d) \/ HandleCode(s, d) \/ HandlePart(s, d) \/ Defer(s, d)
      PROVE  pc' = pc
  BY <1>6 DEF HandleNow, HandleCode, HandlePart, Defer
<1>7. ASSUME NEW d \in PE, HandlePending(d) \/ MigrationReported(d)
      PROVE  pc' = pc
  BY <1>7 DEF HandlePending, MigrationReported
<1>8. ASSUME NEW t \in Task, NEW d \in PE, NEW to \in PE, OrderMigration(t, d, to)
      PROVE  pc' = pc
  BY <1>8 DEF OrderMigration
<1>9. CASE UNCHANGED vars
  BY <1>9 DEF vars
<1>10. QED BY <1>3, <1>4, <1>5, <1>6, <1>7, <1>8, <1>9 DEF Next, KernelStep, TaskStep, Handle

LEMMA NoneHadExited ==
    ASSUME Typed, Typed', [Next]_vars, NoneExited'
    PROVE  NoneExited
<1> SUFFICES ASSUME NEW t \in Task, Exited(t) PROVE Exited(t)'
  BY DEF NoneExited
<1>1. PICK n : n = Len(Program[t])
  OBVIOUS
<1>2. n \in Nat
  BY <1>1, MigrationAssumption
<1>3. pc[t] \in 1..n + 1 /\ pc'[t] \in 1..n + 1
  BY <1>1 DEF Typed
<1>4. pc'[t] >= pc[t]
  BY CallsGrow
<1>5. ~(pc[t] <= n)
  <2>1. \A k \in 1..n : Program[t][k].op \in {"send", "receive"}
    <3>1. PICK s : s = Program[t]
      OBVIOUS
    <3> DEFINE S == [op : {"send", "receive"}, peer : Task]
    <3>2. s \in Seq(S)
      BY <3>1, MigrationAssumption
    <3>3. \A x \in S : x.op \in {"send", "receive"}
      OBVIOUS
    <3> HIDE DEF S
    <3>4. \A k \in 1..n : s[k] \in S
      BY <1>1, <3>1, <3>2
    <3>5. QED BY <3>1, <3>3, <3>4
  <2>2. pc[t] <= n => CallOf(t) = Program[t][pc[t]]
    BY <1>1 DEF CallOf
  <2>3. QED BY <1>3, <2>1, <2>2 DEF Exited
<1>6. pc'[t] = pc[t]
  BY <1>2, <1>3, <1>4, <1>5
<1>7. QED BY <1>6 DEF Exited, CallOf

\* Every step preserves where the requests may go.
LEMMA NextTracked ==
    ASSUME IInv, IInv', TInv, [Next]_vars
    PROVE  TInv'
<1>1. SUFFICES ASSUME NoneExited' PROVE Tracked'
  BY DEF TInv
<1>2. NoneExited /\ Tracked /\ Typed
  <2>1. Typed /\ Typed'
    BY DEF IInv
  <2>2. NoneExited
    BY <1>1, <2>1, NoneHadExited
  <2>3. QED BY <2>1, <2>2 DEF TInv
<1>3. CASE UNCHANGED vars
  <2>1. /\ tcbs' = tcbs /\ kernel' = kernel /\ message_request' = message_request
        /\ pending' = pending /\ net' = net /\ task_location' = task_location
    BY <1>3 DEF vars, kernelVars
  <2>2. \A p \in Task, e \in PE : Hosts(p, e) => Hosts(p, e)'
    BY <2>1, IdsStay, HostsStay
  <2>3. Worse
    BY <2>1 DEF Worse
  <2>4. QED BY <1>2, <2>1, <2>2, <2>3, Settles
<1>4. ASSUME NEW d \in PE, NEW i \in Page, TaskStep(d, i)
      PROVE  Tracked'
  <2>1. ASSUME NEW r \in message_request[d], SendLocal(d, i, r) PROVE Tracked'
    BY <1>2, <2>1, SendLocalTracked
  <2>2. ASSUME NEW r \in message_request[d], SendRemote(d, i, r) PROVE Tracked'
    BY <1>2, <2>2, SendRemoteTracked
  <2>3. CASE Receive(d, i)
    BY <1>2, <2>3, ReceiveTracked
  <2>4. CASE Exit(d, i)
    <3>1. Exited(tcbs[d][i].id) /\ tcbs[d][i].id \in Task
      BY <2>4, MigrationAssumption DEF Exit, Exited
    <3>2. QED BY <1>2, <3>1 DEF NoneExited
  <2>5. QED BY <1>4, <2>1, <2>2, <2>3, <2>4 DEF TaskStep
<1>5. ASSUME NEW d \in PE, NEW s \in Node, Handle(s, d) \/ Defer(s, d)
      PROVE  Tracked'
  <2>1. CASE HandleNow(s, d)
    BY <1>2, <2>1, HandleNowTracked
  <2>2. CASE HandleDelivery(s, d)
    BY <1>2, <2>2, HandleDeliveryTracked
  <2>3. CASE HandleCode(s, d)
    BY <1>2, <2>3, HandleCodeTracked
  <2>4. CASE HandlePart(s, d)
    BY <1>2, <2>4, HandlePartTracked
  <2>5. CASE Defer(s, d)
    BY <1>2, <2>5, DeferTracked
  <2>6. QED BY <1>5, <2>1, <2>2, <2>3, <2>4, <2>5 DEF Handle
<1>6. ASSUME NEW d \in PE, HandlePending(d)
      PROVE  Tracked'
  BY <1>2, <1>6, HandlePendingTracked
<1>7. ASSUME NEW t \in Task, NEW d \in PE, NEW to \in PE, OrderMigration(t, d, to)
      PROVE  Tracked'
  BY <1>2, <1>7, OrderMigrationTracked
<1>8. ASSUME NEW d \in PE, MigrationReported(d)
      PROVE  Tracked'
  BY <1>2, <1>8, MigrationReportedTracked
<1>9. QED BY <1>3, <1>4, <1>5, <1>6, <1>7, <1>8 DEF Next, KernelStep

\* At first the locations are the homes of the tasks.
LEMMA InitTracked ==
    ASSUME Init
    PROVE  TInv
<1>1. /\ message_request = [d \in PE |-> {}] /\ pending = [d \in PE |-> <<>>]
      /\ net = [l \in Link |-> <<>>]
      /\ task_location = [d \in PE |-> IF TasksAt(d) = {} THEN [t \in Task |-> NoPE] ELSE Home]
      /\ tcbs = [d \in PE |-> [i \in Page |-> IF i <= Cardinality(TasksAt(d))
                                              THEN ReadyTCB(FirstPages(d)[i]) ELSE FreeTCB]]
  BY DEF Init, Link
<1>2. /\ \A e \in PE : Contents(pending[e]) = {}
      /\ \A l \in Link : Contents(net[l]) = {}
  BY <1>1 DEF Contents
<1>3. \A p \in Task, d \in PE : Named(p, d) => d = Home[p]
  BY <1>1, <1>2, MigrationAssumption DEF Named
<1>4. ASSUME NEW p \in Task PROVE IsAt(p, Home[p])
  <2>1. PICK d \in PE : d = Home[p]
    BY MigrationAssumption
  <2>2. PICK n : n = Cardinality(TasksAt(d))
    OBVIOUS
  <2>3. /\ n \in Nat /\ n <= MAX_LOCAL_TASKS
        /\ \A t \in TasksAt(d) : \E i \in 1..n : FirstPages(d)[i] = t
    BY <2>2, Allocated
  <2>4. PICK i \in 1..n : FirstPages(d)[i] = p
    BY <2>1, <2>3 DEF TasksAt
  <2>5. i \in Page /\ i <= n
    BY <2>3, <2>4, MigrationAssumption DEF Page
  <2>6. tcbs[d][i] = ReadyTCB(p)
    BY <1>1, <2>2, <2>4, <2>5
  <2>7. ReadyTCB(p).id = p
    BY DEF ReadyTCB, FreeTCB
  <2>8. QED BY <2>1, <2>5, <2>6, <2>7 DEF IsAt
<1>5. QED BY <1>1, <1>3, <1>4 DEF TInv, Tracked, Answers, Hosts

-----------------------------------------------------------------------------
(* Where the requests are *)

LEMMA HostsHeld ==
    ASSUME Typed, NEW p \in Task, NEW d \in PE, Hosts(p, d)
    PROVE  d \in Held(p)
<1>1. CASE IsAt(p, d)
  BY <1>1, Searched DEF Held
<1>2. ASSUME NEW s \in PE, CODE(p) \in Contents(net[<<s, d>>])
      PROVE  d \in Held(p)
  <2>1. PICK l \in Link : l = <<s, d>>
    BY DEF Link, Node
  <2>2. PICK k \in DOMAIN net[l] : net[l][k] = CODE(p)
    BY <1>2, <2>1 DEF Contents
  <2>3. CODE(p).service = "MIGRATION_CODE" /\ CODE(p).task = p
    BY DEF CODE, MIGRATION
  <2>4. l \in InFlight(p, "MIGRATION_CODE")
    BY <2>2, <2>3 DEF InFlight, Link
  <2>5. QED BY <2>1, <2>4 DEF Held
<1>3. QED BY <1>1, <1>2 DEF Hosts

\* A packet that an errand is at is one its consumer waits for.
LEMMA ThereIfSent ==
    ASSUME NEW c, NEW R, NEW N, NEW q, NEW l, NEW m, There(c, SentOn(l, m), R, N, q)
    PROVE  Right(c, m, l[2])
<1>1. PICK x : x = SentOn(l, m)
  OBVIOUS
<1>2. There(c, x, R, N, q)
  BY <1>1
<1>3. CASE x = None
  BY <1>1, <1>3 DEF None, SentOn
<1>4. CASE \E d \in PE : \E r \in R[d] : x = KeptAt(d, r)
  BY <1>1, <1>4 DEF KeptAt, SentOn
<1>5. CASE \E d \in PE : \E a \in Contents(q[d]) : x = DeferredAt(d, a)
  BY <1>1, <1>5 DEF DeferredAt, SentOn
<1>6. CASE \E k \in Link : \E a \in Contents(N[k]) : x = SentOn(k, a) /\ Right(c, a, k[2])
  BY <1>1, <1>6 DEF SentOn
<1>7. QED BY <1>2, <1>3, <1>4, <1>5, <1>6, Zenon DEF There

\* The requests a packet carries are to its task.
LEMMA CarriedAlong ==
    ASSUME RInv, NEW p \in Task, NEW c \in Task, NEW l \in Link, NEW m \in Contents(net[l]),
           Carried(m, p, c)
    PROVE  m \in TaskPart /\ m.task = p /\ m # CODE(p)
<1>1. Typed /\ m \in Packet
  BY DEF RInv, IInv, Typed, Contents
<1>2. m \in RequestList
  BY <1>1 DEF Carried, Packet, TaskPart, Bare, Locations, Order, Report, Ask, Answer
<1>3. PICK r \in m.data : r.requested = p /\ r.requester = c
  BY DEF Carried
<1>4. Concerns(m, c)
  BY <1>2, <1>3 DEF Concerns
<1>5. PICK x : Only(c, x, message_request, net, pending) /\ There(c, x, message_request, net, pending)
  BY DEF RInv, Fine, Errand
<1>6. x = SentOn(l, m)
  BY <1>4, <1>5 DEF Only
<1>7. There(c, SentOn(l, m), message_request, net, pending)
  BY <1>5, <1>6
<1>8. Right(c, m, l[2])
  BY <1>7, ThereIfSent
<1>9. m.task = p
  BY <1>2, <1>3, <1>8 DEF Right
<1>10. m.service = "MIGRATION_MSG_REQUEST"
  BY DEF Carried
<1>11. CODE(p).service = "MIGRATION_CODE"
  BY DEF CODE, MIGRATION
<1>12. QED BY <1>2, <1>9, <1>10, <1>11 DEF TaskPart

LEMMA OnTrack ==
    ASSUME RInv, Tracked, NoErrorLoop
    PROVE  RequestOnTrack
<1>1. Typed /\ Leads /\ \A d \in PE : kernel[d] # "error"
  BY PartsLead DEF RInv, IInv, NoErrorLoop
<1> SUFFICES ASSUME NEW e \in Edge, NEW d \in PE
             PROVE  /\ Matching(d, e[1], e[2]) # {} => d \in Held(e[1])
                    /\ \A s \in Node : (\E k \in DOMAIN net[<<s, d>>] : Carried(net[<<s, d>>][k], e[1], e[2]))
                              => <<s, d>> \in InFlight(e[1], "MIGRATION_DATA_BSS")
                    /\ \A m \in RequestsAt(d) : IsRequest(m, e[1], e[2]) =>
                              d \in Held(e[1]) \/ PassesOn(d, e[1])
  BY DEF RequestOnTrack
<1>2. PICK p \in Task, c \in Task : p = e[1] /\ c = e[2]
  BY DEF Edge
<1>3. ASSUME Matching(d, p, c) # {}
      PROVE  d \in Held(p)
  <2>1. PICK r \in message_request[d] : r.requested = p
    BY <1>3 DEF Matching
  <2>2. Hosts(p, d)
    BY <1>1, <2>1 DEF Tracked
  <2>3. QED BY <1>1, <2>2, HostsHeld
<1>4. ASSUME NEW s \in Node, NEW k \in DOMAIN net[<<s, d>>], Carried(net[<<s, d>>][k], p, c)
      PROVE  <<s, d>> \in InFlight(p, "MIGRATION_DATA_BSS")
  <2>1. PICK l \in Link : l = <<s, d>>
    BY DEF Link, Node
  <2>2. PICK m \in Contents(net[l]) : Carried(m, p, c)
    BY <1>4, <2>1 DEF Contents
  <2>3. m \in TaskPart /\ m.task = p /\ m # CODE(p)
    BY <2>2, CarriedAlong
  <2>4. DATA_BSS(p) \in Contents(net[l])
    BY <1>1, <2>3 DEF Leads
  <2>5. PICK n \in DOMAIN net[l] : net[l][n] = DATA_BSS(p)
    BY <2>4 DEF Contents
  <2>6. DATA_BSS(p).service = "MIGRATION_DATA_BSS" /\ DATA_BSS(p).task = p
    BY DEF DATA_BSS, MIGRATION
  <2>7. l \in InFlight(p, "MIGRATION_DATA_BSS")
    BY <2>5, <2>6 DEF InFlight, Link
  <2>8. QED BY <2>1, <2>7
<1>5. ASSUME NEW m \in RequestsAt(d), IsRequest(m, p, c)
      PROVE  d \in Held(p) \/ PassesOn(d, p)
  <2>1. m \in Contents(pending[d]) \/ \E s \in Node : m \in Contents(net[<<s, d>>])
    BY DEF RequestsAt, Contents
  <2>2. m.service = "MESSAGE_REQUEST" /\ m.producer = p
    BY <1>5 DEF IsRequest
  <2>3. Named(p, d)
    <3>1. CASE m \in Contents(pending[d])
      <4>1. m \in Ask \cup Order
        BY <1>1, <3>1 DEF Typed, Contents
      <4>2. m \in Ask
        BY <2>2, <4>1 DEF Order
      <4>3. QED BY <2>2, <3>1, <4>2, AskNames
    <3>2. ASSUME NEW s \in Node, m \in Contents(net[<<s, d>>])
          PROVE  Named(p, d)
      <4>1. PICK l \in Link : l = <<s, d>>
        BY DEF Link, Node
      <4>2. l[2] = d /\ m \in Contents(net[l]) /\ net[l] \in Seq(Packet)
        BY <1>1, <3>2, <4>1 DEF Typed
      <4>3. m \in Packet
        BY <4>2 DEF Contents
      <4>4. m \in Ask
        BY <2>2, <4>3, ByService
      <4>5. QED BY <2>2, <4>2, <4>4, AskNames
    <3>3. QED BY <2>1, <3>1, <3>2
  <2>4. Answers(p, d)
    BY <2>3 DEF Tracked
  <2>5. QED BY <1>1, <2>4, HostsHeld DEF Answers
<1>6. QED BY <1>2, <1>3, <1>4, <1>5

-----------------------------------------------------------------------------
(* The theorems *)

\* Whatever moves were made, and while they are made, a consumer that waits has one
\* request, kept, deferred, on its way or carried along with the producer, as long as
\* no kernel has stopped; and none when it does not wait, or its message is on its way.
THEOREM OneRequestEach ==
    ASSUME \A t \in RealTime : Target[t] = {}
    PROVE  Spec => [](NoErrorLoop => RequestInOnePlace)
<1>1. Init => RInv
  BY InitFine
<1>2. RInv /\ [Next]_vars => RInv'
  BY NextFine
<1>3. RInv => (NoErrorLoop => RequestInOnePlace)
  BY OneRequestIfRInv
<1>4. QED BY <1>1, <1>2, <1>3, PTL DEF Spec

\* As long as, besides, no task has come to its exit, the place is one from which the
\* request gets to its producer: kept where the producer is or where its code is coming,
\* carried on the link on which the last part of the producer follows, deferred at or on
\* its way to a PE that has the producer or knows where it went. (After the exit of its
\* last task a PE no longer knows where the others went.)
THEOREM RequestFollows ==
    ASSUME \A t \in RealTime : Target[t] = {}
    PROVE  Spec => [](NoErrorLoop /\ NoneExited => RequestFollowsProducer)
<1>1. Init => RInv /\ TInv
  BY InitFine, InitTracked
<1>2. RInv /\ TInv /\ [Next]_vars => RInv' /\ TInv'
  BY NextFine, NextTracked DEF RInv
<1>3. RInv /\ TInv => (NoErrorLoop /\ NoneExited => RequestFollowsProducer)
  BY OneRequestIfRInv, OnTrack DEF TInv, RequestFollowsProducer
<1>4. QED BY <1>1, <1>2, <1>3, PTL DEF Spec

\* Migration is transparent to the tasks, even to those of a kernel that has stopped:
\* a message is accepted only when its consumer waits for that producer, and comes
\* once and in order, before the consumer goes on, wherever the two have moved.
THEOREM MigrationTransparent ==
    ASSUME \A t \in RealTime : Target[t] = {}
    PROVE  Spec => ImplementsRendezvous
<1>1. Init => RInv /\ Rendezvouses!Init
  <2> SUFFICES ASSUME Init PROVE RInv /\ Rendezvouses!Init
    OBVIOUS
  <2>1. RInv /\ (\A c \in Task : ~Waiting(c))
        /\ \A p \in Task, c \in Task : Accepted(p, c) = 0 /\ Received(p, c) = 0
    BY InitFine
  <2>2. \A e \in Edge : e[1] \in Task /\ e[2] \in Task
    BY DEF Edge
  <2>3. QED BY <2>1, <2>2, Views DEF Rendezvouses!Init
<1>2. RInv /\ [Next]_vars => RInv' /\ [Rendezvouses!Next]_(Rendezvouses!vars)
  BY NextFine, NoticedStep DEF RInv, IInv
<1>3. QED BY <1>1, <1>2, PTL DEF Spec, ImplementsRendezvous, Rendezvouses!Spec
=============================================================================
