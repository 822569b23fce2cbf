---------------------------- MODULE ApplicationRun ----------------------------
(***************************************************************************)
(* The applications over what the kernel promises their tasks (the         *)
(* Rendezvous that TaskCommunication implements): a message is taken from  *)
(* a producer when its consumer waits for it, and arrives before the       *)
(* consumer goes on. Asking for the message is part of being at the call.  *)
(***************************************************************************)
EXTENDS Applications, FiniteSets

CONSTANT Apps           \* the applications that run, each on its own

ASSUME AppsAssumption == Apps \subseteq DOMAIN Application

VARIABLES
    app,      \* the application
    at,       \* where each task is: the loop, the round of it and the call
    inflight  \* the messages on their way: producer, consumer and words

vars == <<app, at, inflight>>

Task == DOMAIN Application[app]
Ended(t) == at[t].loop > Len(Application[app][t])
CallOf(t) == Application[app][t][at[t].loop].calls[at[t].call]

\* The place after the current call of t.
After(t) ==
    LET loop == Application[app][t][at[t].loop]
    IN  IF at[t].call < Len(loop.calls) THEN [at[t] EXCEPT !.call = @ + 1]
        ELSE IF at[t].round < loop.times THEN [at[t] EXCEPT !.round = @ + 1, !.call = 1]
        ELSE [loop |-> at[t].loop + 1, round |-> 1, call |-> 1]

Calls(t, op, peer) == ~Ended(t) /\ CallOf(t).op = op /\ CallOf(t).peer = peer
Coming(p, c) == \E m \in inflight : m.producer = p /\ m.consumer = c

-----------------------------------------------------------------------------

Init ==
    /\ app \in Apps
    /\ at = [t \in DOMAIN Application[app] |-> [loop |-> 1, round |-> 1, call |-> 1]]
    /\ inflight = {}

\* Send returns: the consumer waits in Receive, the message leaves.
Accept(p) ==
    /\ ~Ended(p) /\ CallOf(p).op = "send"
    /\ LET c == CallOf(p).peer IN
        /\ Calls(c, "receive", p) /\ ~Coming(p, c)
        /\ inflight' = inflight \cup
                {[producer |-> p, consumer |-> c, words |-> CallOf(p).most]}
    /\ at' = [at EXCEPT ![p] = After(p)]
    /\ UNCHANGED app

\* Receive returns.
Arrive(m) ==
    /\ inflight' = inflight \ {m}
    /\ at' = [at EXCEPT ![m.consumer] = After(m.consumer)]
    /\ UNCHANGED app

Next == (\E t \in Task : Accept(t)) \/ (\E m \in inflight : Arrive(m))

Spec == Init /\ [][Next]_vars

\* A ready task is scheduled, and a request answered (Answered of TaskCommunication).
FairSpec == Spec /\ WF_vars(Next)

-----------------------------------------------------------------------------
(* Properties *)

\* A message is on its way only to a task that waits for it in Receive.
TypeOK ==
    /\ app \in Apps
    /\ DOMAIN at = Task
    /\ \A t \in Task : Ended(t) \/ /\ at[t].round \in 1..Application[app][t][at[t].loop].times
                                   /\ CallOf(t).peer \in Task \ {t}
    /\ \A m \in inflight : Calls(m.consumer, "receive", m.producer)

\* Whose consumer reads more words than the message has: the filter of
\* audio_video, which runs over the samples as they are after decompression.
ShortFor == {"FIR"}

\* Producer and consumer are separate programs, compiled apart: each message has
\* the words its consumer reads, and no more than it has room for.
LengthsAgree ==
    \A m \in inflight :
        /\ m.words <= CallOf(m.consumer).most
        /\ m.consumer \notin ShortFor => CallOf(m.consumer).least <= m.words

\* Send and Receive block, without a timeout, and no task ever tests for a message:
\* no tasks wait for each other in a circle, or for one that has ended, and the
\* numbers of rounds of producers and consumers agree, so that every task reaches
\* its exit(), its page is freed and its cluster gets the resources back.
AllTasksExit == <>(\A t \in Task : Ended(t))

=============================================================================
