--------------------------- MODULE MCTaskMigration ---------------------------
(***************************************************************************)
(* Instances of TaskMigration: a pipeline source -> filter -> sink. The    *)
(* filter is moved while its neighbours ask it for messages, wait for      *)
(* it, or sit where it comes by.                                           *)
(***************************************************************************)
EXTENDS TaskMigration, TLC

CONSTANTS pe1, pe2, pe3, source, filter, sink

Send(t) == [op |-> "send", peer |-> t]
Recv(t) == [op |-> "receive", peer |-> t]

\* The source and the sink each on a PE of their own.
MCHome == (source :> pe3) @@ (filter :> pe1) @@ (sink :> pe2)

MCProgram == (source :> <<Send(filter), Send(filter)>>)
             @@ (filter :> <<Recv(source), Send(sink), Recv(source), Send(sink)>>)
             @@ (sink :> <<Recv(filter), Recv(filter)>>)

\* The source moves in with the sink; the filter goes to the PE of the sink and
\* may come back. The sink, which exits, stays.
Gather == (source :> {pe2}) @@ (filter :> {pe1, pe2}) @@ (sink :> {})
SourceOnceFilterTwice == (source :> 1) @@ (filter :> 2) @@ (sink :> 0)
OnlySink == {sink}

\* The filter goes over the PE of the source, which exits when it has sent all.
OverTheSource == (source :> {}) @@ (filter :> {pe2, pe3}) @@ (sink :> {})
FilterTwice == (source :> 0) @@ (filter :> 2) @@ (sink :> 0)
SourceAndSink == {source, sink}

=============================================================================
