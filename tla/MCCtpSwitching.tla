--------------------------- MODULE MCCtpSwitching ---------------------------
EXTENDS CtpSwitching

\* Task a on PE 1 sends to c and d on PE 2, task e on PE 1 also sends to c.
MCHome == [a |-> 1, c |-> 2, d |-> 2, e |-> 1]
MCEdge == {<<"a", "c">>, <<"a", "d">>, <<"e", "c">>}

TwoManaged == {<<"a", "c">>, <<"a", "d">>}
OneManaged == {<<"a", "c">>}

=============================================================================
