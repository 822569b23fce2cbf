------------------------- MODULE MCTaskCommunication -------------------------
EXTENDS TaskCommunication

\* One application whose tasks a, b run on PE 1 and c, d on PE 2.
MCAppOf == [t \in Task |-> 1]
MCHome  == [a |-> 1, b |-> 1, c |-> 2, d |-> 2]

\* c receives from a through a circuit, the others from each other by packets
\* in both directions and by a local copy.
AllEdges == {<<"a", "c">>, <<"d", "b">>, <<"a", "b">>, <<"b", "c">>}
OneCircuit == {<<"a", "c">>}

\* A second message to c follows the first while that one may be under way.
TwoToC == [e \in Edge |-> IF e[2] = "c" THEN 2 ELSE 1]
TwoEach == [e \in Edge |-> 2]

\* What fits in the buffers of the NoC: every packet, all but the deliveries
\* of PE 1.
ShortMessages == Service \X PE
LongFromOne == ShortMessages \ {<<"MESSAGE_DELIVERY", 1>>}

=============================================================================
