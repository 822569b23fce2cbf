------------------------------ MODULE Rendezvous ------------------------------
(***************************************************************************)
(* What Send() and Receive() promise to the tasks (api.h): a message is    *)
(* accepted from a producer only when its consumer waits for that          *)
(* producer, and every accepted message reaches the consumer once and in   *)
(* order, before the consumer continues.                                   *)
(***************************************************************************)
EXTENDS Naturals

CONSTANTS Task, Edge, NoTask

VARIABLES
    wants,     \* the producer each consumer waits for, or NoTask
    put,       \* messages accepted from the producer, per edge
    got        \* messages received by the consumer, per edge

vars == <<wants, put, got>>

Init ==
    /\ wants = [t \in Task |-> NoTask]
    /\ put = [e \in Edge |-> 0]
    /\ got = [e \in Edge |-> 0]

Ask(p, c) ==
    /\ wants[c] = NoTask
    /\ wants' = [wants EXCEPT ![c] = p]
    /\ UNCHANGED <<put, got>>

\* The producer is released; the message is on its way.
Accept(p, c) ==
    /\ wants[c] = p /\ put[<<p, c>>] = got[<<p, c>>]
    /\ put' = [put EXCEPT ![<<p, c>>] = @ + 1]
    /\ UNCHANGED <<wants, got>>

Arrive(p, c) ==
    /\ wants[c] = p /\ put[<<p, c>>] = got[<<p, c>>] + 1
    /\ got' = [got EXCEPT ![<<p, c>>] = @ + 1]
    /\ wants' = [wants EXCEPT ![c] = NoTask]
    /\ UNCHANGED put

\* Producer and consumer on the same PE.
Copy(p, c) ==
    /\ wants[c] = p /\ put[<<p, c>>] = got[<<p, c>>]
    /\ put' = [put EXCEPT ![<<p, c>>] = @ + 1]
    /\ got' = [got EXCEPT ![<<p, c>>] = @ + 1]
    /\ wants' = [wants EXCEPT ![c] = NoTask]

Next ==
    \E e \in Edge :
        \/ Ask(e[1], e[2]) \/ Accept(e[1], e[2])
        \/ Arrive(e[1], e[2]) \/ Copy(e[1], e[2])

Spec == Init /\ [][Next]_vars

=============================================================================
