---------------------------- MODULE ServiceQueue ----------------------------
(***************************************************************************)
(* What the kernel expects of its pending services: a queue of at most     *)
(* PENDING_SERVICE_TAM packets, handled in the order of their arrival,     *)
(* that stops the kernel when one more is added.                           *)
(***************************************************************************)
EXTENDS Naturals, Sequences

CONSTANTS ServiceHeader, PENDING_SERVICE_TAM, NoService

VARIABLES
    queue,     \* the services deferred and not yet handled
    service,   \* the service the kernel handles, or NoService
    halted     \* the kernel stopped on a full queue

vars == <<queue, service, halted>>

Init == queue = <<>> /\ service = NoService /\ halted = FALSE

Add(h) ==
    /\ ~halted /\ service = NoService /\ Len(queue) < PENDING_SERVICE_TAM
    /\ queue' = Append(queue, h)
    /\ UNCHANGED <<service, halted>>

Overflow ==
    /\ ~halted /\ service = NoService /\ Len(queue) = PENDING_SERVICE_TAM
    /\ halted' = TRUE
    /\ UNCHANGED <<queue, service>>

Take ==
    /\ ~halted /\ service = NoService /\ queue # <<>>
    /\ service' = Head(queue)
    /\ queue' = Tail(queue)
    /\ UNCHANGED halted

Done ==
    /\ ~halted /\ service # NoService
    /\ service' = NoService
    /\ UNCHANGED <<queue, halted>>

Next == (\E h \in ServiceHeader : Add(h)) \/ Overflow \/ Take \/ Done

Spec == Init /\ [][Next]_vars

=============================================================================
