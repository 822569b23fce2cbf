--------------------------- MODULE PendingService ---------------------------
(***************************************************************************)
(* The FIFO of pending services of a kernel, as it is kept: an array used  *)
(* as a ring with two wrapping indices, and the flag add_fifo that tells a *)
(* full ring from an empty one. The interrupt that takes the services out  *)
(* is switched on and off by the two functions of the FIFO.                *)
(*                                                                         *)
(* get_next_pending_service returns a pointer into the array, which is     *)
(* read after the indices have moved: "current" is that pointer.           *)
(***************************************************************************)
EXTENDS Naturals

CONSTANTS
    ServiceHeader,         \* the packets that may be deferred
    PENDING_SERVICE_TAM,   \* length of the array
    Garbage,               \* content of an array element never written
    NoService              \* null pointer, and no service

ASSUME RingAssumption ==
    /\ PENDING_SERVICE_TAM \in Nat \ {0}
    /\ Garbage \notin ServiceHeader
    /\ NoService \notin ServiceHeader /\ NoService # Garbage
    /\ NoService \notin Nat

VARIABLES
    pending_services_FIFO,   \* the array
    pending_service_first,   \* index of the oldest service
    pending_service_last,    \* index of the next free element
    add_fifo,                \* 1 when the last operation was an add
    pending_service_intr,    \* the register behind IRQ_PENDING_SERVICE
    current,                 \* index of the service being handled, or NoService
    halted                   \* the kernel is in the endless loop of a full FIFO

ringVars == <<pending_services_FIFO, pending_service_first, pending_service_last, add_fifo>>
vars == <<ringVars, pending_service_intr, current, halted>>

Index == 0..(PENDING_SERVICE_TAM - 1)

Advance(i) == IF i = PENDING_SERVICE_TAM - 1 THEN 0 ELSE i + 1

IsFull  == pending_service_first = pending_service_last /\ add_fifo = 1
IsEmpty == pending_service_first = pending_service_last /\ add_fifo = 0

\* The kernel is not preempted: no packet is deferred while one is handled.
Idle == ~halted /\ current = NoService

-----------------------------------------------------------------------------
Init ==
    /\ pending_services_FIFO = [i \in Index |-> Garbage]
    /\ pending_service_first = 0
    /\ pending_service_last = 0
    /\ add_fifo = 0
    /\ pending_service_intr = 0
    /\ current = NoService
    /\ halted = FALSE

add_pending_service(h) ==
    /\ Idle
    /\ IF IsFull
       THEN halted' = TRUE /\ UNCHANGED <<ringVars, pending_service_intr>>
       ELSE /\ pending_services_FIFO' =
                 [pending_services_FIFO EXCEPT ![pending_service_last] = h]
            /\ pending_service_last' = Advance(pending_service_last)
            /\ add_fifo' = 1
            /\ pending_service_intr' = 1
            /\ UNCHANGED <<pending_service_first, halted>>
    /\ UNCHANGED current

\* Mutant of get_next_pending_service: the interrupt is switched off after
\* every service.
TakeAndSilence ==
    /\ Idle /\ pending_service_intr = 1 /\ ~IsEmpty
    /\ current' = pending_service_first
    /\ pending_service_first' = Advance(pending_service_first)
    /\ add_fifo' = 0
    /\ pending_service_intr' = 0
    /\ UNCHANGED <<pending_services_FIFO, pending_service_last, halted>>

\* Mutant of get_next_pending_service: add_fifo is not reset.
TakeKeepsFlag ==
    /\ Idle /\ pending_service_intr = 1 /\ ~IsEmpty
    /\ current' = pending_service_first
    /\ pending_service_first' = Advance(pending_service_first)
    /\ pending_service_intr' =
         IF Advance(pending_service_first) = pending_service_last THEN 0 ELSE 1
    /\ UNCHANGED <<pending_services_FIFO, pending_service_last, add_fifo, halted>>

\* Called by the interrupt IRQ_PENDING_SERVICE. With an empty FIFO it returns 0
\* and the kernel does nothing.
get_next_pending_service ==
    /\ Idle /\ pending_service_intr = 1 /\ ~IsEmpty
    /\ current' = pending_service_first
    /\ pending_service_first' = Advance(pending_service_first)
    /\ add_fifo' = 0
    /\ pending_service_intr' =
         IF Advance(pending_service_first) = pending_service_last THEN 0
         ELSE pending_service_intr
    /\ UNCHANGED <<pending_services_FIFO, pending_service_last, halted>>

\* The handler of the service returns.
Handled ==
    /\ ~halted /\ current # NoService
    /\ current' = NoService
    /\ UNCHANGED <<ringVars, pending_service_intr, halted>>

Next ==
    \/ \E h \in ServiceHeader : add_pending_service(h)
    \/ get_next_pending_service
    \/ Handled

Spec == Init /\ [][Next]_vars

-----------------------------------------------------------------------------
TypeOK ==
    /\ pending_services_FIFO \in [Index -> ServiceHeader \cup {Garbage}]
    /\ pending_service_first \in Index
    /\ pending_service_last \in Index
    /\ add_fifo \in {0, 1}
    /\ pending_service_intr \in {0, 1}
    /\ current \in Index \cup {NoService}
    /\ halted \in BOOLEAN

\* The interrupt is on exactly while a service waits: none is left in the FIFO
\* with nothing to take it out, and the kernel is not interrupted for nothing.
InterruptIffPending == pending_service_intr = 1 <=> ~IsEmpty

-----------------------------------------------------------------------------
(* The ring implements the queue. *)

Count ==
    IF IsFull THEN PENDING_SERVICE_TAM
    ELSE IF pending_service_first <= pending_service_last
         THEN pending_service_last - pending_service_first
         ELSE pending_service_last + PENDING_SERVICE_TAM - pending_service_first

\* Index of the i-th oldest service.
Place(i) ==
    IF pending_service_first + i - 1 < PENDING_SERVICE_TAM
    THEN pending_service_first + i - 1
    ELSE pending_service_first + i - 1 - PENDING_SERVICE_TAM

queue == [i \in 1..Count |-> pending_services_FIFO[Place(i)]]
service == IF current = NoService THEN NoService ELSE pending_services_FIFO[current]

Queue == INSTANCE ServiceQueue WITH queue <- queue, service <- service

\* Services are handled in the order in which they were deferred, none is lost,
\* overwritten or handled twice, and the kernel stops only when there is no room.
ImplementsQueue == Queue!Spec

=============================================================================
