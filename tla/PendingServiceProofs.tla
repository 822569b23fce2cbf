------------------------ MODULE PendingServiceProofs ------------------------
(***************************************************************************)
(* For any length of the array, the interrupt of the pending services is   *)
(* on exactly when a service waits, and the ring implements the queue.     *)
(***************************************************************************)
EXTENDS PendingService, SequenceTheorems, TLAPS

\* The elements between the two indices hold services, and so does the one
\* being handled.
Filled == \A i \in 1..Count : pending_services_FIFO[Place(i)] \in ServiceHeader

Inv ==
    /\ TypeOK
    /\ InterruptIffPending
    /\ Filled
    /\ current # NoService => pending_services_FIFO[current] \in ServiceHeader

-----------------------------------------------------------------------------
\* The arithmetic of the indices.
LEMMA IndexArith ==
    /\ Index \subseteq Nat
    /\ \A i \in Index : Advance(i) \in Index
    /\ \A i \in Index : i \in Nat /\ i < PENDING_SERVICE_TAM
    /\ \A i \in Nat : i < PENDING_SERVICE_TAM => i \in Index
    /\ 0 \in Index
BY RingAssumption DEF Index, Advance

\* The ring holds between 0 and PENDING_SERVICE_TAM services, in elements of
\* the array that differ from each other and from the next free one.
LEMMA CountPlace ==
    ASSUME TypeOK
    PROVE  /\ Count \in 0..PENDING_SERVICE_TAM
           /\ Count = 0 <=> IsEmpty
           /\ Count = PENDING_SERVICE_TAM <=> IsFull
           /\ \A i \in 1..Count : Place(i) \in Index
           /\ \A i, j \in 1..Count : Place(i) = Place(j) => i = j
           /\ Count < PENDING_SERVICE_TAM => Place(Count + 1) = pending_service_last
           /\ ~IsFull => \A i \in 1..Count : Place(i) # pending_service_last
           /\ ~IsEmpty => Place(1) = pending_service_first
<1>1. /\ PENDING_SERVICE_TAM \in Nat /\ PENDING_SERVICE_TAM > 0
      /\ pending_service_first \in Nat /\ pending_service_first < PENDING_SERVICE_TAM
      /\ pending_service_last \in Nat /\ pending_service_last < PENDING_SERVICE_TAM
      /\ add_fifo \in {0, 1}
  BY RingAssumption DEF TypeOK, Index
<1>2. /\ Count \in 0..PENDING_SERVICE_TAM
      /\ Count = 0 <=> IsEmpty
      /\ Count = PENDING_SERVICE_TAM <=> IsFull
  BY <1>1 DEF Count, IsFull, IsEmpty
<1>3. /\ \A i \in 1..Count : Place(i) \in Index
      /\ \A i, j \in 1..Count : Place(i) = Place(j) => i = j
  BY <1>1, <1>2, IndexArith DEF Place
<1>4. /\ Count < PENDING_SERVICE_TAM => Place(Count + 1) = pending_service_last
      /\ ~IsEmpty => Place(1) = pending_service_first
  BY <1>1, <1>2 DEF Count, Place, IsFull, IsEmpty
<1>5. ~IsFull => \A i \in 1..Count : Place(i) # pending_service_last
  BY <1>1, <1>2 DEF Count, Place, IsFull, IsEmpty
<1>6. QED BY <1>2, <1>3, <1>4, <1>5

\* Adding a service leaves the places of the others and takes the next one.
LEMMA AddEffect ==
    ASSUME TypeOK, NEW h \in ServiceHeader, add_pending_service(h), ~IsFull
    PROVE  /\ Count' = Count + 1 /\ ~IsEmpty'
           /\ \A i \in 1..Count' : Place(i)' = Place(i)
<1>1. /\ PENDING_SERVICE_TAM \in Nat /\ PENDING_SERVICE_TAM > 0
      /\ pending_service_first \in Nat /\ pending_service_first < PENDING_SERVICE_TAM
      /\ pending_service_last \in Nat /\ pending_service_last < PENDING_SERVICE_TAM
      /\ add_fifo \in {0, 1}
  BY RingAssumption DEF TypeOK, Index
<1>2. /\ pending_service_last' = Advance(pending_service_last)
      /\ pending_service_first' = pending_service_first /\ add_fifo' = 1
  BY DEF add_pending_service
<1>3. Count' = Count + 1
  BY <1>1, <1>2 DEF Count, IsFull, Advance
<1>4. ~IsEmpty'
  BY <1>2 DEF IsEmpty
<1>5. \A i : Place(i)' = Place(i)
  BY <1>2 DEF Place
<1>6. QED BY <1>3, <1>4, <1>5

\* Taking a service moves the others one place forward in the queue.
LEMMA TakeEffect ==
    ASSUME TypeOK, get_next_pending_service
    PROVE  /\ Count' = Count - 1
           /\ IsEmpty' <=> Advance(pending_service_first) = pending_service_last
           /\ \A i \in 1..Count' : Place(i)' = Place(i + 1)
<1>1. /\ PENDING_SERVICE_TAM \in Nat /\ PENDING_SERVICE_TAM > 0
      /\ pending_service_first \in Nat /\ pending_service_first < PENDING_SERVICE_TAM
      /\ pending_service_last \in Nat /\ pending_service_last < PENDING_SERVICE_TAM
      /\ add_fifo \in {0, 1}
  BY RingAssumption DEF TypeOK, Index
<1>2. /\ pending_service_first' = Advance(pending_service_first) /\ add_fifo' = 0
      /\ pending_service_last' = pending_service_last /\ ~IsEmpty
  BY DEF get_next_pending_service, ringVars
<1>3. Count' = Count - 1
  BY <1>1, <1>2 DEF Count, IsFull, IsEmpty, Advance
<1>4. IsEmpty' <=> Advance(pending_service_first) = pending_service_last
  BY <1>2 DEF IsEmpty
<1>5. Count \in Nat /\ Count <= PENDING_SERVICE_TAM
  BY <1>1 DEF Count
<1>6. ASSUME NEW i \in 1..Count' PROVE Place(i)' = Place(i + 1)
  <2>1. i \in Nat /\ i > 0 /\ i + 1 <= PENDING_SERVICE_TAM
    BY <1>1, <1>3, <1>5
  <2>2. Place(i)' = IF pending_service_first' + i - 1 < PENDING_SERVICE_TAM
                    THEN pending_service_first' + i - 1
                    ELSE pending_service_first' + i - 1 - PENDING_SERVICE_TAM
    BY DEF Place
  <2>3. CASE pending_service_first = PENDING_SERVICE_TAM - 1
    BY <1>1, <1>2, <2>1, <2>2, <2>3 DEF Place, Advance
  <2>4. CASE pending_service_first # PENDING_SERVICE_TAM - 1
    BY <1>1, <1>2, <2>1, <2>2, <2>4 DEF Place, Advance
  <2>5. QED BY <2>3, <2>4
<1>7. QED BY <1>3, <1>4, <1>6

-----------------------------------------------------------------------------
(* The invariant *)

\* The invariant holds of the empty ring.
LEMMA InitInv == Init => Inv
<1> SUFFICES ASSUME Init PROVE Inv
  OBVIOUS
<1>1. TypeOK
  BY IndexArith DEF Init, TypeOK
<1>2. InterruptIffPending
  BY DEF Init, InterruptIffPending, IsEmpty
<1>3. Count = 0
  BY DEF Init, Count, IsFull
<1>4. Filled
  BY <1>3 DEF Filled
<1>5. QED BY <1>1, <1>2, <1>4 DEF Inv, Init

\* It is preserved when a service is deferred, with and without room.
LEMMA AddInv == ASSUME Inv, NEW h \in ServiceHeader, add_pending_service(h) PROVE Inv'
<1>1. CASE IsFull
  BY <1>1 DEF Inv, TypeOK, InterruptIffPending, Filled, IsEmpty, Count, IsFull, Place, Index,
              add_pending_service, ringVars
<1>2. CASE ~IsFull
  <2> USE <1>2
  <2>1. TypeOK
    BY DEF Inv
  <2>2. /\ pending_services_FIFO' = [pending_services_FIFO EXCEPT ![pending_service_last] = h]
        /\ pending_service_last' = Advance(pending_service_last)
        /\ UNCHANGED <<pending_service_first, current>>
        /\ add_fifo' = 1 /\ pending_service_intr' = 1 /\ UNCHANGED halted
        /\ current = NoService
    BY DEF add_pending_service, Idle
  <2>3. TypeOK'
    BY <2>1, <2>2, IndexArith DEF TypeOK
  <2>4. Count' = Count + 1 /\ ~IsEmpty' /\ \A i \in 1..Count' : Place(i)' = Place(i)
    BY <2>1, AddEffect
  <2>5. /\ Count \in Nat /\ Place(Count + 1) = pending_service_last
        /\ \A i \in 1..Count : Place(i) \in Index /\ Place(i) # pending_service_last
    BY <2>1, CountPlace, RingAssumption
  <2>6. Filled'
    <3>1. SUFFICES ASSUME NEW i \in 1..Count'
                   PROVE  pending_services_FIFO'[Place(i)'] \in ServiceHeader
      BY DEF Filled
    <3>2. Place(i)' = Place(i)
      BY <2>4
    <3>3. CASE i = Count + 1
      BY <3>2, <3>3, <2>1, <2>2, <2>5 DEF TypeOK
    <3>4. CASE i # Count + 1
      <4>1. i \in 1..Count
        BY <3>4, <2>4, <2>5
      <4>2. pending_services_FIFO'[Place(i)] = pending_services_FIFO[Place(i)]
        BY <4>1, <2>1, <2>2, <2>5 DEF TypeOK
      <4>3. QED BY <3>2, <4>1, <4>2 DEF Inv, Filled
    <3>5. QED BY <3>3, <3>4
  <2>7. InterruptIffPending'
    BY <2>2, <2>4 DEF InterruptIffPending
  <2>8. QED BY <2>2, <2>3, <2>6, <2>7 DEF Inv
<1>3. QED BY <1>1, <1>2

\* It is preserved when the oldest service is taken out.
LEMMA TakeInv == ASSUME Inv, get_next_pending_service PROVE Inv'
<1>1. TypeOK
  BY DEF Inv
<1>2. /\ pending_service_first' = Advance(pending_service_first)
      /\ current' = pending_service_first /\ add_fifo' = 0
      /\ UNCHANGED <<pending_services_FIFO, pending_service_last, halted>>
      /\ pending_service_intr' = IF Advance(pending_service_first) = pending_service_last
                                 THEN 0 ELSE 1
  BY DEF get_next_pending_service
<1>3. TypeOK'
  BY <1>1, <1>2, IndexArith DEF TypeOK
<1>4. /\ Count' = Count - 1
      /\ IsEmpty' <=> Advance(pending_service_first) = pending_service_last
      /\ \A i \in 1..Count' : Place(i)' = Place(i + 1)
  BY <1>1, TakeEffect
<1>5. /\ Count \in Nat /\ Count # 0 /\ Place(1) = pending_service_first
  BY <1>1, CountPlace, RingAssumption DEF get_next_pending_service
<1>6. Filled'
  BY <1>2, <1>4, <1>5 DEF Inv, Filled
<1>7. InterruptIffPending'
  BY <1>2, <1>4 DEF InterruptIffPending
<1>8. pending_services_FIFO[pending_service_first] \in ServiceHeader
  BY <1>5 DEF Inv, Filled
<1>9. QED BY <1>2, <1>3, <1>6, <1>7, <1>8 DEF Inv

\* It is preserved when the handler of a service returns.
LEMMA HandledInv == ASSUME Inv, Handled PROVE Inv'
BY DEF Inv, TypeOK, InterruptIffPending, Filled, IsEmpty, Count, IsFull, Place, Handled, ringVars

\* Every step preserves it.
LEMMA NextInv == Inv /\ [Next]_vars => Inv'
<1> SUFFICES ASSUME Inv, [Next]_vars PROVE Inv'
  OBVIOUS
<1>1. CASE UNCHANGED vars
  BY <1>1 DEF Inv, TypeOK, InterruptIffPending, Filled, IsEmpty, Count, IsFull, Place, vars, ringVars
<1>2. QED BY <1>1, AddInv, TakeInv, HandledInv DEF Next

\* It is therefore an invariant of the ring.
LEMMA InvariantInv == Spec => []Inv
BY InitInv, NextInv, PTL DEF Spec

\* The interrupt of the pending services is on exactly while one waits, for any
\* length of the array.
THEOREM InterruptFollowsFIFO == Spec => []InterruptIffPending
<1>1. Inv => InterruptIffPending
  BY DEF Inv
<1>2. QED BY <1>1, InvariantInv, PTL

-----------------------------------------------------------------------------
(* The refinement *)

\* The queue of the services in the ring.
LEMMA QueueFacts ==
    ASSUME Inv
    PROVE  /\ Count \in Nat /\ queue \in Seq(ServiceHeader) /\ Len(queue) = Count
           /\ \A i \in 1..Count : queue[i] = pending_services_FIFO[Place(i)]
           /\ service \in ServiceHeader \cup {NoService}
           /\ service = NoService <=> current = NoService
<1>1. Count \in Nat
  BY CountPlace, RingAssumption DEF Inv
<1>2. \A i \in 1..Count : pending_services_FIFO[Place(i)] \in ServiceHeader
  BY DEF Inv, Filled
<1>3. /\ queue \in Seq(ServiceHeader) /\ Len(queue) = Count
      /\ \A i \in 1..Count : queue[i] = pending_services_FIFO[Place(i)]
  BY <1>1, <1>2 DEF queue
<1>4. service \in ServiceHeader \cup {NoService} /\ (service = NoService <=> current = NoService)
  BY RingAssumption DEF Inv, service
<1>5. QED BY <1>1, <1>3, <1>4

\* The empty ring is the empty queue.
LEMMA InitRefines == Init => Queue!Init
<1> SUFFICES ASSUME Init PROVE Queue!Init
  OBVIOUS
<1>1. Count = 0
  BY DEF Init, Count, IsFull
<1>2. queue = <<>>
  BY <1>1 DEF queue
<1>3. service = NoService /\ halted = FALSE
  BY DEF Init, service
<1>4. QED BY <1>2, <1>3 DEF Queue!Init

\* A full ring is a full queue; otherwise the service is appended.
LEMMA AddRefines ==
    ASSUME Inv, NEW h \in ServiceHeader, add_pending_service(h)
    PROVE  Queue!Add(h) \/ Queue!Overflow
<1>1. /\ Count \in Nat /\ queue \in Seq(ServiceHeader) /\ Len(queue) = Count
      /\ \A i \in 1..Count : queue[i] = pending_services_FIFO[Place(i)]
      /\ service = NoService
  BY QueueFacts DEF add_pending_service, Idle
<1>2. ~halted
  BY DEF add_pending_service, Idle
<1>3. Count = PENDING_SERVICE_TAM <=> IsFull
  BY CountPlace DEF Inv
<1>4. CASE IsFull
  <2>1. halted' = TRUE /\ UNCHANGED <<ringVars, current>>
    BY <1>4 DEF add_pending_service
  <2>2. UNCHANGED <<queue, service>>
    BY <2>1 DEF queue, service, Count, Place, IsFull, ringVars
  <2>3. QED BY <1>1, <1>2, <1>3, <1>4, <2>1, <2>2 DEF Queue!Overflow
<1>5. CASE ~IsFull
  <2>1. /\ pending_services_FIFO' = [pending_services_FIFO EXCEPT ![pending_service_last] = h]
        /\ UNCHANGED <<current, halted>> /\ current = NoService
        /\ pending_services_FIFO \in [Index -> ServiceHeader \cup {Garbage}]
        /\ pending_service_last \in Index
    BY <1>5 DEF add_pending_service, Idle, Inv, TypeOK
  <2>2. Count' = Count + 1 /\ \A i \in 1..Count' : Place(i)' = Place(i)
    BY <1>5, AddEffect DEF Inv
  <2>3. /\ Place(Count + 1) = pending_service_last
        /\ \A i \in 1..Count : Place(i) \in Index /\ Place(i) # pending_service_last
        /\ Count < PENDING_SERVICE_TAM
    BY <1>5, CountPlace, RingAssumption DEF Inv
  <2>4. queue' = [i \in 1..(Count + 1) |-> pending_services_FIFO'[Place(i)]]
    BY <2>2 DEF queue
  <2>5. ASSUME NEW i \in 1..(Count + 1)
        PROVE  pending_services_FIFO'[Place(i)] = Append(queue, h)[i]
    <3>1. CASE i = Count + 1
      <4>1. pending_services_FIFO'[pending_service_last] = h
        BY <2>1
      <4>2. Append(queue, h)[Count + 1] = h
        BY <1>1
      <4>3. QED BY <3>1, <4>1, <4>2, <2>3
    <3>2. CASE i # Count + 1
      <4>1. i \in 1..Count
        BY <3>2, <1>1
      <4>2. pending_services_FIFO'[Place(i)] = pending_services_FIFO[Place(i)]
        BY <4>1, <2>1, <2>3
      <4>3. Append(queue, h)[i] = queue[i]
        BY <4>1, <1>1
      <4>4. QED BY <4>1, <4>2, <4>3, <1>1
    <3>3. QED BY <3>1, <3>2
  <2>6. queue' = Append(queue, h)
    <3>1. Append(queue, h) \in Seq(ServiceHeader) /\ Len(Append(queue, h)) = Count + 1
      BY <1>1
    <3>2. \A i \in 1..(Count + 1) : Append(queue, h)[i] \in ServiceHeader
      BY <3>1
    <3>3. queue' \in Seq(ServiceHeader) /\ Len(queue') = Count + 1
      BY <1>1, <2>4, <2>5, <3>2
    <3>4. \A i \in 1..Len(queue') : queue'[i] = Append(queue, h)[i]
      BY <2>4, <2>5, <3>3
    <3>5. QED BY <3>1, <3>3, <3>4, SeqEqual
  <2>7. service' = service
    BY <2>1 DEF service
  <2>8. QED BY <1>1, <1>2, <2>1, <2>3, <2>6, <2>7 DEF Queue!Add
<1>6. QED BY <1>4, <1>5

\* Taking a service out of the ring takes the head of the queue.
LEMMA TakeRefines == ASSUME Inv, get_next_pending_service PROVE Queue!Take
<1>1. /\ Count \in Nat /\ queue \in Seq(ServiceHeader) /\ Len(queue) = Count
      /\ \A i \in 1..Count : queue[i] = pending_services_FIFO[Place(i)]
      /\ service = NoService
  BY QueueFacts DEF get_next_pending_service, Idle
<1>2. /\ current' = pending_service_first /\ pending_service_first \in Index
      /\ UNCHANGED <<pending_services_FIFO, halted>> /\ ~halted
  BY DEF get_next_pending_service, Idle, Inv, TypeOK
<1>3. Count' = Count - 1 /\ \A i \in 1..Count' : Place(i)' = Place(i + 1)
  BY TakeEffect DEF Inv
<1>4. Count # 0 /\ Place(1) = pending_service_first
  BY CountPlace DEF Inv, get_next_pending_service
<1>5. queue' = [i \in 1..(Count - 1) |-> pending_services_FIFO[Place(i + 1)]]
  BY <1>2, <1>3 DEF queue
<1>6. queue' = Tail(queue)
  <2>1. /\ Tail(queue) \in Seq(ServiceHeader) /\ Len(Tail(queue)) = Count - 1
        /\ \A i \in 1..(Count - 1) : Tail(queue)[i] = queue[i + 1]
    BY <1>1, <1>4, HeadTailProperties
  <2>2. \A i \in 1..(Count - 1) : queue[i + 1] = pending_services_FIFO[Place(i + 1)]
    BY <1>1, <1>4
  <2>3. \A i \in 1..(Count - 1) : pending_services_FIFO[Place(i + 1)] = Tail(queue)[i]
    BY <2>1, <2>2
  <2>4. \A i \in 1..(Count - 1) : queue[i + 1] \in ServiceHeader
    BY <1>1
  <2>5. queue' \in Seq(ServiceHeader) /\ Len(queue') = Count - 1
    BY <1>1, <1>4, <1>5, <2>2, <2>4
  <2>6. \A i \in 1..Len(queue') : queue'[i] = Tail(queue)[i]
    BY <1>5, <2>3, <2>5
  <2>7. QED BY <2>1, <2>5, <2>6, SeqEqual
<1>7. service' = Head(queue)
  <2>1. current' # NoService
    BY <1>2, RingAssumption DEF Index
  <2>2. QED BY <1>1, <1>2, <1>4, <2>1 DEF service
<1>8. QED BY <1>1, <1>2, <1>4, <1>6, <1>7 DEF Queue!Take

\* The end of a service is the same in both.
LEMMA HandledRefines == ASSUME Inv, Handled PROVE Queue!Done
<1>1. service # NoService
  BY QueueFacts DEF Handled
<1>2. current' = NoService /\ UNCHANGED <<ringVars, halted>> /\ ~halted
  BY DEF Handled
<1>3. service' = NoService /\ queue' = queue
  BY <1>2 DEF service, queue, Count, Place, IsFull, ringVars
<1>4. QED BY <1>1, <1>2, <1>3 DEF Queue!Done

\* Every step of the ring is a step of the queue, or none.
LEMMA NextRefines == Inv /\ [Next]_vars => [Queue!Next]_(Queue!vars)
<1> SUFFICES ASSUME Inv, [Next]_vars PROVE [Queue!Next]_(Queue!vars)
  OBVIOUS
<1>1. CASE UNCHANGED vars
  BY <1>1 DEF vars, ringVars, Queue!vars, queue, service, Count, Place, IsFull
<1>2. QED BY <1>1, AddRefines, TakeRefines, HandledRefines DEF Next, Queue!Next

\* The ring is a bounded first-in first-out queue: no pending service is lost,
\* overwritten, handled twice or out of order, for any length of the array.
THEOREM RingImplementsQueue == Spec => ImplementsQueue
<1>1. Spec => Queue!Spec
  BY InitRefines, NextRefines, InvariantInv, PTL DEF Spec, Queue!Spec
<1>2. QED BY <1>1 DEF ImplementsQueue

=============================================================================
