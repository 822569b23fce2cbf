---------------------- MODULE TaskCommunicationProofs ----------------------
(***************************************************************************)
(* TypeOK, RequestConservation, NoErrorLoop and PeersLocated hold for any  *)
(* number of PEs, tasks, edges and circuits.  So do PSMessageIntact, and   *)
(* the implementation of the promise of Send and Receive, which rest on    *)
(* the conservation of requests.                                           *)
(***************************************************************************)
EXTENDS TaskCommunication, FiniteSetTheorems, TLAPS

-----------------------------------------------------------------------------
(* The inductive invariant *)

\* A request is on its way to, or kept at, the PE of its producer; a delivery
\* is on its way to the PE of its consumer.
NetShape ==
    \A l \in Link : \A i \in DOMAIN ps_net[l] :
        LET pkt == ps_net[l][i]
        IN  /\ <<pkt.producer, pkt.consumer>> \in Edge
            /\ pkt.service = "MESSAGE_REQUEST" =>
                 l[2] = Home[pkt.producer] /\ pkt.requesting_processor = Home[pkt.consumer]

PendingShape ==
    \A d \in PE : \A i \in DOMAIN pending[d] :
        LET pkt == pending[d][i]
        IN  /\ <<pkt.producer, pkt.consumer>> \in Edge
            /\ d = Home[pkt.producer] /\ pkt.requesting_processor = Home[pkt.consumer]

\* Only the request of a circuit may carry an unknown consumer PE: the wire may
\* be served after the tasks of the producer's PE have all exited.
TableShape ==
    \A d \in PE : \A i \in Slot :
        LET slot == message_request[d][i]
        IN  slot.requester # NoTask =>
              /\ <<slot.requested, slot.requester>> \in Edge
              /\ d = Home[slot.requested]
              /\ <<slot.requested, slot.requester>> \notin Circuit
                   => slot.requester_proc = Home[slot.requester]

WaitShape ==
    \A c \in Task : waiting_msg[c] = recv_buffer[c]

IInv ==
    /\ TypeOK
    /\ NoErrorLoop
    /\ PeersLocated
    /\ RequestConservation
    /\ NetShape /\ PendingShape /\ TableShape /\ WaitShape

-----------------------------------------------------------------------------
(* Queues of packets: the PS network and the pending services *)

Appended(r, q, l, pkt) == r = [q EXCEPT ![l] = Append(@, pkt)]
Shortened(r, q, l) == r = [q EXCEPT ![l] = Tail(@)]

\* Appending a packet of a new consumer adds that consumer.
LEMMA QueueAppend ==
    ASSUME NEW I, NEW q \in [I -> Seq(Packet)], NEW l \in I, NEW pkt \in Packet,
           OnceIn(q), pkt.consumer \notin ConsumersIn(q),
           NEW r, Appended(r, q, l, pkt)
    PROVE  /\ ConsumersIn(r) = ConsumersIn(q) \cup {pkt.consumer}
           /\ OnceIn(r)
           /\ r \in [I -> Seq(Packet)]
<1>1. /\ r \in [I -> Seq(Packet)] /\ DOMAIN r = I /\ DOMAIN q = I
      /\ \A m \in I : m # l => r[m] = q[m]
      /\ r[l] = Append(q[l], pkt) /\ q[l] \in Seq(Packet)
  BY DEF Appended
<1>2. /\ DOMAIN r[l] = DOMAIN q[l] \cup {Len(q[l]) + 1}
      /\ Len(q[l]) + 1 \notin DOMAIN q[l]
      /\ r[l][Len(q[l]) + 1] = pkt
      /\ \A i \in DOMAIN q[l] : r[l][i] = q[l][i]
  BY <1>1
<1>3. pkt.consumer \in Task
  BY DEF Packet
<1>4. \A m \in I : \A i \in DOMAIN q[m] : q[m][i].consumer \in ConsumersIn(q)
  <2>1. ASSUME NEW m \in I, NEW i \in DOMAIN q[m]
        PROVE  q[m][i].consumer \in ConsumersIn(q)
    <3>1. q[m] \in Seq(Packet)
      OBVIOUS
    <3>2. q[m][i] \in Packet
      BY <3>1
    <3>3. QED BY <1>1, <3>2 DEF ConsumersIn, Packet
  <2>2. QED BY <2>1
<1>5. ConsumersIn(r) = ConsumersIn(q) \cup {pkt.consumer}
  <2>1. ASSUME NEW c \in ConsumersIn(r) PROVE c \in ConsumersIn(q) \cup {pkt.consumer}
    BY <2>1, <1>1, <1>2 DEF ConsumersIn, Appended
  <2>2. ASSUME NEW c \in ConsumersIn(q) PROVE c \in ConsumersIn(r)
    BY <2>2, <1>1, <1>2 DEF ConsumersIn, Appended
  <2>3. pkt.consumer \in ConsumersIn(r)
    BY <1>1, <1>2, <1>3 DEF ConsumersIn
  <2>4. QED BY <2>1, <2>2, <2>3
<1>6. OnceIn(r)
  <2>1. SUFFICES ASSUME NEW m \in I, NEW n \in I, NEW i \in DOMAIN r[m], NEW j \in DOMAIN r[n],
                        r[m][i].consumer = r[n][j].consumer
                 PROVE  m = n /\ i = j
    BY <1>1 DEF OnceIn
  <2>2. CASE m = l /\ i = Len(q[l]) + 1
    BY <2>1, <2>2, <1>1, <1>2, <1>4 DEF Appended
  <2>3. CASE n = l /\ j = Len(q[l]) + 1
    BY <2>1, <2>3, <1>1, <1>2, <1>4 DEF Appended
  <2>4. CASE ~(m = l /\ i = Len(q[l]) + 1) /\ ~(n = l /\ j = Len(q[l]) + 1)
    <3>1. /\ i \in DOMAIN q[m] /\ r[m][i] = q[m][i]
          /\ j \in DOMAIN q[n] /\ r[n][j] = q[n][j]
      BY <2>1, <2>4, <1>1, <1>2
    <3>2. QED BY <3>1, <2>1, <1>1 DEF OnceIn
  <2>5. QED BY <2>2, <2>3, <2>4
<1>7. QED BY <1>1, <1>5, <1>6

\* Taking the first packet of a queue removes its consumer.
LEMMA QueueTail ==
    ASSUME NEW I, NEW q \in [I -> Seq(Packet)], NEW l \in I, q[l] # <<>>,
           OnceIn(q),
           NEW r, Shortened(r, q, l)
    PROVE  /\ Head(q[l]) \in Packet
           /\ Head(q[l]).consumer \in ConsumersIn(q)
           /\ ConsumersIn(r) = ConsumersIn(q) \ {Head(q[l]).consumer}
           /\ OnceIn(r)
           /\ r \in [I -> Seq(Packet)]
           /\ \A i \in DOMAIN r[l] : i + 1 \in DOMAIN q[l] /\ r[l][i] = q[l][i + 1]
<1> DEFINE pkt == Head(q[l])
<1>1. /\ r \in [I -> Seq(Packet)] /\ DOMAIN r = I /\ DOMAIN q = I
      /\ \A m \in I : m # l => r[m] = q[m]
      /\ r[l] = Tail(q[l]) /\ q[l] \in Seq(Packet)
  BY DEF Shortened
<1>2. /\ 1 \in DOMAIN q[l] /\ pkt = q[l][1] /\ pkt \in Packet
      /\ \A i \in DOMAIN r[l] : i \in Nat /\ i # 0 /\ i + 1 \in DOMAIN q[l] /\ r[l][i] = q[l][i + 1]
      /\ \A i \in DOMAIN q[l] : i = 1 \/ (i - 1 \in DOMAIN r[l] /\ r[l][i - 1] = q[l][i])
  BY <1>1
<1>3. pkt.consumer \in ConsumersIn(q)
  BY <1>1, <1>2 DEF ConsumersIn, Packet
<1>4. ConsumersIn(r) = ConsumersIn(q) \ {pkt.consumer}
  <2>1. ASSUME NEW c \in ConsumersIn(r) PROVE c \in ConsumersIn(q) /\ c # pkt.consumer
    <3>1. PICK m \in I : \E i \in DOMAIN r[m] : r[m][i].consumer = c
      BY <1>1, <2>1 DEF ConsumersIn
    <3>0. PICK i \in DOMAIN r[m] : r[m][i].consumer = c
      BY <3>1
    <3>2. CASE m = l
      <4>1. /\ i + 1 \in DOMAIN q[l] /\ q[l][i + 1].consumer = c /\ i + 1 # 1
        BY <3>0, <3>2, <1>2
      <4>2. c # pkt.consumer
        BY <4>1, <1>1, <1>2 DEF OnceIn
      <4>3. QED BY <4>1, <4>2, <1>1, <2>1 DEF ConsumersIn
    <3>3. CASE m # l
      BY <3>0, <3>3, <1>1, <1>2, <2>1 DEF ConsumersIn, OnceIn
    <3>4. QED BY <3>2, <3>3
  <2>2. ASSUME NEW c \in ConsumersIn(q), c # pkt.consumer PROVE c \in ConsumersIn(r)
    <3>1. PICK m \in I : \E i \in DOMAIN q[m] : q[m][i].consumer = c
      BY <1>1, <2>2 DEF ConsumersIn
    <3>0. PICK i \in DOMAIN q[m] : q[m][i].consumer = c
      BY <3>1
    <3>2. CASE m = l
      <4>1. i - 1 \in DOMAIN r[l] /\ r[l][i - 1].consumer = c
        BY <3>0, <3>2, <1>2, <2>2
      <4>2. QED BY <4>1, <1>1, <2>2 DEF ConsumersIn
    <3>3. CASE m # l
      BY <3>0, <3>3, <1>1, <2>2 DEF ConsumersIn
    <3>4. QED BY <3>2, <3>3
  <2>3. QED BY <2>1, <2>2
<1>5. OnceIn(r)
  <2>1. SUFFICES ASSUME NEW m \in I, NEW n \in I, NEW i \in DOMAIN r[m], NEW j \in DOMAIN r[n],
                        r[m][i].consumer = r[n][j].consumer
                 PROVE  m = n /\ i = j
    BY <1>1 DEF OnceIn
  <2>2. CASE m = l /\ n = l
    BY <2>1, <2>2, <1>1, <1>2 DEF OnceIn
  <2>3. CASE m = l /\ n # l
    BY <2>1, <2>3, <1>1, <1>2 DEF OnceIn
  <2>4. CASE m # l /\ n = l
    BY <2>1, <2>4, <1>1, <1>2 DEF OnceIn
  <2>5. CASE m # l /\ n # l
    BY <2>1, <2>5, <1>1 DEF OnceIn
  <2>6. QED BY <2>2, <2>3, <2>4, <2>5
<1>6. QED BY <1>1, <1>2, <1>3, <1>4, <1>5

-----------------------------------------------------------------------------
(* The table of message requests *)

\* The scan of the table stops at a slot of the set it looks for.
LEMMA FirstIn ==
    ASSUME NEW S, S \subseteq Slot, S # {}
    PROVE  First(S) \in S
<1>1. S \subseteq Nat
  BY SystemAssumption DEF Slot
<1>2. PICK x \in S : \A y \in S : ~(<<y, x>> \in OpToRel(<, Nat))
  BY <1>1, NatLessThanWellFounded, WFMin, Zenon
<1>3. \A y \in S : ~(y < x)
  BY <1>1, <1>2, Zenon DEF OpToRel
<1>4. \A y \in S : x <= y
  BY <1>1, <1>3
<1>5. QED BY <1>4 DEF First

\* The edges that end in the table of one PE are finitely many.
LEMMA EdgesFinite == \A d : IsFiniteSet(EdgesAt(d))
<1>1. IsFiniteSet(Task \X Task)
  BY SystemAssumption, FS_Product
<1>2. \A d : EdgesAt(d) \in SUBSET (Task \X Task)
  BY SystemAssumption DEF EdgesAt
<1>3. QED BY <1>1, <1>2, FS_Subset

\* Pigeonhole: N slots cannot hold N distinct members of a set that has at most
\* N members and one that is in no slot.
LEMMA Pigeonhole ==
    ASSUME NEW S, IsFiniteSet(S), NEW N \in Nat, Cardinality(S) <= N,
           NEW f \in [1..N -> S], NEW e \in S, \A i \in 1..N : f[i] # e
    PROVE  \E i, j \in 1..N : i # j /\ f[i] = f[j]
<1> DEFINE T == S \ {e}
<1>2. IsFiniteSet(T) /\ Cardinality(T) = Cardinality(S) - 1
  BY FS_RemoveElement
<1>3. IsFiniteSet(1..N) /\ Cardinality(1..N) = N
  BY FS_Interval
<1>4. Cardinality(T) < Cardinality(1..N)
  BY <1>2, <1>3, FS_CardinalityType
<1>5. f \in [1..N -> T]
  OBVIOUS
<1> HIDE DEF T
<1>6. QED BY <1>2, <1>3, <1>4, <1>5, FS_PigeonHole

\* A request of a consumer that is not in the table finds a free slot.
LEMMA FreeSlotLeft ==
    ASSUME IInv, NEW d \in PE, NEW p, NEW c, <<p, c>> \in EdgesAt(d), c \notin InTable
    PROVE  FreeSlots(d) # {}
<1> DEFINE f == [i \in 1..REQUEST_SIZE |->
                   <<message_request[d][i].requested, message_request[d][i].requester>>]
<1>1. SUFFICES ASSUME FreeSlots(d) = {} PROVE FALSE
  OBVIOUS
<1>2. \A i \in Slot : message_request[d][i].requester # NoTask
  BY <1>1 DEF FreeSlots
<1>3. ASSUME NEW i \in Slot PROVE f[i] \in EdgesAt(d) /\ f[i] # <<p, c>>
  <2>1. message_request[d][i].requester \in InTable
    BY <1>2, SystemAssumption DEF IInv, TypeOK, InTable, UsedSlot, FreeSlot
  <2>2. QED BY <1>2, <2>1 DEF IInv, TableShape, EdgesAt, Slot
<1>4. f \in [1..REQUEST_SIZE -> EdgesAt(d)] /\ \A i \in 1..REQUEST_SIZE : f[i] # <<p, c>>
  BY <1>3 DEF Slot
<1>5. REQUEST_SIZE \in Nat /\ Cardinality(EdgesAt(d)) <= REQUEST_SIZE
  BY SystemAssumption, CapacityAssumption
<1> HIDE DEF f
<1>6. PICK i, j \in 1..REQUEST_SIZE : i # j /\ f[i] = f[j]
  BY <1>4, <1>5, EdgesFinite, Pigeonhole, SMTT(30)
<1>7. message_request[d][i].requester = message_request[d][j].requester
  BY <1>6 DEF f
<1>8. QED BY <1>2, <1>6, <1>7 DEF IInv, RequestConservation, TableOnce, Slot

\* A deferred request of a consumer that has no other one fits in the FIFO.
LEMMA PendingRoom ==
    ASSUME IInv, NEW d \in PE, NEW p, NEW c, <<p, c>> \in EdgesAt(d), c \notin InPending
    PROVE  Len(pending[d]) < PENDING_SERVICE_TAM
<1> DEFINE f == [i \in 1..PENDING_SERVICE_TAM |->
                   <<pending[d][i].producer, pending[d][i].consumer>>]
<1>0. pending \in [PE -> Seq(Packet)] /\ pending[d] \in Seq(Packet) /\ PENDING_SERVICE_TAM \in Nat
  BY SystemAssumption DEF IInv, TypeOK
<1>1. SUFFICES ASSUME Len(pending[d]) >= PENDING_SERVICE_TAM PROVE FALSE
  BY <1>0
<1>2. \A i \in 1..PENDING_SERVICE_TAM : i \in DOMAIN pending[d]
  BY <1>0, <1>1
<1>3. ASSUME NEW i \in 1..PENDING_SERVICE_TAM PROVE f[i] \in EdgesAt(d) /\ f[i] # <<p, c>>
  <2>1. pending[d][i] \in Packet
    BY <1>0, <1>2
  <2>2. pending[d][i].consumer \in InPending
    BY <1>0, <1>2, <2>1 DEF InPending, ConsumersIn, Packet
  <2>3. QED BY <1>2, <2>2 DEF IInv, PendingShape, EdgesAt
<1>4. f \in [1..PENDING_SERVICE_TAM -> EdgesAt(d)]
      /\ \A i \in 1..PENDING_SERVICE_TAM : f[i] # <<p, c>>
  BY <1>3
<1>5. PENDING_SERVICE_TAM \in Nat /\ Cardinality(EdgesAt(d)) <= PENDING_SERVICE_TAM
  BY SystemAssumption, CapacityAssumption
<1> HIDE DEF f
<1>6. PICK i, j \in 1..PENDING_SERVICE_TAM : i # j /\ f[i] = f[j]
  BY <1>4, <1>5, EdgesFinite, Pigeonhole, SMTT(30)
<1>7. pending[d][i].consumer = pending[d][j].consumer
  BY <1>6 DEF f
<1>8. QED BY <1>0, <1>2, <1>6, <1>7 DEF IInv, RequestConservation, OnceIn

\* What the handlers ask of the table: to add the request of a consumer that has
\* none there.
LEMMA TableInsert ==
    ASSUME IInv, NEW d \in PE, NEW p \in Task, NEW c \in Task, NEW proc \in PE \cup {NoPE},
           <<p, c>> \in EdgesAt(d), c \notin InTable,
           <<p, c>> \notin Circuit => proc = Home[c],
           insert_message_request(d, p, c, proc)
    PROVE  /\ InTable' = InTable \cup {c}
           /\ TableOnce' /\ TableShape'
           /\ message_request' \in [PE -> [Slot -> UsedSlot \cup {FreeSlot}]]
<1> DEFINE s == First(FreeSlots(d))
           slot == [requester |-> c, requested |-> p, requester_proc |-> proc]
<1>1. FreeSlots(d) # {} /\ FreeSlots(d) \subseteq Slot
  BY FreeSlotLeft DEF FreeSlots
<1>2. s \in FreeSlots(d)
  BY <1>1, FirstIn
<1>3. s \in Slot /\ message_request[d][s].requester = NoTask
  BY <1>2 DEF FreeSlots
<1>4. message_request' = [message_request EXCEPT ![d][s] = slot]
  BY <1>1 DEF insert_message_request
<1> HIDE DEF s
<1>5. message_request \in [PE -> [Slot -> UsedSlot \cup {FreeSlot}]]
  BY DEF IInv, TypeOK
<1>6. slot \in UsedSlot /\ slot.requester = c /\ slot.requested = p /\ slot.requester_proc = proc
  BY DEF UsedSlot
<1> HIDE DEF slot
<1>7. /\ message_request' \in [PE -> [Slot -> UsedSlot \cup {FreeSlot}]]
      /\ message_request'[d][s] = slot
      /\ \A e \in PE : \A i \in Slot :
            ~(e = d /\ i = s) => message_request'[e][i] = message_request[e][i]
  BY <1>3, <1>4, <1>5, <1>6
<1>8. c # NoTask
  BY SystemAssumption
<1>9. InTable' = InTable \cup {c}
  <2>1. ASSUME NEW x \in InTable' PROVE x \in InTable \cup {c}
    BY <2>1, <1>6, <1>7 DEF InTable
  <2>2. ASSUME NEW x \in InTable PROVE x \in InTable'
    <3>1. x # NoTask
      BY SystemAssumption DEF InTable
    <3>2. QED BY <2>2, <3>1, <1>3, <1>7 DEF InTable
  <2>3. c \in InTable'
    BY <1>3, <1>6, <1>7 DEF InTable
  <2>4. QED BY <2>1, <2>2, <2>3
<1>10. TableOnce'
  <2>1. SUFFICES ASSUME NEW e \in PE, NEW h \in PE, NEW i \in Slot, NEW j \in Slot,
                        message_request'[e][i].requester # NoTask,
                        message_request'[e][i].requester = message_request'[h][j].requester
                 PROVE  e = h /\ i = j
    BY DEF TableOnce
  <2>2. \A x \in PE : \A k \in Slot : message_request[x][k].requester # c
    BY DEF InTable
  <2>3. CASE e = d /\ i = s
    BY <2>1, <2>2, <2>3, <1>6, <1>7
  <2>4. CASE h = d /\ j = s
    BY <2>1, <2>2, <2>4, <1>6, <1>7
  <2>5. CASE ~(e = d /\ i = s) /\ ~(h = d /\ j = s)
    BY <2>1, <2>5, <1>7 DEF IInv, RequestConservation, TableOnce
  <2>6. QED BY <2>3, <2>4, <2>5
<1>11. TableShape'
  <2>1. SUFFICES ASSUME NEW e \in PE, NEW i \in Slot,
                        message_request'[e][i].requester # NoTask
                 PROVE  LET t == message_request'[e][i]
                        IN  /\ <<t.requested, t.requester>> \in Edge
                            /\ e = Home[t.requested]
                            /\ <<t.requested, t.requester>> \notin Circuit
                                 => t.requester_proc = Home[t.requester]
    BY DEF TableShape
  <2>2. CASE e = d /\ i = s
    BY <2>2, <1>6, <1>7 DEF EdgesAt
  <2>3. CASE ~(e = d /\ i = s)
    BY <2>1, <2>3, <1>7 DEF IInv, TableShape
  <2>4. QED BY <2>2, <2>3
<1>12. QED BY <1>7, <1>9, <1>10, <1>11

\* Send takes the one request of its consumer out of the table.
LEMMA TableRemove ==
    ASSUME IInv, NEW d \in PE, NEW p \in Task, NEW c \in Task, Matching(d, p, c) # {},
           remove_message_request(d, p, c)
    PROVE  /\ c \in InTable /\ InTable' = InTable \ {c}
           /\ <<p, c>> \in Edge /\ d = Home[p]
           /\ RequestSlot(d, p, c).requester_proc \in PE \cup {NoPE}
           /\ <<p, c>> \notin Circuit => RequestSlot(d, p, c).requester_proc = Home[c]
           /\ TableOnce' /\ TableShape'
           /\ message_request' \in [PE -> [Slot -> UsedSlot \cup {FreeSlot}]]
<1> DEFINE s == First(Matching(d, p, c))
<1>1. s \in Matching(d, p, c)
  BY FirstIn DEF Matching
<1>2. /\ s \in Slot /\ message_request[d][s].requested = p
      /\ message_request[d][s].requester = c
  BY <1>1 DEF Matching
<1>3. /\ message_request' = [message_request EXCEPT ![d][s] = FreeSlot]
      /\ RequestSlot(d, p, c) = message_request[d][s]
  BY DEF remove_message_request, RequestSlot
<1> HIDE DEF s
<1>4. message_request \in [PE -> [Slot -> UsedSlot \cup {FreeSlot}]]
  BY DEF IInv, TypeOK
<1>5. /\ message_request' \in [PE -> [Slot -> UsedSlot \cup {FreeSlot}]]
      /\ message_request'[d][s] = FreeSlot
      /\ \A e \in PE : \A i \in Slot :
            ~(e = d /\ i = s) => message_request'[e][i] = message_request[e][i]
  BY <1>2, <1>3, <1>4
<1>6. c # NoTask /\ FreeSlot.requester = NoTask
  BY SystemAssumption DEF FreeSlot
<1>7. c \in InTable
  BY <1>2 DEF InTable
<1>8. \A e \in PE : \A i \in Slot : message_request[e][i].requester = c => e = d /\ i = s
  BY <1>2, <1>6 DEF IInv, RequestConservation, TableOnce
<1>9. InTable' = InTable \ {c}
  <2>1. ASSUME NEW x \in InTable' PROVE x \in InTable /\ x # c
    <3>1. x # NoTask
      BY SystemAssumption DEF InTable
    <3>2. QED BY <2>1, <3>1, <1>5, <1>6, <1>8 DEF InTable
  <2>2. ASSUME NEW x \in InTable, x # c PROVE x \in InTable'
    BY <2>2, <1>2, <1>5 DEF InTable
  <2>3. QED BY <2>1, <2>2
<1>10. TableOnce'
  BY <1>5, <1>6 DEF IInv, RequestConservation, TableOnce
<1>11. TableShape'
  <2>1. SUFFICES ASSUME NEW e \in PE, NEW i \in Slot,
                        message_request'[e][i].requester # NoTask
                 PROVE  LET t == message_request'[e][i]
                        IN  /\ <<t.requested, t.requester>> \in Edge
                            /\ e = Home[t.requested]
                            /\ <<t.requested, t.requester>> \notin Circuit
                                 => t.requester_proc = Home[t.requester]
    BY DEF TableShape
  <2>2. ~(e = d /\ i = s)
    BY <2>1, <1>5, <1>6
  <2>3. QED BY <2>1, <2>2, <1>5 DEF IInv, TableShape
<1>12. /\ <<p, c>> \in Edge /\ d = Home[p]
       /\ <<p, c>> \notin Circuit => RequestSlot(d, p, c).requester_proc = Home[c]
  BY <1>2, <1>3, <1>6 DEF IInv, TableShape
<1>13. RequestSlot(d, p, c).requester_proc \in PE \cup {NoPE}
  BY <1>2, <1>3, <1>4 DEF UsedSlot, FreeSlot
<1>14. QED BY <1>5, <1>7, <1>9, <1>10, <1>11, <1>12, <1>13

-----------------------------------------------------------------------------
(* The places a request may be: what stays, what enters and what leaves *)

\* What a step leaves alone keeps its part of the invariant.
LEMMA Frame ==
    ASSUME IInv
    PROVE  /\ ps_net' = ps_net => InNet' = InNet /\ OnceIn(ps_net)' /\ NetShape'
           /\ pending' = pending => InPending' = InPending /\ OnceIn(pending)' /\ PendingShape'
           /\ message_request' = message_request => InTable' = InTable /\ TableOnce' /\ TableShape'
           /\ cs_request' = cs_request => OnWire' = OnWire /\ WireOnce'
           /\ cs_line' = cs_line => OnLine' = OnLine /\ LineOnce'
           /\ waiting_msg' = waiting_msg => Waiting' = Waiting
           /\ waiting_msg' = waiting_msg /\ recv_buffer' = recv_buffer => WaitShape'
           /\ status' = status /\ task_location' = task_location => PeersLocated'
           /\ kernel' = kernel => NoErrorLoop'
<1>1. ps_net' = ps_net => InNet' = InNet /\ OnceIn(ps_net)' /\ NetShape'
  BY DEF IInv, RequestConservation, InNet, ConsumersIn, OnceIn, NetShape
<1>2. pending' = pending => InPending' = InPending /\ OnceIn(pending)' /\ PendingShape'
  BY DEF IInv, RequestConservation, InPending, ConsumersIn, OnceIn, PendingShape
<1>3. message_request' = message_request => InTable' = InTable /\ TableOnce' /\ TableShape'
  BY DEF IInv, RequestConservation, InTable, TableOnce, TableShape
<1>4. cs_request' = cs_request => OnWire' = OnWire /\ WireOnce'
  BY DEF IInv, RequestConservation, OnWire, WireOnce
<1>5. cs_line' = cs_line => OnLine' = OnLine /\ LineOnce'
  BY DEF IInv, RequestConservation, OnLine, LineOnce
<1>6. waiting_msg' = waiting_msg => Waiting' = Waiting
  BY DEF Waiting
<1>7. waiting_msg' = waiting_msg /\ recv_buffer' = recv_buffer => WaitShape'
  BY DEF IInv, WaitShape
<1>8. status' = status /\ task_location' = task_location => PeersLocated'
  BY DEF IInv, PeersLocated
<1>9. kernel' = kernel => NoErrorLoop'
  BY DEF IInv, NoErrorLoop
<1>10. QED BY <1>1, <1>2, <1>3, <1>4, <1>5, <1>6, <1>7, <1>8, <1>9

\* The DMNI of s takes a packet for d.
LEMMA NetSend ==
    ASSUME IInv, NEW s \in PE, NEW d \in PE, NEW pkt \in Packet,
           pkt.consumer \notin InNet, <<pkt.producer, pkt.consumer>> \in Edge,
           pkt.service = "MESSAGE_REQUEST" =>
             d = Home[pkt.producer] /\ pkt.requesting_processor = Home[pkt.consumer],
           send_packet(s, d, pkt)
    PROVE  /\ InNet' = InNet \cup {pkt.consumer}
           /\ OnceIn(ps_net)' /\ NetShape'
           /\ ps_net' \in [Link -> Seq(Packet)]
           /\ ps_send' \in [PE -> PE \cup {Manager, NoPE}]
<1>1. /\ ps_net \in [Link -> Seq(Packet)] /\ OnceIn(ps_net)
      /\ ps_send \in [PE -> PE \cup {Manager, NoPE}]
  BY DEF IInv, TypeOK, RequestConservation
<1>2. <<s, d>> \in Link
  BY DEF Link
<1>3. /\ ps_net' = [ps_net EXCEPT ![<<s, d>>] = Append(@, pkt)]
      /\ ps_send' = [ps_send EXCEPT ![s] = d]
  BY DEF send_packet
<1>4. pkt.consumer \notin ConsumersIn(ps_net) /\ Appended(ps_net', ps_net, <<s, d>>, pkt)
  BY <1>3 DEF InNet, Appended
<1>5. /\ ConsumersIn(ps_net') = ConsumersIn(ps_net) \cup {pkt.consumer}
      /\ OnceIn(ps_net') /\ ps_net' \in [Link -> Seq(Packet)]
  BY <1>1, <1>2, <1>4, QueueAppend
<1>6. InNet' = InNet \cup {pkt.consumer}
  BY <1>5 DEF InNet, ConsumersIn
<1>7. OnceIn(ps_net)'
  BY <1>5 DEF OnceIn
<1>8. NetShape'
  <2>1. ASSUME NEW l \in Link, NEW i \in DOMAIN ps_net'[l]
        PROVE  LET p == ps_net'[l][i]
               IN  /\ <<p.producer, p.consumer>> \in Edge
                   /\ p.service = "MESSAGE_REQUEST" =>
                        l[2] = Home[p.producer] /\ p.requesting_processor = Home[p.consumer]
    <3>1. CASE l = <<s, d>> /\ i = Len(ps_net[l]) + 1
      <4>1. ps_net'[l][i] = pkt /\ l[2] = d
        BY <3>1, <1>1, <1>2, <1>3
      <4>2. QED BY <4>1
    <3>2. CASE ~(l = <<s, d>> /\ i = Len(ps_net[l]) + 1)
      <4>1. i \in DOMAIN ps_net[l] /\ ps_net'[l][i] = ps_net[l][i]
        <5>1. ps_net[l] \in Seq(Packet)
          BY <1>1
        <5>2. ps_net'[l] = IF l = <<s, d>> THEN Append(ps_net[l], pkt) ELSE ps_net[l]
          BY <1>1, <1>3
        <5>3. QED BY <2>1, <3>2, <5>1, <5>2
      <4>2. QED BY <4>1 DEF IInv, NetShape
    <3>3. QED BY <3>1, <3>2
  <2>2. QED BY <2>1 DEF NetShape
<1>9. ps_send' \in [PE -> PE \cup {Manager, NoPE}]
  BY <1>1, <1>3
<1>10. QED BY <1>5, <1>6, <1>7, <1>8, <1>9

\* The kernel of d reads the first packet from s.
LEMMA NetRead ==
    ASSUME IInv, NEW s \in PE, NEW d \in PE, ps_net[<<s, d>>] # <<>>, PacketRead(s, d)
    PROVE  LET pkt == Head(ps_net[<<s, d>>])
           IN  /\ pkt \in Packet /\ pkt.consumer \in InNet
               /\ <<pkt.producer, pkt.consumer>> \in Edge
               /\ pkt.service = "MESSAGE_REQUEST" =>
                    d = Home[pkt.producer] /\ pkt.requesting_processor = Home[pkt.consumer]
               /\ InNet' = InNet \ {pkt.consumer}
               /\ OnceIn(ps_net)' /\ NetShape'
               /\ ps_net' \in [Link -> Seq(Packet)]
               /\ ps_send' \in [PE -> PE \cup {Manager, NoPE}]
<1> DEFINE link == <<s, d>>
           pkt == Head(ps_net[link])
<1>1. /\ ps_net \in [Link -> Seq(Packet)] /\ OnceIn(ps_net)
      /\ ps_send \in [PE -> PE \cup {Manager, NoPE}]
  BY DEF IInv, TypeOK, RequestConservation
<1>2. <<s, d>> \in Link
  BY DEF Link
<1>3. /\ ps_net' = [ps_net EXCEPT ![<<s, d>>] = Tail(@)]
      /\ ps_send' = ps_send \/ ps_send' = [ps_send EXCEPT ![s] = NoPE]
  BY DEF PacketRead
<1>4. link \in Link /\ ps_net[link] # <<>> /\ Shortened(ps_net', ps_net, link)
  BY <1>2, <1>3 DEF Shortened
<1>5. /\ pkt \in Packet /\ pkt.consumer \in ConsumersIn(ps_net)
      /\ ConsumersIn(ps_net') = ConsumersIn(ps_net) \ {pkt.consumer}
      /\ OnceIn(ps_net') /\ ps_net' \in [Link -> Seq(Packet)]
      /\ \A i \in DOMAIN ps_net'[link] :
           i + 1 \in DOMAIN ps_net[link] /\ ps_net'[link][i] = ps_net[link][i + 1]
  <2> HIDE DEF link
  <2>1. QED BY <1>1, <1>4, QueueTail
<1>6. 1 \in DOMAIN ps_net[<<s, d>>] /\ pkt = ps_net[<<s, d>>][1]
  BY <1>1, <1>2
<1>7. /\ <<pkt.producer, pkt.consumer>> \in Edge
      /\ pkt.service = "MESSAGE_REQUEST" =>
           d = Home[pkt.producer] /\ pkt.requesting_processor = Home[pkt.consumer]
  BY <1>2, <1>6 DEF IInv, NetShape
<1>8. InNet' = InNet \ {pkt.consumer} /\ pkt.consumer \in InNet
  BY <1>5 DEF InNet, ConsumersIn
<1>9. OnceIn(ps_net)'
  BY <1>5 DEF OnceIn
<1>10. NetShape'
  <2>1. ASSUME NEW l \in Link, NEW i \in DOMAIN ps_net'[l]
        PROVE  \E j \in DOMAIN ps_net[l] : ps_net'[l][i] = ps_net[l][j]
    <3>1. CASE l = <<s, d>>
      BY <2>1, <3>1, <1>5
    <3>2. CASE l # <<s, d>>
      BY <2>1, <3>2, <1>1, <1>3
    <3>3. QED BY <3>1, <3>2
  <2>2. QED BY <2>1 DEF IInv, NetShape
<1>11. ps_send' \in [PE -> PE \cup {Manager, NoPE}]
  BY <1>1, <1>3
<1>12. QED BY <1>5, <1>7, <1>8, <1>9, <1>10, <1>11

\* A request is deferred.
LEMMA FifoAdd ==
    ASSUME IInv, NEW d \in PE, NEW pkt \in Packet, pkt.consumer \notin InPending,
           <<pkt.producer, pkt.consumer>> \in Edge,
           d = Home[pkt.producer], pkt.requesting_processor = Home[pkt.consumer],
           pending' = [pending EXCEPT ![d] = Append(@, pkt)]
    PROVE  /\ InPending' = InPending \cup {pkt.consumer}
           /\ OnceIn(pending)' /\ PendingShape'
           /\ pending' \in [PE -> Seq(Packet)]
<1>1. pending \in [PE -> Seq(Packet)] /\ OnceIn(pending)
  BY DEF IInv, TypeOK, RequestConservation
<1>2. pkt.consumer \notin ConsumersIn(pending) /\ Appended(pending', pending, d, pkt)
  BY DEF InPending, Appended
<1>3. /\ ConsumersIn(pending') = ConsumersIn(pending) \cup {pkt.consumer}
      /\ OnceIn(pending') /\ pending' \in [PE -> Seq(Packet)]
  BY <1>1, <1>2, QueueAppend
<1>4. InPending' = InPending \cup {pkt.consumer}
  BY <1>3 DEF InPending, ConsumersIn
<1>5. OnceIn(pending)'
  BY <1>3 DEF OnceIn
<1>6. PendingShape'
  <2>1. ASSUME NEW e \in PE, NEW i \in DOMAIN pending'[e]
        PROVE  LET p == pending'[e][i]
               IN  /\ <<p.producer, p.consumer>> \in Edge
                   /\ e = Home[p.producer] /\ p.requesting_processor = Home[p.consumer]
    <3>1. CASE e = d /\ i = Len(pending[e]) + 1
      <4>1. pending'[e][i] = pkt
        BY <3>1, <1>1
      <4>2. QED BY <4>1, <3>1
    <3>2. CASE ~(e = d /\ i = Len(pending[e]) + 1)
      <4>1. i \in DOMAIN pending[e] /\ pending'[e][i] = pending[e][i]
        BY <2>1, <3>2, <1>1
      <4>2. QED BY <4>1, SMTT(30) DEF IInv, PendingShape
    <3>3. QED BY <3>1, <3>2
  <2>2. QED BY <2>1 DEF PendingShape
<1>7. QED BY <1>3, <1>4, <1>5, <1>6

\* A deferred request is taken up again.
LEMMA FifoTake ==
    ASSUME IInv, NEW d \in PE, pending[d] # <<>>, pending' = [pending EXCEPT ![d] = Tail(@)]
    PROVE  LET pkt == Head(pending[d])
           IN  /\ pkt \in Packet /\ pkt.consumer \in InPending
               /\ <<pkt.producer, pkt.consumer>> \in Edge
               /\ d = Home[pkt.producer] /\ pkt.requesting_processor = Home[pkt.consumer]
               /\ InPending' = InPending \ {pkt.consumer}
               /\ OnceIn(pending)' /\ PendingShape'
               /\ pending' \in [PE -> Seq(Packet)]
<1> DEFINE pkt == Head(pending[d])
<1>1. pending \in [PE -> Seq(Packet)] /\ OnceIn(pending)
  BY DEF IInv, TypeOK, RequestConservation
<1>9. Shortened(pending', pending, d)
  BY DEF Shortened
<1>2. /\ pkt \in Packet /\ pkt.consumer \in ConsumersIn(pending)
      /\ ConsumersIn(pending') = ConsumersIn(pending) \ {pkt.consumer}
      /\ OnceIn(pending') /\ pending' \in [PE -> Seq(Packet)]
      /\ \A i \in DOMAIN pending'[d] :
           i + 1 \in DOMAIN pending[d] /\ pending'[d][i] = pending[d][i + 1]
  BY <1>1, <1>9, QueueTail
<1>3. 1 \in DOMAIN pending[d] /\ pkt = pending[d][1]
  BY <1>1
<1>4. /\ <<pkt.producer, pkt.consumer>> \in Edge
      /\ d = Home[pkt.producer] /\ pkt.requesting_processor = Home[pkt.consumer]
  BY <1>3 DEF IInv, PendingShape
<1>5. InPending' = InPending \ {pkt.consumer} /\ pkt.consumer \in InPending
  BY <1>2 DEF InPending, ConsumersIn
<1>6. OnceIn(pending)'
  BY <1>2 DEF OnceIn
<1>7. PendingShape'
  <2>1. ASSUME NEW e \in PE, NEW i \in DOMAIN pending'[e]
        PROVE  \E j \in DOMAIN pending[e] : pending'[e][i] = pending[e][j]
    <3>1. CASE e = d
      BY <2>1, <3>1, <1>2
    <3>2. CASE e # d
      BY <2>1, <3>2, <1>1
    <3>3. QED BY <3>1, <3>2
  <2>2. \A e \in PE : \A j \in DOMAIN pending[e] :
          /\ <<pending[e][j].producer, pending[e][j].consumer>> \in Edge
          /\ e = Home[pending[e][j].producer]
          /\ pending[e][j].requesting_processor = Home[pending[e][j].consumer]
    BY DEF IInv, PendingShape
  <2>3. ASSUME NEW e \in PE, NEW i \in DOMAIN pending'[e]
        PROVE  LET p == pending'[e][i]
               IN  /\ <<p.producer, p.consumer>> \in Edge
                   /\ e = Home[p.producer] /\ p.requesting_processor = Home[p.consumer]
    <3>1. PICK j \in DOMAIN pending[e] : pending'[e][i] = pending[e][j]
      BY <2>1, <2>3
    <3>2. QED BY <3>1, <2>2
  <2>4. QED BY <2>3 DEF PendingShape
<1>8. QED BY <1>2, <1>4, <1>5, <1>6, <1>7

\* The request wire of a circuit is raised.
LEMMA WireSet ==
    ASSUME IInv, NEW p \in Task, NEW c \in Task, <<p, c>> \in Circuit, c \notin OnWire,
           cs_request' = [cs_request EXCEPT ![<<p, c>>] = TRUE]
    PROVE  /\ OnWire' = OnWire \cup {c} /\ WireOnce'
           /\ cs_request' \in [Circuit -> BOOLEAN]
<1>1. cs_request \in [Circuit -> BOOLEAN] /\ WireOnce
  BY DEF IInv, TypeOK, RequestConservation
<1>2. \A k \in Circuit : cs_request'[k] <=> k = <<p, c>> \/ cs_request[k]
  BY <1>1
<1>3. QED BY <1>1, <1>2 DEF OnWire, WireOnce

\* The kernel of the producer lowers the wire.
LEMMA WireClear ==
    ASSUME IInv, NEW p \in Task, NEW c \in Task, <<p, c>> \in Circuit, cs_request[<<p, c>>],
           cs_request' = [cs_request EXCEPT ![<<p, c>>] = FALSE]
    PROVE  /\ c \in OnWire /\ OnWire' = OnWire \ {c} /\ WireOnce'
           /\ cs_request' \in [Circuit -> BOOLEAN]
<1>1. cs_request \in [Circuit -> BOOLEAN] /\ WireOnce
  BY DEF IInv, TypeOK, RequestConservation
<1>2. \A k \in Circuit : cs_request'[k] <=> k # <<p, c>> /\ cs_request[k]
  BY <1>1
<1>3. QED BY <1>1, <1>2 DEF OnWire, WireOnce

\* A message is put on a circuit.
LEMMA LineSet ==
    ASSUME IInv, NEW p \in Task, NEW c \in Task, <<p, c>> \in Circuit, c \notin OnLine,
           NEW n \in Nat,
           cs_line' = [cs_line EXCEPT ![<<p, c>>] = [state |-> "sending", num |-> n]]
    PROVE  /\ OnLine' = OnLine \cup {c} /\ LineOnce'
           /\ cs_line' \in [Circuit -> [state : {"idle", "sending", "sent"}, num : Nat]]
<1>1. cs_line \in [Circuit -> [state : {"idle", "sending", "sent"}, num : Nat]] /\ LineOnce
  BY DEF IInv, TypeOK, RequestConservation
<1>2. \A k \in Circuit : cs_line'[k].state # "idle" <=> k = <<p, c>> \/ cs_line[k].state # "idle"
  BY <1>1
<1>3. QED BY <1>1, <1>2 DEF OnLine, LineOnce

\* The kernel of the consumer empties the circuit.
LEMMA LineClear ==
    ASSUME IInv, NEW p \in Task, NEW c \in Task, <<p, c>> \in Circuit,
           cs_line[<<p, c>>].state # "idle",
           cs_line' = [cs_line EXCEPT ![<<p, c>>] = IdleLine]
    PROVE  /\ c \in OnLine /\ OnLine' = OnLine \ {c} /\ LineOnce'
           /\ cs_line' \in [Circuit -> [state : {"idle", "sending", "sent"}, num : Nat]]
<1>1. cs_line \in [Circuit -> [state : {"idle", "sending", "sent"}, num : Nat]] /\ LineOnce
  BY DEF IInv, TypeOK, RequestConservation
<1>2. \A k \in Circuit : cs_line'[k].state # "idle" <=> k # <<p, c>> /\ cs_line[k].state # "idle"
  BY <1>1 DEF IdleLine
<1>3. QED BY <1>1, <1>2 DEF OnLine, LineOnce, IdleLine

\* The consumer gets its message.
LEMMA Woken ==
    ASSUME IInv, NEW p \in Task, NEW c \in Task, NEW n \in Nat, ReleaseConsumer(p, c, n)
    PROVE  /\ Waiting' = Waiting \ {c} /\ WaitShape'
           /\ waiting_msg' \in [Task -> BOOLEAN] /\ recv_buffer' \in [Task -> BOOLEAN]
           /\ got' \in [Edge -> Nat]
<1>1. /\ waiting_msg \in [Task -> BOOLEAN] /\ recv_buffer \in [Task -> BOOLEAN]
      /\ got \in [Edge -> Nat] /\ WaitShape
  BY DEF IInv, TypeOK
<1>2. /\ waiting_msg' = [waiting_msg EXCEPT ![c] = FALSE]
      /\ recv_buffer' = [recv_buffer EXCEPT ![c] = FALSE]
      /\ got' = [got EXCEPT ![<<p, c>>] = n]
  BY DEF ReleaseConsumer
<1>3. QED BY <1>1, <1>2 DEF Waiting, WaitShape

\* A consumer with a request or an answer in the system has a receive buffer,
\* and the other consumers have none.
LEMMA HasBuffer ==
    ASSUME IInv, NEW c \in Task
    PROVE  recv_buffer[c] <=> c \in Waiting
BY DEF IInv, WaitShape, Waiting

\* What SystemAssumption says of one edge.
LEMMA EdgeFacts ==
    ASSUME NEW p, NEW c, <<p, c>> \in Edge
    PROVE  /\ p \in Task /\ c \in Task /\ p # c /\ AppOf[p] = AppOf[c]
           /\ Home[p] \in PE /\ Home[c] \in PE
BY SystemAssumption

-----------------------------------------------------------------------------
(* The initial states *)

\* The invariant holds when the kernels have booted.
LEMMA InitIInv == Init => IInv
<1> SUFFICES ASSUME Init PROVE IInv
  OBVIOUS
<1> USE DEF Init
<1>1. TypeOK
  <2>1. buffer \in [Task -> [to : Task, num : Nat]]
    OBVIOUS
  <2>2. call \in [Task -> [op : {"none", "send", "receive"}, peer : Task]]
    BY DEF NoCall, Call
  <2>3. cs_line \in [Circuit -> [state : {"idle", "sending", "sent"}, num : Nat]]
    BY DEF IdleLine
  <2>4. pending \in [PE -> Seq(Packet)] /\ ps_net \in [Link -> Seq(Packet)]
    OBVIOUS
  <2>5. message_request \in [PE -> [Slot -> UsedSlot \cup {FreeSlot}]]
    OBVIOUS
  <2>6. QED BY <2>1, <2>2, <2>3, <2>4, <2>5 DEF TypeOK
<1>2. InNet = {} /\ OnceIn(ps_net) /\ NetShape
  BY DEF InNet, ConsumersIn, OnceIn, NetShape
<1>3. InPending = {} /\ OnceIn(pending) /\ PendingShape
  BY DEF InPending, ConsumersIn, OnceIn, PendingShape
<1>4. InTable = {} /\ TableOnce /\ TableShape
  BY SystemAssumption DEF InTable, TableOnce, TableShape, FreeSlot
<1>5. OnWire = {} /\ WireOnce /\ OnLine = {} /\ LineOnce
  BY DEF OnWire, WireOnce, OnLine, LineOnce, IdleLine
<1>6. Waiting = {} /\ WaitShape
  BY DEF Waiting, WaitShape
<1>7. RequestConservation
  BY <1>2, <1>3, <1>4, <1>5, <1>6 DEF RequestConservation, PairwiseDisjoint
<1>8. NoErrorLoop /\ PeersLocated
  BY DEF NoErrorLoop, PeersLocated
<1>9. QED BY <1>1, <1>2, <1>3, <1>4, <1>6, <1>7, <1>8 DEF IInv

-----------------------------------------------------------------------------
(* Every action preserves the invariant *)

\* It is preserved when a task writes a message and calls Send().
LEMMA CallSendIInv ==
    ASSUME IInv, NEW p, NEW c, <<p, c>> \in Edge, CallSend(p, c) PROVE IInv'
<1> USE DEF CallSend, kernelVars, netVars
<1>1. TypeOK'
  BY EdgeFacts DEF IInv, TypeOK, Call
<1>2. QED BY <1>1, Frame DEF IInv, RequestConservation, PairwiseDisjoint

\* It is preserved when a task calls Receive().
LEMMA CallReceiveIInv ==
    ASSUME IInv, NEW p, NEW c, <<p, c>> \in Edge, CallReceive(p, c) PROVE IInv'
<1> USE DEF CallReceive, kernelVars, netVars
<1>1. TypeOK'
  BY EdgeFacts DEF IInv, TypeOK, Call
<1>2. QED BY <1>1, Frame DEF IInv, RequestConservation, PairwiseDisjoint

\* SENDMESSAGE to a consumer of the same PE: the request leaves the table and
\* its consumer stops waiting.
LEMMA SendLocalIInv ==
    ASSUME IInv, NEW p, NEW c, <<p, c>> \in Edge, SendLocal(p, c) PROVE IInv'
<1> USE DEF SendLocal, SendEntered, netVars
<1>1. /\ p \in Task /\ c \in Task /\ Home[p] \in PE
      /\ buffer \in [Task -> [to : Task, num : Nat]]
      /\ call \in [Task -> [op : {"none", "send", "receive"}, peer : Task]]
      /\ put \in [Edge -> Nat]
  BY EdgeFacts DEF IInv, TypeOK
<1>2. /\ c \in InTable /\ InTable' = InTable \ {c} /\ TableOnce' /\ TableShape'
      /\ message_request' \in [PE -> [Slot -> UsedSlot \cup {FreeSlot}]]
  BY <1>1, TableRemove
<1>3. recv_buffer[c]
  BY <1>1, <1>2, HasBuffer DEF IInv, RequestConservation
<1>4. /\ ReleaseConsumer(p, c, buffer[p].num)
      /\ call' = [call EXCEPT ![c] = NoCall(c), ![p] = NoCall(p)]
      /\ put' = [put EXCEPT ![<<p, c>>] = buffer[p].num]
      /\ UNCHANGED kernel
  BY <1>3
<1>5. /\ Waiting' = Waiting \ {c} /\ WaitShape'
      /\ waiting_msg' \in [Task -> BOOLEAN] /\ recv_buffer' \in [Task -> BOOLEAN]
      /\ got' \in [Edge -> Nat]
  BY <1>1, <1>4, Woken
<1>6. call' \in [Task -> [op : {"none", "send", "receive"}, peer : Task]] /\ put' \in [Edge -> Nat]
  BY <1>1, <1>4 DEF NoCall, Call
<1>7. TypeOK'
  BY <1>2, <1>4, <1>5, <1>6 DEF IInv, TypeOK
<1>8. RequestConservation'
  BY <1>2, <1>5, Frame DEF IInv, RequestConservation, PairwiseDisjoint
<1>9. QED BY <1>2, <1>4, <1>5, <1>7, <1>8, Frame DEF IInv

\* SENDMESSAGE by packet: the consumer moves from the table to the network.
LEMMA SendPSIInv ==
    ASSUME IInv, NEW p, NEW c, <<p, c>> \in Edge, SendPS(p, c) PROVE IInv'
<1> USE DEF SendPS, SendEntered
<1>1. /\ p \in Task /\ c \in Task /\ Home[p] \in PE /\ Home[c] \in PE
      /\ buffer[p].num \in Nat
      /\ call \in [Task -> [op : {"none", "send", "receive"}, peer : Task]]
      /\ put \in [Edge -> Nat] /\ kernel \in [PE -> {"user", "spin", "error"}]
  BY EdgeFacts DEF IInv, TypeOK
<1>2. /\ c \in InTable /\ InTable' = InTable \ {c} /\ TableOnce' /\ TableShape'
      /\ RequestSlot(Home[p], p, c).requester_proc = Home[c]
      /\ message_request' \in [PE -> [Slot -> UsedSlot \cup {FreeSlot}]]
  BY <1>1, TableRemove
<1> DEFINE pkt == Delivery(p, c, buffer[p].num)
<1>3. /\ pkt \in Packet /\ pkt.producer = p /\ pkt.consumer = c
      /\ pkt.service = "MESSAGE_DELIVERY"
  BY <1>1 DEF Delivery, Packet, Service
<1>4. send_packet(Home[p], Home[c], pkt)
  BY <1>2
<1> HIDE DEF pkt
<1>5. c \notin InNet
  BY <1>2 DEF IInv, RequestConservation, PairwiseDisjoint
<1>6. /\ InNet' = InNet \cup {c} /\ OnceIn(ps_net)' /\ NetShape'
      /\ ps_net' \in [Link -> Seq(Packet)]
      /\ ps_send' \in [PE -> PE \cup {Manager, NoPE}]
  BY <1>1, <1>3, <1>4, <1>5, NetSend
<1>7. /\ call' \in [Task -> [op : {"none", "send", "receive"}, peer : Task]]
      /\ put' \in [Edge -> Nat] /\ kernel' \in [PE -> {"user", "spin", "error"}]
  BY <1>1 DEF NoCall, Call
<1>8. TypeOK'
  BY <1>2, <1>6, <1>7 DEF IInv, TypeOK
<1>9. RequestConservation'
  BY <1>2, <1>6, Frame DEF IInv, RequestConservation, PairwiseDisjoint
<1>10. NoErrorLoop'
  BY DEF IInv, NoErrorLoop, TypeOK
<1>11. QED BY <1>2, <1>6, <1>8, <1>9, <1>10, Frame DEF IInv

\* SENDMESSAGE by circuit: the consumer moves from the table to the line.
LEMMA SendCSIInv ==
    ASSUME IInv, NEW p, NEW c, <<p, c>> \in Edge, SendCS(p, c) PROVE IInv'
<1> USE DEF SendCS, SendEntered
<1>1. /\ p \in Task /\ c \in Task /\ Home[p] \in PE
      /\ buffer[p].num \in Nat
      /\ call \in [Task -> [op : {"none", "send", "receive"}, peer : Task]]
      /\ put \in [Edge -> Nat]
  BY EdgeFacts DEF IInv, TypeOK
<1>2. /\ c \in InTable /\ InTable' = InTable \ {c} /\ TableOnce' /\ TableShape'
      /\ message_request' \in [PE -> [Slot -> UsedSlot \cup {FreeSlot}]]
  BY <1>1, TableRemove
<1>3. c \notin OnLine
  BY <1>2 DEF IInv, RequestConservation, PairwiseDisjoint
<1>4. /\ OnLine' = OnLine \cup {c} /\ LineOnce'
      /\ cs_line' \in [Circuit -> [state : {"idle", "sending", "sent"}, num : Nat]]
  BY <1>1, <1>3, LineSet
<1>5. /\ call' \in [Task -> [op : {"none", "send", "receive"}, peer : Task]]
      /\ put' \in [Edge -> Nat]
  BY <1>1 DEF NoCall, Call
<1>6. TypeOK'
  BY <1>2, <1>4, <1>5 DEF IInv, TypeOK
<1>7. RequestConservation'
  BY <1>2, <1>4, Frame DEF IInv, RequestConservation, PairwiseDisjoint
<1>8. QED BY <1>2, <1>4, <1>6, <1>7, Frame DEF IInv

\* Receive knows the PE of the producer, and leaves exactly one request.
LEMMA ReceiveIInv ==
    ASSUME IInv, NEW p, NEW c, <<p, c>> \in Edge, Receive(p, c) PROVE IInv'
<1> USE DEF Receive, Runs
<1>1. /\ p \in Task /\ c \in Task /\ p # c /\ AppOf[p] = AppOf[c]
      /\ Home[p] \in PE /\ Home[c] \in PE
  BY EdgeFacts
<1>2. task_location[Home[c]][p] = Home[p]
  BY <1>1 DEF IInv, PeersLocated
<1>3. c \notin Waiting /\ ~recv_buffer[c]
  BY <1>1, HasBuffer DEF Waiting
<1>4. Ask(p, c) /\ Asked(c) /\ UNCHANGED <<kernel, status>>
  BY <1>1, <1>2, <1>3, SystemAssumption
<1>5. /\ c \notin InNet /\ c \notin InPending /\ c \notin InTable /\ c \notin OnWire /\ c \notin OnLine
  BY <1>3 DEF IInv, RequestConservation
<1>6. /\ Waiting' = Waiting \cup {c} /\ WaitShape'
      /\ waiting_msg' \in [Task -> BOOLEAN] /\ recv_buffer' \in [Task -> BOOLEAN]
  <2>1. waiting_msg \in [Task -> BOOLEAN] /\ recv_buffer \in [Task -> BOOLEAN] /\ WaitShape
    BY DEF IInv, TypeOK
  <2>2. QED BY <1>1, <1>4, <2>1 DEF Asked, Waiting, WaitShape
<1>7. NoErrorLoop' /\ PeersLocated'
  BY <1>4, Frame
<1>8. CASE AskLocal(p, c)
  <2> USE DEF AskLocal, netVars
  <2>1. Home[c] = Home[p]
    BY <1>2, <1>8
  <2>2. <<p, c>> \notin Circuit /\ <<p, c>> \in EdgesAt(Home[c])
    BY <2>1, SystemAssumption DEF EdgesAt
  <2>3. insert_message_request(Home[c], p, c, Home[c])
    BY <1>8
  <2>4. /\ InTable' = InTable \cup {c} /\ TableOnce' /\ TableShape'
        /\ message_request' \in [PE -> [Slot -> UsedSlot \cup {FreeSlot}]]
    BY <1>1, <1>5, <2>2, <2>3, TableInsert
  <2>5. TypeOK'
    BY <1>4, <1>6, <1>8, <2>4 DEF IInv, TypeOK
  <2>6. RequestConservation'
    BY <1>5, <1>6, <1>8, <2>4, Frame DEF IInv, RequestConservation, PairwiseDisjoint
  <2>7. QED BY <1>6, <1>7, <1>8, <2>4, <2>5, <2>6, Frame DEF IInv
<1>9. CASE AskPS(p, c)
  <2> USE DEF AskPS
  <2> DEFINE pkt == Request(p, c, Home[c])
  <2>1. /\ pkt \in Packet /\ pkt.producer = p /\ pkt.consumer = c
        /\ pkt.requesting_processor = Home[c]
    BY <1>1 DEF Request, Packet, Service
  <2>2. send_packet(Home[c], Home[p], pkt)
    BY <1>2, <1>9
  <2> HIDE DEF pkt
  <2>3. /\ InNet' = InNet \cup {c} /\ OnceIn(ps_net)' /\ NetShape'
        /\ ps_net' \in [Link -> Seq(Packet)]
        /\ ps_send' \in [PE -> PE \cup {Manager, NoPE}]
    BY <1>1, <1>5, <2>1, <2>2, NetSend
  <2>4. TypeOK'
    BY <1>4, <1>6, <1>9, <2>3 DEF IInv, TypeOK
  <2>5. RequestConservation'
    BY <1>5, <1>6, <1>9, <2>3, Frame DEF IInv, RequestConservation, PairwiseDisjoint
  <2>6. QED BY <1>6, <1>7, <1>9, <2>3, <2>4, <2>5, Frame DEF IInv
<1>10. CASE AskCS(p, c)
  <2> USE DEF AskCS
  <2>1. /\ OnWire' = OnWire \cup {c} /\ WireOnce'
        /\ cs_request' \in [Circuit -> BOOLEAN]
    BY <1>1, <1>5, <1>10, WireSet
  <2>2. TypeOK'
    BY <1>4, <1>6, <1>10, <2>1 DEF IInv, TypeOK
  <2>3. RequestConservation'
    BY <1>5, <1>6, <1>10, <2>1, Frame DEF IInv, RequestConservation, PairwiseDisjoint
  <2>4. QED BY <1>6, <1>7, <1>10, <2>1, <2>2, <2>3, Frame DEF IInv
<1>11. QED BY <1>4, <1>8, <1>9, <1>10 DEF Ask

\* The locations an exit clears are those of an application that has no other
\* task on the PE.
LEMMA ExitIInv ==
    ASSUME IInv, NEW t \in Task, Exit(t) PROVE IInv'
<1> USE DEF Exit, Runs
<1> DEFINE cleared == [task_location EXCEPT ![Home[t]] =
                         [u \in Task |-> IF AppOf[u] = AppOf[t] THEN NoPE ELSE @[u]]]
<1>1. /\ Home[t] \in PE /\ kernel \in [PE -> {"user", "spin", "error"}]
      /\ status \in [Task -> {"BLOCKED", "READY", "FREE"}]
      /\ task_location \in [PE -> [Task -> PE \cup {NoPE}]]
      /\ ps_send \in [PE -> PE \cup {Manager, NoPE}]
  BY SystemAssumption DEF IInv, TypeOK
<1>2. cleared \in [PE -> [Task -> PE \cup {NoPE}]]
  BY <1>1
<1>3. TypeOK'
  BY <1>1, <1>2 DEF IInv, TypeOK
<1>4. PeersLocated'
  <2>1. SUFFICES ASSUME NEW v \in Task, NEW u \in Task,
                        status'[v] = "READY", AppOf[u] = AppOf[v]
                 PROVE  task_location'[Home[v]][u] = Home[u]
    BY DEF PeersLocated
  <2>2. v # t /\ status[v] = "READY"
    BY <2>1, <1>1
  <2>3. task_location[Home[v]][u] = Home[u]
    BY <2>1, <2>2 DEF IInv, PeersLocated
  <2>4. CASE task_location' = task_location
    BY <2>3, <2>4
  <2>5. CASE task_location' # task_location
    <3>1. task_location' = cleared
      BY <2>5
    <3>2. ~(Home[v] = Home[t] /\ AppOf[v] = AppOf[t])
      BY <2>2, <2>5
    <3>3. Home[v] \in PE
      BY SystemAssumption
    <3>4. task_location'[Home[v]][u] = task_location[Home[v]][u]
      BY <2>1, <3>1, <3>2, <3>3, <1>1
    <3>5. QED BY <2>3, <3>4
  <2>6. QED BY <2>4, <2>5
<1>5. NoErrorLoop'
  BY <1>1 DEF IInv, NoErrorLoop
<1>6. QED BY <1>3, <1>4, <1>5, Frame DEF IInv, RequestConservation, PairwiseDisjoint

\* MESSAGE_REQUEST: the consumer moves from the network to the table, where a
\* slot is free.
LEMMA HandleRequestIInv ==
    ASSUME IInv, NEW s \in PE, NEW d \in PE, HandleRequest(s, d) PROVE IInv'
<1> USE DEF HandleRequest, PacketAt
<1> DEFINE pkt == Head(ps_net[<<s, d>>])
<1>1. /\ pkt \in Packet /\ pkt.consumer \in InNet
      /\ <<pkt.producer, pkt.consumer>> \in Edge
      /\ pkt.service = "MESSAGE_REQUEST" =>
           d = Home[pkt.producer] /\ pkt.requesting_processor = Home[pkt.consumer]
      /\ InNet' = InNet \ {pkt.consumer} /\ OnceIn(ps_net)' /\ NetShape'
      /\ ps_net' \in [Link -> Seq(Packet)]
      /\ ps_send' \in [PE -> PE \cup {Manager, NoPE}]
  BY NetRead
<1>2. pkt.service = "MESSAGE_REQUEST" /\ handle_message_request(d, pkt)
  OBVIOUS
<1> HIDE DEF pkt
<1>3. pkt.consumer \notin InTable
  BY <1>1 DEF IInv, RequestConservation, PairwiseDisjoint
<1>4. /\ pkt.producer \in Task /\ pkt.consumer \in Task
      /\ pkt.requesting_processor \in PE \cup {NoPE}
      /\ <<pkt.producer, pkt.consumer>> \in EdgesAt(d)
  BY <1>1, <1>2 DEF Packet, EdgesAt
<1>5. insert_message_request(d, pkt.producer, pkt.consumer, pkt.requesting_processor)
  BY <1>2 DEF handle_message_request
<1>6. /\ InTable' = InTable \cup {pkt.consumer} /\ TableOnce' /\ TableShape'
      /\ message_request' \in [PE -> [Slot -> UsedSlot \cup {FreeSlot}]]
  BY <1>1, <1>2, <1>3, <1>4, <1>5, TableInsert
<1>7. TypeOK'
  BY <1>1, <1>6 DEF IInv, TypeOK, taskVars
<1>8. RequestConservation'
  BY <1>1, <1>6, Frame DEF IInv, RequestConservation, PairwiseDisjoint, taskVars
<1>9. QED BY <1>1, <1>6, <1>7, <1>8, Frame DEF IInv, taskVars

\* A deferred request: the consumer moves from the network to the FIFO, which
\* has room.
LEMMA DeferRequestIInv ==
    ASSUME IInv, NEW s \in PE, NEW d \in PE, DeferRequest(s, d) PROVE IInv'
<1> USE DEF DeferRequest, PacketAt
<1> DEFINE pkt == Head(ps_net[<<s, d>>])
<1>1. /\ pkt \in Packet /\ pkt.consumer \in InNet
      /\ <<pkt.producer, pkt.consumer>> \in Edge
      /\ pkt.service = "MESSAGE_REQUEST" =>
           d = Home[pkt.producer] /\ pkt.requesting_processor = Home[pkt.consumer]
      /\ InNet' = InNet \ {pkt.consumer} /\ OnceIn(ps_net)' /\ NetShape'
      /\ ps_net' \in [Link -> Seq(Packet)]
      /\ ps_send' \in [PE -> PE \cup {Manager, NoPE}]
  BY NetRead
<1>2. /\ pkt.service = "MESSAGE_REQUEST"
      /\ IF Len(pending[d]) < PENDING_SERVICE_TAM
         THEN pending' = [pending EXCEPT ![d] = Append(@, pkt)] /\ UNCHANGED kernel
         ELSE KernelError(d) /\ UNCHANGED pending
  OBVIOUS
<1> HIDE DEF pkt
<1>3. pkt.consumer \notin InPending
  BY <1>1 DEF IInv, RequestConservation, PairwiseDisjoint
<1>4. <<pkt.producer, pkt.consumer>> \in EdgesAt(d)
  BY <1>1, <1>2 DEF EdgesAt
<1>5. Len(pending[d]) < PENDING_SERVICE_TAM
  BY <1>3, <1>4, PendingRoom
<1>6. pending' = [pending EXCEPT ![d] = Append(@, pkt)] /\ UNCHANGED kernel
  BY <1>2, <1>5
<1>7. /\ InPending' = InPending \cup {pkt.consumer} /\ OnceIn(pending)' /\ PendingShape'
      /\ pending' \in [PE -> Seq(Packet)]
  BY <1>1, <1>2, <1>3, <1>6, FifoAdd
<1>8. TypeOK'
  BY <1>1, <1>6, <1>7 DEF IInv, TypeOK, taskVars
<1>9. RequestConservation'
  BY <1>1, <1>7, Frame DEF IInv, RequestConservation, PairwiseDisjoint, taskVars
<1>10. QED BY <1>1, <1>6, <1>7, <1>8, <1>9, Frame DEF IInv, taskVars

\* The consumer of a message still waits for it.
LEMMA Delivered ==
    ASSUME IInv, NEW d \in PE, NEW pkt \in Packet, pkt.consumer \in Waiting,
           handle_message_delivery(d, pkt)
    PROVE  /\ Waiting' = Waiting \ {pkt.consumer} /\ WaitShape' /\ UNCHANGED kernel
           /\ waiting_msg' \in [Task -> BOOLEAN] /\ recv_buffer' \in [Task -> BOOLEAN]
           /\ got' \in [Edge -> Nat]
           /\ call' \in [Task -> [op : {"none", "send", "receive"}, peer : Task]]
<1>1. pkt.producer \in Task /\ pkt.consumer \in Task /\ pkt.num \in Nat
  BY DEF Packet
<1>2. recv_buffer[pkt.consumer]
  BY <1>1, HasBuffer
<1>3. /\ ReleaseConsumer(pkt.producer, pkt.consumer, pkt.num) /\ UNCHANGED kernel
      /\ call' = [call EXCEPT ![pkt.consumer] = NoCall(pkt.consumer)]
  BY <1>2 DEF handle_message_delivery
<1>4. call' \in [Task -> [op : {"none", "send", "receive"}, peer : Task]]
  BY <1>1, <1>3 DEF IInv, TypeOK, NoCall, Call
<1>5. /\ Waiting' = Waiting \ {pkt.consumer} /\ WaitShape'
      /\ waiting_msg' \in [Task -> BOOLEAN] /\ recv_buffer' \in [Task -> BOOLEAN]
      /\ got' \in [Edge -> Nat]
  BY <1>1, <1>3, Woken
<1>6. QED BY <1>3, <1>4, <1>5

\* MESSAGE_DELIVERY: the packet leaves the network and its consumer, which has a
\* buffer registered, stops waiting.
LEMMA HandleDeliveryIInv ==
    ASSUME IInv, NEW s \in PE, NEW d \in PE, HandleDelivery(s, d) PROVE IInv'
<1> USE DEF HandleDelivery, PacketAt
<1> DEFINE pkt == Head(ps_net[<<s, d>>])
<1>1. /\ pkt \in Packet /\ pkt.consumer \in InNet
      /\ InNet' = InNet \ {pkt.consumer} /\ OnceIn(ps_net)' /\ NetShape'
      /\ ps_net' \in [Link -> Seq(Packet)]
      /\ ps_send' \in [PE -> PE \cup {Manager, NoPE}]
  BY NetRead
<1>2. handle_message_delivery(d, pkt)
  OBVIOUS
<1> HIDE DEF pkt
<1>3. pkt.consumer \in Waiting
  BY <1>1 DEF IInv, RequestConservation
<1>4. /\ Waiting' = Waiting \ {pkt.consumer} /\ WaitShape' /\ UNCHANGED kernel
      /\ waiting_msg' \in [Task -> BOOLEAN] /\ recv_buffer' \in [Task -> BOOLEAN]
      /\ got' \in [Edge -> Nat]
      /\ call' \in [Task -> [op : {"none", "send", "receive"}, peer : Task]]
  BY <1>1, <1>2, <1>3, Delivered
<1>5. TypeOK'
  BY <1>1, <1>4 DEF IInv, TypeOK
<1>6. RequestConservation'
  BY <1>1, <1>4, Frame DEF IInv, RequestConservation, PairwiseDisjoint
<1>7. QED BY <1>1, <1>4, <1>5, <1>6, Frame DEF IInv

\* A service of the FIFO: the consumer moves from the FIFO to the table.
LEMMA HandlePendingIInv ==
    ASSUME IInv, NEW d \in PE, HandlePending(d) PROVE IInv'
<1> USE DEF HandlePending
<1> DEFINE pkt == Head(pending[d])
<1>1. /\ pkt \in Packet /\ pkt.consumer \in InPending
      /\ <<pkt.producer, pkt.consumer>> \in Edge
      /\ d = Home[pkt.producer] /\ pkt.requesting_processor = Home[pkt.consumer]
      /\ InPending' = InPending \ {pkt.consumer} /\ OnceIn(pending)' /\ PendingShape'
      /\ pending' \in [PE -> Seq(Packet)]
  BY FifoTake
<1>2. handle_message_request(d, pkt)
  OBVIOUS
<1> HIDE DEF pkt
<1>3. pkt.consumer \notin InTable
  BY <1>1 DEF IInv, RequestConservation, PairwiseDisjoint
<1>4. /\ pkt.producer \in Task /\ pkt.consumer \in Task
      /\ pkt.requesting_processor \in PE \cup {NoPE}
      /\ <<pkt.producer, pkt.consumer>> \in EdgesAt(d)
  BY <1>1 DEF Packet, EdgesAt
<1>5. insert_message_request(d, pkt.producer, pkt.consumer, pkt.requesting_processor)
  BY <1>2 DEF handle_message_request
<1>6. /\ InTable' = InTable \cup {pkt.consumer} /\ TableOnce' /\ TableShape'
      /\ message_request' \in [PE -> [Slot -> UsedSlot \cup {FreeSlot}]]
  BY <1>1, <1>3, <1>4, <1>5, TableInsert
<1>7. TypeOK'
  BY <1>1, <1>6 DEF IInv, TypeOK, taskVars, netVars
<1>8. RequestConservation'
  BY <1>1, <1>6, Frame DEF IInv, RequestConservation, PairwiseDisjoint, taskVars, netVars
<1>9. QED BY <1>1, <1>6, <1>7, <1>8, Frame DEF IInv, taskVars, netVars

\* The interrupt of a request wire: the consumer moves from the wire to the table.
LEMMA HandleCSRequestIInv ==
    ASSUME IInv, NEW p, NEW c, <<p, c>> \in Circuit, HandleCSRequest(p, c) PROVE IInv'
<1> USE DEF HandleCSRequest
<1>1. /\ <<p, c>> \in Edge /\ p \in Task /\ c \in Task /\ Home[p] \in PE
      /\ task_location[Home[p]][c] \in PE \cup {NoPE}
      /\ <<p, c>> \in EdgesAt(Home[p])
  BY SystemAssumption DEF IInv, TypeOK, EdgesAt
<1>2. /\ c \in OnWire /\ OnWire' = OnWire \ {c} /\ WireOnce'
      /\ cs_request' \in [Circuit -> BOOLEAN]
  BY <1>1, WireClear
<1>3. c \notin InTable
  BY <1>2 DEF IInv, RequestConservation, PairwiseDisjoint
<1>4. insert_message_request(Home[p], p, c, task_location[Home[p]][c])
  BY DEF handle_message_request, Request
<1>5. /\ InTable' = InTable \cup {c} /\ TableOnce' /\ TableShape'
      /\ message_request' \in [PE -> [Slot -> UsedSlot \cup {FreeSlot}]]
  BY <1>1, <1>3, <1>4, TableInsert
<1>6. TypeOK'
  BY <1>2, <1>5 DEF IInv, TypeOK, taskVars
<1>7. RequestConservation'
  BY <1>2, <1>5, Frame DEF IInv, RequestConservation, PairwiseDisjoint, taskVars
<1>8. QED BY <1>2, <1>5, <1>6, <1>7, Frame DEF IInv, taskVars

\* The interrupt of a circuit: the message leaves the line and its consumer stops
\* waiting.
LEMMA HandleCSDeliveryIInv ==
    ASSUME IInv, NEW p, NEW c, <<p, c>> \in Circuit, HandleCSDelivery(p, c) PROVE IInv'
<1> USE DEF HandleCSDelivery
<1> DEFINE pkt == Delivery(p, c, cs_line[<<p, c>>].num)
<1>1. p \in Task /\ c \in Task /\ Home[c] \in PE /\ cs_line[<<p, c>>].num \in Nat
  BY SystemAssumption DEF IInv, TypeOK
<1>2. pkt \in Packet /\ pkt.consumer = c
  BY <1>1 DEF Delivery, Packet, Service
<1>3. handle_message_delivery(Home[c], pkt)
  OBVIOUS
<1> HIDE DEF pkt
<1>4. /\ c \in OnLine /\ OnLine' = OnLine \ {c} /\ LineOnce'
      /\ cs_line' \in [Circuit -> [state : {"idle", "sending", "sent"}, num : Nat]]
  BY <1>1, LineClear
<1>5. c \in Waiting
  BY <1>4 DEF IInv, RequestConservation
<1>6. /\ Waiting' = Waiting \ {c} /\ WaitShape' /\ UNCHANGED kernel
      /\ waiting_msg' \in [Task -> BOOLEAN] /\ recv_buffer' \in [Task -> BOOLEAN]
      /\ got' \in [Edge -> Nat]
      /\ call' \in [Task -> [op : {"none", "send", "receive"}, peer : Task]]
  BY <1>1, <1>2, <1>3, <1>5, Delivered
<1>7. TypeOK'
  BY <1>4, <1>6 DEF IInv, TypeOK
<1>8. RequestConservation'
  BY <1>4, <1>6, Frame DEF IInv, RequestConservation, PairwiseDisjoint
<1>9. QED BY <1>4, <1>6, <1>7, <1>8, Frame DEF IInv

\* TASK_RELEASE: every task of the application is located.
LEMMA TaskReleaseIInv ==
    ASSUME IInv, NEW t \in Task, TaskRelease(t) PROVE IInv'
<1> USE DEF TaskRelease, netVars
<1>1. /\ Home \in [Task -> PE] /\ status \in [Task -> {"BLOCKED", "READY", "FREE"}]
      /\ task_location \in [PE -> [Task -> PE \cup {NoPE}]]
  BY SystemAssumption DEF IInv, TypeOK
<1>2. task_location' \in [PE -> [Task -> PE \cup {NoPE}]]
  BY <1>1
<1>3. TypeOK'
  BY <1>1, <1>2 DEF IInv, TypeOK
<1>4. PeersLocated'
  <2>1. SUFFICES ASSUME NEW v \in Task, NEW u \in Task,
                        status'[v] = "READY", AppOf[u] = AppOf[v]
                 PROVE  task_location'[Home[v]][u] = Home[u]
    BY DEF PeersLocated
  <2>2. task_location'[Home[v]] =
          IF Home[v] = Home[t]
          THEN [w \in Task |-> IF AppOf[w] = AppOf[t] THEN Home[w] ELSE task_location[Home[t]][w]]
          ELSE task_location[Home[v]]
    BY <1>1
  <2>3. v # t => status[v] = "READY"
    BY <2>1, <1>1
  <2>4. v # t => task_location[Home[v]][u] = Home[u]
    BY <2>1, <2>3 DEF IInv, PeersLocated
  <2>5. QED BY <2>1, <2>2, <2>4
<1>5. QED BY <1>3, <1>4, Frame DEF IInv, RequestConservation, PairwiseDisjoint

\* The DMNI ends a packet before it is read.
LEMMA PSSendEndsIInv ==
    ASSUME IInv, NEW s \in PE, PSSendEnds(s) PROVE IInv'
<1> USE DEF PSSendEnds, kernelVars, taskVars
<1>1. TypeOK'
  BY DEF IInv, TypeOK
<1>2. QED BY <1>1, Frame DEF IInv, RequestConservation, PairwiseDisjoint

\* The message stays on the circuit when its last word has left the memory.
LEMMA CSSendEndsIInv ==
    ASSUME IInv, NEW p, NEW c, <<p, c>> \in Circuit, CSSendEnds(p, c) PROVE IInv'
<1> USE DEF CSSendEnds, kernelVars, taskVars
<1>1. cs_line \in [Circuit -> [state : {"idle", "sending", "sent"}, num : Nat]] /\ LineOnce
  BY DEF IInv, TypeOK, RequestConservation
<1>2. cs_line' \in [Circuit -> [state : {"idle", "sending", "sent"}, num : Nat]]
  BY <1>1
<1>3. \A k \in Circuit : cs_line'[k].state # "idle" <=> cs_line[k].state # "idle"
  BY <1>1
<1>4. OnLine' = OnLine /\ LineOnce'
  BY <1>1, <1>3 DEF OnLine, LineOnce
<1>5. TypeOK'
  BY <1>2 DEF IInv, TypeOK
<1>6. QED BY <1>4, <1>5, Frame DEF IInv, RequestConservation, PairwiseDisjoint

\* The kernel leaves its wait for the DMNI.
LEMMA SpinEndsIInv ==
    ASSUME IInv, NEW d \in PE, SpinEnds(d) PROVE IInv'
<1> USE DEF SpinEnds, taskVars, netVars
<1>1. TypeOK' /\ NoErrorLoop'
  BY DEF IInv, TypeOK, NoErrorLoop
<1>2. QED BY <1>1, Frame DEF IInv, RequestConservation, PairwiseDisjoint

\* A step that changes nothing.
LEMMA StutterIInv ==
    ASSUME IInv, UNCHANGED vars PROVE IInv'
<1> USE DEF vars, kernelVars, taskVars, netVars
<1>1. TypeOK'
  BY DEF IInv, TypeOK
<1>2. QED BY <1>1, Frame DEF IInv, RequestConservation, PairwiseDisjoint

-----------------------------------------------------------------------------
(* The theorems *)

\* IInv is inductive.
LEMMA NextIInv == IInv /\ [Next]_vars => IInv'
<1> SUFFICES ASSUME IInv, [Next]_vars PROVE IInv'
  OBVIOUS
<1>1. ASSUME NEW e \in Edge, EdgeStep(e[1], e[2]) PROVE IInv'
  <2>1. <<e[1], e[2]>> \in Edge
    BY SystemAssumption
  <2>2. QED
    BY <1>1, <2>1, CallSendIInv, CallReceiveIInv, SendLocalIInv, SendPSIInv, SendCSIInv,
       ReceiveIInv DEF EdgeStep
<1>2. ASSUME NEW k \in Circuit, CircuitStep(k[1], k[2]) PROVE IInv'
  <2>1. <<k[1], k[2]>> \in Circuit
    BY SystemAssumption
  <2>2. QED
    BY <1>2, <2>1, HandleCSRequestIInv, HandleCSDeliveryIInv, CSSendEndsIInv DEF CircuitStep
<1>3. ASSUME NEW l \in Link, LinkStep(l[1], l[2]) PROVE IInv'
  <2>1. l[1] \in PE /\ l[2] \in PE
    BY DEF Link
  <2>2. QED
    BY <1>3, <2>1, HandleRequestIInv, DeferRequestIInv, HandleDeliveryIInv DEF LinkStep
<1>4. ASSUME NEW d \in PE, PEStep(d) PROVE IInv'
  BY <1>4, HandlePendingIInv, PSSendEndsIInv, SpinEndsIInv DEF PEStep
<1>5. ASSUME NEW t \in Task, TaskStep(t) PROVE IInv'
  BY <1>5, TaskReleaseIInv, ExitIInv DEF TaskStep
<1>6. QED BY <1>1, <1>2, <1>3, <1>4, <1>5, StutterIInv DEF Next

\* IInv is therefore an invariant of the system.
LEMMA InvariantIInv == Spec => []IInv
BY InitIInv, NextIInv, PTL DEF Spec

\* Every variable keeps its type, in a system of any size.
THEOREM TypeCorrect == Spec => []TypeOK
<1>1. IInv => TypeOK
  BY DEF IInv
<1>2. QED BY <1>1, InvariantIInv, PTL

\* A waiting consumer has exactly one request or one answer in the system, and
\* nobody else has: in the packets of the NoC, the deferred services, the
\* tables of requests and the circuits together.
THEOREM RequestsConserved == Spec => []RequestConservation
<1>1. IInv => RequestConservation
  BY DEF IInv
<1>2. QED BY <1>1, InvariantIInv, PTL

\* No kernel reaches one of its endless error loops, when the FIFO of pending
\* services has a slot for every edge that leaves the PE.
THEOREM KernelsNeverFail == Spec => []NoErrorLoop
<1>1. IInv => NoErrorLoop
  BY DEF IInv
<1>2. QED BY <1>1, InvariantIInv, PTL

\* A released task can locate all the tasks of its application until it exits.
THEOREM PeersStayLocated == Spec => []PeersLocated
<1>1. IInv => PeersLocated
  BY DEF IInv
<1>2. QED BY <1>1, InvariantIInv, PTL

-----------------------------------------------------------------------------
(* The packets and the requests of the system, as sets *)

Packets(q) == UNION {{q[l][i] : i \in DOMAIN q[l]} : l \in DOMAIN q}

Pair(m) == <<m.producer, m.consumer>>

NetPairs     == {Pair(m) : m \in Packets(ps_net)}
PendingPairs == {Pair(m) : m \in Packets(pending)}
TablePairs   == {e \in Edge : \E d \in PE : \E i \in Slot :
                   /\ message_request[d][i].requested = e[1]
                   /\ message_request[d][i].requester = e[2]}
WirePairs    == {k \in Circuit : cs_request[k]}
LinePairs    == {k \in Circuit : cs_line[k].state # "idle"}

Pairs == NetPairs \cup PendingPairs \cup TablePairs \cup WirePairs \cup LinePairs

\* The pairs whose message has been accepted and not yet received.
NetAnswers == {Pair(m) : m \in {n \in Packets(ps_net) : n.service = "MESSAGE_DELIVERY"}}
Answers == NetAnswers \cup LinePairs

-----------------------------------------------------------------------------
(* The inductive invariant *)

\* A request or an answer is that of the producer its consumer has asked.
PeersAsked == \A e \in Pairs : call[e[2]].peer = e[1]

\* What a producer has written in its message while it calls Send.
MessageWritten ==
    \A p \in Task : call[p].op = "send" =>
        /\ <<p, call[p].peer>> \in Edge
        /\ buffer[p] = [to |-> call[p].peer, num |-> put[<<p, call[p].peer>>] + 1]

\* A pair is one message ahead exactly while the answer is on its way.
OneAhead == \A e \in Edge : put[e] = IF e \in Answers THEN got[e] + 1 ELSE got[e]

\* The message on its way is the last one accepted.
LastAccepted ==
    /\ \A m \in Packets(ps_net) : m.service = "MESSAGE_DELIVERY" => m.num = put[Pair(m)]
    /\ \A k \in LinePairs : cs_line[k].num = put[k]

\* The last packet of the link a DMNI sends on is the one it sends. While that is
\* a message, the kernel spins, and the message is still the one that a task of
\* this PE has written.
LastPacket(s, d) == ps_net[<<s, d>>][Len(ps_net[<<s, d>>])]
SendingAt(s) ==
    \A d \in PE : ps_send[s] = d =>
        /\ Len(ps_net[<<s, d>>]) > 0
        /\ LET pkt == LastPacket(s, d)
           IN  pkt.service = "MESSAGE_DELIVERY" =>
                 /\ kernel[s] = "spin" /\ Home[pkt.producer] = s
                 /\ buffer[pkt.producer] = [to |-> pkt.consumer, num |-> pkt.num]
Sending == \A s \in PE : SendingAt(s)

RInv == IInv /\ PeersAsked /\ MessageWritten /\ OneAhead /\ LastAccepted /\ Sending

-----------------------------------------------------------------------------
(* Lemmas about the sets of packets and pairs *)

\* A queue that grows by a packet adds it to the packets.
LEMMA PacketsAppend ==
    ASSUME NEW I, NEW q \in [I -> Seq(Packet)], NEW l \in I, NEW pkt \in Packet,
           NEW r, Appended(r, q, l, pkt)
    PROVE  Packets(r) = Packets(q) \cup {pkt}
<1>1. /\ DOMAIN r = I /\ DOMAIN q = I /\ q[l] \in Seq(Packet)
      /\ \A m \in I : m # l => r[m] = q[m]
      /\ r[l] = Append(q[l], pkt)
  BY DEF Appended
<1>2. /\ DOMAIN r[l] = DOMAIN q[l] \cup {Len(q[l]) + 1}
      /\ r[l][Len(q[l]) + 1] = pkt
      /\ \A i \in DOMAIN q[l] : r[l][i] = q[l][i]
  BY <1>1
<1>3. ASSUME NEW m \in Packets(r) PROVE m \in Packets(q) \cup {pkt}
  <2>1. PICK k \in I : \E i \in DOMAIN r[k] : r[k][i] = m
    BY <1>1, <1>3 DEF Packets
  <2>2. PICK i \in DOMAIN r[k] : r[k][i] = m
    BY <2>1
  <2>3. m = pkt \/ (i \in DOMAIN q[k] /\ q[k][i] = m)
    BY <1>1, <1>2, <2>2
  <2>4. QED BY <1>1, <2>3 DEF Packets
<1>4. ASSUME NEW m \in Packets(q) PROVE m \in Packets(r)
  <2>1. PICK k \in I : \E i \in DOMAIN q[k] : q[k][i] = m
    BY <1>1, <1>4 DEF Packets
  <2>2. PICK i \in DOMAIN q[k] : q[k][i] = m
    BY <2>1
  <2>3. i \in DOMAIN r[k] /\ r[k][i] = m
    BY <1>1, <1>2, <2>2
  <2>4. QED BY <1>1, <2>3 DEF Packets
<1>5. pkt \in Packets(r)
  BY <1>1, <1>2 DEF Packets
<1>6. QED BY <1>3, <1>4, <1>5

\* Two packets of one consumer are the same one.
LEMMA PacketsOnce ==
    ASSUME NEW I, NEW q \in [I -> Seq(Packet)], OnceIn(q)
    PROVE  /\ \A m \in Packets(q) : m \in Packet /\ m.consumer \in ConsumersIn(q)
           /\ \A m, n \in Packets(q) : m.consumer = n.consumer => m = n
<1>1. ASSUME NEW m \in Packets(q)
      PROVE  /\ m \in Packet /\ m.consumer \in ConsumersIn(q)
             /\ \E k \in I : \E i \in DOMAIN q[k] : q[k][i] = m
  <2>1. PICK k \in I : \E i \in DOMAIN q[k] : q[k][i] = m
    BY <1>1 DEF Packets
  <2>2. PICK i \in DOMAIN q[k] : q[k][i] = m
    BY <2>1
  <2>3. q[k] \in Seq(Packet)
    OBVIOUS
  <2>4. m \in Packet
    BY <2>2, <2>3
  <2>5. m.consumer \in Task
    BY <2>4 DEF Packet
  <2>6. QED BY <2>2, <2>4, <2>5 DEF ConsumersIn
<1>2. ASSUME NEW m \in Packets(q), NEW n \in Packets(q), m.consumer = n.consumer
      PROVE  m = n
  <2>1. PICK k \in I : \E i \in DOMAIN q[k] : q[k][i] = m
    BY <1>1
  <2>2. PICK i \in DOMAIN q[k] : q[k][i] = m
    BY <2>1
  <2>3. PICK h \in I : \E j \in DOMAIN q[h] : q[h][j] = n
    BY <1>1
  <2>4. PICK j \in DOMAIN q[h] : q[h][j] = n
    BY <2>3
  <2>5. DOMAIN q = I
    OBVIOUS
  <2>6. k = h /\ i = j
    BY <1>2, <2>2, <2>4, <2>5 DEF OnceIn
  <2>7. QED BY <2>2, <2>4, <2>6
<1>3. QED BY <1>1, <1>2

\* The packet that leaves a queue is no longer among the packets.
LEMMA PacketsTail ==
    ASSUME NEW I, NEW q \in [I -> Seq(Packet)], NEW l \in I, q[l] # <<>>, OnceIn(q),
           NEW r, Shortened(r, q, l)
    PROVE  /\ Head(q[l]) \in Packets(q)
           /\ Packets(r) = Packets(q) \ {Head(q[l])}
<1>1. /\ DOMAIN r = I /\ DOMAIN q = I /\ q[l] \in Seq(Packet)
      /\ \A m \in I : m # l => r[m] = q[m]
      /\ r[l] = Tail(q[l])
  BY DEF Shortened
<1>2. /\ 1 \in DOMAIN q[l] /\ Head(q[l]) = q[l][1]
      /\ \A i \in DOMAIN r[l] : i + 1 \in DOMAIN q[l] /\ i + 1 # 1 /\ r[l][i] = q[l][i + 1]
      /\ \A i \in DOMAIN q[l] : i = 1 \/ (i - 1 \in DOMAIN r[l] /\ r[l][i - 1] = q[l][i])
  BY <1>1
<1>3. Head(q[l]) \in Packets(q)
  BY <1>1, <1>2 DEF Packets
<1>4. ASSUME NEW m \in Packets(r) PROVE m \in Packets(q) /\ m # Head(q[l])
  <2>1. PICK k \in I : \E i \in DOMAIN r[k] : r[k][i] = m
    BY <1>1, <1>4 DEF Packets
  <2>2. PICK i \in DOMAIN r[k] : r[k][i] = m
    BY <2>1
  <2>3. CASE k = l
    <3>1. i + 1 \in DOMAIN q[l] /\ i + 1 # 1 /\ q[l][i + 1] = m
      BY <1>2, <2>2, <2>3
    <3>2. m # q[l][1]
      BY <1>1, <1>2, <3>1 DEF OnceIn
    <3>3. QED BY <1>1, <1>2, <3>1, <3>2 DEF Packets
  <2>4. CASE k # l
    <3>1. i \in DOMAIN q[k] /\ q[k][i] = m
      BY <1>1, <2>2, <2>4
    <3>2. m # q[l][1]
      BY <1>1, <1>2, <2>4, <3>1 DEF OnceIn
    <3>3. QED BY <1>1, <1>2, <3>1, <3>2 DEF Packets
  <2>5. QED BY <2>3, <2>4
<1>5. ASSUME NEW m \in Packets(q), m # Head(q[l]) PROVE m \in Packets(r)
  <2>1. PICK k \in I : \E i \in DOMAIN q[k] : q[k][i] = m
    BY <1>1, <1>5 DEF Packets
  <2>2. PICK i \in DOMAIN q[k] : q[k][i] = m
    BY <2>1
  <2>3. CASE k = l
    <3>1. i - 1 \in DOMAIN r[l] /\ r[l][i - 1] = m
      BY <1>2, <1>5, <2>2, <2>3
    <3>2. QED BY <1>1, <3>1 DEF Packets
  <2>4. CASE k # l
    BY <1>1, <2>2, <2>4 DEF Packets
  <2>5. QED BY <2>3, <2>4
<1>6. QED BY <1>3, <1>4, <1>5

\* Every pair is an edge whose consumer waits, and is in the place of its consumer.
PairsInPlace ==
    /\ Pairs \subseteq Edge
    /\ \A e \in NetPairs : e[2] \in InNet
    /\ \A e \in PendingPairs : e[2] \in InPending
    /\ \A e \in TablePairs : e[2] \in InTable
    /\ \A e \in WirePairs : e[2] \in OnWire
    /\ \A e \in LinePairs : e[2] \in OnLine
    /\ \A e \in Pairs : e[2] \in Waiting
    /\ NetAnswers \subseteq NetPairs

\* A pair has a request or an answer somewhere only while its consumer waits for it.
LEMMA PairsWait == IInv => PairsInPlace
<1> SUFFICES ASSUME IInv PROVE PairsInPlace
  OBVIOUS
<1>1. /\ ps_net \in [Link -> Seq(Packet)] /\ OnceIn(ps_net)
      /\ pending \in [PE -> Seq(Packet)] /\ OnceIn(pending)
  BY DEF IInv, TypeOK, RequestConservation
<1>2. ASSUME NEW e \in NetPairs PROVE e[2] \in InNet /\ e \in Edge
  <2>1. PICK m \in Packets(ps_net) : e = Pair(m)
    BY <1>2 DEF NetPairs
  <2>2. m.consumer \in ConsumersIn(ps_net)
    BY <1>1, PacketsOnce
  <2>3. PICK l \in Link : \E i \in DOMAIN ps_net[l] : ps_net[l][i] = m
    BY <1>1 DEF Packets
  <2>4. <<m.producer, m.consumer>> \in Edge
    BY <2>3 DEF IInv, NetShape
  <2>5. QED BY <2>1, <2>2, <2>4 DEF Pair, InNet
<1>3. ASSUME NEW e \in PendingPairs PROVE e[2] \in InPending /\ e \in Edge
  <2>1. PICK m \in Packets(pending) : e = Pair(m)
    BY <1>3 DEF PendingPairs
  <2>2. m.consumer \in ConsumersIn(pending)
    BY <1>1, PacketsOnce
  <2>3. PICK d \in PE : \E i \in DOMAIN pending[d] : pending[d][i] = m
    BY <1>1 DEF Packets
  <2>4. <<m.producer, m.consumer>> \in Edge
    BY <2>3 DEF IInv, PendingShape
  <2>5. QED BY <2>1, <2>2, <2>4 DEF Pair, InPending
<1>4. \A e \in Edge : e[2] \in Task /\ e = <<e[1], e[2]>>
  BY SystemAssumption
<1>5. Circuit \subseteq Edge
  BY SystemAssumption
<1>6. \A e \in TablePairs : e[2] \in InTable /\ e \in Edge
  BY <1>4 DEF TablePairs, InTable
<1>7. \A e \in WirePairs : e[2] \in OnWire /\ e \in Edge
  BY <1>4, <1>5 DEF WirePairs, OnWire
<1>8. \A e \in LinePairs : e[2] \in OnLine /\ e \in Edge
  BY <1>4, <1>5 DEF LinePairs, OnLine
<1>9. NetAnswers \subseteq NetPairs
  BY DEF NetAnswers, NetPairs
<1>10. Waiting = InNet \cup InPending \cup InTable \cup OnWire \cup OnLine
  BY DEF IInv, RequestConservation
<1>11. QED BY <1>2, <1>3, <1>6, <1>7, <1>8, <1>9, <1>10 DEF Pairs, PairsInPlace

\* What a step leaves alone.
LEMMA PairsFrame ==
    /\ ps_net' = ps_net => /\ NetPairs' = NetPairs /\ NetAnswers' = NetAnswers
                           /\ Packets(ps_net)' = Packets(ps_net)
    /\ pending' = pending => PendingPairs' = PendingPairs
    /\ message_request' = message_request => TablePairs' = TablePairs
    /\ cs_request' = cs_request => WirePairs' = WirePairs
    /\ cs_line' = cs_line => LinePairs' = LinePairs
<1>1. ps_net' = ps_net => /\ NetPairs' = NetPairs /\ NetAnswers' = NetAnswers
                           /\ Packets(ps_net)' = Packets(ps_net)
  BY DEF NetPairs, NetAnswers, Packets
<1>2. pending' = pending => PendingPairs' = PendingPairs
  BY DEF PendingPairs, Packets
<1>3. message_request' = message_request => TablePairs' = TablePairs
  BY DEF TablePairs
<1>4. cs_request' = cs_request => WirePairs' = WirePairs
  BY DEF WirePairs
<1>5. cs_line' = cs_line => LinePairs' = LinePairs
  BY DEF LinePairs
<1>6. QED BY <1>1, <1>2, <1>3, <1>4, <1>5

\* A request that is added to the table, whether there is room or not.
LEMMA PairInserted ==
    ASSUME IInv, NEW d \in PE, NEW p, NEW c, NEW proc, insert_message_request(d, p, c, proc)
    PROVE  TablePairs' \subseteq TablePairs \cup {<<p, c>>}
<1> DEFINE s == First(FreeSlots(d))
           slot == [requester |-> c, requested |-> p, requester_proc |-> proc]
<1>1. message_request \in [PE -> [Slot -> UsedSlot \cup {FreeSlot}]]
  BY DEF IInv, TypeOK
<1>2. message_request' = message_request \/ message_request' = [message_request EXCEPT ![d][s] = slot]
  BY DEF insert_message_request
<1> HIDE DEF s
<1>3. slot.requester = c /\ slot.requested = p
  OBVIOUS
<1> HIDE DEF slot
<1>4. \A e \in PE : \A i \in Slot : message_request'[e][i] \in {message_request[e][i], slot}
  BY <1>1, <1>2
<1>5. \A e \in Edge : e = <<e[1], e[2]>>
  BY SystemAssumption
<1>6. QED BY <1>3, <1>4, <1>5 DEF TablePairs

\* A request that Send takes out of the table.
LEMMA PairRemoved ==
    ASSUME IInv, NEW p, NEW c, <<p, c>> \in Edge, Matching(Home[p], p, c) # {},
           remove_message_request(Home[p], p, c)
    PROVE  <<p, c>> \in TablePairs /\ TablePairs' \subseteq TablePairs
<1> DEFINE s == First(Matching(Home[p], p, c))
<1>0. Home[p] \in PE /\ p \in Task /\ c \in Task
  BY EdgeFacts
<1>1. message_request \in [PE -> [Slot -> UsedSlot \cup {FreeSlot}]]
  BY DEF IInv, TypeOK
<1>2. message_request' = [message_request EXCEPT ![Home[p]][s] = FreeSlot]
  BY DEF remove_message_request
<1> HIDE DEF s
<1>3. FreeSlot.requester = NoTask
  BY DEF FreeSlot
<1>4. \A e \in PE : \A i \in Slot : message_request'[e][i] \in {message_request[e][i], FreeSlot}
  BY <1>1, <1>2
<1>5. \A e \in Edge : e[2] # NoTask
  BY SystemAssumption
<1>6. TablePairs' \subseteq TablePairs
  BY <1>3, <1>4, <1>5 DEF TablePairs
<1>7. <<p, c>> \in TablePairs
  BY <1>0 DEF TablePairs, Matching
<1>8. QED BY <1>6, <1>7

-----------------------------------------------------------------------------
(* The packets of the network: what a send adds and what a read takes *)

\* A packet that is sent.
LEMMA PairsSend ==
    ASSUME IInv, NEW s \in PE, NEW d \in PE, NEW pkt \in Packet, send_packet(s, d, pkt)
    PROVE  /\ Packets(ps_net)' = Packets(ps_net) \cup {pkt}
           /\ NetPairs' = NetPairs \cup {Pair(pkt)}
           /\ pkt.service = "MESSAGE_REQUEST" => NetAnswers' = NetAnswers
           /\ pkt.service = "MESSAGE_DELIVERY" => NetAnswers' = NetAnswers \cup {Pair(pkt)}
<1>1. ps_net \in [Link -> Seq(Packet)] /\ <<s, d>> \in Link
  BY DEF IInv, TypeOK, Link
<1>2. Appended(ps_net', ps_net, <<s, d>>, pkt)
  BY DEF send_packet, Appended
<1>3. Packets(ps_net') = Packets(ps_net) \cup {pkt}
  BY <1>1, <1>2, PacketsAppend
<1>4. Packets(ps_net)' = Packets(ps_net) \cup {pkt}
  BY <1>3 DEF Packets
<1>5. QED BY <1>4, Zenon DEF NetPairs, NetAnswers

\* A packet that is read.
LEMMA PairsRead ==
    ASSUME IInv, NEW s \in PE, NEW d \in PE, ps_net[<<s, d>>] # <<>>, PacketRead(s, d)
    PROVE  LET pkt == Head(ps_net[<<s, d>>])
           IN  /\ pkt \in Packets(ps_net)
               /\ Packets(ps_net)' = Packets(ps_net) \ {pkt}
               /\ Pair(pkt) \in NetPairs /\ NetPairs' \subseteq NetPairs
               /\ pkt.service = "MESSAGE_REQUEST" => NetAnswers' = NetAnswers
               /\ pkt.service = "MESSAGE_DELIVERY" =>
                    Pair(pkt) \in NetAnswers /\ NetAnswers' = NetAnswers \ {Pair(pkt)}
<1> DEFINE link == <<s, d>>
           pkt == Head(ps_net[link])
<1>1. ps_net \in [Link -> Seq(Packet)] /\ link \in Link /\ OnceIn(ps_net) /\ ps_net[link] # <<>>
  BY DEF IInv, TypeOK, Link, RequestConservation
<1>2. Shortened(ps_net', ps_net, link)
  BY DEF PacketRead, Shortened
<1> HIDE DEF link
<1>3. pkt \in Packets(ps_net) /\ Packets(ps_net') = Packets(ps_net) \ {pkt}
  BY <1>1, <1>2, PacketsTail
<1>4. \A m, n \in Packets(ps_net) : m.consumer = n.consumer => m = n
  BY <1>1, PacketsOnce
<1> HIDE DEF pkt
<1>5. Packets(ps_net)' = Packets(ps_net) \ {pkt}
  BY <1>3 DEF Packets
<1>6. \A m \in Packets(ps_net) : Pair(m) = Pair(pkt) => m = pkt
  BY <1>3, <1>4 DEF Pair
<1>7. Pair(pkt) \in NetPairs /\ NetPairs' \subseteq NetPairs
  BY <1>3, <1>5 DEF NetPairs
<1>8. ASSUME pkt.service = "MESSAGE_REQUEST" PROVE NetAnswers' = NetAnswers
  BY <1>3, <1>5, <1>8 DEF NetAnswers
<1>9. ASSUME pkt.service = "MESSAGE_DELIVERY"
      PROVE  Pair(pkt) \in NetAnswers /\ NetAnswers' = NetAnswers \ {Pair(pkt)}
  BY <1>3, <1>5, <1>6, <1>9 DEF NetAnswers
<1>10. QED BY <1>3, <1>5, <1>7, <1>8, <1>9 DEF pkt, link

\* The last packet of a link that its DMNI still sends is not the one that is read.
LEMMA LastPacketStays ==
    ASSUME RInv, NEW s \in PE, NEW d \in PE, ps_net[<<s, d>>] # <<>>, PacketRead(s, d),
           NEW r \in PE, NEW e \in PE, ps_send'[r] = e
    PROVE  ps_send[r] = e /\ Len(ps_net'[<<r, e>>]) > 0 /\ LastPacket(r, e)' = LastPacket(r, e)
<1>1. /\ ps_net \in [Link -> Seq(Packet)] /\ ps_send \in [PE -> PE \cup {Manager, NoPE}]
      /\ <<s, d>> \in Link /\ <<r, e>> \in Link /\ NoPE \notin PE
  BY SystemAssumption DEF RInv, IInv, TypeOK, Link
<1>2. /\ ps_net' = [ps_net EXCEPT ![<<s, d>>] = Tail(@)]
      /\ ps_send' = IF ps_send[s] = d /\ Len(ps_net[<<s, d>>]) = 1
                    THEN [ps_send EXCEPT ![s] = NoPE] ELSE ps_send
  BY DEF PacketRead
<1>3. ps_send[r] = e
  BY <1>1, <1>2
<1>4. Len(ps_net[<<r, e>>]) > 0
  BY <1>3 DEF RInv, Sending, SendingAt
<1>5. CASE <<r, e>> = <<s, d>>
  <2>1. Len(ps_net[<<s, d>>]) # 1
    BY <1>1, <1>2, <1>3, <1>5
  <2>2. ps_net'[<<s, d>>] = Tail(ps_net[<<s, d>>]) /\ ps_net[<<s, d>>] \in Seq(Packet)
    BY <1>1, <1>2
  <2>3. \A q \in Seq(Packet) : Len(q) > 1 =>
           Len(Tail(q)) > 0 /\ Tail(q)[Len(Tail(q))] = q[Len(q)]
    <3>1. SUFFICES ASSUME NEW q \in Seq(Packet), Len(q) > 1
                   PROVE  Len(Tail(q)) > 0 /\ Tail(q)[Len(Tail(q))] = q[Len(q)]
      OBVIOUS
    <3>2. Len(Tail(q)) = Len(q) - 1 /\ Len(q) \in Nat
      BY <3>1
    <3>3. \A i \in 1..(Len(q) - 1) : Tail(q)[i] = q[i + 1]
      BY <3>1
    <3>4. Len(Tail(q)) \in 1..(Len(q) - 1) /\ Len(Tail(q)) + 1 = Len(q)
      BY <3>1, <3>2
    <3>5. QED BY <3>3, <3>4
  <2>4. Len(ps_net[<<s, d>>]) > 1
    <3>1. Len(ps_net[<<s, d>>]) \in Nat
      BY <2>2
    <3>2. Len(ps_net[<<s, d>>]) > 0
      BY <1>4, <1>5
    <3>3. \A n \in Nat : n > 0 /\ n # 1 => n > 1
      OBVIOUS
    <3>4. QED BY <2>1, <3>1, <3>2, <3>3, Zenon
  <2>5. /\ Len(ps_net'[<<s, d>>]) > 0
        /\ ps_net'[<<s, d>>][Len(ps_net'[<<s, d>>])] = ps_net[<<s, d>>][Len(ps_net[<<s, d>>])]
    BY <2>2, <2>3, <2>4
  <2>6. QED BY <1>3, <1>5, <2>5 DEF LastPacket
<1>6. CASE <<r, e>> # <<s, d>>
  BY <1>1, <1>2, <1>3, <1>4, <1>6 DEF LastPacket
<1>7. QED BY <1>5, <1>6

\* A PE that sends nothing new keeps its part of the invariant.
LEMMA SendingKept ==
    ASSUME RInv, NEW s \in PE,
           \A d \in PE : ps_send'[s] = d =>
               ps_send[s] = d /\ Len(ps_net'[<<s, d>>]) > 0 /\ LastPacket(s, d)' = LastPacket(s, d),
           kernel[s] = "spin" /\ ps_send'[s] # NoPE => kernel'[s] = "spin",
           \A t : kernel[Home[t]] = "spin" => buffer'[t] = buffer[t]
    PROVE  SendingAt(s)'
<1>1. SUFFICES ASSUME NEW d \in PE, ps_send'[s] = d,
                      LastPacket(s, d)'.service = "MESSAGE_DELIVERY"
               PROVE  LET pkt == LastPacket(s, d)'
                      IN  /\ kernel'[s] = "spin" /\ Home[pkt.producer] = s
                          /\ buffer'[pkt.producer] = [to |-> pkt.consumer, num |-> pkt.num]
  BY DEF SendingAt
<1> DEFINE pkt == LastPacket(s, d)
<1>2. ps_send[s] = d /\ LastPacket(s, d)' = pkt /\ pkt.service = "MESSAGE_DELIVERY"
  BY <1>1
<1>3. /\ kernel[s] = "spin" /\ Home[pkt.producer] = s
      /\ buffer[pkt.producer] = [to |-> pkt.consumer, num |-> pkt.num]
  <2>1. SendingAt(s)
    BY DEF RInv, Sending
  <2>2. QED BY <1>2, <2>1 DEF SendingAt
<1> HIDE DEF pkt
<1>4. ps_send'[s] # NoPE
  BY <1>1, SystemAssumption
<1>5. QED BY <1>2, <1>3, <1>4

\* The DMNIs and the memory they read are left alone.
LEMMA SendingFrame ==
    ASSUME RInv, UNCHANGED <<ps_net, ps_send, kernel>>,
           \A t : kernel[Home[t]] = "spin" => buffer'[t] = buffer[t]
    PROVE  Sending'
<1>1. ASSUME NEW s \in PE PROVE SendingAt(s)'
  <2>1. \A d \in PE : ps_send'[s] = d =>
           ps_send[s] = d /\ Len(ps_net'[<<s, d>>]) > 0 /\ LastPacket(s, d)' = LastPacket(s, d)
    BY DEF RInv, Sending, SendingAt, LastPacket
  <2>2. QED BY <2>1, SendingKept
<1>2. QED BY <1>1 DEF Sending

-----------------------------------------------------------------------------
(* What a step must leave alone to keep each part of the invariant *)

\* The calls of the waiting consumers do not change, and a new pair is that of
\* the call of its consumer.
LEMMA PeersKept ==
    ASSUME RInv, IInv', \A e \in Pairs' : e \in Pairs \/ call'[e[2]].peer = e[1],
           \A t \in Waiting' : call'[t] = call[t]
    PROVE  PeersAsked'
<1>1. PairsInPlace'
  BY PairsWait, PTL
<1>2. \A e \in Pairs' : e[2] \in Waiting'
  BY <1>1 DEF PairsInPlace
<1>3. QED BY <1>2 DEF RInv, PeersAsked

\* The producers that still call Send have done nothing since.
LEMMA WrittenKept ==
    ASSUME RInv,
           \A t \in Task : call'[t].op = "send" =>
               /\ call'[t] = call[t] /\ buffer'[t] = buffer[t]
               /\ put'[<<t, call[t].peer>>] = put[<<t, call[t].peer>>]
    PROVE  MessageWritten'
BY ZenonT(60) DEF RInv, MessageWritten

\* No message is accepted, received or lost.
LEMMA MessagesKept ==
    ASSUME RInv, UNCHANGED <<put, got>>, NetAnswers' = NetAnswers,
           \A m \in Packets(ps_net)' : m \in Packets(ps_net) \/ m.service = "MESSAGE_REQUEST",
           LinePairs' = LinePairs, \A k \in LinePairs : cs_line'[k].num = cs_line[k].num
    PROVE  OneAhead' /\ LastAccepted'
<1>1. Answers' = Answers
  BY DEF Answers
<1>2. OneAhead'
  BY <1>1 DEF RInv, OneAhead
<1>3. LastAccepted'
  BY DEF RInv, LastAccepted, Pair
<1>4. QED BY <1>2, <1>3

\* What the tasks wait for, when the waiting ones stay in their calls.
LEMMA WantsKept ==
    ASSUME IInv, waiting_msg' = waiting_msg, \A t \in Waiting : call'[t] = call[t]
    PROVE  wants' = wants
BY DEF wants, Waiting

\* A consumer that gets its message wants none.
LEMMA WantsFreed ==
    ASSUME IInv, IInv', NEW c \in Task, Waiting' = Waiting \ {c},
           \A t \in Waiting' : call'[t] = call[t]
    PROVE  wants' = [wants EXCEPT ![c] = NoTask]
<1>1. \A t \in Task : waiting_msg'[t] <=> t # c /\ waiting_msg[t]
  BY DEF Waiting
<1>2. \A t \in Task : wants'[t] = IF t = c THEN NoTask ELSE wants[t]
  BY <1>1 DEF wants, Waiting
<1>3. wants' = [t \in Task |-> IF waiting_msg'[t] THEN call'[t].peer ELSE NoTask]
  BY DEF wants
<1>4. wants = [t \in Task |-> IF waiting_msg[t] THEN call[t].peer ELSE NoTask]
  BY DEF wants
<1>5. QED BY <1>2, <1>3, <1>4

\* A step that neither takes nor gives a message, and asks for none.
LEMMA QuietStep ==
    ASSUME RInv, IInv', UNCHANGED <<call, waiting_msg, buffer, put, got>>,
           Pairs' \subseteq Pairs, NetAnswers' = NetAnswers,
           Packets(ps_net)' \subseteq Packets(ps_net),
           LinePairs' = LinePairs, \A k \in LinePairs : cs_line'[k].num = cs_line[k].num,
           Sending'
    PROVE  RInv' /\ UNCHANGED R!vars
<1>1. PeersAsked'
  BY PeersKept
<1>2. MessageWritten'
  BY WrittenKept
<1>3. OneAhead' /\ LastAccepted'
  BY MessagesKept
<1>4. wants' = wants
  BY WantsKept DEF RInv
<1>5. QED BY <1>1, <1>2, <1>3, <1>4 DEF RInv, R!vars

-----------------------------------------------------------------------------
(* The actions that the tasks do not see *)

\* What holds of every pair of tasks an action is about.
LEMMA RInvFacts ==
    ASSUME RInv
    PROVE  /\ call \in [Task -> [op : {"none", "send", "receive"}, peer : Task]]
           /\ buffer \in [Task -> [to : Task, num : Nat]]
           /\ kernel \in [PE -> {"user", "spin", "error"}]
           /\ ps_send \in [PE -> PE \cup {Manager, NoPE}]
           /\ put \in [Edge -> Nat] /\ got \in [Edge -> Nat]
           /\ PairsInPlace /\ IInv
BY PairsWait DEF RInv, IInv, TypeOK

\* MESSAGE_REQUEST: the pair moves from the network to the table.
LEMMA HandleRequestRInv ==
    ASSUME RInv, IInv', NEW s \in PE, NEW d \in PE, HandleRequest(s, d)
    PROVE  RInv' /\ UNCHANGED R!vars
<1> USE DEF HandleRequest, PacketAt
<1> DEFINE pkt == Head(ps_net[<<s, d>>])
<1>1. /\ Packets(ps_net)' = Packets(ps_net) \ {pkt}
      /\ Pair(pkt) \in NetPairs /\ NetPairs' \subseteq NetPairs /\ NetAnswers' = NetAnswers
  BY PairsRead, RInvFacts
<1>2. insert_message_request(d, pkt.producer, pkt.consumer, pkt.requesting_processor)
  BY DEF handle_message_request
<1>3. TablePairs' \subseteq TablePairs \cup {Pair(pkt)}
  BY <1>2, PairInserted, RInvFacts DEF Pair
<1>4. Sending'
  <2>1. ASSUME NEW r \in PE PROVE SendingAt(r)'
    BY LastPacketStays, SendingKept DEF taskVars
  <2>2. QED BY <2>1 DEF Sending
<1> HIDE DEF pkt
<1>5. Pairs' \subseteq Pairs
  BY <1>1, <1>3, PairsFrame DEF Pairs, taskVars
<1>6. QED BY <1>1, <1>4, <1>5, PairsFrame, QuietStep DEF taskVars

\* A request is deferred: the pair moves from the network to the FIFO.
LEMMA DeferRequestRInv ==
    ASSUME RInv, IInv', NEW s \in PE, NEW d \in PE, DeferRequest(s, d)
    PROVE  RInv' /\ UNCHANGED R!vars
<1> USE DEF DeferRequest, PacketAt
<1> DEFINE pkt == Head(ps_net[<<s, d>>])
<1>1. /\ pkt \in Packets(ps_net) /\ Packets(ps_net)' = Packets(ps_net) \ {pkt}
      /\ Pair(pkt) \in NetPairs /\ NetPairs' \subseteq NetPairs /\ NetAnswers' = NetAnswers
  BY PairsRead, RInvFacts
<1>2. pkt \in Packet
  BY NetRead, RInvFacts
<1>3. kernel' = kernel
  <2>1. kernel'[d] # "error"
    BY DEF IInv, NoErrorLoop
  <2>2. QED BY <2>1, RInvFacts DEF KernelError
<1>4. Sending'
  <2>1. ASSUME NEW r \in PE PROVE SendingAt(r)'
    BY <1>3, LastPacketStays, SendingKept DEF taskVars
  <2>2. QED BY <2>1 DEF Sending
<1>5. PendingPairs' \subseteq PendingPairs \cup {Pair(pkt)}
  <2>1. pending' = pending \/ Appended(pending', pending, d, pkt)
    BY DEF Appended
  <2>2. pending \in [PE -> Seq(Packet)]
    BY DEF RInv, IInv, TypeOK
  <2> HIDE DEF pkt
  <2>3. Packets(pending') \subseteq Packets(pending) \cup {pkt}
    BY <1>2, <2>1, <2>2, PacketsAppend, SMTT(30)
  <2>4. Packets(pending)' \subseteq Packets(pending) \cup {pkt}
    BY <2>3 DEF Packets
  <2>5. QED BY <2>4 DEF PendingPairs
<1> HIDE DEF pkt
<1>6. Pairs' \subseteq Pairs
  BY <1>1, <1>5, PairsFrame DEF Pairs, taskVars
<1>7. QED BY <1>1, <1>4, <1>6, PairsFrame, QuietStep DEF taskVars

\* A service of the FIFO: the pair moves from the FIFO to the table.
LEMMA HandlePendingRInv ==
    ASSUME RInv, IInv', NEW d \in PE, HandlePending(d)
    PROVE  RInv' /\ UNCHANGED R!vars
<1> USE DEF HandlePending
<1> DEFINE pkt == Head(pending[d])
<1>1. pending \in [PE -> Seq(Packet)] /\ OnceIn(pending) /\ pending[d] # <<>>
  BY DEF RInv, IInv, TypeOK, RequestConservation
<1>2. pkt \in Packets(pending) /\ Packets(pending') = Packets(pending) \ {pkt}
  BY <1>1, PacketsTail DEF Shortened
<1>3. insert_message_request(d, pkt.producer, pkt.consumer, pkt.requesting_processor)
  BY DEF handle_message_request
<1>4. TablePairs' \subseteq TablePairs \cup {Pair(pkt)}
  BY <1>3, PairInserted, RInvFacts DEF Pair
<1> HIDE DEF pkt
<1>5. Packets(pending)' \subseteq Packets(pending) /\ Pair(pkt) \in PendingPairs
  BY <1>2 DEF Packets, PendingPairs
<1>6. PendingPairs' \subseteq PendingPairs
  BY <1>5 DEF PendingPairs
<1>7. Pairs' \subseteq Pairs
  BY <1>4, <1>5, <1>6, PairsFrame DEF Pairs, netVars
<1>8. Sending'
  BY SendingFrame DEF netVars, taskVars
<1>9. QED BY <1>7, <1>8, PairsFrame, QuietStep DEF netVars, taskVars

\* The interrupt of a request wire: the pair moves from the wire to the table.
LEMMA HandleCSRequestRInv ==
    ASSUME RInv, IInv', NEW p, NEW c, <<p, c>> \in Circuit, HandleCSRequest(p, c)
    PROVE  RInv' /\ UNCHANGED R!vars
<1> USE DEF HandleCSRequest
<1>1. Home[p] \in PE
  BY SystemAssumption
<1>2. insert_message_request(Home[p], p, c, task_location[Home[p]][c])
  BY DEF handle_message_request, Request
<1>3. TablePairs' \subseteq TablePairs \cup {<<p, c>>}
  BY <1>1, <1>2, PairInserted, RInvFacts
<1>4. WirePairs' \subseteq WirePairs /\ <<p, c>> \in WirePairs
  <2>1. cs_request \in [Circuit -> BOOLEAN]
    BY DEF RInv, IInv, TypeOK
  <2>2. \A k \in Circuit : cs_request'[k] => cs_request[k]
    BY <2>1
  <2>3. QED BY <2>2 DEF WirePairs
<1>5. Pairs' \subseteq Pairs
  BY <1>3, <1>4, PairsFrame DEF Pairs
<1>6. Sending'
  BY SendingFrame DEF taskVars
<1>7. QED BY <1>5, <1>6, PairsFrame, QuietStep DEF taskVars

\* The last word of a message leaves the memory; the message stays on the circuit.
LEMMA CSSendEndsRInv ==
    ASSUME RInv, IInv', NEW p, NEW c, <<p, c>> \in Circuit, CSSendEnds(p, c)
    PROVE  RInv' /\ UNCHANGED R!vars
<1> USE DEF CSSendEnds, kernelVars, taskVars
<1>1. cs_line \in [Circuit -> [state : {"idle", "sending", "sent"}, num : Nat]]
  BY DEF RInv, IInv, TypeOK
<1>2. \A k \in Circuit : /\ cs_line'[k].state # "idle" <=> cs_line[k].state # "idle"
                         /\ cs_line'[k].num = cs_line[k].num
  BY <1>1
<1>3. LinePairs' = LinePairs /\ \A k \in LinePairs : cs_line'[k].num = cs_line[k].num
  BY <1>2 DEF LinePairs
<1>4. Pairs' \subseteq Pairs
  BY <1>3, PairsFrame DEF Pairs
<1>5. Sending'
  BY SendingFrame
<1>6. QED BY <1>3, <1>4, <1>5, PairsFrame, QuietStep

\* A step of the DMNI, of the kernel or of the scheduler that moves no message.
LEMMA IdleStep ==
    ASSUME RInv, IInv',
           UNCHANGED <<ps_net, pending, message_request, cs_request, cs_line,
                       call, waiting_msg, buffer, put, got>>,
           Sending'
    PROVE  RInv' /\ UNCHANGED R!vars
<1>1. Pairs' \subseteq Pairs
  BY PairsFrame DEF Pairs
<1>2. QED BY <1>1, PairsFrame, QuietStep

\* The DMNI ends a packet: it sends nothing.
LEMMA PSSendEndsRInv ==
    ASSUME RInv, IInv', NEW s \in PE, PSSendEnds(s)
    PROVE  RInv' /\ UNCHANGED R!vars
<1> USE DEF PSSendEnds, kernelVars, taskVars
<1>1. \A r \in PE : ps_send'[r] = NoPE \/ ps_send'[r] = ps_send[r]
  BY RInvFacts
<1>2. ASSUME NEW r \in PE PROVE SendingAt(r)'
  <2>1. \A d \in PE : ps_send'[r] = d => ps_send[r] = d
    BY <1>1, SystemAssumption
  <2>2. \A d \in PE : ps_send'[r] = d =>
           ps_send[r] = d /\ Len(ps_net'[<<r, d>>]) > 0 /\ LastPacket(r, d)' = LastPacket(r, d)
    BY <2>1 DEF RInv, Sending, SendingAt, LastPacket
  <2>3. QED BY <2>2, SendingKept
<1>3. Sending'
  BY <1>2 DEF Sending
<1>4. QED BY <1>3, IdleStep

\* The kernel leaves its wait for a DMNI that is idle.
LEMMA SpinEndsRInv ==
    ASSUME RInv, IInv', NEW e \in PE, SpinEnds(e)
    PROVE  RInv' /\ UNCHANGED R!vars
<1> USE DEF SpinEnds, taskVars, netVars, SendActive
<1>1. ASSUME NEW r \in PE PROVE SendingAt(r)'
  <2>1. kernel[r] = "spin" /\ ps_send'[r] # NoPE => kernel'[r] = "spin"
    BY RInvFacts
  <2>2. \A d \in PE : ps_send'[r] = d =>
           ps_send[r] = d /\ Len(ps_net'[<<r, d>>]) > 0 /\ LastPacket(r, d)' = LastPacket(r, d)
    BY DEF RInv, Sending, SendingAt, LastPacket
  <2>3. QED BY <2>1, <2>2, SendingKept
<1>2. Sending'
  BY <1>1 DEF Sending
<1>3. QED BY <1>2, IdleStep

\* TASK_RELEASE changes the location table alone.
LEMMA TaskReleaseRInv ==
    ASSUME RInv, IInv', NEW t \in Task, TaskRelease(t)
    PROVE  RInv' /\ UNCHANGED R!vars
BY SendingFrame, IdleStep DEF TaskRelease, netVars

\* TASK_TERMINATED goes to the mapper: it is not a message of a task.
LEMMA ExitRInv ==
    ASSUME RInv, IInv', NEW t \in Task, Exit(t)
    PROVE  RInv' /\ UNCHANGED R!vars
<1> USE DEF Exit
<1>1. Home[t] \in PE /\ Manager \notin PE
  BY SystemAssumption
<1>2. ASSUME NEW r \in PE PROVE SendingAt(r)'
  <2>1. kernel[r] = "spin" => kernel'[r] = "spin"
    BY RInvFacts
  <2>2. \A d \in PE : ps_send'[r] = d => ps_send[r] = d
    BY <1>1, RInvFacts
  <2>3. \A d \in PE : ps_send'[r] = d =>
           ps_send[r] = d /\ Len(ps_net'[<<r, d>>]) > 0 /\ LastPacket(r, d)' = LastPacket(r, d)
    BY <2>2 DEF RInv, Sending, SendingAt, LastPacket
  <2>4. QED BY <2>1, <2>3, SendingKept
<1>3. Sending'
  BY <1>2 DEF Sending
<1>4. QED BY <1>3, IdleStep

-----------------------------------------------------------------------------
(* The calls of the tasks *)

\* A task that runs does not wait, and no DMNI reads its memory.
LEMMA Running ==
    ASSUME RInv, NEW t \in Task, Runs(t)
    PROVE  t \notin Waiting /\ kernel[Home[t]] # "spin"
BY DEF Runs, Waiting

\* A task writes the next message and calls Send().
LEMMA CallSendRInv ==
    ASSUME RInv, IInv', NEW p, NEW c, <<p, c>> \in Edge, CallSend(p, c)
    PROVE  RInv' /\ UNCHANGED R!vars
<1> USE DEF CallSend, kernelVars, netVars
<1>1. p \in Task /\ c \in Task /\ p \notin Waiting /\ kernel[Home[p]] # "spin"
  BY EdgeFacts, Running
<1>2. /\ call' = [call EXCEPT ![p] = Call("send", c)]
      /\ buffer' = [buffer EXCEPT ![p] = [to |-> c, num |-> put[<<p, c>>] + 1]]
      /\ UNCHANGED <<put, got, waiting_msg>>
  OBVIOUS
<1>3. \A t : t # p => buffer'[t] = buffer[t]
  BY <1>2, RInvFacts
<1>4. Sending'
  BY <1>1, <1>3, SendingFrame
<1>5. \A t \in Waiting : call'[t] = call[t]
  BY <1>1, <1>2, RInvFacts DEF Waiting
<1>6. Waiting' = Waiting
  BY <1>2 DEF Waiting
<1>7. Pairs' \subseteq Pairs
  BY PairsFrame DEF Pairs
<1>8. PeersAsked'
  BY <1>5, <1>6, <1>7, PeersKept
<1>9. MessageWritten'
  BY <1>1, <1>2, RInvFacts, SMTT(30) DEF RInv, MessageWritten, Call
<1>10. OneAhead' /\ LastAccepted'
  BY PairsFrame, MessagesKept
<1>11. wants' = wants
  BY <1>5, RInvFacts, WantsKept
<1>12. QED BY <1>4, <1>8, <1>9, <1>10, <1>11 DEF RInv, R!vars

\* A task calls Receive().
LEMMA CallReceiveRInv ==
    ASSUME RInv, IInv', NEW p, NEW c, <<p, c>> \in Edge, CallReceive(p, c)
    PROVE  RInv' /\ UNCHANGED R!vars
<1> USE DEF CallReceive, kernelVars, netVars
<1>1. p \in Task /\ c \in Task /\ c \notin Waiting
  BY EdgeFacts, Running
<1>2. /\ call' = [call EXCEPT ![c] = Call("receive", p)]
      /\ UNCHANGED <<buffer, put, got, waiting_msg>>
  OBVIOUS
<1>3. Sending'
  BY SendingFrame
<1>4. \A t \in Waiting : call'[t] = call[t]
  BY <1>1, <1>2, RInvFacts DEF Waiting
<1>5. Waiting' = Waiting
  BY <1>2 DEF Waiting
<1>6. Pairs' \subseteq Pairs
  BY PairsFrame DEF Pairs
<1>7. PeersAsked'
  BY <1>4, <1>5, <1>6, PeersKept
<1>8. MessageWritten'
  <2>1. \A t \in Task : call'[t].op = "send" => call'[t] = call[t]
    BY <1>1, <1>2, RInvFacts DEF Call
  <2>2. QED BY <1>2, <2>1, WrittenKept
<1>9. OneAhead' /\ LastAccepted'
  BY PairsFrame, MessagesKept
<1>10. wants' = wants
  BY <1>4, RInvFacts, WantsKept
<1>11. QED BY <1>3, <1>7, <1>8, <1>9, <1>10 DEF RInv, R!vars

-----------------------------------------------------------------------------
(* RECVMESSAGE: the consumer asks *)

\* The pair of the call is the only new one; nothing is accepted or received.
LEMMA ReceiveRInv ==
    ASSUME RInv, IInv', NEW p, NEW c, <<p, c>> \in Edge, Receive(p, c)
    PROVE  RInv' /\ R!Ask(p, c)
<1> USE DEF Receive
<1>1. /\ p \in Task /\ c \in Task /\ c \notin Waiting /\ Home[p] \in PE /\ Home[c] \in PE
      /\ AppOf[p] = AppOf[c]
  BY EdgeFacts, Running
<1>2. task_location[Home[c]][p] = Home[p]
  BY <1>1 DEF RInv, IInv, PeersLocated, Runs
<1>3. ~recv_buffer[c]
  BY <1>1, HasBuffer, RInvFacts
<1>4. Ask(p, c) /\ Asked(c) /\ UNCHANGED kernel
  BY <1>1, <1>2, <1>3, SystemAssumption
<1>5. call[c] = Call("receive", p) /\ UNCHANGED <<pending, call, buffer, put, got>>
  OBVIOUS
<1> DEFINE pkt == Request(p, c, Home[c])
<1>6. pkt \in Packet /\ Pair(pkt) = <<p, c>> /\ pkt.service = "MESSAGE_REQUEST"
  BY <1>1 DEF Request, Packet, Service, Pair
<1>7. AskPS(p, c) => send_packet(Home[c], Home[p], pkt)
  BY <1>2 DEF AskPS
<1> HIDE DEF pkt
<1>8. /\ Pairs' \subseteq Pairs \cup {<<p, c>>}
      /\ NetAnswers' = NetAnswers /\ LinePairs' = LinePairs /\ cs_line' = cs_line
      /\ \A m \in Packets(ps_net)' : m \in Packets(ps_net) \/ m.service = "MESSAGE_REQUEST"
  <2>1. CASE AskLocal(p, c)
    <3>1. TablePairs' \subseteq TablePairs \cup {<<p, c>>}
      BY <1>1, <2>1, PairInserted, RInvFacts DEF AskLocal
    <3>2. QED BY <2>1, <3>1, <1>5, PairsFrame DEF Pairs, AskLocal, netVars
  <2>2. CASE AskPS(p, c)
    <3>1. /\ Packets(ps_net)' = Packets(ps_net) \cup {pkt}
          /\ NetPairs' = NetPairs \cup {<<p, c>>} /\ NetAnswers' = NetAnswers
      BY <1>1, <1>6, <1>7, <2>2, PairsSend, RInvFacts
    <3>2. QED BY <2>2, <3>1, <1>5, <1>6, PairsFrame DEF Pairs, AskPS
  <2>3. CASE AskCS(p, c)
    <3>1. WirePairs' \subseteq WirePairs \cup {<<p, c>>}
      BY <2>3 DEF AskCS, WirePairs
    <3>2. QED BY <2>3, <3>1, <1>5, PairsFrame DEF Pairs, AskCS
  <2>4. QED BY <1>4, <2>1, <2>2, <2>3 DEF Ask
<1>9. PeersAsked'
  BY <1>5, <1>8, PeersKept DEF Call
<1>10. MessageWritten'
  BY <1>5, WrittenKept
<1>11. OneAhead' /\ LastAccepted'
  BY <1>5, <1>8, MessagesKept
<1>12. Sending'
  <2>1. ASSUME NEW r \in PE PROVE SendingAt(r)'
    <3>1. CASE AskPS(p, c) /\ r = Home[c]
      <4>1. ps_net \in [Link -> Seq(Packet)] /\ <<r, Home[p]>> \in Link
        BY <1>1, <3>1 DEF RInv, IInv, TypeOK, Link
      <4>2. /\ ps_net'[<<r, Home[p]>>] = Append(ps_net[<<r, Home[p]>>], pkt)
            /\ ps_send'[r] = Home[p]
        BY <1>7, <3>1, <4>1, RInvFacts DEF send_packet
      <4>3. Len(ps_net'[<<r, Home[p]>>]) > 0 /\ LastPacket(r, Home[p])' = pkt
        BY <1>6, <4>1, <4>2 DEF LastPacket
      <4>4. QED BY <1>6, <4>2, <4>3 DEF SendingAt
    <3>2. CASE ~(AskPS(p, c) /\ r = Home[c])
      <4>1. ps_send'[r] = ps_send[r] /\ \A d \in PE : ps_net'[<<r, d>>] = ps_net[<<r, d>>]
        <5>1. CASE AskPS(p, c)
          BY <1>1, <1>7, <3>2, <5>1, RInvFacts DEF send_packet, RInv, IInv, TypeOK, Link
        <5>2. CASE AskLocal(p, c) \/ AskCS(p, c)
          BY <5>2 DEF AskLocal, AskCS, netVars
        <5>3. QED BY <1>4, <5>1, <5>2 DEF Ask
      <4>2. \A d \in PE : ps_send'[r] = d =>
              /\ ps_send[r] = d /\ Len(ps_net'[<<r, d>>]) > 0
              /\ LastPacket(r, d)' = LastPacket(r, d)
        BY <4>1 DEF RInv, Sending, SendingAt, LastPacket
      <4>3. QED BY <1>4, <1>5, <4>2, SendingKept
    <3>3. QED BY <3>1, <3>2
  <2>2. QED BY <2>1 DEF Sending
<1>13. R!Ask(p, c)
  <2>1. waiting_msg' = [waiting_msg EXCEPT ![c] = TRUE] /\ ~waiting_msg[c]
    BY <1>1, <1>4 DEF Asked, Waiting
  <2>2. waiting_msg \in [Task -> BOOLEAN]
    BY DEF RInv, IInv, TypeOK
  <2>3. \A t \in Task : wants'[t] = IF t = c THEN p ELSE wants[t]
    BY <1>1, <1>5, <2>1, <2>2 DEF wants, Call
  <2>4. /\ wants = [t \in Task |-> wants[t]] /\ wants' = [t \in Task |-> wants'[t]]
        /\ wants[c] = NoTask
    BY <1>1, <2>1 DEF wants
  <2>5. wants' = [wants EXCEPT ![c] = p]
    BY <1>1, <2>3, <2>4
  <2>6. QED BY <1>5, <2>4, <2>5 DEF R!Ask
<1>14. QED BY <1>9, <1>10, <1>11, <1>12, <1>13 DEF RInv

-----------------------------------------------------------------------------
(* SENDMESSAGE: the message is accepted *)

\* A Send that finds the request of its consumer: that consumer waits for this
\* producer, and the message is the next one of the edge.
LEMMA Accepted ==
    ASSUME RInv, NEW p, NEW c, <<p, c>> \in Edge, SendEntered(p, c),
           remove_message_request(Home[p], p, c)
    PROVE  /\ p \in Task /\ c \in Task /\ p # c /\ Home[p] \in PE /\ kernel[Home[p]] # "spin"
           /\ p \notin Waiting /\ c \in Waiting
           /\ <<p, c>> \in Pairs /\ <<p, c>> \notin Answers /\ TablePairs' \subseteq TablePairs
           /\ buffer[p] = [to |-> c, num |-> put[<<p, c>>] + 1]
           /\ put[<<p, c>>] = got[<<p, c>>] /\ wants[c] = p
<1> USE DEF SendEntered
<1>1. /\ p \in Task /\ c \in Task /\ p # c /\ Home[p] \in PE
      /\ p \notin Waiting /\ kernel[Home[p]] # "spin"
  BY EdgeFacts, Running
<1>2. <<p, c>> \in TablePairs /\ TablePairs' \subseteq TablePairs
  BY PairRemoved, RInvFacts
<1>3. <<p, c>> \in Pairs
  BY <1>2 DEF Pairs
<1>4. c \in Waiting /\ c \in InTable
  BY <1>2, <1>3, RInvFacts DEF PairsInPlace
<1>5. c \notin InNet /\ c \notin OnLine
  BY <1>4 DEF RInv, IInv, RequestConservation, PairwiseDisjoint
<1>6. <<p, c>> \notin Answers
  BY <1>5, RInvFacts DEF PairsInPlace, Answers
<1>7. put[<<p, c>>] = got[<<p, c>>]
  BY <1>6 DEF RInv, OneAhead
<1>8. buffer[p] = [to |-> c, num |-> put[<<p, c>>] + 1]
  BY <1>1 DEF RInv, MessageWritten, Call
<1>9. call[c].peer = p
  BY <1>3 DEF RInv, PeersAsked
<1>10. wants[c] = p
  BY <1>1, <1>4, <1>9 DEF wants, Waiting
<1>11. QED BY <1>1, <1>2, <1>3, <1>4, <1>6, <1>7, <1>8, <1>10

\* The producer is released: the other producers keep what they have written.
LEMMA ProducerReleased ==
    ASSUME RInv, NEW p \in Task, NEW c \in Task, UNCHANGED buffer,
           put' = [put EXCEPT ![<<p, c>>] = buffer[p].num],
           \/ call' = [call EXCEPT ![p] = NoCall(p)]
           \/ call' = [call EXCEPT ![c] = NoCall(c), ![p] = NoCall(p)]
    PROVE  MessageWritten'
<1>1. \A t \in Task : call'[t].op = "send" => t # p /\ call'[t] = call[t]
  BY RInvFacts DEF NoCall, Call
<1>2. ASSUME NEW t \in Task, t # p PROVE put'[<<t, call[t].peer>>] = put[<<t, call[t].peer>>]
  BY <1>2, RInvFacts
<1>3. QED BY <1>1, <1>2, WrittenKept

\* The messages on their way are those of other edges.
LEMMA OthersOnTheirWay ==
    ASSUME RInv, NEW f, f \notin Answers, \A e \in Edge : e # f => put'[e] = put[e]
    PROVE  /\ \A m \in Packets(ps_net) : m.service = "MESSAGE_DELIVERY" => m.num = put'[Pair(m)]
           /\ \A k \in LinePairs : cs_line[k].num = put'[k]
<1>1. ASSUME NEW m \in Packets(ps_net), m.service = "MESSAGE_DELIVERY"
      PROVE  m.num = put'[Pair(m)]
  <2>1. Pair(m) \in NetAnswers
    BY <1>1 DEF NetAnswers
  <2>2. Pair(m) # f /\ Pair(m) \in Edge
    BY <2>1, RInvFacts DEF Answers, PairsInPlace, Pairs
  <2>3. QED BY <1>1, <2>2 DEF RInv, LastAccepted
<1>2. ASSUME NEW k \in LinePairs PROVE cs_line[k].num = put'[k]
  <2>1. k # f /\ k \in Edge
    BY RInvFacts DEF Answers, PairsInPlace, Pairs
  <2>2. QED BY <2>1 DEF RInv, LastAccepted
<1>3. QED BY <1>1, <1>2

\* SENDMESSAGE to a consumer of the same PE.
LEMMA SendLocalRInv ==
    ASSUME RInv, IInv', NEW p, NEW c, <<p, c>> \in Edge, SendLocal(p, c)
    PROVE  RInv' /\ R!Copy(p, c)
<1> USE DEF SendLocal
<1>1. /\ p \in Task /\ c \in Task /\ p # c
      /\ p \notin Waiting /\ c \in Waiting
      /\ <<p, c>> \notin Answers /\ TablePairs' \subseteq TablePairs
      /\ buffer[p] = [to |-> c, num |-> put[<<p, c>>] + 1]
      /\ put[<<p, c>>] = got[<<p, c>>] /\ wants[c] = p
  BY Accepted
<1>2. recv_buffer[c]
  BY <1>1, HasBuffer, RInvFacts
<1>3. /\ ReleaseConsumer(p, c, buffer[p].num)
      /\ call' = [call EXCEPT ![c] = NoCall(c), ![p] = NoCall(p)]
      /\ put' = [put EXCEPT ![<<p, c>>] = buffer[p].num]
      /\ UNCHANGED <<kernel, buffer, pending, netVars>>
  BY <1>2
<1>4. Waiting' = Waiting \ {c} /\ got' = [got EXCEPT ![<<p, c>>] = buffer[p].num]
  BY <1>1, <1>3, Woken, RInvFacts DEF ReleaseConsumer
<1>5. \A t \in Waiting' : call'[t] = call[t]
  BY <1>1, <1>3, <1>4, RInvFacts DEF Waiting
<1>6. /\ Packets(ps_net)' = Packets(ps_net) /\ NetAnswers' = NetAnswers
      /\ LinePairs' = LinePairs /\ cs_line' = cs_line /\ Pairs' \subseteq Pairs
  BY <1>1, <1>3, PairsFrame DEF Pairs, netVars
<1>7. PeersAsked'
  BY <1>5, <1>6, PeersKept
<1>8. MessageWritten'
  BY <1>1, <1>3, ProducerReleased
<1>9. \A e \in Edge : e # <<p, c>> => put'[e] = put[e] /\ got'[e] = got[e]
  BY <1>3, <1>4, RInvFacts
<1>10. put'[<<p, c>>] = got'[<<p, c>>] /\ put'[<<p, c>>] = put[<<p, c>>] + 1
  BY <1>1, <1>3, <1>4, RInvFacts
<1>11. OneAhead'
  BY <1>1, <1>6, <1>9, <1>10 DEF RInv, OneAhead, Answers
<1>12. LastAccepted'
  BY <1>1, <1>6, <1>9, OthersOnTheirWay DEF LastAccepted, Pair
<1>13. Sending'
  BY <1>3, SendingFrame DEF netVars
<1>14. wants' = [wants EXCEPT ![c] = NoTask]
  BY <1>1, <1>4, <1>5, WantsFreed, RInvFacts
<1>15. R!Copy(p, c)
  <2>1. /\ put' = [put EXCEPT ![<<p, c>>] = put[<<p, c>>] + 1]
        /\ got' = [got EXCEPT ![<<p, c>>] = got[<<p, c>>] + 1]
    <3>1. buffer[p].num = put[<<p, c>>] + 1 /\ buffer[p].num = got[<<p, c>>] + 1
      BY <1>1
    <3>2. QED BY <1>3, <1>4, <3>1
  <2>2. QED BY <1>1, <1>14, <2>1 DEF R!Copy
<1>16. QED BY <1>7, <1>8, <1>11, <1>12, <1>13, <1>15 DEF RInv

\* SENDMESSAGE by packet: the pair moves from the table to the network, as an
\* answer, and the kernel spins while the DMNI reads the message.
LEMMA SendPSRInv ==
    ASSUME RInv, IInv', NEW p, NEW c, <<p, c>> \in Edge, SendPS(p, c)
    PROVE  RInv' /\ R!Accept(p, c)
<1> USE DEF SendPS
<1>1. /\ p \in Task /\ c \in Task /\ p # c /\ Home[p] \in PE
      /\ p \notin Waiting /\ c \in Waiting
      /\ <<p, c>> \in Pairs /\ <<p, c>> \notin Answers /\ TablePairs' \subseteq TablePairs
      /\ buffer[p] = [to |-> c, num |-> put[<<p, c>>] + 1]
      /\ put[<<p, c>>] = got[<<p, c>>] /\ wants[c] = p
  BY Accepted
<1>2. Home[c] \in PE /\ RequestSlot(Home[p], p, c).requester_proc = Home[c]
  <2>1. Matching(Home[p], p, c) # {} /\ remove_message_request(Home[p], p, c)
    BY DEF SendEntered
  <2>2. IInv /\ Home[p] \in PE /\ p \in Task /\ c \in Task
    BY <1>1, RInvFacts
  <2>3. <<p, c>> \notin Circuit => RequestSlot(Home[p], p, c).requester_proc = Home[c]
    BY <2>1, <2>2, TableRemove
  <2>4. QED BY <2>3, EdgeFacts
<1> DEFINE pkt == Delivery(p, c, buffer[p].num)
<1>3. /\ pkt \in Packet /\ Pair(pkt) = <<p, c>> /\ pkt.producer = p /\ pkt.consumer = c
      /\ pkt.service = "MESSAGE_DELIVERY" /\ pkt.num = put[<<p, c>>] + 1
  <2>1. buffer[p].num \in Nat /\ buffer[p].num = put[<<p, c>>] + 1
    BY <1>1, RInvFacts
  <2>2. QED BY <1>1, <2>1 DEF Delivery, Packet, Service, Pair
<1>4. /\ send_packet(Home[p], Home[c], pkt)
      /\ call' = [call EXCEPT ![p] = NoCall(p)]
      /\ put' = [put EXCEPT ![<<p, c>>] = buffer[p].num]
      /\ kernel' = [kernel EXCEPT ![Home[p]] = "spin"]
      /\ UNCHANGED <<waiting_msg, buffer, pending, cs_request, cs_line, got>>
  BY <1>2
<1> HIDE DEF pkt
<1>5. /\ Packets(ps_net)' = Packets(ps_net) \cup {pkt}
      /\ NetPairs' = NetPairs \cup {<<p, c>>} /\ NetAnswers' = NetAnswers \cup {<<p, c>>}
  BY <1>1, <1>2, <1>3, <1>4, PairsSend, RInvFacts, SMTT(30)
<1>6. LinePairs' = LinePairs /\ Pairs' \subseteq Pairs
  BY <1>1, <1>4, <1>5, PairsFrame DEF Pairs
<1>7. \A t \in Waiting : call'[t] = call[t]
  BY <1>1, <1>4, RInvFacts DEF Waiting
<1>8. PeersAsked'
  <2>1. Waiting' = Waiting
    BY <1>4 DEF Waiting
  <2>2. QED BY <1>6, <1>7, <2>1, PeersKept
<1>9. MessageWritten'
  BY <1>1, <1>4, ProducerReleased
<1>10. /\ \A e \in Edge : e # <<p, c>> => put'[e] = put[e]
       /\ put'[<<p, c>>] = put[<<p, c>>] + 1
  BY <1>1, <1>4, RInvFacts
<1>11. OneAhead'
  BY <1>1, <1>4, <1>5, <1>6, <1>10 DEF RInv, OneAhead, Answers
<1>12. LastAccepted'
  <2>1. /\ \A m \in Packets(ps_net) : m.service = "MESSAGE_DELIVERY" => m.num = put'[Pair(m)]
        /\ \A k \in LinePairs : cs_line[k].num = put'[k]
    BY <1>1, <1>10, OthersOnTheirWay
  <2>2. pkt.num = put'[Pair(pkt)]
    BY <1>3, <1>10
  <2>3. QED BY <1>4, <1>5, <1>6, <2>1, <2>2 DEF LastAccepted, Pair
<1>13. Sending'
  <2>1. ASSUME NEW r \in PE PROVE SendingAt(r)'
    <3>1. CASE r = Home[p]
      <4>1. ps_net \in [Link -> Seq(Packet)] /\ <<r, Home[c]>> \in Link
        BY <1>1, <1>2, <3>1 DEF RInv, IInv, TypeOK, Link
      <4>2. /\ ps_net'[<<r, Home[c]>>] = Append(ps_net[<<r, Home[c]>>], pkt)
            /\ ps_send'[r] = Home[c] /\ kernel'[r] = "spin"
        BY <1>4, <3>1, <4>1, RInvFacts DEF send_packet
      <4>3. Len(ps_net'[<<r, Home[c]>>]) > 0 /\ LastPacket(r, Home[c])' = pkt
        BY <1>3, <4>1, <4>2 DEF LastPacket
      <4>4. buffer'[p] = [to |-> c, num |-> pkt.num]
        BY <1>1, <1>3, <1>4
      <4>5. QED BY <1>3, <3>1, <4>2, <4>3, <4>4 DEF SendingAt
    <3>2. CASE r # Home[p]
      <4>1. /\ ps_send'[r] = ps_send[r] /\ kernel'[r] = kernel[r]
            /\ \A d \in PE : ps_net'[<<r, d>>] = ps_net[<<r, d>>]
        BY <1>1, <1>4, <3>2, RInvFacts, SMTT(30) DEF send_packet, RInv, IInv, TypeOK, Link
      <4>2. \A d \in PE : ps_send'[r] = d =>
              /\ ps_send[r] = d /\ Len(ps_net'[<<r, d>>]) > 0
              /\ LastPacket(r, d)' = LastPacket(r, d)
        BY <4>1 DEF RInv, Sending, SendingAt, LastPacket
      <4>3. QED BY <1>4, <4>1, <4>2, SendingKept
    <3>3. QED BY <3>1, <3>2
  <2>2. QED BY <2>1 DEF Sending
<1>14. R!Accept(p, c)
  <2>1. put' = [put EXCEPT ![<<p, c>>] = put[<<p, c>>] + 1]
    BY <1>1, <1>4
  <2>2. wants' = wants
    BY <1>4, <1>7, WantsKept, RInvFacts
  <2>3. QED BY <1>1, <1>4, <2>1, <2>2 DEF R!Accept
<1>15. QED BY <1>8, <1>9, <1>11, <1>12, <1>13, <1>14 DEF RInv

\* SENDMESSAGE by circuit: the pair moves from the table to the line.
LEMMA SendCSRInv ==
    ASSUME RInv, IInv', NEW p, NEW c, <<p, c>> \in Edge, SendCS(p, c)
    PROVE  RInv' /\ R!Accept(p, c)
<1> USE DEF SendCS
<1>1. /\ p \in Task /\ c \in Task /\ p # c
      /\ p \notin Waiting /\ c \in Waiting
      /\ <<p, c>> \in Pairs /\ <<p, c>> \notin Answers /\ TablePairs' \subseteq TablePairs
      /\ buffer[p] = [to |-> c, num |-> put[<<p, c>>] + 1]
      /\ put[<<p, c>>] = got[<<p, c>>] /\ wants[c] = p
  BY Accepted
<1>2. /\ <<p, c>> \in Circuit
      /\ cs_line' = [cs_line EXCEPT ![<<p, c>>] = [state |-> "sending", num |-> buffer[p].num]]
      /\ call' = [call EXCEPT ![p] = NoCall(p)]
      /\ put' = [put EXCEPT ![<<p, c>>] = buffer[p].num]
      /\ UNCHANGED <<kernel, waiting_msg, buffer, pending, ps_net, ps_send, cs_request, got>>
  OBVIOUS
<1>3. \A k \in Circuit : cs_line'[k] = IF k = <<p, c>>
                                       THEN [state |-> "sending", num |-> buffer[p].num]
                                       ELSE cs_line[k]
  BY <1>2 DEF RInv, IInv, TypeOK
<1>4. LinePairs' = LinePairs \cup {<<p, c>>}
  BY <1>2, <1>3 DEF LinePairs
<1>5. /\ Packets(ps_net)' = Packets(ps_net) /\ NetAnswers' = NetAnswers
      /\ Pairs' \subseteq Pairs
  BY <1>1, <1>2, <1>4, PairsFrame DEF Pairs
<1>6. \A t \in Waiting : call'[t] = call[t]
  BY <1>1, <1>2, RInvFacts DEF Waiting
<1>7. PeersAsked'
  <2>1. Waiting' = Waiting
    BY <1>2 DEF Waiting
  <2>2. QED BY <1>5, <1>6, <2>1, PeersKept
<1>8. MessageWritten'
  BY <1>1, <1>2, ProducerReleased
<1>9. /\ \A e \in Edge : e # <<p, c>> => put'[e] = put[e]
      /\ put'[<<p, c>>] = put[<<p, c>>] + 1
  BY <1>1, <1>2, RInvFacts
<1>10. OneAhead'
  BY <1>1, <1>2, <1>4, <1>5, <1>9 DEF RInv, OneAhead, Answers
<1>11. LastAccepted'
  <2>1. /\ \A m \in Packets(ps_net) : m.service = "MESSAGE_DELIVERY" => m.num = put'[Pair(m)]
        /\ \A k \in LinePairs : cs_line[k].num = put'[k]
    BY <1>1, <1>9, OthersOnTheirWay
  <2>2. \A k \in LinePairs' : cs_line'[k].num = put'[k]
    BY <1>1, <1>2, <1>3, <1>4, <1>9, <2>1 DEF LinePairs
  <2>3. QED BY <1>5, <2>1, <2>2 DEF LastAccepted, Pair
<1>12. Sending'
  BY <1>2, SendingFrame
<1>13. R!Accept(p, c)
  <2>1. put' = [put EXCEPT ![<<p, c>>] = put[<<p, c>>] + 1]
    BY <1>1, <1>2
  <2>2. wants' = wants
    BY <1>2, <1>6, WantsKept, RInvFacts
  <2>3. QED BY <1>1, <1>2, <2>1, <2>2 DEF R!Accept
<1>14. QED BY <1>7, <1>8, <1>10, <1>11, <1>12, <1>13 DEF RInv

-----------------------------------------------------------------------------
(* The message arrives *)

\* The consumer is woken by the last message its producer had accepted.
LEMMA Arrived ==
    ASSUME RInv, IInv', NEW p \in Task, NEW c \in Task, <<p, c>> \in Answers,
           NEW n, n = put[<<p, c>>],
           got' = [got EXCEPT ![<<p, c>>] = n],
           call' = [call EXCEPT ![c] = NoCall(c)], Waiting' = Waiting \ {c},
           Pairs' \subseteq Pairs, Answers' = Answers \ {<<p, c>>},
           UNCHANGED <<buffer, put>>
    PROVE  PeersAsked' /\ MessageWritten' /\ OneAhead' /\ R!Arrive(p, c)
<1>1. <<p, c>> \in Pairs /\ <<p, c>> \in Edge /\ c \in Waiting
  BY RInvFacts DEF PairsInPlace, Pairs, Answers
<1>2. \A t \in Waiting' : call'[t] = call[t]
  BY RInvFacts DEF Waiting
<1>3. PeersAsked'
  BY <1>2, PeersKept
<1>4. MessageWritten'
  <2>1. \A t \in Task : call'[t].op = "send" => call'[t] = call[t]
    BY RInvFacts DEF NoCall, Call
  <2>2. QED BY <2>1, WrittenKept
<1>5. put[<<p, c>>] = got[<<p, c>>] + 1
  BY <1>1 DEF RInv, OneAhead
<1>6. \A e \in Edge : got'[e] = IF e = <<p, c>> THEN put[e] ELSE got[e]
  BY <1>1, RInvFacts
<1>7. OneAhead'
  BY <1>6 DEF RInv, OneAhead
<1>8. wants' = [wants EXCEPT ![c] = NoTask]
  BY <1>2, WantsFreed, RInvFacts
<1>9. wants[c] = p
  <2>1. call[c].peer = p
    BY <1>1 DEF RInv, PeersAsked
  <2>2. QED BY <1>1, <2>1 DEF wants, Waiting
<1>10. got' = [got EXCEPT ![<<p, c>>] = got[<<p, c>>] + 1]
  BY <1>5
<1>11. R!Arrive(p, c)
  BY <1>5, <1>8, <1>9, <1>10 DEF R!Arrive
<1>12. QED BY <1>3, <1>4, <1>7, <1>11

\* MESSAGE_DELIVERY: the answer leaves the network.
LEMMA HandleDeliveryRInv ==
    ASSUME RInv, IInv', NEW s \in PE, NEW d \in PE, HandleDelivery(s, d)
    PROVE  RInv' /\ \E e \in Edge : R!Arrive(e[1], e[2])
<1> USE DEF HandleDelivery, PacketAt
<1> DEFINE pkt == Head(ps_net[<<s, d>>])
<1>1. /\ pkt \in Packets(ps_net) /\ Packets(ps_net)' = Packets(ps_net) \ {pkt}
      /\ NetPairs' \subseteq NetPairs
      /\ Pair(pkt) \in NetAnswers /\ NetAnswers' = NetAnswers \ {Pair(pkt)}
  BY PairsRead, RInvFacts
<1>2. pkt \in Packet /\ pkt.consumer \in InNet
  BY NetRead, RInvFacts
<1>3. handle_message_delivery(d, pkt) /\ pkt.service = "MESSAGE_DELIVERY"
  OBVIOUS
<1>4. ASSUME NEW r \in PE, NEW e \in PE, ps_send'[r] = e
      PROVE  ps_send[r] = e /\ Len(ps_net'[<<r, e>>]) > 0 /\ LastPacket(r, e)' = LastPacket(r, e)
  BY <1>4, LastPacketStays
<1> HIDE DEF pkt
<1> DEFINE p == pkt.producer
           c == pkt.consumer
<1>5. p \in Task /\ c \in Task /\ Pair(pkt) = <<p, c>> /\ pkt.num = put[<<p, c>>]
  BY <1>1, <1>2, <1>3 DEF Packet, Pair, RInv, LastAccepted
<1>6. c \in Waiting /\ recv_buffer[c]
  BY <1>2, <1>5, HasBuffer, RInvFacts DEF RInv, IInv, RequestConservation
<1>7. Waiting' = Waiting \ {c}
  BY <1>2, <1>3, <1>6, Delivered, RInvFacts
<1>8. /\ call' = [call EXCEPT ![c] = NoCall(c)] /\ got' = [got EXCEPT ![<<p, c>>] = pkt.num]
      /\ UNCHANGED kernel
  BY <1>3, <1>6 DEF handle_message_delivery, ReleaseConsumer
<1>9. <<p, c>> \in Answers /\ <<p, c>> \notin LinePairs
  <2>1. c \notin OnLine
    BY <1>2 DEF RInv, IInv, RequestConservation, PairwiseDisjoint
  <2>2. QED BY <1>1, <1>5, <2>1, RInvFacts DEF Answers, PairsInPlace
<1>10. LinePairs' = LinePairs /\ Pairs' \subseteq Pairs /\ Answers' = Answers \ {<<p, c>>}
  BY <1>1, <1>5, <1>9, PairsFrame DEF Pairs, Answers
<1>11. PeersAsked' /\ MessageWritten' /\ OneAhead' /\ R!Arrive(p, c)
  BY <1>5, <1>7, <1>8, <1>9, <1>10, Arrived
<1>12. LastAccepted'
  BY <1>1, <1>10 DEF RInv, LastAccepted, Pair
<1>13. Sending'
  <2>1. ASSUME NEW r \in PE PROVE SendingAt(r)'
    BY <1>4, <1>8, SendingKept
  <2>2. QED BY <2>1 DEF Sending
<1>14. <<p, c>> \in Edge
  BY <1>9, RInvFacts DEF Answers, PairsInPlace, Pairs
<1>15. QED BY <1>11, <1>12, <1>13, <1>14 DEF RInv

\* The interrupt of a circuit: the answer leaves the line.
LEMMA HandleCSDeliveryRInv ==
    ASSUME RInv, IInv', NEW p, NEW c, <<p, c>> \in Circuit, HandleCSDelivery(p, c)
    PROVE  RInv' /\ R!Arrive(p, c)
<1> USE DEF HandleCSDelivery
<1> DEFINE pkt == Delivery(p, c, cs_line[<<p, c>>].num)
<1>1. /\ p \in Task /\ c \in Task /\ Home[c] \in PE
      /\ cs_line \in [Circuit -> [state : {"idle", "sending", "sent"}, num : Nat]]
  BY SystemAssumption DEF RInv, IInv, TypeOK
<1>2. <<p, c>> \in LinePairs /\ cs_line[<<p, c>>].num = put[<<p, c>>]
  BY DEF LinePairs, RInv, LastAccepted
<1>3. /\ pkt \in Packet /\ pkt.producer = p /\ pkt.consumer = c
      /\ pkt.num = put[<<p, c>>]
  BY <1>1, <1>2 DEF Delivery, Packet, Service
<1>4. handle_message_delivery(Home[c], pkt)
  OBVIOUS
<1> HIDE DEF pkt
<1>5. c \in OnLine /\ c \in Waiting /\ recv_buffer[c]
  BY <1>1, <1>2, HasBuffer, RInvFacts DEF PairsInPlace, Pairs
<1>6. Waiting' = Waiting \ {c}
  BY <1>1, <1>3, <1>4, <1>5, Delivered, RInvFacts
<1>7. /\ call' = [call EXCEPT ![c] = NoCall(c)] /\ got' = [got EXCEPT ![<<p, c>>] = pkt.num]
      /\ UNCHANGED kernel
  BY <1>3, <1>4, <1>5 DEF handle_message_delivery, ReleaseConsumer
<1>8. /\ LinePairs' = LinePairs \ {<<p, c>>}
      /\ \A k \in LinePairs' : cs_line'[k] = cs_line[k]
  <2>1. \A k \in Circuit : cs_line'[k] = IF k = <<p, c>> THEN IdleLine ELSE cs_line[k]
    BY <1>1
  <2>2. QED BY <2>1 DEF LinePairs, IdleLine
<1>9. <<p, c>> \notin NetAnswers
  <2>1. c \notin InNet
    BY <1>5 DEF RInv, IInv, RequestConservation, PairwiseDisjoint
  <2>2. QED BY <2>1, RInvFacts DEF PairsInPlace
<1>10. /\ Packets(ps_net)' = Packets(ps_net)
       /\ Pairs' \subseteq Pairs /\ Answers' = Answers \ {<<p, c>>} /\ <<p, c>> \in Answers
  BY <1>2, <1>8, <1>9, PairsFrame DEF Pairs, Answers
<1>11. PeersAsked' /\ MessageWritten' /\ OneAhead' /\ R!Arrive(p, c)
  BY <1>1, <1>3, <1>6, <1>7, <1>10, Arrived
<1>12. LastAccepted'
  BY <1>8, <1>10 DEF RInv, LastAccepted, Pair
<1>13. Sending'
  BY <1>7, SendingFrame
<1>14. QED BY <1>11, <1>12, <1>13 DEF RInv

-----------------------------------------------------------------------------
(* The theorems *)

\* The invariant holds when the kernels have booted, and the rendezvous has not
\* begun.
LEMMA InitRInv == Init => RInv /\ R!Init
<1> SUFFICES ASSUME Init PROVE RInv /\ R!Init
  OBVIOUS
<1> USE DEF Init
<1>1. IInv
  BY InitIInv
<1>2. Packets(ps_net) = {} /\ Packets(pending) = {}
  BY DEF Packets
<1>3. NetPairs = {} /\ PendingPairs = {} /\ NetAnswers = {}
  BY <1>2 DEF NetPairs, PendingPairs, NetAnswers
<1>4. TablePairs = {}
  BY SystemAssumption DEF TablePairs, FreeSlot
<1>5. WirePairs = {} /\ LinePairs = {}
  BY DEF WirePairs, LinePairs, IdleLine
<1>6. PeersAsked /\ OneAhead /\ LastAccepted
  BY <1>2, <1>3, <1>4, <1>5 DEF Pairs, Answers, PeersAsked, OneAhead, LastAccepted
<1>7. MessageWritten
  BY DEF MessageWritten, NoCall, Call
<1>8. Sending
  BY SystemAssumption DEF Sending, SendingAt
<1>9. R!Init
  BY DEF R!Init, wants
<1>10. QED BY <1>1, <1>6, <1>7, <1>8, <1>9 DEF RInv

\* Every step preserves the invariant and is a step of the rendezvous, or none.
LEMMA NextRInv == RInv /\ [Next]_vars => RInv' /\ [R!Next]_(R!vars)
<1> SUFFICES ASSUME RInv, [Next]_vars PROVE RInv' /\ (R!Next \/ UNCHANGED R!vars)
  OBVIOUS
<1>0. IInv'
  BY NextIInv, RInvFacts
<1>1. ASSUME NEW e \in Edge, EdgeStep(e[1], e[2]) PROVE RInv' /\ (R!Next \/ UNCHANGED R!vars)
  <2>1. <<e[1], e[2]>> \in Edge
    BY SystemAssumption
  <2>2. QED
    BY <1>0, <1>1, <2>1, CallSendRInv, CallReceiveRInv, SendLocalRInv, SendPSRInv, SendCSRInv,
       ReceiveRInv DEF EdgeStep, R!Next
<1>2. ASSUME NEW k \in Circuit, CircuitStep(k[1], k[2])
      PROVE  RInv' /\ (R!Next \/ UNCHANGED R!vars)
  <2>1. <<k[1], k[2]>> \in Circuit /\ k \in Edge
    BY SystemAssumption
  <2>2. QED
    BY <1>0, <1>2, <2>1, HandleCSRequestRInv, HandleCSDeliveryRInv, CSSendEndsRInv
    DEF CircuitStep, R!Next
<1>3. ASSUME NEW l \in Link, LinkStep(l[1], l[2]) PROVE RInv' /\ (R!Next \/ UNCHANGED R!vars)
  <2>1. l[1] \in PE /\ l[2] \in PE
    BY DEF Link
  <2>2. QED
    BY <1>0, <1>3, <2>1, HandleRequestRInv, DeferRequestRInv, HandleDeliveryRInv
    DEF LinkStep, R!Next
<1>4. ASSUME NEW d \in PE, PEStep(d) PROVE RInv' /\ (R!Next \/ UNCHANGED R!vars)
  BY <1>0, <1>4, HandlePendingRInv, PSSendEndsRInv, SpinEndsRInv DEF PEStep
<1>5. ASSUME NEW t \in Task, TaskStep(t) PROVE RInv' /\ (R!Next \/ UNCHANGED R!vars)
  BY <1>0, <1>5, TaskReleaseRInv, ExitRInv DEF TaskStep
<1>6. ASSUME UNCHANGED vars PROVE RInv' /\ UNCHANGED R!vars
  <2>1. Sending'
    BY <1>6, SendingFrame DEF vars, kernelVars, taskVars, netVars
  <2>2. QED
    BY <1>0, <1>6, <2>1, IdleStep DEF vars, kernelVars, taskVars, netVars
<1>7. QED BY <1>1, <1>2, <1>3, <1>4, <1>5, <1>6 DEF Next

\* The memory a DMNI reads holds the message that was sent until its last word
\* has left: no producer overwrites a message that goes by packet.
THEOREM MessagesStayIntact == Spec => []PSMessageIntact
<1>1. RInv => PSMessageIntact
  BY DEF RInv, Sending, SendingAt, LastPacket, PSMessageIntact
<1>2. QED BY <1>1, InitRInv, NextRInv, PTL DEF Spec

\* The kernels keep the promise of Send() and Receive(): a message is accepted
\* only when its consumer waits for that producer, one at a time, and arrives
\* once and in order, before the consumer goes on.
THEOREM KernelsImplementRendezvous == Spec => ImplementsRendezvous
<1>1. QED BY InitRInv, NextRInv, PTL DEF Spec, ImplementsRendezvous, R!Spec

=============================================================================
