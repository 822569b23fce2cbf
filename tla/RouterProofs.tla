----------------------------- MODULE RouterProofs -----------------------------
(***************************************************************************)
(* Proofs, for every size of the queues from 5 on and for all packets with *)
(* a payload: a queue never fills up to the slot it reads from, an input   *)
(* that sends has an output of its own, and an output passes whole packets.*)
(***************************************************************************)
EXTENDS Router, TLAPS

\* After the rising edge, a queue with room can take one flit more, and taking it
\* does not bring the pointers to the place that Full does not know.
RoomIsThere ==
    edge = "neg" => \A p \in Port : tem_espaco_na_fila[p] =>
                        /\ Succ(last[p]) # first[p]
                        /\ ~(first[p] = 0 /\ last[p] = BUFFER_TAM - 2)

\* Full misses one place where a queue is full: by then it is closed.
ClosedAtTheEnd ==
    edge = "pos" => \A p \in Port :
        first[p] = 0 /\ last[p] = BUFFER_TAM - 1 => ~tem_espaco_na_fila[p]

\* A queue that asks or offers has a flit.
OffersWhatItHas ==
    \A p \in Port : data_av[p] \/ EA_fila[p] = "S_HEADER" => first[p] # last[p]

IInv == TypeOK /\ RoomIsThere /\ ClosedAtTheEnd /\ OffersWhatItHas

\* The slot after a slot is one.
LEMMA SuccInSlot == \A i \in Slot : Succ(i) \in Slot
BY BufferAssumption DEF Slot, Succ

\* The queues start empty and open.
LEMMA InitIInv == Init => IInv
<1> SUFFICES ASSUME Init PROVE IInv
  OBVIOUS
<1>z. 0 \in Slot /\ BUFFER_TAM - 1 # 0
  BY BufferAssumption DEF Slot
<1>1. TypeOK
  BY <1>z DEF Init, TypeOK, FilaState
<1>2. RoomIsThere
  BY DEF Init, RoomIsThere
<1>3. ClosedAtTheEnd
  BY <1>z DEF Init, ClosedAtTheEnd
<1>4. OffersWhatItHas
  BY DEF Init, OffersWhatItHas
<1>5. QED
  BY <1>1, <1>2, <1>3, <1>4 DEF IInv

\* What is offered next is in the queue.
LEMMA OfferedIsThere ==
    ASSUME IInv, Pos, NEW p \in Port
    PROVE  Offers(p) \/ NextFila(p) = "S_HEADER" => first'[p] # last[p]
<1> USE DEF IInv, TypeOK
<1>1. first'[p] = IF Sends(p) THEN Succ(first[p]) ELSE first[p]
  BY DEF Pos, out_proc_FSM
<1>2. EA_fila[p] \in FilaState
  OBVIOUS
<1>3. CASE EA_fila[p] = "S_INIT"
  BY <1>1, <1>3 DEF Offers, NextFila, Sends, SendsTail, OffersWhatItHas
<1>4. CASE EA_fila[p] = "S_HEADER"
  BY <1>1, <1>4 DEF Offers, NextFila, Sends, SendsTail, OffersWhatItHas
<1>5. CASE EA_fila[p] = "S_SENDHEADER"
  BY <1>1, <1>5 DEF Offers, NextFila, Sends, SendsTail, OffersWhatItHas
<1>6. CASE EA_fila[p] = "S_PAYLOAD"
  BY <1>1, <1>6 DEF Offers, NextFila, Sends, SendsTail, OffersWhatItHas
<1>7. CASE EA_fila[p] \in {"S_END", "S_END2"}
  BY <1>1, <1>7 DEF Offers, NextFila, Sends, SendsTail, OffersWhatItHas
<1>8. QED
  BY <1>2, <1>3, <1>4, <1>5, <1>6, <1>7 DEF FilaState

\* The next state of a queue is a state.
LEMMA NextFilaType == ASSUME NEW p \in Port, EA_fila[p] \in FilaState PROVE NextFila(p) \in FilaState
BY DEF NextFila, FilaState

\* Whether a queue offers a flit is a Boolean.
LEMMA OffersType ==
    ASSUME NEW p \in Port, data_av[p] \in BOOLEAN, ack_h[p] \in BOOLEAN
    PROVE  Offers(p) \in BOOLEAN
BY DEF Offers

\* A queue that is open after the rising edge has a place for one more flit: the
\* places that Full does not know are not reached.
LEMMA RoomAfterPos ==
    ASSUME IInv, Pos, NEW p \in Port, tem_espaco_na_fila'[p]
    PROVE  /\ Succ(last[p]) # first'[p]
           /\ ~(first'[p] = 0 /\ last[p] = BUFFER_TAM - 2)
<1>f. first'[p] = IF Sends(p) THEN Succ(first[p]) ELSE first[p]
  BY DEF Pos, out_proc_FSM
<1>s. ~Full(p) /\ (HasTwo(p) \/ tem_espaco_na_fila[p])
  BY DEF Pos, in_proc_FSM
<1>t. first[p] \in Slot /\ last[p] \in Slot
  BY DEF IInv, TypeOK
<1>c. first[p] = 0 /\ last[p] = BUFFER_TAM - 1 => ~tem_espaco_na_fila[p]
  BY DEF IInv, ClosedAtTheEnd, Pos
<1>1. ~(first[p] = 0 /\ last[p] = BUFFER_TAM - 1)
  BY <1>s, <1>c, BufferAssumption DEF HasTwo
<1>2. CASE ~Sends(p)
  BY <1>1, <1>2, <1>f, <1>s, <1>t, BufferAssumption DEF Full, Succ, Slot
<1>3. CASE Sends(p)
  <2>1. first[p] # last[p]
    BY <1>3 DEF IInv, OffersWhatItHas, Sends, data_ack
  <2>2. QED
    BY <2>1, <1>3, <1>f, <1>s, <1>t, BufferAssumption DEF Full, Succ, Slot
<1>4. QED
  BY <1>2, <1>3

\* Types after a rising edge.
LEMMA PosType == IInv /\ Pos => TypeOK'
<1> SUFFICES ASSUME IInv, Pos PROVE TypeOK'
  OBVIOUS
<1> USE DEF IInv, TypeOK
<1>1. edge' \in {"pos", "neg"} /\ last' \in [Port -> Slot]
  BY DEF Pos, storage
<1>2. first' \in [Port -> Slot]
  BY SuccInSlot DEF Pos, out_proc_FSM
<1>3. tem_espaco_na_fila' \in [Port -> BOOLEAN]
  BY DEF Pos, in_proc_FSM
<1>4. EA_fila' \in [Port -> FilaState]
  BY NextFilaType DEF Pos, out_proc_FSM
<1>5. data_av' \in [Port -> BOOLEAN]
  BY OffersType DEF Pos, out_proc_FSM
<1>6. ack_h' \in [Port -> BOOLEAN]
  <2>1. CASE EA \in {"S0", "S1"}
    BY <2>1 DEF Pos, controle_sequ
  <2>2. CASE EA = "S2"
    BY <2>2 DEF Pos, controle_sequ
  <2>3. CASE EA \notin {"S0", "S1", "S2"}
    <3>1. ack_h' = [ack_h EXCEPT ![sel] = Connects] /\ Connects \in BOOLEAN
      BY <2>3 DEF Pos, controle_sequ, Connects
    <3>2. QED
      BY <3>1
  <2>4. QED
    BY <2>1, <2>2, <2>3
<1>7. QED
  BY <1>1, <1>2, <1>3, <1>4, <1>5, <1>6

\* The rising edge decides on the room and takes out at most one flit.
LEMMA PosIInv == IInv /\ Pos => IInv'
<1> SUFFICES ASSUME IInv, Pos PROVE IInv'
  OBVIOUS
<1>q. edge' = "neg" /\ last' = last
  BY DEF Pos, storage
<1>1. TypeOK'
  BY PosType
<1>2. RoomIsThere'
  BY <1>q, RoomAfterPos DEF RoomIsThere
<1>3. ClosedAtTheEnd'
  BY <1>q DEF ClosedAtTheEnd
<1>4. OffersWhatItHas'
  <2>1. \A p \in Port : data_av'[p] = Offers(p) /\ EA_fila'[p] = NextFila(p)
    BY DEF Pos, out_proc_FSM
  <2>2. QED
    BY <2>1, <1>q, OfferedIsThere DEF OffersWhatItHas
<1>5. QED
  BY <1>1, <1>2, <1>3, <1>4 DEF IInv

\* The falling edge stores at most one flit, for which there is room.
LEMMA StoredInRoom ==
    ASSUME IInv, Neg, NEW p \in Port
    PROVE  /\ last'[p] \in Slot
           /\ last'[p] # last[p] => tem_espaco_na_fila[p] /\ last'[p] = Succ(last[p])
           /\ last'[p] # last[p] => last'[p] # first[p]
<1>1. last'[p] = IF Stores(p) THEN Succ(last[p]) ELSE last[p]
  BY DEF Neg, in_proc_updPtr
<1>2. QED
  BY <1>1, SuccInSlot DEF Stores, IInv, TypeOK, RoomIsThere, Neg

\* Types and room after a falling edge.
LEMMA NegIInv == IInv /\ Neg => IInv'
<1> SUFFICES ASSUME IInv, Neg PROVE IInv'
  OBVIOUS
<1>q. edge = "neg" /\ edge' = "pos" /\ UNCHANGED <<queues, switch>>
  BY DEF Neg
<1>1. TypeOK'
  <2>1. last' \in [Port -> Slot]
    BY SuccInSlot DEF Neg, in_proc_updPtr, IInv, TypeOK
  <2>2. QED
    BY <2>1, <1>q DEF queues, switch, IInv, TypeOK
<1>2. RoomIsThere'
  BY <1>q DEF RoomIsThere
<1>3. ClosedAtTheEnd'
  <2> SUFFICES ASSUME NEW p \in Port, first[p] = 0, last'[p] = BUFFER_TAM - 1, tem_espaco_na_fila[p]
               PROVE  FALSE
    BY <1>q DEF ClosedAtTheEnd, queues
  <2>1. Succ(last[p]) # first[p] /\ last[p] # BUFFER_TAM - 2 /\ last[p] \in Slot
    BY <1>q DEF IInv, RoomIsThere, TypeOK
  <2>2. last[p] = BUFFER_TAM - 1 \/ last'[p] = Succ(last[p])
    BY StoredInRoom
  <2>3. QED
    BY <2>1, <2>2, BufferAssumption DEF Succ, Slot
<1>4. OffersWhatItHas'
  BY <1>q, StoredInRoom DEF OffersWhatItHas, queues, IInv
<1>5. QED
  BY <1>1, <1>2, <1>3, <1>4 DEF IInv

\* Types and room after any step.
LEMMA NextIInv == IInv /\ [Next]_vars => IInv'
<1> SUFFICES ASSUME IInv, [Next]_vars PROVE IInv'
  OBVIOUS
<1>1. CASE Next
  BY <1>1, PosIInv, NegIInv DEF Next
<1>2. CASE UNCHANGED vars
  BY <1>2 DEF vars, storage, queues, switch, IInv, TypeOK, RoomIsThere, ClosedAtTheEnd, OffersWhatItHas
<1>3. QED
  BY <1>1, <1>2

\* The types of the queues' registers, for every size of the queues.
THEOREM TypeCorrect == Spec => []TypeOK
<1>1. Init => IInv
  BY InitIInv
<1>2. IInv /\ [Next]_vars => IInv'
  BY NextIInv
<1>3. IInv => TypeOK
  BY DEF IInv
<1>4. QED
  BY <1>1, <1>2, <1>3, PTL DEF Spec

\* A queue never fills up to the slot it reads from, for every size from 5 on.
THEOREM QueuesNeverFull == Spec => NeverFull
<1> DEFINE Keeps == \A p \in Port : last'[p] # last[p] => last'[p] # first[p]
<1>1. Init => IInv
  BY InitIInv
<1>2. IInv /\ [Next]_vars => IInv'
  BY NextIInv
<1>3. IInv /\ [Next]_vars => [Keeps]_vars
  <2> SUFFICES ASSUME IInv, Next PROVE Keeps
    OBVIOUS
  <2>1. CASE Pos
    BY <2>1 DEF Pos, storage
  <2>2. CASE Neg
    BY <2>2, StoredInRoom
  <2>3. QED
    BY <2>1, <2>2 DEF Next
<1>4. QED
  BY <1>1, <1>2, <1>3, PTL DEF Spec, NeverFull

-----------------------------------------------------------------------------
(* The switch control *)

SwitchType ==
    /\ \A p \in Port : DOMAIN buffer_in[p] = Slot
    /\ EA \in State
    /\ sel \in Port
    /\ h \in [Port -> BOOLEAN] /\ sender \in [Port -> BOOLEAN]
    /\ sender_ant \in [Port -> BOOLEAN] /\ free \in [Port -> BOOLEAN]
    /\ mux_in \in [Port -> Port] /\ mux_out \in [Port -> Port]

\* What the state of a queue says of its signals.
QueueStages == \A p \in Port :
    /\ h[p] <=> EA_fila[p] = "S_HEADER"
    /\ sender[p] <=> EA_fila[p] \in {"S_SENDHEADER", "S_PAYLOAD"}
    /\ sender_ant[p] => EA_fila[p] \in {"S_SENDHEADER", "S_PAYLOAD", "S_END"}

\* What the state of the switch control says of the queue it serves.
SwitchStages ==
    /\ EA = "S0" => \A p \in Port : EA_fila[p] \in {"S_INIT", "S_HEADER"}
    /\ EA = "S2" /\ edge = "pos" => \E p \in Port : h[p]
    /\ EA = "S2" /\ edge = "neg" => h[sel]
    /\ EA = "S3" => h[sel]
    /\ Connects => h[sel] 
    /\ Connects /\ edge = "pos" => free[Output]
    /\ \A p \in Port : ack_h[p] => /\ p = sel /\ h[sel]
                                   /\ IF edge = "neg" THEN Connects ELSE EA = "S7"

\* From the grant to the edge after the tail, an input holds its output.
Holds(p) == sender[p] \/ sender_ant[p] \/ (ack_h[p] /\ EA_fila[p] = "S_HEADER")
HoldersOwn == \A p \in Port : Holds(p) => mux_out[mux_in[p]] = p /\ ~free[mux_in[p]]

SInv == IInv /\ SwitchType /\ QueueStages /\ SwitchStages /\ HoldersOwn

\* At first no port is connected and no queue asks for one.
LEMMA InitSInv == Init => SInv
<1> SUFFICES ASSUME Init PROVE SInv
  OBVIOUS
<1>1. SwitchType
  BY DEF Init, SwitchType, State, Port
<1>2. QueueStages
  BY DEF Init, QueueStages
<1>3. SwitchStages
  BY DEF Init, SwitchStages, Connects
<1>4. HoldersOwn
  BY DEF Init, HoldersOwn, Holds
<1>5. QED
  BY <1>1, <1>2, <1>3, <1>4, InitIInv DEF SInv

\* The round robin finds a port that asks.
LEMMA ProxAsks ==
    ASSUME SwitchType, \E p \in Port : h[p]
    PROVE  prox \in Port /\ h[prox]
<1> DEFINE Asks(k) == h[(sel + k) % 5]
           IsNext(k) == Asks(k) /\ \A j \in 1..(k - 1) : ~Asks(j)
<1>1. \E k \in 1..5 : Asks(k)
  BY DEF SwitchType, Port
<1>2. \E k \in 1..5 : IsNext(k)
  BY <1>1
<1>3. PICK k \in 1..5 : k = (CHOOSE i \in 1..5 : IsNext(i)) /\ IsNext(k)
  BY <1>2
<1>4. prox = (sel + k) % 5
  BY <1>3 DEF prox
<1>5. (sel + k) % 5 \in 0..4
  BY DEF SwitchType, Port
<1>6. QED
  BY <1>3, <1>4, <1>5 DEF Port

\* After a rising edge the wires of a queue still agree with its state.
LEMMA PosStages == ASSUME SInv, Pos PROVE QueueStages'
<1> SUFFICES ASSUME NEW p \in Port
             PROVE  /\ h'[p] <=> EA_fila'[p] = "S_HEADER"
                    /\ sender'[p] <=> EA_fila'[p] \in {"S_SENDHEADER", "S_PAYLOAD"}
                    /\ sender_ant'[p] => EA_fila'[p] \in {"S_SENDHEADER", "S_PAYLOAD", "S_END"}
  BY DEF QueueStages
<1>1. /\ EA_fila'[p] = NextFila(p)
      /\ h'[p] <=> IF EA_fila[p] = "S_INIT" THEN first[p] # last[p] ELSE h[p] /\ ~Granted(p)
      /\ sender'[p] <=> Granted(p) \/ (sender[p] /\ ~SendsTail(p))
  BY DEF Pos, out_proc_FSM
<1>2. sender_ant'[p] => sender[p]
  BY DEF Pos, controle_sequ
<1>3. EA_fila[p] \in FilaState
  BY DEF SInv, IInv, TypeOK
<1>4. QED
  BY <1>1, <1>2, <1>3 DEF SInv, QueueStages, NextFila, Granted, Sends, SendsTail, FilaState

\* A request is withdrawn only by the grant.
LEMMA RequestStays ==
    ASSUME SInv, Pos, NEW p \in Port, h[p], ~ack_h[p]
    PROVE  h'[p] /\ EA_fila'[p] = "S_HEADER"
<1>1. EA_fila[p] = "S_HEADER"
  BY DEF SInv, QueueStages
<1>2. QED
  BY <1>1 DEF Pos, out_proc_FSM, Granted, NextFila, SInv, SwitchType

\* A header is routed to a port.
LEMMA OutputIsPort == Connects => Output \in Port
BY DEF Connects, Output, dirx, diry, Port, EAST, WEST, NORTH, SOUTH, LOCAL_PORT

\* Types of the switch after a rising edge.
LEMMA PosSwitchType == ASSUME SInv, Pos PROVE SwitchType'
<1> USE DEF SInv, SwitchType
<1>1. EA' = EA /\ buffer_in' = buffer_in
  BY DEF Pos, storage
<1>2. sel' \in Port
  <2>1. 0 \in Port
    BY DEF Port
  <2>2. EA = "S2" => prox \in Port
    BY ProxAsks DEF Pos, SwitchStages
  <2>3. QED
    BY <2>1, <2>2 DEF Pos, controle_sequ
<1>3. h' \in [Port -> BOOLEAN] /\ sender' \in [Port -> BOOLEAN]
  BY DEF Pos, out_proc_FSM, Granted, SendsTail
<1>4. sender_ant' \in [Port -> BOOLEAN] /\ free' \in [Port -> BOOLEAN]
  BY DEF Pos, controle_sequ
<1>5. mux_in' \in [Port -> Port] /\ mux_out' \in [Port -> Port]
  <2>1. 0 \in Port
    BY DEF Port
  <2>2. CASE Connects
    BY <2>2, OutputIsPort DEF Pos, controle_sequ, Connects
  <2>3. CASE ~Connects
    BY <2>1, <2>3 DEF Pos, controle_sequ
  <2>4. QED
    BY <2>2, <2>3
<1>6. QED
  BY <1>1, <1>2, <1>3, <1>4, <1>5

\* A new acknowledgement is for the queue that is being connected.
LEMMA NewAcknowledgement ==
    ASSUME SInv, Pos, NEW p \in Port, ack_h'[p]
    PROVE  Connects /\ p = sel
<1>1. ack_h[p] => p = sel /\ EA = "S7"
  BY DEF SInv, SwitchStages, Pos
<1>2. EA \notin {"S0", "S1", "S2"}
  BY <1>1 DEF Pos, controle_sequ
<1>3. ack_h' = [ack_h EXCEPT ![sel] = Connects]
  BY <1>2 DEF Pos, controle_sequ
<1>4. QED
  BY <1>1, <1>3 DEF SInv, IInv, TypeOK, SwitchType

\* After a rising edge the registers of the switch still agree with its state.
LEMMA PosSwitchStages == ASSUME SInv, Pos PROVE SwitchStages'
<1>e. EA' = EA /\ edge' = "neg" /\ edge = "pos" /\ (Connects' <=> Connects)
  BY DEF Pos, Connects
<1>a. \A p \in Port : ack_h[p] => EA = "S7"
  BY <1>e DEF SInv, SwitchStages
<1>s. sel \in Port
  BY DEF SInv, SwitchType
<1>1. EA = "S0" => \A p \in Port : EA_fila'[p] \in {"S_INIT", "S_HEADER"}
  BY <1>a DEF SInv, SwitchStages, Pos, out_proc_FSM, NextFila
<1>2. EA = "S2" => h'[sel']
  <2> SUFFICES ASSUME EA = "S2" PROVE h'[sel']
    OBVIOUS
  <2>1. prox \in Port /\ h[prox]
    BY <1>e, ProxAsks DEF SInv, SwitchStages
  <2>2. sel' = prox
    BY DEF Pos, controle_sequ
  <2>3. QED
    BY <2>1, <2>2, <1>a, RequestStays
<1>3. EA = "S3" \/ Connects => sel' = sel /\ h'[sel]
  <2> SUFFICES ASSUME EA = "S3" \/ Connects PROVE sel' = sel /\ h'[sel]
    OBVIOUS
  <2>1. h[sel] /\ ~ack_h[sel]
    BY <1>a, <1>s DEF SInv, SwitchStages, Connects
  <2>2. sel' = sel
    BY DEF Pos, controle_sequ, Connects
  <2>3. QED
    BY <2>1, <2>2, <1>s, RequestStays
<1>4. \A p \in Port : ack_h'[p] => p = sel' /\ h'[sel'] /\ Connects
  BY <1>3, NewAcknowledgement
<1>5. QED
  BY <1>e, <1>1, <1>2, <1>3, <1>4 DEF SwitchStages

\* Who holds an output after the rising edge held it before or is connected now.
LEMMA NewHolder ==
    ASSUME SInv, Pos, NEW p \in Port, Holds(p)'
    PROVE  \/ Connects /\ p = sel
           \/ Holds(p) /\ ~(~sender[p] /\ sender_ant[p])
<1>1. sender'[p] => Granted(p) \/ sender[p]
  BY DEF Pos, out_proc_FSM
<1>2. sender_ant'[p] => sender[p]
  BY DEF Pos, controle_sequ
<1>3. Granted(p) => ack_h[p] /\ EA_fila[p] = "S_HEADER" /\ ~sender_ant[p]
  BY DEF Granted, SInv, QueueStages
<1>4. QED
  BY <1>1, <1>2, <1>3, NewAcknowledgement DEF Holds

\* What a rising edge does to the connections.
LEMMA Connections ==
    ASSUME SInv, Pos
    PROVE  /\ Connects => /\ ~sender[sel] /\ ~sender_ant[sel] /\ h[sel] /\ ~ack_h[sel]
                          /\ free[Output] /\ Output \in Port
                          /\ mux_in' = [mux_in EXCEPT ![sel] = Output]
                          /\ mux_out' = [mux_out EXCEPT ![Output] = sel]
           /\ ~Connects /\ EA # "S0" => mux_in' = mux_in /\ mux_out' = mux_out
           /\ \A o \in Port : free'[o] <=> EA = "S0" \/ Released(o)
                                           \/ (free[o] /\ ~(Connects /\ o = Output))
           /\ \A q \in Port : Holds(q) =>
                  EA # "S0" /\ mux_out[mux_in[q]] = q /\ ~free[mux_in[q]]
           /\ \A o \in Port : Released(o) =>
                  \E q \in Port : ~sender[q] /\ sender_ant[q] /\ mux_in[q] = o /\ mux_out[o] = q /\ ~free[o]
<1> USE DEF SInv, SwitchType
<1>c. Connects => /\ ~sender[sel] /\ ~sender_ant[sel] /\ h[sel] /\ ~ack_h[sel]
                  /\ free[Output] /\ Output \in Port
                  /\ mux_in' = [mux_in EXCEPT ![sel] = Output]
                  /\ mux_out' = [mux_out EXCEPT ![Output] = sel]
  BY OutputIsPort DEF Connects, SwitchStages, QueueStages, Pos, controle_sequ
<1>k. \A p \in Port : Holds(p) => EA # "S0"
  BY DEF Holds, SwitchStages, QueueStages, Pos
<1>n. ~Connects /\ EA # "S0" => mux_in' = mux_in /\ mux_out' = mux_out
  BY DEF Pos, controle_sequ
<1>f. \A o \in Port : free'[o] <=> EA = "S0" \/ Released(o) \/ (free[o] /\ ~(Connects /\ o = Output))
  BY DEF Pos, controle_sequ
<1>h. \A q \in Port : Holds(q) => mux_out[mux_in[q]] = q /\ ~free[mux_in[q]]
  BY DEF HoldersOwn
<1>r. \A o \in Port : Released(o) =>
        \E q \in Port : ~sender[q] /\ sender_ant[q] /\ mux_in[q] = o /\ mux_out[o] = q /\ ~free[o]
  <2> SUFFICES ASSUME NEW o \in Port, NEW q \in Port, ~sender[q], sender_ant[q], mux_in'[q] = o
               PROVE  mux_in[q] = o /\ mux_out[o] = q /\ ~free[o]
    BY DEF Released
  <2>1. Holds(q)
    BY DEF Holds
  <2>2. mux_in'[q] = mux_in[q]
    BY <2>1, <1>c, <1>n, <1>k
  <2>3. QED
    BY <2>1, <2>2, <1>h
<1>q. QED
  BY <1>c, <1>k, <1>n, <1>f, <1>h, <1>r

\* A rising edge connects no port to an output another one holds.
LEMMA PosHoldersOwn == ASSUME SInv, Pos PROVE HoldersOwn'
<1> USE DEF SInv, SwitchType
<1>c. Connects => /\ ~sender[sel] /\ ~sender_ant[sel]
                  /\ free[Output] /\ Output \in Port
                  /\ mux_in' = [mux_in EXCEPT ![sel] = Output]
                  /\ mux_out' = [mux_out EXCEPT ![Output] = sel]
  BY Connections
<1>n. ~Connects /\ EA # "S0" => mux_in' = mux_in /\ mux_out' = mux_out
  BY Connections
<1>f. \A o \in Port : free'[o] <=> EA = "S0" \/ Released(o) \/ (free[o] /\ ~(Connects /\ o = Output))
  BY Connections
<1>h. \A q \in Port : Holds(q) => EA # "S0" /\ mux_out[mux_in[q]] = q /\ ~free[mux_in[q]]
  BY Connections
<1>r. \A o \in Port : Released(o) =>
        \E q \in Port : ~sender[q] /\ sender_ant[q] /\ mux_in[q] = o /\ mux_out[o] = q /\ ~free[o]
  BY Connections
<1> SUFFICES ASSUME NEW p \in Port, Holds(p)'
             PROVE  mux_out'[mux_in'[p]] = p /\ ~free'[mux_in'[p]]
  BY DEF HoldersOwn
<1>1. CASE Connects /\ p = sel
  <2>1. mux_in'[p] = Output /\ mux_out'[Output] = p
    BY <1>1, <1>c
  <2>2. ~Released(Output) /\ EA # "S0"
    BY <1>1, <1>c, <1>r DEF Connects
  <2>3. QED
    BY <2>1, <2>2, <1>1, <1>c, <1>f
<1>2. CASE ~(Connects /\ p = sel)
  <2>1. Holds(p) /\ ~(~sender[p] /\ sender_ant[p])
    BY <1>2, NewHolder
  <2>2. mux_out[mux_in[p]] = p /\ ~free[mux_in[p]] /\ mux_in[p] \in Port /\ EA # "S0"
    BY <2>1, <1>h
  <2>3. mux_in'[p] = mux_in[p]
    BY <2>2, <1>2, <1>c, <1>n
  <2>4. mux_out'[mux_in[p]] = p
    BY <2>2, <1>c, <1>n
  <2>5. ~Released(mux_in[p])
    BY <2>1, <2>2, <1>r
  <2>6. QED
    BY <2>2, <2>3, <2>4, <2>5, <1>f
<1>3. QED
  BY <1>1, <1>2

\* The header that is being routed stays where it is while the queue is filled.
LEMMA HeaderStays == ASSUME SInv, Neg, h[sel] PROVE header' = header
<1>s. sel \in Port
  BY DEF SInv, SwitchType
<1>1. first' = first /\ sel' = sel
  BY DEF Neg, queues, switch
<1>2. first[sel] # last[sel] /\ first[sel] \in Slot
  BY <1>s DEF SInv, QueueStages, IInv, OffersWhatItHas, TypeOK
<1>3. buffer_in'[sel] = IF Stores(sel) THEN [buffer_in[sel] EXCEPT ![last[sel]] = data_in[sel]]
                                       ELSE buffer_in[sel]
  BY <1>s DEF Neg, in_proc_updPtr
<1>4. buffer_in'[sel][first[sel]] = buffer_in[sel][first[sel]]
  BY <1>s, <1>2, <1>3 DEF SInv, SwitchType
<1>5. QED
  BY <1>1, <1>4 DEF header, data, Target

\* The port that is tested in S3 is the one that is connected afterwards.
LEMMA RoutedOutput ==
    ASSUME SInv, Neg, EA = "S3", EA' \in {"S4", "S5", "S6"}
    PROVE  Output' = Route(header) /\ free[Route(header)]
<1>1. header' = header
  BY HeaderStays DEF SInv, SwitchStages
<1>2. EA' = IF ~free[Route(header)] THEN "S1"
            ELSE IF IsAlongX(header) THEN "S5" ELSE IF IsAlongY(header) THEN "S6" ELSE "S4"
  BY DEF Neg, controle_comb
<1>3. ~(IsAlongX(header) /\ IsAlongY(header))
  BY DEF IsAlongX, IsAlongY, EAST, WEST, NORTH, SOUTH
<1>4. Output' = CASE EA' = "S4" -> LOCAL_PORT [] EA' = "S5" -> dirx(header) [] EA' = "S6" -> diry(header)
  BY <1>1 DEF Output, dirx, diry
<1>5. QED
  BY <1>2, <1>3, <1>4 DEF Route

\* After a falling edge the registers of the switch still agree with its state.
LEMMA NegSwitchStages == ASSUME SInv, Neg PROVE SwitchStages'
<1> USE DEF SInv
<1>e. edge' = "pos" /\ edge = "neg" /\ UNCHANGED <<queues, switch>> /\ EA' = controle_comb
  BY DEF Neg
<1>t. EA \in State
  BY DEF SwitchType
<1>1. EA' # "S0"
  BY <1>e, <1>t DEF controle_comb, Connects, State
<1>2. EA' = "S2" => \E p \in Port : h[p]
  BY <1>e, <1>t DEF controle_comb, Connects, State
<1>3. EA' = "S3" => h[sel]
  BY <1>e, <1>t DEF controle_comb, Connects, State, SwitchStages
<1>4. Connects' => h[sel] /\ free[Output']
  <2> SUFFICES ASSUME Connects' PROVE h[sel] /\ free[Output']
    OBVIOUS
  <2>1. EA = "S3" /\ EA' \in {"S4", "S5", "S6"}
    BY <1>e, <1>t DEF controle_comb, Connects, State
  <2>2. QED
    BY <2>1, RoutedOutput DEF SwitchStages
<1>5. Connects => EA' = "S7"
  BY <1>e DEF controle_comb, Connects
<1>6. QED
  BY <1>e, <1>1, <1>2, <1>3, <1>4, <1>5 DEF SwitchStages, queues, switch

\* All of it after a falling edge.
LEMMA NegSInv == SInv /\ Neg => SInv'
<1> SUFFICES ASSUME SInv, Neg PROVE SInv'
  OBVIOUS
<1>e. UNCHANGED <<queues, switch>> /\ EA' = controle_comb
  BY DEF Neg
<1>1. IInv'
  BY NegIInv DEF SInv
<1>2. SwitchType'
  <2>1. EA' \in State
    BY <1>e DEF controle_comb, Connects, State, SInv, SwitchType
  <2>2. \A p \in Port : DOMAIN buffer_in'[p] = Slot
    BY DEF Neg, in_proc_updPtr, SInv, SwitchType
  <2>3. QED
    BY <1>e, <2>1, <2>2 DEF queues, switch, SInv, SwitchType
<1>3. QueueStages'
  BY <1>e DEF queues, switch, SInv, QueueStages
<1>4. SwitchStages'
  BY NegSwitchStages
<1>5. HoldersOwn'
  BY <1>e DEF queues, switch, SInv, HoldersOwn, Holds
<1>6. QED
  BY <1>1, <1>2, <1>3, <1>4, <1>5 DEF SInv

\* All of it after any step.
LEMMA NextSInv == SInv /\ [Next]_vars => SInv'
<1> SUFFICES ASSUME SInv, [Next]_vars PROVE SInv'
  OBVIOUS
<1>1. CASE Pos
  BY <1>1, PosIInv, PosSwitchType, PosStages, PosSwitchStages, PosHoldersOwn DEF SInv
<1>2. CASE Neg
  BY <1>2, NegSInv
<1>3. CASE UNCHANGED vars
  <2>1. IInv'
    BY <1>3, NextIInv DEF SInv
  <2>2. SwitchType' /\ QueueStages' /\ HoldersOwn'
    BY <1>3 DEF vars, storage, queues, switch, SInv, SwitchType, QueueStages, HoldersOwn, Holds
  <2>3. SwitchStages'
    <3>1. (Connects' <=> Connects) /\ Output' = Output
      BY <1>3 DEF vars, storage, queues, switch, Connects, Output, header, data, Target, dirx, diry
    <3>2. QED
      BY <1>3, <3>1 DEF vars, storage, queues, switch, SInv, SwitchStages
  <2>4. QED
    BY <2>1, <2>2, <2>3 DEF SInv
<1>4. QED
  BY <1>1, <1>2, <1>3 DEF Next

\* Two inputs never send to one output, and an output that is sent to is not free, for
\* all sizes of the queues, all packets and all pauses of the neighbours.
THEOREM OutputsAreOwned == Spec => []OwnOutput
<1>1. Init => SInv
  BY InitSInv
<1>2. SInv /\ [Next]_vars => SInv'
  BY NextSInv
<1>3. SInv => OwnOutput
  BY DEF SInv, HoldersOwn, Holds, OwnOutput
<1>4. QED
  BY <1>1, <1>2, <1>3, PTL DEF Spec

-----------------------------------------------------------------------------
(* Whole packets *)

FlitOf(p) == [from : {p}, nr : Nat, at : 0..Size[p] + 1]

\* The flit that the queue p stores next: the one offered, if it is not yet in.
Coming(p) == IF edge = "pos" /\ Stores(p) THEN Following(data_in[p]) ELSE data_in[p]

\* The flit that the queue p sends next.
Front(p) == IF first[p] = last[p] THEN Coming(p) ELSE data(p)

Occupied(p, i) ==
    IF first[p] <= last[p] THEN first[p] <= i /\ i < last[p] ELSE first[p] <= i \/ i < last[p]

\* A queue holds flits of its port one after the other, and so they come.
Ordered == \A p \in Port :
    /\ data_in[p] \in FlitOf(p)
    /\ rx[p] \/ first[p] # last[p] => p \in Entries
    /\ \A i \in Slot : Occupied(p, i) =>
         /\ buffer_in[p][i] \in FlitOf(p)
         /\ (IF Succ(i) = last[p] THEN Coming(p) ELSE buffer_in[p][Succ(i)])
                = Following(buffer_in[p][i])

\* The state of a queue knows where in a packet it is.
InPacket == \A p \in Port :
    /\ EA_fila[p] # "S_PAYLOAD" => Front(p).at = 0
    /\ EA_fila[p] \in {"S_HEADER", "S_SENDHEADER"} => counter_flit[p] = 0
    /\ EA_fila[p] = "S_PAYLOAD" =>
         /\ Front(p).at # 0
         /\ counter_flit[p] = IF Front(p).at = 1 THEN 0 ELSE Size[p] + 2 - Front(p).at

\* A flit is offered between the grant and the tail, a header at once.
Offered == \A p \in Port :
    /\ data_av[p] => EA_fila[p] \in {"S_SENDHEADER", "S_PAYLOAD"}
    /\ EA_fila[p] = "S_SENDHEADER" => data_av[p]

\* An output that is not free is held by the input it listens to, and passes on
\* what that one offers.
TakenByHolder == \A o \in Port :
    /\ ~free[o] /\ (EA # "S0" \/ edge = "neg") =>
           Holds(mux_out[o]) /\ mux_in[mux_out[o]] = o
    /\ tx[o] <=> ~free[o] /\ mux_out[o] # o /\ data_av[mux_out[o]]

\* A queue is connected where its header leads, and stays so until it is sent.
Routed ==
    /\ Connects => Output = Route(header)
    /\ \A p \in Port : Holds(p) /\ EA_fila[p] \in {"S_HEADER", "S_SENDHEADER"} =>
           Route(Target(data(p))) = mux_in[p]

\* What has left an output is what its input sends, or what comes before that.
Passed == \A o \in Port :
    IF edge = "pos" /\ Delivers(o) THEN arrived[o] = data(mux_out[o])
    ELSE IF ~free[o] /\ EA_fila[mux_out[o]] = "S_PAYLOAD"
    THEN ~IsTail(arrived[o]) /\ Front(mux_out[o]) = Following(arrived[o])
    ELSE IsTail(arrived[o])

PInv == SInv /\ Ordered /\ InPacket /\ Offered /\ TakenByHolder /\ Routed /\ Passed

\* The next flit of a packet, or the header of the next packet.
LEMMA FollowingFacts ==
    ASSUME NEW p \in Entries, NEW f \in FlitOf(p)
    PROVE  /\ Following(f) \in FlitOf(p)
           /\ IsTail(f) <=> f.at = Size[p] + 1
           /\ IsTail(f) => Following(f).at = 0
           /\ ~IsTail(f) => Following(f) = [f EXCEPT !.at = @ + 1] /\ Following(f).at = f.at + 1
<1>1. p \in Port /\ Size[p] \in Nat /\ Len(Headers[p]) \in Nat /\ Len(Headers[p]) > 0
  BY PacketAssumption DEF Entries
<1>2. f.from = p /\ f.nr \in Nat /\ f.at \in 0..Size[p] + 1
  BY DEF FlitOf
<1>3. IsTail(f) <=> f.at = Size[p] + 1
  BY <1>2 DEF IsTail
<1>4. ASSUME IsTail(f) PROVE Following(f) \in FlitOf(p) /\ Following(f).at = 0
  <2>1. f.nr % Len(Headers[p]) \in Nat
    BY <1>1, <1>2
  <2>2. Following(f) = [from |-> p, nr |-> (f.nr % Len(Headers[p])) + 1, at |-> 0]
    BY <1>2, <1>4 DEF Following, Flit
  <2>3. QED
    BY <1>1, <2>1, <2>2 DEF FlitOf
<1>5. ASSUME ~IsTail(f) PROVE Following(f) \in FlitOf(p) /\ Following(f) = [f EXCEPT !.at = @ + 1]
                              /\ Following(f).at = f.at + 1
  <2>1. Following(f) = [f EXCEPT !.at = @ + 1]
    BY <1>5 DEF Following
  <2>2. f.at + 1 \in 0..Size[p] + 1
    BY <1>1, <1>2, <1>3, <1>5
  <2>3. QED
    BY <2>1, <2>2 DEF FlitOf
<1>6. QED
  BY <1>3, <1>4, <1>5

\* What comes to an input and what it sends next are flits of its packets.
LEMMA FrontType ==
    ASSUME SInv, Ordered, NEW p \in Port
    PROVE  Coming(p) \in FlitOf(p) /\ Front(p) \in FlitOf(p)
<1>1. data_in[p] \in FlitOf(p) /\ (rx[p] \/ first[p] # last[p] => p \in Entries)
  BY DEF Ordered
<1>2. Coming(p) \in FlitOf(p)
  BY <1>1, FollowingFacts DEF Coming, Stores
<1>3. first[p] # last[p] => first[p] \in Slot /\ Occupied(p, first[p])
  BY BufferAssumption DEF SInv, IInv, TypeOK, Slot, Occupied
<1>4. QED
  BY <1>2, <1>3 DEF Front, data, Ordered

\* The slots in use lie between the pointers.
LEMMA Slots ==
    ASSUME SInv, NEW p \in Port
    PROVE  /\ first[p] \in Slot /\ last[p] \in Slot /\ ~Occupied(p, last[p])
           /\ first[p] # last[p] => Occupied(p, first[p])
           /\ Succ(last[p]) # last[p]
           /\ \A i \in Slot : Succ(i) \in Slot /\ (Succ(i) = Succ(last[p]) => i = last[p])
<1>1. first[p] \in Slot /\ last[p] \in Slot
  BY DEF SInv, IInv, TypeOK
<1>2. QED
  BY <1>1, BufferAssumption DEF Slot, Occupied, Succ

\* A flit is offered by a queue that has it, for the output it is connected to; the
\* first offered is a header.
LEMMA SendsItsFront ==
    ASSUME SInv, Ordered, Offered, NEW p \in Port, data_av[p]
    PROVE  /\ first[p] # last[p] /\ Front(p) = data(p) /\ p \in Entries
           /\ EA_fila[p] \in {"S_SENDHEADER", "S_PAYLOAD"} /\ sender[p] /\ Holds(p)
<1>1. first[p] # last[p]
  BY DEF SInv, IInv, OffersWhatItHas
<1>2. EA_fila[p] \in {"S_SENDHEADER", "S_PAYLOAD"}
  BY DEF Offered
<1>3. sender[p]
  BY <1>2 DEF SInv, QueueStages
<1>4. QED
  BY <1>1, <1>2, <1>3 DEF Front, Holds, Ordered

\* A rising edge takes at most the front flit out of a queue, and the one after it
\* comes to the front.
LEMMA PosFront ==
    ASSUME SInv, Ordered, Offered, Pos, NEW p \in Port
    PROVE  /\ Coming(p)' = Coming(p)
           /\ Front(p)' = IF Sends(p) THEN Following(Front(p)) ELSE Front(p)
           /\ \A i \in Slot : Occupied(p, i)' => Occupied(p, i)
<1>1. /\ edge = "pos" /\ edge' = "neg" /\ last' = last /\ buffer_in' = buffer_in
      /\ first'[p] = IF Sends(p) THEN Succ(first[p]) ELSE first[p]
      /\ data_in'[p] = IF Stores(p) THEN Following(data_in[p]) ELSE data_in[p]
  BY DEF Pos, storage, out_proc_FSM, Upstream
<1>2. Coming(p)' = Coming(p)
  BY <1>1 DEF Coming
<1>3. CASE ~Sends(p)
  <2>1. Front(p)' = Front(p)
    BY <1>1, <1>2, <1>3 DEF Front, data
  <2>2. QED
    BY <1>1, <1>2, <1>3, <2>1 DEF Occupied
<1>4. CASE Sends(p)
  <2>1. first[p] # last[p] /\ Front(p) = data(p)
    BY <1>4, SendsItsFront DEF Sends, data_ack
  <2>2. first[p] \in Slot /\ last[p] \in Slot /\ Occupied(p, first[p])
    BY <2>1, Slots
  <2>3. (IF Succ(first[p]) = last[p] THEN Coming(p) ELSE buffer_in[p][Succ(first[p])])
            = Following(data(p))
    BY <2>2 DEF Ordered, data
  <2>4. Front(p)' = Following(Front(p))
    BY <1>1, <1>2, <1>4, <2>1, <2>3 DEF Front, data
  <2>5. first'[p] = Succ(first[p]) /\ last'[p] = last[p]
    BY <1>1, <1>4
  <2>6. \A i \in Slot : Occupied(p, i)' => Occupied(p, i)
    BY <2>1, <2>2, <2>5, BufferAssumption DEF Occupied, Slot, Succ
  <2>7. QED
    BY <1>2, <1>4, <2>4, <2>6
<1>5. QED
  BY <1>3, <1>4

\* The flits of a queue stay in their order when the first is sent.
LEMMA PosOrdered ==
    ASSUME SInv, Ordered, Offered, Pos
    PROVE  Ordered'
<1>1. /\ edge = "pos" /\ edge' = "neg" /\ last' = last /\ buffer_in' = buffer_in
      /\ \A p \in Port : first'[p] = IF Sends(p) THEN Succ(first[p]) ELSE first[p]
      /\ \A p \in Port : data_in'[p] = IF Stores(p) THEN Following(data_in[p]) ELSE data_in[p]
      /\ \A p \in Port : rx'[p] => p \in Entries \/ rx[p]
  BY DEF Pos, storage, out_proc_FSM, Upstream
<1>2. ASSUME NEW p \in Port
      PROVE  /\ data_in'[p] \in FlitOf(p)
             /\ rx'[p] \/ first'[p] # last'[p] => p \in Entries
             /\ \A i \in Slot : Occupied(p, i)' =>
                  /\ buffer_in'[p][i] \in FlitOf(p)
                  /\ (IF Succ(i) = last'[p] THEN Coming(p)' ELSE buffer_in'[p][Succ(i)])
                         = Following(buffer_in'[p][i])
  <2>1. data_in'[p] = Coming(p)
    BY <1>1 DEF Coming
  <2>2. Coming(p) \in FlitOf(p)
    BY FrontType
  <2>3. Sends(p) => first[p] # last[p]
    BY SendsItsFront DEF Sends, data_ack
  <2>4. rx[p] \/ first[p] # last[p] => p \in Entries
    BY DEF Ordered
  <2>5. \A i \in Slot : Occupied(p, i) =>
                  /\ buffer_in[p][i] \in FlitOf(p)
                  /\ (IF Succ(i) = last[p] THEN Coming(p) ELSE buffer_in[p][Succ(i)])
                         = Following(buffer_in[p][i])
    BY DEF Ordered
  <2>6. Coming(p)' = Coming(p) /\ \A i \in Slot : Occupied(p, i)' => Occupied(p, i)
    BY PosFront
  <2>7. QED
    BY <1>1, <2>1, <2>2, <2>3, <2>4, <2>5, <2>6
<1>3. QED
  BY <1>2 DEF Ordered, FlitOf

\* A falling edge changes no slot in use, and the front flit stays.
LEMMA NegFront ==
    ASSUME SInv, Ordered, Neg, NEW p \in Port
    PROVE  /\ first[p] # last[p] => data(p)' = data(p) /\ first'[p] # last'[p]
           /\ Front(p)' = Front(p)
<1>1. /\ edge = "neg" /\ edge' = "pos" /\ first' = first /\ data_in' = data_in
      /\ tem_espaco_na_fila' = tem_espaco_na_fila /\ rx' = rx
      /\ buffer_in'[p] = IF Stores(p) THEN [buffer_in[p] EXCEPT ![last[p]] = data_in[p]]
                                      ELSE buffer_in[p]
      /\ last'[p] = IF Stores(p) THEN Succ(last[p]) ELSE last[p]
  BY DEF Neg, queues, neighbours, in_proc_updPtr
<1>2. /\ first[p] \in Slot /\ last[p] \in Slot /\ Succ(last[p]) # last[p]
      /\ DOMAIN buffer_in[p] = Slot
  BY Slots DEF SInv, SwitchType
<1>3. last'[p] # last[p] => last'[p] # first[p]
  BY StoredInRoom DEF SInv
<1>4. first[p] # last[p] => data(p)' = data(p) /\ first'[p] # last'[p]
  BY <1>1, <1>2, <1>3 DEF data
<1>5. CASE first[p] # last[p]
  BY <1>4, <1>5 DEF Front
<1>6. CASE first[p] = last[p]
  <2>1. Front(p) = data_in[p]
    BY <1>1, <1>6 DEF Front, Coming
  <2>2. CASE Stores(p)
    <3>1. first'[p] # last'[p] /\ data(p)' = data_in[p]
      BY <1>1, <1>2, <1>6, <2>2 DEF data
    <3>2. QED
      BY <2>1, <3>1 DEF Front
  <2>3. CASE ~Stores(p)
    <3>1. ~Stores(p)' /\ first'[p] = last'[p]
      BY <1>1, <1>6, <2>3 DEF Stores
    <3>2. QED
      BY <1>1, <2>1, <3>1 DEF Front, Coming, Stores
  <2>4. QED
    BY <2>2, <2>3
<1>7. QED
  BY <1>4, <1>5, <1>6, <1>1 DEF Front

\* The flit that is stored follows the last one of the queue.
LEMMA NegOrdered ==
    ASSUME SInv, Ordered, Neg
    PROVE  Ordered'
<1>1. ASSUME NEW p \in Port
      PROVE  /\ data_in'[p] \in FlitOf(p)
             /\ rx'[p] \/ first'[p] # last'[p] => p \in Entries
             /\ \A i \in Slot : Occupied(p, i)' =>
                  /\ buffer_in'[p][i] \in FlitOf(p)
                  /\ (IF Succ(i) = last'[p] THEN Coming(p)' ELSE buffer_in'[p][Succ(i)])
                         = Following(buffer_in'[p][i])
  <2>1. /\ edge = "neg" /\ edge' = "pos" /\ first' = first /\ data_in' = data_in
        /\ tem_espaco_na_fila' = tem_espaco_na_fila /\ rx' = rx
        /\ buffer_in'[p] = IF Stores(p) THEN [buffer_in[p] EXCEPT ![last[p]] = data_in[p]]
                                        ELSE buffer_in[p]
        /\ last'[p] = IF Stores(p) THEN Succ(last[p]) ELSE last[p]
    BY DEF Neg, queues, neighbours, in_proc_updPtr
  <2>2. /\ data_in[p] \in FlitOf(p)
        /\ rx[p] \/ first[p] # last[p] => p \in Entries
        /\ \A i \in Slot : Occupied(p, i) =>
                  /\ buffer_in[p][i] \in FlitOf(p)
                  /\ (IF Succ(i) = last[p] THEN Coming(p) ELSE buffer_in[p][Succ(i)])
                         = Following(buffer_in[p][i])
    BY DEF Ordered
  <2>3. Coming(p) = data_in[p]
    BY <2>1 DEF Coming
  <2>4. /\ Stores(p)' <=> Stores(p)
        /\ Stores(p) => rx[p]
        /\ Coming(p)' = IF Stores(p) THEN Following(data_in[p]) ELSE data_in[p]
    BY <2>1 DEF Coming, Stores
  <2>5. CASE ~Stores(p)
    <3>1. buffer_in'[p] = buffer_in[p] /\ last'[p] = last[p] /\ Coming(p)' = Coming(p)
      BY <2>1, <2>3, <2>4, <2>5
    <3>2. QED
      BY <2>1, <2>2, <3>1 DEF Occupied
  <2>6. CASE Stores(p)
    <3>1. /\ first[p] \in Slot /\ last[p] \in Slot /\ ~Occupied(p, last[p])
          /\ Succ(last[p]) # last[p] /\ DOMAIN buffer_in[p] = Slot
          /\ \A i \in Slot : Succ(i) \in Slot /\ (Succ(i) = Succ(last[p]) => i = last[p])
      BY Slots DEF SInv, SwitchType
    <3>2. /\ last'[p] = Succ(last[p]) /\ last'[p] # first[p] /\ Coming(p)' = Following(data_in[p])
          /\ buffer_in'[p][last[p]] = data_in[p]
          /\ \A i \in Slot : i # last[p] => buffer_in'[p][i] = buffer_in[p][i]
      BY <2>1, <2>4, <2>6, <3>1, StoredInRoom DEF SInv
    <3>3. \A i \in Slot : Occupied(p, i)' => Occupied(p, i) \/ i = last[p]
      BY <2>1, <3>1, <3>2, BufferAssumption DEF Occupied, Succ, Slot
    <3>4. ASSUME NEW i \in Slot, Occupied(p, i)'
          PROVE  /\ buffer_in'[p][i] \in FlitOf(p)
                 /\ (IF Succ(i) = last'[p] THEN Coming(p)' ELSE buffer_in'[p][Succ(i)])
                        = Following(buffer_in'[p][i])
      <4>1. CASE i = last[p]
        BY <2>2, <3>2, <4>1
      <4>2. CASE i # last[p]
        <5>1. Occupied(p, i) /\ Succ(i) \in Slot /\ Succ(i) # last'[p]
          BY <3>1, <3>2, <3>3, <3>4, <4>2
        <5>2. buffer_in'[p][i] = buffer_in[p][i]
          BY <3>2, <4>2
        <5>3. buffer_in'[p][Succ(i)] = IF Succ(i) = last[p] THEN Coming(p) ELSE buffer_in[p][Succ(i)]
          BY <2>3, <3>2, <5>1
        <5>4. QED
          BY <2>2, <5>1, <5>2, <5>3
      <4>3. QED
        BY <4>1, <4>2
    <3>5. QED
      BY <2>1, <2>2, <2>4, <2>6, <3>4
  <2>7. QED
    BY <2>5, <2>6
<1>2. QED
  BY <1>1 DEF Ordered, FlitOf

\* A queue that sends counts what it sends.
LEMMA PosInPacket ==
    ASSUME SInv, Ordered, Offered, InPacket, Pos
    PROVE  InPacket'
<1> SUFFICES ASSUME NEW p \in Port
             PROVE  /\ EA_fila'[p] # "S_PAYLOAD" => Front(p)'.at = 0
                    /\ EA_fila'[p] \in {"S_HEADER", "S_SENDHEADER"} => counter_flit'[p] = 0
                    /\ EA_fila'[p] = "S_PAYLOAD" =>
                         /\ Front(p)'.at # 0
                         /\ counter_flit'[p] = IF Front(p)'.at = 1 THEN 0
                                               ELSE Size[p] + 2 - Front(p)'.at
  BY DEF InPacket
<1>1. EA_fila'[p] = NextFila(p) /\ counter_flit'[p] = Left(p)
  BY DEF Pos, out_proc_FSM
<1>2. EA_fila[p] \in FilaState /\ Size[p] \in Nat /\ Size[p] # 0
  BY PacketAssumption DEF SInv, IInv, TypeOK
<1>3. Front(p)' = IF Sends(p) THEN Following(Front(p)) ELSE Front(p)
  BY PosFront
<1>4. /\ EA_fila[p] # "S_PAYLOAD" => Front(p).at = 0
      /\ EA_fila[p] \in {"S_HEADER", "S_SENDHEADER"} => counter_flit[p] = 0
      /\ EA_fila[p] = "S_PAYLOAD" =>
           /\ Front(p).at # 0
           /\ counter_flit[p] = IF Front(p).at = 1 THEN 0 ELSE Size[p] + 2 - Front(p).at
  BY DEF InPacket
<1>5. Front(p).at \in 0..Size[p] + 1 /\ Front(p).from = p
  BY FrontType DEF FlitOf
<1>6. Sends(p) => /\ Front(p) = data(p) /\ EA_fila[p] \in {"S_SENDHEADER", "S_PAYLOAD"}
                  /\ Following(Front(p)).at = IF Front(p).at = Size[p] + 1 THEN 0 ELSE Front(p).at + 1
  BY SendsItsFront, FrontType, FollowingFacts DEF Sends, data_ack
<1>7. Front(p).at = 1 /\ Sends(p) => Word(data(p)) = Size[p]
  BY <1>5, <1>6 DEF Word
<1>8. CASE ~Sends(p)
  BY <1>1, <1>2, <1>3, <1>4, <1>8 DEF NextFila, Left, SendsTail, FilaState
<1>9. CASE Sends(p) /\ EA_fila[p] = "S_SENDHEADER"
  BY <1>1, <1>2, <1>3, <1>4, <1>6, <1>9 DEF NextFila, Left, SendsTail, FilaState
<1>10. CASE Sends(p) /\ EA_fila[p] = "S_PAYLOAD"
  <2>1. SendsTail(p) <=> Front(p).at = Size[p] + 1
    <3>1. PICK a : a = Front(p).at
      OBVIOUS
    <3>2. counter_flit[p] = (IF a = 1 THEN 0 ELSE Size[p] + 2 - a) /\ a \in 1..Size[p] + 1
      BY <1>2, <1>4, <1>5, <1>10, <3>1
    <3>3. counter_flit[p] = 1 <=> a = Size[p] + 1
      BY <1>2, <3>2
    <3>4. QED
      BY <1>10, <3>1, <3>3 DEF SendsTail
  <2>2. CASE SendsTail(p)
    BY <1>1, <1>3, <1>6, <1>10, <2>1, <2>2 DEF NextFila
  <2>3. CASE ~SendsTail(p)
    <3>1. EA_fila'[p] = "S_PAYLOAD" /\ Front(p)'.at = Front(p).at + 1 /\ Front(p).at \in 1..Size[p]
      BY <1>1, <1>3, <1>4, <1>5, <1>6, <1>10, <2>1, <2>3, <1>2 DEF NextFila
    <3>2. counter_flit'[p] = IF counter_flit[p] = 0 THEN Word(data(p)) ELSE counter_flit[p] - 1
      BY <1>1, <1>10, <2>3 DEF Left
    <3>3. CASE Front(p).at = 1
      BY <1>2, <1>4, <1>7, <1>10, <3>1, <3>2, <3>3
    <3>4. CASE Front(p).at # 1
      BY <1>2, <1>4, <1>10, <3>1, <3>2, <3>4
    <3>5. QED
      BY <3>3, <3>4
  <2>4. QED
    BY <2>2, <2>3
<1>11. QED
  BY <1>6, <1>8, <1>9, <1>10

\* The flit a queue sends is the tail when the counter says so.
LEMMA TailIsCounted ==
    ASSUME SInv, Ordered, Offered, InPacket, NEW p \in Port, Sends(p)
    PROVE  IsTail(data(p)) <=> SendsTail(p)
<1>1. /\ Front(p) = data(p) /\ p \in Entries /\ EA_fila[p] \in {"S_SENDHEADER", "S_PAYLOAD"}
      /\ Front(p) \in FlitOf(p)
  BY SendsItsFront, FrontType DEF Sends, data_ack
<1>2. Size[p] \in Nat /\ Size[p] # 0 /\ Front(p).at \in 0..Size[p] + 1
  BY <1>1, PacketAssumption DEF FlitOf
<1>3. IsTail(data(p)) <=> Front(p).at = Size[p] + 1
  BY <1>1, FollowingFacts
<1>4. CASE EA_fila[p] = "S_SENDHEADER"
  BY <1>2, <1>3, <1>4 DEF InPacket, SendsTail
<1>5. CASE EA_fila[p] = "S_PAYLOAD"
  <2>1. Front(p).at # 0
        /\ counter_flit[p] = IF Front(p).at = 1 THEN 0 ELSE Size[p] + 2 - Front(p).at
    BY <1>5 DEF InPacket
  <2>2. QED
    BY <1>2, <1>3, <1>5, <2>1 DEF SendsTail
<1>6. QED
  BY <1>1, <1>4, <1>5

\* A queue begins to offer with the grant and ends with the tail.
LEMMA PosOffered ==
    ASSUME SInv, Offered, Pos
    PROVE  Offered'
<1> SUFFICES ASSUME NEW p \in Port
             PROVE  /\ data_av'[p] => EA_fila'[p] \in {"S_SENDHEADER", "S_PAYLOAD"}
                    /\ EA_fila'[p] = "S_SENDHEADER" => data_av'[p]
  BY DEF Offered
<1>1. EA_fila'[p] = NextFila(p) /\ data_av'[p] = Offers(p)
  BY DEF Pos, out_proc_FSM
<1>2. EA_fila[p] \in FilaState /\ data_av[p] \in BOOLEAN
  BY DEF SInv, IInv, TypeOK
<1>3. /\ data_av[p] => EA_fila[p] \in {"S_SENDHEADER", "S_PAYLOAD"}
      /\ EA_fila[p] = "S_SENDHEADER" => data_av[p]
  BY DEF Offered
<1>4. CASE EA_fila[p] = "S_HEADER"
  BY <1>1, <1>4 DEF NextFila, Offers, Sends, SendsTail
<1>5. CASE EA_fila[p] = "S_SENDHEADER"
  BY <1>1, <1>3, <1>5 DEF NextFila, Offers, Sends, SendsTail
<1>6. CASE EA_fila[p] = "S_PAYLOAD"
  BY <1>1, <1>6 DEF NextFila, Offers, Sends, SendsTail
<1>7. CASE EA_fila[p] \in {"S_INIT", "S_END", "S_END2"}
  BY <1>1, <1>7 DEF NextFila, Offers, Sends, SendsTail
<1>8. QED
  BY <1>2, <1>4, <1>5, <1>6, <1>7 DEF FilaState

\* An output that is being freed offers nothing any more.
LEMMA FreedIsQuiet ==
    ASSUME SInv, Offered, TakenByHolder, Pos, NEW o \in Port, free'[o]
    PROVE  ~tx[o]
<1>1. tx[o] <=> ~free[o] /\ mux_out[o] # o /\ data_av[mux_out[o]]
  BY DEF TakenByHolder
<1>2. mux_out[o] \in Port
  BY DEF SInv, SwitchType
<1>3. CASE EA = "S0"
  <2>1. EA_fila[mux_out[o]] \in {"S_INIT", "S_HEADER"}
    BY <1>2, <1>3 DEF SInv, SwitchStages
  <2>2. QED
    BY <1>1, <1>2, <2>1 DEF Offered
<1>4. CASE Released(o)
  <2>1. ~sender[mux_out[o]] /\ sender_ant[mux_out[o]]
    BY <1>4, Connections
  <2>2. EA_fila[mux_out[o]] = "S_END"
    BY <1>2, <2>1 DEF SInv, QueueStages
  <2>3. QED
    BY <1>1, <1>2, <2>2 DEF Offered
<1>5. CASE free[o]
  BY <1>1, <1>5
<1>6. QED
  BY <1>3, <1>4, <1>5, Connections

\* An output that stays taken stays with its input, which is not done.
LEMMA StaysTaken ==
    ASSUME SInv, TakenByHolder, Pos, NEW o \in Port, ~free'[o], ~(Connects /\ o = Output)
    PROVE  /\ ~free[o] /\ mux_out'[o] = mux_out[o] /\ EA # "S0"
           /\ mux_out[o] \in Port /\ mux_in[mux_out[o]] = o /\ mux_in'[mux_out[o]] = o
           /\ Holds(mux_out[o]) /\ (sender[mux_out[o]] \/ ~sender_ant[mux_out[o]])
           /\ ~(Connects /\ mux_out[o] = sel)
<1> DEFINE p == mux_out[o]
<1>1. ~free[o] /\ EA # "S0" /\ ~Released(o)
  BY Connections
<1>2. p \in Port /\ sel \in Port /\ mux_in \in [Port -> Port] /\ mux_out \in [Port -> Port]
  BY DEF SInv, SwitchType
<1>3. Holds(p) /\ mux_in[p] = o
  BY <1>1 DEF TakenByHolder
<1>4. ~(Connects /\ p = sel)
  BY <1>3, Connections DEF Holds
<1>5. mux_out'[o] = p
  BY <1>1, <1>2, Connections
<1>6. mux_in'[p] = o
  BY <1>1, <1>2, <1>3, <1>4, Connections
<1>7. sender[p] \/ ~sender_ant[p]
  BY <1>1, <1>2, <1>6 DEF Released
<1>8. QED
  BY <1>1, <1>2, <1>3, <1>4, <1>5, <1>6, <1>7

\* An output that is taken is the one of its input, and passes on what that offers.
LEMMA PosTaken ==
    ASSUME SInv, Offered, TakenByHolder, Pos
    PROVE  TakenByHolder'
<1> SUFFICES ASSUME NEW o \in Port
             PROVE  /\ ~free'[o] => Holds(mux_out[o])' /\ mux_in'[mux_out'[o]] = o
                    /\ tx'[o] <=> ~free'[o] /\ mux_out'[o] # o /\ data_av'[mux_out'[o]]
  BY DEF TakenByHolder
<1>1. ASSUME ~free'[o] PROVE Holds(mux_out[o])' /\ mux_in'[mux_out'[o]] = o
  <2>1. CASE Connects /\ o = Output
    <3>1. /\ h[sel] /\ ~ack_h[sel] /\ Output \in Port /\ sel \in Port
          /\ mux_in' = [mux_in EXCEPT ![sel] = Output] /\ mux_out' = [mux_out EXCEPT ![Output] = sel]
          /\ mux_in \in [Port -> Port] /\ mux_out \in [Port -> Port]
      BY <2>1, Connections DEF SInv, SwitchType
    <3>2. EA_fila'[sel] = "S_HEADER"
      BY <3>1, RequestStays
    <3>3. ack_h'[sel]
      BY <2>1, <3>1 DEF Pos, controle_sequ, Connects, SInv, IInv, TypeOK
    <3>4. mux_out'[o] = sel /\ mux_in'[sel] = o
      BY <2>1, <3>1
    <3>5. QED
      BY <3>2, <3>3, <3>4 DEF Holds
  <2>2. CASE ~(Connects /\ o = Output)
    <3> DEFINE p == mux_out[o]
    <3>1. /\ mux_out'[o] = p /\ EA # "S0" /\ p \in Port /\ mux_in'[p] = o
          /\ Holds(p) /\ (sender[p] \/ ~sender_ant[p])
      BY <1>1, <2>2, StaysTaken
    <3>2. CASE sender[p]
      <4>1. sender_ant'[p]
        BY <3>1, <3>2 DEF Pos, controle_sequ
      <4>2. QED
        BY <3>1, <4>1 DEF Holds
    <3>3. CASE ack_h[p] /\ EA_fila[p] = "S_HEADER"
      <4>1. sender'[p]
        BY <3>1, <3>3 DEF Pos, out_proc_FSM, Granted
      <4>2. QED
        BY <3>1, <4>1 DEF Holds
    <3>4. QED
      BY <3>1, <3>2, <3>3 DEF Holds
  <2>3. QED
    BY <2>1, <2>2
<1>2. tx'[o] <=> mux_out'[o] # o /\ (IF free'[o] THEN tx[o] ELSE data_av'[mux_out'[o]])
  BY DEF Pos, upd_tx
<1>3. free'[o] => ~tx[o]
  BY FreedIsQuiet
<1>4. QED
  BY <1>1, <1>2, <1>3

\* The falling edge changes no connection.
LEMMA NegTaken ==
    ASSUME SInv, Offered, TakenByHolder, Neg
    PROVE  TakenByHolder' /\ Offered'
<1>1. /\ edge = "neg" /\ free' = free /\ mux_out' = mux_out /\ mux_in' = mux_in /\ tx' = tx
      /\ data_av' = data_av /\ sender' = sender /\ sender_ant' = sender_ant /\ ack_h' = ack_h
      /\ EA_fila' = EA_fila
  BY DEF Neg, queues, switch
<1>2. QED
  BY <1>1 DEF TakenByHolder, Offered, Holds

\* The header of a queue that waits for its output stays while the others move on.
LEMMA PosRouted ==
    ASSUME SInv, Routed, TakenByHolder, Pos
    PROVE  Routed'
<1>1. EA' = EA /\ buffer_in' = buffer_in /\ sel \in Port
      /\ \A p \in Port : ~Sends(p) => first'[p] = first[p]
  BY DEF Pos, storage, out_proc_FSM, SInv, SwitchType
<1>2. \A p \in Port : ~Sends(p) => data(p)' = data(p)
  BY <1>1 DEF data
<1>3. Connects => sel' = sel /\ data(sel)' = data(sel) /\ h[sel]
  <2>1. Connects => h[sel]
    BY Connections
  <2>2. Connects => ~Sends(sel)
    BY <2>1, <1>1 DEF Sends, SInv, QueueStages
  <2>3. Connects => sel' = sel
    BY DEF Pos, controle_sequ, Connects
  <2>4. QED
    BY <1>1, <1>2, <2>1, <2>2, <2>3
<1>4. ASSUME Connects' PROVE Output' = Route(header)'
  <2>1. Connects
    BY <1>1, <1>4 DEF Connects
  <2>2. header' = header
    BY <1>3, <2>1 DEF header, Target, data
  <2>3. Output' = Output
    BY <1>1, <2>2 DEF Output, dirx, diry
  <2>4. Route(header)' = Route(header)
    BY <2>2 DEF Route, IsAlongX, IsAlongY, dirx, diry, Here
  <2>5. QED
    BY <2>1, <2>3, <2>4 DEF Routed
<1>5. ASSUME NEW p \in Port, Holds(p)', EA_fila'[p] \in {"S_HEADER", "S_SENDHEADER"}
      PROVE  Route(Target(data(p)')) = mux_in'[p]
  <2>1. CASE Connects /\ p = sel
    <3>1. mux_in'[p] = Output
      BY <2>1, Connections DEF SInv, SwitchType
    <3>2. Output = Route(Target(data(p)))
      BY <2>1 DEF Routed, header
    <3>3. QED
      BY <1>3, <2>1, <3>1, <3>2
  <2>2. CASE ~(Connects /\ p = sel)
    <3>1. Holds(p)
      BY <1>5, <2>2, NewHolder
    <3>2. EA_fila'[p] = NextFila(p) /\ EA_fila[p] \in FilaState
      BY DEF Pos, out_proc_FSM, SInv, IInv, TypeOK
    <3>3. EA_fila[p] # "S_INIT"
      BY <3>1 DEF Holds, SInv, QueueStages, SwitchStages
    <3>4. EA_fila[p] \in {"S_HEADER", "S_SENDHEADER"} /\ ~Sends(p)
      BY <1>5, <3>2, <3>3 DEF NextFila, FilaState, Sends
    <3>5. mux_in'[p] = mux_in[p]
      BY <2>2, <3>1, <1>1, Connections DEF SInv, SwitchType
    <3>6. QED
      BY <1>2, <3>1, <3>4, <3>5 DEF Routed
  <2>3. QED
    BY <2>1, <2>2
<1>6. QED
  BY <1>4, <1>5 DEF Routed, Target

\* The switch control connects the queue it serves to where its header leads.
LEMMA NegRouted ==
    ASSUME SInv, Ordered, Offered, Routed, Neg
    PROVE  Routed'
<1>1. /\ mux_in' = mux_in /\ sender' = sender /\ sender_ant' = sender_ant /\ ack_h' = ack_h
      /\ EA_fila' = EA_fila /\ EA' = controle_comb /\ EA \in State
  BY DEF Neg, queues, switch, SInv, SwitchType
<1>2. ASSUME Connects' PROVE Output' = Route(header)'
  <2>1. EA = "S3" /\ EA' \in {"S4", "S5", "S6"}
    BY <1>1, <1>2 DEF controle_comb, Connects, State
  <2>2. header' = header
    BY <2>1, HeaderStays DEF SInv, SwitchStages
  <2>3. Route(header)' = Route(header)
    BY <2>2 DEF Route, IsAlongX, IsAlongY, dirx, diry, Here
  <2>4. QED
    BY <2>1, <2>3, RoutedOutput
<1>3. ASSUME NEW p \in Port, Holds(p), EA_fila[p] \in {"S_HEADER", "S_SENDHEADER"}
      PROVE  Route(Target(data(p)')) = mux_in[p]
  <2>1. first[p] # last[p]
    BY <1>3 DEF Offered, SInv, IInv, OffersWhatItHas
  <2>2. QED
    BY <1>3, <2>1, NegFront DEF Routed
<1>4. QED
  BY <1>1, <1>2, <1>3 DEF Routed, Holds, Target

\* What a queue sends is what its output passes on.
LEMMA SendsIsDelivers ==
    ASSUME SInv, Offered, TakenByHolder, NEW o \in Port
    PROVE  /\ Delivers(o) => ~free[o] /\ data_av[mux_out[o]] /\ mux_out[o] \in Port
                             /\ Sends(mux_out[o]) /\ mux_in[mux_out[o]] = o
           /\ ~free[o] /\ mux_in[mux_out[o]] = o /\ Sends(mux_out[o]) => Delivers(o)
<1> DEFINE p == mux_out[o]
<1>1. p \in Port
  BY DEF SInv, SwitchType
<1>2. tx[o] <=> ~free[o] /\ p # o /\ data_av[p]
  BY DEF TakenByHolder
<1>3. data_av[p] => EA_fila[p] \in {"S_SENDHEADER", "S_PAYLOAD"} /\ EA # "S0"
  BY <1>1 DEF Offered, SInv, SwitchStages
<1>4. ~free[o] /\ data_av[p] => mux_in[p] = o
  BY <1>3 DEF TakenByHolder
<1> HIDE DEF p
<1>5. Sends(p) <=> EA_fila[p] \in {"S_SENDHEADER", "S_PAYLOAD"} /\ mux_in[p] # p /\ data_av[p]
                   /\ credit_i[mux_in[p]]
  BY DEF Sends, data_ack
<1>6. Delivers(o) <=> tx[o] /\ credit_i[o]
  BY DEF Delivers
<1>7. QED
  BY <1>1, <1>2, <1>3, <1>4, <1>5, <1>6 DEF p

\* A rising edge takes from a queue the flit that has left.
LEMMA PosPassed ==
    ASSUME PInv, Pos
    PROVE  Passed'
<1>0. SInv /\ Ordered /\ InPacket /\ Offered /\ TakenByHolder /\ Passed
  BY DEF PInv
<1>1. edge = "pos" /\ edge' = "neg" /\ arrived' = arrived
      /\ \A p \in Port : EA_fila'[p] = NextFila(p) /\ EA_fila[p] \in FilaState
  BY <1>0 DEF Pos, out_proc_FSM, SInv, IInv, TypeOK
<1> SUFFICES ASSUME NEW o \in Port
             PROVE  IF ~free'[o] /\ EA_fila'[mux_out'[o]] = "S_PAYLOAD"
                    THEN ~IsTail(arrived[o]) /\ Front(mux_out[o])' = Following(arrived[o])
                    ELSE IsTail(arrived[o])
  BY <1>1 DEF Passed, IsTail, Following, Flit
<1>p. PICK p : p = mux_out[o]
  OBVIOUS
<1>2. IF Delivers(o) THEN arrived[o] = data(p)
      ELSE IF ~free[o] /\ EA_fila[p] = "S_PAYLOAD"
      THEN ~IsTail(arrived[o]) /\ Front(p) = Following(arrived[o])
      ELSE IsTail(arrived[o])
  BY <1>0, <1>1, <1>p DEF Passed
<1>3. p \in Port
  BY <1>0, <1>p DEF SInv, SwitchType
<1>4. CASE free'[o]
  <2>1. ~Delivers(o)
    BY <1>0, <1>4, FreedIsQuiet DEF Delivers
  <2>2. ~free[o] => EA_fila[p] # "S_PAYLOAD"
    <3>1. CASE EA = "S0"
      BY <1>0, <1>3, <3>1 DEF SInv, SwitchStages
    <3>2. CASE Released(o)
      BY <1>0, <1>3, <1>p, <3>2, Connections DEF SInv, QueueStages
    <3>3. QED
      BY <1>0, <1>4, <3>1, <3>2, Connections
  <2>3. QED
    BY <1>2, <1>4, <2>1, <2>2
<1>5. CASE ~free'[o] /\ Connects /\ o = Output
  <2>1. free[o] /\ mux_out'[o] = sel /\ h[sel] /\ ~ack_h[sel] /\ sel \in Port
    BY <1>0, <1>5, Connections DEF SInv, SwitchType
  <2>2. EA_fila'[sel] = "S_HEADER"
    BY <1>0, <2>1, RequestStays
  <2>3. ~Delivers(o)
    BY <1>0, <2>1, SendsIsDelivers
  <2>5. QED
    BY <1>2, <2>1, <2>2, <2>3
<1>6. CASE ~free'[o] /\ ~(Connects /\ o = Output)
  <2>1. ~free[o] /\ mux_out'[o] = p /\ mux_in[p] = o
    BY <1>0, <1>6, <1>p, StaysTaken
  <2>2. Delivers(o) <=> Sends(p)
    BY <1>0, <1>p, <2>1, SendsIsDelivers
  <2>3. Front(p)' = IF Sends(p) THEN Following(Front(p)) ELSE Front(p)
    BY <1>0, <1>3, PosFront
  <2>4. Front(mux_out[o])' = Front(p)'
    BY <2>1 DEF Front, Coming, Stores, data
  <2>5. CASE Sends(p)
    <3>1. arrived[o] = data(p) /\ Front(p) = data(p)
      BY <1>0, <1>2, <1>3, <2>2, <2>5, SendsItsFront DEF Sends, data_ack
    <3>2. IsTail(data(p)) <=> SendsTail(p)
      BY <1>0, <1>3, <2>5, TailIsCounted
    <3>3. EA_fila'[p] = "S_PAYLOAD" <=> ~SendsTail(p)
      BY <1>1, <1>3, <2>5 DEF NextFila, Sends, SendsTail
    <3>4. QED
      BY <1>6, <2>1, <2>3, <2>5, <2>4, <3>1, <3>2, <3>3
  <2>6. CASE ~Sends(p)
    <3>1. EA_fila'[p] = "S_PAYLOAD" <=> EA_fila[p] = "S_PAYLOAD"
      BY <1>1, <1>3, <2>6 DEF NextFila, SendsTail, FilaState
    <3>2. QED
      BY <1>2, <1>6, <2>1, <2>2, <2>3, <2>6, <2>4, <3>1
  <2>7. QED
    BY <2>5, <2>6
<1>7. QED
  BY <1>4, <1>5, <1>6

\* A falling edge passes on the flit that the queue offers.
LEMMA NegPassed ==
    ASSUME PInv, Neg
    PROVE  Passed'
<1>0. SInv /\ Ordered /\ Offered /\ TakenByHolder /\ Passed
  BY DEF PInv
<1>1. /\ edge = "neg" /\ edge' = "pos" /\ free' = free /\ mux_out' = mux_out /\ EA_fila' = EA_fila
      /\ tx' = tx /\ credit_i' = credit_i
      /\ \A o \in Port : arrived'[o] = IF Delivers(o) THEN data(mux_out[o]) ELSE arrived[o]
  BY DEF Neg, queues, switch, neighbours
<1>2. \A o \in Port : Delivers(o)' <=> Delivers(o)
  BY <1>1 DEF Delivers
<1>3. ASSUME NEW o \in Port
      PROVE  IF Delivers(o) THEN arrived'[o] = data(mux_out[o])'
             ELSE IF ~free[o] /\ EA_fila[mux_out[o]] = "S_PAYLOAD"
             THEN ~IsTail(arrived'[o]) /\ Front(mux_out[o])' = Following(arrived'[o])
             ELSE IsTail(arrived'[o])
  <2>p. PICK p : p = mux_out[o]
    OBVIOUS
  <2>1. p \in Port
    BY <1>0, <2>p DEF SInv, SwitchType
  <2>2. CASE Delivers(o)
    <3>1. first[p] # last[p]
      BY <1>0, <2>p, <2>2, SendsIsDelivers, SendsItsFront
    <3>2. data(mux_out[o])' = data(p)
      BY <1>0, <1>1, <2>p, <2>1, <3>1, NegFront DEF data
    <3>3. QED
      BY <1>1, <2>p, <2>2, <3>2
  <2>3. CASE ~Delivers(o)
    <3>1. Front(mux_out[o])' = Front(p)
      <4>1. \A q \in Port : Front(q)' = Front(q)
        BY <1>0, NegFront
      <4>2. Front(mux_out[o])' = Front(p)'
        BY <1>1, <2>p DEF Front, Coming, data, Stores
      <4>3. QED
        BY <2>1, <4>1, <4>2
    <3>2. QED
      BY <1>0, <1>1, <2>p, <2>3, <3>1 DEF Passed
  <2>4. QED
    BY <2>2, <2>3
<1>4. QED
  BY <1>1, <1>2, <1>3 DEF Passed, IsTail, Following, Flit

\* At first the queues are empty, and nothing has been sent.
LEMMA InitPInv == Init => PInv
<1> SUFFICES ASSUME Init PROVE PInv
  OBVIOUS
<1>1. SInv
  BY InitSInv
<1>2. \A p \in Port : /\ first[p] = last[p] /\ ~rx[p] /\ ~Stores(p) /\ Coming(p) = Flit(p, 1, 0)
                      /\ Front(p) = Flit(p, 1, 0) /\ data_in[p] = Flit(p, 1, 0)
  BY DEF Init, Coming, Front, Stores
<1>3. \A p \in Port : Flit(p, 1, 0) \in FlitOf(p) /\ Flit(p, 1, 0).at = 0
  BY PacketAssumption DEF Flit, FlitOf
<1>4. Ordered
  <2>1. \A p \in Port : \A i \in Slot : ~Occupied(p, i)
    BY <1>2 DEF Occupied, Slot, Init
  <2>2. QED
    BY <1>2, <1>3, <2>1 DEF Ordered
<1>5. InPacket
  BY <1>2, <1>3 DEF InPacket, Init
<1>6. Offered /\ TakenByHolder
  BY DEF Init, Offered, TakenByHolder, Port
<1>7. Routed
  BY DEF Init, Routed, Connects, Holds
<1>8. Passed
  <2>1. \A o \in Port : arrived[o] = Flit(LOCAL_PORT, 1, Size[LOCAL_PORT] + 1)
                        /\ EA_fila[mux_out[o]] = "S_INIT" /\ ~Delivers(o)
    BY DEF Init, Port, Delivers
  <2>2. IsTail(Flit(LOCAL_PORT, 1, Size[LOCAL_PORT] + 1))
    BY DEF IsTail, Flit
  <2>3. QED
    BY <2>1, <2>2 DEF Passed
<1>9. QED
  BY <1>1, <1>4, <1>5, <1>6, <1>7, <1>8 DEF PInv

\* The falling edge does not change what a queue counts.
LEMMA NegInPacket ==
    ASSUME SInv, Ordered, InPacket, Neg
    PROVE  InPacket'
<1>1. EA_fila' = EA_fila /\ counter_flit' = counter_flit
  BY DEF Neg, queues
<1>2. \A p \in Port : Front(p)' = Front(p)
  BY NegFront
<1>3. QED
  BY <1>1, <1>2 DEF InPacket

\* All of it after any step.
LEMMA NextPInv == PInv /\ [Next]_vars => PInv'
<1> SUFFICES ASSUME PInv, [Next]_vars PROVE PInv'
  OBVIOUS
<1>1. SInv'
  BY NextSInv DEF PInv
<1>2. CASE Pos
  BY <1>1, <1>2, PosOrdered, PosInPacket, PosOffered, PosTaken, PosRouted, PosPassed DEF PInv
<1>3. CASE Neg
  BY <1>1, <1>3, NegOrdered, NegInPacket, NegTaken, NegRouted, NegPassed DEF PInv
<1>4. CASE UNCHANGED vars
  <2>1. Ordered' /\ InPacket' /\ Offered'
    BY <1>4 DEF vars, storage, queues, switch, neighbours, PInv, Ordered, InPacket, Offered, Front,
                Coming, Stores, Occupied, data, FlitOf
  <2>2. TakenByHolder'
    BY <1>4 DEF vars, storage, queues, switch, neighbours, PInv, TakenByHolder, Holds
  <2>3. Routed'
    <3>1. header' = header /\ (Connects' <=> Connects)
      BY <1>4 DEF vars, storage, queues, switch, Connects, header, data, Target
    <3>2. Output' = Output /\ Route(header)' = Route(header)
      BY <1>4, <3>1 DEF vars, Output, Route, IsAlongX, IsAlongY, dirx, diry, Here
    <3>3. \A p \in Port : data(p)' = data(p) /\ (Holds(p)' <=> Holds(p)) /\ EA_fila'[p] = EA_fila[p]
                         /\ mux_in'[p] = mux_in[p]
      BY <1>4 DEF vars, storage, queues, switch, data, Holds
    <3>4. QED
      BY <3>1, <3>2, <3>3 DEF PInv, Routed, Target
  <2>4. Passed'
    BY <1>4 DEF vars, storage, queues, switch, neighbours, PInv, Passed, Delivers, IsTail,
                Front, Coming, Stores, data, Following, Flit
  <2>5. QED
    BY <1>1, <2>1, <2>2, <2>3, <2>4 DEF PInv
<1>5. QED
  BY <1>2, <1>3, <1>4 DEF Next

\* What leaves an output is whole packets, whatever the other inputs ask, the packets
\* are and the neighbours pause: a header that leads there, then the flits of its packet
\* in their order to the tail, none lost, none twice.
THEOREM PacketsStayWhole == Spec => WholePackets
<1> DEFINE Follows == \A o \in Port : (edge = "neg" /\ Delivers(o)) =>
                         LET f == data(mux_out[o])
                             e == arrived[o]
                         IN  IF IsTail(e) THEN f.at = 0 /\ Route(Target(f)) = o
                             ELSE f = [e EXCEPT !.at = @ + 1]
<1>1. Init => PInv
  BY InitPInv
<1>2. PInv /\ [Next]_vars => PInv'
  BY NextPInv
<1>3. ASSUME PInv PROVE Follows
  <2> SUFFICES ASSUME NEW o \in Port, edge = "neg", Delivers(o)
               PROVE  IF IsTail(arrived[o])
                      THEN data(mux_out[o]).at = 0 /\ Route(Target(data(mux_out[o]))) = o
                      ELSE data(mux_out[o]) = [arrived[o] EXCEPT !.at = @ + 1]
    OBVIOUS
  <2> DEFINE p == mux_out[o]
  <2>0. SInv /\ Ordered /\ InPacket /\ Offered /\ TakenByHolder /\ Routed /\ Passed
    BY <1>3 DEF PInv
  <2>1. ~free[o] /\ data_av[p] /\ p \in Port /\ mux_in[p] = o
    BY <2>0, SendsIsDelivers
  <2>2. Front(p) = data(p) /\ EA_fila[p] \in {"S_SENDHEADER", "S_PAYLOAD"} /\ Holds(p)
    BY <2>0, <2>1, SendsItsFront
  <2>3. IF EA_fila[p] = "S_PAYLOAD" THEN ~IsTail(arrived[o]) /\ Front(p) = Following(arrived[o])
        ELSE IsTail(arrived[o])
    BY <2>0, <2>1 DEF Passed
  <2>4. CASE EA_fila[p] = "S_PAYLOAD"
    BY <2>2, <2>3, <2>4 DEF Following
  <2>5. CASE EA_fila[p] = "S_SENDHEADER"
    <3>1. IsTail(arrived[o]) /\ data(p).at = 0
      BY <2>0, <2>1, <2>2, <2>3, <2>5 DEF InPacket
    <3>2. Route(Target(data(p))) = o
      BY <2>0, <2>1, <2>2, <2>5 DEF Routed
    <3>3. QED
      BY <3>1, <3>2
  <2>6. QED
    BY <2>2, <2>4, <2>5
<1> HIDE DEF Follows
<1>4. PInv /\ [Next]_vars => [Follows]_vars
  BY <1>3
<1>5. Spec => [][Follows]_vars
  BY <1>1, <1>2, <1>4, PTL DEF Spec
<1>6. QED
  BY <1>5 DEF WholePackets, Follows

=============================================================================
