-------------------------------- MODULE Router --------------------------------
(***************************************************************************)
(* The packet-switching router (hardware/sc/pe/PS_router): an input queue  *)
(* per port, the switch control that connects one queue at a time to an    *)
(* output port, and the crossbar between them.                             *)
(*                                                                         *)
(* A clock cycle is two steps. Pos is the rising edge: every process that  *)
(* is sensitive to it reads the signals as they were before the edge. Neg  *)
(* is the falling edge, on which the queues store and the switch control   *)
(* changes state. Combinational signals are operators over the registers.  *)
(* A flit is known by its packet and by its place in it: 0 is the header,  *)
(* 1 the size of the payload.                                              *)
(***************************************************************************)
EXTENDS Integers, Sequences

CONSTANTS
    BUFFER_TAM,     \* slots of an input queue
    Address,        \* [x, y] of this router
    Headers,        \* per input port, the headers [x, y, io] that enter there, over and over
    Size,           \* per input port, the payload flits of its packets
    Lazy,           \* the input ports where the neighbour may pause between flits
    Destination     \* the output ports whose far side may run out of room

\* The queue closes at BUFFER_TAM - 2 flits and opens again at exactly 2.
ASSUME BufferAssumption == BUFFER_TAM \in Nat /\ BUFFER_TAM >= 5

EAST == 0
WEST == 1
NORTH == 2
SOUTH == 3
LOCAL_PORT == 4
Port == 0..4
NoIO == 5           \* io_dir of a header that is not for a peripheral

\* The packets of the kernel all begin with the words of a service.
ASSUME PacketAssumption ==
    /\ Headers \in [Port -> Seq([x : Int, y : Int, io : 0..NoIO])]
    /\ Size \in [Port -> Nat \ {0}]

Slot == 0..(BUFFER_TAM - 1)
Succ(i) == IF i = BUFFER_TAM - 1 THEN 0 ELSE i + 1

\* The flit at place i of the nr-th packet of port p.
Flit(p, nr, i) == [from |-> p, nr |-> nr, at |-> i]
Target(f) == Headers[f.from][f.nr]
IsTail(f) == f.at = Size[f.from] + 1
Following(f) ==
    IF IsTail(f) THEN Flit(f.from, (f.nr % Len(Headers[f.from])) + 1, 0) ELSE [f EXCEPT !.at = @ + 1]
Zero == Flit(LOCAL_PORT, 1, 0)
\* What the queue reads in a flit when it takes it for the size.
Word(f) == IF f.at = 1 THEN Size[f.from] ELSE 1

VARIABLES
    edge,                                           \* the edge that comes next
    buffer_in, first, last, tem_espaco_na_fila,     \* the queues
    EA_fila, h, data_av, sender, counter_flit,
    EA, sel, ack_h, free, sender_ant, mux_in, mux_out,  \* the switch control
    tx,                                             \* the crossbar
    rx, data_in, credit_i,                          \* the neighbours
    arrived                                         \* last flit that left, per output

storage == <<buffer_in, last>>
queues == <<first, tem_espaco_na_fila, EA_fila, h, data_av, sender, counter_flit>>
switch == <<sel, ack_h, free, sender_ant, mux_in, mux_out>>
neighbours == <<rx, data_in, credit_i>>
vars == <<edge, storage, queues, EA, switch, tx, neighbours, arrived>>

State == {"S0", "S1", "S2", "S3", "S4", "S5", "S6", "S7"}
FilaState == {"S_INIT", "S_HEADER", "S_SENDHEADER", "S_PAYLOAD", "S_END", "S_END2"}
Entries == {p \in Port : Headers[p] # <<>>}

-----------------------------------------------------------------------------
(* The crossbar *)

data(p) == buffer_in[p][first[p]]

\* upd_dataack: a flit moves when it is offered and the far side has room.
data_ack(p) == mux_in[p] # p /\ data_av[p] /\ credit_i[mux_in[p]]

\* upd_tx: a free output keeps what it had.
upd_tx ==
    tx' = [o \in Port |-> /\ mux_out'[o] # o
                          /\ IF free'[o] THEN tx[o] ELSE data_av'[mux_out'[o]]]

-----------------------------------------------------------------------------
(* The input queues *)

\* Comparisons of the pointers as the code makes them, not modulo the size.
FullWithoutWrap(p) == first[p] = last[p] + 2 \/ first[p] = last[p] + 1   \* mutant of Full
Full(p) ==
    \/ first[p] = 0 /\ last[p] = BUFFER_TAM - 2
    \/ first[p] = last[p] + 2
    \/ first[p] = last[p] + 1
TwoWithoutWrap(p) == last[p] - first[p] = 2     \* mutant of HasTwo
HasTwo(p) == last[p] - first[p] = 2 \/ first[p] - last[p] = BUFFER_TAM - 2

\* Whether there is room is decided on the rising edge and kept in between.
in_proc_FSM ==
    tem_espaco_na_fila' =
        [p \in Port |-> ~Full(p) /\ (HasTwo(p) \/ tem_espaco_na_fila[p])]

\* On the falling edge the queue takes the flit that is offered.
Stores(p) == tem_espaco_na_fila[p] /\ rx[p]
in_proc_updPtr ==
    /\ buffer_in' = [p \in Port |-> IF Stores(p) THEN [buffer_in[p] EXCEPT ![last[p]] = data_in[p]]
                                                 ELSE buffer_in[p]]
    /\ last' = [p \in Port |-> IF Stores(p) THEN Succ(last[p]) ELSE last[p]]

Sends(p) == EA_fila[p] \in {"S_SENDHEADER", "S_PAYLOAD"} /\ data_ack(p)
SendsTail(p) == Sends(p) /\ EA_fila[p] = "S_PAYLOAD" /\ counter_flit[p] = 1
Granted(p) == EA_fila[p] = "S_HEADER" /\ ack_h[p]

NextFila(p) ==
    CASE EA_fila[p] = "S_INIT" -> IF first[p] # last[p] THEN "S_HEADER" ELSE "S_INIT"
      [] EA_fila[p] = "S_HEADER" -> IF ack_h[p] THEN "S_SENDHEADER" ELSE "S_HEADER"
      [] EA_fila[p] = "S_SENDHEADER" -> IF Sends(p) THEN "S_PAYLOAD" ELSE "S_SENDHEADER"
      [] EA_fila[p] = "S_PAYLOAD" -> IF SendsTail(p) THEN "S_END" ELSE "S_PAYLOAD"
      [] EA_fila[p] = "S_END" -> "S_END2"
      [] EA_fila[p] = "S_END2" -> "S_INIT"

\* A flit is offered while there is one, from the grant to the tail.
Offers(p) ==
    CASE EA_fila[p] = "S_HEADER" -> ack_h[p]
      [] Sends(p) -> ~SendsTail(p) /\ Succ(first[p]) # last[p]
      [] EA_fila[p] = "S_PAYLOAD" /\ ~Sends(p) -> data_av[p] \/ first[p] # last[p]
      [] EA_fila[p] = "S_SENDHEADER" /\ ~Sends(p) -> data_av[p]
      [] OTHER -> FALSE

\* What is left of the packet: the flit after the header gives its length.
Left(p) ==
    CASE EA_fila[p] = "S_INIT" -> 0
      [] EA_fila[p] = "S_PAYLOAD" /\ Sends(p) /\ ~SendsTail(p) ->
            IF counter_flit[p] = 0 THEN Word(data(p)) ELSE counter_flit[p] - 1
      [] OTHER -> counter_flit[p]

out_proc_FSM ==
    /\ EA_fila' = [p \in Port |-> NextFila(p)]
    /\ first' = [p \in Port |-> IF Sends(p) THEN Succ(first[p]) ELSE first[p]]
    /\ data_av' = [p \in Port |-> Offers(p)]
    /\ counter_flit' = [p \in Port |-> Left(p)]
    /\ h' = [p \in Port |-> IF EA_fila[p] = "S_INIT" THEN first[p] # last[p] ELSE h[p] /\ ~Granted(p)]
    /\ sender' = [p \in Port |-> Granted(p) \/ (sender[p] /\ ~SendsTail(p))]

-----------------------------------------------------------------------------
(* The switch control *)

\* Round robin: the requests are looked at from the port after sel.
prox ==
    IF \E p \in Port : h[p]
    THEN (sel + CHOOSE k \in 1..5 : /\ h[(sel + k) % 5]
                                    /\ \A j \in 1..(k - 1) : ~h[(sel + j) % 5]) % 5
    ELSE sel

header == Target(data(sel))
Here(hd) == hd.x = Address.x /\ hd.y = Address.y
dirx(hd) == IF Address.x > hd.x \/ hd.io = WEST THEN WEST ELSE EAST
diry(hd) == IF Address.y < hd.y \/ hd.io = NORTH THEN NORTH ELSE SOUTH

\* XY routing, and the port of the peripheral at the router it is attached to.
IsAlongX(hd) == IF Here(hd) THEN hd.io \in {EAST, WEST} ELSE hd.x # Address.x
IsAlongY(hd) == IF Here(hd) THEN hd.io \in {NORTH, SOUTH} ELSE hd.x = Address.x
Route(hd) == CASE IsAlongX(hd) -> dirx(hd) [] IsAlongY(hd) -> diry(hd) [] OTHER -> LOCAL_PORT

Connects == EA \in {"S4", "S5", "S6"}
Output == CASE EA = "S4" -> LOCAL_PORT [] EA = "S5" -> dirx(header) [] EA = "S6" -> diry(header)

\* Mutant of controle_comb: the output is not asked for.
ConnectsAnyway ==
    CASE EA = "S1" -> IF \E p \in Port : h[p] THEN "S2" ELSE "S1"
      [] EA = "S2" -> "S3"
      [] EA = "S3" -> IF IsAlongX(header) THEN "S5" ELSE IF IsAlongY(header) THEN "S6" ELSE "S4"
      [] Connects -> "S7"
      [] EA \in {"S0", "S7"} -> "S1"

controle_comb ==
    CASE EA = "S1" -> IF \E p \in Port : h[p] THEN "S2" ELSE "S1"
      [] EA = "S2" -> "S3"
      [] EA = "S3" -> IF ~free[Route(header)] THEN "S1"
                      ELSE IF IsAlongX(header) THEN "S5"
                      ELSE IF IsAlongY(header) THEN "S6" ELSE "S4"
      [] Connects -> "S7"
      [] EA \in {"S0", "S7"} -> "S1"

\* The queue that was connected to an output has sent its tail one edge ago.
Released(o) == \E p \in Port : ~sender[p] /\ sender_ant[p] /\ mux_in'[p] = o

controle_sequ ==
    /\ sel' = CASE EA = "S0" -> 0 [] EA = "S2" -> prox [] OTHER -> sel
    /\ ack_h' = CASE EA \in {"S0", "S1"} -> [p \in Port |-> FALSE]
                  [] EA = "S2" -> ack_h
                  [] OTHER -> [ack_h EXCEPT ![sel] = Connects]
    /\ mux_in' = CASE EA = "S0" -> [p \in Port |-> 0]
                   [] Connects -> [mux_in EXCEPT ![sel] = Output]
                   [] OTHER -> mux_in
    /\ mux_out' = CASE EA = "S0" -> [o \in Port |-> 0]
                    [] Connects -> [mux_out EXCEPT ![Output] = sel]
                    [] OTHER -> mux_out
    /\ sender_ant' = IF EA = "S0" THEN [p \in Port |-> FALSE] ELSE sender
    /\ free' = [o \in Port |-> \/ EA = "S0" \/ Released(o)
                               \/ free[o] /\ ~(Connects /\ o = Output)]

-----------------------------------------------------------------------------
(* The neighbours: routers with the same queues, and the DMNI at the local port *)

\* A flit is offered until there was room for it; the next one may take its time.
Upstream ==
    /\ data_in' = [p \in Port |-> IF Stores(p) THEN Following(data_in[p]) ELSE data_in[p]]
    /\ \E pauses \in SUBSET Lazy :
           rx' = [p \in Port |-> p \in Entries \ pauses \/ (rx[p] /\ ~Stores(p))]

\* Room is only lost to a flit that came.
Downstream ==
    \E gives \in SUBSET Destination :
        credit_i' = [o \in Port |-> o \in gives \cup (Port \ Destination) \/ (credit_i[o] /\ ~tx[o])]

Delivers(o) == tx[o] /\ credit_i[o]

-----------------------------------------------------------------------------
Init ==
    /\ edge = "pos"
    /\ buffer_in = [p \in Port |-> [i \in Slot |-> Zero]]
    /\ first = [p \in Port |-> 0]
    /\ last = [p \in Port |-> 0]
    /\ tem_espaco_na_fila = [p \in Port |-> TRUE]
    /\ EA_fila = [p \in Port |-> "S_INIT"]
    /\ h = [p \in Port |-> FALSE]
    /\ data_av = [p \in Port |-> FALSE]
    /\ sender = [p \in Port |-> FALSE]
    /\ counter_flit = [p \in Port |-> 0]
    /\ EA = "S0"
    /\ sel = 0
    /\ ack_h = [p \in Port |-> FALSE]
    /\ free = [o \in Port |-> FALSE]
    /\ sender_ant = [p \in Port |-> FALSE]
    /\ mux_in = [p \in Port |-> 0]
    /\ mux_out = [o \in Port |-> 0]
    /\ tx = [o \in Port |-> FALSE]
    /\ rx = [p \in Port |-> FALSE]
    /\ data_in = [p \in Port |-> Flit(p, 1, 0)]
    /\ credit_i = [o \in Port |-> TRUE]
    /\ arrived = [o \in Port |-> Flit(LOCAL_PORT, 1, Size[LOCAL_PORT] + 1)]

Pos ==
    /\ edge = "pos"
    /\ edge' = "neg"
    /\ in_proc_FSM
    /\ out_proc_FSM
    /\ controle_sequ
    /\ upd_tx
    /\ Upstream
    /\ Downstream
    /\ UNCHANGED <<storage, EA, arrived>>

Neg ==
    /\ edge = "neg"
    /\ edge' = "pos"
    /\ in_proc_updPtr
    /\ EA' = controle_comb
    /\ arrived' = [o \in Port |-> IF Delivers(o) THEN data(mux_out[o]) ELSE arrived[o]]
    /\ UNCHANGED <<queues, switch, tx, neighbours>>

Next == Pos \/ Neg

Spec == Init /\ [][Next]_vars

\* The clock runs; a packet that has begun goes on, and room comes back.
FairSpec ==
    /\ Spec
    /\ WF_vars(Next)
    /\ \A p \in Entries : []<>rx[p]
    /\ \A o \in Destination : []<>credit_i[o]

-----------------------------------------------------------------------------
(* Properties *)

TypeOK ==
    /\ edge \in {"pos", "neg"}
    /\ first \in [Port -> Slot] /\ last \in [Port -> Slot]
    /\ tem_espaco_na_fila \in [Port -> BOOLEAN]
    /\ EA_fila \in [Port -> FilaState]
    /\ data_av \in [Port -> BOOLEAN] /\ ack_h \in [Port -> BOOLEAN]

\* A queue never fills up to the slot it reads from: with equal pointers it would
\* pass for empty and lose BUFFER_TAM flits. The room is decided half a cycle
\* before it is used, from pointers that are not compared modulo the size.
NeverFull == [][\A p \in Port : last'[p] # last[p] => last'[p] # first[p]]_vars

\* An output passes whole packets: a header that leads there, then the flits of the
\* same packet in their order, whatever the other inputs ask in the meantime.
WholePackets ==
    [][\A o \in Port : (edge = "neg" /\ Delivers(o)) =>
          LET f == data(mux_out[o])
              e == arrived[o]
          IN  IF IsTail(e) THEN f.at = 0 /\ Route(Target(f)) = o
              ELSE f = [e EXCEPT !.at = @ + 1]]_vars

\* A queue that sends has an output of its own, which is not free and listens to it.
OwnOutput ==
    \A p \in Port : sender[p] => /\ mux_out[mux_in[p]] = p
                                 /\ ~free[mux_in[p]]

\* Every header that asks gets its way and its packet passes to the tail: no output
\* stays taken, no queue stays closed. (With a third input, the polling of the
\* requests and the packets of the two others can fall into step: see the README.)
PacketsPass == \A p \in Entries : h[p] ~> (sender[p] /\ SendsTail(p))

=============================================================================
