--------------------------- MODULE NoCManagerProofs ---------------------------
(***************************************************************************)
(* Proof that the token of the NoC manager exists once: for any number of  *)
(* clusters, subnets and pairs, and whatever paths are found, the cluster  *)
(* the coordinator has recorded, and no other, is master, about to get the *)
(* token or has just given it back.                                        *)
(*                                                                         *)
(* A turn of a controller calls handlers that call each other, so the      *)
(* proof follows the state s of the turn. Most handlers are neutral: they  *)
(* neither make nor end a master and send no message about the token. For  *)
(* the others, Only says at whose cluster the one sign of the token is.    *)
(***************************************************************************)
EXTENDS NoCManager, SequenceTheorems, TLAPS

Kinds == {"TOKEN_REQUEST", "TOKEN_GRANT", "TOKEN_RELEASE"}

IsQueue(q) == \E S : q \in Seq(S)
Places(q, type) == {i \in DOMAIN q : q[i].type = type}

\* The state of a turn is a record, and what it sends are sequences.
Shape(s) ==
    /\ {"k", "token", "fifo", "out", "halt"} \subseteq DOMAIN s
    /\ "status" \in DOMAIN s.k
    /\ s.fifo \in Seq(Cluster)
    /\ DOMAIN s.out = Cluster /\ \A d \in Cluster : IsQueue(s.out[d])

\* From s to r nothing happens to the token.
Neutral(s, r) ==
    /\ Shape(r)
    /\ r.token = s.token /\ r.fifo = s.fifo
    /\ (r.k.status = "GLOBAL_MASTER") <=> (s.k.status = "GLOBAL_MASTER")
    /\ \A d \in Cluster : \A type \in Kinds : Places(r.out[d], type) = Places(s.out[d], type)

-----------------------------------------------------------------------------
(* Queues *)

\* What an append does to the places of a type.
LEMMA AppendPlaces ==
    ASSUME NEW q, IsQueue(q), NEW m, NEW type
    PROVE  /\ IsQueue(Append(q, m))
           /\ Places(Append(q, m), type) =
                  Places(q, type) \cup (IF m.type = type THEN {Len(q) + 1} ELSE {})
           /\ Len(q) + 1 \notin Places(q, type)
<1>1. PICK S : q \in Seq(S)
  BY DEF IsQueue
<1>2. q \in Seq(S \cup {m})
  BY <1>1, SeqMonotonic
<1>3. /\ Append(q, m) \in Seq(S \cup {m})
      /\ Len(Append(q, m)) = Len(q) + 1
      /\ \A i \in 1 .. Len(q) : Append(q, m)[i] = q[i]
      /\ Append(q, m)[Len(q) + 1] = m
  BY <1>2, AppendProperties
<1>4. /\ DOMAIN q = 1 .. Len(q) /\ Len(q) \in Nat
      /\ DOMAIN Append(q, m) = 1 .. (Len(q) + 1)
  BY <1>2, <1>3, LenProperties
<1>5. QED
  BY <1>3, <1>4 DEF IsQueue, Places

LEMMA AppendOther ==
    ASSUME NEW q, IsQueue(q), NEW m, m.type \notin Kinds
    PROVE  /\ IsQueue(Append(q, m))
           /\ \A type \in Kinds : Places(Append(q, m), type) = Places(q, type)
<1>1. ASSUME NEW type \in Kinds PROVE Places(Append(q, m), type) = Places(q, type)
  <2>1. m.type # type
    OBVIOUS
  <2>2. Places(Append(q, m), type) = Places(q, type) \cup {}
    BY <2>1, AppendPlaces
  <2>3. QED BY <2>2
<1>2. QED BY <1>1, AppendPlaces

\* The places of a concatenation.
LEMMA ConcatPlaces ==
    ASSUME NEW q, IsQueue(q), NEW r, IsQueue(r), NEW type
    PROVE  /\ IsQueue(q \o r) /\ Len(q) \in Nat
           /\ Places(q \o r, type) = Places(q, type) \cup {Len(q) + i : i \in Places(r, type)}
           /\ Places(q, type) \subseteq 1 .. Len(q) /\ Places(r, type) \subseteq 1 .. Len(r)
           /\ Len(r) \in Nat
<1>1. PICK S : q \in Seq(S)
  BY DEF IsQueue
<1>2. PICK R : r \in Seq(R)
  BY DEF IsQueue
<1>3. q \in Seq(S \cup R) /\ r \in Seq(S \cup R)
  BY <1>1, <1>2, SeqMonotonic
<1>4. /\ q \o r \in Seq(S \cup R)
      /\ Len(q \o r) = Len(q) + Len(r)
      /\ \A i \in 1 .. Len(q) + Len(r) : (q \o r)[i] = IF i <= Len(q) THEN q[i] ELSE r[i - Len(q)]
  BY <1>3, ConcatProperties
<1>5. /\ DOMAIN q = 1 .. Len(q) /\ Len(q) \in Nat
      /\ DOMAIN r = 1 .. Len(r) /\ Len(r) \in Nat
      /\ DOMAIN (q \o r) = 1 .. (Len(q) + Len(r))
  BY <1>3, <1>4, LenProperties
<1>6. ASSUME NEW i \in Places(q \o r, type)
      PROVE  i \in Places(q, type) \cup {Len(q) + j : j \in Places(r, type)}
  <2>1. CASE i <= Len(q)
    BY <1>4, <1>5, <1>6, <2>1 DEF Places
  <2>2. CASE i > Len(q)
    <3>1. i - Len(q) \in Places(r, type) /\ i = Len(q) + (i - Len(q))
      BY <1>4, <1>5, <1>6, <2>2 DEF Places
    <3>2. QED BY <3>1
  <2>3. QED BY <1>5, <1>6, <2>1, <2>2 DEF Places
<1>7. ASSUME NEW i \in Places(q, type) PROVE i \in Places(q \o r, type)
  BY <1>4, <1>5 DEF Places
<1>8. ASSUME NEW j \in Places(r, type) PROVE Len(q) + j \in Places(q \o r, type)
  BY <1>4, <1>5 DEF Places
<1>9. QED BY <1>4, <1>5, <1>6, <1>7, <1>8 DEF IsQueue, Places

\* Taking the head moves the others one place on.
LEMMA TailPlaces ==
    ASSUME NEW q, IsQueue(q), q # <<>>, NEW type
    PROVE  /\ IsQueue(Tail(q))
           /\ Places(Tail(q), type) = {i - 1 : i \in Places(q, type) \ {1}}
           /\ 1 \in Places(q, type) <=> Head(q).type = type
           /\ Places(q, type) \subseteq Nat \ {0}
<1>1. PICK S : q \in Seq(S)
  BY DEF IsQueue
<1>2. /\ Tail(q) \in Seq(S) /\ Head(q) = q[1]
      /\ Len(Tail(q)) = Len(q) - 1 /\ Len(q) \in Nat \ {0}
      /\ \A i \in 1 .. Len(Tail(q)) : Tail(q)[i] = q[i + 1]
  BY <1>1, HeadTailProperties, LenProperties, EmptySeq
<1>3. /\ DOMAIN q = 1 .. Len(q) /\ DOMAIN Tail(q) = 1 .. (Len(q) - 1)
  BY <1>1, <1>2, LenProperties
<1>4. ASSUME NEW i \in Places(Tail(q), type) PROVE i \in {j - 1 : j \in Places(q, type) \ {1}}
  <2>1. i + 1 \in Places(q, type) \ {1} /\ i = (i + 1) - 1
    BY <1>2, <1>3 DEF Places
  <2>2. QED BY <2>1
<1>5. ASSUME NEW j \in Places(q, type) \ {1} PROVE j - 1 \in Places(Tail(q), type)
  <2>1. j \in 2 .. Len(q) /\ q[j].type = type
    BY <1>2, <1>3 DEF Places
  <2>2. j - 1 \in 1 .. Len(Tail(q)) /\ Tail(q)[j - 1] = q[j]
    BY <1>2, <2>1
  <2>3. QED BY <1>2, <1>3, <2>1, <2>2 DEF Places
<1>6. QED BY <1>2, <1>3, <1>4, <1>5 DEF IsQueue, Places

-----------------------------------------------------------------------------
(* Neutral handlers *)

LEMMA NeutralSelf ==
    ASSUME NEW s, Shape(s)
    PROVE  Neutral(s, s)
BY DEF Neutral

LEMMA NeutralTwice ==
    ASSUME NEW s, NEW r, NEW q, Neutral(s, r), Neutral(r, q)
    PROVE  Neutral(s, q)
BY DEF Neutral

\* What changes neither the token nor what is sent.
LEMMA NeutralLike ==
    ASSUME NEW s, Shape(s), NEW r, DOMAIN r = DOMAIN s,
           r.token = s.token, r.fifo = s.fifo, r.out = s.out,
           DOMAIN r.k = DOMAIN s.k,
           (r.k.status = "GLOBAL_MASTER") <=> (s.k.status = "GLOBAL_MASTER")
    PROVE  Neutral(s, r)
BY DEF Neutral, Shape

\* A message that is not about the token.
LEMMA NeutralSend ==
    ASSUME NEW s, Shape(s), NEW d, NEW m, m.type \notin Kinds
    PROVE  Neutral(s, send(s, d, m))
<1> DEFINE r == send(s, d, m)
<1>1. /\ DOMAIN r = DOMAIN s /\ r.k = s.k /\ r.token = s.token /\ r.fifo = s.fifo
      /\ DOMAIN r.out = Cluster /\ (d \in Cluster => r.out[d] = Append(s.out[d], m))
      /\ \A e \in Cluster : e # d => r.out[e] = s.out[e]
  BY DEF send, Shape
<1>2. \A e \in Cluster : IsQueue(s.out[e])
  BY DEF Shape
<1>3. ASSUME d \in Cluster
      PROVE  IsQueue(r.out[d]) /\ \A type \in Kinds : Places(r.out[d], type) = Places(s.out[d], type)
  <2>1. IsQueue(s.out[d]) /\ r.out[d] = Append(s.out[d], m)
    BY <1>1, <1>2, <1>3
  <2>2. QED BY <2>1, AppendOther
<1>4. QED BY <1>1, <1>2, <1>3 DEF Neutral, Shape

LEMMA NeutralSendAll ==
    ASSUME NEW s, Shape(s), NEW to, NEW msg, \A d \in Cluster : d \in to => msg[d].type \notin Kinds
    PROVE  Neutral(s, SendAll(s, to, msg))
<1> DEFINE r == SendAll(s, to, msg)
<1>1. /\ DOMAIN r = DOMAIN s /\ r.k = s.k /\ r.token = s.token /\ r.fifo = s.fifo
      /\ DOMAIN r.out = Cluster
      /\ \A d \in Cluster : r.out[d] = IF d \in to THEN Append(s.out[d], msg[d]) ELSE s.out[d]
  BY DEF SendAll, Shape
<1>2. ASSUME NEW d \in Cluster
      PROVE  IsQueue(r.out[d]) /\ \A type \in Kinds : Places(r.out[d], type) = Places(s.out[d], type)
  <2>1. IsQueue(s.out[d])
    BY DEF Shape
  <2>2. CASE d \in to
    <3>1. msg[d].type \notin Kinds
      BY <2>2
    <3>2. QED BY <1>1, <2>1, <2>2, <3>1, AppendOther
  <2>3. QED BY <1>1, <2>1, <2>2
<1>3. QED BY <1>1, <1>2 DEF Neutral, Shape

LEMMA NeutralHalt ==
    ASSUME NEW s, Shape(s)
    PROVE  Neutral(s, Halt(s)) /\ Halt(s).halt = TRUE
BY NeutralLike DEF Halt, Shape

LEMMA NeutralAnswer ==
    ASSUME NEW s, Shape(s), NEW pair, NEW subnet
    PROVE  Neutral(s, send_ack_requester(s, pair, subnet))
BY NeutralLike DEF send_ack_requester, Shape

LEMMA NeutralBorders ==
    ASSUME NEW s, Shape(s), NEW c
    PROVE  Neutral(s, build_border_status(s, c))
BY NeutralLike DEF build_border_status, Shape

LEMMA NeutralPorts ==
    ASSUME NEW s, Shape(s), NEW n, NEW out, NEW used
    PROVE  Neutral(s, SetPorts(s, n, out, used)) /\ Neutral(s, Halt(SetPorts(s, n, out, used)))
<1>1. PICK u : u = s.k.subnet_utilization[n] + used
  OBVIOUS
<1>2. PICK k : k = [s.k EXCEPT !.subnet_utilization = [s.k.subnet_utilization EXCEPT ![n] = u]]
  OBVIOUS
<1>3. PICK cs : cs = [r \in Router |-> [s.cs[r] EXCEPT ![n] = out[r]]]
  OBVIOUS
<1>4. PICK r : r = [s EXCEPT !.cs = cs, !.k = k]
  OBVIOUS
<1>5. r = SetPorts(s, n, out, used)
  BY <1>1, <1>2, <1>3, <1>4 DEF SetPorts
<1>6. DOMAIN k = DOMAIN s.k /\ k.status = s.k.status
  BY <1>2 DEF Shape
<1>7. DOMAIN r = DOMAIN s /\ r.token = s.token /\ r.fifo = s.fifo /\ r.out = s.out /\ r.k = k
  BY <1>4 DEF Shape
<1>8. Neutral(s, r)
  BY <1>6, <1>7, NeutralLike
<1>9. Neutral(r, Halt(r))
  BY <1>8, NeutralHalt DEF Neutral
<1>10. Neutral(s, Halt(r))
  BY <1>8, <1>9, NeutralTwice
<1>11. QED BY <1>5, <1>8, <1>10

LEMMA NeutralConfigure ==
    ASSUME NEW s, Shape(s), NEW c, NEW n, NEW plist, NEW beg, NEW end
    PROVE  Neutral(s, Configure(s, c, n, plist, beg, end))
<1>1. ASSUME NEW hops PROVE Neutral(s, Occupy(s, n, hops))
  BY NeutralPorts DEF Occupy
<1>2. QED BY <1>1 DEF Configure

LEMMA NeutralRelease ==
    ASSUME NEW s, Shape(s), NEW c, NEW src, NEW inport, NEW tgt, NEW n
    PROVE  Neutral(s, CS_connection_release(s, c, src, inport, tgt, n).s)
<1>1. ASSUME NEW stops PROVE Neutral(s, GiveBack(s, c, n, tgt, stops).s)
  BY NeutralPorts DEF GiveBack
<1>2. QED BY <1>1 DEF CS_connection_release

LEMMA NeutralUse ==
    ASSUME NEW s, Shape(s), NEW c, NEW src, NEW tgt, NEW n, NEW plist
    PROVE  Neutral(s, UsePath(s, c, src, tgt, n, plist))
<1>1. PICK q : q = [s EXCEPT !.k.subnet_selector = n]
  OBVIOUS
<1>2. Neutral(s, q)
  BY <1>1, NeutralLike DEF Shape
<1>3. PICK r : r = Configure(q, c, n, plist, "LOCAL_IN", "LOCAL_OUT")
  OBVIOUS
<1>4. Neutral(q, r)
  BY <1>2, <1>3, NeutralConfigure DEF Neutral
<1>5. Neutral(r, send_ack_requester(r, <<src, tgt>>, n))
  BY <1>4, NeutralAnswer DEF Neutral
<1>6. QED BY <1>1, <1>2, <1>3, <1>4, <1>5, NeutralTwice DEF UsePath

\* A circuit inside the cluster.
LEMMA NeutralLocal ==
    ASSUME NEW s, Shape(s), NEW c, NEW req
    PROVE  Neutral(s, new_local_path(s, c, req))
<1>1. ASSUME NEW src, NEW tgt, NEW paths PROVE Neutral(s, UseFirst(s, c, src, tgt, paths))
  BY NeutralUse, NeutralAnswer DEF UseFirst
<1>2. Neutral(s, CS_connection_setup(s, c, req.source, req.target))
  BY <1>1 DEF CS_connection_setup
<1>3. PICK r : r = CS_connection_release(s, c, req.source, "LOCAL_IN", req.target, req.subnet)
  OBVIOUS
<1>4. Neutral(s, r.s)
  BY <1>3, NeutralRelease
<1>5. Neutral(r.s, send_ack_requester(r.s, <<req.source, req.target>>, req.subnet))
  BY <1>4, NeutralAnswer DEF Neutral
<1>6. Neutral(s, send_ack_requester(r.s, <<req.source, req.target>>, req.subnet))
  BY <1>4, <1>5, NeutralTwice
<1>7. QED BY <1>2, <1>3, <1>6, NeutralHalt DEF new_local_path

\* The search of a part of a path.
LEMMA NeutralRouting ==
    ASSUME NEW s, Shape(s), NEW c, NEW req, NEW entry, NEW exit
    PROVE  Neutral(s, detailed_routing(s, c, req, entry, exit).s)
<1>1. ASSUME NEW search PROVE Neutral(s, Searched(s, search).s)
  BY NeutralLike DEF Searched, Shape
<1>2. ASSUME NEW n, NEW src, NEW tgt
      PROVE  Neutral(s, RouteBetween(s, c, n, src, tgt, entry, exit).s)
  BY <1>1, NeutralSelf DEF RouteBetween
<1>3. QED BY <1>2 DEF detailed_routing

LEMMA NeutralNote ==
    ASSUME NEW s, Shape(s), NEW c, NEW from, NEW found
    PROVE  Neutral(s, NoteResponse(s, c, from, found))
<1>1. PICK off : off = {from} \cup (IF from \in {c, s.k.cluster_path[1].router}
                                    THEN {s.k.cluster_path[1].router} ELSE {})
  OBVIOUS
<1>2. PICK a : a = IF found THEN s.k.available
                   ELSE [d \in Cluster |-> IF d \in off
                            THEN [s.k.available[d] EXCEPT ![s.k.request.subnet] = FALSE]
                            ELSE s.k.available[d]]
  OBVIOUS
<1>3. NoteResponse(s, c, from, found) =
          [s EXCEPT !.k = [s.k EXCEPT !.counter = s.k.counter + 1,
                                      !.all_ok = s.k.all_ok /\ found, !.available = a]]
  BY <1>1, <1>2 DEF NoteResponse
<1>4. PICK k : k = [s.k EXCEPT !.counter = s.k.counter + 1,
                               !.all_ok = s.k.all_ok /\ found, !.available = a]
  OBVIOUS
<1>5. DOMAIN k = DOMAIN s.k /\ k.status = s.k.status
  BY <1>4 DEF Shape
<1>6. Neutral(s, [s EXCEPT !.k = k])
  BY <1>5, NeutralLike DEF Shape
<1>7. QED BY <1>3, <1>4, <1>6

LEMMA NeutralModeRelease ==
    ASSUME NEW s, Shape(s), NEW c, NEW ok
    PROVE  Neutral(s, send_global_mode_release(s, c, ok))
<1> DEFINE on(d) == ok /\ d \in On(s.k.cluster_path)
           part(d) == PartOf(s.k.cluster_path, d)
           msg == [d \in Cluster \ {c} |->
                      IF on(d) THEN [type |-> "GLOBAL_MODE_RELEASE", configure |-> TRUE,
                                     inport |-> part(d).inport, outport |-> part(d).outport,
                                     subnet |-> s.k.request.subnet]
                      ELSE [type |-> "GLOBAL_MODE_RELEASE", configure |-> FALSE]]
<1>1. PICK q : q = [s EXCEPT !.k.counter = 1]
  OBVIOUS
<1>2. Neutral(s, q)
  BY <1>1, NeutralLike DEF Shape
<1>3. \A d \in Cluster : d \in Cluster \ {c} => msg[d].type \notin Kinds
  BY DEF Kinds
<1>4. PICK told : told = SendAll(q, Cluster \ {c}, msg)
  OBVIOUS
<1>5. Neutral(q, told)
  <2> HIDE DEF msg
  <2> QED BY <1>2, <1>3, <1>4, NeutralSendAll DEF Neutral
<1>6. Neutral(s, told)
  BY <1>2, <1>5, NeutralTwice
<1>7. ASSUME NEW n, NEW plist, NEW beg, NEW end
      PROVE  Neutral(s, Configure(told, c, n, plist, beg, end)) /\ Neutral(s, Halt(told))
  <2>1. Shape(told)
    BY <1>6 DEF Neutral
  <2>2. Neutral(told, Configure(told, c, n, plist, beg, end)) /\ Neutral(told, Halt(told))
    BY <2>1, NeutralConfigure, NeutralHalt
  <2>3. QED BY <1>6, <2>2, NeutralTwice
<1>8. send_global_mode_release(s, c, ok) =
          IF ~ok THEN told
          ELSE IF ~on(c) THEN Halt(told)
          ELSE Configure(told, c, s.k.request.subnet, s.k.plist, part(c).inport, part(c).outport)
  BY <1>1, <1>4 DEF send_global_mode_release
<1>9. QED BY <1>6, <1>7, <1>8

LEMMA NeutralAsk ==
    ASSUME NEW s, Shape(s), NEW c, NEW req, NEW path
    PROVE  Neutral(s, AskParts(s, c, req, path))
<1> DEFINE known == [d \in On(path) |-> s.k.border[d][req.subnet]]
           ask(d) == [type |-> "DETAILED_ROUTING_REQUEST", request |-> req, known |-> known,
                      entry |-> PartOf(path, d).inport, exit |-> PartOf(path, d).outport]
           msg == [d \in On(path) |-> ask(d)]
<1>1. PICK q : q = [s EXCEPT !.k.request = req, !.k.cluster_path = path,
                             !.k.path_size = Len(path), !.k.counter = 0]
  OBVIOUS
<1>2. Neutral(s, q)
  <2>1. PICK k : k = [s.k EXCEPT !.request = req, !.cluster_path = path,
                                 !.path_size = Len(path), !.counter = 0]
    OBVIOUS
  <2>2. DOMAIN k = DOMAIN s.k /\ k.status = s.k.status
    BY <2>1 DEF Shape
  <2>3. q = [s EXCEPT !.k = k]
    BY <1>1, <2>1
  <2>4. QED BY <2>2, <2>3, NeutralLike DEF Shape
<1>3. \A d \in Cluster : d \in On(path) \ {c} => msg[d].type \notin Kinds
  BY DEF Kinds
<1>4. Neutral(q, SendAll(q, On(path) \ {c}, msg))
  <2> HIDE DEF msg
  <2> QED BY <1>2, <1>3, NeutralSendAll DEF Neutral
<1>5. AskParts(s, c, req, path) = SendAll(q, On(path) \ {c}, msg)
  BY <1>1 DEF AskParts
<1>6. QED BY <1>2, <1>4, <1>5, NeutralTwice

\* The search of a path of clusters.
LEMMA NeutralGlobal ==
    ASSUME NEW s, Shape(s), NEW c
    PROVE  Neutral(s, global_routing(s, c))
<1>1. ASSUME NEW req, NEW path PROVE Neutral(s, RouteParts(s, c, req, path))
  <2>1. PICK q : q = AskParts(s, c, req, path)
    OBVIOUS
  <2>2. PICK r : r = detailed_routing(q, c, req, PartOf(path, c).inport, PartOf(path, c).outport)
    OBVIOUS
  <2>3. Neutral(s, q)
    BY <2>1, NeutralAsk
  <2>4. Neutral(q, r.s)
    BY <2>2, <2>3, NeutralRouting DEF Neutral
  <2>5. Neutral(r.s, NoteOwn(c, r))
    BY <2>4, NeutralNote DEF NoteOwn, Neutral
  <2>6. RouteParts(s, c, req, path) = NoteOwn(c, r)
    BY <2>1, <2>2 DEF RouteParts
  <2>7. QED BY <2>3, <2>4, <2>5, <2>6, NeutralTwice
<1>2. ASSUME NEW n PROVE Neutral(s, RouteIn(s, c, n))
  BY <1>1 DEF RouteIn
<1>3. PICK q : q = [s EXCEPT !.k.request.subnet = NoSubnet]
  OBVIOUS
<1>4. Neutral(s, q)
  BY <1>3, NeutralLike DEF Shape
<1>5. Neutral(q, send_global_mode_release(q, c, FALSE))
  <2>1. Shape(q)
    BY <1>4 DEF Neutral
  <2>2. QED BY <2>1, NeutralModeRelease
<1>6. ASSUME NEW paths PROVE Neutral(s, RouteBest(s, c, paths))
  BY <1>2, <1>3, <1>4, <1>5, NeutralTwice DEF RouteBest
<1>7. QED BY <1>6 DEF global_routing

\* A release of a circuit that crosses clusters.
LEMMA NeutralPath ==
    ASSUME NEW s, Shape(s), NEW c, NEW inport, NEW src, NEW tgt, NEW number, NEW coord, NEW n
    PROVE  Neutral(s, global_path_release(s, c, inport, src, tgt, number, coord, n))
<1>1. ASSUME NEW r, Shape(r.s) PROVE Neutral(r.s, PassOn(r, c, tgt, number, coord, n))
  <2>1. PICK p : p = IF ClusterOf(r.gone.router) = c THEN r.s
                     ELSE send(r.s, ClusterOf(r.gone.router),
                               [type |-> "LOCAL_RELEASE_REQUEST", inport |-> r.gone.inport,
                                source |-> r.gone.router, target |-> tgt, number |-> number + 1,
                                coordinator |-> coord, subnet |-> n])
    OBVIOUS
  <2>2. ASSUME NEW m, m.type = "LOCAL_RELEASE_REQUEST", NEW d PROVE Neutral(r.s, send(r.s, d, m))
    BY <1>1, <2>2, NeutralSend DEF Kinds
  <2>3. Neutral(r.s, p)
    BY <1>1, <2>1, <2>2, NeutralSelf
  <2>4. Neutral(p, send(p, coord, [type |-> "LOCAL_RELEASE_ACK", number |-> number]))
    BY <2>3, NeutralSend DEF Neutral, Kinds
  <2>5. Neutral(r.s, send(p, coord, [type |-> "LOCAL_RELEASE_ACK", number |-> number]))
    BY <2>3, <2>4, NeutralTwice
  <2>6. QED BY <2>1, <2>3, <2>5 DEF PassOn
<1>2. PICK q : q = [s EXCEPT !.k.path_size = 0]
  OBVIOUS
<1>3. Neutral(s, q)
  BY <1>2, NeutralLike DEF Shape
<1>4. PICK r : r = CS_connection_release(q, c, src, inport, tgt, n)
  OBVIOUS
<1>5. Neutral(q, r.s)
  BY <1>3, <1>4, NeutralRelease DEF Neutral
<1>6. Neutral(r.s, PassOn(r, c, tgt, number, coord, n))
  BY <1>1, <1>5 DEF Neutral
<1>7. Neutral(s, PassOn(r, c, tgt, number, coord, n))
  BY <1>3, <1>5, <1>6, NeutralTwice
<1>8. QED BY <1>2, <1>4, <1>7, NeutralHalt DEF global_path_release

\* The borders of the other controllers are asked for.
LEMMA NeutralAskBorders ==
    ASSUME NEW s, Shape(s), NEW c
    PROVE  Neutral(s, send_update_border_request(s, c))
<1> DEFINE msg == [d \in Cluster \ {c} |-> [type |-> "UPDATE_BORDER_REQUEST"]]
<1>1. PICK b : b = build_border_status(s, c)
  OBVIOUS
<1>2. PICK q : q = [b EXCEPT !.k.counter = 1]
  OBVIOUS
<1>3. Neutral(s, b)
  BY <1>1, NeutralBorders
<1>4. Neutral(b, q)
  BY <1>2, <1>3, NeutralLike DEF Neutral, Shape
<1>5. \A d \in Cluster : d \in Cluster \ {c} => msg[d].type \notin Kinds
  BY DEF Kinds
<1>6. Neutral(q, SendAll(q, Cluster \ {c}, msg))
  <2> HIDE DEF msg
  <2> QED BY <1>4, <1>5, NeutralSendAll DEF Neutral
<1>7. send_update_border_request(s, c) = SendAll(q, Cluster \ {c}, msg)
  BY <1>1, <1>2 DEF send_update_border_request
<1>8. QED BY <1>3, <1>4, <1>6, <1>7, NeutralTwice

\* A controller that becomes a slave was no master, and tells its borders.
LEMMA NeutralBorderRequest ==
    ASSUME NEW s, Shape(s), NEW c, NEW from
    PROVE  Neutral(s, handle_update_border_request(s, c, from))
<1>1. PICK b : b = build_border_status(s, c)
  OBVIOUS
<1>2. PICK q : q = [b EXCEPT !.k.status = "GLOBAL_SLAVE"]
  OBVIOUS
<1>3. Neutral(s, b)
  BY <1>1, NeutralBorders
<1>4. ASSUME s.k.status = "IDLE" PROVE Neutral(b, q)
  BY <1>2, <1>3, <1>4, NeutralLike DEF Neutral, Shape
<1>5. ASSUME NEW m, m.type = "UPDATE_BORDER_ACK", Shape(q) PROVE Neutral(q, send(q, from, m))
  BY <1>5, NeutralSend DEF Kinds
<1>6. ASSUME NEW m, m.type = "UPDATE_BORDER_ACK", s.k.status = "IDLE"
      PROVE  Neutral(s, send(q, from, m))
  <2>1. Neutral(s, q)
    BY <1>3, <1>4, <1>6, NeutralTwice
  <2>2. Neutral(q, send(q, from, m))
    BY <1>5, <1>6, <2>1 DEF Neutral
  <2>3. QED BY <2>1, <2>2, NeutralTwice
<1>7. handle_update_border_request(s, c, from) =
          IF s.k.status # "IDLE" THEN Halt(s)
          ELSE send(q, from, [type |-> "UPDATE_BORDER_ACK", border |-> b.k.border[c],
                              utilization |-> s.k.subnet_utilization])
  BY <1>1, <1>2 DEF handle_update_border_request
<1>8. QED BY <1>6, <1>7, NeutralHalt

LEMMA NeutralBorderAck ==
    ASSUME NEW s, Shape(s), NEW c, NEW from, NEW msg
    PROVE  Neutral(s, handle_update_border_ack(s, c, from, msg))
<1>1. PICK k1 : k1 = [s.k EXCEPT !.utilization[from] = msg.utilization,
                                 !.border[from] = msg.border, !.counter = @ + 1]
  OBVIOUS
<1>2. DOMAIN k1 = DOMAIN s.k /\ k1.status = s.k.status
  BY <1>1 DEF Shape
<1>3. PICK s1 : s1 = [s EXCEPT !.k = k1]
  OBVIOUS
<1>4. Neutral(s, s1)
  BY <1>2, <1>3, NeutralLike DEF Shape
<1>5. NoteBorder(s, from, msg) = s1
  BY <1>1, <1>3 DEF NoteBorder
<1>6. PICK k2 : k2 = [s1.k EXCEPT
                          !.utilization[c] = [n \in Subnet |-> @[n] + s1.k.subnet_utilization[n]],
                          !.available = [d \in Cluster |-> [n \in Subnet |-> TRUE]],
                          !.attempts = 1]
  OBVIOUS
<1>7. DOMAIN k2 = DOMAIN s1.k /\ k2.status = s1.k.status
  BY <1>4, <1>6 DEF Neutral, Shape
<1>8. PICK s2 : s2 = [s1 EXCEPT !.k = k2]
  OBVIOUS
<1>9. Neutral(s1, s2)
  BY <1>4, <1>7, <1>8, NeutralLike DEF Neutral, Shape
<1>10. Neutral(s2, global_routing(s2, c))
  BY <1>9, NeutralGlobal DEF Neutral
<1>11. RouteGlobally(s1, c) = global_routing(s2, c)
  BY <1>6, <1>8 DEF RouteGlobally
<1>12. Neutral(s, RouteGlobally(s1, c))
  BY <1>4, <1>9, <1>10, <1>11, NeutralTwice
<1>13. QED BY <1>4, <1>5, <1>12 DEF handle_update_border_ack

LEMMA NeutralRoutingRequest ==
    ASSUME NEW s, Shape(s), NEW c, NEW from, NEW msg
    PROVE  Neutral(s, handle_detailed_routing_request(s, c, from, msg))
<1>1. PICK b : b = [d \in Cluster |->
                        IF d \in DOMAIN msg.known
                        THEN [s.k.border[d] EXCEPT ![msg.request.subnet] = msg.known[d]]
                        ELSE s.k.border[d]]
  OBVIOUS
<1>2. PICK s1 : s1 = [s EXCEPT !.k.border = b]
  OBVIOUS
<1>3. Neutral(s, s1)
  BY <1>2, NeutralLike DEF Shape
<1>4. PICK r : r = detailed_routing(s1, c, msg.request, msg.entry, msg.exit)
  OBVIOUS
<1>5. Neutral(s1, r.s)
  BY <1>3, <1>4, NeutralRouting DEF Neutral
<1>6. Neutral(r.s, send(r.s, from, [type |-> "DETAILED_ROUTING_RESPONSE", found |-> r.found,
                                    entry |-> msg.entry]))
  BY <1>5, NeutralSend DEF Neutral, Kinds
<1>7. handle_detailed_routing_request(s, c, from, msg) =
          send(r.s, from, [type |-> "DETAILED_ROUTING_RESPONSE", found |-> r.found,
                           entry |-> msg.entry])
  BY <1>1, <1>2, <1>4 DEF handle_detailed_routing_request
<1>8. QED BY <1>3, <1>5, <1>6, <1>7, NeutralTwice

LEMMA NeutralRoutingResponse ==
    ASSUME NEW s, Shape(s), NEW c, NEW from, NEW found
    PROVE  Neutral(s, handle_detailed_routing_response(s, c, from, found))
<1>1. PICK s1 : s1 = NoteResponse(s, c, from, found)
  OBVIOUS
<1>2. Neutral(s, s1)
  BY <1>1, NeutralNote
<1>3. Neutral(s1, send_global_mode_release(s1, c, TRUE))
  <2>1. Shape(s1)
    BY <1>2 DEF Neutral
  <2>2. QED BY <2>1, NeutralModeRelease
<1>4. PICK k : k = [s1.k EXCEPT !.all_ok = TRUE, !.attempts = 2]
  OBVIOUS
<1>5. PICK s2 : s2 = [s1 EXCEPT !.k = k]
  OBVIOUS
<1>6. Neutral(s1, s2)
  <2>1. DOMAIN k = DOMAIN s1.k /\ k.status = s1.k.status
    BY <1>2, <1>4 DEF Neutral, Shape
  <2>2. QED BY <1>2, <1>5, <2>1, NeutralLike DEF Neutral, Shape
<1>7. Neutral(s2, global_routing(s2, c))
  BY <1>6, NeutralGlobal DEF Neutral
<1>8. handle_detailed_routing_response(s, c, from, found) =
          IF s1.k.counter # s1.k.path_size THEN s1
          ELSE IF s1.k.all_ok THEN send_global_mode_release(s1, c, TRUE)
          ELSE global_routing(s2, c)
  <2>1. s2 = [s1 EXCEPT !.k.all_ok = TRUE, !.k.attempts = 2]
    BY <1>4, <1>5
  <2>2. QED BY <1>1, <2>1 DEF handle_detailed_routing_response
<1>9. Neutral(s, send_global_mode_release(s1, c, TRUE)) /\ Neutral(s, global_routing(s2, c))
  BY <1>2, <1>3, <1>6, <1>7, NeutralTwice
<1>10. QED BY <1>2, <1>8, <1>9

\* A slave that is released was no master.
LEMMA NeutralReleased ==
    ASSUME NEW s, Shape(s), NEW c, NEW from, NEW msg
    PROVE  Neutral(s, handle_global_mode_release(s, c, from, msg))
<1>1. PICK s1 : s1 = IF msg.configure
                     THEN Configure(s, c, msg.subnet, s.k.plist, msg.inport, msg.outport) ELSE s
  OBVIOUS
<1>2. Neutral(s, s1)
  BY <1>1, NeutralConfigure, NeutralSelf
<1>3. PICK q : q = [s1 EXCEPT !.k.status = "IDLE"]
  OBVIOUS
<1>4. ASSUME s.k.status = "GLOBAL_SLAVE" PROVE Neutral(s1, q)
  BY <1>2, <1>3, <1>4, NeutralLike DEF Neutral, Shape
<1>5. ASSUME s.k.status = "GLOBAL_SLAVE"
      PROVE  Neutral(s, send(q, from, [type |-> "GLOBAL_MODE_RELEASE_ACK"]))
  <2>1. Neutral(s, q)
    BY <1>2, <1>4, <1>5, NeutralTwice
  <2>2. Neutral(q, send(q, from, [type |-> "GLOBAL_MODE_RELEASE_ACK"]))
    BY <2>1, NeutralSend DEF Neutral, Kinds
  <2>3. QED BY <2>1, <2>2, NeutralTwice
<1>6. Neutral(s, Halt(s1))
  <2>1. Neutral(s1, Halt(s1))
    BY <1>2, NeutralHalt DEF Neutral
  <2>2. QED BY <1>2, <2>1, NeutralTwice
<1>7. QED BY <1>1, <1>3, <1>5, <1>6 DEF handle_global_mode_release

LEMMA NeutralComponent ==
    ASSUME NEW s, Shape(s), NEW c, NEW req
    PROVE  Neutral(s, handle_component_request(s, c, req))
<1>1. Neutral(s, [s EXCEPT !.k.local_queue = Append(@, req)])
  BY NeutralLike DEF Shape
<1>2. Neutral(s, [s EXCEPT !.k.global_queue = Append(@, req)])
  BY NeutralLike DEF Shape
<1>3. QED BY <1>1, <1>2, NeutralHalt DEF handle_component_request

-----------------------------------------------------------------------------
(* The token in a turn *)

\* The signs of the token at each cluster during a turn of c: W, what the turn
\* found elsewhere, with a tag of its own, the status of c, and what c has sent.
Held(W, c, s) ==
    [e \in Cluster |->
        W[e] \cup (IF e = c /\ s.k.status = "GLOBAL_MASTER" THEN {<<"master", 0>>} ELSE {})
             \cup {<<"granted", i>> : i \in IF c = Coordinator
                                            THEN Places(s.out[e], "TOKEN_GRANT") ELSE {}}
             \cup {<<"released", i>> : i \in IF e = c
                                             THEN Places(s.out[Coordinator], "TOKEN_RELEASE") ELSE {}}]
Tagged(W) == \A e \in Cluster : \A x \in W[e] : x[1] = "waiting"

\* One sign at t, if t is a cluster, and none elsewhere.
Only(F, t) == \A e \in Cluster : IF e = t THEN \E x : F[e] = {x} ELSE F[e] = {}

\* Who may send what about the token.
PlacedOut(c, out) ==
    \A d \in Cluster :
        /\ c # Coordinator => Places(out[d], "TOKEN_GRANT") = {}
        /\ d # Coordinator => /\ Places(out[d], "TOKEN_REQUEST") = {}
                              /\ Places(out[d], "TOKEN_RELEASE") = {}

Turning(W, c, s, t) == Shape(s) /\ Tagged(W) /\ PlacedOut(c, s.out) /\ Only(Held(W, c, s), t)

Holder == Cluster \cup {NoCluster}
TurnTrue(W, c, s) == s.token \in Holder /\ Turning(W, c, s, s.token)

LEMMA Clusters ==
    Coordinator \in Cluster /\ NoCluster \notin Cluster
BY NoCAssumption DEF Coordinator, NoCluster, Cluster

LEMMA NeutralTurning ==
    ASSUME NEW W, NEW c, NEW s, NEW t, Turning(W, c, s, t), NEW r, Neutral(s, r)
    PROVE  Turning(W, c, r, t)
<1>1. \A d \in Cluster : /\ Places(r.out[d], "TOKEN_REQUEST") = Places(s.out[d], "TOKEN_REQUEST")
                         /\ Places(r.out[d], "TOKEN_GRANT") = Places(s.out[d], "TOKEN_GRANT")
                         /\ Places(r.out[d], "TOKEN_RELEASE") = Places(s.out[d], "TOKEN_RELEASE")
  BY DEF Neutral, Kinds
<1>2. ASSUME NEW e \in Cluster PROVE Held(W, c, r)[e] = Held(W, c, s)[e]
  BY <1>1, Clusters DEF Held, Neutral
<1>3. QED BY <1>1, <1>2 DEF Turning, PlacedOut, Only, Neutral

LEMMA NeutralTrue ==
    ASSUME NEW W, NEW c, NEW s, TurnTrue(W, c, s), NEW r, Neutral(s, r)
    PROVE  TurnTrue(W, c, r)
BY NeutralTurning DEF TurnTrue, Neutral

\* A free token makes a master of c, unless c stops.
LEMMA GrantMakesMaster ==
    ASSUME NEW W, NEW c \in Cluster, NEW s, Turning(W, c, s, NoCluster)
    PROVE  LET r == handle_token_grant(s, c)
           IN  r.halt \/ (r.token = s.token /\ r.fifo = s.fifo /\ Turning(W, c, r, c))
<1>1. PICK m : m = [s EXCEPT !.k = [s.k EXCEPT !.status = "GLOBAL_MASTER", !.token_requested = FALSE]]
  OBVIOUS
<1>2. /\ DOMAIN m = DOMAIN s /\ m.token = s.token /\ m.fifo = s.fifo /\ m.out = s.out
      /\ m.k.status = "GLOBAL_MASTER" /\ DOMAIN m.k = DOMAIN s.k
  BY <1>1 DEF Turning, Shape
<1>3. Shape(m) /\ PlacedOut(c, m.out)
  BY <1>2 DEF Turning, Shape
<1>4. Held(W, c, m)[c] = {<<"master", 0>>}
  <2>1. Held(W, c, s)[c] = {}
    BY Clusters DEF Turning, Only
  <2>2. QED BY <1>2, <2>1 DEF Held
<1>5. ASSUME NEW e \in Cluster, e # c PROVE Held(W, c, m)[e] = {}
  <2>1. Held(W, c, s)[e] = {}
    BY Clusters DEF Turning, Only
  <2>2. QED BY <1>2, <1>5, <2>1 DEF Held
<1>6. Turning(W, c, m, c)
  BY <1>3, <1>4, <1>5 DEF Turning, Only
<1>7. ASSUME NEW q, Neutral(m, q)
      PROVE  q.token = s.token /\ q.fifo = s.fifo /\ Turning(W, c, q, c)
  BY <1>2, <1>6, <1>7, NeutralTurning DEF Neutral
<1>8. Neutral(m, send_update_border_request(m, c))
  BY <1>3, NeutralAskBorders
<1>9. PICK q : q = [m EXCEPT !.k.counter = 1]
  OBVIOUS
<1>10. Neutral(m, q)
  BY <1>3, <1>9, NeutralLike DEF Shape
<1>11. ASSUME NEW src, NEW tgt, NEW n
       PROVE  Neutral(m, global_path_release(q, c, "LOCAL_IN", src, tgt, 1, c, n))
  BY <1>10, NeutralPath, NeutralTwice DEF Neutral
<1>12. m = [s EXCEPT !.k.status = "GLOBAL_MASTER", !.k.token_requested = FALSE]
  BY <1>1
<1>13. CASE s.k.status # "IDLE" \/ ~s.k.token_requested
  <2>1. handle_token_grant(s, c) = Halt(s)
    BY <1>13 DEF handle_token_grant
  <2>2. Halt(s).halt = TRUE
    BY NeutralHalt DEF Turning
  <2>3. QED BY <2>1, <2>2
<1>14. CASE ~(s.k.status # "IDLE" \/ ~s.k.token_requested)
  <2>1. \/ handle_token_grant(s, c) = send_update_border_request(m, c)
        \/ handle_token_grant(s, c) =
               global_path_release(q, c, "LOCAL_IN", s.k.request.source, s.k.request.target, 1, c,
                                   s.k.request.subnet)
    BY <1>9, <1>12, <1>14 DEF handle_token_grant
  <2>2. QED BY <1>7, <1>8, <1>11, <2>1
<1>15. QED BY <1>13, <1>14

\* A free token is given to a cluster.
LEMMA TokenSent ==
    ASSUME NEW W, NEW s, Turning(W, Coordinator, s, NoCluster), NEW to \in Cluster
    PROVE  LET r == send_token(s, Coordinator, to)
           IN  r.halt \/ (r.token = s.token /\ r.fifo = s.fifo /\ Turning(W, Coordinator, r, to))
<1>1. CASE to = Coordinator
  BY <1>1, GrantMakesMaster DEF send_token
<1>2. CASE to # Coordinator
  <2>1. PICK m : m = [type |-> "TOKEN_GRANT"]
    OBVIOUS
  <2>2. PICK r : r = send(s, to, m)
    OBVIOUS
  <2>3. r = send_token(s, Coordinator, to)
    BY <1>2, <2>1, <2>2 DEF send_token
  <2>4. /\ DOMAIN r = DOMAIN s /\ r.k = s.k /\ r.token = s.token /\ r.fifo = s.fifo
        /\ DOMAIN r.out = Cluster /\ r.out[to] = Append(s.out[to], m)
        /\ \A e \in Cluster : e # to => r.out[e] = s.out[e]
    BY <2>2 DEF send, Turning, Shape
  <2>5. IsQueue(s.out[to])
    BY DEF Turning, Shape
  <2>6. /\ IsQueue(r.out[to])
        /\ \A type : Places(r.out[to], type) =
               Places(s.out[to], type) \cup (IF m.type = type THEN {Len(s.out[to]) + 1} ELSE {})
    BY <2>4, <2>5, AppendPlaces
  <2>7. Shape(r)
    BY <2>4, <2>6 DEF Turning, Shape
  <2>8. m.type # "TOKEN_REQUEST" /\ m.type # "TOKEN_RELEASE" /\ m.type = "TOKEN_GRANT"
    BY <2>1
  <2>9. /\ Places(r.out[to], "TOKEN_REQUEST") = Places(s.out[to], "TOKEN_REQUEST")
        /\ Places(r.out[to], "TOKEN_RELEASE") = Places(s.out[to], "TOKEN_RELEASE")
        /\ Places(r.out[to], "TOKEN_GRANT") =
               Places(s.out[to], "TOKEN_GRANT") \cup {Len(s.out[to]) + 1}
    BY <2>6, <2>8
  <2>10. PlacedOut(Coordinator, r.out)
    BY <2>4, <2>9 DEF PlacedOut, Turning
  <2>11. Held(W, Coordinator, r)[to] = {<<"granted", Len(s.out[to]) + 1>>}
    <3>1. Held(W, Coordinator, s)[to] = {}
      BY Clusters DEF Turning, Only
    <3>2. Places(s.out[to], "TOKEN_GRANT") = {} /\ W[to] = {}
      BY <3>1 DEF Held
    <3>3. QED BY <1>2, <2>9, <3>2 DEF Held
  <2>12. ASSUME NEW e \in Cluster, e # to PROVE Held(W, Coordinator, r)[e] = {}
    <3>1. Held(W, Coordinator, s)[e] = {}
      BY Clusters DEF Turning, Only
    <3>2. r.out[e] = s.out[e] /\ r.out[Coordinator] = s.out[Coordinator]
      BY <1>2, <2>4, <2>12, Clusters
    <3>3. QED BY <2>4, <3>1, <3>2 DEF Held
  <2>13. Turning(W, Coordinator, r, to)
    BY <2>7, <2>10, <2>11, <2>12 DEF Turning, Only
  <2>14. QED BY <2>3, <2>4, <2>13
<1>3. QED BY <1>1, <1>2

\* What changes the books of the coordinator only.
LEMMA BooksTurning ==
    ASSUME NEW W, NEW c, NEW s, NEW t, Turning(W, c, s, t), NEW token1, NEW fifo1 \in Seq(Cluster)
    PROVE  /\ Turning(W, c, [s EXCEPT !.token = token1], t)
           /\ Turning(W, c, [s EXCEPT !.fifo = fifo1], t)
           /\ Turning(W, c, [s EXCEPT !.token = token1, !.fifo = fifo1], t)
<1>1. ASSUME NEW r, DOMAIN r = DOMAIN s, r.k = s.k, r.out = s.out, r.fifo \in Seq(Cluster)
      PROVE  Turning(W, c, r, t)
  <2>1. Held(W, c, r) = Held(W, c, s)
    BY <1>1 DEF Held
  <2>2. QED BY <1>1, <2>1 DEF Turning, Shape
<1>2. s.fifo \in Seq(Cluster)
  BY DEF Turning, Shape
<1>3. PICK r : r = [s EXCEPT !.token = token1]
  OBVIOUS
<1>4. PICK q : q = [s EXCEPT !.fifo = fifo1]
  OBVIOUS
<1>5. PICK p : p = [s EXCEPT !.token = token1, !.fifo = fifo1]
  OBVIOUS
<1>6. {"fifo", "out", "k", "token"} \subseteq DOMAIN s
  BY DEF Turning, Shape
<1>7. /\ DOMAIN r = DOMAIN s /\ r.k = s.k /\ r.out = s.out /\ r.fifo = s.fifo
      /\ DOMAIN q = DOMAIN s /\ q.k = s.k /\ q.out = s.out /\ q.fifo = fifo1
      /\ DOMAIN p = DOMAIN s /\ p.k = s.k /\ p.out = s.out /\ p.fifo = fifo1
  BY <1>3, <1>4, <1>5, <1>6
<1>8. Turning(W, c, r, t) /\ Turning(W, c, q, t) /\ Turning(W, c, p, t)
  BY <1>1, <1>2, <1>7
<1>9. QED BY <1>3, <1>4, <1>5, <1>8

LEMMA RequestServed ==
    ASSUME NEW W, NEW s, TurnTrue(W, Coordinator, s), NEW requester \in Cluster
    PROVE  LET r == handle_token_request(s, Coordinator, requester)
           IN  r.halt \/ TurnTrue(W, Coordinator, r)
<1>1. CASE s.token = NoCluster
  <2>1. PICK q : q = send_token(s, Coordinator, requester)
    OBVIOUS
  <2>2. q.halt \/ (q.token = s.token /\ q.fifo = s.fifo /\ Turning(W, Coordinator, q, requester))
    BY <1>1, <2>1, TokenSent DEF TurnTrue
  <2>3. PICK r : r = [q EXCEPT !.token = requester]
    OBVIOUS
  <2>4. r = handle_token_request(s, Coordinator, requester)
    BY <1>1, <2>1, <2>3 DEF handle_token_request
  <2>5. CASE q.halt
    <3>1. r.halt
      BY <2>3, <2>5
    <3>2. QED BY <2>4, <3>1
  <2>6. CASE Turning(W, Coordinator, q, requester)
    <3>1. Turning(W, Coordinator, r, requester)
      BY <2>3, <2>6, BooksTurning DEF Turning, Shape
    <3>2. r.token = requester
      BY <2>3, <2>6 DEF Turning, Shape
    <3>3. QED BY <2>4, <3>1, <3>2 DEF TurnTrue, Holder
  <2>7. QED BY <2>2, <2>5, <2>6
<1>2. CASE s.token # NoCluster /\ Len(s.fifo) = NC_NUMBER
  <2>1. Halt(s).halt = TRUE
    BY NeutralHalt DEF TurnTrue, Turning
  <2>2. QED BY <1>2, <2>1 DEF handle_token_request
<1>3. CASE s.token # NoCluster /\ Len(s.fifo) # NC_NUMBER
  <2>1. Append(s.fifo, requester) \in Seq(Cluster)
    BY AppendProperties DEF TurnTrue, Turning, Shape
  <2>2. Turning(W, Coordinator, [s EXCEPT !.fifo = Append(s.fifo, requester)], s.token)
    BY <2>1, BooksTurning DEF TurnTrue
  <2>3. [s EXCEPT !.fifo = Append(s.fifo, requester)].token = s.token
    BY DEF TurnTrue, Turning, Shape
  <2>4. handle_token_request(s, Coordinator, requester) = [s EXCEPT !.fifo = Append(s.fifo, requester)]
    BY <1>3 DEF handle_token_request
  <2>5. QED BY <2>2, <2>3, <2>4 DEF TurnTrue
<1>4. QED BY <1>1, <1>2, <1>3

LEMMA ReleaseServed ==
    ASSUME NEW W, NEW s, Turning(W, Coordinator, s, NoCluster)
    PROVE  LET r == handle_token_release(s, Coordinator)
           IN  r.halt \/ TurnTrue(W, Coordinator, r)
<1>1. CASE s.fifo = <<>>
  <2>1. PICK r : r = [s EXCEPT !.token = NoCluster]
    OBVIOUS
  <2>2. r.token = NoCluster
    BY <2>1 DEF Turning, Shape
  <2>3. Turning(W, Coordinator, r, NoCluster)
    BY <2>1, BooksTurning DEF Turning, Shape
  <2>4. QED BY <1>1, <2>1, <2>2, <2>3 DEF handle_token_release, TurnTrue, Holder
<1>2. CASE s.fifo # <<>>
  <2>1. s.fifo \in Seq(Cluster)
    BY DEF Turning, Shape
  <2>2. Head(s.fifo) \in Cluster /\ Tail(s.fifo) \in Seq(Cluster)
    BY <1>2, <2>1, HeadTailProperties
  <2>3. PICK q : q = [s EXCEPT !.token = Head(s.fifo), !.fifo = Tail(s.fifo)]
    OBVIOUS
  <2>4. Turning(W, Coordinator, q, NoCluster)
    BY <2>2, <2>3, BooksTurning
  <2>5. q.token = Head(s.fifo)
    BY <2>3 DEF Turning, Shape
  <2>6. PICK r : r = send_token(q, Coordinator, Head(s.fifo))
    OBVIOUS
  <2>7. r.halt \/ (r.token = q.token /\ Turning(W, Coordinator, r, Head(s.fifo)))
    BY <2>2, <2>4, <2>6, TokenSent
  <2>8. r = handle_token_release(s, Coordinator)
    BY <1>2, <2>3, <2>6 DEF handle_token_release
  <2>9. QED BY <2>2, <2>5, <2>7, <2>8 DEF TurnTrue, Holder
<1>3. QED BY <1>1, <1>2

\* A master that gives the token back, and stops if it is none.
LEMMA MasterGivesBack ==
    ASSUME NEW W, NEW c \in Cluster, NEW s, TurnTrue(W, c, s)
    PROVE  LET r == send_token_release(s, c) IN r.halt \/ TurnTrue(W, c, r)
<1>1. PICK idle : idle = [s EXCEPT !.k = [s.k EXCEPT !.status = "IDLE"]]
  OBVIOUS
<1>2. idle = [s EXCEPT !.k.status = "IDLE"]
  BY <1>1
<1>3. /\ DOMAIN idle = DOMAIN s /\ idle.token = s.token /\ idle.fifo = s.fifo /\ idle.out = s.out
      /\ idle.k.status = "IDLE" /\ DOMAIN idle.k = DOMAIN s.k
  BY <1>1 DEF TurnTrue, Turning, Shape
<1>4. Shape(idle) /\ PlacedOut(c, idle.out) /\ Tagged(W)
  BY <1>3 DEF TurnTrue, Turning, Shape
<1>5. CASE s.k.status # "GLOBAL_MASTER"
  <2>1. Halt(s).halt = TRUE
    BY NeutralHalt DEF TurnTrue, Turning
  <2>2. QED BY <1>5, <2>1 DEF send_token_release
<1>6. CASE s.k.status = "GLOBAL_MASTER"
  <2>1. <<"master", 0>> \in Held(W, c, s)[c]
    BY <1>6 DEF Held
  <2>2. s.token = c
    BY <2>1 DEF TurnTrue, Turning, Only
  <2>3. PICK x : Held(W, c, s)[c] = {x}
    BY <2>2 DEF TurnTrue, Turning, Only
  <2>4. Held(W, c, s)[c] = {<<"master", 0>>}
    BY <2>1, <2>3
  <2>5. /\ W[c] = {}
        /\ c = Coordinator => Places(s.out[c], "TOKEN_GRANT") = {}
        /\ Places(s.out[Coordinator], "TOKEN_RELEASE") = {}
    <3>1. \A y \in Held(W, c, s)[c] : y = <<"master", 0>>
      BY <2>4
    <3>2. W[c] = {}
      BY <1>4, <3>1 DEF Held, Tagged
    <3>3. ASSUME c = Coordinator, NEW i \in Places(s.out[c], "TOKEN_GRANT") PROVE FALSE
      <4>1. <<"granted", i>> \in Held(W, c, s)[c]
        BY <3>3 DEF Held
      <4>2. QED BY <3>1, <4>1
    <3>4. ASSUME NEW i \in Places(s.out[Coordinator], "TOKEN_RELEASE") PROVE FALSE
      <4>1. <<"released", i>> \in Held(W, c, s)[c]
        BY <3>4 DEF Held
      <4>2. QED BY <3>1, <4>1
    <3>5. QED BY <3>2, <3>3, <3>4
  <2>6. \A e \in Cluster : e # c => Held(W, c, s)[e] = {}
    BY <2>2 DEF TurnTrue, Turning, Only
  <2>7. \A e \in Cluster : e # c => Held(W, c, idle)[e] = {}
    BY <1>3, <2>6 DEF Held
  <2>8. Held(W, c, idle)[c] = {}
    BY <1>3, <2>5 DEF Held
  <2>9. CASE c = Coordinator
    <3>1. Turning(W, c, idle, NoCluster)
      BY <1>4, <2>7, <2>8, Clusters DEF Turning, Only
    <3>2. handle_token_release(idle, c) = send_token_release(s, c)
      BY <1>2, <1>6, <2>9 DEF send_token_release
    <3>3. QED BY <2>9, <3>1, <3>2, ReleaseServed
  <2>10. CASE c # Coordinator
    <3>1. PICK m : m = [type |-> "TOKEN_RELEASE"]
      OBVIOUS
    <3>2. PICK r : r = send(idle, Coordinator, m)
      OBVIOUS
    <3>3. r = send_token_release(s, c)
      BY <1>2, <1>6, <2>10, <3>1, <3>2 DEF send_token_release
    <3>4. /\ DOMAIN r = DOMAIN idle /\ r.k = idle.k /\ r.token = s.token /\ r.fifo = s.fifo
          /\ DOMAIN r.out = Cluster /\ r.out[Coordinator] = Append(s.out[Coordinator], m)
          /\ \A e \in Cluster : e # Coordinator => r.out[e] = s.out[e]
      BY <1>3, <1>4, <3>2, Clusters DEF send, Shape
    <3>5. IsQueue(s.out[Coordinator])
      BY Clusters DEF TurnTrue, Turning, Shape
    <3>6. /\ IsQueue(r.out[Coordinator])
          /\ \A type : Places(r.out[Coordinator], type) =
                 Places(s.out[Coordinator], type)
                     \cup (IF m.type = type THEN {Len(s.out[Coordinator]) + 1} ELSE {})
      BY <3>4, <3>5, AppendPlaces
    <3>7. Shape(r)
      BY <1>3, <1>4, <3>4, <3>6 DEF Shape
    <3>8. m.type # "TOKEN_REQUEST" /\ m.type = "TOKEN_RELEASE" /\ m.type # "TOKEN_GRANT"
      BY <3>1
    <3>9. /\ Places(r.out[Coordinator], "TOKEN_GRANT") = Places(s.out[Coordinator], "TOKEN_GRANT")
          /\ Places(r.out[Coordinator], "TOKEN_RELEASE") =
                 Places(s.out[Coordinator], "TOKEN_RELEASE") \cup {Len(s.out[Coordinator]) + 1}
      BY <3>6, <3>8
    <3>10. PlacedOut(c, r.out)
      <4>1. PlacedOut(c, s.out)
        BY DEF TurnTrue, Turning
      <4>2. QED BY <3>4, <3>9, <4>1 DEF PlacedOut
    <3>11. Held(W, c, r)[c] = {<<"released", Len(s.out[Coordinator]) + 1>>}
      <4>1. r.k.status # "GLOBAL_MASTER"
        BY <1>3, <3>4
      <4>2. Places(r.out[Coordinator], "TOKEN_RELEASE") = {Len(s.out[Coordinator]) + 1}
        BY <2>5, <3>9
      <4>3. QED BY <2>5, <2>10, <4>1, <4>2 DEF Held
    <3>12. \A e \in Cluster : e # c => Held(W, c, r)[e] = {}
      <4>1. SUFFICES ASSUME NEW e \in Cluster, e # c PROVE Held(W, c, r)[e] = {}
        OBVIOUS
      <4>2. W[e] = {}
        BY <2>6, <4>1 DEF Held
      <4>3. QED BY <2>10, <4>1, <4>2 DEF Held
    <3>13. Turning(W, c, r, c)
      BY <1>4, <3>7, <3>10, <3>11, <3>12 DEF Turning, Only
    <3>14. r.token = c
      BY <2>2, <3>4
    <3>15. QED BY <3>3, <3>13, <3>14 DEF TurnTrue, Holder
  <2>11. QED BY <2>9, <2>10
<1>7. QED BY <1>5, <1>6

\* The last answer ends the request of the master.
LEMMA ModeReleaseAcked ==
    ASSUME NEW W, NEW c \in Cluster, NEW s, TurnTrue(W, c, s)
    PROVE  LET r == handle_global_mode_release_ack(s, c) IN r.halt \/ TurnTrue(W, c, r)
<1>1. PICK s1 : s1 = [s EXCEPT !.k.counter = @ + 1]
  OBVIOUS
<1>2. Neutral(s, s1)
  BY <1>1, NeutralLike DEF TurnTrue, Turning, Shape
<1>3. PICK s2 : s2 = send_ack_requester(s1, <<s.k.request.source, s.k.request.target>>,
                                        s.k.request.subnet)
  OBVIOUS
<1>4. Neutral(s1, s2)
  BY <1>2, <1>3, NeutralAnswer DEF Neutral
<1>5. PICK s3 : s3 = [s2 EXCEPT !.k.path_size = 0]
  OBVIOUS
<1>6. Neutral(s2, s3)
  BY <1>4, <1>5, NeutralLike DEF Neutral, Shape
<1>7. TurnTrue(W, c, s1) /\ TurnTrue(W, c, s3)
  BY <1>2, <1>4, <1>6, NeutralTrue
<1>8. handle_global_mode_release_ack(s, c) =
          IF s1.k.counter # NC_NUMBER THEN s1 ELSE send_token_release(s3, c)
  BY <1>1, <1>3, <1>5 DEF handle_global_mode_release_ack
<1>9. QED BY <1>7, <1>8, MasterGivesBack

LEMMA LocalReleaseAcked ==
    ASSUME NEW W, NEW c \in Cluster, NEW s, TurnTrue(W, c, s), NEW number
    PROVE  LET r == handle_local_release_ack(s, c, number) IN r.halt \/ TurnTrue(W, c, r)
<1>1. PICK k : k = [s.k EXCEPT !.counter = @ + 1,
                               !.path_size = IF s.k.data3 = 1 THEN number ELSE @]
  OBVIOUS
<1>2. PICK s1 : s1 = [s EXCEPT !.k = k]
  OBVIOUS
<1>3. DOMAIN k = DOMAIN s.k /\ k.status = s.k.status
  BY <1>1 DEF TurnTrue, Turning, Shape
<1>4. Neutral(s, s1)
  BY <1>2, <1>3, NeutralLike DEF TurnTrue, Turning, Shape
<1>5. s1 = [s EXCEPT !.k.counter = @ + 1,
                     !.k.path_size = IF s.k.data3 = 1 THEN number ELSE @]
  BY <1>1, <1>2
<1>6. PICK s2 : s2 = send_ack_requester(s1, <<s.k.request.source, s.k.request.target>>,
                                        s.k.request.subnet)
  OBVIOUS
<1>7. Neutral(s1, s2)
  BY <1>4, <1>6, NeutralAnswer DEF Neutral
<1>8. TurnTrue(W, c, s1) /\ TurnTrue(W, c, s2)
  BY <1>4, <1>7, NeutralTrue
<1>9. handle_local_release_ack(s, c, number) =
          IF s1.k.counter # s1.k.path_size THEN s1 ELSE send_token_release(s2, c)
  BY <1>5, <1>6 DEF handle_local_release_ack
<1>10. QED BY <1>8, <1>9, MasterGivesBack

-----------------------------------------------------------------------------
(* The rest of the loop *)

\* A request for the token, sent to the coordinator.
LEMMA RequestSent ==
    ASSUME NEW W, NEW c \in Cluster, NEW s, TurnTrue(W, c, s)
    PROVE  TurnTrue(W, c, send(s, Coordinator, [type |-> "TOKEN_REQUEST"]))
<1>1. PICK m : m = [type |-> "TOKEN_REQUEST"]
  OBVIOUS
<1>2. PICK r : r = send(s, Coordinator, m)
  OBVIOUS
<1>3. /\ DOMAIN r = DOMAIN s /\ r.k = s.k /\ r.token = s.token /\ r.fifo = s.fifo
      /\ DOMAIN r.out = Cluster /\ r.out[Coordinator] = Append(s.out[Coordinator], m)
      /\ \A e \in Cluster : e # Coordinator => r.out[e] = s.out[e]
  BY <1>2, Clusters DEF send, TurnTrue, Turning, Shape
<1>4. IsQueue(s.out[Coordinator])
  BY Clusters DEF TurnTrue, Turning, Shape
<1>5. /\ IsQueue(r.out[Coordinator])
      /\ \A type : Places(r.out[Coordinator], type) =
             Places(s.out[Coordinator], type)
                 \cup (IF m.type = type THEN {Len(s.out[Coordinator]) + 1} ELSE {})
  BY <1>3, <1>4, AppendPlaces
<1>6. m.type # "TOKEN_GRANT" /\ m.type # "TOKEN_RELEASE"
  BY <1>1
<1>7. /\ Places(r.out[Coordinator], "TOKEN_GRANT") = Places(s.out[Coordinator], "TOKEN_GRANT")
      /\ Places(r.out[Coordinator], "TOKEN_RELEASE") = Places(s.out[Coordinator], "TOKEN_RELEASE")
  BY <1>5, <1>6
<1>8. Shape(r)
  BY <1>3, <1>5 DEF TurnTrue, Turning, Shape
<1>9. PlacedOut(c, r.out)
  BY <1>3, <1>7 DEF TurnTrue, Turning, PlacedOut
<1>10. ASSUME NEW e \in Cluster PROVE Held(W, c, r)[e] = Held(W, c, s)[e]
  <2>1. Places(r.out[e], "TOKEN_GRANT") = Places(s.out[e], "TOKEN_GRANT")
    BY <1>3, <1>7
  <2>2. QED BY <1>3, <1>7, <2>1 DEF Held
<1>11. Turning(W, c, r, s.token)
  BY <1>8, <1>9, <1>10 DEF TurnTrue, Turning, Only
<1>12. QED BY <1>1, <1>2, <1>3, <1>11 DEF TurnTrue

LEMMA RequestTaken ==
    ASSUME NEW W, NEW c \in Cluster, NEW s, TurnTrue(W, c, s)
    PROVE  LET r == TakeRequest(s, c) IN r.halt \/ TurnTrue(W, c, r)
<1>1. ASSUME NEW q, Neutral(s, q), NEW req
      PROVE  new_global_path(q, c, req).halt \/ TurnTrue(W, c, new_global_path(q, c, req))
  <2>1. PICK k : k = [q.k EXCEPT !.request = req, !.token_requested = TRUE]
    OBVIOUS
  <2>2. PICK s1 : s1 = [q EXCEPT !.k = k]
    OBVIOUS
  <2>3. DOMAIN k = DOMAIN q.k /\ k.status = q.k.status
    BY <1>1, <2>1 DEF Neutral, Shape
  <2>4. Neutral(q, s1)
    BY <1>1, <2>2, <2>3, NeutralLike DEF Neutral, Shape
  <2>5. TurnTrue(W, c, s1)
    BY <1>1, <2>4, NeutralTrue
  <2>6. s1 = [q EXCEPT !.k.request = req, !.k.token_requested = TRUE]
    BY <2>1, <2>2
  <2>7. new_global_path(q, c, req) =
            IF c = Coordinator THEN handle_token_request(s1, c, c)
            ELSE send(s1, Coordinator, [type |-> "TOKEN_REQUEST"])
    BY <2>6 DEF new_global_path
  <2>8. QED BY <2>5, <2>7, RequestServed, RequestSent
<1>2. ASSUME NEW q, Neutral(s, q), NEW req PROVE TurnTrue(W, c, new_local_path(q, c, req))
  <2>1. Neutral(q, new_local_path(q, c, req))
    BY <1>2, NeutralLocal DEF Neutral
  <2>2. QED BY <1>2, <2>1, NeutralTrue
<1>3. Neutral(s, [s EXCEPT !.k.global_queue = Tail(@)])
  BY NeutralLike DEF TurnTrue, Turning, Shape
<1>4. Neutral(s, [s EXCEPT !.k.local_queue = Tail(@)])
  BY NeutralLike DEF TurnTrue, Turning, Shape
<1>5. QED BY <1>1, <1>2, <1>3, <1>4 DEF TakeRequest

LEMMA LoopEnds ==
    ASSUME NEW W, NEW c \in Cluster, NEW s, s.halt \/ TurnTrue(W, c, s), NEW sending
    PROVE  LET r == main_loop(s, c, sending) IN r.halt \/ TurnTrue(W, c, r)
<1>1. CASE s.halt
  BY <1>1 DEF main_loop
<1>2. CASE TurnTrue(W, c, s)
  <2>1. ASSUME NEW at PROVE TurnTrue(W, c, [s EXCEPT !.k.at = at])
    <3>1. Neutral(s, [s EXCEPT !.k.at = at])
      BY <1>2, NeutralLike DEF TurnTrue, Turning, Shape
    <3>2. QED BY <1>2, <3>1, NeutralTrue
  <2>2. TakeRequest(s, c).halt \/ TurnTrue(W, c, TakeRequest(s, c))
    BY <1>2, RequestTaken
  <2>3. QED BY <1>2, <2>1, <2>2 DEF main_loop
<1>3. QED BY <1>1, <1>2

-----------------------------------------------------------------------------
(* The inductive invariant *)

\* The signs of the token at each cluster between two steps; a message that is
\* being handled has place 0.
Signs ==
    [e \in Cluster |->
        (IF ctl[e].status = "GLOBAL_MASTER" THEN {<<"master", 0>>} ELSE {})
        \cup {<<"grant", i>> : i \in Places(chan[<<Coordinator, e>>], "TOKEN_GRANT")}
        \cup {<<"release", i>> : i \in Places(chan[<<e, Coordinator>>], "TOKEN_RELEASE")}
        \cup (IF data_message[e].msg.type = "TOKEN_GRANT" THEN {<<"grant", 0>>} ELSE {})
        \cup (IF /\ data_message[Coordinator].msg.type = "TOKEN_RELEASE"
                 /\ data_message[Coordinator].from = e THEN {<<"release", 0>>} ELSE {})]

TokenTypes ==
    /\ DOMAIN ctl = Cluster /\ \A c \in Cluster : "status" \in DOMAIN ctl[c]
    /\ DOMAIN chan = Cluster \X Cluster /\ \A l \in Cluster \X Cluster : IsQueue(chan[l])
    /\ DOMAIN data_message = Cluster
    /\ \A c \in Cluster : data_message[c] = NoMessage \/ data_message[c].from \in Cluster
    /\ token \in Holder /\ token_fifo \in Seq(Cluster)

\* The messages about the token are where they belong, in flight and being handled.
ChanPlaced == \A c \in Cluster : PlacedOut(c, [d \in Cluster |-> chan[<<c, d>>]])
DataPlaced ==
    \A d \in Cluster :
        /\ data_message[d].msg.type = "TOKEN_GRANT" => data_message[d].from = Coordinator
        /\ data_message[d].msg.type \in {"TOKEN_REQUEST", "TOKEN_RELEASE"} => d = Coordinator

TokenInv == TokenTypes /\ ChanPlaced /\ DataPlaced /\ Only(Signs, token)

LEMMA TokenInvImplies ==
    TokenInv => TokenHeldOnce
<1> SUFFICES ASSUME TokenInv, NEW c \in Cluster PROVE Owns(c) <=> token = c
  BY DEF TokenHeldOnce
<1>1. Owns(c) <=> Signs[c] # {}
  <2>1. InFlight(Coordinator, c, "TOKEN_GRANT") <=>
            \/ Places(chan[<<Coordinator, c>>], "TOKEN_GRANT") # {}
            \/ data_message[c].msg.type = "TOKEN_GRANT"
    BY DEF InFlight, Pending, Places, TokenInv, DataPlaced
  <2>2. InFlight(c, Coordinator, "TOKEN_RELEASE") <=>
            \/ Places(chan[<<c, Coordinator>>], "TOKEN_RELEASE") # {}
            \/ /\ data_message[Coordinator].msg.type = "TOKEN_RELEASE"
               /\ data_message[Coordinator].from = c
    BY DEF InFlight, Pending, Places
  <2>3. QED BY <2>1, <2>2 DEF Owns, Signs
<1>2. QED BY <1>1 DEF TokenInv, Only

\* The signs the turn of c finds, without its own status and its message.
Elsewhere(c) ==
    [e \in Cluster |-> {<<"waiting", x>> : x \in
        (IF e # c /\ ctl[e].status = "GLOBAL_MASTER" THEN {<<"master", 0>>} ELSE {})
        \cup {<<"grant", i>> : i \in Places(chan[<<Coordinator, e>>], "TOKEN_GRANT")}
        \cup {<<"release", i>> : i \in Places(chan[<<e, Coordinator>>], "TOKEN_RELEASE")}
        \cup (IF e # c /\ data_message[e].msg.type = "TOKEN_GRANT" THEN {<<"grant", 0>>} ELSE {})
        \cup (IF /\ c # Coordinator /\ data_message[Coordinator].msg.type = "TOKEN_RELEASE"
                 /\ data_message[Coordinator].from = e THEN {<<"release", 0>>} ELSE {})}]

LEMMA BeginShape ==
    ASSUME TokenInv, NEW c \in Cluster
    PROVE  /\ Shape(Begin(c)) /\ Begin(c).token = token
           /\ Begin(c).k.status = ctl[c].status
           /\ \A d \in Cluster : \A type : Places(Begin(c).out[d], type) = {}
           /\ Tagged(Elsewhere(c)) /\ PlacedOut(c, Begin(c).out)
<1>1. PICK k : k = [ctl[c] EXCEPT !.data3 = word3(data_message[c].msg, @)]
  OBVIOUS
<1>2. "status" \in DOMAIN k /\ k.status = ctl[c].status
  BY <1>1 DEF TokenInv, TokenTypes
<1>3. Begin(c) = [k |-> k, cs |-> cs_inport, token |-> token, fifo |-> token_fifo,
                  out |-> [d \in Cluster |-> <<>>], answers |-> <<>>, halt |-> FALSE]
  BY <1>1 DEF Begin
<1>4. IsQueue(<<>>) /\ \A type : Places(<<>>, type) = {}
  <2>1. <<>> \in Seq({})
    BY EmptySeq
  <2>2. DOMAIN <<>> = {}
    BY EmptySeq
  <2>3. QED BY <2>1, <2>2 DEF IsQueue, Places
<1>5. Shape(Begin(c))
  BY <1>2, <1>3, <1>4 DEF Shape, TokenInv, TokenTypes
<1>6. \A d \in Cluster : \A type : Places(Begin(c).out[d], type) = {}
  BY <1>3, <1>4
<1>7. Tagged(Elsewhere(c))
  BY DEF Tagged, Elsewhere
<1>8. QED BY <1>2, <1>3, <1>5, <1>6, <1>7 DEF PlacedOut

\* What the turn of c holds before its message is handled.
LEMMA BeginHeld ==
    ASSUME TokenInv, NEW c \in Cluster, NEW e \in Cluster
    PROVE  Held(Elsewhere(c), c, Begin(c))[e] =
               Elsewhere(c)[e] \cup (IF e = c /\ ctl[c].status = "GLOBAL_MASTER"
                                     THEN {<<"master", 0>>} ELSE {})
BY BeginShape, Clusters DEF Held

\* A message that is neither the grant nor the release leaves the token where it is.
LEMMA BeginOther ==
    ASSUME TokenInv, NEW c \in Cluster,
           data_message[c].msg.type \notin {"TOKEN_GRANT", "TOKEN_RELEASE"}
    PROVE  TurnTrue(Elsewhere(c), c, Begin(c))
<1>1. ASSUME NEW e \in Cluster
      PROVE  \/ e = token /\ \E x : Held(Elsewhere(c), c, Begin(c))[e] = {x}
             \/ e # token /\ Held(Elsewhere(c), c, Begin(c))[e] = {}
  <2> DEFINE h(x) == IF x = <<"master", 0>> /\ e = c THEN x ELSE <<"waiting", x>>
  <2>1. Held(Elsewhere(c), c, Begin(c))[e] = {h(x) : x \in Signs[e]}
    BY BeginHeld DEF Elsewhere, Signs
  <2>2. CASE e = token
    <3>1. PICK x : Signs[e] = {x}
      BY <2>2 DEF TokenInv, Only
    <3>2. Held(Elsewhere(c), c, Begin(c))[e] = {h(x)}
      BY <2>1, <3>1
    <3>3. QED BY <2>2, <3>2
  <2>3. CASE e # token
    <3>1. Signs[e] = {}
      BY <2>3 DEF TokenInv, Only
    <3>2. QED BY <2>1, <2>3, <3>1
  <2>4. QED BY <2>2, <2>3
<1>2. Only(Held(Elsewhere(c), c, Begin(c)), token)
  BY <1>1 DEF Only
<1>3. QED BY <1>2, BeginShape DEF TurnTrue, Turning, TokenInv, TokenTypes

\* A cluster that handles the grant has the token, and nothing else of it is left.
LEMMA BeginGrant ==
    ASSUME TokenInv, NEW c \in Cluster, data_message[c].msg.type = "TOKEN_GRANT"
    PROVE  token = c /\ Turning(Elsewhere(c), c, Begin(c), NoCluster)
<1>1. <<"grant", 0>> \in Signs[c]
  BY DEF Signs
<1>2. token = c
  BY <1>1 DEF TokenInv, Only
<1>3. PICK x : Signs[c] = {x}
  BY <1>2 DEF TokenInv, Only
<1>4. \A y \in Signs[c] : y = <<"grant", 0>>
  BY <1>1, <1>3
<1>5. Held(Elsewhere(c), c, Begin(c))[c] = {}
  <2>1. ctl[c].status # "GLOBAL_MASTER"
    BY <1>4 DEF Signs
  <2>2. Places(chan[<<Coordinator, c>>], "TOKEN_GRANT") = {}
    <3>1. 0 \notin Places(chan[<<Coordinator, c>>], "TOKEN_GRANT")
      BY Clusters, LenProperties DEF TokenInv, TokenTypes, IsQueue, Places
    <3>2. ASSUME NEW i \in Places(chan[<<Coordinator, c>>], "TOKEN_GRANT") PROVE FALSE
      <4>1. <<"grant", i>> \in Signs[c]
        BY <3>2 DEF Signs
      <4>2. QED BY <1>4, <3>1, <3>2, <4>1
    <3>3. QED BY <3>2
  <2>3. Places(chan[<<c, Coordinator>>], "TOKEN_RELEASE") = {}
    <3>1. ASSUME NEW i \in Places(chan[<<c, Coordinator>>], "TOKEN_RELEASE") PROVE FALSE
      <4>1. <<"release", i>> \in Signs[c]
        BY <3>1 DEF Signs
      <4>2. QED BY <1>4, <4>1
    <3>2. QED BY <3>1
  <2>4. ~(/\ data_message[Coordinator].msg.type = "TOKEN_RELEASE"
          /\ data_message[Coordinator].from = c)
    BY <1>4 DEF Signs
  <2>5. Elsewhere(c)[c] = {}
    BY <2>2, <2>3, <2>4 DEF Elsewhere
  <2>6. QED BY <2>1, <2>5, BeginHeld
<1>6. ASSUME NEW e \in Cluster, e # c PROVE Held(Elsewhere(c), c, Begin(c))[e] = {}
  <2>1. Signs[e] = {}
    BY <1>2, <1>6 DEF TokenInv, Only
  <2>2. Elsewhere(c)[e] = {}
    BY <2>1 DEF Elsewhere, Signs
  <2>3. QED BY <1>6, <2>2, BeginHeld
<1>7. Only(Held(Elsewhere(c), c, Begin(c)), NoCluster)
  BY <1>5, <1>6, Clusters DEF Only
<1>8. QED BY <1>2, <1>7, BeginShape DEF Turning

\* A coordinator that handles the release has the token back.
LEMMA BeginRelease ==
    ASSUME TokenInv, NEW c \in Cluster, data_message[c].msg.type = "TOKEN_RELEASE"
    PROVE  c = Coordinator /\ Turning(Elsewhere(c), c, Begin(c), NoCluster)
<1>1. c = Coordinator
  BY DEF TokenInv, DataPlaced
<1>2. PICK f : f = data_message[c].from
  OBVIOUS
<1>3. f \in Cluster
  <2>1. data_message[c] # NoMessage
    BY DEF NoMessage
  <2>2. QED BY <1>2, <2>1 DEF TokenInv, TokenTypes
<1>4. <<"release", 0>> \in Signs[f]
  BY <1>1, <1>2, <1>3 DEF Signs
<1>5. token = f
  BY <1>3, <1>4 DEF TokenInv, Only
<1>6. PICK x : Signs[f] = {x}
  BY <1>3, <1>5 DEF TokenInv, Only
<1>7. \A y \in Signs[f] : y = <<"release", 0>>
  BY <1>4, <1>6
<1>8. Held(Elsewhere(c), c, Begin(c))[f] = {}
  <2>1. ctl[f].status # "GLOBAL_MASTER"
    BY <1>3, <1>7 DEF Signs
  <2>2. Places(chan[<<f, Coordinator>>], "TOKEN_RELEASE") = {}
    <3>1. 0 \notin Places(chan[<<f, Coordinator>>], "TOKEN_RELEASE")
      BY <1>3, Clusters, LenProperties DEF TokenInv, TokenTypes, IsQueue, Places
    <3>2. ASSUME NEW i \in Places(chan[<<f, Coordinator>>], "TOKEN_RELEASE") PROVE FALSE
      <4>1. <<"release", i>> \in Signs[f]
        BY <1>3, <3>2 DEF Signs
      <4>2. QED BY <1>7, <3>1, <3>2, <4>1
    <3>3. QED BY <3>2
  <2>3. Places(chan[<<Coordinator, f>>], "TOKEN_GRANT") = {}
    <3>1. ASSUME NEW i \in Places(chan[<<Coordinator, f>>], "TOKEN_GRANT") PROVE FALSE
      <4>1. <<"grant", i>> \in Signs[f]
        BY <1>3, <3>1 DEF Signs
      <4>2. QED BY <1>7, <4>1
    <3>2. QED BY <3>1
  <2>4. data_message[f].msg.type # "TOKEN_GRANT"
    BY <1>3, <1>7 DEF Signs
  <2>5. Elsewhere(c)[f] = {}
    BY <1>1, <1>3, <2>1, <2>2, <2>3, <2>4 DEF Elsewhere
  <2>6. QED BY <1>3, <2>1, <2>5, BeginHeld
<1>9. ASSUME NEW e \in Cluster, e # f PROVE Held(Elsewhere(c), c, Begin(c))[e] = {}
  <2>1. Signs[e] = {}
    BY <1>5, <1>9 DEF TokenInv, Only
  <2>2. Elsewhere(c)[e] = {} /\ ctl[e].status # "GLOBAL_MASTER"
    BY <2>1 DEF Elsewhere, Signs
  <2>3. QED BY <2>2, BeginHeld
<1>10. Only(Held(Elsewhere(c), c, Begin(c)), NoCluster)
  BY <1>8, <1>9, Clusters DEF Only
<1>11. QED BY <1>1, <1>10, BeginShape DEF Turning

-----------------------------------------------------------------------------
(* The steps *)

\* A turn that does not stop its controller ends with the token as recorded.
LEMMA TurnKeeps ==
    ASSUME TokenInv, NEW c \in Cluster, NEW handled, Turn(c, handled), halted' = {},
           handled.halt \/ TurnTrue(Elsewhere(c), c, handled)
    PROVE  TokenInv'
<1>1. PICK sending \in BOOLEAN :
        LET s == main_loop(handled, c, sending)
        IN  /\ ctl' = [ctl EXCEPT ![c] = s.k]
            /\ token' = s.token /\ token_fifo' = s.fifo
            /\ chan' = [l \in Cluster \X Cluster |->
                           IF l[1] = c THEN chan[l] \o s.out[l[2]] ELSE chan[l]]
            /\ data_message' = [data_message EXCEPT ![c] = NoMessage]
            /\ halted' = IF s.halt THEN halted \cup {c} ELSE halted
  BY DEF Turn
<1>2. PICK s : s = main_loop(handled, c, sending)
  OBVIOUS
<1>3. s.halt \/ TurnTrue(Elsewhere(c), c, s)
  BY <1>2, LoopEnds
<1>4. /\ ctl' = [ctl EXCEPT ![c] = s.k]
      /\ token' = s.token /\ token_fifo' = s.fifo
      /\ chan' = [l \in Cluster \X Cluster |->
                     IF l[1] = c THEN chan[l] \o s.out[l[2]] ELSE chan[l]]
      /\ data_message' = [data_message EXCEPT ![c] = NoMessage]
      /\ halted' = IF s.halt THEN halted \cup {c} ELSE halted
  BY <1>1, <1>2
<1>5. TurnTrue(Elsewhere(c), c, s)
  BY <1>3, <1>4
<1>6. Shape(s) /\ PlacedOut(c, s.out) /\ s.token \in Holder
      /\ Only(Held(Elsewhere(c), c, s), s.token)
  BY <1>5 DEF TurnTrue, Turning
<1>7. ASSUME NEW a \in Cluster, NEW b \in Cluster
      PROVE  /\ IsQueue(chan[<<a, b>>])
             /\ a # c => chan'[<<a, b>>] = chan[<<a, b>>]
             /\ a = c => /\ IsQueue(s.out[b]) /\ IsQueue(chan'[<<a, b>>])
                         /\ \A type : Places(chan'[<<a, b>>], type) =
                                Places(chan[<<a, b>>], type)
                                \cup {Len(chan[<<a, b>>]) + i : i \in Places(s.out[b], type)}
  <2>1. IsQueue(chan[<<a, b>>]) /\ IsQueue(s.out[b])
    BY <1>6 DEF TokenInv, TokenTypes, Shape
  <2>2. chan'[<<a, b>>] = IF a = c THEN chan[<<a, b>>] \o s.out[b] ELSE chan[<<a, b>>]
    BY <1>4
  <2>3. QED BY <2>1, <2>2, ConcatPlaces
<1>8. TokenTypes'
  <2>1. DOMAIN ctl' = Cluster /\ \A d \in Cluster : "status" \in DOMAIN ctl'[d]
    BY <1>4, <1>6 DEF TokenInv, TokenTypes, Shape
  <2>2. DOMAIN chan' = Cluster \X Cluster /\ \A l \in Cluster \X Cluster : IsQueue(chan'[l])
    <3>1. \A a, b \in Cluster : IsQueue(chan'[<<a, b>>])
      BY <1>7
    <3>2. \A l \in Cluster \X Cluster : l = <<l[1], l[2]>> /\ l[1] \in Cluster /\ l[2] \in Cluster
      OBVIOUS
    <3>3. \A l \in Cluster \X Cluster : IsQueue(chan'[l])
      BY <3>1, <3>2
    <3>4. QED BY <1>4, <3>3
  <2>3. /\ DOMAIN data_message' = Cluster
        /\ \A d \in Cluster : data_message'[d] = NoMessage \/ data_message'[d].from \in Cluster
    BY <1>4 DEF TokenInv, TokenTypes
  <2>4. token' \in Holder /\ token_fifo' \in Seq(Cluster)
    BY <1>4, <1>6 DEF Shape
  <2>5. QED BY <2>1, <2>2, <2>3, <2>4 DEF TokenTypes
<1>9. ChanPlaced'
  <2>1. SUFFICES ASSUME NEW a \in Cluster, NEW b \in Cluster
                 PROVE  /\ a # Coordinator => Places(chan'[<<a, b>>], "TOKEN_GRANT") = {}
                        /\ b # Coordinator => /\ Places(chan'[<<a, b>>], "TOKEN_REQUEST") = {}
                                              /\ Places(chan'[<<a, b>>], "TOKEN_RELEASE") = {}
    BY DEF ChanPlaced, PlacedOut
  <2>2. /\ a # Coordinator => Places(chan[<<a, b>>], "TOKEN_GRANT") = {}
        /\ b # Coordinator => /\ Places(chan[<<a, b>>], "TOKEN_REQUEST") = {}
                              /\ Places(chan[<<a, b>>], "TOKEN_RELEASE") = {}
    BY DEF TokenInv, ChanPlaced, PlacedOut
  <2>3. CASE a # c
    BY <1>7, <2>2, <2>3
  <2>4. CASE a = c
    <3>1. \A type : Places(s.out[b], type) = {} /\ Places(chan[<<a, b>>], type) = {} =>
              Places(chan'[<<a, b>>], type) = {}
      <4>1. SUFFICES ASSUME NEW type, Places(s.out[b], type) = {}, Places(chan[<<a, b>>], type) = {}
                     PROVE  Places(chan'[<<a, b>>], type) = {}
        OBVIOUS
      <4>2. Places(chan'[<<a, b>>], type) =
                Places(chan[<<a, b>>], type)
                    \cup {Len(chan[<<a, b>>]) + i : i \in Places(s.out[b], type)}
        BY <1>7, <2>4
      <4>3. QED BY <4>1, <4>2
    <3>2. /\ a # Coordinator => Places(s.out[b], "TOKEN_GRANT") = {}
          /\ b # Coordinator => /\ Places(s.out[b], "TOKEN_REQUEST") = {}
                                /\ Places(s.out[b], "TOKEN_RELEASE") = {}
      BY <1>6, <2>4 DEF PlacedOut
    <3>3. QED BY <2>2, <3>1, <3>2
  <2>5. QED BY <2>3, <2>4
<1>10. \A d \in Cluster : data_message'[d] = IF d = c THEN NoMessage ELSE data_message[d]
  BY <1>4 DEF TokenInv, TokenTypes
<1>11. NoMessage.msg.type = "none"
  BY DEF NoMessage
<1>12. DataPlaced'
  BY <1>10, <1>11 DEF TokenInv, DataPlaced
<1>13. ASSUME NEW e \in Cluster
       PROVE  \E f : Signs'[e] = {f[x] : x \in Held(Elsewhere(c), c, s)[e]}
  <2> DEFINE from == Len(chan[<<Coordinator, e>>])
             back == Len(chan[<<c, Coordinator>>])
             H == Held(Elsewhere(c), c, s)[e]
             f == [x \in H |->
                      IF x[1] = "waiting" THEN x[2]
                      ELSE IF x[1] = "master" THEN x
                      ELSE IF x[1] = "granted" THEN <<"grant", from + x[2]>>
                      ELSE <<"release", back + x[2]>>]
             M == IF e # c /\ ctl[e].status = "GLOBAL_MASTER" THEN {<<"master", 0>>} ELSE {}
             G == {<<"grant", i>> : i \in Places(chan[<<Coordinator, e>>], "TOKEN_GRANT")}
             R == {<<"release", i>> : i \in Places(chan[<<e, Coordinator>>], "TOKEN_RELEASE")}
             D == IF e # c /\ data_message[e].msg.type = "TOKEN_GRANT" THEN {<<"grant", 0>>} ELSE {}
             B == IF /\ c # Coordinator /\ data_message[Coordinator].msg.type = "TOKEN_RELEASE"
                     /\ data_message[Coordinator].from = e THEN {<<"release", 0>>} ELSE {}
             m == IF e = c /\ s.k.status = "GLOBAL_MASTER" THEN {<<"master", 0>>} ELSE {}
             g == IF c = Coordinator THEN Places(s.out[e], "TOKEN_GRANT") ELSE {}
             r == IF e = c THEN Places(s.out[Coordinator], "TOKEN_RELEASE") ELSE {}
  <2>1. H = {<<"waiting", x>> : x \in M \cup G \cup R \cup D \cup B} \cup m
                \cup {<<"granted", i>> : i \in g} \cup {<<"released", i>> : i \in r}
    BY DEF Held, Elsewhere
  <2>2. ctl'[e].status = IF e = c THEN s.k.status ELSE ctl[e].status
    BY <1>4 DEF TokenInv, TokenTypes
  <2>3. Places(chan'[<<Coordinator, e>>], "TOKEN_GRANT") =
            Places(chan[<<Coordinator, e>>], "TOKEN_GRANT") \cup {from + i : i \in g}
    BY <1>7, Clusters
  <2>4. Places(chan'[<<e, Coordinator>>], "TOKEN_RELEASE") =
            Places(chan[<<e, Coordinator>>], "TOKEN_RELEASE") \cup {back + i : i \in r}
    <3>1. CASE e = c
      BY <1>7, <3>1, Clusters
    <3>2. CASE e # c
      BY <1>7, <3>2, Clusters
    <3>3. QED BY <3>1, <3>2
  <2>5. Signs'[e] = M \cup m \cup G \cup {<<"grant", from + i>> : i \in g}
                        \cup R \cup {<<"release", back + i>> : i \in r} \cup D \cup B
    <3>1. (IF data_message'[e].msg.type = "TOKEN_GRANT" THEN {<<"grant", 0>>} ELSE {}) = D
      BY <1>10, <1>11
    <3>2. (IF /\ data_message'[Coordinator].msg.type = "TOKEN_RELEASE"
              /\ data_message'[Coordinator].from = e THEN {<<"release", 0>>} ELSE {}) = B
      BY <1>10, <1>11, Clusters
    <3>3. (IF ctl'[e].status = "GLOBAL_MASTER" THEN {<<"master", 0>>} ELSE {}) = M \cup m
      BY <2>2
    <3>4. {<<"grant", i>> : i \in Places(chan'[<<Coordinator, e>>], "TOKEN_GRANT")} =
              G \cup {<<"grant", from + i>> : i \in g}
      BY <2>3
    <3>5. {<<"release", i>> : i \in Places(chan'[<<e, Coordinator>>], "TOKEN_RELEASE")} =
              R \cup {<<"release", back + i>> : i \in r}
      BY <2>4
    <3> HIDE DEF D, B, M, m, G, R, g, r, from, back
    <3>6. QED BY <3>1, <3>2, <3>3, <3>4, <3>5 DEF Signs
  <2>6. \A x \in M \cup G \cup R \cup D \cup B : f[<<"waiting", x>>] = x
    <3> HIDE DEF D, B, M, m, G, R, g, r, H
    <3>1. QED BY <2>1
  <2>7. \A x \in m : f[x] = x
    <3>1. \A x \in m : x = <<"master", 0>>
      OBVIOUS
    <3> HIDE DEF D, B, M, m, G, R, g, r, H
    <3>2. QED BY <2>1, <3>1
  <2>8. /\ \A i \in g : f[<<"granted", i>>] = <<"grant", from + i>>
        /\ \A i \in r : f[<<"released", i>>] = <<"release", back + i>>
    <3> HIDE DEF D, B, M, m, G, R, g, r, H
    <3>1. QED BY <2>1
  <2>9. Signs'[e] = {f[x] : x \in H}
    <3> HIDE DEF D, B, M, m, G, R, g, r, H, f, from, back
    <3>1. ASSUME NEW y \in Signs'[e] PROVE y \in {f[x] : x \in H}
      <4>1. CASE y \in M \cup G \cup R \cup D \cup B
        <5>1. <<"waiting", y>> \in H
          BY <2>1, <4>1
        <5>2. QED BY <2>6, <4>1, <5>1
      <4>2. CASE y \in m
        BY <2>1, <2>7, <4>2
      <4>3. CASE y \in {<<"grant", from + i>> : i \in g}
        BY <2>1, <2>8, <4>3
      <4>4. CASE y \in {<<"release", back + i>> : i \in r}
        BY <2>1, <2>8, <4>4
      <4>5. QED BY <2>5, <3>1, <4>1, <4>2, <4>3, <4>4
    <3>2. ASSUME NEW x \in H PROVE f[x] \in Signs'[e]
      <4>1. CASE x \in {<<"waiting", y>> : y \in M \cup G \cup R \cup D \cup B}
        BY <2>5, <2>6, <4>1
      <4>2. CASE x \in m
        BY <2>5, <2>7, <4>2
      <4>3. CASE x \in {<<"granted", i>> : i \in g}
        BY <2>5, <2>8, <4>3
      <4>4. CASE x \in {<<"released", i>> : i \in r}
        BY <2>5, <2>8, <4>4
      <4>5. QED BY <2>1, <3>2, <4>1, <4>2, <4>3, <4>4
    <3>3. QED BY <3>1, <3>2
  <2> HIDE DEF f
  <2>10. QED BY <2>9
<1>14. Only(Signs', token')
  <2>1. SUFFICES ASSUME NEW e \in Cluster
                 PROVE  IF e = s.token THEN \E x : Signs'[e] = {x} ELSE Signs'[e] = {}
    BY <1>4 DEF Only
  <2>2. PICK f : Signs'[e] = {f[x] : x \in Held(Elsewhere(c), c, s)[e]}
    BY <1>13
  <2>3. CASE e = s.token
    <3>1. PICK x : Held(Elsewhere(c), c, s)[e] = {x}
      BY <1>6, <2>3 DEF Only
    <3>2. Signs'[e] = {f[x]}
      BY <2>2, <3>1
    <3>3. QED BY <2>3, <3>2
  <2>4. CASE e # s.token
    <3>1. Held(Elsewhere(c), c, s)[e] = {}
      BY <1>6, <2>4 DEF Only
    <3>2. QED BY <2>2, <2>4, <3>1
  <2>5. QED BY <2>3, <2>4
<1>15. QED BY <1>8, <1>9, <1>12, <1>14 DEF TokenInv, Only

\* Each handler leaves the token where it is recorded, or stops its controller.
LEMMA ControllerKeeps ==
    ASSUME TokenInv, NEW c \in Cluster, ControllerStep(c), halted' = {}
    PROVE  TokenInv'
<1> DEFINE W == Elsewhere(c)
           type == data_message[c].msg.type
<1> USE DEF Reads
<1>1. CASE TokenRequest(c)
  <2>1. type = "TOKEN_REQUEST" /\ Turn(c, handle_token_request(Begin(c), c, From(c)))
    BY <1>1 DEF TokenRequest
  <2>2. c = Coordinator /\ From(c) \in Cluster
    <3>1. data_message[c] # NoMessage
      BY <2>1 DEF NoMessage
    <3>2. QED BY <2>1, <3>1 DEF TokenInv, DataPlaced, TokenTypes, From
  <2>3. TurnTrue(W, c, Begin(c))
    BY <2>1, BeginOther
  <2>4. PICK r : r = handle_token_request(Begin(c), c, From(c))
    OBVIOUS
  <2>5. r.halt \/ TurnTrue(W, c, r)
    BY <2>2, <2>3, <2>4, RequestServed
  <2>6. QED BY <2>1, <2>4, <2>5, TurnKeeps
<1>2. CASE TokenGrant(c)
  <2>1. type = "TOKEN_GRANT" /\ Turn(c, handle_token_grant(Begin(c), c))
    BY <1>2 DEF TokenGrant
  <2>2. token = c /\ Turning(W, c, Begin(c), NoCluster)
    BY <2>1, BeginGrant
  <2>3. PICK r : r = handle_token_grant(Begin(c), c)
    OBVIOUS
  <2>4. r.halt \/ (r.token = Begin(c).token /\ Turning(W, c, r, c))
    BY <2>2, <2>3, GrantMakesMaster
  <2>5. r.halt \/ TurnTrue(W, c, r)
    BY <2>2, <2>4, BeginShape DEF TurnTrue, Holder
  <2>6. QED BY <2>1, <2>3, <2>5, TurnKeeps
<1>3. CASE TokenRelease(c)
  <2>1. type = "TOKEN_RELEASE" /\ Turn(c, handle_token_release(Begin(c), c))
    BY <1>3 DEF TokenRelease
  <2>2. c = Coordinator /\ Turning(W, c, Begin(c), NoCluster)
    BY <2>1, BeginRelease
  <2>3. PICK r : r = handle_token_release(Begin(c), c)
    OBVIOUS
  <2>4. r.halt \/ TurnTrue(W, c, r)
    BY <2>2, <2>3, ReleaseServed
  <2>5. QED BY <2>1, <2>3, <2>4, TurnKeeps
<1>4. ASSUME NEW r, Turn(c, r), type \notin {"TOKEN_GRANT", "TOKEN_RELEASE"},
             Shape(Begin(c)) => Neutral(Begin(c), r)
      PROVE  TokenInv'
  <2>1. TurnTrue(W, c, Begin(c)) /\ Neutral(Begin(c), r)
    BY <1>4, BeginOther, BeginShape
  <2>2. TurnTrue(W, c, r)
    BY <2>1, NeutralTrue
  <2>3. QED BY <1>4, <2>2, TurnKeeps
<1>5. CASE UpdateBorderRequest(c)
  <2>1. PICK r : r = handle_update_border_request(Begin(c), c, From(c))
    OBVIOUS
  <2>2. Turn(c, r) /\ type = "UPDATE_BORDER_REQUEST"
    BY <1>5, <2>1 DEF UpdateBorderRequest
  <2>3. QED BY <1>4, <2>1, <2>2, NeutralBorderRequest
<1>6. CASE UpdateBorderAck(c)
  <2>1. PICK r : r = handle_update_border_ack(Begin(c), c, From(c), Message(c))
    OBVIOUS
  <2>2. Turn(c, r) /\ type = "UPDATE_BORDER_ACK"
    BY <1>6, <2>1 DEF UpdateBorderAck
  <2>3. QED BY <1>4, <2>1, <2>2, NeutralBorderAck
<1>7. CASE DetailedRoutingRequest(c)
  <2>1. PICK r : r = handle_detailed_routing_request(Begin(c), c, From(c), Message(c))
    OBVIOUS
  <2>2. Turn(c, r) /\ type = "DETAILED_ROUTING_REQUEST"
    BY <1>7, <2>1 DEF DetailedRoutingRequest
  <2>3. QED BY <1>4, <2>1, <2>2, NeutralRoutingRequest
<1>8. CASE DetailedRoutingResponse(c)
  <2>1. PICK r : r = handle_detailed_routing_response(Begin(c), c, From(c), Message(c).found)
    OBVIOUS
  <2>2. Turn(c, r) /\ type = "DETAILED_ROUTING_RESPONSE"
    BY <1>8, <2>1 DEF DetailedRoutingResponse
  <2>3. QED BY <1>4, <2>1, <2>2, NeutralRoutingResponse
<1>9. CASE GlobalModeRelease(c)
  <2>1. PICK r : r = handle_global_mode_release(Begin(c), c, From(c), Message(c))
    OBVIOUS
  <2>2. Turn(c, r) /\ type = "GLOBAL_MODE_RELEASE"
    BY <1>9, <2>1 DEF GlobalModeRelease
  <2>3. QED BY <1>4, <2>1, <2>2, NeutralReleased
<1>10. CASE GlobalModeReleaseAck(c)
  <2>1. PICK r : r = handle_global_mode_release_ack(Begin(c), c)
    OBVIOUS
  <2>2. Turn(c, r) /\ type = "GLOBAL_MODE_RELEASE_ACK"
    BY <1>10, <2>1 DEF GlobalModeReleaseAck
  <2>3. TurnTrue(W, c, Begin(c))
    BY <2>2, BeginOther
  <2>4. r.halt \/ TurnTrue(W, c, r)
    BY <2>1, <2>3, ModeReleaseAcked
  <2>5. QED BY <2>2, <2>4, TurnKeeps
<1>11. CASE LocalReleaseRequest(c)
  <2>1. PICK m : m = Message(c)
    OBVIOUS
  <2>2. PICK r : r = global_path_release(Begin(c), c, m.inport, m.source, m.target,
                                         m.number, m.coordinator, m.subnet)
    OBVIOUS
  <2>3. Turn(c, r) /\ type = "LOCAL_RELEASE_REQUEST"
    BY <1>11, <2>1, <2>2 DEF LocalReleaseRequest
  <2>4. QED BY <1>4, <2>2, <2>3, NeutralPath
<1>12. CASE LocalReleaseAck(c)
  <2>1. PICK r : r = handle_local_release_ack(Begin(c), c, Message(c).number)
    OBVIOUS
  <2>2. Turn(c, r) /\ type = "LOCAL_RELEASE_ACK"
    BY <1>12, <2>1 DEF LocalReleaseAck
  <2>3. TurnTrue(W, c, Begin(c))
    BY <2>2, BeginOther
  <2>4. r.halt \/ TurnTrue(W, c, r)
    BY <2>1, <2>3, LocalReleaseAcked
  <2>5. QED BY <2>2, <2>4, TurnKeeps
<1>13. CASE PathConnection(c)
  <2>1. PICK r : r = handle_component_request(Begin(c), c, Message(c).request)
    OBVIOUS
  <2>2. Turn(c, r) /\ type = "PATH_CONNECTION"
    BY <1>13, <2>1 DEF PathConnection
  <2>3. QED BY <1>4, <2>1, <2>2, NeutralComponent
<1>14. QED
  BY <1>1, <1>2, <1>3, <1>5, <1>6, <1>7, <1>8, <1>9, <1>10, <1>11, <1>12, <1>13
  DEF ControllerStep

\* A message about the token moves on by one place.
LEMMA ServiceKeeps ==
    ASSUME TokenInv, NEW c \in Cluster, NEW from \in Cluster, ReceiveService(c, from)
    PROVE  TokenInv'
<1>1. PICK q : q = chan[<<from, c>>]
  OBVIOUS
<1>2. /\ data_message[c] = NoMessage /\ q # <<>>
      /\ data_message' = [data_message EXCEPT ![c] = [from |-> from, msg |-> Head(q)]]
      /\ chan' = [chan EXCEPT ![<<from, c>>] = Tail(q)]
      /\ ctl' = ctl /\ token' = token /\ token_fifo' = token_fifo
  BY <1>1 DEF ReceiveService, Waits
<1>3. IsQueue(q)
  BY <1>1 DEF TokenInv, TokenTypes
<1>4. \A type : /\ IsQueue(Tail(q))
                /\ Places(Tail(q), type) = {i - 1 : i \in Places(q, type) \ {1}}
                /\ 1 \in Places(q, type) <=> Head(q).type = type
                /\ Places(q, type) \subseteq Nat \ {0}
  BY <1>2, <1>3, TailPlaces
<1>5. \A a, b \in Cluster :
          chan'[<<a, b>>] = IF a = from /\ b = c THEN Tail(q) ELSE chan[<<a, b>>]
  BY <1>2 DEF TokenInv, TokenTypes
<1>6. \A d \in Cluster : data_message'[d] = IF d = c THEN [from |-> from, msg |-> Head(q)]
                                            ELSE data_message[d]
  BY <1>2 DEF TokenInv, TokenTypes
<1>7. data_message[c].msg.type = "none"
  BY <1>2 DEF NoMessage
<1>8. TokenTypes'
  <2>1. DOMAIN chan' = Cluster \X Cluster /\ \A l \in Cluster \X Cluster : IsQueue(chan'[l])
    BY <1>2, <1>4 DEF TokenInv, TokenTypes
  <2>2. QED BY <1>2, <1>6, <2>1 DEF TokenInv, TokenTypes
<1>9. ASSUME NEW type, Places(q, type) = {}
      PROVE  Places(Tail(q), type) = {} /\ Head(q).type # type
  BY <1>4, <1>9
<1>10. /\ from # Coordinator => Places(q, "TOKEN_GRANT") = {}
       /\ c # Coordinator => /\ Places(q, "TOKEN_REQUEST") = {}
                             /\ Places(q, "TOKEN_RELEASE") = {}
  BY <1>1 DEF TokenInv, ChanPlaced, PlacedOut
<1>11. ChanPlaced'
  <2>1. SUFFICES ASSUME NEW a \in Cluster, NEW b \in Cluster
                 PROVE  /\ a # Coordinator => Places(chan'[<<a, b>>], "TOKEN_GRANT") = {}
                        /\ b # Coordinator => /\ Places(chan'[<<a, b>>], "TOKEN_REQUEST") = {}
                                              /\ Places(chan'[<<a, b>>], "TOKEN_RELEASE") = {}
    BY DEF ChanPlaced, PlacedOut
  <2>2. CASE a = from /\ b = c
    BY <1>5, <1>9, <1>10, <2>2
  <2>3. CASE ~(a = from /\ b = c)
    <3>1. chan'[<<a, b>>] = chan[<<a, b>>]
      BY <1>5, <2>3
    <3>2. QED BY <3>1 DEF TokenInv, ChanPlaced, PlacedOut
  <2>4. QED BY <2>2, <2>3
<1>12. DataPlaced'
  <2>1. SUFFICES ASSUME NEW d \in Cluster
                 PROVE  /\ data_message'[d].msg.type = "TOKEN_GRANT" =>
                               data_message'[d].from = Coordinator
                        /\ data_message'[d].msg.type \in {"TOKEN_REQUEST", "TOKEN_RELEASE"} =>
                               d = Coordinator
    BY DEF DataPlaced
  <2>2. CASE d = c
    BY <1>6, <1>9, <1>10, <2>2
  <2>3. CASE d # c
    BY <1>6, <2>3 DEF TokenInv, DataPlaced
  <2>4. QED BY <2>2, <2>3
<1>13. ASSUME NEW e \in Cluster PROVE \E f : Signs'[e] = {f[x] : x \in Signs[e]}
  <2> DEFINE toe == from = Coordinator /\ e = c
             toC == c = Coordinator /\ e = from
             P == Places(chan[<<Coordinator, e>>], "TOKEN_GRANT")
             R == Places(chan[<<e, Coordinator>>], "TOKEN_RELEASE")
             M == IF ctl[e].status = "GLOBAL_MASTER" THEN {<<"master", 0>>} ELSE {}
             D == IF data_message[e].msg.type = "TOKEN_GRANT" THEN {<<"grant", 0>>} ELSE {}
             B == IF /\ data_message[Coordinator].msg.type = "TOKEN_RELEASE"
                     /\ data_message[Coordinator].from = e THEN {<<"release", 0>>} ELSE {}
             f == [x \in Signs[e] |->
                      IF (toe /\ x[1] = "grant") \/ (toC /\ x[1] = "release")
                      THEN <<x[1], x[2] - 1>> ELSE x]
  <2>1. Signs[e] = M \cup {<<"grant", i>> : i \in P} \cup {<<"release", i>> : i \in R} \cup D \cup B
    BY DEF Signs
  <2>2. (toe => D = {}) /\ (toC => B = {})
    BY <1>7
  <2>3. {<<"grant", i>> : i \in Places(chan'[<<Coordinator, e>>], "TOKEN_GRANT")}
            \cup (IF data_message'[e].msg.type = "TOKEN_GRANT" THEN {<<"grant", 0>>} ELSE {}) =
        IF toe THEN {<<"grant", i - 1>> : i \in P} ELSE {<<"grant", i>> : i \in P} \cup D
    <3>1. CASE toe
      <4>1. /\ P = Places(q, "TOKEN_GRANT") /\ chan'[<<Coordinator, e>>] = Tail(q)
            /\ data_message'[e].msg = Head(q)
        BY <1>1, <1>5, <1>6, <3>1
      <4>2. Places(Tail(q), "TOKEN_GRANT") = {i - 1 : i \in P \ {1}}
            /\ (1 \in P <=> Head(q).type = "TOKEN_GRANT") /\ P \subseteq Nat \ {0}
        BY <1>4, <4>1
      <4> HIDE DEF P, D
      <4>3. QED BY <3>1, <4>1, <4>2
    <3>2. CASE ~toe
      <4>1. chan'[<<Coordinator, e>>] = chan[<<Coordinator, e>>]
        BY <1>5, <3>2, Clusters
      <4>2. data_message'[e].msg.type = "TOKEN_GRANT" <=> data_message[e].msg.type = "TOKEN_GRANT"
        BY <1>6, <1>7, <1>9, <1>10, <3>2
      <4>3. QED BY <3>2, <4>1, <4>2
    <3>3. QED BY <3>1, <3>2
  <2>4. {<<"release", i>> : i \in Places(chan'[<<e, Coordinator>>], "TOKEN_RELEASE")}
            \cup (IF /\ data_message'[Coordinator].msg.type = "TOKEN_RELEASE"
                     /\ data_message'[Coordinator].from = e THEN {<<"release", 0>>} ELSE {}) =
        IF toC THEN {<<"release", i - 1>> : i \in R} ELSE {<<"release", i>> : i \in R} \cup B
    <3>1. CASE toC
      <4>1. /\ R = Places(q, "TOKEN_RELEASE") /\ chan'[<<e, Coordinator>>] = Tail(q)
            /\ data_message'[Coordinator] = [from |-> e, msg |-> Head(q)]
        BY <1>1, <1>5, <1>6, <3>1
      <4>2. Places(Tail(q), "TOKEN_RELEASE") = {i - 1 : i \in R \ {1}}
            /\ (1 \in R <=> Head(q).type = "TOKEN_RELEASE") /\ R \subseteq Nat \ {0}
        BY <1>4, <4>1
      <4> HIDE DEF R, B
      <4>3. QED BY <3>1, <4>1, <4>2
    <3>2. CASE ~toC
      <4>1. chan'[<<e, Coordinator>>] = chan[<<e, Coordinator>>]
        BY <1>5, <3>2, Clusters
      <4>2. (/\ data_message'[Coordinator].msg.type = "TOKEN_RELEASE"
             /\ data_message'[Coordinator].from = e)
            <=> (/\ data_message[Coordinator].msg.type = "TOKEN_RELEASE"
                 /\ data_message[Coordinator].from = e)
        BY <1>6, <1>7, <3>2, Clusters
      <4>3. QED BY <3>2, <4>1, <4>2
    <3>3. QED BY <3>1, <3>2
  <2>5. Signs'[e] = M \cup (IF toe THEN {<<"grant", i - 1>> : i \in P}
                            ELSE {<<"grant", i>> : i \in P} \cup D)
                      \cup (IF toC THEN {<<"release", i - 1>> : i \in R}
                            ELSE {<<"release", i>> : i \in R} \cup B)
    <3>1. (IF ctl'[e].status = "GLOBAL_MASTER" THEN {<<"master", 0>>} ELSE {}) = M
      BY <1>2
    <3> HIDE DEF P, R, M, D, B, toe, toC
    <3>2. QED BY <2>3, <2>4, <3>1 DEF Signs
  <2>6. /\ \A x \in M : f[x] = x
        /\ \A i \in P : f[<<"grant", i>>] = IF toe THEN <<"grant", i - 1>> ELSE <<"grant", i>>
        /\ \A i \in R : f[<<"release", i>>] = IF toC THEN <<"release", i - 1>> ELSE <<"release", i>>
        /\ ~toe => \A x \in D : f[x] = x
        /\ ~toC => \A x \in B : f[x] = x
    <3>1. (\A x \in M : x[1] = "master") /\ (\A x \in D : x[1] = "grant")
          /\ (\A x \in B : x[1] = "release")
      OBVIOUS
    <3> HIDE DEF P, R, M, D, B, toe, toC
    <3>2. \A x \in Signs[e] :
              f[x] = IF (toe /\ x[1] = "grant") \/ (toC /\ x[1] = "release")
                     THEN <<x[1], x[2] - 1>> ELSE x
      OBVIOUS
    <3> HIDE DEF f
    <3>3. \A x \in M : f[x] = x
      BY <2>1, <3>1, <3>2
    <3>4. ASSUME NEW i \in P
          PROVE  f[<<"grant", i>>] = IF toe THEN <<"grant", i - 1>> ELSE <<"grant", i>>
      <4>1. PICK x : x = <<"grant", i>>
        OBVIOUS
      <4>2. x \in Signs[e] /\ x[1] = "grant" /\ x[2] = i
        BY <2>1, <4>1
      <4>3. f[x] = IF toe THEN <<x[1], x[2] - 1>> ELSE x
        BY <3>2, <4>2
      <4>4. QED BY <4>1, <4>2, <4>3
    <3>5. ASSUME NEW i \in R
          PROVE  f[<<"release", i>>] = IF toC THEN <<"release", i - 1>> ELSE <<"release", i>>
      <4>1. PICK x : x = <<"release", i>>
        OBVIOUS
      <4>2. x \in Signs[e] /\ x[1] = "release" /\ x[2] = i
        BY <2>1, <4>1
      <4>3. f[x] = IF toC THEN <<x[1], x[2] - 1>> ELSE x
        BY <3>2, <4>2
      <4>4. QED BY <4>1, <4>2, <4>3
    <3>6. (~toe => \A x \in D : f[x] = x) /\ (~toC => \A x \in B : f[x] = x)
      BY <2>1, <3>1, <3>2
    <3>7. QED BY <3>3, <3>4, <3>5, <3>6
  <2>7. Signs'[e] = {f[x] : x \in Signs[e]}
    <3> HIDE DEF P, R, M, D, B, toe, toC, f
    <3>1. ASSUME NEW y \in Signs'[e] PROVE y \in {f[x] : x \in Signs[e]}
      <4>1. CASE y \in M
        BY <2>1, <2>6, <4>1
      <4>2. CASE toe /\ y \in {<<"grant", i - 1>> : i \in P}
        <5>1. PICK i \in P : y = <<"grant", i - 1>>
          BY <4>2
        <5>2. <<"grant", i>> \in Signs[e] /\ f[<<"grant", i>>] = y
          BY <2>1, <2>6, <4>2, <5>1
        <5>3. QED BY <5>2
      <4>3. CASE ~toe /\ y \in {<<"grant", i>> : i \in P}
        BY <2>1, <2>6, <4>3
      <4>4. CASE ~toe /\ y \in D
        BY <2>1, <2>6, <4>4
      <4>5. CASE toC /\ y \in {<<"release", i - 1>> : i \in R}
        <5>1. PICK i \in R : y = <<"release", i - 1>>
          BY <4>5
        <5>2. <<"release", i>> \in Signs[e] /\ f[<<"release", i>>] = y
          BY <2>1, <2>6, <4>5, <5>1
        <5>3. QED BY <5>2
      <4>6. CASE ~toC /\ y \in {<<"release", i>> : i \in R}
        BY <2>1, <2>6, <4>6
      <4>7. CASE ~toC /\ y \in B
        BY <2>1, <2>6, <4>7
      <4>8. QED BY <2>5, <3>1, <4>1, <4>2, <4>3, <4>4, <4>5, <4>6, <4>7
    <3>2. ASSUME NEW x \in Signs[e] PROVE f[x] \in Signs'[e]
      <4>1. CASE x \in M
        BY <2>5, <2>6, <4>1
      <4>2. CASE x \in {<<"grant", i>> : i \in P}
        <5>1. PICK i \in P : x = <<"grant", i>>
          BY <4>2
        <5>2. CASE toe
          BY <2>5, <2>6, <5>1, <5>2
        <5>3. CASE ~toe
          BY <2>5, <2>6, <5>1, <5>3
        <5>4. QED BY <5>2, <5>3
      <4>3. CASE x \in {<<"release", i>> : i \in R}
        <5>1. PICK i \in R : x = <<"release", i>>
          BY <4>3
        <5>2. CASE toC
          BY <2>5, <2>6, <5>1, <5>2
        <5>3. CASE ~toC
          BY <2>5, <2>6, <5>1, <5>3
        <5>4. QED BY <5>2, <5>3
      <4>4. CASE x \in D
        <5>1. ~toe
          BY <2>2, <4>4
        <5>2. QED BY <2>5, <2>6, <4>4, <5>1
      <4>5. CASE x \in B
        <5>1. ~toC
          BY <2>2, <4>5
        <5>2. QED BY <2>5, <2>6, <4>5, <5>1
      <4>6. QED BY <2>1, <3>2, <4>1, <4>2, <4>3, <4>4, <4>5
    <3>3. QED BY <3>1, <3>2
  <2> HIDE DEF f
  <2>8. QED BY <2>7
<1>14. Only(Signs', token')
  <2>1. SUFFICES ASSUME NEW e \in Cluster
                 PROVE  IF e = token THEN \E x : Signs'[e] = {x} ELSE Signs'[e] = {}
    BY <1>2 DEF Only
  <2>2. PICK f : Signs'[e] = {f[x] : x \in Signs[e]}
    BY <1>13
  <2>3. CASE e = token
    <3>1. PICK x : Signs[e] = {x}
      BY <2>3 DEF TokenInv, Only
    <3>2. Signs'[e] = {f[x]}
      BY <2>2, <3>1
    <3>3. QED BY <2>3, <3>2
  <2>4. CASE e # token
    <3>1. Signs[e] = {}
      BY <2>4 DEF TokenInv, Only
    <3>2. QED BY <2>2, <2>4, <3>1
  <2>5. QED BY <2>3, <2>4
<1>15. QED BY <1>8, <1>11, <1>12, <1>14 DEF TokenInv, Only

\* A message that is not about the token.
LEMMA RequestKeeps ==
    ASSUME TokenInv, NEW c \in Cluster, NEW req, ReceiveRequest(c, req)
    PROVE  TokenInv'
<1>1. PICK m : m = [from |-> c, msg |-> [type |-> "PATH_CONNECTION", request |-> req]]
  OBVIOUS
<1>2. /\ data_message[c].msg.type = "none" /\ m.msg.type = "PATH_CONNECTION" /\ m.from = c
      /\ data_message' = [data_message EXCEPT ![c] = m]
      /\ chan' = chan /\ ctl' = ctl /\ token' = token /\ token_fifo' = token_fifo
  BY <1>1 DEF ReceiveRequest, Waits, NoMessage
<1>3. \A d \in Cluster : data_message'[d] = IF d = c THEN m ELSE data_message[d]
  BY <1>2 DEF TokenInv, TokenTypes
<1>4. TokenTypes'
  BY <1>2, <1>3 DEF TokenInv, TokenTypes
<1>5. ChanPlaced' /\ DataPlaced'
  BY <1>2, <1>3 DEF TokenInv, ChanPlaced, DataPlaced
<1>6. ASSUME NEW e \in Cluster PROVE Signs'[e] = Signs[e]
  <2>1. data_message'[e].msg.type = "TOKEN_GRANT" <=> data_message[e].msg.type = "TOKEN_GRANT"
    BY <1>2, <1>3
  <2>2. (/\ data_message'[Coordinator].msg.type = "TOKEN_RELEASE"
         /\ data_message'[Coordinator].from = e)
        <=> (/\ data_message[Coordinator].msg.type = "TOKEN_RELEASE"
             /\ data_message[Coordinator].from = e)
    BY <1>2, <1>3, Clusters
  <2>3. QED BY <1>2, <2>1, <2>2 DEF Signs
<1>7. Only(Signs', token')
  BY <1>2, <1>6 DEF TokenInv, Only
<1>8. QED BY <1>4, <1>5, <1>7 DEF TokenInv, Only

\* At first the token is free and no message is on its way.
LEMMA TokenInit ==
    Init => TokenInv
<1> SUFFICES ASSUME Init PROVE TokenInv
  OBVIOUS
<1>1. /\ \A c \in Cluster : ctl[c].status = "IDLE" /\ "status" \in DOMAIN ctl[c]
      /\ DOMAIN ctl = Cluster
  BY DEF Init
<1>2. /\ token = NoCluster /\ token_fifo = <<>>
      /\ chan = [l \in Cluster \X Cluster |-> <<>>]
      /\ data_message = [c \in Cluster |-> NoMessage]
  BY DEF Init
<1>3. IsQueue(<<>>) /\ \A type : Places(<<>>, type) = {}
  <2>1. <<>> \in Seq({})
    BY EmptySeq
  <2>2. DOMAIN <<>> = {}
    BY EmptySeq
  <2>3. QED BY <2>1, <2>2 DEF IsQueue, Places
<1>4. NoMessage.msg.type = "none"
  BY DEF NoMessage
<1>5. TokenTypes
  <2>1. token_fifo \in Seq(Cluster)
    BY <1>2, EmptySeq
  <2>2. QED BY <1>1, <1>2, <1>3, <2>1 DEF TokenTypes, Holder
<1>6. ChanPlaced /\ DataPlaced
  BY <1>2, <1>3, <1>4 DEF ChanPlaced, PlacedOut, DataPlaced
<1>7. ASSUME NEW e \in Cluster PROVE Signs[e] = {}
  BY <1>1, <1>2, <1>3, <1>4, Clusters DEF Signs
<1>8. QED BY <1>2, <1>5, <1>6, <1>7, Clusters DEF TokenInv, Only

\* A step that changes nothing about the token.
LEMMA TokenSame ==
    ASSUME TokenInv, ctl' = ctl, chan' = chan, data_message' = data_message,
           token' = token, token_fifo' = token_fifo
    PROVE  TokenInv'
<1>1. Signs' = Signs
  BY DEF Signs
<1>2. TokenTypes' /\ ChanPlaced' /\ DataPlaced'
  BY DEF TokenInv, TokenTypes, ChanPlaced, DataPlaced
<1>3. Only(Signs', token')
  BY <1>1 DEF TokenInv
<1>4. QED BY <1>2, <1>3 DEF TokenInv, Only

LEMMA TokenNext ==
    ASSUME halted = {} => TokenInv, [Next]_vars
    PROVE  halted' = {} => TokenInv'
<1> SUFFICES ASSUME halted' = {} PROVE TokenInv'
  OBVIOUS
<1>1. CASE UNCHANGED vars
  <2>1. TokenInv
    BY <1>1 DEF vars
  <2>2. /\ ctl' = ctl /\ chan' = chan /\ data_message' = data_message
        /\ token' = token /\ token_fifo' = token_fifo
    BY <1>1 DEF vars
  <2>3. QED BY <2>1, <2>2, TokenSame
<1>2. ASSUME NEW c \in Cluster, Receive(c) PROVE TokenInv'
  <2>1. CASE \E d \in Cluster : ReceiveService(c, d)
    <3>1. PICK d \in Cluster : ReceiveService(c, d)
      BY <2>1
    <3>2. halted' = halted
      BY <3>1 DEF ReceiveService
    <3>3. QED BY <3>1, <3>2, ServiceKeeps
  <2>2. CASE \E req \in asked : ReceiveRequest(c, req)
    <3>1. PICK req \in asked : ReceiveRequest(c, req)
      BY <2>2
    <3>2. halted' = halted
      BY <3>1 DEF ReceiveRequest
    <3>3. QED BY <3>1, <3>2, RequestKeeps
  <2>3. QED BY <1>2, <2>1, <2>2 DEF Receive
<1>3. ASSUME NEW c \in Cluster, ControllerStep(c) PROVE TokenInv'
  <2>1. \E r : Turn(c, r)
    BY <1>3 DEF ControllerStep, TokenRequest, TokenGrant, TokenRelease, UpdateBorderRequest,
                UpdateBorderAck, DetailedRoutingRequest, DetailedRoutingResponse,
                GlobalModeRelease, GlobalModeReleaseAck, LocalReleaseRequest, LocalReleaseAck,
                PathConnection
  <2>2. halted \subseteq halted'
    BY <2>1 DEF Turn
  <2>3. QED BY <1>3, <2>2, ControllerKeeps
<1>4. ASSUME NEW p \in Pair, ClientStep(p) PROVE TokenInv'
  <2>1. /\ ctl' = ctl /\ chan' = chan /\ data_message' = data_message
        /\ token' = token /\ token_fifo' = token_fifo /\ halted' = halted
    BY <1>4 DEF ClientStep, request_SDN_path, request_SDN_path_release
  <2>2. TokenInv
    BY <2>1
  <2>3. QED BY <2>1, <2>2, TokenSame
<1>5. QED BY <1>1, <1>2, <1>3, <1>4 DEF Next

\* The token of the NoC manager exists once, as long as no controller has stopped:
\* the cluster the coordinator has recorded is master, is about to get the token
\* or has just given it back, and no other is (noc_manager.c:129).
THEOREM TokenIsHeldOnce == Spec => [](NoErrorLoop => TokenHeldOnce)
<1> DEFINE Inv == halted = {} => TokenInv
<1>1. Init => Inv
  BY TokenInit
<1>2. Inv /\ [Next]_vars => Inv'
  BY TokenNext
<1>3. Inv => (NoErrorLoop => TokenHeldOnce)
  BY TokenInvImplies DEF NoErrorLoop
<1>4. QED BY <1>1, <1>2, <1>3, PTL DEF Spec

=============================================================================
