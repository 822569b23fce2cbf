------------------------------ MODULE NoCManager ------------------------------
(***************************************************************************)
(* The NoC manager (noc_manager.c): one controller per cluster sets up and *)
(* releases circuits. A circuit inside its cluster is searched at once. For *)
(* one that crosses clusters the controller of the source asks cluster 0   *)
(* for the token, and with it becomes master: it collects the borders of   *)
(* the other controllers (UPDATE_BORDER), searches a path of clusters, has *)
(* every controller on it search its part (DETAILED_ROUTING), and lets all *)
(* of them configure or give up (GLOBAL_MODE_RELEASE). A release walks     *)
(* from cluster to cluster (LOCAL_RELEASE).                                *)
(*                                                                         *)
(* A controller handles one message at a time; an action is one turn of    *)
(* the loop of main. Its handlers call each other, so each is an operator  *)
(* from the state s of the turn to the next: the globals k of the          *)
(* controller c, the ports, the token, the messages sent and the answers.  *)
(***************************************************************************)
EXTENDS PathSearch

CONSTANTS
    XCluster, YCluster,   \* routers of a cluster
    XNum, YNum,           \* clusters
    CS_NETS,              \* number of circuit-switching subnets
    Pair,                 \* <<source, target>> routers somebody wants connected
    Releasable,           \* the pairs that are released again
    REQUESTER,            \* task id of the requester, in the requests
    MAX_MA_TASKS,
    MaxAsks               \* bound: requests for each pair

Cluster == (0..(XNum - 1)) \X (0..(YNum - 1))
Router  == (0..(XNum * XCluster - 1)) \X (0..(YNum * YCluster - 1))
Subnet  == 0..(CS_NETS - 1)
NC_NUMBER == XNum * YNum
Coordinator == <<0, 0>>
NoCluster == <<-1, -1>>
NoSubnet == -1

ClusterOf(r) == <<r[1] \div XCluster, r[2] \div YCluster>>
Region(c) == {r \in Router : ClusterOf(r) = c}
Addr(r) == 256 * r[1] + r[2]
PortNumber == [EAST |-> 0, WEST |-> 1, NORTH |-> 2, SOUTH |-> 3, LOCAL_OUT |-> 4, LOCAL_IN |-> 5]

ASSUME NoCAssumption ==
    /\ \A n \in {XCluster, YCluster, XNum, YNum, CS_NETS} : n \in Nat \ {0}
    \* detour and plist are arrays of the size of a cluster.
    /\ XNum <= XCluster /\ YNum <= YCluster
    /\ \A p \in Pair : p \in Router \X Router /\ p[1] # p[2]
    /\ Releasable \subseteq Pair
    /\ REQUESTER \in Nat /\ MAX_MA_TASKS \in Nat /\ MaxAsks \in Nat

VARIABLES
    ctl,         \* the globals of each controller
    cs_inport,   \* output port each input port leads to, "free" or "taken"
    token,       \* coordinator: the cluster that has the token, or NoCluster
    token_fifo,  \* coordinator: the clusters that wait for it
    chan,        \* messages in flight between controllers
    data_message, \* the message a controller is handling, with its sender
    asked,       \* requests in flight to a controller
    client,      \* what each requester knows of its pair
    asks,        \* requests made so far
    halted       \* controllers in an endless error loop

vars == <<ctl, cs_inport, token, token_fifo, chan, data_message, asked, client, asks, halted>>

-----------------------------------------------------------------------------
(* The state of a turn *)

Answer(p, subnet) == [pair |-> p, subnet |-> subnet]

\* out has what the turn sends to each controller.
send(s, to, msg) == [s EXCEPT !.out[to] = Append(@, msg)]
Halt(s) == [s EXCEPT !.halt = TRUE]
send_ack_requester(s, pair, subnet) == [s EXCEPT !.answers = Append(@, Answer(pair, subnet))]

\* One message to each controller of a set.
SendAll(s, to, msg) ==
    [s EXCEPT !.out = [d \in Cluster |-> IF d \in to THEN Append(@[d], msg[d]) ELSE @[d]]]

LocalReach(cs, c, n) == {e \in Region(c) \X Side : cs[e[1]][n][e[2]] = "free"}

-----------------------------------------------------------------------------
(* Borders: for each cluster, subnet and border the positions that cannot be
   entered (in) or left (out), as far as the controller knows. *)

Horizontal(b) == b \in {"NORTH", "SOUTH"}
Position(b, r) == IF Horizontal(b) THEN r[1] ELSE r[2]
BorderRouter(c, b) == {r \in Region(c) : Beyond(r, b) \notin Region(c)}
Positions(c, b) == {Position(b, r) : r \in BorderRouter(c, b)}

is_PE_propagable(cs, c, r, b, n) ==
    /\ cs[r][n][b] = "free"
    /\ \E d \in Side : Beyond(r, d) \in Region(c) /\ cs[Beyond(r, d)][n][Opposite[d]] = "free"

is_PE_reachable(cs, c, r, n) ==
    \E d \in Side : Beyond(r, d) \in Region(c) /\ cs[r][n][d] = "free"

build_border_status(s, c) ==
    [s EXCEPT !.k.border[c] = [n \in Subnet |-> [b \in Side |->
        [in  |-> {Position(b, r) : r \in {q \in BorderRouter(c, b) :
                                             ~is_PE_propagable(s.cs, c, q, b, n)}},
         out |-> {Position(b, r) : r \in {q \in BorderRouter(c, b) :
                                             ~is_PE_reachable(s.cs, c, q, n)}}]]]]

\* What blocks the border b of cluster u towards its neighbour: the positions
\* u cannot leave and those the neighbour cannot be entered at.
blocked(k, u, b, n) == k.border[u][n][b].out \cup k.border[Beyond(u, b)][n][Opposite[b]].in

\* The free position next to the axis of the target, the highest of two.
heuristic(free, axis_ref) ==
    CHOOSE i \in free : \A j \in free :
        \/ Abs(i - axis_ref) < Abs(j - axis_ref)
        \/ Abs(i - axis_ref) = Abs(j - axis_ref) /\ i >= j

\* The router of cluster c on border b at which a path to target crosses.
Crossing(c, b, closed, target) ==
    CHOOSE r \in BorderRouter(c, b) :
        Position(b, r) = heuristic(Positions(c, b) \ closed, Position(b, target))

\* A cluster is entered from its neighbour if that one has a free way to it.
GlobalReach(k, n) ==
    {e \in Cluster \X Side :
        LET u == Beyond(e[1], e[2])
            b == Opposite[e[2]]
        IN  u \in Cluster /\ k.available[e[1]][n] /\ blocked(k, u, b, n) # Positions(u, b)}

-----------------------------------------------------------------------------
(* Ports *)

\* The ports of subnet n lead to out, and used more of them lead on.
SetPorts(s, n, out, used) ==
    [s EXCEPT !.cs = [r \in Router |-> [s.cs[r] EXCEPT ![n] = out[r]]],
              !.k.subnet_utilization[n] = @ + used]

\* retrace of a path inside a cluster: its ports are taken, and LOCAL_OUT of the
\* target has an owner although it leads nowhere.
Occupy(s, n, hops) ==
    LET outport(r, p) ==
            LET H == {i \in DOMAIN hops : hops[i].router = r /\ hops[i].inport = p}
            IN  IF H # {} THEN hops[CHOOSE i \in H : TRUE].outport
                ELSE IF p = "LOCAL_OUT" /\ hops[1].outport = p /\ r = hops[1].router THEN "taken"
                ELSE s.cs[r][n][p]
    IN  SetPorts(s, n, [r \in Router |-> [p \in Port |-> outport(r, p)]], hops_count(hops))
Configure(s, c, n, plist, beg_inport, end_outport) ==
    Occupy(s, n, retrace(LocalReach(s.cs, c, n), plist, beg_inport, end_outport))

\* The ports at the stops of a walk are given back; gone is its last stop. A walk
\* that ends neither at the target nor outside the cluster has lost its path.
GiveBack(s, c, n, target, stops) ==
    LET mine == {i \in DOMAIN stops : stops[i].router \in Region(c)}
        hops == {i \in mine : /\ stops[i].router # target
                              /\ Passes(stops[i].inport, s.cs[stops[i].router][n][stops[i].inport])}
        gone == Last(stops)
        given(r, p) == \/ \E i \in mine : stops[i].router = r /\ stops[i].inport = p
                       \/ p = "LOCAL_OUT" /\ r = target /\ r \in Region(c) /\ r = gone.router
        freed == SetPorts(s, n,
            [r \in Router |-> [p \in Port |-> IF given(r, p) THEN "free" ELSE s.cs[r][n][p]]],
            -Cardinality(hops))
    IN  [s |-> IF gone.router = target \/ gone.router \notin Region(c) THEN freed ELSE Halt(freed),
         gone |-> gone]
CS_connection_release(s, c, src, inport, target, n) ==
    GiveBack(s, c, n, target,
             walk([r \in Router |-> s.cs[r][n]], Region(c), src, inport, target))

-----------------------------------------------------------------------------
(* Search inside the cluster *)

\* The subnets in turn from the one after the last used, first for a path
\* without detours, then for any.
SubnetOf(k, i) == (k.subnet_selector + i) % CS_NETS
LocalPath(s, c, src, tgt, i) ==
    LET n == SubnetOf(s.k, i)
    IN  IF s.cs[src][n]["LOCAL_IN"] = "free" /\ s.cs[tgt][n]["LOCAL_OUT"] = "free"
        THEN hadlock(LocalReach(s.cs, c, n), src, tgt, Cardinality(Region(c)), i <= CS_NETS)
        ELSE NoPath
UsePath(s, c, src, tgt, n, plist) ==
    send_ack_requester(
        Configure([s EXCEPT !.k.subnet_selector = n], c, n, plist, "LOCAL_IN", "LOCAL_OUT"),
        <<src, tgt>>, n)
UseFirst(s, c, src, tgt, paths) ==
    LET first == SelectInSeq(paths, LAMBDA path : path.found)
    IN  IF first = 0 THEN send_ack_requester(s, <<src, tgt>>, NoSubnet)
        ELSE UsePath(s, c, src, tgt, SubnetOf(s.k, first), paths[first].plist)

CS_connection_setup(s, c, src, tgt) ==
    UseFirst(s, c, src, tgt, [i \in 1..(2 * CS_NETS) |-> LocalPath(s, c, src, tgt, i)])

new_local_path(s, c, req) ==
    IF req.subnet = NoSubnet THEN CS_connection_setup(s, c, req.source, req.target)
    ELSE LET r == CS_connection_release(s, c, req.source, "LOCAL_IN", req.target, req.subnet)
         IN  IF r.gone.router = req.target
             THEN send_ack_requester(r.s, <<req.source, req.target>>, req.subnet)
             ELSE Halt(s)

-----------------------------------------------------------------------------
(* Routing between the clusters *)

\* The clusters of a path of clusters, and the part of one of them.
On(path) == {path[i].router : i \in DOMAIN path}
PartOf(path, c) == path[CHOOSE i \in DOMAIN path : path[i].router = c]

\* Only with a hadlock of its own does the controller overwrite plist.
Searched(s, search) == [s |-> [s EXCEPT !.k.plist = search.plist], found |-> search.found]
RouteBetween(s, c, n, src, tgt, entry, exit) ==
    IF \/ entry = "LOCAL_IN" /\ s.cs[src][n]["LOCAL_IN"] # "free"
       \/ exit = "LOCAL_OUT" /\ s.cs[tgt][n]["LOCAL_OUT"] # "free"
    THEN [s |-> s, found |-> FALSE]
    ELSE Searched(s, hadlock(LocalReach(s.cs, c, n),
                             src, tgt, Cardinality(Region(c)), FALSE))
detailed_routing(s, c, req, entry, exit) ==
    LET n == req.subnet
    IN  RouteBetween(s, c, n,
            IF entry = "LOCAL_IN" THEN req.source
            ELSE Crossing(c, entry, blocked(s.k, Beyond(c, entry), Opposite[entry], n), req.target),
            IF exit = "LOCAL_OUT" THEN req.target
            ELSE Crossing(c, exit, blocked(s.k, c, exit, n), req.target),
            entry, exit)

\* Mutant of NoteResponse: a cluster that refused is asked again.
AskedAgain(s, c, from, found) == [s EXCEPT !.k.counter = @ + 1, !.k.all_ok = @ /\ found]

\* One more answer. A refusal takes the cluster out of the search in this subnet,
\* and the target cluster when it comes from one of the two ends.
NoteResponse(s, c, from, found) ==
    LET k == s.k
        n == k.request.subnet
        tgt == k.cluster_path[1].router
        off == {from} \cup (IF from \in {c, tgt} THEN {tgt} ELSE {})
    IN  [s EXCEPT !.k.counter = @ + 1,
                  !.k.all_ok = @ /\ found,
                  !.k.available = IF found THEN @
                      ELSE [d \in Cluster |-> IF d \in off THEN [@[d] EXCEPT ![n] = FALSE] ELSE @[d]]]

\* Configure (ok) or give up: the others are told, the master configures its part.
send_global_mode_release(s, c, ok) ==
    LET k == s.k
        part(d) == PartOf(k.cluster_path, d)
        on(d) == ok /\ d \in On(k.cluster_path)
        told == SendAll([s EXCEPT !.k.counter = 1], Cluster \ {c},
            [d \in Cluster \ {c} |->
                IF on(d) THEN [type |-> "GLOBAL_MODE_RELEASE", configure |-> TRUE,
                               inport |-> part(d).inport, outport |-> part(d).outport,
                               subnet |-> k.request.subnet]
                ELSE [type |-> "GLOBAL_MODE_RELEASE", configure |-> FALSE]])
    IN  IF ~ok THEN told
        ELSE IF ~on(c) THEN Halt(told)
        ELSE Configure(told, c, k.request.subnet, k.plist, part(c).inport, part(c).outport)

compute_subnet_utilization_of_path(k, path, n) ==
    FoldLeft(LAMBDA sum, hop : sum + k.utilization[hop.router][n], 0, path)

\* The path of clusters of each subnet that has one.
FoundPaths(k, found) ==
    [n \in {m \in Subnet : found[m].found} |->
        retrace(GlobalReach(k, n), found[n].plist, "LOCAL_IN", "LOCAL_OUT")]
ClusterPaths(k, min_path) ==
    FoundPaths(k, [n \in Subnet |->
        hadlock(GlobalReach(k, n), ClusterOf(k.request.source), ClusterOf(k.request.target),
                NC_NUMBER, min_path)])

\* The least used subnet, then the shortest path, then the lowest subnet.
BestSubnet(k, paths) ==
    LET cost(n) == compute_subnet_utilization_of_path(k, paths[n], n)
        before(n, m) == \/ cost(n) < cost(m)
                        \/ cost(n) = cost(m) /\ Len(paths[n]) < Len(paths[m])
                        \/ cost(n) = cost(m) /\ Len(paths[n]) = Len(paths[m]) /\ n <= m
    IN  CHOOSE n \in DOMAIN paths : \A m \in DOMAIN paths : before(n, m)

\* Every controller of the path gets the borders of the path; the master routes
\* its own part at once. Its answer is never the last one: the path has another
\* cluster.
AskParts(s, c, req, path) ==
    LET known == [d \in On(path) |-> s.k.border[d][req.subnet]]
        ask(d) == [type |-> "DETAILED_ROUTING_REQUEST", request |-> req, known |-> known,
                   entry |-> PartOf(path, d).inport, exit |-> PartOf(path, d).outport]
    IN  SendAll([s EXCEPT !.k.request = req, !.k.cluster_path = path,
                          !.k.path_size = Len(path), !.k.counter = 0],
                On(path) \ {c}, [d \in On(path) |-> ask(d)])
NoteOwn(c, r) == NoteResponse(r.s, c, c, r.found)
RouteParts(s, c, req, path) ==
    LET mine == PartOf(path, c)
    IN  NoteOwn(c, detailed_routing(AskParts(s, c, req, path), c, req, mine.inport, mine.outport))
RouteIn(s, c, n) == RouteParts(s, c, [s.k.request EXCEPT !.subnet = n], ClusterPaths(s.k, FALSE)[n])

\* The first attempt looks for minimal paths first. A master without a path gives up.
RouteBest(s, c, paths) ==
    IF DOMAIN paths = {}
    THEN send_global_mode_release([s EXCEPT !.k.request.subnet = NoSubnet], c, FALSE)
    ELSE RouteIn(s, c, BestSubnet(s.k, paths))
global_routing(s, c) ==
    LET minimal == ClusterPaths(s.k, TRUE)
        min_path == s.k.attempts <= 1 /\ DOMAIN minimal # {}
    IN  RouteBest(s, c, IF min_path THEN minimal ELSE ClusterPaths(s.k, FALSE))

-----------------------------------------------------------------------------
(* Release across clusters *)

\* Word 3 of the LOCAL_RELEASE_ACK, which says that this controller is the last
\* one, is written but not sent: the message has three words.
PassOn(r, c, target, number, coordinator, n) ==
    LET next == r.gone.router
        passed == IF ClusterOf(next) = c THEN r.s
                  ELSE send(r.s, ClusterOf(next),
                            [type |-> "LOCAL_RELEASE_REQUEST", inport |-> r.gone.inport,
                             source |-> next, target |-> target, number |-> number + 1,
                             coordinator |-> coordinator, subnet |-> n])
    IN  IF coordinator = c THEN passed
        ELSE send(passed, coordinator, [type |-> "LOCAL_RELEASE_ACK", number |-> number])
global_path_release(s, c, inport, source, target, number, coordinator, n) ==
    IF s.cs[source][n][inport] = "free" THEN Halt(s)
    ELSE PassOn(CS_connection_release([s EXCEPT !.k.path_size = 0], c, source, inport, target, n),
                c, target, number, coordinator, n)

-----------------------------------------------------------------------------
(* Token *)

send_update_border_request(s, c) ==
    SendAll([build_border_status(s, c) EXCEPT !.k.counter = 1], Cluster \ {c},
            [d \in Cluster \ {c} |-> [type |-> "UPDATE_BORDER_REQUEST"]])

handle_token_grant(s, c) ==
    LET req == s.k.request
        master == [s EXCEPT !.k.status = "GLOBAL_MASTER", !.k.token_requested = FALSE]
    IN  IF s.k.status # "IDLE" \/ ~s.k.token_requested THEN Halt(s)
        ELSE IF req.subnet = NoSubnet THEN send_update_border_request(master, c)
        ELSE global_path_release([master EXCEPT !.k.counter = 1], c, "LOCAL_IN",
                                 req.source, req.target, 1, c, req.subnet)

send_token(s, c, to) ==
    IF to = c THEN handle_token_grant(s, c) ELSE send(s, to, [type |-> "TOKEN_GRANT"])

\* Mutant of handle_token_request: the new holder is not recorded.
HolderForgotten(s, c, requester) ==
    IF s.token = NoCluster THEN send_token(s, c, requester)
    ELSE [s EXCEPT !.fifo = Append(@, requester)]

\* The token goes out before its holder is recorded.
handle_token_request(s, c, requester) ==
    IF s.token = NoCluster THEN [send_token(s, c, requester) EXCEPT !.token = requester]
    ELSE IF Len(s.fifo) = NC_NUMBER THEN Halt(s)
    ELSE [s EXCEPT !.fifo = Append(@, requester)]

handle_token_release(s, c) ==
    IF s.fifo = <<>> THEN [s EXCEPT !.token = NoCluster]
    ELSE send_token([s EXCEPT !.token = Head(s.fifo), !.fifo = Tail(s.fifo)], c, Head(s.fifo))

send_token_release(s, c) ==
    LET idle == [s EXCEPT !.k.status = "IDLE"]
    IN  IF s.k.status # "GLOBAL_MASTER" THEN Halt(s)
        ELSE IF c = Coordinator THEN handle_token_release(idle, c)
        ELSE send(idle, Coordinator, [type |-> "TOKEN_RELEASE"])

-----------------------------------------------------------------------------
(* Messages of the other controllers *)

\* Mutant of handle_update_border_request: the slave goes on serving its region.
StaysIdle(s, c, from) ==
    send(build_border_status(s, c), from,
         [type |-> "UPDATE_BORDER_ACK", border |-> build_border_status(s, c).k.border[c],
          utilization |-> s.k.subnet_utilization])

handle_update_border_request(s, c, from) ==
    LET s1 == build_border_status(s, c)
    IN  IF s.k.status # "IDLE" THEN Halt(s)
        ELSE send([s1 EXCEPT !.k.status = "GLOBAL_SLAVE"], from,
                  [type |-> "UPDATE_BORDER_ACK", border |-> s1.k.border[c],
                   utilization |-> s.k.subnet_utilization])

RouteGlobally(s, c) ==
    global_routing(
        [s EXCEPT !.k.utilization[c] = [n \in Subnet |-> @[n] + s.k.subnet_utilization[n]],
                  !.k.available = [d \in Cluster |-> [n \in Subnet |-> TRUE]],
                  !.k.attempts = 1], c)
NoteBorder(s, from, msg) ==
    [s EXCEPT !.k.utilization[from] = msg.utilization, !.k.border[from] = msg.border,
              !.k.counter = @ + 1]

\* Mutant of handle_update_border_ack: the last answer is not waited for.
OneAckShort(s, c, from, msg) ==
    LET s1 == NoteBorder(s, from, msg)
    IN  IF s1.k.counter = NC_NUMBER - 1 THEN RouteGlobally(s1, c) ELSE s1

handle_update_border_ack(s, c, from, msg) ==
    LET s1 == NoteBorder(s, from, msg)
    IN  IF s1.k.counter = NC_NUMBER THEN RouteGlobally(s1, c) ELSE s1

handle_detailed_routing_request(s, c, from, msg) ==
    LET n == msg.request.subnet
        s1 == [s EXCEPT !.k.border = [d \in Cluster |->
                   IF d \in DOMAIN msg.known THEN [@[d] EXCEPT ![n] = msg.known[d]] ELSE @[d]]]
        r == detailed_routing(s1, c, msg.request, msg.entry, msg.exit)
    IN  send(r.s, from, [type |-> "DETAILED_ROUTING_RESPONSE", found |-> r.found,
                         entry |-> msg.entry])

\* Only whether there was an attempt before is ever asked.
handle_detailed_routing_response(s, c, from, found) ==
    LET s1 == NoteResponse(s, c, from, found)
    IN  IF s1.k.counter # s1.k.path_size THEN s1
        ELSE IF s1.k.all_ok THEN send_global_mode_release(s1, c, TRUE)
        ELSE global_routing([s1 EXCEPT !.k.all_ok = TRUE, !.k.attempts = 2], c)

handle_global_mode_release(s, c, from, msg) ==
    LET s1 == IF msg.configure THEN Configure(s, c, msg.subnet, s.k.plist, msg.inport, msg.outport)
              ELSE s
    IN  IF s.k.status # "GLOBAL_SLAVE" THEN Halt(s1)
        ELSE send([s1 EXCEPT !.k.status = "IDLE"], from, [type |-> "GLOBAL_MODE_RELEASE_ACK"])

\* Mutant of handle_global_mode_release_ack: the first answer ends the request.
FirstAckEnds(s, c) ==
    LET req == s.k.request
    IN  send_token_release([send_ack_requester(s, <<req.source, req.target>>, req.subnet)
                                EXCEPT !.k.counter = @ + 1, !.k.path_size = 0], c)

handle_global_mode_release_ack(s, c) ==
    LET s1 == [s EXCEPT !.k.counter = @ + 1]
        req == s.k.request
    IN  IF s1.k.counter # NC_NUMBER THEN s1
        ELSE send_token_release([send_ack_requester(s1, <<req.source, req.target>>, req.subnet)
                                    EXCEPT !.k.path_size = 0], c)

\* is_last_controller is word 3 of the buffer, left there by an earlier message.
handle_local_release_ack(s, c, number) ==
    LET s1 == [s EXCEPT !.k.counter = @ + 1,
                        !.k.path_size = IF s.k.data3 = 1 THEN number ELSE @]
        req == s.k.request
    IN  IF s1.k.counter # s1.k.path_size THEN s1
        ELSE send_token_release(send_ack_requester(s1, <<req.source, req.target>>, req.subnet), c)

-----------------------------------------------------------------------------
(* Requests and the loop of main *)

is_local_connection(c, req) == req.source \in Region(c) /\ req.target \in Region(c)

\* Both queues have NC_NUMBER places; a request too many stops the controller.
handle_component_request(s, c, req) ==
    LET full(q) == Len(q) = NC_NUMBER
    IN  IF is_local_connection(c, req)
        THEN IF full(s.k.local_queue) THEN Halt(s) ELSE [s EXCEPT !.k.local_queue = Append(@, req)]
        ELSE IF full(s.k.global_queue) THEN Halt(s) ELSE [s EXCEPT !.k.global_queue = Append(@, req)]

new_global_path(s, c, req) ==
    LET s1 == [s EXCEPT !.k.request = req, !.k.token_requested = TRUE]
    IN  IF c = Coordinator THEN handle_token_request(s1, c, c)
        ELSE send(s1, Coordinator, [type |-> "TOKEN_REQUEST"])

\* A request out of a queue, the global one first while no token is asked for.
TakeRequest(s, c) ==
    LET k == s.k
    IN  IF ~k.token_requested /\ k.global_queue # <<>>
        THEN new_global_path([s EXCEPT !.k.global_queue = Tail(@)], c, Head(k.global_queue))
        ELSE IF k.local_queue # <<>>
        THEN new_local_path([s EXCEPT !.k.local_queue = Tail(@)], c, Head(k.local_queue))
        ELSE s

\* What follows the message. An idle controller takes at most one request, and
\* none while the DMNI is sending; one that is not idle goes to the second
\* ReceiveService of the loop, after which no request is looked for.
main_loop(s, c, sending) ==
    IF s.halt THEN s
    ELSE IF s.k.at = "second" THEN [s EXCEPT !.k.at = "first"]
    ELSE IF s.k.status # "IDLE" THEN [s EXCEPT !.k.at = "second"]
    ELSE IF sending THEN s ELSE TakeRequest(s, c)

\* Word 3 of the buffer of main: shorter messages leave it alone.
word3(msg, old) ==
    CASE msg.type = "UPDATE_BORDER_ACK" -> msg.utilization[0]
      [] msg.type = "DETAILED_ROUTING_REQUEST" -> Addr(msg.request.target)
      [] msg.type = "DETAILED_ROUTING_RESPONSE" -> PortNumber[msg.entry]
      [] msg.type = "LOCAL_RELEASE_REQUEST" -> Addr(msg.target)
      [] msg.type = "GLOBAL_MODE_RELEASE" -> IF msg.configure THEN PortNumber[msg.inport] ELSE old
      [] msg.type = "PATH_CONNECTION" -> REQUESTER
      [] OTHER -> old

NoMessage == [from |-> NoCluster, msg |-> [type |-> "none"]]

\* The state at the start of the turn of controller c.
Begin(c) ==
    [k |-> [ctl[c] EXCEPT !.data3 = word3(data_message[c].msg, @)], cs |-> cs_inport,
     token |-> token, fifo |-> token_fifo, out |-> [d \in Cluster |-> <<>>],
     answers |-> <<>>, halt |-> FALSE]

\* A requester learns the answer: a turn may end one request and serve another.
Told(known, a) ==
    [known EXCEPT ![a.pair] =
        IF @.state = "freeing" THEN [state |-> "free", subnet |-> NoSubnet]
        ELSE [state |-> IF a.subnet = NoSubnet THEN "refused" ELSE "held", subnet |-> a.subnet]]

\* The turn: handled is the state after handle_packet.
Turn(c, handled) ==
    \E sending \in BOOLEAN :
        LET s == main_loop(handled, c, sending)
        IN  /\ ctl' = [ctl EXCEPT ![c] = s.k]
            /\ cs_inport' = s.cs /\ token' = s.token /\ token_fifo' = s.fifo
            /\ chan' = [l \in Cluster \X Cluster |->
                           IF l[1] = c THEN chan[l] \o s.out[l[2]] ELSE chan[l]]
            /\ data_message' = [data_message EXCEPT ![c] = NoMessage]
            /\ client' = FoldLeft(Told, client, s.answers)
            /\ halted' = IF s.halt THEN halted \cup {c} ELSE halted
            /\ UNCHANGED <<asked, asks>>

Reads(c, type) == c \notin halted /\ data_message[c].msg.type = type

-----------------------------------------------------------------------------
(* Actions *)

\* ReceiveService returns with a message of another controller, or with a request:
\* PATH_CONNECTION_REQUEST or PATH_CONNECTION_RELEASE.
Waits(c) == c \notin halted /\ data_message[c] = NoMessage
ReceiveService(c, from) ==
    /\ Waits(c) /\ chan[<<from, c>>] # <<>>
    /\ data_message' = [data_message EXCEPT ![c] = [from |-> from, msg |-> Head(chan[<<from, c>>])]]
    /\ chan' = [chan EXCEPT ![<<from, c>>] = Tail(@)]
    /\ UNCHANGED <<ctl, cs_inport, token, token_fifo, asked, client, halted, asks>>
ReceiveRequest(c, req) ==
    /\ Waits(c) /\ req \in asked /\ ClusterOf(req.source) = c
    /\ data_message' = [data_message EXCEPT ![c] =
                           [from |-> c, msg |-> [type |-> "PATH_CONNECTION", request |-> req]]]
    /\ asked' = asked \ {req}
    /\ UNCHANGED <<ctl, cs_inport, token, token_fifo, chan, client, halted, asks>>

Message(c) == data_message[c].msg
From(c) == data_message[c].from

TokenRequest(c) ==
    Reads(c, "TOKEN_REQUEST") /\ Turn(c, handle_token_request(Begin(c), c, From(c)))
TokenGrant(c) ==
    Reads(c, "TOKEN_GRANT") /\ Turn(c, handle_token_grant(Begin(c), c))
TokenRelease(c) ==
    Reads(c, "TOKEN_RELEASE") /\ Turn(c, handle_token_release(Begin(c), c))
UpdateBorderRequest(c) ==
    /\ Reads(c, "UPDATE_BORDER_REQUEST")
    /\ Turn(c, handle_update_border_request(Begin(c), c, From(c)))
UpdateBorderAck(c) ==
    /\ Reads(c, "UPDATE_BORDER_ACK")
    /\ Turn(c, handle_update_border_ack(Begin(c), c, From(c), Message(c)))
DetailedRoutingRequest(c) ==
    /\ Reads(c, "DETAILED_ROUTING_REQUEST")
    /\ Turn(c, handle_detailed_routing_request(Begin(c), c, From(c), Message(c)))
DetailedRoutingResponse(c) ==
    /\ Reads(c, "DETAILED_ROUTING_RESPONSE")
    /\ Turn(c, handle_detailed_routing_response(Begin(c), c, From(c), Message(c).found))
GlobalModeRelease(c) ==
    /\ Reads(c, "GLOBAL_MODE_RELEASE")
    /\ Turn(c, handle_global_mode_release(Begin(c), c, From(c), Message(c)))
GlobalModeReleaseAck(c) ==
    /\ Reads(c, "GLOBAL_MODE_RELEASE_ACK")
    /\ Turn(c, handle_global_mode_release_ack(Begin(c), c))
LocalReleaseRequest(c) ==
    /\ Reads(c, "LOCAL_RELEASE_REQUEST")
    /\ LET m == Message(c)
       IN  Turn(c, global_path_release(Begin(c), c, m.inport, m.source, m.target,
                                       m.number, m.coordinator, m.subnet))
LocalReleaseAck(c) ==
    /\ Reads(c, "LOCAL_RELEASE_ACK")
    /\ Turn(c, handle_local_release_ack(Begin(c), c, Message(c).number))
PathConnection(c) ==
    /\ Reads(c, "PATH_CONNECTION")
    /\ Turn(c, handle_component_request(Begin(c), c, Message(c).request))

\* request_SDN_path and request_SDN_path_release send to the controller of the
\* source. A pair has one request under way.
request_SDN_path(p) ==
    /\ client[p].state \in {"free", "refused"} /\ asks[p] < MaxAsks
    /\ asks' = [asks EXCEPT ![p] = @ + 1]
    /\ asked' = asked \cup {[source |-> p[1], target |-> p[2], subnet |-> NoSubnet]}
    /\ client' = [client EXCEPT ![p].state = "asked"]
    /\ UNCHANGED <<ctl, cs_inport, token, token_fifo, chan, data_message, halted>>

request_SDN_path_release(p) ==
    /\ p \in Releasable /\ client[p].state = "held"
    /\ asked' = asked \cup {[source |-> p[1], target |-> p[2], subnet |-> client[p].subnet]}
    /\ client' = [client EXCEPT ![p].state = "freeing"]
    /\ UNCHANGED <<ctl, cs_inport, token, token_fifo, chan, data_message, halted, asks>>

-----------------------------------------------------------------------------
NoBorder == [n \in Subnet |-> [b \in Side |-> [in |-> {}, out |-> {}]]]

Init ==
    /\ ctl = [c \in Cluster |->
                [status |-> "IDLE", at |-> "first", token_requested |-> FALSE,
                 request |-> [source |-> <<0, 0>>, target |-> <<0, 0>>, subnet |-> NoSubnet],
                 counter |-> 0, path_size |-> 0, attempts |-> 0, all_ok |-> TRUE,
                 local_queue |-> <<>>, global_queue |-> <<>>, plist |-> <<>>, cluster_path |-> <<>>,
                 border |-> [d \in Cluster |-> NoBorder],
                 available |-> [d \in Cluster |-> [n \in Subnet |-> FALSE]],
                 utilization |-> [d \in Cluster |-> [n \in Subnet |-> 0]],
                 subnet_utilization |-> [n \in Subnet |-> 0],
                 subnet_selector |-> 0, data3 |-> MAX_MA_TASKS]]
    /\ cs_inport = [r \in Router |-> [n \in Subnet |-> [p \in Port |-> "free"]]]
    /\ token = NoCluster /\ token_fifo = <<>>
    /\ chan = [l \in Cluster \X Cluster |-> <<>>]
    /\ data_message = [c \in Cluster |-> NoMessage]
    /\ asked = {}
    /\ client = [p \in Pair |-> [state |-> "free", subnet |-> NoSubnet]]
    /\ asks = [p \in Pair |-> 0]
    /\ halted = {}

Receive(c) == (\E d \in Cluster : ReceiveService(c, d)) \/ (\E req \in asked : ReceiveRequest(c, req))

ControllerStep(c) ==
    \/ TokenRequest(c) \/ TokenGrant(c) \/ TokenRelease(c)
    \/ UpdateBorderRequest(c) \/ UpdateBorderAck(c)
    \/ DetailedRoutingRequest(c) \/ DetailedRoutingResponse(c)
    \/ GlobalModeRelease(c) \/ GlobalModeReleaseAck(c)
    \/ LocalReleaseRequest(c) \/ LocalReleaseAck(c)
    \/ PathConnection(c)

ClientStep(p) == request_SDN_path(p) \/ request_SDN_path_release(p)

Next ==
    \/ \E c \in Cluster : Receive(c) \/ ControllerStep(c)
    \/ \E p \in Pair : ClientStep(p)

Spec == Init /\ [][Next]_vars

\* Every step of a controller ends the handling of its message.
TurnEnds(c) == /\ c \notin halted /\ data_message[c] # NoMessage
               /\ data_message' = [data_message EXCEPT ![c] = NoMessage]

\* While some controller has something to receive, one receives, and while some
\* handler runs, one ends; nobody has to ask, and no controller is favoured. The
\* second is said of data_message alone: only the step of the controller takes its
\* message away.
FairSpec ==
    /\ Spec
    /\ WF_data_message(\E c \in Cluster : Receive(c))
    /\ WF_data_message(\E c \in Cluster : TurnEnds(c))

-----------------------------------------------------------------------------
(* Properties *)

\* Sent by c to d, and not handled yet.
Pending(c, d) == {chan[<<c, d>>][i] : i \in DOMAIN chan[<<c, d>>]}
                     \cup (IF data_message[d].from = c THEN {data_message[d].msg} ELSE {})
InFlight(c, d, type) == \E m \in Pending(c, d) : m.type = type
Quiet == /\ \A c \in Cluster : ctl[c].status = "IDLE" /\ data_message[c] = NoMessage
         /\ \A l \in DOMAIN chan : chan[l] = <<>>
Using == {p \in Pair : client[p].state \in {"held", "freeing"}}

\* The type of the state that crosses controllers, and the bounds of the queues.
TypeOK ==
    /\ \A c \in Cluster :
        /\ ctl[c].status \in {"IDLE", "GLOBAL_SLAVE", "GLOBAL_MASTER"}
        /\ Len(ctl[c].local_queue) <= NC_NUMBER /\ Len(ctl[c].global_queue) <= NC_NUMBER
        /\ \A n \in Subnet : ctl[c].subnet_utilization[n] \in Nat
    /\ cs_inport \in [Router -> [Subnet -> [Port -> Side \cup {"LOCAL_OUT", "free", "taken"}]]]
    /\ token \in Cluster \cup {NoCluster} /\ Len(token_fifo) <= NC_NUMBER - 1
    /\ client \in [Pair -> [state : {"free", "asked", "held", "freeing", "refused"},
                            subnet : Subnet \cup {NoSubnet}]]

\* The token exists once: the cluster the coordinator has recorded, and no other,
\* is master, is about to get the token or has just given it back. The record is
\* made after the grant was sent (noc_manager.c:129).
Owns(c) == \/ ctl[c].status = "GLOBAL_MASTER"
           \/ InFlight(Coordinator, c, "TOKEN_GRANT") \/ InFlight(c, Coordinator, "TOKEN_RELEASE")
TokenHeldOnce == \A c \in Cluster : Owns(c) <=> token = c

\* No controller stops: none is asked for its borders or granted the token when it
\* is not idle, none is released that is no slave, the master is on its own path,
\* a release always finds its path, and no queue overflows.
NoErrorLoop == halted = {}

\* A circuit is complete while its owner uses it: from LOCAL_IN of the source the
\* ports lead from router to router, through all the clusters that configured
\* their parts on their own, to LOCAL_OUT of the target, which is taken.
Route(p) == walk([r \in Router |-> cs_inport[r][client[p].subnet]], Router, p[1], "LOCAL_IN", p[2])
PathsComplete ==
    \A p \in {q \in Pair : client[q].state = "held"} :
        LET n == client[p].subnet
        IN  /\ Last(Route(p)).router = p[2]
            /\ cs_inport[p[2]][n][Last(Route(p)).inport] = "LOCAL_OUT"
            /\ cs_inport[p[2]][n]["LOCAL_OUT"] = "taken"

PathPorts(p) ==
    LET n == client[p].subnet
    IN  {<<Route(p)[i].router, n, Route(p)[i].inport>> : i \in DOMAIN Route(p)}
            \cup {<<p[2], n, "LOCAL_OUT">>}

\* No port is lost: with no path being set up or released the ports in use are
\* those of the circuits somebody has.
PortsAccounted ==
    Quiet => {x \in Router \X Subnet \X Port : cs_inport[x[1]][x[2]][x[3]] # "free"}
                = UNION {PathPorts(p) : p \in Using}

\* subnet_utilization, added to by retrace and taken from by the release, which
\* count differently, is the number of routers a circuit passes through.
UtilizationCounts ==
    \A c \in Cluster, n \in Subnet :
        ctl[c].subnet_utilization[n] =
            Cardinality({x \in Region(c) \X Side : cs_inport[x[1]][n][x[2]] \in Side})

\* The books of the controllers and the ports of the routers agree after every
\* path set up, refused half-way or released (retrace, noc_manager.h).
Accounts == PortsAccounted /\ UtilizationCounts

\* The borders a controller routes by are true: between UPDATE_BORDER_ACK and
\* DETAILED_ROUTING_REQUEST no controller of the path has changed a port.
BordersTrue ==
    \A c, d \in Cluster : \A m \in Pending(c, d) :
        m.type = "DETAILED_ROUTING_REQUEST" =>
            \A u \in DOMAIN m.known :
                LET s == build_border_status([k |-> ctl[u], cs |-> cs_inport], u)
                IN  m.known[u] = s.k.border[u][m.request.subnet]

\* A master that sets up a path comes to an end, however often controllers on the
\* path refuse: every new attempt leaves out what refused before.
SettingUp(c) == /\ ctl[c].status = "GLOBAL_MASTER"
                /\ \E p \in Pair : /\ p = <<ctl[c].request.source, ctl[c].request.target>>
                                   /\ client[p].state = "asked"
SetupEnds == []<>(\A c \in Cluster : ~SettingUp(c))

=============================================================================
