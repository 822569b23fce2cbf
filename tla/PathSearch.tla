------------------------------ MODULE PathSearch ------------------------------
(***************************************************************************)
(* The path search of the NoC manager (noc_manager.h): Hadlock's algorithm *)
(* on a grid, the retrace of the path it found and the walk along a path   *)
(* that is released. The same code searches the routers of a cluster and   *)
(* the grid of clusters: open has the <<v, p>> such that v can be entered   *)
(* through its input port p from its neighbour on that side.               *)
(***************************************************************************)
EXTENDS Integers, FiniteSets, SequencesExt

Side == {"EAST", "WEST", "NORTH", "SOUTH"}
\* The order in which the search looks at the neighbours.
SideOrder == <<"EAST", "WEST", "NORTH", "SOUTH">>
Port == Side \cup {"LOCAL_OUT", "LOCAL_IN"}

Opposite == [EAST |-> "WEST", WEST |-> "EAST", NORTH |-> "SOUTH", SOUTH |-> "NORTH"]

Beyond(v, d) ==
    CASE d = "EAST"  -> <<v[1] + 1, v[2]>> [] d = "WEST"  -> <<v[1] - 1, v[2]>>
      [] d = "NORTH" -> <<v[1], v[2] + 1>> [] d = "SOUTH" -> <<v[1], v[2] - 1>>

Abs(i) == IF i < 0 THEN -i ELSE i
Manhattan(u, v) == Abs(u[1] - v[1]) + Abs(u[2] - v[2])
SideTowards(u, v) == CHOOSE d \in Side : Beyond(u, d) = v

-----------------------------------------------------------------------------
(* hadlock *)

\* Index of the neighbour with the lowest detour, the last one added first.
min_detour(nlist, detour) ==
    CHOOSE i \in DOMAIN nlist :
        \A j \in DOMAIN nlist : /\ detour[nlist[i]] <= detour[nlist[j]]
                                /\ j > i => detour[nlist[i]] < detour[nlist[j]]

\* The neighbour of v at side d joins nlist, unless it was seen before, cannot
\* be entered, or the target has been found already.
look(open, v, tgt, st, d) ==
    LET N == Beyond(v, d)
        away == IF Manhattan(N, tgt) >= Manhattan(v, tgt) THEN 1 ELSE 0
    IN  IF st.found \/ N \in DOMAIN st.detour \/ <<N, Opposite[d]>> \notin open THEN st
        ELSE [st EXCEPT !.detour = (N :> st.detour[v] + away) @@ @,
                        !.nlist = Append(@, N),
                        !.found = (N = tgt)]

\* The neighbour i of nlist is the next router of plist.
advance(st, i) ==
    [st EXCEPT !.plist = Append(@, st.nlist[i]), !.nlist = RemoveAt(@, i), !.going = ~st.found]

\* One turn of the loop, from the last router v of plist; seen is the state after
\* its neighbours have been looked at.
choose_next(min_path, v, seen) ==
    IF (min_path /\ seen.detour[v] > 0) \/ seen.nlist = <<>> THEN [seen EXCEPT !.going = FALSE]
    ELSE advance(seen, min_detour(seen.nlist, seen.detour))
propagate(open, tgt, min_path, st) ==
    LET v == Last(st.plist)
    IN  IF ~st.going THEN st
        ELSE choose_next(min_path, v,
                 FoldLeft(LAMBDA acc, d : look(open, v, tgt, acc, d), st, SideOrder))

\* With min_path only paths without a detour are looked for. Every turn takes
\* one of the cells of the grid.
NoPath == [found |-> FALSE, plist |-> <<>>]
hadlock(open, src, tgt, cells, min_path) ==
    LET start == [detour |-> (src :> 0), nlist |-> <<>>, plist |-> <<src>>,
                  going |-> src # tgt, found |-> src = tgt]
        turn[n \in 0..cells] ==
            IF n = 0 THEN start ELSE propagate(open, tgt, min_path, turn[n - 1])
    IN  [found |-> turn[cells].found, plist |-> turn[cells].plist]

-----------------------------------------------------------------------------
(* retrace: the path, from the target back to the source, as the list of its
   routers with the port it enters and the port it leaves. *)

\* The router of plist the path came from: the first one that leads to plist[j],
\* else the one before it.
came_from(open, plist, j) ==
    LET S == {k \in 1..(j - 2) : /\ Manhattan(plist[k], plist[j]) = 1
                                 /\ <<plist[j], SideTowards(plist[j], plist[k])>> \in open}
    IN  IF S = {} THEN j - 1 ELSE CHOOSE k \in S : \A l \in S : k <= l

\* The hops at the routers at, target first.
hops_of(at, beg_inport, end_outport) ==
    [i \in DOMAIN at |->
        [router |-> at[i],
         inport |-> IF i = Len(at) THEN beg_inport ELSE SideTowards(at[i], at[i + 1]),
         outport |-> IF i = 1 THEN end_outport ELSE SideTowards(at[i], at[i - 1])]]
retrace(open, plist, beg_inport, end_outport) ==
    LET back[j \in 1..Len(plist)] ==
            <<plist[j]>> \o (IF j = 1 THEN <<>> ELSE back[came_from(open, plist, j)])
    IN  hops_of(back[Len(plist)], beg_inport, end_outport)

\* The utilization counts the routers between the ends of a path.
Passes(inport, outport) == inport # "LOCAL_IN" /\ outport # "LOCAL_OUT"

hops_count(hops) == Cardinality({i \in DOMAIN hops : Passes(hops[i].inport, hops[i].outport)})

-----------------------------------------------------------------------------
(* The walk of CS_connection_release: from a router and its input port along
   the output ports, up to the target or to the first router outside. *)

walk(out, inside, src, inport, tgt) ==
    LET step(at) ==
            LET r == Last(at).router
                o == out[r][Last(at).inport]
            IN  IF r = tgt \/ r \notin inside \/ o \notin Side THEN at
                ELSE Append(at, [router |-> Beyond(r, o), inport |-> Opposite[o]])
        turn[n \in 0..Cardinality(inside)] ==
            IF n = 0 THEN <<[router |-> src, inport |-> inport]>> ELSE step(turn[n - 1])
    IN  turn[Cardinality(inside)]

=============================================================================
