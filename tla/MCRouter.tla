------------------------------- MODULE MCRouter -------------------------------
(***************************************************************************)
(* Instances of Router: the router at the left border of row 1, where      *)
(* packets that arrive from the EAST and packets of its own PE meet.       *)
(***************************************************************************)
EXTENDS Router

MCAddress == [x |-> 0, y |-> 1]
Hdr(x, y, io) == [x |-> x, y |-> y, io |-> io]
MCHeaders == [p \in Port |-> CASE p = EAST -> <<Hdr(0, 2, NoIO), Hdr(0, 1, WEST)>>
                               [] p = LOCAL_PORT -> <<Hdr(0, 2, NoIO)>>
                               [] OTHER -> <<>>]
MCSize == [p \in Port |-> IF p = LOCAL_PORT THEN 2 ELSE 1]
MCLazy == {LOCAL_PORT}
MCDestination == {NORTH}

=============================================================================
