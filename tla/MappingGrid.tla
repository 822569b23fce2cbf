----------------------------- MODULE MappingGrid -----------------------------
(***************************************************************************)
(* The grid of the mapping tasks (applications/MAN_app): the PEs are       *)
(* divided in clusters of XCluster x YCluster PEs, each with its local     *)
(* mapper.  Here are the conversions between identifiers, PEs and          *)
(* clusters, and the searches of a PE (resoucer_controller.h), which only  *)
(* read the state of the mapper.                                           *)
(***************************************************************************)
EXTENDS Integers, FiniteSets

CONSTANTS
  XCluster, YCluster,   \* PEs of a cluster in each direction
  XNum, YNum,           \* clusters of the system in each direction
  MaxLocalTasks         \* pages, that is tasks, of a PE

ASSUME GridAssumption ==
  {XCluster, YCluster, XNum, YNum, MaxLocalTasks} \subseteq Nat \ {0}

\* A mapper is known by the identifier of its task: 0 is the global mapper,
\* 1 is map_ID_offset.
GlobalMapper == 0
Mapper == 1 .. XNum * YNum

\* The address -1 of the code: no PE, no cluster.
NoProc == <<-1, -1>>
NoMaster == -1

MAX_CLUSTER_TASKS == MaxLocalTasks * XCluster * YCluster

\* conv_task_ID_to_cluster_addr; send() converts back.
cluster_position(c) == <<(c - 1) % XNum, (c - 1) \div XNum>>

cluster_x_offset(c) == cluster_position(c)[1] * XCluster
cluster_y_offset(c) == cluster_position(c)[2] * YCluster

PEs(c) == (cluster_x_offset(c) .. cluster_x_offset(c) + XCluster - 1)
            \X (cluster_y_offset(c) .. cluster_y_offset(c) + YCluster - 1)

PE == UNION {PEs(c) : c \in Mapper}

-----------------------------------------------------------------------------
Abs(n) == IF n < 0 THEN -n ELSE n

Hops(p, q) == Abs(p[1] - q[1]) + Abs(p[2] - q[2])

max_neighbors_level == (IF XNum > YNum THEN XNum ELSE YNum) - 1

\* The clusters a round of the given level asks: in neither direction
\* farther than the level, and in one of them at that distance.
AtLevel(c, level) ==
  LET Apart(d, k) == Abs(cluster_position(c)[k] - cluster_position(d)[k])
  IN  {d \in Mapper \ {c} :
         /\ \A k \in {1, 2} : Apart(d, k) <= level
         /\ \E k \in {1, 2} : Apart(d, k) > level - 1}

-----------------------------------------------------------------------------
\* The processors' array is filled column by column.
FirstPE(S) ==
  CHOOSE p \in S : \A q \in S \ {p} :
    p[1] < q[1] \/ (p[1] = q[1] /\ p[2] < q[2])

\* The PE of S nearest to ref_proc, the first one in the array among equals.
reclustering_map(ref_proc, S) ==
  FirstPE({p \in S : \A q \in S : Hops(ref_proc, p) <= Hops(ref_proc, q)})

\* The place of p in the walk of the diamond search on the PEs at the same
\* distance of ref: from the top to the left, the bottom, the right.
Turn(ref, p) ==
  LET dx == p[1] - ref[1]
      dy == p[2] - ref[2]
      hop == Hops(ref, p)
  IN  IF dx <= 0 /\ dy > 0 THEN -dx
      ELSE IF dx < 0 /\ dy <= 0 THEN hop - dy
      ELSE IF dx >= 0 /\ dy < 0 THEN 2 * hop + dx
      ELSE 3 * hop + dy

\* What the diamond search from begining_core finds among the PEs of S: the
\* nearest one, the first of the walk among equals (DiamondSearch has the
\* walk itself).
diamond_search_initial(begining_core, S) ==
  IF S = {} THEN NoProc
  ELSE CHOOSE p \in S : \A q \in S \ {p} :
         \/ Hops(begining_core, p) < Hops(begining_core, q)
         \/ /\ Hops(begining_core, p) = Hops(begining_core, q)
            /\ Turn(begining_core, p) < Turn(begining_core, q)

=============================================================================
