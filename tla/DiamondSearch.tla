---------------------------- MODULE DiamondSearch ----------------------------
(***************************************************************************)
(* The loop of diamond_search_initial (resoucer_controller.h): it walks on *)
(* diamonds of growing size around a PE, skips the places outside of the   *)
(* cluster, and stops at the first PE with a free page or when it has      *)
(* counted as many PEs as the cluster has.                                 *)
(***************************************************************************)
EXTENDS MappingGrid

CONSTANT Cluster   \* the mapper whose cluster is searched

ASSUME ClusterAssumption == Cluster \in Mapper

VARIABLES
  begining_core, free_pages,   \* the call: where to begin, PEs with free pages
  proc, hop_count, r,          \* the place of the walk, its diamond, its step
  proc_count,                  \* PEs of the cluster visited
  candidate_proc,              \* the result
  pc

vars == <<begining_core, free_pages, proc, hop_count, r, proc_count,
          candidate_proc, pc>>

MAX_PROCESSORS == XCluster * YCluster

Init ==
  /\ begining_core \in PEs(Cluster)
  /\ free_pages \in SUBSET PEs(Cluster)
  /\ proc = begining_core
  /\ hop_count = 0
  /\ r = 0
  /\ proc_count = 1
  /\ candidate_proc = NoProc
  /\ pc = "begin"

\* The PE to begin with has a free page itself.
AtBegin ==
  /\ pc = "begin"
  /\ IF begining_core \in free_pages
     THEN candidate_proc' = begining_core /\ pc' = "done"
     ELSE pc' = "round" /\ UNCHANGED candidate_proc
  /\ UNCHANGED <<begining_core, free_pages, proc, hop_count, r, proc_count>>

\* The next diamond, from its top.
Round ==
  /\ pc = "round"
  /\ IF proc_count < MAX_PROCESSORS
     THEN /\ hop_count' = hop_count + 1
          /\ proc' = <<begining_core[1], begining_core[2] + hop_count + 1>>
          /\ r' = 0
          /\ pc' = "walk"
     ELSE pc' = "done" /\ UNCHANGED <<hop_count, proc, r>>
  /\ UNCHANGED <<begining_core, free_pages, proc_count, candidate_proc>>

\* Mutant: the walk turns one step late at the bottom.
TurnsLate(p, ref) ==
  IF p[2] > ref[2] /\ p[1] <= ref[1] THEN <<p[1] - 1, p[2] - 1>>
  ELSE IF p[2] <= ref[2] /\ p[1] <= ref[1] THEN <<p[1] + 1, p[2] - 1>>
  ELSE IF p[1] >= ref[1] /\ p[2] < ref[2] THEN <<p[1] + 1, p[2] + 1>>
  ELSE <<p[1] - 1, p[2] + 1>>

\* Mutant: the walk goes the other way round.
TurnsRight(p, ref) ==
  IF p[2] > ref[2] /\ p[1] >= ref[1] THEN <<p[1] + 1, p[2] - 1>>
  ELSE IF p[2] <= ref[2] /\ p[1] > ref[1] THEN <<p[1] - 1, p[2] - 1>>
  ELSE IF p[1] <= ref[1] /\ p[2] < ref[2] THEN <<p[1] - 1, p[2] + 1>>
  ELSE <<p[1] + 1, p[2] + 1>>

\* The tests that turn the walk at the corners of the diamond.
NextPlace(p, ref) ==
  IF p[2] > ref[2] /\ p[1] <= ref[1] THEN <<p[1] - 1, p[2] - 1>>
  ELSE IF p[2] <= ref[2] /\ p[1] < ref[1] THEN <<p[1] + 1, p[2] - 1>>
  ELSE IF p[1] >= ref[1] /\ p[2] < ref[2] THEN <<p[1] + 1, p[2] + 1>>
  ELSE <<p[1] - 1, p[2] + 1>>

Walk ==
  /\ pc = "walk"
  /\ proc_count' = proc_count + (IF proc \in PEs(Cluster) THEN 1 ELSE 0)
  /\ IF proc \in free_pages
     THEN /\ candidate_proc' = proc
          /\ pc' = "done"
          /\ UNCHANGED <<proc, r>>
     ELSE /\ proc' = NextPlace(proc, begining_core)
          /\ r' = r + 1
          /\ pc' = IF r + 1 < 4 * hop_count THEN "walk" ELSE "round"
          /\ UNCHANGED candidate_proc
  /\ UNCHANGED <<begining_core, free_pages, hop_count>>

Done == pc = "done" /\ UNCHANGED vars

Next == AtBegin \/ Round \/ Walk \/ Done

Spec == Init /\ [][Next]_vars /\ WF_vars(Next)

-----------------------------------------------------------------------------
\* The result is that of the closed form the mapper's model uses: the nearest
\* PE with a free page, the first of the walk among equals, and none exactly
\* when the cluster has no free page (resoucer_controller.h:213-302).
FindsNearest ==
  pc = "done" =>
    candidate_proc = diamond_search_initial(begining_core, free_pages)

\* The count that ends the search is right: between two diamonds it is the
\* number of PEs of the cluster within the distance walked, so that no PE is
\* missed or counted twice (resoucer_controller.h:267).
CountsOnce ==
  pc = "round" =>
    proc_count = Cardinality({p \in PEs(Cluster) :
                                Hops(begining_core, p) <= hop_count})

=============================================================================
