----------------------------- MODULE MCAppMapping -----------------------------
(* Instances of AppMapping for TLC: places of the management tasks, lists of *)
(* applications.                                                             *)
EXTENDS AppMapping

\* Without static places: in the cluster the global mapper chooses, or in the
\* one appstart.txt names.
Free(n) == [cluster |-> NoMaster, place |-> [i \in 1 .. n |-> NoProc]]
At(c, n) == [cluster |-> c, place |-> [i \in 1 .. n |-> NoProc]]

\* Clusters of two PEs with two pages each; the global mapper, the local
\* mappers, the NoC manager and the QoS manager where map_management_tasks
\* puts them.  Three clusters leave six pages.
Row3Places == <<<<0, 0>>, <<1, 0>>, <<2, 0>>, <<4, 0>>, <<1, 0>>, <<2, 0>>>>

\* A static place, loans of both levels, an application that waits for
\* the end of another one, one in the cluster the global mapper chooses.
ThreeApps ==
  <<[cluster |-> 1, place |-> <<<<0, 0>>, NoProc, NoProc, NoProc>>], At(3, 3), Free(1)>>

=============================================================================
