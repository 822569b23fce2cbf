------------------------- MODULE DiamondSearchProofs -------------------------
(***************************************************************************)
(* The diamond search finds the nearest PE with a free page and counts     *)
(* every PE of the cluster once, for any cluster, any PE to begin with and *)
(* any set of PEs with free pages.                                         *)
(*                                                                         *)
(* The place of the walk is a function of its diamond and its step, and    *)
(* its inverse are the distance and the turn of a place: what was visited  *)
(* is what comes before in the order of these two.                         *)
(***************************************************************************)
EXTENDS DiamondSearch, FiniteSetTheorems, TLAPS

-----------------------------------------------------------------------------
(* Diamonds *)

\* Where the walk is at step s of the diamond at distance h: the top, the left, the
\* bottom and the right are h steps apart.
Place(ref, h, s) ==
    <<ref[1] + (IF s < h THEN -s ELSE IF s < 3 * h THEN s - 2 * h ELSE 4 * h - s),
      ref[2] + (IF s < 2 * h THEN h - s ELSE s - 3 * h)>>

\* The place at a step is at that distance and that turn.
LEMMA PlaceOfStep ==
    ASSUME NEW ref \in Int \X Int, NEW h \in Nat \ {0}, NEW s \in 0..(4 * h - 1)
    PROVE  /\ Place(ref, h, s) \in Int \X Int
           /\ Hops(ref, Place(ref, h, s)) = h
           /\ Turn(ref, Place(ref, h, s)) = s
<1>1. PICK x \in Int, y \in Int : ref = <<x, y>>
  OBVIOUS
<1>2. PICK a : a = IF s < h THEN -s ELSE IF s < 3 * h THEN s - 2 * h ELSE 4 * h - s
  OBVIOUS
<1>3. PICK b : b = IF s < 2 * h THEN h - s ELSE s - 3 * h
  OBVIOUS
<1>4. a \in Int /\ b \in Int /\ Place(ref, h, s) = <<x + a, y + b>>
  BY <1>1, <1>2, <1>3 DEF Place
<1>5. x + a - x = a /\ y + b - y = b /\ x - (x + a) = -a /\ y - (y + b) = -b
  BY <1>4
<1>6. Hops(ref, Place(ref, h, s)) = Abs(-a) + Abs(-b)
  BY <1>1, <1>4, <1>5 DEF Hops
<1>7. Abs(-a) + Abs(-b) = h
  BY <1>2, <1>3, <1>4 DEF Abs
<1>8. Turn(ref, Place(ref, h, s)) =
        IF a <= 0 /\ b > 0 THEN -a ELSE IF a < 0 /\ b <= 0 THEN h - b
        ELSE IF a >= 0 /\ b < 0 THEN 2 * h + a ELSE 3 * h + b
  BY <1>1, <1>4, <1>5, <1>6, <1>7 DEF Turn
<1>9. Turn(ref, Place(ref, h, s)) = s
  BY <1>2, <1>3, <1>4, <1>8
<1>10. QED BY <1>4, <1>6, <1>7, <1>9

\* Every place but the first is at the step of its turn on the diamond of its distance.
LEMMA StepOfPlace ==
    ASSUME NEW ref \in Int \X Int, NEW p \in Int \X Int
    PROVE  /\ Hops(ref, p) \in Nat /\ Turn(ref, p) \in Int
           /\ Hops(ref, p) = 0 <=> p = ref
           /\ p # ref => /\ Turn(ref, p) \in 0..(4 * Hops(ref, p) - 1)
                         /\ p = Place(ref, Hops(ref, p), Turn(ref, p))
<1>1. PICK x \in Int, y \in Int : ref = <<x, y>>
  OBVIOUS
<1>2. PICK u \in Int, v \in Int : p = <<u, v>>
  OBVIOUS
<1>3. PICK a \in Int : a = u - x
  OBVIOUS
<1>4. PICK b \in Int : b = v - y
  OBVIOUS
<1>5. PICK h : h = Hops(ref, p)
  OBVIOUS
<1>6. h = (IF a < 0 THEN -a ELSE a) + (IF b < 0 THEN -b ELSE b)
  BY <1>1, <1>2, <1>3, <1>4, <1>5 DEF Hops, Abs
<1>7. h \in Nat /\ (h = 0 <=> a = 0 /\ b = 0) /\ u = x + a /\ v = y + b
  BY <1>3, <1>4, <1>6
<1>8. PICK s : s = Turn(ref, p)
  OBVIOUS
<1>9. s = IF a <= 0 /\ b > 0 THEN -a ELSE IF a < 0 /\ b <= 0 THEN h - b
          ELSE IF a >= 0 /\ b < 0 THEN 2 * h + a ELSE 3 * h + b
  BY <1>1, <1>2, <1>3, <1>4, <1>5, <1>8 DEF Turn
<1>10. s \in Int
  BY <1>7, <1>9
<1>11. p = ref <=> a = 0 /\ b = 0
  BY <1>1, <1>2, <1>3, <1>4
<1>12. ASSUME p # ref
       PROVE  s \in 0..(4 * h - 1) /\ p = Place(ref, h, s)
  <2>1. s \in 0..(4 * h - 1)
    BY <1>6, <1>7, <1>9, <1>10, <1>11, <1>12
  <2>2. /\ a = IF s < h THEN -s ELSE IF s < 3 * h THEN s - 2 * h ELSE 4 * h - s
        /\ b = IF s < 2 * h THEN h - s ELSE s - 3 * h
    BY <1>6, <1>7, <1>9, <1>10, <1>11, <1>12
  <2>3. QED BY <1>1, <1>2, <1>7, <2>1, <2>2 DEF Place
<1>13. QED BY <1>5, <1>7, <1>8, <1>10, <1>11, <1>12

\* The tests of the loop turn the walk where the diamond turns.
LEMMA StepToNext ==
    ASSUME NEW ref \in Int \X Int, NEW h \in Nat \ {0}, NEW s \in 0..(4 * h - 1)
    PROVE  s + 1 < 4 * h => NextPlace(Place(ref, h, s), ref) = Place(ref, h, s + 1)
<1>1. PICK x \in Int, y \in Int : ref = <<x, y>>
  OBVIOUS
<1>2. PICK a : a = IF s < h THEN -s ELSE IF s < 3 * h THEN s - 2 * h ELSE 4 * h - s
  OBVIOUS
<1>3. PICK b : b = IF s < 2 * h THEN h - s ELSE s - 3 * h
  OBVIOUS
<1>4. a \in Int /\ b \in Int /\ Place(ref, h, s) = <<x + a, y + b>>
  BY <1>1, <1>2, <1>3 DEF Place
<1>5. NextPlace(Place(ref, h, s), ref) =
        IF b > 0 /\ a <= 0 THEN <<x + a - 1, y + b - 1>>
        ELSE IF b <= 0 /\ a < 0 THEN <<x + a + 1, y + b - 1>>
        ELSE IF a >= 0 /\ b < 0 THEN <<x + a + 1, y + b + 1>>
        ELSE <<x + a - 1, y + b + 1>>
  BY <1>1, <1>4 DEF NextPlace
<1>6. Place(ref, h, s + 1) =
        <<x + (IF s + 1 < h THEN -(s + 1) ELSE IF s + 1 < 3 * h THEN s + 1 - 2 * h ELSE 4 * h - (s + 1)),
          y + (IF s + 1 < 2 * h THEN h - (s + 1) ELSE s + 1 - 3 * h)>>
  BY <1>1 DEF Place
<1>7. QED BY <1>2, <1>3, <1>4, <1>5, <1>6


-----------------------------------------------------------------------------
(* The PEs of the cluster *)

\* A cluster has MAX_PROCESSORS PEs, each at a pair of integers.
LEMMA ClusterPEs ==
    /\ PEs(Cluster) \subseteq Int \X Int
    /\ IsFiniteSet(PEs(Cluster)) /\ Cardinality(PEs(Cluster)) = MAX_PROCESSORS
<1>1. XCluster \in Nat \ {0} /\ YCluster \in Nat \ {0} /\ XNum \in Nat \ {0} /\ Cluster \in Int
  BY GridAssumption, ClusterAssumption DEF Mapper
<1>2. (Cluster - 1) % XNum \in Int /\ (Cluster - 1) \div XNum \in Int
  BY <1>1
<1>3. cluster_x_offset(Cluster) \in Int /\ cluster_y_offset(Cluster) \in Int
  BY <1>1, <1>2 DEF cluster_x_offset, cluster_y_offset, cluster_position
<1>4. PICK x \in Int : x = cluster_x_offset(Cluster)
  BY <1>3
<1>5. PICK y \in Int : y = cluster_y_offset(Cluster)
  BY <1>3
<1> DEFINE X == x .. x + XCluster - 1
           Y == y .. y + YCluster - 1
<1>6. PEs(Cluster) = X \X Y
  BY <1>4, <1>5 DEF PEs
<1>7. IsFiniteSet(X) /\ Cardinality(X) = XCluster
  BY <1>1, FS_Interval
<1>8. IsFiniteSet(Y) /\ Cardinality(Y) = YCluster
  BY <1>1, FS_Interval
<1>9. X \subseteq Int /\ Y \subseteq Int
  BY <1>1
<1> HIDE DEF X, Y
<1>10. IsFiniteSet(X \X Y) /\ Cardinality(X \X Y) = XCluster * YCluster
  BY <1>7, <1>8, FS_Product
<1>11. QED BY <1>6, <1>9, <1>10 DEF MAX_PROCESSORS

\* The PEs the search has left behind at step s of the diamond at distance h.
Behind(h, s) ==
    {p \in PEs(Cluster) : \/ Hops(begining_core, p) < h
                          \/ Hops(begining_core, p) = h /\ Turn(begining_core, p) < s}

\* A step leaves the place of the walk behind, if it is of the cluster.
LEMMA OneMoreBehind ==
    ASSUME begining_core \in PEs(Cluster), NEW h \in Nat \ {0}, NEW s \in 0..(4 * h - 1),
           NEW p, p = Place(begining_core, h, s)
    PROVE  /\ Behind(h, s + 1) = Behind(h, s) \cup ({p} \cap PEs(Cluster))
           /\ p \notin Behind(h, s)
           /\ IsFiniteSet(Behind(h, s)) /\ Cardinality(Behind(h, s)) \in Nat
           /\ Cardinality(Behind(h, s + 1)) =
                  Cardinality(Behind(h, s)) + (IF p \in PEs(Cluster) THEN 1 ELSE 0)
<1>1. begining_core \in Int \X Int /\ PEs(Cluster) \subseteq Int \X Int /\ IsFiniteSet(PEs(Cluster))
  BY ClusterPEs
<1>2. Hops(begining_core, p) = h /\ Turn(begining_core, p) = s
  BY <1>1, PlaceOfStep
<1>3. ASSUME NEW q \in PEs(Cluster)
      PROVE  /\ Hops(begining_core, q) \in Nat /\ Turn(begining_core, q) \in Int
             /\ Hops(begining_core, q) = h /\ Turn(begining_core, q) = s => q = p
  <2>1. /\ Hops(begining_core, q) \in Nat /\ Turn(begining_core, q) \in Int
        /\ Hops(begining_core, q) = 0 <=> q = begining_core
        /\ q # begining_core => q = Place(begining_core, Hops(begining_core, q), Turn(begining_core, q))
    BY <1>1, StepOfPlace
  <2>2. QED BY <2>1
<1>4. Behind(h, s + 1) = Behind(h, s) \cup ({p} \cap PEs(Cluster))
  BY <1>2, <1>3 DEF Behind
<1>5. p \notin Behind(h, s)
  BY <1>2 DEF Behind
<1>6. IsFiniteSet(Behind(h, s))
  <2>1. Behind(h, s) \subseteq PEs(Cluster)
    BY DEF Behind
  <2>2. QED BY <1>1, <2>1, FS_Subset
<1>7. Cardinality(Behind(h, s)) \in Nat
  BY <1>6, FS_CardinalityType
<1>8. CASE p \in PEs(Cluster)
  <2>1. Behind(h, s + 1) = Behind(h, s) \cup {p}
    BY <1>4, <1>8
  <2>2. Cardinality(Behind(h, s) \cup {p}) = Cardinality(Behind(h, s)) + 1
    BY <1>5, <1>6, FS_AddElement
  <2>3. QED BY <1>4, <1>5, <1>6, <1>7, <1>8, <2>1, <2>2
<1>9. CASE p \notin PEs(Cluster)
  <2>1. Behind(h, s + 1) = Behind(h, s)
    BY <1>4, <1>9
  <2>2. QED BY <1>4, <1>5, <1>6, <1>7, <1>9, <2>1
<1>10. QED BY <1>8, <1>9

\* A diamond ends where the next begins.
LEMMA DiamondEnds ==
    ASSUME begining_core \in PEs(Cluster), NEW h \in Nat
    PROVE  /\ h > 0 => Behind(h, 4 * h) = Behind(h + 1, 0)
           /\ Behind(h + 1, 0) = {p \in PEs(Cluster) : Hops(begining_core, p) <= h}
           /\ Behind(1, 0) = {begining_core}
<1>1. begining_core \in Int \X Int /\ PEs(Cluster) \subseteq Int \X Int
  BY ClusterPEs
<1>2. ASSUME NEW q \in PEs(Cluster)
      PROVE  /\ Hops(begining_core, q) \in Nat
             /\ Hops(begining_core, q) = 0 <=> q = begining_core
             /\ q # begining_core => Turn(begining_core, q) \in 0..(4 * Hops(begining_core, q) - 1)
  BY <1>1, StepOfPlace
<1>3. Behind(h + 1, 0) = {p \in PEs(Cluster) : Hops(begining_core, p) <= h}
  <2>1. \A q \in PEs(Cluster) : Hops(begining_core, q) = h + 1 => ~(Turn(begining_core, q) < 0)
    BY <1>2
  <2>2. QED BY <1>2, <2>1 DEF Behind
<1>4. ASSUME h > 0
      PROVE  Behind(h, 4 * h) = {p \in PEs(Cluster) : Hops(begining_core, p) <= h}
  <2>1. \A q \in PEs(Cluster) : Hops(begining_core, q) = h => Turn(begining_core, q) < 4 * h
    BY <1>2, <1>4
  <2>2. QED BY <1>2, <2>1 DEF Behind
<1>5. Behind(1, 0) = {begining_core}
  <2>1. \A q \in PEs(Cluster) : Hops(begining_core, q) = 1 => ~(Turn(begining_core, q) < 0)
    BY <1>2
  <2>2. QED BY <1>2, <2>1 DEF Behind
<1>6. QED BY <1>3, <1>4, <1>5

\* A PE with a free page that comes before all others is what the search finds.
LEMMA FirstIsFound ==
    ASSUME begining_core \in PEs(Cluster), free_pages \subseteq PEs(Cluster), NEW p \in free_pages,
           \A q \in free_pages \ {p} :
               \/ Hops(begining_core, p) < Hops(begining_core, q)
               \/ /\ Hops(begining_core, p) = Hops(begining_core, q)
                  /\ Turn(begining_core, p) < Turn(begining_core, q)
    PROVE  diamond_search_initial(begining_core, free_pages) = p
<1> DEFINE First(x) == \A q \in free_pages \ {x} :
               \/ Hops(begining_core, x) < Hops(begining_core, q)
               \/ /\ Hops(begining_core, x) = Hops(begining_core, q)
                  /\ Turn(begining_core, x) < Turn(begining_core, q)
<1>1. \A q \in free_pages : Hops(begining_core, q) \in Nat /\ Turn(begining_core, q) \in Int
  BY ClusterPEs, StepOfPlace
<1>2. diamond_search_initial(begining_core, free_pages) = CHOOSE x \in free_pages : First(x)
  BY DEF diamond_search_initial
<1>3. First(p)
  OBVIOUS
<1>4. ASSUME NEW x \in free_pages, First(x) PROVE x = p
  BY <1>1, <1>3, <1>4
<1> HIDE DEF First
<1>5. QED BY <1>2, <1>3, <1>4

-----------------------------------------------------------------------------
(* The invariant *)

\* Nothing is found yet, and what is left behind was counted and has no free page.
Searched(h, s) ==
    /\ candidate_proc = NoProc
    /\ proc_count = Cardinality(Behind(h, s))
    /\ \A p \in Behind(h, s) : p \notin free_pages

IInv ==
    /\ begining_core \in PEs(Cluster) /\ free_pages \subseteq PEs(Cluster)
    /\ hop_count \in Nat
    /\ pc \in {"begin", "round", "walk", "done"}
    /\ pc = "begin" => hop_count = 0 /\ proc_count = 1 /\ candidate_proc = NoProc
    /\ pc = "round" => Searched(hop_count + 1, 0)
    /\ pc = "walk" => /\ hop_count > 0 /\ r \in 0..(4 * hop_count - 1)
                      /\ proc = Place(begining_core, hop_count, r)
                      /\ Searched(hop_count, r)
    /\ FindsNearest

LEMMA InitIInv == Init => IInv
BY DEF Init, IInv, FindsNearest

LEMMA AtBeginInv ==
    ASSUME IInv, AtBegin
    PROVE  IInv'
<1>1. /\ begining_core' = begining_core /\ free_pages' = free_pages /\ hop_count' = hop_count
      /\ proc_count' = proc_count /\ hop_count = 0 /\ proc_count = 1 /\ candidate_proc = NoProc
      /\ begining_core \in PEs(Cluster) /\ free_pages \subseteq PEs(Cluster)
  BY DEF AtBegin, IInv
<1>2. begining_core \in Int \X Int /\ PEs(Cluster) \subseteq Int \X Int
  BY <1>1, ClusterPEs
<1>3. CASE begining_core \in free_pages
  <2>1. candidate_proc' = begining_core /\ pc' = "done"
    BY <1>3 DEF AtBegin
  <2>2. \A q \in free_pages \ {begining_core} :
           Hops(begining_core, begining_core) < Hops(begining_core, q)
    BY <1>1, <1>2, StepOfPlace
  <2>3. diamond_search_initial(begining_core, free_pages) = begining_core
    BY <1>1, <1>3, <2>2, FirstIsFound
  <2>4. QED BY <1>1, <2>1, <2>3 DEF IInv, FindsNearest
<1>4. CASE begining_core \notin free_pages
  <2>1. pc' = "round" /\ candidate_proc' = NoProc
    BY <1>1, <1>4 DEF AtBegin
  <2>2. Behind(1, 0) = {begining_core}
    BY <1>1, DiamondEnds
  <2>3. Cardinality(Behind(1, 0)) = 1
    BY <2>2, FS_Singleton
  <2>4. Behind(1, 0)' = Behind(1, 0)
    BY <1>1 DEF Behind
  <2>5. Searched(1, 0)'
    BY <1>1, <1>4, <2>1, <2>2, <2>3, <2>4 DEF Searched
  <2>6. hop_count' + 1 = 1
    BY <1>1
  <2>7. Searched(hop_count + 1, 0)'
    BY <2>5, <2>6
  <2>8. QED BY <1>1, <2>1, <2>7 DEF IInv, FindsNearest
<1>5. QED BY <1>3, <1>4

LEMMA RoundInv ==
    ASSUME IInv, Round
    PROVE  IInv'
<1>1. /\ begining_core' = begining_core /\ free_pages' = free_pages
      /\ proc_count' = proc_count /\ candidate_proc' = candidate_proc
      /\ begining_core \in PEs(Cluster) /\ free_pages \subseteq PEs(Cluster)
      /\ hop_count \in Nat /\ Searched(hop_count + 1, 0)
  BY DEF Round, IInv
<1>2. CASE proc_count < MAX_PROCESSORS
  <2>1. PICK h : h = hop_count + 1
    OBVIOUS
  <2>2. h \in Nat /\ h > 0 /\ hop_count' = h /\ r' = 0 /\ pc' = "walk"
        /\ proc' = <<begining_core[1], begining_core[2] + h>>
    <3>1. proc' = <<begining_core[1], begining_core[2] + hop_count + 1>> /\ hop_count' = hop_count + 1
          /\ r' = 0 /\ pc' = "walk"
      BY <1>2 DEF Round
    <3>2. begining_core[2] \in Int
      BY <1>1, ClusterPEs
    <3>3. QED BY <1>1, <2>1, <3>1, <3>2
  <2>3. proc' = Place(begining_core, h, 0)
    <3>1. begining_core[1] \in Int /\ begining_core[2] \in Int
      BY <1>1, ClusterPEs
    <3>2. QED BY <2>2, <3>1 DEF Place
  <2>4. Behind(h, 0)' = Behind(h, 0)
    BY <1>1 DEF Behind
  <2>5. Searched(h, 0)'
    BY <1>1, <2>1, <2>4 DEF Searched
  <2>6. Searched(hop_count, r)'
    BY <2>2, <2>5
  <2>7. r' \in 0..(4 * hop_count' - 1)
    BY <2>2
  <2>8. proc' = Place(begining_core', hop_count', r')
    BY <1>1, <2>2, <2>3
  <2>9. QED BY <1>1, <2>2, <2>6, <2>7, <2>8 DEF IInv, FindsNearest
<1>3. CASE ~(proc_count < MAX_PROCESSORS)
  <2>1. pc' = "done" /\ hop_count' = hop_count
    BY <1>3 DEF Round
  <2>2. PICK B : B = Behind(hop_count + 1, 0)
    OBVIOUS
  <2>3. B \subseteq PEs(Cluster) /\ proc_count = Cardinality(B) /\ candidate_proc = NoProc
        /\ \A p \in B : p \notin free_pages
    BY <1>1, <2>2 DEF Behind, Searched
  <2>4. B = PEs(Cluster)
    <3>1. /\ Cardinality(B) \in Nat /\ Cardinality(B) <= Cardinality(PEs(Cluster))
          /\ Cardinality(B) = Cardinality(PEs(Cluster)) => B = PEs(Cluster)
      BY <2>3, ClusterPEs, FS_Subset, FS_CardinalityType
    <3>2. MAX_PROCESSORS \in Nat
      BY ClusterPEs, FS_CardinalityType
    <3>3. QED BY <1>3, <2>3, <3>1, <3>2, ClusterPEs
  <2>5. free_pages = {}
    BY <1>1, <2>3, <2>4
  <2>6. candidate_proc = diamond_search_initial(begining_core, free_pages)
    BY <2>3, <2>5 DEF diamond_search_initial
  <2>7. QED BY <1>1, <2>1, <2>6 DEF IInv, FindsNearest
<1>4. QED BY <1>2, <1>3

LEMMA WalkInv ==
    ASSUME IInv, Walk
    PROVE  IInv'
<1>1. /\ begining_core' = begining_core /\ free_pages' = free_pages /\ hop_count' = hop_count
      /\ begining_core \in PEs(Cluster) /\ free_pages \subseteq PEs(Cluster)
      /\ hop_count \in Nat \ {0} /\ r \in 0..(4 * hop_count - 1)
      /\ proc = Place(begining_core, hop_count, r) /\ Searched(hop_count, r)
  BY DEF Walk, IInv
<1>2. PICK h : h = hop_count
  OBVIOUS
<1>3. begining_core \in Int \X Int /\ PEs(Cluster) \subseteq Int \X Int
  BY <1>1, ClusterPEs
<1>4. /\ Behind(h, r + 1) = Behind(h, r) \cup ({proc} \cap PEs(Cluster))
      /\ proc \notin Behind(h, r)
      /\ Cardinality(Behind(h, r + 1)) =
             Cardinality(Behind(h, r)) + (IF proc \in PEs(Cluster) THEN 1 ELSE 0)
  BY <1>1, <1>2, OneMoreBehind
<1>5. CASE proc \in free_pages
  <2>1. candidate_proc' = proc /\ pc' = "done"
    BY <1>5 DEF Walk
  <2>2. Hops(begining_core, proc) = h /\ Turn(begining_core, proc) = r
    BY <1>1, <1>2, <1>3, PlaceOfStep
  <2>3. ASSUME NEW q \in free_pages \ {proc}
        PROVE  \/ Hops(begining_core, proc) < Hops(begining_core, q)
               \/ /\ Hops(begining_core, proc) = Hops(begining_core, q)
                  /\ Turn(begining_core, proc) < Turn(begining_core, q)
    <3>1. /\ Hops(begining_core, q) \in Nat /\ Turn(begining_core, q) \in Int
          /\ Hops(begining_core, q) = 0 <=> q = begining_core
          /\ q # begining_core =>
                 q = Place(begining_core, Hops(begining_core, q), Turn(begining_core, q))
      BY <1>1, <1>3, StepOfPlace
    <3>2. q \notin Behind(h, r) /\ q \in PEs(Cluster)
      BY <1>1, <1>2 DEF Searched
    <3>3. ~(Hops(begining_core, q) < h) /\ ~(Hops(begining_core, q) = h /\ Turn(begining_core, q) < r)
      BY <3>2 DEF Behind
    <3>4. ~(Hops(begining_core, q) = h /\ Turn(begining_core, q) = r)
      BY <1>1, <1>2, <3>1
    <3>5. QED BY <1>1, <1>2, <2>2, <3>1, <3>3, <3>4
  <2>4. diamond_search_initial(begining_core, free_pages) = proc
    BY <1>1, <1>5, <2>3, FirstIsFound
  <2>5. QED BY <1>1, <2>1, <2>4 DEF IInv, FindsNearest
<1>6. CASE proc \notin free_pages
  <2>1. /\ proc' = NextPlace(proc, begining_core) /\ r' = r + 1
        /\ pc' = (IF r + 1 < 4 * h THEN "walk" ELSE "round")
        /\ candidate_proc' = NoProc
        /\ proc_count' = proc_count + (IF proc \in PEs(Cluster) THEN 1 ELSE 0)
    BY <1>1, <1>2, <1>6 DEF Walk, Searched
  <2>2. PICK s : s = r + 1
    OBVIOUS
  <2>3. Searched(h, s)'
    <3>1. Behind(h, s)' = Behind(h, s)
      BY <1>1 DEF Behind
    <3>2. proc_count' = Cardinality(Behind(h, s))
      BY <1>1, <1>2, <1>4, <2>1, <2>2 DEF Searched
    <3>3. \A p \in Behind(h, s) : p \notin free_pages
      BY <1>1, <1>2, <1>4, <1>6, <2>2 DEF Searched
    <3>4. QED BY <1>1, <2>1, <3>1, <3>2, <3>3 DEF Searched
  <2>4. CASE r + 1 < 4 * h
    <3>1. proc' = Place(begining_core, h, r')
      BY <1>1, <1>2, <1>3, <2>1, <2>4, StepToNext
    <3>2. r' \in 0..(4 * h - 1)
      BY <1>1, <1>2, <2>1, <2>4
    <3>3. Searched(h, r)'
      BY <2>1, <2>2, <2>3
    <3>4. QED BY <1>1, <1>2, <2>1, <2>4, <3>1, <3>2, <3>3 DEF IInv, FindsNearest
  <2>5. CASE ~(r + 1 < 4 * h)
    <3>1. r + 1 = 4 * h
      BY <1>1, <1>2, <2>5
    <3>2. Behind(h, s) = Behind(h + 1, 0)
      BY <1>1, <1>2, <2>2, <3>1, DiamondEnds, SMTT(30)
    <3>3. Behind(h, s)' = Behind(h, s) /\ Behind(h + 1, 0)' = Behind(h + 1, 0)
      BY <1>1 DEF Behind
    <3>4. Searched(h + 1, 0)'
      BY <2>3, <3>2, <3>3 DEF Searched
    <3>5. QED BY <1>1, <1>2, <2>1, <2>5, <3>4 DEF IInv, FindsNearest
  <2>6. QED BY <2>4, <2>5
<1>7. QED BY <1>5, <1>6

LEMMA NextIInv == IInv /\ [Next]_vars => IInv'
<1> SUFFICES ASSUME IInv, [Next]_vars PROVE IInv'
  OBVIOUS
<1>1. CASE UNCHANGED vars
  BY <1>1 DEF vars, IInv, Searched, Behind, FindsNearest
<1>2. QED BY <1>1, AtBeginInv, RoundInv, WalkInv DEF Next, Done

-----------------------------------------------------------------------------
(* The theorems *)

\* What the loop finds is the nearest PE with a free page, the first of the walk among
\* equals, and none exactly when the cluster has no free page.
THEOREM NearestIsFound == Spec => []FindsNearest
<1>1. IInv => FindsNearest
  BY DEF IInv
<1>2. QED BY <1>1, InitIInv, NextIInv, PTL DEF Spec

\* The count that ends the loop is that of the PEs of the cluster within the distance
\* walked: none is missed, none is counted twice.
THEOREM PEsCountedOnce == Spec => []CountsOnce
<1>1. IInv => CountsOnce
  <2> SUFFICES ASSUME IInv, pc = "round"
               PROVE  proc_count = Cardinality({p \in PEs(Cluster) : Hops(begining_core, p) <= hop_count})
    BY DEF CountsOnce
  <2>1. proc_count = Cardinality(Behind(hop_count + 1, 0))
    BY DEF IInv, Searched
  <2>2. Behind(hop_count + 1, 0) = {p \in PEs(Cluster) : Hops(begining_core, p) <= hop_count}
    BY DiamondEnds DEF IInv
  <2>3. QED BY <2>1, <2>2
<1>2. QED BY <1>1, InitIInv, NextIInv, PTL DEF Spec
=============================================================================
