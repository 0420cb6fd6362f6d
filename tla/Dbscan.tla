------------------------------- MODULE Dbscan -------------------------------
(***************************************************************************)
(* The density clustering of dbscan and dbscan_mv (src/src/               *)
(* anofox_dbscan.cpp), over the rows that module AnomalyFunctions scanned. *)
(* A coordinate is an integer, or NotFinite for NaN and infinity, which    *)
(* are near nothing.  The SQL functions measure Euclidean distance only.   *)
(*                                                                         *)
(* The queue of an expansion is a set: its elements come out in any order, *)
(* which covers the order of both neighbour searches.                      *)
(***************************************************************************)
EXTENDS Integers, Sequences, SequencesExt, FiniteSetsExt

CONSTANT NotFinite

VARIABLES
  call,         \* the arguments: eps, a fraction, and minPts
  rows,         \* the points, in scan order
  stage,        \* "run" while Fit runs, "done" and "raised" after it
  interrupted,  \* whether the query was interrupted
  visited,      \* the points already queried
  label,        \* point_type of each point
  cluster,      \* cluster_id of each point, -1 for none
  count,        \* neighbor_count of each point
  queue,        \* the points the running expansion has still to look at
  expanding,    \* whether an expansion is running
  clusterId     \* the number of the next cluster

dbscanVars == <<visited, label, cluster, count, queue, expanding, clusterId>>

Points == DOMAIN rows

(***************************************************************************)
(* The neighbours of a point.                                              *)
(***************************************************************************)
Total(d) ==
  LET sum[k \in 0 .. Len(d)] == IF k = 0 THEN 0 ELSE sum[k - 1] + d[k]
  IN  sum[Len(d)]

ComputeDistance(p, q) ==
  IF NotFinite \in Range(p) \cup Range(q)
  THEN NotFinite
  ELSE Total([i \in DOMAIN p |-> (p[i] - q[i]) * (p[i] - q[i])])

\* Squared distances are compared, as the root is monotone.
Near(p, q) ==
  LET d == ComputeDistance(p, q) IN
  d # NotFinite /\ d * call.eps[2] * call.eps[2] <= call.eps[1] * call.eps[1]

Within(i, j) == Near(rows[i], rows[j])

UseSorted1d == \A i \in Points : Len(rows[i]) = 1 /\ rows[i][1] # NotFinite

\* The stable sort by the coordinate: the place of a point in it, and the point at a place.
Precedes(i, j) == rows[i][1] < rows[j][1] \/ (rows[i][1] = rows[j][1] /\ i < j)

SortedPos(i) == Cardinality({j \in Points : Precedes(j, i)}) + 1

SortedOrder == [p \in Points |-> CHOOSE i \in Points : SortedPos(i) = p]

\* The walk outward from the point's sorted position, up to the first point too far away.
WalkSorted(i) ==
  LET order == SortedOrder
      pos   == SortedPos(i)
      near(p) == Within(i, order[p])
  IN  {order[p] : p \in {q \in 1 .. pos - 1 : \A r \in q .. pos - 1 : near(r)}}
        \cup {order[p] : p \in {q \in pos + 1 .. Len(order) : \A r \in pos + 1 .. q : near(r)}}

AllPairs(i) == {j \in Points \ {i} : Within(i, j)}

RegionQuery(i) == IF UseSorted1d THEN WalkSorted(i) ELSE AllPairs(i)

\* The neighbourhood includes the point itself.
IsCore(i) == Cardinality(RegionQuery(i)) + 1 >= call.minPts

(***************************************************************************)
(* Fit.                                                                    *)
(***************************************************************************)
DbscanIdle ==
  /\ visited = {} /\ label = <<>> /\ cluster = <<>> /\ count = <<>>
  /\ queue = {} /\ expanding = FALSE /\ clusterId = 0

StartDbscan ==
  /\ label' = [i \in Points |-> "UNVISITED"]
  /\ cluster' = [i \in Points |-> -1]
  /\ count' = [i \in Points |-> 0]
  /\ UNCHANGED <<visited, queue, expanding, clusterId>>

Mark(i, type, id) ==
  /\ visited' = visited \cup {i}
  /\ count' = [count EXCEPT ![i] = Cardinality(RegionQuery(i))]
  /\ label' = [label EXCEPT ![i] = type]
  /\ cluster' = [cluster EXCEPT ![i] = id]

\* The main loop takes the next point that no expansion has visited.
Visit ==
  /\ ~expanding /\ visited # Points /\ ~interrupted
  /\ LET i == Min(Points \ visited) IN
     IF IsCore(i)
     THEN Mark(i, "CORE", clusterId) /\ queue' = RegionQuery(i) /\ expanding' = TRUE
     ELSE Mark(i, "NOISE", -1) /\ UNCHANGED <<queue, expanding>>
  /\ UNCHANGED <<stage, clusterId>>

\* ExpandCluster: a point that was not visited yet joins the cluster, and extends it if core.
Expand ==
  /\ ~interrupted
  /\ \E i \in queue \ visited :
       IF IsCore(i)
       THEN Mark(i, "CORE", clusterId) /\ queue' = (queue \cup RegionQuery(i)) \ {i}
       ELSE Mark(i, "BORDER", clusterId) /\ queue' = queue \ {i}
  /\ UNCHANGED <<stage, expanding, clusterId>>

(* Mutant: an expansion passes by what the main loop took for noise. *)
PromoteNothing ==
  /\ \E i \in queue \cap visited : queue' = queue \ {i}
  /\ UNCHANGED <<stage, visited, label, cluster, count, expanding, clusterId>>

\* ExpandCluster: a visited point that was taken for noise becomes a border point.
Promote ==
  /\ \E i \in queue \cap visited :
       /\ queue' = queue \ {i}
       /\ IF label[i] = "NOISE"
          THEN /\ label' = [label EXCEPT ![i] = "BORDER"]
               /\ cluster' = [cluster EXCEPT ![i] = clusterId]
          ELSE UNCHANGED <<label, cluster>>
  /\ UNCHANGED <<stage, visited, count, expanding, clusterId>>

CloseCluster ==
  /\ expanding /\ queue = {}
  /\ clusterId' = clusterId + 1
  /\ expanding' = FALSE
  /\ UNCHANGED <<stage, visited, label, cluster, count, queue>>

FinishDbscan ==
  /\ ~expanding /\ visited = Points
  /\ stage' = "done"
  /\ UNCHANGED dbscanVars

\* The interrupt check before each region query.
RaiseInDbscan ==
  /\ interrupted
  /\ IF expanding THEN queue \ visited # {} ELSE visited # Points
  /\ stage' = "raised"
  /\ UNCHANGED dbscanVars

DbscanStep ==
  \/ Visit \/ Expand \/ Promote \/ CloseCluster \/ FinishDbscan \/ RaiseInDbscan

(***************************************************************************)
(* The result, in summary mode and in clusters mode.                       *)
(***************************************************************************)
GetClusterCount == Max({cluster[i] : i \in Points} \cup {-1}) + 1

GetNoiseCount == Cardinality({i \in Points : cluster[i] = -1})

GetLargestClusterSize ==
  Max({Cardinality({i \in Points : cluster[i] = c}) : c \in 0 .. GetClusterCount - 1} \cup {0})

\* ComputeDensityScore and ComputeAnomalyScores, as a fraction of ten times the divisor.
AnomalyScore(i) ==
  LET most == Max({count[j] : j \in Points} \cup {1}) IN
  CASE cluster[i] = -1   -> <<10 * most, 10 * most>>
    [] label[i] = "CORE" -> <<most + 2 * (most - count[i]), 10 * most>>
    [] OTHER             -> <<3 * most + 3 * (most - count[i]), 10 * most>>

DbscanSummary ==
  [clusters |-> GetClusterCount, noise |-> GetNoiseCount, largest |-> GetLargestClusterSize,
   status |-> IF GetNoiseCount > 0 THEN "fail" ELSE "pass"]

(***************************************************************************)
(* The textbook definition, which mentions neither order nor queue: core   *)
(* points within eps of each other share a cluster, clusters are numbered  *)
(* by their first core point, and a border point is in the first cluster   *)
(* that has a core point near it.                                          *)
(***************************************************************************)
Ball(i) == {j \in Points : j = i \/ Within(i, j)}

Cores == {i \in Points : Cardinality(Ball(i)) >= call.minPts}

\* The least set with the point that holds, with a core, all cores near it.
Component(i) ==
  LET cores == Cores
      near == [j \in cores |-> cores \cap Ball(j)]
      Closed(S) == \A j \in S : near[j] \subseteq S
  IN  {j \in cores : \A S \in SUBSET cores : i \in S /\ Closed(S) => j \in S}

FirstCores == {i \in Cores : i = Min(Component(i))}

ClusterOfCore(i) ==
  LET first == Min(Component(i)) IN Cardinality({j \in FirstCores : j < first})

ClusterByDefinition(i) ==
  IF Cores \cap Ball(i) = {} THEN -1
  ELSE IF i \in Cores THEN ClusterOfCore(i)
  ELSE Min({ClusterOfCore(j) : j \in Cores \cap Ball(i)})

LabelByDefinition(i) ==
  CASE i \in Cores -> "CORE" [] Cores \cap Ball(i) = {} -> "NOISE" [] OTHER -> "BORDER"
=============================================================================
