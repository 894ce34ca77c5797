------------------------------- MODULE KMeans -------------------------------
(***************************************************************************)
(* The step function of k_means_plus: kpp_s seeds the centers with points  *)
(* of the scan, lloyd_s then moves them until no point changes its         *)
(* cluster. One action is one loop over the points or the seeds.           *)
(*                                                                         *)
(* Coordinates are integers. A center is a sum of points with their        *)
(* number, so that means are exact; number 0 is the NaN of 0.0 / 0, which  *)
(* is nearer than nothing. Rounding is left out.                           *)
(***************************************************************************)
EXTENDS Integers, FiniteSets

CONSTANTS
  PTS,            \* number of points of a scan
  MaxClusters,    \* room for centers
  MapPoints,      \* the points <<x, y>> that occur
  ClusterCounts,  \* the numbers of clusters that are asked for
  MaxScans        \* bound: number of scans

ASSUME ClustersAssumption ==
  /\ PTS \in Nat \ {0} /\ MaxClusters \in Nat /\ MaxScans \in Nat
  /\ MapPoints \subseteq Int \X Int
  /\ ClusterCounts \subseteq 1 .. MaxClusters

Scans  == [1 .. PTS -> MapPoints]
Center == [x : Int, y : Int, n : Nat]

VARIABLES
  kpc,         \* where the step is
  n_clusters,  \* inf->n_clusters
  pts,         \* inf->pts without the groups
  group,       \* the cluster of each point, which outlives the step
  cent,        \* inf->cent, which outlives the step
  seeded,      \* n_cluster of kpp_s: number of seeded centers
  changed,     \* number of points that changed their cluster
  scans        \* number of scans that came

clusterVars == <<kpc, n_clusters, pts, group, cent, seeded, changed, scans>>

ClusterTypes ==
  /\ kpc \in {"idle", "seed", "assign", "means", "regroup", "send"}
  /\ n_clusters \in 1 .. MaxClusters
  /\ pts \in [1 .. PTS -> Int \X Int]
  /\ group \in [1 .. PTS -> 1 .. MaxClusters]
  /\ cent \in [1 .. MaxClusters -> Center]
  /\ seeded \in 0 .. n_clusters
  /\ changed \in 0 .. PTS
  /\ scans \in 0 .. MaxScans

(* calloc, init_xy_s, and the number of the configuration. *)
ClusterInit ==
  /\ kpc = "idle" /\ n_clusters \in ClusterCounts
  /\ pts = [j \in 1 .. PTS |-> <<0, 0>>]
  /\ group = [j \in 1 .. PTS |-> 1]
  /\ cent = [i \in 1 .. MaxClusters |-> [x |-> 0, y |-> 0, n |-> 1]]
  /\ seeded = 0 /\ changed = 0 /\ scans = 0

-----------------------------------------------------------------------------
AsCenter(p) == [x |-> p[1], y |-> p[2], n |-> 1]
NaN(c)      == c.n = 0

(* dist2_s of point p and center c is Dist2(p, c) over the square of c.n.  *)
Dist2(p, c) == (c.x - p[1] * c.n) * (c.x - p[1] * c.n)
             + (c.y - p[2] * c.n) * (c.y - p[2] * c.n)
NearerTo(p, c, e) == Dist2(p, c) * (e.n * e.n) < Dist2(p, e) * (c.n * c.n)

(* The centers among the first m that no other one of them is nearer than. *)
NearestSet(p, m) ==
  {i \in 1 .. m : /\ ~NaN(cent[i])
                  /\ \A j \in 1 .. m : ~NearerTo(p, cent[j], cent[i])}

(* nearest_s among the first m centers for a point of cluster g: the first *)
(* one of the nearest. No comparison with NaN is true.                     *)
Nearest(p, g, m) ==
  LET near == NearestSet(p, m)
  IN  IF near = {} THEN g ELSE CHOOSE i \in near : \A j \in near : i <= j

(* n_clusters is read, if its port has a number, and a scan arrives;       *)
(* cent[0] is a random point.                                              *)
Scan ==
  /\ kpc = "idle" /\ scans < MaxScans
  /\ scans' = scans + 1
  /\ n_clusters' \in ClusterCounts \cup {n_clusters}
  /\ pts' \in Scans
  /\ \E j \in 1 .. PTS : cent' = [cent EXCEPT ![1] = AsCenter(pts'[j])]
  /\ seeded' = 1
  /\ kpc' = "seed"
  /\ UNCHANGED <<group, changed>>

Covered(j) == Dist2(pts[j], cent[Nearest(pts[j], group[j], seeded)]) = 0

(* kpp_s draws the next seed among the points with their distance as       *)
(* weight. The draw 0 takes the first point even if it is covered, and     *)
(* rand() = RAND_MAX makes randf exceed the sum: no point is taken and the *)
(* center of the scan before stays.                                        *)
Seed ==
  /\ kpc = "seed" /\ seeded < n_clusters
  /\ \/ \E j \in 1 .. PTS :
          /\ j = 1 \/ ~Covered(j)
          /\ cent' = [cent EXCEPT ![seeded + 1] = AsCenter(pts[j])]
     \/ /\ \E j \in 1 .. PTS : ~Covered(j)
        /\ UNCHANGED cent
  /\ seeded' = seeded + 1
  /\ UNCHANGED <<kpc, n_clusters, pts, group, changed, scans>>

Assign ==
  /\ kpc = "seed" /\ seeded = n_clusters
  /\ group' = [j \in 1 .. PTS |-> Nearest(pts[j], group[j], seeded)]
  /\ changed' = 0
  /\ kpc' = "means"
  /\ UNCHANGED <<n_clusters, pts, cent, seeded, scans>>

(* A sum over f[1] to f[m]. *)
SumTo(f, m) ==
  LET s[j \in 0 .. m] == IF j = 0 THEN 0 ELSE s[j - 1] + f[j] IN s[m]

(* The sum of the points of cluster i, and their number.                   *)
Members(i) == {j \in 1 .. PTS : group[j] = i}
Mean(i) ==
  [x |-> SumTo([j \in 1 .. PTS |-> IF group[j] = i THEN pts[j][1] ELSE 0], PTS),
   y |-> SumTo([j \in 1 .. PTS |-> IF group[j] = i THEN pts[j][2] ELSE 0], PTS),
   n |-> Cardinality(Members(i))]

Means ==
  /\ kpc = "means"
  /\ cent' = [i \in 1 .. MaxClusters |-> IF i <= n_clusters THEN Mean(i) ELSE cent[i]]
  /\ kpc' = "regroup"
  /\ UNCHANGED <<n_clusters, pts, group, seeded, changed, scans>>

(* Mutant of Good: one point may still move. *)
GoodMost == changed' <= 1

(* The loop ends when changed is not above len >> 10, which is 0 for the   *)
(* 360 points of a scan.                                                   *)
Good == changed' = 0

(* Mutant of Regroup: the loop ends when points move. *)
RegroupInverted ==
  /\ kpc = "regroup"
  /\ LET near == [j \in 1 .. PTS |-> Nearest(pts[j], group[j], n_clusters)]
     IN  /\ group' = near
         /\ changed' = Cardinality({j \in 1 .. PTS : near[j] # group[j]})
  /\ kpc' = IF Good THEN "means" ELSE "send"
  /\ UNCHANGED <<n_clusters, pts, cent, seeded, scans>>

Regroup ==
  /\ kpc = "regroup"
  /\ LET near == [j \in 1 .. PTS |-> Nearest(pts[j], group[j], n_clusters)]
     IN  /\ group' = near
         /\ changed' = Cardinality({j \in 1 .. PTS : near[j] # group[j]})
  /\ kpc' = IF Good THEN "send" ELSE "means"
  /\ UNCHANGED <<n_clusters, pts, cent, seeded, scans>>

(* The centers and their number are written to the ports.                  *)
SendCenters ==
  /\ kpc = "send"
  /\ kpc' = "idle"
  /\ UNCHANGED <<n_clusters, pts, group, cent, seeded, changed, scans>>

ClusterStep == Seed \/ Assign \/ Means \/ Regroup \/ SendCenters
ClusterNext == Scan \/ ClusterStep

ClusterSpec == ClusterInit /\ [][ClusterNext]_clusterVars

(* Nothing stops the step once it runs.                                    *)
ClusterFairSpec == ClusterSpec /\ WF_clusterVars(ClusterStep)

-----------------------------------------------------------------------------
(* The centers that are sent come from this scan alone: each is the mean   *)
(* of the points of its cluster, or NaN for an empty one, and no point has *)
(* another center that is nearer than its own.                             *)
Clustered ==
  kpc = "send" =>
    /\ \A i \in 1 .. n_clusters : cent[i] = Mean(i)
    /\ \A j \in 1 .. PTS :
         /\ group[j] \in 1 .. n_clusters
         /\ \A i \in 1 .. n_clusters : ~NearerTo(pts[j], cent[i], cent[group[j]])

(* No obstacle is sent twice: centers that are numbers differ.             *)
Distinct ==
  kpc = "send" =>
    \A i, j \in 1 .. n_clusters : i # j /\ ~NaN(cent[i]) /\ ~NaN(cent[j]) =>
      cent[i].x * cent[j].n # cent[j].x * cent[i].n
        \/ cent[i].y * cent[j].n # cent[j].y * cent[i].n

(* The centers that are sent are the means of their clusters, no point has *)
(* a nearer center than its own, and no obstacle is sent twice (lloyd_s):  *)
(* neither a center that is NaN, nor one left by a scan before, nor a      *)
(* number of clusters that changed between two scans shows.                *)
KMeansSafe == ClusterTypes /\ Clustered /\ Distinct

(* What the centers explain of the scan, times a common denominator: the   *)
(* squared distances of the points to their means sum up to the rest.      *)
Factorial[n \in Nat] == IF n = 0 THEN 1 ELSE n * Factorial[n - 1]
Explained(cs) ==
  SumTo([i \in 1 .. n_clusters |->
           IF NaN(cs[i]) THEN 0
           ELSE ((cs[i].x * cs[i].x + cs[i].y * cs[i].y) * Factorial[PTS]) \div cs[i].n],
        n_clusters)

(* Every pass of lloyd_s but the last brings the centers strictly nearer   *)
(* to the points, also when points only move to an equally near center     *)
(* that is listed earlier.                                                 *)
Closer == (kpc = "means" /\ changed > 0) => Explained(cent') > Explained(cent)

(* The loop, which has no bound on its passes, ends for every scan.        *)
Terminates == (kpc # "idle") ~> (kpc = "idle")
=============================================================================
