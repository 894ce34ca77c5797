---------------------------- MODULE MCPathFinding ----------------------------
(***************************************************************************)
(* The searches of the pipeline, and the controller. PathFinding has four  *)
(* nodes, over all tables with few weights that waypoints_gen can write    *)
(* (its edges lead to later nodes, and nodes 2k and 2k+1 are not joined),  *)
(* and over tables with a cycle. KMeans has two scans of a few points on a *)
(* line, so that centers of the first outlive it ("line"), and one scan    *)
(* for more clusters ("far"). The controller of fmpc_c and of fmpc_c2      *)
(* passes obstacles that lie left and right of the way to the goal;        *)
(* "newton" is the algebra of its solver. The variable part says which of  *)
(* them a behaviour runs; the others stay in their initial states.         *)
(***************************************************************************)
EXTENDS PathFinding, KMeans, TLC

Blocked == [e \in Nodes \X Nodes |-> Inf]
Joined  == {e \in Nodes \X Nodes : e[1] < e[2] /\ ~(e[1] % 2 = 0 /\ e[2] = e[1] + 1)}
JoinedTables == {f @@ Blocked : f \in [Joined -> {Inf, 0, 1, 3}]}

Cyclic == <<0, 1>> :> 4 @@ <<0, 2>> :> 1 @@ <<2, 1>> :> 1 @@ <<1, 2>> :> 0 @@
          <<1, 3>> :> 1 @@ <<2, 3>> :> 4 @@ <<0, 3>> :> 7
CyclicTables == {[e \in S |-> Cyclic[e]] @@ Blocked : S \in SUBSET DOMAIN Cyclic}

SomeTables == JoinedTables \cup CyclicTables

VARIABLE part

(* Two scans of three places, with two clusters and then one or two; or    *)
(* one scan of four places with three clusters.                            *)
SomePlaces == {<<0, 0>>, <<1, 0>>, <<3, 0>>, <<7, 0>>}
LineScans == /\ Scan
             /\ \A j \in 1 .. PTS : pts'[j] # <<7, 0>>
             /\ n_clusters' \in (IF scans = 0 THEN {2} ELSE {1, 2})
FarScans  == scans = 0 /\ Scan /\ n_clusters' = 3

(* Positions left of the goal, inside and outside of the circles. *)
Places2 == {<<-5, -9>>, <<-5, -3>>, <<-5, 0>>, <<-5, 9>>, <<-2, -3>>, <<0, 0>>}
BothSides == {[x |-> -5, y |-> 3, r |-> 5], [x |-> -5, y |-> -3, r |-> 5]}

VARIABLES fpc, X_ao, lo, hi, obstacle, count, short, reach, inside, wasReset
controlVars == <<fpc, X_ao, lo, hi, obstacle, count, short, reach, inside, wasReset>>

Control  == INSTANCE Fmpc WITH
  FMPC_GT <- 3, Positions <- Places2, Obstacles <- BothSides, Guarded <- FALSE,
  Xmin_const <- <<-20, -20>>, Xmax_const <- <<20, 20>>, niter <- 2, MaxShort <- 1
Control2 == INSTANCE Fmpc WITH
  FMPC_GT <- 3, Positions <- Places2, Obstacles <- BothSides, Guarded <- TRUE,
  Xmin_const <- <<-20, -20>>, Xmax_const <- <<20, 20>>, niter <- 2, MaxShort <- 1
ASSUME Control!FmpcAssumption /\ Control2!FmpcAssumption

VARIABLES stage, prob, iiter, row, z, nu, hp, rd, rp, inv, Ld, Lld, v, y, dz, dnu
newtonVars == <<stage, prob, iiter, row, z, nu, hp, rd, rp, inv, Ld, Lld, v, y, dz, dnu>>

Newton == INSTANCE FmpcSolver WITH
  Prime <- 43, FMPC_GN <- 2, FMPC_GM <- 2, FMPC_GT <- 3, Problems <- 1..10, MaxIter <- 2
ASSUME Newton!PrimeAssumption /\ Newton!SizeAssumption

NoProblem ==
  /\ stage = "off" /\ prob = 0 /\ iiter = 0 /\ row = 0 /\ z = <<>> /\ nu = <<>> /\ hp = <<>>
  /\ rd = <<>> /\ rp = <<>> /\ inv = <<>> /\ Ld = <<>> /\ Lld = <<>> /\ v = <<>> /\ y = <<>>
  /\ dz = <<>> /\ dnu = <<>>

Path(A)       == part = "path" /\ A /\ UNCHANGED <<part, clusterVars, controlVars, newtonVars>>
Cluster(p, A) == part = p /\ A /\ UNCHANGED <<part, vars, controlVars, newtonVars>>
Clustering    == \E p \in {"line", "far"} : Cluster(p, ClusterStep)
Steer(p, A)   == part = p /\ A /\ UNCHANGED <<part, vars, clusterVars, newtonVars>>
Solving(A)    == part = "newton" /\ A /\ UNCHANGED <<part, vars, clusterVars, controlVars>>

MCInit ==
  /\ part \in {"path", "line", "far", "fmpc_c", "fmpc_c2", "newton"}
  /\ Init /\ (part = "path" \/ cost = Blocked)
  /\ ClusterInit /\ n_clusters = (IF part = "far" THEN 3 ELSE 2)
  /\ Control!Init /\ (part \in {"fmpc_c", "fmpc_c2"} \/ obstacle.y > 0)
  /\ IF part = "newton" THEN Newton!Init ELSE NoProblem
MCNext ==
  \/ Path(Next)
  \/ Cluster("line", LineScans) \/ Cluster("far", FarScans) \/ Clustering
  \/ Steer("fmpc_c", Control!Next) \/ Steer("fmpc_c2", Control2!Next)
  \/ Solving(Newton!Next)
MCVars == <<part, vars, clusterVars, controlVars, newtonVars>>

(* The fairness of the modules: a step that has begun goes on.             *)
MCSpec ==
  /\ MCInit /\ [][MCNext]_MCVars
  /\ WF_MCVars(Path(Step))
  /\ WF_MCVars(Clustering)
  /\ WF_MCVars(Steer("fmpc_c", Control!Solve)) /\ WF_MCVars(Steer("fmpc_c2", Control2!Solve))

(* Neither search runs for ever: the path search ends, and so does the     *)
(* clustering, which has no bound on its passes, because each pass brings  *)
(* the centers nearer to the points.                                       *)
StepsEnd ==
  /\ StepEnds
  /\ Terminates /\ [][Closer]_clusterVars

(* A step of the controller that begins with room between its bounds ends, *)
(* with a plan between them, and fmpc_c2 always begins like this as long   *)
(* as it has not reset its bounds (youbot_fmpc, fmpc_solver).              *)
ControllerRight ==
  /\ Control!StepEnds /\ Control!PlanBetween /\ Control2!PlanBetween
  /\ [](part = "fmpc_c2" => Control2!TypeOK /\ Control2!GuardKeepsOrder)

(* Every step of the controller ends: its meta data promise real time.     *)
EveryStepEnds == part = "fmpc_c" => Control!EveryStepEnds

(* The residuals are those of the problem, the Newton step solves the      *)
(* linear system it is meant to solve, and the plan obeys the dynamics     *)
(* after one whole step (gfgphp, rdrp, dnudz).                             *)
NewtonRight ==
  part = "newton" => /\ Newton!TypeOK /\ Newton!ResidualsRight
                     /\ Newton!StepRight /\ Newton!StaysFeasible
=============================================================================
