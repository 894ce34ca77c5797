----------------------------- MODULE PathFinding -----------------------------
(***************************************************************************)
(* The block path_finding: Dijkstra's algorithm with a std::set for the    *)
(* queue, over the cost table that waypoints_gen wrote. The first node is  *)
(* where the robot is, the last one its goal; a pair of nodes whose line   *)
(* an obstacle blocks costs infinity. The step of the block then follows   *)
(* previous[] from the goal and sends the nodes in their order.            *)
(*                                                                         *)
(* A distance is a natural number for a double of the code. A position of  *)
(* the arrays that the code writes is a node here, its way point elsewhere.*)
(***************************************************************************)
EXTENDS Integers, Sequences, FiniteSets

CONSTANTS
  Goal,     \* NUM_NODES - 1
  Slots     \* integers that fit what new int[0] returns

Inf    == -1
NoNode == -1
Nodes  == 0 .. Goal
Cost   == Nat \cup {Inf}

CONSTANT
  Tables    \* the cost tables that a step may read

ASSUME GoalAssumption == Goal \in Nat \ {0} /\ Slots \in Nat
ASSUME TablesAssumption == Tables \subseteq [Nodes \X Nodes -> Cost]

Less(a, b) == a # Inf /\ (b = Inf \/ a < b)

VARIABLES
  pc,         \* where the step is; "idle" between two steps
  cost,       \* costTable
  dist,       \* min_distance
  previous,   \* previous
  queue,      \* vertex_queue
  u, d,       \* u and dist, the entry taken from the queue last
  next,       \* target of the next edge of u
  path,       \* the nodes found so far, going back from the goal
  vertex,     \* vertex, the next node to go to
  out         \* the nodes that were sent last

searchVars == <<dist, previous, queue, u, d, next>>
pathVars   == <<path, vertex, out>>
vars       == <<pc, cost, searchVars, pathVars>>

(* Every variable holds what the code keeps there. *)
TypeOK ==
  /\ pc \in {"idle", "pop", "relax", "walk", "copy", "send"}
  /\ cost \in [Nodes \X Nodes -> Cost]
  /\ dist \in [Nodes -> Cost]
  /\ previous \in [Nodes -> Nodes \cup {NoNode}]
  /\ queue \in SUBSET (Nat \X Nodes)
  /\ u \in Nodes /\ d \in Nat
  /\ next \in 0 .. Goal + 1
  /\ path \in Seq(Nodes) /\ out \in Seq(Nodes)
  /\ vertex \in Nodes \cup {NoNode}

Init ==
  /\ pc = "idle"
  /\ cost \in Tables
  /\ dist = [n \in Nodes |-> Inf] /\ previous = [n \in Nodes |-> NoNode]
  /\ queue = {} /\ u = 0 /\ d = 0 /\ next = 0
  /\ path = <<>> /\ vertex = NoNode /\ out = <<>>

Goto(from, to) == pc = from /\ pc' = to

-----------------------------------------------------------------------------
(* Mutant of Begin: previous is not cleared. *)
BeginKeeps ==
  /\ Goto("idle", "pop")
  /\ cost' \in Tables
  /\ dist' = [n \in Nodes |-> IF n = 0 THEN 0 ELSE Inf]
  /\ queue' = {<<0, 0>>}
  /\ u' = 0 /\ d' = 0 /\ next' = 0
  /\ path' = <<>> /\ vertex' = NoNode
  /\ UNCHANGED <<previous, out>>

(* path_finding_step reads the table, and DijkstraComputePaths begins. *)
Begin ==
  /\ Goto("idle", "pop")
  /\ cost' \in Tables
  /\ dist' = [n \in Nodes |-> IF n = 0 THEN 0 ELSE Inf]
  /\ previous' = [n \in Nodes |-> NoNode]
  /\ queue' = {<<0, 0>>}
  /\ u' = 0 /\ d' = 0 /\ next' = 0
  /\ path' = <<>> /\ vertex' = NoNode
  /\ UNCHANGED out

(* Mutant of First: the set is not ordered by distance. *)
FirstAny(e) == e \in queue /\ \A f \in queue : e[2] >= f[2]

(* The order of the set: by distance, then by node. *)
First(e) ==
  e \in queue /\ \A f \in queue : e[1] < f[1] \/ (e[1] = f[1] /\ e[2] <= f[2])

(* Mutant of Pop: the entry is not erased. *)
PopKeeps ==
  /\ Goto("pop", "relax")
  /\ \E e \in queue : First(e) /\ d' = e[1] /\ u' = e[2]
  /\ next' = 0
  /\ UNCHANGED <<queue, cost, dist, previous, pathVars>>

Pop ==
  /\ Goto("pop", "relax")
  /\ \E e \in queue : /\ First(e)
                      /\ queue' = queue \ {e}
                      /\ d' = e[1] /\ u' = e[2]
  /\ next' = 0
  /\ UNCHANGED <<cost, dist, previous, pathVars>>

QueueEmpty ==
  /\ Goto("pop", "walk")
  /\ queue = {}
  /\ vertex' = Goal
  /\ UNCHANGED <<cost, searchVars, path, out>>

(* Mutant of Erased: the entry of a node that came nearer stays. *)
ErasedNot(v) == queue

Erased(v) == queue \ {<<dist[v], v>>}

(* Mutant of Nearer: only a node that was not reached yet is taken. *)
NearerOnce(v) == cost[<<u, v>>] # Inf /\ dist[v] = Inf

Nearer(v) == cost[<<u, v>>] # Inf /\ Less(d + cost[<<u, v>>], dist[v])

Relax ==
  /\ pc = "relax" /\ next <= Goal /\ Nearer(next)
  /\ queue' = Erased(next) \cup {<<d + cost[<<u, next>>], next>>}
  /\ dist' = [dist EXCEPT ![next] = d + cost[<<u, next>>]]
  /\ previous' = [previous EXCEPT ![next] = u]
  /\ next' = next + 1
  /\ UNCHANGED <<pc, cost, u, d, pathVars>>

Skip ==
  /\ pc = "relax" /\ next <= Goal /\ ~Nearer(next)
  /\ next' = next + 1
  /\ UNCHANGED <<pc, cost, dist, previous, queue, u, d, pathVars>>

EdgesDone ==
  /\ Goto("relax", "pop")
  /\ next = Goal + 1
  /\ UNCHANGED <<cost, searchVars, pathVars>>

(* Mutant of Walk: the loop goes on before it takes the node. *)
WalkAhead ==
  /\ pc = "walk" /\ vertex # NoNode
  /\ path' = <<previous[vertex]>> \o path
  /\ vertex' = previous[vertex]
  /\ UNCHANGED <<pc, cost, searchVars, out>>

(* DijkstraGetShortestPathTo. *)
Walk ==
  /\ pc = "walk" /\ vertex # NoNode
  /\ path' = <<vertex>> \o path
  /\ vertex' = previous[vertex]
  /\ UNCHANGED <<pc, cost, searchVars, out>>

WalkEnds ==
  /\ Goto("walk", "copy")
  /\ vertex = NoNode
  /\ UNCHANGED <<cost, searchVars, pathVars>>

(* The path is copied to arr, which has room for Slots integers. What      *)
(* happens when a longer path overwrites what lies behind is left out.     *)
Copy ==
  /\ Goto("copy", "send")
  /\ UNCHANGED <<cost, searchVars, pathVars>>

(* Mutant of Stops: the loop stops before it has taken the goal. *)
StopsEarly(i) == path[i] = Goal \/ (i < Len(path) /\ path[i + 1] = Goal)

(* The loop over arr stops at the first goal; nValidNodes is i there. *)
Stops(i) == path[i] = Goal /\ \A j \in 1 .. i - 1 : path[j] # Goal

Send ==
  /\ Goto("send", "idle")
  /\ \E i \in 1 .. Len(path) : Stops(i) /\ out' = SubSeq(path, 1, i)
  /\ UNCHANGED <<cost, searchVars, path, vertex>>

Step == Pop \/ QueueEmpty \/ Relax \/ Skip \/ EdgesDone \/ Walk \/ WalkEnds \/ Copy \/ Send

Next == Begin \/ Step

Spec == Init /\ [][Next]_vars

(* The thread of the trigger goes on with a step that it began. *)
FairSpec == Spec /\ WF_vars(Step)

-----------------------------------------------------------------------------
(***************************************************************************)
(* Properties.                                                             *)
(***************************************************************************)
Waiting(v) == <<dist[v], v>> \in queue
Reached(v) == dist[v] # Inf
Settled(v) == Reached(v) /\ ~Waiting(v)

(* Erase and insert keep the set and min_distance together: a node is in   *)
(* the queue once at most, and under its present distance.                 *)
QueueMatches == pc # "idle" => \A e \in queue : e[1] = dist[e[2]]

(* A node that was taken from the queue is never found nearer afterwards,  *)
(* so that its edges are looked at once.                                   *)
SettledStays ==
  [][(pc \in {"pop", "relax"}) =>
       \A v \in Nodes : Settled(v) => dist'[v] = dist[v] /\ ~Waiting(v)']_vars

(* When the search ends no edge leads to a shorter distance, and every     *)
(* node but the first has its distance by way of its predecessor: what     *)
(* makes distances the least ones.                                         *)
Searched == pc \in {"walk", "copy", "send"}
Optimal ==
  Searched => \A v \in Nodes :
    /\ \A w \in Nodes : Reached(w) /\ cost[<<w, v>>] # Inf =>
         Reached(v) /\ dist[v] <= dist[w] + cost[<<w, v>>]
    /\ Reached(v) /\ v # 0 =>
         /\ previous[v] # NoNode /\ Reached(previous[v])
         /\ cost[<<previous[v], v>>] # Inf
         /\ dist[v] = dist[previous[v]] + cost[<<previous[v], v>>]

(* The path that is sent leads along edges of the table, never between two *)
(* nodes that an obstacle separates; it ends at the goal, and begins at    *)
(* the robot if it has more than the goal.                                 *)
PathIsDriven ==
  pc = "send" =>
    /\ path # <<>> /\ path[Len(path)] = Goal
    /\ \A i \in 1 .. Len(path) - 1 : cost[<<path[i], path[i + 1]>>] # Inf
    /\ Len(path) > 1 => path[1] = 0
    /\ Reached(Goal) <=> Len(path) > 1

(* "for RT blocks: any memory should be allocated" in init: the step       *)
(* allocates arr itself, before it knows how long the path is.             *)
PathFits == pc = "send" => Len(path) <= Slots

(* The step of the block answers with a shortest route. *)
Abstract == INSTANCE ShortestRoute WITH asked <- pc # "idle", route <- out

(* Seen from its ports path_finding is a function that returns a shortest  *)
(* route from the robot to the goal, or the goal alone.                    *)
ImplementsShortestRoute == Abstract!Spec

(* previous[] has no cycle: the search and the walk end. *)
StepEnds == pc = "pop" ~> pc = "idle"
=============================================================================
