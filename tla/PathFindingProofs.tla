-------------------------- MODULE PathFindingProofs --------------------------
(***************************************************************************)
(* For any number of nodes and any cost tables: the search of path_finding *)
(* settles nodes for good, ends with the least distances, the path that is *)
(* sent leads along edges from the robot to the goal, and no other way     *)
(* from the robot to the goal is shorter. And for any scans of points: the *)
(* centers that k_means_plus sends are right.                              *)
(***************************************************************************)
EXTENDS PathFinding, KMeans, FiniteSetTheorems, TLAPS

(* Between two actions the queue has the reached nodes that wait. *)
QInv == \A e \in queue : Reached(e[2]) /\ e[1] = dist[e[2]]

(* The node whose edges are looked at keeps its distance. *)
CurInv == pc = "relax" => dist[u] = d /\ ~Waiting(u)

(* The entry taken last is between the settled nodes and those that wait. *)
OrderInv == pc \in {"pop", "relax"} =>
  \A v \in Nodes : Reached(v) => IF Waiting(v) THEN d <= dist[v] ELSE dist[v] <= d

(* The edges of a settled node are relaxed, except those still to come. *)
Relaxed(w, v) == cost[<<w, v>>] # Inf => Reached(v) /\ dist[v] <= dist[w] + cost[<<w, v>>]
RelaxedInv == pc # "idle" =>
  \A w \in Nodes : Settled(w) =>
    \A v \in Nodes : ~(pc = "relax" /\ w = u /\ v >= next) => Relaxed(w, v)

(* A node has the distance that its predecessor gave it, or that one came  *)
(* nearer since.                                                           *)
Tight(v) == /\ previous[v] # NoNode /\ Reached(previous[v])
            /\ cost[<<previous[v], v>>] # Inf
            /\ dist[previous[v]] + cost[<<previous[v], v>>] <= dist[v]
PrevInv == pc # "idle" =>
  /\ dist[0] = 0 /\ previous[0] = NoNode
  /\ \A v \in Nodes : Reached(v) /\ v # 0 => Tight(v)
  /\ \A v \in Nodes : previous[v] # NoNode => Reached(v)

EndInv == Searched => queue = {}

(* The walk goes from the goal along previous. *)
WalkInv == Searched =>
  IF path = <<>> THEN pc = "walk" /\ vertex = Goal
  ELSE /\ path[Len(path)] = Goal
       /\ vertex = previous[path[1]]
       /\ \A i \in 1 .. Len(path) - 1 : path[i] = previous[path[i + 1]]
       /\ pc # "walk" => vertex = NoNode

PathNone == ~Searched => (pc = "idle" \/ path = <<>>)

IInv == /\ TypeOK /\ PathNone /\ QInv /\ CurInv /\ OrderInv /\ RelaxedInv /\ PrevInv
        /\ EndInv /\ WalkInv

-----------------------------------------------------------------------------
LEMMA Facts ==
  /\ Goal \in Nat /\ Goal # 0
  /\ 0 \in Nodes /\ Goal \in Nodes
  /\ \A v \in Nodes : v \in Nat /\ v <= Goal
  /\ \A n \in Nat : n <= Goal => n \in Nodes
  /\ NoNode \notin Nodes
  /\ Inf \in Cost /\ Nat \subseteq Cost
  /\ \A c \in Cost : c # Inf => c \in Nat
  /\ Inf \notin Nat
BY GoalAssumption DEF Nodes, NoNode, Inf, Cost

LEMMA InitType == Init => TypeOK
<1> SUFFICES ASSUME Init PROVE TypeOK
  OBVIOUS
<1>1. cost \in [Nodes \X Nodes -> Cost]
  BY TablesAssumption DEF Init
<1>2. dist \in [Nodes -> Cost] /\ previous \in [Nodes -> Nodes \cup {NoNode}]
  BY Facts DEF Init
<1>3. queue \in SUBSET (Nat \X Nodes) /\ next \in 0 .. Goal + 1
  BY Facts DEF Init
<1> QED
  BY <1>1, <1>2, <1>3, Facts DEF Init, TypeOK

LEMMA NextType == TypeOK /\ [Next]_vars => TypeOK'
<1> SUFFICES ASSUME TypeOK, [Next]_vars PROVE TypeOK'
  OBVIOUS
<1>1. CASE Begin
  <2>1. cost' \in [Nodes \X Nodes -> Cost]
    BY <1>1, TablesAssumption DEF Begin
  <2>2. dist' \in [Nodes -> Cost] /\ previous' \in [Nodes -> Nodes \cup {NoNode}]
    BY <1>1, Facts DEF Begin
  <2>3. queue' \in SUBSET (Nat \X Nodes) /\ next' \in 0 .. Goal + 1
    BY <1>1, Facts DEF Begin
  <2> QED
    BY <1>1, <2>1, <2>2, <2>3, Facts DEF TypeOK, Begin, Goto
<1>2. CASE Pop
  <2>1. PICK e \in queue : queue' = queue \ {e} /\ d' = e[1] /\ u' = e[2]
    BY <1>2 DEF Pop
  <2>2. e \in Nat \X Nodes /\ queue' \in SUBSET (Nat \X Nodes)
    BY <2>1 DEF TypeOK
  <2>3. next' \in 0 .. Goal + 1
    BY <1>2, Facts DEF Pop
  <2> QED
    BY <1>2, <2>1, <2>2, <2>3 DEF TypeOK, Pop, Goto, pathVars
<1>3. CASE QueueEmpty
  BY <1>3, Facts DEF TypeOK, QueueEmpty, Goto, searchVars
<1>4. CASE Relax
  <2>1. next \in Nodes /\ cost[<<u, next>>] \in Nat /\ d + cost[<<u, next>>] \in Nat
    <3>1. next \in Nodes /\ cost[<<u, next>>] \in Cost /\ cost[<<u, next>>] # Inf
      BY <1>4, Facts DEF TypeOK, Relax, Nearer
    <3> QED
      BY <3>1, Facts DEF TypeOK
  <2>2. queue' \in SUBSET (Nat \X Nodes)
    BY <1>4, <2>1 DEF TypeOK, Relax, Erased
  <2>3. dist' \in [Nodes -> Cost] /\ previous' \in [Nodes -> Nodes \cup {NoNode}]
    BY <1>4, <2>1, Facts DEF TypeOK, Relax
  <2> QED
    <3>1. next' \in 0 .. Goal + 1 /\ u \in Nodes /\ d \in Nat
      BY <1>4, Facts DEF TypeOK, Relax
    <3> QED
      BY <1>4, <2>2, <2>3, <3>1 DEF TypeOK, Relax, pathVars
<1>5. CASE Skip
  BY <1>5, Facts DEF TypeOK, Skip, pathVars
<1>6. CASE EdgesDone
  BY <1>6 DEF TypeOK, EdgesDone, Goto, searchVars, pathVars
<1>7. CASE Walk
  <2>1. path' \in Seq(Nodes) /\ vertex' \in Nodes \cup {NoNode}
    BY <1>7 DEF TypeOK, Walk
  <2> QED
    BY <1>7, <2>1 DEF TypeOK, Walk, searchVars
<1>8. CASE WalkEnds \/ Copy
  BY <1>8 DEF TypeOK, WalkEnds, Copy, Goto, searchVars, pathVars
<1>9. CASE Send
  <2>1. PICK i \in 1 .. Len(path) : out' = SubSeq(path, 1, i)
    BY <1>9 DEF Send
  <2>2. out' \in Seq(Nodes)
    BY <2>1 DEF TypeOK
  <2> QED
    BY <1>9, <2>2 DEF TypeOK, Send, Goto, searchVars
<1>10. CASE UNCHANGED vars
  BY <1>10 DEF TypeOK, vars, searchVars, pathVars
<1> QED
  BY <1>1, <1>2, <1>3, <1>4, <1>5, <1>6, <1>7, <1>8, <1>9, <1>10 DEF Next, Step

(* Every variable keeps its type, whatever tables are read. *)
THEOREM TypeCorrect == Spec => []TypeOK
  BY InitType, NextType, PTL DEF Spec
-----------------------------------------------------------------------------
(***************************************************************************)
(* The invariant of the search and of the walk.                            *)
(***************************************************************************)
LEMMA InitInv == Init => IInv
<1> SUFFICES ASSUME Init PROVE IInv
  OBVIOUS
<1>1. TypeOK
  BY InitType
<1> QED
  BY <1>1 DEF Init, IInv, QInv, CurInv, OrderInv, RelaxedInv, PrevInv, EndInv,
              WalkInv, PathNone, Searched, pathVars

LEMMA BeginInv == IInv /\ TypeOK' /\ Begin => IInv'
<1> SUFFICES ASSUME IInv, TypeOK', Begin PROVE IInv'
  OBVIOUS
<1>1. \A v \in Nodes : dist'[v] = (IF v = 0 THEN 0 ELSE Inf) /\ previous'[v] = NoNode
  BY DEF Begin
<1>2. /\ queue' = {<<0, 0>>} /\ pc' = "pop" /\ d' = 0
  BY DEF Begin, Goto
<1>3. dist'[0] = 0 /\ 0 # Inf
  BY <1>1, Facts
<1>4. QInv'
  BY <1>2, <1>3 DEF QInv, Reached
<1>5. OrderInv'
  BY <1>1, <1>2, <1>3, Facts DEF OrderInv, Reached, Waiting
<1>6. RelaxedInv'
  BY <1>1, <1>2, <1>3, Facts DEF RelaxedInv, Settled, Reached, Waiting
<1>7. PrevInv'
  BY <1>1, <1>3, Facts DEF PrevInv, Reached
<1>8. path' = <<>>
  BY DEF Begin
<1> QED
  BY <1>2, <1>4, <1>5, <1>6, <1>7, <1>8 DEF IInv, CurInv, EndInv, WalkInv, PathNone, Searched

LEMMA PopInv == IInv /\ TypeOK' /\ Pop => IInv'
<1> SUFFICES ASSUME IInv, TypeOK', Pop PROVE IInv'
  OBVIOUS
<1>1. PICK e \in queue : First(e) /\ queue' = queue \ {e} /\ d' = e[1] /\ u' = e[2]
  BY DEF Pop
<1>2. /\ pc = "pop" /\ pc' = "relax" /\ next' = 0
      /\ UNCHANGED <<cost, dist, previous, pathVars>>
  BY DEF Pop, Goto
<1>3. /\ u' \in Nodes /\ d' \in Nat /\ e = <<d', u'>>
      /\ dist[u'] = d' /\ Reached(u')
  BY <1>1 DEF IInv, TypeOK, QInv, Reached
<1>4. \A v \in Nodes : Waiting(v)' <=> Waiting(v) /\ v # u'
  BY <1>1, <1>2, <1>3 DEF Waiting
<1>5. \A v \in Nodes : Reached(v)' <=> Reached(v)
  BY <1>2 DEF Reached
<1>6. QInv'
  BY <1>1, <1>2 DEF IInv, QInv, Reached
<1>7. CurInv'
  BY <1>2, <1>3, <1>4 DEF CurInv
<1>8. OrderInv'
  <2> SUFFICES ASSUME NEW v \in Nodes, Reached(v)
               PROVE  IF Waiting(v)' THEN d' <= dist[v] ELSE dist[v] <= d'
    BY <1>2, <1>5 DEF OrderInv
  <2>1. dist[v] \in Nat /\ d \in Nat /\ Waiting(u')
    BY <1>1, <1>3, Facts DEF Reached, IInv, TypeOK, Waiting
  <2>2. d <= d'
    BY <1>2, <1>3, <2>1 DEF IInv, OrderInv
  <2>3. CASE Waiting(v) /\ v # u'
    <3>1. <<dist[v], v>> \in queue
      BY <2>3 DEF Waiting
    <3>2. d' <= dist[v]
      BY <3>1, <1>1, <1>3, <2>1 DEF First
    <3> QED
      BY <2>3, <3>2, <1>4
  <2>4. CASE v = u'
    BY <2>4, <1>3, <1>4
  <2>5. CASE ~Waiting(v) /\ v # u'
    <3>1. dist[v] <= d
      BY <2>5, <1>2 DEF IInv, OrderInv
    <3> QED
      BY <2>5, <3>1, <2>1, <2>2, <1>3, <1>4
  <2> QED
    BY <2>3, <2>4, <2>5
<1>9. RelaxedInv'
  <2> SUFFICES ASSUME NEW w \in Nodes, Settled(w)', NEW v \in Nodes, ~(w = u' /\ v >= 0)
               PROVE  Relaxed(w, v)'
    BY <1>2 DEF RelaxedInv
  <2>1. w # u'
    BY Facts
  <2>2. Settled(w)
    BY <2>1, <1>4, <1>5 DEF Settled
  <2>3. Relaxed(w, v)
    BY <2>2, <1>2 DEF IInv, RelaxedInv
  <2> QED
    BY <2>3, <1>2 DEF Relaxed, Reached
<1>10. PrevInv'
  BY <1>2 DEF IInv, PrevInv, Tight, Reached
<1> QED
  BY <1>2, <1>6, <1>7, <1>8, <1>9, <1>10 DEF IInv, EndInv, WalkInv, PathNone, Searched, pathVars

LEMMA RelaxInv == IInv /\ TypeOK' /\ Relax => IInv'
<1> SUFFICES ASSUME IInv, TypeOK', Relax PROVE IInv'
  OBVIOUS
<1>0. PICK n \in Nodes : n = next
  BY Facts DEF IInv, TypeOK, Relax
<1> DEFINE c == d + cost[<<u, n>>]
<1>1. /\ pc = "relax" /\ cost[<<u, n>>] \in Nat /\ c \in Nat /\ u \in Nodes
      /\ d \in Nat
  <2>1. cost[<<u, n>>] \in Cost /\ cost[<<u, n>>] # Inf
    BY <1>0, Facts DEF IInv, TypeOK, Relax, Nearer
  <2> QED
    BY <2>1, Facts DEF IInv, TypeOK, Relax
<1>2. /\ UNCHANGED <<pc, cost, u, d, pathVars>> /\ next' = n + 1
      /\ queue' = (queue \ {<<dist[n], n>>}) \cup {<<c, n>>}
      /\ dist' = [dist EXCEPT ![n] = c]
      /\ previous' = [previous EXCEPT ![n] = u]
      /\ Less(c, dist[n])
  BY <1>0 DEF Relax, Nearer, Erased
<1>3. /\ dist \in [Nodes -> Cost] /\ previous \in [Nodes -> Nodes \cup {NoNode}]
      /\ queue \subseteq Nat \X Nodes
      /\ dist[u] = d /\ ~Waiting(u)
  BY <1>1 DEF IInv, TypeOK, CurInv
<1>4. /\ dist'[n] = c /\ previous'[n] = u
      /\ \A v \in Nodes : v # n => dist'[v] = dist[v] /\ previous'[v] = previous[v]
  BY <1>1, <1>2, <1>3
<1>5. \A v \in Nodes : v # n => (Reached(v)' <=> Reached(v)) /\ (Waiting(v)' <=> Waiting(v))
  BY <1>2, <1>4 DEF Reached, Waiting
<1>6. Reached(n)' /\ Waiting(n)'
  BY <1>1, <1>2, <1>4, Facts DEF Reached, Waiting
<1>7. n # u
  BY <1>1, <1>2, <1>3, Facts DEF Less
<1>8. QInv'
  <2> SUFFICES ASSUME NEW e \in queue' PROVE Reached(e[2])' /\ e[1] = dist'[e[2]]
    BY DEF QInv
  <2>1. CASE e = <<c, n>>
    BY <2>1, <1>4, <1>6
  <2>2. CASE e # <<c, n>>
    <3>1. e \in queue /\ e # <<dist[n], n>>
      BY <2>2, <1>2
    <3>2. e[2] \in Nodes /\ e = <<e[1], e[2]>> /\ e[1] = dist[e[2]] /\ Reached(e[2])
      BY <3>1, <1>3 DEF IInv, QInv
    <3> QED
      BY <3>1, <3>2, <1>4, <1>5
  <2> QED
    BY <2>1, <2>2
<1>9. CurInv'
  BY <1>1, <1>2, <1>3, <1>4, <1>5, <1>7 DEF CurInv
<1>10. OrderInv'
  <2> SUFFICES ASSUME NEW v \in Nodes, Reached(v)'
               PROVE  IF Waiting(v)' THEN d <= dist'[v] ELSE dist'[v] <= d
    BY <1>2 DEF OrderInv
  <2>1. CASE v = n
    BY <2>1, <1>1, <1>4, <1>6
  <2>2. CASE v # n
    BY <2>2, <1>1, <1>4, <1>5 DEF IInv, OrderInv
  <2> QED
    BY <2>1, <2>2
<1>11. RelaxedInv'
  <2> SUFFICES ASSUME NEW w \in Nodes, Settled(w)', NEW v \in Nodes,
                      ~(w = u /\ v >= n + 1), cost[<<w, v>>] # Inf
               PROVE  Reached(v)' /\ dist'[v] <= dist'[w] + cost[<<w, v>>]
    BY <1>0, <1>1, <1>2 DEF RelaxedInv, Relaxed
  <2>1. w # n /\ Settled(w) /\ dist'[w] = dist[w] /\ dist[w] \in Nat
        /\ cost[<<w, v>>] \in Nat
    <3>1. w # n
      BY <1>6 DEF Settled
    <3>2. Settled(w) /\ dist'[w] = dist[w]
      BY <3>1, <1>4, <1>5 DEF Settled
    <3>3. cost[<<w, v>>] \in Cost
      BY DEF IInv, TypeOK
    <3> QED
      BY <3>1, <3>2, <3>3, <1>3, Facts DEF Settled, Reached
  <2>2. CASE w = u /\ v = n
    BY <2>2, <1>1, <1>3, <1>4, <1>6, <2>1
  <2>3. CASE ~(w = u /\ v = n)
    <3>1. ~(w = u /\ v >= n)
      <4>1. v \in Nat /\ n \in Nat
        BY Facts
      <4> QED
        BY <4>1, <2>3
    <3>2. Reached(v) /\ dist[v] <= dist[w] + cost[<<w, v>>]
      BY <3>1, <2>1, <1>0, <1>1 DEF IInv, RelaxedInv, Relaxed
    <3>3. CASE v = n
      <4>1. c < dist[n] /\ dist[n] \in Nat
        BY <3>2, <3>3, <1>2, <1>3, Facts DEF Less, Reached
      <4> QED
        BY <3>2, <3>3, <4>1, <2>1, <1>1, <1>4, <1>6
    <3>4. CASE v # n
      BY <3>2, <3>4, <2>1, <1>4, <1>5
    <3> QED
      BY <3>3, <3>4
  <2> QED
    BY <2>2, <2>3
<1>12. PrevInv'
  <2>1. /\ dist[0] = 0 /\ previous[0] = NoNode
        /\ \A v \in Nodes : Reached(v) /\ v # 0 => Tight(v)
        /\ \A v \in Nodes : previous[v] # NoNode => Reached(v)
    BY <1>1 DEF IInv, PrevInv
  <2>2. n # 0
    BY <2>1, <1>1, <1>2, Facts DEF Less, Inf
  <2>3. dist'[0] = 0 /\ previous'[0] = NoNode
    BY <2>1, <2>2, <1>4, Facts
  <2>4. \A v \in Nodes : previous'[v] # NoNode => Reached(v)'
    BY <2>1, <1>4, <1>5, <1>6
  <2>5. ASSUME NEW v \in Nodes, Reached(v)', v # 0 PROVE Tight(v)'
    <3>1. CASE v = n
      <4>1. u # NoNode /\ Reached(u)' /\ dist'[u] = d /\ cost[<<u, n>>] # Inf
        BY <1>1, <1>2, <1>3, <1>4, <1>5, <1>7, Facts DEF Reached
      <4> QED
        BY <3>1, <4>1, <1>1, <1>2, <1>4 DEF Tight
    <3>2. CASE v # n
      <4>1. Tight(v) /\ previous'[v] = previous[v] /\ dist'[v] = dist[v]
        BY <3>2, <2>1, <2>5, <1>4, <1>5
      <4>2. previous[v] \in Nodes /\ dist[previous[v]] \in Nat
            /\ cost[<<previous[v], v>>] \in Nat
        <5>1. previous[v] \in Nodes
          BY <4>1, <1>3 DEF Tight
        <5>2. cost[<<previous[v], v>>] \in Cost
          BY <5>1 DEF IInv, TypeOK
        <5> QED
          BY <4>1, <5>1, <5>2, <1>3, Facts DEF Tight, Reached
      <4>3. CASE previous[v] = n
        <5>1. c < dist[n]
          BY <4>2, <4>3, <1>2, Facts DEF Less
        <5>2. dist[v] \in Nat
          BY <3>2, <2>5, <1>3, <1>5, Facts DEF Reached
        <5> QED
          BY <4>1, <4>2, <4>3, <5>1, <5>2, <1>1, <1>2, <1>4, <1>6 DEF Tight
      <4>4. CASE previous[v] # n
        BY <4>1, <4>2, <4>4, <1>2, <1>4, <1>5 DEF Tight
      <4> QED
        BY <4>3, <4>4
    <3> QED
      BY <3>1, <3>2
  <2> QED
    BY <2>3, <2>4, <2>5 DEF PrevInv
<1> QED
  BY <1>1, <1>2, <1>8, <1>9, <1>10, <1>11, <1>12 DEF IInv, EndInv, WalkInv, PathNone, Searched, pathVars

LEMMA SkipInv == IInv /\ TypeOK' /\ Skip => IInv'
<1> SUFFICES ASSUME IInv, TypeOK', Skip PROVE IInv'
  OBVIOUS
<1>0. PICK n \in Nodes : n = next
  BY Facts DEF IInv, TypeOK, Skip
<1>1. /\ pc = "relax" /\ next' = n + 1 /\ ~Nearer(n)
      /\ UNCHANGED <<pc, cost, dist, previous, queue, u, d, pathVars>>
  BY <1>0 DEF Skip
<1>2. RelaxedInv'
  <2> SUFFICES ASSUME NEW w \in Nodes, Settled(w), NEW v \in Nodes,
                      ~(w = u /\ v >= n + 1)
               PROVE  Relaxed(w, v)
    BY <1>1 DEF RelaxedInv, Settled, Reached, Waiting, Relaxed
  <2>1. v \in Nat /\ n \in Nat
    BY Facts
  <2>2. CASE w = u /\ v = n
    <3>1. dist[u] = d /\ d \in Nat /\ dist[n] \in Cost /\ cost[<<u, n>>] \in Cost
      BY <1>1 DEF IInv, TypeOK, CurInv
    <3> QED
      BY <3>1, <2>2, <1>1, Facts DEF Relaxed, Nearer, Less, Reached
  <2>3. CASE ~(w = u /\ v = n)
    <3>1. ~(w = u /\ v >= n)
      BY <2>1, <2>3
    <3> QED
      BY <3>1, <1>0, <1>1 DEF IInv, RelaxedInv
  <2> QED
    BY <2>2, <2>3
<1> QED
  BY <1>1, <1>2 DEF IInv, QInv, CurInv, OrderInv, PrevInv, Tight, EndInv, WalkInv,
                    PathNone, Searched, Reached, Waiting, pathVars

LEMMA EdgesDoneInv == IInv /\ TypeOK' /\ EdgesDone => IInv'
<1> SUFFICES ASSUME IInv, TypeOK', EdgesDone PROVE IInv'
  OBVIOUS
<1>1. /\ pc = "relax" /\ pc' = "pop" /\ next = Goal + 1
      /\ UNCHANGED <<cost, searchVars, pathVars>>
  BY DEF EdgesDone, Goto
<1>2. \A v \in Nodes : ~(v >= next)
  BY <1>1, Facts
<1>3. RelaxedInv'
  BY <1>1, <1>2 DEF IInv, RelaxedInv, Relaxed, Settled, Reached, Waiting, searchVars
<1> QED
  BY <1>1, <1>3 DEF IInv, QInv, CurInv, OrderInv, PrevInv, Tight, EndInv, WalkInv,
                    PathNone, Searched, Reached, Waiting, searchVars, pathVars

LEMMA QueueEmptyInv == IInv /\ TypeOK' /\ QueueEmpty => IInv'
<1> SUFFICES ASSUME IInv, TypeOK', QueueEmpty PROVE IInv'
  OBVIOUS
<1>1. /\ pc = "pop" /\ pc' = "walk" /\ queue = {} /\ vertex' = Goal
      /\ UNCHANGED <<cost, searchVars, path>>
  BY DEF QueueEmpty, Goto
<1>2. path' = <<>>
  BY <1>1 DEF IInv, PathNone, Searched
<1> QED
  BY <1>1, <1>2 DEF IInv, QInv, CurInv, OrderInv, RelaxedInv, Relaxed, Settled, PrevInv,
              Tight, EndInv, WalkInv, PathNone, Searched, Reached, Waiting, searchVars

LEMMA WalkStepInv == IInv /\ TypeOK' /\ Walk => IInv'
<1> SUFFICES ASSUME IInv, TypeOK', Walk PROVE IInv'
  OBVIOUS
<1>1. /\ pc = "walk" /\ vertex \in Nodes
      /\ path' = <<vertex>> \o path /\ vertex' = previous[vertex]
      /\ UNCHANGED <<pc, cost, searchVars>>
  BY DEF Walk, IInv, TypeOK
<1>2. path \in Seq(Nodes) /\ previous' = previous /\ Len(path) \in Nat
  BY <1>1 DEF IInv, TypeOK, searchVars
<1>3. /\ Len(path') = Len(path) + 1 /\ path' # <<>> /\ path'[1] = vertex
      /\ \A i \in 1 .. Len(path) : path'[i + 1] = path[i]
  BY <1>1, <1>2
<1>4. WalkInv'
  <2>1. CASE path = <<>>
    BY <2>1, <1>1, <1>2, <1>3 DEF IInv, WalkInv, PathNone, Searched, pathVars
  <2>2. CASE path # <<>>
    <3>1. /\ path[Len(path)] = Goal /\ vertex = previous[path[1]]
          /\ \A i \in 1 .. Len(path) - 1 : path[i] = previous[path[i + 1]]
      BY <2>2, <1>1 DEF IInv, WalkInv, PathNone, Searched, pathVars
    <3>2. Len(path) \in 1 .. Len(path) /\ 1 \in 1 .. Len(path)
      BY <2>2, <1>2
    <3>3. path'[Len(path')] = Goal
      BY <3>1, <3>2, <1>3
    <3>4. ASSUME NEW i \in 1 .. Len(path') - 1 PROVE path'[i] = previous'[path'[i + 1]]
      <4>1. i \in 1 .. Len(path) /\ path'[i + 1] = path[i]
        BY <1>2, <1>3
      <4>2. CASE i = 1
        BY <4>1, <4>2, <3>1, <1>2, <1>3
      <4>3. CASE i # 1
        <5>1. i - 1 \in 1 .. Len(path) - 1 /\ i - 1 \in 1 .. Len(path) /\ (i - 1) + 1 = i
          BY <4>1, <4>3, <1>2
        <5>2. path'[i] = path[i - 1] /\ path[i - 1] = previous[path[i]]
          BY <5>1, <3>1, <1>3
        <5> QED
          BY <5>2, <4>1, <1>2
      <4> QED
        BY <4>2, <4>3
    <3> QED
      BY <1>1, <1>2, <1>3, <3>3, <3>4 DEF WalkInv, PathNone, Searched, pathVars
  <2> QED
    BY <2>1, <2>2
<1> QED
  BY <1>1, <1>4 DEF IInv, QInv, CurInv, OrderInv, RelaxedInv, Relaxed, Settled, PrevInv,
              Tight, EndInv, PathNone, Searched, Reached, Waiting, searchVars

LEMMA NextInv == IInv /\ [Next]_vars => IInv'
<1> SUFFICES ASSUME IInv, [Next]_vars PROVE IInv'
  OBVIOUS
<1>0. TypeOK'
  BY NextType DEF IInv
<1>1. CASE WalkEnds \/ Copy \/ Send
  <2>1. /\ Searched /\ UNCHANGED <<cost, searchVars, path, vertex>>
        /\ pc' \in {"copy", "send", "idle"}
        /\ pc = "walk" => vertex = NoNode /\ path # <<>>
    BY <1>1, Facts DEF WalkEnds, Copy, Send, Goto, Searched, IInv, WalkInv, pathVars
  <2> QED
    BY <2>1, <1>0 DEF IInv, QInv, CurInv, OrderInv, RelaxedInv, Relaxed, Settled, PrevInv,
              Tight, EndInv, WalkInv, PathNone, Searched, Reached, Waiting, searchVars
<1>2. CASE UNCHANGED vars
  BY <1>0, <1>2 DEF IInv, QInv, CurInv, OrderInv, RelaxedInv, Relaxed, Settled, PrevInv,
              Tight, EndInv, WalkInv, PathNone, Searched, Reached, Waiting, vars,
              searchVars, pathVars
<1> QED
  BY <1>0, <1>1, <1>2, BeginInv, PopInv, RelaxInv, SkipInv, EdgesDoneInv, QueueEmptyInv,
     WalkStepInv DEF Next, Step

-----------------------------------------------------------------------------
(***************************************************************************)
(* What follows from the invariant.                                        *)
(***************************************************************************)
(* The entries of the std::set are those of min_distance. *)
THEOREM QueueIsExact == Spec => []QueueMatches
<1>1. IInv => QueueMatches
  BY DEF IInv, QInv, QueueMatches
<1> QED
  BY <1>1, InitInv, NextInv, PTL DEF Spec

LEMMA EndIsOptimal == IInv => Optimal
<1> SUFFICES ASSUME IInv, Searched, NEW v \in Nodes
             PROVE  /\ \A w \in Nodes : Reached(w) /\ cost[<<w, v>>] # Inf =>
                         Reached(v) /\ dist[v] <= dist[w] + cost[<<w, v>>]
                    /\ Reached(v) /\ v # 0 =>
                         /\ previous[v] # NoNode /\ Reached(previous[v])
                         /\ cost[<<previous[v], v>>] # Inf
                         /\ dist[v] = dist[previous[v]] + cost[<<previous[v], v>>]
  BY DEF Optimal
<1>1. pc # "idle" /\ pc # "relax" /\ queue = {}
  BY DEF Searched, IInv, EndInv
<1>2. \A w \in Nodes : Reached(w) => Settled(w)
  BY <1>1 DEF Settled, Waiting
<1>3. \A w \in Nodes : Reached(w) => Relaxed(w, v)
  BY <1>1, <1>2 DEF IInv, RelaxedInv
<1>4. ASSUME Reached(v), v # 0
      PROVE  /\ previous[v] # NoNode /\ Reached(previous[v])
             /\ cost[<<previous[v], v>>] # Inf
             /\ dist[v] = dist[previous[v]] + cost[<<previous[v], v>>]
  <2>1. Tight(v)
    BY <1>1, <1>4 DEF IInv, PrevInv
  <2>2. previous[v] \in Nodes /\ dist[v] \in Nat /\ dist[previous[v]] \in Nat
    BY <2>1, <1>4, Facts DEF Tight, Reached, IInv, TypeOK
  <2>3. cost[<<previous[v], v>>] \in Nat
    BY <2>1, <2>2, Facts DEF Tight, IInv, TypeOK
  <2>4. dist[v] <= dist[previous[v]] + cost[<<previous[v], v>>]
    BY <1>3, <2>1, <2>2 DEF Relaxed, Tight
  <2> QED
    BY <2>1, <2>2, <2>3, <2>4 DEF Tight
<1> QED
  BY <1>3, <1>4 DEF Relaxed

(* At the end of DijkstraComputePaths no edge leads to a shorter distance, *)
(* and previous gives each distance.                                       *)
THEOREM DistancesOptimal == Spec => []Optimal
  BY EndIsOptimal, InitInv, NextInv, PTL DEF Spec

LEMMA PathFollowsEdges == IInv => PathIsDriven
<1> SUFFICES ASSUME IInv, pc = "send" PROVE PathIsDriven
  BY DEF PathIsDriven
<1>1. /\ path # <<>> /\ path[Len(path)] = Goal /\ path \in Seq(Nodes)
      /\ previous[path[1]] = NoNode
      /\ \A i \in 1 .. Len(path) - 1 : path[i] = previous[path[i + 1]]
  BY DEF IInv, WalkInv, Searched, TypeOK
<1>2. /\ previous[0] = NoNode
      /\ \A v \in Nodes : Reached(v) /\ v # 0 => Tight(v)
      /\ \A v \in Nodes : previous[v] # NoNode => Reached(v)
  BY DEF IInv, PrevInv
<1>3. Len(path) \in Nat \ {0} /\ \A i \in 1 .. Len(path) : path[i] \in Nodes
  BY <1>1
<1>4. ASSUME NEW i \in 1 .. Len(path) - 1
      PROVE  /\ cost[<<path[i], path[i + 1]>>] # Inf
             /\ Reached(path[i]) /\ Reached(path[i + 1])
  <2>1. path[i] \in Nodes /\ path[i + 1] \in Nodes /\ path[i] = previous[path[i + 1]]
    BY <1>1, <1>3
  <2>2. previous[path[i + 1]] # NoNode /\ path[i + 1] # 0
    BY <2>1, <1>2, Facts
  <2>3. Tight(path[i + 1])
    BY <2>1, <2>2, <1>2
  <2> QED
    BY <2>1, <2>2, <2>3, <1>2 DEF Tight
<1>5. Len(path) > 1 => path[1] = 0
  <2> SUFFICES ASSUME Len(path) > 1 PROVE path[1] = 0
    OBVIOUS
  <2>1. 1 \in 1 .. Len(path) - 1 /\ path[1] \in Nodes
    BY <1>3
  <2>2. Reached(path[1])
    BY <1>4, <2>1
  <2> QED
    BY <2>1, <2>2, <1>1, <1>2 DEF Tight
<1>6. Reached(Goal) <=> Len(path) > 1
  <2>1. CASE Len(path) > 1
    <3>1. Len(path) - 1 \in 1 .. Len(path) - 1 /\ (Len(path) - 1) + 1 = Len(path)
      BY <2>1, <1>3
    <3>2. Reached(path[(Len(path) - 1) + 1])
      BY <3>1, <1>4
    <3> QED
      BY <3>1, <3>2, <2>1, <1>1
  <2>2. CASE Len(path) = 1
    <3>1. previous[Goal] = NoNode
      BY <2>2, <1>1
    <3>2. ~Reached(Goal)
      BY <3>1, <1>2, Facts DEF Tight
    <3> QED
      BY <3>2, <2>2
  <2>3. Len(path) > 1 \/ Len(path) = 1
    <3>1. PICK n \in Nat \ {0} : n = Len(path)
      BY <1>3
    <3>2. n > 1 \/ n = 1
      OBVIOUS
    <3> QED
      BY <3>1, <3>2
  <2> QED
    BY <2>1, <2>2, <2>3
<1> QED
  BY <1>1, <1>4, <1>5, <1>6 DEF PathIsDriven

(* The path that path_finding sends never joins nodes that an obstacle     *)
(* separates, leads from the robot to the goal, and is the goal alone only *)
(* if there is no way.                                                     *)
THEOREM PathsAreDriven == Spec => []PathIsDriven
  BY PathFollowsEdges, InitInv, NextInv, PTL DEF Spec

LEMMA StaysSettled ==
  ASSUME IInv, [Next]_vars, pc \in {"pop", "relax"}, NEW v \in Nodes, Settled(v)
  PROVE  dist'[v] = dist[v] /\ ~Waiting(v)'
<1>1. CASE Relax
  <2>1. PICK n \in Nodes : n = next
    BY <1>1, Facts DEF IInv, TypeOK, Relax
  <2>2. cost[<<u, n>>] \in Nat /\ d \in Nat /\ Less(d + cost[<<u, n>>], dist[n])
    <3>1. cost[<<u, n>>] \in Cost /\ cost[<<u, n>>] # Inf
      BY <1>1, <2>1 DEF IInv, TypeOK, Relax, Nearer
    <3> QED
      BY <1>1, <2>1, <3>1, Facts DEF IInv, TypeOK, Relax, Nearer
  <2>3. dist[v] <= d /\ dist[v] \in Nat
    BY Facts DEF IInv, OrderInv, Settled, Reached, TypeOK
  <2>4. v # n
    BY <2>2, <2>3, Facts DEF Less
  <2>5. dist'[v] = dist[v] /\ queue' \subseteq queue \cup {<<d + cost[<<u, n>>], n>>}
    BY <1>1, <2>1, <2>4 DEF Relax, Erased, IInv, TypeOK
  <2> QED
    BY <2>4, <2>5 DEF Settled, Waiting
<1>2. CASE Pop
  BY <1>2 DEF Pop, Settled, Waiting
<1>3. CASE QueueEmpty \/ Skip \/ EdgesDone \/ UNCHANGED vars
  BY <1>3 DEF QueueEmpty, Skip, EdgesDone, Settled, Waiting, vars, searchVars
<1>4. CASE Begin \/ Walk \/ WalkEnds \/ Copy \/ Send
  BY <1>4 DEF Begin, Walk, WalkEnds, Copy, Send, Goto
<1> QED
  BY <1>1, <1>2, <1>3, <1>4 DEF Next, Step

(* A node whose entry was taken from the queue does not get into it again. *)
THEOREM NodesStaySettled == Spec => SettledStays
<1>1. IInv /\ [Next]_vars =>
        ((pc \in {"pop", "relax"}) =>
           \A v \in Nodes : Settled(v) => dist'[v] = dist[v] /\ ~Waiting(v)')
  BY StaysSettled
<1>2. Spec => []IInv
  BY InitInv, NextInv, PTL DEF Spec
<1> QED
  BY <1>1, <1>2, PTL DEF Spec, SettledStays

-----------------------------------------------------------------------------
(***************************************************************************)
(* The predecessors are a tree.                                            *)
(***************************************************************************)
(* A predecessor was settled before its successor, so that no set of       *)
(* settled nodes is closed under previous.                                 *)
TreeInv == pc # "idle" =>
  /\ \A v \in Nodes : previous[v] # NoNode => Settled(previous[v])
  /\ \A S \in SUBSET {v \in Nodes : Settled(v)} : S # {} => \E v \in S : previous[v] \notin S

LEMMA TreeNext == IInv /\ TreeInv /\ [Next]_vars => TreeInv'
<1> SUFFICES ASSUME IInv, TreeInv, [Next]_vars PROVE TreeInv'
  OBVIOUS
<1>1. CASE Begin
  <2>1. \A v \in Nodes : previous'[v] = NoNode
    BY <1>1 DEF Begin
  <2>2. ASSUME NEW S \in SUBSET Nodes, S # {} PROVE \E v \in S : previous'[v] \notin S
    BY <2>1, <2>2, Facts
  <2> QED
    BY <2>1, <2>2 DEF TreeInv
<1>2. CASE Pop
  <2>1. PICK e \in queue : queue' = queue \ {e} /\ u' = e[2]
    BY <1>2 DEF Pop
  <2>2. pc = "pop" /\ UNCHANGED <<dist, previous>>
    BY <1>2 DEF Pop, Goto
  <2>3. u' \in Nodes /\ e = <<dist[u'], u'>> /\ Reached(u')
    BY <2>1 DEF IInv, TypeOK, QInv
  <2>4. \A v \in Nodes : Settled(v)' <=> Settled(v) \/ v = u'
    BY <2>1, <2>2, <2>3 DEF Settled, Reached, Waiting
  <2>5. ~Settled(u')
    BY <2>1, <2>3 DEF Settled, Waiting
  <2>6. \A v \in Nodes : previous[v] # NoNode => previous[v] \in Nodes /\ Settled(previous[v])
    BY <2>2 DEF IInv, TypeOK, TreeInv
  <2>7. ASSUME NEW S \in SUBSET {v \in Nodes : Settled(v)'}, S # {}
        PROVE  \E v \in S : previous[v] \notin S
    <3>1. \A v \in Nodes : previous[v] # u'
      BY <2>3, <2>5, <2>6, Facts
    <3>2. CASE S \ {u'} = {}
      BY <2>7, <3>1, <3>2
    <3>3. CASE S \ {u'} # {}
      <4>1. S \ {u'} \in SUBSET {v \in Nodes : Settled(v)}
        BY <2>4, <2>7
      <4>2. PICK v \in S \ {u'} : previous[v] \notin S \ {u'}
        BY <2>2, <3>3, <4>1 DEF TreeInv
      <4> QED
        BY <3>1, <4>1, <4>2
    <3> QED
      BY <3>2, <3>3
  <2> QED
    BY <2>2, <2>4, <2>6, <2>7 DEF TreeInv
<1>3. CASE Relax
  <2>1. PICK n \in Nodes : n = next
    BY <1>3, Facts DEF IInv, TypeOK, Relax
  <2>2. /\ pc = "relax" /\ pc' = "relax" /\ previous' = [previous EXCEPT ![n] = u]
        /\ Settled(u) /\ u \in Nodes
    BY <1>3, <2>1, Facts DEF Relax, IInv, TypeOK, CurInv, Settled, Reached
  <2>3. \A v \in Nodes : Settled(v) => Settled(v)'
    <3> TAKE v \in Nodes
    <3> QED
      BY <2>2, StaysSettled DEF Settled, Reached
  <2>4. /\ queue' = Erased(n) \cup {<<d + cost[<<u, n>>], n>>}
        /\ dist' = [dist EXCEPT ![n] = d + cost[<<u, n>>]]
    BY <1>3, <2>1 DEF Relax
  <2>5. \A v \in Nodes : Settled(v)' => Settled(v) /\ v # n
    BY <2>4 DEF Settled, Reached, Waiting, Erased, IInv, TypeOK
  <2>6. \A v \in Nodes : previous'[v] # NoNode => Settled(previous[v])'
    <3> SUFFICES ASSUME NEW v \in Nodes, previous'[v] # NoNode PROVE Settled(previous[v])'
      OBVIOUS
    <3>1. PICK w \in Nodes : w = previous'[v] /\ Settled(w)
      <4>1. CASE v = n
        BY <2>2, <4>1 DEF IInv, TypeOK
      <4>2. CASE v # n
        BY <2>2, <4>2 DEF IInv, TypeOK, TreeInv
      <4> QED
        BY <4>1, <4>2
    <3>2. Settled(w)'
      BY <2>3, <3>1
    <3> QED
      BY <3>1, <3>2 DEF Settled, Reached, Waiting
  <2>7. ASSUME NEW S \in SUBSET {v \in Nodes : Settled(v)'}, S # {}
        PROVE  \E v \in S : previous'[v] \notin S
    <3>1. S \in SUBSET {v \in Nodes : Settled(v)} /\ n \notin S
      BY <2>5
    <3>2. PICK v \in S : previous[v] \notin S
      BY <2>2, <2>7, <3>1 DEF TreeInv
    <3> QED
      BY <2>2, <3>1, <3>2 DEF IInv, TypeOK
  <2>8. \A S \in SUBSET {v \in Nodes : Settled(v)'} : S # {} => \E v \in S : previous'[v] \notin S
    BY <2>7
  <2> QED
    BY <2>6, <2>8 DEF TreeInv
<1>4. CASE ~(Begin \/ Pop \/ Relax)
  <2>1. UNCHANGED <<dist, previous, queue>> /\ (pc' # "idle" => pc # "idle")
    BY <1>4 DEF Next, Step, QueueEmpty, Skip, EdgesDone, Walk, WalkEnds, Copy, Send,
                Goto, vars, searchVars
  <2> QED
    BY <2>1 DEF TreeInv, Settled, Reached, Waiting
<1> QED
  BY <1>1, <1>2, <1>3, <1>4

(* The walk along previous comes to no node twice. *)
LEMMA NoReturn ==
  ASSUME IInv, TreeInv, pc = "send",
         NEW i \in 1 .. Len(path), NEW j \in 1 .. Len(path), i < j, path[i] = path[j]
  PROVE  FALSE
<1> DEFINE S == {path[n] : n \in i .. j - 1}
<1>1. /\ path \in Seq(Nodes) /\ Len(path) \in Nat /\ i \in Nat /\ j \in Nat
      /\ \A n \in 1 .. Len(path) - 1 : path[n] = previous[path[n + 1]]
  BY DEF IInv, WalkInv, Searched, TypeOK
<1>2. \A n \in i + 1 .. j : path[n] \in Nodes /\ previous[path[n]] = path[n - 1]
  <2> TAKE n \in i + 1 .. j
  <2>1. n - 1 \in 1 .. Len(path) - 1 /\ (n - 1) + 1 = n
    BY <1>1
  <2> QED
    BY <1>1, <2>1
<1>3. ASSUME NEW v \in S PROVE v \in Nodes /\ Settled(v) /\ previous[v] \in S
  <2>1. PICK n \in i .. j - 1 : v = path[n]
    OBVIOUS
  <2>2. PICK m \in i + 1 .. j : v = path[m]
    <3>1. CASE n = i
      <4>1. j \in i + 1 .. j
        BY <1>1
      <4> QED
        BY <2>1, <3>1, <4>1
    <3>2. CASE n # i
      <4>1. n \in i + 1 .. j
        BY <1>1, <3>2
      <4> QED
        BY <2>1, <4>1
    <3> QED
      BY <3>1, <3>2
  <2>3. v \in Nodes /\ previous[v] = path[m - 1] /\ m - 1 \in i .. j - 1
    BY <1>1, <1>2, <2>2
  <2>4. previous[v] \in S
    BY <2>3
  <2>5. path[m - 1] \in Nodes
    <3>1. m - 1 \in 1 .. Len(path)
      BY <1>1
    <3> QED
      BY <1>1, <3>1
  <2>6. Reached(v) /\ queue = {}
    BY <2>3, <2>5, Facts DEF IInv, PrevInv, EndInv, Searched
  <2> QED
    BY <2>3, <2>4, <2>6 DEF Settled, Waiting
<1>4. S # {}
  <2>1. i \in i .. j - 1
    BY <1>1
  <2> QED
    BY <2>1
<1>5. S \in SUBSET {v \in Nodes : Settled(v)}
  BY <1>3
<1> HIDE DEF S
<1> QED
  BY <1>3, <1>4, <1>5 DEF TreeInv

(* The path that is sent passes no node twice, and so is not longer than   *)
(* there are nodes.                                                        *)
LEMMA PathIsSimple ==
  ASSUME IInv, TreeInv, pc = "send"
  PROVE  IsInjective(path) /\ Len(path) <= Goal + 1
<1>1. path \in Seq(Nodes) /\ Len(path) \in Nat /\ DOMAIN path = 1 .. Len(path)
  BY DEF IInv, TypeOK
<1>2. ASSUME NEW i \in 1 .. Len(path), NEW j \in 1 .. Len(path), path[i] = path[j]
      PROVE  i = j
  <2>1. ~(i < j) /\ ~(j < i)
    BY <1>2, NoReturn
  <2> QED
    BY <1>1, <2>1
<1>3. IsInjective(path)
  BY <1>1, <1>2 DEF IsInjective
<1>4. path \in Injection(1 .. Len(path), Nodes)
  BY <1>1, <1>3 DEF Injection
<1>5. IsFiniteSet(Nodes) /\ Cardinality(Nodes) = Goal + 1
  BY FS_Interval, Facts DEF Nodes
<1>6. Cardinality(1 .. Len(path)) = Len(path)
  BY <1>1, FS_Interval
<1> QED
  BY <1>3, <1>4, <1>5, <1>6, FS_Injection

-----------------------------------------------------------------------------
(***************************************************************************)
(* Induction along a path, and the sums that Length is made of.            *)
(***************************************************************************)
LEMMA LeastElement ==
  ASSUME NEW S \in SUBSET Nat, S # {}
  PROVE  \E m \in S : \A n \in S : m <= n
<1>1. IsWellFoundedOn({z \in Nat \X Nat : z[1] < z[2]}, Nat)
  BY NatLessThanWellFounded DEF OpToRel
<1>2. PICK m \in S : \A n \in S : ~(<<n, m>> \in {z \in Nat \X Nat : z[1] < z[2]})
  BY <1>1, WFMin
<1>3. ASSUME NEW n \in S PROVE m <= n
  <2>1. m \in Nat /\ n \in Nat
    OBVIOUS
  <2>2. ~(n < m)
    BY <1>2, <2>1
  <2> QED
    BY <2>1, <2>2
<1> QED
  BY <1>3

(* What holds at the first position, and at each one if it holds at the    *)
(* one before, holds at all of them.                                       *)
LEMMA AlongPath ==
  ASSUME NEW n \in Nat, NEW G, 1 \in G,
         \A i \in 1 .. n - 1 : i \in G => i + 1 \in G
  PROVE  1 .. n \subseteq G
<1> DEFINE Bad == (1 .. n) \ G
<1> SUFFICES ASSUME Bad # {} PROVE FALSE
  OBVIOUS
<1>1. PICK k \in Bad : \A m \in Bad : k <= m
  <2>1. Bad \in SUBSET Nat
    OBVIOUS
  <2> HIDE DEF Bad
  <2> QED
    BY <2>1, LeastElement
<1>2. k \in 1 .. n /\ k \notin G /\ k # 1
  OBVIOUS
<1>3. k - 1 \in 1 .. n - 1 /\ k - 1 \in 1 .. n /\ (k - 1) + 1 = k /\ ~(k <= k - 1)
  BY <1>2
<1>4. k - 1 \notin Bad
  <2> HIDE DEF Bad
  <2> QED
    BY <1>1, <1>3
<1>5. k - 1 \in G
  BY <1>3, <1>4
<1> QED
  BY <1>2, <1>3, <1>5

(* The sums of the legs of a route up to each of its nodes. *)
IsSums(c, p, n, s) ==
  /\ s \in [1 .. n -> Nat] /\ s[1] = 0
  /\ \A i \in 1 .. n - 1 : s[i + 1] = s[i] + c[<<p[i], p[i + 1]>>]

LEMMA SumsExist ==
  ASSUME NEW c, NEW p, NEW n \in Nat \ {0},
         \A i \in 1 .. n - 1 : c[<<p[i], p[i + 1]>>] \in Nat
  PROVE  \E s : IsSums(c, p, n, s)
<1> DEFINE G == {k \in 1 .. n : \E s : IsSums(c, p, k, s)}
<1>1. 1 \in G
  <2>1. IsSums(c, p, 1, [i \in 1 .. 1 |-> 0])
    BY DEF IsSums
  <2> QED
    BY <2>1
<1>2. ASSUME NEW k \in 1 .. n - 1, k \in G PROVE k + 1 \in G
  <2>1. PICK s : IsSums(c, p, k, s)
    BY <1>2
  <2>2. PICK w \in Nat : w = c[<<p[k], p[k + 1]>>]
    OBVIOUS
  <2>3. PICK x \in Nat : x = s[k]
    BY <2>1 DEF IsSums
  <2> DEFINE t == [i \in 1 .. k + 1 |-> IF i = k + 1 THEN x + w ELSE s[i]]
  <2>4. t[k + 1] = x + w /\ \A i \in 1 .. k : t[i] = s[i]
    OBVIOUS
  <2>5. t \in [1 .. k + 1 -> Nat]
    BY <2>1 DEF IsSums
  <2> HIDE DEF t
  <2>6. ASSUME NEW i \in 1 .. k PROVE t[i + 1] = t[i] + c[<<p[i], p[i + 1]>>]
    <3>1. CASE i = k
      BY <2>2, <2>3, <2>4, <3>1
    <3>2. CASE i # k
      <4>1. i \in 1 .. k - 1 /\ i + 1 \in 1 .. k
        BY <3>2
      <4> QED
        BY <4>1, <2>1, <2>4 DEF IsSums
    <3> QED
      BY <3>1, <3>2
  <2>7. IsSums(c, p, k + 1, t)
    <3>1. t[1] = 0 /\ (k + 1) - 1 = k
      BY <2>1, <2>4 DEF IsSums
    <3> QED
      BY <2>5, <2>6, <3>1 DEF IsSums
  <2> QED
    BY <2>7
<1>3. n \in 1 .. n
  OBVIOUS
<1>4. n \in G
  <2> HIDE DEF G
  <2> QED
    BY <1>1, <1>2, <1>3, AlongPath
<1> QED
  BY <1>4

(* Length is the last of them. *)
LEMMA LengthIsSum ==
  ASSUME NEW c, NEW p \in Seq(Nodes), p # <<>>,
         \A i \in 1 .. Len(p) - 1 : c[<<p[i], p[i + 1]>>] \in Nat
  PROVE  \E s : IsSums(c, p, Len(p), s) /\ Abstract!Length(c, p) = s[Len(p)]
<1> DEFINE D(f) == [i \in 1 .. Len(p) |-> IF i = 1 THEN 0 ELSE f[i - 1] + c[p[i - 1], p[i]]]
           sum == CHOOSE f : f = D(f)
<1>1. Len(p) \in Nat \ {0}
  OBVIOUS
<1>2. PICK s : IsSums(c, p, Len(p), s)
  BY <1>1, SumsExist
<1>3. s = D(s)
  <2>1. ASSUME NEW i \in 1 .. Len(p), i # 1 PROVE s[i] = s[i - 1] + c[<<p[i - 1], p[i]>>]
    <3>1. i - 1 \in 1 .. Len(p) - 1 /\ (i - 1) + 1 = i
      BY <1>1, <2>1
    <3> QED
      BY <3>1, <1>2 DEF IsSums
  <2>2. \A i \in 1 .. Len(p) : s[i] = D(s)[i]
    BY <1>2, <2>1 DEF IsSums
  <2>3. s = [i \in 1 .. Len(p) |-> s[i]] /\ D(s) = [i \in 1 .. Len(p) |-> D(s)[i]]
    BY <1>2 DEF IsSums
  <2> HIDE DEF D
  <2> QED
    BY <2>2, <2>3
<1>4. sum = D(sum)
  <2> HIDE DEF D
  <2> QED
    BY <1>3
<1>5. Abstract!Length(c, p) = sum[Len(p)]
  BY DEF Abstract!Length
<1> HIDE DEF sum
<1> DEFINE G == {i \in 1 .. Len(p) : sum[i] = s[i]}
<1>6. 1 \in G
  <2>1. 1 \in 1 .. Len(p) /\ s[1] = 0
    BY <1>1, <1>2 DEF IsSums
  <2>2. sum[1] = 0
    BY <1>4, <2>1
  <2> QED
    BY <2>1, <2>2
<1>7. ASSUME NEW i \in 1 .. Len(p) - 1, i \in G PROVE i + 1 \in G
  <2>1. i + 1 \in 1 .. Len(p) /\ i + 1 # 1 /\ (i + 1) - 1 = i
    BY <1>1
  <2>2. sum[i + 1] = sum[i] + c[<<p[i], p[i + 1]>>]
    BY <1>4, <2>1
  <2>3. s[i + 1] = s[i] + c[<<p[i], p[i + 1]>>]
    BY <1>2 DEF IsSums
  <2> QED
    BY <1>7, <2>1, <2>2, <2>3
<1>8. Len(p) \in 1 .. Len(p)
  BY <1>1
<1>9. Len(p) \in G
  <2> HIDE DEF G
  <2> QED
    BY <1>1, <1>6, <1>7, <1>8, AlongPath
<1> QED
  BY <1>2, <1>5, <1>9

-----------------------------------------------------------------------------
(***************************************************************************)
(* The refinement of ShortestRoute.                                        *)
(***************************************************************************)
LEMMA RouteFacts ==
  ASSUME TypeOK, NEW q \in Abstract!Routes(cost)
  PROVE  /\ q \in Seq(Nodes) /\ Len(q) \in Nat /\ Len(q) > 1
         /\ q[1] = 0 /\ q[Len(q)] = Goal
         /\ \A i \in 1 .. Len(q) : q[i] \in Nodes
         /\ \A i \in 1 .. Len(q) - 1 : cost[<<q[i], q[i + 1]>>] \in Nat
<1>1. q \in Abstract!SimplePaths /\ \A e \in Abstract!Legs(q) : cost[e] # Inf
  BY DEF Abstract!Routes
<1>2. PICK n \in 2 .. Goal + 1 : q \in [1 .. n -> Nodes]
  BY <1>1 DEF Abstract!SimplePaths
<1>3. n \in Nat /\ n > 1
  BY <1>2, Facts
<1>4. q \in Seq(Nodes) /\ Len(q) = n
  BY <1>2, <1>3
<1>5. q[1] = 0 /\ q[Len(q)] = Goal
  BY <1>1 DEF Abstract!SimplePaths
<1>6. ASSUME NEW i \in 1 .. Len(q) - 1 PROVE cost[<<q[i], q[i + 1]>>] \in Nat
  <2>1. q[i] \in Nodes /\ q[i + 1] \in Nodes
    BY <1>2, <1>3, <1>4
  <2>2. cost[<<q[i], q[i + 1]>>] # Inf
    BY <1>1 DEF Abstract!Legs
  <2> QED
    BY <2>1, <2>2, Facts DEF TypeOK
<1> QED
  BY <1>2, <1>3, <1>4, <1>5, <1>6

(* No route costs less than the distance of the goal. *)
LEMMA RoutesCostMore ==
  ASSUME IInv, Searched, NEW q \in Abstract!Routes(cost)
  PROVE  Reached(Goal) /\ dist[Goal] <= Abstract!Length(cost, q)
<1>1. /\ q \in Seq(Nodes) /\ Len(q) \in Nat /\ Len(q) > 1
      /\ q[1] = 0 /\ q[Len(q)] = Goal
      /\ \A i \in 1 .. Len(q) : q[i] \in Nodes
      /\ \A i \in 1 .. Len(q) - 1 : cost[<<q[i], q[i + 1]>>] \in Nat
  BY RouteFacts DEF IInv
<1>2. PICK s : IsSums(cost, q, Len(q), s) /\ Abstract!Length(cost, q) = s[Len(q)]
  BY <1>1, LengthIsSum
<1> DEFINE G == {i \in 1 .. Len(q) : Reached(q[i]) /\ dist[q[i]] <= s[i]}
<1>3. 1 \in G
  <2>1. dist[0] = 0 /\ s[1] = 0 /\ 1 \in 1 .. Len(q)
    BY <1>1, <1>2 DEF IsSums, IInv, PrevInv, Searched
  <2> QED
    BY <2>1, <1>1 DEF Reached, Inf
<1>4. ASSUME NEW i \in 1 .. Len(q) - 1, i \in G PROVE i + 1 \in G
  <2>1. i + 1 \in 1 .. Len(q) /\ i \in 1 .. Len(q)
    BY <1>1
  <2>2. PICK a \in Nodes, b \in Nodes : a = q[i] /\ b = q[i + 1]
    BY <2>1, <1>1
  <2>3. cost[<<a, b>>] \in Nat /\ s[i + 1] = s[i] + cost[<<a, b>>] /\ s[i] \in Nat
    BY <1>1, <1>2, <2>1, <2>2 DEF IsSums
  <2>4. Reached(a) /\ dist[a] <= s[i]
    BY <1>4, <2>2
  <2>5. Reached(b) /\ dist[b] <= dist[a] + cost[<<a, b>>]
    BY <2>3, <2>4, EndIsOptimal, Facts DEF Optimal
  <2>6. dist[a] \in Nat /\ dist[b] \in Nat
    BY <2>4, <2>5, Facts DEF Reached, IInv, TypeOK
  <2>7. dist[b] <= s[i + 1]
    BY <2>3, <2>4, <2>5, <2>6
  <2> QED
    BY <2>1, <2>2, <2>5, <2>7
<1>5. Len(q) \in 1 .. Len(q)
  BY <1>1
<1>6. Len(q) \in G
  <2> HIDE DEF G
  <2> QED
    BY <1>1, <1>3, <1>4, <1>5, AlongPath
<1> QED
  BY <1>1, <1>2, <1>6

(* The path that is sent is a route, and costs that distance. *)
LEMMA PathCosts ==
  ASSUME IInv, TreeInv, pc = "send", Len(path) > 1
  PROVE  path \in Abstract!Routes(cost) /\ Abstract!Length(cost, path) = dist[Goal]
<1>1. /\ path \in Seq(Nodes) /\ Len(path) \in Nat /\ path # <<>>
      /\ path[1] = 0 /\ path[Len(path)] = Goal /\ Reached(Goal)
      /\ \A i \in 1 .. Len(path) : path[i] \in Nodes
      /\ \A i \in 1 .. Len(path) - 1 : cost[<<path[i], path[i + 1]>>] # Inf
  BY PathFollowsEdges DEF PathIsDriven, IInv, TypeOK
<1>2. \A i \in 1 .. Len(path) - 1 : i \in 1 .. Len(path) /\ i + 1 \in 1 .. Len(path)
  BY <1>1
<1>3. \A i \in 1 .. Len(path) - 1 : cost[<<path[i], path[i + 1]>>] \in Nat
  BY <1>1, <1>2, Facts DEF IInv, TypeOK
<1>4. IsInjective(path) /\ Len(path) <= Goal + 1
  BY PathIsSimple
<1>5. path \in Abstract!Routes(cost)
  <2>1. Len(path) \in 2 .. Goal + 1 /\ path \in [1 .. Len(path) -> Nodes]
    BY <1>1, <1>4, Facts
  <2>2. path \in UNION {[1 .. n -> Nodes] : n \in 2 .. Goal + 1}
    BY <2>1
  <2>3. path \in Abstract!SimplePaths
    BY <1>1, <1>4, <2>2 DEF Abstract!SimplePaths, Abstract!IsInjective, IsInjective
  <2> QED
    BY <1>1, <2>3 DEF Abstract!Routes, Abstract!Legs
<1>6. PICK s : IsSums(cost, path, Len(path), s) /\ Abstract!Length(cost, path) = s[Len(path)]
  BY <1>1, <1>3, LengthIsSum
<1> DEFINE G == {i \in 1 .. Len(path) : dist[path[i]] = s[i]}
<1>7. 1 \in G
  BY <1>1, <1>6 DEF IsSums, IInv, PrevInv
<1>8. ASSUME NEW i \in 1 .. Len(path) - 1, i \in G PROVE i + 1 \in G
  <2>1. PICK a \in Nodes, b \in Nodes : a = path[i] /\ b = path[i + 1]
    BY <1>1, <1>2
  <2>2. a = previous[b]
    BY <2>1, <1>1 DEF IInv, WalkInv, Searched
  <2>3. b # 0 /\ Reached(b)
    BY <2>2, Facts DEF IInv, PrevInv
  <2>4. dist[b] = dist[a] + cost[<<a, b>>]
    BY <2>2, <2>3, EndIsOptimal DEF Optimal, Searched
  <2>5. s[i + 1] = s[i] + cost[<<a, b>>]
    BY <1>6, <2>1 DEF IsSums
  <2> QED
    BY <1>2, <1>8, <2>1, <2>4, <2>5
<1>9. Len(path) \in 1 .. Len(path)
  BY <1>1
<1>10. Len(path) \in G
  <2> HIDE DEF G
  <2> QED
    BY <1>1, <1>7, <1>8, <1>9, AlongPath
<1> QED
  BY <1>1, <1>5, <1>6, <1>10

(* What is sent is a shortest route. *)
LEMMA SendIsShortest ==
  ASSUME IInv, TreeInv, Send PROVE out' \in Abstract!Shortest(cost)
<1>1. /\ pc = "send" /\ path \in Seq(Nodes) /\ path[Len(path)] = Goal
      /\ Len(path) \in Nat \ {0} /\ Len(path) \in 1 .. Len(path)
      /\ Reached(Goal) <=> Len(path) > 1
  BY PathFollowsEdges DEF PathIsDriven, IInv, TypeOK, Send, Goto
<1>2. PICK i \in 1 .. Len(path) : Stops(i) /\ out' = SubSeq(path, 1, i)
  BY DEF Send
<1>3. i = Len(path)
  BY <1>1, <1>2, PathIsSimple DEF IsInjective, Stops
<1>4. out' = path
  BY <1>1, <1>2, <1>3
<1>5. CASE Len(path) > 1
  <2>1. path \in Abstract!Routes(cost) /\ Abstract!Length(cost, path) = dist[Goal]
    BY <1>1, <1>5, PathCosts
  <2>2. \A q \in Abstract!Routes(cost) : dist[Goal] <= Abstract!Length(cost, q)
    BY <1>1, RoutesCostMore DEF Searched
  <2> QED
    BY <1>4, <2>1, <2>2 DEF Abstract!Shortest
<1>6. CASE Len(path) = 1
  <2>1. Abstract!Routes(cost) = {}
    BY <1>1, <1>6, RoutesCostMore DEF Searched
  <2>2. path = <<Goal>>
    BY <1>1, <1>6
  <2> QED
    BY <1>4, <2>1, <2>2 DEF Abstract!Shortest
<1>7. Len(path) > 1 \/ Len(path) = 1
  <2>1. PICK n \in Nat \ {0} : n = Len(path)
    BY <1>1
  <2>2. n > 1 \/ n = 1
    OBVIOUS
  <2> QED
    BY <2>1, <2>2
<1> QED
  BY <1>5, <1>6, <1>7

(* Every step of path_finding is a step of ShortestRoute or changes nothing *)
(* that it sees.                                                            *)
LEMMA StepRefines ==
  ASSUME IInv, TreeInv, [Next]_vars PROVE [Abstract!Next]_(Abstract!vars)
<1>1. CASE Begin
  BY <1>1 DEF Begin, Goto, Abstract!Next, Abstract!Ask
<1>2. CASE Send
  <2>1. out' \in Abstract!Shortest(cost)
    BY <1>2, SendIsShortest
  <2> QED
    BY <1>2, <2>1 DEF Send, Goto, Abstract!Next, Abstract!Answer
<1>3. CASE ~(Begin \/ Send)
  <2>1. UNCHANGED <<cost, out>> /\ (pc' # "idle" <=> pc # "idle")
    BY <1>3 DEF Next, Step, Pop, QueueEmpty, Relax, Skip, EdgesDone, Walk, WalkEnds,
                Copy, Goto, vars, searchVars, pathVars
  <2> QED
    BY <2>1 DEF Abstract!vars
<1> QED
  BY <1>1, <1>2, <1>3

LEMMA TreeInit == Init => TreeInv
  BY DEF Init, TreeInv

LEMMA InitRefines == Init => Abstract!Init
  BY DEF Init, Abstract!Init

(* path_finding answers each request with a route of which none is cheaper, *)
(* or with the goal alone when an obstacle lies on every route, whatever    *)
(* the way points and however many there are.                               *)
THEOREM Refinement == Spec => ImplementsShortestRoute
<1>1. Spec => [](IInv /\ TreeInv)
  BY InitInv, NextInv, TreeInit, TreeNext, PTL DEF Spec
<1> QED
  BY <1>1, InitRefines, StepRefines, PTL DEF Spec, ImplementsShortestRoute, Abstract!Spec

-----------------------------------------------------------------------------
(***************************************************************************)
(* k_means_plus. First its sums: the function SumTo unrolls exists.        *)
(***************************************************************************)
(* What holds at 0, and at each number if it holds at the one before, holds *)
(* up to any number.                                                        *)
LEMMA UpTo ==
  ASSUME NEW m \in Nat, NEW G, 0 \in G, \A i \in 0 .. m - 1 : i \in G => i + 1 \in G
  PROVE  0 .. m \subseteq G
<1> DEFINE Bad == (0 .. m) \ G
<1> SUFFICES ASSUME Bad # {} PROVE FALSE
  OBVIOUS
<1>1. PICK b \in Bad : \A i \in Bad : b <= i
  <2>1. Bad \in SUBSET Nat
    OBVIOUS
  <2> HIDE DEF Bad
  <2> QED
    BY <2>1, LeastElement
<1>2. b \in 0 .. m /\ b \notin G /\ b # 0
  OBVIOUS
<1>3. b - 1 \in 0 .. m - 1 /\ b - 1 \in 0 .. m /\ (b - 1) + 1 = b /\ ~(b <= b - 1)
  BY <1>2
<1>4. b - 1 \notin Bad
  <2> HIDE DEF Bad
  <2> QED
    BY <1>1, <1>3
<1>5. b - 1 \in G
  BY <1>3, <1>4
<1> QED
  BY <1>2, <1>3, <1>5

(* The sums of f[1] to f[j], for j up to n. *)
AreSums(s, f, n) ==
  s = [j \in 0 .. n |-> IF j = 0 THEN 0 ELSE s[j - 1] + f[j]]

LEMMA PartialSums ==
  ASSUME NEW m \in Nat, NEW f \in [1 .. m -> Int]
  PROVE  \E s : AreSums(s, f, m)
<1> DEFINE G == {n \in 0 .. m : \E s \in [0 .. n -> Int] : AreSums(s, f, n)}
<1>1. 0 \in G
  <2> DEFINE t == [j \in 0 .. 0 |-> 0]
  <2>1. t \in [0 .. 0 -> Int] /\ AreSums(t, f, 0)
    BY DEF AreSums
  <2> QED
    BY <2>1
<1>2. ASSUME NEW n \in 0 .. m - 1, n \in G PROVE n + 1 \in G
  <2>1. PICK s \in [0 .. n -> Int] : AreSums(s, f, n)
    BY <1>2
  <2>2. PICK w \in Int : w = f[n + 1]
    BY <1>2
  <2> DEFINE t == [j \in 0 .. n + 1 |-> IF j = n + 1 THEN s[n] + w ELSE s[j]]
  <2>3. t \in [0 .. n + 1 -> Int]
    BY <1>2, <2>1, <2>2
  <2>4. ASSUME NEW j \in 0 .. n + 1
        PROVE  t[j] = IF j = 0 THEN 0 ELSE t[j - 1] + f[j]
    <3>1. CASE j = n + 1
      <4>1. t[j] = s[n] + w /\ t[j - 1] = s[n] /\ f[j] = w
        BY <1>2, <3>1, <2>2
      <4> QED
        BY <3>1, <4>1, <1>2
    <3>2. CASE j \in 0 .. n
      <4>1. t[j] = s[j] /\ (j # 0 => t[j - 1] = s[j - 1])
        BY <1>2, <3>2
      <4>2. s[j] = IF j = 0 THEN 0 ELSE s[j - 1] + f[j]
        BY <2>1, <3>2 DEF AreSums
      <4> QED
        BY <4>1, <4>2
    <3> QED
      BY <1>2, <3>1, <3>2
  <2>5. AreSums(t, f, n + 1)
    <3>1. t = [j \in 0 .. n + 1 |-> t[j]]
      OBVIOUS
    <3> HIDE DEF t
    <3> QED
      BY <2>4, <3>1 DEF AreSums
  <2>6. n + 1 \in 0 .. m
    BY <1>2
  <2> HIDE DEF t
  <2> QED
    BY <2>3, <2>5, <2>6
<1>3. 0 .. m \subseteq G
  <2> HIDE DEF G
  <2> QED
    BY <1>1, <1>2, UpTo
<1> QED
  BY <1>3

LEMMA SumIsInt ==
  ASSUME NEW m \in Nat, NEW f \in [1 .. m -> Int]
  PROVE  SumTo(f, m) \in Int
<1> DEFINE s == CHOOSE s : s = [j \in 0 .. m |-> IF j = 0 THEN 0 ELSE s[j - 1] + f[j]]
<1>1. SumTo(f, m) = s[m]
  BY DEF SumTo
<1>2. s = [j \in 0 .. m |-> IF j = 0 THEN 0 ELSE s[j - 1] + f[j]]
  BY PartialSums DEF AreSums
<1> HIDE DEF s
<1> DEFINE G == {j \in 0 .. m : s[j] \in Int}
<1>3. 0 \in G
  BY <1>2
<1>4. ASSUME NEW i \in 0 .. m - 1, i \in G PROVE i + 1 \in G
  <2>1. i + 1 \in 0 .. m /\ i + 1 # 0 /\ (i + 1) - 1 = i /\ f[i + 1] \in Int
    OBVIOUS
  <2>2. s[i + 1] = s[(i + 1) - 1] + f[i + 1]
    BY <1>2, <2>1
  <2> QED
    BY <1>4, <2>1, <2>2
<1>5. 0 .. m \subseteq G
  <2> HIDE DEF G
  <2> QED
    BY <1>3, <1>4, UpTo
<1> QED
  BY <1>1, <1>5
-----------------------------------------------------------------------------
LEMMA Monotone ==
  ASSUME NEW a \in Int, NEW b \in Int, NEW w \in Nat \ {0}
  PROVE  a * w < b * w <=> a < b
OBVIOUS

(* Which of two centers is nearer to a point: a strict order, and NaN is   *)
(* never nearer.                                                           *)
LEMMA DistIsNat ==
  ASSUME NEW p \in Int \X Int, NEW c \in Center
  PROVE  Dist2(p, c) \in Nat
<1>1. \A w \in Int : w * w \in Nat
  OBVIOUS
<1>2. c.x - p[1] * c.n \in Int /\ c.y - p[2] * c.n \in Int
  BY DEF Center
<1> QED
  BY <1>1, <1>2 DEF Dist2

LEMMA SquareIsNat == \A w \in Nat : w * w \in Nat /\ (w # 0 => w * w # 0)
OBVIOUS

LEMMA NaNNotNearer ==
  ASSUME NEW p \in Int \X Int, NEW c \in Center, NEW e \in Center, NearerTo(p, c, e)
  PROVE  ~NaN(c)
<1> SUFFICES ASSUME c.n = 0 PROVE FALSE
  BY DEF NaN
<1>1. Dist2(p, c) \in Nat /\ Dist2(p, e) \in Nat /\ e.n * e.n \in Nat
  BY DistIsNat, SquareIsNat DEF Center
<1>2. PICK a \in Nat : a = Dist2(p, c) * (e.n * e.n)
  BY <1>1
<1>3. Dist2(p, e) * (c.n * c.n) = 0
  BY <1>1
<1> QED
  BY <1>2, <1>3 DEF NearerTo

LEMMA Cross ==
  ASSUME NEW a \in Nat, NEW b \in Nat, NEW e \in Nat,
         NEW p \in Nat \ {0}, NEW q \in Nat \ {0}, NEW r \in Nat \ {0},
         a * q < b * p, b * r < e * q
  PROVE  a * r < e * p
<1>1. (a * q) * r < (b * p) * r
  OBVIOUS
<1>2. (b * r) * p < (e * q) * p
  OBVIOUS
<1>3. (b * p) * r = (b * r) * p
  OBVIOUS
<1>4. (a * q) * r < (e * q) * p
  BY <1>1, <1>2, <1>3
<1>5. (a * r) * q < (e * p) * q
  BY <1>4
<1>6. a * r \in Int /\ e * p \in Int
  OBVIOUS
<1> QED
  BY <1>5, <1>6, Monotone

LEMMA NearerTrans ==
  ASSUME NEW p \in Int \X Int, NEW c \in Center, NEW e \in Center, NEW h \in Center,
         NearerTo(p, c, e), NearerTo(p, e, h), ~NaN(h)
  PROVE  NearerTo(p, c, h)
<1>1. ~NaN(c) /\ ~NaN(e)
  BY NaNNotNearer
<1>2. c.n \in Nat /\ e.n \in Nat /\ h.n \in Nat /\ c.n # 0 /\ e.n # 0 /\ h.n # 0
  BY <1>1 DEF Center, NaN
<1>3. PICK cc \in Nat \ {0} : cc = c.n * c.n
  BY <1>2, SquareIsNat
<1>4. PICK ee \in Nat \ {0} : ee = e.n * e.n
  BY <1>2, SquareIsNat
<1>5. PICK hh \in Nat \ {0} : hh = h.n * h.n
  BY <1>2, SquareIsNat
<1>6. Dist2(p, c) \in Nat /\ Dist2(p, e) \in Nat /\ Dist2(p, h) \in Nat
  BY DistIsNat
<1>7. Dist2(p, c) * ee < Dist2(p, e) * cc /\ Dist2(p, e) * hh < Dist2(p, h) * ee
  BY <1>3, <1>4, <1>5 DEF NearerTo
<1>8. Dist2(p, c) * hh < Dist2(p, h) * cc
  BY <1>6, <1>7, Cross
<1> QED
  BY <1>3, <1>5, <1>8 DEF NearerTo
(* Among the first m centers, if one of them is a number, one has none     *)
(* nearer: take one with the fewest that are nearer.                       *)
LEMMA NearestExists ==
  ASSUME NEW p \in Int \X Int, NEW m \in 0 .. MaxClusters, cent \in [1 .. MaxClusters -> Center],
         NEW i0 \in 1 .. m, ~NaN(cent[i0])
  PROVE  NearestSet(p, m) # {}
<1> DEFINE Real == {i \in 1 .. m : ~NaN(cent[i])}
           Closer0(i) == {j \in 1 .. m : NearerTo(p, cent[j], cent[i])}
           Counts == {Cardinality(Closer0(i)) : i \in Real}
<1>0. MaxClusters \in Nat /\ m \in Nat /\ \A i \in 1 .. m : cent[i] \in Center
  BY ClustersAssumption
<1>1. \A i \in 1 .. m : IsFiniteSet(Closer0(i)) /\ Cardinality(Closer0(i)) \in Nat
  <2>1. IsFiniteSet(1 .. m)
    BY <1>0, FS_Interval
  <2>2. \A i \in 1 .. m : Closer0(i) \subseteq 1 .. m
    OBVIOUS
  <2> QED
    BY <2>1, <2>2, FS_Subset, FS_CardinalityType
<1>2. PICK i \in Real : \A j \in Real : Cardinality(Closer0(i)) <= Cardinality(Closer0(j))
  <2>1. Counts \in SUBSET Nat /\ Counts # {}
    BY <1>1
  <2>2. PICK n \in Counts : \A l \in Counts : n <= l
    <3> HIDE DEF Counts
    <3> QED
      BY <2>1, LeastElement
  <2> QED
    BY <2>2
<1>3. ASSUME NEW j \in 1 .. m, NearerTo(p, cent[j], cent[i])
      PROVE  FALSE
  <2>1. j \in Real
    BY <1>0, <1>3, NaNNotNearer
  <2>2. Closer0(j) \subseteq Closer0(i)
    BY <1>0, <1>3, NearerTrans
  <2>3. j \in Closer0(i) /\ j \notin Closer0(j)
    <3>1. ~NearerTo(p, cent[j], cent[j])
      <4>1. Dist2(p, cent[j]) \in Nat /\ cent[j].n * cent[j].n \in Nat
        BY <1>0, DistIsNat, SquareIsNat DEF Center
      <4>2. PICK w \in Nat : w = Dist2(p, cent[j]) * (cent[j].n * cent[j].n)
        BY <4>1
      <4> QED
        BY <4>2 DEF NearerTo
    <3> QED
      BY <1>3, <3>1
  <2>4. Cardinality(Closer0(j)) < Cardinality(Closer0(i))
    <3> HIDE DEF Closer0
    <3>1. Closer0(j) # Closer0(i) /\ IsFiniteSet(Closer0(i))
      BY <1>1, <1>2, <2>3
    <3>2. Cardinality(Closer0(j)) <= Cardinality(Closer0(i))
            /\ (Cardinality(Closer0(j)) = Cardinality(Closer0(i)) => Closer0(j) = Closer0(i))
      BY <2>2, <3>1, FS_Subset
    <3>3. Cardinality(Closer0(i)) \in Nat /\ Cardinality(Closer0(j)) \in Nat
      BY <1>1, <1>2
    <3> QED
      BY <3>1, <3>2, <3>3
  <2>5. Cardinality(Closer0(j)) \in Nat /\ Cardinality(Closer0(i)) \in Nat
    BY <1>1, <1>2
  <2>6. Cardinality(Closer0(i)) <= Cardinality(Closer0(j))
    BY <1>2, <2>1
  <2> HIDE DEF Closer0
  <2> QED
    BY <2>4, <2>5, <2>6
<1>4. i \in NearestSet(p, m)
  BY <1>2, <1>3 DEF NearestSet
<1> QED
  BY <1>4

(* nearest_s returns the first of the nearest centers, if there is one.    *)
LEMMA NearestIsFirst ==
  ASSUME NEW p, NEW g, NEW m \in Nat, NearestSet(p, m) # {}
  PROVE  /\ Nearest(p, g, m) \in NearestSet(p, m)
         /\ \A i \in NearestSet(p, m) : Nearest(p, g, m) <= i
<1> DEFINE near == NearestSet(p, m)
<1>1. near \in SUBSET Nat
  BY DEF NearestSet
<1> HIDE DEF near
<1>2. near # {}
  BY DEF near
<1>3. \E i \in near : \A j \in near : i <= j
  BY <1>1, <1>2, LeastElement
<1>4. Nearest(p, g, m) = CHOOSE i \in near : \A j \in near : i <= j
  BY <1>2 DEF Nearest, near
<1> QED
  BY <1>3, <1>4 DEF near

LEMMA NearestType ==
  ASSUME NEW p, NEW m \in 0 .. MaxClusters, NEW g \in 1 .. MaxClusters
  PROVE  Nearest(p, g, m) \in 1 .. MaxClusters
<1>0. MaxClusters \in Nat /\ m \in Nat
  BY ClustersAssumption
<1>1. CASE NearestSet(p, m) = {}
  BY <1>1 DEF Nearest
<1>2. CASE NearestSet(p, m) # {}
  BY <1>0, <1>2, NearestIsFirst DEF NearestSet
<1> QED
  BY <1>1, <1>2

LEMMA MeanIsCenter ==
  ASSUME ClusterTypes, NEW i
  PROVE  Mean(i) \in Center /\ (~NaN(Mean(i)) <=> \E j \in 1 .. PTS : group[j] = i)
<1> DEFINE fx == [j \in 1 .. PTS |-> IF group[j] = i THEN pts[j][1] ELSE 0]
           fy == [j \in 1 .. PTS |-> IF group[j] = i THEN pts[j][2] ELSE 0]
<1>1. PTS \in Nat /\ fx \in [1 .. PTS -> Int] /\ fy \in [1 .. PTS -> Int]
  BY ClustersAssumption DEF ClusterTypes
<1>2. SumTo(fx, PTS) \in Int /\ SumTo(fy, PTS) \in Int
  <2> HIDE DEF fx, fy
  <2> QED
    BY <1>1, SumIsInt
<1>3. IsFiniteSet(Members(i)) /\ Cardinality(Members(i)) \in Nat
  <2>1. IsFiniteSet(1 .. PTS) /\ Members(i) \subseteq 1 .. PTS
    BY <1>1, FS_Interval DEF Members
  <2> QED
    BY <2>1, FS_Subset, FS_CardinalityType
<1>4. Mean(i) = [x |-> SumTo(fx, PTS), y |-> SumTo(fy, PTS), n |-> Cardinality(Members(i))]
  BY DEF Mean
<1>5. Cardinality(Members(i)) = 0 <=> Members(i) = {}
  BY <1>3, FS_EmptySet
<1> HIDE DEF fx, fy
<1>6. Mean(i) \in Center
  BY <1>2, <1>3, <1>4 DEF Center
<1>7. Mean(i).n = Cardinality(Members(i))
  BY <1>4
<1> QED
  BY <1>5, <1>6, <1>7 DEF Members, NaN
-----------------------------------------------------------------------------
(* While kpp_s runs the first center is a point; after it every point is   *)
(* in a cluster of this step; after the means, the centers are theirs; and *)
(* at the end no point moved.                                              *)
SeedInv == kpc = "seed" => seeded >= 1 /\ ~NaN(cent[1])
GroupInv == kpc \in {"means", "regroup", "send"} =>
  \A j \in 1 .. PTS : group[j] \in 1 .. n_clusters
MeansInv == kpc = "regroup" => \A i \in 1 .. n_clusters : cent[i] = Mean(i)
EndedInv == kpc = "send" =>
  /\ \A i \in 1 .. n_clusters : cent[i] = Mean(i)
  /\ \A j \in 1 .. PTS : /\ group[j] \in NearestSet(pts[j], n_clusters)
                         /\ \A i \in NearestSet(pts[j], n_clusters) : group[j] <= i
ClusterInv == ClusterTypes /\ SeedInv /\ GroupInv /\ MeansInv /\ EndedInv

LEMMA ClusterInitInv == ClusterInit => ClusterInv
<1> SUFFICES ASSUME ClusterInit PROVE ClusterInv
  OBVIOUS
<1>1. /\ n_clusters \in 1 .. MaxClusters /\ seeded \in 0 .. n_clusters
      /\ 1 \in 1 .. MaxClusters /\ changed \in 0 .. PTS
      /\ scans \in 0 .. MaxScans
  BY ClustersAssumption DEF ClusterInit
<1>2. pts \in [1 .. PTS -> Int \X Int] /\ group \in [1 .. PTS -> 1 .. MaxClusters]
  BY <1>1 DEF ClusterInit
<1>3. cent \in [1 .. MaxClusters -> Center]
  BY DEF ClusterInit, Center
<1> QED
  BY <1>1, <1>2, <1>3 DEF ClusterInit, ClusterInv, ClusterTypes, SeedInv, GroupInv, MeansInv,
                          EndedInv

LEMMA ScanInv == ClusterInv /\ Scan => ClusterInv'
<1> SUFFICES ASSUME ClusterInv, Scan PROVE ClusterInv'
  OBVIOUS
<1> USE DEF ClusterInv
<1>1. PICK j \in 1 .. PTS : cent' = [cent EXCEPT ![1] = AsCenter(pts'[j])]
  BY DEF Scan
<1>2. n_clusters' \in 1 .. MaxClusters /\ MaxClusters \in Nat /\ 1 \in 1 .. MaxClusters
  BY ClustersAssumption DEF Scan, ClusterTypes
<1>3. pts' \in [1 .. PTS -> Int \X Int]
  BY ClustersAssumption DEF Scan, Scans
<1>4. AsCenter(pts'[j]) \in Center /\ ~NaN(AsCenter(pts'[j]))
  BY <1>3 DEF AsCenter, Center, NaN
<1>5. cent' \in [1 .. MaxClusters -> Center] /\ ~NaN(cent'[1])
  BY <1>1, <1>2, <1>4 DEF ClusterTypes
<1>6. scans' \in 0 .. MaxScans /\ seeded' \in 0 .. n_clusters' /\ seeded' >= 1
  BY <1>2, ClustersAssumption DEF Scan, ClusterTypes
<1>7. ClusterTypes'
  BY <1>2, <1>3, <1>5, <1>6 DEF Scan, ClusterTypes
<1> QED
  BY <1>5, <1>6, <1>7 DEF Scan, SeedInv, GroupInv, MeansInv, EndedInv

LEMMA SeedStepInv == ClusterInv /\ Seed => ClusterInv'
<1> SUFFICES ASSUME ClusterInv, Seed PROVE ClusterInv'
  OBVIOUS
<1> USE DEF ClusterInv
<1>1. seeded + 1 \in 1 .. n_clusters /\ seeded + 1 \in 1 .. MaxClusters /\ seeded' \in 0 .. n_clusters
        /\ seeded' >= 1 /\ seeded + 1 # 1 /\ 1 \in 1 .. MaxClusters
  BY ClustersAssumption DEF Seed, ClusterTypes, SeedInv
<1>2. cent' = cent \/ \E j \in 1 .. PTS : cent' = [cent EXCEPT ![seeded + 1] = AsCenter(pts[j])]
  BY DEF Seed
<1>3. \A j \in 1 .. PTS : AsCenter(pts[j]) \in Center
  BY DEF AsCenter, Center, ClusterTypes
<1>4. cent' \in [1 .. MaxClusters -> Center] /\ cent'[1] = cent[1]
  BY <1>1, <1>2, <1>3 DEF ClusterTypes
<1>5. ClusterTypes'
  BY <1>1, <1>4 DEF Seed, ClusterTypes
<1> QED
  BY <1>1, <1>4, <1>5 DEF Seed, SeedInv, GroupInv, MeansInv, EndedInv

LEMMA AssignInv == ClusterInv /\ Assign => ClusterInv'
<1> SUFFICES ASSUME ClusterInv, Assign PROVE ClusterInv'
  OBVIOUS
<1> USE DEF ClusterInv
<1>1. /\ n_clusters \in 1 .. MaxClusters /\ seeded = n_clusters
      /\ n_clusters \in 0 .. MaxClusters /\ n_clusters \in Nat
      /\ 1 \in 1 .. n_clusters /\ cent \in [1 .. MaxClusters -> Center] /\ ~NaN(cent[1])
        /\ 0 \in 0 .. PTS /\ \A i \in 1 .. n_clusters : i \in 1 .. MaxClusters
  BY ClustersAssumption DEF Assign, ClusterTypes, SeedInv
<1>2. \A j \in 1 .. PTS : pts[j] \in Int \X Int
  BY DEF ClusterTypes
<1>3. ASSUME NEW j \in 1 .. PTS
      PROVE  Nearest(pts[j], group[j], n_clusters) \in 1 .. n_clusters
  <2>1. NearestSet(pts[j], n_clusters) # {}
    BY <1>1, <1>2, NearestExists
  <2> QED
    BY <1>1, <2>1, NearestIsFirst DEF NearestSet
<1>4. group' = [j \in 1 .. PTS |-> Nearest(pts[j], group[j], n_clusters)]
  BY <1>1 DEF Assign
<1>5. \A j \in 1 .. PTS : group'[j] \in 1 .. n_clusters
  BY <1>3, <1>4
<1>6. group' \in [1 .. PTS -> 1 .. MaxClusters]
  BY <1>1, <1>3, <1>4
<1>7. ClusterTypes'
  BY <1>1, <1>6 DEF Assign, ClusterTypes
<1> QED
  BY <1>5, <1>7 DEF Assign, SeedInv, GroupInv, MeansInv, EndedInv

LEMMA MeansStepInv == ClusterInv /\ Means => ClusterInv'
<1> SUFFICES ASSUME ClusterInv, Means PROVE ClusterInv'
  OBVIOUS
<1> USE DEF ClusterInv
<1>1. \A i \in 1 .. n_clusters : i \in 1 .. MaxClusters /\ i <= n_clusters
  BY ClustersAssumption DEF ClusterTypes
<1>2. \A i : Mean(i) \in Center
  BY MeanIsCenter
<1>3. cent' \in [1 .. MaxClusters -> Center]
  BY <1>2 DEF Means, ClusterTypes
<1>4. \A i : Mean(i)' = Mean(i)
  BY DEF Means, Mean, Members
<1>5. \A i \in 1 .. n_clusters : cent'[i] = Mean(i)
  BY <1>1 DEF Means
<1>6. ClusterTypes'
  BY <1>3 DEF Means, ClusterTypes
<1> QED
  BY <1>4, <1>5, <1>6 DEF Means, SeedInv, GroupInv, MeansInv, EndedInv

LEMMA RegroupInv == ClusterInv /\ Regroup => ClusterInv'
<1> SUFFICES ASSUME ClusterInv, Regroup PROVE ClusterInv'
  OBVIOUS
<1> USE DEF ClusterInv
<1> DEFINE near == [j \in 1 .. PTS |-> Nearest(pts[j], group[j], n_clusters)]
           moved == {j \in 1 .. PTS : near[j] # group[j]}
<1>1. group' = near /\ changed' = Cardinality(moved)
  BY DEF Regroup
<1>2. n_clusters \in 1 .. MaxClusters /\ n_clusters \in 0 .. MaxClusters /\ n_clusters \in Nat
        /\ cent \in [1 .. MaxClusters -> Center] /\ PTS \in Nat /\ 1 \in 1 .. PTS
        /\ \A i \in 1 .. n_clusters : i \in 1 .. MaxClusters
  BY ClustersAssumption DEF ClusterTypes
<1>3. group[1] \in 1 .. n_clusters /\ ~NaN(cent[group[1]])
  <2>1. group[1] \in 1 .. n_clusters /\ cent[group[1]] = Mean(group[1])
    BY <1>2 DEF Regroup, GroupInv, MeansInv
  <2> QED
    BY <1>2, <2>1, MeanIsCenter
<1>4. ASSUME NEW j \in 1 .. PTS
      PROVE  /\ near[j] \in NearestSet(pts[j], n_clusters)
             /\ \A i \in NearestSet(pts[j], n_clusters) : near[j] <= i
             /\ near[j] \in 1 .. n_clusters
  <2>1. pts[j] \in Int \X Int
    BY DEF ClusterTypes
  <2>2. NearestSet(pts[j], n_clusters) # {}
    BY <1>2, <1>3, <2>1, NearestExists
  <2>3. near[j] = Nearest(pts[j], group[j], n_clusters)
    OBVIOUS
  <2> HIDE DEF near
  <2>4. near[j] \in NearestSet(pts[j], n_clusters)
         /\ \A i \in NearestSet(pts[j], n_clusters) : near[j] <= i
    BY <1>2, <2>2, <2>3, NearestIsFirst
  <2> QED
    BY <2>4 DEF NearestSet
<1>5. IsFiniteSet(moved) /\ Cardinality(moved) \in 0 .. PTS
  <2>1. IsFiniteSet(1 .. PTS) /\ Cardinality(1 .. PTS) = PTS /\ moved \subseteq 1 .. PTS
    BY <1>2, FS_Interval
  <2> HIDE DEF moved
  <2>2. IsFiniteSet(moved) /\ Cardinality(moved) \in Nat /\ Cardinality(moved) <= PTS
    BY <2>1, FS_Subset, FS_CardinalityType
  <2> QED
    BY <1>2, <2>2
<1>6. group' \in [1 .. PTS -> 1 .. MaxClusters]
  <2>1. \A j \in 1 .. PTS : near[j] \in 1 .. MaxClusters
    BY <1>2, <1>4
  <2> QED
    BY <1>1, <2>1
<1>7. ClusterTypes'
  <2> HIDE DEF moved, near
  <2> QED
    BY <1>1, <1>5, <1>6 DEF Regroup, ClusterTypes
<1>8. GroupInv' /\ SeedInv' /\ MeansInv'
  <2>1. \A j \in 1 .. PTS : group'[j] \in 1 .. n_clusters
    BY <1>1, <1>4
  <2> QED
    BY <2>1 DEF Regroup, GroupInv, SeedInv, MeansInv
<1>9. EndedInv'
  <2> SUFFICES ASSUME kpc' = "send" PROVE EndedInv'
    BY DEF EndedInv
  <2>1. changed' = 0 /\ UNCHANGED <<n_clusters, pts, cent>>
    BY DEF Regroup, Good
  <2>2. moved = {}
    <3> HIDE DEF moved
    <3> QED
      BY <1>1, <1>5, <2>1, FS_EmptySet
  <2>3. group' = group
    BY <1>1, <2>2 DEF ClusterTypes
  <2>4. \A i : Mean(i)' = Mean(i)
    BY <2>1, <2>3 DEF Mean, Members
  <2>5. \A j : NearestSet(pts[j], n_clusters)' = NearestSet(pts[j], n_clusters)
    BY <2>1 DEF NearestSet
  <2>6. \A i \in 1 .. n_clusters : cent[i] = Mean(i)
    BY DEF Regroup, MeansInv
  <2>7. \A i \in 1 .. n_clusters' : cent'[i] = Mean(i)'
    BY <2>1, <2>4, <2>6
  <2> HIDE DEF near, moved
  <2> QED
    BY <1>1, <1>4, <2>1, <2>5, <2>7 DEF EndedInv
<1> QED
  BY <1>7, <1>8, <1>9

LEMMA ClusterNextInv == ClusterInv /\ [ClusterNext]_clusterVars => ClusterInv'
<1> SUFFICES ASSUME ClusterInv, [ClusterNext]_clusterVars PROVE ClusterInv'
  OBVIOUS
<1>1. CASE SendCenters
  BY <1>1 DEF SendCenters, ClusterInv, ClusterTypes, SeedInv, GroupInv, MeansInv, EndedInv
<1>2. CASE UNCHANGED clusterVars
  <2>1. UNCHANGED <<kpc, n_clusters, pts, group, cent, seeded, changed, scans>>
    BY <1>2 DEF clusterVars
  <2>2. \A i : Mean(i)' = Mean(i)
    BY <2>1 DEF Mean, Members
  <2>3. \A j : NearestSet(pts[j], n_clusters)' = NearestSet(pts[j], n_clusters)
    BY <2>1 DEF NearestSet
  <2>4. ClusterTypes' /\ SeedInv' /\ GroupInv'
    BY <2>1 DEF ClusterInv, ClusterTypes, SeedInv, GroupInv
  <2>5. MeansInv' /\ EndedInv'
    BY <2>1, <2>2, <2>3 DEF ClusterInv, MeansInv, EndedInv
  <2> QED
    BY <2>4, <2>5 DEF ClusterInv
<1> QED
  BY <1>1, <1>2, ScanInv, SeedStepInv, AssignInv, MeansStepInv, RegroupInv
     DEF ClusterNext, ClusterStep

(* Two centers of the same place are equally near to every point.          *)
LEMMA SamePlace ==
  ASSUME NEW p \in Int \X Int, NEW c \in Center, NEW e \in Center, NEW h \in Center,
         ~NaN(c), ~NaN(e), c.x * e.n = e.x * c.n, c.y * e.n = e.y * c.n,
         NearerTo(p, h, c)
  PROVE  NearerTo(p, h, e)
<1>1. PICK cn \in Nat \ {0}, en \in Nat \ {0}, hn \in Nat : cn = c.n /\ en = e.n /\ hn = h.n
  BY DEF Center, NaN
<1>2. PICK cx \in Int, cy \in Int, ex \in Int, ey \in Int :
        cx = c.x /\ cy = c.y /\ ex = e.x /\ ey = e.y
  BY DEF Center
<1>3. PICK p1 \in Int, p2 \in Int : p1 = p[1] /\ p2 = p[2]
  OBVIOUS
<1>4. cx * en = ex * cn /\ cy * en = ey * cn
  BY <1>1, <1>2
<1>5. (cx - p1 * cn) * en = (ex - p1 * en) * cn
  <2>1. (cx - p1 * cn) * en = cx * en - (p1 * cn) * en
    OBVIOUS
  <2>2. (ex - p1 * en) * cn = ex * cn - (p1 * cn) * en
    OBVIOUS
  <2> QED
    BY <1>4, <2>1, <2>2
<1>6. (cy - p2 * cn) * en = (ey - p2 * en) * cn
  <2>1. (cy - p2 * cn) * en = cy * en - (p2 * cn) * en
    OBVIOUS
  <2>2. (ey - p2 * en) * cn = ey * cn - (p2 * cn) * en
    OBVIOUS
  <2> QED
    BY <1>4, <2>1, <2>2
<1>7. ASSUME NEW a \in Int, NEW b \in Int, a * en = b * cn
      PROVE  (a * a) * (en * en) = (b * b) * (cn * cn)
  <2>1. (a * a) * (en * en) = (a * en) * (a * en)
    OBVIOUS
  <2>2. (b * b) * (cn * cn) = (b * cn) * (b * cn)
    OBVIOUS
  <2> QED
    BY <1>7, <2>1, <2>2
<1>8. PICK a \in Int, b \in Int, f \in Int, g \in Int :
        a = cx - p1 * cn /\ b = ex - p1 * en /\ f = cy - p2 * cn /\ g = ey - p2 * en
  OBVIOUS
<1>9. (a * a) * (en * en) = (b * b) * (cn * cn) /\ (f * f) * (en * en) = (g * g) * (cn * cn)
  BY <1>5, <1>6, <1>7, <1>8
<1>10. Dist2(p, c) = a * a + f * f /\ Dist2(p, e) = b * b + g * g
  BY <1>1, <1>2, <1>3, <1>8 DEF Dist2
<1>11. (a * a + f * f) * (en * en) = (b * b + g * g) * (cn * cn)
  <2>1. (a * a + f * f) * (en * en) = (a * a) * (en * en) + (f * f) * (en * en)
    OBVIOUS
  <2>2. (b * b + g * g) * (cn * cn) = (b * b) * (cn * cn) + (g * g) * (cn * cn)
    OBVIOUS
  <2> QED
    BY <1>9, <2>1, <2>2
<1>12. PICK D \in Nat, C \in Nat, E \in Nat :
         D = Dist2(p, h) /\ C = Dist2(p, c) /\ E = Dist2(p, e)
  BY DistIsNat
<1>13. PICK cc \in Nat \ {0} : cc = cn * cn
  BY SquareIsNat
<1>14. PICK ee \in Nat \ {0} : ee = en * en
  BY SquareIsNat
<1>15. PICK hh \in Nat : hh = hn * hn
  BY SquareIsNat
<1>16. D * cc < C * hh /\ C * ee = E * cc
  BY <1>1, <1>10, <1>11, <1>12, <1>13, <1>14, <1>15 DEF NearerTo
<1>17. (D * ee) * cc < (E * hh) * cc
  <2>1. (D * cc) * ee < (C * hh) * ee
    BY <1>16
  <2>2. (D * cc) * ee = (D * ee) * cc
    OBVIOUS
  <2>3. (C * hh) * ee = (C * ee) * hh
    OBVIOUS
  <2>4. (E * cc) * hh = (E * hh) * cc
    OBVIOUS
  <2> QED
    BY <1>16, <2>1, <2>2, <2>3, <2>4
<1>18. D * ee < E * hh
  <2>1. D * ee \in Int /\ E * hh \in Int
    OBVIOUS
  <2> QED
    BY <1>17, <2>1, Monotone
<1> QED
  BY <1>1, <1>12, <1>14, <1>15, <1>18 DEF NearerTo

LEMMA EndIsRight == ClusterInv => KMeansSafe
<1> SUFFICES ASSUME ClusterInv PROVE Clustered /\ Distinct
  BY DEF ClusterInv, KMeansSafe
<1> SUFFICES ASSUME kpc = "send" PROVE Clustered /\ Distinct
  BY DEF Clustered, Distinct
<1> USE DEF ClusterInv
<1>1. \A i \in 1 .. n_clusters : i \in 1 .. MaxClusters /\ cent[i] \in Center /\ cent[i] = Mean(i)
  BY ClustersAssumption DEF ClusterTypes, EndedInv
<1>2. ASSUME NEW j \in 1 .. PTS
      PROVE  /\ group[j] \in 1 .. n_clusters /\ ~NaN(cent[group[j]])
             /\ \A i \in 1 .. n_clusters : ~NearerTo(pts[j], cent[i], cent[group[j]])
  BY DEF EndedInv, NearestSet
<1>3. Clustered
  BY <1>1, <1>2 DEF Clustered
<1>4. ASSUME NEW i \in 1 .. n_clusters, NEW l \in 1 .. n_clusters, i < l,
             ~NaN(cent[i]), ~NaN(cent[l]),
             cent[i].x * cent[l].n = cent[l].x * cent[i].n,
             cent[i].y * cent[l].n = cent[l].y * cent[i].n
      PROVE  FALSE
  <2>1. PICK j \in 1 .. PTS : group[j] = l
    BY <1>1, <1>4, MeanIsCenter
  <2>2. pts[j] \in Int \X Int
    BY DEF ClusterTypes
  <2>3. ASSUME NEW h \in 1 .. n_clusters, NearerTo(pts[j], cent[h], cent[i]) PROVE FALSE
    <3>1. NearerTo(pts[j], cent[h], cent[l])
      <4>1. cent[h] \in Center /\ cent[i] \in Center /\ cent[l] \in Center
        BY <1>1
      <4> QED
        BY <1>4, <2>2, <2>3, <4>1, SamePlace
    <3> QED
      BY <1>2, <2>1, <3>1
  <2>4. i \in NearestSet(pts[j], n_clusters)
    BY <1>4, <2>3 DEF NearestSet
  <2>5. group[j] <= i
    BY <2>4 DEF EndedInv
  <2> QED
    BY <1>4, <2>1, <2>5
<1>5. Distinct
  <2> SUFFICES ASSUME NEW i \in 1 .. n_clusters, NEW l \in 1 .. n_clusters, i # l,
                      ~NaN(cent[i]), ~NaN(cent[l]),
                      cent[i].x * cent[l].n = cent[l].x * cent[i].n,
                      cent[i].y * cent[l].n = cent[l].y * cent[i].n
               PROVE  FALSE
    BY DEF Distinct
  <2>1. n_clusters \in Nat
    BY ClustersAssumption DEF ClusterTypes
  <2>2. CASE i < l
    BY <2>2, <1>4
  <2>3. CASE l < i
    BY <2>3, <1>4
  <2> QED
    BY <2>1, <2>2, <2>3
<1> QED
  BY <1>3, <1>5

(* Whatever scans come and however many clusters each is asked for: the    *)
(* centers that k_means_plus sends are those of its last scan, every point *)
(* is with a nearest one, and no two are the same (lloyd_s).               *)
THEOREM CentersAreRight == ClusterSpec => []KMeansSafe
<1>1. ClusterSpec => []ClusterInv
  BY ClusterInitInv, ClusterNextInv, PTL DEF ClusterSpec
<1> QED
  BY <1>1, EndIsRight, PTL
=============================================================================
