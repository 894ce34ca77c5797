---------------------------- MODULE ShortestRoute ----------------------------
(***************************************************************************)
(* What a planner promises: asked with a table of costs, it answers with a *)
(* route from the first node to the last of which no other is cheaper, or  *)
(* with the last node alone when there is no route.                        *)
(***************************************************************************)
EXTENDS Integers, Sequences, Functions

CONSTANTS
  Nodes,    \* an interval of integers from 0
  Goal,     \* the last one
  Tables,   \* tables of costs, [Nodes \X Nodes -> Nat \cup {Inf}]
  Inf       \* the cost of a pair that no edge joins

VARIABLES asked, cost, route
vars == <<asked, cost, route>>

SimplePaths ==
  {p \in UNION {[1 .. n -> Nodes] : n \in 2 .. Goal + 1} :
     p[1] = 0 /\ p[Len(p)] = Goal /\ IsInjective(p)}

Legs(p) == {<<p[i], p[i + 1]>> : i \in 1 .. Len(p) - 1}
Routes(c) == {p \in SimplePaths : \A e \in Legs(p) : c[e] # Inf}
Length(c, p) ==
  LET sum[i \in 1 .. Len(p)] == IF i = 1 THEN 0 ELSE sum[i - 1] + c[p[i - 1], p[i]]
  IN  sum[Len(p)]

Shortest(c) ==
  IF Routes(c) = {} THEN {<<Goal>>}
  ELSE {p \in Routes(c) : \A q \in Routes(c) : Length(c, p) <= Length(c, q)}

Init == asked = FALSE /\ cost \in Tables /\ route = <<>>

Ask == ~asked /\ asked' = TRUE /\ cost' \in Tables /\ UNCHANGED route

Answer == asked /\ asked' = FALSE /\ route' \in Shortest(cost) /\ UNCHANGED cost

Next == Ask \/ Answer

Spec == Init /\ [][Next]_vars
=============================================================================
