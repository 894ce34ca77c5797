----------------------------- MODULE MCTriggers -----------------------------
(***************************************************************************)
(* What triggers step. Two triggers with threads share a block, one of     *)
(* them with num_steps=2 ("ptrig"); a passive trigger steps its list       *)
(* ("trig"); the pipeline ("plan") runs under one trigger as in            *)
(* collision_avoidance.lua or two as in fmpc_collision_avoidance.lua,      *)
(* started in the order of the script: the triggers before the buffers.    *)
(* The variable part says which of them a behaviour runs; the others stay  *)
(* in their initial states.                                                *)
(***************************************************************************)
EXTENDS Ptrig, Trig, Planner, TLC

CONSTANTS t1, t2, b1
TwoTriggers   == {t1, t2}
OneBlock      == {b1}
TwoTrigBlocks == t1 :> <<b1>> @@ t2 :> <<b1, b1>>

(* One block, or two of which the first may be the one that is not active. *)
SomeLists == {<<[b |-> "a", num_steps |-> 1]>>,
              <<[b |-> "b", num_steps |-> 1], [b |-> "a", num_steps |-> 1]>>}

(* The order of both scripts: the triggers before the buffers. A client of *)
(* webif stops blocks of the pipeline.                                     *)
BufferOrder == <<"centers", "nCenters", "wayPoints", "costTable",
                 "pathWayPoints", "nValidNodes">>
OneTrigger ==
  [rounds    |-> [ptrig1 |-> WholeRound],
   order     |-> WholeRound \o <<"ptrig1">> \o BufferOrder,
   stoppable |-> {"waypoints_gen", "path_finding", "path_handler"}]
TwoPlanners ==
  [rounds    |-> [ptrig3 |-> ScanRound, ptrig4 |-> PlanRound],
   order     |-> WholeRound \o <<"ptrig3", "ptrig4">> \o BufferOrder,
   stoppable |-> {"path_finding"}]
BothScripts == {OneTrigger, TwoPlanners}
ASSUME ScriptsAssumption /\ SizeAssumption

VARIABLE part

Threaded(A) == part = "ptrig" /\ A /\ UNCHANGED <<part, trigVars, planVars>>
Passive(A)  == part = "trig" /\ A /\ UNCHANGED <<part, vars, planVars>>
Planned(A)  == part = "plan" /\ A /\ UNCHANGED <<part, vars, trigVars>>

(* Less of everything for the pipeline under two triggers, and for one     *)
(* that began before its buffers were started.                             *)
Bounded ==
  /\ script' = TwoPlanners => scans' <= 3 /\ gens' <= 4 /\ stops' <= 1
  /\ started' < Len(Order) \/ lost' # {} => scans' <= 2 /\ gens' <= 1 /\ stops' = 0

MCInit ==
  /\ part \in {"ptrig", "trig", "plan"}
  /\ Init
  /\ TrigInitial /\ (part = "trig" \/ active = {})
  /\ PlanInit /\ (part = "plan" \/ script = OneTrigger)
MCNext == Threaded(Next) \/ Passive(TrigNext) \/ Planned(PlanNext /\ Bounded)
MCVars == <<part, vars, trigVars, planVars>>
MCSpec == MCInit /\ [][MCNext]_MCVars
=============================================================================
