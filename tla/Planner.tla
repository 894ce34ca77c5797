------------------------------- MODULE Planner -------------------------------
(***************************************************************************)
(* The collision avoidance pipeline of the scripts: k_means_plus clusters  *)
(* a scan, waypoints_gen lays way points around the cluster centers,       *)
(* path_finding finds the shortest path over them and path_handler takes   *)
(* the next point of it as target. Buffers of type lfds_buffers/cyclic_raw *)
(* connect their ports, one buffer for each port, and one or two triggers  *)
(* step them. Main starts the blocks in the order of its script; the       *)
(* clients of webif stop and start the blocks of the pipeline.             *)
(*                                                                         *)
(* A sample carries what it was made from: scan counts the scans and gen   *)
(* the steps of waypoints_gen. Junk stands for an array on the stack that  *)
(* no read filled. The scanner and its buffer are the choice of KMeans.    *)
(* The position ports and moveToPos have no buffer in the script           *)
(* collision_avoidance.lua, and nothing below depends on them.             *)
(***************************************************************************)
EXTENDS Naturals, Sequences, Functions

CONSTANTS
  Scripts,            \* the scripts: [rounds, order, stoppable], see below
  Size,               \* element_num of the buffers
  MaxScans, MaxGens,  \* bounds: scans that arrive, steps of waypoints_gen
  MaxStops,           \* bound: blocks stopped by clients
  Settled             \* rounds without a stop after which plans are recent

VARIABLES
  script,   \* the script that main runs
  running,  \* the blocks in state ACTIVE
  started,  \* number of blocks that main has started
  buf,      \* contents of each buffer, oldest first
  at,       \* the block and the operation that each trigger has come to
  in,       \* the array that the last read of each buffer filled
  out,      \* the sample that each block writes to its ports
  target,   \* inf->moveToPos of path_handler
  scans,    \* number of scans clustered
  gens,     \* number of steps of waypoints_gen
  stops,    \* history: number of stops
  steady,   \* history: whole rounds since the last stop, start or given up round
  lost      \* history: buffers that were written before they were started

planVars ==
  <<script, running, started, buf, at, in, out, target, scans, gens, stops, steady, lost>>

(* The blocks that each trigger steps, in order; the order in which main   *)
(* starts all blocks; the blocks that the clients of webif stop and start. *)
Rounds    == script.rounds
Order     == script.order
Stoppable == script.stoppable

TriggerBlocks == DOMAIN Rounds
Computations == {"k_means_plus", "waypoints_gen", "path_finding", "path_handler"}
Buffers  == {"centers", "nCenters", "wayPoints", "costTable",
             "pathWayPoints", "nValidNodes"}
All      == TriggerBlocks \cup Computations \cup Buffers

(* The ports that each step function reads, then the ones that it writes. *)
Reads == [k_means_plus  |-> <<>>,
          waypoints_gen |-> <<"centers", "nCenters">>,
          path_finding  |-> <<"costTable", "wayPoints">>,
          path_handler  |-> <<"pathWayPoints", "nValidNodes">>]
Writes == [k_means_plus  |-> <<"centers", "nCenters">>,
           waypoints_gen |-> <<"wayPoints", "costTable">>,
           path_finding  |-> <<"nValidNodes", "pathWayPoints">>,
           path_handler  |-> <<>>]

(* The rounds of the scripts: one trigger steps everything, or the scanner *)
(* has a trigger of its own.                                               *)
WholeRound == <<"k_means_plus", "waypoints_gen", "path_finding", "path_handler">>
PlanRound  == <<"waypoints_gen", "path_finding", "path_handler">>
ScanRound  == <<"k_means_plus">>

(* What the constants have to be: a script steps no block by two triggers, *)
(* it starts every buffer, and nobody stops one.                           *)
ScriptsAssumption == \A s \in Scripts :
  /\ DOMAIN s.rounds \cap (Computations \cup Buffers) = {}
  /\ \A t \in DOMAIN s.rounds : s.rounds[t] \in {WholeRound, PlanRound, ScanRound}
  /\ \A t, u \in DOMAIN s.rounds :
       t # u => Range(s.rounds[t]) \cap Range(s.rounds[u]) = {}
  /\ s.order \in Seq(DOMAIN s.rounds \cup Computations \cup Buffers)
  /\ Buffers \subseteq Range(s.order)
  /\ s.stoppable \subseteq DOMAIN s.rounds \cup Computations
SizeAssumption ==
  /\ Size \in Nat \ {0} /\ MaxScans \in Nat /\ MaxGens \in Nat /\ MaxStops \in Nat
  /\ Settled \in Nat /\ Settled >= Size /\ Settled >= 2 * (Size - 1)

Samples == [scan : 0 .. MaxScans, gen : 0 .. MaxGens, route : BOOLEAN]
Junk    == [scan |-> 0, gen |-> 0, route |-> FALSE]
AtRest  == [block |-> 0, op |-> 0]

(* Every variable holds what the code keeps there, no buffer has more than *)
(* its length, and each trigger is at an operation of a block in its list. *)
PlanTypeOK ==
  /\ script \in Scripts
  /\ running \subseteq All
  /\ started \in 0 .. Len(Order)
  /\ buf \in [Buffers -> Seq(Samples)] /\ \A f \in Buffers : Len(buf[f]) <= Size
  /\ at \in [TriggerBlocks -> [block : Nat, op : Nat]]
  /\ \A t \in TriggerBlocks : at[t] = AtRest \/
       /\ at[t].block \in DOMAIN Rounds[t]
       /\ at[t].op \in 1 .. Len(Reads[Rounds[t][at[t].block]]) + 1
                            + Len(Writes[Rounds[t][at[t].block]])
  /\ in \in [Buffers -> Samples] /\ out \in [Computations -> Samples]
  /\ target \in Samples
  /\ scans \in 0 .. MaxScans /\ gens \in 0 .. MaxGens
  /\ stops \in 0 .. MaxStops /\ steady \in 0 .. Settled
  /\ lost \subseteq Buffers

PlanInit ==
  /\ script \in Scripts
  /\ running = {} /\ started = 0
  /\ buf = [f \in Buffers |-> <<>>]
  /\ at = [t \in TriggerBlocks |-> AtRest]
  /\ in = [f \in Buffers |-> Junk] /\ out = [b \in Computations |-> Junk]
  /\ target = Junk
  /\ scans = 0 /\ gens = 0 /\ stops = 0 /\ steady = 0 /\ lost = {}

-----------------------------------------------------------------------------
(***************************************************************************)
(* One step of the pipeline: read the ports, compute, write the ports.     *)
(***************************************************************************)

Block(t) == Rounds[t][at[t].block]
AtRead(t)    == at[t] # AtRest /\ at[t].op \in DOMAIN Reads[Block(t)]
AtCompute(t) == at[t] # AtRest /\ at[t].op = Len(Reads[Block(t)]) + 1
AtWrite(t)   == at[t] # AtRest /\ at[t].op > Len(Reads[Block(t)]) + 1

(* A round begins, or goes on after block i: trigger_steps gives the round *)
(* up at a block that is not active.                                       *)
GoOn(t, i) ==
  IF i < Len(Rounds[t]) /\ Rounds[t][i + 1] \in running
  THEN /\ at' = [at EXCEPT ![t] = [block |-> i + 1, op |-> 1]]
       /\ UNCHANGED steady
  ELSE /\ at' = [at EXCEPT ![t] = AtRest]
       /\ steady' = IF i < Len(Rounds[t]) THEN 0
                    ELSE IF steady < Settled THEN steady + 1 ELSE steady

StartRound(t) ==
  /\ t \in running /\ at[t] = AtRest
  /\ GoOn(t, 0)
  /\ UNCHANGED <<script, running, started, buf, in, out, target, scans, gens, stops, lost>>

(* The operation is done: the next one of the block, or the next block.    *)
NextOp(t) ==
  IF at[t].op <= Len(Reads[Block(t)]) + Len(Writes[Block(t)])
  THEN at' = [at EXCEPT ![t].op = @ + 1] /\ UNCHANGED steady
  ELSE GoOn(t, at[t].block)

(* __port_read: nothing comes from a buffer that is empty or not active.   *)
Received(f) ==
  IF f \in running /\ buf[f] # <<>> THEN <<Head(buf[f]), Tail(buf[f])>>
  ELSE <<Junk, buf[f]>>

ReadPort(t) ==
  /\ AtRead(t)
  /\ LET f == Reads[Block(t)][at[t].op]
     IN  /\ in'  = [in EXCEPT ![f] = Received(f)[1]]
         /\ buf' = [buf EXCEPT ![f] = Received(f)[2]]
  /\ NextOp(t)
  /\ UNCHANGED <<script, running, started, out, target, scans, gens, stops, lost>>

(* Mutants of Sent: a full buffer keeps all; it overwrites its oldest      *)
(* sample in place; one buffer loses a sample too early.                   *)
SentUnbounded(f, v) ==
  IF f \notin running THEN buf[f] ELSE Append(buf[f], v)
SentInPlace(f, v) ==
  IF f \notin running THEN buf[f]
  ELSE IF Len(buf[f]) = Size THEN <<v>> \o Tail(buf[f])
  ELSE Append(buf[f], v)
SentLossy(f, v) ==
  IF f \notin running THEN buf[f]
  ELSE IF f = "costTable" /\ buf[f] # <<>> THEN Append(Tail(buf[f]), v)
  ELSE IF Len(buf[f]) = Size THEN Append(Tail(buf[f]), v)
  ELSE Append(buf[f], v)

(* __port_write and cyclic_write: a buffer that is not active gets nothing *)
(* and a full one loses its oldest sample.                                 *)
Sent(f, v) ==
  IF f \notin running THEN buf[f]
  ELSE IF Len(buf[f]) = Size THEN Append(Tail(buf[f]), v)
  ELSE Append(buf[f], v)

WritePort(t) ==
  /\ AtWrite(t)
  /\ LET b == Block(t)
         f == Writes[b][at[t].op - Len(Reads[b]) - 1]
     IN  /\ buf' = [buf EXCEPT ![f] = Sent(f, out[b])]
         /\ lost' = IF f \in running THEN lost ELSE lost \cup {f}
  /\ NextOp(t)
  /\ UNCHANGED <<script, running, started, in, out, target, scans, gens, stops>>

Computes(t, b) ==
  /\ AtCompute(t) /\ Block(t) = b
  /\ UNCHANGED <<script, running, started, buf, in, stops, lost>>

(* k_means_plus_step: without a scan it returns and writes nothing.        *)
KMeans(t) ==
  /\ Computes(t, "k_means_plus")
  /\ \/ /\ scans < MaxScans
        /\ scans' = scans + 1
        /\ out' = [out EXCEPT !["k_means_plus"].scan = scans']
        /\ NextOp(t)
     \/ /\ GoOn(t, at[t].block)
        /\ UNCHANGED <<scans, out>>
  /\ UNCHANGED <<target, gens>>

(* waypoints_gen_step, whatever came from centerCoordinates.               *)
WaypointsGen(t) ==
  /\ Computes(t, "waypoints_gen") /\ gens < MaxGens
  /\ gens' = gens + 1
  /\ out' = [out EXCEPT !["waypoints_gen"] =
               [scan |-> in["centers"].scan, gen |-> gens', route |-> FALSE]]
  /\ NextOp(t)
  /\ UNCHANGED <<target, scans>>

(* path_finding_step: the shortest path over the way points that were read *)
(* leads to the goal or, without a route, is the goal alone.               *)
FindPath(t) ==
  /\ Computes(t, "path_finding")
  /\ \E route \in BOOLEAN :
       out' = [out EXCEPT !["path_finding"] = [in["wayPoints"] EXCEPT !.route = route]]
  /\ NextOp(t)
  /\ UNCHANGED <<target, scans, gens>>

(* path_handler_step: nValidNodes is initialised to 0. When there is a     *)
(* path, its second point is the target. path_finding did not set it if    *)
(* there was no route, and it may then be INFINITY.                        *)
HandlePath(t) ==
  /\ Computes(t, "path_handler")
  /\ IF in["nValidNodes"] = Junk THEN UNCHANGED target
     ELSE IF in["pathWayPoints"].route THEN target' = in["pathWayPoints"]
     ELSE target' \in {Junk, target}
  /\ NextOp(t)
  /\ UNCHANGED <<out, scans, gens>>

-----------------------------------------------------------------------------
(***************************************************************************)
(* Main and the clients.                                                   *)
(***************************************************************************)

(* The script starts its blocks one after the other.                       *)
Launch ==
  /\ started < Len(Order)
  /\ started' = started + 1
  /\ running' = running \cup {Order[started + 1]} /\ steady' = 0
  /\ UNCHANGED <<script, buf, at, in, out, target, scans, gens, stops, lost>>

(* ubx_block_stop and ubx_block_start of a client of webif. The contents   *)
(* of the buffers stay.                                                    *)
Stop(b) ==
  /\ stops < MaxStops /\ b \in running
  /\ running' = running \ {b} /\ stops' = stops + 1 /\ steady' = 0
  /\ UNCHANGED <<script, started, buf, at, in, out, target, scans, gens, lost>>

Restart(b) ==
  /\ started = Len(Order) /\ b \notin running
  /\ running' = running \cup {b} /\ steady' = 0
  /\ UNCHANGED <<script, started, buf, at, in, out, target, scans, gens, stops, lost>>

PlanNext ==
  \/ Launch
  \/ \E b \in Stoppable : Stop(b) \/ Restart(b)
  \/ \E t \in TriggerBlocks :
       \/ StartRound(t) \/ ReadPort(t) \/ WritePort(t)
       \/ KMeans(t) \/ WaypointsGen(t) \/ FindPath(t) \/ HandlePath(t)

PlanSpec == PlanInit /\ [][PlanNext]_planVars

-----------------------------------------------------------------------------
(***************************************************************************)
(* Properties.                                                             *)
(***************************************************************************)

(* path_finding applies a cost table to the way points of the same step of *)
(* waypoints_gen, and path_handler takes the point out of the path whose   *)
(* length it read: the two buffers between two blocks keep in step through *)
(* overruns, stops and restarts of the blocks, unless a trigger was faster *)
(* than main and a sample for one of the two found no buffer.              *)
Paired ==
  \A t \in TriggerBlocks : AtCompute(t) =>
    /\ Block(t) = "path_finding" /\ lost \cap {"wayPoints", "costTable"} = {} =>
         in["costTable"] = in["wayPoints"]
    /\ Block(t) = "path_handler" /\ lost \cap {"nValidNodes", "pathWayPoints"} = {} =>
         in["nValidNodes"] = in["pathWayPoints"]

(* No plan overtakes another one: along the pipeline, from the target of   *)
(* path_handler back to what waypoints_gen wrote last, plans are in the    *)
(* order of their making, so that the target never goes back to an earlier *)
(* plan, through overruns, stops, restarts and lost samples.               *)
Pipeline ==
  <<target, in["pathWayPoints"]>> \o buf["pathWayPoints"]
    \o <<out["path_finding"], in["wayPoints"]>> \o buf["wayPoints"]
    \o <<out["waypoints_gen"]>>
InOrder ==
  \A i, j \in DOMAIN Pipeline :
    i < j /\ Pipeline[j].gen # 0 => Pipeline[i].gen <= Pipeline[j].gen

(* The buffers between the blocks never drain: what piled up while a block *)
(* was stopped delays every later target. But with one trigger the delay   *)
(* is that of three buffers with one free place each once the pipeline has *)
(* run for some rounds, however old the plans were that the stop left      *)
(* behind. (A plan with scan 0 rests on no scan at all: k_means_plus had   *)
(* none to cluster, or its buffer was not started.)                        *)
RecentPlans ==
  \A t \in TriggerBlocks :
    /\ Rounds[t] = WholeRound /\ started = Len(Order) /\ steady = Settled
    /\ AtCompute(t) /\ Block(t) = "path_handler"
    => /\ in["pathWayPoints"].gen + 2 * (Size - 1) >= gens
       /\ in["pathWayPoints"].scan = 0
            \/ in["pathWayPoints"].scan + 3 * (Size - 1) >= scans

(* Plans stay together, in order and recent (path_finding_step,            *)
(* path_handler_step): the three properties above.                         *)
PlansRight == PlanTypeOK /\ Paired /\ InOrder /\ RecentPlans
=============================================================================
