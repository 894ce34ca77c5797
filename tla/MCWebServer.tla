---------------------------- MODULE MCWebServer ----------------------------
(***************************************************************************)
(* The threads that blocks start and that a node has to end. One worker of *)
(* the web server for four connections and a ring of two places, which     *)
(* wraps and fills; the block is started up to two times ("server"). And a *)
(* trigger with two blocks, whose node is used and cleaned up ("trigger"). *)
(* The variable part says which of them a behaviour runs; the other one    *)
(* stays in its initial state.                                             *)
(***************************************************************************)
EXTENDS WebServer, TLC

CONSTANTS w1, t1, b1, b2
OneWorker == {w1}

VARIABLES part, order, block_state, phase, pos, call, private_data, inf_state,
          p_tstats, tstats, pc, idx, cancelled, late
ptrigVars == <<order, block_state, phase, pos, call, private_data, inf_state,
               p_tstats, tstats, pc, idx, cancelled, late>>

Node == INSTANCE Ptrig WITH
  Triggers <- {t1}, Blocks <- {b1, b2}, TrigBlocks <- t1 :> <<b1, b2>>
ASSUME Node!BlocksAssumption /\ Node!TrigBlocksAssumption

Server(A)  == part = "server" /\ A /\ UNCHANGED <<part, ptrigVars>>
Trigger(A) == part = "trigger" /\ A /\ UNCHANGED <<part, vars>>

MCInit == part \in {"server", "trigger"} /\ Init /\ Node!Init
MCNext == Server(Next) \/ Trigger(Node!Next)
MCVars == <<part, vars, ptrigVars>>

(* The fairness of the two modules.                                        *)
MCSpec ==
  /\ MCInit /\ [][MCNext]_MCVars
  /\ WF_MCVars(Server(MgStopReturns)) /\ WF_MCVars(Server(MasterStep))
  /\ \A w \in Workers : WF_MCVars(Server(WorkerStep(w)))
  /\ WF_MCVars(Trigger(Node!MainStep)) /\ WF_MCVars(Trigger(Node!ThreadStep(t1)))

(* A connection in the ring is served or the block is stopped, and the     *)
(* stop returns, but for the wake-up that mg_stop may lose and the stop    *)
(* that a page asks for (worker_thread, master_thread, mg_stop).           *)
ServedAndStopped == Served /\ StopReturns

(* ubx_node_cleanup of a node with a trigger comes to its end (ubx.c), and *)
(* a trigger left alone goes on stepping its blocks (ptrig.c).             *)
NodeProgress == Node!NodeCleanupEnds /\ Node!SteadyTriggerSteps
=============================================================================
