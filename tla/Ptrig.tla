------------------------------- MODULE Ptrig -------------------------------
(***************************************************************************)
(* Block life cycle (src/ubx.c), node clean-up (src/ubx.c) and the pthread *)
(* based trigger block (std_blocks/ptrig/ptrig.c).                         *)
(*                                                                         *)
(* Two kinds of actors interleave.  The main thread runs the application:  *)
(* it creates blocks, moves them through their life cycle one call at a    *)
(* time and finally calls ubx_node_cleanup.  Each trigger block owns a     *)
(* thread that, while the trigger is active, periodically steps the blocks *)
(* of its trig_blocks configuration.  The only synchronisation is the      *)
(* trigger's mutex and condition variable; block_state is read and written *)
(* without a lock.                                                         *)
(*                                                                         *)
(* A critical section of the mutex contains no other visible step, so it   *)
(* is one action.  A call of ubx_block_{init,start,stop,cleanup} is two    *)
(* actions or more: the hook begins, and the new block_state is written    *)
(* after it returned.  A step hook is two actions, so that anything may    *)
(* happen while it runs.                                                   *)
(***************************************************************************)
EXTENDS Naturals, Sequences

CONSTANTS
  Triggers,      \* the ptrig instances
  Blocks,        \* the computation blocks they step
  TrigBlocks     \* trig_blocks: a trigger's blocks, each num_steps times

ASSUME BlocksAssumption == Triggers \cap Blocks = {}
ASSUME TrigBlocksAssumption == TrigBlocks \in [Triggers -> Seq(Blocks)]

VARIABLES
  order,         \* ni->blocks in iteration (that is: creation) order
  block_state,   \* block_state of every block
  phase,         \* the pass of ubx_node_cleanup, "app" before it is called
  pos,           \* the cursor of the pass's HASH_ITER
  call,          \* the life-cycle call the main thread is in
  private_data,  \* triggers whose struct ptrig_inf is allocated
  inf_state,     \* inf->state
  p_tstats,      \* triggers whose inf->p_tstats is cached
  tstats,        \* triggers whose inf->tstats is initialised
  pc,            \* where the trigger's thread is
  idx,           \* the position of trigger_steps in trig_blocks
  cancelled,     \* triggers whose thread has a pending pthread_cancel
  late           \* history: rounds begun since inf->state left ACTIVE

mainVars   == <<order, block_state, phase, pos, call>>
infVars    == <<private_data, inf_state, p_tstats, tstats>>
threadVars == <<pc, idx, cancelled, late>>
vars       == <<mainVars, infVars, threadVars>>

Instances   == Triggers \cup Blocks
BlockStates == {"PREINIT", "INACTIVE", "ACTIVE"}

(***************************************************************************)
(* What the main thread is doing: nothing, a hook of a block, or one of    *)
(* the later stages of a trigger's hook: pthread_create returned but the   *)
(* statistics are not reset ("init2"), the thread was signalled but the    *)
(* port is not cached ("start2"), waiting in pthread_join ("join").        *)
(***************************************************************************)
Ops   == {"init", "init2", "start", "start2", "stop", "cleanup", "join"}
Idle  == [op |-> "idle"]
Calls == {Idle} \cup [op : Ops, b : Instances]

In(op, b) == call = [op |-> op, b |-> b]
Phases    == {"app", "stop", "cleanup", "rm", "done"}

(***************************************************************************)
(* Where a thread can be: no thread, at the top of the loop, in            *)
(* pthread_cond_wait, past the wait, in trigger_steps before a block, in a *)
(* block's step hook, in clock_nanosleep, ended but not joined.            *)
(***************************************************************************)
Locations == {"none", "loop", "wait", "awake", "round", "step", "sleep", "ended"}

Registered == {order[i] : i \in DOMAIN order}
Listed(t)  == {TrigBlocks[t][i] : i \in DOMAIN TrigBlocks[t]}
Current(t) == TrigBlocks[t][idx[t]]

(* trigger_steps, or the step hook it called, is running. *)
InRound(t)     == pc[t] \in {"round", "step"}
Stepping(t, b) == pc[t] = "step" /\ Current(t) = b

(* The thread exists and may still run code. *)
Running(t) == pc[t] \notin {"none", "ended"}

(* Every variable holds what the code keeps there; a round stays inside     *)
(* the list of steps.                                                      *)
TypeOK ==
  /\ order \in Seq(Instances)
  /\ block_state \in [Instances -> BlockStates]
  /\ phase \in Phases
  /\ pos \in Nat
  /\ call \in Calls
  /\ private_data \in SUBSET Triggers
  /\ inf_state \in [Triggers -> BlockStates]
  /\ p_tstats \in SUBSET Triggers
  /\ tstats \in SUBSET Triggers
  /\ pc \in [Triggers -> Locations]
  /\ idx \in [Triggers -> Nat]
  /\ \A t \in Triggers : pc[t] = "step" => idx[t] \in DOMAIN TrigBlocks[t]
  /\ cancelled \in SUBSET Triggers
  /\ late \in [Triggers -> 0..2]

Init ==
  /\ order = <<>>
  /\ block_state = [b \in Instances |-> "PREINIT"]
  /\ phase = "app"
  /\ pos = 1
  /\ call = Idle
  /\ private_data = {}
  /\ inf_state = [t \in Triggers |-> "PREINIT"]
  /\ p_tstats = {}
  /\ tstats = {}
  /\ pc = [t \in Triggers |-> "none"]
  /\ idx = [t \in Triggers |-> 1]
  /\ cancelled = {}
  /\ late = [t \in Triggers |-> 0]

-----------------------------------------------------------------------------
(***************************************************************************)
(* The main thread: registration and the life cycle of ubx.c.              *)
(***************************************************************************)

(* ubx_block_create appends the clone to the node's hash. *)
Create(b) ==
  /\ phase = "app" /\ call = Idle
  /\ b \notin Registered
  /\ order' = Append(order, b)
  /\ UNCHANGED <<block_state, phase, pos, call, infVars, threadVars>>

Enter(op, from, b) ==
  /\ call = Idle
  /\ b \in Registered
  /\ block_state[b] = from
  /\ call' = [op |-> op, b |-> b]
  /\ UNCHANGED <<order, block_state, infVars, threadVars>>

(* A legal life-cycle call of the application: the check of block_state    *)
(* and the entry into the hook. A call in any other state returns -1.      *)
(* A trigger is started with its trig_blocks configured: it holds pointers *)
(* to blocks, so these exist.                                              *)
AppCall(b) ==
  /\ phase = "app"
  /\ \/ Enter("init", "PREINIT", b)
     \/ Enter("start", "INACTIVE", b) /\ (b \in Triggers => Listed(b) \subseteq Registered)
     \/ Enter("stop", "ACTIVE", b)
     \/ Enter("cleanup", "INACTIVE", b)
  /\ UNCHANGED <<phase, pos>>

(* The hook returned 0 (or void) and block_state is written. *)
Leave(b, to) ==
  /\ call' = Idle
  /\ block_state' = [block_state EXCEPT ![b] = to]
  /\ UNCHANGED <<order, phase, pos>>

(* A hook that may fail did: block_state is left alone. *)
Fail ==
  /\ call' = Idle
  /\ UNCHANGED <<order, block_state, phase, pos>>

(* The end of a computation block's hook; what hooks do is up to the block. *)
BlockHook(b) ==
  /\ \/ In("init", b) /\ (Leave(b, "INACTIVE") \/ Fail)
     \/ In("start", b) /\ (Leave(b, "ACTIVE") \/ Fail)
     \/ In("stop", b) /\ Leave(b, "INACTIVE")
     \/ In("cleanup", b) /\ Leave(b, "PREINIT")
  /\ UNCHANGED <<infVars, threadVars>>

-----------------------------------------------------------------------------
(***************************************************************************)
(* The main thread: the hooks of ptrig.c.                                  *)
(***************************************************************************)

(* Mutant of PtrigInit: inf->state is set ACTIVE instead of INACTIVE. *)
PtrigInitActive(t) ==
  /\ In("init", t)
  /\ private_data' = private_data \cup {t}
  /\ inf_state' = [inf_state EXCEPT ![t] = "ACTIVE"]
  /\ p_tstats' = p_tstats \ {t}
  /\ tstats' = tstats \ {t}
  /\ pc' = [pc EXCEPT ![t] = "loop"]
  /\ idx' = [idx EXCEPT ![t] = 1]
  /\ cancelled' = cancelled \ {t}
  /\ late' = [late EXCEPT ![t] = 0]
  /\ call' = [op |-> "init2", b |-> t]
  /\ UNCHANGED <<order, block_state, phase, pos>>

(* ptrig_init up to pthread_create: calloc zeroes the statistics and the   *)
(* cached port.                                                            *)
PtrigInit(t) ==
  /\ In("init", t)
  /\ private_data' = private_data \cup {t}
  /\ inf_state' = [inf_state EXCEPT ![t] = "INACTIVE"]
  /\ p_tstats' = p_tstats \ {t}
  /\ tstats' = tstats \ {t}
  /\ pc' = [pc EXCEPT ![t] = "loop"]
  /\ idx' = [idx EXCEPT ![t] = 1]
  /\ cancelled' = cancelled \ {t}
  /\ late' = [late EXCEPT ![t] = 0]
  /\ call' = [op |-> "init2", b |-> t]
  /\ UNCHANGED <<order, block_state, phase, pos>>

(* calloc or pthread_create failed; the latter frees what calloc returned. *)
PtrigInitFail(t) ==
  /\ In("init", t)
  /\ Fail
  /\ UNCHANGED <<infVars, threadVars>>

(* ptrig_init after pthread_create: inf->tstats is initialised. *)
PtrigInitTstats(t) ==
  /\ In("init2", t)
  /\ tstats' = tstats \cup {t}
  /\ Leave(t, "INACTIVE")
  /\ UNCHANGED <<private_data, inf_state, p_tstats, threadVars>>

(* Mutant of PtrigStart: the condition variable is not signalled. *)
PtrigStartNoSignal(t) ==
  /\ In("start", t)
  /\ inf_state' = [inf_state EXCEPT ![t] = "ACTIVE"]
  /\ late' = [late EXCEPT ![t] = 0]
  /\ call' = [op |-> "start2", b |-> t]
  /\ UNCHANGED <<order, block_state, phase, pos, private_data, p_tstats, tstats,
                 pc, idx, cancelled>>

(* ptrig_start up to the unlock: inf->state is set and the thread woken. *)
PtrigStart(t) ==
  /\ In("start", t)
  /\ inf_state' = [inf_state EXCEPT ![t] = "ACTIVE"]
  /\ pc' = [pc EXCEPT ![t] = IF @ = "wait" THEN "loop" ELSE @]
  /\ late' = [late EXCEPT ![t] = 0]
  /\ call' = [op |-> "start2", b |-> t]
  /\ UNCHANGED <<order, block_state, phase, pos, private_data, p_tstats, tstats,
                 idx, cancelled>>

(* ptrig_start after the unlock: the tstats port is cached. *)
PtrigStartPort(t) ==
  /\ In("start2", t)
  /\ p_tstats' = p_tstats \cup {t}
  /\ Leave(t, "ACTIVE")
  /\ UNCHANGED <<private_data, inf_state, tstats, threadVars>>

(* ptrig_stop does not wait for the round the thread may be in. *)
PtrigStop(t) ==
  /\ In("stop", t)
  /\ inf_state' = [inf_state EXCEPT ![t] = "INACTIVE"]
  /\ late' = [late EXCEPT ![t] = 0]
  /\ Leave(t, "INACTIVE")
  /\ UNCHANGED <<private_data, p_tstats, tstats, pc, idx, cancelled>>

(* Mutant of PtrigCancel: the thread is not cancelled before the join. *)
PtrigCancelNot(t) ==
  /\ In("cleanup", t)
  /\ inf_state' = [inf_state EXCEPT ![t] = "PREINIT"]
  /\ call' = [op |-> "join", b |-> t]
  /\ UNCHANGED <<order, block_state, phase, pos, private_data, p_tstats, tstats,
                 threadVars>>

(* ptrig_cleanup up to the pthread_cancel. *)
PtrigCancel(t) ==
  /\ In("cleanup", t)
  /\ inf_state' = [inf_state EXCEPT ![t] = "PREINIT"]
  /\ cancelled' = cancelled \cup {t}
  /\ call' = [op |-> "join", b |-> t]
  /\ UNCHANGED <<order, block_state, phase, pos, private_data, p_tstats, tstats,
                 pc, idx, late>>

(* Mutant of PtrigJoin: a detached thread, for which nobody waits. *)
PtrigJoinDetached(t) ==
  /\ In("join", t)
  /\ private_data' = private_data \ {t}
  /\ Leave(t, "PREINIT")
  /\ UNCHANGED <<inf_state, p_tstats, tstats, threadVars>>

(* ptrig_cleanup from the return of pthread_join on: inf is freed. *)
PtrigJoin(t) ==
  /\ In("join", t)
  /\ pc[t] = "ended"
  /\ pc' = [pc EXCEPT ![t] = "none"]
  /\ private_data' = private_data \ {t}
  /\ cancelled' = cancelled \ {t}
  /\ Leave(t, "PREINIT")
  /\ UNCHANGED <<inf_state, p_tstats, tstats, idx, late>>

TriggerHook(t) ==
  \/ PtrigInit(t) \/ PtrigInitFail(t) \/ PtrigInitTstats(t)
  \/ PtrigStart(t) \/ PtrigStartPort(t)
  \/ PtrigStop(t)
  \/ PtrigCancel(t) \/ PtrigJoin(t)

-----------------------------------------------------------------------------
(***************************************************************************)
(* The main thread: ubx_node_cleanup, three passes over ni->blocks.        *)
(***************************************************************************)
NodeCleanup ==
  /\ phase = "app" /\ call = Idle
  /\ phase' = "stop"
  /\ pos' = 1
  /\ UNCHANGED <<order, block_state, call, infVars, threadVars>>

(* One iteration of the stop or clean-up pass: call the operation on a     *)
(* block that is in the state it requires, skip any other.                 *)
Visit(pass, from) ==
  /\ phase = pass /\ call = Idle
  /\ pos \in DOMAIN order
  /\ pos' = pos + 1
  /\ \/ Enter(pass, from, order[pos])
     \/ /\ block_state[order[pos]] # from
        /\ UNCHANGED <<order, block_state, call, infVars, threadVars>>
  /\ UNCHANGED phase

NextPass(pass, next) ==
  /\ phase = pass /\ call = Idle
  /\ pos \notin DOMAIN order
  /\ phase' = next
  /\ pos' = 1
  /\ UNCHANGED <<order, block_state, call, infVars, threadVars>>

(* The rm pass: ubx_block_rm unregisters and frees a PREINIT instance.     *)
(* Every instance is one when the pass begins (PassInv in TriggerProofs), so *)
(* none is refused and the pass takes the first until none is left.        *)
RmBlock ==
  /\ phase = "rm"
  /\ order # <<>>
  /\ block_state[Head(order)] = "PREINIT"
  /\ order' = Tail(order)
  /\ UNCHANGED <<block_state, phase, pos, call, infVars, threadVars>>

RmDone ==
  /\ phase = "rm"
  /\ order = <<>>
  /\ phase' = "done"
  /\ UNCHANGED <<order, block_state, pos, call, infVars, threadVars>>

(* Mutant of CleanupPass: blocks are removed right after they were stopped. *)
CleanupPassNoCleanup ==
  \/ Visit("stop", "ACTIVE")
  \/ NextPass("stop", "rm")
  \/ RmBlock
  \/ RmDone

CleanupPass ==
  \/ Visit("stop", "ACTIVE")
  \/ NextPass("stop", "cleanup")
  \/ Visit("cleanup", "INACTIVE")
  \/ NextPass("cleanup", "rm")
  \/ RmBlock
  \/ RmDone

-----------------------------------------------------------------------------
(***************************************************************************)
(* The trigger's thread (thread_startup).                                  *)
(***************************************************************************)
Goto(t, l) == pc' = [pc EXCEPT ![t] = l]

(* The critical section: go on if the trigger is active, else wait. *)
CheckActive(t) ==
  /\ pc[t] = "loop"
  /\ Goto(t, IF inf_state[t] = "ACTIVE" THEN "awake" ELSE "wait")
  /\ UNCHANGED <<mainVars, infVars, idx, cancelled, late>>

(* Mutant of SpuriousWakeup: the wait is guarded by an if, not by a while. *)
SpuriousWakeupIf(t) ==
  /\ pc[t] = "wait" /\ t \notin cancelled
  /\ Goto(t, "awake")
  /\ UNCHANGED <<mainVars, infVars, idx, cancelled, late>>

(* pthread_cond_wait may return without a signal; the loop checks again. *)
SpuriousWakeup(t) ==
  /\ pc[t] = "wait" /\ t \notin cancelled
  /\ Goto(t, "loop")
  /\ UNCHANGED <<mainVars, infVars, idx, cancelled, late>>

(* clock_gettime succeeded and trigger_steps is called. *)
BeginRound(t) ==
  /\ pc[t] = "awake"
  /\ Goto(t, "round")
  /\ idx' = [idx EXCEPT ![t] = 1]
  /\ late' = [late EXCEPT ![t] = IF inf_state[t] # "ACTIVE" /\ @ < 2 THEN @ + 1 ELSE @]
  /\ UNCHANGED <<mainVars, infVars, cancelled>>

(* clock_gettime or clock_nanosleep failed: the thread exits for good. *)
TimeFails(t) ==
  /\ pc[t] \in {"awake", "sleep"}
  /\ Goto(t, "ended")
  /\ UNCHANGED <<mainVars, infVars, idx, cancelled, late>>

(* Mutant of BeginStep: a block that was initialised is stepped as well. *)
BeginStepInactive(t) ==
  /\ pc[t] = "round" /\ idx[t] \in DOMAIN TrigBlocks[t]
  /\ block_state[Current(t)] # "PREINIT" \/ Current(t) \notin Registered
  /\ Goto(t, "step")
  /\ UNCHANGED <<mainVars, infVars, idx, cancelled, late>>

(* ubx_cblock_step: the check of block_state passes and the step hook is   *)
(* entered. The memory of a removed block may hold anything.               *)
BeginStep(t) ==
  /\ pc[t] = "round" /\ idx[t] \in DOMAIN TrigBlocks[t]
  /\ block_state[Current(t)] = "ACTIVE" \/ Current(t) \notin Registered
  /\ Goto(t, "step")
  /\ UNCHANGED <<mainVars, infVars, idx, cancelled, late>>

(* ubx_cblock_step refuses the block: trigger_steps gives up the round. *)
RefuseStep(t) ==
  /\ pc[t] = "round" /\ idx[t] \in DOMAIN TrigBlocks[t]
  /\ block_state[Current(t)] # "ACTIVE"
  /\ Goto(t, "sleep")
  /\ UNCHANGED <<mainVars, infVars, idx, cancelled, late>>

(* Mutant of EndStep: the next block is stepped without the loop's bound   *)
(* check.                                                                  *)
EndStepUnbounded(t) ==
  /\ pc[t] = "step"
  /\ idx' = [idx EXCEPT ![t] = @ + 1]
  /\ UNCHANGED <<mainVars, infVars, pc, cancelled, late>>

EndStep(t) ==
  /\ pc[t] = "step"
  /\ Goto(t, "round")
  /\ idx' = [idx EXCEPT ![t] = @ + 1]
  /\ UNCHANGED <<mainVars, infVars, cancelled, late>>

(* All blocks were stepped: update the statistics, write them to the port. *)
EndRound(t) ==
  /\ pc[t] = "round" /\ idx[t] \notin DOMAIN TrigBlocks[t]
  /\ Goto(t, "sleep")
  /\ UNCHANGED <<mainVars, infVars, idx, cancelled, late>>

(* clock_nanosleep returned. *)
EndSleep(t) ==
  /\ pc[t] = "sleep"
  /\ Goto(t, "loop")
  /\ UNCHANGED <<mainVars, infVars, idx, cancelled, late>>

(* Deferred cancellation takes effect in pthread_cond_wait and             *)
(* clock_nanosleep.                                                        *)
Cancel(t) ==
  /\ t \in cancelled
  /\ pc[t] \in {"wait", "sleep"}
  /\ Goto(t, "ended")
  /\ UNCHANGED <<mainVars, infVars, idx, cancelled, late>>

(* It may also take effect inside a step hook that does I/O. *)
CancelInStep(t) ==
  /\ t \in cancelled
  /\ pc[t] = "step"
  /\ Goto(t, "ended")
  /\ UNCHANGED <<mainVars, infVars, idx, cancelled, late>>

(* What the thread does unless the scheduler never runs it. *)
ThreadStep(t) ==
  \/ CheckActive(t) \/ BeginRound(t)
  \/ BeginStep(t) \/ RefuseStep(t) \/ EndStep(t) \/ EndRound(t)
  \/ EndSleep(t) \/ Cancel(t)

Thread(t) == ThreadStep(t) \/ SpuriousWakeup(t) \/ TimeFails(t) \/ CancelInStep(t)

-----------------------------------------------------------------------------
(* A call, once entered, and ubx_node_cleanup, once called, are carried on. *)
MainStep ==
  \/ \E b \in Blocks : BlockHook(b)
  \/ \E t \in Triggers : TriggerHook(t)
  \/ CleanupPass

Next ==
  \/ \E b \in Instances : Create(b) \/ AppCall(b)
  \/ NodeCleanup
  \/ MainStep
  \/ \E t \in Triggers : Thread(t)

Spec == Init /\ [][Next]_vars

(* Hooks return, and the scheduler runs every thread. *)
Fairness == WF_vars(MainStep) /\ \A t \in Triggers : WF_vars(ThreadStep(t))

FairSpec == Spec /\ Fairness
-----------------------------------------------------------------------------
(***************************************************************************)
(* Properties.                                                             *)
(***************************************************************************)

(* A trigger's thread runs only while the struct ptrig_inf it uses is      *)
(* allocated, and none is left behind once the trigger is PREINIT and no   *)
(* call on it is in progress: ptrig_cleanup joins before it frees.         *)
ThreadOwnsPrivateData ==
  \A t \in Triggers :
    /\ Running(t) => t \in private_data
    /\ block_state[t] = "PREINIT" /\ (call = Idle \/ call.b # t) => pc[t] = "none"

(* From the moment a trigger's thread was admitted to a round on, every    *)
(* block it may step is registered: ubx_node_cleanup frees no block that a *)
(* thread can still reach.                                                 *)
NoStepAfterFree ==
  \A t \in Triggers :
    pc[t] = "awake" \/ InRound(t) => Listed(t) \subseteq Registered

(* ubx_node_cleanup never runs the cleanup hook of a block that a trigger  *)
(* created before it is stepping: that trigger was joined earlier in the   *)
(* same pass. (For a trigger created later see NoStepDuringNodeCleanup.)   *)
TeardownInOrder ==
  \A i, j \in DOMAIN order :
    /\ i < j
    /\ order[i] \in Triggers
    /\ phase = "cleanup"
    /\ In("cleanup", order[j])
    => ~ Stepping(order[i], order[j])

(* After ptrig_stop or ptrig_cleanup changed inf->state, the thread begins *)
(* at most one more round: the one it had already been admitted to.        *)
AtMostOneLateRound ==
  \A t \in Triggers : late[t] <= 1

(* A round runs only with initialised statistics, and its statistics can   *)
(* get lost for want of the cached port only while ubx_block_start of the  *)
(* trigger has not returned.                                               *)
StatsReady ==
  \A t \in Triggers :
    InRound(t) => t \in tstats /\ (t \in p_tstats \/ In("start2", t))

(* A step hook is entered only after the block's start hook returned, and  *)
(* never while its init or cleanup hook runs; only stop may overlap.       *)
StepAfterStart ==
  [][\A t \in Triggers :
       pc[t] = "round" /\ pc'[t] = "step"
       => ~ \E op \in {"init", "start", "cleanup"} : In(op, Current(t))]_vars

(* doc/manual.md has the hooks, step among them, called "according to the  *)
(* microblx block life-cycle finite state machine": ubx_node_cleanup, which*)
(* stops all triggers first, should not clean up a block during its step.  *)
(* The code does not ensure it: ptrig_stop does not wait for the round.    *)
NoStepDuringNodeCleanup ==
  \A t \in Triggers, b \in Blocks :
    phase = "cleanup" /\ In("cleanup", b) => ~ Stepping(t, b)

(* ubx_node_cleanup, once called, ends, wherever the threads are.          *)
NodeCleanupEnds == phase = "stop" ~> phase = "done"

(* A trigger that stays active, with blocks that stay active, steps each   *)
(* entry of its list again and again: no wake-up is lost. (A thread whose  *)
(* clock or sleep call failed has exited, and nobody notices.)             *)
SteadyTriggerSteps ==
  \A t \in Triggers : \A i \in DOMAIN TrigBlocks[t] :
    <>[](pc[t] # "ended" /\ \A b \in Listed(t) \cup {t} : block_state[b] = "ACTIVE")
    => []<>(pc[t] = "step" /\ idx[t] = i)
=============================================================================
