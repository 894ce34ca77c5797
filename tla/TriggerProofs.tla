--------------------------- MODULE TriggerProofs ---------------------------
(***************************************************************************)
(* Proofs about what triggers step.  Ptrig, the trigger with a thread: its *)
(* safety properties hold for every set of triggers and blocks and every   *)
(* trig_blocks configuration.  TypeOK is inductive; the others follow from *)
(* IInv, the conjunction of the four named parts below.  Trig, the passive *)
(* trigger: the arithmetic of timespecs and the statistics it keeps with   *)
(* them are right for every length of a second, every list and every clock.*)
(* Planner, the pipeline under its triggers: plans stay together, in order *)
(* and recent for every length of the buffers; PlanInv is inductive.       *)
(***************************************************************************)
EXTENDS Ptrig, Trig, Planner, TLAPS

(***************************************************************************)
(* Ptrig.                                                                  *)
(***************************************************************************)
(* The call in progress acts on a registered block, in the state the call  *)
(* requires, and is one that the current pass makes.                       *)
CallInv ==
  /\ call # Idle => call.b \in Registered
  /\ \A b \in Instances :
       /\ In("init", b) \/ In("init2", b) => block_state[b] = "PREINIT"
       /\ In("start", b) \/ In("start2", b) => block_state[b] = "INACTIVE"
       /\ In("stop", b) => block_state[b] = "ACTIVE"
       /\ In("cleanup", b) \/ In("join", b) => block_state[b] = "INACTIVE"
       /\ In("init2", b) \/ In("start2", b) \/ In("join", b) => b \in Triggers
  /\ \A b \in Instances : b \notin Registered => block_state[b] = "PREINIT"

(* How far ubx_node_cleanup got. *)
PassInv ==
  /\ pos >= 1
  /\ \A i, j \in DOMAIN order : order[i] = order[j] => i = j
  /\ phase \in {"stop", "cleanup"} /\ call # Idle
     => /\ pos \in Nat \ {0, 1}
        /\ pos - 1 \in DOMAIN order
        /\ call.b = order[pos - 1]
  /\ phase = "stop" =>
       /\ \A b \in Instances : call # Idle => call = [op |-> "stop", b |-> call.b]
       /\ \A i \in DOMAIN order :
            i < pos => block_state[order[i]] # "ACTIVE" \/ In("stop", order[i])
  /\ phase = "cleanup" =>
       /\ call # Idle => call.op \in {"cleanup", "join"}
       /\ \A b \in Instances : block_state[b] # "ACTIVE"
       /\ \A i \in DOMAIN order :
            i < pos => \/ block_state[order[i]] = "PREINIT"
                       \/ In("cleanup", order[i]) \/ In("join", order[i])
  /\ phase \in {"rm", "done"} =>
       /\ call = Idle
       /\ \A b \in Instances : block_state[b] = "PREINIT"

(* A thread exists from pthread_create to pthread_join. *)
ThreadInv ==
  \A t \in Triggers :
    /\ pc[t] = "none" <=> block_state[t] = "PREINIT" /\ ~ In("init2", t)
    /\ t \in private_data <=> pc[t] # "none"
    /\ inf_state[t] = "ACTIVE" => block_state[t] = "ACTIVE" \/ In("start2", t)

(* What holds while a thread is, or may still be, admitted to a round. *)
Admitted(t) == inf_state[t] = "ACTIVE" \/ pc[t] = "awake"

RoundReady(t) ==
  /\ late[t] <= 1
  /\ Admitted(t) => late[t] = 0
  /\ block_state[t] # "PREINIT" => t \in tstats
  /\ Admitted(t) \/ InRound(t) =>
       /\ t \in tstats
       /\ t \in p_tstats \/ In("start2", t)
       /\ Listed(t) \subseteq Registered
  /\ In("start", t) => Listed(t) \subseteq Registered

RoundInv == \A t \in Triggers : RoundReady(t)

IInv == CallInv /\ PassInv /\ ThreadInv /\ RoundInv

-----------------------------------------------------------------------------
(* The types of the constants, and the actions, unfolded one level. *)
LEMMA ListTypes ==
  ASSUME NEW t \in Triggers
  PROVE  /\ TrigBlocks[t] \in Seq(Blocks)
         /\ Listed(t) \subseteq Blocks
         /\ t \in Instances /\ t \notin Blocks
BY BlocksAssumption, TrigBlocksAssumption DEF Listed, Instances

(* Every state is well typed. *)
THEOREM TypeCorrect == Spec => []TypeOK
<1> USE DEF TypeOK, Instances, BlockStates, Phases, Calls, Ops, Idle, Locations
<1>1. Init => TypeOK
  BY DEF Init
<1>2. TypeOK /\ [Next]_vars => TypeOK'
  <2> SUFFICES ASSUME TypeOK, [Next]_vars
               PROVE  TypeOK'
    OBVIOUS
  <2> USE BlocksAssumption, TrigBlocksAssumption
  <2>1. ASSUME NEW b \in Instances, Create(b)
        PROVE  TypeOK'
    BY <2>1 DEF Create, infVars, threadVars
  <2>2. ASSUME NEW b \in Instances, AppCall(b)
        PROVE  TypeOK'
    BY <2>2 DEF AppCall, Enter, infVars, threadVars
  <2>3. CASE NodeCleanup
    BY <2>3 DEF NodeCleanup, infVars, threadVars
  <2>4. ASSUME NEW b \in Blocks, BlockHook(b)
        PROVE  TypeOK'
    BY <2>4 DEF BlockHook, Leave, Fail, infVars, threadVars
  <2>5. ASSUME NEW t \in Triggers, TriggerHook(t)
        PROVE  TypeOK'
    <3>1. CASE PtrigInit(t)
      BY <3>1 DEF PtrigInit
    <3>2. CASE PtrigInitFail(t)
      BY <3>2 DEF PtrigInitFail, Fail, infVars, threadVars
    <3>3. CASE PtrigInitTstats(t)
      BY <3>3 DEF PtrigInitTstats, Leave, threadVars
    <3>4. CASE PtrigStart(t)
      BY <3>4 DEF PtrigStart
    <3>5. CASE PtrigStartPort(t)
      BY <3>5 DEF PtrigStartPort, Leave, threadVars
    <3>6. CASE PtrigStop(t)
      BY <3>6 DEF PtrigStop, Leave
    <3>7. CASE PtrigCancel(t)
      BY <3>7 DEF PtrigCancel
    <3>8. CASE PtrigJoin(t)
      BY <3>8 DEF PtrigJoin, Leave
    <3>9. QED
      BY <2>5, <3>1, <3>2, <3>3, <3>4, <3>5, <3>6, <3>7, <3>8 DEF TriggerHook
  <2>6. CASE CleanupPass
    <3>1. ASSUME NEW pass \in {"stop", "cleanup"}, NEW from \in BlockStates,
                 Visit(pass, from)
          PROVE  TypeOK'
      BY <3>1 DEF Visit, Enter, infVars, threadVars
    <3>2. ASSUME NEW pass \in Phases, NEW next \in Phases, NextPass(pass, next)
          PROVE  TypeOK'
      BY <3>2 DEF NextPass, infVars, threadVars
    <3>3. CASE RmBlock
      BY <3>3 DEF RmBlock, infVars, threadVars
    <3>4. CASE RmDone
      BY <3>4 DEF RmDone, infVars, threadVars
    <3>5. QED
      BY <2>6, <3>1, <3>2, <3>3, <3>4 DEF CleanupPass
  <2>7. ASSUME NEW t \in Triggers, Thread(t)
        PROVE  TypeOK'
    <3> USE DEF Goto, mainVars, infVars
    <3>1. CASE CheckActive(t) \/ SpuriousWakeup(t) \/ TimeFails(t)
      BY <3>1 DEF CheckActive, SpuriousWakeup, TimeFails
    <3>2. CASE BeginRound(t)
      BY <3>2 DEF BeginRound
    <3>3. CASE BeginStep(t) \/ RefuseStep(t)
      BY <3>3 DEF BeginStep, RefuseStep
    <3>4. CASE EndStep(t)
      BY <3>4 DEF EndStep
    <3>5. CASE EndRound(t) \/ EndSleep(t) \/ Cancel(t) \/ CancelInStep(t)
      BY <3>5 DEF EndRound, EndSleep, Cancel, CancelInStep
    <3>6. QED
      BY <2>7, <3>1, <3>2, <3>3, <3>4, <3>5 DEF Thread, ThreadStep
  <2>8. CASE UNCHANGED vars
    BY <2>8 DEF vars, mainVars, infVars, threadVars
  <2>9. QED
    BY <2>1, <2>2, <2>3, <2>4, <2>5, <2>6, <2>7, <2>8 DEF Next, MainStep
<1>3. QED
  BY <1>1, <1>2, PTL DEF Spec

-----------------------------------------------------------------------------
(* The thread touches neither the node nor a life-cycle call. *)
LEMMA ThreadFrame ==
  ASSUME NEW t \in Triggers, Thread(t)
  PROVE  UNCHANGED <<mainVars, infVars>>
BY DEF Thread, ThreadStep, CheckActive, SpuriousWakeup, BeginRound, TimeFails,
       BeginStep, RefuseStep, EndStep, EndRound, EndSleep, Cancel, CancelInStep

(* What appending to and removing from the node's blocks registers. *)
LEMMA RegisteredAppend ==
  ASSUME TypeOK, NEW b \in Instances, order' = Append(order, b)
  PROVE  Registered' = Registered \cup {b}
<1>1. /\ DOMAIN order = 1..Len(order)
      /\ DOMAIN order' = DOMAIN order \cup {Len(order) + 1}
  BY DEF TypeOK
<1>2. \A i \in DOMAIN order : order'[i] = order[i]
  BY DEF TypeOK
<1>3. order'[Len(order) + 1] = b
  BY DEF TypeOK
<1>4. Registered' = {order'[i] : i \in DOMAIN order'}
  BY DEF Registered
<1>5. ASSUME NEW x \in Registered'
      PROVE  x \in Registered \cup {b}
  BY <1>1, <1>2, <1>3, <1>4 DEF Registered
<1>6. ASSUME NEW x \in Registered \cup {b}
      PROVE  x \in Registered'
  <2>1. CASE x = b
    BY <1>1, <1>3, <1>4, <2>1
  <2>2. CASE x \in Registered
    <3>1. PICK i \in DOMAIN order : x = order[i]
      BY <2>2 DEF Registered
    <3>2. QED
      BY <1>1, <1>2, <1>4, <3>1
  <2>3. QED
    BY <2>1, <2>2
<1>7. QED
  BY <1>5, <1>6

(* An entry of the node's blocks is a registered instance. *)
LEMMA EntryRegistered ==
  ASSUME TypeOK, NEW i \in DOMAIN order
  PROVE  order[i] \in Registered /\ order[i] \in Instances
BY DEF TypeOK, Registered

(* CallInv is inductive. *)
LEMMA CallInvStep ==
  ASSUME TypeOK, CallInv, PassInv, [Next]_vars
  PROVE  CallInv'
<1> USE BlocksAssumption DEF In, Idle, CallInv
<1>1. ASSUME NEW b \in Instances, Create(b)
      PROVE  CallInv'
  BY <1>1, RegisteredAppend DEF Create, infVars, threadVars
<1>2. ASSUME NEW b \in Instances, AppCall(b)
      PROVE  CallInv'
  BY <1>2 DEF AppCall, Enter, Registered
<1>3. CASE NodeCleanup
  BY <1>3 DEF NodeCleanup, Registered
<1>4. ASSUME NEW b \in Blocks, BlockHook(b)
      PROVE  CallInv'
  BY <1>4 DEF BlockHook, Leave, Fail, Registered, TypeOK, Instances
<1>5. ASSUME NEW t \in Triggers, TriggerHook(t)
      PROVE  CallInv'
  <2> t \in Instances
    BY DEF Instances
  <2>1. CASE PtrigInit(t)
    BY <2>1 DEF PtrigInit, Registered
  <2>2. CASE PtrigInitFail(t)
    BY <2>2 DEF PtrigInitFail, Fail, Registered
  <2>3. CASE PtrigInitTstats(t)
    BY <2>3 DEF PtrigInitTstats, Leave, Registered, TypeOK
  <2>4. CASE PtrigStart(t)
    BY <2>4 DEF PtrigStart, Registered
  <2>5. CASE PtrigStartPort(t)
    BY <2>5 DEF PtrigStartPort, Leave, Registered, TypeOK
  <2>6. CASE PtrigStop(t)
    BY <2>6 DEF PtrigStop, Leave, Registered, TypeOK
  <2>7. CASE PtrigCancel(t)
    BY <2>7 DEF PtrigCancel, Registered
  <2>8. CASE PtrigJoin(t)
    BY <2>8 DEF PtrigJoin, Leave, Registered, TypeOK
  <2>9. QED
    BY <1>5, <2>1, <2>2, <2>3, <2>4, <2>5, <2>6, <2>7, <2>8 DEF TriggerHook
<1>6. CASE CleanupPass
  <2>1. ASSUME NEW pass, NEW from, Visit(pass, from),
               \/ pass = "stop" /\ from = "ACTIVE"
               \/ pass = "cleanup" /\ from = "INACTIVE"
        PROVE  CallInv'
    BY <2>1, EntryRegistered DEF Visit, Enter, Registered
  <2>2. ASSUME NEW pass, NEW next, NextPass(pass, next)
        PROVE  CallInv'
    BY <2>2 DEF NextPass, Registered
  <2>3. CASE RmBlock
    BY <2>3 DEF RmBlock, PassInv
  <2>4. CASE RmDone
    BY <2>4 DEF RmDone, Registered
  <2>5. QED
    BY <1>6, <2>1, <2>2, <2>3, <2>4 DEF CleanupPass
<1>7. ASSUME NEW t \in Triggers, Thread(t)
      PROVE  CallInv'
  BY <1>7, ThreadFrame DEF mainVars, Registered
<1>8. CASE UNCHANGED vars
  BY <1>8 DEF vars, mainVars, Registered
<1>9. QED
  BY <1>1, <1>2, <1>3, <1>4, <1>5, <1>6, <1>7, <1>8 DEF Next, MainStep

(* The end of a call in the order of the passes: what PassInv says of the  *)
(* new state when the hook of b returned and b is now in state to.         *)
LEMMA LeavePass ==
  ASSUME TypeOK, CallInv, PassInv,
         NEW b \in Instances, NEW to \in BlockStates, Leave(b, to),
         call # Idle, call.b = b,
         phase = "stop" => to = "INACTIVE",
         phase = "cleanup" => to = "PREINIT"
  PROVE  PassInv'
<1> USE DEF In, Idle
<1>1. /\ order' = order /\ phase' = phase /\ pos' = pos /\ call' = Idle
      /\ block_state'[b] = to
      /\ \A c \in Instances : c # b => block_state'[c] = block_state[c]
  BY DEF Leave, TypeOK
<1>2. \A i \in DOMAIN order : order[i] \in Instances
  BY DEF TypeOK
<1>3. (\A i, j \in DOMAIN order : order[i] = order[j] => i = j)'
  BY <1>1 DEF PassInv
<1>4. CASE phase = "stop"
  BY <1>1, <1>2, <1>3, <1>4 DEF PassInv
<1>5. CASE phase = "cleanup"
  BY <1>1, <1>2, <1>3, <1>5 DEF PassInv
<1>6. CASE phase \in {"rm", "done", "app"}
  BY <1>1, <1>2, <1>3, <1>6 DEF PassInv
<1>7. QED
  BY <1>4, <1>5, <1>6 DEF TypeOK, Phases

(* PassInv is inductive: a call that ends leaves the block of the last     *)
(* visit, and only that block, in the state its pass is after.             *)
LEMMA PassInvStep ==
  ASSUME TypeOK, CallInv, PassInv, [Next]_vars
  PROVE  PassInv'
<1> USE BlocksAssumption DEF In, Idle
<1>0. /\ pos \in Nat
      /\ \A i \in DOMAIN order : order[i] \in Instances
  BY DEF TypeOK
<1>1. ASSUME NEW b \in Instances, Create(b)
      PROVE  PassInv'
  <2>1. /\ DOMAIN order' = DOMAIN order \cup {Len(order) + 1}
        /\ \A i \in DOMAIN order : order'[i] = order[i]
        /\ order'[Len(order) + 1] = b
    BY <1>1 DEF Create, TypeOK
  <2>2. \A i \in DOMAIN order : order[i] # b
    BY <1>1 DEF Create, Registered
  <2>3. QED
    BY <1>1, <2>1, <2>2 DEF Create, PassInv
<1>2. ASSUME NEW b \in Instances, AppCall(b)
      PROVE  PassInv'
  BY <1>2 DEF AppCall, Enter, PassInv
<1>3. CASE NodeCleanup
  BY <1>3 DEF NodeCleanup, PassInv, TypeOK
<1>4. ASSUME NEW b \in Blocks, BlockHook(b)
      PROVE  PassInv'
  <2> b \in Instances
    BY DEF Instances
  <2>1. CASE call.op \in {"init", "start"} /\ call # Idle
    BY <1>4, <2>1 DEF BlockHook, Leave, Fail, PassInv
  <2>2. CASE In("stop", b) \/ In("cleanup", b)
    BY <1>4, <2>2, LeavePass DEF BlockHook, PassInv, BlockStates
  <2>3. QED
    BY <1>4, <2>1, <2>2 DEF BlockHook
<1>5. ASSUME NEW t \in Triggers, TriggerHook(t)
      PROVE  PassInv'
  <2> t \in Instances
    BY DEF Instances
  <2>1. CASE PtrigInit(t)
    BY <2>1 DEF PtrigInit, PassInv
  <2>2. CASE PtrigInitFail(t)
    BY <2>2 DEF PtrigInitFail, Fail, PassInv
  <2>3. CASE PtrigInitTstats(t)
    BY <2>3 DEF PtrigInitTstats, Leave, PassInv
  <2>4. CASE PtrigStart(t)
    BY <2>4 DEF PtrigStart, PassInv
  <2>5. CASE PtrigStartPort(t)
    BY <2>5 DEF PtrigStartPort, Leave, PassInv
  <2>6. CASE PtrigStop(t)
    BY <2>6, LeavePass DEF PtrigStop, PassInv, BlockStates
  <2>7. CASE PtrigCancel(t)
    BY <2>7 DEF PtrigCancel, PassInv
  <2>8. CASE PtrigJoin(t)
    BY <2>8, LeavePass DEF PtrigJoin, PassInv, BlockStates
  <2>9. QED
    BY <1>5, <2>1, <2>2, <2>3, <2>4, <2>5, <2>6, <2>7, <2>8 DEF TriggerHook
<1>6. CASE CleanupPass
  <2>0. /\ DOMAIN order = 1..Len(order) /\ Len(order) \in Nat
        /\ pos \notin DOMAIN order /\ pos >= 1 => \A i \in DOMAIN order : i < pos
    BY DEF TypeOK
  <2>1. CASE Visit("stop", "ACTIVE")
    <3>1. /\ phase = "stop" /\ phase' = "stop" /\ call = Idle /\ order' = order
          /\ block_state' = block_state /\ pos \in DOMAIN order /\ pos' = pos + 1
      BY <2>1 DEF Visit, Enter
    <3>2. \/ call' = [op |-> "stop", b |-> order[pos]]
          \/ call' = Idle /\ block_state[order[pos]] # "ACTIVE"
      BY <2>1 DEF Visit, Enter
    <3>3. \A i \in DOMAIN order : i < pos => block_state[order[i]] # "ACTIVE"
      BY <3>1 DEF PassInv
    <3>4. \A i \in DOMAIN order : i < pos' <=> i < pos \/ i = pos
      BY <1>0, <2>0, <3>1
    <3>5. pos' \in Nat \ {0, 1} /\ pos' - 1 = pos
      BY <1>0, <2>0, <3>1
    <3>6. QED
      BY <3>1, <3>2, <3>3, <3>4, <3>5 DEF PassInv
  <2>2. CASE Visit("cleanup", "INACTIVE")
    <3>1. /\ phase = "cleanup" /\ phase' = "cleanup" /\ call = Idle /\ order' = order
          /\ block_state' = block_state /\ pos \in DOMAIN order /\ pos' = pos + 1
      BY <2>2 DEF Visit, Enter
    <3>2. \/ call' = [op |-> "cleanup", b |-> order[pos]]
          \/ call' = Idle /\ block_state[order[pos]] # "INACTIVE"
      BY <2>2 DEF Visit, Enter
    <3>3. \A b \in Instances : block_state[b] # "ACTIVE"
      BY <3>1 DEF PassInv
    <3>4. \A i \in DOMAIN order : i < pos => block_state[order[i]] = "PREINIT"
      BY <3>1 DEF PassInv
    <3>5. \A i \in DOMAIN order : i < pos' <=> i < pos \/ i = pos
      BY <1>0, <2>0, <3>1
    <3>6. pos' \in Nat \ {0, 1} /\ pos' - 1 = pos
      BY <1>0, <2>0, <3>1
    <3>7. block_state[order[pos]] \in BlockStates
      BY <1>0, <3>1 DEF TypeOK
    <3>8. QED
      BY <3>1, <3>2, <3>3, <3>4, <3>5, <3>6, <3>7, <1>0 DEF PassInv, BlockStates
  <2>3. CASE NextPass("stop", "cleanup")
    <3>1. /\ phase = "stop" /\ phase' = "cleanup" /\ call = Idle /\ call' = Idle
          /\ order' = order /\ block_state' = block_state
          /\ pos \notin DOMAIN order /\ pos' = 1
      BY <2>3 DEF NextPass
    <3>2. \A i \in DOMAIN order : block_state[order[i]] # "ACTIVE"
      BY <2>0, <3>1 DEF PassInv
    <3>3. \A b \in Instances : block_state[b] # "ACTIVE"
      BY <3>2 DEF CallInv, Registered
    <3>4. QED
      BY <2>0, <3>1, <3>3 DEF PassInv
  <2>4. CASE NextPass("cleanup", "rm")
    <3>1. /\ phase = "cleanup" /\ phase' = "rm" /\ call = Idle /\ call' = Idle
          /\ order' = order /\ block_state' = block_state
          /\ pos \notin DOMAIN order /\ pos' = 1
      BY <2>4 DEF NextPass
    <3>2. \A i \in DOMAIN order : block_state[order[i]] = "PREINIT"
      BY <2>0, <3>1 DEF PassInv
    <3>3. \A b \in Instances : block_state[b] = "PREINIT"
      BY <3>2 DEF CallInv, Registered
    <3>4. QED
      BY <3>1, <3>3 DEF PassInv
  <2>5. CASE RmBlock
    BY <2>5, <1>0 DEF RmBlock, PassInv, TypeOK
  <2>6. CASE RmDone
    BY <2>6 DEF RmDone, PassInv
  <2>7. QED
    BY <1>6, <2>1, <2>2, <2>3, <2>4, <2>5, <2>6 DEF CleanupPass
<1>7. ASSUME NEW t \in Triggers, Thread(t)
      PROVE  PassInv'
  BY <1>7, ThreadFrame DEF mainVars, PassInv
<1>8. CASE UNCHANGED vars
  BY <1>8 DEF vars, mainVars, PassInv
<1>9. QED
  BY <1>1, <1>2, <1>3, <1>4, <1>5, <1>6, <1>7, <1>8 DEF Next, MainStep

(* ThreadInv is inductive: pthread_create and pthread_join bracket every   *)
(* step of the thread, and calloc and free bracket these.                  *)
LEMMA ThreadInvStep ==
  ASSUME TypeOK, CallInv, PassInv, ThreadInv, [Next]_vars
  PROVE  ThreadInv'
<1> USE BlocksAssumption DEF In, Idle
<1>0. /\ \A u \in Triggers : u \in Instances /\ u \notin Blocks
      /\ pc \in [Triggers -> Locations] /\ inf_state \in [Triggers -> BlockStates]
      /\ block_state \in [Instances -> BlockStates]
  BY DEF TypeOK, Instances
<1>1. ASSUME NEW b \in Instances, Create(b)
      PROVE  ThreadInv'
  BY <1>1 DEF Create, infVars, threadVars, ThreadInv
<1>2. ASSUME NEW b \in Instances, AppCall(b)
      PROVE  ThreadInv'
  BY <1>2 DEF AppCall, Enter, infVars, threadVars, ThreadInv
<1>3. CASE NodeCleanup
  BY <1>3 DEF NodeCleanup, infVars, threadVars, ThreadInv
<1>4. ASSUME NEW b \in Blocks, BlockHook(b)
      PROVE  ThreadInv'
  BY <1>0, <1>4 DEF BlockHook, Leave, Fail, infVars, threadVars, ThreadInv
<1>5. ASSUME NEW t \in Triggers, TriggerHook(t)
      PROVE  ThreadInv'
  <2>0. /\ In("init", t) \/ In("init2", t) => block_state[t] = "PREINIT"
        /\ In("start", t) \/ In("start2", t) => block_state[t] = "INACTIVE"
        /\ In("stop", t) => block_state[t] = "ACTIVE"
        /\ In("cleanup", t) \/ In("join", t) => block_state[t] = "INACTIVE"
    BY <1>0 DEF CallInv
  <2>1. CASE PtrigInit(t)
    BY <1>0, <2>0, <2>1 DEF PtrigInit, ThreadInv
  <2>2. CASE PtrigInitFail(t)
    BY <2>2 DEF PtrigInitFail, Fail, infVars, threadVars, ThreadInv
  <2>3. CASE PtrigInitTstats(t)
    BY <1>0, <2>0, <2>3 DEF PtrigInitTstats, Leave, threadVars, ThreadInv
  <2>4. CASE PtrigStart(t)
    BY <1>0, <2>0, <2>4 DEF PtrigStart, ThreadInv
  <2>5. CASE PtrigStartPort(t)
    BY <1>0, <2>0, <2>5 DEF PtrigStartPort, Leave, threadVars, ThreadInv
  <2>6. CASE PtrigStop(t)
    BY <1>0, <2>0, <2>6 DEF PtrigStop, Leave, ThreadInv
  <2>7. CASE PtrigCancel(t)
    BY <1>0, <2>0, <2>7 DEF PtrigCancel, ThreadInv
  <2>8. CASE PtrigJoin(t)
    BY <1>0, <2>0, <2>8 DEF PtrigJoin, Leave, ThreadInv
  <2>9. QED
    BY <1>5, <2>1, <2>2, <2>3, <2>4, <2>5, <2>6, <2>7, <2>8 DEF TriggerHook
<1>6. CASE CleanupPass
  BY <1>6 DEF CleanupPass, Visit, Enter, NextPass, RmBlock, RmDone, infVars, threadVars,
              ThreadInv
<1>7. ASSUME NEW t \in Triggers, Thread(t)
      PROVE  ThreadInv'
  <2>1. PICK l \in Locations \ {"none"} : pc' = [pc EXCEPT ![t] = l]
    BY <1>7 DEF Thread, ThreadStep, CheckActive, SpuriousWakeup, BeginRound, TimeFails,
       BeginStep, RefuseStep, EndStep, EndRound, EndSleep, Cancel, CancelInStep, Goto,
       Locations
  <2>2. pc[t] # "none"
    BY <1>7 DEF Thread, ThreadStep, CheckActive, SpuriousWakeup, BeginRound, TimeFails,
       BeginStep, RefuseStep, EndStep, EndRound, EndSleep, Cancel, CancelInStep
  <2>3. QED
    BY <1>0, <1>7, <2>1, <2>2, ThreadFrame DEF mainVars, infVars, ThreadInv
<1>8. CASE UNCHANGED vars
  BY <1>8 DEF vars, mainVars, infVars, threadVars, ThreadInv
<1>9. QED
  BY <1>1, <1>2, <1>3, <1>4, <1>5, <1>6, <1>7, <1>8 DEF Next, MainStep

(* A trigger that has no thread is not admitted, and a node whose blocks   *)
(* are being removed has no thread left.                                   *)
LEMMA NoThread ==
  ASSUME TypeOK, CallInv, PassInv, ThreadInv, NEW t \in Triggers,
         block_state[t] = "PREINIT", ~ In("init2", t), call = Idle
  PROVE  pc[t] = "none" /\ ~ Admitted(t) /\ ~ InRound(t)
<1>1. pc[t] = "none"
  BY DEF ThreadInv
<1>2. inf_state[t] # "ACTIVE"
  BY DEF ThreadInv, In, Idle
<1>3. QED
  BY <1>1, <1>2 DEF Admitted, InRound

(* RoundInv is inductive: the guard of the wait and the order of the       *)
(* assignments in the hooks keep a thread out of a round until its         *)
(* statistics are ready and after its trigger was stopped.                 *)
LEMMA RoundInvStep ==
  ASSUME TypeOK, CallInv, PassInv, ThreadInv, RoundInv, [Next]_vars
  PROVE  RoundInv'
<1> USE BlocksAssumption DEF In, Idle, Admitted, InRound, RoundReady
<1>0. /\ \A u \in Triggers : u \in Instances /\ u \notin Blocks
      /\ pc \in [Triggers -> Locations] /\ inf_state \in [Triggers -> BlockStates]
      /\ block_state \in [Instances -> BlockStates]
      /\ late \in [Triggers -> 0..2]
  BY DEF TypeOK, Instances
<1>1. ASSUME NEW b \in Instances, Create(b)
      PROVE  RoundInv'
  <2>1. Registered \subseteq Registered'
    BY <1>1, RegisteredAppend DEF Create
  <2>2. QED
    BY <1>1, <2>1 DEF Create, infVars, threadVars, RoundInv, Listed
<1>2. ASSUME NEW b \in Instances, AppCall(b)
      PROVE  RoundInv'
  <2>1. Registered' = Registered
    BY <1>2 DEF AppCall, Enter, Registered
  <2>2. \A u \in Triggers : ~ In("start2", u) /\ ~ In("start", u)
    BY <1>2 DEF AppCall, Enter
  <2>3. \A u \in Triggers : In("start", u)' => Listed(u) \subseteq Registered
    BY <1>2 DEF AppCall, Enter
  <2>4. QED
    BY <1>2, <2>1, <2>2, <2>3 DEF AppCall, Enter, infVars, threadVars, RoundInv, Listed
<1>3. CASE NodeCleanup
  BY <1>3 DEF NodeCleanup, infVars, threadVars, RoundInv, Listed, Registered
<1>4. ASSUME NEW b \in Blocks, BlockHook(b)
      PROVE  RoundInv'
  <2>1. Registered' = Registered
    BY <1>4 DEF BlockHook, Leave, Fail, Registered
  <2>2. \A u \in Triggers : block_state'[u] = block_state[u]
    BY <1>0, <1>4 DEF BlockHook, Leave, Fail
  <2>3. \A u \in Triggers : ~ In("start", u)' /\ ~ In("start2", u) /\ ~ In("start2", u)'
    BY <1>0, <1>4 DEF BlockHook, Leave, Fail
  <2>4. QED
    BY <1>4, <2>1, <2>2, <2>3 DEF BlockHook, infVars, threadVars, RoundInv, Listed
<1>5. ASSUME NEW t \in Triggers, TriggerHook(t)
      PROVE  RoundInv'
  <2>0. /\ Registered' = Registered
        /\ \A u \in Triggers : u # t => ~ In("start", u) /\ ~ In("start2", u)
    BY <1>5 DEF TriggerHook, PtrigInit, PtrigInitFail, PtrigInitTstats, PtrigStart,
       PtrigStartPort, PtrigStop, PtrigCancel, PtrigJoin, Leave, Fail, Registered
  <2>a. /\ In("init", t) => block_state[t] = "PREINIT"
        /\ In("start", t) => block_state[t] = "INACTIVE"
        /\ In("stop", t) => block_state[t] = "ACTIVE"
    BY <1>0 DEF CallInv
  <2>1. CASE PtrigInit(t)
    <3>1. /\ block_state' = block_state /\ block_state[t] = "PREINIT"
          /\ inf_state'[t] # "ACTIVE" /\ pc'[t] = "loop" /\ late'[t] = 0
          /\ \A u \in Triggers \ {t} : /\ inf_state'[u] = inf_state[u] /\ pc'[u] = pc[u]
                                       /\ late'[u] = late[u]
                                       /\ u \in tstats' <=> u \in tstats
                                       /\ u \in p_tstats' <=> u \in p_tstats
          /\ \A u \in Triggers : ~ In("start", u)'
      BY <1>0, <2>a, <2>1 DEF PtrigInit
    <3>2. QED
      BY <2>0, <3>1 DEF RoundInv, Listed
  <2>2. CASE PtrigInitFail(t)
    BY <2>0, <2>2 DEF PtrigInitFail, Fail, infVars, threadVars, RoundInv, Listed
  <2>3. CASE PtrigInitTstats(t)
    BY <1>0, <2>0, <2>3 DEF PtrigInitTstats, Leave, threadVars, RoundInv, Listed
  <2>4. CASE PtrigStart(t)
    <3>1. /\ UNCHANGED <<block_state, tstats, p_tstats>> /\ block_state[t] = "INACTIVE"
          /\ pc'[t] \in {pc[t], "loop"} /\ late'[t] = 0 /\ In("start2", t)'
          /\ \A u \in Triggers \ {t} : /\ inf_state'[u] = inf_state[u] /\ pc'[u] = pc[u]
                                       /\ late'[u] = late[u]
          /\ \A u \in Triggers : ~ In("start", u)'
      BY <1>0, <2>a, <2>4 DEF PtrigStart
    <3>2. t \in tstats /\ Listed(t) \subseteq Registered
      BY <2>4, <3>1 DEF PtrigStart, RoundInv
    <3>3. \A u \in Triggers \ {t} : (Admitted(u) <=> Admitted(u)') /\ (InRound(u) <=> InRound(u)')
      BY <3>1
    <3>4. \A u \in Triggers \ {t} : ~ In("start2", u)
      BY <2>0
    <3>5. Listed(t)' = Listed(t) /\ \A u \in Triggers : Listed(u)' = Listed(u)
      BY DEF Listed
    <3>6. \A u \in Triggers \ {t} : RoundReady(u)'
      BY <2>0, <3>1, <3>3, <3>4, <3>5 DEF RoundInv
    <3>7. RoundReady(t)'
      BY <2>0, <3>1, <3>2, <3>5
    <3>8. QED
      BY <3>6, <3>7 DEF RoundInv
  <2>5. CASE PtrigStartPort(t)
    BY <1>0, <2>0, <2>5 DEF PtrigStartPort, Leave, threadVars, RoundInv, CallInv, Listed
  <2>6. CASE PtrigStop(t)
    <3>1. /\ UNCHANGED <<tstats, p_tstats, pc>> /\ block_state[t] = "ACTIVE"
          /\ inf_state'[t] # "ACTIVE" /\ late'[t] = 0
          /\ \A u \in Triggers \ {t} : /\ inf_state'[u] = inf_state[u]
                                       /\ late'[u] = late[u]
                                       /\ block_state'[u] = block_state[u]
          /\ \A u \in Triggers : ~ In("start", u)' /\ ~ In("start2", u)
      BY <1>0, <2>0, <2>a, <2>6 DEF PtrigStop, Leave
    <3>2. t \in tstats
      BY <3>1 DEF RoundInv
    <3>3. QED
      BY <2>0, <3>1, <3>2 DEF RoundInv, Listed
  <2>7. CASE PtrigCancel(t)
    BY <1>0, <2>0, <2>7 DEF PtrigCancel, RoundInv, Listed
  <2>8. CASE PtrigJoin(t)
    BY <1>0, <2>0, <2>8 DEF PtrigJoin, Leave, RoundInv, Listed
  <2>9. QED
    BY <1>5, <2>1, <2>2, <2>3, <2>4, <2>5, <2>6, <2>7, <2>8 DEF TriggerHook
<1>6. CASE CleanupPass
  <2>1. CASE Visit("stop", "ACTIVE") \/ Visit("cleanup", "INACTIVE")
    BY <2>1 DEF Visit, Enter, infVars, threadVars, RoundInv, Listed, Registered
  <2>2. CASE NextPass("stop", "cleanup") \/ NextPass("cleanup", "rm") \/ RmDone
    BY <2>2 DEF NextPass, RmDone, infVars, threadVars, RoundInv, Listed, Registered
  <2>3. CASE RmBlock
    <3>1. call = Idle /\ call' = Idle /\ \A b \in Instances : block_state[b] = "PREINIT"
      BY <2>3 DEF RmBlock, PassInv
    <3>2. \A u \in Triggers : pc[u] = "none" /\ inf_state[u] # "ACTIVE"
      BY <1>0, <3>1, NoThread
    <3>3. UNCHANGED <<block_state, pc, inf_state, late, tstats>>
      BY <2>3 DEF RmBlock, infVars, threadVars
    <3>4. \A u \in Triggers : ~ In("start", u)'
      BY <3>1
    <3>5. QED
      BY <3>2, <3>3, <3>4 DEF RoundInv
  <2>4. QED
    BY <1>6, <2>1, <2>2, <2>3 DEF CleanupPass
<1>7. ASSUME NEW t \in Triggers, Thread(t)
      PROVE  RoundInv'
  <2>0. UNCHANGED <<mainVars, infVars>> /\ Registered' = Registered
    BY <1>7, ThreadFrame DEF mainVars, Registered
  <2>1. CASE CheckActive(t)
    BY <1>0, <2>0, <2>1 DEF CheckActive, Goto, mainVars, infVars, RoundInv, Listed
  <2>2. CASE BeginRound(t)
    BY <1>0, <2>0, <2>2 DEF BeginRound, Goto, mainVars, infVars, RoundInv, Listed
  <2>3. CASE SpuriousWakeup(t) \/ TimeFails(t) \/ EndSleep(t) \/ Cancel(t) \/ CancelInStep(t)
    BY <1>0, <2>0, <2>3 DEF SpuriousWakeup, TimeFails, EndSleep, Cancel, CancelInStep,
       Goto, mainVars, infVars, RoundInv, Listed
  <2>4. CASE BeginStep(t) \/ RefuseStep(t) \/ EndStep(t) \/ EndRound(t)
    BY <1>0, <2>0, <2>4 DEF BeginStep, RefuseStep, EndStep, EndRound,
       Goto, mainVars, infVars, RoundInv, Listed
  <2>5. QED
    BY <1>7, <2>1, <2>2, <2>3, <2>4 DEF Thread, ThreadStep
<1>8. CASE UNCHANGED vars
  BY <1>8 DEF vars, mainVars, infVars, threadVars, RoundInv, Listed, Registered
<1>9. QED
  BY <1>1, <1>2, <1>3, <1>4, <1>5, <1>6, <1>7, <1>8 DEF Next, MainStep

-----------------------------------------------------------------------------
(* IInv holds in every reachable state. *)
THEOREM Invariance == Spec => []IInv
<1>1. Init => IInv
  <2>1. Init => Registered = {}
    BY DEF Init, Registered
  <2>2. QED
    BY <2>1, ListTypes DEF Init, IInv, CallInv, PassInv, ThreadInv, RoundInv, RoundReady,
       Admitted, InRound, In, Idle, Instances
<1>2. TypeOK /\ IInv /\ [Next]_vars => IInv'
  BY CallInvStep, PassInvStep, ThreadInvStep, RoundInvStep DEF IInv
<1>3. QED
  BY <1>1, <1>2, TypeCorrect, PTL DEF Spec

(* No thread runs without its private data, and none is left behind. *)
THEOREM ThreadOwnsPrivateDataAlways == Spec => []ThreadOwnsPrivateData
<1>1. IInv => ThreadOwnsPrivateData
  <2>1. ASSUME NEW t \in Triggers, call = Idle \/ call.b # t
        PROVE  ~ In("init2", t)
    <3>1. [op |-> "init2", b |-> t].op = "init2" /\ [op |-> "init2", b |-> t].b = t
      OBVIOUS
    <3>2. Idle.op = "idle"
      BY DEF Idle
    <3>3. QED
      BY <2>1, <3>1, <3>2 DEF In
  <2>2. QED
    BY <2>1 DEF IInv, ThreadInv, ThreadOwnsPrivateData, Running
<1>2. QED
  BY <1>1, Invariance, PTL

(* No thread can reach a block that was removed. *)
THEOREM NoStepAfterFreeAlways == Spec => []NoStepAfterFree
<1>1. IInv => NoStepAfterFree
  BY DEF IInv, RoundInv, RoundReady, Admitted, NoStepAfterFree
<1>2. QED
  BY <1>1, Invariance, PTL

(* The clean-up pass joins a trigger before it cleans up what comes later. *)
THEOREM TeardownInOrderAlways == Spec => []TeardownInOrder
<1>1. TypeOK /\ IInv => TeardownInOrder
  <2> SUFFICES ASSUME TypeOK, IInv,
                      NEW i \in DOMAIN order, NEW j \in DOMAIN order, i < j,
                      order[i] \in Triggers, phase = "cleanup", In("cleanup", order[j])
               PROVE  ~ Stepping(order[i], order[j])
    BY DEF TeardownInOrder
  <2>1. j = pos - 1 /\ i < pos
    BY DEF IInv, PassInv, In, Idle, TypeOK
  <2>2. order[i] # order[j]
    BY DEF IInv, PassInv, TypeOK
  <2>3. block_state[order[i]] = "PREINIT"
    BY <2>1, <2>2 DEF IInv, PassInv, In
  <2>4. pc[order[i]] = "none"
    BY <2>3 DEF IInv, ThreadInv, In
  <2>5. QED
    BY <2>4 DEF Stepping
<1>2. QED
  BY <1>1, TypeCorrect, Invariance, PTL

(* At most one round begins after a trigger was stopped. *)
THEOREM AtMostOneLateRoundAlways == Spec => []AtMostOneLateRound
<1>1. IInv => AtMostOneLateRound
  BY DEF IInv, RoundInv, RoundReady, AtMostOneLateRound
<1>2. QED
  BY <1>1, Invariance, PTL

(* A round finds its statistics initialised. *)
THEOREM StatsReadyAlways == Spec => []StatsReady
<1>1. IInv => StatsReady
  BY DEF IInv, RoundInv, RoundReady, StatsReady
<1>2. QED
  BY <1>1, Invariance, PTL

(* A step hook is entered only after the start hook of its block returned. *)
THEOREM StepAfterStartAlways == Spec => StepAfterStart
<1> DEFINE Entered ==
             \A t \in Triggers :
               pc[t] = "round" /\ pc'[t] = "step"
               => ~ \E op \in {"init", "start", "cleanup"} : In(op, Current(t))
<1>1. TypeOK /\ IInv /\ [Next]_vars => [Entered]_vars
  <2> SUFFICES ASSUME TypeOK, IInv, Next, NEW t \in Triggers,
                      pc[t] = "round", pc'[t] = "step",
                      NEW op \in {"init", "start", "cleanup"}, In(op, Current(t))
               PROVE  FALSE
    OBVIOUS
  <2>1. BeginStep(t)
    <3>1. ~ UNCHANGED pc
      OBVIOUS
    <3>2. \/ \E u \in Triggers : Thread(u)
          \/ \E u \in Triggers : pc' \in {[pc EXCEPT ![u] = l] : l \in {"loop", "none", pc[u]}}
      BY <3>1 DEF Next, MainStep, Create, AppCall, Enter, NodeCleanup, BlockHook, Leave, Fail,
         TriggerHook, PtrigInit, PtrigInitFail, PtrigInitTstats, PtrigStart, PtrigStartPort,
         PtrigStop, PtrigCancel, PtrigJoin, CleanupPass, Visit, NextPass, RmBlock, RmDone,
         infVars, threadVars
    <3>3. PICK u \in Triggers : Thread(u)
      BY <3>2 DEF TypeOK
    <3>4. u = t
      BY <3>3 DEF Thread, ThreadStep, CheckActive, SpuriousWakeup, BeginRound, TimeFails,
         BeginStep, RefuseStep, EndStep, EndRound, EndSleep, Cancel, CancelInStep, Goto, TypeOK
    <3>5. QED
      BY <3>3, <3>4 DEF Thread, ThreadStep, CheckActive, SpuriousWakeup, BeginRound, TimeFails,
         BeginStep, RefuseStep, EndStep, EndRound, EndSleep, Cancel, CancelInStep, Goto, TypeOK
  <2>2. Current(t) \in Listed(t)
    BY <2>1 DEF BeginStep, Current, Listed
  <2>3. Current(t) \in Registered /\ Current(t) \in Instances
    BY <2>2, ListTypes DEF IInv, RoundInv, RoundReady, InRound, Instances
  <2>4. block_state[Current(t)] = "ACTIVE"
    BY <2>1, <2>3 DEF BeginStep
  <2>5. QED
    BY <2>3, <2>4 DEF IInv, CallInv
<1>2. QED
  BY <1>1, TypeCorrect, Invariance, PTL DEF Spec, StepAfterStart
-----------------------------------------------------------------------------
(***************************************************************************)
(* Trig and the timespecs it computes with.                                *)
(***************************************************************************)
(* Products with NSEC_PER_SEC are all the non-linear arithmetic there is;  *)
(* the provers get the facts about them from these two lemmas.             *)
LEMMA Times ==
  ASSUME NEW x \in Int, NEW y \in Int
  PROVE  /\ NSEC_PER_SEC * x \in Int
         /\ NSEC_PER_SEC * (x + y) = (NSEC_PER_SEC * x) + (NSEC_PER_SEC * y)
         /\ NSEC_PER_SEC * (x - y) = (NSEC_PER_SEC * x) - (NSEC_PER_SEC * y)
         /\ x < y => (NSEC_PER_SEC * x) + NSEC_PER_SEC <= NSEC_PER_SEC * y
<1>1. NSEC_PER_SEC \in Nat /\ NSEC_PER_SEC > 0
  BY NsecAssumption
<1>2. ASSUME NEW k \in Int, k >= 1
      PROVE  NSEC_PER_SEC * k >= NSEC_PER_SEC
  BY <1>1, <1>2, SMT
<1>3. /\ NSEC_PER_SEC * (x + y) = (NSEC_PER_SEC * x) + (NSEC_PER_SEC * y)
      /\ NSEC_PER_SEC * (x - y) = (NSEC_PER_SEC * x) - (NSEC_PER_SEC * y)
  BY <1>1, SMT
<1>4. ASSUME x < y
      PROVE  (NSEC_PER_SEC * x) + NSEC_PER_SEC <= NSEC_PER_SEC * y
  <2>1. NSEC_PER_SEC * (y - x) >= NSEC_PER_SEC
    BY <1>2, <1>4
  <2>2. NSEC_PER_SEC * (y - x) = (NSEC_PER_SEC * y) - (NSEC_PER_SEC * x)
    BY <1>1, SMT
  <2> QED
    BY <1>1, <2>1, <2>2, SMT
<1> QED
  BY <1>1, <1>3, <1>4, SMT

LEMMA DivMod ==
  ASSUME NEW a \in Nat
  PROVE  /\ a \div NSEC_PER_SEC \in Nat
         /\ a % NSEC_PER_SEC \in Nat
         /\ a % NSEC_PER_SEC < NSEC_PER_SEC
         /\ a = NSEC_PER_SEC * (a \div NSEC_PER_SEC) + (a % NSEC_PER_SEC)
BY NsecAssumption, SMT

----------------------------------------------------------------------------
(* Carrying whole seconds out of nsec keeps the length of time and leaves  *)
(* less than a second in nsec.                                             *)
LEMMA CarryIsRight ==
  ASSUME NEW ts \in Timespec
  PROVE  /\ Carry(ts) \in Timespec
         /\ Value(Carry(ts)) = Value(ts)
         /\ -NSEC_PER_SEC < Carry(ts).nsec /\ Carry(ts).nsec < NSEC_PER_SEC
<1>1. NSEC_PER_SEC \in Nat /\ NSEC_PER_SEC > 0 /\ ts.sec \in Int /\ ts.nsec \in Int
  BY NsecAssumption DEF Timespec
<1>2. CASE ts.nsec >= NSEC_PER_SEC
  <2> DEFINE q == ts.nsec \div NSEC_PER_SEC
             r == ts.nsec % NSEC_PER_SEC
  <2>1. Carry(ts) = [sec |-> ts.sec + q, nsec |-> r]
    BY <1>1, <1>2 DEF Carry, CDiv, CMod
  <2>2. ts.nsec \in Nat
    BY <1>1, <1>2
  <2>3. q \in Nat /\ r \in Nat /\ r < NSEC_PER_SEC /\ ts.nsec = (NSEC_PER_SEC * q) + r
    BY <2>2, DivMod
  <2> HIDE DEF q, r
  <2>4. NSEC_PER_SEC * (ts.sec + q) = (NSEC_PER_SEC * ts.sec) + (NSEC_PER_SEC * q)
    BY <1>1, <2>3, Times
  <2> QED
    BY <1>1, <2>1, <2>3, <2>4, Times DEF Value, Timespec
<1>3. CASE ts.nsec <= -NSEC_PER_SEC
  <2> DEFINE q == (-ts.nsec) \div NSEC_PER_SEC
             r == (-ts.nsec) % NSEC_PER_SEC
  <2>1. Carry(ts) = [sec |-> ts.sec + (-q), nsec |-> -r]
    BY <1>1, <1>3 DEF Carry, CDiv, CMod
  <2>2. (-ts.nsec) \in Nat
    BY <1>1, <1>3
  <2>3. q \in Nat /\ r \in Nat /\ r < NSEC_PER_SEC /\ -ts.nsec = (NSEC_PER_SEC * q) + r
    BY <2>2, DivMod
  <2> HIDE DEF q, r
  <2>4. NSEC_PER_SEC * (ts.sec + (-q)) = (NSEC_PER_SEC * ts.sec) - (NSEC_PER_SEC * q)
    <3>1. ts.sec + (-q) = ts.sec - q
      BY <1>1, <2>3
    <3> QED
      BY <1>1, <2>3, <3>1, Times
  <2> QED
    BY <1>1, <2>1, <2>3, <2>4, Times DEF Value, Timespec
<1>4. CASE ~(ts.nsec >= NSEC_PER_SEC \/ ts.nsec <= -NSEC_PER_SEC)
  BY <1>1, <1>4 DEF Carry
<1> QED
  BY <1>2, <1>3, <1>4

(* The last two tests of ubx_ts_norm and of time.normalize: they keep the  *)
(* length of time, and give the parts one sign unless nsec is a whole      *)
(* second.                                                                 *)
LEMMA SameSignIsRight ==
  ASSUME NEW c \in Timespec, -NSEC_PER_SEC < c.nsec, c.nsec <= NSEC_PER_SEC
  PROVE  /\ SameSign(c) \in Timespec
         /\ Value(SameSign(c)) = Value(c)
         /\ Normal(SameSign(c)) \/ (SameSign(c) = c /\ c.nsec = NSEC_PER_SEC)
<1>1. -NSEC_PER_SEC < c.nsec /\ c.nsec <= NSEC_PER_SEC
  OBVIOUS
<1>3. NSEC_PER_SEC \in Nat /\ NSEC_PER_SEC > 0 /\ c.sec \in Int /\ c.nsec \in Int
  BY NsecAssumption DEF Timespec
<1>4. NSEC_PER_SEC * 1 = NSEC_PER_SEC
  BY <1>3
<1>5. CASE c.sec > 0 /\ c.nsec < 0
  <2>1. SameSign(c) = [sec |-> c.sec - 1, nsec |-> c.nsec + NSEC_PER_SEC]
    BY <1>5 DEF SameSign
  <2>2. NSEC_PER_SEC * (c.sec - 1) = (NSEC_PER_SEC * c.sec) - NSEC_PER_SEC
    BY <1>3, <1>4, Times
  <2>3. Value(SameSign(c)) = Value(c)
    <3> DEFINE p == NSEC_PER_SEC * c.sec
    <3>1. p \in Int /\ Value(c) = p + c.nsec
      BY <1>3, Times DEF Value
    <3>2. Value(SameSign(c)) = (p - NSEC_PER_SEC) + (c.nsec + NSEC_PER_SEC)
      BY <2>1, <2>2 DEF Value
    <3> HIDE DEF p
    <3> QED
      BY <1>3, <3>1, <3>2
  <2>4. SameSign(c) \in Timespec /\ Normal(SameSign(c))
    BY <1>1, <1>3, <1>5, <2>1 DEF Normal, Timespec
  <2> QED
    BY <1>3, <2>3, <2>4
<1>6. CASE c.sec < 0 /\ c.nsec > 0
  <2>1. SameSign(c) = [sec |-> c.sec + 1, nsec |-> c.nsec - NSEC_PER_SEC]
    BY <1>3, <1>6 DEF SameSign
  <2>2. NSEC_PER_SEC * (c.sec + 1) = (NSEC_PER_SEC * c.sec) + NSEC_PER_SEC
    BY <1>3, <1>4, Times
  <2>3. Value(SameSign(c)) = Value(c)
    <3> DEFINE p == NSEC_PER_SEC * c.sec
    <3>1. p \in Int /\ Value(c) = p + c.nsec
      BY <1>3, Times DEF Value
    <3>2. Value(SameSign(c)) = (p + NSEC_PER_SEC) + (c.nsec - NSEC_PER_SEC)
      BY <2>1, <2>2 DEF Value
    <3> HIDE DEF p
    <3> QED
      BY <1>3, <3>1, <3>2
  <2>4. SameSign(c) \in Timespec /\ Normal(SameSign(c))
    BY <1>1, <1>3, <1>6, <2>1 DEF Normal, Timespec
  <2> QED
    BY <1>3, <2>3, <2>4
<1>7. CASE ~(c.sec > 0 /\ c.nsec < 0) /\ ~(c.sec < 0 /\ c.nsec > 0)
  <2>1. SameSign(c) = c
    BY <1>7 DEF SameSign
  <2> QED
    BY <1>1, <1>3, <1>7, <2>1 DEF Normal
<1> QED
  BY <1>5, <1>6, <1>7

(* ubx_ts_norm: whatever it is given, the result stands for the same       *)
(* length of time and is normal.                                           *)
THEOREM NormIsRight ==
  ASSUME NEW ts \in Timespec
  PROVE  Norm(ts) \in Timespec /\ Value(Norm(ts)) = Value(ts) /\ Normal(Norm(ts))
<1> DEFINE c == Carry(ts)
<1>1. /\ c \in Timespec /\ Value(c) = Value(ts)
      /\ -NSEC_PER_SEC < c.nsec /\ c.nsec < NSEC_PER_SEC
  BY CarryIsRight
<1>2. Norm(ts) = SameSign(c)
  BY DEF Norm
<1> HIDE DEF c
<1>3. NSEC_PER_SEC \in Nat /\ c.nsec \in Int
  BY <1>1, NsecAssumption DEF Timespec
<1>4. c.nsec <= NSEC_PER_SEC /\ c.nsec # NSEC_PER_SEC
  BY <1>1, <1>3
<1> QED
  BY <1>1, <1>2, <1>4, SameSignIsRight

(* time.normalize of the scripts keeps the length of time too, but can     *)
(* leave a whole second in nsec, which ubx_ts_norm never does.             *)
THEOREM LuaNormalizeIsRight ==
  ASSUME NEW ts \in Timespec
  PROVE  /\ Value(LuaNormalize(ts)) = Value(ts)
         /\ Normal(LuaNormalize(ts)) \/ LuaNormalize(ts).nsec = NSEC_PER_SEC
<1> DEFINE c == LuaCarry(ts)
<1>1. NSEC_PER_SEC \in Nat /\ NSEC_PER_SEC > 0 /\ ts.sec \in Int /\ ts.nsec \in Int
  BY NsecAssumption DEF Timespec
<1>2. CASE ts.nsec > NSEC_PER_SEC
  <2> DEFINE k == (ts.nsec - 1) \div NSEC_PER_SEC
             r == (ts.nsec - 1) % NSEC_PER_SEC
  <2>1. c = [sec |-> ts.sec + k, nsec |-> ts.nsec - k * NSEC_PER_SEC]
    BY <1>2 DEF LuaCarry
  <2>2. ts.nsec - 1 \in Nat
    BY <1>1, <1>2
  <2>3. /\ k \in Nat /\ r \in Nat /\ r < NSEC_PER_SEC
        /\ ts.nsec - 1 = (NSEC_PER_SEC * k) + r
    BY <2>2, DivMod
  <2> HIDE DEF k, r
  <2>4. NSEC_PER_SEC * (ts.sec + k) = (NSEC_PER_SEC * ts.sec) + (NSEC_PER_SEC * k)
    BY <1>1, <2>3, Times
  <2>5. k * NSEC_PER_SEC = NSEC_PER_SEC * k /\ NSEC_PER_SEC * k \in Int
    BY <1>1, <2>3, Times
  <2>6. c.nsec = r + 1
    BY <1>1, <2>1, <2>3, <2>5
  <2>7. c \in Timespec
    BY <1>1, <2>1, <2>3, <2>5 DEF Timespec
  <2>8. Value(c) = Value(ts)
    BY <1>1, <2>1, <2>3, <2>4, <2>5, Times DEF Value
  <2>9. -NSEC_PER_SEC < c.nsec /\ c.nsec <= NSEC_PER_SEC
    BY <1>1, <2>3, <2>6
  <2> QED
    BY <2>7, <2>8, <2>9, SameSignIsRight DEF LuaNormalize
<1>3. CASE ~(ts.nsec > NSEC_PER_SEC) /\ ts.nsec <= -NSEC_PER_SEC
  <2> DEFINE k == (-ts.nsec) \div NSEC_PER_SEC
             r == (-ts.nsec) % NSEC_PER_SEC
  <2>1. c = [sec |-> ts.sec - k, nsec |-> ts.nsec + k * NSEC_PER_SEC]
    BY <1>3 DEF LuaCarry
  <2>2. (-ts.nsec) \in Nat
    BY <1>1, <1>3
  <2>3. k \in Nat /\ r \in Nat /\ r < NSEC_PER_SEC /\ -ts.nsec = (NSEC_PER_SEC * k) + r
    BY <2>2, DivMod
  <2> HIDE DEF k, r
  <2>4. NSEC_PER_SEC * (ts.sec - k) = (NSEC_PER_SEC * ts.sec) - (NSEC_PER_SEC * k)
    BY <1>1, <2>3, Times
  <2>5. k * NSEC_PER_SEC = NSEC_PER_SEC * k /\ NSEC_PER_SEC * k \in Int
    BY <1>1, <2>3, Times
  <2>6. c.nsec = -r
    BY <1>1, <2>1, <2>3, <2>5
  <2>7. c \in Timespec
    BY <1>1, <2>1, <2>3, <2>5 DEF Timespec
  <2>8. Value(c) = Value(ts)
    BY <1>1, <2>1, <2>3, <2>4, <2>5, Times DEF Value
  <2>9. -NSEC_PER_SEC < c.nsec /\ c.nsec <= NSEC_PER_SEC
    BY <1>1, <2>3, <2>6
  <2> QED
    BY <2>7, <2>8, <2>9, SameSignIsRight DEF LuaNormalize
<1>4. CASE ~(ts.nsec > NSEC_PER_SEC) /\ ~(ts.nsec <= -NSEC_PER_SEC)
  <2>1. c = ts
    BY <1>4 DEF LuaCarry
  <2>2. -NSEC_PER_SEC < ts.nsec /\ ts.nsec <= NSEC_PER_SEC
    BY <1>1, <1>4
  <2> QED
    BY <2>1, <2>2, SameSignIsRight DEF LuaNormalize
<1> QED
  BY <1>2, <1>3, <1>4

(* ubx_ts_sub and ubx_ts_add are subtraction and addition of lengths of    *)
(* time, for any two records, normal or not.                               *)
THEOREM SubAddRight ==
  ASSUME NEW t1 \in Timespec, NEW t2 \in Timespec
  PROVE  /\ Sub(t1, t2) \in Timespec /\ Normal(Sub(t1, t2))
         /\ Value(Sub(t1, t2)) = Value(t1) - Value(t2)
         /\ Add(t1, t2) \in Timespec /\ Normal(Add(t1, t2))
         /\ Value(Add(t1, t2)) = Value(t1) + Value(t2)
<1> DEFINE d == [sec |-> t1.sec - t2.sec, nsec |-> t1.nsec - t2.nsec]
           s == [sec |-> t1.sec + t2.sec, nsec |-> t1.nsec + t2.nsec]
<1>1. /\ t1.sec \in Int /\ t1.nsec \in Int /\ t2.sec \in Int /\ t2.nsec \in Int
      /\ NSEC_PER_SEC \in Nat
  BY NsecAssumption DEF Timespec
<1>2. d \in Timespec /\ s \in Timespec
  BY <1>1 DEF Timespec
<1>3. Value(d) = Value(t1) - Value(t2)
  BY <1>1, Times DEF Value
<1>4. Value(s) = Value(t1) + Value(t2)
  BY <1>1, Times DEF Value
<1>5. Sub(t1, t2) = Norm(d) /\ Add(t1, t2) = Norm(s)
  BY DEF Sub, Add
<1> HIDE DEF d, s
<1> QED
  BY <1>2, <1>3, <1>4, <1>5, NormIsRight

(* ubx_ts_cmp, which compares the parts one after the other, orders normal *)
(* records by the length of time they stand for.                           *)
THEOREM CmpIsOrder ==
  ASSUME NEW t1 \in Timespec, NEW t2 \in Timespec, Normal(t1), Normal(t2)
  PROVE  /\ Cmp(t1, t2) = 1 <=> Value(t1) > Value(t2)
         /\ Cmp(t1, t2) = -1 <=> Value(t1) < Value(t2)
         /\ Cmp(t1, t2) = 0 <=> t1 = t2
<1>1. /\ t1.sec \in Int /\ t1.nsec \in Int /\ t2.sec \in Int /\ t2.nsec \in Int
      /\ NSEC_PER_SEC \in Nat /\ NSEC_PER_SEC > 0
      /\ t1 = [sec |-> t1.sec, nsec |-> t1.nsec]
      /\ t2 = [sec |-> t2.sec, nsec |-> t2.nsec]
  BY NsecAssumption DEF Timespec
<1>2. ASSUME NEW a \in Timespec, NEW b \in Timespec, Normal(a), Normal(b), a.sec > b.sec
      PROVE  Value(a) > Value(b)
  <2>1. a.sec \in Int /\ a.nsec \in Int /\ b.sec \in Int /\ b.nsec \in Int
    BY DEF Timespec
  <2>2. (NSEC_PER_SEC * b.sec) + NSEC_PER_SEC <= NSEC_PER_SEC * a.sec
    BY <1>2, <2>1, Times
  <2> DEFINE p == NSEC_PER_SEC * a.sec
             q == NSEC_PER_SEC * b.sec
  <2>3. p \in Int /\ q \in Int /\ Value(a) = p + a.nsec /\ Value(b) = q + b.nsec
    BY <2>1, Times DEF Value
  <2>4. q + NSEC_PER_SEC <= p
    BY <2>2
  <2>5. a.nsec > b.nsec - NSEC_PER_SEC
    BY <1>1, <1>2, <2>1 DEF Normal
  <2> HIDE DEF p, q
  <2> QED
    BY <1>1, <2>1, <2>3, <2>4, <2>5
<1>3. Value(t1) \in Int /\ Value(t2) \in Int
  <2>1. NSEC_PER_SEC * t1.sec \in Int /\ NSEC_PER_SEC * t2.sec \in Int
    BY <1>1, Times
  <2> QED
    BY <1>1, <2>1 DEF Value
<1>4. CASE t1.sec > t2.sec
  <2>1. Value(t1) > Value(t2)
    BY <1>2, <1>4
  <2>2. Cmp(t1, t2) = 1 /\ t1 # t2
    BY <1>1, <1>4 DEF Cmp
  <2> QED
    BY <1>3, <2>1, <2>2
<1>5. CASE t1.sec < t2.sec
  <2>1. Value(t2) > Value(t1)
    BY <1>1, <1>2, <1>5
  <2>2. Cmp(t1, t2) = -1 /\ t1 # t2
    BY <1>1, <1>5 DEF Cmp
  <2> QED
    BY <1>3, <2>1, <2>2
<1>6. CASE t1.sec = t2.sec
  <2>1. /\ Value(t1) > Value(t2) <=> t1.nsec > t2.nsec
        /\ Value(t1) < Value(t2) <=> t1.nsec < t2.nsec
    <3> DEFINE p == NSEC_PER_SEC * t1.sec
    <3>1. p \in Int /\ Value(t1) = p + t1.nsec /\ Value(t2) = p + t2.nsec
      BY <1>1, <1>6, Times DEF Value
    <3> HIDE DEF p
    <3> QED
      BY <1>1, <3>1
  <2>2. /\ Cmp(t1, t2) = 1 <=> t1.nsec > t2.nsec
        /\ Cmp(t1, t2) = -1 <=> t1.nsec < t2.nsec
        /\ Cmp(t1, t2) = 0 <=> t1.nsec = t2.nsec
    BY <1>1, <1>6 DEF Cmp
  <2>3. t1.nsec = t2.nsec <=> t1 = t2
    BY <1>1, <1>6
  <2> QED
    BY <2>1, <2>2, <2>3
<1> QED
  BY <1>1, <1>4, <1>5, <1>6

----------------------------------------------------------------------------
(* The values set_config lays over a list, and the clock's records.        *)
LEMMA OverlayType ==
  ASSUME NEW old \in Seq(Entry), NEW val \in Seq(Entry)
  PROVE  Overlay(old, val) \in Seq(Entry)
<1> DEFINE n == IF Len(val) > Len(old) THEN Len(val) ELSE Len(old)
<1>1. n \in Nat
  OBVIOUS
<1>2. ASSUME NEW k \in 1..n
      PROVE  (IF k <= Len(val) THEN val[k] ELSE old[k]) \in Entry
  OBVIOUS
<1>3. Overlay(old, val) \in [1..n -> Entry]
  BY <1>2 DEF Overlay
<1> HIDE DEF n
<1> QED
  BY <1>1, <1>3

LEMMA TimeOfRight ==
  ASSUME NEW t \in Nat
  PROVE  TimeOf(t) \in Timespec /\ Value(TimeOf(t)) = t
<1>1. /\ t \div NSEC_PER_SEC \in Nat /\ t % NSEC_PER_SEC \in Nat
      /\ t = (NSEC_PER_SEC * (t \div NSEC_PER_SEC)) + (t % NSEC_PER_SEC)
  BY DivMod
<1> QED
  BY <1>1 DEF TimeOf, Timespec, Value

LEMMA FarType == Far \in Nat
BY SMT DEF Far

(* A round's length, as do_trigger computes it from two readings of the    *)
(* clock: normal, right, and shorter than the min that trig_init sets.     *)
LEMMA Duration ==
  ASSUME NEW s \in Nat, NEW e \in Nat, s <= e, e <= MaxNow
  PROVE  LET dur == Sub(TimeOf(e), TimeOf(s)) IN
         /\ dur \in Timespec /\ Normal(dur) /\ Value(dur) = e - s
         /\ dur.sec < Far
<1> DEFINE dur == Sub(TimeOf(e), TimeOf(s))
<1>1. dur \in Timespec /\ Normal(dur) /\ Value(dur) = e - s
  BY TimeOfRight, SubAddRight
<1> HIDE DEF dur
<1>2. dur.sec < Far
  <2> DEFINE q == MaxNow \div NSEC_PER_SEC
             r == MaxNow % NSEC_PER_SEC
  <2>1. /\ NSEC_PER_SEC \in Nat /\ NSEC_PER_SEC > 0 /\ MaxNow \in Nat
        /\ dur.sec \in Int /\ dur.nsec \in Int
    BY <1>1, NsecAssumption, TrigAssumption DEF Timespec
  <2>2. q \in Nat /\ r \in Nat /\ r < NSEC_PER_SEC /\ MaxNow = (NSEC_PER_SEC * q) + r
    BY <2>1, DivMod
  <2>3. q < Far
    BY TrigAssumption
  <2> HIDE DEF q, r
  <2>4. SUFFICES ASSUME dur.sec > q PROVE FALSE
    BY <2>1, <2>2, <2>3, FarType
  <2> DEFINE a == NSEC_PER_SEC * q
             b == NSEC_PER_SEC * dur.sec
  <2>5. a \in Int /\ b \in Int /\ a + NSEC_PER_SEC <= b
    BY <2>1, <2>2, <2>4, Times
  <2>6. b + dur.nsec <= a + r
    BY <1>1, <2>2 DEF Value
  <2>7. dur.nsec >= 0
    BY <1>1, <2>1, <2>2, <2>4 DEF Normal
  <2> HIDE DEF a, b
  <2> QED
    BY <2>1, <2>2, <2>5, <2>6, <2>7
<1> QED
  BY <1>1, <1>2 DEF dur

----------------------------------------------------------------------------
(* The inductive invariant: a running round began at some earlier time,    *)
(* and before the first round min is what trig_init made it.               *)
StatsInv ==
  /\ TrigTypeOK
  /\ StatsRight
  /\ round.on => round.start <= now
  /\ state # "preinit" /\ hist.cnt = 0 => stats.min = FreshStats.min

LEMMA FreshIsRight ==
  /\ FreshStats \in [min : Timespec, max : Timespec, total : Timespec, cnt : Nat]
  /\ Normal(Zero) /\ Value(Zero) = 0
BY NsecAssumption, FarType DEF FreshStats, Zero, Timespec, Normal, Value

LEMMA InitStats == TrigInitial => StatsInv
<1> SUFFICES ASSUME TrigInitial PROVE StatsInv
  OBVIOUS
<1>1. conf \in [gen : Nat, list : Seq(Entry)]
  <2>1. [b |-> NULL, num_steps |-> 0] \in Entry
    BY DEF Entry
  <2> HIDE DEF Entry
  <2>2. <<[b |-> NULL, num_steps |-> 0]>> \in Seq(Entry)
    BY <2>1
  <2> QED
    BY <2>2 DEF TrigInitial
<1>2. TrigTypeOK
  BY <1>1, FreshIsRight, TrigAssumption DEF TrigInitial, TrigTypeOK, NoRound, NoRounds
<1>3. round.on = FALSE /\ state = "preinit"
  BY DEF TrigInitial, NoRound
<1> QED
  BY <1>2, <1>3 DEF StatsInv, StatsRight

(* The statistics after a completed round, from those before it.           *)
LEMMA MeasuredIsRight ==
  ASSUME StatsInv, RoundEnd
  PROVE  /\ stats' \in [min : Timespec, max : Timespec, total : Timespec, cnt : Nat]
         /\ hist' \in [cnt : Nat, sum : Nat, least : Nat, greatest : Nat]
         /\ hist'.cnt # 0
         /\ StatsRight'
<1> DEFINE dur == Sub(TimeOf(now), TimeOf(round.start))
           d == now - round.start
<1>1. /\ dur \in Timespec /\ Normal(dur) /\ Value(dur) = d
      /\ dur.sec < Far /\ d \in Nat
  <2>1. /\ round.start \in Nat /\ now \in Nat /\ now <= MaxNow
        /\ round.start <= now
    BY TrigAssumption DEF StatsInv, TrigTypeOK, RoundEnd
  <2>2. d \in Nat
    BY <2>1
  <2> QED
    BY <2>1, <2>2, Duration
<1>2. stats' = Measured(dur) /\ state' = state
  BY DEF RoundEnd
<1>3. hist' = [cnt      |-> hist.cnt + 1,
               sum      |-> hist.sum + d,
               least    |-> IF hist.cnt = 0 \/ d < hist.least THEN d ELSE hist.least,
               greatest |-> IF d > hist.greatest THEN d ELSE hist.greatest]
  BY DEF RoundEnd
<1> HIDE DEF dur, d
<1>4. /\ stats \in [min : Timespec, max : Timespec, total : Timespec, cnt : Nat]
      /\ hist \in [cnt : Nat, sum : Nat, least : Nat, greatest : Nat]
  BY DEF StatsInv, TrigTypeOK
<1>5. /\ Add(stats.total, dur) \in Timespec
      /\ Normal(Add(stats.total, dur))
      /\ Value(Add(stats.total, dur)) = Value(stats.total) + Value(dur)
  BY <1>1, <1>4, SubAddRight
<1>6. /\ stats' \in [min : Timespec, max : Timespec, total : Timespec, cnt : Nat]
      /\ hist' \in [cnt : Nat, sum : Nat, least : Nat, greatest : Nat]
      /\ hist'.cnt # 0
  BY <1>1, <1>2, <1>3, <1>4, <1>5 DEF Measured
<1>7. ASSUME state # "preinit"
      PROVE  /\ stats'.cnt = hist'.cnt
             /\ Normal(stats'.total) /\ Value(stats'.total) = hist'.sum
             /\ Normal(stats'.max) /\ Value(stats'.max) = hist'.greatest
             /\ Normal(stats'.min) /\ Value(stats'.min) = hist'.least
  <2>1. /\ stats.cnt = hist.cnt
        /\ Normal(stats.total) /\ Value(stats.total) = hist.sum
        /\ Normal(stats.max) /\ Value(stats.max) = hist.greatest
        /\ stats.cnt > 0 => Normal(stats.min) /\ Value(stats.min) = hist.least
        /\ hist.cnt = 0 => stats.min = FreshStats.min
    BY <1>7 DEF StatsInv, StatsRight
  <2>2. /\ stats'.cnt = hist'.cnt
        /\ Normal(stats'.total) /\ Value(stats'.total) = hist'.sum
    BY <1>1, <1>2, <1>3, <1>4, <1>5, <2>1 DEF Measured
  <2>3. Normal(stats'.max) /\ Value(stats'.max) = hist'.greatest
    <3>1. Cmp(dur, stats.max) = 1 <=> d > hist.greatest
      BY <1>1, <1>4, <2>1, CmpIsOrder
    <3> QED
      BY <1>1, <1>2, <1>3, <2>1, <3>1 DEF Measured
  <2>4. CASE hist.cnt = 0
    <3>1. Cmp(dur, stats.min) = -1
      BY <1>1, <2>1, <2>4, FarType DEF Cmp, FreshStats, Timespec
    <3> QED
      BY <1>1, <1>2, <1>3, <2>2, <2>3, <2>4, <3>1 DEF Measured
  <2>5. CASE hist.cnt # 0
    <3>1. Normal(stats.min) /\ Value(stats.min) = hist.least
      BY <1>4, <2>1, <2>5
    <3>2. Cmp(dur, stats.min) = -1 <=> d < hist.least
      BY <1>1, <1>4, <3>1, CmpIsOrder
    <3> QED
      BY <1>1, <1>2, <1>3, <2>2, <2>3, <2>5, <3>1, <3>2 DEF Measured
  <2> QED
    BY <2>4, <2>5
<1> QED
  BY <1>2, <1>6, <1>7 DEF StatsRight

LEMMA NextStats == StatsInv /\ [TrigNext]_trigVars => StatsInv'
<1> SUFFICES ASSUME StatsInv, [TrigNext]_trigVars PROVE StatsInv'
  OBVIOUS
<1> USE DEF StatsInv
<1>1. CASE SetConfig
  <2>1. PICK val \in Lists :
          conf' = [gen |-> IF Len(val) > Len(conf.list) THEN conf.gen + 1 ELSE conf.gen,
                   list |-> Overlay(conf.list, val)]
    BY <1>1 DEF SetConfig
  <2>2. Overlay(conf.list, val) \in Seq(Entry)
    BY OverlayType, TrigAssumption DEF TrigTypeOK
  <2>3. conf' \in [gen : Nat, list : Seq(Entry)]
    BY <2>1, <2>2 DEF TrigTypeOK
  <2> QED
    BY <1>1, <2>3 DEF SetConfig, TrigTypeOK, StatsRight
<1>2. CASE TrigInit
  BY <1>2, FreshIsRight DEF TrigInit, TrigTypeOK, StatsRight, NoRounds, FreshStats
<1>3. CASE TrigStart
  BY <1>3 DEF TrigStart, TrigTypeOK, StatsRight
<1>4. CASE TrigStop
  BY <1>4 DEF TrigStop, TrigTypeOK, StatsRight
<1>5. CASE TrigCleanup
  BY <1>5 DEF TrigCleanup, TrigTypeOK, StatsRight
<1>6. CASE \E b \in ListedBlocks : Toggle(b)
  BY <1>6 DEF Toggle, TrigTypeOK, StatsRight
<1>7. CASE RoundBegin
  BY <1>7 DEF RoundBegin, TrigTypeOK, StatsRight
<1>8. CASE NextEntry
  <2>1. round' \in [on : BOOLEAN, i : Nat, steps : Nat, start : Nat]
    BY <1>8 DEF NextEntry, At, TrigTypeOK
  <2>2. round'.start = round.start /\ round.on
    BY <1>8 DEF NextEntry, At, TrigTypeOK
  <2> QED
    BY <1>8, <2>1, <2>2 DEF NextEntry, TrigTypeOK, StatsRight
<1>9. CASE StepBlock
  <2>1. now' \in 0..MaxNow /\ now <= now'
    BY <1>9, TrigAssumption DEF StepBlock, TrigTypeOK
  <2>2. round' \in [on : BOOLEAN, i : Nat, steps : Nat, start : Nat]
    <3>1. CASE CurrentEntry.b \in active
      <4>1. round' = At(round.i, round.steps + 1)
        BY <1>9, <3>1 DEF StepBlock
      <4> QED
        BY <4>1 DEF At, TrigTypeOK
    <3>2. CASE CurrentEntry.b \notin active
      <4>1. round' = NoRound
        BY <1>9, <3>2 DEF StepBlock
      <4>2. NoRound \in [on : BOOLEAN, i : Nat, steps : Nat, start : Nat]
        BY DEF NoRound
      <4> QED
        BY <4>1, <4>2
    <3> QED
      BY <3>1, <3>2
  <2>3. round'.on => round'.start <= now'
    <3>1. CASE CurrentEntry.b \in active
      <4>1. round' = At(round.i, round.steps + 1) /\ round.on
        BY <1>9, <3>1 DEF StepBlock
      <4>2. round'.start = round.start
        BY <4>1 DEF At, TrigTypeOK
      <4>3. round.start <= now /\ round.start \in Nat /\ now \in Nat /\ now' \in Nat
        BY <2>1, <4>1, TrigAssumption DEF TrigTypeOK
      <4> QED
        BY <2>1, <4>2, <4>3
    <3>2. CASE CurrentEntry.b \notin active
      BY <1>9, <3>2 DEF StepBlock, NoRound
    <3> QED
      BY <3>1, <3>2
  <2> QED
    BY <1>9, <2>1, <2>2, <2>3 DEF StepBlock, TrigTypeOK, StatsRight
<1>10. CASE RoundEnd
  <2>1. round' = NoRound /\ UNCHANGED <<state, active, conf, trig_list, now>>
    BY <1>10 DEF RoundEnd
  <2>2. TrigTypeOK'
    BY <1>10, <2>1, MeasuredIsRight DEF TrigTypeOK, NoRound
  <2> QED
    BY <1>10, <2>1, <2>2, MeasuredIsRight DEF NoRound
<1>11. CASE UNCHANGED trigVars
  BY <1>11 DEF trigVars, TrigTypeOK, StatsRight
<1> QED
  BY <1>1, <1>2, <1>3, <1>4, <1>5, <1>6, <1>7, <1>8, <1>9, <1>10, <1>11 DEF TrigNext

(* The trigger's statistics are those of its completed rounds, whatever    *)
(* order of rounds, stops, starts, failures and reconfigurations.          *)
THEOREM StatsAreRight == TrigSpec => []StatsRight
<1>1. StatsInv => StatsRight
  BY DEF StatsInv
<1> QED
  BY <1>1, InitStats, NextStats, PTL DEF TrigSpec

(* Every variable of the trigger keeps its type.                           *)
THEOREM TrigTypeCorrect == TrigSpec => []TrigTypeOK
<1>1. StatsInv => TrigTypeOK
  BY DEF StatsInv
<1> QED
  BY <1>1, InitStats, NextStats, PTL DEF TrigSpec

----------------------------------------------------------------------------
(* The list an active trigger points into is the configured one.           *)
THEOREM ListStaysLive == TrigSpec => []ListLive
<1>1. TrigInitial => ListLive
  BY DEF TrigInitial, ListLive
<1>2. ListLive /\ [TrigNext]_trigVars => ListLive'
  BY DEF ListLive, TrigNext, trigVars, SetConfig, TrigInit, TrigStart, TrigStop, TrigCleanup,
         Toggle, RoundBegin, NextEntry, StepBlock, RoundEnd
<1> QED
  BY <1>1, <1>2, PTL DEF TrigSpec

(* The list and the statistics of a passive trigger are right (trig.c).    *)
THEOREM TriggerIsRight == TrigSpec => []TriggerRight
<1>1. StatsRight /\ ListLive => TriggerRight
  BY DEF TriggerRight
<1> QED
  BY <1>1, StatsAreRight, ListStaysLive, PTL

-----------------------------------------------------------------------------
(***************************************************************************)
(* Planner. PlansRight follows from PlanInv, the conjunction of the type   *)
(* invariant and four parts: a buffer is empty until it is started; the    *)
(* two buffers between two blocks hold the same samples but in the middle  *)
(* of the two writes and of the two reads; the samples on their way are in *)
(* order; and how old they can be at every operation of a round, as a      *)
(* function of the number of whole rounds since the last disturbance.      *)
(***************************************************************************)

(* The block that a trigger has come to, and the operation of it.          *)
B(t) == IF at[t] = AtRest THEN "none" ELSE Block(t)
O(t) == at[t].op
On(t, b, o) == B(t) = b /\ O(t) = o

Pushed(q, v) == IF Len(q) = Size THEN Append(Tail(q), v) ELSE Append(q, v)

(* A buffer is empty until it is started, and main starts them all.        *)
StartedInv ==
  /\ \A f \in Buffers : f \notin running => buf[f] = <<>>
  /\ \A i \in 1 .. started : Order[i] \in Buffers => Order[i] \in running

(* The two buffers between block b and block c: first is written first and *)
(* read second. They hold the same but in the middle of the two writes and *)
(* of the two reads.                                                       *)
InStep(first, second, b, c) == lost \cap {first, second} = {} =>
  /\ (\A t \in TriggerBlocks : ~ On(t, b, 5) /\ ~ On(t, c, 2)) =>
       buf[first] = buf[second]
  /\ \A t \in TriggerBlocks :
       /\ On(t, b, 5) => buf[first] = Pushed(buf[second], out[b])
       /\ On(t, c, 2) => IF buf[first] = <<>>
                         THEN in[second] = Junk /\ buf[second] = <<>>
                         ELSE /\ in[second] = Head(buf[first])
                              /\ buf[second] = Tail(buf[first])
       /\ On(t, c, 3) => in[second] = in[first]
PairInv ==
  /\ InStep("wayPoints", "costTable", "waypoints_gen", "path_finding")
  /\ InStep("nValidNodes", "pathWayPoints", "path_finding", "path_handler")

(* The samples on the way through the pipeline, the oldest first. *)
Upto(a, b)    == b.gen # 0 => a.gen <= b.gen
Before(a, q)  == \A i \in DOMAIN q : Upto(a, q[i])
Behind(q, a)  == \A i \in DOMAIN q : Upto(q[i], a)
Sorted(q)     == \A i, j \in DOMAIN q : i < j => Upto(q[i], q[j])
GensUpTo(q, n) == \A i \in DOMAIN q : q[i].gen <= n
InChain(tg, ip, p, of, iw, w, og, n) ==
  /\ Upto(tg, ip) /\ Before(tg, p) /\ Upto(tg, of)
  /\ Upto(tg, iw) /\ Before(tg, w) /\ Upto(tg, og)
  /\ Before(ip, p) /\ Upto(ip, of) /\ Upto(ip, iw) /\ Before(ip, w) /\ Upto(ip, og)
  /\ Sorted(p) /\ Behind(p, of) /\ Behind(p, iw)
  /\ (\A i \in DOMAIN p : Before(p[i], w)) /\ Behind(p, og)
  /\ Upto(of, iw) /\ Before(of, w) /\ Upto(of, og)
  /\ Before(iw, w) /\ Upto(iw, og)
  /\ Sorted(w) /\ Behind(w, og)
  /\ tg.gen <= n /\ ip.gen <= n /\ GensUpTo(p, n)
  /\ of.gen <= n /\ iw.gen <= n /\ GensUpTo(w, n) /\ og.gen <= n
OrderInv ==
  InChain(target, in["pathWayPoints"], buf["pathWayPoints"], out["path_finding"],
          in["wayPoints"], buf["wayPoints"], out["waypoints_gen"], gens)

(* A buffer holds the last samples, up to number n; the newest depth ones  *)
(* of its samples are not older than slack and their distance from the end.*)
GensLast(q, n)  == \A i \in DOMAIN q : q[i].gen + (Len(q) - i) = n
ScansLast(q, n) == \A i \in DOMAIN q : q[i].scan + (Len(q) - i) = n
GensWithin(q, n, depth, slack) == \A i \in DOMAIN q :
  Len(q) - i < depth => q[i].gen + slack + (Len(q) - i) >= n
ScansWithin(q, n, depth, slack) == \A i \in DOMAIN q :
  Len(q) - i < depth => q[i].scan = 0 \/ q[i].scan + slack + (Len(q) - i) >= n

(* Which of the steps of the round have been made when a trigger is at     *)
(* operation o of block b, and how many whole rounds there have been since *)
(* all blocks were started and none was given up.                          *)
Num(p)          == IF p THEN 1 ELSE 0
Clustered(b, o) == (b = "k_means_plus" /\ o > 1)
                     \/ b \in {"waypoints_gen", "path_finding", "path_handler"}
Generated(b, o) == (b = "waypoints_gen" /\ o > 3) \/ b \in {"path_finding", "path_handler"}
WaySent(b, o)   == (b = "waypoints_gen" /\ o = 5) \/ b \in {"path_finding", "path_handler"}
PathSent(b)     == b = "path_handler"
Age             == IF started = Len(Order) THEN steady ELSE 0

(* How old the plans are, age rounds after the last disturbance. The       *)
(* buffer of way points holds the last steps of waypoints_gen, and what    *)
(* the buffer of paths holds was computed in the last rounds.              *)
GenAt(b, o, age, n, outG, W, inW, outF, P, inP) ==
  /\ b = "waypoints_gen" /\ o > 3 => outG.gen = n
  /\ GensLast(W, n - Num(b = "waypoints_gen" /\ o = 4))
  /\ age > 0 =>
       /\ (b = "waypoints_gen" /\ o = 5) \/ (b = "path_finding" /\ o < 3) => W # <<>>
       /\ b = "path_finding" /\ o > 2 => inW.gen + (Size - 1) >= n
       /\ b = "path_finding" /\ o > 3 => outF.gen + (Size - 1) >= n
       /\ b = "path_handler" /\ o = 1 => P # <<>>
  /\ GensWithin(P, n, age - 1 + Num(PathSent(b)),
                (Size - 1) + Num(Generated(b, o)) - Num(PathSent(b)))
  /\ age = Settled /\ b = "path_handler" /\ o > 1 => inP.gen + 2 * (Size - 1) >= n

(* The same for the scans, of which there is none or one in a round. *)
Recent(s, n, slack) == s.scan = 0 \/ s.scan + slack >= n
ScanAt(b, o, age, n, outK, C, inC, outG, W, inW, outF, P, inP) ==
  /\ b = "k_means_plus" /\ o = 2 => outK.scan = n
  /\ ScansLast(C, n - Num(b = "k_means_plus" /\ o = 2))
  /\ b = "waypoints_gen" /\ o \in {2, 3} => Recent(inC, n, Size - 1)
  /\ b = "waypoints_gen" /\ o > 3 => Recent(outG, n, Size - 1)
  /\ ScansWithin(W, n, age + Num(WaySent(b, o)),
                 (Size - 1) + Num(Clustered(b, o)) - Num(WaySent(b, o)))
  /\ b = "path_finding" /\ o > 2 /\ age >= Size - 1 => Recent(inW, n, 2 * (Size - 1))
  /\ b = "path_finding" /\ o > 3 /\ age >= Size - 1 => Recent(outF, n, 2 * (Size - 1))
  /\ ScansWithin(P, n, age - (Size - 1) + Num(PathSent(b)),
                 2 * (Size - 1) + Num(Clustered(b, o)) - Num(PathSent(b)))
  /\ age = Settled /\ b = "path_handler" /\ o > 1 => Recent(inP, n, 3 * (Size - 1))

GenInv(t) ==
  GenAt(B(t), O(t), Age, gens, out["waypoints_gen"], buf["wayPoints"], in["wayPoints"],
        out["path_finding"], buf["pathWayPoints"], in["pathWayPoints"])
ScanInv(t) ==
  ScanAt(B(t), O(t), Age, scans, out["k_means_plus"], buf["centers"], in["centers"],
         out["waypoints_gen"], buf["wayPoints"], in["wayPoints"],
         out["path_finding"], buf["pathWayPoints"], in["pathWayPoints"])
RecentInv == \A t \in TriggerBlocks : Rounds[t] = WholeRound => GenInv(t) /\ ScanInv(t)

PlanInv == PlanTypeOK /\ StartedInv /\ PairInv /\ OrderInv /\ RecentInv

-----------------------------------------------------------------------------
Others(t) == \A u \in TriggerBlocks \ {t} : B(u)' = B(u) /\ O(u)' = O(u)
Counted == steady' = IF steady < Settled THEN steady + 1 ELSE steady

(* Trigger t is through with its block. *)
MovedOn(t) ==
  /\ Others(t)
  /\ \/ B(t)' = "none" /\ steady' = 0
     \/ B(t)' = "none" /\ (B(t) = "path_handler" \/ Rounds[t] = ScanRound) /\ Counted
     \/ B(t) = "k_means_plus" /\ B(t)' = "waypoints_gen" /\ O(t)' = 1 /\ steady' = steady
     \/ B(t) = "waypoints_gen" /\ B(t)' = "path_finding" /\ O(t)' = 1 /\ steady' = steady
     \/ B(t) = "path_finding" /\ B(t)' = "path_handler" /\ O(t)' = 1 /\ steady' = steady
NextOpOf(t, b, o) == B(t)' = b /\ O(t)' = o /\ steady' = steady /\ Others(t)

(* What the blocks read and write, in words the provers can use. *)
LEMMA Tables ==
  /\ Reads["k_means_plus"] = <<>> /\ Writes["path_handler"] = <<>>
  /\ Reads["waypoints_gen"] = <<"centers", "nCenters">>
  /\ Reads["path_finding"] = <<"costTable", "wayPoints">>
  /\ Reads["path_handler"] = <<"pathWayPoints", "nValidNodes">>
  /\ Writes["k_means_plus"] = <<"centers", "nCenters">>
  /\ Writes["waypoints_gen"] = <<"wayPoints", "costTable">>
  /\ Writes["path_finding"] = <<"nValidNodes", "pathWayPoints">>
  /\ DOMAIN Reads = Computations /\ DOMAIN Writes = Computations
BY DEF Reads, Writes, Computations

(* How many ports that is. *)
LEMMA TableLens ==
  /\ Len(Reads["k_means_plus"]) = 0 /\ Len(Writes["path_handler"]) = 0
  /\ Len(Reads["waypoints_gen"]) = 2 /\ Len(Reads["path_finding"]) = 2
  /\ Len(Reads["path_handler"]) = 2 /\ Len(Writes["k_means_plus"]) = 2
  /\ Len(Writes["waypoints_gen"]) = 2 /\ Len(Writes["path_finding"]) = 2
BY Tables

(* Where a trigger can be. *)
LEMMA Places ==
  ASSUME PlanTypeOK, ScriptsAssumption, NEW t \in TriggerBlocks
  PROVE  /\ Rounds[t] \in {WholeRound, PlanRound, ScanRound}
         /\ B(t) \in Computations \cup {"none"}
         /\ B(t) = "none" <=> at[t] = AtRest
         /\ B(t) # "none" =>
              /\ at[t].block \in 1 .. Len(Rounds[t]) /\ B(t) = Rounds[t][at[t].block]
              /\ B(t) = Block(t) /\ O(t) \in Nat /\ O(t) >= 1
         /\ B(t) = "k_means_plus" => O(t) \in 1 .. 3
         /\ B(t) = "waypoints_gen" => O(t) \in 1 .. 5
         /\ B(t) = "path_finding" => O(t) \in 1 .. 5
         /\ B(t) = "path_handler" => O(t) \in 1 .. 3
<1>1. Rounds[t] \in {WholeRound, PlanRound, ScanRound}
  BY DEF PlanTypeOK, ScriptsAssumption, Rounds, TriggerBlocks
<1>2. CASE at[t] = AtRest
  BY <1>1, <1>2 DEF B
<1>3. CASE at[t] # AtRest
  <2>1. /\ at[t].block \in DOMAIN Rounds[t]
        /\ at[t].op \in 1 .. Len(Reads[Rounds[t][at[t].block]]) + 1
                              + Len(Writes[Rounds[t][at[t].block]])
    BY <1>3 DEF PlanTypeOK
  <2>2. DOMAIN Rounds[t] = 1 .. Len(Rounds[t])
    BY <1>1 DEF WholeRound, PlanRound, ScanRound
  <2>3. Rounds[t][at[t].block] \in Computations
    BY <1>1, <2>1, <2>2 DEF WholeRound, PlanRound, ScanRound, Computations
  <2>4. B(t) = Rounds[t][at[t].block] /\ O(t) = at[t].op /\ B(t) = Block(t)
    BY <1>3 DEF B, O, Block
  <2>5. B(t) # "none"
    BY <2>3, <2>4 DEF Computations
  <2>6. O(t) \in 1 .. Len(Reads[B(t)]) + 1 + Len(Writes[B(t)])
    BY <2>1, <2>4
  <2>7. /\ B(t) = "k_means_plus" => O(t) \in 1 .. 3
        /\ B(t) = "waypoints_gen" => O(t) \in 1 .. 5
        /\ B(t) = "path_finding" => O(t) \in 1 .. 5
        /\ B(t) = "path_handler" => O(t) \in 1 .. 3
    <3>1. ASSUME B(t) = "k_means_plus" PROVE O(t) \in 1 .. 3
      BY <2>6, <3>1, TableLens
    <3>2. ASSUME B(t) = "waypoints_gen" PROVE O(t) \in 1 .. 5
      BY <2>6, <3>2, TableLens
    <3>3. ASSUME B(t) = "path_finding" PROVE O(t) \in 1 .. 5
      BY <2>6, <3>3, TableLens
    <3>4. ASSUME B(t) = "path_handler" PROVE O(t) \in 1 .. 3
      BY <2>6, <3>4, TableLens
    <3> QED BY <3>1, <3>2, <3>3, <3>4
  <2>8. O(t) \in Nat /\ O(t) >= 1
    BY <2>3, <2>4, <2>7 DEF Computations
  <2> QED BY <1>1, <1>3, <2>1, <2>2, <2>3, <2>4, <2>5, <2>7, <2>8
<1> QED BY <1>2, <1>3

(* A move of one trigger leaves the other ones where they are. *)
LEMMA OthersStay ==
  ASSUME PlanTypeOK, NEW t \in TriggerBlocks, script' = script, NEW v,
         at' = [at EXCEPT ![t] = v]
  PROVE  Others(t) /\ at'[t] = v
<1>1. at' \in [TriggerBlocks -> {at[u] : u \in TriggerBlocks} \cup {v}] /\ at'[t] = v
      /\ \A u \in TriggerBlocks \ {t} : at'[u] = at[u]
  BY DEF PlanTypeOK
<1> QED BY <1>1 DEF Others, B, O, Block, Rounds

(* Where a trigger can be after the last operation of a block. *)
LEMMA GoOnMoves ==
  ASSUME PlanTypeOK, ScriptsAssumption, NEW t \in TriggerBlocks, script' = script,
         at[t] # AtRest, GoOn(t, at[t].block)
  PROVE  MovedOn(t)
<1>1. B(t) # "none" /\ at[t].block \in 1 .. Len(Rounds[t]) /\ B(t) = Rounds[t][at[t].block]
      /\ Rounds[t] \in {WholeRound, PlanRound, ScanRound}
  BY Places
<1> DEFINE i == at[t].block
<1>2. CASE i < Len(Rounds[t]) /\ Rounds[t][i + 1] \in running
  <2>1. at' = [at EXCEPT ![t] = [block |-> i + 1, op |-> 1]] /\ steady' = steady
    BY <1>2 DEF GoOn
  <2>2. Others(t) /\ at'[t] = [block |-> i + 1, op |-> 1]
    BY <2>1, OthersStay
  <2>3. B(t)' = Rounds[t][i + 1] /\ O(t)' = 1
    BY <2>2, <1>1 DEF B, O, Block, AtRest, Rounds
  <2> QED
    BY <1>1, <1>2, <2>1, <2>2, <2>3 DEF MovedOn, WholeRound, PlanRound, ScanRound
<1>3. CASE ~ (i < Len(Rounds[t]) /\ Rounds[t][i + 1] \in running)
  <2>1. at' = [at EXCEPT ![t] = AtRest]
    BY <1>3 DEF GoOn
  <2>2. Others(t) /\ at'[t] = AtRest
    BY <2>1, OthersStay
  <2>3. B(t)' = "none"
    BY <2>2 DEF B
  <2>4. CASE i < Len(Rounds[t])
    BY <1>3, <2>2, <2>3, <2>4 DEF GoOn, MovedOn
  <2>5. CASE ~ (i < Len(Rounds[t]))
    <3>1. Counted
      BY <1>3, <2>5 DEF GoOn, Counted
    <3>2. B(t) = "path_handler" \/ Rounds[t] = ScanRound
      <4>1. CASE Rounds[t] = WholeRound
        BY <1>1, <2>5, <4>1 DEF WholeRound
      <4>2. CASE Rounds[t] = PlanRound
        BY <1>1, <2>5, <4>2 DEF PlanRound
      <4> QED BY <1>1, <4>1, <4>2
    <3> QED BY <2>2, <2>3, <3>1, <3>2 DEF MovedOn
  <2> QED BY <2>4, <2>5
<1> QED BY <1>2, <1>3

(* Where a trigger can be after any operation. *)
LEMMA NextOpMoves ==
  ASSUME PlanTypeOK, ScriptsAssumption, NEW t \in TriggerBlocks, script' = script,
         NextOp(t), NEW b \in Computations, NEW o \in Nat, On(t, b, o)
  PROVE  /\ o <= Len(Reads[b]) + Len(Writes[b]) =>
              B(t)' = b /\ O(t)' = o + 1 /\ steady' = steady /\ Others(t)
         /\ ~ (o <= Len(Reads[b]) + Len(Writes[b])) => MovedOn(t)
<1>0. B(t) = b /\ O(t) = o /\ at[t] # AtRest
  BY Places DEF On, Computations
<1>1. B(t) = Block(t) /\ O(t) = at[t].op /\ at[t].op \in Nat /\ at[t].block \in Nat
      /\ at[t].op >= 1
  BY <1>0, Places DEF O, PlanTypeOK
<1>2. CASE O(t) <= Len(Reads[B(t)]) + Len(Writes[B(t)])
  <2>1. at' = [at EXCEPT ![t].op = at[t].op + 1] /\ steady' = steady
    BY <1>1, <1>2 DEF NextOp
  <2>2. at' = [at EXCEPT ![t] = [at[t] EXCEPT !.op = at[t].op + 1]]
    BY <2>1
  <2>3. Others(t) /\ at'[t] = [at[t] EXCEPT !.op = at[t].op + 1]
    BY <2>2, OthersStay
  <2>4. at[t] \in [block : Nat, op : Nat]
    BY DEF PlanTypeOK
  <2>5. at'[t].block = at[t].block /\ at'[t].op = at[t].op + 1
    BY <2>3, <2>4
  <2>6. at'[t] # AtRest
    BY <2>5, <1>1 DEF AtRest
  <2>7. B(t)' = B(t) /\ O(t)' = O(t) + 1
    BY <2>5, <2>6, <1>1 DEF B, O, Block, Rounds
  <2> QED BY <1>2, <2>1, <2>3, <2>7, <1>0
<1>3. CASE ~ (O(t) <= Len(Reads[B(t)]) + Len(Writes[B(t)]))
  <2>1. GoOn(t, at[t].block)
    BY <1>1, <1>3 DEF NextOp
  <2> QED BY <1>0, <1>3, <2>1, GoOnMoves
<1> QED BY <1>2, <1>3

-----------------------------------------------------------------------------
(* The steps of a trigger, one by one. *)
ReadOf(t, b, o, f) ==
  /\ On(t, b, o) /\ NextOpOf(t, b, o + 1)
  /\ in' = [in EXCEPT ![f] = Received(f)[1]] /\ buf' = [buf EXCEPT ![f] = Received(f)[2]]
  /\ UNCHANGED <<script, running, started, out, target, scans, gens, stops, lost>>
WriteOf(t, b, o, f) ==
  /\ On(t, b, o) /\ buf' = [buf EXCEPT ![f] = Sent(f, out[b])]
  /\ lost' = IF f \in running THEN lost ELSE lost \cup {f}
  /\ UNCHANGED <<script, running, started, in, out, target, scans, gens, stops>>

(* The reads of a round. *)
LEMMA ReadCases ==
  ASSUME PlanTypeOK, ScriptsAssumption, NEW t \in TriggerBlocks, ReadPort(t)
  PROVE  \/ ReadOf(t, "waypoints_gen", 1, "centers")
         \/ ReadOf(t, "waypoints_gen", 2, "nCenters")
         \/ ReadOf(t, "path_finding", 1, "costTable")
         \/ ReadOf(t, "path_finding", 2, "wayPoints")
         \/ ReadOf(t, "path_handler", 1, "pathWayPoints")
         \/ ReadOf(t, "path_handler", 2, "nValidNodes")
<1>1. /\ at[t] # AtRest /\ O(t) \in DOMAIN Reads[B(t)] /\ script' = script
      /\ B(t) = Block(t) /\ O(t) = at[t].op /\ B(t) \in Computations
  BY Places DEF ReadPort, AtRead, O
<1>2. NextOp(t)
  BY DEF ReadPort
<1>3. B(t) \in {"waypoints_gen", "path_finding", "path_handler"} /\ O(t) \in {1, 2}
  BY <1>1, Tables DEF Computations
<1>4. \A b \in Computations : \A o \in Nat : On(t, b, o) =>
        (o <= Len(Reads[b]) + Len(Writes[b]) =>
           B(t)' = b /\ O(t)' = o + 1 /\ steady' = steady /\ Others(t))
  BY <1>1, <1>2, NextOpMoves
<1>5. B(t)' = B(t) /\ O(t)' = O(t) + 1 /\ steady' = steady /\ Others(t)
  <2>1. /\ Len(Reads[B(t)]) = 2 /\ Len(Writes[B(t)]) \in Nat
        /\ B(t) \in Computations /\ O(t) \in Nat /\ On(t, B(t), O(t))
    BY <1>1, <1>3, TableLens DEF On
  <2>2. O(t) <= Len(Reads[B(t)]) + Len(Writes[B(t)])
    BY <1>3, <2>1
  <2> QED BY <1>4, <2>1, <2>2
<1>6. LET f == Reads[B(t)][O(t)]
      IN  /\ in' = [in EXCEPT ![f] = Received(f)[1]]
          /\ buf' = [buf EXCEPT ![f] = Received(f)[2]]
          /\ UNCHANGED <<script, running, started, out, target, scans, gens, stops, lost>>
  BY <1>1 DEF ReadPort
<1>7. CASE On(t, "waypoints_gen", 1)
  <2>1. Reads[B(t)][O(t)] = "centers"
    BY <1>7, Tables DEF On
  <2> QED BY <1>7, <1>5, <1>6, <2>1 DEF ReadOf, NextOpOf, On
<1>8. CASE On(t, "waypoints_gen", 2)
  <2>1. Reads[B(t)][O(t)] = "nCenters"
    BY <1>8, Tables DEF On
  <2> QED BY <1>8, <1>5, <1>6, <2>1 DEF ReadOf, NextOpOf, On
<1>9. CASE On(t, "path_finding", 1)
  <2>1. Reads[B(t)][O(t)] = "costTable"
    BY <1>9, Tables DEF On
  <2> QED BY <1>9, <1>5, <1>6, <2>1 DEF ReadOf, NextOpOf, On
<1>10. CASE On(t, "path_finding", 2)
  <2>1. Reads[B(t)][O(t)] = "wayPoints"
    BY <1>10, Tables DEF On
  <2> QED BY <1>10, <1>5, <1>6, <2>1 DEF ReadOf, NextOpOf, On
<1>11. CASE On(t, "path_handler", 1)
  <2>1. Reads[B(t)][O(t)] = "pathWayPoints"
    BY <1>11, Tables DEF On
  <2> QED BY <1>11, <1>5, <1>6, <2>1 DEF ReadOf, NextOpOf, On
<1>12. CASE On(t, "path_handler", 2)
  <2>1. Reads[B(t)][O(t)] = "nValidNodes"
    BY <1>12, Tables DEF On
  <2> QED BY <1>12, <1>5, <1>6, <2>1 DEF ReadOf, NextOpOf, On
<1> QED BY <1>3, <1>7, <1>8, <1>9, <1>10, <1>11, <1>12 DEF On

(* The writes of a round. *)
LEMMA WriteCases ==
  ASSUME PlanTypeOK, ScriptsAssumption, NEW t \in TriggerBlocks, WritePort(t)
  PROVE  \/ /\ WriteOf(t, "k_means_plus", 2, "centers")
            /\ NextOpOf(t, "k_means_plus", 3)
         \/ WriteOf(t, "k_means_plus", 3, "nCenters") /\ MovedOn(t)
         \/ /\ WriteOf(t, "waypoints_gen", 4, "wayPoints")
            /\ NextOpOf(t, "waypoints_gen", 5)
         \/ WriteOf(t, "waypoints_gen", 5, "costTable") /\ MovedOn(t)
         \/ /\ WriteOf(t, "path_finding", 4, "nValidNodes")
            /\ NextOpOf(t, "path_finding", 5)
         \/ WriteOf(t, "path_finding", 5, "pathWayPoints") /\ MovedOn(t)
<1>1. /\ at[t] # AtRest /\ O(t) > Len(Reads[B(t)]) + 1 /\ script' = script
      /\ B(t) = Block(t) /\ O(t) = at[t].op /\ B(t) \in Computations
  BY Places DEF WritePort, AtWrite, O
<1>2. NextOp(t)
  BY DEF WritePort
<1>3. \/ B(t) = "k_means_plus" /\ O(t) \in {2, 3}
      \/ B(t) \in {"waypoints_gen", "path_finding"} /\ O(t) \in {4, 5}
  <2>1. CASE B(t) = "k_means_plus"
    BY <1>1, <2>1, Places, TableLens
  <2>2. CASE B(t) = "waypoints_gen"
    BY <1>1, <2>2, Places, TableLens
  <2>3. CASE B(t) = "path_finding"
    BY <1>1, <2>3, Places, TableLens
  <2>4. CASE B(t) = "path_handler"
    BY <1>1, <2>4, Places, TableLens
  <2> QED BY <1>1, <2>1, <2>2, <2>3, <2>4 DEF Computations
<1>4. LET f == Writes[B(t)][O(t) - Len(Reads[B(t)]) - 1]
      IN  /\ buf' = [buf EXCEPT ![f] = Sent(f, out[B(t)])]
          /\ lost' = IF f \in running THEN lost ELSE lost \cup {f}
          /\ UNCHANGED <<script, running, started, in, out, target, scans, gens, stops>>
  BY <1>1 DEF WritePort
<1>5. O(t) <= Len(Reads[B(t)]) + Len(Writes[B(t)]) =>
        B(t)' = B(t) /\ O(t)' = O(t) + 1 /\ steady' = steady /\ Others(t)
  <2>1. \A b \in Computations : \A o \in Nat : On(t, b, o) =>
          (o <= Len(Reads[b]) + Len(Writes[b]) =>
             B(t)' = b /\ O(t)' = o + 1 /\ steady' = steady /\ Others(t))
    BY <1>1, <1>2, NextOpMoves
  <2> QED BY <1>1, <1>3, <2>1 DEF On
<1>6. ~ (O(t) <= Len(Reads[B(t)]) + Len(Writes[B(t)])) => MovedOn(t)
  <2>1. \A b \in Computations : \A o \in Nat : On(t, b, o) =>
          (~ (o <= Len(Reads[b]) + Len(Writes[b])) => MovedOn(t))
    BY <1>1, <1>2, NextOpMoves
  <2> QED BY <1>1, <1>3, <2>1 DEF On
<1>7. ASSUME On(t, "k_means_plus", 2)
      PROVE  WriteOf(t, "k_means_plus", 2, "centers") /\ NextOpOf(t, "k_means_plus", 3)
  <2>1. Writes[B(t)][O(t) - Len(Reads[B(t)]) - 1] = "centers"
    BY <1>7, Tables, TableLens DEF On
  <2>2. Len(Reads[B(t)]) = 0 /\ Len(Writes[B(t)]) = 2 /\ O(t) = 2 /\ B(t) = "k_means_plus"
    BY <1>7, TableLens DEF On
  <2>3. NextOpOf(t, "k_means_plus", 3)
    BY <1>5, <2>2 DEF NextOpOf
  <2> QED BY <1>7, <1>4, <2>1, <2>2, <2>3 DEF WriteOf
<1>8. ASSUME On(t, "k_means_plus", 3)
      PROVE  WriteOf(t, "k_means_plus", 3, "nCenters") /\ MovedOn(t)
  <2>1. Writes[B(t)][O(t) - Len(Reads[B(t)]) - 1] = "nCenters"
    BY <1>8, Tables, TableLens DEF On
  <2>2. Len(Reads[B(t)]) = 0 /\ Len(Writes[B(t)]) = 2 /\ O(t) = 3 /\ B(t) = "k_means_plus"
    BY <1>8, TableLens DEF On
  <2>3. MovedOn(t)
    BY <1>6, <2>2 DEF NextOpOf
  <2> QED BY <1>8, <1>4, <2>1, <2>2, <2>3 DEF WriteOf
<1>9. ASSUME On(t, "waypoints_gen", 4)
      PROVE  WriteOf(t, "waypoints_gen", 4, "wayPoints") /\ NextOpOf(t, "waypoints_gen", 5)
  <2>1. Writes[B(t)][O(t) - Len(Reads[B(t)]) - 1] = "wayPoints"
    BY <1>9, Tables, TableLens DEF On
  <2>2. Len(Reads[B(t)]) = 2 /\ Len(Writes[B(t)]) = 2 /\ O(t) = 4 /\ B(t) = "waypoints_gen"
    BY <1>9, TableLens DEF On
  <2>3. NextOpOf(t, "waypoints_gen", 5)
    BY <1>5, <2>2 DEF NextOpOf
  <2> QED BY <1>9, <1>4, <2>1, <2>2, <2>3 DEF WriteOf
<1>10. ASSUME On(t, "waypoints_gen", 5)
      PROVE  WriteOf(t, "waypoints_gen", 5, "costTable") /\ MovedOn(t)
  <2>1. Writes[B(t)][O(t) - Len(Reads[B(t)]) - 1] = "costTable"
    BY <1>10, Tables, TableLens DEF On
  <2>2. Len(Reads[B(t)]) = 2 /\ Len(Writes[B(t)]) = 2 /\ O(t) = 5 /\ B(t) = "waypoints_gen"
    BY <1>10, TableLens DEF On
  <2>3. MovedOn(t)
    BY <1>6, <2>2 DEF NextOpOf
  <2> QED BY <1>10, <1>4, <2>1, <2>2, <2>3 DEF WriteOf
<1>11. ASSUME On(t, "path_finding", 4)
      PROVE  WriteOf(t, "path_finding", 4, "nValidNodes") /\ NextOpOf(t, "path_finding", 5)
  <2>1. Writes[B(t)][O(t) - Len(Reads[B(t)]) - 1] = "nValidNodes"
    BY <1>11, Tables, TableLens DEF On
  <2>2. Len(Reads[B(t)]) = 2 /\ Len(Writes[B(t)]) = 2 /\ O(t) = 4 /\ B(t) = "path_finding"
    BY <1>11, TableLens DEF On
  <2>3. NextOpOf(t, "path_finding", 5)
    BY <1>5, <2>2 DEF NextOpOf
  <2> QED BY <1>11, <1>4, <2>1, <2>2, <2>3 DEF WriteOf
<1>12. ASSUME On(t, "path_finding", 5)
      PROVE  WriteOf(t, "path_finding", 5, "pathWayPoints") /\ MovedOn(t)
  <2>1. Writes[B(t)][O(t) - Len(Reads[B(t)]) - 1] = "pathWayPoints"
    BY <1>12, Tables, TableLens DEF On
  <2>2. Len(Reads[B(t)]) = 2 /\ Len(Writes[B(t)]) = 2 /\ O(t) = 5 /\ B(t) = "path_finding"
    BY <1>12, TableLens DEF On
  <2>3. MovedOn(t)
    BY <1>6, <2>2 DEF NextOpOf
  <2> QED BY <1>12, <1>4, <2>1, <2>2, <2>3 DEF WriteOf
<1> QED BY <1>3, <1>7, <1>8, <1>9, <1>10, <1>11, <1>12 DEF On

(* The computations of a round. *)
LEMMA ComputeCases ==
  ASSUME PlanTypeOK, ScriptsAssumption, NEW t \in TriggerBlocks
  PROVE  /\ KMeans(t) => On(t, "k_means_plus", 1)
              /\ \/ NextOpOf(t, "k_means_plus", 2) /\ scans' = scans + 1
                 \/ MovedOn(t) /\ UNCHANGED <<scans, out>>
         /\ WaypointsGen(t) => On(t, "waypoints_gen", 3) /\ NextOpOf(t, "waypoints_gen", 4)
         /\ FindPath(t) => On(t, "path_finding", 3) /\ NextOpOf(t, "path_finding", 4)
         /\ HandlePath(t) => On(t, "path_handler", 3) /\ MovedOn(t)
<1>1. ASSUME NextOp(t), script' = script
      PROVE  \A b \in Computations : \A o \in Nat : On(t, b, o) =>
               /\ o <= Len(Reads[b]) + Len(Writes[b]) =>
                    B(t)' = b /\ O(t)' = o + 1 /\ steady' = steady /\ Others(t)
               /\ ~ (o <= Len(Reads[b]) + Len(Writes[b])) => MovedOn(t)
  BY <1>1, NextOpMoves
<1>2. ASSUME AtCompute(t)
      PROVE  at[t] # AtRest /\ B(t) = Block(t) /\ O(t) = Len(Reads[B(t)]) + 1
  BY <1>2, Places DEF AtCompute, O
<1>3. ASSUME KMeans(t)
      PROVE  /\ On(t, "k_means_plus", 1)
             /\ \/ NextOpOf(t, "k_means_plus", 2) /\ scans' = scans + 1
                \/ MovedOn(t) /\ UNCHANGED <<scans, out>>
  <2>1. at[t] # AtRest /\ script' = script /\ B(t) = "k_means_plus" /\ O(t) = 1
    BY <1>2, <1>3, TableLens DEF KMeans, Computes
  <2>2. \/ scans' = scans + 1 /\ NextOp(t)
        \/ GoOn(t, at[t].block) /\ UNCHANGED <<scans, out>>
    BY <1>3 DEF KMeans
  <2>3. ASSUME NextOp(t) PROVE NextOpOf(t, "k_means_plus", 2)
    <3>1. "k_means_plus" \in Computations /\ On(t, "k_means_plus", 1)
          /\ 1 <= Len(Reads["k_means_plus"]) + Len(Writes["k_means_plus"])
      BY <2>1, TableLens DEF Computations, On
    <3>2. B(t)' = "k_means_plus" /\ O(t)' = 1 + 1 /\ steady' = steady /\ Others(t)
      BY <1>1, <2>1, <2>3, <3>1
    <3> QED BY <3>2 DEF NextOpOf
  <2>4. ASSUME GoOn(t, at[t].block) PROVE MovedOn(t)
    BY <2>1, <2>4, GoOnMoves
  <2> QED BY <2>1, <2>2, <2>3, <2>4 DEF On
<1>4. ASSUME WaypointsGen(t)
      PROVE  On(t, "waypoints_gen", 3) /\ NextOpOf(t, "waypoints_gen", 4)
  <2>1. script' = script /\ NextOp(t) /\ AtCompute(t) /\ Block(t) = "waypoints_gen"
    BY <1>4 DEF WaypointsGen, Computes
  <2>2. B(t) = "waypoints_gen" /\ O(t) = Len(Reads["waypoints_gen"]) + 1
    BY <1>2, <2>1
  <2>3. Len(Reads["waypoints_gen"]) = 2 /\ Len(Writes["waypoints_gen"]) = 2
    BY TableLens
  <2>4. On(t, "waypoints_gen", 3)
    BY <2>2, <2>3 DEF On
  <2>5. "waypoints_gen" \in Computations
    BY DEF Computations
  <2>6. 3 <= Len(Reads["waypoints_gen"]) + Len(Writes["waypoints_gen"])
    BY <2>3
  <2>7. B(t)' = "waypoints_gen" /\ O(t)' = 3 + 1 /\ steady' = steady /\ Others(t)
    BY <1>1, <2>1, <2>4, <2>5, <2>6
  <2> QED BY <2>4, <2>7 DEF NextOpOf
<1>5. ASSUME FindPath(t)
      PROVE  On(t, "path_finding", 3) /\ NextOpOf(t, "path_finding", 4)
  <2>1. script' = script /\ NextOp(t) /\ AtCompute(t) /\ Block(t) = "path_finding"
    BY <1>5 DEF FindPath, Computes
  <2>2. B(t) = "path_finding" /\ O(t) = Len(Reads["path_finding"]) + 1
    BY <1>2, <2>1
  <2>3. Len(Reads["path_finding"]) = 2 /\ Len(Writes["path_finding"]) = 2
    BY TableLens
  <2>4. On(t, "path_finding", 3)
    BY <2>2, <2>3 DEF On
  <2>5. "path_finding" \in Computations
    BY DEF Computations
  <2>6. 3 <= Len(Reads["path_finding"]) + Len(Writes["path_finding"])
    BY <2>3
  <2>7. B(t)' = "path_finding" /\ O(t)' = 3 + 1 /\ steady' = steady /\ Others(t)
    BY <1>1, <2>1, <2>4, <2>5, <2>6
  <2> QED BY <2>4, <2>7 DEF NextOpOf
<1>6. ASSUME HandlePath(t)
      PROVE  On(t, "path_handler", 3) /\ MovedOn(t)
  <2>1. script' = script /\ NextOp(t) /\ AtCompute(t) /\ Block(t) = "path_handler"
    BY <1>6 DEF HandlePath, Computes
  <2>2. B(t) = "path_handler" /\ O(t) = Len(Reads["path_handler"]) + 1
    BY <1>2, <2>1
  <2>3. Len(Reads["path_handler"]) = 2 /\ Len(Writes["path_handler"]) = 0
    BY TableLens
  <2>4. On(t, "path_handler", 3)
    BY <2>2, <2>3 DEF On
  <2>5. "path_handler" \in Computations
    BY DEF Computations
  <2>6. ~ (3 <= Len(Reads["path_handler"]) + Len(Writes["path_handler"]))
    BY <2>3
  <2>7. MovedOn(t)
    BY <1>1, <2>1, <2>4, <2>5, <2>6
  <2> QED BY <2>4, <2>7 DEF NextOpOf
<1> QED BY <1>3, <1>4, <1>5, <1>6

(* The start of a round. *)
LEMMA RoundCases ==
  ASSUME PlanTypeOK, ScriptsAssumption, NEW t \in TriggerBlocks, StartRound(t)
  PROVE  /\ B(t) = "none" /\ Others(t)
         /\ \/ B(t)' = "none" /\ steady' = 0
            \/ /\ O(t)' = 1 /\ steady' = steady
               /\ \/ B(t)' = "k_means_plus" /\ Rounds[t] # PlanRound
                  \/ B(t)' = "waypoints_gen" /\ Rounds[t] = PlanRound
<1>1. B(t) = "none" /\ script' = script /\ Rounds[t] \in {WholeRound, PlanRound, ScanRound}
  BY Places DEF StartRound
<1>2. CASE 0 < Len(Rounds[t]) /\ Rounds[t][1] \in running
  <2>1. at' = [at EXCEPT ![t] = [block |-> 1, op |-> 1]] /\ steady' = steady
    BY <1>2 DEF StartRound, GoOn
  <2>2. Others(t) /\ at'[t] = [block |-> 1, op |-> 1]
    BY <1>1, <2>1, OthersStay
  <2>3. B(t)' = Rounds[t][1] /\ O(t)' = 1
    BY <1>1, <2>2 DEF B, O, Block, AtRest, Rounds
  <2> QED BY <1>1, <2>1, <2>2, <2>3 DEF WholeRound, PlanRound, ScanRound
<1>3. CASE ~ (0 < Len(Rounds[t]) /\ Rounds[t][1] \in running)
  <2>1. 0 < Len(Rounds[t])
    <3>1. CASE Rounds[t] = WholeRound BY <3>1 DEF WholeRound
    <3>2. CASE Rounds[t] = PlanRound BY <3>2 DEF PlanRound
    <3>3. CASE Rounds[t] = ScanRound BY <3>3 DEF ScanRound
    <3> QED BY <1>1, <3>1, <3>2, <3>3
  <2>2. at' = [at EXCEPT ![t] = AtRest] /\ steady' = 0
    BY <1>3, <2>1 DEF StartRound, GoOn
  <2>3. Others(t) /\ at'[t] = AtRest
    BY <1>1, <2>2, OthersStay
  <2> QED BY <1>1, <2>2, <2>3 DEF B
<1> QED BY <1>2, <1>3

(* Only one trigger steps the planning blocks, and one that steps all      *)
(* blocks is the only one.                                                 *)
LEMMA OnePlanner ==
  ASSUME PlanTypeOK, ScriptsAssumption, NEW t \in TriggerBlocks, NEW u \in TriggerBlocks,
         t # u
  PROVE  /\ Rounds[t] # WholeRound
         /\ Rounds[t] # ScanRound => Rounds[u] = ScanRound
<1>1. /\ Rounds[t] \in {WholeRound, PlanRound, ScanRound}
      /\ Rounds[u] \in {WholeRound, PlanRound, ScanRound}
      /\ Range(Rounds[t]) \cap Range(Rounds[u]) = {}
  BY DEF PlanTypeOK, ScriptsAssumption, Rounds, TriggerBlocks
<1>2. /\ "k_means_plus" \in Range(WholeRound) /\ "waypoints_gen" \in Range(WholeRound)
      /\ "waypoints_gen" \in Range(PlanRound) /\ "k_means_plus" \in Range(ScanRound)
  <2>1. 1 \in DOMAIN WholeRound /\ 2 \in DOMAIN WholeRound
        /\ WholeRound[1] = "k_means_plus" /\ WholeRound[2] = "waypoints_gen"
    BY DEF WholeRound
  <2>2. 1 \in DOMAIN PlanRound /\ PlanRound[1] = "waypoints_gen"
    BY DEF PlanRound
  <2>3. 1 \in DOMAIN ScanRound /\ ScanRound[1] = "k_means_plus"
    BY DEF ScanRound
  <2> QED BY <2>1, <2>2, <2>3 DEF Range
<1> QED BY <1>1, <1>2

(* What a trigger of the scanner alone can be at. *)
LEMMA ScanPlaces ==
  ASSUME PlanTypeOK, ScriptsAssumption, NEW t \in TriggerBlocks
  PROVE  /\ Rounds[t] = ScanRound => B(t) \in {"none", "k_means_plus"}
         /\ Rounds[t] = PlanRound => B(t) # "k_means_plus"
<1>1. B(t) # "none" => B(t) = Rounds[t][at[t].block] /\ at[t].block \in 1 .. Len(Rounds[t])
  BY Places
<1> QED BY <1>1 DEF ScanRound, PlanRound

(* A list of steps is not empty and has only blocks of the pipeline. *)
LEMMA RoundLens ==
  ASSUME PlanTypeOK, ScriptsAssumption, NEW t \in TriggerBlocks
  PROVE  /\ Len(Rounds[t]) \in Nat \ {0} /\ DOMAIN Rounds[t] = 1 .. Len(Rounds[t])
         /\ \A i \in 1 .. Len(Rounds[t]) : Rounds[t][i] \in Computations
<1>1. Rounds[t] \in {WholeRound, PlanRound, ScanRound}
  BY Places
<1>2. CASE Rounds[t] = WholeRound BY <1>2 DEF WholeRound, Computations
<1>3. CASE Rounds[t] = PlanRound BY <1>3 DEF PlanRound, Computations
<1>4. CASE Rounds[t] = ScanRound BY <1>4 DEF ScanRound, Computations
<1> QED BY <1>1, <1>2, <1>3, <1>4

(* The numbers of ports are numbers. *)
LEMMA TableSizes ==
  ASSUME NEW b \in Computations
  PROVE  Len(Reads[b]) \in Nat /\ Len(Writes[b]) \in Nat
BY TableLens DEF Computations

(* Where the triggers are stays within their lists.                        *)
AtTyped ==
  /\ at \in [TriggerBlocks -> [block : Nat, op : Nat]]
  /\ \A t \in TriggerBlocks : at[t] = AtRest \/
       /\ at[t].block \in DOMAIN Rounds[t]
       /\ at[t].op \in 1 .. Len(Reads[Rounds[t][at[t].block]]) + 1
                            + Len(Writes[Rounds[t][at[t].block]])

(* A move to an operation of a block in the list keeps the type of at. *)
LEMMA MoveTyped ==
  ASSUME PlanTypeOK, NEW t \in TriggerBlocks, script' = script,
         NEW v \in [block : Nat, op : Nat], at' = [at EXCEPT ![t] = v],
         v = AtRest \/
           /\ v.block \in DOMAIN Rounds[t]
           /\ v.op \in 1 .. Len(Reads[Rounds[t][v.block]]) + 1
                            + Len(Writes[Rounds[t][v.block]])
  PROVE  AtTyped'
<1>1. at \in [TriggerBlocks -> [block : Nat, op : Nat]]
      /\ \A u \in TriggerBlocks : at[u] = AtRest \/
           /\ at[u].block \in DOMAIN Rounds[u]
           /\ at[u].op \in 1 .. Len(Reads[Rounds[u][at[u].block]]) + 1
                                + Len(Writes[Rounds[u][at[u].block]])
  BY DEF PlanTypeOK
<1>2. TriggerBlocks' = TriggerBlocks /\ \A u : Rounds[u]' = Rounds[u]
  BY DEF TriggerBlocks, Rounds
<1>3. at' \in [TriggerBlocks -> [block : Nat, op : Nat]] /\ at'[t] = v
      /\ \A u \in TriggerBlocks \ {t} : at'[u] = at[u]
  BY <1>1
<1>4. Rounds' = Rounds
  BY DEF Rounds
<1>5. ASSUME NEW u \in TriggerBlocks
      PROVE  at'[u] = AtRest \/
               /\ at'[u].block \in DOMAIN Rounds[u]
               /\ at'[u].op \in 1 .. Len(Reads[Rounds[u][at'[u].block]]) + 1
                                + Len(Writes[Rounds[u][at'[u].block]])
  <2>1. CASE u = t BY <1>3, <2>1
  <2>2. CASE u # t BY <1>1, <1>3, <2>2
  <2> QED BY <2>1, <2>2
<1> QED BY <1>2, <1>3, <1>4, <1>5 DEF AtTyped

(* Going on to the next block keeps the types. *)
LEMMA GoOnTyped ==
  ASSUME PlanTypeOK, ScriptsAssumption, SizeAssumption, NEW t \in TriggerBlocks,
         script' = script, NEW i \in Nat, GoOn(t, i)
  PROVE  AtTyped' /\ steady' \in 0 .. Settled
<1>1. steady \in 0 .. Settled /\ Settled \in Nat
  BY DEF PlanTypeOK, SizeAssumption
<1>2. CASE i < Len(Rounds[t]) /\ Rounds[t][i + 1] \in running
  <2>1. at' = [at EXCEPT ![t] = [block |-> i + 1, op |-> 1]] /\ steady' = steady
    BY <1>2 DEF GoOn
  <2>2. i + 1 \in DOMAIN Rounds[t] /\ Rounds[t][i + 1] \in Computations
    BY <1>2, RoundLens
  <2>3. 1 \in 1 .. Len(Reads[Rounds[t][i + 1]]) + 1 + Len(Writes[Rounds[t][i + 1]])
    <3>1. \A m, n \in Nat : 1 \in 1 .. m + 1 + n
      OBVIOUS
    <3> QED BY <2>2, <3>1, TableSizes
  <2>4. [block |-> i + 1, op |-> 1] \in [block : Nat, op : Nat]
    OBVIOUS
  <2> QED BY <1>1, <2>1, <2>2, <2>3, <2>4, MoveTyped
<1>3. CASE ~ (i < Len(Rounds[t]) /\ Rounds[t][i + 1] \in running)
  <2>1. at' = [at EXCEPT ![t] = AtRest]
        /\ steady' = IF i < Len(Rounds[t]) THEN 0
                     ELSE IF steady < Settled THEN steady + 1 ELSE steady
    BY <1>3 DEF GoOn
  <2>2. AtRest \in [block : Nat, op : Nat]
    BY DEF AtRest
  <2>3. AtTyped'
    BY <2>1, <2>2, MoveTyped
  <2> QED BY <1>1, <2>1, <2>3
<1> QED BY <1>2, <1>3

(* Going on to the next operation keeps the types. *)
LEMMA NextOpTyped ==
  ASSUME PlanTypeOK, ScriptsAssumption, SizeAssumption, NEW t \in TriggerBlocks,
         script' = script, at[t] # AtRest, NextOp(t)
  PROVE  AtTyped' /\ steady' \in 0 .. Settled
<1>1. /\ at[t] \in [block : Nat, op : Nat]
      /\ at[t].block \in DOMAIN Rounds[t] /\ Block(t) = Rounds[t][at[t].block]
      /\ at[t].op \in 1 .. Len(Reads[Block(t)]) + 1 + Len(Writes[Block(t)])
      /\ steady \in 0 .. Settled
  BY DEF PlanTypeOK, Block
<1>2. Block(t) \in Computations
  BY <1>1, RoundLens
<1>3. Len(Reads[Block(t)]) \in Nat /\ Len(Writes[Block(t)]) \in Nat
  BY <1>2, TableSizes
<1>4. CASE at[t].op <= Len(Reads[Block(t)]) + Len(Writes[Block(t)])
  <2> DEFINE v == [at[t] EXCEPT !.op = at[t].op + 1]
  <2>1. at' = [at EXCEPT ![t] = v] /\ steady' = steady
    BY <1>4 DEF NextOp
  <2>2. v \in [block : Nat, op : Nat] /\ v.block = at[t].block /\ v.op = at[t].op + 1
    BY <1>1
  <2>3. v.op \in 1 .. Len(Reads[Block(t)]) + 1 + Len(Writes[Block(t)])
    <3>1. \A o, m, n \in Nat : o \in 1 .. m + 1 + n /\ o <= m + n => o + 1 \in 1 .. m + 1 + n
      OBVIOUS
    <3> QED BY <1>1, <1>3, <1>4, <2>2, <3>1
  <2> HIDE DEF v
  <2> QED BY <1>1, <2>1, <2>2, <2>3, MoveTyped
<1>5. CASE ~ (at[t].op <= Len(Reads[Block(t)]) + Len(Writes[Block(t)]))
  <2>1. GoOn(t, at[t].block)
    BY <1>5 DEF NextOp
  <2>2. at[t].block \in Nat
    BY <1>1
  <2> QED BY <2>1, <2>2, GoOnTyped
<1> QED BY <1>4, <1>5

-----------------------------------------------------------------------------
(* What a read takes out of a buffer and a write puts into it. *)
LEMMA ReceivedFacts ==
  ASSUME PlanTypeOK, StartedInv, NEW f \in Buffers
  PROVE  /\ buf[f] = <<>> => Received(f)[1] = Junk /\ Received(f)[2] = <<>>
         /\ buf[f] # <<>> => Received(f)[1] = Head(buf[f]) /\ Received(f)[2] = Tail(buf[f])
BY DEF StartedInv, Received

(* What a read returns, and leaves in the buffer, has its type. *)
LEMMA ReceivedTyped ==
  ASSUME PlanTypeOK, SizeAssumption, NEW f \in Buffers
  PROVE  /\ Received(f)[1] \in Samples /\ Received(f)[2] \in Seq(Samples)
         /\ Len(Received(f)[2]) <= Size
<1>1. buf[f] \in Seq(Samples) /\ Len(buf[f]) <= Size /\ Size \in Nat /\ Junk \in Samples
  <2>1. Junk \in Samples
    BY DEF SizeAssumption, Junk, Samples
  <2> QED BY <2>1 DEF PlanTypeOK, SizeAssumption
<1>2. CASE f \in running /\ buf[f] # <<>>
  <2>1. Received(f) = <<Head(buf[f]), Tail(buf[f])>>
    BY <1>2 DEF Received
  <2> QED BY <1>1, <1>2, <2>1
<1>3. CASE ~ (f \in running /\ buf[f] # <<>>)
  <2>1. Received(f) = <<Junk, buf[f]>>
    BY <1>3 DEF Received
  <2> QED BY <1>1, <2>1
<1> QED BY <1>2, <1>3

(* The newest sample of a pushed buffer, and where the older ones are. *)
LEMMA PushedFacts ==
  ASSUME SizeAssumption, NEW q \in Seq(Samples), Len(q) <= Size, NEW v \in Samples
  PROVE  /\ Pushed(q, v) \in Seq(Samples) /\ Len(Pushed(q, v)) <= Size
         /\ Len(Pushed(q, v)) \in Nat \ {0} /\ Pushed(q, v) # <<>>
         /\ Pushed(q, v)[Len(Pushed(q, v))] = v
         /\ Len(Pushed(q, v)) \in {Len(q), Len(q) + 1}
         /\ \A i \in 1 .. Len(Pushed(q, v)) - 1 :
              /\ i + Len(q) + 1 - Len(Pushed(q, v)) \in 1 .. Len(q)
              /\ Pushed(q, v)[i] = q[i + Len(q) + 1 - Len(Pushed(q, v))]
<1>1. Size \in Nat \ {0} /\ Len(q) \in Nat
  BY DEF SizeAssumption
<1>2. CASE Len(q) = Size
  <2>1. q # <<>> /\ Tail(q) \in Seq(Samples) /\ Len(Tail(q)) = Len(q) - 1
        /\ \A i \in 1 .. Len(q) - 1 : Tail(q)[i] = q[i + 1]
    BY <1>1, <1>2
  <2>2. Pushed(q, v) = Append(Tail(q), v)
    BY <1>2 DEF Pushed
  <2>3. /\ Append(Tail(q), v) \in Seq(Samples) /\ Len(Append(Tail(q), v)) = Len(q)
        /\ Append(Tail(q), v)[Len(q)] = v
        /\ \A i \in 1 .. Len(q) - 1 : Append(Tail(q), v)[i] = q[i + 1]
    BY <1>1, <1>2, <2>1
  <2> QED BY <1>1, <1>2, <2>2, <2>3
<1>3. CASE Len(q) # Size
  <2>1. Pushed(q, v) = Append(q, v)
    BY <1>3 DEF Pushed
  <2>2. /\ Append(q, v) \in Seq(Samples) /\ Len(Append(q, v)) = Len(q) + 1
        /\ Append(q, v)[Len(q) + 1] = v
        /\ \A i \in 1 .. Len(q) : Append(q, v)[i] = q[i]
    BY <1>1
  <2> QED BY <1>1, <1>3, <2>1, <2>2
<1> QED BY <1>2, <1>3

(* Where the samples of a buffer are after a write. *)
LEMMA PushedPlaces ==
  ASSUME SizeAssumption, NEW q \in Seq(Samples), Len(q) <= Size, NEW v \in Samples
  PROVE  \E d \in {0, 1} :
           /\ Len(Pushed(q, v)) = Len(q) + 1 - d /\ Len(Pushed(q, v)) \in Nat \ {0}
           /\ Pushed(q, v) \in Seq(Samples) /\ Pushed(q, v)[Len(Pushed(q, v))] = v
           /\ \A i \in DOMAIN Pushed(q, v) : i # Len(Pushed(q, v)) =>
                i + d \in DOMAIN q /\ Pushed(q, v)[i] = q[i + d]
<1> DEFINE r == Pushed(q, v)
<1>1. /\ r \in Seq(Samples) /\ Len(r) \in Nat \ {0} /\ r[Len(r)] = v
      /\ Len(r) \in {Len(q), Len(q) + 1}
      /\ \A i \in 1 .. Len(r) - 1 :
           i + Len(q) + 1 - Len(r) \in 1 .. Len(q) /\ r[i] = q[i + Len(q) + 1 - Len(r)]
  BY PushedFacts
<1>0. Len(q) \in Nat
  OBVIOUS
<1> HIDE DEF r
<1>2. CASE Len(r) = Len(q)
  <2>1. \A i \in DOMAIN r : i # Len(r) => i + 1 \in DOMAIN q /\ r[i] = q[i + 1]
    <3> SUFFICES ASSUME NEW i \in DOMAIN r, i # Len(r)
                 PROVE  i + 1 \in DOMAIN q /\ r[i] = q[i + 1]
      OBVIOUS
    <3>1. i \in 1 .. Len(r) - 1 /\ i + Len(q) + 1 - Len(r) = i + 1
      BY <1>0, <1>1, <1>2
    <3>2. i + 1 \in 1 .. Len(q) /\ r[i] = q[i + 1]
      BY <1>1, <3>1
    <3> QED BY <3>2
  <2> QED BY <1>0, <1>1, <1>2, <2>1 DEF r
<1>3. CASE Len(r) = Len(q) + 1
  <2>1. \A i \in DOMAIN r : i # Len(r) => i + 0 \in DOMAIN q /\ r[i] = q[i + 0]
    <3> SUFFICES ASSUME NEW i \in DOMAIN r, i # Len(r)
                 PROVE  i + 0 \in DOMAIN q /\ r[i] = q[i + 0]
      OBVIOUS
    <3>1. i \in 1 .. Len(r) - 1 /\ i + Len(q) + 1 - Len(r) = i + 0
      BY <1>0, <1>1, <1>3
    <3>2. i + 0 \in 1 .. Len(q) /\ r[i] = q[i + 0]
      BY <1>1, <3>1
    <3> QED BY <3>2
  <2> QED BY <1>0, <1>1, <1>3, <2>1 DEF r
<1> QED BY <1>0, <1>1, <1>2, <1>3

(* A write to an active buffer pushes its sample, any other one is lost. *)
LEMMA SentFacts ==
  ASSUME NEW f, NEW v
  PROVE  /\ f \in running => Sent(f, v) = Pushed(buf[f], v)
         /\ f \notin running => Sent(f, v) = buf[f]
BY DEF Sent, Pushed

(* What a write leaves in the buffer has its type. *)
LEMMA SentTyped ==
  ASSUME PlanTypeOK, SizeAssumption, NEW f \in Buffers, NEW v \in Samples
  PROVE  Sent(f, v) \in Seq(Samples) /\ Len(Sent(f, v)) <= Size
<1>1. buf[f] \in Seq(Samples) /\ Len(buf[f]) <= Size
  BY DEF PlanTypeOK
<1>2. CASE f \in running
  <2>1. Sent(f, v) = Pushed(buf[f], v)
    BY <1>2, SentFacts
  <2>2. Pushed(buf[f], v) \in Seq(Samples) /\ Len(Pushed(buf[f], v)) <= Size
    BY <1>1, PushedFacts
  <2> QED BY <2>1, <2>2
<1>3. CASE f \notin running
  BY <1>1, <1>3, SentFacts
<1> QED BY <1>2, <1>3

(* Everything but where the triggers are is of its type. *)
DataTyped ==
  /\ script \in Scripts
  /\ running \subseteq All
  /\ started \in 0 .. Len(Order)
  /\ buf \in [Buffers -> Seq(Samples)] /\ \A f \in Buffers : Len(buf[f]) <= Size
  /\ in \in [Buffers -> Samples] /\ out \in [Computations -> Samples]
  /\ target \in Samples
  /\ scans \in 0 .. MaxScans /\ gens \in 0 .. MaxGens
  /\ stops \in 0 .. MaxStops
  /\ lost \subseteq Buffers

(* The type invariant in three parts. *)
LEMMA TypeParts == PlanTypeOK <=> DataTyped /\ AtTyped /\ steady \in 0 .. Settled
BY DEF PlanTypeOK, DataTyped, AtTyped

(* The same of the next state. *)
LEMMA TypePartsNext ==
  ASSUME DataTyped', AtTyped', steady' \in 0 .. Settled
  PROVE  PlanTypeOK'
BY DEF PlanTypeOK, DataTyped, AtTyped

(* A step that moves no trigger keeps the type of at. *)
LEMMA AtSame ==
  ASSUME PlanTypeOK, at' = at, script' = script
  PROVE  AtTyped'
<1>1. AtTyped
  BY TypeParts
<1>2. TriggerBlocks' = TriggerBlocks /\ Rounds' = Rounds
  BY DEF TriggerBlocks, Rounds
<1> QED BY <1>1, <1>2 DEF AtTyped

(* A change of one buffer keeps the type of all. *)
LEMMA BufferTyped ==
  ASSUME DataTyped, NEW f \in Buffers, NEW q \in Seq(Samples), Len(q) <= Size,
         buf' = [buf EXCEPT ![f] = q]
  PROVE  buf' \in [Buffers -> Seq(Samples)] /\ \A g \in Buffers : Len(buf'[g]) <= Size
BY DEF DataTyped

(* The samples that the computations make have their type. *)
LEMMA RecordFacts ==
  ASSUME NEW r \in Samples, NEW s \in 0 .. MaxScans, NEW g \in 0 .. MaxGens,
  NEW b \in BOOLEAN
  PROVE  /\ [r EXCEPT !.scan = s] \in Samples
         /\ [r EXCEPT !.route = b] \in Samples
         /\ [scan |-> r.scan, gen |-> g, route |-> FALSE] \in Samples
BY DEF Samples

(* So has the array that nothing filled. *)
LEMMA JunkTyped ==
  ASSUME SizeAssumption
  PROVE  Junk \in Samples
BY DEF SizeAssumption, Junk, Samples

(* The type invariant holds initially. *)
LEMMA PlanTypeStart == SizeAssumption /\ ScriptsAssumption /\ PlanInit => PlanTypeOK
<1> SUFFICES ASSUME SizeAssumption, ScriptsAssumption, PlanInit PROVE PlanTypeOK
  OBVIOUS
<1>1. /\ script \in Scripts /\ running = {} /\ started = 0
      /\ buf = [f \in Buffers |-> <<>>]
      /\ at = [t \in TriggerBlocks |-> AtRest]
      /\ in = [f \in Buffers |-> Junk] /\ out = [b \in Computations |-> Junk]
      /\ target = Junk
      /\ scans = 0 /\ gens = 0 /\ stops = 0 /\ steady = 0 /\ lost = {}
  BY DEF PlanInit
<1>2. Len(Order) \in Nat
  BY <1>1 DEF ScriptsAssumption, Order
<1>3. Junk \in Samples
  BY JunkTyped
<1>4. /\ MaxScans \in Nat /\ MaxGens \in Nat /\ MaxStops \in Nat /\ Settled \in Nat
      /\ Size \in Nat
  BY DEF SizeAssumption
<1>5. buf \in [Buffers -> Seq(Samples)] /\ \A f \in Buffers : Len(buf[f]) <= Size
  BY <1>1, <1>4
<1>6. DataTyped
  BY <1>1, <1>2, <1>3, <1>4, <1>5 DEF DataTyped
<1>7. AtTyped
  BY <1>1 DEF AtTyped, AtRest
<1> QED BY <1>1, <1>4, <1>6, <1>7, TypeParts

(* Every step keeps it. *)
LEMMA PlanTypeStep ==
  ASSUME PlanTypeOK, ScriptsAssumption, SizeAssumption, [PlanNext]_planVars
  PROVE  PlanTypeOK'
<1>0. /\ DataTyped /\ steady \in 0 .. Settled /\ Settled \in Nat /\ 0 \in 0 .. Settled
      /\ MaxScans \in Nat /\ MaxGens \in Nat /\ MaxStops \in Nat
  BY TypeParts DEF SizeAssumption
<1>1. CASE UNCHANGED planVars
  <2>1. All' = All
    BY <1>1 DEF planVars, All, TriggerBlocks, Rounds
  <2>2. DataTyped'
    BY <1>0, <1>1, <2>1 DEF planVars, DataTyped, Order
  <2> QED BY <1>0, <1>1, <2>2, AtSame, TypePartsNext DEF planVars
<1>2. Len(Order) \in Nat /\ \A i \in 1 .. Len(Order) : Order[i] \in All
  <2>1. Order \in Seq(All)
    BY <1>0 DEF DataTyped, ScriptsAssumption, Order, Rounds, TriggerBlocks, All
  <2> QED BY <2>1
<1>3. Stoppable \subseteq All
  BY <1>0 DEF DataTyped, ScriptsAssumption, Stoppable, Rounds, TriggerBlocks, All
<1>4. CASE Launch
  <2>1. started' \in 0 .. Len(Order) /\ running' \subseteq All
    BY <1>0, <1>2, <1>4 DEF Launch, DataTyped
  <2>2. All' = All
    BY <1>4 DEF Launch, All, TriggerBlocks, Rounds
  <2>3. DataTyped'
    BY <1>0, <1>4, <2>1, <2>2 DEF Launch, DataTyped, Order
  <2> QED BY <1>0, <1>4, <2>3, AtSame, TypePartsNext DEF Launch
<1>5. ASSUME NEW b \in Stoppable, Stop(b)
      PROVE  PlanTypeOK'
  <2>1. running' \subseteq All /\ stops' \in 0 .. MaxStops
    BY <1>0, <1>5 DEF Stop, DataTyped
  <2>2. All' = All
    BY <1>5 DEF Stop, All, TriggerBlocks, Rounds
  <2>3. DataTyped'
    BY <1>0, <1>5, <2>1, <2>2 DEF Stop, DataTyped, Order
  <2> QED BY <1>0, <1>5, <2>3, AtSame, TypePartsNext DEF Stop
<1>6. ASSUME NEW b \in Stoppable, Restart(b)
      PROVE  PlanTypeOK'
  <2>1. running' \subseteq All
    BY <1>0, <1>3, <1>6 DEF Restart, DataTyped
  <2>2. All' = All
    BY <1>6 DEF Restart, All, TriggerBlocks, Rounds
  <2>3. DataTyped'
    BY <1>0, <1>6, <2>1, <2>2 DEF Restart, DataTyped, Order
  <2> QED BY <1>0, <1>6, <2>3, AtSame, TypePartsNext DEF Restart
<1>7. ASSUME script' = script
      PROVE  All' = All /\ Order' = Order
  BY <1>7 DEF All, TriggerBlocks, Rounds, Order
<1>8. ASSUME NEW t \in TriggerBlocks, StartRound(t)
      PROVE  PlanTypeOK'
  <2>1. AtTyped' /\ steady' \in 0 .. Settled
    BY <1>8, GoOnTyped DEF StartRound
  <2>2. DataTyped'
    BY <1>0, <1>7, <1>8 DEF StartRound, DataTyped
  <2> QED BY <2>1, <2>2, TypePartsNext
<1>9. ASSUME NEW t \in TriggerBlocks, ReadPort(t)
      PROVE  PlanTypeOK'
  <2>1. AtTyped' /\ steady' \in 0 .. Settled
    BY <1>9, NextOpTyped DEF ReadPort, AtRead
  <2>2. PICK f \in Buffers :
          /\ in' = [in EXCEPT ![f] = Received(f)[1]]
          /\ buf' = [buf EXCEPT ![f] = Received(f)[2]]
          /\ UNCHANGED <<script, running, started, out, target, scans, gens, stops, lost>>
    BY <1>9, ReadCases DEF ReadOf, Buffers
  <2>3. buf' \in [Buffers -> Seq(Samples)] /\ \A g \in Buffers : Len(buf'[g]) <= Size
    BY <1>0, <2>2, ReceivedTyped, BufferTyped
  <2>4. in' \in [Buffers -> Samples]
    BY <1>0, <2>2, ReceivedTyped DEF DataTyped
  <2>5. DataTyped'
    BY <1>0, <1>7, <2>2, <2>3, <2>4 DEF DataTyped
  <2> QED BY <2>1, <2>5, TypePartsNext
<1>10. ASSUME NEW t \in TriggerBlocks, WritePort(t)
       PROVE  PlanTypeOK'
  <2>1. AtTyped' /\ steady' \in 0 .. Settled
    BY <1>10, NextOpTyped DEF WritePort, AtWrite
  <2>2. PICK f \in Buffers, b \in Computations :
          /\ buf' = [buf EXCEPT ![f] = Sent(f, out[b])]
          /\ lost' = IF f \in running THEN lost ELSE lost \cup {f}
          /\ UNCHANGED <<script, running, started, in, out, target, scans, gens, stops>>
    BY <1>10, WriteCases DEF WriteOf, Buffers, Computations
  <2>3. out[b] \in Samples
    BY <1>0 DEF DataTyped
  <2>4. buf' \in [Buffers -> Seq(Samples)] /\ \A g \in Buffers : Len(buf'[g]) <= Size
    BY <1>0, <2>2, <2>3, SentTyped, BufferTyped
  <2>5. lost' \subseteq Buffers
    BY <1>0, <2>2 DEF DataTyped
  <2>6. DataTyped'
    BY <1>0, <1>7, <2>2, <2>4, <2>5 DEF DataTyped
  <2> QED BY <2>1, <2>6, TypePartsNext
<1>11. "k_means_plus" \in Computations /\ "waypoints_gen" \in Computations
       /\ "path_finding" \in Computations /\ "wayPoints" \in Buffers
       /\ "centers" \in Buffers /\ "pathWayPoints" \in Buffers
  BY DEF Computations, Buffers
<1>12. ASSUME NEW t \in TriggerBlocks, KMeans(t)
       PROVE  PlanTypeOK'
  <2>1. /\ UNCHANGED <<script, running, started, buf, in, stops, lost, target, gens>>
        /\ at[t] # AtRest
        /\ \/ /\ scans < MaxScans /\ scans' = scans + 1 /\ NextOp(t)
              /\ out' = [out EXCEPT !["k_means_plus"].scan = scans']
           \/ GoOn(t, at[t].block) /\ UNCHANGED <<scans, out>>
    BY <1>12 DEF KMeans, Computes, AtCompute
  <2>2. at[t].block \in Nat
    BY DEF PlanTypeOK
  <2>3. AtTyped' /\ steady' \in 0 .. Settled
    BY <2>1, <2>2, NextOpTyped, GoOnTyped
  <2>4. scans' \in 0 .. MaxScans
    BY <1>0, <2>1 DEF DataTyped
  <2>5. out' \in [Computations -> Samples]
    <3>1. CASE out' = out
      BY <1>0, <3>1 DEF DataTyped
    <3>2. CASE out' = [out EXCEPT !["k_means_plus"].scan = scans']
      <4>1. out["k_means_plus"] \in Samples /\ out \in [Computations -> Samples]
        BY <1>0, <1>11 DEF DataTyped
      <4>2. [out["k_means_plus"] EXCEPT !.scan = scans'] \in Samples
        BY <2>4, <4>1 DEF Samples
      <4>3. out' = [out EXCEPT !["k_means_plus"] = [out["k_means_plus"] EXCEPT !.scan = scans']]
        BY <3>2
      <4> QED BY <4>1, <4>2, <4>3
    <3> QED BY <2>1, <3>1, <3>2
  <2>6. DataTyped'
    BY <1>0, <1>7, <2>1, <2>4, <2>5 DEF DataTyped
  <2> QED BY <2>3, <2>6, TypePartsNext
<1>13. ASSUME NEW t \in TriggerBlocks, WaypointsGen(t)
       PROVE  PlanTypeOK'
  <2>1. /\ UNCHANGED <<script, running, started, buf, in, stops, lost, target, scans>>
        /\ at[t] # AtRest /\ NextOp(t) /\ gens < MaxGens /\ gens' = gens + 1
        /\ out' = [out EXCEPT !["waypoints_gen"] =
                     [scan |-> in["centers"].scan, gen |-> gens', route |-> FALSE]]
    BY <1>13 DEF WaypointsGen, Computes, AtCompute
  <2>2. AtTyped' /\ steady' \in 0 .. Settled
    BY <2>1, NextOpTyped
  <2>3. gens' \in 0 .. MaxGens
    BY <1>0, <2>1 DEF DataTyped
  <2>4. [scan |-> in["centers"].scan, gen |-> gens', route |-> FALSE] \in Samples
    <3>1. in["centers"] \in Samples
      BY <1>0, <1>11 DEF DataTyped
    <3> QED BY <2>3, <3>1 DEF Samples
  <2>5. out' \in [Computations -> Samples]
    BY <1>0, <2>1, <2>4 DEF DataTyped
  <2>6. DataTyped'
    BY <1>0, <1>7, <2>1, <2>3, <2>5 DEF DataTyped
  <2> QED BY <2>2, <2>6, TypePartsNext
<1>14. ASSUME NEW t \in TriggerBlocks, FindPath(t)
       PROVE  PlanTypeOK'
  <2>1. /\ UNCHANGED <<script, running, started, buf, in, stops, lost, target, scans, gens>>
        /\ at[t] # AtRest /\ NextOp(t)
    BY <1>14 DEF FindPath, Computes, AtCompute
  <2>2. PICK route \in BOOLEAN :
          out' = [out EXCEPT !["path_finding"] = [in["wayPoints"] EXCEPT !.route = route]]
    BY <1>14 DEF FindPath
  <2>3. AtTyped' /\ steady' \in 0 .. Settled
    BY <2>1, NextOpTyped
  <2>4. [in["wayPoints"] EXCEPT !.route = route] \in Samples
    <3>1. in["wayPoints"] \in Samples
      BY <1>0, <1>11 DEF DataTyped
    <3> QED BY <3>1 DEF Samples
  <2>5. out' \in [Computations -> Samples]
    BY <1>0, <2>2, <2>4 DEF DataTyped
  <2>6. DataTyped'
    BY <1>0, <1>7, <2>1, <2>5 DEF DataTyped
  <2> QED BY <2>3, <2>6, TypePartsNext
<1>15. ASSUME NEW t \in TriggerBlocks, HandlePath(t)
       PROVE  PlanTypeOK'
  <2>1. /\ UNCHANGED <<script, running, started, buf, in, stops, lost, out, scans, gens>>
        /\ at[t] # AtRest /\ NextOp(t)
    BY <1>15 DEF HandlePath, Computes, AtCompute
  <2>2. target' \in {Junk, target, in["pathWayPoints"]}
    BY <1>15 DEF HandlePath
  <2>3. AtTyped' /\ steady' \in 0 .. Settled
    BY <2>1, NextOpTyped
  <2>4. target' \in Samples
    BY <1>0, <1>11, <2>2, JunkTyped DEF DataTyped
  <2>5. DataTyped'
    BY <1>0, <1>7, <2>1, <2>4 DEF DataTyped
  <2> QED BY <2>3, <2>5, TypePartsNext
<1> QED
  BY <1>1, <1>4, <1>5, <1>6, <1>8, <1>9, <1>10, <1>12, <1>13, <1>14, <1>15 DEF PlanNext

(* The chain of the plans, as constants. *)
LEMMA ChainTarget ==
  ASSUME NEW tg \in Samples, NEW ip \in Samples, NEW p \in Seq(Samples), NEW of \in Samples,
         NEW iw \in Samples, NEW w \in Seq(Samples), NEW og \in Samples, NEW n \in Nat,
         InChain(tg, ip, p, of, iw, w, og, n), SizeAssumption
  PROVE  /\ InChain(ip, ip, p, of, iw, w, og, n)
         /\ InChain(Junk, ip, p, of, iw, w, og, n)
<1>1. Junk.gen = 0 /\ \A s \in Samples : s.gen \in Nat
  BY DEF Junk, Samples, SizeAssumption
<1>2. /\ \A i \in DOMAIN p : p[i] \in Samples
      /\ \A i \in DOMAIN w : w[i] \in Samples
  OBVIOUS
<1> QED BY <1>1, <1>2 DEF InChain, Upto, Before

(* The order is kept by a read of pathWayPoints, *)
LEMMA ChainPath ==
  ASSUME NEW tg \in Samples, NEW ip \in Samples, NEW p \in Seq(Samples), NEW of \in Samples,
         NEW iw \in Samples, NEW w \in Seq(Samples), NEW og \in Samples, NEW n \in Nat,
         InChain(tg, ip, p, of, iw, w, og, n), SizeAssumption
  PROVE  /\ InChain(tg, Junk, p, of, iw, w, og, n)
         /\ p # <<>> => InChain(tg, Head(p), Tail(p), of, iw, w, og, n)
<1>1. Junk.gen = 0 /\ \A s \in Samples : s.gen \in Nat
  BY DEF Junk, Samples, SizeAssumption
<1>2. /\ \A i \in DOMAIN p : p[i] \in Samples
      /\ \A i \in DOMAIN w : w[i] \in Samples
  OBVIOUS
<1>3. InChain(tg, Junk, p, of, iw, w, og, n)
  BY <1>1, <1>2 DEF InChain, Upto, Before
<1>4. ASSUME p # <<>>
      PROVE  InChain(tg, Head(p), Tail(p), of, iw, w, og, n)
  <2>1. /\ Head(p) = p[1] /\ 1 \in DOMAIN p
        /\ \A i \in DOMAIN Tail(p) : i \in Nat /\ i >= 1 /\ i + 1 \in DOMAIN p /\ Tail(p)[i] = p[i + 1]
    BY <1>4
  <2>2. /\ Upto(tg, Head(p)) /\ Before(tg, Tail(p)) /\ Before(Head(p), Tail(p))
        /\ Sorted(Tail(p)) /\ Head(p).gen <= n /\ GensUpTo(Tail(p), n)
    BY <1>1, <1>2, <2>1 DEF InChain, Upto, Before, Sorted, GensUpTo
  <2>3. /\ Upto(Head(p), of) /\ Upto(Head(p), iw) /\ Before(Head(p), w) /\ Upto(Head(p), og)
        /\ Behind(Tail(p), of) /\ Behind(Tail(p), iw) /\ Behind(Tail(p), og)
        /\ \A i \in DOMAIN Tail(p) : Before(Tail(p)[i], w)
    BY <1>1, <1>2, <2>1 DEF InChain, Behind
  <2> QED BY <2>2, <2>3 DEF InChain
<1> QED BY <1>3, <1>4

(* by a write to it, *)
LEMMA ChainPathSent ==
  ASSUME NEW tg \in Samples, NEW ip \in Samples, NEW p \in Seq(Samples), NEW of \in Samples,
         NEW iw \in Samples, NEW w \in Seq(Samples), NEW og \in Samples, NEW n \in Nat,
         InChain(tg, ip, p, of, iw, w, og, n), SizeAssumption, Len(p) <= Size
  PROVE  InChain(tg, ip, Pushed(p, of), of, iw, w, og, n)
<1> DEFINE r == Pushed(p, of)
<1>1. \A s \in Samples : s.gen \in Nat
  BY DEF Samples, SizeAssumption
<1>2. /\ \A i \in DOMAIN p : p[i] \in Samples
      /\ \A i \in DOMAIN w : w[i] \in Samples
  OBVIOUS
<1>3. PICK d \in {0, 1} :
        /\ Len(r) = Len(p) + 1 - d /\ Len(r) \in Nat \ {0}
        /\ r \in Seq(Samples) /\ r[Len(r)] = of
        /\ \A i \in DOMAIN r : i # Len(r) => i + d \in DOMAIN p /\ r[i] = p[i + d]
  BY PushedPlaces
<1> HIDE DEF r
<1>4. \A i \in DOMAIN r : r[i] = of \/ (i + d \in DOMAIN p /\ r[i] = p[i + d])
  BY <1>3
<1>5. \A i, j \in DOMAIN r : i < j =>
        /\ i + d \in DOMAIN p /\ r[i] = p[i + d]
        /\ r[j] = of \/ (j + d \in DOMAIN p /\ r[j] = p[j + d] /\ i + d < j + d)
  BY <1>3
<1>6. Before(tg, r) /\ Before(ip, r) /\ GensUpTo(r, n)
  BY <1>4 DEF InChain, Before, GensUpTo
<1>7. Sorted(r)
  <2>1. \A i, j \in DOMAIN p : i < j => Upto(p[i], p[j])
    BY DEF InChain, Sorted
  <2>2. \A i \in DOMAIN p : Upto(p[i], of)
    BY DEF InChain, Behind
  <2> QED BY <1>5, <2>1, <2>2 DEF Sorted
<1>8. Upto(of, of)
  BY <1>1 DEF Upto
<1>9. /\ Behind(r, of) /\ Behind(r, iw) /\ Behind(r, og)
      /\ \A i \in DOMAIN r : Before(r[i], w)
  BY <1>4, <1>8 DEF InChain, Behind
<1>10. InChain(tg, ip, r, of, iw, w, og, n)
  BY <1>6, <1>7, <1>9 DEF InChain
<1> QED BY <1>10 DEF r

(* by a step of path_finding, *)
LEMMA ChainFound ==
  ASSUME NEW tg \in Samples, NEW ip \in Samples, NEW p \in Seq(Samples), NEW of \in Samples,
         NEW iw \in Samples, NEW w \in Seq(Samples), NEW og \in Samples, NEW n \in Nat,
         InChain(tg, ip, p, of, iw, w, og, n), SizeAssumption,
         NEW new \in Samples, new.gen = iw.gen
  PROVE  InChain(tg, ip, p, new, iw, w, og, n)
<1>1. \A s \in Samples : s.gen \in Nat
  BY DEF Samples, SizeAssumption
<1> QED BY <1>1 DEF InChain, Upto, Before, Behind

(* by a read of wayPoints, *)
LEMMA ChainWay ==
  ASSUME NEW tg \in Samples, NEW ip \in Samples, NEW p \in Seq(Samples), NEW of \in Samples,
         NEW iw \in Samples, NEW w \in Seq(Samples), NEW og \in Samples, NEW n \in Nat,
         InChain(tg, ip, p, of, iw, w, og, n), SizeAssumption
  PROVE  /\ InChain(tg, ip, p, of, Junk, w, og, n)
         /\ w # <<>> => InChain(tg, ip, p, of, Head(w), Tail(w), og, n)
<1>1. Junk.gen = 0 /\ \A s \in Samples : s.gen \in Nat
  BY DEF Junk, Samples, SizeAssumption
<1>2. /\ \A i \in DOMAIN p : p[i] \in Samples
      /\ \A i \in DOMAIN w : w[i] \in Samples
  OBVIOUS
<1>3. InChain(tg, ip, p, of, Junk, w, og, n)
  BY <1>1, <1>2 DEF InChain, Upto, Before, Behind
<1>4. ASSUME w # <<>>
      PROVE  InChain(tg, ip, p, of, Head(w), Tail(w), og, n)
  <2>1. /\ Head(w) = w[1] /\ 1 \in DOMAIN w
        /\ \A i \in DOMAIN Tail(w) : i \in Nat /\ i >= 1 /\ i + 1 \in DOMAIN w /\ Tail(w)[i] = w[i + 1]
    BY <1>4
  <2>2. /\ Before(Head(w), Tail(w)) /\ Sorted(Tail(w))
        /\ Head(w).gen <= n /\ GensUpTo(Tail(w), n)
    BY <1>1, <1>2, <2>1 DEF InChain, Before, Sorted, GensUpTo
  <2>3. /\ Upto(tg, Head(w)) /\ Before(tg, Tail(w)) /\ Upto(ip, Head(w))
        /\ Before(ip, Tail(w))
        /\ Upto(of, Head(w)) /\ Before(of, Tail(w))
    BY <2>1 DEF InChain, Before
  <2>4. Behind(p, Head(w)) /\ \A i \in DOMAIN p : Before(p[i], Tail(w))
    BY <2>1 DEF InChain, Before, Behind
  <2>5. Upto(Head(w), og) /\ Behind(Tail(w), og)
    BY <2>1 DEF InChain, Behind
  <2> QED BY <2>2, <2>3, <2>4, <2>5 DEF InChain
<1> QED BY <1>3, <1>4

(* by a write to it, *)
LEMMA ChainWaySent ==
  ASSUME NEW tg \in Samples, NEW ip \in Samples, NEW p \in Seq(Samples), NEW of \in Samples,
         NEW iw \in Samples, NEW w \in Seq(Samples), NEW og \in Samples, NEW n \in Nat,
         InChain(tg, ip, p, of, iw, w, og, n), SizeAssumption, Len(w) <= Size
  PROVE  InChain(tg, ip, p, of, iw, Pushed(w, og), og, n)
<1> DEFINE r == Pushed(w, og)
<1>1. \A s \in Samples : s.gen \in Nat
  BY DEF Samples, SizeAssumption
<1>3. PICK d \in {0, 1} :
        /\ Len(r) = Len(w) + 1 - d /\ Len(r) \in Nat \ {0}
        /\ r \in Seq(Samples) /\ r[Len(r)] = og
        /\ \A i \in DOMAIN r : i # Len(r) => i + d \in DOMAIN w /\ r[i] = w[i + d]
  BY PushedPlaces
<1> HIDE DEF r
<1>4. \A i \in DOMAIN r : r[i] = og \/ (i + d \in DOMAIN w /\ r[i] = w[i + d])
  BY <1>3
<1>5. \A i, j \in DOMAIN r : i < j =>
        /\ i + d \in DOMAIN w /\ r[i] = w[i + d]
        /\ r[j] = og \/ (j + d \in DOMAIN w /\ r[j] = w[j + d] /\ i + d < j + d)
  BY <1>3
<1>6. /\ Before(tg, r) /\ Before(ip, r) /\ Before(of, r) /\ Before(iw, r) /\ GensUpTo(r, n)
  BY <1>4 DEF InChain, Before, GensUpTo
<1>7. \A i \in DOMAIN p : Before(p[i], r)
  BY <1>4 DEF InChain, Before, Behind
<1>8. Sorted(r)
  <2>1. \A i, j \in DOMAIN w : i < j => Upto(w[i], w[j])
    BY DEF InChain, Sorted
  <2>2. \A i \in DOMAIN w : Upto(w[i], og)
    BY DEF InChain, Behind
  <2> QED BY <1>5, <2>1, <2>2 DEF Sorted
<1>9. Upto(og, og)
  BY <1>1 DEF Upto
<1>10. Behind(r, og)
  BY <1>4, <1>9 DEF InChain, Behind
<1>11. InChain(tg, ip, p, of, iw, r, og, n)
  BY <1>6, <1>7, <1>8, <1>10 DEF InChain
<1> QED BY <1>11 DEF r

(* and by a step of waypoints_gen. *)
LEMMA ChainGenerated ==
  ASSUME NEW tg \in Samples, NEW ip \in Samples, NEW p \in Seq(Samples), NEW of \in Samples,
         NEW iw \in Samples, NEW w \in Seq(Samples), NEW og \in Samples, NEW n \in Nat,
         InChain(tg, ip, p, of, iw, w, og, n), SizeAssumption,
         NEW new \in Samples, new.gen = n + 1
  PROVE  InChain(tg, ip, p, of, iw, w, new, n + 1)
<1>1. \A s \in Samples : s.gen \in Nat
  BY DEF Samples, SizeAssumption
<1>2. /\ \A i \in DOMAIN p : p[i] \in Samples
      /\ \A i \in DOMAIN w : w[i] \in Samples
  OBVIOUS
<1>3. \A s \in Samples : s.gen <= n => Upto(s, new) /\ s.gen <= n + 1
  BY <1>1 DEF Upto
<1>4. /\ Behind(p, new) /\ Behind(w, new) /\ GensUpTo(p, n + 1) /\ GensUpTo(w, n + 1)
  BY <1>2, <1>3 DEF InChain, Behind, GensUpTo
<1>5. /\ Upto(tg, new) /\ Upto(ip, new) /\ Upto(of, new) /\ Upto(iw, new)
      /\ tg.gen <= n + 1 /\ ip.gen <= n + 1 /\ of.gen <= n + 1 /\ iw.gen <= n + 1
  BY <1>3 DEF InChain
<1> QED BY <1>4, <1>5 DEF InChain

(* What the steps of main and of the clients leave alone.                  *)
LEMMA MainSteps ==
  ASSUME PlanTypeOK, ScriptsAssumption, StartedInv,
         Launch \/ \E b \in Stoppable : Stop(b) \/ Restart(b)
  PROVE  /\ UNCHANGED <<script, buf, at, in, out, target, scans, gens, lost>> /\ steady' = 0
         /\ running \cap Buffers \subseteq running' /\ StartedInv'
<1>1. Stoppable \cap Buffers = {}
  BY DEF PlanTypeOK, ScriptsAssumption, Stoppable, Buffers, Computations
<1>2. CASE Launch
  <2>1. UNCHANGED <<script, buf, at, in, out, target, scans, gens, lost>> /\ steady' = 0
    BY <1>2 DEF Launch
  <2>2. /\ running \subseteq running' /\ Order[started + 1] \in running'
        /\ started' = started + 1
    BY <1>2 DEF Launch
  <2>3. \A i \in 1 .. started + 1 : Order[i] \in Buffers => Order[i] \in running'
    <3>1. started \in Nat
      BY DEF PlanTypeOK
    <3>2. \A i \in 1 .. started + 1 : i \in 1 .. started \/ i = started + 1
      BY <3>1
    <3> QED BY <2>2, <3>2 DEF StartedInv
  <2>4. Order' = Order
    BY <2>1 DEF Order
  <2>5. StartedInv'
    BY <2>1, <2>2, <2>3, <2>4 DEF StartedInv
  <2> QED BY <2>1, <2>2, <2>5
<1>3. ASSUME NEW b \in Stoppable, Stop(b)
      PROVE  /\ UNCHANGED <<script, buf, at, in, out, target, scans, gens, lost>>
             /\ steady' = 0
             /\ running \cap Buffers \subseteq running' /\ StartedInv'
  <2>1. /\ UNCHANGED <<script, buf, at, in, out, target, scans, gens, lost, started>>
        /\ steady' = 0
        /\ running' = running \ {b}
    BY <1>3 DEF Stop
  <2>2. b \notin Buffers
    BY <1>1
  <2>3. Order' = Order
    BY <2>1 DEF Order
  <2> QED BY <2>1, <2>2, <2>3 DEF StartedInv
<1>4. ASSUME NEW b \in Stoppable, Restart(b)
      PROVE  /\ UNCHANGED <<script, buf, at, in, out, target, scans, gens, lost>>
             /\ steady' = 0
             /\ running \cap Buffers \subseteq running' /\ StartedInv'
  <2>1. /\ UNCHANGED <<script, buf, at, in, out, target, scans, gens, lost, started>>
        /\ steady' = 0
        /\ running' = running \cup {b}
    BY <1>4 DEF Restart
  <2>3. Order' = Order
    BY <2>1 DEF Order
  <2> QED BY <2>1, <2>3 DEF StartedInv
<1> QED BY <1>2, <1>3, <1>4

(* A buffer is empty until main starts it, and is not stopped later. *)
LEMMA StartedStep ==
  ASSUME PlanTypeOK, ScriptsAssumption, StartedInv, [PlanNext]_planVars
  PROVE  StartedInv'
<1>1. CASE UNCHANGED planVars
  BY <1>1 DEF planVars, StartedInv, Order
<1>2. CASE Launch \/ \E b \in Stoppable : Stop(b) \/ Restart(b)
  BY <1>2, MainSteps
<1>3. ASSUME script' = script, running' = running, started' = started,
             \A f \in Buffers : f \notin running => buf'[f] = buf[f]
      PROVE  StartedInv'
  BY <1>3 DEF StartedInv, Order
<1>4. ASSUME NEW t \in TriggerBlocks, ReadPort(t)
      PROVE  StartedInv'
  <2>1. PICK f \in Buffers : buf' = [buf EXCEPT ![f] = Received(f)[2]]
    BY <1>4, ReadCases DEF ReadOf, Buffers
  <2>2. f \notin running => Received(f)[2] = buf[f]
    BY DEF Received
  <2>3. \A g \in Buffers : g \notin running => buf'[g] = buf[g]
    BY <2>1, <2>2 DEF PlanTypeOK
  <2> QED BY <1>3, <1>4, <2>3 DEF ReadPort
<1>5. ASSUME NEW t \in TriggerBlocks, WritePort(t)
      PROVE  StartedInv'
  <2>1. PICK f \in Buffers, b \in Computations : buf' = [buf EXCEPT ![f] = Sent(f, out[b])]
    BY <1>5, WriteCases DEF WriteOf, Buffers, Computations
  <2>2. f \notin running => Sent(f, out[b]) = buf[f]
    BY SentFacts
  <2>3. \A g \in Buffers : g \notin running => buf'[g] = buf[g]
    BY <2>1, <2>2 DEF PlanTypeOK
  <2> QED BY <1>3, <1>5, <2>3 DEF WritePort
<1>6. ASSUME NEW t \in TriggerBlocks,
             StartRound(t) \/ KMeans(t) \/ WaypointsGen(t) \/ FindPath(t) \/ HandlePath(t)
      PROVE  StartedInv'
  BY <1>3, <1>6 DEF StartRound, KMeans, WaypointsGen, FindPath, HandlePath, Computes
<1> QED BY <1>1, <1>2, <1>4, <1>5, <1>6 DEF PlanNext

(* Once everything has been started every buffer is active. *)
LEMMA AllBuffersUp ==
  ASSUME PlanTypeOK, ScriptsAssumption, StartedInv, started = Len(Order)
  PROVE  Buffers \subseteq running
<1>1. /\ Buffers \subseteq Range(Order)
      /\ Order \in Seq(TriggerBlocks \cup Computations \cup Buffers)
  BY DEF PlanTypeOK, ScriptsAssumption, Order, TriggerBlocks, Rounds
<1>2. DOMAIN Order = 1 .. started
  BY <1>1
<1> QED BY <1>1, <1>2 DEF Range, StartedInv

-----------------------------------------------------------------------------
(* Every step keeps the plans in the order of their making. *)
LEMMA OrderStep ==
  ASSUME PlanTypeOK, ScriptsAssumption, SizeAssumption, StartedInv, OrderInv,
         [PlanNext]_planVars
  PROVE  OrderInv'
<1> DEFINE inP == in["pathWayPoints"]
           P == buf["pathWayPoints"]
           inW == in["wayPoints"]
           W == buf["wayPoints"]
           outF == out["path_finding"]
           outG == out["waypoints_gen"]
<1>1. /\ target \in Samples /\ inP \in Samples /\ P \in Seq(Samples) /\ outF \in Samples
      /\ inW \in Samples /\ W \in Seq(Samples) /\ outG \in Samples /\ gens \in Nat
      /\ Len(P) <= Size /\ Len(W) <= Size
  BY DEF PlanTypeOK, Buffers, Computations, SizeAssumption
<1>2. InChain(target, inP, P, outF, inW, W, outG, gens)
  BY DEF OrderInv
<1>3. /\ buf \in [Buffers -> Seq(Samples)] /\ in \in [Buffers -> Samples]
      /\ out \in [Computations -> Samples]
  BY DEF PlanTypeOK
<1>4. /\ "pathWayPoints" \in Buffers /\ "wayPoints" \in Buffers
      /\ "path_finding" \in Computations
      /\ "waypoints_gen" \in Computations
  BY DEF Buffers, Computations
<1>5. ASSUME buf' = buf, in' = in, out' = out, target' = target, gens' = gens
      PROVE  OrderInv'
  BY <1>2, <1>5 DEF OrderInv
<1>6. CASE UNCHANGED planVars
  BY <1>5, <1>6 DEF planVars
<1>7. CASE Launch \/ \E b \in Stoppable : Stop(b) \/ Restart(b)
  BY <1>5, <1>7, MainSteps
<1>8. ASSUME NEW t \in TriggerBlocks, StartRound(t)
      PROVE  OrderInv'
  BY <1>5, <1>8 DEF StartRound
<1>9. ASSUME NEW t \in TriggerBlocks, ReadPort(t)
      PROVE  OrderInv'
  <2>1. PICK f \in Buffers :
          /\ in' = [in EXCEPT ![f] = Received(f)[1]]
          /\ buf' = [buf EXCEPT ![f] = Received(f)[2]]
          /\ UNCHANGED <<out, target, gens>>
    BY <1>9, ReadCases DEF ReadOf, Buffers
  <2>2. /\ buf[f] = <<>> => Received(f)[1] = Junk /\ Received(f)[2] = buf[f]
        /\ buf[f] # <<>> => Received(f)[1] = Head(buf[f]) /\ Received(f)[2] = Tail(buf[f])
    BY ReceivedFacts
  <2>3. CASE f = "pathWayPoints"
    <3>1. in'["pathWayPoints"] = Received(f)[1] /\ buf'["pathWayPoints"] = Received(f)[2]
          /\ in'["wayPoints"] = inW /\ buf'["wayPoints"] = W
      BY <1>3, <1>4, <2>1, <2>3
    <3>2. InChain(target, Received(f)[1], Received(f)[2], outF, inW, W, outG, gens)
      <4>1. InChain(target, Junk, P, outF, inW, W, outG, gens)
            /\ (P # <<>> => InChain(target, Head(P), Tail(P), outF, inW, W, outG, gens))
        BY <1>1, <1>2, ChainPath
      <4> QED BY <2>2, <2>3, <4>1
    <3> QED BY <2>1, <3>1, <3>2 DEF OrderInv
  <2>4. CASE f = "wayPoints"
    <3>1. in'["wayPoints"] = Received(f)[1] /\ buf'["wayPoints"] = Received(f)[2]
          /\ in'["pathWayPoints"] = inP /\ buf'["pathWayPoints"] = P
      BY <1>3, <1>4, <2>1, <2>4
    <3>2. InChain(target, inP, P, outF, Received(f)[1], Received(f)[2], outG, gens)
      <4>1. InChain(target, inP, P, outF, Junk, W, outG, gens)
            /\ (W # <<>> => InChain(target, inP, P, outF, Head(W), Tail(W), outG, gens))
        BY <1>1, <1>2, ChainWay
      <4> QED BY <2>2, <2>4, <4>1
    <3> QED BY <2>1, <3>1, <3>2 DEF OrderInv
  <2>5. CASE f # "pathWayPoints" /\ f # "wayPoints"
    <3>1. in'["wayPoints"] = inW /\ buf'["wayPoints"] = W
          /\ in'["pathWayPoints"] = inP /\ buf'["pathWayPoints"] = P
      BY <1>3, <1>4, <2>1, <2>5
    <3> QED BY <1>2, <2>1, <3>1 DEF OrderInv
  <2> QED BY <2>3, <2>4, <2>5
<1>10. ASSUME NEW t \in TriggerBlocks, WritePort(t)
       PROVE  OrderInv'
  <2>1. PICK f \in Buffers, b \in Computations :
          /\ buf' = [buf EXCEPT ![f] = Sent(f, out[b])]
          /\ UNCHANGED <<in, out, target, gens>>
          /\ f = "wayPoints" => b = "waypoints_gen"
          /\ f = "pathWayPoints" => b = "path_finding"
    <3> DEFINE Sends(f, b) == /\ buf' = [buf EXCEPT ![f] = Sent(f, out[b])]
                              /\ UNCHANGED <<in, out, target, gens>>
    <3>1. \/ Sends("centers", "k_means_plus") \/ Sends("nCenters", "k_means_plus")
          \/ Sends("wayPoints", "waypoints_gen") \/ Sends("costTable", "waypoints_gen")
          \/ Sends("nValidNodes", "path_finding") \/ Sends("pathWayPoints", "path_finding")
      BY <1>10, WriteCases DEF WriteOf
    <3> QED BY <3>1 DEF Buffers, Computations
  <2>2. Sent(f, out[b]) \in {buf[f], Pushed(buf[f], out[b])}
    BY SentFacts
  <2>3. CASE f = "pathWayPoints"
    <3>1. buf'["pathWayPoints"] = Sent(f, out[b]) /\ buf'["wayPoints"] = W
      BY <1>3, <1>4, <2>1, <2>3
    <3>2. InChain(target, inP, Pushed(P, outF), outF, inW, W, outG, gens)
      BY <1>1, <1>2, ChainPathSent
    <3>3. Sent(f, out[b]) \in {P, Pushed(P, outF)}
      BY <2>1, <2>2, <2>3
    <3> QED BY <1>2, <2>1, <3>1, <3>2, <3>3 DEF OrderInv
  <2>4. CASE f = "wayPoints"
    <3>1. buf'["wayPoints"] = Sent(f, out[b]) /\ buf'["pathWayPoints"] = P
      BY <1>3, <1>4, <2>1, <2>4
    <3>2. InChain(target, inP, P, outF, inW, Pushed(W, outG), outG, gens)
      BY <1>1, <1>2, ChainWaySent
    <3>3. Sent(f, out[b]) \in {W, Pushed(W, outG)}
      BY <2>1, <2>2, <2>4
    <3> QED BY <1>2, <2>1, <3>1, <3>2, <3>3 DEF OrderInv
  <2>5. CASE f # "pathWayPoints" /\ f # "wayPoints"
    <3>1. buf'["wayPoints"] = W /\ buf'["pathWayPoints"] = P
      BY <1>3, <1>4, <2>1, <2>5
    <3> QED BY <1>2, <2>1, <3>1 DEF OrderInv
  <2> QED BY <2>3, <2>4, <2>5
<1>11. ASSUME NEW t \in TriggerBlocks, KMeans(t)
       PROVE  OrderInv'
  <2>1. out'["path_finding"] = outF /\ out'["waypoints_gen"] = outG
    BY <1>3, <1>4, <1>11 DEF KMeans
  <2>2. UNCHANGED <<buf, in, target, gens>>
    BY <1>11 DEF KMeans, Computes
  <2> QED BY <1>2, <2>1, <2>2 DEF OrderInv
<1>12. ASSUME NEW t \in TriggerBlocks, WaypointsGen(t)
       PROVE  OrderInv'
  <2>1. /\ gens' = gens + 1 /\ UNCHANGED <<buf, in, target>>
        /\ out' = [out EXCEPT !["waypoints_gen"] =
                     [scan |-> in["centers"].scan, gen |-> gens', route |-> FALSE]]
    BY <1>12 DEF WaypointsGen, Computes
  <2>2. out'["path_finding"] = outF /\ out'["waypoints_gen"].gen = gens + 1
    BY <1>3, <1>4, <2>1
  <2>3. out'["waypoints_gen"] \in Samples
    <3>1. PlanTypeOK'
      BY <1>12, PlanTypeStep
    <3> QED BY <3>1, <1>4 DEF PlanTypeOK
  <2>4. InChain(target, inP, P, outF, inW, W, out'["waypoints_gen"], gens + 1)
    BY <1>1, <1>2, <2>2, <2>3, ChainGenerated
  <2> QED BY <2>1, <2>2, <2>4 DEF OrderInv
<1>13. ASSUME NEW t \in TriggerBlocks, FindPath(t)
       PROVE  OrderInv'
  <2>1. PICK route \in BOOLEAN :
          out' = [out EXCEPT !["path_finding"] = [in["wayPoints"] EXCEPT !.route = route]]
    BY <1>13 DEF FindPath
  <2>2. UNCHANGED <<buf, in, target, gens>>
    BY <1>13 DEF FindPath, Computes
  <2>3. /\ out'["path_finding"] = [in["wayPoints"] EXCEPT !.route = route]
        /\ out'["waypoints_gen"] = outG
    BY <1>3, <1>4, <2>1
  <2>4. out'["path_finding"] \in Samples /\ out'["path_finding"].gen = inW.gen
    BY <1>1, <2>3 DEF Samples
  <2>5. InChain(target, inP, P, out'["path_finding"], inW, W, outG, gens)
    BY <1>1, <1>2, <2>4, ChainFound
  <2> QED BY <2>2, <2>3, <2>5 DEF OrderInv
<1>14. ASSUME NEW t \in TriggerBlocks, HandlePath(t)
       PROVE  OrderInv'
  <2>1. UNCHANGED <<buf, in, out, gens>> /\ target' \in {Junk, target, inP}
    BY <1>14 DEF HandlePath, Computes
  <2>2. InChain(target', inP, P, outF, inW, W, outG, gens)
    <3>1. InChain(inP, inP, P, outF, inW, W, outG, gens)
      BY <1>1, <1>2, ChainTarget
    <3>2. InChain(Junk, inP, P, outF, inW, W, outG, gens)
      BY <1>1, <1>2, ChainTarget
    <3> QED BY <1>2, <2>1, <3>1, <3>2
  <2> QED BY <2>1, <2>2 DEF OrderInv
<1> QED
  BY <1>6, <1>7, <1>8, <1>9, <1>10, <1>11, <1>12, <1>13, <1>14 DEF PlanNext

(* The pairs of buffers, and which blocks they lie between. *)
IsPair(f, s, b, c) ==
  /\ f \in Buffers /\ s \in Buffers /\ f # s
  /\ b \in {"waypoints_gen", "path_finding"} /\ c \in {"path_finding", "path_handler"}
  /\ b # c

(* While a trigger is at one of the three planners no other one is. *)
LEMMA Away ==
  ASSUME PlanTypeOK, ScriptsAssumption, NEW t \in TriggerBlocks,
         B(t) \in {"waypoints_gen", "path_finding", "path_handler"}
  PROVE  \A u \in TriggerBlocks \ {t} :
           B(u) \notin {"waypoints_gen", "path_finding", "path_handler"}
BY ScanPlaces, OnePlanner

(* Steps that leave the two buffers and their blocks alone. *)
LEMMA PairFrame ==
  ASSUME NEW f, NEW s, NEW b, NEW c, IsPair(f, s, b, c), InStep(f, s, b, c),
         script' = script, lost \subseteq lost', buf'[f] = buf[f], buf'[s] = buf[s],
         in'[f] = in[f], in'[s] = in[s],
         (\E t \in TriggerBlocks : B(t)' = b /\ O(t)' = 5) => out'[b] = out[b],
         \A t \in TriggerBlocks :
           /\ B(t)' = b /\ O(t)' = 5 <=> B(t) = b /\ O(t) = 5
           /\ B(t)' = c /\ O(t)' = 2 <=> B(t) = c /\ O(t) = 2
           /\ B(t)' = c /\ O(t)' = 3 => B(t) = c /\ O(t) = 3
  PROVE  InStep(f, s, b, c)'
<1>1. TriggerBlocks' = TriggerBlocks
  BY DEF TriggerBlocks, Rounds
<1> QED BY <1>1 DEF InStep, On

(* The write to the first of the two buffers. *)
LEMMA PairFirstSent ==
  ASSUME PlanTypeOK, ScriptsAssumption, NEW t \in TriggerBlocks,
         NEW f, NEW s, NEW b, NEW c, IsPair(f, s, b, c), InStep(f, s, b, c),
         WriteOf(t, b, 4, f), NextOpOf(t, b, 5)
  PROVE  InStep(f, s, b, c)'
<1>1. TriggerBlocks' = TriggerBlocks
  BY DEF WriteOf, TriggerBlocks, Rounds
<1>2. /\ B(t) = b /\ O(t) = 4 /\ B(t)' = b /\ O(t)' = 5 /\ b # c
      /\ \A u \in TriggerBlocks \ {t} : B(u)' = B(u) /\ O(u)' = O(u)
      /\ buf' = [buf EXCEPT ![f] = Sent(f, out[b])]
      /\ lost' = IF f \in running THEN lost ELSE lost \cup {f}
      /\ in' = in /\ out' = out
  BY DEF WriteOf, NextOpOf, Others, On, IsPair
<1>3. \A u \in TriggerBlocks \ {t} : B(u) # b /\ B(u) # c
  BY <1>2, Away DEF IsPair
<1>4. CASE f \notin running
  BY <1>2, <1>4 DEF InStep
<1>5. CASE f \in running /\ lost \cap {f, s} = {}
  <2>1. buf[f] = buf[s]
    BY <1>2, <1>3, <1>5 DEF InStep, On
  <2>2. buf'[f] = Pushed(buf[f], out[b]) /\ buf'[s] = buf[s]
    BY <1>2, <1>5, SentFacts DEF PlanTypeOK, IsPair
  <2> QED BY <1>1, <1>2, <1>3, <2>1, <2>2 DEF InStep, On
<1>6. CASE f \in running /\ lost \cap {f, s} # {}
  BY <1>2, <1>6 DEF InStep
<1> QED BY <1>4, <1>5, <1>6

(* The write to the second one. *)
LEMMA PairSecondSent ==
  ASSUME PlanTypeOK, ScriptsAssumption, NEW t \in TriggerBlocks,
         NEW f, NEW s, NEW b, NEW c, IsPair(f, s, b, c), InStep(f, s, b, c),
         WriteOf(t, b, 5, s), Others(t), B(t)' # b,
         B(t)' = c => O(t)' = 1
  PROVE  InStep(f, s, b, c)'
<1>1. TriggerBlocks' = TriggerBlocks
  BY DEF WriteOf, TriggerBlocks, Rounds
<1>2. /\ B(t) = b /\ O(t) = 5 /\ b # c
      /\ \A u \in TriggerBlocks \ {t} : B(u)' = B(u) /\ O(u)' = O(u)
      /\ buf' = [buf EXCEPT ![s] = Sent(s, out[b])]
      /\ lost' = IF s \in running THEN lost ELSE lost \cup {s}
      /\ in' = in /\ out' = out
  BY DEF WriteOf, Others, On, IsPair
<1>3. \A u \in TriggerBlocks \ {t} : B(u) # b /\ B(u) # c
  BY <1>2, Away DEF IsPair
<1>4. CASE s \notin running
  BY <1>2, <1>4 DEF InStep
<1>5. CASE s \in running /\ lost \cap {f, s} = {}
  <2>1. buf[f] = Pushed(buf[s], out[b])
    BY <1>2, <1>5 DEF InStep, On
  <2>2. buf'[s] = Pushed(buf[s], out[b]) /\ buf'[f] = buf[f]
    BY <1>2, <1>5, SentFacts DEF PlanTypeOK, IsPair
  <2> QED BY <1>1, <1>2, <1>3, <2>1, <2>2 DEF InStep, On
<1>6. CASE s \in running /\ lost \cap {f, s} # {}
  BY <1>2, <1>6 DEF InStep
<1> QED BY <1>4, <1>5, <1>6

(* The first read of the two. *)
LEMMA PairSecondRead ==
  ASSUME PlanTypeOK, ScriptsAssumption, StartedInv, NEW t \in TriggerBlocks,
         NEW f, NEW s, NEW b, NEW c, IsPair(f, s, b, c), InStep(f, s, b, c),
         B(t) = c, O(t) = 1, B(t)' = c, O(t)' = 2, Others(t), script' = script,
         in' = [in EXCEPT ![s] = Received(s)[1]], buf' = [buf EXCEPT ![s] = Received(s)[2]],
         lost' = lost, out' = out
  PROVE  InStep(f, s, b, c)'
<1>1. TriggerBlocks' = TriggerBlocks
  BY DEF TriggerBlocks, Rounds
<1>2. /\ b # c /\ \A u \in TriggerBlocks \ {t} : B(u)' = B(u) /\ O(u)' = O(u)
  BY DEF Others, IsPair
<1>3. \A u \in TriggerBlocks \ {t} : B(u) # b /\ B(u) # c
  BY <1>2, Away DEF IsPair
<1>4. CASE lost \cap {f, s} = {}
  <2>1. buf[f] = buf[s]
    BY <1>2, <1>3, <1>4 DEF InStep, On
  <2>2. /\ buf'[f] = buf[f] /\ in'[s] = Received(s)[1] /\ buf'[s] = Received(s)[2]
        /\ s \in Buffers
    BY DEF PlanTypeOK, IsPair
  <2>3. /\ buf[s] = <<>> => in'[s] = Junk /\ buf'[s] = <<>>
        /\ buf[s] # <<>> => in'[s] = Head(buf[s]) /\ buf'[s] = Tail(buf[s])
    BY <2>2, ReceivedFacts
  <2> QED BY <1>1, <1>2, <1>3, <2>1, <2>2, <2>3 DEF InStep, On
<1>5. CASE lost \cap {f, s} # {}
  BY <1>5 DEF InStep
<1> QED BY <1>4, <1>5

(* The second read of the two. *)
LEMMA PairFirstRead ==
  ASSUME PlanTypeOK, ScriptsAssumption, StartedInv, NEW t \in TriggerBlocks,
         NEW f, NEW s, NEW b, NEW c, IsPair(f, s, b, c), InStep(f, s, b, c),
         B(t) = c, O(t) = 2, B(t)' = c, O(t)' = 3, Others(t), script' = script,
         in' = [in EXCEPT ![f] = Received(f)[1]], buf' = [buf EXCEPT ![f] = Received(f)[2]],
         lost' = lost, out' = out
  PROVE  InStep(f, s, b, c)'
<1>1. TriggerBlocks' = TriggerBlocks
  BY DEF TriggerBlocks, Rounds
<1>2. /\ b # c /\ \A u \in TriggerBlocks \ {t} : B(u)' = B(u) /\ O(u)' = O(u)
  BY DEF Others, IsPair
<1>3. \A u \in TriggerBlocks \ {t} : B(u) # b /\ B(u) # c
  BY <1>2, Away DEF IsPair
<1>4. CASE lost \cap {f, s} = {}
  <2>1. IF buf[f] = <<>> THEN in[s] = Junk /\ buf[s] = <<>>
        ELSE in[s] = Head(buf[f]) /\ buf[s] = Tail(buf[f])
    BY <1>4 DEF InStep, On
  <2>2. /\ buf'[s] = buf[s] /\ in'[s] = in[s] /\ in'[f] = Received(f)[1]
        /\ buf'[f] = Received(f)[2] /\ f \in Buffers
    BY DEF PlanTypeOK, IsPair
  <2>3. /\ buf[f] = <<>> => in'[f] = Junk /\ buf'[f] = <<>>
        /\ buf[f] # <<>> => in'[f] = Head(buf[f]) /\ buf'[f] = Tail(buf[f])
    BY <2>2, ReceivedFacts
  <2>4. in'[s] = in'[f] /\ buf'[s] = buf'[f]
    BY <2>1, <2>2, <2>3
  <2> QED BY <1>1, <1>2, <1>3, <2>4 DEF InStep, On
<1>5. CASE lost \cap {f, s} # {}
  BY <1>5 DEF InStep
<1> QED BY <1>4, <1>5

-----------------------------------------------------------------------------
(* Every step keeps the two pairs of buffers in step. *)
LEMMA PairStep ==
  ASSUME PlanTypeOK, ScriptsAssumption, SizeAssumption, StartedInv, PairInv,
         [PlanNext]_planVars
  PROVE  PairInv'
<1> DEFINE WaysInStep == InStep("wayPoints", "costTable", "waypoints_gen", "path_finding")
           PathsInStep == InStep("nValidNodes", "pathWayPoints", "path_finding", "path_handler")
<1>1. /\ IsPair("wayPoints", "costTable", "waypoints_gen", "path_finding")
      /\ IsPair("nValidNodes", "pathWayPoints", "path_finding", "path_handler")
  BY DEF IsPair, Buffers
<1>2. WaysInStep /\ PathsInStep
  BY DEF PairInv
<1>3. /\ buf \in [Buffers -> Seq(Samples)] /\ in \in [Buffers -> Samples]
      /\ out \in [Computations -> Samples]
  BY DEF PlanTypeOK
<1>4. ASSUME script' = script, lost' = lost, buf' = buf, in' = in, out' = out,
             \A u \in TriggerBlocks : B(u)' = B(u) /\ O(u)' = O(u)
      PROVE  PairInv'
  <2>1. WaysInStep'
    BY <1>1, <1>2, <1>4, PairFrame
  <2>2. PathsInStep'
    BY <1>1, <1>2, <1>4, PairFrame
  <2> QED BY <2>1, <2>2 DEF PairInv
<1>5. ASSUME script' = script, at' = at
      PROVE  \A u \in TriggerBlocks : B(u)' = B(u) /\ O(u)' = O(u)
  BY <1>5 DEF B, O, Block, Rounds
<1>6. CASE UNCHANGED planVars
  BY <1>4, <1>5, <1>6 DEF planVars
<1>7. CASE Launch \/ \E b \in Stoppable : Stop(b) \/ Restart(b)
  BY <1>4, <1>5, <1>7, MainSteps
<1>8. ASSUME NEW t \in TriggerBlocks, StartRound(t)
      PROVE  PairInv'
  <2>1. /\ UNCHANGED <<script, lost, buf, in, out>> /\ B(t) = "none"
        /\ \A u \in TriggerBlocks \ {t} : B(u)' = B(u) /\ O(u)' = O(u)
        /\ B(t)' = "none" \/ (O(t)' = 1 /\ B(t)' \in {"k_means_plus", "waypoints_gen"})
    BY <1>8, RoundCases DEF StartRound, Others
  <2>2. WaysInStep'
    BY <1>1, <1>2, <2>1, PairFrame
  <2>3. PathsInStep'
    BY <1>1, <1>2, <2>1, PairFrame
  <2> QED BY <2>2, <2>3 DEF PairInv
<1>9. ASSUME NEW t \in TriggerBlocks, ReadPort(t)
      PROVE  PairInv'
  <2>1. ASSUME NEW b \in Computations, NEW o \in {1, 2},
  NEW f \in Buffers, ReadOf(t, b, o, f)
        PROVE  /\ UNCHANGED <<script, lost, out>> /\ Others(t)
               /\ B(t) = b /\ O(t) = o /\ B(t)' = b /\ O(t)' = o + 1
               /\ \A u \in TriggerBlocks \ {t} : B(u)' = B(u) /\ O(u)' = O(u)
               /\ in' = [in EXCEPT ![f] = Received(f)[1]]
               /\ buf' = [buf EXCEPT ![f] = Received(f)[2]]
               /\ \A g \in Buffers \ {f} : in'[g] = in[g] /\ buf'[g] = buf[g]
    BY <1>3, <2>1 DEF ReadOf, NextOpOf, Others, On
  <2>2. CASE ReadOf(t, "waypoints_gen", 1, "centers")
    <3>1. WaysInStep' /\ PathsInStep'
      BY <1>1, <1>2, <2>1, <2>2, PairFrame DEF Buffers, Computations
    <3> QED BY <3>1 DEF PairInv
  <2>3. CASE ReadOf(t, "waypoints_gen", 2, "nCenters")
    <3>1. WaysInStep' /\ PathsInStep'
      BY <1>1, <1>2, <2>1, <2>3, PairFrame DEF Buffers, Computations
    <3> QED BY <3>1 DEF PairInv
  <2>4. CASE ReadOf(t, "path_finding", 1, "costTable")
    <3>1. WaysInStep'
      BY <1>1, <1>2, <2>1, <2>4, PairSecondRead DEF Buffers, Computations
    <3>2. PathsInStep'
      BY <1>1, <1>2, <2>1, <2>4, PairFrame DEF Buffers, Computations
    <3> QED BY <3>1, <3>2 DEF PairInv
  <2>5. CASE ReadOf(t, "path_finding", 2, "wayPoints")
    <3>1. WaysInStep'
      BY <1>1, <1>2, <2>1, <2>5, PairFirstRead DEF Buffers, Computations
    <3>2. PathsInStep'
      BY <1>1, <1>2, <2>1, <2>5, PairFrame DEF Buffers, Computations
    <3> QED BY <3>1, <3>2 DEF PairInv
  <2>6. CASE ReadOf(t, "path_handler", 1, "pathWayPoints")
    <3>1. WaysInStep'
      BY <1>1, <1>2, <2>1, <2>6, PairFrame DEF Buffers, Computations
    <3>2. PathsInStep'
      BY <1>1, <1>2, <2>1, <2>6, PairSecondRead DEF Buffers, Computations
    <3> QED BY <3>1, <3>2 DEF PairInv
  <2>7. CASE ReadOf(t, "path_handler", 2, "nValidNodes")
    <3>1. WaysInStep'
      BY <1>1, <1>2, <2>1, <2>7, PairFrame DEF Buffers, Computations
    <3>2. PathsInStep'
      BY <1>1, <1>2, <2>1, <2>7, PairFirstRead DEF Buffers, Computations
    <3> QED BY <3>1, <3>2 DEF PairInv
  <2> QED BY <1>9, <2>2, <2>3, <2>4, <2>5, <2>6, <2>7, ReadCases
<1>10. ASSUME NEW t \in TriggerBlocks, WritePort(t)
       PROVE  PairInv'
  <2>1. ASSUME NEW b \in Computations, NEW o \in {2, 3, 4, 5}, NEW f \in Buffers,
               WriteOf(t, b, o, f)
        PROVE  /\ UNCHANGED <<script, in, out>> /\ B(t) = b /\ O(t) = o
               /\ lost \subseteq lost'
               /\ \A g \in Buffers \ {f} : buf'[g] = buf[g]
    BY <1>3, <2>1 DEF WriteOf, On
  <2>2. CASE WriteOf(t, "k_means_plus", 2, "centers") /\ NextOpOf(t, "k_means_plus", 3)
    <3>1. B(t)' = "k_means_plus" /\ \A u \in TriggerBlocks \ {t} : B(u)' = B(u) /\ O(u)' = O(u)
      BY <2>2 DEF NextOpOf, Others
    <3>2. WaysInStep' /\ PathsInStep'
      BY <1>1, <1>2, <2>1, <2>2, <3>1, PairFrame DEF Buffers, Computations
    <3> QED BY <3>2 DEF PairInv
  <2>3. CASE WriteOf(t, "k_means_plus", 3, "nCenters") /\ MovedOn(t)
    <3>1. /\ B(t)' = "none" \/ (B(t)' = "waypoints_gen" /\ O(t)' = 1)
          /\ \A u \in TriggerBlocks \ {t} : B(u)' = B(u) /\ O(u)' = O(u)
      BY <2>3 DEF MovedOn, Others, WriteOf, On
    <3>2. WaysInStep' /\ PathsInStep'
      BY <1>1, <1>2, <2>1, <2>3, <3>1, PairFrame DEF Buffers, Computations
    <3> QED BY <3>2 DEF PairInv
  <2>4. CASE WriteOf(t, "waypoints_gen", 4, "wayPoints") /\ NextOpOf(t, "waypoints_gen", 5)
    <3>1. /\ B(t)' = "waypoints_gen" /\ O(t)' = 5
          /\ \A u \in TriggerBlocks \ {t} : B(u)' = B(u) /\ O(u)' = O(u)
      BY <2>4 DEF NextOpOf, Others
    <3>2. WaysInStep'
      BY <1>1, <1>2, <2>4, PairFirstSent
    <3>3. PathsInStep'
      BY <1>1, <1>2, <2>1, <2>4, <3>1, PairFrame DEF Buffers, Computations
    <3> QED BY <3>2, <3>3 DEF PairInv
  <2>5. CASE WriteOf(t, "waypoints_gen", 5, "costTable") /\ MovedOn(t)
    <3>1. /\ B(t)' = "none" \/ (B(t)' = "path_finding" /\ O(t)' = 1)
          /\ Others(t) /\ \A u \in TriggerBlocks \ {t} : B(u)' = B(u) /\ O(u)' = O(u)
      <4>1. B(t) = "waypoints_gen"
        BY <2>5 DEF WriteOf, On
      <4>2. Rounds[t] # ScanRound
        BY <4>1, ScanPlaces
      <4> QED BY <2>5, <4>1, <4>2 DEF MovedOn, Others
    <3>2. WaysInStep'
      BY <1>1, <1>2, <2>5, <3>1, PairSecondSent
    <3>3. PathsInStep'
      BY <1>1, <1>2, <2>1, <2>5, <3>1, PairFrame DEF Buffers, Computations
    <3> QED BY <3>2, <3>3 DEF PairInv
  <2>6. CASE WriteOf(t, "path_finding", 4, "nValidNodes") /\ NextOpOf(t, "path_finding", 5)
    <3>1. /\ B(t)' = "path_finding" /\ O(t)' = 5
          /\ \A u \in TriggerBlocks \ {t} : B(u)' = B(u) /\ O(u)' = O(u)
      BY <2>6 DEF NextOpOf, Others
    <3>2. PathsInStep'
      BY <1>1, <1>2, <2>6, PairFirstSent
    <3>3. WaysInStep'
      BY <1>1, <1>2, <2>1, <2>6, <3>1, PairFrame DEF Buffers, Computations
    <3> QED BY <3>2, <3>3 DEF PairInv
  <2>7. CASE WriteOf(t, "path_finding", 5, "pathWayPoints") /\ MovedOn(t)
    <3>1. /\ B(t)' = "none" \/ (B(t)' = "path_handler" /\ O(t)' = 1)
          /\ Others(t) /\ \A u \in TriggerBlocks \ {t} : B(u)' = B(u) /\ O(u)' = O(u)
      <4>1. B(t) = "path_finding"
        BY <2>7 DEF WriteOf, On
      <4>2. Rounds[t] # ScanRound
        BY <4>1, ScanPlaces
      <4> QED BY <2>7, <4>1, <4>2 DEF MovedOn, Others
    <3>2. PathsInStep'
      BY <1>1, <1>2, <2>7, <3>1, PairSecondSent
    <3>3. WaysInStep'
      BY <1>1, <1>2, <2>1, <2>7, <3>1, PairFrame DEF Buffers, Computations
    <3> QED BY <3>2, <3>3 DEF PairInv
  <2> QED BY <1>10, <2>2, <2>3, <2>4, <2>5, <2>6, <2>7, WriteCases
<1>11. ASSUME NEW t \in TriggerBlocks, KMeans(t)
       PROVE  PairInv'
  <2>1. /\ UNCHANGED <<script, lost, buf, in>> /\ On(t, "k_means_plus", 1)
        /\ NextOpOf(t, "k_means_plus", 2) \/ MovedOn(t)
        /\ out' = out \/ out' = [out EXCEPT !["k_means_plus"].scan = scans']
    BY <1>11, ComputeCases DEF KMeans, Computes
  <2>2. /\ B(t) = "k_means_plus" /\ O(t) = 1
        /\ \A u \in TriggerBlocks \ {t} : B(u)' = B(u) /\ O(u)' = O(u)
        /\ \/ B(t)' = "none" \/ B(t)' = "k_means_plus"
           \/ B(t)' = "waypoints_gen" /\ O(t)' = 1
    BY <2>1 DEF NextOpOf, MovedOn, Others, On
  <2>3. /\ out'["waypoints_gen"] = out["waypoints_gen"]
        /\ out'["path_finding"] = out["path_finding"]
    BY <1>3, <2>1 DEF Computations
  <2>4. WaysInStep' /\ PathsInStep'
    BY <1>1, <1>2, <2>1, <2>2, <2>3, PairFrame
  <2> QED BY <2>4 DEF PairInv
<1>12. ASSUME NEW t \in TriggerBlocks, WaypointsGen(t)
       PROVE  PairInv'
  <2>1. /\ UNCHANGED <<script, lost, buf, in>> /\ On(t, "waypoints_gen", 3)
        /\ NextOpOf(t, "waypoints_gen", 4)
        /\ out'["path_finding"] = out["path_finding"]
    BY <1>3, <1>12, ComputeCases DEF WaypointsGen, Computes, Computations
  <2>2. /\ B(t) = "waypoints_gen" /\ O(t) = 3 /\ B(t)' = "waypoints_gen" /\ O(t)' = 4
        /\ \A u \in TriggerBlocks \ {t} : B(u)' = B(u) /\ O(u)' = O(u)
    BY <2>1 DEF NextOpOf, Others, On
  <2>3. \A u \in TriggerBlocks : ~ (B(u)' = "waypoints_gen" /\ O(u)' = 5)
    BY <2>2, Away
  <2>4. WaysInStep' /\ PathsInStep'
    BY <1>1, <1>2, <2>1, <2>2, <2>3, PairFrame
  <2> QED BY <2>4 DEF PairInv
<1>13. ASSUME NEW t \in TriggerBlocks, FindPath(t)
       PROVE  PairInv'
  <2>1. /\ UNCHANGED <<script, lost, buf, in>> /\ On(t, "path_finding", 3)
        /\ NextOpOf(t, "path_finding", 4)
        /\ out'["waypoints_gen"] = out["waypoints_gen"]
    BY <1>3, <1>13, ComputeCases DEF FindPath, Computes, Computations
  <2>2. /\ B(t) = "path_finding" /\ O(t) = 3 /\ B(t)' = "path_finding" /\ O(t)' = 4
        /\ \A u \in TriggerBlocks \ {t} : B(u)' = B(u) /\ O(u)' = O(u)
    BY <2>1 DEF NextOpOf, Others, On
  <2>3. \A u \in TriggerBlocks : ~ (B(u)' = "path_finding" /\ O(u)' = 5)
    BY <2>2, Away
  <2>4. WaysInStep' /\ PathsInStep'
    BY <1>1, <1>2, <2>1, <2>2, <2>3, PairFrame
  <2> QED BY <2>4 DEF PairInv
<1>14. ASSUME NEW t \in TriggerBlocks, HandlePath(t)
       PROVE  PairInv'
  <2>1. /\ UNCHANGED <<script, lost, buf, in, out>> /\ On(t, "path_handler", 3)
        /\ MovedOn(t)
    BY <1>14, ComputeCases DEF HandlePath, Computes
  <2>2. /\ B(t) = "path_handler" /\ O(t) = 3 /\ B(t)' = "none"
        /\ \A u \in TriggerBlocks \ {t} : B(u)' = B(u) /\ O(u)' = O(u)
    BY <2>1 DEF MovedOn, Others, On
  <2>4. WaysInStep' /\ PathsInStep'
    BY <1>1, <1>2, <2>1, <2>2, PairFrame
  <2> QED BY <2>4 DEF PairInv
<1> QED
  BY <1>6, <1>7, <1>8, <1>9, <1>10, <1>11, <1>12, <1>13, <1>14 DEF PlanNext

(* A bound on the age of a sample follows its slack. *)
LEMMA SlackMoves ==
  ASSUME NEW a \in Int, NEW l \in Int, NEW s \in Int, NEW n \in Int, NEW r \in Int,
         NEW m \in Int, NEW e \in Int,
         l >= 0, l < e, a + s + l >= n, e <= 0 \/ r - m >= s - n
  PROVE  a + r + l >= m
OBVIOUS

(* Fewer samples, or older ones. *)
LEMMA GensWeaker ==
  ASSUME NEW q \in Seq(Samples), NEW n \in Int, NEW d \in Int, NEW s \in Int,
         NEW m \in Int, NEW e \in Int, NEW r \in Int, SizeAssumption,
         GensWithin(q, n, d, s), e <= d, e <= 0 \/ r - m >= s - n
  PROVE  GensWithin(q, m, e, r)
<1>1. \A x \in Samples : x.gen \in Nat
  BY DEF Samples, SizeAssumption
<1>2. SUFFICES ASSUME NEW i \in DOMAIN q, Len(q) - i < e
               PROVE  q[i].gen + r + (Len(q) - i) >= m
  BY DEF GensWithin
<1>3. i \in 1 .. Len(q) /\ Len(q) \in Nat /\ q[i].gen \in Nat
  BY <1>1
<1>4. q[i].gen + s + (Len(q) - i) >= n
  BY <1>2, <1>3 DEF GensWithin
<1>5. PICK a \in Int, l \in Int :
        a = q[i].gen /\ l = Len(q) - i /\ l >= 0 /\ l < e /\ (a + s + l >= n)
  BY <1>2, <1>3, <1>4
<1> QED BY <1>5, SlackMoves

(* The same for the scans. *)
LEMMA ScansWeaker ==
  ASSUME NEW q \in Seq(Samples), NEW n \in Int, NEW d \in Int, NEW s \in Int,
         NEW m \in Int, NEW e \in Int, NEW r \in Int, SizeAssumption,
         ScansWithin(q, n, d, s), e <= d, e <= 0 \/ r - m >= s - n
  PROVE  ScansWithin(q, m, e, r)
<1>1. \A x \in Samples : x.scan \in Nat
  BY DEF Samples, SizeAssumption
<1>2. SUFFICES ASSUME NEW i \in DOMAIN q, Len(q) - i < e
               PROVE  q[i].scan = 0 \/ q[i].scan + r + (Len(q) - i) >= m
  BY DEF ScansWithin
<1>3. i \in 1 .. Len(q) /\ Len(q) \in Nat /\ q[i].scan \in Nat
  BY <1>1
<1>4. q[i].scan = 0 \/ q[i].scan + s + (Len(q) - i) >= n
  BY <1>2, <1>3 DEF ScansWithin
<1>5. PICK a \in Int, l \in Int :
        a = q[i].scan /\ l = Len(q) - i /\ l >= 0 /\ l < e /\ (a = 0 \/ a + s + l >= n)
  BY <1>2, <1>3, <1>4
<1> QED BY <1>5, SlackMoves

(* What a read leaves. *)
LEMMA TailPlaces ==
  ASSUME NEW q \in Seq(Samples), q # <<>>
  PROVE  /\ Tail(q) \in Seq(Samples) /\ Len(Tail(q)) = Len(q) - 1 /\ Len(q) \in Nat
         /\ Head(q) = q[1] /\ 1 \in DOMAIN q /\ Len(q) >= 1
         /\ \A i \in DOMAIN Tail(q) :
              i \in 1 .. Len(q) - 1 /\ i + 1 \in DOMAIN q /\ Tail(q)[i] = q[i + 1]
OBVIOUS

(* A read keeps what is known of the samples that stay. *)
LEMMA WithinTail ==
  ASSUME NEW q \in Seq(Samples), q # <<>>, NEW n \in Int, NEW d \in Int, NEW s \in Int,
         SizeAssumption
  PROVE  /\ GensLast(q, n) => GensLast(Tail(q), n)
         /\ ScansLast(q, n) => ScansLast(Tail(q), n)
         /\ GensWithin(q, n, d, s) => GensWithin(Tail(q), n, d, s)
         /\ ScansWithin(q, n, d, s) => ScansWithin(Tail(q), n, d, s)
<1> DEFINE r == Tail(q)
<1>1. /\ r \in Seq(Samples) /\ Len(r) = Len(q) - 1 /\ Len(q) \in Nat
      /\ \A i \in DOMAIN r : i \in 1 .. Len(q) - 1 /\ i + 1 \in DOMAIN q /\ r[i] = q[i + 1]
  BY TailPlaces
<1> HIDE DEF r
<1>2. \A i \in DOMAIN r : Len(r) - i = Len(q) - (i + 1)
  BY <1>1
<1>3. GensLast(q, n) => GensLast(r, n)
  BY <1>1, <1>2 DEF GensLast
<1>4. ScansLast(q, n) => ScansLast(r, n)
  BY <1>1, <1>2 DEF ScansLast
<1>5. GensWithin(q, n, d, s) => GensWithin(r, n, d, s)
  BY <1>1, <1>2 DEF GensWithin
<1>6. ScansWithin(q, n, d, s) => ScansWithin(r, n, d, s)
  BY <1>1, <1>2 DEF ScansWithin
<1> QED BY <1>3, <1>4, <1>5, <1>6 DEF r

(* What a write makes of it. *)
LEMMA LastPushed ==
  ASSUME NEW q \in Seq(Samples), Len(q) <= Size, NEW v \in Samples, NEW n \in Int,
         SizeAssumption
  PROVE  /\ GensLast(q, n - 1) /\ v.gen = n => GensLast(Pushed(q, v), n)
         /\ ScansLast(q, n - 1) /\ v.scan = n => ScansLast(Pushed(q, v), n)
<1> DEFINE r == Pushed(q, v)
<1>1. PICK d \in {0, 1} :
        /\ Len(r) = Len(q) + 1 - d /\ Len(r) \in Nat \ {0} /\ r \in Seq(Samples)
        /\ r[Len(r)] = v
        /\ \A i \in DOMAIN r : i # Len(r) => i + d \in DOMAIN q /\ r[i] = q[i + d]
  BY PushedPlaces
<1>2. \A x \in Samples : x.gen \in Nat /\ x.scan \in Nat
  BY DEF Samples, SizeAssumption
<1> HIDE DEF r
<1>3. \A i \in DOMAIN r : i \in Nat /\ Len(r) - i = (Len(q) - (i + d)) + 1
  BY <1>1
<1>4. \A i \in DOMAIN q : q[i].gen \in Nat /\ q[i].scan \in Nat /\ Len(q) - i \in Int
  BY <1>2
<1>5. GensLast(q, n - 1) /\ v.gen = n => GensLast(r, n)
  <2> SUFFICES ASSUME GensLast(q, n - 1), v.gen = n, NEW i \in DOMAIN r
               PROVE  r[i].gen + (Len(r) - i) = n
    BY DEF GensLast
  <2>1. CASE i = Len(r)
    BY <1>1, <2>1
  <2>2. CASE i # Len(r)
    <3>1. i + d \in DOMAIN q /\ r[i] = q[i + d] /\ q[i + d].gen + (Len(q) - (i + d)) = n - 1
      BY <1>1, <2>2 DEF GensLast
    <3>2. Len(q) - (i + d) \in Int /\ q[i + d].gen \in Nat
      BY <1>4, <3>1
    <3>3. Len(r) - i = (Len(q) - (i + d)) + 1 /\ r[i].gen = q[i + d].gen
      BY <1>3, <3>1
    <3> QED BY <3>1, <3>2, <3>3
  <2> QED BY <2>1, <2>2
<1>6. ScansLast(q, n - 1) /\ v.scan = n => ScansLast(r, n)
  <2> SUFFICES ASSUME ScansLast(q, n - 1), v.scan = n, NEW i \in DOMAIN r
               PROVE  r[i].scan + (Len(r) - i) = n
    BY DEF ScansLast
  <2>1. CASE i = Len(r)
    BY <1>1, <2>1
  <2>2. CASE i # Len(r)
    <3>1. /\ i + d \in DOMAIN q /\ r[i] = q[i + d]
          /\ q[i + d].scan + (Len(q) - (i + d)) = n - 1
      BY <1>1, <2>2 DEF ScansLast
    <3>2. Len(q) - (i + d) \in Int /\ q[i + d].scan \in Nat
      BY <1>4, <3>1
    <3>3. Len(r) - i = (Len(q) - (i + d)) + 1 /\ r[i].scan = q[i + d].scan
      BY <1>3, <3>1
    <3> QED BY <3>1, <3>2, <3>3
  <2> QED BY <2>1, <2>2
<1> QED BY <1>5, <1>6 DEF r

(* A sample that is recent enough keeps the newest ones recent. *)
LEMMA WithinPushed ==
  ASSUME NEW q \in Seq(Samples), Len(q) <= Size, NEW v \in Samples, NEW n \in Int,
         NEW d \in Int, NEW s \in Int, SizeAssumption
  PROVE  /\ GensWithin(q, n, d, s + 1) /\ (0 < d + 1 => v.gen + s >= n) =>
              GensWithin(Pushed(q, v), n, d + 1, s)
         /\ ScansWithin(q, n, d, s + 1) /\ (0 < d + 1 => v.scan = 0 \/ v.scan + s >= n) =>
              ScansWithin(Pushed(q, v), n, d + 1, s)
<1> DEFINE r == Pushed(q, v)
<1>1. PICK k \in {0, 1} :
        /\ Len(r) = Len(q) + 1 - k /\ Len(r) \in Nat \ {0} /\ r \in Seq(Samples)
        /\ r[Len(r)] = v
        /\ \A i \in DOMAIN r : i # Len(r) => i + k \in DOMAIN q /\ r[i] = q[i + k]
  BY PushedPlaces
<1>2. \A x \in Samples : x.gen \in Nat /\ x.scan \in Nat
  BY DEF Samples, SizeAssumption
<1> HIDE DEF r
<1>3. \A i \in DOMAIN r : i \in Nat /\ Len(r) - i = (Len(q) - (i + k)) + 1
  BY <1>1
<1>4. \A i \in DOMAIN q : q[i].gen \in Nat /\ q[i].scan \in Nat /\ Len(q) - i \in Int
  BY <1>2
<1>5. GensWithin(q, n, d, s + 1) /\ (0 < d + 1 => v.gen + s >= n) =>
        GensWithin(r, n, d + 1, s)
  <2>0. SUFFICES ASSUME GensWithin(q, n, d, s + 1), 0 < d + 1 => v.gen + s >= n,
                        NEW i \in DOMAIN r, Len(r) - i < d + 1
                 PROVE  r[i].gen + s + (Len(r) - i) >= n
    BY DEF GensWithin
  <2>1. CASE i = Len(r)
    BY <1>1, <1>2, <2>0, <2>1
  <2>2. CASE i # Len(r)
    <3>1. i + k \in DOMAIN q /\ r[i] = q[i + k]
      BY <1>1, <2>2
    <3>2. Len(q) - (i + k) \in Int /\ q[i + k].gen \in Nat
      BY <1>4, <3>1
    <3>3. Len(q) - (i + k) < d
      BY <1>3, <2>0, <3>2
    <3>4. q[i + k].gen + (s + 1) + (Len(q) - (i + k)) >= n
      BY <2>0, <3>1, <3>3 DEF GensWithin
    <3>5. PICK a \in Int, l \in Int :
            /\ a = q[i + k].gen /\ l = Len(q) - (i + k) /\ r[i].gen = a
            /\ a + (s + 1) + l >= n
      BY <3>1, <3>2, <3>4
    <3>6. Len(r) - i = l + 1
      BY <1>3, <3>5
    <3>7. a + s + (l + 1) >= n
      BY <3>5
    <3> QED BY <3>5, <3>6, <3>7
  <2> QED BY <2>1, <2>2
<1>6. ScansWithin(q, n, d, s + 1) /\ (0 < d + 1 => v.scan = 0 \/ v.scan + s >= n) =>
        ScansWithin(r, n, d + 1, s)
  <2>0. SUFFICES ASSUME ScansWithin(q, n, d, s + 1), 0 < d + 1 => v.scan = 0 \/ v.scan + s >= n,
                        NEW i \in DOMAIN r, Len(r) - i < d + 1
                 PROVE  r[i].scan = 0 \/ r[i].scan + s + (Len(r) - i) >= n
    BY DEF ScansWithin
  <2>1. CASE i = Len(r)
    BY <1>1, <1>2, <2>0, <2>1
  <2>2. CASE i # Len(r)
    <3>1. i + k \in DOMAIN q /\ r[i] = q[i + k]
      BY <1>1, <2>2
    <3>2. Len(q) - (i + k) \in Int /\ q[i + k].scan \in Nat
      BY <1>4, <3>1
    <3>3. Len(q) - (i + k) < d
      BY <1>3, <2>0, <3>2
    <3>4. q[i + k].scan = 0 \/ q[i + k].scan + (s + 1) + (Len(q) - (i + k)) >= n
      BY <2>0, <3>1, <3>3 DEF ScansWithin
    <3>5. PICK a \in Int, l \in Int :
            /\ a = q[i + k].scan /\ l = Len(q) - (i + k) /\ r[i].scan = a
            /\ a = 0 \/ a + (s + 1) + l >= n
      BY <3>1, <3>2, <3>4
    <3>6. Len(r) - i = l + 1
      BY <1>3, <3>5
    <3>7. a = 0 \/ a + s + (l + 1) >= n
      BY <3>5
    <3> QED BY <3>5, <3>6, <3>7
  <2> QED BY <2>1, <2>2
<1> QED BY <1>5, <1>6 DEF r

(* Num counts. *)
LEMMA NumFacts ==
  ASSUME NEW p
  PROVE  Num(p) \in {0, 1} /\ (p => Num(p) = 1) /\ (~ p => Num(p) = 0)
BY DEF Num

(* The arithmetic of the constants. *)
LEMMA SizeFacts ==
  ASSUME SizeAssumption
  PROVE  /\ Size \in Nat /\ Size >= 1 /\ Settled \in Nat /\ Settled >= Size
         /\ Settled >= 2 * (Size - 1)
         /\ \A s \in Samples : s.gen \in Nat /\ s.scan \in Nat
BY DEF SizeAssumption, Samples

(* How old the plans are when a stop, a start or a lost round resets the age. *)
LEMMA GenReset ==
  ASSUME NEW h \in Nat, h <= Settled, NEW n \in Nat, NEW oG \in Samples,
         NEW W \in Seq(Samples), Len(W) <= Size, NEW iW \in Samples, NEW oF \in Samples,
         NEW P \in Seq(Samples), Len(P) <= Size, NEW iP \in Samples, SizeAssumption,
         NEW b, NEW o, GenAt(b, o, h, n, oG, W, iW, oF, P, iP)
  PROVE  GenAt(b, o, 0, n, oG, W, iW, oF, P, iP)
<1>0. Size \in Nat /\ Size >= 1 /\ Settled \in Nat /\ Settled >= Size
      /\ Settled >= 2 * (Size - 1) /\ n \in Int /\ h \in Int
      /\ \A s \in Samples : s.gen \in Nat /\ s.scan \in Nat
  BY SizeFacts
<1> DEFINE a == Num(PathSent(b))
           c == Num(Generated(b, o))
<1>1. a \in {0, 1} /\ c \in {0, 1}
  BY NumFacts
<1>2. GensWithin(P, n, h - 1 + a, (Size - 1) + c - a)
  BY DEF GenAt
<1> HIDE DEF a, c
<1>3. GensWithin(P, n, 0 - 1 + a, (Size - 1) + c - a)
  <2>1. /\ h - 1 + a \in Int /\ (Size - 1) + c - a \in Int /\ 0 - 1 + a \in Int
        /\ 0 - 1 + a <= h - 1 + a
    BY <1>0, <1>1
  <2> QED BY <1>0, <1>2, <2>1, GensWeaker
<1> QED BY <1>0, <1>3 DEF GenAt, a, c

(* When a round ends early. *)
LEMMA GenNone ==
  ASSUME NEW h \in Nat, h <= Settled, NEW n \in Nat, NEW oG \in Samples,
         NEW W \in Seq(Samples), Len(W) <= Size, NEW iW \in Samples, NEW oF \in Samples,
         NEW P \in Seq(Samples), Len(P) <= Size, NEW iP \in Samples, SizeAssumption,
         NEW o, GensLast(W, n)
  PROVE  GenAt("none", o, 0, n, oG, W, iW, oF, P, iP)
<1>0. Size \in Nat /\ Size >= 1 /\ Settled \in Nat /\ Settled >= Size
      /\ Settled >= 2 * (Size - 1) /\ n \in Int /\ h \in Int
      /\ \A s \in Samples : s.gen \in Nat /\ s.scan \in Nat
  BY SizeFacts
<1>1. GensWithin(P, n, -1, Size - 1)
  <2>1. \A i \in DOMAIN P : i \in 1 .. Len(P) /\ Len(P) \in Nat
    OBVIOUS
  <2> QED BY <2>1 DEF GensWithin
<1>2. 0 - 1 + 0 = -1 /\ (Size - 1) + 0 - 0 = Size - 1 /\ n - 0 = n
  BY <1>0
<1> QED BY <1>0, <1>1, <1>2 DEF GenAt, Num, Generated, PathSent

(* When a step changes none of the plans. *)
LEMMA GenMoves ==
  ASSUME NEW h \in Nat, h <= Settled, NEW n \in Nat, NEW oG \in Samples,
         NEW W \in Seq(Samples), Len(W) <= Size, NEW iW \in Samples, NEW oF \in Samples,
         NEW P \in Seq(Samples), Len(P) <= Size, NEW iP \in Samples, SizeAssumption,
         NEW o
  PROVE  /\ GenAt("none", o, h, n, oG, W, iW, oF, P, iP) =>
              GenAt("k_means_plus", 1, h, n, oG, W, iW, oF, P, iP)
         /\ GenAt("k_means_plus", 1, h, n, oG, W, iW, oF, P, iP) =>
              GenAt("k_means_plus", 2, h, n, oG, W, iW, oF, P, iP)
         /\ GenAt("k_means_plus", 2, h, n, oG, W, iW, oF, P, iP) =>
              GenAt("k_means_plus", 3, h, n, oG, W, iW, oF, P, iP)
         /\ GenAt("k_means_plus", 1, h, n, oG, W, iW, oF, P, iP) =>
              GenAt("waypoints_gen", 1, h, n, oG, W, iW, oF, P, iP)
         /\ GenAt("k_means_plus", 3, h, n, oG, W, iW, oF, P, iP) =>
              GenAt("waypoints_gen", 1, h, n, oG, W, iW, oF, P, iP)
         /\ GenAt("waypoints_gen", 1, h, n, oG, W, iW, oF, P, iP) =>
              GenAt("waypoints_gen", 2, h, n, oG, W, iW, oF, P, iP)
         /\ GenAt("waypoints_gen", 2, h, n, oG, W, iW, oF, P, iP) =>
              GenAt("waypoints_gen", 3, h, n, oG, W, iW, oF, P, iP)
         /\ GenAt("waypoints_gen", 5, h, n, oG, W, iW, oF, P, iP) =>
              GenAt("path_finding", 1, h, n, oG, W, iW, oF, P, iP)
         /\ GenAt("path_finding", 1, h, n, oG, W, iW, oF, P, iP) =>
              GenAt("path_finding", 2, h, n, oG, W, iW, oF, P, iP)
         /\ GenAt("path_finding", 4, h, n, oG, W, iW, oF, P, iP) =>
              GenAt("path_finding", 5, h, n, oG, W, iW, oF, P, iP)
         /\ GenAt("path_handler", 2, h, n, oG, W, iW, oF, P, iP) =>
              GenAt("path_handler", 3, h, n, oG, W, iW, oF, P, iP)
<1>1. GenAt("none", o, h, n, oG, W, iW, oF, P, iP) =>
        GenAt("k_means_plus", 1, h, n, oG, W, iW, oF, P, iP)
  BY DEF GenAt, Num, Generated, PathSent
<1>2. GenAt("k_means_plus", 1, h, n, oG, W, iW, oF, P, iP) =>
        GenAt("k_means_plus", 2, h, n, oG, W, iW, oF, P, iP)
  BY DEF GenAt, Num, Generated, PathSent
<1>3. GenAt("k_means_plus", 2, h, n, oG, W, iW, oF, P, iP) =>
        GenAt("k_means_plus", 3, h, n, oG, W, iW, oF, P, iP)
  BY DEF GenAt, Num, Generated, PathSent
<1>4. GenAt("k_means_plus", 1, h, n, oG, W, iW, oF, P, iP) =>
        GenAt("waypoints_gen", 1, h, n, oG, W, iW, oF, P, iP)
  BY DEF GenAt, Num, Generated, PathSent
<1>5. GenAt("k_means_plus", 3, h, n, oG, W, iW, oF, P, iP) =>
        GenAt("waypoints_gen", 1, h, n, oG, W, iW, oF, P, iP)
  BY DEF GenAt, Num, Generated, PathSent
<1>6. GenAt("waypoints_gen", 1, h, n, oG, W, iW, oF, P, iP) =>
        GenAt("waypoints_gen", 2, h, n, oG, W, iW, oF, P, iP)
  BY DEF GenAt, Num, Generated, PathSent
<1>7. GenAt("waypoints_gen", 2, h, n, oG, W, iW, oF, P, iP) =>
        GenAt("waypoints_gen", 3, h, n, oG, W, iW, oF, P, iP)
  BY DEF GenAt, Num, Generated, PathSent
<1>8. GenAt("waypoints_gen", 5, h, n, oG, W, iW, oF, P, iP) =>
        GenAt("path_finding", 1, h, n, oG, W, iW, oF, P, iP)
  BY DEF GenAt, Num, Generated, PathSent
<1>9. GenAt("path_finding", 1, h, n, oG, W, iW, oF, P, iP) =>
        GenAt("path_finding", 2, h, n, oG, W, iW, oF, P, iP)
  BY DEF GenAt, Num, Generated, PathSent
<1>10. GenAt("path_finding", 4, h, n, oG, W, iW, oF, P, iP) =>
        GenAt("path_finding", 5, h, n, oG, W, iW, oF, P, iP)
  BY DEF GenAt, Num, Generated, PathSent
<1>11. GenAt("path_handler", 2, h, n, oG, W, iW, oF, P, iP) =>
        GenAt("path_handler", 3, h, n, oG, W, iW, oF, P, iP)
  BY DEF GenAt, Num, Generated, PathSent
<1> QED BY <1>1, <1>2, <1>3, <1>4, <1>5, <1>6, <1>7, <1>8, <1>9, <1>10, <1>11

(* When a whole round ends. *)
LEMMA GenCounted ==
  ASSUME NEW h \in Nat, h <= Settled, NEW n \in Nat, NEW oG \in Samples,
         NEW W \in Seq(Samples), Len(W) <= Size, NEW iW \in Samples, NEW oF \in Samples,
         NEW P \in Seq(Samples), Len(P) <= Size, NEW iP \in Samples, SizeAssumption,
         GenAt("path_handler", 3, h, n, oG, W, iW, oF, P, iP),
         NEW k \in Nat, k <= h + 1, NEW o
  PROVE  GenAt("none", o, k, n, oG, W, iW, oF, P, iP)
<1>0. Size \in Nat /\ Size >= 1 /\ Settled \in Nat /\ Settled >= Size
      /\ Settled >= 2 * (Size - 1) /\ n \in Int /\ h \in Int
      /\ \A s \in Samples : s.gen \in Nat /\ s.scan \in Nat
  BY SizeFacts
<1>1. GensLast(W, n - 0) /\ GensWithin(P, n, h - 1 + 1, (Size - 1) + 1 - 1)
  BY DEF GenAt, Num, Generated, PathSent
<1>2. GensWithin(P, n, k - 1 + 0, (Size - 1) + 0 - 0)
  <2>1. /\ h - 1 + 1 \in Int /\ (Size - 1) + 1 - 1 \in Int /\ k - 1 + 0 \in Int
        /\ (Size - 1) + 0 - 0 \in Int /\ k - 1 + 0 <= h - 1 + 1
        /\ ((Size - 1) + 0 - 0) - n >= ((Size - 1) + 1 - 1) - n
    BY <1>0
  <2> QED BY <1>0, <1>1, <2>1, GensWeaker
<1> QED BY <1>1, <1>2 DEF GenAt, Num, Generated, PathSent

(* When waypoints_gen makes a plan. *)
LEMMA GenGenerated ==
  ASSUME NEW h \in Nat, h <= Settled, NEW n \in Nat, NEW oG \in Samples,
         NEW W \in Seq(Samples), Len(W) <= Size, NEW iW \in Samples, NEW oF \in Samples,
         NEW P \in Seq(Samples), Len(P) <= Size, NEW iP \in Samples, SizeAssumption,
         GenAt("waypoints_gen", 3, h, n, oG, W, iW, oF, P, iP),
         NEW new \in Samples, new.gen = n + 1
  PROVE  GenAt("waypoints_gen", 4, h, n + 1, new, W, iW, oF, P, iP)
<1>0. Size \in Nat /\ Size >= 1 /\ Settled \in Nat /\ Settled >= Size
      /\ Settled >= 2 * (Size - 1) /\ n \in Int /\ h \in Int
      /\ \A s \in Samples : s.gen \in Nat /\ s.scan \in Nat
  BY SizeFacts
<1>1. GensLast(W, n - 0) /\ GensWithin(P, n, h - 1 + 0, (Size - 1) + 0 - 0)
  BY DEF GenAt, Num, Generated, PathSent
<1>2. GensWithin(P, n + 1, h - 1 + 0, (Size - 1) + 1 - 0)
  <2>1. /\ h - 1 + 0 \in Int /\ (Size - 1) + 0 - 0 \in Int /\ n + 1 \in Int
        /\ (Size - 1) + 1 - 0 \in Int
        /\ ((Size - 1) + 1 - 0) - (n + 1) >= ((Size - 1) + 0 - 0) - n
    BY <1>0
  <2> QED BY <1>0, <1>1, <2>1, GensWeaker
<1>3. n + 1 - 1 = n - 0
  BY <1>0
<1>4. GensLast(W, n + 1 - 1)
  BY <1>1, <1>3
<1> QED BY <1>2, <1>4 DEF GenAt, Num, Generated, PathSent

(* When it writes its way points: a buffer that is not active is empty. *)
LEMMA GenWaySent ==
  ASSUME NEW h \in Nat, h <= Settled, NEW n \in Nat, NEW oG \in Samples,
         NEW W \in Seq(Samples), Len(W) <= Size, NEW iW \in Samples, NEW oF \in Samples,
         NEW P \in Seq(Samples), Len(P) <= Size, NEW iP \in Samples, SizeAssumption,
         GenAt("waypoints_gen", 4, h, n, oG, W, iW, oF, P, iP)
  PROVE  GenAt("waypoints_gen", 5, h, n, oG, Pushed(W, oG), iW, oF, P, iP)
         /\ (W = <<>> => GenAt("waypoints_gen", 5, 0, n, oG, W, iW, oF, P, iP))
<1>0. Size \in Nat /\ Size >= 1 /\ Settled \in Nat /\ Settled >= Size
      /\ Settled >= 2 * (Size - 1) /\ n \in Int /\ h \in Int
      /\ \A s \in Samples : s.gen \in Nat /\ s.scan \in Nat
  BY SizeFacts
<1>1. /\ oG.gen = n /\ GensLast(W, n - 1)
      /\ GensWithin(P, n, h - 1 + 0, (Size - 1) + 1 - 0)
  BY DEF GenAt, Num, Generated, PathSent
<1>2. GensLast(Pushed(W, oG), n) /\ Pushed(W, oG) # <<>>
  BY <1>0, <1>1, LastPushed, PushedFacts
<1>3. n - 0 = n
  BY <1>0
<1>4. GenAt("waypoints_gen", 5, h, n, oG, Pushed(W, oG), iW, oF, P, iP)
  BY <1>1, <1>2, <1>3 DEF GenAt, Num, Generated, PathSent
<1>5. ASSUME W = <<>>
      PROVE  GenAt("waypoints_gen", 5, 0, n, oG, W, iW, oF, P, iP)
  <2>1. GensWithin(P, n, 0 - 1 + 0, (Size - 1) + 1 - 0)
    <3>1. /\ h - 1 + 0 \in Int /\ (Size - 1) + 1 - 0 \in Int /\ 0 - 1 + 0 \in Int
          /\ 0 - 1 + 0 <= h - 1 + 0
      BY <1>0
    <3> QED BY <1>0, <1>1, <3>1, GensWeaker
  <2>2. GensLast(W, n - 0)
    BY <1>5 DEF GensLast
  <2> QED BY <1>1, <2>1, <2>2 DEF GenAt, Num, Generated, PathSent
<1> QED BY <1>4, <1>5

(* When path_finding reads them. *)
LEMMA GenWayRead ==
  ASSUME NEW h \in Nat, h <= Settled, NEW n \in Nat, NEW oG \in Samples,
         NEW W \in Seq(Samples), Len(W) <= Size, NEW iW \in Samples, NEW oF \in Samples,
         NEW P \in Seq(Samples), Len(P) <= Size, NEW iP \in Samples, SizeAssumption,
         GenAt("path_finding", 2, h, n, oG, W, iW, oF, P, iP)
  PROVE  /\ W # <<>> => GenAt("path_finding", 3, h, n, oG, Tail(W), Head(W), oF, P, iP)
         /\ W = <<>> => GenAt("path_finding", 3, h, n, oG, W, Junk, oF, P, iP)
<1>0. Size \in Nat /\ Size >= 1 /\ Settled \in Nat /\ Settled >= Size
      /\ Settled >= 2 * (Size - 1) /\ n \in Int /\ h \in Int
      /\ \A s \in Samples : s.gen \in Nat /\ s.scan \in Nat
  BY SizeFacts
<1>1. /\ GensLast(W, n - 0) /\ GensWithin(P, n, h - 1 + 0, (Size - 1) + 1 - 0)
      /\ h > 0 => W # <<>>
  BY DEF GenAt, Num, Generated, PathSent
<1>2. ASSUME W # <<>>
      PROVE  GenAt("path_finding", 3, h, n, oG, Tail(W), Head(W), oF, P, iP)
  <2>1. Head(W) = W[1] /\ 1 \in DOMAIN W /\ Len(W) \in Nat /\ W[1] \in Samples
    BY <1>2, TailPlaces
  <2>2. W[1].gen + (Len(W) - 1) = n - 0
    BY <1>1, <2>1 DEF GensLast
  <2>3. Head(W).gen + (Size - 1) >= n
    BY <1>0, <2>1, <2>2
  <2>4. GensLast(Tail(W), n - 0)
    <3>1. n - 0 \in Int
      BY <1>0
    <3> QED BY <1>1, <1>2, <3>1, WithinTail
  <2> QED BY <1>1, <2>3, <2>4 DEF GenAt, Num, Generated, PathSent
<1>3. ASSUME W = <<>>
      PROVE  GenAt("path_finding", 3, h, n, oG, W, Junk, oF, P, iP)
  BY <1>1, <1>3 DEF GenAt, Num, Generated, PathSent
<1> QED BY <1>2, <1>3

(* When it finds a path. *)
LEMMA GenFound ==
  ASSUME NEW h \in Nat, h <= Settled, NEW n \in Nat, NEW oG \in Samples,
         NEW W \in Seq(Samples), Len(W) <= Size, NEW iW \in Samples, NEW oF \in Samples,
         NEW P \in Seq(Samples), Len(P) <= Size, NEW iP \in Samples, SizeAssumption,
         GenAt("path_finding", 3, h, n, oG, W, iW, oF, P, iP),
         NEW new \in Samples, new.gen = iW.gen
  PROVE  GenAt("path_finding", 4, h, n, oG, W, iW, new, P, iP)
BY DEF GenAt, Num, Generated, PathSent

(* When it writes the path. *)
LEMMA GenPathSent ==
  ASSUME NEW h \in Nat, h <= Settled, NEW n \in Nat, NEW oG \in Samples,
         NEW W \in Seq(Samples), Len(W) <= Size, NEW iW \in Samples, NEW oF \in Samples,
         NEW P \in Seq(Samples), Len(P) <= Size, NEW iP \in Samples, SizeAssumption,
         GenAt("path_finding", 5, h, n, oG, W, iW, oF, P, iP)
  PROVE  /\ GenAt("path_handler", 1, h, n, oG, W, iW, oF, Pushed(P, oF), iP)
         /\ P = <<>> => GenAt("path_handler", 1, 0, n, oG, W, iW, oF, P, iP)
<1>0. Size \in Nat /\ Size >= 1 /\ Settled \in Nat /\ Settled >= Size
      /\ Settled >= 2 * (Size - 1) /\ n \in Int /\ h \in Int
      /\ \A s \in Samples : s.gen \in Nat /\ s.scan \in Nat
  BY SizeFacts
<1>1. /\ GensLast(W, n - 0) /\ GensWithin(P, n, h - 1 + 0, (Size - 1) + 1 - 0)
      /\ h > 0 => oF.gen + (Size - 1) >= n
  BY DEF GenAt, Num, Generated, PathSent
<1>2. GensWithin(Pushed(P, oF), n, h - 1 + 1, (Size - 1) + 1 - 1)
  <2>1. GensWithin(P, n, h - 1, (Size - 1) + 1)
    <3>1. h - 1 + 0 = h - 1 /\ (Size - 1) + 1 - 0 = (Size - 1) + 1
      BY <1>0
    <3> QED BY <1>1, <3>1
  <2>2. GensWithin(Pushed(P, oF), n, (h - 1) + 1, Size - 1)
    <3>1. h - 1 \in Int /\ Size - 1 \in Int /\ (0 < (h - 1) + 1 => oF.gen + (Size - 1) >= n)
      BY <1>0, <1>1
    <3> QED BY <1>0, <2>1, <3>1, WithinPushed
  <2>3. (Size - 1) + 1 - 1 = Size - 1
    BY <1>0
  <2> QED BY <2>2, <2>3
<1>3. Pushed(P, oF) # <<>>
  BY PushedFacts
<1>4. GenAt("path_handler", 1, h, n, oG, W, iW, oF, Pushed(P, oF), iP)
  BY <1>1, <1>2, <1>3 DEF GenAt, Num, Generated, PathSent
<1>5. ASSUME P = <<>>
      PROVE  GenAt("path_handler", 1, 0, n, oG, W, iW, oF, P, iP)
  <2>1. GensWithin(P, n, 0 - 1 + 1, (Size - 1) + 1 - 1)
    BY <1>5 DEF GensWithin
  <2> QED BY <1>0, <1>1, <2>1 DEF GenAt, Num, Generated, PathSent
<1> QED BY <1>4, <1>5

(* When path_handler reads it. *)
LEMMA GenPathRead ==
  ASSUME NEW h \in Nat, h <= Settled, NEW n \in Nat, NEW oG \in Samples,
         NEW W \in Seq(Samples), Len(W) <= Size, NEW iW \in Samples, NEW oF \in Samples,
         NEW P \in Seq(Samples), Len(P) <= Size, NEW iP \in Samples, SizeAssumption,
         GenAt("path_handler", 1, h, n, oG, W, iW, oF, P, iP)
  PROVE  /\ P # <<>> => GenAt("path_handler", 2, h, n, oG, W, iW, oF, Tail(P), Head(P))
         /\ P = <<>> => GenAt("path_handler", 2, h, n, oG, W, iW, oF, P, Junk)
<1>0. Size \in Nat /\ Size >= 1 /\ Settled \in Nat /\ Settled >= Size
      /\ Settled >= 2 * (Size - 1) /\ n \in Int /\ h \in Int
      /\ \A s \in Samples : s.gen \in Nat /\ s.scan \in Nat
  BY SizeFacts
<1>1. /\ GensLast(W, n - 0) /\ GensWithin(P, n, h - 1 + 1, (Size - 1) + 1 - 1)
      /\ h > 0 => P # <<>>
  BY DEF GenAt, Num, Generated, PathSent
<1>2. ASSUME P # <<>>
      PROVE  GenAt("path_handler", 2, h, n, oG, W, iW, oF, Tail(P), Head(P))
  <2>1. Head(P) = P[1] /\ 1 \in DOMAIN P /\ Len(P) \in Nat /\ P[1] \in Samples
    BY <1>2, TailPlaces
  <2>2. ASSUME h = Settled
        PROVE  Head(P).gen + 2 * (Size - 1) >= n
    <3>1. Len(P) - 1 < h - 1 + 1
      BY <1>0, <2>1, <2>2
    <3>2. P[1].gen + ((Size - 1) + 1 - 1) + (Len(P) - 1) >= n
      BY <1>1, <2>1, <3>1 DEF GensWithin
    <3> QED BY <1>0, <2>1, <3>2
  <2>3. GensWithin(Tail(P), n, h - 1 + 1, (Size - 1) + 1 - 1)
    <3>1. h - 1 + 1 \in Int /\ (Size - 1) + 1 - 1 \in Int
      BY <1>0
    <3> QED BY <1>0, <1>1, <1>2, <3>1, WithinTail
  <2> QED BY <1>1, <2>2, <2>3 DEF GenAt, Num, Generated, PathSent
<1>3. ASSUME P = <<>>
      PROVE  GenAt("path_handler", 2, h, n, oG, W, iW, oF, P, Junk)
  BY <1>0, <1>1, <1>3 DEF GenAt, Num, Generated, PathSent
<1> QED BY <1>2, <1>3

(* The same for the scans. The age is reset. *)
LEMMA ScanReset ==
  ASSUME NEW h \in Nat, h <= Settled, NEW n \in Nat, NEW oK \in Samples,
         NEW C \in Seq(Samples), Len(C) <= Size, NEW iC \in Samples, NEW oG \in Samples,
         NEW W \in Seq(Samples), Len(W) <= Size, NEW iW \in Samples, NEW oF \in Samples,
         NEW P \in Seq(Samples), Len(P) <= Size, NEW iP \in Samples, SizeAssumption,
         NEW b, NEW o, ScanAt(b, o, h, n, oK, C, iC, oG, W, iW, oF, P, iP)
  PROVE  ScanAt(b, o, 0, n, oK, C, iC, oG, W, iW, oF, P, iP)
<1>0. Size \in Nat /\ Size >= 1 /\ Settled \in Nat /\ Settled >= Size
      /\ Settled >= 2 * (Size - 1) /\ n \in Int /\ h \in Int
      /\ \A s \in Samples : s.gen \in Nat /\ s.scan \in Nat
  BY SizeFacts
<1> DEFINE a == Num(WaySent(b, o))
           c == Num(Clustered(b, o))
           d == Num(PathSent(b))
<1>1. a \in {0, 1} /\ c \in {0, 1} /\ d \in {0, 1}
  BY NumFacts
<1>2. /\ ScansWithin(W, n, h + a, (Size - 1) + c - a)
      /\ ScansWithin(P, n, h - (Size - 1) + d, 2 * (Size - 1) + c - d)
  BY DEF ScanAt
<1> HIDE DEF a, c, d
<1>3. ScansWithin(W, n, 0 + a, (Size - 1) + c - a)
  <2>1. /\ h + a \in Int /\ (Size - 1) + c - a \in Int /\ 0 + a \in Int /\ 0 + a <= h + a
    BY <1>0, <1>1
  <2> QED BY <1>0, <1>2, <2>1, ScansWeaker
<1>4. ScansWithin(P, n, 0 - (Size - 1) + d, 2 * (Size - 1) + c - d)
  <2>1. /\ h - (Size - 1) + d \in Int /\ 2 * (Size - 1) + c - d \in Int
        /\ 0 - (Size - 1) + d \in Int /\ 0 - (Size - 1) + d <= h - (Size - 1) + d
    BY <1>0, <1>1
  <2> QED BY <1>0, <1>2, <2>1, ScansWeaker
<1>5. 0 >= Size - 1 => h >= Size - 1
  BY <1>0
<1> QED BY <1>0, <1>3, <1>4, <1>5 DEF ScanAt, a, c, d

(* A round ends early. *)
LEMMA ScanNone ==
  ASSUME NEW h \in Nat, h <= Settled, NEW n \in Nat, NEW oK \in Samples,
         NEW C \in Seq(Samples), Len(C) <= Size, NEW iC \in Samples, NEW oG \in Samples,
         NEW W \in Seq(Samples), Len(W) <= Size, NEW iW \in Samples, NEW oF \in Samples,
         NEW P \in Seq(Samples), Len(P) <= Size, NEW iP \in Samples, SizeAssumption,
         NEW o, ScansLast(C, n)
  PROVE  ScanAt("none", o, 0, n, oK, C, iC, oG, W, iW, oF, P, iP)
<1>0. Size \in Nat /\ Size >= 1 /\ Settled \in Nat /\ Settled >= Size
      /\ Settled >= 2 * (Size - 1) /\ n \in Int /\ h \in Int
      /\ \A s \in Samples : s.gen \in Nat /\ s.scan \in Nat
  BY SizeFacts
<1>1. /\ \A i \in DOMAIN W : i \in 1 .. Len(W) /\ Len(W) \in Nat
      /\ \A i \in DOMAIN P : i \in 1 .. Len(P) /\ Len(P) \in Nat
  OBVIOUS
<1>2. ScansWithin(W, n, 0 + 0, (Size - 1) + 0 - 0)
  BY <1>1 DEF ScansWithin
<1>3. ScansWithin(P, n, 0 - (Size - 1) + 0, 2 * (Size - 1) + 0 - 0)
  BY <1>0, <1>1 DEF ScansWithin
<1>4. n - 0 = n
  BY <1>0
<1> QED BY <1>2, <1>3, <1>4 DEF ScanAt, Num, Clustered, WaySent, PathSent, Recent

(* A step changes none of the samples. *)
LEMMA ScanMoves ==
  ASSUME NEW h \in Nat, h <= Settled, NEW n \in Nat, NEW oK \in Samples,
         NEW C \in Seq(Samples), Len(C) <= Size, NEW iC \in Samples, NEW oG \in Samples,
         NEW W \in Seq(Samples), Len(W) <= Size, NEW iW \in Samples, NEW oF \in Samples,
         NEW P \in Seq(Samples), Len(P) <= Size, NEW iP \in Samples, SizeAssumption,
         NEW o
  PROVE  /\ ScanAt("none", o, h, n, oK, C, iC, oG, W, iW, oF, P, iP) =>
              ScanAt("k_means_plus", 1, h, n, oK, C, iC, oG, W, iW, oF, P, iP)
         /\ ScanAt("k_means_plus", 3, h, n, oK, C, iC, oG, W, iW, oF, P, iP) =>
              ScanAt("waypoints_gen", 1, h, n, oK, C, iC, oG, W, iW, oF, P, iP)
         /\ ScanAt("waypoints_gen", 2, h, n, oK, C, iC, oG, W, iW, oF, P, iP) =>
              ScanAt("waypoints_gen", 3, h, n, oK, C, iC, oG, W, iW, oF, P, iP)
         /\ ScanAt("waypoints_gen", 5, h, n, oK, C, iC, oG, W, iW, oF, P, iP) =>
              ScanAt("path_finding", 1, h, n, oK, C, iC, oG, W, iW, oF, P, iP)
         /\ ScanAt("path_finding", 1, h, n, oK, C, iC, oG, W, iW, oF, P, iP) =>
              ScanAt("path_finding", 2, h, n, oK, C, iC, oG, W, iW, oF, P, iP)
         /\ ScanAt("path_finding", 4, h, n, oK, C, iC, oG, W, iW, oF, P, iP) =>
              ScanAt("path_finding", 5, h, n, oK, C, iC, oG, W, iW, oF, P, iP)
         /\ ScanAt("path_handler", 2, h, n, oK, C, iC, oG, W, iW, oF, P, iP) =>
              ScanAt("path_handler", 3, h, n, oK, C, iC, oG, W, iW, oF, P, iP)
<1>1. ScanAt("none", o, h, n, oK, C, iC, oG, W, iW, oF, P, iP) =>
        ScanAt("k_means_plus", 1, h, n, oK, C, iC, oG, W, iW, oF, P, iP)
  BY DEF ScanAt, Num, Clustered, WaySent, PathSent
<1>2. ScanAt("k_means_plus", 3, h, n, oK, C, iC, oG, W, iW, oF, P, iP) =>
        ScanAt("waypoints_gen", 1, h, n, oK, C, iC, oG, W, iW, oF, P, iP)
  BY DEF ScanAt, Num, Clustered, WaySent, PathSent
<1>3. ScanAt("waypoints_gen", 2, h, n, oK, C, iC, oG, W, iW, oF, P, iP) =>
        ScanAt("waypoints_gen", 3, h, n, oK, C, iC, oG, W, iW, oF, P, iP)
  BY DEF ScanAt, Num, Clustered, WaySent, PathSent
<1>4. ScanAt("waypoints_gen", 5, h, n, oK, C, iC, oG, W, iW, oF, P, iP) =>
        ScanAt("path_finding", 1, h, n, oK, C, iC, oG, W, iW, oF, P, iP)
  BY DEF ScanAt, Num, Clustered, WaySent, PathSent
<1>5. ScanAt("path_finding", 1, h, n, oK, C, iC, oG, W, iW, oF, P, iP) =>
        ScanAt("path_finding", 2, h, n, oK, C, iC, oG, W, iW, oF, P, iP)
  BY DEF ScanAt, Num, Clustered, WaySent, PathSent
<1>6. ScanAt("path_finding", 4, h, n, oK, C, iC, oG, W, iW, oF, P, iP) =>
        ScanAt("path_finding", 5, h, n, oK, C, iC, oG, W, iW, oF, P, iP)
  BY DEF ScanAt, Num, Clustered, WaySent, PathSent
<1>7. ScanAt("path_handler", 2, h, n, oK, C, iC, oG, W, iW, oF, P, iP) =>
        ScanAt("path_handler", 3, h, n, oK, C, iC, oG, W, iW, oF, P, iP)
  BY DEF ScanAt, Num, Clustered, WaySent, PathSent
<1> QED BY <1>1, <1>2, <1>3, <1>4, <1>5, <1>6, <1>7

(* k_means_plus has no scan to cluster. *)
LEMMA ScanSkipped ==
  ASSUME NEW h \in Nat, h <= Settled, NEW n \in Nat, NEW oK \in Samples,
         NEW C \in Seq(Samples), Len(C) <= Size, NEW iC \in Samples, NEW oG \in Samples,
         NEW W \in Seq(Samples), Len(W) <= Size, NEW iW \in Samples, NEW oF \in Samples,
         NEW P \in Seq(Samples), Len(P) <= Size, NEW iP \in Samples, SizeAssumption,
         ScanAt("k_means_plus", 1, h, n, oK, C, iC, oG, W, iW, oF, P, iP)
  PROVE  ScanAt("waypoints_gen", 1, h, n, oK, C, iC, oG, W, iW, oF, P, iP)
<1>0. Size \in Nat /\ Size >= 1 /\ Settled \in Nat /\ Settled >= Size
      /\ Settled >= 2 * (Size - 1) /\ n \in Int /\ h \in Int
      /\ \A s \in Samples : s.gen \in Nat /\ s.scan \in Nat
  BY SizeFacts
<1>1. /\ ScansLast(C, n - 0) /\ ScansWithin(W, n, h + 0, (Size - 1) + 0 - 0)
      /\ ScansWithin(P, n, h - (Size - 1) + 0, 2 * (Size - 1) + 0 - 0)
  BY DEF ScanAt, Num, Clustered, WaySent, PathSent
<1>2. ScansWithin(W, n, h + 0, (Size - 1) + 1 - 0)
  <2>1. /\ h + 0 \in Int /\ (Size - 1) + 0 - 0 \in Int /\ (Size - 1) + 1 - 0 \in Int
        /\ ((Size - 1) + 1 - 0) - n >= ((Size - 1) + 0 - 0) - n
    BY <1>0
  <2> QED BY <1>0, <1>1, <2>1, ScansWeaker
<1>3. ScansWithin(P, n, h - (Size - 1) + 0, 2 * (Size - 1) + 1 - 0)
  <2>1. /\ h - (Size - 1) + 0 \in Int /\ 2 * (Size - 1) + 0 - 0 \in Int
        /\ 2 * (Size - 1) + 1 - 0 \in Int
        /\ (2 * (Size - 1) + 1 - 0) - n >= (2 * (Size - 1) + 0 - 0) - n
    BY <1>0
  <2> QED BY <1>0, <1>1, <2>1, ScansWeaker
<1> QED BY <1>1, <1>2, <1>3 DEF ScanAt, Num, Clustered, WaySent, PathSent

(* It clusters a scan. *)
LEMMA ScanClustered ==
  ASSUME NEW h \in Nat, h <= Settled, NEW n \in Nat, NEW oK \in Samples,
         NEW C \in Seq(Samples), Len(C) <= Size, NEW iC \in Samples, NEW oG \in Samples,
         NEW W \in Seq(Samples), Len(W) <= Size, NEW iW \in Samples, NEW oF \in Samples,
         NEW P \in Seq(Samples), Len(P) <= Size, NEW iP \in Samples, SizeAssumption,
         ScanAt("k_means_plus", 1, h, n, oK, C, iC, oG, W, iW, oF, P, iP),
         NEW new \in Samples, new.scan = n + 1
  PROVE  ScanAt("k_means_plus", 2, h, n + 1, new, C, iC, oG, W, iW, oF, P, iP)
<1>0. Size \in Nat /\ Size >= 1 /\ Settled \in Nat /\ Settled >= Size
      /\ Settled >= 2 * (Size - 1) /\ n \in Int /\ h \in Int
      /\ \A s \in Samples : s.gen \in Nat /\ s.scan \in Nat
  BY SizeFacts
<1>1. /\ ScansLast(C, n - 0) /\ ScansWithin(W, n, h + 0, (Size - 1) + 0 - 0)
      /\ ScansWithin(P, n, h - (Size - 1) + 0, 2 * (Size - 1) + 0 - 0)
  BY DEF ScanAt, Num, Clustered, WaySent, PathSent
<1>2. ScansWithin(W, n + 1, h + 0, (Size - 1) + 1 - 0)
  <2>1. /\ h + 0 \in Int /\ (Size - 1) + 0 - 0 \in Int /\ (Size - 1) + 1 - 0 \in Int
        /\ n + 1 \in Int /\ ((Size - 1) + 1 - 0) - (n + 1) >= ((Size - 1) + 0 - 0) - n
    BY <1>0
  <2> QED BY <1>0, <1>1, <2>1, ScansWeaker
<1>3. ScansWithin(P, n + 1, h - (Size - 1) + 0, 2 * (Size - 1) + 1 - 0)
  <2>1. /\ h - (Size - 1) + 0 \in Int /\ 2 * (Size - 1) + 0 - 0 \in Int /\ n + 1 \in Int
        /\ 2 * (Size - 1) + 1 - 0 \in Int
        /\ (2 * (Size - 1) + 1 - 0) - (n + 1) >= (2 * (Size - 1) + 0 - 0) - n
    BY <1>0
  <2> QED BY <1>0, <1>1, <2>1, ScansWeaker
<1>4. n + 1 - 1 = n - 0
  BY <1>0
<1>5. ScansLast(C, n + 1 - 1)
  BY <1>1, <1>4
<1> QED BY <1>2, <1>3, <1>5 DEF ScanAt, Num, Clustered, WaySent, PathSent

(* A whole round ends. *)
LEMMA ScanCounted ==
  ASSUME NEW h \in Nat, h <= Settled, NEW n \in Nat, NEW oK \in Samples,
         NEW C \in Seq(Samples), Len(C) <= Size, NEW iC \in Samples, NEW oG \in Samples,
         NEW W \in Seq(Samples), Len(W) <= Size, NEW iW \in Samples, NEW oF \in Samples,
         NEW P \in Seq(Samples), Len(P) <= Size, NEW iP \in Samples, SizeAssumption,
         ScanAt("path_handler", 3, h, n, oK, C, iC, oG, W, iW, oF, P, iP),
         NEW k \in Nat, k <= h + 1, NEW o
  PROVE  ScanAt("none", o, k, n, oK, C, iC, oG, W, iW, oF, P, iP)
<1>0. Size \in Nat /\ Size >= 1 /\ Settled \in Nat /\ Settled >= Size
      /\ Settled >= 2 * (Size - 1) /\ n \in Int /\ h \in Int
      /\ \A s \in Samples : s.gen \in Nat /\ s.scan \in Nat
  BY SizeFacts
<1>1. /\ ScansLast(C, n - 0) /\ ScansWithin(W, n, h + 1, (Size - 1) + 1 - 1)
      /\ ScansWithin(P, n, h - (Size - 1) + 1, 2 * (Size - 1) + 1 - 1)
  BY DEF ScanAt, Num, Clustered, WaySent, PathSent
<1>2. ScansWithin(W, n, k + 0, (Size - 1) + 0 - 0)
  <2>1. /\ h + 1 \in Int /\ (Size - 1) + 1 - 1 \in Int /\ k + 0 \in Int /\ k + 0 <= h + 1
        /\ (Size - 1) + 0 - 0 \in Int
        /\ ((Size - 1) + 0 - 0) - n >= ((Size - 1) + 1 - 1) - n
    BY <1>0
  <2> QED BY <1>0, <1>1, <2>1, ScansWeaker
<1>3. ScansWithin(P, n, k - (Size - 1) + 0, 2 * (Size - 1) + 0 - 0)
  <2>1. /\ h - (Size - 1) + 1 \in Int /\ 2 * (Size - 1) + 1 - 1 \in Int
        /\ k - (Size - 1) + 0 \in Int /\ k - (Size - 1) + 0 <= h - (Size - 1) + 1
        /\ 2 * (Size - 1) + 0 - 0 \in Int
        /\ (2 * (Size - 1) + 0 - 0) - n >= (2 * (Size - 1) + 1 - 1) - n
    BY <1>0
  <2> QED BY <1>0, <1>1, <2>1, ScansWeaker
<1> QED BY <1>1, <1>2, <1>3 DEF ScanAt, Num, Clustered, WaySent, PathSent

(* k_means_plus writes the centers. *)
LEMMA ScanCentersSent ==
  ASSUME NEW h \in Nat, h <= Settled, NEW n \in Nat, NEW oK \in Samples,
         NEW C \in Seq(Samples), Len(C) <= Size, NEW iC \in Samples, NEW oG \in Samples,
         NEW W \in Seq(Samples), Len(W) <= Size, NEW iW \in Samples, NEW oF \in Samples,
         NEW P \in Seq(Samples), Len(P) <= Size, NEW iP \in Samples, SizeAssumption,
         ScanAt("k_means_plus", 2, h, n, oK, C, iC, oG, W, iW, oF, P, iP)
  PROVE  /\ ScanAt("k_means_plus", 3, h, n, oK, Pushed(C, oK), iC, oG, W, iW, oF, P, iP)
         /\ C = <<>> => ScanAt("k_means_plus", 3, h, n, oK, C, iC, oG, W, iW, oF, P, iP)
<1>0. Size \in Nat /\ Size >= 1 /\ Settled \in Nat /\ Settled >= Size
      /\ Settled >= 2 * (Size - 1) /\ n \in Int /\ h \in Int
      /\ \A s \in Samples : s.gen \in Nat /\ s.scan \in Nat
  BY SizeFacts
<1>1. oK.scan = n /\ ScansLast(C, n - 1)
  BY DEF ScanAt, Num, Clustered, WaySent, PathSent
<1>2. ScansLast(Pushed(C, oK), n)
  BY <1>0, <1>1, LastPushed
<1>3. n - 0 = n
  BY <1>0
<1>4. ScanAt("k_means_plus", 3, h, n, oK, Pushed(C, oK), iC, oG, W, iW, oF, P, iP)
  BY <1>2, <1>3 DEF ScanAt, Num, Clustered, WaySent, PathSent
<1>5. ASSUME C = <<>>
      PROVE  ScanAt("k_means_plus", 3, h, n, oK, C, iC, oG, W, iW, oF, P, iP)
  <2>1. ScansLast(C, n - 0)
    BY <1>5 DEF ScansLast
  <2> QED BY <2>1 DEF ScanAt, Num, Clustered, WaySent, PathSent
<1> QED BY <1>4, <1>5

(* waypoints_gen reads them. *)
LEMMA ScanCentersRead ==
  ASSUME NEW h \in Nat, h <= Settled, NEW n \in Nat, NEW oK \in Samples,
         NEW C \in Seq(Samples), Len(C) <= Size, NEW iC \in Samples, NEW oG \in Samples,
         NEW W \in Seq(Samples), Len(W) <= Size, NEW iW \in Samples, NEW oF \in Samples,
         NEW P \in Seq(Samples), Len(P) <= Size, NEW iP \in Samples, SizeAssumption,
         ScanAt("waypoints_gen", 1, h, n, oK, C, iC, oG, W, iW, oF, P, iP)
  PROVE  /\ C # <<>> =>
              ScanAt("waypoints_gen", 2, h, n, oK, Tail(C), Head(C), oG, W, iW, oF, P, iP)
         /\ C = <<>> => ScanAt("waypoints_gen", 2, h, n, oK, C, Junk, oG, W, iW, oF, P, iP)
<1>0. Size \in Nat /\ Size >= 1 /\ Settled \in Nat /\ Settled >= Size
      /\ Settled >= 2 * (Size - 1) /\ n \in Int /\ h \in Int
      /\ \A s \in Samples : s.gen \in Nat /\ s.scan \in Nat
  BY SizeFacts
<1>1. ScansLast(C, n - 0)
  BY DEF ScanAt, Num, Clustered, WaySent, PathSent
<1>2. ASSUME C # <<>>
      PROVE  ScanAt("waypoints_gen", 2, h, n, oK, Tail(C), Head(C), oG, W, iW, oF, P, iP)
  <2>1. Head(C) = C[1] /\ 1 \in DOMAIN C /\ Len(C) \in Nat /\ C[1] \in Samples
    BY <1>2, TailPlaces
  <2>2. C[1].scan + (Len(C) - 1) = n - 0
    BY <1>1, <2>1 DEF ScansLast
  <2>3. Recent(Head(C), n, Size - 1)
    BY <1>0, <2>1, <2>2 DEF Recent
  <2>4. ScansLast(Tail(C), n - 0)
    <3>1. n - 0 \in Int
      BY <1>0
    <3> QED BY <1>1, <1>2, <3>1, WithinTail
  <2> QED BY <2>3, <2>4 DEF ScanAt, Num, Clustered, WaySent, PathSent
<1>3. ASSUME C = <<>>
      PROVE  ScanAt("waypoints_gen", 2, h, n, oK, C, Junk, oG, W, iW, oF, P, iP)
  <2>1. Recent(Junk, n, Size - 1)
    BY DEF Recent, Junk
  <2> QED BY <1>1, <2>1 DEF ScanAt, Num, Clustered, WaySent, PathSent
<1> QED BY <1>2, <1>3

(* It makes a plan of them. *)
LEMMA ScanGenerated ==
  ASSUME NEW h \in Nat, h <= Settled, NEW n \in Nat, NEW oK \in Samples,
         NEW C \in Seq(Samples), Len(C) <= Size, NEW iC \in Samples, NEW oG \in Samples,
         NEW W \in Seq(Samples), Len(W) <= Size, NEW iW \in Samples, NEW oF \in Samples,
         NEW P \in Seq(Samples), Len(P) <= Size, NEW iP \in Samples, SizeAssumption,
         ScanAt("waypoints_gen", 3, h, n, oK, C, iC, oG, W, iW, oF, P, iP),
         NEW new \in Samples, new.scan = iC.scan
  PROVE  ScanAt("waypoints_gen", 4, h, n, oK, C, iC, new, W, iW, oF, P, iP)
BY DEF ScanAt, Num, Clustered, WaySent, PathSent, Recent

(* It writes its way points. *)
LEMMA ScanWaySent ==
  ASSUME NEW h \in Nat, h <= Settled, NEW n \in Nat, NEW oK \in Samples,
         NEW C \in Seq(Samples), Len(C) <= Size, NEW iC \in Samples, NEW oG \in Samples,
         NEW W \in Seq(Samples), Len(W) <= Size, NEW iW \in Samples, NEW oF \in Samples,
         NEW P \in Seq(Samples), Len(P) <= Size, NEW iP \in Samples, SizeAssumption,
         ScanAt("waypoints_gen", 4, h, n, oK, C, iC, oG, W, iW, oF, P, iP)
  PROVE  /\ ScanAt("waypoints_gen", 5, h, n, oK, C, iC, oG, Pushed(W, oG), iW, oF, P, iP)
         /\ W = <<>> => ScanAt("waypoints_gen", 5, h, n, oK, C, iC, oG, W, iW, oF, P, iP)
<1>0. Size \in Nat /\ Size >= 1 /\ Settled \in Nat /\ Settled >= Size
      /\ Settled >= 2 * (Size - 1) /\ n \in Int /\ h \in Int
      /\ \A s \in Samples : s.gen \in Nat /\ s.scan \in Nat
  BY SizeFacts
<1>1. /\ ScansLast(C, n - 0) /\ ScansWithin(W, n, h + 0, (Size - 1) + 1 - 0)
      /\ ScansWithin(P, n, h - (Size - 1) + 0, 2 * (Size - 1) + 1 - 0)
      /\ Recent(oG, n, Size - 1)
  BY DEF ScanAt, Num, Clustered, WaySent, PathSent
<1>2. ScansWithin(Pushed(W, oG), n, h + 1, (Size - 1) + 1 - 1)
  <2>1. ScansWithin(W, n, h, (Size - 1) + 1)
    <3>1. h + 0 = h /\ (Size - 1) + 1 - 0 = (Size - 1) + 1
      BY <1>0
    <3> QED BY <1>1, <3>1
  <2>2. ScansWithin(Pushed(W, oG), n, h + 1, Size - 1)
    <3>1. Size - 1 \in Int /\ (oG.scan = 0 \/ oG.scan + (Size - 1) >= n)
      BY <1>0, <1>1 DEF Recent
    <3> QED BY <1>0, <2>1, <3>1, WithinPushed
  <2>3. (Size - 1) + 1 - 1 = Size - 1
    BY <1>0
  <2> QED BY <2>2, <2>3
<1>3. ScanAt("waypoints_gen", 5, h, n, oK, C, iC, oG, Pushed(W, oG), iW, oF, P, iP)
  BY <1>1, <1>2 DEF ScanAt, Num, Clustered, WaySent, PathSent
<1>4. ASSUME W = <<>>
      PROVE  ScanAt("waypoints_gen", 5, h, n, oK, C, iC, oG, W, iW, oF, P, iP)
  <2>1. ScansWithin(W, n, h + 1, (Size - 1) + 1 - 1)
    BY <1>4 DEF ScansWithin
  <2> QED BY <1>1, <2>1 DEF ScanAt, Num, Clustered, WaySent, PathSent
<1> QED BY <1>3, <1>4

(* path_finding reads them. *)
LEMMA ScanWayRead ==
  ASSUME NEW h \in Nat, h <= Settled, NEW n \in Nat, NEW oK \in Samples,
         NEW C \in Seq(Samples), Len(C) <= Size, NEW iC \in Samples, NEW oG \in Samples,
         NEW W \in Seq(Samples), Len(W) <= Size, NEW iW \in Samples, NEW oF \in Samples,
         NEW P \in Seq(Samples), Len(P) <= Size, NEW iP \in Samples, SizeAssumption,
         ScanAt("path_finding", 2, h, n, oK, C, iC, oG, W, iW, oF, P, iP)
  PROVE  /\ W # <<>> =>
              ScanAt("path_finding", 3, h, n, oK, C, iC, oG, Tail(W), Head(W), oF, P, iP)
         /\ W = <<>> => ScanAt("path_finding", 3, h, n, oK, C, iC, oG, W, Junk, oF, P, iP)
<1>0. Size \in Nat /\ Size >= 1 /\ Settled \in Nat /\ Settled >= Size
      /\ Settled >= 2 * (Size - 1) /\ n \in Int /\ h \in Int
      /\ \A s \in Samples : s.gen \in Nat /\ s.scan \in Nat
  BY SizeFacts
<1>1. /\ ScansLast(C, n - 0) /\ ScansWithin(W, n, h + 1, (Size - 1) + 1 - 1)
      /\ ScansWithin(P, n, h - (Size - 1) + 0, 2 * (Size - 1) + 1 - 0)
  BY DEF ScanAt, Num, Clustered, WaySent, PathSent
<1>2. ASSUME W # <<>>
      PROVE  ScanAt("path_finding", 3, h, n, oK, C, iC, oG, Tail(W), Head(W), oF, P, iP)
  <2>1. /\ Head(W) = W[1] /\ 1 \in DOMAIN W /\ Len(W) \in Nat /\ W[1] \in Samples
        /\ Len(W) >= 1
    BY <1>2, TailPlaces
  <2>2. ASSUME h >= Size - 1
        PROVE  Recent(Head(W), n, 2 * (Size - 1))
    <3>1. Len(W) - 1 < h + 1
      BY <1>0, <2>1, <2>2
    <3>2. W[1].scan = 0 \/ W[1].scan + ((Size - 1) + 1 - 1) + (Len(W) - 1) >= n
      BY <1>1, <2>1, <3>1 DEF ScansWithin
    <3> QED BY <1>0, <2>1, <3>2 DEF Recent
  <2>3. ScansWithin(Tail(W), n, h + 1, (Size - 1) + 1 - 1)
    <3>1. h + 1 \in Int /\ (Size - 1) + 1 - 1 \in Int
      BY <1>0
    <3> QED BY <1>0, <1>1, <1>2, <3>1, WithinTail
  <2> QED BY <1>1, <2>2, <2>3 DEF ScanAt, Num, Clustered, WaySent, PathSent
<1>3. ASSUME W = <<>>
      PROVE  ScanAt("path_finding", 3, h, n, oK, C, iC, oG, W, Junk, oF, P, iP)
  <2>1. Recent(Junk, n, 2 * (Size - 1))
    BY DEF Recent, Junk
  <2> QED BY <1>1, <2>1 DEF ScanAt, Num, Clustered, WaySent, PathSent
<1> QED BY <1>2, <1>3

(* It finds a path. *)
LEMMA ScanFound ==
  ASSUME NEW h \in Nat, h <= Settled, NEW n \in Nat, NEW oK \in Samples,
         NEW C \in Seq(Samples), Len(C) <= Size, NEW iC \in Samples, NEW oG \in Samples,
         NEW W \in Seq(Samples), Len(W) <= Size, NEW iW \in Samples, NEW oF \in Samples,
         NEW P \in Seq(Samples), Len(P) <= Size, NEW iP \in Samples, SizeAssumption,
         ScanAt("path_finding", 3, h, n, oK, C, iC, oG, W, iW, oF, P, iP),
         NEW new \in Samples, new.scan = iW.scan
  PROVE  ScanAt("path_finding", 4, h, n, oK, C, iC, oG, W, iW, new, P, iP)
BY DEF ScanAt, Num, Clustered, WaySent, PathSent, Recent

(* It writes the path. *)
LEMMA ScanPathSent ==
  ASSUME NEW h \in Nat, h <= Settled, NEW n \in Nat, NEW oK \in Samples,
         NEW C \in Seq(Samples), Len(C) <= Size, NEW iC \in Samples, NEW oG \in Samples,
         NEW W \in Seq(Samples), Len(W) <= Size, NEW iW \in Samples, NEW oF \in Samples,
         NEW P \in Seq(Samples), Len(P) <= Size, NEW iP \in Samples, SizeAssumption,
         ScanAt("path_finding", 5, h, n, oK, C, iC, oG, W, iW, oF, P, iP)
  PROVE  /\ ScanAt("path_handler", 1, h, n, oK, C, iC, oG, W, iW, oF, Pushed(P, oF), iP)
         /\ P = <<>> => ScanAt("path_handler", 1, h, n, oK, C, iC, oG, W, iW, oF, P, iP)
<1>0. Size \in Nat /\ Size >= 1 /\ Settled \in Nat /\ Settled >= Size
      /\ Settled >= 2 * (Size - 1) /\ n \in Int /\ h \in Int
      /\ \A s \in Samples : s.gen \in Nat /\ s.scan \in Nat
  BY SizeFacts
<1>1. /\ ScansLast(C, n - 0) /\ ScansWithin(W, n, h + 1, (Size - 1) + 1 - 1)
      /\ ScansWithin(P, n, h - (Size - 1) + 0, 2 * (Size - 1) + 1 - 0)
      /\ h >= Size - 1 => Recent(oF, n, 2 * (Size - 1))
  BY DEF ScanAt, Num, Clustered, WaySent, PathSent
<1>2. ScansWithin(Pushed(P, oF), n, h - (Size - 1) + 1, 2 * (Size - 1) + 1 - 1)
  <2>1. ScansWithin(P, n, h - (Size - 1), 2 * (Size - 1) + 1)
    <3>1. h - (Size - 1) + 0 = h - (Size - 1) /\ 2 * (Size - 1) + 1 - 0 = 2 * (Size - 1) + 1
      BY <1>0
    <3> QED BY <1>1, <3>1
  <2>2. ScansWithin(Pushed(P, oF), n, (h - (Size - 1)) + 1, 2 * (Size - 1))
    <3>1. 0 < (h - (Size - 1)) + 1 => h >= Size - 1
      BY <1>0
    <3>2. /\ h - (Size - 1) \in Int /\ 2 * (Size - 1) \in Int
          /\ 0 < (h - (Size - 1)) + 1 => oF.scan = 0 \/ oF.scan + 2 * (Size - 1) >= n
      BY <1>0, <1>1, <3>1 DEF Recent
    <3> QED BY <1>0, <2>1, <3>2, WithinPushed
  <2>3. 2 * (Size - 1) + 1 - 1 = 2 * (Size - 1)
    BY <1>0
  <2> QED BY <2>2, <2>3
<1>3. ScanAt("path_handler", 1, h, n, oK, C, iC, oG, W, iW, oF, Pushed(P, oF), iP)
  BY <1>1, <1>2 DEF ScanAt, Num, Clustered, WaySent, PathSent
<1>4. ASSUME P = <<>>
      PROVE  ScanAt("path_handler", 1, h, n, oK, C, iC, oG, W, iW, oF, P, iP)
  <2>1. ScansWithin(P, n, h - (Size - 1) + 1, 2 * (Size - 1) + 1 - 1)
    BY <1>4 DEF ScansWithin
  <2> QED BY <1>1, <2>1 DEF ScanAt, Num, Clustered, WaySent, PathSent
<1> QED BY <1>3, <1>4

(* path_handler reads it. *)
LEMMA ScanPathRead ==
  ASSUME NEW h \in Nat, h <= Settled, NEW n \in Nat, NEW oK \in Samples,
         NEW C \in Seq(Samples), Len(C) <= Size, NEW iC \in Samples, NEW oG \in Samples,
         NEW W \in Seq(Samples), Len(W) <= Size, NEW iW \in Samples, NEW oF \in Samples,
         NEW P \in Seq(Samples), Len(P) <= Size, NEW iP \in Samples, SizeAssumption,
         ScanAt("path_handler", 1, h, n, oK, C, iC, oG, W, iW, oF, P, iP)
  PROVE  /\ P # <<>> =>
              ScanAt("path_handler", 2, h, n, oK, C, iC, oG, W, iW, oF, Tail(P), Head(P))
         /\ P = <<>> => ScanAt("path_handler", 2, h, n, oK, C, iC, oG, W, iW, oF, P, Junk)
<1>0. Size \in Nat /\ Size >= 1 /\ Settled \in Nat /\ Settled >= Size
      /\ Settled >= 2 * (Size - 1) /\ n \in Int /\ h \in Int
      /\ \A s \in Samples : s.gen \in Nat /\ s.scan \in Nat
  BY SizeFacts
<1>1. /\ ScansLast(C, n - 0) /\ ScansWithin(W, n, h + 1, (Size - 1) + 1 - 1)
      /\ ScansWithin(P, n, h - (Size - 1) + 1, 2 * (Size - 1) + 1 - 1)
  BY DEF ScanAt, Num, Clustered, WaySent, PathSent
<1>2. ASSUME P # <<>>
      PROVE  ScanAt("path_handler", 2, h, n, oK, C, iC, oG, W, iW, oF, Tail(P), Head(P))
  <2>1. /\ Head(P) = P[1] /\ 1 \in DOMAIN P /\ Len(P) \in Nat /\ P[1] \in Samples
        /\ Len(P) >= 1
    BY <1>2, TailPlaces
  <2>2. ASSUME h = Settled
        PROVE  Recent(Head(P), n, 3 * (Size - 1))
    <3>1. Len(P) - 1 < h - (Size - 1) + 1
      BY <1>0, <2>1, <2>2
    <3>2. P[1].scan = 0 \/ P[1].scan + (2 * (Size - 1) + 1 - 1) + (Len(P) - 1) >= n
      BY <1>1, <2>1, <3>1 DEF ScansWithin
    <3> QED BY <1>0, <2>1, <3>2 DEF Recent
  <2>3. ScansWithin(Tail(P), n, h - (Size - 1) + 1, 2 * (Size - 1) + 1 - 1)
    <3>1. h - (Size - 1) + 1 \in Int /\ 2 * (Size - 1) + 1 - 1 \in Int
      BY <1>0
    <3> QED BY <1>0, <1>1, <1>2, <3>1, WithinTail
  <2> QED BY <1>1, <2>2, <2>3 DEF ScanAt, Num, Clustered, WaySent, PathSent
<1>3. ASSUME P = <<>>
      PROVE  ScanAt("path_handler", 2, h, n, oK, C, iC, oG, W, iW, oF, P, Junk)
  <2>1. Recent(Junk, n, 3 * (Size - 1))
    BY DEF Recent, Junk
  <2> QED BY <1>1, <2>1 DEF ScanAt, Num, Clustered, WaySent, PathSent
<1> QED BY <1>2, <1>3

(* A round that is given up leaves the buffers as the last whole one did. *)
LEMMA GenGivenUp ==
  ASSUME NEW h \in Nat, h <= Settled, NEW n \in Nat, NEW oG \in Samples,
         NEW W \in Seq(Samples), Len(W) <= Size, NEW iW \in Samples, NEW oF \in Samples,
         NEW P \in Seq(Samples), Len(P) <= Size, NEW iP \in Samples, SizeAssumption,
         NEW b, NEW o, NEW l,
         GenAt(b, o, h, n, oG, W, iW, oF, P, iP), ~ (b = "waypoints_gen" /\ o = 4)
  PROVE  GenAt("none", l, 0, n, oG, W, iW, oF, P, iP)
<1>1. n - 0 = n
  OBVIOUS
<1>2. GensLast(W, n)
  BY <1>1 DEF GenAt, Num
<1> QED BY <1>2, GenNone

(* The same for the scans. *)
LEMMA ScanGivenUp ==
  ASSUME NEW h \in Nat, h <= Settled, NEW n \in Nat, NEW oK \in Samples,
         NEW C \in Seq(Samples), Len(C) <= Size, NEW iC \in Samples, NEW oG \in Samples,
         NEW W \in Seq(Samples), Len(W) <= Size, NEW iW \in Samples, NEW oF \in Samples,
         NEW P \in Seq(Samples), Len(P) <= Size, NEW iP \in Samples, SizeAssumption,
         NEW b, NEW o, NEW l, ScanAt(b, o, h, n, oK, C, iC, oG, W, iW, oF, P, iP),
         ~ (b = "k_means_plus" /\ o = 2)
  PROVE  ScanAt("none", l, 0, n, oK, C, iC, oG, W, iW, oF, P, iP)
<1>1. n - 0 = n
  OBVIOUS
<1>2. ScansLast(C, n)
  BY <1>1 DEF ScanAt, Num
<1> QED BY <1>2, ScanNone

(* How the age of the undisturbed rounds changes. *)
LEMMA AgeFacts ==
  ASSUME PlanTypeOK, SizeAssumption, script' = script, started' = started
  PROVE  /\ Age \in Nat /\ Age <= Settled
         /\ steady' = steady => Age' = Age
         /\ steady' = 0 \/ started # Len(Order) => Age' = 0
         /\ Counted => Age' \in Nat /\ Age' <= Age + 1
<1>1. steady \in Nat /\ steady <= Settled /\ Settled \in Nat /\ Order' = Order
  BY DEF PlanTypeOK, SizeAssumption, Order
<1> QED BY <1>1 DEF Age, Counted

(* The types of what the plans are made of. *)
LEMMA DataFacts ==
  ASSUME PlanTypeOK, SizeAssumption
  PROVE  /\ Age \in Nat /\ Age <= Settled /\ gens \in Nat /\ scans \in Nat
         /\ \A b \in Computations : out[b] \in Samples
         /\ \A f \in Buffers :
              in[f] \in Samples /\ buf[f] \in Seq(Samples) /\ Len(buf[f]) <= Size
         /\ {"k_means_plus", "waypoints_gen", "path_finding"} \subseteq Computations
         /\ {"centers", "wayPoints", "pathWayPoints"} \subseteq Buffers
<1>1. Age \in Nat /\ Age <= Settled
  BY DEF PlanTypeOK, SizeAssumption, Age
<1> QED BY <1>1 DEF PlanTypeOK, SizeAssumption, Computations, Buffers

(* How old the plans are for a trigger at operation o of block b. *)
GenFor(b, o, age) ==
  GenAt(b, o, age, gens, out["waypoints_gen"], buf["wayPoints"], in["wayPoints"],
        out["path_finding"], buf["pathWayPoints"], in["pathWayPoints"])
ScanFor(b, o, age) ==
  ScanAt(b, o, age, scans, out["k_means_plus"], buf["centers"], in["centers"],
         out["waypoints_gen"], buf["wayPoints"], in["wayPoints"],
         out["path_finding"], buf["pathWayPoints"], in["pathWayPoints"])

(* The invariant is about the place where the trigger is. *)
LEMMA ForInv ==
  ASSUME NEW t
  PROVE  (GenInv(t) <=> GenFor(B(t), O(t), Age)) /\ (ScanInv(t) <=> ScanFor(B(t), O(t), Age))
BY DEF GenInv, ScanInv, GenFor, ScanFor

(* The same of the next state. *)
LEMMA ForInvNext ==
  ASSUME NEW t, NEW b, NEW o, NEW k, B(t)' = b, O(t)' = o, Age' = k,
         GenFor(b, o, k)', ScanFor(b, o, k)'
  PROVE  GenInv(t)' /\ ScanInv(t)'
BY DEF GenInv, ScanInv, GenFor, ScanFor

(* The moves of a trigger that change none of the samples. *)
LEMMA ForMoves ==
  ASSUME PlanTypeOK, SizeAssumption, NEW h \in Nat, h <= Settled, NEW o
  PROVE  /\ GenFor("none", o, h) => GenFor("k_means_plus", 1, h)
         /\ GenFor("k_means_plus", 1, h) => GenFor("waypoints_gen", 1, h)
         /\ GenFor("k_means_plus", 2, h) => GenFor("k_means_plus", 3, h)
         /\ GenFor("k_means_plus", 3, h) => GenFor("waypoints_gen", 1, h)
         /\ GenFor("waypoints_gen", 1, h) => GenFor("waypoints_gen", 2, h)
         /\ GenFor("waypoints_gen", 2, h) => GenFor("waypoints_gen", 3, h)
         /\ GenFor("waypoints_gen", 5, h) => GenFor("path_finding", 1, h)
         /\ GenFor("path_finding", 1, h) => GenFor("path_finding", 2, h)
         /\ GenFor("path_finding", 4, h) => GenFor("path_finding", 5, h)
         /\ GenFor("path_handler", 2, h) => GenFor("path_handler", 3, h)
         /\ ScanFor("none", o, h) => ScanFor("k_means_plus", 1, h)
         /\ ScanFor("k_means_plus", 1, h) => ScanFor("waypoints_gen", 1, h)
         /\ ScanFor("k_means_plus", 3, h) => ScanFor("waypoints_gen", 1, h)
         /\ ScanFor("waypoints_gen", 2, h) => ScanFor("waypoints_gen", 3, h)
         /\ ScanFor("waypoints_gen", 5, h) => ScanFor("path_finding", 1, h)
         /\ ScanFor("path_finding", 1, h) => ScanFor("path_finding", 2, h)
         /\ ScanFor("path_finding", 4, h) => ScanFor("path_finding", 5, h)
         /\ ScanFor("path_handler", 2, h) => ScanFor("path_handler", 3, h)
<1>1. /\ gens \in Nat /\ scans \in Nat
      /\ \A b \in Computations : out[b] \in Samples
      /\ \A f \in Buffers :
           in[f] \in Samples /\ buf[f] \in Seq(Samples) /\ Len(buf[f]) <= Size
      /\ {"k_means_plus", "waypoints_gen", "path_finding"} \subseteq Computations
      /\ {"centers", "wayPoints", "pathWayPoints"} \subseteq Buffers
  BY DataFacts
<1>2. /\ GenFor("none", o, h) => GenFor("k_means_plus", 1, h)
      /\ GenFor("k_means_plus", 1, h) => GenFor("waypoints_gen", 1, h)
      /\ GenFor("k_means_plus", 2, h) => GenFor("k_means_plus", 3, h)
      /\ GenFor("k_means_plus", 3, h) => GenFor("waypoints_gen", 1, h)
      /\ GenFor("waypoints_gen", 1, h) => GenFor("waypoints_gen", 2, h)
      /\ GenFor("waypoints_gen", 2, h) => GenFor("waypoints_gen", 3, h)
      /\ GenFor("waypoints_gen", 5, h) => GenFor("path_finding", 1, h)
      /\ GenFor("path_finding", 1, h) => GenFor("path_finding", 2, h)
      /\ GenFor("path_finding", 4, h) => GenFor("path_finding", 5, h)
      /\ GenFor("path_handler", 2, h) => GenFor("path_handler", 3, h)
  BY <1>1, GenMoves DEF GenFor
<1>3. /\ ScanFor("none", o, h) => ScanFor("k_means_plus", 1, h)
      /\ ScanFor("k_means_plus", 3, h) => ScanFor("waypoints_gen", 1, h)
      /\ ScanFor("waypoints_gen", 2, h) => ScanFor("waypoints_gen", 3, h)
      /\ ScanFor("waypoints_gen", 5, h) => ScanFor("path_finding", 1, h)
      /\ ScanFor("path_finding", 1, h) => ScanFor("path_finding", 2, h)
      /\ ScanFor("path_finding", 4, h) => ScanFor("path_finding", 5, h)
      /\ ScanFor("path_handler", 2, h) => ScanFor("path_handler", 3, h)
  BY <1>1, ScanMoves DEF ScanFor
<1>4. ScanFor("k_means_plus", 1, h) => ScanFor("waypoints_gen", 1, h)
  BY <1>1, ScanSkipped DEF ScanFor
<1> QED BY <1>2, <1>3, <1>4

(* A round that is given up. *)
LEMMA ForGivenUp ==
  ASSUME PlanTypeOK, SizeAssumption, NEW h \in Nat, h <= Settled, NEW b, NEW o, NEW l,
         GenFor(b, o, h), ScanFor(b, o, h),
         ~ (b = "waypoints_gen" /\ o = 4), ~ (b = "k_means_plus" /\ o = 2)
  PROVE  GenFor("none", l, 0) /\ ScanFor("none", l, 0)
<1>1. /\ gens \in Nat /\ scans \in Nat
      /\ \A c \in Computations : out[c] \in Samples
      /\ \A f \in Buffers :
           in[f] \in Samples /\ buf[f] \in Seq(Samples) /\ Len(buf[f]) <= Size
      /\ {"k_means_plus", "waypoints_gen", "path_finding"} \subseteq Computations
      /\ {"centers", "wayPoints", "pathWayPoints"} \subseteq Buffers
  BY DataFacts
<1>2. GenFor("none", l, 0)
  BY <1>1, GenGivenUp DEF GenFor
<1>3. ScanFor("none", l, 0)
  BY <1>1, ScanGivenUp DEF ScanFor
<1> QED BY <1>2, <1>3

(* Plans stay recent through the reads. *)
LEMMA RecentRead ==
  ASSUME PlanTypeOK, ScriptsAssumption, SizeAssumption, StartedInv,
         NEW t \in TriggerBlocks, Rounds[t] = WholeRound, GenInv(t), ScanInv(t),
         ReadPort(t)
  PROVE  GenInv(t)' /\ ScanInv(t)'
<1>1. PICK h \in Nat : h = Age
  BY DataFacts
<1>2. GenFor(B(t), O(t), h) /\ ScanFor(B(t), O(t), h) /\ h <= Settled
  BY <1>1, ForInv, DataFacts
<1>3. /\ gens \in Nat /\ scans \in Nat /\ \A b \in Computations : out[b] \in Samples
      /\ \A f \in Buffers :
           in[f] \in Samples /\ buf[f] \in Seq(Samples) /\ Len(buf[f]) <= Size
      /\ "k_means_plus" \in Computations /\ "waypoints_gen" \in Computations
      /\ "path_finding" \in Computations /\ "centers" \in Buffers
      /\ "wayPoints" \in Buffers /\ "pathWayPoints" \in Buffers
  BY DataFacts
<1>4. /\ DOMAIN in = Buffers /\ DOMAIN buf = Buffers /\ DOMAIN out = Computations
  BY DEF PlanTypeOK
<1>5. ASSUME NEW b, NEW o, NEW p, NEW f, ReadOf(t, b, o, f), p = o + 1
      PROVE  /\ B(t) = b /\ O(t) = o /\ B(t)' = b /\ O(t)' = p /\ Age' = h
             /\ UNCHANGED <<out, gens, scans>>
             /\ in' = [in EXCEPT ![f] = Received(f)[1]]
             /\ buf' = [buf EXCEPT ![f] = Received(f)[2]]
  BY <1>1, <1>5, AgeFacts DEF ReadOf, NextOpOf, On
<1>6. CASE ReadOf(t, "waypoints_gen", 1, "centers")
  <2>1. /\ B(t) = "waypoints_gen" /\ O(t) = 1 /\ B(t)' = "waypoints_gen" /\ O(t)' = 2
        /\ Age' = h
        /\ UNCHANGED <<out, gens, scans>>
        /\ in' = [in EXCEPT !["centers"] = Received("centers")[1]]
        /\ buf' = [buf EXCEPT !["centers"] = Received("centers")[2]]
    BY <1>5, <1>6
  <2>2. GenFor("waypoints_gen", 1, h) /\ ScanFor("waypoints_gen", 1, h)
    BY <1>2, <2>1
  <2>3. /\ in'["centers"] = Received("centers")[1]
        /\ buf'["centers"] = Received("centers")[2]
        /\ \A g \in Buffers \ {"centers"} : in'[g] = in[g] /\ buf'[g] = buf[g]
    BY <1>3, <1>4, <2>1
  <2>4. GenFor("waypoints_gen", 2, h)'
    <3>1. GenFor("waypoints_gen", 2, h)
      BY <1>2, <2>2, ForMoves
    <3> QED BY <1>3, <2>1, <2>3, <3>1 DEF GenFor
  <2>5. ScanFor("waypoints_gen", 2, h)'
    <3>1. CASE buf["centers"] = <<>>
      <4>1. in'["centers"] = Junk /\ buf'["centers"] = buf["centers"]
        BY <1>3, <2>3, <3>1, ReceivedFacts
      <4>2. ScanAt("waypoints_gen", 2, h, scans, out["k_means_plus"], buf["centers"], Junk,
                   out["waypoints_gen"], buf["wayPoints"], in["wayPoints"],
                   out["path_finding"], buf["pathWayPoints"], in["pathWayPoints"])
        BY <1>2, <1>3, <2>2, <3>1, ScanCentersRead DEF ScanFor
      <4> QED BY <1>3, <2>1, <2>3, <4>1, <4>2 DEF ScanFor
    <3>2. CASE buf["centers"] # <<>>
      <4>1. in'["centers"] = Head(buf["centers"]) /\ buf'["centers"] = Tail(buf["centers"])
        BY <1>3, <2>3, <3>2, ReceivedFacts
      <4>2. ScanAt("waypoints_gen", 2, h, scans, out["k_means_plus"], Tail(buf["centers"]),
                   Head(buf["centers"]),
                   out["waypoints_gen"], buf["wayPoints"], in["wayPoints"],
                   out["path_finding"], buf["pathWayPoints"], in["pathWayPoints"])
        BY <1>2, <1>3, <2>2, <3>2, ScanCentersRead DEF ScanFor
      <4> QED BY <1>3, <2>1, <2>3, <4>1, <4>2 DEF ScanFor
    <3> QED BY <3>1, <3>2
  <2>9. GenFor("waypoints_gen", 2, h)' /\ ScanFor("waypoints_gen", 2, h)'
    BY <2>4, <2>5
  <2> QED BY <2>1, <2>9, ForInvNext
<1>7. CASE ReadOf(t, "waypoints_gen", 2, "nCenters")
  <2>1. /\ B(t) = "waypoints_gen" /\ O(t) = 2 /\ B(t)' = "waypoints_gen" /\ O(t)' = 3
        /\ Age' = h
        /\ UNCHANGED <<out, gens, scans>>
        /\ in' = [in EXCEPT !["nCenters"] = Received("nCenters")[1]]
        /\ buf' = [buf EXCEPT !["nCenters"] = Received("nCenters")[2]]
    BY <1>5, <1>7
  <2>2. GenFor("waypoints_gen", 2, h) /\ ScanFor("waypoints_gen", 2, h)
    BY <1>2, <2>1
  <2>3. \A g \in Buffers \ {"nCenters"} : in'[g] = in[g] /\ buf'[g] = buf[g]
    BY <1>4, <2>1
  <2>4. "centers" # "nCenters" /\ "wayPoints" # "nCenters" /\ "pathWayPoints" # "nCenters"
    OBVIOUS
  <2>9. GenFor("waypoints_gen", 3, h)' /\ ScanFor("waypoints_gen", 3, h)'
    <3>1. GenFor("waypoints_gen", 3, h) /\ ScanFor("waypoints_gen", 3, h)
      BY <1>2, <2>2, ForMoves
    <3> QED BY <1>3, <2>1, <2>3, <2>4, <3>1 DEF GenFor, ScanFor
  <2> QED BY <2>1, <2>9, ForInvNext
<1>8. CASE ReadOf(t, "path_finding", 1, "costTable")
  <2>1. /\ B(t) = "path_finding" /\ O(t) = 1 /\ B(t)' = "path_finding" /\ O(t)' = 2
        /\ Age' = h
        /\ UNCHANGED <<out, gens, scans>>
        /\ in' = [in EXCEPT !["costTable"] = Received("costTable")[1]]
        /\ buf' = [buf EXCEPT !["costTable"] = Received("costTable")[2]]
    BY <1>5, <1>8
  <2>2. GenFor("path_finding", 1, h) /\ ScanFor("path_finding", 1, h)
    BY <1>2, <2>1
  <2>3. \A g \in Buffers \ {"costTable"} : in'[g] = in[g] /\ buf'[g] = buf[g]
    BY <1>4, <2>1
  <2>4. /\ "centers" # "costTable" /\ "wayPoints" # "costTable"
        /\ "pathWayPoints" # "costTable"
    OBVIOUS
  <2>9. GenFor("path_finding", 2, h)' /\ ScanFor("path_finding", 2, h)'
    <3>1. GenFor("path_finding", 2, h) /\ ScanFor("path_finding", 2, h)
      BY <1>2, <2>2, ForMoves
    <3> QED BY <1>3, <2>1, <2>3, <2>4, <3>1 DEF GenFor, ScanFor
  <2> QED BY <2>1, <2>9, ForInvNext
<1>9. CASE ReadOf(t, "path_finding", 2, "wayPoints")
  <2>1. /\ B(t) = "path_finding" /\ O(t) = 2 /\ B(t)' = "path_finding" /\ O(t)' = 3
        /\ Age' = h
        /\ UNCHANGED <<out, gens, scans>>
        /\ in' = [in EXCEPT !["wayPoints"] = Received("wayPoints")[1]]
        /\ buf' = [buf EXCEPT !["wayPoints"] = Received("wayPoints")[2]]
    BY <1>5, <1>9
  <2>2. GenFor("path_finding", 2, h) /\ ScanFor("path_finding", 2, h)
    BY <1>2, <2>1
  <2>3. /\ in'["wayPoints"] = Received("wayPoints")[1]
        /\ buf'["wayPoints"] = Received("wayPoints")[2]
        /\ \A g \in Buffers \ {"wayPoints"} : in'[g] = in[g] /\ buf'[g] = buf[g]
    BY <1>3, <1>4, <2>1
  <2>4. ASSUME buf["wayPoints"] = <<>>
        PROVE  GenFor("path_finding", 3, h)' /\ ScanFor("path_finding", 3, h)'
    <3>1. in'["wayPoints"] = Junk /\ buf'["wayPoints"] = buf["wayPoints"]
      BY <1>3, <2>3, <2>4, ReceivedFacts
    <3>2. GenAt("path_finding", 3, h, gens, out["waypoints_gen"], buf["wayPoints"], Junk,
                out["path_finding"], buf["pathWayPoints"], in["pathWayPoints"])
      BY <1>2, <1>3, <2>2, <2>4, GenWayRead DEF GenFor
    <3>3. ScanAt("path_finding", 3, h, scans, out["k_means_plus"], buf["centers"],
                 in["centers"],
                 out["waypoints_gen"], buf["wayPoints"], Junk,
                out["path_finding"], buf["pathWayPoints"], in["pathWayPoints"])
      BY <1>2, <1>3, <2>2, <2>4, ScanWayRead DEF ScanFor
    <3> QED BY <1>3, <2>1, <2>3, <3>1, <3>2, <3>3 DEF GenFor, ScanFor
  <2>5. ASSUME buf["wayPoints"] # <<>>
        PROVE  GenFor("path_finding", 3, h)' /\ ScanFor("path_finding", 3, h)'
    <3>1. /\ in'["wayPoints"] = Head(buf["wayPoints"])
          /\ buf'["wayPoints"] = Tail(buf["wayPoints"])
      BY <1>3, <2>3, <2>5, ReceivedFacts
    <3>2. GenAt("path_finding", 3, h, gens, out["waypoints_gen"], Tail(buf["wayPoints"]),
                Head(buf["wayPoints"]),
                out["path_finding"], buf["pathWayPoints"], in["pathWayPoints"])
      BY <1>2, <1>3, <2>2, <2>5, GenWayRead DEF GenFor
    <3>3. ScanAt("path_finding", 3, h, scans, out["k_means_plus"], buf["centers"],
                 in["centers"],
                 out["waypoints_gen"], Tail(buf["wayPoints"]), Head(buf["wayPoints"]),
                out["path_finding"], buf["pathWayPoints"], in["pathWayPoints"])
      BY <1>2, <1>3, <2>2, <2>5, ScanWayRead DEF ScanFor
    <3> QED BY <1>3, <2>1, <2>3, <3>1, <3>2, <3>3 DEF GenFor, ScanFor
  <2>9. GenFor("path_finding", 3, h)' /\ ScanFor("path_finding", 3, h)'
    BY <2>4, <2>5
  <2> QED BY <2>1, <2>9, ForInvNext
<1>10. CASE ReadOf(t, "path_handler", 1, "pathWayPoints")
  <2>1. /\ B(t) = "path_handler" /\ O(t) = 1 /\ B(t)' = "path_handler" /\ O(t)' = 2
        /\ Age' = h
        /\ UNCHANGED <<out, gens, scans>>
        /\ in' = [in EXCEPT !["pathWayPoints"] = Received("pathWayPoints")[1]]
        /\ buf' = [buf EXCEPT !["pathWayPoints"] = Received("pathWayPoints")[2]]
    BY <1>5, <1>10
  <2>2. GenFor("path_handler", 1, h) /\ ScanFor("path_handler", 1, h)
    BY <1>2, <2>1
  <2>3. /\ in'["pathWayPoints"] = Received("pathWayPoints")[1]
        /\ buf'["pathWayPoints"] = Received("pathWayPoints")[2]
        /\ \A g \in Buffers \ {"pathWayPoints"} : in'[g] = in[g] /\ buf'[g] = buf[g]
    BY <1>3, <1>4, <2>1
  <2>4. ASSUME buf["pathWayPoints"] = <<>>
        PROVE  GenFor("path_handler", 2, h)' /\ ScanFor("path_handler", 2, h)'
    <3>1. in'["pathWayPoints"] = Junk /\ buf'["pathWayPoints"] = buf["pathWayPoints"]
      BY <1>3, <2>3, <2>4, ReceivedFacts
    <3>2. GenAt("path_handler", 2, h, gens, out["waypoints_gen"], buf["wayPoints"],
                in["wayPoints"],
                out["path_finding"], buf["pathWayPoints"], Junk)
      BY <1>2, <1>3, <2>2, <2>4, GenPathRead DEF GenFor
    <3>3. ScanAt("path_handler", 2, h, scans, out["k_means_plus"], buf["centers"],
                 in["centers"],
                 out["waypoints_gen"], buf["wayPoints"], in["wayPoints"],
                out["path_finding"], buf["pathWayPoints"], Junk)
      BY <1>2, <1>3, <2>2, <2>4, ScanPathRead DEF ScanFor
    <3> QED BY <1>3, <2>1, <2>3, <3>1, <3>2, <3>3 DEF GenFor, ScanFor
  <2>5. ASSUME buf["pathWayPoints"] # <<>>
        PROVE  GenFor("path_handler", 2, h)' /\ ScanFor("path_handler", 2, h)'
    <3>1. /\ in'["pathWayPoints"] = Head(buf["pathWayPoints"])
          /\ buf'["pathWayPoints"] = Tail(buf["pathWayPoints"])
      BY <1>3, <2>3, <2>5, ReceivedFacts
    <3>2. GenAt("path_handler", 2, h, gens, out["waypoints_gen"], buf["wayPoints"],
                in["wayPoints"],
                out["path_finding"], Tail(buf["pathWayPoints"]), Head(buf["pathWayPoints"]))
      BY <1>2, <1>3, <2>2, <2>5, GenPathRead DEF GenFor
    <3>3. ScanAt("path_handler", 2, h, scans, out["k_means_plus"], buf["centers"],
                 in["centers"],
                 out["waypoints_gen"], buf["wayPoints"], in["wayPoints"],
                out["path_finding"], Tail(buf["pathWayPoints"]), Head(buf["pathWayPoints"]))
      BY <1>2, <1>3, <2>2, <2>5, ScanPathRead DEF ScanFor
    <3> QED BY <1>3, <2>1, <2>3, <3>1, <3>2, <3>3 DEF GenFor, ScanFor
  <2>9. GenFor("path_handler", 2, h)' /\ ScanFor("path_handler", 2, h)'
    BY <2>4, <2>5
  <2> QED BY <2>1, <2>9, ForInvNext
<1>11. CASE ReadOf(t, "path_handler", 2, "nValidNodes")
  <2>1. /\ B(t) = "path_handler" /\ O(t) = 2 /\ B(t)' = "path_handler" /\ O(t)' = 3
        /\ Age' = h
        /\ UNCHANGED <<out, gens, scans>>
        /\ in' = [in EXCEPT !["nValidNodes"] = Received("nValidNodes")[1]]
        /\ buf' = [buf EXCEPT !["nValidNodes"] = Received("nValidNodes")[2]]
    BY <1>5, <1>11
  <2>2. GenFor("path_handler", 2, h) /\ ScanFor("path_handler", 2, h)
    BY <1>2, <2>1
  <2>3. \A g \in Buffers \ {"nValidNodes"} : in'[g] = in[g] /\ buf'[g] = buf[g]
    BY <1>4, <2>1
  <2>4. /\ "centers" # "nValidNodes" /\ "wayPoints" # "nValidNodes"
        /\ "pathWayPoints" # "nValidNodes"
    OBVIOUS
  <2>9. GenFor("path_handler", 3, h)' /\ ScanFor("path_handler", 3, h)'
    <3>1. GenFor("path_handler", 3, h) /\ ScanFor("path_handler", 3, h)
      BY <1>2, <2>2, ForMoves
    <3> QED BY <1>3, <2>1, <2>3, <2>4, <3>1 DEF GenFor, ScanFor
  <2> QED BY <2>1, <2>9, ForInvNext
<1> QED BY <1>6, <1>7, <1>8, <1>9, <1>10, <1>11, ReadCases

(* The types of the next state. *)
LEMMA DataFactsNext ==
  ASSUME PlanTypeOK', SizeAssumption
  PROVE  /\ gens' \in Nat /\ scans' \in Nat
         /\ \A b \in Computations : out'[b] \in Samples
         /\ \A f \in Buffers :
              in'[f] \in Samples /\ buf'[f] \in Seq(Samples) /\ Len(buf'[f]) <= Size
         /\ "k_means_plus" \in Computations /\ "waypoints_gen" \in Computations
         /\ "path_finding" \in Computations /\ "centers" \in Buffers
         /\ "wayPoints" \in Buffers /\ "pathWayPoints" \in Buffers
BY DEF PlanTypeOK, SizeAssumption, Computations, Buffers

(* A trigger that is through with its block is at the next one, or its     *)
(* round is given up.                                                      *)
LEMMA ForMovedOn ==
  ASSUME PlanTypeOK', SizeAssumption, NEW t, NEW h \in Nat, h <= Settled,
         NEW c \in {"waypoints_gen", "path_finding", "path_handler"},
         \/ B(t)' = "none" /\ steady' = 0
         \/ B(t)' = c /\ O(t)' = 1 /\ Age' = h,
         GenFor(c, 1, h)', ScanFor(c, 1, h)'
  PROVE  GenInv(t)' /\ ScanInv(t)'
<1>1. CASE B(t)' = c /\ O(t)' = 1 /\ Age' = h
  BY <1>1, ForInvNext
<1>2. CASE B(t)' = "none" /\ steady' = 0
  <2>1. Age' = 0
    BY <1>2 DEF Age
  <2>2. PICK l : l = O(t)'
    OBVIOUS
  <2>3. GenFor("none", l, 0)'
    <3>1. ~ (c = "waypoints_gen" /\ 1 = 4)
      OBVIOUS
    <3>2. GenAt(c, 1, h, gens', out'["waypoints_gen"], buf'["wayPoints"], in'["wayPoints"],
                out'["path_finding"], buf'["pathWayPoints"], in'["pathWayPoints"])
      BY DEF GenFor
    <3>3. GenAt("none", l, 0, gens', out'["waypoints_gen"], buf'["wayPoints"],
                in'["wayPoints"], out'["path_finding"], buf'["pathWayPoints"],
                in'["pathWayPoints"])
      BY <3>1, <3>2, DataFactsNext, GenGivenUp
    <3> QED BY <3>3 DEF GenFor
  <2>4. ScanFor("none", l, 0)'
    BY DataFactsNext, ScanGivenUp DEF ScanFor
  <2> QED BY <1>2, <2>1, <2>2, <2>3, <2>4, ForInvNext
<1> QED BY <1>1, <1>2

(* The round that steps everything is none of the others. *)
LEMMA Unlike == WholeRound # ScanRound /\ WholeRound # PlanRound
BY DEF WholeRound, ScanRound, PlanRound

(* Plans stay recent through the writes. *)
LEMMA RecentWrite ==
  ASSUME PlanTypeOK, ScriptsAssumption, SizeAssumption, StartedInv,
         NEW t \in TriggerBlocks, Rounds[t] = WholeRound, GenInv(t), ScanInv(t),
         PlanTypeOK', WritePort(t)
  PROVE  GenInv(t)' /\ ScanInv(t)'
<1>1. PICK h \in Nat : h = Age
  BY DataFacts
<1>2. GenFor(B(t), O(t), h) /\ ScanFor(B(t), O(t), h) /\ h <= Settled
  BY <1>1, ForInv, DataFacts
<1>3. /\ gens \in Nat /\ scans \in Nat /\ \A b \in Computations : out[b] \in Samples
      /\ \A f \in Buffers :
           in[f] \in Samples /\ buf[f] \in Seq(Samples) /\ Len(buf[f]) <= Size
      /\ "k_means_plus" \in Computations /\ "waypoints_gen" \in Computations
      /\ "path_finding" \in Computations /\ "centers" \in Buffers
      /\ "wayPoints" \in Buffers /\ "pathWayPoints" \in Buffers
  BY DataFacts
<1>4. /\ DOMAIN in = Buffers /\ DOMAIN buf = Buffers /\ DOMAIN out = Computations
  BY DEF PlanTypeOK
<1>5. ASSUME NEW b, NEW o, NEW f \in Buffers, WriteOf(t, b, o, f)
      PROVE  /\ B(t) = b /\ O(t) = o /\ UNCHANGED <<in, out, gens, scans>>
             /\ \A g \in Buffers \ {f} : buf'[g] = buf[g]
             /\ \/ buf'[f] = Pushed(buf[f], out[b])
                \/ buf'[f] = buf[f] /\ buf[f] = <<>> /\ h = 0
             /\ steady' = steady => Age' = h
  <2>1. Sent(f, out[b]) = Pushed(buf[f], out[b]) \/ f \notin running
    BY SentFacts
  <2>2. f \notin running => Sent(f, out[b]) = buf[f] /\ buf[f] = <<>>
    BY SentFacts DEF StartedInv
  <2>3. f \notin running => h = 0
    BY <1>1, AllBuffersUp DEF Age
  <2> QED BY <1>1, <1>4, <1>5, <2>1, <2>2, <2>3, AgeFacts DEF WriteOf, On
<1>6. CASE WriteOf(t, "k_means_plus", 2, "centers") /\ NextOpOf(t, "k_means_plus", 3)
  <2>0. "centers" \in Buffers
    BY DEF Buffers
  <2>1. /\ B(t) = "k_means_plus" /\ O(t) = 2 /\ B(t)' = "k_means_plus" /\ O(t)' = 3
        /\ Age' = h
        /\ UNCHANGED <<in, out, gens, scans>>
        /\ \A g \in Buffers \ {"centers"} : buf'[g] = buf[g]
        /\ \/ buf'["centers"] = Pushed(buf["centers"], out["k_means_plus"])
           \/ buf'["centers"] = buf["centers"] /\ buf["centers"] = <<>> /\ h = 0
    BY <1>5, <1>6, <2>0 DEF NextOpOf
  <2>2. GenFor("k_means_plus", 2, h) /\ ScanFor("k_means_plus", 2, h)
    BY <1>2, <2>1
  <2>4. ASSUME buf'["centers"] = Pushed(buf["centers"], out["k_means_plus"])
        PROVE  GenFor("k_means_plus", 3, h)' /\ ScanFor("k_means_plus", 3, h)'
    <3>2. GenAt("k_means_plus", 3, h, gens, out["waypoints_gen"], buf["wayPoints"],
                in["wayPoints"],
                out["path_finding"], buf["pathWayPoints"], in["pathWayPoints"])
      BY <1>2, <1>3, <2>2, <2>4, ForMoves DEF GenFor
    <3>3. ScanAt("k_means_plus", 3, h, scans, out["k_means_plus"], Pushed(buf["centers"],
                 out["k_means_plus"]), in["centers"],
                out["waypoints_gen"], buf["wayPoints"], in["wayPoints"],
                out["path_finding"], buf["pathWayPoints"], in["pathWayPoints"])
      BY <1>2, <1>3, <2>2, <2>4, ScanCentersSent DEF ScanFor
    <3> QED BY <1>3, <2>1, <2>4, <3>2, <3>3 DEF GenFor, ScanFor
  <2>5. ASSUME buf'["centers"] = buf["centers"] /\ buf["centers"] = <<>> /\ h = 0
        PROVE  GenFor("k_means_plus", 3, h)' /\ ScanFor("k_means_plus", 3, h)'
    <3>2. GenAt("k_means_plus", 3, h, gens, out["waypoints_gen"], buf["wayPoints"],
                in["wayPoints"],
                out["path_finding"], buf["pathWayPoints"], in["pathWayPoints"])
      BY <1>2, <1>3, <2>2, <2>5, ForMoves DEF GenFor
    <3>3. ScanAt("k_means_plus", 3, h, scans, out["k_means_plus"], buf["centers"],
                 in["centers"],
                out["waypoints_gen"], buf["wayPoints"], in["wayPoints"],
                out["path_finding"], buf["pathWayPoints"], in["pathWayPoints"])
      BY <1>2, <1>3, <2>2, <2>5, ScanCentersSent DEF ScanFor
    <3> QED BY <1>3, <2>1, <2>5, <3>2, <3>3 DEF GenFor, ScanFor
  <2>9. GenFor("k_means_plus", 3, h)' /\ ScanFor("k_means_plus", 3, h)'
    BY <2>1, <2>4, <2>5
  <2> QED BY <2>1, <2>9, ForInvNext
<1>7. CASE WriteOf(t, "k_means_plus", 3, "nCenters") /\ MovedOn(t)
  <2>0. "nCenters" \in Buffers
    BY DEF Buffers
  <2>1. /\ B(t) = "k_means_plus" /\ O(t) = 3
        /\ UNCHANGED <<in, out, gens, scans>>
        /\ \A g \in Buffers \ {"nCenters"} : buf'[g] = buf[g]
        /\ \/ buf'["nCenters"] = Pushed(buf["nCenters"], out["k_means_plus"])
           \/ buf'["nCenters"] = buf["nCenters"] /\ buf["nCenters"] = <<>> /\ h = 0
        /\ steady' = steady => Age' = h
    BY <1>5, <1>7, <2>0
  <2>8. \/ B(t)' = "none" /\ steady' = 0
        \/ B(t)' = "waypoints_gen" /\ O(t)' = 1 /\ Age' = h
    BY <1>7, <2>1, Unlike DEF MovedOn
  <2>2. GenFor("k_means_plus", 3, h) /\ ScanFor("k_means_plus", 3, h)
    BY <1>2, <2>1
  <2>4. "centers" # "nCenters" /\ "wayPoints" # "nCenters" /\ "pathWayPoints" # "nCenters"
    OBVIOUS
  <2>9. GenFor("waypoints_gen", 1, h)' /\ ScanFor("waypoints_gen", 1, h)'
    <3>1. GenFor("waypoints_gen", 1, h) /\ ScanFor("waypoints_gen", 1, h)
      BY <1>2, <2>2, ForMoves
    <3> QED BY <1>3, <2>1, <2>4, <3>1 DEF GenFor, ScanFor
  <2> QED BY <1>2, <2>8, <2>9, ForMovedOn
<1>8. CASE WriteOf(t, "waypoints_gen", 4, "wayPoints") /\ NextOpOf(t, "waypoints_gen", 5)
  <2>0. "wayPoints" \in Buffers
    BY DEF Buffers
  <2>1. /\ B(t) = "waypoints_gen" /\ O(t) = 4 /\ B(t)' = "waypoints_gen" /\ O(t)' = 5
        /\ Age' = h
        /\ UNCHANGED <<in, out, gens, scans>>
        /\ \A g \in Buffers \ {"wayPoints"} : buf'[g] = buf[g]
        /\ \/ buf'["wayPoints"] = Pushed(buf["wayPoints"], out["waypoints_gen"])
           \/ buf'["wayPoints"] = buf["wayPoints"] /\ buf["wayPoints"] = <<>> /\ h = 0
    BY <1>5, <1>8, <2>0 DEF NextOpOf
  <2>2. GenFor("waypoints_gen", 4, h) /\ ScanFor("waypoints_gen", 4, h)
    BY <1>2, <2>1
  <2>4. ASSUME buf'["wayPoints"] = Pushed(buf["wayPoints"], out["waypoints_gen"])
        PROVE  GenFor("waypoints_gen", 5, h)' /\ ScanFor("waypoints_gen", 5, h)'
    <3>2. GenAt("waypoints_gen", 5, h, gens, out["waypoints_gen"],
                Pushed(buf["wayPoints"], out["waypoints_gen"]), in["wayPoints"],
                out["path_finding"], buf["pathWayPoints"], in["pathWayPoints"])
      BY <1>2, <1>3, <2>2, <2>4, GenWaySent DEF GenFor
    <3>3. ScanAt("waypoints_gen", 5, h, scans, out["k_means_plus"], buf["centers"],
                 in["centers"],
                out["waypoints_gen"], Pushed(buf["wayPoints"], out["waypoints_gen"]),
                in["wayPoints"],
                out["path_finding"], buf["pathWayPoints"], in["pathWayPoints"])
      BY <1>2, <1>3, <2>2, <2>4, ScanWaySent DEF ScanFor
    <3> QED BY <1>3, <2>1, <2>4, <3>2, <3>3 DEF GenFor, ScanFor
  <2>5. ASSUME buf'["wayPoints"] = buf["wayPoints"] /\ buf["wayPoints"] = <<>> /\ h = 0
        PROVE  GenFor("waypoints_gen", 5, h)' /\ ScanFor("waypoints_gen", 5, h)'
    <3>2. GenAt("waypoints_gen", 5, h, gens, out["waypoints_gen"], buf["wayPoints"],
                in["wayPoints"],
                out["path_finding"], buf["pathWayPoints"], in["pathWayPoints"])
      BY <1>2, <1>3, <2>2, <2>5, GenWaySent DEF GenFor
    <3>3. ScanAt("waypoints_gen", 5, h, scans, out["k_means_plus"], buf["centers"],
                 in["centers"],
                out["waypoints_gen"], buf["wayPoints"], in["wayPoints"],
                out["path_finding"], buf["pathWayPoints"], in["pathWayPoints"])
      BY <1>2, <1>3, <2>2, <2>5, ScanWaySent DEF ScanFor
    <3> QED BY <1>3, <2>1, <2>5, <3>2, <3>3 DEF GenFor, ScanFor
  <2>9. GenFor("waypoints_gen", 5, h)' /\ ScanFor("waypoints_gen", 5, h)'
    BY <2>1, <2>4, <2>5
  <2> QED BY <2>1, <2>9, ForInvNext
<1>9. CASE WriteOf(t, "waypoints_gen", 5, "costTable") /\ MovedOn(t)
  <2>0. "costTable" \in Buffers
    BY DEF Buffers
  <2>1. /\ B(t) = "waypoints_gen" /\ O(t) = 5
        /\ UNCHANGED <<in, out, gens, scans>>
        /\ \A g \in Buffers \ {"costTable"} : buf'[g] = buf[g]
        /\ \/ buf'["costTable"] = Pushed(buf["costTable"], out["waypoints_gen"])
           \/ buf'["costTable"] = buf["costTable"] /\ buf["costTable"] = <<>> /\ h = 0
        /\ steady' = steady => Age' = h
    BY <1>5, <1>9, <2>0
  <2>8. \/ B(t)' = "none" /\ steady' = 0
        \/ B(t)' = "path_finding" /\ O(t)' = 1 /\ Age' = h
    BY <1>9, <2>1, Unlike DEF MovedOn
  <2>2. GenFor("waypoints_gen", 5, h) /\ ScanFor("waypoints_gen", 5, h)
    BY <1>2, <2>1
  <2>4. /\ "centers" # "costTable" /\ "wayPoints" # "costTable"
        /\ "pathWayPoints" # "costTable"
    OBVIOUS
  <2>9. GenFor("path_finding", 1, h)' /\ ScanFor("path_finding", 1, h)'
    <3>1. GenFor("path_finding", 1, h) /\ ScanFor("path_finding", 1, h)
      BY <1>2, <2>2, ForMoves
    <3> QED BY <1>3, <2>1, <2>4, <3>1 DEF GenFor, ScanFor
  <2> QED BY <1>2, <2>8, <2>9, ForMovedOn
<1>10. CASE WriteOf(t, "path_finding", 4, "nValidNodes") /\ NextOpOf(t, "path_finding", 5)
  <2>0. "nValidNodes" \in Buffers
    BY DEF Buffers
  <2>1. /\ B(t) = "path_finding" /\ O(t) = 4 /\ B(t)' = "path_finding" /\ O(t)' = 5
        /\ Age' = h
        /\ UNCHANGED <<in, out, gens, scans>>
        /\ \A g \in Buffers \ {"nValidNodes"} : buf'[g] = buf[g]
        /\ \/ buf'["nValidNodes"] = Pushed(buf["nValidNodes"], out["path_finding"])
           \/ buf'["nValidNodes"] = buf["nValidNodes"] /\ buf["nValidNodes"] = <<>> /\ h = 0
    BY <1>5, <1>10, <2>0 DEF NextOpOf
  <2>2. GenFor("path_finding", 4, h) /\ ScanFor("path_finding", 4, h)
    BY <1>2, <2>1
  <2>4. /\ "centers" # "nValidNodes" /\ "wayPoints" # "nValidNodes"
        /\ "pathWayPoints" # "nValidNodes"
    OBVIOUS
  <2>9. GenFor("path_finding", 5, h)' /\ ScanFor("path_finding", 5, h)'
    <3>1. GenFor("path_finding", 5, h) /\ ScanFor("path_finding", 5, h)
      BY <1>2, <2>2, ForMoves
    <3> QED BY <1>3, <2>1, <2>4, <3>1 DEF GenFor, ScanFor
  <2> QED BY <2>1, <2>9, ForInvNext
<1>11. CASE WriteOf(t, "path_finding", 5, "pathWayPoints") /\ MovedOn(t)
  <2>0. "pathWayPoints" \in Buffers
    BY DEF Buffers
  <2>1. /\ B(t) = "path_finding" /\ O(t) = 5
        /\ UNCHANGED <<in, out, gens, scans>>
        /\ \A g \in Buffers \ {"pathWayPoints"} : buf'[g] = buf[g]
        /\ \/ buf'["pathWayPoints"] = Pushed(buf["pathWayPoints"], out["path_finding"])
           \/ buf'["pathWayPoints"] = buf["pathWayPoints"] /\ buf["pathWayPoints"] = <<>> /\ h = 0
        /\ steady' = steady => Age' = h
    BY <1>5, <1>11, <2>0
  <2>8. \/ B(t)' = "none" /\ steady' = 0
        \/ B(t)' = "path_handler" /\ O(t)' = 1 /\ Age' = h
    BY <1>11, <2>1, Unlike DEF MovedOn
  <2>2. GenFor("path_finding", 5, h) /\ ScanFor("path_finding", 5, h)
    BY <1>2, <2>1
  <2>4. ASSUME buf'["pathWayPoints"] = Pushed(buf["pathWayPoints"], out["path_finding"])
        PROVE  GenFor("path_handler", 1, h)' /\ ScanFor("path_handler", 1, h)'
    <3>2. GenAt("path_handler", 1, h, gens, out["waypoints_gen"], buf["wayPoints"],
                in["wayPoints"],
                out["path_finding"], Pushed(buf["pathWayPoints"], out["path_finding"]),
                in["pathWayPoints"])
      BY <1>2, <1>3, <2>2, <2>4, GenPathSent DEF GenFor
    <3>3. ScanAt("path_handler", 1, h, scans, out["k_means_plus"], buf["centers"],
                 in["centers"],
                out["waypoints_gen"], buf["wayPoints"], in["wayPoints"],
                out["path_finding"], Pushed(buf["pathWayPoints"], out["path_finding"]),
                in["pathWayPoints"])
      BY <1>2, <1>3, <2>2, <2>4, ScanPathSent DEF ScanFor
    <3> QED BY <1>3, <2>1, <2>4, <3>2, <3>3 DEF GenFor, ScanFor
  <2>5. ASSUME /\ buf'["pathWayPoints"] = buf["pathWayPoints"]
               /\ buf["pathWayPoints"] = <<>> /\ h = 0
        PROVE  GenFor("path_handler", 1, h)' /\ ScanFor("path_handler", 1, h)'
    <3>2. GenAt("path_handler", 1, h, gens, out["waypoints_gen"], buf["wayPoints"],
                in["wayPoints"],
                out["path_finding"], buf["pathWayPoints"], in["pathWayPoints"])
      BY <1>2, <1>3, <2>2, <2>5, GenPathSent DEF GenFor
    <3>3. ScanAt("path_handler", 1, h, scans, out["k_means_plus"], buf["centers"],
                 in["centers"],
                out["waypoints_gen"], buf["wayPoints"], in["wayPoints"],
                out["path_finding"], buf["pathWayPoints"], in["pathWayPoints"])
      BY <1>2, <1>3, <2>2, <2>5, ScanPathSent DEF ScanFor
    <3> QED BY <1>3, <2>1, <2>5, <3>2, <3>3 DEF GenFor, ScanFor
  <2>9. GenFor("path_handler", 1, h)' /\ ScanFor("path_handler", 1, h)'
    BY <2>1, <2>4, <2>5
  <2> QED BY <1>2, <2>8, <2>9, ForMovedOn
<1> QED BY <1>6, <1>7, <1>8, <1>9, <1>10, <1>11, WriteCases

(* Plans stay recent through the computations. *)
LEMMA RecentCompute ==
  ASSUME PlanTypeOK, ScriptsAssumption, SizeAssumption, StartedInv,
         NEW t \in TriggerBlocks, Rounds[t] = WholeRound, GenInv(t), ScanInv(t),
         PlanTypeOK',
         KMeans(t) \/ WaypointsGen(t) \/ FindPath(t) \/ HandlePath(t)
  PROVE  GenInv(t)' /\ ScanInv(t)'
<1>1. PICK h \in Nat : h = Age
  BY DataFacts
<1>2. GenFor(B(t), O(t), h) /\ ScanFor(B(t), O(t), h) /\ h <= Settled
  BY <1>1, ForInv, DataFacts
<1>3. /\ gens \in Nat /\ scans \in Nat /\ \A b \in Computations : out[b] \in Samples
      /\ \A f \in Buffers :
           in[f] \in Samples /\ buf[f] \in Seq(Samples) /\ Len(buf[f]) <= Size
      /\ "k_means_plus" \in Computations /\ "waypoints_gen" \in Computations
      /\ "path_finding" \in Computations /\ "centers" \in Buffers
      /\ "wayPoints" \in Buffers /\ "pathWayPoints" \in Buffers
  BY DataFacts
<1>4. /\ DOMAIN in = Buffers /\ DOMAIN buf = Buffers /\ DOMAIN out = Computations
  BY DEF PlanTypeOK
<1>5. UNCHANGED <<script, started, buf, in>>
  BY DEF KMeans, WaypointsGen, FindPath, HandlePath, Computes
<1>6. /\ steady' = steady => Age' = h
      /\ Counted => Age' \in Nat /\ Age' <= h + 1
      /\ steady' = 0 => Age' = 0
  BY <1>1, <1>5, AgeFacts
<1>7. CASE KMeans(t)
  <2>1. /\ B(t) = "k_means_plus" /\ O(t) = 1
        /\ \/ NextOpOf(t, "k_means_plus", 2) /\ scans' = scans + 1
           \/ MovedOn(t) /\ UNCHANGED <<scans, out>>
        /\ gens' = gens
    BY <1>7, ComputeCases DEF On, KMeans
  <2>2. GenFor("k_means_plus", 1, h) /\ ScanFor("k_means_plus", 1, h)
    BY <1>2, <2>1
  <2>3. CASE NextOpOf(t, "k_means_plus", 2) /\ scans' = scans + 1
    <3>1. B(t)' = "k_means_plus" /\ O(t)' = 2 /\ Age' = h
      BY <1>6, <2>3 DEF NextOpOf
    <3>2. \/ out' = [out EXCEPT !["k_means_plus"].scan = scans']
          \/ scans' = scans
      BY <1>7 DEF KMeans
    <3>3. out' = [out EXCEPT !["k_means_plus"] =
                    [out["k_means_plus"] EXCEPT !.scan = scans']]
      BY <1>3, <2>3, <3>2
    <3>4. /\ out'["k_means_plus"] = [out["k_means_plus"] EXCEPT !.scan = scans']
          /\ out'["waypoints_gen"] = out["waypoints_gen"]
          /\ out'["path_finding"] = out["path_finding"]
      BY <1>3, <1>4, <3>3
    <3>5. out'["k_means_plus"] \in Samples /\ out'["k_means_plus"].scan = scans + 1
      <4>1. out'["k_means_plus"].scan = scans'
        BY <1>3, <3>4 DEF Samples
      <4> QED BY <2>3, <4>1, DataFactsNext
    <3>6. GenFor("k_means_plus", 2, h)'
      <4>1. GenFor("k_means_plus", 2, h)
        BY <1>2, <1>3, <2>2, GenMoves DEF GenFor
      <4> QED BY <1>5, <2>1, <3>4, <4>1 DEF GenFor
    <3>7. ScanFor("k_means_plus", 2, h)'
      <4>1. ScanAt("k_means_plus", 2, h, scans + 1, out'["k_means_plus"], buf["centers"],
                   in["centers"], out["waypoints_gen"], buf["wayPoints"], in["wayPoints"],
                   out["path_finding"], buf["pathWayPoints"], in["pathWayPoints"])
        BY <1>2, <1>3, <2>2, <3>5, ScanClustered DEF ScanFor
      <4> QED BY <1>5, <2>3, <3>4, <4>1 DEF ScanFor
    <3> QED BY <3>1, <3>6, <3>7, ForInvNext
  <2>4. CASE MovedOn(t) /\ UNCHANGED <<scans, out>>
    <3>1. \/ B(t)' = "none" /\ steady' = 0
          \/ B(t)' = "waypoints_gen" /\ O(t)' = 1 /\ Age' = h
      BY <1>6, <2>1, <2>4, Unlike DEF MovedOn
    <3>2. GenFor("waypoints_gen", 1, h) /\ ScanFor("waypoints_gen", 1, h)
      BY <1>2, <2>2, ForMoves
    <3>3. GenFor("waypoints_gen", 1, h)' /\ ScanFor("waypoints_gen", 1, h)'
      BY <1>5, <2>1, <2>4, <3>2 DEF GenFor, ScanFor
    <3> QED BY <1>2, <3>1, <3>3, ForMovedOn
  <2> QED BY <2>1, <2>3, <2>4
<1>8. CASE WaypointsGen(t)
  <2>1. /\ B(t) = "waypoints_gen" /\ O(t) = 3 /\ NextOpOf(t, "waypoints_gen", 4)
    BY <1>8, ComputeCases DEF On
  <2>2. /\ gens' = gens + 1 /\ scans' = scans
        /\ out' = [out EXCEPT !["waypoints_gen"] =
                     [scan |-> in["centers"].scan, gen |-> gens', route |-> FALSE]]
    BY <1>8 DEF WaypointsGen
  <2>3. B(t)' = "waypoints_gen" /\ O(t)' = 4 /\ Age' = h
    BY <1>6, <2>1 DEF NextOpOf
  <2>4. GenFor("waypoints_gen", 3, h) /\ ScanFor("waypoints_gen", 3, h)
    BY <1>2, <2>1
  <2>5. /\ out'["waypoints_gen"].gen = gens + 1
        /\ out'["waypoints_gen"].scan = in["centers"].scan
        /\ out'["waypoints_gen"] \in Samples
        /\ out'["k_means_plus"] = out["k_means_plus"]
        /\ out'["path_finding"] = out["path_finding"]
    <3>1. out'["waypoints_gen"] \in Samples
      BY DataFactsNext
    <3> QED BY <1>3, <1>4, <2>2, <3>1
  <2>6. GenFor("waypoints_gen", 4, h)'
    <3>1. GenAt("waypoints_gen", 4, h, gens + 1, out'["waypoints_gen"], buf["wayPoints"],
                in["wayPoints"], out["path_finding"], buf["pathWayPoints"],
                in["pathWayPoints"])
      BY <1>2, <1>3, <2>4, <2>5, GenGenerated DEF GenFor
    <3> QED BY <1>5, <2>2, <2>5, <3>1 DEF GenFor
  <2>7. ScanFor("waypoints_gen", 4, h)'
    <3>1. ScanAt("waypoints_gen", 4, h, scans, out["k_means_plus"], buf["centers"],
                 in["centers"], out'["waypoints_gen"], buf["wayPoints"], in["wayPoints"],
                 out["path_finding"], buf["pathWayPoints"], in["pathWayPoints"])
      BY <1>2, <1>3, <2>4, <2>5, ScanGenerated DEF ScanFor
    <3> QED BY <1>5, <2>2, <2>5, <3>1 DEF ScanFor
  <2> QED BY <2>3, <2>6, <2>7, ForInvNext
<1>9. CASE FindPath(t)
  <2>1. /\ B(t) = "path_finding" /\ O(t) = 3 /\ NextOpOf(t, "path_finding", 4)
    BY <1>9, ComputeCases DEF On
  <2>2. gens' = gens /\ scans' = scans
    BY <1>9 DEF FindPath
  <2>3. PICK route \in BOOLEAN :
          out' = [out EXCEPT !["path_finding"] = [in["wayPoints"] EXCEPT !.route = route]]
    BY <1>9 DEF FindPath
  <2>4. B(t)' = "path_finding" /\ O(t)' = 4 /\ Age' = h
    BY <1>6, <2>1 DEF NextOpOf
  <2>5. GenFor("path_finding", 3, h) /\ ScanFor("path_finding", 3, h)
    BY <1>2, <2>1
  <2>6. /\ out'["path_finding"].gen = in["wayPoints"].gen
        /\ out'["path_finding"].scan = in["wayPoints"].scan
        /\ out'["path_finding"] \in Samples
        /\ out'["k_means_plus"] = out["k_means_plus"]
        /\ out'["waypoints_gen"] = out["waypoints_gen"]
    <3>1. out'["path_finding"] \in Samples
      BY DataFactsNext
    <3>2. out'["path_finding"] = [in["wayPoints"] EXCEPT !.route = route]
          /\ out'["k_means_plus"] = out["k_means_plus"]
          /\ out'["waypoints_gen"] = out["waypoints_gen"]
      BY <1>3, <1>4, <2>3
    <3> QED BY <1>3, <3>1, <3>2 DEF Samples
  <2>7. GenFor("path_finding", 4, h)'
    <3>1. GenAt("path_finding", 4, h, gens, out["waypoints_gen"], buf["wayPoints"],
                in["wayPoints"], out'["path_finding"], buf["pathWayPoints"],
                in["pathWayPoints"])
      BY <1>2, <1>3, <2>5, <2>6, GenFound DEF GenFor
    <3> QED BY <1>5, <2>2, <2>6, <3>1 DEF GenFor
  <2>8. ScanFor("path_finding", 4, h)'
    <3>1. ScanAt("path_finding", 4, h, scans, out["k_means_plus"], buf["centers"],
                 in["centers"], out["waypoints_gen"], buf["wayPoints"], in["wayPoints"],
                 out'["path_finding"], buf["pathWayPoints"], in["pathWayPoints"])
      BY <1>2, <1>3, <2>5, <2>6, ScanFound DEF ScanFor
    <3> QED BY <1>5, <2>2, <2>6, <3>1 DEF ScanFor
  <2> QED BY <2>4, <2>7, <2>8, ForInvNext
<1>10. CASE HandlePath(t)
  <2>1. B(t) = "path_handler" /\ O(t) = 3 /\ MovedOn(t)
    BY <1>10, ComputeCases DEF On
  <2>2. UNCHANGED <<out, gens, scans>>
    BY <1>10 DEF HandlePath
  <2>3. /\ B(t)' = "none" /\ Age' \in Nat /\ Age' <= h + 1
    BY <1>6, <2>1 DEF MovedOn
  <2>4. GenFor("path_handler", 3, h) /\ ScanFor("path_handler", 3, h)
    BY <1>2, <2>1
  <2>5. PICK k, l : k \in Nat /\ k = Age' /\ k <= h + 1 /\ l = O(t)'
    BY <2>3
  <2>6. GenFor("none", l, k)
    BY <1>2, <1>3, <2>4, <2>5, GenCounted DEF GenFor
  <2>7. ScanFor("none", l, k)
    BY <1>2, <1>3, <2>4, <2>5, ScanCounted DEF ScanFor
  <2>8. GenFor("none", l, k)' /\ ScanFor("none", l, k)'
    BY <1>5, <2>2, <2>6, <2>7 DEF GenFor, ScanFor
  <2> QED BY <2>3, <2>5, <2>8, ForInvNext
<1> QED BY <1>7, <1>8, <1>9, <1>10

(* Plans stay recent when a round begins. *)
LEMMA RecentRound ==
  ASSUME PlanTypeOK, ScriptsAssumption, SizeAssumption, StartedInv,
         NEW t \in TriggerBlocks, Rounds[t] = WholeRound, GenInv(t), ScanInv(t),
         PlanTypeOK', StartRound(t)
  PROVE  GenInv(t)' /\ ScanInv(t)'
<1>1. PICK h \in Nat : h = Age
  BY DataFacts
<1>2. GenFor(B(t), O(t), h) /\ ScanFor(B(t), O(t), h) /\ h <= Settled
  BY <1>1, ForInv, DataFacts
<1>3. /\ gens \in Nat /\ scans \in Nat /\ \A b \in Computations : out[b] \in Samples
      /\ \A f \in Buffers :
           in[f] \in Samples /\ buf[f] \in Seq(Samples) /\ Len(buf[f]) <= Size
      /\ "k_means_plus" \in Computations /\ "waypoints_gen" \in Computations
      /\ "path_finding" \in Computations /\ "centers" \in Buffers
      /\ "wayPoints" \in Buffers /\ "pathWayPoints" \in Buffers
  BY DataFacts
<1>4. /\ DOMAIN in = Buffers /\ DOMAIN buf = Buffers /\ DOMAIN out = Computations
  BY DEF PlanTypeOK
<1>5. UNCHANGED <<script, started, buf, in, out, gens, scans>>
  BY DEF StartRound
<1>6. /\ steady' = steady => Age' = h
      /\ steady' = 0 => Age' = 0
  BY <1>1, <1>5, AgeFacts
<1>7. /\ B(t) = "none"
      /\ \/ B(t)' = "none" /\ steady' = 0
         \/ B(t)' = "k_means_plus" /\ O(t)' = 1 /\ steady' = steady
  BY RoundCases, Unlike
<1>8. PICK o, l : o = O(t) /\ l = O(t)'
  OBVIOUS
<1>9. GenFor("none", o, h) /\ ScanFor("none", o, h)
  BY <1>2, <1>7, <1>8
<1>10. CASE B(t)' = "none" /\ steady' = 0
  <2>1. GenFor("none", l, 0) /\ ScanFor("none", l, 0)
    BY <1>2, <1>9, ForGivenUp
  <2>2. GenFor("none", l, 0)' /\ ScanFor("none", l, 0)'
    BY <1>5, <2>1 DEF GenFor, ScanFor
  <2> QED BY <1>6, <1>8, <1>10, <2>2, ForInvNext
<1>11. CASE B(t)' = "k_means_plus" /\ O(t)' = 1 /\ steady' = steady
  <2>1. GenFor("k_means_plus", 1, h) /\ ScanFor("k_means_plus", 1, h)
    BY <1>2, <1>9, ForMoves
  <2>2. GenFor("k_means_plus", 1, h)' /\ ScanFor("k_means_plus", 1, h)'
    BY <1>5, <2>1 DEF GenFor, ScanFor
  <2> QED BY <1>6, <1>11, <2>2, ForInvNext
<1> QED BY <1>7, <1>10, <1>11

(* Plans stay recent through starts and stops, which reset the age. *)
LEMMA RecentMain ==
  ASSUME PlanTypeOK, ScriptsAssumption, SizeAssumption, StartedInv,
         NEW t \in TriggerBlocks, Rounds[t] = WholeRound, GenInv(t), ScanInv(t),
         UNCHANGED <<script, buf, at, in, out, target, scans, gens, lost>>, steady' = 0
  PROVE  GenInv(t)' /\ ScanInv(t)'
<1>1. PICK h \in Nat : h = Age
  BY DataFacts
<1>2. GenFor(B(t), O(t), h) /\ ScanFor(B(t), O(t), h) /\ h <= Settled
  BY <1>1, ForInv, DataFacts
<1>3. /\ gens \in Nat /\ scans \in Nat /\ \A b \in Computations : out[b] \in Samples
      /\ \A f \in Buffers :
           in[f] \in Samples /\ buf[f] \in Seq(Samples) /\ Len(buf[f]) <= Size
      /\ "k_means_plus" \in Computations /\ "waypoints_gen" \in Computations
      /\ "path_finding" \in Computations /\ "centers" \in Buffers
      /\ "wayPoints" \in Buffers /\ "pathWayPoints" \in Buffers
  BY DataFacts
<1>4. /\ DOMAIN in = Buffers /\ DOMAIN buf = Buffers /\ DOMAIN out = Computations
  BY DEF PlanTypeOK
<1>5. Age' = 0
  BY DEF Age
<1>6. PICK b, o : b = B(t) /\ o = O(t) /\ B(t)' = b /\ O(t)' = o
  BY DEF B, O, Block, Rounds
<1>7. GenFor(b, o, 0)
  BY <1>2, <1>3, <1>6, GenReset DEF GenFor
<1>8. ScanFor(b, o, 0)
  BY <1>2, <1>3, <1>6, ScanReset DEF ScanFor
<1>9. GenFor(b, o, 0)' /\ ScanFor(b, o, 0)'
  BY <1>7, <1>8 DEF GenFor, ScanFor
<1> QED BY <1>5, <1>6, <1>9, ForInvNext

(* Plans stay recent. *)
LEMMA RecentStep ==
  ASSUME PlanTypeOK, ScriptsAssumption, SizeAssumption, StartedInv, RecentInv,
         [PlanNext]_planVars
  PROVE  RecentInv'
<1>1. PlanTypeOK' /\ script' = script
  <2>1. script' = script
    BY DEF PlanNext, planVars, Launch, Stop, Restart, StartRound, ReadPort, WritePort,
           KMeans, WaypointsGen, FindPath, HandlePath, Computes
  <2> QED BY <2>1, PlanTypeStep
<1>2. TriggerBlocks' = TriggerBlocks /\ Rounds' = Rounds
  BY <1>1 DEF TriggerBlocks, Rounds
<1>3. SUFFICES ASSUME NEW t \in TriggerBlocks, Rounds[t] = WholeRound
               PROVE  GenInv(t)' /\ ScanInv(t)'
  BY <1>2 DEF RecentInv
<1>4. GenInv(t) /\ ScanInv(t)
  BY <1>3 DEF RecentInv
<1>5. \A u \in TriggerBlocks : u = t
  BY <1>3, OnePlanner
<1>6. CASE UNCHANGED planVars
  <2>1. Order' = Order /\ B(t)' = B(t) /\ O(t)' = O(t)
    BY <1>6 DEF planVars, Order, B, O, Block, Rounds
  <2>2. PICK b, o, h : b = B(t) /\ o = O(t) /\ h = Age
    OBVIOUS
  <2>3. GenFor(b, o, h) /\ ScanFor(b, o, h) /\ B(t)' = b /\ O(t)' = o /\ Age' = h
    BY <1>4, <1>6, <2>1, <2>2, ForInv DEF planVars, Age
  <2>4. GenFor(b, o, h)' /\ ScanFor(b, o, h)'
    BY <1>6, <2>3 DEF GenFor, ScanFor, planVars
  <2> QED BY <2>3, <2>4, ForInvNext
<1>7. CASE Launch \/ \E b \in Stoppable : Stop(b) \/ Restart(b)
  <2>1. UNCHANGED <<script, buf, at, in, out, target, scans, gens, lost>> /\ steady' = 0
    BY <1>7, MainSteps
  <2> QED BY <1>3, <1>4, <2>1, RecentMain
<1>8. CASE StartRound(t)
  BY <1>1, <1>3, <1>4, <1>8, RecentRound
<1>9. CASE ReadPort(t)
  BY <1>3, <1>4, <1>9, RecentRead
<1>10. CASE WritePort(t)
  BY <1>1, <1>3, <1>4, <1>10, RecentWrite
<1>11. CASE KMeans(t) \/ WaypointsGen(t) \/ FindPath(t) \/ HandlePath(t)
  BY <1>1, <1>3, <1>4, <1>11, RecentCompute
<1> QED BY <1>5, <1>6, <1>7, <1>8, <1>9, <1>10, <1>11 DEF PlanNext

(* The invariant holds initially. *)
LEMMA PlanInvStart == SizeAssumption /\ ScriptsAssumption /\ PlanInit => PlanInv
<1> SUFFICES ASSUME SizeAssumption, ScriptsAssumption, PlanInit PROVE PlanInv
  OBVIOUS
<1>1. /\ running = {} /\ started = 0
      /\ buf = [f \in Buffers |-> <<>>]
      /\ at = [t \in TriggerBlocks |-> AtRest]
      /\ in = [f \in Buffers |-> Junk] /\ out = [b \in Computations |-> Junk]
      /\ target = Junk /\ scans = 0 /\ gens = 0 /\ steady = 0 /\ lost = {}
  BY DEF PlanInit
<1>2. PlanTypeOK
  BY PlanTypeStart
<1>3. \A t \in TriggerBlocks : B(t) = "none"
  BY <1>1 DEF B
<1>4. StartedInv
  BY <1>1 DEF StartedInv
<1>5. PairInv
  <2>1. \A f, s \in Buffers : \A b, c \in Computations : InStep(f, s, b, c)
    BY <1>1, <1>3 DEF InStep, On, Computations
  <2> QED BY <2>1 DEF PairInv, Buffers, Computations
<1>6. /\ in["pathWayPoints"] = Junk /\ in["wayPoints"] = Junk
      /\ buf["pathWayPoints"] = <<>> /\ buf["wayPoints"] = <<>> /\ buf["centers"] = <<>>
      /\ out["path_finding"] = Junk /\ out["waypoints_gen"] = Junk
  BY <1>1 DEF Buffers, Computations
<1>7. OrderInv
  <2>1. Junk.gen = 0
    BY DEF Junk
  <2>2. InChain(Junk, Junk, <<>>, Junk, Junk, <<>>, Junk, 0)
    BY <2>1 DEF InChain, Upto, Before, Behind, Sorted, GensUpTo
  <2> QED BY <1>1, <1>6, <2>2 DEF OrderInv
<1>8. RecentInv
  <2>1. SUFFICES ASSUME NEW t \in TriggerBlocks PROVE GenInv(t) /\ ScanInv(t)
    BY DEF RecentInv
  <2>2. Age = 0 /\ 0 \in Nat /\ 0 <= Settled
    BY <1>1 DEF Age, SizeAssumption
  <2>3. PICK l : l = O(t)
    OBVIOUS
  <2>4. GensLast(buf["wayPoints"], gens) /\ ScansLast(buf["centers"], scans)
    BY <1>6 DEF GensLast, ScansLast
  <2>5. GenFor("none", l, 0)
    BY <1>2, <2>2, <2>4, DataFacts, GenNone DEF GenFor
  <2>6. ScanFor("none", l, 0)
    BY <1>2, <2>2, <2>4, DataFacts, ScanNone DEF ScanFor
  <2>7. B(t) = "none"
    BY <1>3
  <2> QED BY <2>2, <2>3, <2>5, <2>6, <2>7, ForInv
<1> QED BY <1>2, <1>4, <1>5, <1>7, <1>8 DEF PlanInv

(* Every step keeps it. *)
LEMMA PlanInvStep ==
  ASSUME PlanInv, ScriptsAssumption, SizeAssumption, [PlanNext]_planVars
  PROVE  PlanInv'
<1>1. PlanTypeOK /\ StartedInv /\ PairInv /\ OrderInv /\ RecentInv
  BY DEF PlanInv
<1> QED BY <1>1, PlanTypeStep, StartedStep, PairStep, OrderStep, RecentStep DEF PlanInv

-----------------------------------------------------------------------------
(* Where a trigger is when its block computes. *)
LEMMA ComputePlaces ==
  ASSUME PlanTypeOK, ScriptsAssumption, NEW t \in TriggerBlocks, AtCompute(t)
  PROVE  /\ Block(t) = "path_finding" => On(t, "path_finding", 3)
         /\ Block(t) = "path_handler" => On(t, "path_handler", 3)
<1>1. at[t] # AtRest /\ B(t) = Block(t) /\ O(t) = Len(Reads[Block(t)]) + 1
  BY Places DEF AtCompute, O
<1>2. ASSUME Block(t) = "path_finding" PROVE On(t, "path_finding", 3)
  BY <1>1, <1>2, TableLens DEF On
<1>3. ASSUME Block(t) = "path_handler" PROVE On(t, "path_handler", 3)
  BY <1>1, <1>3, TableLens DEF On
<1> QED BY <1>2, <1>3

(* The invariant implies that the two samples of a block belong together. *)
LEMMA InvPaired ==
  ASSUME PlanInv, ScriptsAssumption
  PROVE  Paired
<1>1. PlanTypeOK /\ PairInv
  BY DEF PlanInv
<1>2. SUFFICES ASSUME NEW t \in TriggerBlocks, AtCompute(t)
               PROVE  /\ /\ Block(t) = "path_finding"
                         /\ lost \cap {"wayPoints", "costTable"} = {}
                         => in["costTable"] = in["wayPoints"]
                      /\ /\ Block(t) = "path_handler"
                         /\ lost \cap {"nValidNodes", "pathWayPoints"} = {}
                         => in["nValidNodes"] = in["pathWayPoints"]
  BY DEF Paired
<1>3. /\ Block(t) = "path_finding" => On(t, "path_finding", 3)
      /\ Block(t) = "path_handler" => On(t, "path_handler", 3)
  BY <1>1, <1>2, ComputePlaces
<1>4. /\ "wayPoints" \in Buffers /\ "costTable" \in Buffers
      /\ "nValidNodes" \in Buffers /\ "pathWayPoints" \in Buffers
  BY DEF Buffers
<1>5. ASSUME Block(t) = "path_finding", lost \cap {"wayPoints", "costTable"} = {}
      PROVE  in["costTable"] = in["wayPoints"]
  BY ONLY <1>1, <1>2, <1>3, <1>5, <1>4 DEF PairInv, InStep
<1>6. ASSUME Block(t) = "path_handler", lost \cap {"nValidNodes", "pathWayPoints"} = {}
      PROVE  in["nValidNodes"] = in["pathWayPoints"]
  BY ONLY <1>1, <1>2, <1>3, <1>6, <1>4 DEF PairInv, InStep
<1> QED BY ONLY <1>5, <1>6

(* It implies that plans are recent. *)
LEMMA InvRecent ==
  ASSUME PlanInv, ScriptsAssumption
  PROVE  RecentPlans
<1>1. PlanTypeOK /\ RecentInv
  BY DEF PlanInv
<1>2. SUFFICES ASSUME NEW t \in TriggerBlocks,
                      Rounds[t] = WholeRound, started = Len(Order), steady = Settled,
                      AtCompute(t), Block(t) = "path_handler"
               PROVE  /\ in["pathWayPoints"].gen + 2 * (Size - 1) >= gens
                      /\ \/ in["pathWayPoints"].scan = 0
                         \/ in["pathWayPoints"].scan + 3 * (Size - 1) >= scans
  BY DEF RecentPlans
<1>3. On(t, "path_handler", 3) /\ GenInv(t) /\ ScanInv(t) /\ Age = Settled
  BY <1>1, <1>2, ComputePlaces DEF RecentInv, Age
<1>4. B(t) = "path_handler" /\ O(t) = 3
  BY <1>3 DEF On
<1> QED BY <1>3, <1>4 DEF GenInv, ScanInv, GenAt, ScanAt, Recent

(* What is where in two sequences after one another. *)
LEMMA JoinFacts ==
  ASSUME NEW S, NEW p \in Seq(S), NEW q \in Seq(S)
  PROVE  /\ p \o q \in Seq(S) /\ Len(p \o q) = Len(p) + Len(q)
         /\ \A i \in 1 .. Len(p) : (p \o q)[i] = p[i]
         /\ \A i \in 1 .. Len(q) : (p \o q)[Len(p) + i] = q[i]
OBVIOUS

(* What stands where in the pipeline. *)
ChainOf(tg, ip, p, of, iw, w, og) == <<tg, ip>> \o p \o <<of, iw>> \o w \o <<og>>

Placed(q, i, tg, ip, p, of, iw, w, og, lp, lw) ==
  \/ i = 1 /\ q[i] = tg
  \/ i = 2 /\ q[i] = ip
  \/ \E k \in DOMAIN p : i = 2 + k /\ q[i] = p[k]
  \/ i = 3 + lp /\ q[i] = of
  \/ i = 4 + lp /\ q[i] = iw
  \/ \E k \in DOMAIN w : i = 4 + lp + k /\ q[i] = w[k]
  \/ i = 5 + lp + lw /\ q[i] = og

(* What stands where in the pipeline. *)
LEMMA ChainPlaces ==
  ASSUME NEW tg \in Samples, NEW ip \in Samples, NEW p \in Seq(Samples), NEW of \in Samples,
         NEW iw \in Samples, NEW w \in Seq(Samples), NEW og \in Samples, NEW q,
         NEW lp \in Nat, NEW lw \in Nat, lp = Len(p), lw = Len(w),
         q = ChainOf(tg, ip, p, of, iw, w, og), NEW i \in DOMAIN q
  PROVE  Placed(q, i, tg, ip, p, of, iw, w, og, lp, lw)
<1> DEFINE a == <<tg, ip>> \o p
           b == a \o <<of, iw>>
           c == b \o w
<1>1. <<tg, ip>> \in Seq(Samples) /\ <<of, iw>> \in Seq(Samples) /\ <<og>> \in Seq(Samples)
      /\ Len(<<tg, ip>>) = 2 /\ Len(<<of, iw>>) = 2 /\ Len(<<og>>) = 1
      /\ Len(p) = lp /\ Len(w) = lw /\ lp \in Nat /\ lw \in Nat
      /\ p \in Seq(Samples) /\ w \in Seq(Samples) /\ og \in Samples
  OBVIOUS
<1>2. /\ a \in Seq(Samples) /\ Len(a) = 2 + lp
      /\ a[1] = tg /\ a[2] = ip /\ \A k \in 1 .. lp : a[2 + k] = p[k]
  BY <1>1, JoinFacts
<1> HIDE DEF a
<1>3. /\ b \in Seq(Samples) /\ Len(b) = 4 + lp
      /\ \A k \in 1 .. 2 + lp : b[k] = a[k]
      /\ b[3 + lp] = of /\ b[4 + lp] = iw
  BY <1>1, <1>2
<1> HIDE DEF b
<1>4. /\ c \in Seq(Samples) /\ Len(c) = 4 + lp + lw
      /\ \A k \in 1 .. 4 + lp : c[k] = b[k]
      /\ \A k \in 1 .. lw : c[4 + lp + k] = w[k]
  <2>0. b \in Seq(Samples) /\ w \in Seq(Samples)
    BY <1>3
  <2>1. /\ b \o w \in Seq(Samples) /\ Len(b \o w) = Len(b) + Len(w)
        /\ \A k \in 1 .. Len(b) : (b \o w)[k] = b[k]
        /\ \A k \in 1 .. Len(w) : (b \o w)[Len(b) + k] = w[k]
    BY ONLY <2>0, JoinFacts
  <2>2. Len(b) = 4 + lp /\ Len(w) = lw
    BY <1>1, <1>3
  <2> QED BY ONLY <2>1, <2>2, <1>1 DEF c
<1> HIDE DEF c
<1>5. q = c \o <<og>>
  BY DEF a, b, c, ChainOf
<1>6. /\ Len(q) = 5 + lp + lw /\ DOMAIN q = 1 .. Len(q)
      /\ \A k \in 1 .. 4 + lp + lw : q[k] = c[k]
      /\ q[5 + lp + lw] = og
  <2>0. c \in Seq(Samples) /\ <<og>> \in Seq(Samples) /\ Len(<<og>>) = 1 /\ <<og>>[1] = og
    BY <1>4
  <2>1. /\ c \o <<og>> \in Seq(Samples) /\ Len(c \o <<og>>) = Len(c) + 1
        /\ \A k \in 1 .. Len(c) : (c \o <<og>>)[k] = c[k]
        /\ (c \o <<og>>)[Len(c) + 1] = og
    BY ONLY <2>0, JoinFacts
  <2>2. Len(c) = 4 + lp + lw /\ 4 + lp + lw + 1 = 5 + lp + lw
    BY ONLY <1>1, <1>4
  <2>3. q \in Seq(Samples) /\ DOMAIN q = 1 .. Len(q)
    BY ONLY <1>5, <2>1
  <2> QED BY ONLY <1>5, <2>1, <2>2, <2>3
<1>7. i \in 1 .. 5 + lp + lw /\ DOMAIN p = 1 .. lp /\ DOMAIN w = 1 .. lw
  BY <1>6
<1>8. CASE i <= 2
  BY <1>1, <1>2, <1>3, <1>4, <1>6, <1>7, <1>8 DEF Placed
<1>9. CASE i > 2 /\ i <= 2 + lp
  <2>1. i - 2 \in 1 .. lp /\ i = 2 + (i - 2)
    BY <1>1, <1>7, <1>9
  <2>2. q[i] = a[i]
    BY <1>1, <1>3, <1>4, <1>6, <1>7, <1>9
  <2>3. a[2 + (i - 2)] = p[i - 2]
    BY <1>2, <2>1
  <2> QED BY <1>7, <2>1, <2>2, <2>3 DEF Placed
<1>10. CASE i > 2 + lp /\ i <= 4 + lp
  <2>1. i \in {3 + lp, 4 + lp} /\ i \in 1 .. 4 + lp /\ i \in 1 .. 4 + lp + lw
    BY ONLY <1>1, <1>7, <1>10
  <2> QED BY ONLY <2>1, <1>3, <1>4, <1>6 DEF Placed
<1>11. CASE i > 4 + lp /\ i <= 4 + lp + lw
  <2>1. i - 4 - lp \in 1 .. lw /\ i = 4 + lp + (i - 4 - lp)
    BY <1>1, <1>7, <1>11
  <2>2. q[i] = c[i]
    BY <1>1, <1>6, <1>7, <1>11
  <2>3. c[4 + lp + (i - 4 - lp)] = w[i - 4 - lp]
    BY <1>4, <2>1
  <2> QED BY <1>7, <2>1, <2>2, <2>3 DEF Placed
<1>12. CASE i > 4 + lp + lw
  <2>1. i = 5 + lp + lw
    BY ONLY <1>1, <1>7, <1>12
  <2> QED BY ONLY <2>1, <1>6 DEF Placed
<1>13. \/ i <= 2
       \/ i > 2 /\ i <= 2 + lp
       \/ i > 2 + lp /\ i <= 4 + lp
       \/ i > 4 + lp /\ i <= 4 + lp + lw
       \/ i > 4 + lp + lw
  BY ONLY <1>1, <1>7
<1> QED BY ONLY <1>8, <1>9, <1>10, <1>11, <1>12, <1>13

(* The order of the parts is the order of the whole. *)
LEMMA ChainInOrder ==
  ASSUME NEW tg \in Samples, NEW ip \in Samples, NEW p \in Seq(Samples), NEW of \in Samples,
         NEW iw \in Samples, NEW w \in Seq(Samples), NEW og \in Samples, NEW n \in Nat,
         InChain(tg, ip, p, of, iw, w, og, n), NEW q,
         NEW lp \in Nat, NEW lw \in Nat, lp = Len(p), lw = Len(w),
         q = ChainOf(tg, ip, p, of, iw, w, og),
         NEW i \in DOMAIN q, NEW j \in DOMAIN q, i < j
  PROVE  Upto(q[i], q[j])
<1>0. /\ Placed(q, i, tg, ip, p, of, iw, w, og, lp, lw)
      /\ Placed(q, j, tg, ip, p, of, iw, w, og, lp, lw)
  BY ChainPlaces
<1> DEFINE Stands(k) ==
         \/ k = 1 /\ q[k] = tg
         \/ k = 2 /\ q[k] = ip
         \/ \E l \in DOMAIN p : k = 2 + l /\ q[k] = p[l]
         \/ k = 3 + lp /\ q[k] = of
         \/ k = 4 + lp /\ q[k] = iw
         \/ \E l \in DOMAIN w : k = 4 + lp + l /\ q[k] = w[l]
         \/ k = 5 + lp + lw /\ q[k] = og
<1>1. Stands(i) /\ Stands(j)
  BY <1>0 DEF Placed
<1>2. /\ lp \in Nat /\ lw \in Nat
      /\ DOMAIN p = 1 .. lp /\ DOMAIN w = 1 .. lw
  OBVIOUS
<1>3. CASE i = 1 /\ q[i] = tg
  BY <1>1, <1>2, <1>3 DEF InChain, Before
<1>4. CASE i = 2 /\ q[i] = ip
  BY <1>1, <1>2, <1>4 DEF InChain, Before
<1>5. ASSUME NEW l \in DOMAIN p, i = 2 + l, q[i] = p[l]
      PROVE  Upto(q[i], q[j])
  BY <1>1, <1>2, <1>5 DEF InChain, Before, Behind, Sorted
<1>6. CASE i = 3 + lp /\ q[i] = of
  BY <1>1, <1>2, <1>6 DEF InChain, Before
<1>7. CASE i = 4 + lp /\ q[i] = iw
  BY <1>1, <1>2, <1>7 DEF InChain, Before
<1>8. ASSUME NEW l \in DOMAIN w, i = 4 + lp + l, q[i] = w[l]
      PROVE  Upto(q[i], q[j])
  BY <1>1, <1>2, <1>8 DEF InChain, Behind, Sorted
<1>9. CASE i = 5 + lp + lw
  BY <1>1, <1>2, <1>9
<1>10. Stands(i)
  BY <1>1
<1>11. CASE \E l \in DOMAIN p : i = 2 + l /\ q[i] = p[l]
  BY <1>5, <1>11
<1>12. CASE \E l \in DOMAIN w : i = 4 + lp + l /\ q[i] = w[l]
  BY <1>8, <1>12
<1> QED BY ONLY <1>10, <1>3, <1>4, <1>11, <1>6, <1>7, <1>12, <1>9

(* The invariant implies that no plan overtakes another one. *)
LEMMA InvInOrder ==
  ASSUME PlanInv, ScriptsAssumption, SizeAssumption
  PROVE  InOrder
<1>1. PlanTypeOK /\ OrderInv
  BY DEF PlanInv
<1>2. /\ target \in Samples /\ in["pathWayPoints"] \in Samples
      /\ buf["pathWayPoints"] \in Seq(Samples) /\ out["path_finding"] \in Samples
      /\ in["wayPoints"] \in Samples /\ buf["wayPoints"] \in Seq(Samples)
      /\ out["waypoints_gen"] \in Samples /\ gens \in Nat
  BY <1>1 DEF PlanTypeOK, Buffers, Computations, SizeAssumption
<1>3. InChain(target, in["pathWayPoints"], buf["pathWayPoints"], out["path_finding"],
              in["wayPoints"], buf["wayPoints"], out["waypoints_gen"], gens)
  BY <1>1 DEF OrderInv
<1>4. PICK q, lp, lw : /\ q = Pipeline
                       /\ lp = Len(buf["pathWayPoints"]) /\ lw = Len(buf["wayPoints"])
  OBVIOUS
<1>5. /\ q = ChainOf(target, in["pathWayPoints"], buf["pathWayPoints"], out["path_finding"],
                    in["wayPoints"], buf["wayPoints"], out["waypoints_gen"])
      /\ lp \in Nat /\ lw \in Nat
  BY <1>2, <1>4 DEF Pipeline, ChainOf
<1>6. SUFFICES ASSUME NEW i \in DOMAIN q, NEW j \in DOMAIN q, i < j
               PROVE  Upto(q[i], q[j])
  BY <1>4 DEF InOrder, Upto
<1> QED BY <1>2, <1>3, <1>4, <1>5, <1>6, ChainInOrder

(* Every variable of the pipeline keeps its type, for every set of scripts, *)
(* every length of the buffers and every number of scans, plans and stops  *)
(* (PlanTypeOK: no buffer overruns and no trigger leaves its list).        *)
THEOREM PlanTypeAlways ==
  ASSUME ScriptsAssumption, SizeAssumption
  PROVE  PlanSpec => []PlanTypeOK
<1>1. PlanInit => PlanTypeOK
  BY PlanTypeStart
<1>2. PlanTypeOK /\ [PlanNext]_planVars => PlanTypeOK'
  BY PlanTypeStep
<1> QED BY <1>1, <1>2, PTL DEF PlanSpec

(* Plans stay together, in order and recent (k_means_plus, waypoints_gen,  *)
(* path_finding, path_handler and the buffers between them), for every set of *)
(* scripts that steps no block twice, every length of the buffers and every *)
(* number of scans, plans and stops.                                       *)
THEOREM PlansRightAlways ==
  ASSUME ScriptsAssumption, SizeAssumption
  PROVE  PlanSpec => []PlansRight
<1>1. PlanInit => PlanInv
  BY PlanInvStart
<1>2. PlanInv /\ [PlanNext]_planVars => PlanInv'
  BY PlanInvStep
<1>3. PlanInv => PlansRight
  BY InvPaired, InvInOrder, InvRecent DEF PlansRight, PlanInv
<1> QED BY <1>1, <1>2, <1>3, PTL DEF PlanSpec

(* Scripts that start every buffer before the triggers. *)
BuffersFirst == \A s \in Scripts : \A i, j \in DOMAIN s.order :
  s.order[i] \in DOMAIN s.rounds /\ s.order[j] \in Buffers => j < i

(* A trigger that runs, or is in a round, finds every buffer started. *)
LostInv ==
  /\ lost = {}
  /\ \A t \in TriggerBlocks : t \in running \/ at[t] # AtRest => Buffers \subseteq running

(* Every step keeps that. *)
LEMMA LostStep ==
  ASSUME PlanTypeOK, ScriptsAssumption, SizeAssumption, BuffersFirst, StartedInv, LostInv,
         [PlanNext]_planVars
  PROVE  LostInv'
<1>1. CASE UNCHANGED planVars
  BY <1>1 DEF planVars, LostInv, TriggerBlocks, Rounds
<1>2. TriggerBlocks \cap Buffers = {}
  BY DEF PlanTypeOK, ScriptsAssumption, TriggerBlocks, Rounds
<1>3. ASSUME Launch PROVE LostInv'
  <2>0. /\ UNCHANGED <<script, at, lost>> /\ started < Len(Order)
        /\ running' = running \cup {Order[started + 1]}
    BY <1>3 DEF Launch
  <2>1. /\ started \in Nat /\ Buffers \subseteq Range(Order)
        /\ Order \in Seq(TriggerBlocks \cup Computations \cup Buffers)
    <3>1. started \in Nat
      BY DEF PlanTypeOK
    <3>2. /\ Buffers \subseteq Range(Order)
          /\ Order \in Seq(TriggerBlocks \cup Computations \cup Buffers)
      BY DEF PlanTypeOK, ScriptsAssumption, Order, TriggerBlocks, Rounds
    <3> QED BY <3>1, <3>2
  <2>2. started + 1 \in DOMAIN Order
    BY <2>0, <2>1
  <2>3. ASSUME NEW t \in TriggerBlocks, t = Order[started + 1]
        PROVE  Buffers \subseteq running
    <3>1. ASSUME NEW f \in Buffers PROVE f \in running
      <4>1. PICK j \in DOMAIN Order : Order[j] = f
        BY <2>0, <2>1 DEF Range
      <4>2. j < started + 1
        BY <2>2, <2>3, <4>1 DEF BuffersFirst, PlanTypeOK, Order, TriggerBlocks, Rounds
      <4>3. j \in 1 .. started
        BY <2>0, <2>1, <4>1, <4>2
      <4> QED BY <4>1, <4>3 DEF StartedInv
    <3> QED BY <3>1
  <2>4. TriggerBlocks' = TriggerBlocks
    BY <2>0, <2>1 DEF TriggerBlocks, Rounds
  <2> QED BY <2>0, <2>1, <2>3, <2>4 DEF LostInv
<1>4. ASSUME NEW b \in Stoppable, Stop(b) \/ Restart(b) PROVE LostInv'
  <2>1. UNCHANGED <<script, at, lost>> /\ (running' = running \ {b} \/ running' = running \cup {b})
    BY <1>4 DEF Stop, Restart
  <2>2. b \notin Buffers
    BY DEF PlanTypeOK, ScriptsAssumption, Stoppable, Buffers, Computations
  <2>3. TriggerBlocks' = TriggerBlocks
    BY <2>1 DEF TriggerBlocks, Rounds
  <2>4. CASE Stop(b)
    <3>1. running' = running \ {b}
      BY <2>4 DEF Stop
    <3> QED BY <2>1, <2>2, <2>3, <3>1 DEF LostInv
  <2>5. CASE Restart(b)
    <3>1. running' = running \cup {b} /\ started = Len(Order)
      BY <2>5 DEF Restart
    <3>2. Buffers \subseteq running
      BY <3>1, AllBuffersUp
    <3> QED BY <2>1, <2>3, <3>1, <3>2 DEF LostInv
  <2> QED BY <1>4, <2>4, <2>5
<1>5. ASSUME NEW t \in TriggerBlocks, Buffers \subseteq running,
             UNCHANGED <<script, running, lost>>
      PROVE  LostInv'
  BY <1>5 DEF LostInv
<1>6. ASSUME NEW t \in TriggerBlocks,
             StartRound(t) \/ ReadPort(t) \/ WritePort(t) \/ KMeans(t) \/ WaypointsGen(t)
               \/ FindPath(t) \/ HandlePath(t)
      PROVE  LostInv'
  <2>1. t \in running \/ at[t] # AtRest
    BY <1>6 DEF StartRound, ReadPort, WritePort, KMeans, WaypointsGen, FindPath, HandlePath,
                Computes, AtRead, AtWrite, AtCompute
  <2>2. Buffers \subseteq running
    BY <2>1 DEF LostInv
  <2>3. UNCHANGED <<script, running>>
    BY <1>6 DEF StartRound, ReadPort, WritePort, KMeans, WaypointsGen, FindPath, HandlePath,
                Computes
  <2>4. lost' = lost
    <3>1. CASE WritePort(t)
      <4>1. PICK f \in Buffers : lost' = IF f \in running THEN lost ELSE lost \cup {f}
        BY <3>1, WriteCases DEF WriteOf, Buffers
      <4> QED BY <2>2, <4>1
    <3> QED
      BY <1>6, <3>1 DEF StartRound, ReadPort, KMeans, WaypointsGen, FindPath, HandlePath, Computes
  <2> QED BY <1>5, <2>2, <2>3, <2>4
<1> QED BY <1>1, <1>3, <1>4, <1>6 DEF PlanNext

(* With a script that starts its buffers before its triggers __port_write  *)
(* finds every buffer ACTIVE, so what Paired excepts never happens.        *)
THEOREM NothingLost ==
  ASSUME ScriptsAssumption, SizeAssumption, BuffersFirst
  PROVE  PlanSpec => [](lost = {})
<1>1. PlanInit => PlanTypeOK /\ StartedInv /\ LostInv
  <2> SUFFICES ASSUME PlanInit PROVE PlanTypeOK /\ StartedInv /\ LostInv
    OBVIOUS
  <2>1. StartedInv /\ PlanTypeOK
    BY PlanTypeStart DEF PlanInit, StartedInv
  <2> QED BY <2>1 DEF PlanInit, LostInv
<1>2. PlanTypeOK /\ StartedInv /\ LostInv /\ [PlanNext]_planVars
        => (PlanTypeOK /\ StartedInv /\ LostInv)'
  BY PlanTypeStep, StartedStep, LostStep
<1>3. LostInv => lost = {}
  BY DEF LostInv
<1> QED BY <1>1, <1>2, <1>3, PTL DEF PlanSpec
=============================================================================
