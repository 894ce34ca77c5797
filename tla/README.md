# Verification of collision_avoidance (microblx) in TLA+

This directory specifies and verifies the repository next to it: *microblx*, a function-block
framework in C (`src/ubx.c`, `std_blocks/`, `std_types/`, `lua/`), and the collision avoidance
application built with it for the KUKA youBot (`app_blocks/`, `app_scripts/`, `examples/`, the
youBot driver in `std_blocks/youbot_driver`, the predictive controller in `std_blocks/fmpc_c`).

Modules are checked with TLC and proved about with TLAPS. `PROJECT.json` lists the runs, the source
lines of every definition, the hazards and the theorems.

## 1. The system

| Component | State | Operations | Interacts with |
|---|---|---|---|
| Block life cycle (`src/ubx.c`) | `block_state` of every block: PREINIT, INACTIVE, ACTIVE | `ubx_block_init/start/stop/cleanup`, `ubx_cblock_step`, `ubx_node_cleanup` | calls the hooks of every block; triggers read `block_state` from their threads |
| Node registries (`src/ubx.c`) | hashes of modules, types, prototypes and instances | load/unload, register/unregister, create/rm | the life cycle; `ubx_block_rm` frees memory that triggers point to |
| Ports (`src/ubx.c`, `lua/ubx.lua`) | arrays of ports per block and of interactions per port | add/rm, connect/disconnect, clone, `__port_read`, `__port_write` | interaction blocks; pointers that blocks cache |
| Interactions (`lfds_buffers`, `mqueue`) | a bounded buffer | read, write | called from several threads; queues of the operating system outlive the process |
| Triggers (`ptrig`, `trig`) | `inf->state`, a thread, statistics | hooks, `trigger_steps` | `ubx_cblock_step` of other blocks |
| youBot driver | control mode, set points, watchdog, calibration of the arm, EtherCAT image | hooks, `base_proc_update`, `arm_proc_update` | ports, EtherCAT slaves |
| Planning (`waypoints_gen`, `path_finding`, `path_handler`) | way points, cost table, path | one step hook each | each other, over buffers, under one or two triggers |
| Sensing (scanner SDK, `k_means_plus`) | cached scan, centers | client calls and a background thread; one step hook | the serial line; planning |
| Control (`fmpc_c`, `fmpc_c2`) | bounds, plan, matrices | one step hook with a solver in it | ports |
| Logging (`file_logger`) | ports and interactions it makes on other blocks | hooks | ports, life cycle, node clean-up |
| Web interface (`webif`, mongoose) | connections, a master and worker threads | hooks; pages that run Lua | the life cycle of every block, its own included |
| Scripts (`blockdiagram.lua`, `ubx.lua`) | trees of systems | `system.launch` | everything above |

What is hard in it:

* **Threads without locks.** `block_state`, ports and the trigger's data are shared between the
  thread that runs the application, one thread per trigger, and the workers of the web server. The
  only locks protect `inf->state` of `ptrig`, the cached scan of the scanner and the socket ring of
  the server; the buffers rely on compare-and-swap.
* **Teardown.** `ubx_node_cleanup` stops, cleans up and frees blocks in creation order while trigger
  threads may be in the middle of a step, and while cleanup hooks remove further blocks.
* **A safety function in software.** The base must stop when commands stop, in the face of mode
  changes, errors, restarts and commands that arrive in any order.
* **Partial failure.** Loading modules, connecting ports, launching a system and configuring a
  logger can fail half way, and a later attempt meets what the first one left.
* **Several buffers, one datum.** A plan travels over two or three buffers that fill, overrun and
  drain independently.
* **Numbers at the edge.** NaN centers, empty clusters, crossed bounds, seconds compared without
  nanoseconds.

What makes each component correct, in one line each: a hook runs only in the state it is for and a
thread never outlives its data (life cycle, triggers, server, scanner); a motor is driven only in a
mode, a unit and a time that a command justifies (driver); a buffer drops only the oldest message and
delivers those of one writer in order (interactions); no live thing refers to what is gone (registries, ports, logger); a path
is a shortest path, a plan pairs data of one step (planning); a plan lies between its bounds
(control).

## 2. Modules

| Module | Models | Refines / composed in |
|---|---|---|
| `Ptrig` | life cycle, node clean-up, trigger threads | `MCTriggers`, `MCWebServer`, `MCPtrig` |
| `YoubotBase`, `YoubotArm` | the youBot driver | `MCYoubotBase`, `MCYoubotArm` |
| `CyclicBuffer` | `lfds_cyclic` over liblfds | implements `DropOldest`; `MCCyclicBuffer` |
| `LfdsFreelist`, `LfdsQueue` | the compare-and-swap loops of liblfds (free list and queue), word by word | `MCCyclicBuffer`, `MCLfdsQueue` |
| `Mqueue` | `mqueue` blocks of two nodes on one queue of the operating system | `MCCyclicBuffer` |
| `Node` | registries, prototypes and instances, modules | `NodeParts`, `MCNode` |
| `PortOps`, `Ports`, `Null` | ports, connections, reading and writing; `Null` is the pointer to nothing that `Node` and `PortOps` share | implements `PortInterface`; `NodeParts`, `MCNode` |
| `FileLogger` | `file_logger` with `file_logger.lua`, on top of `PortOps` | `NodeParts`, `MCNode` |
| `Launch` | `system.launch` of `blockdiagram.lua` | `NodeParts`, `MCNode` |
| `PathFinding` | Dijkstra's algorithm of `path_finding` | implements `ShortestRoute`; `MCPathFinding` |
| `KMeans` | `k_means_plus` | `MCPathFinding` |
| `Planner` | the traffic of the planning pipeline | `MCTriggers` |
| `Timespec`, `Trig` | time arithmetic and the passive trigger | `MCTriggers` |
| `ScanDriver` | the driver of the laser scanner and its thread | `MCScanDriver` |
| `WebServer` | `webif` and the threads of mongoose | `MCWebServer` |
| `Mol`, `FmpcSolver`, `Fmpc` | matrix kernels, Newton step, bounds of the controller | `MCPathFinding` |

A module `MC...` gives the constants their values; it extends the modules of one part and
instantiates the others. Several of them hold machines that never meet: a
variable `part` says which of them a behaviour runs, and the others stay in their initial states.
Modules `...Proofs` hold the theorems.

### `Ptrig`: life cycle, node clean-up and the trigger thread

Actors: the *main thread* (the application, then `ubx_node_cleanup`) and one thread per trigger.

| Variable | In the code |
|---|---|
| `order`, `block_state` | `ni->blocks` in iteration order; `b->block_state` |
| `phase`, `pos` | the pass of `ubx_node_cleanup` and its `HASH_ITER` cursor |
| `call` | the life-cycle call the main thread is in, and how far |
| `private_data`, `inf_state`, `tstats`, `p_tstats` | `struct ptrig_inf`: allocated, `state`, statistics initialised, port cached |
| `pc`, `idx`, `cancelled` | the thread: place in `thread_startup`, position in `trig_blocks`, pending cancellation |
| `late` | history: rounds begun since `inf->state` left ACTIVE (counted up to 2) |

A critical section is one action. A hook is at least two actions (entry, and the return with which
`block_state` is written) and so is a step hook, because other threads run meanwhile:
`ptrig_init` is `PtrigInit` (up to `pthread_create`) and `PtrigInitTstats`; `ptrig_start` is
`PtrigStart` (to the unlock) and `PtrigStartPort`; `ptrig_cleanup` is `PtrigCancel` and `PtrigJoin`.
The thread may wake spuriously, lose its clock (`TimeFails`), and is cancelled in
`pthread_cond_wait`, in `clock_nanosleep` or in a step that does I/O. Reading a block that was
freed may yield anything, so `BeginStep` is possible for it; that this never happens is
`NoStepAfterFree`. `uthash` iterates in insertion order, hence the sequence `order`.
`trig_blocks` is the list of steps of one round, with `num_steps` unrolled.

Not in it: calls that the state check refuses (they change nothing), `ubx_block_rm` called by the
application, a second thread that makes life-cycle calls (`webif`), blocks without a step hook.

### `YoubotBase`: the base of the youBot driver

One action per hook and per outcome of a cycle. `ProcUpdate` is the whole of `base_proc_update`:
the error flags (`ModeAfterErrflg`), the mode (`Unconfigured`, `KeepMode`, `SetMode`), the switch
(`Idling`, `NewSetPoint`, `Resting`, `Holding`), the copy to the image (`Output`). `LostCycle` is a
step whose receive fails. Hooks and steps do not overlap here (that they may is the subject of
`Ptrig`), so each is atomic.

* A port delivers any command or none in each cycle, so commands that waited in a buffer, that
  were lost and that came late are all included. Velocities read as wheel speeds and as a twist
  differ only in priority and are one case.
* A set point is a value per wheel, abstracted to "zero" or its unit (rpm or mA).
* A `timespec` is a record of seconds and ticks, because the watchdog compares only seconds.
* `outputs` is the EtherCAT image; it survives stop and start, as in the code.
* `heard` and `computed` are history variables: when a command was last read, independent of
  `last_cmd`, and when the image was last computed.

Not in it: a failing `clock_gettime(CLOCK_MONOTONIC)` (no documented way to fail with valid
arguments), odometry, statistics, and the mailbox traffic whose result is only logged.

### `YoubotArm`: an arm of the youBot driver

`ProcUpdate` is the whole of `arm_proc_update`: the error flags (`ProcErrflg`), then one of
`Unconfigured`, `Calibrate`, `EndCalibration` and `Operate`, each with the switch over the mode and
the copy to the image (`Output`, which scales every set point with `ScaleDown`). `Calibrate` covers
a request in the same cycle, whatever phase an earlier one was in; `MoveToLimits` and `ReachLimits`
are the two results of `arm_move_to_lim`. Hooks and ports are as in `YoubotBase`.

* A set point is a number with its unit; 0 has no unit. Positions are in percent of the limit on
  that side, so all joints share the limits; values are integers and the division rounds to zero,
  as the conversion from `double` does.
* `contact` is a history variable: the joints that drew the current of a blocked motor and were not
  driven since.

Not in it: the echo of the mode, the gripper, measurement output, values that
leave 32 bits, and the ports of a second arm, which `youbot_start` never caches.

### `CyclicBuffer` and `DropOldest`: the lock-free interaction

`DropOldest` is what a cyclic buffer promises: a bounded queue that loses only its oldest message,
and only to a writer that found no free slot. `CyclicBuffer` is `cyclic_write` and `cyclic_read` of
any number of threads, down to the operations of liblfds on the ring buffer's free list (`free`),
its queue (`queue`) and the free list of queue elements (`qfree`). It implements `DropOldest`
(`ImplementsDropOldest`).

An operation of the library takes effect with its successful compare-and-swap, which is one action;
all that happens between two of them is an action of its own, so other threads may run there:
popping an element, finding the free list empty, taking the oldest message away (`Steal`), returning
its queue element (`Recycle`), the load and the store of `overruns++`, filling, taking a queue
element (`Put`) and linking (`Link`, `LinkTorn`). Why one action is enough for the compare-and-swap
loops (counters against reuse, the helping of a lagging `enqueue` pointer) is the subject of
`LfdsFreelist`, where it is proved for any threads, and of `LfdsQueue`, where it is proved for one
writer and any readers. The free lists are stacks, but no step depends on which element is on top.

With several writers the queue is none (`queue_torn`, section 4), and `LinkTorn` is what happens
then. A writer reads pointer and counter of the `next` of the last queue element one after the
other. If another writer links there between the two, the pair read (NULL and the new counter) was
never there, and passes the test. The compare-and-swap succeeds later, when the element has left the
queue and a writer that took it again has set the pointer of its `next` but not yet the counter; it
then links behind an element that is not in the queue. `near[w]` is where the queue element may be
that writer `w` took for the last one: in the queue (before an element of the ring buffer), in the
free list, or with a writer. `hung[u]` are the elements that hang behind the one writer `u` is
preparing; they come into the queue with it (`Behind`). So a message whose write has ended may be
out of reach for a while, and the next message of its writer may come before it: `DropOldest` has
`HoldUp` and `late` for that, and promises no order among several writers. With one writer there is
no `HoldUp` and it is a queue.

Not in it: rejected messages, reads of an empty buffer (they change nothing), the output of the
port `overruns`, and `cyclic_cleanup`, which nothing coordinates with readers and writers.

### `LfdsFreelist` and `LfdsQueue`: the compare-and-swap loops of liblfds

Both model liblfds word by word: reading or writing one word is an action, and so is a
compare-and-swap. `LfdsFreelist` is the stack below both free lists of a ring, for any set of
threads (`Users`); `loc` says which word a thread reads or writes next. `PopAgain` and `PushAgain`
are failed compare-and-swaps, whose loops reread. `stack` is a history variable: the elements in the
order in which they were pushed and not popped yet; `ListIsStack` compares the linked list with it.
`LfdsQueue` is the linked queue with its dummy: reading the four pairs of pointer and counter, the
test that they belong together (`TestEnqueue`, `TestDequeue`), linking, the help for a lagging
`qs->enqueue`, and taking. `content` and `due` are history variables: what was enqueued, and what a
dequeue has to return.

Memory is sequentially consistent and the counters do not wrap.

### `Mqueue`: one queue of the operating system, two nodes

The processes of the writer and the reader each have an `mqueue` block with the same `mq_name`.
`InitBlock` is `mqueue_init` (`mq_open` with `O_CREAT`: the attributes count only when the queue is
created), `CleanupBlock` is `mqueue_cleanup` (close and *unlink*), `ProcessDies` closes the
descriptors of a process and runs no hook. A queue without a name lives on while it is open. The
number of clean-ups is counted, because `SameQueue` and `Survives` hold only without one (section 4).

### `Node`: registries and modules

`types` and `blocks` are the tables of the node; an entry is represented by the module whose library
it points into, so it dangles when that library is closed. Loading is one action per call that the
module's init function makes: it registers its items one by one, and the registration of a block
resolves the types of its ports and configs. A failing init closes the library and leaves what it
registered. `careful`, which each behaviour chooses at its start, says whether modules are loaded
only when what they need is there and unloaded only when nobody uses them; `NoDangling` is for that
case, `DanglingOnlyAfterFailure` for any order. `twin` is a module that registers a type somebody else has.

### `PortOps`, `Ports`, `PortInterface`: ports

`PortOps` are pure operators for NULL terminated arrays: adding, removing by moving the last element
into the gap, looking up. `Ports` is a block with its ports: adding and removing them, connecting
and disconnecting, `conn_uni`, `port_clone_conn`, `__port_read`, `__port_write` and the timed read
of the scripts; `held` are the pointers that a start hook cached. `ubx_port_add` and `ubx_port_rm`
check no state, and a block may call them in its step (`tests/test_dyn_block_if.lua` 63-90 does);
`added` and `shifted` remember the names added, and those removed or moved, since the block was
started. Results are unsigned (`Modulus`, 16 in place of 2^32). `PortInterface` promises that a port has a bag of interactions,
which each operation changes for the named port only; `Ports` implements it although array elements
move. `FewPorts` of `MCNode` keeps the instances small, `PortsSpec` has no such restriction.

### `FileLogger`: a block that makes blocks

The hooks go through the entries of `report_conf` one by one, while other blocks write. `InitBegin`
... `InitEnd` is the init hook: `ReportIBlock` and `ReportPort` add a port, look it up and connect it,
`RefuseInPort` and `InitFails` are its ways to fail (`broken` remembers that one did, because what
was made stays and a later init finds it by name), and the port pointers are fetched at the end
(`PortPointers`). `LogEntry` reads and logs one column. The cleanup hook is three actions per entry
(`Disconnect`, `RemovePort`, `Unload`); it frees interactions while `ubx_node_cleanup` goes through the
list of blocks that they are in (`pass`, `cur`, `nxt`: the pass, and the cursor and saved successor of
`HASH_ITER`). `todo` are the entries init has not reached, `rconf` those it has, `at` is where step or
cleanup is. A sample is its source and number, so `LogFresh` and `LogMonotone` can say what a column
shows. `NodeParts` puts `Node`, `Ports`, `FileLogger` and
`Launch` side by side.

### `Launch`: `system.launch`

A model is a tree of systems with blocks, configurations and connections (`IsTree`: a table has one
`_parent`, and includes end). `stack` holds the activations of `__launch`, each with its system, its
phase and its position there: resolve references, launch the included systems one after the other,
configure, connect. For one entry of the configurations, `Configure` applies what the system itself
says of the block; then `walker` goes through the super-systems, where `WalkEntry` looks at one of
their entries and `WalkUp` follows the next `_parent`; `InitBlock` calls the init hook. `value` is the
system whose configuration a config has. Two ghosts: `inited`, the system that initialised a block,
and `finished`, the systems whose activation has returned. `OutermostWins` counts of the initialising
system only its first entry for the block, since later ones find the block initialised.

### `PathFinding` and `ShortestRoute`, `KMeans`, `Planner`: planning

`PathFinding` has one action per turn of the loops of Dijkstra's algorithm: taking the nearest node
from the set, relaxing one edge, following `previous[]` back from the goal. `Optimal` compares its
result with every route; `ShortestRoute` is the step as a function. `KMeans` has one action per loop
over the points: seeding one center of `kpp_s`, assigning, moving the centers, assigning again. Groups
and centers outlive the step, and the number of clusters is read before each scan, so a step may
meet what one for more clusters left. A center is a sum and a count, so that means are exact and 0/0
(NaN, nearer than nothing) is count 0. `Planner` is the traffic of
the pipeline: which step of `waypoints_gen` (`gen`) a cost table and the way points come from,
through one buffer of `Size` per port, with starts and stops of blocks by `webif` meanwhile. A
script (`Scripts`) says which blocks each trigger steps, in which order main starts everything and
what `webif` may stop; `lost` remembers the buffers that a block wrote to before main had started
them.

### `Timespec` and `Trig`

`Timespec` is the arithmetic of `struct ubx_timespec` with `NSEC_PER_SEC` a parameter. `Trig` is the
passive trigger: a round is one action per block, and its statistics use that arithmetic. It keeps
a pointer to the configured list; when `data_set` of `lua/ubx.lua` moves the list, the pointer
dangles (`conf`, with the number of the buffer for its address).

### `ScanDriver`: the scanner's driver and its thread

A client connects, starts and stops scans and grabs data; the thread `_cacheScanData` waits for
samples with a timeout, collects them (`AddSample`, one whole loop over the samples read) and
publishes a scan under `_lock`. What a timeout leaves in `local_buf` is processed again, as in the
code; `stalls` says whether the device may fall silent, and only then are scans mixed
(`WholeScans` and `GrabsAdvance` are for devices that do not).

### `WebServer`: `webif` and the threads of mongoose

The application starts and stops the block, the master accepts connections and puts them into the
ring `sq`, workers take them. A critical section is one action, but a worker that found the ring
empty may be overtaken before it waits, because `mg_stop` sets `stop_flag` without the lock. A page
runs on the one Lua state that all workers share, under `inf->mutex` (`LockLua`, `UnlockLua`);
`reply` remembers what every client got, `luaStack` what earlier pages left on the stack of that
state. A page that stops the block keeps the mutex for good. `/reload` (`HandleReload`) closes the
Lua state and calls `init_lua`, which makes a new state with an empty stack and initialises
`inf->mutex` again while its worker holds it: from then on another worker may lock it, and the
unlock (`ReloadEnd`) frees it whoever holds it. `shared` remembers that two workers met in one Lua
state, after which a page may answer anything; `spoilt` are the requests that this, or a handler
that failed, may have cost their page. With the one worker of `webif` (`MONGOOSE_NR_THREADS`,
"don't change") nobody is there to come in (`OneWorkerUnshared`, proved).

### `Mol`, `FmpcSolver`, `Fmpc`: the predictive controller

`Mol` are the matrix kernels in exact arithmetic, over the field with 43² elements in place of the
floating-point numbers (every element of the prime field has a root there, and algebra that holds
for real numbers holds in it). `FmpcSolver` is the Newton iteration built from them: residuals,
blocks of the Schur complement, factorisation and substitution. `Fmpc` is what needs an order: how a
step turns an obstacle into bounds, the search for a point between the bounds, and the loop that
shortens a step until it stays there.

## 3. Runs

| Run | Instance | Shows |
|---|---|---|
| `triggers` | two triggers, one block, lists `<<b1>>` and `<<b1, b1>>`; a passive trigger with a clock to 8 and a second of 3 ticks; the pipeline, started in the order of the scripts, under one trigger (5 scans, 5 plans, 2 stops) and under two (3, 4, 1); 2 scans, 1 plan and no stop where a write was lost | `NoStepAfterFree`, `TeardownInOrder`, `AtMostOneLateRound`, `TriggerRight`, `PlansRight` |
| `arm` | two joints, positions -90, 0 and 82 percent, commands -10 and 10; one position and set point for the calibration | `ReferenceAtLimits`, `SoftLimits`, `ErrorStops`, `EveryCalibrationEnds` |
| `base` | two wheels, `BASE_TIMEOUT` 2, two ticks a second, clock to 4 s | `WatchdogStops`, `WatchdogPatient`, `NoRestart`, `I2tStops` |
| `cyclic_buffer` | the ring (torn links included): 2 writers with 2 writes each, 2 readers, 2 elements; the free list: 3 threads, 2 elements, a pop each; the queue: 1 writer, 1 reader, 3 elements, 3 operations each; `mqueue`: messages of length 1 or 2, 3 queues, 4 messages, 1 clean-up, 2 crashes, or 5 messages and 3 crashes | `Conservation`, `LossNoticed`, `FreelistRight`, `QueueRight`, `MqueueSafe`, `ImplementsDropOldest`, `BuffersProgress` |
| `node` | four modules, two types, two prototypes, two instances (one where modules come in any order); three ports with cached pointers, added and removed while the block runs too; two ports and two interactions; a logger of two blocks that write until the clean-up of the node, two orders of creation, four values of `report_conf` (two of which fail), 2 samples each and in a buffer; `system.launch` of trees of three systems | `NoDangling`, `CleanAtEnd`, `StartUpSafe`, `HeldPortsRight`, `LoggerSafe`, `ImplementsInterface`, `SamplesRight` |
| `path_finding` | four nodes with weights infinite, 0, 1 and 3, and tables with cycles; two scans of 4 points on 3 places with 2 clusters and then 1 or 2, and one scan on 4 places with 3 clusters; the controller with a horizon of 3; 10 problems of 2 states, 2 inputs and 3 rows | `Optimal`, `PathIsDriven`, `KMeansSafe`, `NewtonRight`, `ImplementsShortestRoute`, `StepsEnd`, `ControllerRight` |
| `scan` | 3 scans of up to 3 samples, reads of 2, a cache of 3, a client's buffer of 2; 2 scans of 2 samples when the device stalls | `ScanSafe`, `ThreadsAndGrabs` |
| `webif` | one worker (`MONGOOSE_NR_THREADS`), 4 connections (pages, pages that fail or stop the block, `/reload`), a ring of 2, 2 starts; one trigger, list `<<b1, b2>>` | `ServerSafe`, `Answered`, `ServedAndStopped`, `NodeProgress` |
| `ptrig_teardown` | one trigger, two blocks | counterexample: clean-up of a block during its step |
| `base_start` | as `base` | counterexample: `youbot_start` sends an old set point |
| `queue_torn` | two writers, three elements, three operations | counterexample: a queue that loses its order |
| `fmpc_endless` | the controller of `fmpc_c` | counterexample: a step that never ends |

*Bounds.* Two triggers that share a block cover each pair of actors (main and thread, thread and
thread, block created before and after its trigger); a list of two entries is the shortest in which
a round can be interrupted between two steps. Nothing else in `Ptrig` is bounded: blocks may be
created, cycled through their states and torn down in any order and any number of times, and `late`
saturates at 2, above which the property is violated anyway. Two wheels distinguish "all wheels"
from "some wheel"; two ticks a second distinguish comparing seconds from comparing times; four
seconds (`MaxSec`, the guard of `Tick`) hold two timeouts in a row. The three positions of the arm
lie past the range, between the ranges and inside one, where scaling reverses, leaves and shrinks a
command; two joints may reach their limits in either order or together. Four messages through two
elements let each writer overwrite while the other does and every thread hold an element; a link is
torn behind the other writer's element, which takes a reader in between. (To see two messages of one
writer change places takes a ring of three, so `InOrder` is proved for one writer, not run.) Three
threads on a free list of two elements are the smallest case of reuse (ABA): two of them move the
elements while the third is interrupted. Three operations of a writer and a reader recycle every
queue element. Two generations of length and two crashes meet every combination of an old queue with
new blocks. The four modules are a type library, a prototype, a block that needs both and a module
that repeats a type. Three ports are the fewest whose array moves an element that is neither first
nor last. Four path nodes allow a detour that is cheaper than either shorter path. A ring of two and
four connections wrap and fill. Two samples per read and three per scan let a scan begin and end
inside a read. The larger bounds that were tried while a property was developed showed nothing
else; the theorems of section 5 use no bounds.

*Fairness.* In `Ptrig`, `WF(MainStep)`: a hook that was entered returns, and `ubx_node_cleanup` is
carried on once called; nothing forces the application to make a call; and `WF(ThreadStep(t))`: the
scheduler runs every thread, sleeps end, a pending cancellation takes effect at the next
cancellation point. Spurious wake-ups, clock failures and cancellation inside a step may never
happen. In `CyclicBuffer` a thread that is inside a call goes on with it; nobody has to begin one.
With `SCHED_FIFO`, which `ptrig` allows, a spinning writer can starve the thread it waits for on a
single processor: `WriteEnds` is for schedulers that run every thread. In `Mqueue` the reader is
initialised again after a crash and goes on reading. In `YoubotArm` cycles go on, and a joint that a
calibration drives meets its limit: that is the plant, not the code. `PathFinding`, `KMeans` and
`Fmpc` are a single call that goes on (a step of `fmpc_solver` that is small enough is accepted, as
`z` then does not change). In `ScanDriver` the thread runs and a client inside an operation returns.
In `WebServer` the master and the workers run and `mg_stop`, which polls, returns when it may. That
is enough for one worker, which never waits for `inf->mutex`; with several, one that sleeps on the
mutex when `/reload` initialises it again may never be woken, and nothing is claimed. No strong fairness is assumed.

*Deadlock.* `CHECK_DEADLOCK FALSE` is set where a behaviour really ends: after the clean-up of a
node, when all messages are written and read, when a launch is over, when a search has answered,
or at the last tick of a bounded clock. Progress is what the liveness properties are for.

*Symmetry.* `Wheels` in `base`; ports, names and interactions in `node`. Both have no liveness
property. The other runs use none.

## 4. Where code and documents disagree

Four runs end with a counterexample, each listed with the quoted line under `findings`:

* `ptrig_teardown`: `ubx_node_cleanup` may call the `cleanup` hook of a block while a trigger is in
  its `step` hook. `ptrig_stop` does not wait for the round, and only triggers that were created
  *before* the block are joined before the block is cleaned up (`TeardownInOrder` says what holds).
  The scripts create the trigger last.
* `base_start`: `youbot_start` resets `cmd_val` but then sends the process data of the last cycle
  before the stop, mode and value included.
* `queue_torn`: with two writers, `lfds611_queue_enqueue` can read a pointer and a counter that never
  belonged together, and then link behind an element that is not in the queue: the message cannot be
  read until another writer links that element. With one writer, as in the scripts, the queue is
  right (`QueueRight`, `InOrder`, proved for any number of readers); with several `CyclicBuffer` has
  the torn link, and `ImplementsDropOldest`, `NewestKept` and `Conservation` say what remains.
* `fmpc_endless`: bounds that an earlier step of `fmpc_c` left can cross those of a later one, and
  the loop that shortens a step then has no end. `ControllerRight` says when a step ends, and that
  `fmpc_c2` guards against it.

What else the modules show. Where the last column names an operator that a document or comment
promises (its comment quotes it), the module's `Next` violates it; no run checks these.

| Code | What it does | In the model |
|---|---|---|
| `youbot_driver.c` 717 | a mode that is not supported is echoed as if it were set; `base_set_control_mode` of the scripts returns true | `EchoedModeSet` (`YoubotBase`) |
| `youbot_driver.c` 1007 | an I2T error during a calibration is reported as a motor stop, but `arm_move_to_lim` sets VELOCITY again in the same cycle | `I2tStops` (`YoubotArm`); `ErrorStops` is what holds |
| `youbot_driver.c` 913 | the factor of `scale_down_cmd_val` is negative past the range and has no bound: the joint is driven back, the faster the further out; never further out (`SoftLimits`) | `ScaledDown` (`YoubotArm`) |
| `lfds611_queue_queue.c` 75 | messages of one of several writers may be read in another order than that of their writes | `InOrder` (`CyclicBuffer`) with two writers and `Size` 3 |
| `lfds_cyclic.c` 170 | `overruns` with several writers can be too small; `LossNoticed` is what remains true of it | `OverrunsCounted` (`CyclicBuffer`) |
| `ubx.c` 1959, `mqueue.c` | a negative result of a read hook becomes a large positive one, ends the search over the interactions and counts as data | `TimedReadHasData` (`Ports`) |
| `ubx.lua` 1209 | the finaliser of `port_clone_conn` frees the port and leaves the interactions connected | `CollectedInteractionGone` (`Ports`) |
| `ubx.c` 1654, 1724 | a block that changes its ports in its step may be left with cached pointers into an array that was moved, and after a removal with one that designates another port or none; `HeldPortsRight` says which pointers stay right | `PointerRight` without `added` and `shifted` (`Ports`) |
| `ubx.c` 1664 | `ubx_port_add` sets the block of a port and then clears the port | `PortBlockSet` (`Ports`) |
| `file_logger.lua` 109 | an init that fails half way leaves what it made, and a later one meets it: what is said of columns and ports holds until then (`broken`) | `InitFails` in `FileLogger` |
| `ubx.c` 272 | `HASH_ITER` saves the successor, which the cleanup hook of a logger may free when the logger is last but for its own interactions; `NoFreedVisit` holds if another block was created after it (`LoggerFollowed`) | `Advance` in `FileLogger` |
| `ubx.c` 160 | a module whose init fails is closed, what it registered stays (`DanglingOnlyAfterFailure`) | `NoDangling` when `careful` is false (`Node`) |
| `ubx.c` 446 | a module that was refused a type removes the other module's type when it is unloaded | `OwnTypesOnly` (`Node`) |
| `ubx.c` 1076 | `ubx_block_create` returns the block it has just freed when registering fails | `CreateReturnsLive` (`Node`) |
| `rplidar_driver.cpp` 275 | after a timeout the samples of the read before are processed again and mixed into a scan | `WholeScans` without `~ stalls` (`ScanDriver`) |
| `rplidar_driver.cpp` 313 | a scan published between the event and the lock is taken but leaves the event set, and the next grab reports a timeout with `count` the size of the buffer | `TimeoutIsEmpty` (`ScanDriver`) |
| `rplidar_driver.cpp` 106 | `disconnect` leaves `_isConnected` set | `ConnectedIsOpen` (`ScanDriver`) |
| `thread.hpp` 135 | a thread that was joined is joined again by the next call | `JoinedOnce` (`ScanDriver`) |
| `path_finding.cpp` 240 | the array for the path is allocated for the path that is still empty | `PathFits` (`PathFinding`) |
| `collision_avoidance.lua` 149 | the trigger is started before the buffers: way points and cost tables can be paired wrongly for good, but only if a block wrote to a buffer before its start (`lost`) | `Paired` without the condition on `lost` (`Planner`); `NothingLost` for buffers that are started first |
| `mqueue.c` 140 | a clean-up of either node unlinks the queue the other still uses; both then talk past each other | `SameQueue` after a clean-up (`Mqueue`) |
| `mqueue.c` 114 | a queue that exists keeps its message length, whatever `data_len` says | `Configured` (`Mqueue`) |
| `webif.c`, `mongoose.c` | `mg_stop` sets `stop_flag` without the lock: a worker between its test and its wait misses the signal, and `mg_stop` waits for ever if nothing else wakes it | `AlwaysStops` (`WebServer`); `ServedAndStopped` is what holds |
| `webif.c` 83 | `/reload` initialises `inf->mutex` while its worker holds it; with more than the one worker of `webif` a second one could enter the Lua state | `shared` in `WebServer` |
| `webif.c` | a page that stops the block itself waits for the worker it runs on | `AlwaysStops` with `"stop"` in `Requests` |
| `lfds611_queue_new.c` | `lfds611_queue_new` uses `aba_counter` before it is set | `Garbage` in `LfdsQueue`; harmless |
| `fmpc.cpp` 538-554 | the obstacle's `x` enters the bounds with the wrong sign; the bounds of row 0 are never freed | `UpperSide`, `LowerSide`, `Bounds` |
| `fmpc_c2/fmpc.cpp` 397-402 | the reset of the bounds indexes two arrays by row, past their end | `Garbage`, `ResetRows` in `Fmpc` |

Facts found while reading that no module has: `ubx_ts_div` computes the nanoseconds from the
seconds (`ubx.c` 2180, no caller); `ubx_port_connect_in` follows a NULL port (1239);
`blockdiagram.lua` does not use the result of `block_init` (287) and never applies a configuration
string (230, against the comment at 226); `rplidar_udp.cpp` 156 writes through NULL when memory is
exhausted; `fifo_read` of `simple_fifo` computes a size of 0; in the controllers, the odometry port
is read twice per step and several messages are used uninitialised when nothing was read, and
`fmpc_functions.cpp` 268-300 factors the weights as upper and uses them as lower triangles, which
agrees only for diagonal weights such as the shipped ones.

## 5. Proofs

Each proof module holds the theorems of one part; `theorems` in `PROJECT.json` lists the results.
All of them are for any value of the constants that satisfies the named assumptions, without the
bounds of section 3.

| Module | Proves | From |
|---|---|---|
| `TriggerProofs` | `NoStepAfterFree`, `TeardownInOrder`, `AtMostOneLateRound`, `TriggerRight`, `PlansRight` | `Ptrig`, `Trig`, `Timespec`, `Planner` |
| `YoubotBaseProofs` | `WatchdogStops`, `WatchdogPatient`, `NoRestart`, `I2tStops` | `YoubotBase` |
| `YoubotArmProofs` | `ReferenceAtLimits`, `SoftLimits`, `ErrorStops` | `YoubotArm` |
| `BufferProofs` | `Conservation`, `LossNoticed`, `ImplementsDropOldest`, `FreelistRight`, `QueueRight`, `MqueueSafe` | `CyclicBuffer`, `LfdsFreelist`, `LfdsQueue`, `Mqueue` |
| `NodeProofs` | `NoDangling`, `CleanAtEnd`, `HeldPortsRight`, `ImplementsInterface`, `LoggerSafe`, `SamplesRight`, `StartUpSafe` | `NodeParts`: `Node`, `Ports`, `FileLogger`, `Launch` |
| `PathFindingProofs` | `Optimal`, `PathIsDriven`, `ImplementsShortestRoute`, `KMeansSafe` | `PathFinding`, `ShortestRoute`, `KMeans` |
| `ScanDriverProofs` | `ScanSafe`, `OneThread`, `GrabsAdvance` | `ScanDriver` |
| `WebServerProofs` | `ServerSafe`, `Answered` | `WebServer` |

**Triggers.** For every set of triggers and blocks and every `trig_blocks`, from `BlocksAssumption`
(no trigger is a computation block) and `TrigBlocksAssumption` (lists of blocks). None of the
properties is inductive alone. `IInv` has four parts, each proved by a lemma of its own in this
order:

1. `CallInv`: the call in progress is in the block state that it requires; an unregistered block is
   PREINIT.
2. `PassInv`: blocks before the cursor are past the current pass, the call belongs to the block just
   visited, and in the rm pass everything is PREINIT and no call runs. It also justifies that
   `RmBlock` has no branch for a block that is refused.
3. `ThreadInv`: a thread exists exactly between `pthread_create` and `pthread_join`, inside the
   life of its data, and `inf->state` is ACTIVE only while the block is.
4. `RoundInv`: what a thread that is admitted to a round, or may still be, can rely on.

`NoStepAfterFree` needs all four: the rm pass starts with every block PREINIT (2), so no thread
exists (3), so no round runs (4). For the passive trigger, the arithmetic of `Timespec` comes first
(normal times stay normal, subtraction and comparison agree with the numbers they stand for,
`time.normalize` of Lua included), then that minimum, maximum and total of the statistics are those
of the rounds, and that the list in use is the live one.

**The pipeline.** For every set of scripts and every length of the buffers, from `ScriptsAssumption`
(each trigger steps one of the lists of the scripts, no block has two triggers, every buffer is
started and nobody stops one) and `SizeAssumption`. `PlanInv` has a part for each property and one
for the starts:

1. `StartedInv`: what main has started of the buffers is ACTIVE.
2. `PairInv`: two buffers between the same two blocks are equal but for what the writer has sent to
   one of them only and the reader has taken from one of them only; where each of the two is decides
   which (`InStep`). `Away` is why one trigger's operations do not disturb another one's pair.
3. `OrderInv`: the numbers of the plans along the pipeline never fall (`InChain`), Junk excepted.
   Each read, write and step has a lemma that it keeps the chain.
4. `RecentInv`: how old each sample may be, by the place of the trigger and the number of rounds since
   the last disturbance (`GenAt`, `ScanAt`). While that number grows, the newest samples of every
   buffer are known to be recent, one more each round, until no old ones are left: that is why
   `Settled` has to reach `Size`, and twice `Size - 1`.

**The base.** For every set of wheels, timeout and clock resolution: type correctness, `IInv`
(`ModeInv`: image, mode and unit agree; `FedInv`: while the set point is not zero `last_cmd` is the
time of the last command; `WatchdogStops`), and all the properties of the run. `SwitchInv` says once
what the switch establishes; the three ways through a cycle are its callers. `WholeSeconds` is the
arithmetic of comparing whole seconds.

**The arm.** For every set of joints, positions and commands and every scaling range. `CalibInv`
relates the phases of the calibration to the flags, to `contact` and to the set points
(`ReferenceAtLimits` is not inductive: a joint that reached its limit has to stay there while the
others move); `ModeInv` relates mode, unit and image. `ScaleDownFacts` and `QuotientSign` are the
arithmetic of the soft limits.

**The ring.** For any finite set of threads, any buffer length and any number of calls, from
`ThreadsAssumption` (finitely many threads, none both reads and writes) and `SizeAssumption`:

1. `Conservation`: elements are in one place.
2. `QueueElementsInv`: as many queue elements are unused as ring buffer elements are free or in the
   hands of a thread that is neither returning nor linking one, nor hang behind one. A writer about to enqueue is such a
   thread, hence `PutNeverFails`, on which every other part rests.
3. `LossInv`: the count, and every value loaded to be incremented, stays below the losses that are
   already stored.
4. `NewestKept`: the newest message is at the end of the queue, at the end of what hangs, or was
   taken.
5. `CallInv`, `OrderInv`: if there is one writer (`SingleWriter`), nothing hangs, and whatever a
   reader took, holds or can see of it is in the order of the writes and not younger than the last
   queued.

`LinkFacts` and `TornFacts` say where the elements are after the two ways to link: what hung behind
the linked one stays behind it. The refinement maps each action to one of `DropOldest` or a stutter,
`LinkTorn` to `HoldUp`; `DataStable` and `LateStable` (what a reader can see, now or later, is never
written) are why copying and filling are stutters.

**The free list.** For any set of threads, elements and pops. `ListIsStack`, `OneOwner` and
`EmptyIsTrue` are not inductive: why does a compare-and-swap that finds the expected pair on top
also find the successor that was read long ago? `FreshInv` says that the counter of every pair that
a thread may still put on top is above the counters that were ever there, so a pair that has left
the top never comes back; `PopInv` says that, while the pair a popping thread read is still on top,
what it read behind it is the rest of the stack; `PushInv` says what a pushing thread has prepared.

**The queue.** For any callers, elements and operations, from `OneWriter`: no two threads enqueue
(`queue_torn` shows that it is needed). `ListInv` ties the list to the messages, `PlaceInv` each
element to the list, the free list or one thread. `TailInv` says why `qs->enqueue` is hardly ever
behind: only while the writer is between its compare-and-swap and the next, and then everyone who
tries moves it to the same element. `WriterInv` says that what the writer has read is what is there,
so its compare-and-swap never fails; `ReaderInv` what a reader may conclude *if* `qs->dequeue` has not
moved since, which is all that its compare-and-swap makes sure of. `Ahead` is what a step of one
thread leaves to the readers among the others; with it the other threads need one argument for all
steps, not one for each. `Chain` is a recursive function; `ChainIsList` says, by induction over
positions, that it finds the list that the next pointers make.

**The message queue.** For any lengths and bounds. `QueueInv` relates the name, the descriptors and
the queues; `AgeInv` orders what was read, what is queued and what was written; `CrashInv` says that
without a clean-up the name never goes away once it exists, so a process that comes back meets the
queue it left.

**Modules.** For any modules and items. `NoDangling` needs that whatever is registered belongs to a
loaded module or to the one being loaded, and that a module is unloaded only after those that use
its types; `CleanAtEnd` that what a module
has registered is still there when it is unloaded (`OwnedInv`, `LiveInv`). Without care,
`DanglingOnlyAfterFailure` rests on `LeftInv`: whatever is registered is an item of a module that is
open and still has to unregister it, or of one whose init failed.

**Launch.** For any tree of systems, any configurations, connections and broken blocks, from
`ModelsAssumption`. `AroundIs` shows that the recursive function `Around` exists: it is the least set
of super-systems closed under parents, and `IsTree` (every set of systems has one that no other of
them includes) takes the place of induction on depth. `LaunchInv` has these parts:

1. `StackInv`: the activations are a path up to the outermost system, and each is in its phase
   `include`, just past the one on top of it.
2. `ProgressInv`: what an activation has done by its phase and position: which of its included systems
   have returned, which of its entries found their block initialised or initialised it, and which
   of its connections exist; `FinishedInv` the same of those that have returned.
3. `WalkInv`: the value of every config is that of the outermost system heard so far (`Heard`: the
   systems that the walk has left behind and the entries it has passed), and the current `walker` is
   around all of those. At the end of the walk this is `OutermostWins` for the block that is
   initialised now; a block that was initialised earlier is not touched again.
4. `ResultInv`: a launch aborts only when the model is incomplete. When a system makes its connections,
   what is inside it and what was launched before it has been configured
   (`ConfiguredWhenConnecting`, from `InsideFinished` and `PrecedingFinished`), so that in a complete
   model both ends have their ports.

**Ports.** For any identities, names, interactions and bounds, from `PortNullAssumption` (NULL is no
array, port or cached pointer), `PortBoundsAssumption` and `FaultyAssumption`. `HeldPortsRight`,
which is claimed while ports are added to and removed from a running block too (`added` and
`shifted` say what that may cost), is inductive together with `PortShape` (no two ports share a
structure), which each operation on the arrays has to keep: `MovedLast` says what moving the last
element does, `Updated` what an operation that only changes the arrays of ports leaves alone,
`CachedKept` that it leaves the cached pointers right. For the refinement, `OccurrencesAdd` and
`OccurrencesRm` say that adding and removing change one count by one, although `LastMatch` and the
moved element may be any; because structures are not shared, replacing ports in the block is
replacing their counts in `PortInterface` (`ReplacedCounts`), and there is one lemma per operation.
`SamplesRight` is proved for interactions whose read hooks do not fail (`Faulty = {}`): section 4
shows what a hook that fails does.

**The logger.** For any sources, configurations, orders of creation and buffer lengths, from
`LogNamesAssumption` (the blocks are different), `OrdersAssumption` (an order has every block once),
`ConfsAssumption` and `LogBoundsAssumption`. `LogInv` says for every entry how far each hook has come
with it (`HasPort`, `HasOut`, `HasInter`: its port exists, the source is connected, its interaction
exists):

1. `HookInv`: the state of the block in which each hook runs, and which entries it may meet.
2. `EntryInv`, `ConnInv`: interactions of different entries differ, a source is connected to each
   once and only to interactions that exist; `NoFreedWrite` follows, failed inits or not.
3. `NamedInv`, `OwnPorts`, `OwnInters`: every entry finds a port of its name; without a failed init the
   logger has no other ports, and no interaction or connection is left that is no entry's. So
   `PinvRight`, and `CleanedUp` when the last entry is done.
4. `BufferInv`, `SampleInv`: what is buffered is of the entry's source, after the init and in the order
   of writing, and what was logged is older than what still is in the buffer; hence `LogFresh` and
   `LogMonotone`.
5. `StopInv`, `ListInv`, `VisitInv`: the stop pass leaves nothing active; the list begins with the
   blocks that were there before the logger made any, so the saved successor of a logger that is
   followed by one of them is never one that its hook frees (`FirstBlocksFacts`).

`Kept` says once what each part is about, so that an action needs an argument only for what it
disturbs.

**Path search.** For any number of nodes and any table of costs. The invariant is that of Dijkstra's
algorithm with a queue of distances: a node outside the queue whose distance is finite is final,
entries of the queue are the current distances, `previous` is a tree whose edges add up. `Optimal`
follows with a potential: no route is cheaper, because no edge leads below the distance of its end.
For the refinement, `TreeInv` adds that a predecessor is settled before its successor, so no set of
settled nodes is closed under `previous` (`NoReturn`): the path that is sent never returns to a node
and is no longer than there are nodes. That the lengths of routes are sums, that every route costs at
least the distance of the goal and that the one sent costs just that is induction over positions
(below).

**Clustering.** For any number of points, room for centers and sets of places, from
`ClustersAssumption`. `ClusterInv` says what each loop leaves to the next: the first center is a point
of the scan (`SeedInv`, so there is always a center that is a number), points belong to centers in use
(`GroupInv`), centers are the means of their groups (`MeansInv`), and a loop that ended has every point
at the first of its nearest centers (`EndedInv`). `NearestExists` finds a nearest center, one with the
fewest nearer ones, and needs that `NearerTo`, which multiplies out the counts, is an order;
`MeanIsCenter` unrolls the sums (`UpTo`, `PartialSums`); `SamePlace` (centers of one place are equally
near to every point, so the second of them would have no points) gives `Distinct`.

**The scanner.** The invariant has a part for each of the thread's loops (`ScanTypes`, `PlaceInv`,
`DevInv`, `BufInv`, `LocalInv`), for the life of the thread (`RunInv`) and for the cached scan
(`CacheInv`, `WholeInv`). `Processed` is the lemma about the loop over the samples read: a scan that
has all samples before one has all up to it afterwards. `OverInv` (the cached scan is not older than
the one a client has) gives `GrabsAdvance`.

**The server.** The invariant says which threads live in which phase of the context (`LifeInv`,
`CountInv`: `num_threads` counts them), what a stop has reached (`StopInv`), where each connection is
(`MasterInv`, `WorkerInv`, `RingInv`: queued, taken and accepted are disjoint), and that the Lua
stack is what pages left that failed since the last `/reload` (`AnswerInv`). `Answered` says that no
client is sent another one's page, and that every connection that is closed got its own page or an
error, unless its handler failed or met a Lua state in which one had failed or that two workers had
shared (`spoilt`). `OneWorkerUnshared` says that with one worker none is shared.

*Induction.* Theorems that take an operator as a parameter cannot be instantiated. Where a
recursive function has to be unrolled (`Length` of a route, `Chain`), the proofs use that a set of
numbers has a least element (`LeastElement`, from the well-founded order of the naturals): a set of
counterexamples would have a least one.

Every inductive invariant was first checked by TLC on small instances, for the free list with three
threads and two pops each, for the server with two workers.

*Only model-checked.*

* Liveness (`EveryCalibrationEnds`, `NodeProgress`, `BuffersProgress`, `StepsEnd`, `ControllerRight`,
  `ThreadsAndGrabs`, `ServedAndStopped`): fairness and ENABLED are out of the prover's reach. The
  safety part of `ThreadsAndGrabs` is proved.
* `NewtonRight`: the kernels compute products of matrices as folds over index sets, and that the
  Newton step solves the equations rests on the laws of such products (associativity, the inverse of
  a factorisation) over a field: induction over data, for matrices of any size.

## 6. Plan

Planned modules: the composition of `YoubotBase` with the buffers of its ports and the script that
commands it (set points that outlive a mode change), and `simple_fifo`.

## 7. Not modelled

Parsing of HTTP, JSON and Lua, the transports (`udp_*`, `pat_mux*`), `youbot_kindyn`, odometry, the
Arduino firmware, examples and type definitions. Vendored code (mongoose, liblfds, the scanner's
SDK, uthash) is modelled where the blocks' correctness rests on its control: its threads, locks and
compare-and-swap loops. Exhausted memory, failing `clock_gettime`, wrap-around of the
counters of liblfds, and the memory models of processors that reorder stores are left out everywhere.
Hazards of the code without a property: a trigger whose `clock_nanosleep` fails ends its thread while
everything stays ACTIVE; an application that removes a block that a trigger lists; an EtherCAT cycle
whose receive fails runs no watchdog; arrays of connections that are changed while a trigger goes
through them; and the life-cycle calls of `webif` pages while the main thread makes others.
