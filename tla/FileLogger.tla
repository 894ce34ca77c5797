----------------------------- MODULE FileLogger -----------------------------
(***************************************************************************)
(* The block logging/file_logger (file_logger.c, file_logger.lua), whose   *)
(* init hook adds a port per reported port and connects it through a new   *)
(* interaction, and whose cleanup hook takes all that away again; with the *)
(* node's list of blocks and the clean-up of the node that runs the hook   *)
(* while it goes through this list (ubx_node_cleanup).                     *)
(*                                                                         *)
(* The hooks go through the entries of report_conf one by one, while other *)
(* blocks write their ports. The calls for one entry are one action in     *)
(* init and step and three in cleanup. The hooks of the logger and the     *)
(* clean-up of the node follow one another. A sample is its source and its *)
(* number; the port made for an entry is named after the entry's position. *)
(***************************************************************************)
EXTENDS PortOps

CONSTANTS
  Logger,     \* the logger block
  Sources,    \* blocks with one out port, which they write when stepped
  Inter,      \* an interaction that may be reported
  Pool,       \* identities of the interactions that the logger creates
  Orders,     \* orders in which the other blocks may have been created
  Confs,      \* values of report_conf: sequences of [kind, src]
  BuffLen,    \* buff_len
  MaxWrites   \* bound: samples written by each source

Interactions == Pool \cup {Inter}
Others    == {Logger, Inter} \cup Sources
LogBlocks == Others \cup Pool
Kinds     == {"iblock", "port", "inport", "missing"}
Samples   == [src : Sources, nr : 1 .. MaxWrites]

ASSUME LogNamesAssumption ==
  /\ Logger # Inter /\ Logger \notin Sources /\ Inter \notin Sources
  /\ Pool \cap Others = {}
  /\ NULL \notin LogBlocks /\ NULL \notin Seq(Interactions) /\ NULL \notin Samples
ASSUME OrdersAssumption == \A o \in Orders :
  /\ o \in Seq(Others) /\ Elems(o) = Others
  /\ \A p, q \in DOMAIN o : o[p] = o[q] => p = q
ASSUME ConfsAssumption == Confs \subseteq Seq([kind : Kinds, src : Sources])
ASSUME LogBoundsAssumption == BuffLen \in Nat \ {0} /\ MaxWrites \in Nat

VARIABLES
  order,    \* ni->blocks, in the order of the hash table's list
  state,    \* life-cycle state of each block, "none" if not registered
  lports,   \* ports of the logger: name and interactions
  outs,     \* out_interaction of each source's port
  lbuf,     \* samples in each interaction
  written,  \* number of samples written by each source
  todo,     \* the entries of report_conf that init has not reached
  rconf,    \* those that it has, with the port pointers when it ends
  base,     \* history: written when the logger's last init began
  sample,   \* sample last logged per entry, or NULL
  hook,     \* the hook that is running: init, step, or what cleanup does next
  at,       \* the entry that step or cleanup is at
  broken,   \* history: whether an init could not report an entry
  pass,     \* "run", or what ubx_node_cleanup is doing
  cur, nxt  \* b and btmp of its loop

confVars == <<todo, rconf, base, sample, broken>>
loopVars == <<pass, cur, nxt>>
logVars  == <<order, state, lports, outs, lbuf, written, confVars, hook, at, loopVars>>

LogStates == {"none", "PREINIT", "INACTIVE", "ACTIVE"}
LogPorts  == [name : Nat \ {0}, in_interaction : {NULL} \cup Seq(Interactions)]
Entries   == [kind : Kinds, src : Sources, ib : Interactions \cup {NULL}, pinv : Nat \cup {NULL}]

ListOK ==
  /\ order \in Seq(LogBlocks) /\ Elems(order) = {b \in LogBlocks : state[b] # "none"}
  /\ \A p, q \in DOMAIN order : order[p] = order[q] => p = q
BuffersOK ==
  lbuf \in [Interactions -> Seq(Samples)] /\ \A i \in Interactions : Len(lbuf[i]) <= BuffLen
CountsOK ==
  /\ written \in [Sources -> 0 .. MaxWrites] /\ base \in [Sources -> 0 .. MaxWrites]
EntriesOK ==
  /\ todo \in Seq([kind : Kinds, src : Sources]) /\ rconf \in Seq(Entries)
  /\ sample \in Seq(Samples \cup {NULL})
HooksOK ==
  /\ hook \in {"none", "init", "step", "disconnect", "remove", "unload"}
  /\ at \in Nat \ {0} /\ broken \in BOOLEAN
  /\ pass \in {"run", "stop", "cleanup", "rm", "done"}
  /\ cur \in LogBlocks \cup {NULL} /\ nxt \in LogBlocks \cup {NULL}

(* Every variable holds what the code keeps there, and the list has every  *)
(* registered block once.                                                  *)
LogTypeOK ==
  /\ state \in [LogBlocks -> LogStates] /\ ListOK
  /\ lports \in Seq(LogPorts) /\ outs \in [Sources -> {NULL} \cup Seq(Pool)]
  /\ BuffersOK /\ CountsOK /\ EntriesOK /\ HooksOK

LogInit ==
  /\ order \in Orders
  /\ state = [b \in LogBlocks |-> IF b \in Pool THEN "none"
                                  ELSE IF b = Logger THEN "PREINIT" ELSE "ACTIVE"]
  /\ lports = <<>>
  /\ outs = [b \in Sources |-> NULL]
  /\ lbuf = [i \in Interactions |-> <<>>]
  /\ written = [b \in Sources |-> 0]
  /\ todo = <<>> /\ rconf = <<>> /\ base = written /\ sample = <<>>
  /\ hook = "none" /\ at = 1 /\ broken = FALSE
  /\ pass = "run" /\ cur = NULL /\ nxt = NULL

-----------------------------------------------------------------------------
(***************************************************************************)
(* The init hook: report_conf_to_portlist.                                 *)
(***************************************************************************)
(* Bound: the pool has an interaction for every entry.                     *)
InitBegin(conf) ==
  /\ pass = "run" /\ hook = "none" /\ state[Logger] = "PREINIT"
  /\ Len(conf) <= Cardinality({i \in Pool : state[i] = "none"})
  /\ hook' = "init" /\ todo' = conf /\ rconf' = <<>> /\ base' = written
  /\ UNCHANGED <<order, state, lports, outs, lbuf, written, sample, at, broken, loopVars>>

Reporting(kind) == hook = "init" /\ todo # <<>> /\ Head(todo).kind = kind

(* The entry goes into the list with what was found out about it.          *)
Listed(ib) ==
  /\ todo' = Tail(todo)
  /\ rconf' = Append(rconf, [kind |-> Head(todo).kind, src |-> Head(todo).src,
                             ib |-> ib, pinv |-> NULL])

(* A port is added and, looked up by its name, connected.                  *)
ConnectIn(arr, n, i) == [arr EXCEPT ![Lookup(arr, n)].in_interaction = ArrayBlockAdd(@, i)]
PortFor(i) ==
  LET n == Len(rconf) + 1
  IN  ConnectIn(Append(lports, [name |-> n, in_interaction |-> NULL]), n, i)

(* An interaction is reported by connecting the port to it directly.       *)
ReportIBlock ==
  /\ Reporting("iblock") /\ Listed(Inter)
  /\ lports' = PortFor(Inter)
  /\ UNCHANGED <<order, state, outs, lbuf, written, base, sample, hook, at, broken, loopVars>>

(* An out port through an interaction that conn_lfds_cyclic creates,       *)
(* connects with both ports and starts.                                    *)
ReportPort(i) ==
  /\ Reporting("port") /\ Listed(i)
  /\ state[i] = "none"
  /\ lports' = PortFor(i)
  /\ outs' = [outs EXCEPT ![Head(todo).src] = ArrayBlockAdd(@, i)]
  /\ order' = Append(order, i) /\ state' = [state EXCEPT ![i] = "ACTIVE"]
  /\ UNCHANGED <<lbuf, written, base, sample, hook, at, broken, loopVars>>

(* An in port is refused with a message and stays in the list without a    *)
(* port.                                                                   *)
RefuseInPort ==
  /\ Reporting("inport") /\ Listed(NULL)
  /\ broken' = TRUE
  /\ UNCHANGED <<order, state, lports, outs, lbuf, written, base, sample, hook, at, loopVars>>

Refused == \E k \in DOMAIN rconf : rconf[k].kind = "inport"

(* A block or port that does not exist is an error of block_get or of      *)
(* port_get, and so is the lookup of the port of a refused entry: init     *)
(* fails and the block stays PREINIT, with what was made so far.           *)
InitFails ==
  /\ Reporting("missing") \/ (hook = "init" /\ todo = <<>> /\ Refused)
  /\ hook' = "none" /\ todo' = <<>> /\ rconf' = <<>> /\ broken' = TRUE
  /\ UNCHANGED <<order, state, lports, outs, lbuf, written, base, sample, at, loopVars>>

(* Mutant of PortPointers: fetched as the ports are added, so that each    *)
(* port added later moves the array under them.                            *)
PortPointersEarly == [k \in DOMAIN rconf |->
  [rconf[k] EXCEPT !.pinv = IF k = Len(rconf) THEN Lookup(lports, k) ELSE 0]]

(* The port pointers, fetched after all ports were added.                  *)
PortPointers == [k \in DOMAIN rconf |-> [rconf[k] EXCEPT !.pinv = Lookup(lports, k)]]

InitEnd ==
  /\ hook = "init" /\ todo = <<>> /\ ~ Refused
  /\ rconf' = PortPointers /\ sample' = [k \in DOMAIN rconf |-> NULL]
  /\ state' = [state EXCEPT ![Logger] = "INACTIVE"] /\ hook' = "none"
  /\ UNCHANGED <<order, lports, outs, lbuf, written, todo, base, at, broken, loopVars>>

-----------------------------------------------------------------------------
(***************************************************************************)
(* Start, stop and step, and the samples.                                  *)
(***************************************************************************)
Moves(b, s) ==
  /\ state' = [state EXCEPT ![b] = s]
  /\ UNCHANGED <<order, lports, outs, lbuf, written, confVars, at>>

LoggerStart ==
  /\ pass = "run" /\ hook = "none" /\ state[Logger] = "INACTIVE"
  /\ Moves(Logger, "ACTIVE") /\ UNCHANGED <<hook, loopVars>>

LoggerStop ==
  /\ pass = "run" /\ hook = "none" /\ state[Logger] = "ACTIVE"
  /\ Moves(Logger, "INACTIVE") /\ UNCHANGED <<hook, loopVars>>

(* cyclic_write: the oldest sample makes room. *)
Put(q, x) == IF Len(q) = BuffLen THEN Append(Tail(q), x) ELSE Append(q, x)

NextSample(b) == [src |-> b, nr |-> written[b] + 1]

(* A source writes its port: every active interaction that is connected.   *)
SourceWrite(b) ==
  /\ state[b] = "ACTIVE" /\ written[b] < MaxWrites
  /\ written' = [written EXCEPT ![b] = @ + 1]
  /\ lbuf' = [i \in Interactions |-> IF Connected(outs[b], i) /\ state[i] = "ACTIVE"
                                     THEN Put(lbuf[i], NextSample(b)) ELSE lbuf[i]]
  /\ UNCHANGED <<order, state, lports, outs, confVars, hook, at, loopVars>>

(* Somebody else writes the interaction that is reported directly.         *)
InterWrite(b) ==
  /\ state[b] = "ACTIVE" /\ written[b] < MaxWrites /\ state[Inter] = "ACTIVE"
  /\ written' = [written EXCEPT ![b] = @ + 1]
  /\ lbuf' = [lbuf EXCEPT ![Inter] = Put(@, NextSample(b))]
  /\ UNCHANGED <<order, state, lports, outs, confVars, hook, at, loopVars>>

StepBegin ==
  /\ hook = "none" /\ state[Logger] = "ACTIVE"
  /\ hook' = "step" /\ at' = 1
  /\ UNCHANGED <<order, state, lports, outs, lbuf, written, confVars, loopVars>>

(* The interactions of an entry's port that have a sample to read.         *)
Source(k) == lports[rconf[k].pinv].in_interaction
HasSample(i) == state[i] = "ACTIVE" /\ lbuf[i] # <<>>
Readable(k) == {j \in DOMAIN Source(k) : HasSample(Source(k)[j])}

(* One entry: read the port and log the sample, the old one if nothing was *)
(* read; the test for errors is never true.                                *)
LogEntry ==
  /\ hook = "step" /\ at <= Len(rconf)
  /\ at' = at + 1
  /\ \/ /\ Source(at) = NULL \/ Readable(at) = {}
        /\ UNCHANGED <<lbuf, sample>>
     \/ /\ Source(at) # NULL /\ Readable(at) # {}
        /\ LET i == Source(at)[FirstMatch(Source(at), HasSample)]
           IN  sample' = [sample EXCEPT ![at] = Head(lbuf[i])] /\ lbuf' = [lbuf EXCEPT ![i] = Tail(@)]
  /\ UNCHANGED <<order, state, lports, outs, written, todo, rconf, base, hook, broken, loopVars>>

StepEnd ==
  /\ hook = "step" /\ at > Len(rconf)
  /\ hook' = "none"
  /\ UNCHANGED <<order, state, lports, outs, lbuf, written, confVars, at, loopVars>>

-----------------------------------------------------------------------------
(***************************************************************************)
(* The loops of ubx_node_cleanup and the cleanup hook.                     *)
(***************************************************************************)
Position(o, b) == CHOOSE p \in DOMAIN o : o[p] = b

(* A list without one of its blocks. *)
Unlinked(o, b) ==
  [p \in 1 .. Len(o) - 1 |-> IF p < Position(o, b) THEN o[p] ELSE o[p + 1]]

First(o)   == IF o = <<>> THEN NULL ELSE o[1]
Succ(o, b) == IF b \notin Elems(o) \/ Position(o, b) = Len(o) THEN NULL
              ELSE o[Position(o, b) + 1]

(* The head of a loop: the first block, and the one after it in btmp.      *)
Enter(p) == pass' = p /\ cur' = First(order) /\ nxt' = Succ(order, First(order))

(* HASH_ITER goes on with the block that btmp was set to before the body.  *)
Advance == cur' = nxt /\ nxt' = Succ(order', nxt) /\ UNCHANGED pass

(* The cleanup hook begins with the first entry.                           *)
CleanBegin ==
  /\ hook' = "disconnect" /\ at' = 1
  /\ UNCHANGED <<order, state, lports, outs, lbuf, written, confVars, loopVars>>

LoggerCleanup ==
  /\ pass = "run" /\ hook = "none" /\ state[Logger] = "INACTIVE"
  /\ CleanBegin

(* Disconnect the reported port from the interaction made for it.          *)
Disconnect ==
  /\ hook = "disconnect" /\ at <= Len(rconf)
  /\ outs' = IF rconf[at].kind = "port"
             THEN [outs EXCEPT ![rconf[at].src] = ArrayBlockRm(@, rconf[at].ib)] ELSE outs
  /\ hook' = "remove"
  /\ UNCHANGED <<order, state, lports, lbuf, written, confVars, at, loopVars>>

(* Disconnect the local port and remove it.                                *)
RemovePort ==
  /\ hook = "remove"
  /\ lports' = MoveLastInto(lports, Lookup(lports, at))
  /\ \/ rconf[at].kind = "port" /\ hook' = "unload" /\ at' = at
     \/ rconf[at].kind # "port" /\ hook' = "disconnect" /\ at' = at + 1
  /\ UNCHANGED <<order, state, outs, lbuf, written, confVars, loopVars>>

(* ubx_block_rm: unregister and free, with the samples of an interaction.  *)
Dropped(b) ==
  /\ state' = [state EXCEPT ![b] = "none"]
  /\ order' = Unlinked(order, b)
  /\ lbuf' = IF b \in Interactions THEN [lbuf EXCEPT ![b] = <<>>] ELSE lbuf
  /\ UNCHANGED <<lports, outs, written, confVars>>

(* block_unload stops, cleans up and removes the interaction.              *)
Unload ==
  /\ hook = "unload"
  /\ Dropped(rconf[at].ib)
  /\ hook' = "disconnect" /\ at' = at + 1
  /\ UNCHANGED loopVars

CleanEnd ==
  /\ hook = "disconnect" /\ at > Len(rconf)
  /\ state' = [state EXCEPT ![Logger] = "PREINIT"] /\ hook' = "none"
  /\ rconf' = <<>> /\ sample' = <<>>
  /\ UNCHANGED <<order, lports, outs, lbuf, written, todo, base, at, broken>>
  /\ IF pass = "run" THEN UNCHANGED loopVars ELSE Advance

NodeCleanup ==
  /\ pass = "run" /\ hook = "none"
  /\ Enter("stop")
  /\ UNCHANGED <<order, state, lports, outs, lbuf, written, confVars, hook, at>>

PassAfter == [stop |-> "cleanup", cleanup |-> "rm", rm |-> "done"]

NextPass ==
  /\ pass \in DOMAIN PassAfter /\ cur = NULL
  /\ IF pass = "rm" THEN pass' = "done" /\ UNCHANGED <<cur, nxt>> ELSE Enter(PassAfter[pass])
  /\ UNCHANGED <<order, state, lports, outs, lbuf, written, confVars, hook, at>>

(* The body of a loop, for a block that still exists. *)
Visiting(p) == pass = p /\ hook = "none" /\ cur # NULL /\ cur \in Elems(order)

VisitStop ==
  /\ Visiting("stop")
  /\ Moves(cur, IF state[cur] = "ACTIVE" THEN "INACTIVE" ELSE state[cur])
  /\ Advance /\ UNCHANGED hook

VisitCleanup ==
  /\ Visiting("cleanup")
  /\ IF cur = Logger /\ state[cur] = "INACTIVE" THEN CleanBegin
     ELSE /\ Moves(cur, IF state[cur] = "INACTIVE" THEN "PREINIT" ELSE state[cur])
          /\ Advance /\ UNCHANGED hook

VisitRm ==
  /\ Visiting("rm")
  /\ IF state[cur] = "PREINIT" THEN Dropped(cur) /\ UNCHANGED at ELSE Moves(cur, state[cur])
  /\ Advance /\ UNCHANGED hook

LogNext ==
  \/ \E conf \in Confs : InitBegin(conf)
  \/ ReportIBlock \/ RefuseInPort \/ InitFails \/ InitEnd
  \/ \E i \in Pool : ReportPort(i)
  \/ LoggerStart \/ LoggerStop \/ StepBegin \/ LogEntry \/ StepEnd
  \/ \E b \in Sources : SourceWrite(b) \/ InterWrite(b)
  \/ LoggerCleanup \/ Disconnect \/ RemovePort \/ Unload \/ CleanEnd
  \/ NodeCleanup \/ NextPass \/ VisitStop \/ VisitCleanup \/ VisitRm

LogSpec == LogInit /\ [][LogNext]_logVars

-----------------------------------------------------------------------------
(***************************************************************************)
(* Properties. An init that fails half way leaves ports and connections,   *)
(* which the next one finds by the names that it gives its own: what is    *)
(* said of columns and ports holds as long as this has not happened.       *)
(***************************************************************************)

(* While the logger may be stepped, the pointer cached for each entry      *)
(* designates the port made for it, connected to its interaction and       *)
(* nothing else (report_conf_to_portlist: only after adding has finished). *)
PinvRight ==
  ~ broken /\ state[Logger] \in {"INACTIVE", "ACTIVE"} /\ hook \in {"none", "step"} =>
    \A k \in DOMAIN rconf :
      /\ rconf[k].pinv \in DOMAIN lports
      /\ lports[rconf[k].pinv].name = k
      /\ lports[rconf[k].pinv].in_interaction = <<rconf[k].ib>>

(* A column shows samples of the port it is named after, and only such     *)
(* that were written since the logger was initialised (step hook).         *)
LogFresh == ~ broken => \A k \in DOMAIN sample :
  sample[k] # NULL /\ rconf[k].kind = "port" =>
    sample[k].src = rconf[k].src /\ sample[k].nr > base[rconf[k].src]

(* No block writes to an interaction that was freed, before or during the  *)
(* clean-up of the node (ubx_node_cleanup, cleanup hook).                  *)
NoFreedWrite == \A b \in Sources : state[b] = "ACTIVE" =>
  \A i \in Interactions : Connected(outs[b], i) => state[i] # "none"

(* The clean-up of the node visits blocks that exist, whatever the cleanup *)
(* hook unloads (ubx_node_cleanup).                                        *)
NoFreedVisit == cur # NULL => cur \in Elems(order)

(* Some block was created after the logger. *)
LoggerFollowed == \A o \in Orders : o[Len(o)] # Logger

(* The logger's cached ports are those of its columns, which show what was *)
(* written since its init; no block writes to a freed interaction, and the *)
(* node's clean-up visits no freed block although the cleanup hook frees   *)
(* some, unless the logger was created last (file_logger.lua,              *)
(* ubx_node_cleanup).                                                      *)
LoggerSafe ==
  /\ LogTypeOK /\ PinvRight /\ LogFresh /\ NoFreedWrite
  /\ LoggerFollowed => NoFreedVisit

(* A column never goes back to an older sample of the same source, while   *)
(* the logger is stepped, stopped and started again (step hook).           *)
LogMonotone == [][~ broken /\ rconf' = rconf => \A k \in DOMAIN sample :
  sample[k] # NULL /\ sample'[k].src = sample[k].src => sample'[k].nr >= sample[k].nr]_logVars

(* The cleanup hook cleans up connections and removes ports: it leaves no  *)
(* port of the logger, no connection and no interaction made for it.       *)
CleanedUp == [][~ broken /\ state[Logger] = "INACTIVE" /\ state'[Logger] = "PREINIT" =>
  /\ lports' = <<>>
  /\ \A b \in Sources : outs'[b] = NULL \/ outs'[b] = <<>>
  /\ \A i \in Pool : state'[i] = "none"]_logVars
=============================================================================
