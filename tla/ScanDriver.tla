----------------------------- MODULE ScanDriver -----------------------------
(***************************************************************************)
(* The driver of the laser scanner (app_blocks/rplidar_udp/sdk): a client, *)
(* and the background thread (_cacheScanData) that collects the samples of *)
(* the device into scans of 360 degrees and publishes the latest one. The  *)
(* two share the cached scan, guarded by _lock, the event _dataEvt, and    *)
(* the flag _isScanning, which nothing guards.                             *)
(*                                                                         *)
(* A sample is the number of its scan and its place in it: the first one   *)
(* of a scan has the sync bit. Framing of bytes, angles and distances are  *)
(* left out, time is a nondeterministic timeout. A second join of a thread *)
(* is undefined; the model goes on as if it returned.                      *)
(***************************************************************************)
EXTENDS Naturals, Sequences, SequencesExt, FiniteSetsExt

CONSTANTS
  MaxScans,  \* bound: scans that the device sends
  MaxLen,    \* bound: samples in a scan
  BufSize,   \* size of local_buf: samples of one _waitScanData
  MaxNodes,  \* MAX_SCAN_NODES
  GrabSize,  \* size of the buffer that the client grabs into
  NULL

ASSUME SizesAssumption ==
  /\ MaxScans \in Nat \ {0} /\ MaxLen \in Nat \ {0} /\ BufSize \in Nat \ {0}
  /\ MaxNodes \in Nat \ {0, 1} /\ GrabSize \in Nat \ {0}
  /\ NULL \notin {"running", "joined", "thread", "client", "first", "loop", "read",
                 "process", "store", "set", "ended", "start"}

VARIABLES
  connected, open,   \* _isConnected, and whether the serial port is open
  scanning,          \* _isScanning
  handle,            \* of _cachethread: NULL, "running" or "joined"
  lock, event,       \* holder of _lock, and whether _dataEvt is signalled
  cached,            \* _cached_scan_node_buf up to _cached_scan_node_count
  op, pc,            \* the client: its operation and where it is in it
  res,               \* what the last grabScanData gave the client
  cpc,               \* the background thread: where it is
  buf, cnt, got, pos,\*   local_buf, count, samples received, place in the buffer
  scan,              \*   local_scan up to scan_count
  dev, lens,         \* the device: last sample sent, samples sent of each scan,
  stalls             \*   whether it may fall silent in the middle of a scan

clientVars == <<op, pc, res>>
threadVars == <<cpc, buf, cnt, got, pos, scan>>
devVars    == <<dev, lens, stalls>>
portVars   == <<connected, open>>
vars == <<portVars, scanning, handle, lock, event, cached, clientVars, threadVars, devVars>>

Node    == [scan : 0 .. MaxScans, pos : 0 .. MaxLen]
Sync(n) == n.pos = 1
Junk    == {[scan |-> 0, pos |-> p] : p \in 0 .. 1}  \* uninitialized samples
NoScan  == [code |-> "none", count |-> 0, nodes |-> <<>>]

(* Every variable holds what the code keeps there; the thread never has    *)
(* more samples than its buffers hold.                                     *)
TypeOK ==
  /\ connected \in BOOLEAN /\ open \in BOOLEAN /\ scanning \in BOOLEAN
  /\ handle \in {NULL, "running", "joined"} /\ event \in BOOLEAN
  /\ lock \in {NULL, "thread", "client"}
  /\ cached \in Seq(Node) /\ Len(cached) < MaxNodes
  /\ op \in {NULL, "query", "stop", "start", "disconnect", "grab"}
  /\ pc \in {"idle", "join", "finish", "wait", "count", "copy"}
  /\ res.code \in {"none", "ok", "timeout"} /\ res.count \in 0 .. GrabSize
  /\ cpc \in {NULL, "first", "loop", "read", "process", "store", "set", "ended"}
  /\ buf \in [1 .. BufSize -> Node] /\ cnt \in 1 .. BufSize
  /\ got \in 0 .. cnt /\ pos \in 1 .. cnt + 1
  /\ scan \in Seq(Node) /\ Len(scan) < MaxNodes
  /\ dev \in Node /\ lens \in [1 .. MaxScans -> 0 .. MaxLen] /\ stalls \in BOOLEAN

Init ==
  /\ connected = FALSE /\ open = FALSE /\ scanning = FALSE
  /\ handle = NULL /\ lock = NULL /\ event = FALSE /\ cached = <<>>
  /\ op = NULL /\ pc = "idle" /\ res = NoScan
  /\ cpc = NULL /\ buf \in [1 .. BufSize -> Junk] /\ cnt = BufSize
  /\ got = 0 /\ pos = 1 /\ scan = <<>>
  /\ dev = [scan |-> 0, pos |-> 0] /\ lens = [s \in 1 .. MaxScans |-> 0]
  /\ stalls \in BOOLEAN

-----------------------------------------------------------------------------
(***************************************************************************)
(* The background thread: _waitScanData, called by _cacheScanData.         *)
(***************************************************************************)
Reading == cpc \in {"first", "read"}

(* What follows the samples of the device.                                 *)
NextSamples ==
  {n \in Node : \/ n.scan = dev.scan /\ n.pos = dev.pos + 1 /\ dev.scan > 0
                \/ n.scan = dev.scan + 1 /\ n.pos = 1}

(* After the first call, whose samples are discarded, the loop begins.     *)
Received == cpc' = IF cpc = "first" THEN "loop" ELSE "process"

(* _waitNode returns a sample; with the last one the call is over.         *)
ReceiveSample ==
  /\ Reading /\ open /\ got < cnt
  /\ \E n \in NextSamples :
       /\ dev' = n /\ lens' = [lens EXCEPT ![n.scan] = n.pos]
       /\ buf' = [buf EXCEPT ![got + 1] = n]
  /\ got' = got + 1
  /\ IF got + 1 = cnt THEN Received ELSE cpc' = cpc
  /\ UNCHANGED <<portVars, scanning, handle, lock, event, cached, clientVars, cnt, pos, scan, stalls>>

(* _waitNode runs into its timeout: the call returns at once, and count    *)
(* still says how many samples were wanted.                                *)
SampleTimeout ==
  /\ Reading /\ stalls
  /\ Received
  /\ UNCHANGED <<portVars, scanning, handle, lock, event, cached, clientVars, buf, cnt, got, pos, scan, devVars>>

(* The time of the call is over between two samples: count becomes what    *)
(* has arrived.                                                            *)
CallTimeout ==
  /\ Reading /\ stalls /\ got \in 1 .. cnt - 1
  /\ cnt' = got
  /\ Received
  /\ UNCHANGED <<portVars, scanning, handle, lock, event, cached, clientVars, buf, got, pos, scan, devVars>>

(* Mutant of DeviceError: the thread ends without a word. *)
DeviceErrorSilent ==
  /\ Reading
  /\ cpc' = IF cpc = "first" THEN "loop" ELSE "ended"
  /\ UNCHANGED <<portVars, scanning, handle, lock, event, cached, clientVars, buf, cnt, got, pos, scan, devVars>>

(* The device fails: the loop is left. The first call is not looked at.    *)
DeviceError ==
  /\ Reading
  /\ IF cpc = "first" THEN cpc' = "loop" /\ UNCHANGED scanning
     ELSE cpc' = "ended" /\ scanning' = FALSE
  /\ UNCHANGED <<portVars, handle, lock, event, cached, clientVars, buf, cnt, got, pos, scan, devVars>>

(* Mutant of LoopTop: the flag is not looked at. *)
LoopTopBlind ==
  /\ cpc = "loop"
  /\ cpc' = "read"
  /\ got' = 0 /\ pos' = 1
  /\ UNCHANGED <<portVars, scanning, handle, lock, event, cached, clientVars, buf, cnt, scan, devVars>>

(* while(_isScanning)                                                      *)
LoopTop ==
  /\ cpc = "loop"
  /\ cpc' = IF scanning THEN "read" ELSE "ended"
  /\ got' = 0 /\ pos' = 1
  /\ UNCHANGED <<portVars, scanning, handle, lock, event, cached, clientVars, buf, cnt, scan, devVars>>

(* Mutant of Kept: the last place is filled. *)
KeptFull(s, n) == Append(s, n)

(* local_scan with one more sample: the last place is never counted.       *)
Kept(s, n) == IF Len(s) + 1 = MaxNodes THEN s ELSE Append(s, n)

(* Mutant of IsWhole: the first, partial scan is published as well. *)
IsWholeAny(s) == s # <<>>

(* Only what begins with a sync sample is published.                       *)
IsWhole(s) == s # <<>> /\ Sync(s[1])

(* The next sample of the buffer; a sync sample completes the scan.        *)
Process ==
  /\ cpc = "process"
  /\ IF pos > cnt THEN cpc' = "loop" /\ UNCHANGED <<pos, scan>>
     ELSE LET n == buf[pos]
          IN  IF Sync(n) /\ IsWhole(scan) THEN cpc' = "store" /\ UNCHANGED <<pos, scan>>
              ELSE /\ scan' = Kept(IF Sync(n) THEN <<>> ELSE scan, n)
                   /\ pos' = pos + 1 /\ cpc' = cpc
  /\ UNCHANGED <<portVars, scanning, handle, lock, event, cached, clientVars, buf, cnt, got, devVars>>

(* Publishing, under the lock: the scan is copied, ...                     *)
PublishStore ==
  /\ cpc = "store" /\ lock = NULL
  /\ lock' = "thread" /\ cached' = scan /\ cpc' = "set"
  /\ UNCHANGED <<portVars, scanning, handle, event, clientVars, buf, cnt, got, pos, scan, devVars>>

(* Mutant of PublishSet: only a client that waits already is woken. *)
PublishSetLost ==
  /\ cpc = "set"
  /\ event' = (event \/ pc = "wait") /\ lock' = NULL
  /\ scan' = Kept(<<>>, buf[pos]) /\ pos' = pos + 1 /\ cpc' = "process"
  /\ UNCHANGED <<portVars, scanning, handle, cached, clientVars, buf, cnt, got, devVars>>

(* ... then the event is set, and the next scan begins.                    *)
PublishSet ==
  /\ cpc = "set"
  /\ event' = TRUE /\ lock' = NULL
  /\ scan' = Kept(<<>>, buf[pos]) /\ pos' = pos + 1 /\ cpc' = "process"
  /\ UNCHANGED <<portVars, scanning, handle, cached, clientVars, buf, cnt, got, devVars>>

Thread == \/ ReceiveSample \/ SampleTimeout \/ CallTimeout \/ DeviceError
          \/ LoopTop \/ Process \/ PublishStore \/ PublishSet

-----------------------------------------------------------------------------
(***************************************************************************)
(* The client: the operations of the driver.                               *)
(***************************************************************************)
Call(o)   == op' = o /\ UNCHANGED res
Return    == pc' = "idle" /\ op' = NULL
CanCall   == pc = "idle"

(* connect: an old connection is kept.                                     *)
Connect ==
  /\ CanCall /\ ~ connected
  /\ connected' = TRUE /\ open' = TRUE
  /\ UNCHANGED <<scanning, handle, lock, event, cached, clientVars, threadVars, devVars>>

(* getDeviceInfo, getHealth and stop begin with _disableDataGrabbing.      *)
Query(o) ==
  /\ CanCall /\ (o = "query" => connected)
  /\ scanning' = FALSE /\ pc' = "join" /\ Call(o)
  /\ UNCHANGED <<portVars, handle, lock, event, cached, threadVars, devVars>>

(* startScan: nothing is done when a scan is going on.                     *)
StartScan ==
  /\ CanCall /\ connected /\ ~ scanning
  /\ scanning' = FALSE /\ pc' = "join" /\ Call("start")
  /\ UNCHANGED <<portVars, handle, lock, event, cached, threadVars, devVars>>

(* disconnect stops the scan first.                                        *)
Disconnect ==
  /\ CanCall /\ connected
  /\ scanning' = FALSE /\ pc' = "join" /\ Call("disconnect")
  /\ UNCHANGED <<portVars, handle, lock, event, cached, threadVars, devVars>>

(* Mutant of Join: stopping does not wait for the thread. *)
JoinNot ==
  /\ pc = "join"
  /\ pc' = "finish"
  /\ UNCHANGED <<portVars, scanning, handle, lock, event, cached, op, res, threadVars, devVars>>

(* Thread::join: without a handle there is nothing to wait for.            *)
Join ==
  /\ pc = "join" /\ (handle = "running" => cpc = "ended")
  /\ handle' = IF handle = NULL THEN NULL ELSE "joined"
  /\ pc' = "finish"
  /\ UNCHANGED <<portVars, scanning, lock, event, cached, op, res, threadVars, devVars>>

(* The command is sent to the device; disconnect closes the port.          *)
Finish ==
  /\ pc = "finish" /\ op # "start"
  /\ open' = IF op = "disconnect" THEN FALSE ELSE open
  /\ Return
  /\ UNCHANGED <<connected, scanning, handle, lock, event, cached, res, threadVars, devVars>>

(* The device may be anywhere in a turn when a scan is started.            *)
Turned == \/ UNCHANGED devVars
          \/ /\ dev.scan < MaxScans
             /\ dev' = [scan |-> dev.scan + 1, pos |-> 1]
             /\ lens' = [lens EXCEPT ![dev.scan + 1] = 1]
             /\ UNCHANGED stalls

(* The device has confirmed: the flag is set, and the thread starts.       *)
StartThread ==
  /\ pc = "finish" /\ op = "start" /\ open
  /\ scanning' = TRUE
  /\ handle' = "running" /\ cpc' = "first" /\ cnt' = BufSize /\ scan' = <<>>
  /\ got' = 0 /\ pos' = 1 /\ buf' \in [1 .. BufSize -> Junk]
  /\ Turned /\ Return
  /\ UNCHANGED <<portVars, lock, event, cached, res>>

StartFails ==
  /\ pc = "finish" /\ op = "start"
  /\ Return
  /\ UNCHANGED <<portVars, scanning, handle, lock, event, cached, res, threadVars, devVars>>

(* grabScanData: wait for the event, ...                                   *)
Grab ==
  /\ CanCall
  /\ pc' = "wait" /\ Call("grab")
  /\ UNCHANGED <<portVars, scanning, handle, lock, event, cached, threadVars, devVars>>

(* ... which is reset when it was set, ...                                 *)
GrabEvent ==
  /\ pc = "wait" /\ event
  /\ event' = FALSE /\ pc' = "count"
  /\ UNCHANGED <<portVars, scanning, handle, lock, cached, op, res, threadVars, devVars>>

GrabTimeout ==
  /\ pc = "wait" /\ ~ event
  /\ res' = [code |-> "timeout", count |-> 0, nodes |-> <<>>]
  /\ Return
  /\ UNCHANGED <<portVars, scanning, handle, lock, event, cached, threadVars, devVars>>

(* ... look at the number of samples, without the lock: when there are     *)
(* none the client's count is left alone, ...                              *)
GrabCount ==
  /\ pc = "count"
  /\ IF cached = <<>>
     THEN res' = [code |-> "timeout", count |-> GrabSize, nodes |-> <<>>] /\ Return
     ELSE pc' = "copy" /\ UNCHANGED <<op, res>>
  /\ UNCHANGED <<portVars, scanning, handle, lock, event, cached, threadVars, devVars>>

(* Mutant of GrabCopy: the scan stays in the cache. *)
GrabCopyKeeps ==
  /\ pc = "copy" /\ lock = NULL
  /\ LET k == Min({GrabSize, Len(cached)})
     IN  res' = [code |-> "ok", count |-> k, nodes |-> SubSeq(cached, 1, k)]
  /\ Return
  /\ UNCHANGED <<portVars, scanning, handle, lock, event, cached, threadVars, devVars>>

(* ... and take the scan, under the lock.                                  *)
GrabCopy ==
  /\ pc = "copy" /\ lock = NULL
  /\ LET k == Min({GrabSize, Len(cached)})
     IN  res' = [code |-> "ok", count |-> k, nodes |-> SubSeq(cached, 1, k)]
  /\ cached' = <<>>
  /\ Return
  /\ UNCHANGED <<portVars, scanning, handle, lock, event, threadVars, devVars>>

Client ==
  \/ Connect \/ StartScan \/ Disconnect \/ \E o \in {"query", "stop"} : Query(o)
  \/ Join \/ Finish \/ StartThread \/ StartFails
  \/ Grab \/ GrabEvent \/ GrabTimeout \/ GrabCount \/ GrabCopy

Next == Thread \/ Client

(* The thread runs whenever it can, its reads end with a sample or a       *)
(* timeout; a client that has called an operation goes on with it.         *)
Spec == /\ Init /\ [][Next]_vars
        /\ WF_vars(Thread) /\ WF_vars(Client /\ pc # "idle")

-----------------------------------------------------------------------------
(***************************************************************************)
(* Properties.                                                             *)
(***************************************************************************)

(* The samples of one scan that the device has completed, in order from    *)
(* the first: all of them, when there is room.                             *)
Whole(s, room) == \E n \in 1 .. dev.scan - 1 :
  /\ s = [i \in 1 .. Len(s) |-> [scan |-> n, pos |-> i]]
  /\ Len(s) = Min({lens[n], MaxNodes - 1, room})

(* All samples that the client gets belong to exactly one complete scan,   *)
(* and so do those in the cache, while the device does not fall silent     *)
(* (grabScanData).                                                         *)
WholeScans == ~ stalls =>
  /\ cached # <<>> => Whole(cached, MaxNodes)
  /\ res.code = "ok" => Whole(res.nodes, GrabSize)

(* The first sample of grabbed data is the first of a scan, even when the  *)
(* device falls silent now and then.                                       *)
FirstIsSync == res.code = "ok" => Sync(res.nodes[1])

(* A scan in the cache is not slept on: the event is set, or is about to   *)
(* be, or the client has just taken it (_cacheScanData, grabScanData).     *)
NoScanMissed == cached # <<>> =>
  event \/ cpc = "set" \/ pc \in {"count", "copy"}

(* While the flag is set the thread runs: a client that believes to be     *)
(* scanning is not left without one (startScan, _cacheScanData).           *)
ScanningRuns == scanning => handle = "running" /\ cpc \notin {NULL, "ended"}

(* The cache and what the client grabs are samples of one complete scan;   *)
(* no published scan is slept on, and no client believes to be scanning    *)
(* without a thread (_cacheScanData, grabScanData). When the device stalls *)
(* grabbed data still begins with the first sample of a scan.              *)
ScanSafe == TypeOK /\ WholeScans /\ FirstIsSync /\ NoScanMissed /\ ScanningRuns

(* A thread is only started when the one before it has ended: the two      *)
(* would write to the same cache (startScan).                              *)
OneThread == [][scanning' /\ ~ scanning => cpc \in {NULL, "ended"}]_vars

(* No scan is handed out twice, or after a later one (grabScanData).       *)
GrabsAdvance ==
  [][~ stalls /\ pc = "copy" /\ pc' = "idle" /\ res.code = "ok" =>
       res'.nodes[1].scan > res.nodes[1].scan]_vars

(* stop and the operations that begin with it return: the thread notices.  *)
StopReturns == pc = "join" ~> pc # "join"

(* A grab that times out reports no samples: the interface stores the      *)
(* actual received data count.                                             *)
TimeoutIsEmpty == res.code = "timeout" => res.count = 0

(* A driver that is connected has its serial port open.                    *)
ConnectedIsOpen == connected /\ pc = "idle" => open

(* A thread is joined once (stop, disconnect, startScan).                  *)
JoinedOnce == [][pc = "join" /\ pc' # "join" => handle # "joined"]_vars
=============================================================================
