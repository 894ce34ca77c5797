------------------------- MODULE ScanDriverProofs -------------------------
(***************************************************************************)
(* Proofs about the driver of the laser scanner, for every number and      *)
(* length of scans and every size of the buffers: while the device does    *)
(* not fall silent what the client grabs is one complete scan and a later  *)
(* one each time; with every device no published scan is slept on, and     *)
(* there is never a second thread.                                         *)
(***************************************************************************)
EXTENDS ScanDriver, SequenceTheorems, TLAPS

(* The first l samples of scan m, and the smaller of two numbers.          *)
Prefix(m, l) == [i \in 1 .. l |-> [scan |-> m, pos |-> i]]
Least(a, b)  == IF a <= b THEN a ELSE b
Room         == MaxNodes - 1

(* What the variables hold: the client and the thread, the samples, and    *)
(* what was handed out.                                                    *)
ControlTypes ==
  /\ connected \in BOOLEAN /\ open \in BOOLEAN /\ scanning \in BOOLEAN
  /\ handle \in {NULL, "running", "joined"} /\ event \in BOOLEAN
  /\ lock \in {NULL, "thread", "client"}
  /\ op \in {NULL, "query", "stop", "start", "disconnect", "grab"}
  /\ pc \in {"idle", "join", "finish", "wait", "count", "copy"}
  /\ cpc \in {NULL, "first", "loop", "read", "process", "store", "set", "ended"}

SampleTypes ==
  /\ buf \in [1 .. BufSize -> Node] /\ cnt \in 1 .. BufSize
  /\ got \in 0 .. cnt /\ pos \in 1 .. cnt + 1
  /\ dev \in Node /\ lens \in [1 .. MaxScans -> 0 .. MaxLen] /\ stalls \in BOOLEAN

ScanTypes ==
  /\ scan \in Seq(Node) /\ Len(scan) < MaxNodes
  /\ cached \in Seq(Node) /\ Len(cached) < MaxNodes

ResTypes ==
  /\ res.code \in {"none", "ok", "timeout"} /\ res.count \in 0 .. GrabSize
  /\ res.code = "ok" => res.nodes \in Seq(Node) /\ res.nodes # <<>> /\ Sync(res.nodes[1])

(* Who may run: nobody is started while the thread runs.                   *)
RunInv ==
  /\ scanning => handle = "running" /\ cpc \notin {NULL, "ended"}
  /\ pc \in {"join", "finish"} => ~ scanning
  /\ pc = "finish" => handle # "running"
  /\ handle # "running" => cpc \in {NULL, "ended"}

(* Where the thread is in its buffer, and what it is about to publish.     *)
PlaceInv ==
  /\ Reading => pos = 1
  /\ cpc \in {"store", "set"} => pos <= cnt /\ Sync(buf[pos]) /\ IsWhole(scan)

CacheInv ==
  /\ pc = "copy" => cached # <<>>
  /\ cached # <<>> => Sync(cached[1]) /\ (event \/ cpc = "set" \/ pc \in {"count", "copy"})

(* The device counts the samples of the scan that it is in.                *)
DevInv ==
  /\ dev.scan = 0 => dev.pos = 0
  /\ dev.scan > 0 => dev.pos > 0 /\ lens[dev.scan] = dev.pos

(* m follows n: in its scan, or n was the last of its own.                 *)
Follows(n, m) ==
  \/ m.scan = n.scan /\ m.pos = n.pos + 1
  \/ m.scan = n.scan + 1 /\ m.pos = 1 /\ lens[n.scan] = n.pos

(* The samples received are the last ones that the device has sent.        *)
Busy == cpc \in {"read", "process", "store", "set"}
BufInv == Busy =>
  /\ \A i \in 1 .. got : buf[i].scan \in 1 .. dev.scan /\ buf[i].pos > 0
  /\ \A i \in 1 .. got, j \in 1 .. got : i <= j => buf[i].scan <= buf[j].scan
  /\ \A i \in 1 .. got - 1 : Follows(buf[i], buf[i + 1])
  /\ got > 0 => buf[got] = dev
  /\ cpc # "read" => got = cnt

(* A scan that began with a sync sample has all samples up to n, ...       *)
After(s, n) == IsWhole(s) => n.scan > 0 /\ s = Prefix(n.scan, Least(n.pos, Room))

(* ... or all that come before n.                                          *)
Before(s, n) == IsWhole(s) =>
  IF n.pos = 1
  THEN n.scan > 1 /\ s = Prefix(n.scan - 1, Least(lens[n.scan - 1], Room))
  ELSE s = Prefix(n.scan, Least(n.pos - 1, Room))

LocalInv ==
  /\ cpc = "first" => scan = <<>>
  /\ cpc = "loop" => After(scan, dev)
  /\ cpc = "read" => IF got = 0 THEN After(scan, dev) ELSE Before(scan, buf[1])
  /\ cpc = "process" => IF pos > cnt THEN After(scan, dev) ELSE Before(scan, buf[pos])
  /\ cpc \in {"store", "set"} => Before(scan, buf[pos])

(* Scan x is over: no sample of it will be published again.                *)
Over(x) ==
  /\ x < dev.scan
  /\ Busy => \A i \in pos .. got : x < buf[i].scan
  /\ IsWhole(scan) /\ cpc # "set" => x < scan[1].scan

OverInv ==
  /\ cached # <<>> => Over(cached[1].scan)
  /\ res.code = "ok" => Over(res.nodes[1].scan)
  /\ cached # <<>> /\ res.code = "ok" => res.nodes[1].scan < cached[1].scan

WholeInv ==
  /\ cached # <<>> => Whole(cached, MaxNodes)
  /\ res.code = "ok" => Whole(res.nodes, GrabSize)

SteadyInv == ~ stalls => DevInv /\ BufInv /\ LocalInv /\ OverInv /\ WholeInv

IInv ==
  /\ ControlTypes /\ SampleTypes /\ ScanTypes /\ ResTypes
  /\ RunInv /\ PlaceInv /\ CacheInv /\ SteadyInv

-----------------------------------------------------------------------------
(* What a sample is made of.                                               *)
LEMMA NodeFacts ==
  ASSUME NEW n \in Node
  PROVE  /\ n.scan \in 0 .. MaxScans /\ n.pos \in 0 .. MaxLen
         /\ n.scan \in Nat /\ n.pos \in Nat
         /\ n = [scan |-> n.scan, pos |-> n.pos]
BY SizesAssumption DEF Node

(* The smaller of two numbers, and what Min of the community modules is on *)
(* two and on three numbers.                                               *)
LEMMA LeastFacts ==
  ASSUME NEW a \in Nat, NEW b \in Nat
  PROVE  /\ Least(a, b) \in Nat /\ Least(a, b) <= a /\ Least(a, b) <= b
         /\ Least(a, b) \in {a, b}
BY DEF Least

LEMMA MinFacts ==
  ASSUME NEW a \in Nat, NEW b \in Nat
  PROVE  Min({a, b}) = Least(a, b)
<1>1. /\ Least(a, b) \in {a, b}
      /\ \A y \in {a, b} : Least(a, b) <= y
      /\ \A x \in {a, b} : (\A y \in {a, b} : x <= y) => x = Least(a, b)
  BY DEF Least
<1> QED
  BY <1>1 DEF Min

LEMMA MinOfThree ==
  ASSUME NEW a \in Nat, NEW b \in Nat, NEW c \in Nat
  PROVE  Min({a, b, c}) = Least(Least(a, b), c)
<1>1. /\ Least(Least(a, b), c) \in {a, b, c}
      /\ \A y \in {a, b, c} : Least(Least(a, b), c) <= y
      /\ \A x \in {a, b, c} :
           (\A y \in {a, b, c} : x <= y) => x = Least(Least(a, b), c)
  BY DEF Least
<1> QED
  BY <1>1 DEF Min

(* The first samples of a scan: their number, what they are, that they     *)
(* begin with a sync sample, and the next one appended.                    *)
LEMMA PrefixFacts ==
  ASSUME NEW m \in Nat, NEW l \in Nat
  PROVE  /\ Prefix(m, l) \in Seq([scan : {m}, pos : Nat])
         /\ Len(Prefix(m, l)) = l
         /\ \A i \in 1 .. l : Prefix(m, l)[i] = [scan |-> m, pos |-> i]
         /\ l > 0 => /\ Prefix(m, l) # <<>> /\ Prefix(m, l)[1].scan = m
                     /\ Sync(Prefix(m, l)[1])
<1>1. /\ Prefix(m, l) \in Seq([scan : {m}, pos : Nat])
      /\ Len(Prefix(m, l)) = l
      /\ \A i \in 1 .. l : Prefix(m, l)[i] = [scan |-> m, pos |-> i]
  BY DEF Prefix
<1>2. l > 0 => /\ Prefix(m, l) # <<>> /\ Prefix(m, l)[1] = [scan |-> m, pos |-> 1]
  BY <1>1
<1> QED
  BY <1>1, <1>2 DEF Sync

LEMMA PrefixAppend ==
  ASSUME NEW m \in Nat, NEW l \in Nat
  PROVE  Append(Prefix(m, l), [scan |-> m, pos |-> l + 1]) = Prefix(m, l + 1)
<1> DEFINE n == [scan |-> m, pos |-> l + 1]
           T == [scan : {m}, pos : Nat]
           p == Prefix(m, l)
           q == Prefix(m, l + 1)
<1>1. n \in T /\ l + 1 \in Nat
  OBVIOUS
<1>2. /\ p \in Seq(T) /\ Len(p) = l
      /\ \A i \in 1 .. l : p[i] = [scan |-> m, pos |-> i]
  BY PrefixFacts
<1>3. /\ q \in Seq(T) /\ Len(q) = l + 1
      /\ \A i \in 1 .. l + 1 : q[i] = [scan |-> m, pos |-> i]
  BY <1>1, PrefixFacts
<1>4. q[l + 1] = n
  BY <1>3
<1> HIDE DEF n, T, p, q
<1>5. /\ Append(p, n) \in Seq(T) /\ Len(Append(p, n)) = Len(p) + 1
      /\ \A i \in 1 .. Len(p) : Append(p, n)[i] = p[i]
      /\ Append(p, n)[Len(p) + 1] = n
  BY <1>1, <1>2, AppendProperties
<1>6. \A i \in 1 .. l + 1 : Append(p, n)[i] = q[i]
  BY <1>2, <1>3, <1>4, <1>5
<1>7. Append(p, n) = q
  BY <1>2, <1>3, <1>5, <1>6, SeqEqual
<1> QED
  BY <1>7 DEF n, p, q

LEMMA PrefixOne ==
  ASSUME NEW m \in Nat
  PROVE  <<[scan |-> m, pos |-> 1]>> = Prefix(m, 1)
BY DEF Prefix

(* local_scan with one more sample (_cacheScanData): where the sample      *)
(* goes, and that the first one stays.                                     *)
LEMMA KeptFacts ==
  ASSUME NEW s \in Seq(Node), Len(s) < MaxNodes, NEW n \in Node
  PROVE  /\ Kept(s, n) \in Seq(Node) /\ Len(Kept(s, n)) < MaxNodes
         /\ Kept(s, n) # <<>>
         /\ s = <<>> => Kept(s, n) = <<n>>
         /\ s # <<>> => Kept(s, n)[1] = s[1]
         /\ Len(s) = Room => Kept(s, n) = s
         /\ Len(s) < Room => Kept(s, n) = Append(s, n)
<1>1. MaxNodes \in Nat /\ MaxNodes > 1 /\ Len(s) \in Nat
  BY SizesAssumption
<1>2. /\ Append(s, n) \in Seq(Node) /\ Len(Append(s, n)) = Len(s) + 1
      /\ Append(s, n) # <<>>
      /\ \A i \in 1 .. Len(s) : Append(s, n)[i] = s[i]
      /\ s = <<>> => Append(s, n) = <<n>>
  <2>1. /\ Append(s, n) \in Seq(Node) /\ Append(s, n) # <<>>
        /\ Len(Append(s, n)) = Len(s) + 1
        /\ \A i \in 1 .. Len(s) : Append(s, n)[i] = s[i]
    BY AppendProperties
  <2>2. Append(<<>>, n) = <<n>>
    OBVIOUS
  <2> QED
    BY <2>1, <2>2
<1>3. s # <<>> => Len(s) > 0 /\ 1 \in 1 .. Len(s)
  OBVIOUS
<1>4. s = <<>> => Len(s) = 0
  OBVIOUS
<1> QED
  BY <1>1, <1>2, <1>3, <1>4 DEF Kept, Room

(* The lemma the thread rests on: a scan that has all samples before n has *)
(* all up to n when n is processed (the body of the loop of                *)
(* _cacheScanData).                                                        *)
LEMMA Processed ==
  ASSUME NEW s \in Seq(Node), Len(s) < MaxNodes, NEW n \in Node,
         n.scan > 0, n.pos > 0, Before(s, n), ~ (Sync(n) /\ IsWhole(s))
  PROVE  After(Kept(IF Sync(n) THEN <<>> ELSE s, n), n)
<1>0. /\ n.scan \in Nat /\ n.pos \in Nat /\ n = [scan |-> n.scan, pos |-> n.pos]
      /\ Room \in Nat /\ Room > 0 /\ MaxNodes = Room + 1
  BY NodeFacts, SizesAssumption DEF Room
<1>1. CASE Sync(n)
  <2>1. <<>> \in Seq(Node) /\ Len(<<>>) < MaxNodes
    BY <1>0
  <2>2. Kept(<<>>, n) = <<n>>
    BY <2>1, KeptFacts
  <2>3. <<n>> = Prefix(n.scan, 1) /\ Least(n.pos, Room) = 1
    BY <1>0, <1>1, PrefixOne DEF Sync, Least
  <2> QED
    BY <1>0, <1>1, <2>2, <2>3 DEF After
<1>2. CASE ~ Sync(n) /\ s = <<>>
  <2>1. Kept(s, n) = <<n>>
    BY <1>2, KeptFacts
  <2> QED
    BY <1>2, <2>1 DEF After, IsWhole
<1>3. CASE ~ Sync(n) /\ s # <<>> /\ ~ IsWhole(s)
  <2>1. Kept(s, n)[1] = s[1]
    BY <1>3, KeptFacts
  <2> QED
    BY <1>3, <2>1 DEF After, IsWhole
<1>4. CASE ~ Sync(n) /\ IsWhole(s)
  <2>1. n.pos # 1 /\ n.pos - 1 \in Nat /\ s = Prefix(n.scan, Least(n.pos - 1, Room))
    BY <1>0, <1>4 DEF Before, Sync
  <2>2. Len(s) = Least(n.pos - 1, Room)
    BY <1>0, <2>1, LeastFacts, PrefixFacts
  <2>3. CASE n.pos - 1 >= Room
    <3>1. Least(n.pos - 1, Room) = Room /\ Least(n.pos, Room) = Room
      BY <1>0, <2>1, <2>3 DEF Least
    <3>2. Kept(s, n) = s
      BY <2>2, <3>1, KeptFacts
    <3> QED
      BY <1>0, <1>4, <2>1, <3>1, <3>2 DEF After
  <2>4. CASE n.pos - 1 < Room
    <3>1. Least(n.pos - 1, Room) = n.pos - 1 /\ Least(n.pos, Room) = n.pos
      BY <1>0, <2>1, <2>4 DEF Least
    <3>2. Kept(s, n) = Append(s, n)
      BY <1>0, <2>2, <2>4, <3>1, KeptFacts
    <3>3. Append(Prefix(n.scan, n.pos - 1), [scan |-> n.scan, pos |-> n.pos - 1 + 1])
          = Prefix(n.scan, n.pos - 1 + 1)
      BY <1>0, <2>1, PrefixAppend
    <3>4. n.pos - 1 + 1 = n.pos
      BY <1>0
    <3>5. Kept(s, n) = Prefix(n.scan, n.pos)
      BY <1>0, <2>1, <3>1, <3>2, <3>3, <3>4
    <3> QED
      BY <1>0, <1>4, <3>1, <3>5 DEF After
  <2> QED
    BY <1>0, <2>1, <2>3, <2>4
<1> QED
  BY <1>1, <1>2, <1>3, <1>4

(* Whole in terms of prefixes.                                             *)
LEMMA PrefixWhole ==
  ASSUME NEW s, NEW m \in 1 .. dev.scan - 1, NEW room \in Nat, NEW k \in Nat,
         lens[m] \in Nat, k = Least(Least(lens[m], Room), room), s = Prefix(m, k)
  PROVE  Whole(s, room)
<1>1. Room \in Nat /\ Room = MaxNodes - 1
  BY SizesAssumption DEF Room
<1>2. Min({lens[m], MaxNodes - 1, room}) = k
  BY <1>1, MinOfThree
<1>3. m \in Nat
  OBVIOUS
<1>4. Len(s) = k
  BY <1>3, PrefixFacts
<1> QED
  BY <1>2, <1>4 DEF Whole, Prefix

LEMMA WholeFacts ==
  ASSUME NEW s, NEW room \in Nat, lens \in [1 .. MaxScans -> 0 .. MaxLen],
         dev \in Node, Whole(s, room)
  PROVE  \E m \in 1 .. dev.scan - 1 : \E k \in Nat :
           /\ lens[m] \in Nat /\ k = Least(Least(lens[m], Room), room)
           /\ s = Prefix(m, k) /\ Len(s) = k
<1>1. PICK m \in 1 .. dev.scan - 1 :
        /\ s = [i \in 1 .. Len(s) |-> [scan |-> m, pos |-> i]]
        /\ Len(s) = Min({lens[m], MaxNodes - 1, room})
  BY DEF Whole
<1>2. Room \in Nat /\ Room = MaxNodes - 1 /\ MaxScans \in Nat /\ MaxLen \in Nat
  BY SizesAssumption DEF Room
<1>3. dev.scan \in 0 .. MaxScans
  BY NodeFacts
<1>4. m \in 1 .. MaxScans /\ lens[m] \in Nat
  BY <1>2, <1>3
<1>5. Len(s) = Least(Least(lens[m], Room), room)
  BY <1>1, <1>2, <1>4, MinOfThree
<1>6. Len(s) \in Nat
  BY <1>2, <1>4, <1>5, LeastFacts
<1> QED
  BY <1>1, <1>4, <1>5, <1>6 DEF Prefix

(* Types: one step of the program keeps them.                              *)
LEMMA ControlStep ==
  ASSUME ControlTypes, [Next]_vars
  PROVE  ControlTypes'
<1>1. CASE ReceiveSample
  BY <1>1
  DEF ReceiveSample, Reading, Received, portVars, clientVars, threadVars,
      devVars, ControlTypes
<1>2. CASE SampleTimeout
  BY <1>2
  DEF SampleTimeout, Reading, Received, portVars, clientVars, threadVars,
      devVars, ControlTypes
<1>3. CASE CallTimeout
  BY <1>3
  DEF CallTimeout, Reading, Received, portVars, clientVars, threadVars,
      devVars, ControlTypes
<1>4. CASE DeviceError
  BY <1>4
  DEF DeviceError, Reading, portVars, clientVars, threadVars, devVars,
      ControlTypes
<1>5. CASE LoopTop
  BY <1>5 DEF LoopTop, portVars, clientVars, threadVars, devVars, ControlTypes
<1>6. CASE Process
  BY <1>6 DEF Process, portVars, clientVars, threadVars, devVars, ControlTypes
<1>7. CASE PublishStore
  BY <1>7
  DEF PublishStore, portVars, clientVars, threadVars, devVars, ControlTypes
<1>8. CASE PublishSet
  BY <1>8
  DEF PublishSet, portVars, clientVars, threadVars, devVars, ControlTypes
<1>9. CASE Connect
  BY <1>9
  DEF Connect, CanCall, portVars, clientVars, threadVars, devVars, ControlTypes
<1>10. CASE StartScan
  BY <1>10
  DEF StartScan, CanCall, Call, portVars, clientVars, threadVars, devVars,
      ControlTypes
<1>11. CASE Disconnect
  BY <1>11
  DEF Disconnect, CanCall, Call, portVars, clientVars, threadVars, devVars,
      ControlTypes
<1>12. ASSUME NEW o \in {"query", "stop"}, Query(o)
      PROVE  ControlTypes'
  BY <1>12
  DEF Query, CanCall, Call, portVars, clientVars, threadVars, devVars,
      ControlTypes
<1>13. CASE Join
  BY <1>13 DEF Join, portVars, clientVars, threadVars, devVars, ControlTypes
<1>14. CASE Finish
  BY <1>14
  DEF Finish, Return, portVars, clientVars, threadVars, devVars, ControlTypes
<1>15. CASE StartThread
  BY <1>15
  DEF StartThread, Turned, Return, portVars, clientVars, threadVars, devVars,
      ControlTypes
<1>16. CASE StartFails
  BY <1>16
  DEF StartFails, Return, portVars, clientVars, threadVars, devVars,
      ControlTypes
<1>17. CASE Grab
  BY <1>17
  DEF Grab, CanCall, Call, portVars, clientVars, threadVars, devVars,
      ControlTypes
<1>18. CASE GrabEvent
  BY <1>18
  DEF GrabEvent, portVars, clientVars, threadVars, devVars, ControlTypes
<1>19. CASE GrabTimeout
  BY <1>19
  DEF GrabTimeout, Return, portVars, clientVars, threadVars, devVars,
      ControlTypes
<1>20. CASE GrabCount
  BY <1>20
  DEF GrabCount, Return, portVars, clientVars, threadVars, devVars, ControlTypes
<1>21. CASE GrabCopy
  BY <1>21
  DEF GrabCopy, Return, portVars, clientVars, threadVars, devVars, ControlTypes
<1>22. CASE UNCHANGED vars
  BY <1>22 DEF vars, portVars, clientVars, threadVars, devVars, ControlTypes
<1> QED
  BY <1>1, <1>2, <1>3, <1>4, <1>5, <1>6, <1>7, <1>8, <1>9, <1>10, <1>11, <1>12,
     <1>13, <1>14, <1>15, <1>16, <1>17, <1>18, <1>19, <1>20, <1>21, <1>22
  DEF Next, Thread, Client

(* RunInv: startScan joins the thread before it starts another.            *)
LEMMA RunStep ==
  ASSUME ControlTypes, RunInv, [Next]_vars
  PROVE  RunInv'
<1>1. CASE ReceiveSample
  BY <1>1, SizesAssumption
  DEF ReceiveSample, Reading, Received, portVars, clientVars, threadVars,
      devVars, RunInv
<1>2. CASE SampleTimeout
  BY <1>2, SizesAssumption
  DEF SampleTimeout, Reading, Received, portVars, clientVars, threadVars,
      devVars, RunInv
<1>3. CASE CallTimeout
  BY <1>3, SizesAssumption
  DEF CallTimeout, Reading, Received, portVars, clientVars, threadVars,
      devVars, RunInv
<1>4. CASE DeviceError
  BY <1>4, SizesAssumption
  DEF DeviceError, Reading, portVars, clientVars, threadVars, devVars, RunInv
<1>5. CASE LoopTop
  BY <1>5, SizesAssumption
  DEF LoopTop, portVars, clientVars, threadVars, devVars, RunInv
<1>6. CASE Process
  BY <1>6, SizesAssumption
  DEF Process, portVars, clientVars, threadVars, devVars, RunInv
<1>7. CASE PublishStore
  BY <1>7, SizesAssumption
  DEF PublishStore, portVars, clientVars, threadVars, devVars, RunInv
<1>8. CASE PublishSet
  BY <1>8, SizesAssumption
  DEF PublishSet, portVars, clientVars, threadVars, devVars, RunInv
<1>9. CASE Connect
  BY <1>9, SizesAssumption
  DEF Connect, CanCall, portVars, clientVars, threadVars, devVars, RunInv
<1>10. CASE StartScan
  BY <1>10, SizesAssumption
  DEF StartScan, CanCall, Call, portVars, clientVars, threadVars, devVars,
      RunInv
<1>11. CASE Disconnect
  BY <1>11, SizesAssumption
  DEF Disconnect, CanCall, Call, portVars, clientVars, threadVars, devVars,
      RunInv
<1>12. ASSUME NEW o \in {"query", "stop"}, Query(o)
      PROVE  RunInv'
  BY <1>12, SizesAssumption
  DEF Query, CanCall, Call, portVars, clientVars, threadVars, devVars, RunInv
<1>13. CASE Join
  BY <1>13, SizesAssumption
  DEF Join, portVars, clientVars, threadVars, devVars, RunInv, ControlTypes
<1>14. CASE Finish
  BY <1>14, SizesAssumption
  DEF Finish, Return, portVars, clientVars, threadVars, devVars, RunInv
<1>15. CASE StartThread
  BY <1>15, SizesAssumption
  DEF StartThread, Turned, Return, portVars, clientVars, threadVars, devVars,
      RunInv, ControlTypes
<1>16. CASE StartFails
  BY <1>16, SizesAssumption
  DEF StartFails, Return, portVars, clientVars, threadVars, devVars, RunInv
<1>17. CASE Grab
  BY <1>17, SizesAssumption
  DEF Grab, CanCall, Call, portVars, clientVars, threadVars, devVars, RunInv
<1>18. CASE GrabEvent
  BY <1>18, SizesAssumption
  DEF GrabEvent, portVars, clientVars, threadVars, devVars, RunInv
<1>19. CASE GrabTimeout
  BY <1>19, SizesAssumption
  DEF GrabTimeout, Return, portVars, clientVars, threadVars, devVars, RunInv
<1>20. CASE GrabCount
  BY <1>20, SizesAssumption
  DEF GrabCount, Return, portVars, clientVars, threadVars, devVars, RunInv
<1>21. CASE GrabCopy
  BY <1>21, SizesAssumption
  DEF GrabCopy, Return, portVars, clientVars, threadVars, devVars, RunInv
<1>22. CASE UNCHANGED vars
  BY <1>22, SizesAssumption
  DEF vars, portVars, clientVars, threadVars, devVars, RunInv
<1> QED
  BY <1>1, <1>2, <1>3, <1>4, <1>5, <1>6, <1>7, <1>8, <1>9, <1>10, <1>11, <1>12,
     <1>13, <1>14, <1>15, <1>16, <1>17, <1>18, <1>19, <1>20, <1>21, <1>22
  DEF Next, Thread, Client

(* The client leaves the thread and the device alone, except when it       *)
(* starts the thread.                                                      *)
LEMMA ThreadFrame ==
  ASSUME [Next]_vars
  PROVE  Thread \/ StartThread \/ UNCHANGED <<threadVars, devVars>>
BY
DEF Next, Client, vars, Connect, StartScan, Disconnect, Query, Join, Finish,
    StartFails,
       Grab, GrabEvent, GrabTimeout, GrabCount, GrabCopy

LEMMA SampleTypesStep ==
  ASSUME SampleTypes, PlaceInv, [Next]_vars
  PROVE  SampleTypes'
<1>1. CASE ReceiveSample
  <2>1. PICK n \in NextSamples : /\ dev' = n /\ lens' = [lens EXCEPT ![n.scan] = n.pos]
                               /\ buf' = [buf EXCEPT ![got + 1] = n]
    BY <1>1 DEF ReceiveSample
  <2>2. n \in Node
    BY DEF NextSamples
  <2>3. /\ got < cnt /\ got' = got + 1 /\ UNCHANGED <<cnt, pos, stalls>>
    BY <1>1 DEF ReceiveSample
  <2>4. n.pos \in 0 .. MaxLen /\ dev' \in Node
    BY <2>1, <2>2, NodeFacts
  <2>5. lens' \in [1 .. MaxScans -> 0 .. MaxLen] /\ buf' \in [1 .. BufSize -> Node]
    BY <2>1, <2>2, <2>4 DEF SampleTypes
  <2>6. /\ cnt' \in 1 .. BufSize /\ got' \in 0 .. cnt'
        /\ pos' \in 1 .. cnt' + 1 /\ stalls' \in BOOLEAN
    BY <2>3, SizesAssumption DEF SampleTypes
  <2> QED
    BY <2>4, <2>5, <2>6 DEF SampleTypes
<1>2. CASE SampleTimeout
  BY <1>2, SizesAssumption
  DEF SampleTimeout, Reading, Received, clientVars, devVars, SampleTypes
<1>3. CASE CallTimeout
  BY <1>3, SizesAssumption
  DEF CallTimeout, Reading, Received, clientVars, devVars, SampleTypes, PlaceInv
<1>4. CASE DeviceError
  BY <1>4, SizesAssumption
  DEF DeviceError, Reading, clientVars, devVars, SampleTypes
<1>5. CASE LoopTop
  BY <1>5, SizesAssumption DEF LoopTop, clientVars, devVars, SampleTypes
<1>6. CASE Process
  BY <1>6, SizesAssumption DEF Process, clientVars, devVars, SampleTypes
<1>7. CASE PublishStore
  BY <1>7, SizesAssumption DEF PublishStore, clientVars, devVars, SampleTypes
<1>8. CASE PublishSet
  BY <1>8, SizesAssumption
  DEF PublishSet, clientVars, devVars, SampleTypes, PlaceInv
<1>9. CASE StartThread
  <2>1. Junk \subseteq Node
    BY SizesAssumption DEF Junk, Node
  <2>2. dev' \in Node /\ lens' \in [1 .. MaxScans -> 0 .. MaxLen] /\ stalls' \in BOOLEAN
    <3>1. CASE UNCHANGED devVars
      BY <3>1 DEF devVars, SampleTypes
    <3>2. CASE ~ UNCHANGED devVars
      <4>1. /\ dev.scan < MaxScans /\ dev' = [scan |-> dev.scan + 1, pos |-> 1]
            /\ lens' = [lens EXCEPT ![dev.scan + 1] = 1] /\ UNCHANGED stalls
        BY <1>9, <3>2 DEF StartThread, Turned
      <4>2. dev.scan \in 0 .. MaxScans /\ 1 \in 0 .. MaxLen /\ dev.scan + 1 \in 0 .. MaxScans
        BY <4>1, NodeFacts, SizesAssumption DEF SampleTypes
      <4> QED
        BY <4>1, <4>2 DEF SampleTypes, Node
    <3> QED
      BY <3>1, <3>2
  <2>3. buf' \in [1 .. BufSize -> Node]
    BY <1>9, <2>1 DEF StartThread
  <2> QED
    BY <1>9, <2>2, <2>3, SizesAssumption DEF StartThread, SampleTypes
<1>10. CASE UNCHANGED <<threadVars, devVars>>
  BY <1>10, SizesAssumption DEF threadVars, devVars, SampleTypes
<1> QED
  BY <1>1, <1>2, <1>3, <1>4, <1>5, <1>6, <1>7, <1>8, <1>9, <1>10, ThreadFrame
  DEF Thread

(* The samples that the thread looks at are in local_buf.                  *)
LEMMA InBuffer ==
  ASSUME SampleTypes
  PROVE  \A i \in 1 .. cnt : buf[i] \in Node
BY SizesAssumption DEF SampleTypes

LEMMA ScanTypesStep ==
  ASSUME SampleTypes, PlaceInv, ScanTypes, [Next]_vars
  PROVE  ScanTypes'
<1>1. CASE ReceiveSample
  BY <1>1, SizesAssumption
  DEF ReceiveSample, Reading, Received, portVars, clientVars, threadVars,
      devVars, ScanTypes
<1>2. CASE SampleTimeout
  BY <1>2, SizesAssumption
  DEF SampleTimeout, Reading, Received, portVars, clientVars, threadVars,
      devVars, ScanTypes
<1>3. CASE CallTimeout
  BY <1>3, SizesAssumption
  DEF CallTimeout, Reading, Received, portVars, clientVars, threadVars,
      devVars, ScanTypes
<1>4. CASE DeviceError
  BY <1>4, SizesAssumption
  DEF DeviceError, Reading, portVars, clientVars, threadVars, devVars, ScanTypes
<1>5. CASE LoopTop
  BY <1>5, SizesAssumption
  DEF LoopTop, portVars, clientVars, threadVars, devVars, ScanTypes
<1>6. CASE Process
  <2>1. CASE scan' = scan
    BY <1>6, <2>1 DEF Process, ScanTypes
  <2>2. ASSUME scan' # scan
        PROVE  scan' = Kept(IF Sync(buf[pos]) THEN <<>> ELSE scan, buf[pos]) /\ pos <= cnt
    BY <1>6, <2>2 DEF Process, SampleTypes
  <2>3. <<>> \in Seq(Node) /\ Len(<<>>) < MaxNodes
    BY SizesAssumption
  <2>4. ASSUME scan' # scan
        PROVE  scan' \in Seq(Node) /\ Len(scan') < MaxNodes
    <3>1. buf[pos] \in Node
      BY <2>2, <2>4, InBuffer DEF SampleTypes
    <3>2. scan \in Seq(Node) /\ Len(scan) < MaxNodes
      BY DEF ScanTypes
    <3> QED
      BY <2>2, <2>3, <2>4, <3>1, <3>2, KeptFacts
  <2> QED
    BY <1>6, <2>1, <2>4 DEF Process, ScanTypes
<1>7. CASE PublishStore
  BY <1>7, SizesAssumption
  DEF PublishStore, portVars, clientVars, threadVars, devVars, ScanTypes
<1>8. CASE PublishSet
  <2>1. pos <= cnt /\ buf[pos] \in Node
    BY <1>8, InBuffer DEF PublishSet, PlaceInv, SampleTypes
  <2>2. <<>> \in Seq(Node) /\ Len(<<>>) < MaxNodes
    BY SizesAssumption
  <2>3. scan' \in Seq(Node) /\ Len(scan') < MaxNodes
    BY <1>8, <2>1, <2>2, KeptFacts DEF PublishSet
  <2> QED
    BY <1>8, <2>3 DEF PublishSet, ScanTypes
<1>9. CASE Connect
  BY <1>9, SizesAssumption
  DEF Connect, CanCall, portVars, clientVars, threadVars, devVars, ScanTypes
<1>10. CASE StartScan
  BY <1>10, SizesAssumption
  DEF StartScan, CanCall, Call, portVars, clientVars, threadVars, devVars,
      ScanTypes
<1>11. CASE Disconnect
  BY <1>11, SizesAssumption
  DEF Disconnect, CanCall, Call, portVars, clientVars, threadVars, devVars,
      ScanTypes
<1>12. ASSUME NEW o \in {"query", "stop"}, Query(o)
      PROVE  ScanTypes'
  BY <1>12, SizesAssumption
  DEF Query, CanCall, Call, portVars, clientVars, threadVars, devVars, ScanTypes
<1>13. CASE Join
  BY <1>13, SizesAssumption
  DEF Join, portVars, clientVars, threadVars, devVars, ScanTypes
<1>14. CASE Finish
  BY <1>14, SizesAssumption
  DEF Finish, Return, portVars, clientVars, threadVars, devVars, ScanTypes
<1>15. CASE StartThread
  BY <1>15, SizesAssumption
  DEF StartThread, Turned, Return, portVars, clientVars, threadVars, devVars,
      ScanTypes
<1>16. CASE StartFails
  BY <1>16, SizesAssumption
  DEF StartFails, Return, portVars, clientVars, threadVars, devVars, ScanTypes
<1>17. CASE Grab
  BY <1>17, SizesAssumption
  DEF Grab, CanCall, Call, portVars, clientVars, threadVars, devVars, ScanTypes
<1>18. CASE GrabEvent
  BY <1>18, SizesAssumption
  DEF GrabEvent, portVars, clientVars, threadVars, devVars, ScanTypes
<1>19. CASE GrabTimeout
  BY <1>19, SizesAssumption
  DEF GrabTimeout, Return, portVars, clientVars, threadVars, devVars, ScanTypes
<1>20. CASE GrabCount
  BY <1>20, SizesAssumption
  DEF GrabCount, Return, portVars, clientVars, threadVars, devVars, ScanTypes
<1>21. CASE GrabCopy
  BY <1>21, SizesAssumption
  DEF GrabCopy, Return, portVars, clientVars, threadVars, devVars, ScanTypes
<1>22. CASE UNCHANGED vars
  BY <1>22, SizesAssumption
  DEF vars, portVars, clientVars, threadVars, devVars, ScanTypes
<1> QED
  BY <1>1, <1>2, <1>3, <1>4, <1>5, <1>6, <1>7, <1>8, <1>9, <1>10, <1>11, <1>12,
     <1>13, <1>14, <1>15, <1>16, <1>17, <1>18, <1>19, <1>20, <1>21, <1>22
  DEF Next, Thread, Client

(* The beginning of a sequence, and what grabScanData copies.              *)
LEMMA FirstOf ==
  ASSUME NEW S, NEW s \in Seq(S), NEW k \in 1 .. Len(s)
  PROVE  /\ SubSeq(s, 1, k) \in Seq(S) /\ Len(SubSeq(s, 1, k)) = k
         /\ \A i \in 1 .. k : SubSeq(s, 1, k)[i] = s[i]
         /\ SubSeq(s, 1, k)[1] = s[1]
OBVIOUS

LEMMA Grabbed ==
  ASSUME ScanTypes, cached # <<>>, NEW k, k = Min({GrabSize, Len(cached)})
  PROVE  /\ k \in 0 .. GrabSize /\ k \in 1 .. Len(cached) /\ k = Least(GrabSize, Len(cached))
         /\ SubSeq(cached, 1, k) \in Seq(Node)
         /\ SubSeq(cached, 1, k) # <<>>
         /\ SubSeq(cached, 1, k)[1] = cached[1]
<1>1. GrabSize \in Nat /\ GrabSize > 0 /\ Len(cached) \in Nat /\ Len(cached) > 0
  BY SizesAssumption DEF ScanTypes
<1>2. k = Least(GrabSize, Len(cached))
  BY <1>1, MinFacts
<1>3. k \in 1 .. Len(cached) /\ k <= GrabSize
  BY <1>1, <1>2 DEF Least
<1>4. k \in Nat /\ 1 <= k /\ k <= Len(cached) /\ cached \in Seq(Node)
  BY <1>1, <1>3 DEF ScanTypes
<1>5. /\ SubSeq(cached, 1, k) \in Seq(Node) /\ Len(SubSeq(cached, 1, k)) = k
      /\ SubSeq(cached, 1, k)[1] = cached[1]
  BY <1>3, FirstOf DEF ScanTypes
<1>6. SubSeq(cached, 1, k) # <<>>
  BY <1>4, <1>5
<1>7. k \in 0 .. GrabSize
  BY <1>1, <1>3
<1> QED
  BY <1>2, <1>3, <1>5, <1>6, <1>7

LEMMA ResStep ==
  ASSUME ScanTypes, CacheInv, ResTypes, [Next]_vars
  PROVE  ResTypes'
<1>1. CASE ReceiveSample
  BY <1>1, SizesAssumption
  DEF ReceiveSample, Reading, Received, portVars, clientVars, threadVars,
      devVars, ResTypes
<1>2. CASE SampleTimeout
  BY <1>2, SizesAssumption
  DEF SampleTimeout, Reading, Received, portVars, clientVars, threadVars,
      devVars, ResTypes
<1>3. CASE CallTimeout
  BY <1>3, SizesAssumption
  DEF CallTimeout, Reading, Received, portVars, clientVars, threadVars,
      devVars, ResTypes
<1>4. CASE DeviceError
  BY <1>4, SizesAssumption
  DEF DeviceError, Reading, portVars, clientVars, threadVars, devVars, ResTypes
<1>5. CASE LoopTop
  BY <1>5, SizesAssumption
  DEF LoopTop, portVars, clientVars, threadVars, devVars, ResTypes
<1>6. CASE Process
  BY <1>6, SizesAssumption
  DEF Process, portVars, clientVars, threadVars, devVars, ResTypes
<1>7. CASE PublishStore
  BY <1>7, SizesAssumption
  DEF PublishStore, portVars, clientVars, threadVars, devVars, ResTypes
<1>8. CASE PublishSet
  BY <1>8, SizesAssumption
  DEF PublishSet, portVars, clientVars, threadVars, devVars, ResTypes
<1>9. CASE Connect
  BY <1>9, SizesAssumption
  DEF Connect, CanCall, portVars, clientVars, threadVars, devVars, ResTypes
<1>10. CASE StartScan
  BY <1>10, SizesAssumption
  DEF StartScan, CanCall, Call, portVars, clientVars, threadVars, devVars,
      ResTypes
<1>11. CASE Disconnect
  BY <1>11, SizesAssumption
  DEF Disconnect, CanCall, Call, portVars, clientVars, threadVars, devVars,
      ResTypes
<1>12. ASSUME NEW o \in {"query", "stop"}, Query(o)
      PROVE  ResTypes'
  BY <1>12, SizesAssumption
  DEF Query, CanCall, Call, portVars, clientVars, threadVars, devVars, ResTypes
<1>13. CASE Join
  BY <1>13, SizesAssumption
  DEF Join, portVars, clientVars, threadVars, devVars, ResTypes
<1>14. CASE Finish
  BY <1>14, SizesAssumption
  DEF Finish, Return, portVars, clientVars, threadVars, devVars, ResTypes
<1>15. CASE StartThread
  BY <1>15, SizesAssumption
  DEF StartThread, Turned, Return, portVars, clientVars, threadVars, devVars,
      ResTypes
<1>16. CASE StartFails
  BY <1>16, SizesAssumption
  DEF StartFails, Return, portVars, clientVars, threadVars, devVars, ResTypes
<1>17. CASE Grab
  BY <1>17, SizesAssumption
  DEF Grab, CanCall, Call, portVars, clientVars, threadVars, devVars, ResTypes
<1>18. CASE GrabEvent
  BY <1>18, SizesAssumption
  DEF GrabEvent, portVars, clientVars, threadVars, devVars, ResTypes
<1>19. CASE GrabTimeout
  BY <1>19, SizesAssumption
  DEF GrabTimeout, Return, portVars, clientVars, threadVars, devVars, ResTypes
<1>20. CASE GrabCount
  BY <1>20, SizesAssumption
  DEF GrabCount, Return, portVars, clientVars, threadVars, devVars, ResTypes
<1>21. CASE GrabCopy
  <2> DEFINE k == Min({GrabSize, Len(cached)})
  <2>1. cached # <<>> /\ Sync(cached[1])
    BY <1>21 DEF GrabCopy, CacheInv
  <2>2. /\ k \in 0 .. GrabSize /\ SubSeq(cached, 1, k) \in Seq(Node)
        /\ SubSeq(cached, 1, k) # <<>> /\ SubSeq(cached, 1, k)[1] = cached[1]
    BY <2>1, Grabbed
  <2>3. res' = [code |-> "ok", count |-> k, nodes |-> SubSeq(cached, 1, k)]
    BY <1>21 DEF GrabCopy
  <2> HIDE DEF k
  <2> QED
    BY <2>1, <2>2, <2>3 DEF ResTypes, Sync
<1>22. CASE UNCHANGED vars
  BY <1>22, SizesAssumption
  DEF vars, portVars, clientVars, threadVars, devVars, ResTypes
<1> QED
  BY <1>1, <1>2, <1>3, <1>4, <1>5, <1>6, <1>7, <1>8, <1>9, <1>10, <1>11, <1>12,
     <1>13, <1>14, <1>15, <1>16, <1>17, <1>18, <1>19, <1>20, <1>21, <1>22
  DEF Next, Thread, Client

(* What is published begins with a sync sample, at every place.            *)
LEMMA PlaceStep ==
  ASSUME SampleTypes, PlaceInv, [Next]_vars
  PROVE  PlaceInv'
<1>1. CASE ReceiveSample
  BY <1>1
  DEF ReceiveSample, Reading, Received, clientVars, devVars, PlaceInv, Reading
<1>2. CASE SampleTimeout
  BY <1>2
  DEF SampleTimeout, Reading, Received, clientVars, devVars, PlaceInv, Reading
<1>3. CASE CallTimeout
  BY <1>3
  DEF CallTimeout, Reading, Received, clientVars, devVars, PlaceInv, Reading
<1>4. CASE DeviceError
  BY <1>4 DEF DeviceError, Reading, clientVars, devVars, PlaceInv, Reading
<1>5. CASE LoopTop
  BY <1>5 DEF LoopTop, clientVars, devVars, PlaceInv, Reading
<1>6. CASE Process
  BY <1>6 DEF Process, clientVars, devVars, PlaceInv, Reading, SampleTypes
<1>7. CASE PublishStore
  BY <1>7 DEF PublishStore, clientVars, devVars, PlaceInv, Reading
<1>8. CASE PublishSet
  BY <1>8 DEF PublishSet, clientVars, devVars, PlaceInv, Reading
<1>9. CASE StartThread
  BY <1>9
  DEF StartThread, Turned, Return, clientVars, devVars, PlaceInv, Reading
<1>10. CASE UNCHANGED <<threadVars, devVars>>
  BY <1>10 DEF threadVars, devVars, PlaceInv, Reading
<1> QED
  BY <1>1, <1>2, <1>3, <1>4, <1>5, <1>6, <1>7, <1>8, <1>9, <1>10, ThreadFrame
  DEF Thread

(* A scan in the cache has its event.                                      *)
LEMMA CacheStep ==
  ASSUME ControlTypes, RunInv, PlaceInv, CacheInv, [Next]_vars
  PROVE  CacheInv'
<1>1. CASE ReceiveSample
  BY <1>1, SizesAssumption
  DEF ReceiveSample, Reading, Received, portVars, clientVars, threadVars,
      devVars, CacheInv
<1>2. CASE SampleTimeout
  BY <1>2, SizesAssumption
  DEF SampleTimeout, Reading, Received, portVars, clientVars, threadVars,
      devVars, CacheInv
<1>3. CASE CallTimeout
  BY <1>3, SizesAssumption
  DEF CallTimeout, Reading, Received, portVars, clientVars, threadVars,
      devVars, CacheInv
<1>4. CASE DeviceError
  BY <1>4, SizesAssumption
  DEF DeviceError, Reading, portVars, clientVars, threadVars, devVars, CacheInv
<1>5. CASE LoopTop
  BY <1>5, SizesAssumption
  DEF LoopTop, portVars, clientVars, threadVars, devVars, CacheInv
<1>6. CASE Process
  BY <1>6, SizesAssumption
  DEF Process, portVars, clientVars, threadVars, devVars, CacheInv
<1>7. CASE PublishStore
  BY <1>7, SizesAssumption
  DEF PublishStore, portVars, clientVars, threadVars, devVars, CacheInv,
      PlaceInv, IsWhole
<1>8. CASE PublishSet
  BY <1>8, SizesAssumption
  DEF PublishSet, portVars, clientVars, threadVars, devVars, CacheInv
<1>9. CASE Connect
  BY <1>9, SizesAssumption
  DEF Connect, CanCall, portVars, clientVars, threadVars, devVars, CacheInv
<1>10. CASE StartScan
  BY <1>10, SizesAssumption
  DEF StartScan, CanCall, Call, portVars, clientVars, threadVars, devVars,
      CacheInv
<1>11. CASE Disconnect
  BY <1>11, SizesAssumption
  DEF Disconnect, CanCall, Call, portVars, clientVars, threadVars, devVars,
      CacheInv
<1>12. ASSUME NEW o \in {"query", "stop"}, Query(o)
      PROVE  CacheInv'
  BY <1>12, SizesAssumption
  DEF Query, CanCall, Call, portVars, clientVars, threadVars, devVars, CacheInv
<1>13. CASE Join
  BY <1>13, SizesAssumption
  DEF Join, portVars, clientVars, threadVars, devVars, CacheInv
<1>14. CASE Finish
  BY <1>14, SizesAssumption
  DEF Finish, Return, portVars, clientVars, threadVars, devVars, CacheInv
<1>15. CASE StartThread
  BY <1>15, SizesAssumption
  DEF StartThread, Turned, Return, portVars, clientVars, threadVars, devVars,
      CacheInv, RunInv
<1>16. CASE StartFails
  BY <1>16, SizesAssumption
  DEF StartFails, Return, portVars, clientVars, threadVars, devVars, CacheInv
<1>17. CASE Grab
  BY <1>17, SizesAssumption
  DEF Grab, CanCall, Call, portVars, clientVars, threadVars, devVars, CacheInv
<1>18. CASE GrabEvent
  BY <1>18, SizesAssumption
  DEF GrabEvent, portVars, clientVars, threadVars, devVars, CacheInv
<1>19. CASE GrabTimeout
  BY <1>19, SizesAssumption
  DEF GrabTimeout, Return, portVars, clientVars, threadVars, devVars, CacheInv
<1>20. CASE GrabCount
  BY <1>20, SizesAssumption
  DEF GrabCount, Return, portVars, clientVars, threadVars, devVars, CacheInv
<1>21. CASE GrabCopy
  BY <1>21, SizesAssumption
  DEF GrabCopy, Return, portVars, clientVars, threadVars, devVars, CacheInv
<1>22. CASE UNCHANGED vars
  BY <1>22, SizesAssumption
  DEF vars, portVars, clientVars, threadVars, devVars, CacheInv
<1> QED
  BY <1>1, <1>2, <1>3, <1>4, <1>5, <1>6, <1>7, <1>8, <1>9, <1>10, <1>11, <1>12,
     <1>13, <1>14, <1>15, <1>16, <1>17, <1>18, <1>19, <1>20, <1>21, <1>22
  DEF Next, Thread, Client

(* The beginning of a scan is the beginning of its beginning.              *)
LEMMA PrefixFirst ==
  ASSUME NEW m \in Nat, NEW l \in Nat, NEW k \in 1 .. l
  PROVE  SubSeq(Prefix(m, l), 1, k) = Prefix(m, k)
<1> DEFINE T == [scan : {m}, pos : Nat]
           p == Prefix(m, l)
           q == Prefix(m, k)
<1>1. k \in Nat /\ k <= l
  OBVIOUS
<1>2. /\ p \in Seq(T) /\ Len(p) = l
      /\ \A i \in 1 .. l : p[i] = [scan |-> m, pos |-> i]
  BY PrefixFacts
<1>3. /\ q \in Seq(T) /\ Len(q) = k
      /\ \A i \in 1 .. k : q[i] = [scan |-> m, pos |-> i]
  BY <1>1, PrefixFacts
<1> HIDE DEF T, p, q
<1>4. /\ SubSeq(p, 1, k) \in Seq(T) /\ Len(SubSeq(p, 1, k)) = k
      /\ \A i \in 1 .. k : SubSeq(p, 1, k)[i] = p[i]
  BY <1>2, FirstOf
<1>5. \A i \in 1 .. k : p[i] = q[i]
  BY <1>1, <1>2, <1>3
<1>6. SubSeq(p, 1, k) = q
  BY <1>3, <1>4, <1>5, SeqEqual
<1> QED
  BY <1>6 DEF p, q

(* A sample that is received: the next one of the device.                  *)
LEMMA SampleReceived ==
  ASSUME SampleTypes, DevInv, ReceiveSample
  PROVE  /\ dev' \in Node /\ dev'.scan \in 1 .. MaxScans /\ dev'.pos > 0
         /\ dev.scan <= dev'.scan
         /\ lens' = [lens EXCEPT ![dev'.scan] = dev'.pos]
         /\ buf' = [buf EXCEPT ![got + 1] = dev'] /\ got' = got + 1 /\ got < cnt
         /\ UNCHANGED <<cnt, pos, scan, stalls, cached, res>>
         /\ lens'[dev'.scan] = dev'.pos
         /\ \A m \in 1 .. dev.scan - 1 : lens'[m] = lens[m]
         /\ dev'.pos = 1 /\ dev.scan > 0 =>
              dev'.scan = dev.scan + 1 /\ lens'[dev.scan] = dev.pos
         /\ dev'.pos # 1 =>
              dev.scan > 0 /\ dev'.scan = dev.scan /\ dev'.pos = dev.pos + 1
         /\ cpc = "first" => cpc' \in {"first", "loop"}
         /\ cpc # "first" => cpc = "read" /\ cpc' = IF got + 1 = cnt THEN "process" ELSE "read"
<1>1. PICK n \in NextSamples : /\ dev' = n /\ lens' = [lens EXCEPT ![n.scan] = n.pos]
                               /\ buf' = [buf EXCEPT ![got + 1] = n]
  BY DEF ReceiveSample
<1>2. /\ n \in Node
      /\ \/ n.scan = dev.scan /\ n.pos = dev.pos + 1 /\ dev.scan > 0
         \/ n.scan = dev.scan + 1 /\ n.pos = 1
  BY DEF NextSamples
<1>3. /\ n.scan \in 0 .. MaxScans /\ n.pos \in 0 .. MaxLen
      /\ dev.scan \in 0 .. MaxScans /\ dev.pos \in 0 .. MaxLen
      /\ MaxScans \in Nat /\ MaxLen \in Nat
  BY <1>2, NodeFacts, SizesAssumption DEF SampleTypes
<1>4. /\ dev.scan > 0 => dev.pos > 0 /\ lens[dev.scan] = dev.pos
      /\ lens \in [1 .. MaxScans -> 0 .. MaxLen]
  BY DEF DevInv, SampleTypes
<1>5. n.scan \in 1 .. MaxScans /\ n.pos > 0 /\ dev.scan <= n.scan
  BY <1>2, <1>3, <1>4
<1>6. /\ lens'[n.scan] = n.pos
      /\ \A m \in 1 .. dev.scan - 1 : lens'[m] = lens[m]
      /\ n.pos = 1 /\ dev.scan > 0 => n.scan = dev.scan + 1 /\ lens'[dev.scan] = dev.pos
      /\ n.pos # 1 => dev.scan > 0 /\ n.scan = dev.scan /\ n.pos = dev.pos + 1
  BY <1>1, <1>2, <1>3, <1>4, <1>5
<1>7. /\ got' = got + 1 /\ got < cnt
      /\ UNCHANGED <<cnt, pos, scan, stalls, cached, res>>
  BY DEF ReceiveSample, clientVars
<1>8. /\ cpc = "first" => cpc' \in {"first", "loop"}
      /\ cpc # "first" => cpc = "read" /\ cpc' = IF got + 1 = cnt THEN "process" ELSE "read"
  BY DEF ReceiveSample, Reading, Received
<1> QED
  BY <1>1, <1>2, <1>5, <1>6, <1>7, <1>8

(* The device: it goes on, and scans that are over stay as they are.       *)
LEMMA DevStep ==
  ASSUME SampleTypes, DevInv, [Next]_vars
  PROVE  DevInv'
<1>1. CASE ReceiveSample
  <2>1. dev'.scan > 0 /\ dev'.pos > 0 /\ lens'[dev'.scan] = dev'.pos
    BY <1>1, SampleReceived
  <2> QED
    BY <2>1 DEF DevInv
<1>2. CASE SampleTimeout
  BY <1>2 DEF SampleTimeout, Reading, Received, clientVars, devVars, DevInv
<1>3. CASE CallTimeout
  BY <1>3 DEF CallTimeout, Reading, Received, clientVars, devVars, DevInv
<1>4. CASE DeviceError
  BY <1>4 DEF DeviceError, Reading, clientVars, devVars, DevInv
<1>5. CASE LoopTop
  BY <1>5 DEF LoopTop, clientVars, devVars, DevInv
<1>6. CASE Process
  BY <1>6 DEF Process, clientVars, devVars, DevInv
<1>7. CASE PublishStore
  BY <1>7 DEF PublishStore, clientVars, devVars, DevInv
<1>8. CASE PublishSet
  BY <1>8 DEF PublishSet, clientVars, devVars, DevInv
<1>9. CASE StartThread
  <2>1. CASE UNCHANGED devVars
    BY <2>1 DEF devVars, DevInv
  <2>2. CASE ~ UNCHANGED devVars
    <3>1. /\ dev.scan < MaxScans /\ dev' = [scan |-> dev.scan + 1, pos |-> 1]
          /\ lens' = [lens EXCEPT ![dev.scan + 1] = 1]
      BY <1>9, <2>2 DEF StartThread, Turned
    <3>2. dev.scan + 1 \in 1 .. MaxScans
      BY <3>1, NodeFacts, SizesAssumption DEF SampleTypes
    <3> QED
      BY <3>1, <3>2 DEF DevInv, SampleTypes
  <2> QED
    BY <2>1, <2>2
<1>10. CASE UNCHANGED <<threadVars, devVars>>
  BY <1>10 DEF threadVars, devVars, DevInv
<1> QED
  BY <1>1, <1>2, <1>3, <1>4, <1>5, <1>6, <1>7, <1>8, <1>9, <1>10, ThreadFrame
  DEF Thread

LEMMA DeviceMoves ==
  ASSUME SampleTypes, DevInv, [Next]_vars
  PROVE  /\ dev.scan <= dev'.scan
         /\ \A m \in 1 .. dev.scan - 1 : lens'[m] = lens[m]
<1>1. CASE ReceiveSample
  BY <1>1, SampleReceived
<1>2. CASE SampleTimeout
  BY <1>2, NodeFacts
  DEF SampleTimeout, Reading, Received, clientVars, devVars, SampleTypes
<1>3. CASE CallTimeout
  BY <1>3, NodeFacts
  DEF CallTimeout, Reading, Received, clientVars, devVars, SampleTypes
<1>4. CASE DeviceError
  BY <1>4, NodeFacts DEF DeviceError, Reading, clientVars, devVars, SampleTypes
<1>5. CASE LoopTop
  BY <1>5, NodeFacts DEF LoopTop, clientVars, devVars, SampleTypes
<1>6. CASE Process
  BY <1>6, NodeFacts DEF Process, clientVars, devVars, SampleTypes
<1>7. CASE PublishStore
  BY <1>7, NodeFacts DEF PublishStore, clientVars, devVars, SampleTypes
<1>8. CASE PublishSet
  BY <1>8, NodeFacts DEF PublishSet, clientVars, devVars, SampleTypes
<1>9. CASE StartThread
  <2>1. CASE UNCHANGED devVars
    BY <2>1, NodeFacts DEF devVars, SampleTypes
  <2>2. CASE ~ UNCHANGED devVars
    <3>1. /\ dev.scan < MaxScans /\ dev' = [scan |-> dev.scan + 1, pos |-> 1]
          /\ lens' = [lens EXCEPT ![dev.scan + 1] = 1]
      BY <1>9, <2>2 DEF StartThread, Turned
    <3>2. dev.scan + 1 \in 1 .. MaxScans /\ dev.scan \in Nat
      BY <3>1, NodeFacts, SizesAssumption DEF SampleTypes
    <3> QED
      BY <3>1, <3>2 DEF SampleTypes
  <2> QED
    BY <2>1, <2>2
<1>10. CASE UNCHANGED <<threadVars, devVars>>
  BY <1>10, NodeFacts DEF threadVars, devVars, SampleTypes
<1> QED
  BY <1>1, <1>2, <1>3, <1>4, <1>5, <1>6, <1>7, <1>8, <1>9, <1>10, ThreadFrame
  DEF Thread

(* The samples in local_buf follow each other.                             *)
LEMMA BufStep ==
  ASSUME ~ stalls, SampleTypes, DevInv, BufInv, [Next]_vars
  PROVE  BufInv'
<1>1. CASE ReceiveSample
  <2>0. cpc = "first" => ~ Busy'
    BY <1>1, SampleReceived DEF Busy
  <2> SUFFICES ASSUME cpc # "first"
               PROVE  BufInv'
    BY <2>0 DEF BufInv
  <2>1. /\ cpc = "read" /\ got \in Nat /\ got + 1 <= BufSize /\ got' = got + 1 /\ cnt' = cnt
        /\ buf' = [buf EXCEPT ![got + 1] = dev'] /\ dev'.scan \in 1 .. MaxScans
        /\ dev'.pos > 0 /\ dev.scan <= dev'.scan /\ dev.scan \in Nat /\ dev'.scan \in Nat
        /\ cpc' # "read" => got' = cnt'
    <3>1. /\ got' = got + 1 /\ got < cnt /\ cnt' = cnt /\ cpc = "read"
          /\ buf' = [buf EXCEPT ![got + 1] = dev'] /\ dev'.scan \in 1 .. MaxScans
          /\ dev'.pos > 0 /\ dev.scan <= dev'.scan
          /\ cpc' = IF got + 1 = cnt THEN "process" ELSE "read"
      BY <1>1, SampleReceived
    <3>2. /\ got \in 0 .. cnt /\ cnt \in 1 .. BufSize /\ BufSize \in Nat
          /\ dev.scan \in Nat
      BY NodeFacts, SizesAssumption DEF SampleTypes
    <3>3. got + 1 <= BufSize /\ dev'.scan \in Nat /\ got \in Nat
      BY <3>1, <3>2, SizesAssumption
    <3> QED
      BY <3>1, <3>2, <3>3
  <2>2. /\ buf'[got + 1] = dev'
        /\ \A i \in 1 .. got : buf'[i] = buf[i]
    BY <2>1 DEF SampleTypes
  <2>3. /\ \A i \in 1 .. got : buf[i].scan \in 1 .. dev.scan /\ buf[i].pos > 0
        /\ \A i \in 1 .. got, j \in 1 .. got : i <= j => buf[i].scan <= buf[j].scan
        /\ \A i \in 1 .. got - 1 : Follows(buf[i], buf[i + 1])
        /\ got > 0 => buf[got] = dev
    BY <2>1 DEF BufInv, Busy
  <2>4. \A i \in 1 .. got' : buf'[i].scan \in 1 .. dev'.scan /\ buf'[i].pos > 0
    BY <2>1, <2>2, <2>3
  <2>5. \A i \in 1 .. got', j \in 1 .. got' : i <= j => buf'[i].scan <= buf'[j].scan
    BY <2>1, <2>2, <2>3
  <2>6. \A i \in 1 .. got' - 1 : Follows(buf[i], buf[i + 1])'
    <3> SUFFICES ASSUME NEW i \in 1 .. got
                 PROVE  Follows(buf[i], buf[i + 1])'
      BY <2>1
    <3>1. CASE i < got
      <4>1. /\ i \in 1 .. got - 1 /\ i + 1 \in 1 .. got
            /\ buf'[i] = buf[i] /\ buf'[i + 1] = buf[i + 1]
        BY <2>1, <2>2, <3>1
      <4>2. /\ Follows(buf[i], buf[i + 1]) /\ buf[i + 1].scan <= dev.scan
            /\ buf[i].scan \in 1 .. dev.scan
        BY <2>3, <4>1
      <4>3. \A m \in 1 .. dev.scan - 1 : lens'[m] = lens[m]
        BY <1>1, SampleReceived
      <4>4. buf[i + 1].scan = buf[i].scan + 1 => lens'[buf[i].scan] = lens[buf[i].scan]
        BY <2>1, <4>2, <4>3
      <4> QED
        BY <4>1, <4>2, <4>4 DEF Follows
    <3>2. CASE i = got
      <4>1. buf'[i] = dev /\ buf'[i + 1] = dev' /\ dev.scan > 0
        BY <2>1, <2>2, <2>3, <3>2
      <4>2. \/ dev'.scan = dev.scan /\ dev'.pos = dev.pos + 1
            \/ dev'.scan = dev.scan + 1 /\ dev'.pos = 1 /\ lens'[dev.scan] = dev.pos
        BY <1>1, <4>1, SampleReceived
      <4> QED
        BY <4>1, <4>2 DEF Follows
    <3> QED
      BY <2>1, <3>1, <3>2
  <2> QED
    BY <2>1, <2>2, <2>4, <2>5, <2>6 DEF BufInv
<1>2. CASE SampleTimeout
  BY <1>2
  DEF SampleTimeout, Reading, Received, clientVars, devVars, BufInv, Busy,
      Follows
<1>3. CASE CallTimeout
  BY <1>3
  DEF CallTimeout, Reading, Received, clientVars, devVars, BufInv, Busy, Follows
<1>4. CASE DeviceError
  BY <1>4 DEF DeviceError, Reading, clientVars, devVars, BufInv, Busy, Follows
<1>5. CASE LoopTop
  BY <1>5 DEF LoopTop, clientVars, devVars, BufInv, Busy, Follows
<1>6. CASE Process
  BY <1>6 DEF Process, clientVars, devVars, BufInv, Busy, Follows
<1>7. CASE PublishStore
  BY <1>7 DEF PublishStore, clientVars, devVars, BufInv, Busy, Follows
<1>8. CASE PublishSet
  BY <1>8 DEF PublishSet, clientVars, devVars, BufInv, Busy, Follows
<1>9. CASE StartThread
  BY <1>9
  DEF StartThread, Turned, Return, clientVars, devVars, BufInv, Busy, Follows
<1>10. CASE UNCHANGED <<threadVars, devVars>>
  BY <1>10 DEF threadVars, devVars, BufInv, Busy, Follows
<1> QED
  BY <1>1, <1>2, <1>3, <1>4, <1>5, <1>6, <1>7, <1>8, <1>9, <1>10, ThreadFrame
  DEF Thread

(* From one sample to the next.                                            *)
LEMMA AfterBefore ==
  ASSUME NEW s, NEW n \in Node, NEW m \in Node, n.pos > 0, After(s, n),
         Follows(n, m)
  PROVE  Before(s, m)
<1>1. /\ n.scan \in Nat /\ n.pos \in Nat /\ m.scan \in Nat /\ m.pos \in Nat
  BY NodeFacts
<1> SUFFICES ASSUME IsWhole(s)
             PROVE  IF m.pos = 1
                    THEN m.scan > 1 /\ s = Prefix(m.scan - 1, Least(lens[m.scan - 1], Room))
                    ELSE s = Prefix(m.scan, Least(m.pos - 1, Room))
  BY DEF Before
<1>2. n.scan > 0 /\ s = Prefix(n.scan, Least(n.pos, Room))
  BY DEF After
<1>3. CASE m.scan = n.scan /\ m.pos = n.pos + 1
  <2>1. m.pos # 1 /\ m.pos - 1 = n.pos
    BY <1>1, <1>3
  <2> QED
    BY <1>2, <1>3, <2>1
<1>4. CASE m.scan = n.scan + 1 /\ m.pos = 1 /\ lens[n.scan] = n.pos
  <2>1. m.scan > 1 /\ m.scan - 1 = n.scan
    BY <1>1, <1>2, <1>4
  <2> QED
    BY <1>2, <1>4, <2>1
<1> QED
  BY <1>3, <1>4 DEF Follows

LEMMA Advanced ==
  ASSUME ~ stalls, SampleTypes, BufInv, cpc \in {"process", "set"}, pos <= cnt,
         After(scan', buf[pos]), pos' = pos + 1, cpc' = "process",
         UNCHANGED <<buf, cnt, got, devVars>>
  PROVE  LocalInv'
<1>1. /\ got = cnt /\ buf[got] = dev /\ pos \in 1 .. cnt /\ cnt \in 1 .. BufSize
      /\ \A i \in 1 .. cnt : buf[i].pos > 0 /\ buf[i] \in Node
      /\ \A i \in 1 .. cnt - 1 : Follows(buf[i], buf[i + 1])
  BY InBuffer, SizesAssumption DEF BufInv, Busy, SampleTypes
<1>2. CASE pos = cnt
  <2>1. After(scan', dev)
    BY <1>1, <1>2
  <2> QED
    BY <1>1, <1>2, <2>1 DEF LocalInv, devVars, After
<1>3. CASE pos < cnt
  <2>1. pos \in 1 .. cnt - 1 /\ pos + 1 \in 1 .. cnt
    BY <1>1, <1>3
  <2>2. Before(scan', buf[pos + 1])
    BY <1>1, <2>1, AfterBefore
  <2>3. Before(scan, buf[pos])'
    BY <2>2 DEF Before, devVars
  <2> QED
    BY <1>1, <1>3, <2>3 DEF LocalInv
<1> QED
  BY <1>1, <1>2, <1>3

(* local_scan: all samples of its scan that were received.                 *)
LEMMA LocalStep ==
  ASSUME ~ stalls, SampleTypes, ScanTypes, PlaceInv, DevInv, BufInv, LocalInv,
         [Next]_vars
  PROVE  LocalInv'
<1>1. CASE ReceiveSample
  <2>1. CASE cpc = "first"
    <3>1. scan = <<>> /\ scan' = scan /\ cpc' \in {"first", "loop"}
      BY <1>1, <2>1, SampleReceived DEF LocalInv
    <3> QED
      BY <3>1 DEF LocalInv, After, IsWhole
  <2>2. CASE cpc # "first"
    <3>1. /\ cpc = "read" /\ cpc' \in {"read", "process"} /\ got' > 0 /\ pos' = 1
          /\ cnt' \in Nat /\ cnt' > 0 /\ got' \in Nat
          /\ got \in 0 .. BufSize - 1 /\ BufSize \in Nat /\ scan' = scan
          /\ buf' = [buf EXCEPT ![got + 1] = dev']
      BY <1>1, <2>2, SampleReceived, SizesAssumption
      DEF SampleTypes, PlaceInv, Reading
    <3>2. CASE got = 0
      <4>1. buf'[1] = dev' /\ After(scan, dev)
        BY <3>1, <3>2 DEF LocalInv, SampleTypes
      <4>2. Before(scan, dev)'
        <5>1. SUFFICES ASSUME IsWhole(scan)
                       PROVE  IF dev'.pos = 1
                              THEN /\ dev'.scan > 1
                                   /\ scan = Prefix(dev'.scan - 1,
                                                    Least(lens'[dev'.scan - 1], Room))
                              ELSE scan = Prefix(dev'.scan, Least(dev'.pos - 1, Room))
          BY <3>1 DEF Before
        <5>2. dev.scan > 0 /\ scan = Prefix(dev.scan, Least(dev.pos, Room))
              /\ dev.scan \in Nat /\ dev.pos \in Nat
          BY <4>1, <5>1, NodeFacts DEF After, SampleTypes
        <5>3. CASE dev'.pos = 1
          <6>1. dev'.scan = dev.scan + 1 /\ lens'[dev.scan] = dev.pos
            BY <1>1, <5>2, <5>3, SampleReceived
          <6>2. dev'.scan - 1 = dev.scan /\ dev'.scan > 1
            BY <5>2, <6>1
          <6> QED
            BY <5>2, <5>3, <6>1, <6>2
        <5>4. CASE dev'.pos # 1
          <6>1. dev'.scan = dev.scan /\ dev'.pos - 1 = dev.pos
            BY <1>1, <5>2, <5>4, SampleReceived
          <6> QED
            BY <5>2, <5>4, <6>1
        <5> QED
          BY <5>3, <5>4
      <4>3. Before(scan, buf[pos])' /\ Before(scan, buf[1])'
        BY <3>1, <4>1, <4>2 DEF Before
      <4> QED
        BY <3>1, <4>3 DEF LocalInv
    <3>3. CASE got > 0
      <4>1. /\ buf'[1] = buf[1] /\ buf[1].scan \in 1 .. dev.scan /\ Before(scan, buf[1])
        BY <3>1, <3>3 DEF LocalInv, SampleTypes, BufInv, Busy
      <4>2. \A m \in 1 .. dev.scan - 1 : lens'[m] = lens[m]
        BY <1>1, SampleReceived
      <4>3. buf[1].scan > 1 => lens'[buf[1].scan - 1] = lens[buf[1].scan - 1]
        <5>1. dev.scan \in Nat
          BY NodeFacts DEF SampleTypes
        <5>2. buf[1].scan > 1 => buf[1].scan - 1 \in 1 .. dev.scan - 1
          BY <4>1, <5>1
        <5> QED
          BY <4>2, <5>2
      <4>4. Before(scan, buf[pos])' /\ Before(scan, buf[1])'
        BY <3>1, <4>1, <4>3 DEF Before
      <4> QED
        BY <3>1, <4>4 DEF LocalInv
    <3> QED
      BY <3>1, <3>2, <3>3
  <2> QED
    BY <2>1, <2>2
<1>2. CASE SampleTimeout
  BY <1>2
  DEF SampleTimeout, Reading, Received, clientVars, devVars, LocalInv, After,
      Before
<1>3. CASE CallTimeout
  BY <1>3
  DEF CallTimeout, Reading, Received, clientVars, devVars, LocalInv, After,
      Before
<1>4. CASE DeviceError
  BY <1>4
  DEF DeviceError, Reading, clientVars, devVars, LocalInv, After, IsWhole
<1>5. CASE LoopTop
  BY <1>5 DEF LoopTop, clientVars, devVars, LocalInv, After, Before
<1>6. CASE Process
  <2>1. CASE pos > cnt
    BY <1>6, <2>1 DEF Process, LocalInv, After, devVars
  <2>2. CASE pos <= cnt /\ Sync(buf[pos]) /\ IsWhole(scan)
    <3>1. Before(scan, buf[pos]) /\ cpc' = "store"
      BY <1>6, <2>2 DEF Process, LocalInv, SampleTypes
    <3>2. Before(scan, buf[pos])'
      BY <1>6, <2>2, <3>1 DEF Process, Before, devVars
    <3> QED
      BY <3>1, <3>2 DEF LocalInv
  <2>3. CASE pos <= cnt /\ ~ (Sync(buf[pos]) /\ IsWhole(scan))
    <3>1. /\ scan' = Kept(IF Sync(buf[pos]) THEN <<>> ELSE scan, buf[pos])
          /\ pos' = pos + 1 /\ cpc' = "process"
          /\ UNCHANGED <<buf, cnt, got, devVars>>
      BY <1>6, <2>3 DEF Process, SampleTypes
    <3>2. /\ buf[pos] \in Node /\ buf[pos].scan > 0 /\ buf[pos].pos > 0
          /\ Before(scan, buf[pos])
      <4>1. pos \in 1 .. cnt /\ got = cnt /\ buf[pos] \in Node
        BY <1>6, <2>3, InBuffer DEF BufInv, Busy, SampleTypes, Process
      <4>2. buf[pos].scan \in 1 .. dev.scan /\ buf[pos].pos > 0
        BY <1>6, <4>1 DEF BufInv, Busy, Process
      <4>3. Before(scan, buf[pos])
        <5>1. ~ (pos > cnt) /\ cpc = "process"
          BY <1>6, <4>1, SizesAssumption DEF Process, SampleTypes
        <5> QED
          BY <5>1 DEF LocalInv
      <4> QED
        BY <4>1, <4>2, <4>3, NodeFacts
    <3>3. After(scan', buf[pos])
      BY <2>3, <3>1, <3>2, Processed DEF ScanTypes
    <3>4. cpc = "process"
      BY <1>6 DEF Process
    <3> QED
      BY <2>3, <3>1, <3>3, <3>4, Advanced
  <2>4. pos \in Nat /\ cnt \in Nat
    BY SizesAssumption DEF SampleTypes
  <2> QED
    BY <2>1, <2>2, <2>3, <2>4
<1>7. CASE PublishStore
  BY <1>7 DEF PublishStore, clientVars, devVars, LocalInv, After, Before
<1>8. CASE PublishSet
  <2>1. /\ pos <= cnt /\ Sync(buf[pos]) /\ cpc = "set" /\ cpc' = "process" /\ pos' = pos + 1
        /\ scan' = Kept(<<>>, buf[pos]) /\ UNCHANGED <<buf, cnt, got, devVars>>
    BY <1>8 DEF PublishSet, PlaceInv
  <2>2. pos \in 1 .. cnt /\ got = cnt /\ buf[pos] \in Node
    BY <2>1, InBuffer DEF BufInv, Busy, SampleTypes
  <2>3. buf[pos].scan \in 1 .. dev.scan /\ buf[pos].pos > 0
    BY <2>1, <2>2 DEF BufInv, Busy
  <2>4. /\ <<>> \in Seq(Node) /\ Len(<<>>) < MaxNodes /\ ~ IsWhole(<<>>)
        /\ buf[pos].scan > 0
    BY <2>2, <2>3, NodeFacts, SizesAssumption DEF IsWhole
  <2>5. Before(<<>>, buf[pos])
    BY <2>4 DEF Before
  <2>6. After(scan', buf[pos])
    BY <2>1, <2>2, <2>3, <2>4, <2>5, Processed
  <2> QED
    BY <2>1, <2>6, Advanced
<1>9. CASE StartThread
  BY <1>9
  DEF StartThread, Turned, Return, clientVars, devVars, LocalInv, After, Before
<1>10. CASE UNCHANGED <<threadVars, devVars>>
  BY <1>10 DEF threadVars, devVars, LocalInv, After, Before
<1> QED
  BY <1>1, <1>2, <1>3, <1>4, <1>5, <1>6, <1>7, <1>8, <1>9, <1>10, ThreadFrame
  DEF Thread

(* Only two steps hand out a scan.                                         *)
LEMMA HandsOut ==
  ASSUME [Next]_vars
  PROVE  \/ PublishStore \/ GrabCopy
         \/ cached' = cached /\ (res' = res \/ res'.code = "timeout")
<1>1. CASE ReceiveSample
  BY <1>1
  DEF ReceiveSample, Reading, Received, portVars, clientVars, threadVars,
      devVars
<1>2. CASE SampleTimeout
  BY <1>2
  DEF SampleTimeout, Reading, Received, portVars, clientVars, threadVars,
      devVars
<1>3. CASE CallTimeout
  BY <1>3
  DEF CallTimeout, Reading, Received, portVars, clientVars, threadVars, devVars
<1>4. CASE DeviceError
  BY <1>4 DEF DeviceError, Reading, portVars, clientVars, threadVars, devVars
<1>5. CASE LoopTop
  BY <1>5 DEF LoopTop, portVars, clientVars, threadVars, devVars
<1>6. CASE Process
  BY <1>6 DEF Process, portVars, clientVars, threadVars, devVars
<1>7. CASE PublishStore
  BY <1>7
<1>8. CASE PublishSet
  BY <1>8 DEF PublishSet, portVars, clientVars, threadVars, devVars
<1>9. CASE Connect
  BY <1>9 DEF Connect, CanCall, portVars, clientVars, threadVars, devVars
<1>10. CASE StartScan
  BY <1>10
  DEF StartScan, CanCall, Call, portVars, clientVars, threadVars, devVars
<1>11. CASE Disconnect
  BY <1>11
  DEF Disconnect, CanCall, Call, portVars, clientVars, threadVars, devVars
<1>12. ASSUME NEW o \in {"query", "stop"}, Query(o)
      PROVE  \/ PublishStore \/ GrabCopy
             \/ cached' = cached /\ (res' = res \/ res'.code = "timeout")
  BY <1>12 DEF Query, CanCall, Call, portVars, clientVars, threadVars, devVars
<1>13. CASE Join
  BY <1>13 DEF Join, portVars, clientVars, threadVars, devVars
<1>14. CASE Finish
  BY <1>14 DEF Finish, Return, portVars, clientVars, threadVars, devVars
<1>15. CASE StartThread
  BY <1>15
  DEF StartThread, Turned, Return, portVars, clientVars, threadVars, devVars
<1>16. CASE StartFails
  BY <1>16 DEF StartFails, Return, portVars, clientVars, threadVars, devVars
<1>17. CASE Grab
  BY <1>17 DEF Grab, CanCall, Call, portVars, clientVars, threadVars, devVars
<1>18. CASE GrabEvent
  BY <1>18 DEF GrabEvent, portVars, clientVars, threadVars, devVars
<1>19. CASE GrabTimeout
  BY <1>19 DEF GrabTimeout, Return, portVars, clientVars, threadVars, devVars
<1>20. CASE GrabCount
  BY <1>20 DEF GrabCount, Return, portVars, clientVars, threadVars, devVars
<1>21. CASE GrabCopy
  BY <1>21
<1>22. CASE UNCHANGED vars
  BY <1>22 DEF vars, portVars, clientVars, threadVars, devVars
<1> QED
  BY <1>1, <1>2, <1>3, <1>4, <1>5, <1>6, <1>7, <1>8, <1>9, <1>10, <1>11, <1>12,
     <1>13, <1>14, <1>15, <1>16, <1>17, <1>18, <1>19, <1>20, <1>21, <1>22
  DEF Next, Thread, Client

(* A scan that is over stays a whole one.                                  *)
LEMMA WholeKept ==
  ASSUME NEW s, NEW room \in Nat, SampleTypes, SampleTypes', Whole(s, room),
         dev.scan <= dev'.scan, \A m \in 1 .. dev.scan - 1 : lens'[m] = lens[m]
  PROVE  \E n \in 1 .. dev'.scan - 1 :
           /\ s = [i \in 1 .. Len(s) |-> [scan |-> n, pos |-> i]]
           /\ Len(s) = Min({lens'[n], MaxNodes - 1, room})
<1>1. PICK n \in 1 .. dev.scan - 1 :
        /\ s = [i \in 1 .. Len(s) |-> [scan |-> n, pos |-> i]]
        /\ Len(s) = Min({lens[n], MaxNodes - 1, room})
  BY DEF Whole
<1>2. dev.scan \in Nat /\ dev'.scan \in Nat
  BY NodeFacts DEF SampleTypes
<1>3. n \in 1 .. dev'.scan - 1 /\ lens'[n] = lens[n]
  BY <1>2
<1> QED
  BY <1>1, <1>3

LEMMA WholeStep ==
  ASSUME ~ stalls, SampleTypes, ScanTypes, ResTypes, PlaceInv, CacheInv,
         DevInv, BufInv,
         LocalInv, WholeInv, [Next]_vars
  PROVE  WholeInv'
<1>1. /\ dev.scan <= dev'.scan
      /\ \A m \in 1 .. dev.scan - 1 : lens'[m] = lens[m]
      /\ SampleTypes'
  BY DeviceMoves, SampleTypesStep
<1>2. MaxNodes \in Nat /\ GrabSize \in Nat /\ MaxLen \in Nat /\ MaxScans \in Nat
      /\ Room \in Nat /\ Room = MaxNodes - 1 /\ Room > 0
  BY SizesAssumption DEF Room
<1>3. ASSUME cached' = cached, cached # <<>>
      PROVE  Whole(cached, MaxNodes)'
  <2>1. Whole(cached, MaxNodes)
    BY <1>3 DEF WholeInv
  <2> QED
    BY <1>1, <1>2, <1>3, <2>1, WholeKept DEF Whole
<1>4. ASSUME res' = res, res.code = "ok"
      PROVE  Whole(res.nodes, GrabSize)'
  <2>1. Whole(res.nodes, GrabSize)
    BY <1>4 DEF WholeInv
  <2>2. \E n \in 1 .. dev'.scan - 1 :
          /\ res.nodes = [i \in 1 .. Len(res.nodes) |-> [scan |-> n, pos |-> i]]
          /\ Len(res.nodes) = Min({lens'[n], MaxNodes - 1, GrabSize})
    BY <1>1, <1>2, <2>1, WholeKept
  <2> QED
    BY <1>4, <2>2 DEF Whole
<1>5. CASE PublishStore
  <2> DEFINE n == buf[pos]
             m == n.scan - 1
             l == lens[m]
  <2>1. /\ cached' = scan /\ res' = res /\ dev' = dev /\ lens' = lens
        /\ cpc = "store" /\ Sync(n) /\ IsWhole(scan)
        /\ pos \in 1 .. cnt /\ got = cnt /\ n \in Node
        /\ Before(scan, n)
    BY <1>5, InBuffer
       DEF PublishStore, clientVars, devVars, PlaceInv, SampleTypes, BufInv, Busy, LocalInv
  <2>2. n.scan \in 1 .. dev.scan /\ dev.scan \in 0 .. MaxScans
    BY <2>1, NodeFacts DEF BufInv, Busy, SampleTypes
  <2>3. n.scan > 1 /\ scan = Prefix(m, Least(l, Room))
    BY <2>1 DEF Before, Sync
  <2>4. m \in 1 .. dev.scan - 1 /\ m \in 1 .. MaxScans /\ l \in Nat
    <3>1. m \in 1 .. dev.scan - 1 /\ m \in 1 .. MaxScans
      BY <1>2, <2>2, <2>3
    <3> HIDE DEF m
    <3> QED
      BY <1>2, <3>1 DEF SampleTypes
  <2>5. Least(Least(l, Room), MaxNodes) = Least(l, Room) /\ Least(l, Room) \in Nat
    BY <1>2, <2>4 DEF Least
  <2> HIDE DEF n, m
  <2>6. Whole(scan, MaxNodes)
    BY <1>2, <2>3, <2>4, <2>5, PrefixWhole
  <2>7. Whole(cached, MaxNodes)'
    BY <2>1, <2>6 DEF Whole
  <2> QED
    BY <1>4, <2>1, <2>7 DEF WholeInv
<1>6. CASE GrabCopy
  <2> DEFINE k == Min({GrabSize, Len(cached)})
  <2>1. /\ cached # <<>> /\ cached' = <<>> /\ dev' = dev /\ lens' = lens
        /\ res' = [code |-> "ok", count |-> k, nodes |-> SubSeq(cached, 1, k)]
    BY <1>6 DEF GrabCopy, CacheInv, devVars
  <2>2. k \in 1 .. Len(cached) /\ k = Least(GrabSize, Len(cached))
    BY <2>1, Grabbed
  <2> HIDE DEF k
  <2>3. Whole(cached, MaxNodes)
    BY <2>1 DEF WholeInv
  <2>4. PICK m \in 1 .. dev.scan - 1 : \E j \in Nat :
          /\ lens[m] \in Nat /\ j = Least(Least(lens[m], Room), MaxNodes)
          /\ cached = Prefix(m, j) /\ Len(cached) = j
    BY <1>2, <2>3, WholeFacts DEF SampleTypes
  <2>5. PICK j \in Nat :
          /\ lens[m] \in Nat /\ j = Least(Least(lens[m], Room), MaxNodes)
          /\ cached = Prefix(m, j) /\ Len(cached) = j
    BY <2>4
  <2>6. k \in Nat /\ k = Least(Least(lens[m], Room), GrabSize)
    BY <1>2, <2>2, <2>5 DEF Least
  <2>7. SubSeq(cached, 1, k) = Prefix(m, k)
    BY <2>2, <2>5, PrefixFirst
  <2>8. Whole(SubSeq(cached, 1, k), GrabSize)
    BY <1>2, <2>5, <2>6, <2>7, PrefixWhole
  <2>9. Whole(res.nodes, GrabSize)'
    BY <2>1, <2>8 DEF Whole
  <2> QED
    BY <2>1, <2>9 DEF WholeInv
<1>7. CASE ~ PublishStore /\ ~ GrabCopy
  <2>1. cached' = cached /\ (res' = res \/ res'.code = "timeout")
    BY <1>7, HandsOut
  <2> QED
    BY <1>3, <1>4, <2>1 DEF WholeInv
<1> QED
  BY <1>5, <1>6, <1>7

(* A scan that is over stays over: what the thread has in its hands is of  *)
(* a later one.                                                            *)
LEMMA OverKept ==
  ASSUME ~ stalls, SampleTypes, ScanTypes, PlaceInv, DevInv, BufInv, LocalInv,
         [Next]_vars
  PROVE  \A x \in Nat : Over(x) => Over(x)'
<1>1. CASE ReceiveSample
  <2> SUFFICES ASSUME NEW x \in Nat, Over(x)
               PROVE  Over(x)'
    OBVIOUS
  <2>1. /\ dev.scan \in Nat /\ dev'.scan \in Nat /\ dev.scan <= dev'.scan /\ x < dev.scan
        /\ scan' = scan /\ pos' = pos /\ got' = got + 1 /\ got \in 0 .. BufSize - 1
        /\ BufSize \in Nat /\ pos \in Nat /\ pos > 0
        /\ buf' = [buf EXCEPT ![got + 1] = dev']
        /\ cpc = "first" => cpc' \in {"first", "loop"}
        /\ cpc # "first" => cpc = "read" /\ cpc' \in {"read", "process"}
    <3>1. /\ dev'.scan \in 1 .. MaxScans /\ dev.scan <= dev'.scan /\ scan' = scan /\ pos' = pos
          /\ got' = got + 1 /\ got < cnt /\ buf' = [buf EXCEPT ![got + 1] = dev']
          /\ cpc = "first" => cpc' \in {"first", "loop"}
          /\ cpc # "first" => cpc = "read" /\ cpc' \in {"read", "process"}
      BY <1>1, SampleReceived
    <3>2. /\ dev.scan \in Nat /\ BufSize \in Nat /\ pos \in Nat /\ pos > 0
          /\ cnt \in 1 .. BufSize /\ got \in 0 .. cnt
      BY NodeFacts, SizesAssumption DEF SampleTypes
    <3>3. got \in 0 .. BufSize - 1 /\ dev'.scan \in Nat
      BY <3>1, <3>2, SizesAssumption
    <3>4. x < dev.scan
      BY DEF Over
    <3> QED
      BY <3>1, <3>2, <3>3, <3>4
  <2>2. buf'[got + 1] = dev' /\ \A i \in 1 .. got : buf'[i] = buf[i]
    BY <2>1 DEF SampleTypes
  <2>3. x < dev'.scan
    BY <2>1
  <2>4. IsWhole(scan') /\ cpc' # "set" => x < scan'[1].scan
    BY <2>1 DEF Over
  <2>5. ASSUME Busy'
        PROVE  \A i \in pos' .. got' : x < buf'[i].scan
    <3>1. cpc = "read" /\ \A i \in pos .. got : x < buf[i].scan
      BY <2>1, <2>5 DEF Busy, Over
    <3> QED
      BY <2>1, <2>2, <2>3, <3>1
  <2> QED
    BY <2>3, <2>4, <2>5 DEF Over
<1>2. CASE SampleTimeout
  BY <1>2 DEF SampleTimeout, Reading, Received, clientVars, devVars, Over, Busy
<1>3. CASE CallTimeout
  BY <1>3 DEF CallTimeout, Reading, Received, clientVars, devVars, Over, Busy
<1>4. CASE DeviceError
  BY <1>4 DEF DeviceError, Reading, clientVars, devVars, Over, Busy
<1>5. CASE LoopTop
  <2>1. got' = 0 /\ pos' = 1 /\ scan' = scan /\ dev' = dev /\ cpc = "loop"
    BY <1>5 DEF LoopTop, devVars
  <2> QED
    BY <2>1 DEF Over
<1>6. CASE Process
  <2> SUFFICES ASSUME NEW x \in Nat, Over(x)
               PROVE  Over(x)'
    OBVIOUS
  <2>1. /\ cpc = "process" /\ x < dev.scan /\ dev' = dev /\ buf' = buf /\ got' = got
        /\ \A i \in pos .. got : x < buf[i].scan
        /\ IsWhole(scan) => x < scan[1].scan
        /\ pos \in Nat /\ cnt \in Nat /\ got = cnt
        /\ pos' = pos \/ pos' = pos + 1
    BY <1>6, SizesAssumption
    DEF Process, devVars, Over, Busy, SampleTypes, BufInv
  <2>2. \A i \in pos' .. got' : x < buf'[i].scan
    BY <2>1, SizesAssumption DEF SampleTypes
  <2>3. CASE scan' = scan
    BY <2>1, <2>2, <2>3 DEF Over
  <2>4. CASE scan' # scan
    <3>1. /\ scan' = Kept(IF Sync(buf[pos]) THEN <<>> ELSE scan, buf[pos])
          /\ pos \in 1 .. cnt /\ buf[pos] \in Node
      BY <1>6, <2>4, InBuffer DEF Process, SampleTypes
    <3>2. x < buf[pos].scan
      BY <2>1, <3>1
    <3>3. /\ <<>> \in Seq(Node) /\ Len(<<>>) < MaxNodes
          /\ scan \in Seq(Node) /\ Len(scan) < MaxNodes
      BY SizesAssumption DEF ScanTypes
    <3>4. CASE Sync(buf[pos]) \/ scan = <<>>
      <4>1. scan' = <<buf[pos]>>
        BY <3>1, <3>3, <3>4, KeptFacts
      <4> QED
        BY <2>1, <2>2, <3>2, <4>1 DEF Over
    <3>5. CASE ~ Sync(buf[pos]) /\ scan # <<>>
      <4>1. scan'[1] = scan[1]
        BY <3>1, <3>3, <3>5, KeptFacts
      <4>2. IsWhole(scan') => IsWhole(scan)
        BY <3>5, <4>1 DEF IsWhole
      <4>3. IsWhole(scan') => x < scan'[1].scan
        BY <2>1, <4>1, <4>2
      <4> QED
        BY <2>1, <2>2, <4>3 DEF Over
    <3> QED
      BY <3>4, <3>5
  <2> QED
    BY <2>3, <2>4
<1>7. CASE PublishStore
  BY <1>7 DEF PublishStore, clientVars, devVars, Over, Busy
<1>8. CASE PublishSet
  <2> SUFFICES ASSUME NEW x \in Nat, Over(x)
               PROVE  Over(x)'
    OBVIOUS
  <2>1. /\ cpc = "set" /\ x < dev.scan /\ dev' = dev /\ buf' = buf /\ got' = got
        /\ \A i \in pos .. got : x < buf[i].scan
        /\ pos \in 1 .. cnt /\ got = cnt /\ pos' = pos + 1 /\ buf[pos] \in Node
        /\ scan' = Kept(<<>>, buf[pos])
    BY <1>8, InBuffer
    DEF PublishSet, devVars, Over, Busy, SampleTypes, BufInv, PlaceInv
  <2>2. <<>> \in Seq(Node) /\ Len(<<>>) < MaxNodes /\ cnt \in Nat
    BY SizesAssumption DEF SampleTypes
  <2>3. scan' = <<buf[pos]>>
    BY <2>1, <2>2, KeptFacts
  <2>4. scan'[1].scan = buf[pos].scan /\ x < buf[pos].scan
    BY <2>1, <2>2, <2>3
  <2>5. \A i \in pos' .. got' : x < buf'[i].scan
    BY <2>1, <2>2
  <2> QED
    BY <2>1, <2>4, <2>5 DEF Over
<1>9. CASE StartThread
  <2> SUFFICES ASSUME NEW x \in Nat, Over(x)
               PROVE  Over(x)'
    OBVIOUS
  <2>1. dev.scan <= dev'.scan /\ dev.scan \in Nat /\ dev'.scan \in Nat /\ x < dev.scan
    BY DeviceMoves, SampleTypesStep, NodeFacts DEF SampleTypes, Over
  <2>2. scan' = <<>> /\ cpc' = "first"
    BY <1>9 DEF StartThread
  <2> QED
    BY <2>1, <2>2 DEF Over, Busy, IsWhole
<1>10. CASE UNCHANGED <<threadVars, devVars>>
  BY <1>10 DEF threadVars, devVars, Over, Busy
<1> QED
  BY <1>1, <1>2, <1>3, <1>4, <1>5, <1>6, <1>7, <1>8, <1>9, <1>10, ThreadFrame
  DEF Thread

(* OverInv: what is published is later than what was handed out.           *)
LEMMA OverStep ==
  ASSUME ~ stalls, SampleTypes, ScanTypes, ResTypes, PlaceInv, CacheInv,
         DevInv, BufInv,
         LocalInv, OverInv, WholeInv, [Next]_vars
  PROVE  OverInv'
<1>1. \A x \in Nat : Over(x) => Over(x)'
  BY OverKept
<1>2. cached # <<>> => cached[1].scan \in Nat
  BY ElementOfSeq, NodeFacts DEF ScanTypes
<1>3. res.code = "ok" => res.nodes[1].scan \in Nat
  BY ElementOfSeq, NodeFacts DEF ResTypes
<1>4. cached # <<>> => \E x \in Nat : x = cached[1].scan /\ Over(x) /\ Over(x)'
  BY <1>1, <1>2 DEF OverInv
<1>5. res.code = "ok" => \E x \in Nat : x = res.nodes[1].scan /\ Over(x) /\ Over(x)'
  BY <1>1, <1>3 DEF OverInv
<1>6. cached' = cached /\ cached # <<>> => Over(cached[1].scan)'
  BY <1>4 DEF Over
<1>7. res' = res /\ res.code = "ok" => Over(res.nodes[1].scan)'
  BY <1>5 DEF Over
<1>8. CASE PublishStore
  <2>1. /\ cached' = scan /\ res' = res /\ dev' = dev /\ cpc = "store" /\ cpc' = "set"
        /\ buf' = buf /\ pos' = pos /\ got' = got
        /\ Sync(buf[pos]) /\ IsWhole(scan) /\ pos \in 1 .. cnt /\ got = cnt
        /\ buf[pos] \in Node /\ Before(scan, buf[pos])
    BY <1>8, InBuffer
       DEF PublishStore, clientVars, devVars, PlaceInv, SampleTypes, BufInv, Busy, LocalInv
  <2>2. /\ \A i \in 1 .. got : buf[i].scan \in 1 .. dev.scan /\ buf[i] \in Node
        /\ \A i \in 1 .. got, j \in 1 .. got : i <= j => buf[i].scan <= buf[j].scan
    BY <2>1, InBuffer DEF BufInv, Busy
  <2>3. /\ buf[pos].scan > 1
        /\ scan = Prefix(buf[pos].scan - 1, Least(lens[buf[pos].scan - 1], Room))
    BY <2>1 DEF Before, Sync
  <2>4. /\ buf[pos].scan \in Nat /\ dev.scan \in Nat /\ cnt \in Nat /\ pos \in Nat
        /\ buf[pos].scan - 1 \in 1 .. MaxScans
    BY <2>1, <2>2, <2>3, NodeFacts, SizesAssumption DEF SampleTypes
  <2>5. scan[1].scan = buf[pos].scan - 1
    <3> DEFINE m == buf[pos].scan - 1
               l == Least(lens[m], Room)
    <3>1. m \in Nat /\ lens[m] \in Nat /\ Room \in Nat
      BY <2>4, SizesAssumption DEF SampleTypes, Room
    <3>2. l \in Nat /\ scan = Prefix(m, l)
      BY <2>3, <3>1, LeastFacts
    <3> HIDE DEF m, l
    <3>3. Len(scan) = l /\ (l > 0 => scan[1].scan = m)
      BY <3>1, <3>2, PrefixFacts
    <3>4. Len(scan) > 0
      BY <2>1 DEF IsWhole, ScanTypes
    <3>5. scan[1].scan = m
      BY <3>3, <3>4
    <3> QED
      BY <3>5 DEF m
  <2>6. buf[pos].scan - 1 < dev.scan
    BY <2>1, <2>2, <2>4
  <2>7. \A i \in pos .. got : buf[pos].scan - 1 < buf[i].scan
    <3> SUFFICES ASSUME NEW i \in pos .. got
                 PROVE  buf[pos].scan - 1 < buf[i].scan
      OBVIOUS
    <3>1. i \in 1 .. got /\ pos \in 1 .. got /\ pos <= i
      BY <2>1, <2>4
    <3>2. buf[pos].scan <= buf[i].scan /\ buf[i].scan \in Nat
      BY <2>2, <3>1, NodeFacts
    <3> QED
      BY <2>4, <3>2
  <2>8. Over(cached[1].scan)'
    BY <2>1, <2>5, <2>6, <2>7 DEF Over
  <2>9. res.code = "ok" => res.nodes[1].scan < scan[1].scan
    BY <2>1 DEF OverInv, Over
  <2> QED
    BY <1>7, <2>1, <2>8, <2>9 DEF OverInv
<1>9. CASE GrabCopy
  <2> DEFINE k == Min({GrabSize, Len(cached)})
  <2>1. /\ cached # <<>> /\ cached' = <<>>
        /\ res' = [code |-> "ok", count |-> k, nodes |-> SubSeq(cached, 1, k)]
        /\ UNCHANGED <<devVars, threadVars>>
    BY <1>9 DEF GrabCopy, CacheInv
  <2>2. SubSeq(cached, 1, k)[1] = cached[1]
    BY <2>1, Grabbed
  <2> HIDE DEF k
  <2>3. Over(res.nodes[1].scan)'
    BY <1>4, <2>1, <2>2 DEF Over
  <2> QED
    BY <2>1, <2>3 DEF OverInv
<1>10. CASE ~ PublishStore /\ ~ GrabCopy
  <2>1. cached' = cached /\ (res' = res \/ res'.code = "timeout")
    BY <1>10, HandsOut
  <2> QED
    BY <1>6, <1>7, <2>1 DEF OverInv
<1> QED
  BY <1>8, <1>9, <1>10

(* The invariant.                                                          *)
LEMMA InitIInv == Init => IInv
<1> SUFFICES ASSUME Init
             PROVE  IInv
  OBVIOUS
<1>1. Junk \subseteq Node
  BY SizesAssumption DEF Junk, Node
<1>2. dev \in Node /\ buf \in [1 .. BufSize -> Node]
  BY <1>1, SizesAssumption DEF Init, Node
<1>3. ControlTypes /\ RunInv
  BY SizesAssumption DEF Init, ControlTypes, RunInv
<1>4. SampleTypes
  BY <1>2, SizesAssumption DEF Init, SampleTypes
<1>5. ScanTypes /\ ResTypes
  BY SizesAssumption DEF Init, ScanTypes, ResTypes, NoScan
<1>6. PlaceInv /\ CacheInv
  BY SizesAssumption DEF Init, PlaceInv, CacheInv, Reading
<1>7. DevInv /\ BufInv /\ LocalInv /\ OverInv /\ WholeInv
  BY SizesAssumption
     DEF Init, DevInv, BufInv, Busy, LocalInv, OverInv, WholeInv, NoScan
<1> QED
  BY <1>3, <1>4, <1>5, <1>6, <1>7 DEF IInv, SteadyInv

LEMMA Stalls ==
  ASSUME [Next]_vars
  PROVE  stalls' = stalls
<1>1. CASE StartThread
  BY <1>1 DEF StartThread, Turned, devVars
<1>2. CASE ~ StartThread
  BY <1>2
     DEF Next, Thread, Client, vars, devVars, ReceiveSample, SampleTimeout, CallTimeout,
         DeviceError, LoopTop, Process, PublishStore, PublishSet, Connect, StartScan,
         Disconnect, Query, Join, Finish, StartFails, Grab, GrabEvent, GrabTimeout,
         GrabCount, GrabCopy
<1> QED
  BY <1>1, <1>2

LEMMA NextIInv == IInv /\ [Next]_vars => IInv'
<1> SUFFICES ASSUME IInv, [Next]_vars
             PROVE  IInv'
  OBVIOUS
<1>0. /\ ControlTypes /\ SampleTypes /\ ScanTypes /\ ResTypes
      /\ RunInv /\ PlaceInv /\ CacheInv /\ SteadyInv
  BY DEF IInv
<1>1. ControlTypes' /\ SampleTypes' /\ ScanTypes' /\ ResTypes'
  BY <1>0, ControlStep, SampleTypesStep, ScanTypesStep, ResStep
<1>2. RunInv' /\ PlaceInv' /\ CacheInv'
  BY <1>0, RunStep, PlaceStep, CacheStep
<1>3. ASSUME ~ stalls
      PROVE  DevInv' /\ BufInv' /\ LocalInv' /\ OverInv' /\ WholeInv'
  <2>1. DevInv /\ BufInv /\ LocalInv /\ OverInv /\ WholeInv
    BY <1>0, <1>3 DEF SteadyInv
  <2>2. DevInv' /\ BufInv'
    BY <1>0, <1>3, <2>1, DevStep, BufStep
  <2>3. LocalInv'
    BY <1>0, <1>3, <2>1, LocalStep
  <2>4. OverInv'
    BY <1>0, <1>3, <2>1, OverStep
  <2>5. WholeInv'
    BY <1>0, <1>3, <2>1, WholeStep
  <2> QED
    BY <2>2, <2>3, <2>4, <2>5
<1>4. SteadyInv'
  BY <1>3, Stalls DEF SteadyInv
<1> QED
  BY <1>1, <1>2, <1>4 DEF IInv

(* Every reachable state satisfies the invariant.                          *)
THEOREM IInvAlways == Spec => []IInv
BY InitIInv, NextIInv, PTL DEF Spec

LEMMA IInvSafe == IInv => ScanSafe
<1> SUFFICES ASSUME IInv
             PROVE  ScanSafe
  OBVIOUS
<1>1. TypeOK
  BY DEF IInv, TypeOK, ControlTypes, SampleTypes, ScanTypes, ResTypes
<1>2. WholeScans
  BY DEF IInv, SteadyInv, WholeInv, WholeScans
<1>3. FirstIsSync /\ NoScanMissed /\ ScanningRuns
  BY
  DEF IInv, ResTypes, CacheInv, RunInv, FirstIsSync, NoScanMissed, ScanningRuns
<1> QED
  BY <1>1, <1>2, <1>3 DEF ScanSafe

(* What the client gets is one complete scan, no published scan is slept   *)
(* on and a client that believes to be scanning has a thread, for every    *)
(* length of the scans and every size of the buffers (_cacheScanData,      *)
(* grabScanData).                                                          *)
THEOREM ScanSafeAlways == Spec => []ScanSafe
BY IInvAlways, IInvSafe, PTL

(* No second thread writes to the cache: startScan starts one only when    *)
(* the one before it has ended.                                            *)
THEOREM OneThreadAlways == Spec => OneThread
<1>1. IInv /\ [Next]_vars => [scanning' /\ ~ scanning => cpc \in {NULL, "ended"}]_vars
  <2> SUFFICES ASSUME IInv, [Next]_vars, scanning', ~ scanning
               PROVE  cpc \in {NULL, "ended"}
    OBVIOUS
  <2>1. StartThread
    BY
    DEF Next, Thread, Client, vars, ReceiveSample, SampleTimeout, CallTimeout,
         DeviceError, LoopTop, Process, PublishStore, PublishSet, Connect, StartScan,
         Disconnect, Query, Join, Finish, StartFails, Grab, GrabEvent, GrabTimeout,
         GrabCount, GrabCopy
  <2> QED
    BY <2>1 DEF StartThread, IInv, RunInv
<1> QED
  BY IInvAlways, <1>1, PTL DEF Spec, OneThread

(* grabScanData never hands out a scan twice, nor one older than the last. *)
THEOREM GrabsAdvanceAlways == Spec => GrabsAdvance
<1> DEFINE A == ~ stalls /\ pc = "copy" /\ pc' = "idle" /\ res.code = "ok" =>
                  res'.nodes[1].scan > res.nodes[1].scan
<1>1. IInv /\ [Next]_vars => [A]_vars
  <2> SUFFICES ASSUME IInv, [Next]_vars, ~ stalls, pc = "copy", pc' = "idle", res.code = "ok"
               PROVE  res'.nodes[1].scan > res.nodes[1].scan
    OBVIOUS
  <2>1. GrabCopy
    BY
    DEF Next, Thread, Client, vars, clientVars, ReceiveSample, SampleTimeout,
        CallTimeout,
         DeviceError, LoopTop, Process, PublishStore, PublishSet, Connect, StartScan,
         Disconnect, Query, Join, Finish, StartThread, StartFails, Grab, GrabEvent,
         GrabTimeout, GrabCount, CanCall
  <2> DEFINE k == Min({GrabSize, Len(cached)})
  <2>2. /\ cached # <<>>
        /\ res' = [code |-> "ok", count |-> k, nodes |-> SubSeq(cached, 1, k)]
    BY <2>1 DEF GrabCopy, IInv, CacheInv
  <2>3. SubSeq(cached, 1, k)[1] = cached[1]
    BY <2>2, Grabbed DEF IInv
  <2> HIDE DEF k
  <2>4. res.nodes[1].scan < cached[1].scan
    BY <2>2 DEF IInv, SteadyInv, OverInv
  <2>5. cached[1].scan \in Nat /\ res.nodes[1].scan \in Nat
    BY <2>2, ElementOfSeq, NodeFacts DEF IInv, ScanTypes, ResTypes
  <2> QED
    BY <2>2, <2>3, <2>4, <2>5
<1> QED
  BY IInvAlways, <1>1, PTL DEF Spec, GrabsAdvance
=============================================================================
