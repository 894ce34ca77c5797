-------------------------- MODULE WebServerProofs --------------------------
(***************************************************************************)
(* Proofs about the web server of the webif block, for every number of     *)
(* worker threads and connections and every length of the ring: the ring   *)
(* holds what was accepted and not taken, nothing touches a context that   *)
(* mg_stop has freed, and every connection that is closed got its answer   *)
(* but for the requests that a failed handler or a shared Lua state spoils.*)
(***************************************************************************)
EXTENDS WebServer, FiniteSetTheorems, SequenceTheorems, TLAPS

(* TypeOK in parts: what the threads hold, the numbers, the answers.       *)
ThreadTypes ==
  /\ block \in {"preinit", "inactive", "active"} /\ app \in {"idle", "stopping"}
  /\ ctx \in {"none", "live", "freed"}
  /\ master \in MasterLocs /\ so \in Clients \cup {NONE}
  /\ worker \in [Workers -> WorkerLocs] /\ conn \in [Workers -> Clients \cup {NONE}]
  /\ client \in [Clients -> ClientStates] /\ luaLock \in Workers \cup {NONE}

RingTypes ==
  /\ queue \in [1 .. Slots -> Clients \cup {NONE}]
  /\ tail \in 0 .. Slots /\ head \in 0 .. (2 * Slots) /\ head - tail \in 0 .. Slots

Replies     == {"none", "own page", "old page", "error text", "error 500"}
Stacks      == Seq({"error text"})
AnswerTypes ==
  /\ reply \in [Clients -> Replies] /\ luaStack \in Stacks
  /\ failed \in BOOLEAN /\ shared \in BOOLEAN /\ spoilt \subseteq Clients

(* The context: it lives while the block is active, and its threads are    *)
(* off before and done after.                                              *)
LifeInv ==
  /\ ctx = "live" <=> block = "active"
  /\ ctx = "none" <=> master = "off"
  /\ ctx = "none" => stopFlag = 0
  /\ ctx = "freed" => master = "done"
  /\ \A w \in Workers : worker[w] = "off" <=> ctx = "none"

(* num_threads counts the workers that run.                                *)
Running  == {w \in Workers : worker[w] # "done"}
CountInv == numThreads = IF ctx = "none" THEN 0 ELSE Cardinality(Running)

(* The stop: why the master is done only when all workers are, and why     *)
(* nobody asks for a second stop when it is.                               *)
StopInv ==
  /\ stopFlag \in {0, 1, 2}
  /\ app = "stopping" => block = "active" /\ stopFlag # 0
  /\ master \in {"join", "joining", "done"} => stopFlag # 0
  /\ master = "done" <=> stopFlag = 2
  /\ master = "done" => \A w \in Workers : worker[w] = "done"
  /\ ctx = "live" /\ stopFlag # 0 =>
       app = "stopping" \/ \E w \in Workers : worker[w] = "stopping"

(* Where a connection is: with the master, ...                             *)
MasterInv ==
  /\ so # NONE <=> master \in {"produce", "full"}
  /\ so # NONE => client[so] = "accepted"

(* ... with one worker, ...                                                *)
Serving == {"serve", "handle", "lua", "reload", "close", "stopping"}
Holds(w) ==
  /\ conn[w] # NONE => worker[w] \in Serving \cup {"took"}
  /\ worker[w] \in Serving => conn[w] # NONE
  /\ worker[w] = "took" /\ conn[w] = NONE => stopFlag # 0

WorkerInv ==
  /\ \A w \in Workers : Holds(w)
  /\ \A w \in Workers : conn[w] # NONE => client[conn[w]] = "taken"
  /\ \A u, w \in Workers : conn[u] = conn[w] /\ conn[u] # NONE => u = w
  /\ \A c \in Clients : client[c] = "taken" => \E w \in Workers : conn[w] = c

(* ... or in the ring, between the two counters.                           *)
Places   == tail .. (head - 1)
Entry(k) == queue[Index(k)]

RingInv ==
  /\ ctx # "live" => \A c \in Clients : client[c] # "queued"
  /\ ctx = "live" =>
       /\ \A k \in Places : Entry(k) \in Clients /\ client[Entry(k)] = "queued"
       /\ \A j, k \in Places : Entry(j) = Entry(k) => j = k
       /\ \A c \in Clients : client[c] = "queued" => \E k \in Places : Entry(k) = c

(* The Lua stack has only error texts on it, and none before a failure.    *)
Good == {"own page", "error 500"}
AnswerInv ==
  /\ AnswerTypes /\ Answered
  /\ ~failed => luaStack = <<>>
  /\ \A w \in Workers :
       worker[w] = "close" /\ conn[w] \notin spoilt => reply[conn[w]] \in Good

IInv == /\ ThreadTypes /\ RingTypes /\ LifeInv /\ CountInv /\ StopInv
        /\ MasterInv /\ WorkerInv /\ RingInv /\ AnswerInv

-----------------------------------------------------------------------------
(* Two places of the ring are the same only a whole ring apart, and moving *)
(* both counters back by its length changes nothing.                       *)
LEMMA Products ==
  ASSUME NEW m \in Int
  PROVE  /\ Slots * m \in Int
         /\ m >= 1 => Slots * m >= Slots
         /\ m <= -1 => Slots * m <= -Slots
<1>1. Slots \in Nat /\ Slots > 0
  BY WebServerAssumption
<1> QED
  BY <1>1, SMT

LEMMA DivMod ==
  ASSUME NEW a \in Nat
  PROVE  /\ a \div Slots \in Nat
         /\ a % Slots \in Nat
         /\ a % Slots < Slots
         /\ a = (Slots * (a \div Slots)) + (a % Slots)
BY WebServerAssumption, SMT

LEMMA SamePlace ==
  ASSUME NEW a \in Nat, NEW b \in Nat, a % Slots = b % Slots, a - b < Slots, b - a < Slots
  PROVE  a = b
<1> DEFINE p == a \div Slots
           q == b \div Slots
<1>1. /\ p \in Nat /\ q \in Nat /\ a % Slots \in Nat
      /\ a = (Slots * p) + (a % Slots) /\ b = (Slots * q) + (b % Slots)
  BY DivMod
<1> HIDE DEF p, q
<1>2. Slots \in Nat /\ Slots * p \in Int /\ Slots * q \in Int
  BY <1>1, Products, WebServerAssumption
<1>3. Slots * (p - q) = (Slots * p) - (Slots * q)
  BY <1>1, <1>2, SMT
<1>4. p - q \in Int /\ ~ (p - q >= 1) /\ ~ (p - q <= -1)
  BY <1>1, <1>2, <1>3, Products
<1>5. Slots * p = Slots * q
  <2>1. p \in Int /\ q \in Int
    BY <1>1
  <2>2. p = q
    BY <1>4, <2>1
  <2> QED
    BY <2>2
<1> QED
  BY <1>1, <1>2, <1>5

LEMMA IndexFacts ==
  /\ \A a \in Nat : Index(a) \in 1 .. Slots
  /\ \A a, b \in Nat : Index(a) = Index(b) /\ a - b < Slots /\ b - a < Slots => a = b
  /\ \A a \in Nat : Index(a + Slots) = Index(a)
<1>1. Slots \in Nat /\ Slots > 0
  BY WebServerAssumption
<1>2. ASSUME NEW a \in Nat
      PROVE  Index(a) \in 1 .. Slots
  <2>1. a % Slots \in Nat /\ a % Slots < Slots
    BY DivMod
  <2> QED
    BY <1>1, <2>1 DEF Index
<1>3. ASSUME NEW a \in Nat, NEW b \in Nat, Index(a) = Index(b), a - b < Slots, b - a < Slots
      PROVE  a = b
  <2> DEFINE p == a % Slots
             q == b % Slots
  <2>1. p \in Nat /\ q \in Nat
    BY DivMod
  <2>2. p + 1 = q + 1
    BY <1>3 DEF Index
  <2> HIDE DEF p, q
  <2>3. p = q
    BY <2>1, <2>2
  <2> QED
    BY <1>3, <2>3, SamePlace DEF p, q
<1>4. ASSUME NEW a \in Nat
      PROVE  Index(a + Slots) = Index(a)
  <2> DEFINE p == a \div Slots
             q == (a + Slots) \div Slots
             x == a % Slots
             y == (a + Slots) % Slots
  <2>1. a + Slots \in Nat
    BY <1>1
  <2>2. /\ p \in Nat /\ q \in Nat /\ x \in Nat /\ y \in Nat /\ x < Slots /\ y < Slots
        /\ a = (Slots * p) + x /\ a + Slots = (Slots * q) + y
    BY <2>1, DivMod
  <2> HIDE DEF p, q, x, y
  <2>3. Slots * p \in Int /\ Slots * q \in Int
    BY <2>2, Products
  <2>4. Slots * (q - p - 1) = (Slots * q) - (Slots * p) - Slots
    BY <1>1, <2>2, <2>3, SMT
  <2>5. q - p - 1 \in Int /\ ~ (q - p - 1 >= 1) /\ ~ (q - p - 1 <= -1)
    BY <1>1, <2>2, <2>3, <2>4, Products
  <2>6. q = p + 1 /\ Slots * (q - p - 1) = 0
    BY <1>1, <2>2, <2>5, SMT
  <2>7. x = y
    BY <1>1, <2>2, <2>3, <2>4, <2>6
  <2> QED
    BY <2>7 DEF Index, x, y
<1> QED
  BY <1>2, <1>3, <1>4

(* The Lua stack, as far as the provers need sequences.                    *)
LEMMA StackFacts ==
  /\ <<>> \in Stacks
  /\ \A s \in Stacks : /\ s # <<>> => Head(s) = "error text"
                       /\ Append(s, "error text") \in Stacks
<1>1. <<>> \in Stacks
  BY DEF Stacks
<1>2. ASSUME NEW s \in Stacks
      PROVE  /\ s # <<>> => Head(s) = "error text"
             /\ Append(s, "error text") \in Stacks
  <2>1. s # <<>> => Head(s) \in {"error text"}
    BY HeadTailProperties DEF Stacks
  <2>2. Append(s, "error text") \in Stacks
    BY AppendProperties DEF Stacks
  <2> QED
    BY <2>1, <2>2
<1> QED
  BY <1>1, <1>2

(* Taking from a ring that is not empty.                                   *)
LEMMA Taken ==
  ASSUME RingTypes, head > tail
  PROVE  queue[Index(tail)] \in Clients \cup {NONE} /\ tail \in Places
<1>1. Index(tail) \in 1 .. Slots
  BY IndexFacts DEF RingTypes
<1> QED
  BY <1>1, WebServerAssumption DEF RingTypes, Places

(* NONE stands for no connection.                                         *)
LEMMA NoneNoClient == NONE \notin Clients
BY WebServerAssumption DEF Clients

(* What the threads hold keeps its type.                                   *)
LEMMA ThreadTypesStep ==
  ASSUME ThreadTypes, LifeInv, StopInv, RingTypes, RingInv, WorkerInv,
         [Next]_vars
  PROVE  ThreadTypes'
<1>0. /\ {"consume", "waiting", "checked", "took", "exit", "serve", "close", "handle",
         "lua", "reload", "stopping", "done"} \subseteq WorkerLocs
      /\ {"poll", "full", "produce", "join", "joining", "done"} \subseteq MasterLocs
      /\ {"backlog", "accepted", "queued", "leaked", "refused", "taken", "closed"}
           \subseteq ClientStates
  BY DEF WorkerLocs, MasterLocs, ClientStates
<1>1. CASE WiInit
  BY <1>1, <1>0 DEF WiInit, ThreadTypes, ctxVars, ring, lua
<1>2. CASE WiStart
  BY <1>2, <1>0 DEF WiStart, ThreadTypes, ctxVars, ring, lua
<1>3. CASE WiStop
  BY <1>3, <1>0 DEF WiStop, ThreadTypes, ctxVars, ring, lua
<1>4. CASE MgStopReturns
  BY <1>4, <1>0 DEF MgStopReturns, ThreadTypes, ctxVars, ring, lua
<1>5. CASE WiCleanup
  BY <1>5, <1>0 DEF WiCleanup, ThreadTypes, ctxVars, ring, lua
<1>6. ASSUME NEW c \in Clients, Connect(c)
      PROVE  ThreadTypes'
  BY <1>6, <1>0 DEF Connect, ThreadTypes, ctxVars, ring, lua
<1>7. ASSUME NEW c \in Clients, Accept(c)
      PROVE  ThreadTypes'
  BY <1>7, <1>0 DEF Accept, ThreadTypes, ctxVars, ring, lua
<1>8. CASE ProduceSocket
  BY <1>8, <1>0 DEF ProduceSocket, SignalFull, ThreadTypes, ctxVars, ring, lua
<1>9. CASE CloseListening
  BY <1>9, <1>0 DEF CloseListening, ThreadTypes, ctxVars, ring, lua
<1>10. CASE Join
  BY <1>10, <1>0 DEF Join, ThreadTypes, ctxVars, ring, lua
<1>11. ASSUME NEW w \in Workers, ConsumeSocket(w)
      PROVE  ThreadTypes'
  <2> DEFINE c == queue[Index(tail)]
  <2>1. ctx = "live" => (head > tail => c \in Clients)
    BY Taken DEF RingInv, Entry
  <2>2. ctx = "live"
    BY <1>11 DEF ConsumeSocket, LifeInv, StopInv, ThreadTypes
  <2>3. /\ worker' = [worker EXCEPT ![w] = "checked"] \/ worker' = [worker EXCEPT ![w] = "took"]
        /\ UNCHANGED <<block, app, ctx, so, luaLock>>
        /\ conn' = conn \/ (head > tail /\ conn' = [conn EXCEPT ![w] = c])
        /\ client' = client \/ (head > tail /\ client' = [client EXCEPT ![c] = "taken"])
        /\ master' = master \/ master' = "produce"
    BY <1>11 DEF ConsumeSocket, SignalEmpty, ctxVars, lua
  <2> HIDE DEF c
  <2> QED
    BY <1>0, <2>1, <2>2, <2>3 DEF ThreadTypes
<1>12. ASSUME NEW w \in Workers, WaitFull(w)
      PROVE  ThreadTypes'
  BY <1>12, <1>0 DEF WaitFull, ThreadTypes, ctxVars, ring, lua
<1>13. ASSUME NEW w \in Workers, Consumed(w)
      PROVE  ThreadTypes'
  <2>1. /\ worker' = [worker EXCEPT ![w] = "serve"] \/ worker' = [worker EXCEPT ![w] = "exit"]
        /\ UNCHANGED <<block, app, ctx, master, so, luaLock>>
        /\ conn' = conn \/ conn' = [conn EXCEPT ![w] = NONE]
        /\ client' = client \/ (conn[w] # NONE /\ client' = [client EXCEPT ![conn[w]] = "leaked"])
    BY <1>13 DEF Consumed, ctxVars, lua
  <2>2. worker' \in [Workers -> WorkerLocs]
    BY <1>0, <2>1 DEF ThreadTypes
  <2>3. conn' \in [Workers -> Clients \cup {NONE}]
    BY <2>1 DEF ThreadTypes
  <2>4. client' \in [Clients -> ClientStates]
    BY <1>0, <2>1 DEF ThreadTypes
  <2> QED
    BY <2>1, <2>2, <2>3, <2>4 DEF ThreadTypes
<1>14. ASSUME NEW w \in Workers, NoRequest(w)
      PROVE  ThreadTypes'
  BY <1>14, <1>0 DEF NoRequest, ThreadTypes, ctxVars, ring, lua
<1>15. ASSUME NEW w \in Workers, ReadRequest(w)
      PROVE  ThreadTypes'
  BY <1>15, <1>0 DEF ReadRequest, ThreadTypes, ctxVars, ring, lua
<1>16. ASSUME NEW w \in Workers, HandlePage(w)
      PROVE  ThreadTypes'
  BY <1>16, <1>0 DEF HandlePage, UnlockLua, AnswerPage, ThreadTypes, ctxVars, ring, lua
<1>17. ASSUME NEW w \in Workers, HandleFail(w)
      PROVE  ThreadTypes'
  BY <1>17, <1>0 DEF HandleFail, UnlockLua, ThreadTypes, ctxVars, ring, lua
<1>18. ASSUME NEW w \in Workers, HandleStop(w)
      PROVE  ThreadTypes'
  BY <1>18, <1>0 DEF HandleStop, ThreadTypes, ctxVars, ring, lua
<1>19. ASSUME NEW w \in Workers, LockLua(w)
      PROVE  ThreadTypes'
  BY <1>19, <1>0 DEF LockLua, ThreadTypes, ctxVars, ring, lua
<1>20. ASSUME NEW w \in Workers, HandleReload(w)
      PROVE  ThreadTypes'
  BY <1>20, <1>0 DEF HandleReload, ThreadTypes, ctxVars, ring, lua
<1>21. ASSUME NEW w \in Workers, ReloadEnd(w)
      PROVE  ThreadTypes'
  BY <1>21, <1>0 DEF ReloadEnd, UnlockLua, ThreadTypes, ctxVars, ring, lua
<1>22. ASSUME NEW w \in Workers, CloseConnection(w)
      PROVE  ThreadTypes'
  BY <1>22, <1>0 DEF CloseConnection, ThreadTypes, ctxVars, ring, lua
<1>23. ASSUME NEW w \in Workers, WorkerExit(w)
      PROVE  ThreadTypes'
  BY <1>23, <1>0 DEF WorkerExit, SignalExit, ThreadTypes, ctxVars, ring, lua
<1>24. CASE UNCHANGED vars
  BY <1>24, <1>0 DEF vars, ctxVars, ring, lua, ThreadTypes, ctxVars, ring, lua
<1> QED
  BY <1>1, <1>2, <1>3, <1>4, <1>5, <1>6, <1>7, <1>8, <1>9, <1>10, <1>11,
     <1>12, <1>13, <1>14, <1>15, <1>16, <1>17, <1>18, <1>19, <1>20, <1>21,
     <1>22, <1>23, <1>24
  DEF Next, MasterStep, WorkerStep, Handle

(* The context and its threads begin and end together.                     *)
LEMMA LifeStep ==
  ASSUME ThreadTypes, LifeInv, StopInv, [Next]_vars
  PROVE  LifeInv'
<1>1. CASE WiInit
  BY <1>1 DEF WiInit, ThreadTypes, LifeInv, StopInv, ctxVars, ring, lua
<1>2. CASE WiStart
  BY <1>2 DEF WiStart, ThreadTypes, LifeInv, StopInv, ctxVars, ring, lua
<1>3. CASE WiStop
  BY <1>3 DEF WiStop, ThreadTypes, LifeInv, StopInv, ctxVars, ring, lua
<1>4. CASE MgStopReturns
  BY <1>4 DEF MgStopReturns, ThreadTypes, LifeInv, StopInv, ctxVars, ring, lua
<1>5. CASE WiCleanup
  BY <1>5 DEF WiCleanup, ThreadTypes, LifeInv, StopInv, ctxVars, ring, lua
<1>6. ASSUME NEW c \in Clients, Connect(c)
      PROVE  LifeInv'
  BY <1>6 DEF Connect, ThreadTypes, LifeInv, StopInv, ctxVars, ring, lua
<1>7. ASSUME NEW c \in Clients, Accept(c)
      PROVE  LifeInv'
  BY <1>7 DEF Accept, ThreadTypes, LifeInv, StopInv, ctxVars, ring, lua
<1>8. CASE ProduceSocket
  BY <1>8
  DEF ProduceSocket, SignalFull, ThreadTypes, LifeInv, StopInv, ctxVars, ring,
      lua
<1>9. CASE CloseListening
  BY <1>9 DEF CloseListening, ThreadTypes, LifeInv, StopInv, ctxVars, ring, lua
<1>10. CASE Join
  BY <1>10 DEF Join, ThreadTypes, LifeInv, StopInv, ctxVars, ring, lua
<1>11. ASSUME NEW w \in Workers, ConsumeSocket(w)
      PROVE  LifeInv'
  BY <1>11
  DEF ConsumeSocket, SignalEmpty, WrapPointers, ThreadTypes, LifeInv, StopInv,
      ctxVars, ring, lua
<1>12. ASSUME NEW w \in Workers, WaitFull(w)
      PROVE  LifeInv'
  BY <1>12 DEF WaitFull, ThreadTypes, LifeInv, StopInv, ctxVars, ring, lua
<1>13. ASSUME NEW w \in Workers, Consumed(w)
      PROVE  LifeInv'
  BY <1>13 DEF Consumed, ThreadTypes, LifeInv, StopInv, ctxVars, ring, lua
<1>14. ASSUME NEW w \in Workers, NoRequest(w)
      PROVE  LifeInv'
  BY <1>14 DEF NoRequest, ThreadTypes, LifeInv, StopInv, ctxVars, ring, lua
<1>15. ASSUME NEW w \in Workers, ReadRequest(w)
      PROVE  LifeInv'
  BY <1>15 DEF ReadRequest, ThreadTypes, LifeInv, StopInv, ctxVars, ring, lua
<1>16. ASSUME NEW w \in Workers, HandlePage(w)
      PROVE  LifeInv'
  BY <1>16
  DEF HandlePage, UnlockLua, AnswerPage, ThreadTypes, LifeInv, StopInv, ctxVars, ring, lua
<1>17. ASSUME NEW w \in Workers, HandleFail(w)
      PROVE  LifeInv'
  BY <1>17 DEF HandleFail, UnlockLua, ThreadTypes, LifeInv, StopInv, ctxVars, ring, lua
<1>18. ASSUME NEW w \in Workers, HandleStop(w)
      PROVE  LifeInv'
  BY <1>18 DEF HandleStop, ThreadTypes, LifeInv, StopInv, ctxVars, ring, lua
<1>19. ASSUME NEW w \in Workers, LockLua(w)
      PROVE  LifeInv'
  BY <1>19 DEF LockLua, ThreadTypes, LifeInv, StopInv, ctxVars, ring, lua
<1>20. ASSUME NEW w \in Workers, HandleReload(w)
      PROVE  LifeInv'
  BY <1>20 DEF HandleReload, ThreadTypes, LifeInv, StopInv, ctxVars, ring, lua
<1>21. ASSUME NEW w \in Workers, ReloadEnd(w)
      PROVE  LifeInv'
  BY <1>21 DEF ReloadEnd, UnlockLua, ThreadTypes, LifeInv, StopInv, ctxVars, ring, lua
<1>22. ASSUME NEW w \in Workers, CloseConnection(w)
      PROVE  LifeInv'
  BY <1>22
  DEF CloseConnection, ThreadTypes, LifeInv, StopInv, ctxVars, ring, lua
<1>23. ASSUME NEW w \in Workers, WorkerExit(w)
      PROVE  LifeInv'
  BY <1>23
  DEF WorkerExit, SignalExit, ThreadTypes, LifeInv, StopInv, ctxVars, ring, lua
<1>24. CASE UNCHANGED vars
  BY <1>24
  DEF vars, ctxVars, ring, lua, ThreadTypes, LifeInv, StopInv, ctxVars, ring,
      lua
<1> QED
  BY <1>1, <1>2, <1>3, <1>4, <1>5, <1>6, <1>7, <1>8, <1>9, <1>10, <1>11,
     <1>12, <1>13, <1>14, <1>15, <1>16, <1>17, <1>18, <1>19, <1>20, <1>21,
     <1>22, <1>23, <1>24
  DEF Next, MasterStep, WorkerStep, Handle

(* Steps that neither end nor stop anything leave StopInv alone.           *)
LEMMA StopKept ==
  ASSUME StopInv, UNCHANGED <<app, block, stopFlag, master, ctx>>,
         \A u \in Workers : /\ worker[u] = "done" => worker'[u] = "done"
                            /\ worker[u] = "stopping" => worker'[u] = "stopping"
  PROVE  StopInv'
BY DEF StopInv

(* The steps of a stop, and that there is only one.                        *)
LEMMA StopStep ==
  ASSUME ThreadTypes, LifeInv, StopInv, CountInv, [Next]_vars
  PROVE  StopInv'
<1>1. CASE WiInit
  BY <1>1 DEF WiInit, ThreadTypes, LifeInv, StopInv, ctxVars, ring, lua
<1>2. CASE WiStart
  BY <1>2 DEF WiStart, ThreadTypes, LifeInv, StopInv, ctxVars, ring, lua
<1>3. CASE WiStop
  BY <1>3 DEF WiStop, ThreadTypes, LifeInv, StopInv, ctxVars, ring, lua
<1>4. CASE MgStopReturns
  BY <1>4 DEF MgStopReturns, ThreadTypes, LifeInv, StopInv, ctxVars, ring, lua
<1>5. CASE WiCleanup
  BY <1>5 DEF WiCleanup, ThreadTypes, LifeInv, StopInv, ctxVars, ring, lua
<1>6. ASSUME NEW c \in Clients, Connect(c)
      PROVE  StopInv'
  BY <1>6, StopKept DEF Connect, ThreadTypes, ctxVars, lua, ring
<1>7. ASSUME NEW c \in Clients, Accept(c)
      PROVE  StopInv'
  BY <1>7 DEF Accept, ThreadTypes, LifeInv, StopInv, ctxVars, ring, lua
<1>8. CASE ProduceSocket
  BY <1>8
  DEF ProduceSocket, SignalFull, ThreadTypes, LifeInv, StopInv, ctxVars, ring,
      lua
<1>9. CASE CloseListening
  BY <1>9 DEF CloseListening, ThreadTypes, LifeInv, StopInv, ctxVars, ring, lua
<1>10. CASE Join
  <2>1. /\ UNCHANGED <<block, app, ctx, worker>> /\ master = "join"
        /\ \/ master' = "joining" /\ UNCHANGED stopFlag
           \/ master' = "done" /\ stopFlag' = 2 /\ ~(numThreads > 0)
    BY <1>10 DEF Join, ctxVars
  <2>2. ASSUME ~(numThreads > 0), master = "join"
        PROVE  \A w \in Workers : worker[w] = "done"
    <3>1. numThreads = Cardinality(Running)
      BY <2>2 DEF CountInv, LifeInv
    <3>2. IsFiniteSet(Running)
      BY WebServerAssumption, FS_Subset DEF Running
    <3>3. Running = {}
      BY <2>2, <3>1, <3>2, FS_CardinalityType, FS_EmptySet
    <3> QED
      BY <3>3 DEF Running
  <2> QED
    BY <2>1, <2>2 DEF StopInv, LifeInv
<1>11. ASSUME NEW w \in Workers, ConsumeSocket(w)
      PROVE  StopInv'
  BY <1>11
  DEF ConsumeSocket, SignalEmpty, WrapPointers, ThreadTypes, LifeInv, StopInv,
      ctxVars, ring, lua
<1>12. ASSUME NEW w \in Workers, WaitFull(w)
      PROVE  StopInv'
  BY <1>12, StopKept DEF WaitFull, ThreadTypes, ctxVars, lua, ring
<1>13. ASSUME NEW w \in Workers, Consumed(w)
      PROVE  StopInv'
  BY <1>13, StopKept DEF Consumed, ThreadTypes, ctxVars, lua, ring
<1>14. ASSUME NEW w \in Workers, NoRequest(w)
      PROVE  StopInv'
  BY <1>14, StopKept DEF NoRequest, ThreadTypes, ctxVars, lua, ring
<1>15. ASSUME NEW w \in Workers, ReadRequest(w)
      PROVE  StopInv'
  BY <1>15, StopKept DEF ReadRequest, ThreadTypes, ctxVars, lua, ring
<1>16. ASSUME NEW w \in Workers, HandlePage(w)
      PROVE  StopInv'
  BY <1>16, StopKept DEF HandlePage, UnlockLua, ThreadTypes, ctxVars, lua, ring
<1>17. ASSUME NEW w \in Workers, HandleFail(w)
      PROVE  StopInv'
  BY <1>17, StopKept DEF HandleFail, UnlockLua, ThreadTypes, ctxVars, lua, ring
<1>18. ASSUME NEW w \in Workers, HandleStop(w)
      PROVE  StopInv'
  <2>1. /\ worker[w] = "lua" /\ stopFlag' = 1 /\ UNCHANGED <<block, app, ctx, master>>
        /\ worker' = [worker EXCEPT ![w] = "stopping"] /\ block = "active"
    BY <1>18 DEF HandleStop
  <2>2. /\ \A u \in Workers : worker[u] = "done" => worker'[u] = "done"
        /\ worker'[w] = "stopping" /\ master # "done"
    BY <2>1 DEF StopInv, ThreadTypes
  <2> QED
    BY <2>1, <2>2 DEF StopInv
<1>19. ASSUME NEW w \in Workers, LockLua(w)
      PROVE  StopInv'
  BY <1>19, StopKept DEF LockLua, ThreadTypes, ctxVars, lua, ring
<1>20. ASSUME NEW w \in Workers, HandleReload(w)
      PROVE  StopInv'
  BY <1>20, StopKept DEF HandleReload, ThreadTypes, ctxVars, lua, ring
<1>21. ASSUME NEW w \in Workers, ReloadEnd(w)
      PROVE  StopInv'
  BY <1>21, StopKept DEF ReloadEnd, UnlockLua, ThreadTypes, ctxVars, lua, ring
<1>22. ASSUME NEW w \in Workers, CloseConnection(w)
      PROVE  StopInv'
  BY <1>22, StopKept DEF CloseConnection, ThreadTypes, ctxVars, lua, ring
<1>23. ASSUME NEW w \in Workers, WorkerExit(w)
      PROVE  StopInv'
  BY <1>23
  DEF WorkerExit, SignalExit, ThreadTypes, LifeInv, StopInv, ctxVars, ring, lua
<1>24. CASE UNCHANGED vars
  BY <1>24
  DEF vars, ctxVars, ring, lua, ThreadTypes, LifeInv, StopInv, ctxVars, ring,
      lua
<1> QED
  BY <1>1, <1>2, <1>3, <1>4, <1>5, <1>6, <1>7, <1>8, <1>9, <1>10, <1>11,
     <1>12, <1>13, <1>14, <1>15, <1>16, <1>17, <1>18, <1>19, <1>20, <1>21,
     <1>22, <1>23, <1>24
  DEF Next, MasterStep, WorkerStep, Handle

(* The connection that the master has accepted stays with it until it is   *)
(* in the ring or forgotten.                                               *)
LEMMA MasterInvStep ==
  ASSUME ThreadTypes, LifeInv, StopInv, MasterInv, WorkerInv, RingTypes,
         RingInv, [Next]_vars
  PROVE  MasterInv'
<1>1. CASE WiInit
  BY <1>1
  DEF WiInit, ThreadTypes, LifeInv, MasterInv, WorkerInv, ctxVars, ring, lua
<1>2. CASE WiStart
  BY <1>2
  DEF WiStart, ThreadTypes, LifeInv, MasterInv, WorkerInv, ctxVars, ring, lua
<1>3. CASE WiStop
  BY <1>3
  DEF WiStop, ThreadTypes, LifeInv, MasterInv, WorkerInv, ctxVars, ring, lua
<1>4. CASE MgStopReturns
  BY <1>4
  DEF MgStopReturns, ThreadTypes, LifeInv, MasterInv, WorkerInv, ctxVars, ring,
      lua
<1>5. CASE WiCleanup
  BY <1>5
  DEF WiCleanup, ThreadTypes, LifeInv, MasterInv, WorkerInv, ctxVars, ring, lua
<1>6. ASSUME NEW c \in Clients, Connect(c)
      PROVE  MasterInv'
  BY <1>6
  DEF Connect, ThreadTypes, LifeInv, MasterInv, WorkerInv, ctxVars, ring, lua
<1>7. ASSUME NEW c \in Clients, Accept(c)
      PROVE  MasterInv'
  BY <1>7, NoneNoClient DEF Accept, MasterInv, ThreadTypes
<1>8. CASE ProduceSocket
  BY <1>8
  DEF ProduceSocket, SignalFull, ThreadTypes, LifeInv, MasterInv, WorkerInv,
      ctxVars, ring, lua
<1>9. CASE CloseListening
  BY <1>9
  DEF CloseListening, ThreadTypes, LifeInv, MasterInv, WorkerInv, ctxVars,
      ring, lua
<1>10. CASE Join
  BY <1>10
  DEF Join, ThreadTypes, LifeInv, MasterInv, WorkerInv, ctxVars, ring, lua
<1>11. ASSUME NEW w \in Workers, ConsumeSocket(w)
      PROVE  MasterInv'
  <2> DEFINE c == queue[Index(tail)]
  <2>1. ctx = "live" /\ head > tail => c \in Clients /\ client[c] = "queued"
    BY Taken DEF RingInv, Entry
  <2>2. ctx = "live"
    BY <1>11 DEF ConsumeSocket, LifeInv, StopInv, ThreadTypes
  <2>3. /\ so' = so
        /\ client' = client \/ (head > tail /\ client' = [client EXCEPT ![c] = "taken"])
        /\ master' = master \/ (master = "full" /\ master' = "produce")
    BY <1>11 DEF ConsumeSocket, SignalEmpty
  <2> HIDE DEF c
  <2> QED
    BY <2>1, <2>2, <2>3 DEF ThreadTypes, MasterInv
<1>12. ASSUME NEW w \in Workers, WaitFull(w)
      PROVE  MasterInv'
  BY <1>12
  DEF WaitFull, ThreadTypes, LifeInv, MasterInv, WorkerInv, ctxVars, ring, lua
<1>13. ASSUME NEW w \in Workers, Consumed(w)
      PROVE  MasterInv'
  BY <1>13
  DEF Consumed, ThreadTypes, LifeInv, MasterInv, WorkerInv, ctxVars, ring, lua
<1>14. ASSUME NEW w \in Workers, NoRequest(w)
      PROVE  MasterInv'
  BY <1>14
  DEF NoRequest, ThreadTypes, LifeInv, MasterInv, WorkerInv, ctxVars, ring, lua
<1>15. ASSUME NEW w \in Workers, ReadRequest(w)
      PROVE  MasterInv'
  BY <1>15
  DEF ReadRequest, ThreadTypes, LifeInv, MasterInv, WorkerInv, ctxVars, ring,
      lua
<1>16. ASSUME NEW w \in Workers, HandlePage(w)
      PROVE  MasterInv'
  BY <1>16
  DEF HandlePage, UnlockLua, AnswerPage, ThreadTypes, LifeInv, MasterInv, WorkerInv,
      ctxVars, ring, lua
<1>17. ASSUME NEW w \in Workers, HandleFail(w)
      PROVE  MasterInv'
  BY <1>17
  DEF HandleFail, UnlockLua, ThreadTypes, LifeInv, MasterInv, WorkerInv, ctxVars, ring, lua
<1>18. ASSUME NEW w \in Workers, HandleStop(w)
      PROVE  MasterInv'
  BY <1>18
  DEF HandleStop, ThreadTypes, LifeInv, MasterInv, WorkerInv, ctxVars, ring, lua
<1>19. ASSUME NEW w \in Workers, LockLua(w)
      PROVE  MasterInv'
  BY <1>19
  DEF LockLua, ThreadTypes, LifeInv, MasterInv, WorkerInv, ctxVars, ring, lua
<1>20. ASSUME NEW w \in Workers, HandleReload(w)
      PROVE  MasterInv'
  BY <1>20
  DEF HandleReload, ThreadTypes, LifeInv, MasterInv, WorkerInv, ctxVars, ring, lua
<1>21. ASSUME NEW w \in Workers, ReloadEnd(w)
      PROVE  MasterInv'
  BY <1>21
  DEF ReloadEnd, UnlockLua, ThreadTypes, LifeInv, MasterInv, WorkerInv, ctxVars, ring, lua
<1>22. ASSUME NEW w \in Workers, CloseConnection(w)
      PROVE  MasterInv'
  BY <1>22
  DEF CloseConnection, ThreadTypes, LifeInv, MasterInv, WorkerInv, ctxVars,
      ring, lua
<1>23. ASSUME NEW w \in Workers, WorkerExit(w)
      PROVE  MasterInv'
  BY <1>23
  DEF WorkerExit, SignalExit, ThreadTypes, LifeInv, MasterInv, WorkerInv,
      ctxVars, ring, lua
<1>24. CASE UNCHANGED vars
  BY <1>24
  DEF vars, ctxVars, ring, lua, ThreadTypes, LifeInv, MasterInv, WorkerInv,
      ctxVars, ring, lua
<1> QED
  BY <1>1, <1>2, <1>3, <1>4, <1>5, <1>6, <1>7, <1>8, <1>9, <1>10, <1>11,
     <1>12, <1>13, <1>14, <1>15, <1>16, <1>17, <1>18, <1>19, <1>20, <1>21,
     <1>22, <1>23, <1>24
  DEF Next, MasterStep, WorkerStep, Handle

-----------------------------------------------------------------------------
(* The answers.                                                            *)

(* A connection is with one worker.                                        *)
LEMMA OneOwner ==
  ASSUME WorkerInv, NEW u \in Workers, NEW w \in Workers, conn[u] = conn[w], conn[u] # NONE
  PROVE  u = w
BY DEF WorkerInv

(* A step that answers nobody and closes no connection.                    *)
LEMMA AnswerKept ==
  ASSUME AnswerInv, UNCHANGED <<reply, failed, shared, spoilt, luaStack>>,
         \A d \in Clients : client'[d] = "closed" => client[d] = "closed",
         \A u \in Workers : worker'[u] = "close" =>
                             worker[u] = "close" /\ conn'[u] = conn[u]
  PROVE  AnswerInv'
BY DEF AnswerInv, Answered, AnswerTypes

(* A worker answers its client and goes on to close the connection.        *)
LEMMA Replied ==
  ASSUME ThreadTypes, WorkerInv, AnswerInv, NEW w \in Workers,
         worker[w] \in Serving, worker[w] # "close",
         worker' = [worker EXCEPT ![w] = "close"], UNCHANGED <<client, conn, shared>>,
         spoilt' = spoilt \/ spoilt' = spoilt \cup {conn[w]},
         luaStack' \in Stacks, failed' \in BOOLEAN, ~failed' => luaStack' = <<>>,
         \/ reply' = reply /\ conn[w] \in spoilt'
         \/ \E r \in Replies : /\ reply' = [reply EXCEPT ![conn[w]] = r]
                               /\ conn[w] \in spoilt' \/ r \in Good
  PROVE  AnswerInv'
<1>1. conn[w] \in Clients /\ client[conn[w]] # "closed"
  BY DEF WorkerInv, Holds, Serving, ThreadTypes
<1>2. /\ reply' \in [Clients -> Replies]
      /\ conn[w] \in spoilt' \/ reply'[conn[w]] \in Good
      /\ \A d \in Clients : d # conn[w] => reply'[d] = reply[d]
  BY <1>1 DEF AnswerInv, AnswerTypes
<1>3. \A u \in Workers : worker'[u] = "close" /\ u # w =>
        worker[u] = "close" /\ conn[u] # conn[w] /\ conn[u] \in Clients
  BY <1>1, OneOwner DEF ThreadTypes, WorkerInv, Holds, Serving
<1>4. AnswerTypes'
  BY <1>1, <1>2 DEF AnswerInv, AnswerTypes
<1>5. Answered'
  BY <1>1, <1>2 DEF AnswerInv, Answered, Good
<1>6. \A u \in Workers :
        worker'[u] = "close" /\ conn[u] \notin spoilt' => reply'[conn[u]] \in Good
  <2> SUFFICES ASSUME NEW u \in Workers, worker'[u] = "close", conn[u] \notin spoilt'
               PROVE  reply'[conn[u]] \in Good
    OBVIOUS
  <2>1. CASE u = w
    BY <1>2, <2>1
  <2>2. CASE u # w
    BY <1>2, <1>3, <2>2 DEF AnswerInv
  <2> QED
    BY <2>1, <2>2
<1> QED
  BY <1>4, <1>5, <1>6 DEF AnswerInv

(* What a connection is answered.                                          *)
LEMMA AnswerStep ==
  ASSUME ThreadTypes, WorkerInv, AnswerInv, [Next]_vars
  PROVE  AnswerInv'
<1>0. {"none", "own page", "error text", "error 500"} \subseteq Replies
  BY DEF Replies
<1>1. CASE WiInit
  BY <1>1, StackFacts DEF WiInit, AnswerInv, Answered, AnswerTypes
<1>2. CASE WiStart
  BY <1>2, <1>0
  DEF WiStart, ThreadTypes, AnswerInv, Answered, AnswerTypes, ctxVars, ring, lua
<1>3. CASE WiStop
  BY <1>3, <1>0
  DEF WiStop, ThreadTypes, AnswerInv, Answered, AnswerTypes, ctxVars, ring, lua
<1>4. CASE MgStopReturns
  BY <1>4, <1>0
  DEF MgStopReturns, ThreadTypes, AnswerInv, Answered, AnswerTypes, ctxVars,
      ring, lua
<1>5. CASE WiCleanup
  BY <1>5, StackFacts DEF WiCleanup, AnswerInv, Answered, AnswerTypes, lua
<1>6. ASSUME NEW c \in Clients, Connect(c)
      PROVE  AnswerInv'
  BY <1>6, <1>0
  DEF Connect, ThreadTypes, AnswerInv, Answered, AnswerTypes, ctxVars, ring, lua
<1>7. ASSUME NEW c \in Clients, Accept(c)
      PROVE  AnswerInv'
  BY <1>7, <1>0
  DEF Accept, ThreadTypes, AnswerInv, Answered, AnswerTypes, ctxVars, ring, lua
<1>8. CASE ProduceSocket
  <2>1. /\ client' = client \/ client' = [client EXCEPT ![so] = "leaked"]
           \/ client' = [client EXCEPT ![so] = "queued"]
        /\ worker' = worker \/ \E u \in Workers : worker' = [worker EXCEPT ![u] = "consume"]
        /\ UNCHANGED <<reply, lua, conn>>
    BY <1>8 DEF ProduceSocket, SignalFull
  <2>2. /\ \A d \in Clients : client'[d] = "closed" => client[d] = "closed"
        /\ \A u \in Workers : worker'[u] = "close" => worker[u] = "close"
    BY <2>1 DEF ThreadTypes
  <2> QED
    BY <2>1, <2>2, AnswerKept DEF lua
<1>9. CASE CloseListening
  BY <1>9, <1>0
  DEF CloseListening, ThreadTypes, AnswerInv, Answered, AnswerTypes, ctxVars,
      ring, lua
<1>10. CASE Join
  BY <1>10, <1>0
  DEF Join, ThreadTypes, AnswerInv, Answered, AnswerTypes, ctxVars, ring, lua
<1>11. ASSUME NEW w \in Workers, ConsumeSocket(w)
      PROVE  AnswerInv'
  <2> DEFINE c == queue[Index(tail)]
  <2>1. /\ worker' = [worker EXCEPT ![w] = "checked"] \/ worker' = [worker EXCEPT ![w] = "took"]
        /\ client' = client \/ client' = [client EXCEPT ![c] = "taken"]
        /\ UNCHANGED <<reply, lua>> /\ worker[w] = "consume"
        /\ \A u \in Workers : u # w => conn'[u] = conn[u]
    BY <1>11 DEF ConsumeSocket, ThreadTypes
  <2> HIDE DEF c
  <2>2. \A d \in Clients : client'[d] = "closed" => client[d] = "closed"
    BY <2>1 DEF ThreadTypes
  <2>3. \A u \in Workers : worker'[u] = "close" => u # w /\ worker[u] = "close"
    BY <2>1 DEF ThreadTypes
  <2> QED
    BY <2>1, <2>2, <2>3, AnswerKept DEF lua
<1>12. ASSUME NEW w \in Workers, WaitFull(w)
      PROVE  AnswerInv'
  BY <1>12, <1>0
  DEF WaitFull, ThreadTypes, AnswerInv, Answered, AnswerTypes, ctxVars, ring,
      lua
<1>13. ASSUME NEW w \in Workers, Consumed(w)
      PROVE  AnswerInv'
  <2>1. /\ client' = client \/ client' = [client EXCEPT ![conn[w]] = "leaked"]
        /\ worker' = [worker EXCEPT ![w] = "serve"] \/ worker' = [worker EXCEPT ![w] = "exit"]
        /\ conn' = conn \/ conn' = [conn EXCEPT ![w] = NONE]
        /\ UNCHANGED <<reply, lua>>
    BY <1>13 DEF Consumed
  <2>2. /\ \A d \in Clients : client'[d] = "closed" => client[d] = "closed"
        /\ \A u \in Workers : worker'[u] = "close" => u # w /\ worker[u] = "close"
        /\ \A u \in Workers : u # w => conn'[u] = conn[u]
    BY <2>1 DEF ThreadTypes
  <2> QED
    BY <2>1, <2>2, AnswerKept DEF lua
<1>14. ASSUME NEW w \in Workers, NoRequest(w)
      PROVE  AnswerInv'
  <2>1. /\ worker[w] = "serve" /\ worker' = [worker EXCEPT ![w] = "close"]
        /\ reply' = [reply EXCEPT ![conn[w]] = "error 500"]
        /\ UNCHANGED <<client, conn, lua>>
    BY <1>14 DEF NoRequest
  <2>2. "error 500" \in Replies /\ "error 500" \in Good /\ "serve" \in Serving
    BY DEF Replies, Good, Serving
  <2> QED
    BY <2>1, <2>2, Replied DEF lua, AnswerInv, AnswerTypes
<1>15. ASSUME NEW w \in Workers, ReadRequest(w)
      PROVE  AnswerInv'
  BY <1>15, <1>0
  DEF ReadRequest, ThreadTypes, AnswerInv, Answered, AnswerTypes, ctxVars,
      ring, lua
<1>16. ASSUME NEW w \in Workers, HandlePage(w)
      PROVE  AnswerInv'
  <2>1. PICK r \in {"own page", "old page", "error text"} :
          /\ ~shared => r = IF luaStack = <<>> THEN "own page" ELSE Head(luaStack)
          /\ reply' = [reply EXCEPT ![conn[w]] = r]
    BY <1>16 DEF HandlePage, AnswerPage
  <2>2. /\ worker[w] = "lua" /\ worker' = [worker EXCEPT ![w] = "close"]
        /\ UNCHANGED <<client, conn, failed, shared, luaStack>>
        /\ spoilt' = IF failed \/ shared THEN spoilt \cup {conn[w]} ELSE spoilt
    BY <1>16 DEF HandlePage, AnswerPage, UnlockLua
  <2>3. r \in Replies /\ (conn[w] \in spoilt' \/ r \in Good)
    BY <2>1, <2>2 DEF Replies, Good, AnswerInv
  <2>4. spoilt' = spoilt \/ spoilt' = spoilt \cup {conn[w]}
    BY <2>2
  <2>5. "lua" \in Serving
    BY DEF Serving
  <2> QED
    BY <2>1, <2>2, <2>3, <2>4, <2>5, Replied DEF AnswerInv, AnswerTypes
<1>17. ASSUME NEW w \in Workers, HandleFail(w)
      PROVE  AnswerInv'
  <2>1. /\ worker[w] = "lua" /\ worker' = [worker EXCEPT ![w] = "close"]
        /\ luaStack' = Append(luaStack, "error text") /\ failed' = TRUE
        /\ spoilt' = spoilt \cup {conn[w]} /\ UNCHANGED <<reply, client, conn, shared>>
    BY <1>17 DEF HandleFail, UnlockLua
  <2>2. luaStack' \in Stacks /\ "lua" \in Serving
    BY <2>1, StackFacts DEF AnswerInv, AnswerTypes, Serving
  <2> QED
    BY <2>1, <2>2, Replied
<1>18. ASSUME NEW w \in Workers, HandleStop(w)
      PROVE  AnswerInv'
  BY <1>18, <1>0
  DEF HandleStop, ThreadTypes, AnswerInv, Answered, AnswerTypes, ctxVars, ring,
      lua
<1>19. ASSUME NEW w \in Workers, LockLua(w)
      PROVE  AnswerInv'
  <2>1. /\ worker' = [worker EXCEPT ![w] = "lua"] /\ shared' \in BOOLEAN
        /\ UNCHANGED <<client, conn, reply, luaStack, failed, spoilt>>
    BY <1>19 DEF LockLua, AnswerInv, AnswerTypes
  <2>2. \A u \in Workers : worker'[u] = "close" => worker[u] = "close"
    BY <2>1 DEF ThreadTypes
  <2> QED
    BY <2>1, <2>2 DEF AnswerInv, Answered, AnswerTypes
<1>20. ASSUME NEW w \in Workers, HandleReload(w)
      PROVE  AnswerInv'
  <2>1. /\ worker' = [worker EXCEPT ![w] = "reload"] /\ luaStack' = <<>> /\ failed' = FALSE
        /\ UNCHANGED <<client, conn, reply, shared, spoilt>>
    BY <1>20 DEF HandleReload
  <2>2. \A u \in Workers : worker'[u] = "close" => worker[u] = "close"
    BY <2>1 DEF ThreadTypes
  <2> QED
    BY <2>1, <2>2, StackFacts DEF AnswerInv, Answered, AnswerTypes
<1>21. ASSUME NEW w \in Workers, ReloadEnd(w)
      PROVE  AnswerInv'
  <2>1. /\ worker[w] = "reload" /\ worker' = [worker EXCEPT ![w] = "close"]
        /\ reply' = [reply EXCEPT ![conn[w]] = "own page"]
        /\ UNCHANGED <<client, conn, luaStack, failed, shared, spoilt>>
    BY <1>21 DEF ReloadEnd, UnlockLua
  <2>2. "own page" \in Replies /\ "own page" \in Good /\ "reload" \in Serving
    BY DEF Replies, Good, Serving
  <2> QED
    BY <2>1, <2>2, Replied DEF AnswerInv, AnswerTypes
<1>22. ASSUME NEW w \in Workers, CloseConnection(w)
      PROVE  AnswerInv'
  <2>1. conn[w] \in Clients /\ worker[w] = "close"
    BY <1>22 DEF CloseConnection, WorkerInv, Holds, Serving, ThreadTypes
  <2>2. /\ client' = [client EXCEPT ![conn[w]] = "closed"]
        /\ conn' = [conn EXCEPT ![w] = NONE]
        /\ worker' = [worker EXCEPT ![w] = "consume"]
        /\ UNCHANGED <<reply, luaStack, failed, shared, spoilt>>
    BY <1>22 DEF CloseConnection, lua
  <2> QED
    BY <2>1, <2>2 DEF AnswerInv, Answered, AnswerTypes, ThreadTypes, Good
<1>23. ASSUME NEW w \in Workers, WorkerExit(w)
      PROVE  AnswerInv'
  BY <1>23, <1>0
  DEF WorkerExit, SignalExit, ThreadTypes, AnswerInv, Answered, AnswerTypes,
      ctxVars, ring, lua
<1>24. CASE UNCHANGED vars
  BY <1>24, <1>0
  DEF vars, ctxVars, ring, lua, ThreadTypes, AnswerInv, Answered, AnswerTypes,
      ctxVars, ring, lua
<1> QED
  BY <1>1, <1>2, <1>3, <1>4, <1>5, <1>6, <1>7, <1>8, <1>9, <1>10, <1>11,
     <1>12, <1>13, <1>14, <1>15, <1>16, <1>17, <1>18, <1>19, <1>20, <1>21,
     <1>22, <1>23, <1>24
  DEF Next, MasterStep, WorkerStep, Handle

-----------------------------------------------------------------------------
(* The workers that run are the same when none of them ends.               *)
LEMMA SameRunning ==
  ASSUME \A w \in Workers : worker'[w] = "done" <=> worker[w] = "done"
  PROVE  Running' = Running
BY DEF Running

(* num_threads follows the workers that end.                               *)
LEMMA CountStep ==
  ASSUME ThreadTypes, LifeInv, StopInv, CountInv, [Next]_vars
  PROVE  CountInv'
<1>1. CASE WiInit
  BY <1>1, SameRunning DEF WiInit, ThreadTypes, CountInv, ctxVars
<1>2. CASE WiStart
  <2>1. Running' = Workers
    BY <1>2 DEF WiStart, Running
  <2> QED
    BY <1>2, <2>1 DEF WiStart, CountInv
<1>3. CASE WiStop
  BY <1>3, SameRunning DEF WiStop, ThreadTypes, CountInv, ctxVars
<1>4. CASE MgStopReturns
  <2>1. ctx = "live" /\ ctx' = "freed" /\ UNCHANGED <<numThreads, worker>>
    BY <1>4 DEF MgStopReturns, StopInv, LifeInv
  <2>2. Running' = Running
    BY <2>1, SameRunning
  <2> QED
    BY <2>1, <2>2 DEF CountInv
<1>5. CASE WiCleanup
  BY <1>5, SameRunning DEF WiCleanup, ThreadTypes, CountInv, ctxVars
<1>6. ASSUME NEW c \in Clients, Connect(c)
      PROVE  CountInv'
  BY <1>6, SameRunning DEF Connect, ThreadTypes, CountInv, ctxVars
<1>7. ASSUME NEW c \in Clients, Accept(c)
      PROVE  CountInv'
  BY <1>7, SameRunning DEF Accept, ThreadTypes, CountInv, ctxVars
<1>8. CASE ProduceSocket
  BY <1>8, SameRunning
  DEF ProduceSocket, SignalFull, ThreadTypes, CountInv, ctxVars
<1>9. CASE CloseListening
  BY <1>9, SameRunning DEF CloseListening, ThreadTypes, CountInv, ctxVars
<1>10. CASE Join
  BY <1>10, SameRunning DEF Join, ThreadTypes, CountInv, ctxVars
<1>11. ASSUME NEW w \in Workers, ConsumeSocket(w)
      PROVE  CountInv'
  BY <1>11, SameRunning
  DEF ConsumeSocket, SignalEmpty, WrapPointers, ThreadTypes, CountInv, ctxVars
<1>12. ASSUME NEW w \in Workers, WaitFull(w)
      PROVE  CountInv'
  BY <1>12, SameRunning DEF WaitFull, ThreadTypes, CountInv, ctxVars
<1>13. ASSUME NEW w \in Workers, Consumed(w)
      PROVE  CountInv'
  BY <1>13, SameRunning DEF Consumed, ThreadTypes, CountInv, ctxVars
<1>14. ASSUME NEW w \in Workers, NoRequest(w)
      PROVE  CountInv'
  BY <1>14, SameRunning DEF NoRequest, ThreadTypes, CountInv, ctxVars
<1>15. ASSUME NEW w \in Workers, ReadRequest(w)
      PROVE  CountInv'
  BY <1>15, SameRunning DEF ReadRequest, ThreadTypes, CountInv, ctxVars
<1>16. ASSUME NEW w \in Workers, HandlePage(w)
      PROVE  CountInv'
  BY <1>16, SameRunning
  DEF HandlePage, UnlockLua, AnswerPage, ThreadTypes, CountInv, ctxVars
<1>17. ASSUME NEW w \in Workers, HandleFail(w)
      PROVE  CountInv'
  BY <1>17, SameRunning DEF HandleFail, UnlockLua, ThreadTypes, CountInv, ctxVars
<1>18. ASSUME NEW w \in Workers, HandleStop(w)
      PROVE  CountInv'
  BY <1>18, SameRunning DEF HandleStop, ThreadTypes, CountInv, ctxVars
<1>19. ASSUME NEW w \in Workers, LockLua(w)
      PROVE  CountInv'
  BY <1>19, SameRunning DEF LockLua, ThreadTypes, CountInv, ctxVars
<1>20. ASSUME NEW w \in Workers, HandleReload(w)
      PROVE  CountInv'
  BY <1>20, SameRunning DEF HandleReload, ThreadTypes, CountInv, ctxVars
<1>21. ASSUME NEW w \in Workers, ReloadEnd(w)
      PROVE  CountInv'
  BY <1>21, SameRunning DEF ReloadEnd, UnlockLua, ThreadTypes, CountInv, ctxVars
<1>22. ASSUME NEW w \in Workers, CloseConnection(w)
      PROVE  CountInv'
  BY <1>22, SameRunning DEF CloseConnection, ThreadTypes, CountInv, ctxVars
<1>23. ASSUME NEW w \in Workers, WorkerExit(w)
      PROVE  CountInv'
  <2>1. /\ numThreads' = numThreads - 1 /\ ctx' = ctx /\ worker[w] = "exit"
        /\ worker' = [worker EXCEPT ![w] = "done"]
    BY <1>23 DEF WorkerExit
  <2>2. w \in Running /\ Running' = Running \ {w} /\ IsFiniteSet(Running) /\ ctx # "none"
    BY <2>1, WebServerAssumption, FS_Subset DEF Running, ThreadTypes, LifeInv
  <2>3. Cardinality(Running') = Cardinality(Running) - 1
    BY <2>2, FS_RemoveElement
  <2> QED
    BY <2>1, <2>2, <2>3 DEF CountInv
<1>24. CASE UNCHANGED vars
  BY <1>24, SameRunning
  DEF vars, ctxVars, ring, lua, ThreadTypes, CountInv, ctxVars
<1> QED
  BY <1>1, <1>2, <1>3, <1>4, <1>5, <1>6, <1>7, <1>8, <1>9, <1>10, <1>11,
     <1>12, <1>13, <1>14, <1>15, <1>16, <1>17, <1>18, <1>19, <1>20, <1>21,
     <1>22, <1>23, <1>24
  DEF Next, MasterStep, WorkerStep, Handle

(* A step that leaves the connections with their workers.                  *)
LEMMA WorkerKept ==
  ASSUME WorkerInv, ThreadTypes, conn' = conn, \A u \in Workers : Holds(u)',
         \A d \in Clients : client'[d] = "taken" <=> client[d] = "taken"
  PROVE  WorkerInv'
BY DEF WorkerInv, ThreadTypes

(* A worker gives its connection up.                                       *)
LEMMA Release ==
  ASSUME WorkerInv, ThreadTypes, NEW w \in Workers, NEW s, s # "taken", conn[w] \in Clients,
         conn' = [conn EXCEPT ![w] = NONE], client' = [client EXCEPT ![conn[w]] = s],
         \A u \in Workers : Holds(u)'
  PROVE  WorkerInv'
<1>1. /\ \A u \in Workers : u # w => conn'[u] = conn[u] /\ conn[u] # conn[w]
      /\ conn'[w] = NONE /\ conn[w] # NONE
  BY NoneNoClient DEF WorkerInv, ThreadTypes
<1>2. /\ client'[conn[w]] = s
      /\ \A d \in Clients : d # conn[w] => client'[d] = client[d]
  BY DEF ThreadTypes
<1>3. ASSUME NEW u \in Workers, conn'[u] # NONE
      PROVE  client'[conn'[u]] = "taken"
  BY <1>1, <1>2, <1>3 DEF WorkerInv, ThreadTypes
<1>4. ASSUME NEW d \in Clients, client'[d] = "taken"
      PROVE  \E u \in Workers : conn'[u] = d
  <2>1. d # conn[w] /\ client[d] = "taken"
    BY <1>2, <1>4
  <2>2. PICK u \in Workers : conn[u] = d
    BY <2>1 DEF WorkerInv
  <2> QED
    BY <1>1, <2>1, <2>2
<1> QED
  BY <1>1, <1>3, <1>4 DEF WorkerInv

(* The ring is empty when its counters are equal.                          *)
LEMMA RingCount ==
  ASSUME RingTypes, ~ (head > tail)
  PROVE  head = tail
BY WebServerAssumption DEF RingTypes

(* The connection of a worker is its own until it gives it up.             *)
LEMMA WorkerInvStep ==
  ASSUME ThreadTypes, LifeInv, StopInv, MasterInv, RingTypes, RingInv,
         WorkerInv, [Next]_vars
  PROVE  WorkerInv'
<1>1. CASE WiInit
  <2>1. conn' = conn /\ \A d \in Clients : client'[d] = "taken" <=> client[d] = "taken"
    BY <1>1 DEF WiInit, MasterInv, ThreadTypes, ctxVars, ring, lua
  <2>2. \A u \in Workers : Holds(u)'
    BY <1>1
    DEF WiInit, WorkerInv, Holds, Serving, ThreadTypes, StopInv, ctxVars, ring,
        lua
  <2> QED
    BY <2>1, <2>2, WorkerKept
<1>2. CASE WiStart
  <2>1. \A u \in Workers : conn[u] = NONE
    BY <1>2
    DEF WiStart, WorkerInv, Holds, Serving, ThreadTypes, LifeInv, StopInv
  <2>2. \A d \in Clients : client[d] # "taken"
    BY <2>1, NoneNoClient DEF WorkerInv
  <2>3. /\ client' = client /\ conn' = [u \in Workers |-> NONE]
        /\ worker' = [u \in Workers |-> "consume"]
    BY <1>2 DEF WiStart
  <2>4. \A u \in Workers : Holds(u)'
    BY <2>3 DEF Holds, Serving
  <2> QED
    BY <2>2, <2>3, <2>4 DEF WorkerInv
<1>3. CASE WiStop
  <2>1. conn' = conn /\ \A d \in Clients : client'[d] = "taken" <=> client[d] = "taken"
    BY <1>3 DEF WiStop, MasterInv, ThreadTypes, ctxVars, ring, lua
  <2>2. \A u \in Workers : Holds(u)'
    BY <1>3
    DEF WiStop, WorkerInv, Holds, Serving, ThreadTypes, StopInv, ctxVars, ring,
        lua
  <2> QED
    BY <2>1, <2>2, WorkerKept
<1>4. CASE MgStopReturns
  <2>1. conn' = conn /\ \A d \in Clients : client'[d] = "taken" <=> client[d] = "taken"
    BY <1>4 DEF MgStopReturns, MasterInv, ThreadTypes, ctxVars, ring, lua
  <2>2. \A u \in Workers : Holds(u)'
    BY <1>4
    DEF MgStopReturns, WorkerInv, Holds, Serving, ThreadTypes, StopInv,
        ctxVars, ring, lua
  <2> QED
    BY <2>1, <2>2, WorkerKept
<1>5. CASE WiCleanup
  <2>1. conn' = conn /\ \A d \in Clients : client'[d] = "taken" <=> client[d] = "taken"
    BY <1>5 DEF WiCleanup, MasterInv, ThreadTypes, ctxVars, ring, lua
  <2>2. \A u \in Workers : Holds(u)'
    BY <1>5
    DEF WiCleanup, WorkerInv, Holds, Serving, ThreadTypes, StopInv, ctxVars,
        ring, lua
  <2> QED
    BY <2>1, <2>2, WorkerKept
<1>6. ASSUME NEW c \in Clients, Connect(c)
      PROVE  WorkerInv'
  <2>1. conn' = conn /\ \A d \in Clients : client'[d] = "taken" <=> client[d] = "taken"
    BY <1>6 DEF Connect, MasterInv, ThreadTypes, ctxVars, ring, lua
  <2>2. \A u \in Workers : Holds(u)'
    BY <1>6
    DEF Connect, WorkerInv, Holds, Serving, ThreadTypes, StopInv, ctxVars,
        ring, lua
  <2> QED
    BY <2>1, <2>2, WorkerKept
<1>7. ASSUME NEW c \in Clients, Accept(c)
      PROVE  WorkerInv'
  <2>1. conn' = conn /\ \A d \in Clients : client'[d] = "taken" <=> client[d] = "taken"
    BY <1>7 DEF Accept, MasterInv, ThreadTypes, ctxVars, ring, lua
  <2>2. \A u \in Workers : Holds(u)'
    BY <1>7
    DEF Accept, WorkerInv, Holds, Serving, ThreadTypes, StopInv, ctxVars, ring,
        lua
  <2> QED
    BY <2>1, <2>2, WorkerKept
<1>8. CASE ProduceSocket
  <2>1. conn' = conn /\ \A d \in Clients : client'[d] = "taken" <=> client[d] = "taken"
    BY <1>8 DEF ProduceSocket, MasterInv, ThreadTypes, ctxVars, ring, lua
  <2>2. \A u \in Workers : Holds(u)'
    BY <1>8
    DEF ProduceSocket, SignalFull, WorkerInv, Holds, Serving, ThreadTypes,
        StopInv, ctxVars, ring, lua
  <2> QED
    BY <2>1, <2>2, WorkerKept
<1>9. CASE CloseListening
  <2>1. conn' = conn /\ \A d \in Clients : client'[d] = "taken" <=> client[d] = "taken"
    BY <1>9 DEF CloseListening, MasterInv, ThreadTypes, ctxVars, ring, lua
  <2>2. \A u \in Workers : Holds(u)'
    BY <1>9
    DEF CloseListening, WorkerInv, Holds, Serving, ThreadTypes, StopInv,
        ctxVars, ring, lua
  <2> QED
    BY <2>1, <2>2, WorkerKept
<1>10. CASE Join
  <2>1. conn' = conn /\ \A d \in Clients : client'[d] = "taken" <=> client[d] = "taken"
    BY <1>10 DEF Join, MasterInv, ThreadTypes, ctxVars, ring, lua
  <2>2. \A u \in Workers : Holds(u)'
    BY <1>10
    DEF Join, WorkerInv, Holds, Serving, ThreadTypes, StopInv, ctxVars, ring,
        lua
  <2> QED
    BY <2>1, <2>2, WorkerKept
<1>11. ASSUME NEW w \in Workers, ConsumeSocket(w)
      PROVE  WorkerInv'
  <2> DEFINE c == queue[Index(tail)]
  <2>1. ctx = "live"
    BY <1>11 DEF ConsumeSocket, LifeInv, StopInv, ThreadTypes
  <2>2. head > tail => c \in Clients /\ client[c] = "queued"
    BY <2>1, Taken DEF RingInv, Entry
  <2>3. /\ worker[w] = "consume" /\ stopFlag' = stopFlag
        /\ \/ worker' = [worker EXCEPT ![w] = "checked"] /\ UNCHANGED <<client, conn>>
           \/ /\ worker' = [worker EXCEPT ![w] = "took"] /\ UNCHANGED <<client, conn>>
              /\ stopFlag # 0
           \/ /\ worker' = [worker EXCEPT ![w] = "took"] /\ head > tail
              /\ client' = [client EXCEPT ![c] = "taken"] /\ conn' = [conn EXCEPT ![w] = c]
    BY <1>11, RingCount DEF ConsumeSocket, ctxVars
  <2> HIDE DEF c
  <2>4. conn[w] = NONE
    BY <2>3 DEF WorkerInv, Holds, Serving
  <2>5. \A u \in Workers : Holds(u)'
    BY <2>2, <2>3, <2>4, NoneNoClient DEF WorkerInv, Holds, Serving, ThreadTypes
  <2>6. CASE UNCHANGED <<client, conn>>
    BY <2>5, <2>6, WorkerKept
  <2>7. CASE /\ head > tail /\ client' = [client EXCEPT ![c] = "taken"]
             /\ conn' = [conn EXCEPT ![w] = c]
    <3>1. \A u \in Workers : u # w => conn'[u] = conn[u] /\ conn[u] # c
      BY <2>2, <2>7, NoneNoClient DEF WorkerInv, ThreadTypes
    <3>2. /\ conn'[w] = c /\ client'[c] = "taken"
          /\ \A d \in Clients : d # c => client'[d] = client[d]
      BY <2>2, <2>7 DEF ThreadTypes
    <3>3. \A u \in Workers : conn'[u] # NONE => client'[conn'[u]] = "taken"
      BY <3>1, <3>2 DEF WorkerInv, ThreadTypes
    <3>4. \A u, x \in Workers : conn'[u] = conn'[x] /\ conn'[u] # NONE => u = x
      BY <3>1, <3>2 DEF WorkerInv
    <3>5. ASSUME NEW d \in Clients, client'[d] = "taken"
          PROVE  \E u \in Workers : conn'[u] = d
      <4>1. CASE d = c
        BY <3>2, <4>1
      <4>2. CASE d # c
        <5>1. PICK u \in Workers : conn[u] = d
          BY <3>2, <3>5, <4>2 DEF WorkerInv
        <5> QED
          BY <2>4, <3>1, <5>1, NoneNoClient
      <4> QED
        BY <4>1, <4>2
    <3> QED
      BY <2>5, <3>3, <3>4, <3>5 DEF WorkerInv
  <2> QED
    BY <2>3, <2>6, <2>7
<1>12. ASSUME NEW w \in Workers, WaitFull(w)
      PROVE  WorkerInv'
  <2>1. conn' = conn /\ \A d \in Clients : client'[d] = "taken" <=> client[d] = "taken"
    BY <1>12 DEF WaitFull, MasterInv, ThreadTypes, ctxVars, ring, lua
  <2>2. \A u \in Workers : Holds(u)'
    BY <1>12
    DEF WaitFull, WorkerInv, Holds, Serving, ThreadTypes, StopInv, ctxVars,
        ring, lua
  <2> QED
    BY <2>1, <2>2, WorkerKept
<1>13. ASSUME NEW w \in Workers, Consumed(w)
      PROVE  WorkerInv'
  <2>1. \A u \in Workers : Holds(u)'
    BY <1>13 DEF Consumed, WorkerInv, Holds, Serving, ThreadTypes, ctxVars
  <2>2. CASE conn[w] = NONE \/ stopFlag = 0
    <3>1. conn' = conn /\ client' = client
      BY <1>13, <2>2 DEF Consumed, ThreadTypes
    <3> QED
      BY <2>1, <3>1, WorkerKept
  <2>3. CASE conn[w] # NONE /\ stopFlag # 0
    <3>1. /\ conn[w] \in Clients /\ client' = [client EXCEPT ![conn[w]] = "leaked"]
          /\ conn' = [conn EXCEPT ![w] = NONE]
      BY <1>13, <2>3 DEF Consumed, ThreadTypes
    <3> QED
      BY <2>1, <3>1, Release
  <2> QED
    BY <2>2, <2>3
<1>14. ASSUME NEW w \in Workers, NoRequest(w)
      PROVE  WorkerInv'
  <2>1. conn' = conn /\ \A d \in Clients : client'[d] = "taken" <=> client[d] = "taken"
    BY <1>14 DEF NoRequest, MasterInv, ThreadTypes, ctxVars, ring, lua
  <2>2. \A u \in Workers : Holds(u)'
    BY <1>14
    DEF NoRequest, WorkerInv, Holds, Serving, ThreadTypes, StopInv, ctxVars,
        ring, lua
  <2> QED
    BY <2>1, <2>2, WorkerKept
<1>15. ASSUME NEW w \in Workers, ReadRequest(w)
      PROVE  WorkerInv'
  <2>1. conn' = conn /\ \A d \in Clients : client'[d] = "taken" <=> client[d] = "taken"
    BY <1>15 DEF ReadRequest, MasterInv, ThreadTypes, ctxVars, ring, lua
  <2>2. \A u \in Workers : Holds(u)'
    BY <1>15
    DEF ReadRequest, WorkerInv, Holds, Serving, ThreadTypes, StopInv, ctxVars,
        ring, lua
  <2> QED
    BY <2>1, <2>2, WorkerKept
<1>16. ASSUME NEW w \in Workers, HandlePage(w)
      PROVE  WorkerInv'
  <2>1. conn' = conn /\ \A d \in Clients : client'[d] = "taken" <=> client[d] = "taken"
    BY <1>16 DEF HandlePage, UnlockLua, MasterInv, ThreadTypes, ctxVars, ring, lua
  <2>2. \A u \in Workers : Holds(u)'
    BY <1>16
    DEF HandlePage, UnlockLua, WorkerInv, Holds, Serving, ThreadTypes, StopInv, ctxVars,
        ring, lua
  <2> QED
    BY <2>1, <2>2, WorkerKept
<1>17. ASSUME NEW w \in Workers, HandleFail(w)
      PROVE  WorkerInv'
  <2>1. conn' = conn /\ \A d \in Clients : client'[d] = "taken" <=> client[d] = "taken"
    BY <1>17 DEF HandleFail, UnlockLua, MasterInv, ThreadTypes, ctxVars, ring, lua
  <2>2. \A u \in Workers : Holds(u)'
    BY <1>17
    DEF HandleFail, UnlockLua, WorkerInv, Holds, Serving, ThreadTypes, StopInv, ctxVars,
        ring, lua
  <2> QED
    BY <2>1, <2>2, WorkerKept
<1>18. ASSUME NEW w \in Workers, HandleStop(w)
      PROVE  WorkerInv'
  <2>1. conn' = conn /\ \A d \in Clients : client'[d] = "taken" <=> client[d] = "taken"
    BY <1>18 DEF HandleStop, MasterInv, ThreadTypes, ctxVars, ring, lua
  <2>2. \A u \in Workers : Holds(u)'
    BY <1>18
    DEF HandleStop, WorkerInv, Holds, Serving, ThreadTypes, StopInv, ctxVars,
        ring, lua
  <2> QED
    BY <2>1, <2>2, WorkerKept
<1>19. ASSUME NEW w \in Workers, LockLua(w)
      PROVE  WorkerInv'
  <2>1. conn' = conn /\ \A d \in Clients : client'[d] = "taken" <=> client[d] = "taken"
    BY <1>19 DEF LockLua, MasterInv, ThreadTypes, ctxVars, ring, lua
  <2>2. \A u \in Workers : Holds(u)'
    BY <1>19
    DEF LockLua, WorkerInv, Holds, Serving, ThreadTypes, StopInv, ctxVars,
        ring, lua
  <2> QED
    BY <2>1, <2>2, WorkerKept
<1>20. ASSUME NEW w \in Workers, HandleReload(w)
      PROVE  WorkerInv'
  <2>1. conn' = conn /\ \A d \in Clients : client'[d] = "taken" <=> client[d] = "taken"
    BY <1>20 DEF HandleReload, MasterInv, ThreadTypes, ctxVars, ring, lua
  <2>2. \A u \in Workers : Holds(u)'
    BY <1>20
    DEF HandleReload, WorkerInv, Holds, Serving, ThreadTypes, StopInv, ctxVars,
        ring, lua
  <2> QED
    BY <2>1, <2>2, WorkerKept
<1>21. ASSUME NEW w \in Workers, ReloadEnd(w)
      PROVE  WorkerInv'
  <2>1. conn' = conn /\ \A d \in Clients : client'[d] = "taken" <=> client[d] = "taken"
    BY <1>21 DEF ReloadEnd, UnlockLua, MasterInv, ThreadTypes, ctxVars, ring, lua
  <2>2. \A u \in Workers : Holds(u)'
    BY <1>21
    DEF ReloadEnd, UnlockLua, WorkerInv, Holds, Serving, ThreadTypes, StopInv, ctxVars,
        ring, lua
  <2> QED
    BY <2>1, <2>2, WorkerKept
<1>22. ASSUME NEW w \in Workers, CloseConnection(w)
      PROVE  WorkerInv'
  <2>1. /\ conn[w] \in Clients /\ client' = [client EXCEPT ![conn[w]] = "closed"]
        /\ conn' = [conn EXCEPT ![w] = NONE]
    BY <1>22 DEF CloseConnection, WorkerInv, Holds, Serving, ThreadTypes
  <2>2. \A u \in Workers : Holds(u)'
    BY <1>22
    DEF CloseConnection, WorkerInv, Holds, Serving, ThreadTypes, ctxVars
  <2> QED
    BY <2>1, <2>2, Release
<1>23. ASSUME NEW w \in Workers, WorkerExit(w)
      PROVE  WorkerInv'
  <2>1. conn' = conn /\ \A d \in Clients : client'[d] = "taken" <=> client[d] = "taken"
    BY <1>23 DEF WorkerExit, MasterInv, ThreadTypes, ctxVars, ring, lua
  <2>2. \A u \in Workers : Holds(u)'
    BY <1>23
    DEF WorkerExit, WorkerInv, Holds, Serving, ThreadTypes, StopInv, ctxVars,
        ring, lua
  <2> QED
    BY <2>1, <2>2, WorkerKept
<1>24. CASE UNCHANGED vars
  <2>1. UNCHANGED <<conn, client, worker, stopFlag>>
    BY <1>24 DEF vars, ctxVars
  <2>2. \A u \in Workers : Holds(u)'
    BY <2>1 DEF WorkerInv, Holds
  <2> QED
    BY <2>1, <2>2, WorkerKept
<1> QED
  BY <1>1, <1>2, <1>3, <1>4, <1>5, <1>6, <1>7, <1>8, <1>9, <1>10, <1>11,
     <1>12, <1>13, <1>14, <1>15, <1>16, <1>17, <1>18, <1>19, <1>20, <1>21,
     <1>22, <1>23, <1>24
  DEF Next, MasterStep, WorkerStep, Handle

(* A connection that is with a worker is not in the ring.                  *)
LEMMA TakenOnes ==
  ASSUME ThreadTypes, MasterInv, WorkerInv
  PROVE  /\ \A w \in Workers : worker[w] \in Serving => client[conn[w]] = "taken"
         /\ \A w \in Workers : conn[w] # NONE => client[conn[w]] = "taken"
         /\ \A w \in Workers : worker[w] = "close" => worker[w] \in Serving
BY DEF WorkerInv, Holds, Serving

(* A step that leaves the ring alone, ...                                  *)
LEMMA RingKept ==
  ASSUME RingTypes, RingInv, UNCHANGED <<ctx, queue, head, tail>>,
         \A d \in Clients : client'[d] = "queued" <=> client[d] = "queued"
  PROVE  RingTypes' /\ RingInv'
<1>1. Places' = Places /\ \A k : Entry(k)' = Entry(k)
  BY DEF Places, Entry
<1> QED
  BY <1>1 DEF RingTypes, RingInv

(* ... puts a connection behind the others, ...                            *)
LEMMA Produced ==
  ASSUME RingTypes, RingInv, ctx = "live", ~ RingFull, so \in Clients, client[so] = "accepted",
         client \in [Clients -> ClientStates], ctx' = ctx,
         queue' = [queue EXCEPT ![Index(head)] = so], head' = head + 1, tail' = tail,
         client' = [client EXCEPT ![so] = "queued"]
  PROVE  RingTypes' /\ RingInv'
<1>0. /\ Slots \in Nat /\ head \in Nat /\ tail \in Nat /\ tail <= Slots
      /\ head - tail \in 0 .. Slots /\ head - tail < Slots
      /\ queue \in [1 .. Slots -> Clients \cup {NONE}]
  BY WebServerAssumption DEF RingTypes, RingFull
<1>1. RingTypes'
  <2>1. Index(head) \in 1 .. Slots
    BY <1>0, IndexFacts
  <2>2. queue' \in [1 .. Slots -> Clients \cup {NONE}]
    BY <1>0, <2>1
  <2> QED
    BY <1>0, <2>2 DEF RingTypes
<1>2. /\ Places' = Places \cup {head}
      /\ \A k \in Places : k \in Nat /\ k # head /\ k - head < Slots /\ head - k < Slots
  BY <1>0 DEF Places
<1>3. Index(head) \in 1 .. Slots 
      /\ \A k \in Places : Index(k) \in 1 .. Slots /\ Index(k) # Index(head)
  BY <1>0, <1>2, IndexFacts
<1>4. /\ \A k \in Places : Entry(k)' = Entry(k)
      /\ \A k : k = head => Entry(k)' = so
  BY <1>0, <1>3 DEF Entry
<1>5. client'[so] = "queued" /\ \A d \in Clients : d # so => client'[d] = client[d]
  OBVIOUS
<1>6. ctx = "live" => \A k \in Places : Entry(k) \in Clients /\ Entry(k) # so
  BY DEF RingInv
<1>7. ASSUME NEW k \in Places'
      PROVE  Entry(k)' \in Clients /\ client'[Entry(k)'] = "queued"
  BY <1>2, <1>4, <1>5, <1>6 DEF RingInv
<1>8. ASSUME NEW j \in Places', NEW k \in Places', Entry(j)' = Entry(k)'
      PROVE  j = k
  BY <1>2, <1>4, <1>6, <1>8 DEF RingInv
<1>9. ASSUME NEW x \in Clients, client'[x] = "queued"
      PROVE  \E k \in Places' : Entry(k)' = x
  BY <1>2, <1>4, <1>5, <1>9 DEF RingInv
<1> QED
  BY <1>1, <1>7, <1>8, <1>9 DEF RingInv

(* ... or takes the oldest, whether or not the counters are moved back.    *)
LEMMA ConsumedOne ==
  ASSUME RingTypes, RingInv, ctx = "live", ctx' = ctx, head > tail,
         client \in [Clients -> ClientStates],
         client' = [client EXCEPT ![queue[Index(tail)]] = "taken"],
         WrapPointers(tail + 1), queue' = queue
  PROVE  RingTypes' /\ RingInv'
<1> DEFINE c == queue[Index(tail)]
           d == IF tail + 1 > Slots THEN Slots ELSE 0
<1>0. /\ Slots \in Nat /\ Slots > 0 /\ head \in Nat /\ tail \in Nat /\ tail <= Slots
      /\ head - tail \in 0 .. Slots /\ head <= 2 * Slots
  BY WebServerAssumption DEF RingTypes
<1>1. d \in Nat /\ tail' = tail + 1 - d /\ head' = head - d /\ (d = 0 \/ d = Slots)
      /\ (d = 0 => tail < Slots) /\ (d = Slots => tail = Slots)
  BY <1>0 DEF WrapPointers
<1> HIDE DEF d
<1>2. RingTypes'
  BY <1>0, <1>1 DEF RingTypes
<1>3. ASSUME NEW k \in Places'
      PROVE  k + d \in Places /\ k + d # tail /\ Entry(k)' = Entry(k + d)
  <2>1. k \in Nat /\ k + d \in Places /\ k + d # tail
    BY <1>0, <1>1 DEF Places
  <2>2. Index(k + d) = Index(k)
    BY <1>0, <1>1, <2>1, IndexFacts
  <2> QED
    BY <2>1, <2>2 DEF Entry
<1>4. ASSUME NEW k \in Places, k # tail
      PROVE  k - d \in Places' /\ (k - d) + d = k
  BY <1>0, <1>1, <1>4 DEF Places
<1>5. c = Entry(tail) /\ tail \in Places /\ c \in Clients
  BY <1>0 DEF Entry, Places, RingInv
<1> HIDE DEF c
<1>6. /\ client'[c] = "taken"
      /\ \A x \in Clients : x # c => client'[x] = client[x]
  BY <1>5 DEF c
<1>7. ASSUME NEW k \in Places'
      PROVE  Entry(k)' \in Clients /\ client'[Entry(k)'] = "queued"
  <2>1. Entry(k + d) \in Clients /\ client[Entry(k + d)] = "queued" /\ Entry(k + d) # c
    BY <1>3, <1>5 DEF RingInv
  <2> QED
    BY <1>3, <1>6, <2>1
<1>8. ASSUME NEW j \in Places', NEW k \in Places', Entry(j)' = Entry(k)'
      PROVE  j = k
  <2>1. j + d = k + d
    BY <1>3, <1>8 DEF RingInv
  <2> QED
    BY <1>0, <1>1, <2>1 DEF Places
<1>9. ASSUME NEW x \in Clients, client'[x] = "queued"
      PROVE  \E k \in Places' : Entry(k)' = x
  <2>1. x # c /\ client[x] = "queued"
    BY <1>6, <1>9
  <2>2. PICK k \in Places : Entry(k) = x
    BY <2>1 DEF RingInv
  <2>3. k # tail
    BY <1>5, <2>1, <2>2
  <2> QED
    BY <1>3, <1>4, <2>2, <2>3
<1> QED
  BY <1>2, <1>7, <1>8, <1>9 DEF RingInv

(* The ring between the two counters.                                      *)
LEMMA RingStep ==
  ASSUME ThreadTypes, LifeInv, StopInv, MasterInv, WorkerInv, RingTypes,
         RingInv, [Next]_vars
  PROVE  (RingTypes /\ RingInv)'
<1>1. CASE WiInit
  <2>1. /\ UNCHANGED <<ctx, queue, head, tail>>
        /\ \A d \in Clients : client'[d] = "queued" <=> client[d] = "queued"
    BY <1>1, TakenOnes DEF WiInit, ThreadTypes, ctxVars, ring
  <2> QED
    BY <2>1, RingKept
<1>2. CASE WiStart
  <2>1. /\ queue' = [i \in 1 .. Slots |-> NONE] /\ head' = 0 /\ tail' = 0 /\ client' = client
        /\ ctx # "live"
    BY <1>2 DEF WiStart, LifeInv
  <2>2. RingTypes'
    BY <2>1, WebServerAssumption DEF RingTypes
  <2>3. Places' = {}
    BY <2>1 DEF Places
  <2> QED
    BY <2>1, <2>2, <2>3 DEF RingInv
<1>3. CASE WiStop
  <2>1. /\ UNCHANGED <<ctx, queue, head, tail>>
        /\ \A d \in Clients : client'[d] = "queued" <=> client[d] = "queued"
    BY <1>3, TakenOnes DEF WiStop, ThreadTypes, ctxVars, ring
  <2> QED
    BY <2>1, RingKept
<1>4. CASE MgStopReturns
  <2>1. /\ UNCHANGED <<queue, head, tail>> /\ ctx' = "freed"
        /\ \A d \in Clients : client'[d] # "queued"
    BY <1>4 DEF MgStopReturns, ring
  <2> QED
    BY <2>1 DEF RingTypes, RingInv
<1>5. CASE WiCleanup
  <2>1. /\ UNCHANGED <<ctx, queue, head, tail>>
        /\ \A d \in Clients : client'[d] = "queued" <=> client[d] = "queued"
    BY <1>5, TakenOnes DEF WiCleanup, ThreadTypes, ctxVars, ring
  <2> QED
    BY <2>1, RingKept
<1>6. ASSUME NEW c \in Clients, Connect(c)
      PROVE  (RingTypes /\ RingInv)'
  <2>1. /\ UNCHANGED <<ctx, queue, head, tail>>
        /\ \A d \in Clients : client'[d] = "queued" <=> client[d] = "queued"
    BY <1>6, TakenOnes DEF Connect, ThreadTypes, ctxVars, ring
  <2> QED
    BY <2>1, RingKept
<1>7. ASSUME NEW c \in Clients, Accept(c)
      PROVE  (RingTypes /\ RingInv)'
  <2>1. /\ UNCHANGED <<ctx, queue, head, tail>>
        /\ \A d \in Clients : client'[d] = "queued" <=> client[d] = "queued"
    BY <1>7, TakenOnes DEF Accept, ThreadTypes, ctxVars, ring
  <2> QED
    BY <2>1, RingKept
<1>8. CASE ProduceSocket
  <2>1. so \in Clients /\ client[so] = "accepted" /\ ctx = "live" /\ ctx' = ctx
    BY <1>8 DEF ProduceSocket, MasterInv, LifeInv, ThreadTypes, ctxVars
  <2>2. CASE /\ UNCHANGED <<queue, head, tail>>
             /\ client' = client \/ client' = [client EXCEPT ![so] = "leaked"]
    <3>1. \A d \in Clients : client'[d] = "queued" <=> client[d] = "queued"
      BY <2>1, <2>2 DEF ThreadTypes
    <3> QED
      BY <2>1, <2>2, <3>1, RingKept
  <2>3. CASE /\ ~ RingFull /\ queue' = [queue EXCEPT ![Index(head)] = so] /\ head' = head + 1
             /\ tail' = tail /\ client' = [client EXCEPT ![so] = "queued"]
    BY <2>1, <2>3, Produced DEF ThreadTypes
  <2> QED
    BY <1>8, <2>2, <2>3 DEF ProduceSocket, ring
<1>9. CASE CloseListening
  <2>1. /\ UNCHANGED <<ctx, queue, head, tail>>
        /\ \A d \in Clients : client'[d] = "queued" <=> client[d] = "queued"
    BY <1>9, TakenOnes DEF CloseListening, ThreadTypes, ctxVars, ring
  <2> QED
    BY <2>1, RingKept
<1>10. CASE Join
  <2>1. /\ UNCHANGED <<ctx, queue, head, tail>>
        /\ \A d \in Clients : client'[d] = "queued" <=> client[d] = "queued"
    BY <1>10, TakenOnes DEF Join, ThreadTypes, ctxVars, ring
  <2> QED
    BY <2>1, RingKept
<1>11. ASSUME NEW w \in Workers, ConsumeSocket(w)
      PROVE  (RingTypes /\ RingInv)'
  <2>1. ctx = "live" /\ ctx' = ctx
    BY <1>11 DEF ConsumeSocket, LifeInv, StopInv, ThreadTypes, ctxVars
  <2>2. CASE UNCHANGED <<queue, head, tail, client>>
    BY <2>1, <2>2, RingKept
  <2>3. CASE /\ head > tail /\ client' = [client EXCEPT ![queue[Index(tail)]] = "taken"]
             /\ WrapPointers(tail + 1) /\ queue' = queue
    BY <2>1, <2>3, ConsumedOne DEF ThreadTypes
  <2> QED
    BY <1>11, <2>2, <2>3 DEF ConsumeSocket, ring
<1>12. ASSUME NEW w \in Workers, WaitFull(w)
      PROVE  (RingTypes /\ RingInv)'
  <2>1. /\ UNCHANGED <<ctx, queue, head, tail>>
        /\ \A d \in Clients : client'[d] = "queued" <=> client[d] = "queued"
    BY <1>12, TakenOnes DEF WaitFull, ThreadTypes, ctxVars, ring
  <2> QED
    BY <2>1, RingKept
<1>13. ASSUME NEW w \in Workers, Consumed(w)
      PROVE  (RingTypes /\ RingInv)'
  <2>1. /\ UNCHANGED <<ctx, queue, head, tail>>
        /\ \A d \in Clients : client'[d] = "queued" <=> client[d] = "queued"
    BY <1>13, TakenOnes DEF Consumed, ThreadTypes, ctxVars, ring
  <2> QED
    BY <2>1, RingKept
<1>14. ASSUME NEW w \in Workers, NoRequest(w)
      PROVE  (RingTypes /\ RingInv)'
  <2>1. /\ UNCHANGED <<ctx, queue, head, tail>>
        /\ \A d \in Clients : client'[d] = "queued" <=> client[d] = "queued"
    BY <1>14, TakenOnes DEF NoRequest, ThreadTypes, ctxVars, ring
  <2> QED
    BY <2>1, RingKept
<1>15. ASSUME NEW w \in Workers, ReadRequest(w)
      PROVE  (RingTypes /\ RingInv)'
  <2>1. /\ UNCHANGED <<ctx, queue, head, tail>>
        /\ \A d \in Clients : client'[d] = "queued" <=> client[d] = "queued"
    BY <1>15, TakenOnes DEF ReadRequest, ThreadTypes, ctxVars, ring
  <2> QED
    BY <2>1, RingKept
<1>16. ASSUME NEW w \in Workers, HandlePage(w)
      PROVE  (RingTypes /\ RingInv)'
  <2>1. /\ UNCHANGED <<ctx, queue, head, tail>>
        /\ \A d \in Clients : client'[d] = "queued" <=> client[d] = "queued"
    BY <1>16, TakenOnes DEF HandlePage, UnlockLua, ThreadTypes, ctxVars, ring
  <2> QED
    BY <2>1, RingKept
<1>17. ASSUME NEW w \in Workers, HandleFail(w)
      PROVE  (RingTypes /\ RingInv)'
  <2>1. /\ UNCHANGED <<ctx, queue, head, tail>>
        /\ \A d \in Clients : client'[d] = "queued" <=> client[d] = "queued"
    BY <1>17, TakenOnes DEF HandleFail, UnlockLua, ThreadTypes, ctxVars, ring
  <2> QED
    BY <2>1, RingKept
<1>18. ASSUME NEW w \in Workers, HandleStop(w)
      PROVE  (RingTypes /\ RingInv)'
  <2>1. /\ UNCHANGED <<ctx, queue, head, tail>>
        /\ \A d \in Clients : client'[d] = "queued" <=> client[d] = "queued"
    BY <1>18, TakenOnes DEF HandleStop, ThreadTypes, ctxVars, ring
  <2> QED
    BY <2>1, RingKept
<1>19. ASSUME NEW w \in Workers, LockLua(w)
      PROVE  (RingTypes /\ RingInv)'
  <2>1. /\ UNCHANGED <<ctx, queue, head, tail>>
        /\ \A d \in Clients : client'[d] = "queued" <=> client[d] = "queued"
    BY <1>19, TakenOnes DEF LockLua, ThreadTypes, ctxVars, ring
  <2> QED
    BY <2>1, RingKept
<1>20. ASSUME NEW w \in Workers, HandleReload(w)
      PROVE  (RingTypes /\ RingInv)'
  <2>1. /\ UNCHANGED <<ctx, queue, head, tail>>
        /\ \A d \in Clients : client'[d] = "queued" <=> client[d] = "queued"
    BY <1>20, TakenOnes DEF HandleReload, ThreadTypes, ctxVars, ring
  <2> QED
    BY <2>1, RingKept
<1>21. ASSUME NEW w \in Workers, ReloadEnd(w)
      PROVE  (RingTypes /\ RingInv)'
  <2>1. /\ UNCHANGED <<ctx, queue, head, tail>>
        /\ \A d \in Clients : client'[d] = "queued" <=> client[d] = "queued"
    BY <1>21, TakenOnes DEF ReloadEnd, UnlockLua, ThreadTypes, ctxVars, ring
  <2> QED
    BY <2>1, RingKept
<1>22. ASSUME NEW w \in Workers, CloseConnection(w)
      PROVE  (RingTypes /\ RingInv)'
  <2>1. /\ UNCHANGED <<ctx, queue, head, tail>>
        /\ \A d \in Clients : client'[d] = "queued" <=> client[d] = "queued"
    BY <1>22, TakenOnes DEF CloseConnection, ThreadTypes, ctxVars, ring
  <2> QED
    BY <2>1, RingKept
<1>23. ASSUME NEW w \in Workers, WorkerExit(w)
      PROVE  (RingTypes /\ RingInv)'
  <2>1. /\ UNCHANGED <<ctx, queue, head, tail>>
        /\ \A d \in Clients : client'[d] = "queued" <=> client[d] = "queued"
    BY <1>23, TakenOnes DEF WorkerExit, ThreadTypes, ctxVars, ring
  <2> QED
    BY <2>1, RingKept
<1>24. CASE UNCHANGED vars
  <2>1. UNCHANGED <<ctx, queue, head, tail, client>>
    BY <1>24 DEF vars, ctxVars, ring
  <2> QED
    BY <2>1, RingKept
<1> QED
  BY <1>1, <1>2, <1>3, <1>4, <1>5, <1>6, <1>7, <1>8, <1>9, <1>10, <1>11,
     <1>12, <1>13, <1>14, <1>15, <1>16, <1>17, <1>18, <1>19, <1>20, <1>21,
     <1>22, <1>23, <1>24
  DEF Next, MasterStep, WorkerStep, Handle

-----------------------------------------------------------------------------
(***************************************************************************)
(* The theorems.                                                           *)
(***************************************************************************)
LEMMA InitInv == Init => IInv
<1> SUFFICES ASSUME Init PROVE IInv
  OBVIOUS
<1>1. Slots \in Nat /\ Slots > 0 /\ NONE \notin Clients
  BY WebServerAssumption, NoneNoClient
<1>2. ThreadTypes
  BY DEF Init, ThreadTypes, MasterLocs, WorkerLocs, ClientStates
<1>3. RingTypes
  BY <1>1 DEF Init, RingTypes
<1>4. LifeInv /\ CountInv /\ StopInv /\ MasterInv
  BY DEF Init, LifeInv, CountInv, StopInv, MasterInv
<1>5. WorkerInv /\ RingInv
  BY DEF Init, WorkerInv, Holds, Serving, RingInv
<1>6. AnswerInv
  BY StackFacts DEF Init, AnswerInv, AnswerTypes, Answered, Replies
<1> QED
  BY <1>2, <1>3, <1>4, <1>5, <1>6 DEF IInv

LEMMA Inductive == IInv /\ [Next]_vars => IInv'
BY ThreadTypesStep, LifeStep, CountStep, StopStep, MasterInvStep, WorkerInvStep,
   RingStep, AnswerStep DEF IInv

LEMMA Invariant == Spec => []IInv
BY InitInv, Inductive, PTL DEF Spec

(* Every variable keeps what the code keeps there; num_threads never       *)
(* exceeds the number of workers and the counters of the ring stay within  *)
(* the ring and the one after it (mg_start, produce_socket, consume_socket).*)
LEMMA Types == IInv => TypeOK
<1> SUFFICES ASSUME IInv PROVE TypeOK
  OBVIOUS
<1>1. numThreads \in 0 .. Cardinality(Workers)
  <2>1. /\ IsFiniteSet(Workers) /\ Running \subseteq Workers /\ IsFiniteSet(Running)
    BY WebServerAssumption, FS_Subset DEF Running
  <2>2. /\ Cardinality(Running) \in Nat /\ Cardinality(Workers) \in Nat
        /\ Cardinality(Running) <= Cardinality(Workers)
    BY <2>1, FS_Subset, FS_CardinalityType
  <2> QED
    BY <2>2 DEF IInv, CountInv
<1>2. /\ reply \in [Clients -> {"none", "own page", "old page", "error text", "error 500"}]
      /\ luaStack \in Seq({"old page", "error text"})
  <2>1. luaStack \in Seq({"error text"}) /\ reply \in [Clients -> Replies]
    BY DEF IInv, AnswerInv, AnswerTypes, Stacks
  <2>2. luaStack \in Seq({"old page", "error text"})
    BY <2>1, SeqMonotonic
  <2> QED
    BY <2>1, <2>2 DEF Replies
<1>3. stopFlag \in 0 .. 2 /\ spoilt \subseteq Clients
  BY DEF IInv, StopInv, AnswerInv, AnswerTypes
<1>4. queue \in [1 .. Slots -> Clients \cup {NONE}] /\ tail \in 0 .. Slots /\ head \in 0 .. (2 * Slots)
  BY DEF IInv, RingTypes
<1> QED
  BY <1>1, <1>2, <1>3, <1>4 DEF IInv, ThreadTypes, TypeOK

(* The invariant of the two counters, read as a sequence.                  *)
LEMMA Ring == IInv => RingExact
<1> SUFFICES ASSUME IInv, ctx = "live" PROVE RingExact
  BY DEF RingExact
<1> DEFINE n == head - tail
<1>1. n \in Nat /\ n \in 0 .. Slots /\ head \in Nat /\ tail \in Nat
  BY WebServerAssumption DEF IInv, RingTypes
<1>2. InRing = [i \in 1 .. n |-> Entry(tail + i - 1)]
  BY DEF InRing, Entry
<1> HIDE DEF n
<1>3. ASSUME NEW i \in 1 .. n
      PROVE  tail + i - 1 \in Places
  BY <1>1 DEF n, Places
<1>4. ASSUME NEW k \in Places
      PROVE  k - tail + 1 \in 1 .. n /\ tail + (k - tail + 1) - 1 = k
  BY <1>1 DEF n, Places
<1>5. IsInjective(InRing)
  <2>1. ASSUME NEW i \in 1 .. n, NEW j \in 1 .. n, InRing[i] = InRing[j]
        PROVE  i = j
    <3>1. tail + i - 1 = tail + j - 1
      BY <1>2, <1>3, <2>1 DEF IInv, RingInv
    <3> QED
      BY <1>1, <3>1
  <2> QED
    BY <1>2, <2>1 DEF IsInjective
<1>6. {c \in Clients : client[c] = "queued"} = Range(InRing)
  <2>1. Range(InRing) = {Entry(tail + i - 1) : i \in 1 .. n}
    BY <1>2 DEF Range
  <2>2. \A i \in 1 .. n : Entry(tail + i - 1) \in Clients /\ client[Entry(tail + i - 1)] = "queued"
    BY <1>3 DEF IInv, RingInv
  <2>3. ASSUME NEW c \in Clients, client[c] = "queued"
        PROVE  \E i \in 1 .. n : Entry(tail + i - 1) = c
    <3>1. PICK k \in Places : Entry(k) = c
      BY <2>3 DEF IInv, RingInv
    <3> QED
      BY <1>4, <3>1
  <2> QED
    BY <2>1, <2>2, <2>3
<1>7. {c \in Clients : client[c] = "taken"} = {conn[w] : w \in Workers} \ {NONE}
  BY NoneNoClient DEF IInv, WorkerInv, ThreadTypes
<1>8. \A u, w \in Workers : conn[u] = conn[w] /\ conn[u] # NONE => u = w
  BY DEF IInv, WorkerInv
<1> QED
  BY <1>1, <1>5, <1>6, <1>7, <1>8 DEF RingExact, n

(* Whatever the number of workers, of connections and of places: the ring  *)
(* between master_thread and worker_thread loses and doubles no            *)
(* connection, and when mg_stop frees the context its threads have ended.  *)
THEOREM ServerSafeAlways == Spec => []ServerSafe
<1>1. IInv => NoUseAfterFree
  BY DEF IInv, LifeInv, StopInv, NoUseAfterFree
<1>2. IInv => ServerSafe
  BY <1>1, Types, Ring DEF ServerSafe
<1> QED
  BY <1>2, Invariant, PTL

(* No page goes to another client, and every connection that is closed got *)
(* its page or an error, for every number of workers: but for the requests *)
(* whose own handler failed, or ran in a Lua state in which one had failed *)
(* or that a /reload had opened to two workers (begin_request_handler).    *)
THEOREM AnsweredAlways == Spec => []Answered
<1>1. IInv => Answered
  BY DEF IInv, AnswerInv
<1> QED
  BY <1>1, Invariant, PTL

(* The one worker that webif.c asks for never shares the Lua state, so that*)
(* there the exceptions are the failed handlers alone, up to a /reload.    *)
THEOREM OneWorkerUnshared ==
  ASSUME NEW w0, Workers = {w0}
  PROVE  Spec => []~shared
<1>1. Init => ~shared
  BY DEF Init
<1>2. ~shared /\ [Next]_vars => ~shared'
  <2> SUFFICES ASSUME ~shared, [Next]_vars PROVE ~shared'
    OBVIOUS
  <2>1. ASSUME NEW w \in Workers, LockLua(w)
        PROVE  ~shared'
    BY <2>1 DEF LockLua, InLua
  <2>2. CASE UNCHANGED shared
    BY <2>2
  <2> QED
    BY <2>1, <2>2
    DEF Next, MasterStep, WorkerStep, Handle, vars, lua, WiInit, WiStart, WiStop,
        MgStopReturns, WiCleanup, Connect, Accept, ProduceSocket, CloseListening, Join,
        ConsumeSocket, WaitFull, Consumed, NoRequest, ReadRequest, HandlePage, HandleFail,
        HandleStop, HandleReload, ReloadEnd, CloseConnection, WorkerExit
<1> QED
  BY <1>1, <1>2, PTL DEF Spec
=============================================================================
