------------------------------ MODULE WebServer ------------------------------
(***************************************************************************)
(* The webif block and the web server it embeds: webif.c and, of           *)
(* mongoose.c, the context, its master thread, its worker threads and the  *)
(* ring of accepted connections between them.                              *)
(*                                                                         *)
(* Threads: the application (ubx_block_init, _start, _stop, _cleanup of    *)
(* the block), the master (accepts connections), the workers (answer one   *)
(* request per connection: keep-alive is off by default and webif does not *)
(* ask for it).  A critical section of ctx->mutex is one step, except for  *)
(* the gap between a worker's test of the ring and its wait, and the gap   *)
(* between its unlock and its read of stop_flag: mg_stop sets stop_flag    *)
(* without the mutex and can fall into either.  What a page shows is left  *)
(* out, which page it is and what is left on the Lua stack is not.         *)
(*                                                                         *)
(* The block has one worker ("1", "don't change", webif.c).  With several, *)
(* /reload would let two of them into one Lua state: it makes a new        *)
(* inf->mutex of the one it holds.  The actions say so for every set of    *)
(* workers; what they leave out is a worker that sleeps on the old mutex   *)
(* and is never woken, so liveness is claimed for one worker only.         *)
(***************************************************************************)
EXTENDS Naturals, Sequences, FiniteSets, SequencesExt

CONSTANTS
  Workers,    \* worker threads (MONGOOSE_NR_THREADS)
  Connections,\* bound: connections that are made, numbered in their order
  Requests,   \* what a request asks for: "page", "fail" (its handler raises
              \* a Lua error), "stop" (the stop button of the webif block)
              \* or "reload" (the uri /reload)
  Slots,      \* length of ctx->queue
  MaxStarts,  \* bound: starts of the block
  NONE

ASSUME WebServerAssumption ==
  /\ IsFiniteSet(Workers) /\ Slots \in Nat \ {0}
  /\ MaxStarts \in Nat /\ Connections \in Nat
  /\ Requests \subseteq {"page", "fail", "stop", "reload"}
  /\ NONE \notin Nat \cup Workers

VARIABLES
  block,     \* block_state of the webif block
  app,       \* the application thread: "idle" or "stopping" (in mg_stop)
  ctx,       \* the mg_context: "none", "live" or "freed"
  stopFlag,  \* ctx->stop_flag: 0, 1 (stop) or 2 (the master is done)
  queue,     \* ctx->queue
  head,      \* ctx->sq_head
  tail,      \* ctx->sq_tail
  master,    \* where the master thread is
  so,        \* the connection the master has accepted
  worker,    \* where each worker thread is
  conn,      \* conn->client of each worker
  numThreads,\* ctx->num_threads
  client,    \* what became of each connection
  reply,     \* what each connection was answered
  luaStack,  \* what earlier requests left on the stack of inf->L
  luaLock,   \* the worker that holds inf->mutex
  starts,    \* starts of the block so far
  missed,    \* history: stop_flag was set inside one of the two gaps
  failed,    \* history: a Lua handler has failed in the Lua state of now
  shared,    \* history: two workers were in a Lua state at once
  spoilt     \* history: requests that failed, or whose handler ran in a Lua
             \* state in which one had failed or that two workers had shared

Clients == 1..Connections

MasterLocs   == {"off", "poll", "produce", "full", "join", "joining", "done"}
WorkerLocs   == {"off", "consume", "checked", "waiting", "took", "serve", "handle",
                 "lua", "reload", "close", "stopping", "exit", "done"}
ClientStates == {"new", "backlog", "accepted", "queued", "taken", "closed",
                 "leaked", "refused"}

ctxVars == <<ctx, stopFlag, numThreads>>
ring    == <<queue, head, tail>>
lua     == <<luaStack, luaLock, failed, shared, spoilt>>
vars    == <<block, app, ctxVars, ring, master, so, worker, conn, client,
             reply, lua, starts, missed>>

----------------------------------------------------------------------------
Index(i) == (i % Slots) + 1

(* The connections in the ring, oldest first.                              *)
InRing == [i \in 1..(head - tail) |-> queue[Index(tail + i - 1)]]

MutexFree == \A w \in Workers : worker[w] # "checked"

(* Mutant of SignalFull: nobody is woken.                                  *)
SignalNobody(at) == worker' = at

(* pthread_cond_signal on sq_full: one of the waiting workers, if any.     *)
SignalFull(at) ==
  IF \E w \in Workers : at[w] = "waiting"
    THEN \E w \in Workers : /\ at[w] = "waiting"
                            /\ worker' = [at EXCEPT ![w] = "consume"]
    ELSE worker' = at

(* pthread_cond_signal on sq_empty: only the master ever waits for it.     *)
SignalEmpty == master' = IF master = "full" THEN "produce" ELSE master

(* pthread_cond_signal on cond: only the master ever waits for it.         *)
SignalExit == master' = IF master = "joining" THEN "join" ELSE master

Init ==
  /\ block = "preinit" /\ app = "idle"
  /\ ctx = "none" /\ stopFlag = 0 /\ numThreads = 0
  /\ queue = [i \in 1..Slots |-> NONE] /\ head = 0 /\ tail = 0
  /\ master = "off" /\ so = NONE
  /\ worker = [w \in Workers |-> "off"] /\ conn = [w \in Workers |-> NONE]
  /\ client = [c \in Clients |-> "new"] /\ reply = [c \in Clients |-> "none"]
  /\ luaStack = <<>> /\ luaLock = NONE
  /\ starts = 0 /\ missed = FALSE
  /\ failed = FALSE /\ shared = FALSE /\ spoilt = {}

----------------------------------------------------------------------------
(* The application's calls.                                                *)

(* wi_init: a Lua state of its own, the page handlers loaded into it.      *)
WiInit ==
  /\ app = "idle" /\ block = "preinit"
  /\ block' = "inactive"
  /\ luaStack' = <<>> /\ luaLock' = NONE /\ failed' = FALSE
  /\ UNCHANGED <<app, ctxVars, ring, master, so, worker, conn, client, reply,
                 shared, spoilt, starts, missed>>

(* wi_start and mg_start: a new context, the master, then the workers.     *)
WiStart ==
  /\ app = "idle" /\ block = "inactive" /\ starts < MaxStarts
  /\ starts' = starts + 1
  /\ ctx' = "live" /\ stopFlag' = 0 /\ numThreads' = Cardinality(Workers)
  /\ queue' = [i \in 1..Slots |-> NONE] /\ head' = 0 /\ tail' = 0
  /\ master' = "poll" /\ so' = NONE
  /\ worker' = [w \in Workers |-> "consume"]
  /\ conn' = [w \in Workers |-> NONE]
  /\ block' = "active" /\ missed' = FALSE
  /\ UNCHANGED <<app, client, reply, lua>>

(* The gaps in which a worker acts on a stop_flag it has already read, or  *)
(* reads it only after its last signal.                                    *)
InGap == \E w \in Workers : worker[w] \in {"checked", "took"}

(* ubx_block_stop, wi_stop, mg_stop up to its loop.                        *)
WiStop ==
  /\ app = "idle" /\ block = "active"
  /\ app' = "stopping" /\ stopFlag' = 1
  /\ missed' = (missed \/ (stopFlag = 0 /\ InGap))
  /\ UNCHANGED <<block, ctx, numThreads, ring, master, so, worker, conn,
                 client, reply, lua, starts>>

(* mg_stop once the master is done: free_context.  A connection that is    *)
(* still in the ring is not closed.                                        *)
MgStopReturns ==
  /\ app = "stopping" /\ stopFlag = 2
  /\ app' = "idle" /\ block' = "inactive" /\ ctx' = "freed"
  /\ client' = [c \in Clients |->
       IF client[c] = "queued" THEN "leaked" ELSE client[c]]
  /\ UNCHANGED <<stopFlag, numThreads, ring, master, so, worker, conn, reply,
                 lua, starts, missed>>

(* wi_cleanup: lua_close, free.                                            *)
WiCleanup ==
  /\ app = "idle" /\ block = "inactive"
  /\ block' = "preinit" /\ luaStack' = <<>>
  /\ UNCHANGED <<app, ctxVars, ring, master, so, worker, conn, client, reply,
                 luaLock, failed, shared, spoilt, starts, missed>>

----------------------------------------------------------------------------
(* The master thread.                                                      *)

(* A connection reaches the listening socket.                              *)
Connect(c) ==
  /\ client[c] = "new" /\ \A d \in 1..(c - 1) : client[d] # "new"
  /\ block = "active" /\ master \in {"poll", "produce", "full"}
  /\ client' = [client EXCEPT ![c] = "backlog"]
  /\ UNCHANGED <<block, app, ctxVars, ring, master, so, worker, conn, reply,
                 lua, starts, missed>>

(* master_thread's loop and accept_new_connection.                         *)
Accept(c) ==
  /\ master = "poll" /\ stopFlag = 0
  /\ client[c] = "backlog" /\ \A d \in 1..(c - 1) : client[d] # "backlog"
  /\ client' = [client EXCEPT ![c] = "accepted"]
  /\ so' = c /\ master' = "produce"
  /\ UNCHANGED <<block, app, ctxVars, ring, worker, conn, reply, lua, starts,
                 missed>>

RingFull == head - tail >= Slots

(* produce_socket: waits while the ring is full, but not when stopping; a  *)
(* connection that then still does not fit is forgotten, never closed.     *)
ProduceSocket ==
  /\ master = "produce" /\ MutexFree
  /\ IF stopFlag = 0 /\ RingFull
       THEN master' = "full" /\ UNCHANGED <<ring, client, so, worker>>
       ELSE /\ IF RingFull
                 THEN /\ client' = [client EXCEPT ![so] = "leaked"]
                      /\ UNCHANGED ring
                 ELSE /\ queue' = [queue EXCEPT ![Index(head)] = so]
                      /\ head' = head + 1
                      /\ client' = [client EXCEPT ![so] = "queued"]
                      /\ UNCHANGED tail
            /\ SignalFull(worker)
            /\ master' = "poll" /\ so' = NONE
  /\ UNCHANGED <<block, app, ctxVars, conn, reply, lua, starts, missed>>

(* Mutant of CloseListening: the workers are not woken.                    *)
CloseListeningQuietly ==
  /\ master = "poll" /\ stopFlag # 0
  /\ master' = "join"
  /\ UNCHANGED <<block, app, ctxVars, ring, so, worker, conn, client, reply,
                 lua, starts, missed>>

(* The end of master_thread's loop: close_all_listening_sockets, and the   *)
(* broadcast that wakes the workers that wait now.                         *)
CloseListening ==
  /\ master = "poll" /\ stopFlag # 0
  /\ client' = [c \in Clients |->
       IF client[c] = "backlog" THEN "refused" ELSE client[c]]
  /\ worker' = [w \in Workers |->
       IF worker[w] = "waiting" THEN "consume" ELSE worker[w]]
  /\ master' = "join"
  /\ UNCHANGED <<block, app, ctxVars, ring, so, conn, reply, lua, starts,
                 missed>>

(* Mutant of Join: the master does not wait for the workers.               *)
JoinNobody ==
  /\ master = "join" /\ MutexFree
  /\ master' = "done" /\ stopFlag' = 2
  /\ UNCHANGED <<block, app, ctx, numThreads, ring, so, worker, conn, client,
                 reply, lua, starts, missed>>

(* master_thread waits for every worker to exit, then lets mg_stop go.     *)
Join ==
  /\ master = "join" /\ MutexFree
  /\ IF numThreads > 0
       THEN master' = "joining" /\ UNCHANGED stopFlag
       ELSE master' = "done" /\ stopFlag' = 2
  /\ UNCHANGED <<block, app, ctx, numThreads, ring, so, worker, conn, client,
                 reply, lua, starts, missed>>

----------------------------------------------------------------------------
(* A worker thread.                                                        *)

(* Mutant of WrapPointers: only the tail is moved back.                    *)
WrapTailOnly(t) ==
  IF t > Slots THEN /\ tail' = t - Slots /\ head' = head
               ELSE /\ tail' = t /\ head' = head

(* "Wrap pointers if needed", after sq_tail has become t.                  *)
WrapPointers(t) ==
  IF t > Slots THEN /\ tail' = t - Slots /\ head' = head - Slots
               ELSE /\ tail' = t /\ head' = head

(* consume_socket under the mutex: wait when there is nothing to do, else  *)
(* take the oldest connection, if there is one, and signal sq_empty.       *)
ConsumeSocket(w) ==
  /\ worker[w] = "consume" /\ MutexFree
  /\ IF head = tail /\ stopFlag = 0
       THEN /\ worker' = [worker EXCEPT ![w] = "checked"]
            /\ UNCHANGED <<ring, conn, client, master>>
       ELSE /\ IF head > tail
                 THEN /\ conn' = [conn EXCEPT ![w] = queue[Index(tail)]]
                      /\ client' = [client EXCEPT ![queue[Index(tail)]] = "taken"]
                      /\ WrapPointers(tail + 1)
                      /\ UNCHANGED queue
                 ELSE UNCHANGED <<ring, conn, client>>
            /\ worker' = [worker EXCEPT ![w] = "took"]
            /\ SignalEmpty
  /\ UNCHANGED <<block, app, ctxVars, so, reply, lua, starts, missed>>

(* pthread_cond_wait on sq_full: the mutex is released and the worker      *)
(* waits, whatever stop_flag has become since the test.                    *)
WaitFull(w) ==
  /\ worker[w] = "checked"
  /\ worker' = [worker EXCEPT ![w] = "waiting"]
  /\ UNCHANGED <<block, app, ctxVars, ring, master, so, conn, client, reply,
                 lua, starts, missed>>

(* consume_socket's result, read after the unlock.  A connection taken     *)
(* just before the stop is neither answered nor closed.                    *)
Consumed(w) ==
  /\ worker[w] = "took"
  /\ IF stopFlag = 0
       THEN /\ worker' = [worker EXCEPT ![w] = "serve"]
            /\ UNCHANGED <<client, conn>>
       ELSE /\ worker' = [worker EXCEPT ![w] = "exit"]
            /\ client' = IF conn[w] = NONE THEN client
                         ELSE [client EXCEPT ![conn[w]] = "leaked"]
            /\ conn' = [conn EXCEPT ![w] = NONE]
  /\ UNCHANGED <<block, app, ctxVars, ring, master, so, reply, lua, starts,
                 missed>>

(* getreq fails: the client closes or stays silent until the receive times *)
(* out, or the server is stopping (pull): answered with an error.          *)
NoRequest(w) ==
  /\ worker[w] = "serve"
  /\ reply' = [reply EXCEPT ![conn[w]] = "error 500"]
  /\ worker' = [worker EXCEPT ![w] = "close"]
  /\ UNCHANGED <<block, app, ctxVars, ring, master, so, conn, client, lua,
                 starts, missed>>

(* getreq succeeds, which a stop before its last recv would have prevented *)
(* (pull); what the request asks for is done even if the stop comes now.   *)
ReadRequest(w) ==
  /\ worker[w] = "serve" /\ stopFlag = 0
  /\ worker' = [worker EXCEPT ![w] = "handle"]
  /\ UNCHANGED <<block, app, ctxVars, ring, master, so, conn, client, reply,
                 lua, starts, missed>>

(* Mutant of AnswerPage: lua_pop is forgotten.                             *)
AnswerKeepsPage(c) ==
  /\ reply' = [reply EXCEPT ![c] = IF luaStack = <<>> THEN "own page" ELSE Head(luaStack)]
  /\ luaStack' = Append(luaStack, "old page")

(* begin_request_handler sends the string at index 1 of the Lua stack,     *)
(* which is the page just made for c only if nothing was below it, and     *)
(* then pops the page and its type from the top.  A Lua state that two     *)
(* workers have used at once may answer anything.                          *)
AnswerPage(c) ==
  /\ \E r \in {"own page", "old page", "error text"} :
       /\ ~shared => r = IF luaStack = <<>> THEN "own page" ELSE Head(luaStack)
       /\ reply' = [reply EXCEPT ![c] = r]
  /\ UNCHANGED luaStack

(* The workers that use inf->L.                                            *)
InLua == {w \in Workers : worker[w] \in {"lua", "reload", "stopping"}}

(* handle_request and begin_request_handler up to the lock of inf->mutex.  *)
LockLua(w) ==
  /\ worker[w] = "handle" /\ luaLock = NONE
  /\ luaLock' = w
  /\ worker' = [worker EXCEPT ![w] = "lua"]
  /\ shared' = (shared \/ InLua # {})
  /\ UNCHANGED <<block, app, ctxVars, ring, master, so, conn, client, reply,
                 luaStack, failed, spoilt, starts, missed>>

(* The unlock of inf->mutex, whoever holds it by now.                      *)
UnlockLua(w) ==
  /\ luaLock' = NONE
  /\ worker' = [worker EXCEPT ![w] = "close"]

(* The page's Lua code runs under inf->mutex and its page is sent.         *)
HandlePage(w) ==
  /\ worker[w] = "lua" /\ "page" \in Requests
  /\ AnswerPage(conn[w])
  /\ spoilt' = IF failed \/ shared THEN spoilt \cup {conn[w]} ELSE spoilt
  /\ UnlockLua(w)
  /\ UNCHANGED <<block, app, ctxVars, ring, master, so, conn, client, failed,
                 shared, starts, missed>>

(* lua_pcall fails: nothing is sent, mongoose is told the request is       *)
(* served, and the error text stays on the stack.                          *)
HandleFail(w) ==
  /\ worker[w] = "lua" /\ "fail" \in Requests
  /\ luaStack' = Append(luaStack, "error text")
  /\ failed' = TRUE /\ spoilt' = spoilt \cup {conn[w]}
  /\ UnlockLua(w)
  /\ UNCHANGED <<block, app, ctxVars, ring, master, so, conn, client, reply,
                 shared, starts, missed>>

(* The stop button of the webif block itself: ubx_block_stop, wi_stop and  *)
(* mg_stop run in the worker, which then waits for its own end and keeps   *)
(* the mutex.                                                              *)
HandleStop(w) ==
  /\ worker[w] = "lua" /\ "stop" \in Requests /\ block = "active"
  /\ stopFlag' = 1
  /\ worker' = [worker EXCEPT ![w] = "stopping"]
  /\ missed' = (missed \/ (stopFlag = 0 /\ InGap))
  /\ UNCHANGED <<block, app, ctx, numThreads, ring, master, so, conn, client,
                 reply, lua, starts>>

(* /reload, under the lock: lua_close, and init_lua, which makes inf->mutex*)
(* anew while this worker holds it, and a new Lua state.                   *)
HandleReload(w) ==
  /\ worker[w] = "lua" /\ "reload" \in Requests
  /\ luaStack' = <<>> /\ failed' = FALSE
  /\ luaLock' = NONE
  /\ worker' = [worker EXCEPT ![w] = "reload"]
  /\ UNCHANGED <<block, app, ctxVars, ring, master, so, conn, client, reply,
                 shared, spoilt, starts, missed>>

(* /reload answers with a page of its own and unlocks the new mutex.       *)
ReloadEnd(w) ==
  /\ worker[w] = "reload"
  /\ reply' = [reply EXCEPT ![conn[w]] = "own page"]
  /\ UnlockLua(w)
  /\ UNCHANGED <<block, app, ctxVars, ring, master, so, conn, client,
                 luaStack, failed, shared, spoilt, starts, missed>>

(* close_connection.                                                       *)
CloseConnection(w) ==
  /\ worker[w] = "close"
  /\ client' = [client EXCEPT ![conn[w]] = "closed"]
  /\ conn' = [conn EXCEPT ![w] = NONE]
  /\ worker' = [worker EXCEPT ![w] = "consume"]
  /\ UNCHANGED <<block, app, ctxVars, ring, master, so, reply, lua, starts,
                 missed>>

(* The end of worker_thread.                                               *)
WorkerExit(w) ==
  /\ worker[w] = "exit" /\ MutexFree
  /\ numThreads' = numThreads - 1
  /\ SignalExit
  /\ worker' = [worker EXCEPT ![w] = "done"]
  /\ UNCHANGED <<block, app, ctx, stopFlag, ring, so, conn, client, reply,
                 lua, starts, missed>>

----------------------------------------------------------------------------
Handle(w) ==
  \/ LockLua(w) \/ HandlePage(w) \/ HandleFail(w) \/ HandleStop(w)
  \/ HandleReload(w) \/ ReloadEnd(w)

MasterStep == (\E c \in Clients : Accept(c)) \/ ProduceSocket \/ CloseListening
                \/ Join

WorkerStep(w) ==
  \/ ConsumeSocket(w) \/ WaitFull(w) \/ Consumed(w)
  \/ NoRequest(w) \/ ReadRequest(w) \/ Handle(w) \/ CloseConnection(w) \/ WorkerExit(w)

Next ==
  \/ WiInit \/ WiStart \/ WiStop \/ MgStopReturns \/ WiCleanup
  \/ \E c \in Clients : Connect(c)
  \/ MasterStep
  \/ \E w \in Workers : WorkerStep(w)

(* Threads are scheduled, a receive ends after request_timeout_ms, and     *)
(* mg_stop polls.  Nobody has to call the block or connect.  This is       *)
(* right for one worker, which never waits for inf->mutex.                 *)
Fairness ==
  /\ WF_vars(MgStopReturns)
  /\ WF_vars(MasterStep)
  /\ \A w \in Workers : WF_vars(WorkerStep(w))

Spec == Init /\ [][Next]_vars /\ Fairness

----------------------------------------------------------------------------
TypeOK ==
  /\ block \in {"preinit", "inactive", "active"}
  /\ app \in {"idle", "stopping"}
  /\ ctx \in {"none", "live", "freed"} /\ stopFlag \in 0..2
  /\ queue \in [1..Slots -> Clients \cup {NONE}]
  /\ tail \in 0..Slots /\ head \in 0..(2 * Slots)
  /\ master \in MasterLocs
  /\ so \in Clients \cup {NONE}
  /\ worker \in [Workers -> WorkerLocs]
  /\ conn \in [Workers -> Clients \cup {NONE}]
  /\ numThreads \in 0..Cardinality(Workers)
  /\ client \in [Clients -> ClientStates]
  /\ reply \in [Clients -> {"none", "own page", "old page", "error text", "error 500"}]
  /\ luaStack \in Seq({"old page", "error text"})
  /\ luaLock \in Workers \cup {NONE}
  /\ spoilt \subseteq Clients

(* The ring of consume_socket and produce_socket holds every accepted      *)
(* connection that no worker has taken, exactly once, whatever the wraps   *)
(* of its two counters; each worker's connection is its own.               *)
RingExact ==
  ctx = "live" =>
    /\ head - tail \in 0..Slots
    /\ IsInjective(InRing)
    /\ {c \in Clients : client[c] = "taken"} = {conn[w] : w \in Workers} \ {NONE}
    /\ {c \in Clients : client[c] = "queued"} = Range(InRing)
    /\ \A u, w \in Workers : conn[u] = conn[w] /\ conn[u] # NONE => u = w

(* Once mg_stop has freed the context no thread will touch it again: the   *)
(* master and the workers are past their last access ("All threads exited, *)
(* no sync is needed").                                                    *)
NoUseAfterFree ==
  ctx = "freed" => /\ master = "done"
                   /\ \A w \in Workers : worker[w] = "done"

(* The ring of accepted connections holds each of them exactly once, until *)
(* one worker takes it (consume_socket, produce_socket), and no thread     *)
(* touches the context once mg_stop has freed it.                          *)
ServerSafe == TypeOK /\ RingExact /\ NoUseAfterFree

(* No client is sent the page of another one, and a connection is closed   *)
(* with neither its page nor an error only if a Lua handler has failed: the *)
(* failing request itself, and every request after it up to a /reload,     *)
(* which gets the old error text (begin_request_handler reads from the     *)
(* bottom of the stack); or, with several workers, if a /reload has let    *)
(* two of them into one Lua state.                                         *)
Answered ==
  \A c \in Clients \ spoilt :
    /\ reply[c] # "old page"
    /\ client[c] = "closed" => reply[c] \in {"own page", "error 500"}

(* ubx_block_stop on the web interface returns, unless the stop fell into  *)
(* one of consume_socket's gaps or was asked for by a page.                *)
StoppedByPage == \E w \in Workers : worker[w] = "stopping"
StopReturns ==
  (app = "stopping" /\ ~missed /\ ~StoppedByPage) ~>
     (app = "idle" \/ missed \/ StoppedByPage)

(* The stop returns, always: what the comments of worker_thread and        *)
(* master_thread say they arrange for.                                     *)
AlwaysStops == (app = "stopping") ~> (app = "idle")

(* A connection in the ring is taken and closed by a worker, unless the    *)
(* block is stopped: a silent client delays the others, never for good.    *)
Served ==
  \A c \in Clients :
    (client[c] = "queued") ~> (client[c] = "closed" \/ stopFlag # 0)
=============================================================================
