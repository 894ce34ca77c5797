----------------------------- MODULE LfdsQueue -----------------------------
(***************************************************************************)
(* lfds611_queue of liblfds: a linked list of queue elements with a dummy  *)
(* at its head. enqueue links an element behind the last one and then      *)
(* moves qs->enqueue; a thread that finds qs->enqueue one behind helps.    *)
(* dequeue moves qs->dequeue and recycles the former dummy through the     *)
(* free list, whose operations are atomic here (see LfdsFreelist).         *)
(*                                                                         *)
(* Reads and writes of one word and a compare-and-swap are one action      *)
(* each. The tests that compare a pointer and its counter with the shared  *)
(* ones are one action: the counter, which is read last, only grows, so it *)
(* decides for both. Memory is sequentially consistent, the counters do    *)
(* not wrap.                                                               *)
(***************************************************************************)
EXTENDS Naturals, FiniteSets, SequencesExt

CONSTANTS
  Callers,     \* threads that dequeue: readers, and writers that overwrite
  Enqueuers,   \* the threads that enqueue as well
  QueueElems,  \* the queue elements, one more than the queue can hold
  MaxOps,      \* bound: operations of each thread
  Garbage,     \* values that qs->aba_counter may have before it is set
  NoElem       \* the null pointer

ASSUME QueueElemsAssumption ==
  IsFiniteSet(QueueElems) /\ QueueElems # {} /\ NoElem \notin QueueElems
ASSUME EnqueuersAssumption == Enqueuers \subseteq Callers /\ MaxOps \in Nat
ASSUME GarbageAssumption == Garbage \subseteq Nat /\ Garbage # {}

VARIABLES
  enqueue,   \* qs->enqueue, the last element or the one before it
  dequeue,   \* qs->dequeue, the dummy
  qnext,     \* next of each element
  userData,  \* user_data of each element
  fs,        \* qs->fs, the elements that are not in use
  qaba,      \* qs->aba_counter
  qpc,       \* where each thread is
  qe,        \* the element that a thread enqueues or has to recycle
  enq,       \* the local variable enqueue of each thread
  deq,       \* the local variable dequeue of each thread
  nxt,       \* the local variable next of each thread
  val,       \* what a thread enqueues, or the *user_data of a dequeue
  ops,       \* history: number of operations begun by each thread
  content,   \* history: what was enqueued and not dequeued yet
  sawEmpty,  \* history: the queue was empty during the dequeue of a thread
  due        \* history: what the last dequeue of a thread has to return

queueShared  == <<enqueue, dequeue, qnext, userData, fs, qaba>>
queueHistory == <<ops, content, due>>
queueVars    == <<queueShared, qpc, qe, enq, deq, nxt, val, queueHistory, sawEmpty>>

QPtr     == QueueElems \cup {NoElem}
QPair    == [ptr : QPtr, ctr : Nat]
NoPair == [ptr |-> NoElem, ctr |-> 0]
QueueValues  == Callers \X (1 .. MaxOps)
NoQueueValue == <<NoElem, 0>>

EnqueueLocs == {"initPtr", "initCtr", "enqPtr", "enqCtr", "enqNextPtr", "enqNextCtr",
                "enqTest", "link", "helpEnqueue", "swing"}
DequeueLocs == {"deqPtr", "deqCtr", "deqEnqPtr", "deqEnqCtr", "deqNextPtr", "deqNextCtr",
                "deqTest", "helpDequeue", "readData", "take"}

(* The elements that are reached from pointer p by next pointers. *)
Chain(p) ==
  LET From[n \in Nat] == IF n = 0 THEN <<p>>
                         ELSE LET c == From[n - 1] IN
                              IF Last(c) = NoElem THEN c ELSE Append(c, qnext[Last(c)].ptr)
  IN  Front(From[Cardinality(QueueElems) + 1])

(* lfds611_queue_new takes the dummy, whose counter comes from the counter *)
(* aba_counter before that is set to zero; the elements on the free list   *)
(* are as malloc left them, which no thread reads.                         *)
QueueInit ==
  LET dummy == CHOOSE e \in QueueElems : TRUE IN
  \E g \in Garbage :
    /\ enqueue = [ptr |-> dummy, ctr |-> 0] /\ dequeue = [ptr |-> dummy, ctr |-> 0]
    /\ qnext = [e \in QueueElems |->
         [ptr |-> NoElem, ctr |-> IF e = dummy THEN g + 2 ELSE 0]]
    /\ userData = [e \in QueueElems |-> NoQueueValue]
    /\ fs = QueueElems \ {dummy} /\ qaba = 0
    /\ qpc = [t \in Callers |-> "idle"] /\ qe = [t \in Callers |-> NoElem]
    /\ enq = [t \in Callers |-> NoPair] /\ deq = [t \in Callers |-> NoPair]
    /\ nxt = [t \in Callers |-> NoPair] /\ val = [t \in Callers |-> NoQueueValue]
    /\ ops = [t \in Callers |-> 0] /\ content = <<>>
    /\ sawEmpty = [t \in Callers |-> FALSE] /\ due = [t \in Callers |-> NoQueueValue]

Turn(t, from, to) == qpc[t] = from /\ qpc' = [qpc EXCEPT ![t] = to]
With(f, t, x)       == [f EXCEPT ![t] = x]

(* A call that has returned keeps none of its local variables. *)
NoLocals(t) == /\ enq' = With(enq, t, NoPair) /\ deq' = With(deq, t, NoPair)
               /\ nxt' = With(nxt, t, NoPair)

(* While a thread dequeues it remembers whether the queue was empty. *)
WatchEmpty == sawEmpty' = [t \in Callers |->
  qpc'[t] \in DequeueLocs /\ (sawEmpty[t] \/ content' = <<>>)]

(* lfds611_abstraction_dcas.                                               *)
Same(found, expected) == found = expected

-----------------------------------------------------------------------------
(* lfds611_queue_internal_new_element_from_freelist; aba_counter is        *)
(* incremented once for qe, whose counter is not used, and once for next.  *)
(* Without a free element the call returns 0 and changes nothing.          *)
EnqueueBegin(t) ==
  /\ t \in Enqueuers
  /\ Turn(t, "idle", "initPtr") /\ ops[t] < MaxOps
  /\ ops' = [ops EXCEPT ![t] = @ + 1]
  /\ \E e \in fs : fs' = fs \ {e} /\ qe' = With(qe, t, e)
  /\ qaba' = qaba + 1
  /\ val' = With(val, t, <<t, ops'[t]>>) /\ due' = With(due, t, NoQueueValue)
  /\ UNCHANGED <<enqueue, dequeue, qnext, userData, enq, deq, nxt, content>>

(* Mutant of InitPointer: next keeps what it was when the element was recycled. *)
InitPointerStale(t) == Turn(t, "initPtr", "initCtr")
  /\ UNCHANGED <<queueShared, qe, enq, deq, nxt, val, queueHistory>>

InitPointer(t) ==
  /\ Turn(t, "initPtr", "initCtr")
  /\ qnext' = [qnext EXCEPT ![qe[t]].ptr = NoElem]
  /\ UNCHANGED <<enqueue, dequeue, userData, fs, qaba, qe, enq, deq, nxt, val>>
  /\ UNCHANGED queueHistory

(* The user data is written after the counter, but a thread that reads it  *)
(* too early fails in its compare-and-swap.                                *)
InitCounter(t) ==
  /\ Turn(t, "initCtr", "enqPtr")
  /\ qaba' = qaba + 1
  /\ qnext' = [qnext EXCEPT ![qe[t]].ctr = qaba']
  /\ userData' = With(userData, qe[t], val[t])
  /\ UNCHANGED <<enqueue, dequeue, fs, qe, enq, deq, nxt, val, queueHistory>>

(* lfds611_queue_internal_queue. *)
ReadEnqueuePointer(t) ==
  /\ Turn(t, "enqPtr", "enqCtr")
  /\ enq' = [enq EXCEPT ![t].ptr = enqueue.ptr]
  /\ UNCHANGED <<queueShared, qe, deq, nxt, val, queueHistory>>

ReadEnqueueCounter(t) ==
  /\ Turn(t, "enqCtr", "enqNextPtr")
  /\ enq' = [enq EXCEPT ![t].ctr = enqueue.ctr]
  /\ UNCHANGED <<queueShared, qe, deq, nxt, val, queueHistory>>

ReadNextPointer(t) ==
  /\ Turn(t, "enqNextPtr", "enqNextCtr")
  /\ nxt' = [nxt EXCEPT ![t].ptr = qnext[enq[t].ptr].ptr]
  /\ UNCHANGED <<queueShared, qe, enq, deq, val, queueHistory>>

ReadNextCounter(t) ==
  /\ Turn(t, "enqNextCtr", "enqTest")
  /\ nxt' = [nxt EXCEPT ![t].ctr = qnext[enq[t].ptr].ctr]
  /\ UNCHANGED <<queueShared, qe, enq, deq, val, queueHistory>>

(* Is next really from qs->enqueue, and is it the last element?            *)
TestEnqueue(t) ==
  /\ \/ enqueue # enq[t] /\ Turn(t, "enqTest", "enqPtr")
     \/ enqueue = enq[t] /\ nxt[t].ptr = NoElem /\ Turn(t, "enqTest", "link")
     \/ enqueue = enq[t] /\ nxt[t].ptr # NoElem /\ Turn(t, "enqTest", "helpEnqueue")
  /\ UNCHANGED <<queueShared, qe, enq, deq, nxt, val, queueHistory>>

LinkElement(t) ==
  /\ qpc[t] = "link"
  /\ IF Same(qnext[enq[t].ptr], nxt[t])
     THEN /\ Turn(t, "link", "swing")
          /\ qnext' = With(qnext, enq[t].ptr, [ptr |-> qe[t], ctr |-> nxt[t].ctr + 1])
          /\ content' = Append(content, val[t])
     ELSE Turn(t, "link", "enqPtr") /\ UNCHANGED <<qnext, content>>
  /\ UNCHANGED <<enqueue, dequeue, userData, fs, qaba, qe, enq, deq, nxt, val, ops, due>>

(* Move qs->enqueue on to p, unless somebody else did. *)
SwingTo(t, p) == enqueue' = IF Same(enqueue, enq[t])
                            THEN [ptr |-> p, ctr |-> enq[t].ctr + 1] ELSE enqueue

HelpEnqueue(t) ==
  /\ Turn(t, "helpEnqueue", "enqPtr") \/ Turn(t, "helpDequeue", "deqPtr")
  /\ SwingTo(t, nxt[t].ptr)
  /\ UNCHANGED <<dequeue, qnext, userData, fs, qaba, qe, enq, deq, nxt, val, queueHistory>>

EnqueueEnd(t) ==
  /\ Turn(t, "swing", "idle")
  /\ SwingTo(t, qe[t])
  /\ qe' = With(qe, t, NoElem) /\ val' = With(val, t, NoQueueValue) /\ NoLocals(t)
  /\ UNCHANGED <<dequeue, qnext, userData, fs, qaba, queueHistory>>

-----------------------------------------------------------------------------
(* lfds611_queue_dequeue. *)
DequeueBegin(t) ==
  /\ Turn(t, "idle", "deqPtr") /\ ops[t] < MaxOps
  /\ ops' = [ops EXCEPT ![t] = @ + 1]
  /\ val' = With(val, t, NoQueueValue) /\ due' = With(due, t, NoQueueValue)
  /\ UNCHANGED <<queueShared, qe, enq, deq, nxt, content>>

ReadDequeuePointer(t) ==
  /\ Turn(t, "deqPtr", "deqCtr")
  /\ deq' = [deq EXCEPT ![t].ptr = dequeue.ptr]
  /\ UNCHANGED <<queueShared, qe, enq, nxt, val, queueHistory>>

ReadDequeueCounter(t) ==
  /\ Turn(t, "deqCtr", "deqEnqPtr")
  /\ deq' = [deq EXCEPT ![t].ctr = dequeue.ctr]
  /\ UNCHANGED <<queueShared, qe, enq, nxt, val, queueHistory>>

DequeueReadEnqueuePointer(t) ==
  /\ Turn(t, "deqEnqPtr", "deqEnqCtr")
  /\ enq' = [enq EXCEPT ![t].ptr = enqueue.ptr]
  /\ UNCHANGED <<queueShared, qe, deq, nxt, val, queueHistory>>

DequeueReadEnqueueCounter(t) ==
  /\ Turn(t, "deqEnqCtr", "deqNextPtr")
  /\ enq' = [enq EXCEPT ![t].ctr = enqueue.ctr]
  /\ UNCHANGED <<queueShared, qe, deq, nxt, val, queueHistory>>

DequeueReadNextPointer(t) ==
  /\ Turn(t, "deqNextPtr", "deqNextCtr")
  /\ nxt' = [nxt EXCEPT ![t].ptr = qnext[deq[t].ptr].ptr]
  /\ UNCHANGED <<queueShared, qe, enq, deq, val, queueHistory>>

DequeueReadNextCounter(t) ==
  /\ Turn(t, "deqNextCtr", "deqTest")
  /\ nxt' = [nxt EXCEPT ![t].ctr = qnext[deq[t].ptr].ctr]
  /\ UNCHANGED <<queueShared, qe, enq, deq, val, queueHistory>>

(* The states EMPTY, ENQUEUE_OUT_OF_PLACE and ATTEMPT_DEQUEUE. *)
DequeueEmpty(t) ==
  /\ Turn(t, "deqTest", "idle")
  /\ dequeue = deq[t] /\ enq[t].ptr = deq[t].ptr /\ nxt[t].ptr = NoElem
  /\ val' = With(val, t, NoQueueValue) /\ NoLocals(t)
  /\ due' = With(due, t, IF sawEmpty[t] THEN NoQueueValue ELSE Head(content))
  /\ UNCHANGED <<queueShared, qe, ops, content>>

TestDequeue(t) ==
  /\ \/ dequeue # deq[t] /\ Turn(t, "deqTest", "deqPtr")
     \/ /\ dequeue = deq[t] /\ enq[t].ptr = deq[t].ptr /\ nxt[t].ptr # NoElem
        /\ Turn(t, "deqTest", "helpDequeue")
     \/ dequeue = deq[t] /\ enq[t].ptr # deq[t].ptr /\ Turn(t, "deqTest", "readData")
  /\ UNCHANGED <<queueShared, qe, enq, deq, nxt, val, queueHistory>>

(* The element may be recycled by now, its content is checked by Take. *)
ReadData(t) ==
  /\ Turn(t, "readData", "take")
  /\ val' = With(val, t, userData[nxt[t].ptr])
  /\ UNCHANGED <<queueShared, qe, enq, deq, nxt, queueHistory>>

Take(t) ==
  /\ qpc[t] = "take"
  /\ IF Same(dequeue, deq[t])
     THEN /\ Turn(t, "take", "recycle")
          /\ dequeue' = [ptr |-> nxt[t].ptr, ctr |-> deq[t].ctr + 1]
          /\ qe' = With(qe, t, deq[t].ptr)
          /\ due' = With(due, t, IF content = <<>> THEN NoQueueValue ELSE Head(content))
          /\ content' = IF content = <<>> THEN <<>> ELSE Tail(content)
          /\ NoLocals(t)
     ELSE /\ Turn(t, "take", "deqPtr")
          /\ UNCHANGED <<dequeue, qe, enq, deq, nxt, due, content>>
  /\ UNCHANGED <<enqueue, qnext, userData, fs, qaba, val, ops>>

RecycleElement(t) ==
  /\ Turn(t, "recycle", "idle")
  /\ fs' = fs \cup {qe[t]} /\ qe' = With(qe, t, NoElem)
  /\ UNCHANGED <<enqueue, dequeue, qnext, userData, qaba, enq, deq, nxt, val, queueHistory>>

-----------------------------------------------------------------------------
EnqueueStep(t) ==
  \/ InitPointer(t) \/ InitCounter(t) \/ ReadEnqueuePointer(t) \/ ReadEnqueueCounter(t)
  \/ ReadNextPointer(t) \/ ReadNextCounter(t) \/ TestEnqueue(t) \/ LinkElement(t)
  \/ EnqueueEnd(t)

DequeueStep(t) ==
  \/ ReadDequeuePointer(t) \/ ReadDequeueCounter(t) \/ DequeueReadEnqueuePointer(t)
  \/ DequeueReadEnqueueCounter(t) \/ DequeueReadNextPointer(t)
  \/ DequeueReadNextCounter(t) \/ DequeueEmpty(t) \/ TestDequeue(t)
  \/ ReadData(t) \/ Take(t) \/ RecycleElement(t)

LfdsStep(t)  == (EnqueueStep(t) \/ DequeueStep(t) \/ HelpEnqueue(t)) /\ WatchEmpty
LfdsBegin(t) == (EnqueueBegin(t) \/ DequeueBegin(t)) /\ WatchEmpty

QueueNext == \E t \in Callers : LfdsBegin(t) \/ LfdsStep(t)
QueueSpec == QueueInit /\ [][QueueNext]_queueVars

-----------------------------------------------------------------------------
QueueTypeOK ==
  /\ enqueue \in QPair /\ dequeue \in QPair /\ qnext \in [QueueElems -> QPair]
  /\ userData \in [QueueElems -> QueueValues \cup {NoQueueValue}]
  /\ fs \subseteq QueueElems /\ qaba \in Nat
  /\ qpc \in [Callers -> EnqueueLocs \cup DequeueLocs \cup {"idle", "recycle"}]
  /\ qe \in [Callers -> QPtr]
  /\ enq \in [Callers -> QPair] /\ deq \in [Callers -> QPair] /\ nxt \in [Callers -> QPair]
  /\ val \in [Callers -> QueueValues \cup {NoQueueValue}]
  /\ ops \in [Callers -> 0 .. MaxOps] /\ content \in Seq(QueueValues)
  /\ sawEmpty \in [Callers -> BOOLEAN]
  /\ due \in [Callers -> QueueValues \cup {NoQueueValue}]

(* The list behind the dummy holds what was enqueued and not dequeued, in  *)
(* the order in which the elements were linked; qs->enqueue is its last    *)
(* element or the one before.                                              *)
ListIsQueue ==
  LET c == Chain(dequeue.ptr) IN
  /\ Len(c) = Len(content) + 1
  /\ \A i \in DOMAIN content : userData[c[i + 1]] = content[i]
  /\ \E i \in DOMAIN c : c[i] = enqueue.ptr /\ i + 1 >= Len(c)

(* A queue element is on the list, free, or with one thread.               *)
ElementsInOnePlace == \A e \in QueueElems :
  Cardinality({t \in Callers : qe[t] = e /\ qpc[t] # "swing"})
    + (IF e \in fs THEN 1 ELSE 0)
    + Cardinality({i \in DOMAIN Chain(dequeue.ptr) : Chain(dequeue.ptr)[i] = e}) = 1

(* lfds611_queue_dequeue returns the oldest message at the time of its     *)
(* compare-and-swap, and fails only if the queue was empty at some time of *)
(* the call; it never reads through a null pointer.                        *)
DequeueIsRight == \A t \in Callers :
  /\ qpc[t] \in {"idle", "recycle"} => val[t] = due[t]
  /\ qpc[t] \in {"readData", "helpEnqueue", "helpDequeue"} => nxt[t].ptr # NoElem

(* However the threads overtake each other between the reads of a word and *)
(* the compare-and-swap, the queue of one writer returns what was written, *)
(* in order (lfds611_queue_dequeue, lfds611_queue_internal_queue).         *)
QueueRight == QueueTypeOK /\ ListIsQueue /\ ElementsInOnePlace /\ DequeueIsRight
=============================================================================
