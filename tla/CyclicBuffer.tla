---------------------------- MODULE CyclicBuffer ----------------------------
(***************************************************************************)
(* The interaction lfds_buffers/cyclic: cyclic_write and cyclic_read of    *)
(* several threads over the lock-free ring buffer of liblfds. The ring     *)
(* buffer keeps its elements in a free list and a queue. The queue wraps   *)
(* each in a queue element, taken from a free list of its own.             *)
(*                                                                         *)
(* A list or queue operation of the library takes effect at the success    *)
(* of its compare-and-swap, which is one action. The free lists are        *)
(* stacks; nothing depends on which element is on top. The rejection of    *)
(* messages of another type or length changes nothing and is left out.     *)
(*                                                                         *)
(* A writer links behind the queue element that it read as the last one.   *)
(* It reads the two words of next one after the other, so that with        *)
(* several writers they may belong together no more (LfdsQueue shows it    *)
(* word by word). Its compare-and-swap then succeeds behind an element     *)
(* that has left the queue meanwhile and that another writer prepares,     *)
(* between InitPointer and InitCounter of LfdsQueue: the message is not in *)
(* the queue before that writer links its own.                             *)
(***************************************************************************)
EXTENDS Naturals, FiniteSets, SequencesExt

CONSTANTS
  Writers, Readers,   \* the threads that call write and read
  Size,               \* bbi->buffer_len
  MaxWrites,          \* bound: calls of write by each writer
  NoMsg

Threads  == Writers \cup Readers
Elements == 1 .. Size
NULL     == 0
Msgs     == [from : Writers, nr : 1 .. MaxWrites]

ASSUME ThreadsAssumption == IsFiniteSet(Threads) /\ Writers \cap Readers = {}
ASSUME SizeAssumption == Size \in Nat \ {0} /\ MaxWrites \in Nat
ASSUME NoMsgAssumption == NoMsg \notin Msgs

VARIABLES
  free,      \* rs->fs, the elements that hold no message
  queue,     \* rs->qs, the elements that hold a message, oldest first
  qfree,     \* number of queue elements in rs->qs->fs
  data,      \* the message in each element
  pc,        \* where each thread is
  held,      \* the element that each thread took, or NULL
  hung,      \* the elements linked behind the one that each writer prepares
  near,      \* where the queue element may be that a writer took for the last
  msg,       \* the message that each writer was called with
  ret,       \* the overwrite flag of each writer
  tmp,       \* value of overruns that each writer increments
  overruns,  \* bbi->overruns
  got,       \* the message that each reader read last
  written,   \* history: number of writes begun by each writer
  drops,     \* history: number of messages taken away from the readers
  newest     \* history: the last message queued, until it is read

callVars == <<pc, held, msg, ret, tmp>>
histVars == <<written, drops, newest>>
linkVars == <<hung, near>>
vars     == <<free, queue, qfree, data, callVars,
                 linkVars, overruns, got, histVars>>

WriterLocs == {"idle", "pop", "steal", "recycle", "flag", "count", "store",
               "fill", "put", "link"}
ReaderLocs == {"idle", "recycle", "copy", "release"}

(* Every variable holds what the code keeps there, and a thread holds an   *)
(* element of the ring buffer exactly while its call owns one.             *)
TypeOK ==
  /\ free \in SUBSET Elements
  /\ queue \in Seq(Elements)
  /\ qfree \in Nat
  /\ data \in [Elements -> Msgs \cup {NoMsg}]
  /\ pc \in [Threads -> WriterLocs \cup ReaderLocs]
  /\ \A w \in Writers : pc[w] \in WriterLocs
  /\ \A r \in Readers : pc[r] \in ReaderLocs
  /\ held \in [Threads -> Elements \cup {NULL}]
  /\ \A t \in Threads : held[t] = NULL <=> pc[t] \in {"idle", "pop", "steal"}
  /\ hung \in [Writers -> Seq(Elements)]
  /\ \A w \in Writers : pc[w] # "link" => hung[w] = <<>>
  /\ near \in [Writers -> SUBSET (Elements \cup {NULL} \cup Writers)]
  /\ msg \in [Writers -> Msgs \cup {NoMsg}]
  /\ \A w \in Writers : pc[w] # "idle" => msg[w] \in Msgs
  /\ ret \in [Writers -> BOOLEAN]
  /\ tmp \in [Writers -> Nat] /\ overruns \in Nat
  /\ got \in [Readers -> Msgs \cup {NoMsg}]
  /\ written \in [Writers -> 0 .. MaxWrites]
  /\ drops \in Nat
  /\ newest \in Msgs \cup {NoMsg}

-----------------------------------------------------------------------------
(* lfds611_queue_new allocates one more, which is the leading dummy. *)
QueueElements == Size + 1

Init ==
  /\ free = Elements
  /\ queue = <<>>
  /\ qfree = QueueElements - 1
  /\ data = [e \in Elements |-> NoMsg]
  /\ pc = [t \in Threads |-> "idle"]
  /\ held = [t \in Threads |-> NULL]
  /\ hung = [w \in Writers |-> <<>>]
  /\ near = [w \in Writers |-> {}]
  /\ msg = [w \in Writers |-> NoMsg]
  /\ ret = [w \in Writers |-> FALSE]
  /\ tmp = [w \in Writers |-> 0]
  /\ overruns = 0
  /\ got = [r \in Readers |-> NoMsg]
  /\ written = [w \in Writers |-> 0]
  /\ drops = 0
  /\ newest = NoMsg

Goto(t, from, to) == pc[t] = from /\ pc' = [pc EXCEPT ![t] = to]
Hold(t, e)        == held' = [held EXCEPT ![t] = e]

(***************************************************************************)
(* The queue element that writer w took for the last one, while another    *)
(* writer linked behind it: near[w] says where it may be. In the queue it  *)
(* is the one before an element of the ring buffer, which is in near[w];   *)
(* a thread that dequeues that element returns it to the free list (NULL); *)
(* there another writer takes it and prepares it.                          *)
(***************************************************************************)
SeenLinked(w) ==
  near' = [v \in Writers |-> IF v = w THEN {}
             ELSE IF pc[v] = "link" THEN (near[v] \ {w}) \cup {held[w]} ELSE near[v]]
SeenReturned(t) ==
  near' = [v \in Writers |-> IF held[t] \in near[v]
                             THEN (near[v] \ {held[t]}) \cup {NULL} ELSE near[v]]
SeenTaken(w) ==
  near' = [v \in Writers |-> IF NULL \in near[v] THEN near[v] \cup {w} ELSE near[v]]

(* What w links: its own element, and what was linked behind that.         *)
Behind(w) == <<held[w]>> \o hung[w]

-----------------------------------------------------------------------------
(***************************************************************************)
(* cyclic_write.                                                           *)
(***************************************************************************)
WriteBegin(w) ==
  /\ written[w] < MaxWrites
  /\ Goto(w, "idle", "pop")
  /\ written' = [written EXCEPT ![w] = @ + 1]
  /\ msg' = [msg EXCEPT ![w] = [from |-> w, nr |-> written'[w]]]
  /\ UNCHANGED <<free, queue, qfree, data, held, ret, tmp,
                 linkVars, overruns, got,
                 drops, newest>>

(* lfds611_ringbuffer_get_write_element: first the free list, then the     *)
(* queue, and again.                                                       *)
PopFree(w) ==
  /\ Goto(w, "pop", "flag")
  /\ ret' = [ret EXCEPT ![w] = FALSE]
  /\ \E e \in free : Hold(w, e) /\ free' = free \ {e}
  /\ UNCHANGED <<queue, qfree, data, msg, tmp,
                 linkVars, overruns, got, histVars>>

FreeEmpty(w) ==
  /\ Goto(w, "pop", "steal")
  /\ ret' = [ret EXCEPT ![w] = FALSE]
  /\ free = {}
  /\ UNCHANGED <<free, queue, qfree, data, held, msg, tmp,
                 linkVars, overruns, got, histVars>>

(* lfds611_queue_dequeue up to the compare-and-swap: the queue element is  *)
(* returned to its free list later, in Recycle.                            *)
Dequeue(t) ==
  /\ queue # <<>>
  /\ Hold(t, Head(queue))
  /\ queue' = Tail(queue)

(* Mutant of Steal: the newest element is taken instead of the oldest. *)
StealNewest(w) ==
  /\ Goto(w, "steal", "recycle")
  /\ queue # <<>>
  /\ Hold(w, queue[Len(queue)])
  /\ queue' = SubSeq(queue, 1, Len(queue) - 1)
  /\ ret' = [ret EXCEPT ![w] = TRUE]
  /\ drops' = drops + 1
  /\ UNCHANGED <<free, qfree, data, msg, tmp,
                 linkVars, overruns, got, written, newest>>

Steal(w) ==
  /\ Goto(w, "steal", "recycle")
  /\ Dequeue(w)
  /\ ret' = [ret EXCEPT ![w] = TRUE]
  /\ drops' = drops + 1
  /\ UNCHANGED <<free, qfree, data, msg, tmp,
                 linkVars, overruns, got, written, newest>>

StealNothing(w) ==
  /\ Goto(w, "steal", "pop")
  /\ queue = <<>>
  /\ UNCHANGED <<free, queue, qfree, data, held, msg, ret, tmp,
                 linkVars, overruns, got, histVars>>

(* lfds611_queue_dequeue returns the queue element. *)
Recycle(t) ==
  /\ Goto(t, "recycle", IF t \in Writers THEN "flag" ELSE "copy")
  /\ qfree' = qfree + 1
  /\ SeenReturned(t)
  /\ UNCHANGED <<free, queue, data, held, msg, ret, tmp, hung, overruns, got, histVars>>

(* Mutant of CheckFlag: an overrun is not counted. *)
CheckFlagIgnored(w) ==
  /\ Goto(w, "flag", "fill")
  /\ UNCHANGED <<free, queue, qfree, data, held, msg, ret, tmp,
                 linkVars, overruns, got, histVars>>

CheckFlag(w) ==
  /\ Goto(w, "flag", IF ret[w] THEN "count" ELSE "fill")
  /\ UNCHANGED <<free, queue, qfree, data, held, msg, ret, tmp,
                 linkVars, overruns, got, histVars>>

(* overruns is incremented by a load and a store without a lock. *)
LoadOverruns(w) ==
  /\ Goto(w, "count", "store")
  /\ tmp' = [tmp EXCEPT ![w] = overruns]
  /\ UNCHANGED <<free, queue, qfree, data, held, msg, ret,
                 linkVars, overruns, got, histVars>>

StoreOverruns(w) ==
  /\ Goto(w, "store", "fill")
  /\ overruns' = tmp[w] + 1
  /\ UNCHANGED <<free, queue, qfree, data, held, msg, ret, tmp,
                 linkVars, got, histVars>>

Fill(w) ==
  /\ Goto(w, "fill", "put")
  /\ data' = [data EXCEPT ![held[w]] = msg[w]]
  /\ UNCHANGED <<free, queue, qfree, held, msg, ret, tmp,
                 linkVars, overruns, got, histVars>>

(* lfds611_ringbuffer_put_write_element. When lfds611_queue_enqueue finds  *)
(* no queue element the call returns, and element and message are lost.    *)
Put(w) ==
  /\ Goto(w, "put", IF qfree > 0 THEN "link" ELSE "idle")
  /\ qfree' = IF qfree > 0 THEN qfree - 1 ELSE 0
  /\ Hold(w, IF qfree > 0 THEN held[w] ELSE NULL)
  /\ SeenTaken(w)
  /\ UNCHANGED <<free, queue, data, msg, ret, tmp, hung, overruns, got, histVars>>

(* The writer is done: what it linked is the newest. *)
Finish(w) ==
  /\ Goto(w, "link", "idle")
  /\ Hold(w, NULL)
  /\ newest' = data[Last(Behind(w))]
  /\ UNCHANGED <<free, qfree, data, msg, ret, tmp, overruns, got, written, drops>>

(* Mutant of Link: what was linked behind the element is lost. *)
LinkAlone(w) ==
  /\ Finish(w) /\ SeenLinked(w)
  /\ queue' = Append(queue, held[w]) /\ hung' = [hung EXCEPT ![w] = <<>>]

(* lfds611_queue_internal_queue, behind the last element of the queue. *)
Link(w) ==
  /\ Finish(w) /\ SeenLinked(w)
  /\ queue' = queue \o Behind(w)
  /\ hung' = [hung EXCEPT ![w] = <<>>]

(* Or behind the queue element that writer u has taken from the free list  *)
(* and is about to link, which was the last of the queue before.           *)
LinkTorn(w, u) ==
  /\ Finish(w)
  /\ u # w /\ u \in near[w] /\ pc[u] = "link" /\ hung[u] = <<>>
  /\ hung' = [hung EXCEPT ![w] = <<>>, ![u] = Behind(w)]
  /\ near' = [v \in Writers |-> IF v = w THEN {} ELSE near[v] \ {w}]
  /\ UNCHANGED queue

-----------------------------------------------------------------------------
(***************************************************************************)
(* cyclic_read. A read that finds the queue empty returns 0 at once and    *)
(* changes nothing.                                                        *)
(***************************************************************************)
Read(r) ==
  /\ Goto(r, "idle", "recycle")
  /\ Dequeue(r)
  /\ newest' = IF data[Head(queue)] = newest THEN NoMsg ELSE newest
  /\ UNCHANGED <<free, qfree, data, msg, ret, tmp,
                 linkVars, overruns, got, written, drops>>

Copy(r) ==
  /\ Goto(r, "copy", "release")
  /\ got' = [got EXCEPT ![r] = data[held[r]]]
  /\ UNCHANGED <<free, queue, qfree, data, held, msg, ret, tmp,
                 linkVars, overruns, histVars>>

(* Mutant of Release: the element is not returned. *)
ReleaseNot(r) ==
  /\ Goto(r, "release", "idle")
  /\ Hold(r, NULL)
  /\ UNCHANGED <<free, queue, qfree, data, msg, ret, tmp,
                 linkVars, overruns, got, histVars>>

Release(r) ==
  /\ Goto(r, "release", "idle")
  /\ free' = free \cup {held[r]}
  /\ Hold(r, NULL)
  /\ UNCHANGED <<queue, qfree, data, msg, ret, tmp,
                 linkVars, overruns, got, histVars>>

WriteStep(w) ==
  \/ PopFree(w) \/ FreeEmpty(w)
  \/ Steal(w) \/ StealNothing(w)
  \/ Recycle(w)
  \/ CheckFlag(w) \/ LoadOverruns(w) \/ StoreOverruns(w)
  \/ Fill(w) \/ Put(w) \/ Link(w) \/ \E u \in Writers : LinkTorn(w, u)

ReadStep(r) == Recycle(r) \/ Copy(r) \/ Release(r)

Next ==
  \/ \E w \in Writers : WriteBegin(w) \/ WriteStep(w)
  \/ \E r \in Readers : Read(r) \/ ReadStep(r)

Spec == Init /\ [][Next]_vars

(* A thread that is in a call goes on with it; nobody has to begin one. *)
FairSpec ==
  /\ Spec
  /\ \A w \in Writers : WF_vars(WriteStep(w))
  /\ \A r \in Readers : WF_vars(ReadStep(r))

-----------------------------------------------------------------------------
(***************************************************************************)
(* Properties.                                                             *)
(***************************************************************************)
Queued == {queue[i] : i \in 1 .. Len(queue)}
Hanging(w) == {hung[w][i] : i \in 1 .. Len(hung[w])}

(* No element is lost and none is in two places: a writer never fills what *)
(* a reader copies, or another writer fills, or the readers can reach, now *)
(* or when another writer goes on.                                         *)
Conservation ==
  /\ \A e \in Elements : \/ e \in free \cup Queued
                         \/ \E t \in Threads : held[t] = e
                         \/ \E w \in Writers : e \in Hanging(w)
  /\ free \cap Queued = {}
  /\ \A i, j \in 1 .. Len(queue) : queue[i] = queue[j] => i = j
  /\ \A t \in Threads : held[t] \notin free \cup Queued
  /\ \A t, u \in Threads : held[t] = held[u] /\ held[t] # NULL => t = u
  /\ \A w \in Writers :
       /\ Hanging(w) \cap (free \cup Queued) = {}
       /\ \A i, j \in 1 .. Len(hung[w]) : hung[w][i] = hung[w][j] => i = j
       /\ \A t \in Threads : held[t] \notin Hanging(w)
       /\ \A v \in Writers : v # w => Hanging(w) \cap Hanging(v) = {}

(* cyclic_write ignores that the queue may be out of queue elements; it    *)
(* never is, although a reader returns its queue element only some time    *)
(* after it took the ring buffer's element.                                *)
PutNeverFails == \A w \in Writers : pc[w] = "put" => qfree > 0

(* A reader gets the messages of a writer in the order of their writes.    *)
(* With a second writer it need not: the first message of a writer may     *)
(* wait behind an element that is not linked, while the next is linked.    *)
InOrder ==
  [][\A r \in Readers :
       got'[r] # got[r] /\ got[r] # NoMsg /\ got'[r].from = got[r].from
       => got'[r].nr > got[r].nr]_vars

Writing(w) == pc[w] \in {"recycle", "flag", "count", "store", "fill", "put", "link"}

(* The newest message stays available until it is read or a write that is  *)
(* under way took its place, in particular with buffer_len 1; or it waits  *)
(* behind the element of a writer that has not linked it yet.              *)
NewestKept ==
  newest = NoMsg
  \/ (queue # <<>> /\ data[queue[Len(queue)]] = newest)
  \/ (\E w \in Writers : hung[w] # <<>> /\ data[hung[w][Len(hung[w])]] = newest)
  \/ \E w \in Writers : Writing(w) /\ ret[w]

(* The statistics are updated without a lock and may count too few         *)
(* overruns, but never too many, and never none when messages were lost.   *)
LossNoticed ==
  /\ overruns <= drops
  /\ drops > 0 /\ overruns = 0 =>
       \E w \in Writers : pc[w] \in {"recycle", "flag", "count", "store"} /\ ret[w]

(* The port is documented as the number of buffer overruns: between calls  *)
(* it is the number of messages taken away. With several writers the count *)
(* misses some, because two increments may overlap.                        *)
OverrunsCounted == (\A t \in Threads : pc[t] = "idle") => overruns = drops

(* A writer that finds neither a free nor a queued element spins; it does  *)
(* not spin forever when the other writers stop (after MaxWrites calls).   *)
WriteEnds == \A w \in Writers : pc[w] = "pop" ~> pc[w] = "idle"

(* What the messages and the threads of DropOldest are here. *)
AbsBuf == [i \in 1 .. Len(queue) |-> data[queue[i]]]

AbsLate == [w \in Writers |-> [i \in 1 .. Len(hung[w]) |-> data[hung[w][i]]]]

AbsStage == [t \in Threads |->
               CASE pc[t] = "idle"  -> "idle"
                 [] pc[t] = "pop"   -> "begun"
                 [] pc[t] = "steal" -> "full"
                 [] OTHER           -> "slot"]

AbsGot == [r \in Readers |->
             IF pc[r] \in {"recycle", "copy"} THEN data[held[r]] ELSE got[r]]

Abstract == INSTANCE DropOldest WITH
  buf <- AbsBuf, late <- AbsLate, free <- Cardinality(free), stage <- AbsStage,
  arg <- msg, got <- AbsGot

(* Through any interleaving cyclic_write and cyclic_read behave like a     *)
(* bounded queue that drops its oldest messages; and one that keeps their  *)
(* order, if there is one writer.                                          *)
ImplementsDropOldest == Abstract!Spec
=============================================================================
