---------------------------- MODULE BufferProofs ----------------------------
(***************************************************************************)
(* The buffers of the interactions, for every number of threads, elements  *)
(* and calls: the safety properties of CyclicBuffer, which implements      *)
(* DropOldest, and the order of its messages for one writer; that the free *)
(* list of LfdsFreelist is a stack; that the queue of LfdsQueue is one if  *)
(* a single thread writes to it; and what Mqueue promises of its messages. *)
(***************************************************************************)
EXTENDS CyclicBuffer, LfdsFreelist, LfdsQueue, Mqueue, FiniteSetTheorems,
        SequenceTheorems, FunctionTheorems, TLAPS

(* Threads that hold an element of the ring buffer and no queue element.   *)
SettledLocs == {"flag", "count", "store", "fill", "put", "copy", "release"}
Settled     == {t \in Threads : pc[t] \in SettledLocs}

-----------------------------------------------------------------------------
(***************************************************************************)
(* Type correctness.                                                       *)
(***************************************************************************)
LEMMA TypeInit == Init => TypeOK
<1> SUFFICES ASSUME Init PROVE TypeOK
  OBVIOUS
<1> QED
  BY SizeAssumption, ThreadsAssumption
  DEF Init, TypeOK, WriterLocs, ReaderLocs, Threads, Elements, NULL, QueueElements

(* Every step of a writer keeps the types. *)
LEMMA WriterType ==
  ASSUME TypeOK, NEW w \in Writers, WriteBegin(w) \/ WriteStep(w)
  PROVE  TypeOK'
<1> USE SizeAssumption, ThreadsAssumption
    DEF TypeOK, Threads, Elements, NULL, Goto, Hold, histVars, linkVars,
        WriterLocs, ReaderLocs
<1>1. CASE WriteBegin(w)
  <2>1. written[w] + 1 \in 1 .. MaxWrites
    BY <1>1 DEF WriteBegin
  <2>2. [from |-> w, nr |-> written[w] + 1] \in Msgs
    BY <2>1 DEF Msgs
  <2> QED
    BY <1>1, <2>1, <2>2 DEF WriteBegin
<1>2. CASE PopFree(w)
  <2> PICK e \in free : held' = [held EXCEPT ![w] = e] /\ free' = free \ {e}
    BY <1>2 DEF PopFree
  <2>1. e \in 1 .. Size
    OBVIOUS
  <2>2. e # 0
    BY <2>1
  <2>3. /\ pc[w] = "pop" /\ pc' = [pc EXCEPT ![w] = "flag"]
        /\ ret' = [ret EXCEPT ![w] = FALSE]
        /\ UNCHANGED <<queue, qfree, data, msg, tmp, linkVars, overruns, got, histVars>>
    BY <1>2 DEF PopFree
  <2> HIDE <1>2
  <2> QED
    BY <2>1, <2>2, <2>3
<1>3. CASE FreeEmpty(w)
  BY <1>3 DEF FreeEmpty
<1>4. CASE Steal(w)
  <2>1. Head(queue) \in 1 .. Size /\ Tail(queue) \in Seq(1 .. Size)
    BY <1>4 DEF Steal, Dequeue
  <2> QED
    BY <1>4, <2>1 DEF Steal, Dequeue
<1>5. CASE StealNothing(w)
  BY <1>5 DEF StealNothing
<1>6. CASE Recycle(w)
  <2>1. held[w] \in Elements /\ pc[w] = "recycle"
    BY <1>6 DEF Recycle
  <2> QED
    BY <1>6, <2>1 DEF Recycle, SeenReturned
<1>7. CASE CheckFlag(w)
  BY <1>7 DEF CheckFlag
<1>8. CASE LoadOverruns(w)
  BY <1>8 DEF LoadOverruns
<1>9. CASE StoreOverruns(w)
  <2>1. /\ tmp[w] + 1 \in Nat /\ overruns' = tmp[w] + 1
        /\ UNCHANGED <<free, queue, qfree, data, held, msg, ret, tmp, linkVars, got, histVars>>
        /\ pc[w] = "store" /\ pc' = [pc EXCEPT ![w] = "fill"]
    BY <1>9 DEF StoreOverruns
  <2> QED
    BY <2>1
<1>10. CASE Fill(w)
  BY <1>10 DEF Fill
<1>11. CASE Put(w)
  BY <1>11 DEF Put, SeenTaken
<1>12. ASSUME Finish(w) PROVE /\ Behind(w) \in Seq(Elements) /\ held[w] \in Elements
                              /\ Last(Behind(w)) \in Elements
  <2>1. held[w] \in Elements /\ hung[w] \in Seq(Elements)
    BY <1>12 DEF Finish
  <2>2. Behind(w) \in Seq(Elements) /\ Len(Behind(w)) = Len(hung[w]) + 1
    BY <2>1 DEF Behind
  <2>3. Last(Behind(w)) \in Elements
    BY <2>1, <2>2, LenProperties, ElementOfSeq DEF Last
  <2> QED
    BY <2>1, <2>2, <2>3
<1>13. CASE Link(w)
  <2>1. queue' \in Seq(Elements) /\ hung' \in [Writers -> Seq(Elements)] /\ hung'[w] = <<>>
    BY <1>12, <1>13 DEF Link
  <2>2. near' \in [Writers -> SUBSET (Elements \cup {NULL} \cup Writers)]
    BY <1>12, <1>13 DEF Link, SeenLinked
  <2> QED
    BY <1>12, <1>13, <2>1, <2>2 DEF Link, Finish
<1>14. ASSUME NEW u \in Writers, LinkTorn(w, u) PROVE TypeOK'
  <2>1. hung' \in [Writers -> Seq(Elements)] /\ hung'[w] = <<>>
    BY <1>12, <1>14 DEF LinkTorn
  <2>2. near' \in [Writers -> SUBSET (Elements \cup {NULL} \cup Writers)]
    BY <1>14 DEF LinkTorn
  <2> QED
    BY <1>12, <1>14, <2>1, <2>2 DEF LinkTorn, Finish
<1> QED
  BY <1>1, <1>2, <1>3, <1>4, <1>5, <1>6, <1>7, <1>8, <1>9, <1>10, <1>11, <1>13, <1>14
  DEF WriteStep

(* Every step of a reader keeps the types. *)
LEMMA ReaderType ==
  ASSUME TypeOK, NEW r \in Readers, Read(r) \/ ReadStep(r)
  PROVE  TypeOK'
<1> USE SizeAssumption, ThreadsAssumption
    DEF TypeOK, Threads, Elements, NULL, Goto, Hold, histVars, linkVars,
        WriterLocs, ReaderLocs
<1>1. CASE Read(r)
  <2>1. Head(queue) \in 1 .. Size /\ Tail(queue) \in Seq(1 .. Size)
    BY <1>1 DEF Read, Dequeue
  <2> QED
    BY <1>1, <2>1 DEF Read, Dequeue
<1>2. CASE Recycle(r)
  <2>1. held[r] \in Elements /\ pc[r] = "recycle"
    BY <1>2 DEF Recycle
  <2> QED
    BY <1>2, <2>1 DEF Recycle, SeenReturned
<1>3. CASE Copy(r)
  BY <1>3 DEF Copy
<1>4. CASE Release(r)
  <2>1. /\ held[r] \in 1 .. Size
        /\ free' = free \cup {held[r]} /\ held' = [held EXCEPT ![r] = 0]
        /\ UNCHANGED <<queue, qfree, data, msg, ret, tmp, linkVars, overruns, got, histVars>>
        /\ pc[r] = "release" /\ pc' = [pc EXCEPT ![r] = "idle"]
    BY <1>4 DEF Release
  <2> QED
    BY <2>1
<1> QED
  BY <1>1, <1>2, <1>3, <1>4 DEF ReadStep

-----------------------------------------------------------------------------
(***************************************************************************)
(* The queue as a sequence.                                                *)
(***************************************************************************)
LEMMA QueueFacts ==
  ASSUME TypeOK
  PROVE  /\ Len(queue) \in Nat
         /\ \A i \in 1 .. Len(queue) : queue[i] \in Elements
         /\ Queued \subseteq Elements
         /\ \A t \in Threads : held[t] # NULL => held[t] \in Elements
         /\ NULL \notin Elements
         /\ \A w \in Writers :
              /\ hung[w] \in Seq(Elements) /\ Len(hung[w]) \in Nat
              /\ \A i \in 1 .. Len(hung[w]) : hung[w][i] \in Elements
              /\ Hanging(w) \subseteq Elements
BY SizeAssumption DEF TypeOK, Queued, Hanging, Elements, NULL

LEMMA DequeueFacts ==
  ASSUME TypeOK, NEW t \in Threads, Dequeue(t)
  PROVE  /\ Len(queue) > 0
         /\ Head(queue) = queue[1]
         /\ Len(queue') = Len(queue) - 1
         /\ \A i \in 1 .. Len(queue') : queue'[i] = queue[i + 1]
         /\ held' = [held EXCEPT ![t] = queue[1]]
BY DEF TypeOK, Dequeue, Hold

(* One sequence behind another: which elements it has, and how often.      *)
Members(s) == {s[i] : i \in 1 .. Len(s)}
NoTwice(s) == \A i, j \in 1 .. Len(s) : s[i] = s[j] => i = j

LEMMA Concatenation ==
  ASSUME NEW S, NEW s \in Seq(S), NEW t \in Seq(S)
  PROVE  /\ s \o t \in Seq(S) /\ Len(s \o t) = Len(s) + Len(t)
         /\ \A i \in 1 .. Len(s) : i \in 1 .. Len(s \o t) /\ (s \o t)[i] = s[i]
         /\ \A k \in 1 .. Len(t) : Len(s) + k \in 1 .. Len(s \o t) /\ (s \o t)[Len(s) + k] = t[k]
         /\ \A i \in 1 .. Len(s \o t) :
              \/ i \in 1 .. Len(s) /\ (s \o t)[i] = s[i]
              \/ \E k \in 1 .. Len(t) : i = Len(s) + k /\ (s \o t)[i] = t[k]
         /\ Members(s \o t) = Members(s) \cup Members(t)
         /\ NoTwice(s) /\ NoTwice(t) /\ Members(s) \cap Members(t) = {} => NoTwice(s \o t)
<1>1. PICK c : c = s \o t
  OBVIOUS
<1>2. /\ c \in Seq(S) /\ Len(c) = Len(s) + Len(t) /\ Len(s) \in Nat /\ Len(t) \in Nat
      /\ \A i \in 1 .. Len(s) + Len(t) : c[i] = IF i <= Len(s) THEN s[i] ELSE t[i - Len(s)]
  BY <1>1, ConcatProperties, LenProperties
<1>3. \A i \in 1 .. Len(s) : i \in 1 .. Len(c) /\ c[i] = s[i]
  BY <1>2
<1>4. ASSUME NEW k \in 1 .. Len(t)
      PROVE  Len(s) + k \in 1 .. Len(c) /\ c[Len(s) + k] = t[k]
  <2>1. /\ Len(s) + k \in 1 .. Len(s) + Len(t) /\ ~ Len(s) + k <= Len(s)
        /\ (Len(s) + k) - Len(s) = k
    BY <1>2
  <2> QED
    BY <1>2, <2>1
<1>5. ASSUME NEW i \in 1 .. Len(c), i \notin 1 .. Len(s)
      PROVE  \E k \in 1 .. Len(t) : i = Len(s) + k /\ c[i] = t[k]
  <2>1. i - Len(s) \in 1 .. Len(t) /\ i = Len(s) + (i - Len(s)) /\ ~ i <= Len(s)
    BY <1>2, <1>5
  <2> QED
    BY <1>2, <2>1
<1>6. \A i \in 1 .. Len(c) :
        \/ i \in 1 .. Len(s) /\ c[i] = s[i]
        \/ \E k \in 1 .. Len(t) : i = Len(s) + k /\ c[i] = t[k]
  BY <1>3, <1>5
<1>7. Members(c) = Members(s) \cup Members(t)
  <2>1. \A x \in Members(c) : x \in Members(s) \cup Members(t)
    BY <1>6 DEF Members
  <2>2. \A x \in Members(s) : x \in Members(c)
    BY <1>3 DEF Members
  <2>3. \A x \in Members(t) : x \in Members(c)
    BY <1>4 DEF Members
  <2> QED
    BY <2>1, <2>2, <2>3
<1>8. ASSUME NoTwice(s), NoTwice(t), Members(s) \cap Members(t) = {},
             NEW i \in 1 .. Len(c), NEW j \in 1 .. Len(c), c[i] = c[j]
      PROVE  i = j
  <2>1. \A m \in 1 .. Len(s), n \in 1 .. Len(t) : s[m] # t[n]
    BY <1>8 DEF Members
  <2>2. CASE i \in 1 .. Len(s) /\ c[i] = s[i]
    BY <1>6, <1>8, <2>1, <2>2 DEF NoTwice
  <2>3. ASSUME NEW k \in 1 .. Len(t), i = Len(s) + k, c[i] = t[k] PROVE i = j
    BY <1>6, <1>8, <2>1, <2>3 DEF NoTwice
  <2> QED
    BY <1>6, <2>2, <2>3
<1> QED
  BY <1>1, <1>2, <1>3, <1>4, <1>6, <1>7, <1>8 DEF NoTwice

LEMMA Single ==
  ASSUME NEW S, NEW e \in S
  PROVE  /\ <<e>> \in Seq(S) /\ Len(<<e>>) = 1 /\ <<e>>[1] = e
         /\ Members(<<e>>) = {e} /\ NoTwice(<<e>>)
<1>1. <<e>> \in Seq(S) /\ Len(<<e>>) = 1 /\ <<e>>[1] = e
  OBVIOUS
<1>2. 1 .. 1 = {1}
  OBVIOUS
<1> QED
  BY <1>1, <1>2 DEF Members, NoTwice

(* What writer w links: its own element and the ones behind that.          *)
LEMMA ToLinkFacts ==
  ASSUME TypeOK, NEW w \in Writers, Finish(w)
  PROVE  /\ w \in Threads /\ pc[w] = "link"
         /\ held[w] \in Elements /\ held[w] # NULL
         /\ hung[w] \in Seq(Elements) /\ Len(hung[w]) \in Nat
         /\ Behind(w) \in Seq(Elements)
         /\ Len(Behind(w)) = 1 + Len(hung[w])
         /\ Behind(w)[1] = held[w]
         /\ \A k \in 1 .. Len(hung[w]) : Behind(w)[1 + k] = hung[w][k]
         /\ Last(Behind(w)) = Behind(w)[Len(Behind(w))]
         /\ Members(Behind(w)) = {held[w]} \cup Hanging(w)
         /\ Conservation => NoTwice(Behind(w))
         /\ held' = [held EXCEPT ![w] = NULL]
<1>1. w \in Threads /\ pc[w] = "link" /\ held' = [held EXCEPT ![w] = NULL]
  BY DEF Finish, Goto, Threads, Hold
<1>2. held[w] # NULL
  BY <1>1 DEF TypeOK
<1>3. held[w] \in Elements /\ hung[w] \in Seq(Elements) /\ Len(hung[w]) \in Nat
  BY <1>1, <1>2, QueueFacts
<1>4. Members(hung[w]) = Hanging(w)
  BY DEF Members, Hanging
<1>5. PICK h : h = <<held[w]>>
  OBVIOUS
<1>6. h \in Seq(Elements) /\ Len(h) = 1 /\ h[1] = held[w] /\ Members(h) = {held[w]} /\ NoTwice(h)
  BY <1>3, <1>5, Single
<1>7. Behind(w) = h \o hung[w]
  BY <1>5 DEF Behind
<1>8. /\ Behind(w) \in Seq(Elements) /\ Len(Behind(w)) = Len(h) + Len(hung[w])
      /\ \A i \in 1 .. Len(h) : Behind(w)[i] = h[i]
      /\ \A k \in 1 .. Len(hung[w]) : Behind(w)[Len(h) + k] = hung[w][k]
      /\ Members(Behind(w)) = Members(h) \cup Members(hung[w])
  <2>1. PICK r : r = hung[w]
    OBVIOUS
  <2>2. r \in Seq(Elements) /\ h \in Seq(Elements)
    BY <1>3, <1>6, <2>1
  <2>3. Behind(w) = h \o r
    BY <1>7, <2>1
  <2>4. /\ h \o r \in Seq(Elements) /\ Len(h \o r) = Len(h) + Len(r)
        /\ \A i \in 1 .. Len(h) : (h \o r)[i] = h[i]
        /\ \A k \in 1 .. Len(r) : (h \o r)[Len(h) + k] = r[k]
    BY <2>2, Concatenation
  <2>5. Members(h \o r) = Members(h) \cup Members(r)
    BY <2>2, Concatenation
  <2> QED
    BY <2>1, <2>3, <2>4, <2>5
<1>9. ASSUME Conservation PROVE NoTwice(Behind(w))
  <2>1. NoTwice(hung[w])
    BY <1>9 DEF NoTwice, Conservation
  <2>2. Members(h) \cap Members(hung[w]) = {}
    BY <1>1, <1>4, <1>6, <1>9 DEF Conservation
  <2> QED
    BY <1>3, <1>6, <1>7, <2>1, <2>2, Concatenation
<1>10. 1 \in 1 .. Len(h)
  BY <1>6
<1> QED
  BY <1>1, <1>2, <1>3, <1>4, <1>6, <1>8, <1>9, <1>10 DEF Last

LEMMA LinkFacts ==
  ASSUME TypeOK, NEW w \in Writers, Link(w)
  PROVE  /\ Finish(w)
         /\ Len(queue') = Len(queue) + Len(Behind(w))
         /\ \A i \in 1 .. Len(queue) : queue'[i] = queue[i]
         /\ \A k \in 1 .. Len(Behind(w)) : queue'[Len(queue) + k] = Behind(w)[k]
         /\ \A i \in 1 .. Len(queue') :
              \/ i \in 1 .. Len(queue) /\ queue'[i] = queue[i]
              \/ \E k \in 1 .. Len(Behind(w)) :
                   i = Len(queue) + k /\ queue'[i] = Behind(w)[k]
         /\ Queued' = Queued \cup {held[w]} \cup Hanging(w)
         /\ Conservation => NoTwice(queue')
         /\ \A v \in Writers : hung'[v] = IF v = w THEN <<>> ELSE hung[v]
<1>1. /\ Finish(w) /\ queue' = queue \o Behind(w)
      /\ hung' = [hung EXCEPT ![w] = <<>>] /\ hung \in [Writers -> Seq(Elements)]
      /\ queue \in Seq(Elements)
  BY DEF Link, TypeOK
<1>2. Behind(w) \in Seq(Elements) /\ Members(Behind(w)) = {held[w]} \cup Hanging(w)
  BY <1>1, ToLinkFacts
<1>3. Members(queue) = Queued /\ Members(queue') = Queued'
  BY DEF Members, Queued
<1>4. ASSUME Conservation PROVE NoTwice(queue')
  <2>1. NoTwice(queue) /\ NoTwice(Behind(w))
    BY <1>1, <1>4, ToLinkFacts DEF NoTwice, Conservation
  <2>2. Members(queue) \cap Members(Behind(w)) = {}
    BY <1>1, <1>2, <1>3, <1>4, ToLinkFacts DEF Conservation
  <2> QED
    BY <1>1, <1>2, <2>1, <2>2, Concatenation
<1>5. /\ Len(queue') = Len(queue) + Len(Behind(w))
      /\ \A i \in 1 .. Len(queue) : queue'[i] = queue[i]
      /\ \A k \in 1 .. Len(Behind(w)) : queue'[Len(queue) + k] = Behind(w)[k]
      /\ \A i \in 1 .. Len(queue') :
           \/ i \in 1 .. Len(queue) /\ queue'[i] = queue[i]
           \/ \E k \in 1 .. Len(Behind(w)) : i = Len(queue) + k /\ queue'[i] = Behind(w)[k]
      /\ Members(queue') = Members(queue) \cup Members(Behind(w))
  BY <1>1, <1>2, Concatenation
<1>6. \A v \in Writers : hung'[v] = IF v = w THEN <<>> ELSE hung[v]
  BY <1>1
<1> QED
  BY <1>1, <1>2, <1>3, <1>4, <1>5, <1>6

LEMMA TornFacts ==
  ASSUME TypeOK, NEW w \in Writers, NEW u \in Writers, LinkTorn(w, u)
  PROVE  /\ Finish(w) /\ u # w /\ hung[u] = <<>>
         /\ hung'[w] = <<>> /\ hung'[u] = Behind(w)
         /\ \A v \in Writers : v # w /\ v # u => hung'[v] = hung[v]
         /\ queue' = queue
<1>1. hung \in [Writers -> Seq(Elements)]
  BY DEF TypeOK
<1> QED
  BY <1>1 DEF LinkTorn

-----------------------------------------------------------------------------
(***************************************************************************)
(* Elements are neither lost nor shared.                                   *)
(***************************************************************************)
Placed(e) == \/ e \in free \cup Queued
             \/ \E t \in Threads : held[t] = e
             \/ \E w \in Writers : e \in Hanging(w)

LEMMA DequeueConserves ==
  ASSUME TypeOK, Conservation, NEW t \in Threads, held[t] = NULL,
         Dequeue(t), UNCHANGED <<free, hung>>
  PROVE  Conservation'
<1> DEFINE e == queue[1]
<1>1. e \in Queued /\ e # NULL
  BY QueueFacts, DequeueFacts DEF Queued
<1>2. Queued' = Queued \ {e}
  <2>1. ASSUME NEW i \in 1 .. Len(queue') PROVE queue'[i] \in Queued \ {e}
    <3>1. /\ i \in Nat /\ i + 1 \in 1 .. Len(queue) /\ 1 \in 1 .. Len(queue) /\ i + 1 # 1
          /\ queue'[i] = queue[i + 1]
      BY QueueFacts, DequeueFacts
    <3>2. queue[i + 1] # queue[1]
      BY <3>1 DEF Conservation
    <3> QED
      BY <3>1, <3>2 DEF Queued
  <2>2. ASSUME NEW i \in 1 .. Len(queue), queue[i] # e PROVE queue[i] \in Queued'
    <3>1. i - 1 \in 1 .. Len(queue') /\ queue'[i - 1] = queue[i]
      BY <2>2, QueueFacts, DequeueFacts
    <3> QED
      BY <3>1 DEF Queued
  <2> QED
    BY <2>1, <2>2 DEF Queued
<1>3. \A i, j \in 1 .. Len(queue') : queue'[i] = queue'[j] => i = j
  BY QueueFacts, DequeueFacts DEF Conservation
<1>4. held' = [held EXCEPT ![t] = e] /\ held \in [Threads -> Elements \cup {NULL}]
  BY DequeueFacts DEF TypeOK
<1>5. \A x \in Elements : Placed(x) => Placed(x)'
  <2>1. held'[t] = e
    BY <1>4
  <2>2. \A u \in Threads : held[u] # NULL => held'[u] = held[u]
    BY <1>4
  <2> QED
    BY <1>2, <2>1, <2>2, QueueFacts DEF Placed, Hanging
<1>6. \A u \in Threads : held'[u] \notin free \cup Queued'
  BY <1>1, <1>2, <1>4 DEF Conservation
<1>7. \A u, v \in Threads : held'[u] = held'[v] /\ held'[u] # NULL => u = v
  BY <1>1, <1>4 DEF Conservation
<1>8. \A w \in Writers, u \in Threads : held'[u] \notin Hanging(w)
  BY <1>1, <1>4 DEF Conservation
<1>9. \A w \in Writers : Hanging(w)' = Hanging(w) /\ hung'[w] = hung[w]
  BY DEF Hanging
<1>10. \A w \in Writers : Hanging(w) \cap (free \cup Queued') = {}
  BY <1>2 DEF Conservation
<1>11. \A x \in Elements : Placed(x)'
  BY <1>5 DEF Conservation, Placed
<1>12. free \cap Queued' = {}
  BY <1>2 DEF Conservation
<1> QED
  BY <1>3, <1>6, <1>7, <1>8, <1>9, <1>10, <1>11, <1>12 DEF Conservation, Placed

LEMMA LinkConserves ==
  ASSUME TypeOK, Conservation, NEW w \in Writers, Link(w)
  PROVE  Conservation'
<1>1. w \in Threads /\ free' = free /\ held[w] # NULL /\ held[w] \in Elements
  BY ToLinkFacts DEF Link, Finish
<1>2. Queued' = Queued \cup {held[w]} \cup Hanging(w)
  BY LinkFacts
<1>3. \A i, j \in 1 .. Len(queue') : queue'[i] = queue'[j] => i = j
  BY LinkFacts DEF NoTwice
<1>4. held' = [held EXCEPT ![w] = NULL] /\ held \in [Threads -> Elements \cup {NULL}]
  BY LinkFacts, ToLinkFacts DEF TypeOK
<1>5. NULL \notin free \cup Queued' /\ \A v \in Writers : NULL \notin Hanging(v)
  BY <1>1, <1>2, QueueFacts DEF TypeOK
<1>6. \A v \in Writers : /\ hung'[v] = IF v = w THEN <<>> ELSE hung[v]
                         /\ Hanging(v)' = IF v = w THEN {} ELSE Hanging(v)
  <2>1. \A v \in Writers : hung'[v] = IF v = w THEN <<>> ELSE hung[v]
    BY LinkFacts
  <2> QED
    BY <2>1 DEF Hanging
<1>7. \A x \in Elements : Placed(x) => Placed(x)'
  BY <1>1, <1>2, <1>4, <1>6 DEF Placed
<1>8. /\ free \cap Queued' = {}
      /\ \A t \in Threads : held'[t] \notin free \cup Queued'
      /\ \A t, u \in Threads : held'[t] = held'[u] /\ held'[t] # NULL => t = u
  BY <1>1, <1>2, <1>4, <1>5 DEF Conservation
<1>9. ASSUME NEW v \in Writers
      PROVE  /\ Hanging(v)' \cap (free \cup Queued') = {}
             /\ \A i, j \in 1 .. Len(hung'[v]) : hung'[v][i] = hung'[v][j] => i = j
             /\ \A t \in Threads : held'[t] \notin Hanging(v)'
             /\ \A x \in Writers : x # v => Hanging(v)' \cap Hanging(x)' = {}
  BY <1>1, <1>2, <1>4, <1>5, <1>6 DEF Conservation
<1>10. \A x \in Elements : Placed(x)'
  BY <1>7 DEF Conservation, Placed
<1> QED
  BY <1>1, <1>3, <1>8, <1>9, <1>10 DEF Conservation, Placed

LEMMA TornConserves ==
  ASSUME TypeOK, Conservation, NEW w \in Writers, NEW u \in Writers, LinkTorn(w, u)
  PROVE  Conservation'
<1>1. /\ w \in Threads /\ free' = free /\ queue' = queue /\ Queued' = Queued
      /\ held[w] # NULL /\ held[w] \in Elements
  BY ToLinkFacts, TornFacts DEF LinkTorn, Finish, Queued
<1>2. held' = [held EXCEPT ![w] = NULL] /\ held \in [Threads -> Elements \cup {NULL}]
  BY TornFacts, ToLinkFacts DEF TypeOK
<1>3. \A i, j \in 1 .. Len(hung'[u]) : hung'[u][i] = hung'[u][j] => i = j
  BY TornFacts, ToLinkFacts DEF NoTwice
<1>4. Hanging(u)' = {held[w]} \cup Hanging(w)
  <2>1. Hanging(u)' = Members(hung'[u])
    BY DEF Hanging, Members
  <2> QED
    BY <2>1, TornFacts, ToLinkFacts
<1>5. Hanging(w)' = {} /\ Hanging(u) = {} /\ Len(hung'[w]) = 0
  BY TornFacts DEF Hanging
<1>6. \A v \in Writers : v # w /\ v # u => Hanging(v)' = Hanging(v) /\ hung'[v] = hung[v]
  BY TornFacts DEF Hanging
<1>7. \A x \in Elements : Placed(x) => Placed(x)'
  BY <1>1, <1>2, <1>4, <1>5, <1>6 DEF Placed
<1>8. /\ \A t \in Threads : held'[t] \notin free \cup Queued
      /\ \A t, v \in Threads : held'[t] = held'[v] /\ held'[t] # NULL => t = v
  BY <1>1, <1>2, QueueFacts DEF Conservation, TypeOK
<1>9. \A v \in Writers : NULL \notin Hanging(v)
  BY QueueFacts
<1>10. ASSUME NEW v \in Writers
       PROVE  Hanging(v)' \cap (free \cup Queued) = {}
  BY <1>1, <1>4, <1>5, <1>6 DEF Conservation
<1>11. ASSUME NEW v \in Writers, NEW i \in 1 .. Len(hung'[v]), NEW j \in 1 .. Len(hung'[v]),
              hung'[v][i] = hung'[v][j]
       PROVE  i = j
  BY <1>3, <1>5, <1>6, <1>11 DEF Conservation
<1>12. ASSUME NEW v \in Writers, NEW t \in Threads PROVE held'[t] \notin Hanging(v)'
  BY <1>1, <1>2, <1>4, <1>5, <1>6, <1>9 DEF Conservation
<1>13. ASSUME NEW v \in Writers, NEW x \in Writers, x # v
       PROVE  Hanging(v)' \cap Hanging(x)' = {}
  BY <1>1, <1>4, <1>5, <1>6, <1>13 DEF Conservation
<1>14. \A x \in Elements : Placed(x)'
  BY <1>7 DEF Conservation, Placed
<1>15. \A i, j \in 1 .. Len(queue') : queue'[i] = queue'[j] => i = j
  BY <1>1 DEF Conservation
<1>16. free' \cap Queued' = {}
  BY <1>1 DEF Conservation
<1> QED
  BY <1>1, <1>8, <1>10, <1>11, <1>12, <1>13, <1>14, <1>15, <1>16 DEF Conservation, Placed

LEMMA PopConserves ==
  ASSUME TypeOK, Conservation, NEW t \in Threads, held[t] = NULL,
         NEW e \in free, Hold(t, e), free' = free \ {e}, UNCHANGED <<queue, hung>>
  PROVE  Conservation'
<1>1. e \in Elements /\ e # NULL /\ Queued' = Queued
  BY QueueFacts DEF TypeOK, Queued
<1>2. held' = [held EXCEPT ![t] = e] /\ held \in [Threads -> Elements \cup {NULL}]
  BY DEF Hold, TypeOK
<1>3. \A x \in Elements : Placed(x) => Placed(x)'
  <2>1. held'[t] = e
    BY <1>2
  <2>2. \A u \in Threads : held[u] # NULL => held'[u] = held[u]
    BY <1>2
  <2> QED
    BY <1>1, <2>1, <2>2, QueueFacts DEF Placed, Hanging
<1>4. \A u \in Threads : held'[u] \notin free' \cup Queued'
  BY <1>1, <1>2 DEF Conservation
<1>5. \A u, v \in Threads : held'[u] = held'[v] /\ held'[u] # NULL => u = v
  BY <1>1, <1>2 DEF Conservation
<1>6. free' \cap Queued' = {}
  BY <1>1 DEF Conservation
<1>7. \A w \in Writers : /\ Hanging(w) \cap (free' \cup Queued) = {}
                         /\ \A u \in Threads : held'[u] \notin Hanging(w)
  BY <1>1, <1>2, QueueFacts DEF Conservation
<1>8. \A w \in Writers : Hanging(w)' = Hanging(w) /\ hung'[w] = hung[w]
  BY DEF Hanging
<1>9. \A x \in Elements : Placed(x)'
  BY <1>3 DEF Conservation, Placed
<1>10. \A i, j \in 1 .. Len(queue') : queue'[i] = queue'[j] => i = j
  BY DEF Conservation
<1> QED
  BY <1>1, <1>4, <1>5, <1>6, <1>7, <1>8, <1>9, <1>10 DEF Conservation, Placed

LEMMA ReleaseConserves ==
  ASSUME TypeOK, Conservation, NEW t \in Threads, held[t] # NULL,
         Hold(t, NULL), free' = free \cup {held[t]}, UNCHANGED <<queue, hung>>
  PROVE  Conservation'
<1>1. Queued' = Queued /\ NULL \notin free' \cup Queued
  BY QueueFacts DEF TypeOK, Queued
<1>2. held' = [held EXCEPT ![t] = NULL] /\ held \in [Threads -> Elements \cup {NULL}]
  BY DEF Hold, TypeOK
<1>3. \A x \in Elements : Placed(x) => Placed(x)'
  BY <1>1, <1>2 DEF Placed, Hanging
<1>4. \A u \in Threads : held'[u] \notin free' \cup Queued'
  BY <1>1, <1>2 DEF Conservation
<1>5. \A u, v \in Threads : held'[u] = held'[v] /\ held'[u] # NULL => u = v
  BY <1>2 DEF Conservation
<1>6. free' \cap Queued' = {}
  BY <1>1 DEF Conservation
<1>7. \A w \in Writers : /\ Hanging(w) \cap (free' \cup Queued) = {}
                         /\ \A u \in Threads : held'[u] \notin Hanging(w)
  BY <1>1, <1>2, QueueFacts DEF Conservation
<1>8. \A w \in Writers : Hanging(w)' = Hanging(w) /\ hung'[w] = hung[w]
  BY DEF Hanging
<1>9. \A x \in Elements : Placed(x)'
  BY <1>3 DEF Conservation, Placed
<1>10. \A i, j \in 1 .. Len(queue') : queue'[i] = queue'[j] => i = j
  BY DEF Conservation
<1> QED
  BY <1>1, <1>4, <1>5, <1>6, <1>7, <1>8, <1>9, <1>10 DEF Conservation, Placed

-----------------------------------------------------------------------------
(***************************************************************************)
(* Queue elements: every element that is free, or in the hands of a thread *)
(* that settled, leaves one queue element unused.                          *)
(***************************************************************************)
QueueElementsInv == qfree = Cardinality(free) + Cardinality(Settled)

LEMMA Finite ==
  ASSUME TypeOK
  PROVE  /\ IsFiniteSet(free) /\ Cardinality(free) \in Nat
         /\ IsFiniteSet(Settled) /\ Cardinality(Settled) \in Nat
<1>1. IsFiniteSet(Elements) /\ free \in SUBSET Elements
  BY FS_Interval, SizeAssumption DEF Elements, TypeOK
<1>2. Settled \in SUBSET Threads
  BY DEF Settled
<1>3. IsFiniteSet(free) /\ IsFiniteSet(Settled)
  BY <1>1, <1>2, FS_Subset, ThreadsAssumption
<1> QED
  BY <1>3, FS_CardinalityType

(* A writer that is about to put an element has settled.                   *)
LEMMA PutReady == TypeOK /\ QueueElementsInv => PutNeverFails
<1> SUFFICES ASSUME TypeOK, QueueElementsInv, NEW w \in Writers, pc[w] = "put"
             PROVE  qfree > 0
  BY DEF PutNeverFails
<1>1. w \in Settled
  BY DEF Settled, SettledLocs, Threads
<1>2. Cardinality(Settled) # 0
  BY <1>1, Finite, FS_EmptySet
<1> QED
  BY <1>2, Finite DEF QueueElementsInv

(* The step of a thread changes the number of settled threads by its own.  *)
LEMMA SettledStep ==
  ASSUME TypeOK, NEW t \in Threads, \E b : pc' = [pc EXCEPT ![t] = b]
  PROVE  /\ pc[t] \notin SettledLocs /\ pc'[t] \in SettledLocs
              => Cardinality(Settled') = Cardinality(Settled) + 1
         /\ pc[t] \in SettledLocs /\ pc'[t] \notin SettledLocs
              => Cardinality(Settled') = Cardinality(Settled) - 1
         /\ (pc[t] \in SettledLocs <=> pc'[t] \in SettledLocs)
              => Cardinality(Settled') = Cardinality(Settled)
<1>1. \A u \in Threads : u # t => pc'[u] = pc[u]
  BY DEF TypeOK
<1>2. t \in Settled <=> pc[t] \in SettledLocs
  BY DEF Settled
<1>3. Settled' = IF pc'[t] \in SettledLocs THEN Settled \cup {t} ELSE Settled \ {t}
  BY <1>1 DEF Settled
<1> QED
  BY <1>2, <1>3, Finite, FS_AddElement, FS_RemoveElement

LEMMA QueueElementsStep ==
  ASSUME TypeOK, Conservation, QueueElementsInv, [Next]_vars
  PROVE  QueueElementsInv'
<1> USE DEF SettledLocs, Goto
<1>1. CASE UNCHANGED vars
  BY <1>1 DEF vars, callVars, QueueElementsInv, Settled
<1>2. ASSUME NEW w \in Writers, WriteBegin(w) \/ WriteStep(w)
      PROVE  QueueElementsInv'
  <2>1. w \in Threads /\ w \notin Readers
    BY ThreadsAssumption DEF Threads
  <2>2. ASSUME \/ WriteBegin(w) \/ FreeEmpty(w) \/ Steal(w) \/ StealNothing(w)
               \/ CheckFlag(w) \/ LoadOverruns(w) \/ StoreOverruns(w)
               \/ Fill(w) \/ Finish(w)
        PROVE  QueueElementsInv'
    <3>1. /\ UNCHANGED <<free, qfree>>
          /\ \E b : pc' = [pc EXCEPT ![w] = b]
          /\ pc[w] \in SettledLocs <=> pc'[w] \in SettledLocs
      BY <2>1, <2>2
      DEF TypeOK, WriteBegin, FreeEmpty, Steal, StealNothing, CheckFlag,
          LoadOverruns, StoreOverruns, Fill, Finish
    <3> QED
      BY <3>1, <2>1, SettledStep DEF QueueElementsInv
  <2>3. CASE PopFree(w)
    <3>1. Cardinality(Settled') = Cardinality(Settled) + 1
      BY <2>1, <2>3, SettledStep DEF PopFree, TypeOK
    <3>2. Cardinality(free') = Cardinality(free) - 1
      BY <2>3, Finite, FS_RemoveElement DEF PopFree
    <3> QED
      BY <2>3, <3>1, <3>2, Finite DEF PopFree, QueueElementsInv
  <2>4. CASE Recycle(w)
    <3>1. Cardinality(Settled') = Cardinality(Settled) + 1
      BY <2>1, <2>4, SettledStep DEF Recycle, TypeOK
    <3> QED
      BY <2>4, <3>1, Finite DEF Recycle, QueueElementsInv
  <2>5. CASE Put(w)
    <3>1. Cardinality(Settled') = Cardinality(Settled) - 1
      BY <2>1, <2>5, SettledStep DEF Put, TypeOK
    <3>2. qfree > 0
      BY <2>5, PutReady DEF Put, PutNeverFails
    <3> QED
      BY <2>5, <3>1, <3>2, Finite DEF Put, QueueElementsInv
  <2> QED
    BY <1>2, <2>2, <2>3, <2>4, <2>5 DEF WriteStep, Link, LinkTorn
<1>3. ASSUME NEW r \in Readers, Read(r) \/ ReadStep(r)
      PROVE  QueueElementsInv'
  <2>1. r \in Threads /\ r \notin Writers
    BY ThreadsAssumption DEF Threads
  <2>2. CASE Read(r) \/ Copy(r)
    <3>1. /\ UNCHANGED <<free, qfree>>
          /\ Cardinality(Settled') = Cardinality(Settled)
      BY <2>1, <2>2, SettledStep DEF TypeOK, Read, Copy
    <3> QED
      BY <3>1 DEF QueueElementsInv
  <2>3. CASE Recycle(r)
    <3>1. Cardinality(Settled') = Cardinality(Settled) + 1
      BY <2>1, <2>3, SettledStep DEF Recycle, TypeOK
    <3> QED
      BY <2>3, <3>1, Finite DEF Recycle, QueueElementsInv
  <2>4. CASE Release(r)
    <3>1. Cardinality(Settled') = Cardinality(Settled) - 1
      BY <2>1, <2>4, SettledStep DEF Release, TypeOK
    <3>2. held[r] \notin free
      BY <2>1 DEF Conservation
    <3>3. Cardinality(free') = Cardinality(free) + 1
      BY <2>4, <3>2, Finite, FS_AddElement DEF Release
    <3> QED
      BY <2>4, <3>1, <3>3, Finite DEF Release, QueueElementsInv
  <2> QED
    BY <1>3, <2>2, <2>3, <2>4 DEF ReadStep
<1> QED
  BY <1>1, <1>2, <1>3 DEF Next

LEMMA ConservationStep ==
  ASSUME TypeOK, Conservation, QueueElementsInv, [Next]_vars
  PROVE  Conservation'
<1>1. ASSUME UNCHANGED <<free, queue, held, hung>> PROVE Conservation'
  <2>1. Queued' = Queued /\ \A w \in Writers : Hanging(w)' = Hanging(w)
    BY <1>1 DEF Queued, Hanging
  <2> QED
    BY <1>1, <2>1 DEF Conservation
<1>2. ASSUME NEW w \in Writers, WriteBegin(w) \/ WriteStep(w)
      PROVE  Conservation'
  <2>1. w \in Threads /\ (held[w] = NULL <=> pc[w] \in {"idle", "pop", "steal"})
    BY DEF Threads, TypeOK
  <2>2. CASE PopFree(w)
    BY <2>1, <2>2, PopConserves DEF PopFree, Goto, linkVars
  <2>3. CASE Steal(w)
    BY <2>1, <2>3, DequeueConserves DEF Steal, Goto, linkVars
  <2>4. CASE Put(w)
    <3>1. UNCHANGED <<free, queue, hung>> /\ held' = [held EXCEPT ![w] = held[w]]
      BY <2>4, PutReady DEF Put, PutNeverFails, Hold, Goto
    <3> QED
      BY <3>1, <1>1 DEF TypeOK
  <2>5. CASE Link(w)
    BY <2>5, LinkConserves
  <2>6. CASE \E u \in Writers : LinkTorn(w, u)
    BY <2>6, TornConserves
  <2> QED
    BY <1>1, <1>2, <2>2, <2>3, <2>4, <2>5, <2>6
    DEF WriteStep, WriteBegin, FreeEmpty, StealNothing, Recycle, CheckFlag,
        LoadOverruns, StoreOverruns, Fill, linkVars
<1>3. ASSUME NEW r \in Readers, Read(r) \/ ReadStep(r)
      PROVE  Conservation'
  <2>1. r \in Threads /\ (held[r] = NULL <=> pc[r] \in {"idle", "pop", "steal"})
    BY DEF Threads, TypeOK
  <2>2. CASE Read(r)
    BY <2>1, <2>2, DequeueConserves DEF Read, Goto, linkVars
  <2>3. CASE Release(r)
    BY <2>1, <2>3, ReleaseConserves DEF Release, Goto, linkVars
  <2> QED
    BY <1>1, <1>3, <2>2, <2>3 DEF ReadStep, Recycle, Copy, linkVars
<1> QED
  BY <1>1, <1>2, <1>3 DEF Next, vars, callVars, linkVars

-----------------------------------------------------------------------------
(***************************************************************************)
(* What a reader can see, or reads, is never written.                      *)
(***************************************************************************)
LEMMA DataStable ==
  ASSUME TypeOK, Conservation, [Next]_vars
  PROVE  /\ \A i \in 1 .. Len(queue) : data'[queue[i]] = data[queue[i]]
         /\ \A r \in Readers : held[r] # NULL => data'[held[r]] = data[held[r]]
         /\ \A w \in Writers : held[w] # NULL /\ pc[w] # "fill"
                              => data'[held[w]] = data[held[w]]
         /\ \A v \in Writers : \A i \in 1 .. Len(hung[v]) : data'[hung[v][i]] = data[hung[v][i]]
<1>1. ASSUME NEW w \in Writers, Fill(w)
      PROVE  /\ data' = [data EXCEPT ![held[w]] = msg[w]]
             /\ \A i \in 1 .. Len(queue) : queue[i] # held[w]
             /\ \A v \in Writers : \A i \in 1 .. Len(hung[v]) : hung[v][i] # held[w]
             /\ \A t \in Threads : t # w /\ held[t] # NULL => held[t] # held[w]
             /\ w \notin Readers /\ pc[w] = "fill"
  BY <1>1, ThreadsAssumption DEF Fill, Goto, Conservation, Queued, Hanging, Threads
<1>2. CASE \E w \in Writers : Fill(w)
  <2>1. PICK w \in Writers : Fill(w)
    BY <1>2
  <2> QED
    BY <2>1, <1>1, QueueFacts DEF TypeOK, Threads
<1>3. CASE ~ \E w \in Writers : Fill(w)
  <2>1. data' = data
    BY <1>3 DEF Next, vars, WriteStep, ReadStep, WriteBegin, PopFree, FreeEmpty,
       Steal, StealNothing, Recycle, CheckFlag, LoadOverruns, StoreOverruns,
       Put, Link, LinkTorn, Finish, Read, Copy, Release
  <2> QED
    BY <2>1
<1> QED
  BY <1>2, <1>3

-----------------------------------------------------------------------------
(***************************************************************************)
(* The newest message.                                                     *)
(***************************************************************************)
Hidden == \E w \in Writers : hung[w] # <<>> /\ data[hung[w][Len(hung[w])]] = newest

LEMMA NewestStep ==
  ASSUME TypeOK, Conservation, QueueElementsInv, NewestKept, [Next]_vars
  PROVE  NewestKept'
<1> USE DEF Goto
<1>1. ASSUME UNCHANGED <<queue, newest, hung>>,
             \A v \in Writers : Writing(v) /\ ret[v] => Writing(v)' /\ ret'[v]
      PROVE  NewestKept'
  <2>1. CASE queue # <<>> /\ data[queue[Len(queue)]] = newest
    <3>1. Len(queue) \in 1 .. Len(queue)
      BY <2>1, QueueFacts, EmptySeq DEF TypeOK
    <3> QED
      BY <1>1, <2>1, <3>1, DataStable DEF NewestKept
  <2>2. ASSUME NEW w \in Writers, hung[w] # <<>>, data[hung[w][Len(hung[w])]] = newest
        PROVE  NewestKept'
    <3>1. Len(hung[w]) \in 1 .. Len(hung[w])
      BY <2>2, QueueFacts, EmptySeq
    <3>2. data'[hung[w][Len(hung[w])]] = data[hung[w][Len(hung[w])]]
      BY <3>1, DataStable
    <3> QED
      BY <1>1, <2>2, <3>2 DEF NewestKept
  <2>3. CASE newest = NoMsg \/ \E w \in Writers : Writing(w) /\ ret[w]
    BY <1>1, <2>3 DEF NewestKept
  <2> QED
    BY <2>1, <2>2, <2>3 DEF NewestKept
<1>2. ASSUME NEW w \in Writers, WriteBegin(w) \/ WriteStep(w)
      PROVE  NewestKept'
  <2>1. w \in Threads
    BY DEF Threads
  <2>2. CASE Steal(w)
    <3>1. Writing(w)' /\ ret'[w]
      BY <2>1, <2>2, ThreadsAssumption DEF Steal, Writing, TypeOK
    <3> QED
      BY <3>1 DEF NewestKept
  <2>3. CASE Link(w)
    <3>1. data' = data /\ newest' = data[Behind(w)[Len(Behind(w))]]
      BY <2>3, LinkFacts, ToLinkFacts DEF Finish
    <3>2. /\ Len(Behind(w)) \in 1 .. Len(Behind(w))
          /\ Len(queue') = Len(queue) + Len(Behind(w)) /\ Len(queue') # 0
      BY <2>3, LinkFacts, ToLinkFacts, QueueFacts
    <3>3. queue'[Len(queue')] = Behind(w)[Len(Behind(w))] /\ queue' # <<>>
      BY <2>3, <3>2, LinkFacts, EmptySeq
    <3> QED
      BY <3>1, <3>3 DEF NewestKept
  <2>7. ASSUME NEW u \in Writers, LinkTorn(w, u) PROVE NewestKept'
    <3>1. data' = data /\ newest' = data[Behind(w)[Len(Behind(w))]]
      BY <2>7, TornFacts, ToLinkFacts DEF Finish
    <3>2. hung'[u] = Behind(w) /\ Behind(w) # <<>>
      BY <2>7, TornFacts, ToLinkFacts, EmptySeq
    <3> QED
      BY <3>1, <3>2 DEF NewestKept
  <2>4. CASE Put(w)
    <3>1. UNCHANGED <<queue, newest, ret, hung>> /\ pc' = [pc EXCEPT ![w] = "link"]
      BY <2>4, PutReady DEF Put, PutNeverFails, histVars
    <3>2. \A v \in Writers : Writing(v) => Writing(v)'
      BY <2>1, <3>1 DEF TypeOK, Threads, Writing
    <3> QED
      BY <1>1, <3>1, <3>2
  <2>5. CASE PopFree(w) \/ FreeEmpty(w) \/ StealNothing(w) \/ WriteBegin(w)
    <3>1. UNCHANGED <<queue, newest, hung>>
      BY <2>5 DEF PopFree, FreeEmpty, StealNothing, WriteBegin, histVars, linkVars
    <3>2. \A v \in Writers : v # w => pc'[v] = pc[v] /\ ret'[v] = ret[v]
      BY <2>5 DEF PopFree, FreeEmpty, StealNothing, WriteBegin, TypeOK, Threads
    <3>3. ~ Writing(w)
      BY <2>5 DEF PopFree, FreeEmpty, StealNothing, WriteBegin, Writing
    <3> QED
      BY <1>1, <3>1, <3>2, <3>3 DEF Writing
  <2>6. CASE Recycle(w) \/ CheckFlag(w) \/ LoadOverruns(w) \/ StoreOverruns(w) \/ Fill(w)
    <3>1. UNCHANGED <<queue, newest, ret, hung>>
      BY <2>6
      DEF Recycle, CheckFlag, LoadOverruns, StoreOverruns, Fill, histVars, linkVars
    <3>2. \A v \in Writers : Writing(v) => Writing(v)'
      BY <2>1, <2>6 DEF Recycle, CheckFlag, LoadOverruns, StoreOverruns, Fill,
         TypeOK, Threads, Writing
    <3> QED
      BY <1>1, <3>1, <3>2
  <2> QED
    BY <1>2, <2>2, <2>3, <2>4, <2>5, <2>6, <2>7 DEF WriteStep
<1>3. ASSUME NEW r \in Readers, Read(r) \/ ReadStep(r)
      PROVE  NewestKept'
  <2>1. r \in Threads /\ r \notin Writers
    BY ThreadsAssumption DEF Threads
  <2>2. \A v \in Writers : Writing(v) /\ ret[v] => Writing(v)' /\ ret'[v]
    BY <2>1, <1>3
    DEF ReadStep, Read, Recycle, Copy, Release, Writing, TypeOK, Threads
  <2>3. CASE Read(r)
    <3>0. hung' = hung /\ \A w \in Writers :
            hung[w] # <<>> => Len(hung[w]) \in 1 .. Len(hung[w])
      BY <2>3, QueueFacts, EmptySeq DEF Read, linkVars
    <3>1. data' = data /\ newest' = IF data[queue[1]] = newest THEN NoMsg ELSE newest
      BY <2>3, DequeueFacts, <2>1 DEF Read
    <3>2. CASE Len(queue) = 1
      <4>1. \/ newest' = NoMsg
            \/ \E w \in Writers : Writing(w) /\ ret[w]
            \/ newest' = newest /\ Hidden
        BY <3>1, <3>2 DEF NewestKept, Hidden
      <4>2. CASE newest' = newest /\ Hidden
        BY <3>0, <3>1, <4>2 DEF NewestKept, Hidden
      <4> QED
        BY <2>2, <4>1, <4>2 DEF NewestKept
    <3>3. CASE Len(queue) > 1
      <4>1. queue' # <<>> /\ queue'[Len(queue')] = queue[Len(queue)]
        <5>1. Dequeue(r) /\ Len(queue) \in Nat
          BY <2>3, QueueFacts DEF Read
        <5>2. /\ Len(queue') = Len(queue) - 1
              /\ \A i \in 1 .. Len(queue') : queue'[i] = queue[i + 1]
          BY <2>1, <5>1, DequeueFacts
        <5>3. /\ Len(queue') \in 1 .. Len(queue') /\ Len(queue') + 1 = Len(queue)
              /\ Len(queue') # 0
          BY <3>3, <5>1, <5>2
        <5> QED
          BY <5>2, <5>3
      <4>2. CASE newest' = NoMsg
        BY <4>2 DEF NewestKept
      <4>3. CASE newest' = newest /\ newest = data[queue[Len(queue)]]
        BY <3>1, <4>1, <4>3 DEF NewestKept
      <4>4. CASE \E w \in Writers : Writing(w) /\ ret[w]
        BY <2>2, <4>4 DEF NewestKept
      <4>5. CASE newest' = newest /\ Hidden
        BY <3>0, <3>1, <4>5 DEF NewestKept, Hidden
      <4> QED
        BY <3>1, <4>2, <4>3, <4>4, <4>5 DEF NewestKept, Hidden
    <3>4. Len(queue) \in Nat /\ Len(queue) > 0
      BY <2>1, <2>3, DequeueFacts, QueueFacts DEF Read
    <3>5. \A n \in Nat : n > 0 => n = 1 \/ n > 1
      OBVIOUS
    <3> QED
      BY <3>2, <3>3, <3>4, <3>5
  <2>4. CASE ReadStep(r)
    BY <1>1, <2>2, <2>4 DEF ReadStep, Recycle, Copy, Release, histVars, linkVars
  <2> QED
    BY <1>3, <2>3, <2>4
<1>4. CASE UNCHANGED vars
  BY <1>1, <1>4 DEF vars, callVars, histVars, linkVars, Writing
<1> QED
  BY <1>2, <1>3, <1>4 DEF Next

-----------------------------------------------------------------------------
(***************************************************************************)
(* The overruns. A writer is pending from taking a message away until it   *)
(* has stored the new count.                                               *)
(***************************************************************************)
PendingLocs == {"recycle", "flag", "count", "store"}
Pending     == {w \in Writers : pc[w] \in PendingLocs /\ ret[w]}

LossInv ==
  /\ \A w \in Writers : pc[w] \in {"recycle", "count", "store"} => ret[w]
  /\ overruns + Cardinality(Pending) <= drops
  /\ \A w \in Writers : pc[w] = "store" => tmp[w] + Cardinality(Pending) <= drops
  /\ overruns = 0 => drops = Cardinality(Pending)

LEMMA PendingFinite == IsFiniteSet(Pending) /\ Cardinality(Pending) \in Nat
<1>1. Pending \in SUBSET Threads
  BY DEF Pending, Threads
<1> QED
  BY <1>1, ThreadsAssumption, FS_Subset, FS_CardinalityType

LEMMA LossFollows == TypeOK /\ LossInv => LossNoticed
<1> SUFFICES ASSUME TypeOK, LossInv PROVE LossNoticed
  OBVIOUS
<1>1. overruns <= drops
  BY PendingFinite DEF TypeOK, LossInv
<1>2. ASSUME drops > 0, overruns = 0
      PROVE  \E w \in Writers : pc[w] \in PendingLocs /\ ret[w]
  <2>1. Cardinality(Pending) # 0
    BY <1>2 DEF LossInv
  <2>2. Pending # {}
    BY <2>1, FS_EmptySet
  <2> QED
    BY <2>2 DEF Pending
<1> QED
  BY <1>1, <1>2 DEF LossNoticed, PendingLocs

LEMMA LossStep ==
  ASSUME TypeOK, LossInv, [Next]_vars
  PROVE  LossInv'
<1> USE DEF Goto, PendingLocs
<1>1. ASSUME UNCHANGED <<overruns, drops, tmp>>, Pending' = Pending,
             \A w \in Writers : pc'[w] \in {"recycle", "count", "store"} => ret'[w],
             \A w \in Writers : pc'[w] = "store" => pc[w] = "store"
      PROVE  LossInv'
  BY <1>1 DEF LossInv
<1>2. ASSUME NEW w \in Writers, WriteBegin(w) \/ WriteStep(w)
      PROVE  LossInv'
  <2>1. w \in Threads
    BY DEF Threads
  <2>2. CASE Steal(w)
    <3>1. w \notin Pending /\ Pending' = Pending \cup {w}
      BY <2>1, <2>2 DEF Steal, Pending, TypeOK, Threads
    <3>2. Cardinality(Pending') = Cardinality(Pending) + 1
      BY <3>1, PendingFinite, FS_AddElement
    <3>3. /\ drops' = drops + 1 /\ UNCHANGED <<overruns, tmp>>
          /\ ret' = [ret EXCEPT ![w] = TRUE] /\ pc' = [pc EXCEPT ![w] = "recycle"]
      BY <2>2 DEF Steal
    <3> QED
      BY <2>1, <3>2, <3>3, PendingFinite DEF LossInv, TypeOK, Threads
  <2>3. CASE LoadOverruns(w)
    <3>1. Pending' = Pending
      BY <2>1, <2>3 DEF LoadOverruns, Pending, TypeOK, Threads
    <3>2. /\ UNCHANGED <<overruns, drops, ret>> /\ tmp' = [tmp EXCEPT ![w] = overruns]
          /\ pc' = [pc EXCEPT ![w] = "store"] /\ pc[w] = "count"
      BY <2>3 DEF LoadOverruns, histVars
    <3> QED
      BY <2>1, <3>1, <3>2, PendingFinite DEF LossInv, TypeOK, Threads
  <2>4. CASE StoreOverruns(w)
    <3>1. w \in Pending /\ Pending' = Pending \ {w}
      BY <2>1, <2>4 DEF StoreOverruns, Pending, LossInv, TypeOK, Threads
    <3>2. Cardinality(Pending') = Cardinality(Pending) - 1
      BY <3>1, PendingFinite, FS_RemoveElement
    <3>3. /\ UNCHANGED <<drops, tmp, ret>> /\ overruns' = tmp[w] + 1
          /\ pc' = [pc EXCEPT ![w] = "fill"] /\ pc[w] = "store"
      BY <2>4 DEF StoreOverruns, histVars
    <3>4. /\ tmp[w] + 1 + Cardinality(Pending') <= drops
          /\ overruns' # 0
      BY <3>2, <3>3, PendingFinite DEF LossInv, TypeOK
    <3>5. \A v \in Writers : pc'[v] = "store" =>
             pc[v] = "store" /\ tmp[v] + Cardinality(Pending') <= drops
      BY <2>1, <3>2, <3>3, PendingFinite DEF LossInv, TypeOK, Threads
    <3> QED
      BY <2>1, <3>3, <3>4, <3>5 DEF LossInv, TypeOK, Threads
  <2>5. CASE WriteBegin(w) \/ PopFree(w) \/ FreeEmpty(w) \/ StealNothing(w)
             \/ Recycle(w) \/ CheckFlag(w) \/ Fill(w) \/ Put(w) \/ Finish(w)
    <3>1. /\ UNCHANGED <<overruns, drops, tmp>>
          /\ \A v \in Writers : v # w => pc'[v] = pc[v] /\ ret'[v] = ret[v]
          /\ pc'[w] \in {"recycle", "count", "store"} => ret'[w] /\ pc'[w] # "store"
          /\ pc'[w] \in PendingLocs /\ ret'[w] <=> pc[w] \in PendingLocs /\ ret[w]
      BY <2>1, <2>5
      DEF WriteBegin, PopFree, FreeEmpty, StealNothing, Recycle, CheckFlag, Fill,
          Put, Finish, LossInv, TypeOK, Threads, histVars
    <3>2. Pending' = Pending
      BY <3>1 DEF Pending
    <3> QED
      BY <1>1, <3>1, <3>2 DEF LossInv
  <2> QED
    BY <1>2, <2>2, <2>3, <2>4, <2>5 DEF WriteStep, Link, LinkTorn
<1>3. ASSUME NEW r \in Readers, Read(r) \/ ReadStep(r)
      PROVE  LossInv'
  <2>1. /\ UNCHANGED <<overruns, drops, tmp, ret>>
        /\ \A v \in Writers : pc'[v] = pc[v]
    BY <1>3, ThreadsAssumption
    DEF Read, ReadStep, Recycle, Copy, Release, TypeOK, Threads, histVars
  <2> QED
    BY <1>1, <2>1 DEF Pending, LossInv
<1>4. CASE UNCHANGED vars
  BY <1>1, <1>4 DEF vars, callVars, histVars, Pending, LossInv
<1> QED
  BY <1>2, <1>3, <1>4 DEF Next

-----------------------------------------------------------------------------
(***************************************************************************)
(* The order of messages, with one writer. LastNr(w) numbers the last      *)
(* message of w that was queued; everything that readers can see, take or  *)
(* took is not younger.                                                    *)
(***************************************************************************)
SingleWriter == \E w \in Writers : Writers = {w}
LastNr(w)    == IF pc[w] = "idle" THEN written[w] ELSE written[w] - 1
Known(m)     == m \in Msgs /\ m.nr <= LastNr(m.from)
Before(m, n) == m.from = n.from => m.nr < n.nr
InHand(r)    == pc[r] \in {"recycle", "copy"}

CallInv ==
  /\ \A w \in Writers : pc[w] # "idle" => msg[w] = [from |-> w, nr |-> written[w]]
  /\ \A w \in Writers : pc[w] \in {"put", "link"} => data[held[w]] = msg[w]

OrderInv ==
  /\ \A i \in 1 .. Len(queue) : Known(data[queue[i]])
  /\ \A r \in Readers : InHand(r) => Known(data[held[r]])
  /\ \A r \in Readers : got[r] # NoMsg => Known(got[r])
  /\ \A i, j \in 1 .. Len(queue) : i < j => Before(data[queue[i]], data[queue[j]])
  /\ \A r \in Readers, i \in 1 .. Len(queue) :
       InHand(r) => Before(data[held[r]], data[queue[i]])
  /\ \A r \in Readers, i \in 1 .. Len(queue) :
       got[r] # NoMsg => Before(got[r], data[queue[i]])
  /\ \A r \in Readers :
       InHand(r) /\ got[r] # NoMsg => Before(got[r], data[held[r]])

LEMMA CallStep ==
  ASSUME TypeOK, Conservation, QueueElementsInv, CallInv, [Next]_vars
  PROVE  CallInv'
<1> USE DEF Goto
<1>1. ASSUME NEW w \in Writers, WriteBegin(w) \/ WriteStep(w),
             NEW v \in Writers, v # w
      PROVE  UNCHANGED <<pc[v], held[v], msg[v], written[v]>>
  BY <1>1 DEF WriteStep, WriteBegin, PopFree, FreeEmpty, Steal, StealNothing,
     Recycle, CheckFlag, LoadOverruns, StoreOverruns, Fill, Put, Link, LinkTorn, Finish,
     Dequeue, Hold, TypeOK, Threads, histVars
<1>2. ASSUME NEW v \in Writers, UNCHANGED <<pc[v], held[v], msg[v], written[v]>>
      PROVE  /\ pc'[v] # "idle" => msg'[v] = [from |-> v, nr |-> written'[v]]
             /\ pc'[v] \in {"put", "link"} => data'[held'[v]] = msg'[v]
  BY <1>2, DataStable DEF CallInv, TypeOK, Threads
<1>3. ASSUME NEW w \in Writers, WriteBegin(w) \/ WriteStep(w)
      PROVE  /\ pc'[w] # "idle" => msg'[w] = [from |-> w, nr |-> written'[w]]
             /\ pc'[w] \in {"put", "link"} => data'[held'[w]] = msg'[w]
  <2>1. w \in Threads
    BY DEF Threads
  <2>2. CASE WriteBegin(w)
    BY <2>1, <2>2 DEF WriteBegin, TypeOK
  <2>3. CASE Fill(w)
    <3>1. held[w] \in Elements
      BY <2>1, <2>3 DEF Fill, TypeOK
    <3> QED
      BY <2>1, <2>3, <3>1 DEF Fill, TypeOK, CallInv, histVars
  <2>4. CASE Put(w)
    BY <2>1, <2>4, PutReady
    DEF Put, PutNeverFails, Hold, TypeOK, CallInv, histVars
  <2>5. CASE Finish(w)
    BY <2>1, <2>5 DEF Finish, TypeOK
  <2>6. CASE PopFree(w) \/ FreeEmpty(w) \/ Steal(w) \/ StealNothing(w) \/ Recycle(w)
             \/ CheckFlag(w) \/ LoadOverruns(w) \/ StoreOverruns(w)
    BY <2>1, <2>6, ThreadsAssumption
    DEF PopFree, FreeEmpty, Steal, StealNothing, Recycle,
       CheckFlag, LoadOverruns, StoreOverruns, TypeOK, CallInv, histVars
  <2> QED
    BY <1>3, <2>2, <2>3, <2>4, <2>5, <2>6 DEF WriteStep, Link, LinkTorn
<1>4. ASSUME NEW r \in Readers, Read(r) \/ ReadStep(r), NEW v \in Writers
      PROVE  UNCHANGED <<pc[v], held[v], msg[v], written[v]>>
  BY <1>4, ThreadsAssumption DEF Read, ReadStep, Recycle, Copy, Release,
     Dequeue, Hold, TypeOK, Threads, histVars
<1>5. CASE UNCHANGED vars
  BY <1>5 DEF vars, callVars, histVars, CallInv
<1> QED
  BY <1>1, <1>2, <1>3, <1>4, <1>5 DEF Next, CallInv

(* A step that does not touch what the readers see keeps the order.        *)
LEMMA OrderFrame ==
  ASSUME TypeOK, Conservation, OrderInv, [Next]_vars,
         UNCHANGED <<queue, got>>,
         \A w \in Writers : LastNr(w)' = LastNr(w),
         \A r \in Readers : InHand(r)' => InHand(r) /\ held'[r] = held[r]
  PROVE  OrderInv'
<1>1. \A i \in 1 .. Len(queue) : data'[queue'[i]] = data[queue[i]]
  BY DataStable
<1>2. \A r \in Readers : InHand(r)' => data'[held'[r]] = data[held[r]]
  BY DataStable DEF InHand, TypeOK, Threads
<1>3. \A m : Known(m) => Known(m)'
  BY DEF Known, Msgs
<1> QED
  BY <1>1, <1>2, <1>3 DEF OrderInv, Before


LEMMA Shifted ==
  ASSUME TypeOK, NEW t \in Threads, Dequeue(t), UNCHANGED data
  PROVE  \A i \in 1 .. Len(queue') :
           /\ i \in Nat /\ i + 1 \in 1 .. Len(queue) /\ 1 < i + 1
           /\ data'[queue'[i]] = data[queue[i + 1]]
BY QueueFacts, DequeueFacts

LEMMA OrderLink ==
  ASSUME TypeOK, CallInv, OrderInv, NEW w \in Writers, Link(w), hung[w] = <<>>
  PROVE  OrderInv'
<1>1. /\ data' = data /\ written' = written /\ got' = got
      /\ pc' = [pc EXCEPT ![w] = "idle"] /\ pc[w] = "link"
      /\ w \in Threads /\ w \notin Readers
  BY ThreadsAssumption DEF Link, Finish, Goto, Threads
<1>2. data[held[w]] = [from |-> w, nr |-> written[w]] /\ data[held[w]] \in Msgs
  BY <1>1 DEF CallInv, TypeOK
<1>3. /\ LastNr(w) = written[w] - 1 /\ LastNr(w)' = written[w] /\ written[w] \in Nat
      /\ \A v \in Writers : v # w => LastNr(v)' = LastNr(v)
  BY <1>1 DEF LastNr, TypeOK, Threads
<1>4. \A m : Known(m) => Known(m)' /\ Before(m, data[held[w]])
  BY <1>2, <1>3 DEF Known, Before, Msgs
<1>5. \A m : m = data[held[w]] => Known(m)'
  BY <1>1, <1>2, <1>3 DEF Known
<1>6. \A r \in Readers : (InHand(r)' <=> InHand(r)) /\ held'[r] = held[r]
  BY <1>1, LinkFacts, ToLinkFacts DEF InHand, TypeOK, Threads
<1>7. \A i \in 1 .. Len(queue') :
        \/ i \in 1 .. Len(queue) /\ data'[queue'[i]] = data[queue[i]]
        \/ i = Len(queue) + 1 /\ data'[queue'[i]] = data[held[w]]
  <2>1. Len(Behind(w)) = 1 /\ Behind(w)[1] = held[w]
    <3>1. Len(hung[w]) = 0
      OBVIOUS
    <3>2. Len(Behind(w)) = 1 + Len(hung[w]) /\ Behind(w)[1] = held[w]
      BY LinkFacts, ToLinkFacts
    <3> QED
      BY <3>1, <3>2
  <2>2. \A k \in 1 .. Len(Behind(w)) : k = 1
    BY <2>1
  <2>3. \A i \in 1 .. Len(queue') :
          \/ i \in 1 .. Len(queue) /\ queue'[i] = queue[i]
          \/ \E k \in 1 .. Len(Behind(w)) : i = Len(queue) + k /\ queue'[i] = Behind(w)[k]
    BY LinkFacts
  <2> QED
    BY <1>1, <2>1, <2>2, <2>3
<1>8. \A i, j \in 1 .. Len(queue') : i < j => i \in 1 .. Len(queue)
  <2>1. Len(queue') = Len(queue) + 1
    <3>1. Len(hung[w]) = 0
      OBVIOUS
    <3> QED
      BY <3>1, LinkFacts, ToLinkFacts
  <2> QED
    BY <2>1, QueueFacts
<1>9. \A i \in 1 .. Len(queue') : Known(data[queue[i]])'
  BY <1>4, <1>5, <1>7 DEF OrderInv
<1>10. \A i, j \in 1 .. Len(queue') : i < j => Before(data'[queue'[i]], data'[queue'[j]])
  BY <1>4, <1>7, <1>8 DEF OrderInv
<1>11. ASSUME NEW r \in Readers
       PROVE  /\ InHand(r)' => Known(data[held[r]])'
              /\ got'[r] # NoMsg => Known(got[r])'
              /\ InHand(r)' /\ got'[r] # NoMsg => Before(got'[r], data'[held'[r]])
              /\ \A i \in 1 .. Len(queue') :
                   /\ InHand(r)' => Before(data'[held'[r]], data'[queue'[i]])
                   /\ got'[r] # NoMsg => Before(got'[r], data'[queue'[i]])
  BY <1>1, <1>4, <1>6, <1>7 DEF OrderInv
<1> QED
  BY <1>9, <1>10, <1>11 DEF OrderInv, Before

LEMMA OrderDequeue ==
  ASSUME TypeOK, OrderInv, NEW t \in Threads, Dequeue(t), UNCHANGED <<data, got>>,
         \A w \in Writers : LastNr(w)' = LastNr(w),
         \A r \in Readers : r # t => (InHand(r)' <=> InHand(r)),
         t \in Readers => InHand(t)'
  PROVE  OrderInv'
<1>1. \A m : Known(m) => Known(m)'
  BY DEF Known, Msgs
<1>2. Len(queue) > 0 /\ held' = [held EXCEPT ![t] = queue[1]] /\ held'[t] = queue[1]
  BY DequeueFacts DEF TypeOK
<1>3. 1 \in 1 .. Len(queue)
  BY <1>2, QueueFacts
<1>4. \A i \in 1 .. Len(queue') : Known(data[queue[i]])'
  BY <1>1, Shifted DEF OrderInv
<1>5. \A i, j \in 1 .. Len(queue') : i < j => Before(data'[queue'[i]], data'[queue'[j]])
  <2>1. \A i, j \in 1 .. Len(queue') : i < j => i + 1 < j + 1
    OBVIOUS
  <2> QED
    BY <2>1, Shifted DEF OrderInv
<1>6. ASSUME NEW r \in Readers, r # t
      PROVE  /\ InHand(r)' => Known(data[held[r]])'
             /\ InHand(r)' /\ got'[r] # NoMsg => Before(got'[r], data'[held'[r]])
             /\ \A i \in 1 .. Len(queue') :
                  InHand(r)' => Before(data'[held'[r]], data'[queue'[i]])
  <2>1. held'[r] = held[r]
    BY <1>2, <1>6 DEF TypeOK, Threads
  <2> QED
    BY <1>1, <1>6, <2>1, Shifted DEF OrderInv
<1>7. ASSUME t \in Readers
      PROVE  /\ Known(data[held[t]])'
             /\ got'[t] # NoMsg => Before(got'[t], data'[held'[t]])
             /\ \A i \in 1 .. Len(queue') : Before(data'[held'[t]], data'[queue'[i]])
  BY <1>1, <1>2, <1>3, <1>7, Shifted DEF OrderInv
<1>8. ASSUME NEW r \in Readers, got'[r] # NoMsg
      PROVE  /\ Known(got[r])'
             /\ \A i \in 1 .. Len(queue') : Before(got'[r], data'[queue'[i]])
  BY <1>1, <1>8, Shifted DEF OrderInv
<1> QED
  BY <1>4, <1>5, <1>6, <1>7, <1>8 DEF OrderInv, Before

LEMMA OrderCopy ==
  ASSUME TypeOK, OrderInv, NEW r \in Readers, Copy(r)
  PROVE  OrderInv'
<1>1. /\ UNCHANGED <<queue, data, held, written>> /\ InHand(r) /\ ~ InHand(r)'
      /\ got' = [got EXCEPT ![r] = data[held[r]]]
      /\ \A u \in Readers : u # r => (InHand(u)' <=> InHand(u))
      /\ \A w \in Writers : pc'[w] = pc[w]
  BY ThreadsAssumption DEF Copy, Goto, InHand, TypeOK, Threads, histVars
<1>2. \A m : Known(m) => Known(m)'
  BY <1>1 DEF Known, Msgs, LastNr
<1>3. \A u \in Readers : got'[u] = IF u = r THEN data[held[r]] ELSE got[u]
  BY <1>1 DEF TypeOK
<1>4. \A u \in Readers : got'[u] # NoMsg => Known(got[u])'
  BY <1>1, <1>2, <1>3 DEF OrderInv
<1>5. \A u \in Readers, i \in 1 .. Len(queue) :
        got'[u] # NoMsg => Before(got'[u], data[queue[i]])
  BY <1>1, <1>3 DEF OrderInv
<1>6. \A u \in Readers :
        InHand(u)' /\ got'[u] # NoMsg => Before(got'[u], data[held[u]])
  BY <1>1, <1>3 DEF OrderInv
<1> QED
  BY <1>1, <1>2, <1>4, <1>5, <1>6 DEF OrderInv, Before

(* With one writer nothing is linked behind an element out of the queue.   *)
LEMMA HungStep ==
  ASSUME TypeOK, [Next]_vars, SingleWriter, \A w \in Writers : hung[w] = <<>>
  PROVE  \A w \in Writers : hung'[w] = <<>>
<1>1. \A w, u \in Writers : ~ LinkTorn(w, u)
  BY DEF LinkTorn, SingleWriter
<1>2. CASE \E w \in Writers : Link(w)
  BY <1>2, LinkFacts
<1>3. CASE ~ \E w \in Writers : Link(w)
  <2>1. hung' = hung
    BY <1>1, <1>3 DEF Next, vars, WriteStep, ReadStep, WriteBegin, PopFree, FreeEmpty,
       Steal, StealNothing, Recycle, CheckFlag, LoadOverruns, StoreOverruns, Fill,
       Put, Read, Copy, Release, linkVars
  <2> QED
    BY <2>1
<1> QED
  BY <1>2, <1>3

LEMMA OrderStep ==
  ASSUME TypeOK, Conservation, QueueElementsInv, CallInv, OrderInv, [Next]_vars,
         SingleWriter, \A w \in Writers : hung[w] = <<>>
  PROVE  OrderInv'
<1> USE DEF Goto
<1>1. ASSUME NEW w \in Writers, WriteBegin(w) \/ WriteStep(w)
      PROVE  OrderInv'
  <2>1. w \in Threads /\ w \notin Readers
    BY ThreadsAssumption DEF Threads
  <2>0. \A u \in Writers : ~ LinkTorn(w, u)
    BY DEF LinkTorn, SingleWriter
  <2>2. /\ got' = got
        /\ \A r \in Readers : (InHand(r)' <=> InHand(r)) /\ held'[r] = held[r]
    BY <1>1, <2>0, <2>1
    DEF WriteStep, WriteBegin, PopFree, FreeEmpty, Steal, StealNothing,
       Recycle, CheckFlag, LoadOverruns, StoreOverruns, Fill, Put, Link, Finish, InHand,
       Dequeue, Hold, TypeOK, Threads, histVars
  <2>3. CASE Link(w)
    BY <2>3, OrderLink DEF SingleWriter
  <2>4. ASSUME ~ Link(w)
        PROVE  \A v \in Writers : LastNr(v)' = LastNr(v)
    BY <1>1, <2>0, <2>1, <2>4, PutReady, ThreadsAssumption
    DEF PutNeverFails, WriteStep, WriteBegin, PopFree, FreeEmpty, Steal, StealNothing,
       Recycle, CheckFlag, LoadOverruns, StoreOverruns, Fill, Put, LastNr,
       TypeOK, Threads, histVars
  <2>5. CASE Steal(w)
    <3>1. ~ Link(w)
      BY <2>5 DEF Steal, Link, Finish
    <3> QED
      BY <2>1, <2>2, <2>4, <2>5, <3>1, OrderDequeue DEF Steal
  <2>6. CASE ~ Link(w) /\ ~ Steal(w)
    <3>1. queue' = queue
      BY <1>1, <2>0, <2>6 DEF WriteStep, WriteBegin, PopFree, FreeEmpty, StealNothing,
         Recycle, CheckFlag, LoadOverruns, StoreOverruns, Fill, Put
    <3> QED
      BY <2>2, <2>4, <2>6, <3>1, OrderFrame
  <2> QED
    BY <2>3, <2>5, <2>6
<1>2. ASSUME NEW r \in Readers, Read(r) \/ ReadStep(r)
      PROVE  OrderInv'
  <2>1. r \in Threads /\ \A w \in Writers : LastNr(w)' = LastNr(w)
    BY <1>2, ThreadsAssumption
    DEF Read, ReadStep, Recycle, Copy, Release, LastNr,
       TypeOK, Threads, histVars
  <2>2. CASE Read(r)
    <3>1. /\ Dequeue(r) /\ UNCHANGED <<data, got>> /\ InHand(r)'
          /\ \A u \in Readers : u # r => (InHand(u)' <=> InHand(u))
      BY <2>2 DEF Read, InHand, TypeOK, Threads
    <3> QED
      BY <2>1, <3>1, OrderDequeue
  <2>3. CASE Copy(r)
    BY <2>3, OrderCopy
  <2>4. CASE Recycle(r) \/ Release(r)
    <3>1. /\ UNCHANGED <<queue, got>>
          /\ \A u \in Readers : InHand(u)' => InHand(u) /\ held'[u] = held[u]
      BY <2>4, ThreadsAssumption
      DEF Recycle, Release, Hold, InHand, TypeOK, Threads
    <3> QED
      BY <2>1, <3>1, OrderFrame
  <2> QED
    BY <1>2, <2>2, <2>3, <2>4 DEF ReadStep
<1>3. CASE UNCHANGED vars
  BY <1>3, OrderFrame DEF vars, callVars, histVars, LastNr, InHand
<1> QED
  BY <1>1, <1>2, <1>3 DEF Next

-----------------------------------------------------------------------------
(***************************************************************************)
(* The theorems.                                                           *)
(***************************************************************************)
IInv ==
  /\ Conservation
  /\ QueueElementsInv
  /\ NewestKept
  /\ LossInv
  /\ CallInv
  /\ SingleWriter => OrderInv /\ \A w \in Writers : hung[w] = <<>>

LEMMA InitInv == Init => IInv
<1> SUFFICES ASSUME Init PROVE IInv
  OBVIOUS
<1> USE DEF Init
<1>1. Conservation
  BY DEF Conservation, Queued, Hanging, Elements, NULL
<1>2. QueueElementsInv
  <2>1. Settled = {}
    BY DEF Settled, SettledLocs
  <2>2. Cardinality(free) = Size
    BY FS_Interval, SizeAssumption DEF Elements
  <2> QED
    BY <2>1, <2>2, FS_EmptySet, SizeAssumption
    DEF QueueElementsInv, QueueElements
<1>3. LossInv
  <2>1. Pending = {}
    BY DEF Pending, PendingLocs
  <2> QED
    BY <2>1, FS_EmptySet DEF LossInv, Threads
<1>4. NewestKept /\ CallInv /\ OrderInv /\ \A w \in Writers : hung[w] = <<>>
  BY DEF NewestKept, CallInv, OrderInv, Threads, InHand
<1> QED
  BY <1>1, <1>2, <1>3, <1>4 DEF IInv

(* The inductive invariant: elements and queue elements are conserved, the *)
(* newest message is kept, also where it waits for another writer, and     *)
(* overruns are noticed; with one writer nothing waits and the messages    *)
(* are ordered.                                                            *)
THEOREM Invariance == Spec => [](TypeOK /\ IInv)
<1>1. Init => TypeOK /\ IInv
  BY TypeInit, InitInv
<1>2. TypeOK /\ IInv /\ [Next]_vars => (TypeOK /\ IInv)'
  <2> SUFFICES ASSUME TypeOK, IInv, [Next]_vars PROVE TypeOK' /\ IInv'
    OBVIOUS
  <2>1. TypeOK'
    <3>1. CASE UNCHANGED vars
      BY <3>1 DEF vars, callVars, histVars, linkVars, TypeOK
    <3> QED
      BY <3>1, WriterType, ReaderType DEF Next
  <2> QED
    BY <2>1, ConservationStep, QueueElementsStep, NewestStep, LossStep,
       CallStep,
       HungStep, OrderStep DEF IInv
<1> QED
  BY <1>1, <1>2, PTL DEF Spec

(* cyclic_write and cyclic_read keep their variables well typed.           *)
THEOREM TypeCorrect == Spec => []TypeOK
BY Invariance, PTL

(* No element of the ring buffer is lost, and none has two users.          *)
THEOREM ConservationAlways == Spec => []Conservation
<1>1. IInv => Conservation
  BY DEF IInv
<1> QED
  BY Invariance, <1>1, PTL

(* lfds611_queue_enqueue finds a queue element whenever it is called.      *)
THEOREM PutNeverFailsAlways == Spec => []PutNeverFails
<1>1. TypeOK /\ IInv => PutNeverFails
  BY PutReady DEF IInv
<1> QED
  BY Invariance, <1>1, PTL

(* The newest message is available until it is read or replaced; with      *)
(* several writers it may first have to wait for one that is still linking. *)
THEOREM NewestKeptAlways == Spec => []NewestKept
<1>1. IInv => NewestKept
  BY DEF IInv
<1> QED
  BY Invariance, <1>1, PTL

(* The racy counter of overruns never counts too many, nor none at all.    *)
THEOREM LossNoticedAlways == Spec => []LossNoticed
<1>1. TypeOK /\ IInv => LossNoticed
  BY LossFollows DEF IInv
<1> QED
  BY Invariance, <1>1, PTL

(* Every reader gets the messages of the writer in the order written, if   *)
(* there is only one; the enqueue of liblfds does not order several.       *)
THEOREM InOrderAlways ==
  ASSUME SingleWriter
  PROVE  Spec => InOrder
<1> DEFINE Ordered == \A r \in Readers :
       got'[r] # got[r] /\ got[r] # NoMsg /\ got'[r].from = got[r].from
       => got'[r].nr > got[r].nr
<1>1. ASSUME TypeOK, IInv, Next PROVE Ordered
  <2>1. ASSUME NEW r \in Readers, Copy(r) PROVE Ordered
    <3>1. /\ InHand(r) /\ got' = [got EXCEPT ![r] = data[held[r]]]
          /\ got[r] # NoMsg => got[r] \in Msgs
          /\ data[held[r]] \in Msgs
      BY <1>1, <2>1 DEF Copy, Goto, InHand, IInv, OrderInv, Known, TypeOK
    <3>2. got[r] # NoMsg => Before(got[r], data[held[r]])
      BY <1>1, <3>1 DEF IInv, OrderInv
    <3> QED
      BY <1>1, <3>1, <3>2 DEF Before, Msgs, TypeOK
  <2>2. CASE got' = got
    BY <2>2
  <2> QED
    BY <1>1, <2>1, <2>2
    DEF Next, WriteStep, ReadStep, WriteBegin, PopFree, FreeEmpty,
       Steal, StealNothing, Recycle, CheckFlag, LoadOverruns, StoreOverruns,
       Fill, Put, Link, LinkTorn, Finish, Read, Release
<1>2. TypeOK /\ IInv /\ [Next]_vars => [Ordered]_vars
  BY <1>1
<1>3. [][Ordered]_vars <=> InOrder
  BY DEF InOrder
<1> QED
  BY Invariance, <1>2, <1>3, PTL DEF Spec

-----------------------------------------------------------------------------
(***************************************************************************)
(* CyclicBuffer implements DropOldest.                                     *)
(***************************************************************************)
LEMMA SeqFacts ==
  ASSUME NEW S, NEW s \in Seq(S)
  PROVE  /\ s = <<>> <=> Len(s) = 0
         /\ s # <<>> => Tail(s) = [i \in 1 .. Len(s) - 1 |-> s[i + 1]]
<1>1. s = <<>> <=> Len(s) = 0
  BY EmptySeq
<1>2. ASSUME s # <<>> PROVE Tail(s) = [i \in 1 .. Len(s) - 1 |-> s[i + 1]]
  <2>1. /\ Tail(s) \in Seq(S) /\ Len(Tail(s)) = Len(s) - 1
        /\ \A i \in 1 .. Len(Tail(s)) : Tail(s)[i] = s[i + 1]
    BY <1>2, HeadTailProperties
  <2>2. Tail(s) = [i \in 1 .. Len(Tail(s)) |-> Tail(s)[i]]
    BY <2>1, LenProperties
  <2> QED
    BY <2>1, <2>2
<1> QED
  BY <1>1, <1>2

LEMMA AbsBufFacts ==
  ASSUME TypeOK
  PROVE  /\ AbsBuf \in Seq(Msgs \cup {NoMsg})
         /\ Len(AbsBuf) = Len(queue)
         /\ \A i \in 1 .. Len(queue) : AbsBuf[i] = data[queue[i]]
         /\ AbsBuf = <<>> <=> queue = <<>>
<1>1. \A i \in 1 .. Len(queue) : data[queue[i]] \in Msgs \cup {NoMsg}
  BY QueueFacts DEF TypeOK
<1>2. AbsBuf \in Seq(Msgs \cup {NoMsg}) /\ Len(AbsBuf) = Len(queue)
  BY <1>1, QueueFacts DEF AbsBuf
<1>3. AbsBuf = <<>> <=> queue = <<>>
  <2>1. queue = <<>> <=> Len(queue) = 0
    BY SeqFacts DEF TypeOK
  <2>2. AbsBuf = <<>> <=> Len(AbsBuf) = 0
    BY <1>2, SeqFacts
  <2> QED
    BY <1>2, <2>1, <2>2
<1>4. \A i \in 1 .. Len(queue) : AbsBuf[i] = data[queue[i]]
  BY DEF AbsBuf
<1> QED
  BY <1>2, <1>3, <1>4

LEMMA AbsLateFacts ==
  ASSUME TypeOK
  PROVE  \A w \in Writers :
           /\ AbsLate[w] \in Seq(Msgs \cup {NoMsg})
           /\ Len(AbsLate[w]) = Len(hung[w])
           /\ \A i \in 1 .. Len(hung[w]) : AbsLate[w][i] = data[hung[w][i]]
           /\ hung[w] = <<>> => AbsLate[w] = <<>>
<1> SUFFICES ASSUME NEW w \in Writers
             PROVE  /\ AbsLate[w] \in Seq(Msgs \cup {NoMsg})
                    /\ Len(AbsLate[w]) = Len(hung[w])
                    /\ \A i \in 1 .. Len(hung[w]) : AbsLate[w][i] = data[hung[w][i]]
                    /\ hung[w] = <<>> => AbsLate[w] = <<>>
  OBVIOUS
<1>1. AbsLate[w] = [i \in 1 .. Len(hung[w]) |-> data[hung[w][i]]]
  BY DEF AbsLate
<1>2. \A i \in 1 .. Len(hung[w]) : data[hung[w][i]] \in Msgs \cup {NoMsg}
  BY QueueFacts DEF TypeOK
<1>3. AbsLate[w] \in Seq(Msgs \cup {NoMsg}) /\ Len(AbsLate[w]) = Len(hung[w])
  BY <1>1, <1>2, QueueFacts
<1>4. hung[w] = <<>> => AbsLate[w] = <<>>
  BY <1>3, EmptySeq
<1> QED
  BY <1>1, <1>3, <1>4

LEMMA LateStable ==
  ASSUME TypeOK, Conservation, [Next]_vars, UNCHANGED hung
  PROVE  AbsLate' = AbsLate
<1>1. \A w \in Writers : [i \in 1 .. Len(hung[w]) |-> data'[hung[w][i]]]
                         = [i \in 1 .. Len(hung[w]) |-> data[hung[w][i]]]
  BY DataStable
<1> QED
  BY <1>1 DEF AbsLate

(* Nothing that the mapping looks at has changed.                          *)
LEMMA Stutter ==
  ASSUME TypeOK, Conservation, [Next]_vars, UNCHANGED <<free, queue, hung, msg>>,
         AbsStage' = AbsStage, AbsGot' = AbsGot
  PROVE  UNCHANGED Abstract!vars
<1>1. AbsBuf' = AbsBuf
  BY DataStable DEF AbsBuf
<1>2. AbsLate' = AbsLate
  BY LateStable
<1> QED
  BY <1>1, <1>2 DEF Abstract!vars

LEMMA GotoStage ==
  ASSUME TypeOK, NEW t \in Threads, \E b : pc' = [pc EXCEPT ![t] = b]
  PROVE  /\ AbsStage' = [AbsStage EXCEPT ![t] = AbsStage'[t]]
         /\ AbsStage[t] = CASE pc[t] = "idle" -> "idle" [] pc[t] = "pop" -> "begun"
                             [] pc[t] = "steal" -> "full" [] OTHER -> "slot"
         /\ AbsStage'[t] = CASE pc'[t] = "idle" -> "idle" [] pc'[t] = "pop" -> "begun"
                              [] pc'[t] = "steal" -> "full" [] OTHER -> "slot"
         /\ AbsStage[t] = AbsStage'[t] => AbsStage' = AbsStage
<1>1. \A u \in Threads : u # t => pc'[u] = pc[u]
  BY DEF TypeOK
<1> QED
  BY <1>1 DEF AbsStage

(* The step of a writer leaves what the readers got.                       *)
LEMMA WriterGot ==
  ASSUME TypeOK, Conservation, NEW w \in Writers, WriteBegin(w) \/ WriteStep(w)
  PROVE  AbsGot' = AbsGot
<1>1. /\ got' = got /\ [Next]_vars
      /\ \A r \in Readers : pc'[r] = pc[r] /\ held'[r] = held[r]
  <2>1. got' = got /\ [Next]_vars
    BY DEF Next, WriteStep, WriteBegin, PopFree, FreeEmpty, Steal, StealNothing,
       Recycle, CheckFlag, LoadOverruns, StoreOverruns, Fill, Put, Link, LinkTorn, Finish
  <2>2. \E b : pc' = [pc EXCEPT ![w] = b]
    BY DEF WriteStep, WriteBegin, PopFree, FreeEmpty, Steal, StealNothing, Recycle,
       CheckFlag, LoadOverruns, StoreOverruns, Fill, Put, Link, LinkTorn, Finish, Goto
  <2>3. held' = held \/ \E e : held' = [held EXCEPT ![w] = e]
    BY DEF WriteStep, WriteBegin, PopFree, FreeEmpty, Steal, StealNothing, Recycle,
       CheckFlag, LoadOverruns, StoreOverruns, Fill, Put, Link, LinkTorn, Finish,
       Dequeue, Hold
  <2>4. \A r \in Readers : r \in Threads /\ r # w
    BY ThreadsAssumption DEF Threads
  <2> QED
    BY <2>1, <2>2, <2>3, <2>4 DEF TypeOK
<1>2. \A r \in Readers : pc[r] \in {"recycle", "copy"} => data'[held[r]] = data[held[r]]
  BY <1>1, DataStable DEF TypeOK, Threads
<1> QED
  BY <1>1, <1>2 DEF AbsGot

LEMMA DequeueAbs ==
  ASSUME TypeOK, NEW t \in Threads, Dequeue(t), UNCHANGED data
  PROVE  /\ AbsBuf # <<>>
         /\ Head(AbsBuf) = data[queue[1]]
         /\ AbsBuf' = Tail(AbsBuf)
<1>1. AbsBuf # <<>> /\ Len(queue) > 0 /\ Len(queue) \in Nat
  BY AbsBufFacts, QueueFacts, DequeueFacts DEF TypeOK
<1>2. AbsBuf' = [i \in 1 .. Len(queue) - 1 |-> data[queue[i + 1]]]
  BY Shifted, DequeueFacts DEF AbsBuf
<1>3. Tail(AbsBuf) = [i \in 1 .. Len(queue) - 1 |-> AbsBuf[i + 1]]
  BY <1>1, AbsBufFacts, SeqFacts
<1>4. \A i \in 1 .. Len(queue) - 1 : AbsBuf[i + 1] = data[queue[i + 1]]
  BY <1>1, AbsBufFacts
<1> QED
  BY <1>1, <1>2, <1>3, <1>4, AbsBufFacts

(* What writer w links, as messages.                                       *)
LEMMA ToLinkAbs ==
  ASSUME TypeOK, CallInv, NEW w \in Writers, Finish(w)
  PROVE  /\ <<msg[w]>> \o AbsLate[w] \in Seq(Msgs \cup {NoMsg})
         /\ Len(<<msg[w]>> \o AbsLate[w]) = Len(Behind(w))
         /\ \A k \in 1 .. Len(Behind(w)) : (<<msg[w]>> \o AbsLate[w])[k] = data[Behind(w)[k]]
<1>1. data[held[w]] = msg[w] /\ msg[w] \in Msgs
  BY ToLinkFacts DEF CallInv, TypeOK
<1>2. PICK h : h = <<msg[w]>>
  OBVIOUS
<1>3. h \in Seq(Msgs \cup {NoMsg}) /\ Len(h) = 1 /\ h[1] = msg[w]
  BY <1>1, <1>2
<1>4. PICK l : l = AbsLate[w]
  OBVIOUS
<1>5. /\ l \in Seq(Msgs \cup {NoMsg}) /\ Len(l) = Len(hung[w])
      /\ \A i \in 1 .. Len(hung[w]) : l[i] = data[hung[w][i]]
  BY <1>4, AbsLateFacts
<1>6. PICK c : c = h \o l
  OBVIOUS
<1>7. /\ c \in Seq(Msgs \cup {NoMsg}) /\ Len(c) = Len(h) + Len(l)
      /\ \A i \in 1 .. Len(c) :
           \/ i \in 1 .. Len(h) /\ c[i] = h[i]
           \/ \E k \in 1 .. Len(l) : i = Len(h) + k /\ c[i] = l[k]
  <2>1. PICK S : S = Msgs \cup {NoMsg}
    OBVIOUS
  <2>2. h \in Seq(S) /\ l \in Seq(S)
    BY <1>3, <1>5, <2>1
  <2> QED
    BY <1>6, <2>1, <2>2, Concatenation
<1>8. /\ Len(Behind(w)) = 1 + Len(hung[w]) /\ Len(hung[w]) \in Nat /\ Behind(w)[1] = held[w]
      /\ \A k \in 1 .. Len(hung[w]) : Behind(w)[1 + k] = hung[w][k]
  BY ToLinkFacts
<1>9. \A i \in 1 .. Len(h) : i = 1
  BY <1>3
<1>10. Len(c) = Len(Behind(w))
  BY <1>3, <1>5, <1>7, <1>8
<1>11. ASSUME NEW i \in 1 .. Len(c) PROVE c[i] = data[Behind(w)[i]]
  <2>1. CASE i \in 1 .. Len(h) /\ c[i] = h[i]
    BY <1>1, <1>3, <1>8, <1>9, <2>1
  <2>2. ASSUME NEW k \in 1 .. Len(l), i = Len(h) + k, c[i] = l[k]
        PROVE  c[i] = data[Behind(w)[i]]
    BY <1>3, <1>5, <1>8, <2>2
  <2> QED
    BY <1>7, <2>1, <2>2
<1>12. c = <<msg[w]>> \o AbsLate[w]
  BY <1>2, <1>4, <1>6
<1> QED
  BY <1>7, <1>10, <1>11, <1>12

LEMMA LinkAbs ==
  ASSUME TypeOK, CallInv, NEW w \in Writers, Link(w)
  PROVE  /\ AbsBuf' = AbsBuf \o <<msg[w]>> \o AbsLate[w]
         /\ AbsLate' = [AbsLate EXCEPT ![w] = <<>>]
<1>1. data' = data /\ Finish(w)
  BY DEF Link, Finish
<1>2. PICK c : c = <<msg[w]>> \o AbsLate[w]
  OBVIOUS
<1>3. /\ c \in Seq(Msgs \cup {NoMsg}) /\ Len(c) = Len(Behind(w))
      /\ \A k \in 1 .. Len(c) : c[k] = data[Behind(w)[k]]
  BY <1>1, <1>2, ToLinkAbs
<1>4. PICK b : b = AbsBuf \o c
  OBVIOUS
<1>5. AbsBuf \in Seq(Msgs \cup {NoMsg}) /\ Len(AbsBuf) = Len(queue)
      /\ \A i \in 1 .. Len(queue) : AbsBuf[i] = data[queue[i]]
  BY AbsBufFacts
<1>6. /\ b \in Seq(Msgs \cup {NoMsg}) /\ Len(b) = Len(AbsBuf) + Len(c)
      /\ \A i \in 1 .. Len(b) :
           \/ i \in 1 .. Len(AbsBuf) /\ b[i] = AbsBuf[i]
           \/ \E k \in 1 .. Len(c) : i = Len(AbsBuf) + k /\ b[i] = c[k]
  <2>1. PICK S : S = Msgs \cup {NoMsg}
    OBVIOUS
  <2>2. AbsBuf \in Seq(S) /\ c \in Seq(S)
    BY <1>3, <1>5, <2>1
  <2> QED
    BY <1>4, <2>1, <2>2, Concatenation
<1>7. /\ Len(queue') = Len(queue) + Len(Behind(w))
      /\ \A i \in 1 .. Len(queue) : queue'[i] = queue[i]
      /\ \A k \in 1 .. Len(Behind(w)) : queue'[Len(queue) + k] = Behind(w)[k]
  BY LinkFacts
<1>8. Len(b) = Len(queue') /\ \A i \in 1 .. Len(b) : b[i] = data'[queue'[i]]
  <2>1. Len(b) = Len(queue')
    BY <1>3, <1>5, <1>6, <1>7
  <2>2. ASSUME NEW i \in 1 .. Len(b) PROVE b[i] = data[queue'[i]]
    <3>1. CASE i \in 1 .. Len(AbsBuf) /\ b[i] = AbsBuf[i]
      BY <1>5, <1>7, <3>1
    <3>2. ASSUME NEW k \in 1 .. Len(c), i = Len(AbsBuf) + k, b[i] = c[k]
          PROVE  b[i] = data[queue'[i]]
      BY <1>3, <1>5, <1>7, <3>2
    <3> QED
      BY <1>6, <3>1, <3>2
  <2> QED
    BY <1>1, <2>1, <2>2
<1>9. b = [i \in 1 .. Len(queue') |-> data'[queue'[i]]]
  <2>1. b = [i \in 1 .. Len(b) |-> b[i]]
    BY <1>6, LenProperties
  <2> QED
    BY <1>8, <2>1
<1>10. AbsBuf' = b
  BY <1>9 DEF AbsBuf
<1>11. AbsBuf \o c = AbsBuf \o <<msg[w]>> \o AbsLate[w]
  <2>1. PICK S : S = Msgs \cup {NoMsg}
    OBVIOUS
  <2>2. PICK a, m, l : a = AbsBuf /\ m = <<msg[w]>> /\ l = AbsLate[w]
    OBVIOUS
  <2>3. msg[w] \in Msgs
    BY <1>1, ToLinkFacts DEF TypeOK
  <2>4. a \in Seq(S) /\ m \in Seq(S) /\ l \in Seq(S)
    BY <1>5, <2>1, <2>2, <2>3, AbsLateFacts
  <2>5. (a \o m) \o l = a \o (m \o l)
    BY <2>4, ConcatAssociative
  <2> QED
    BY <1>2, <2>2, <2>5
<1>12. AbsLate' = [AbsLate EXCEPT ![w] = <<>>]
  <2>1. \A v \in Writers : AbsLate'[v] = IF v = w THEN <<>> ELSE AbsLate[v]
    <3>1. \A v \in Writers : hung'[v] = IF v = w THEN <<>> ELSE hung[v]
      BY LinkFacts
    <3>2. AbsLate'[w] = <<>>
      <4>1. AbsLate'[w] = [i \in 1 .. Len(hung'[w]) |-> data'[hung'[w][i]]]
        BY DEF AbsLate
      <4>2. Len(hung'[w]) = 0
        BY <3>1
      <4> QED
        BY <4>1, <4>2
    <3> QED
      BY <1>1, <3>1, <3>2 DEF AbsLate
  <2> QED
    BY <2>1 DEF AbsLate
<1> QED
  BY <1>4, <1>10, <1>11, <1>12

LEMMA TornAbs ==
  ASSUME TypeOK, CallInv, NEW w \in Writers, NEW u \in Writers, LinkTorn(w, u)
  PROVE  /\ AbsBuf' = AbsBuf /\ AbsLate[u] = <<>>
         /\ AbsLate' = [AbsLate EXCEPT ![w] = <<>>, ![u] = <<msg[w]>> \o AbsLate[w]]
<1>1. data' = data /\ queue' = queue /\ Finish(w)
  BY DEF LinkTorn, Finish
<1>2. PICK c : c = <<msg[w]>> \o AbsLate[w]
  OBVIOUS
<1>3. /\ c \in Seq(Msgs \cup {NoMsg}) /\ Len(c) = Len(Behind(w))
      /\ \A k \in 1 .. Len(c) : c[k] = data[Behind(w)[k]]
  BY <1>1, <1>2, ToLinkAbs
<1>4. /\ u # w /\ hung[u] = <<>> /\ hung'[w] = <<>> /\ hung'[u] = Behind(w)
      /\ \A v \in Writers : v # w /\ v # u => hung'[v] = hung[v]
  BY TornFacts
<1>5. \A v \in Writers : AbsLate'[v] = [i \in 1 .. Len(hung'[v]) |-> data[hung'[v][i]]]
  BY <1>1 DEF AbsLate
<1>6. AbsLate'[u] = c
  <2>1. c = [i \in 1 .. Len(c) |-> c[i]]
    BY <1>3, LenProperties
  <2> QED
    BY <1>3, <1>4, <1>5, <2>1
<1>7. AbsLate'[w] = <<>>
  <2>1. AbsLate'[w] = [i \in 1 .. Len(hung'[w]) |-> data'[hung'[w][i]]]
    BY DEF AbsLate
  <2>2. Len(hung'[w]) = 0
    BY <1>4
  <2> QED
    BY <2>1, <2>2
<1>8. \A v \in Writers : v # w /\ v # u => AbsLate'[v] = AbsLate[v]
  BY <1>4, <1>5 DEF AbsLate
<1>9. AbsLate' = [AbsLate EXCEPT ![w] = <<>>, ![u] = c]
  BY <1>4, <1>6, <1>7, <1>8 DEF AbsLate
<1>10. AbsBuf' = AbsBuf /\ AbsLate[u] = <<>>
  BY <1>1, <1>4, AbsLateFacts DEF AbsBuf
<1> QED
  BY <1>2, <1>9, <1>10

(* Every step of a writer is a step of DropOldest or a stutter.            *)
LEMMA WriterSimulates ==
  ASSUME TypeOK, IInv, NEW w \in Writers, WriteBegin(w) \/ WriteStep(w)
  PROVE  [Abstract!Next]_Abstract!vars
<1> USE DEF Goto
<1>1. w \in Threads /\ w \notin Readers /\ Conservation /\ CallInv /\ [Next]_vars
  BY ThreadsAssumption DEF Threads, IInv, Next
<1>2. AbsGot' = AbsGot
  BY <1>1, WriterGot
<1>3. UNCHANGED queue => AbsBuf' = AbsBuf
  BY <1>1, DataStable DEF AbsBuf
<1>12. UNCHANGED linkVars => AbsLate' = AbsLate
  BY <1>1, LateStable DEF linkVars
<1>4. CASE WriteBegin(w)
  <2>1. Abstract!Goto(w, "idle", "begun")
    BY <1>1, <1>4, GotoStage DEF WriteBegin, Abstract!Goto, TypeOK
  <2>2. \E m \in Msgs : msg' = [msg EXCEPT ![w] = m]
    <3>1. written[w] + 1 \in 1 .. MaxWrites
      BY <1>4, SizeAssumption DEF WriteBegin, TypeOK
    <3>2. [from |-> w, nr |-> written[w] + 1] \in Msgs
      BY <3>1 DEF Msgs
    <3> QED
      BY <1>4, <3>2 DEF WriteBegin, TypeOK
  <2>3. UNCHANGED <<AbsBuf, AbsLate, Cardinality(free), AbsGot>>
    BY <1>2, <1>3, <1>4, <1>12 DEF WriteBegin
  <2>4. Abstract!Begin(w)
    BY <2>1, <2>2, <2>3 DEF Abstract!Begin
  <2> QED
    BY <2>4 DEF Abstract!Next
<1>5. CASE PopFree(w)
  <2>1. Abstract!Goto(w, "begun", "slot")
    BY <1>1, <1>5, GotoStage DEF PopFree, Abstract!Goto, TypeOK
  <2>2. Cardinality(free) > 0 /\ Cardinality(free') = Cardinality(free) - 1
    BY <1>5, Finite, FS_RemoveElement, FS_EmptySet DEF PopFree
  <2>3. Abstract!TakeFree(w)
    BY <1>2, <1>3, <1>5, <1>12, <2>1, <2>2 DEF PopFree, Abstract!TakeFree
  <2> QED
    BY <2>3 DEF Abstract!Next
<1>6. CASE FreeEmpty(w)
  <2>1. Abstract!Goto(w, "begun", "full")
    BY <1>1, <1>6, GotoStage DEF FreeEmpty, Abstract!Goto, TypeOK
  <2>2. Abstract!FindFull(w)
    BY <1>2, <1>3, <1>6, <1>12, <2>1, FS_EmptySet DEF FreeEmpty, Abstract!FindFull
  <2> QED
    BY <2>2 DEF Abstract!Next
<1>7. CASE StealNothing(w)
  <2>1. Abstract!Goto(w, "full", "begun")
    BY <1>1, <1>7, GotoStage DEF StealNothing, Abstract!Goto, TypeOK
  <2>2. Abstract!Retry(w)
    BY <1>2, <1>3, <1>7, <1>12, <2>1, AbsBufFacts DEF StealNothing, Abstract!Retry
  <2> QED
    BY <2>2 DEF Abstract!Next
<1>8. CASE Steal(w)
  <2>1. Abstract!Goto(w, "full", "slot")
    BY <1>1, <1>8, GotoStage DEF Steal, Abstract!Goto, TypeOK
  <2>2. AbsBuf # <<>> /\ AbsBuf' = Tail(AbsBuf)
    BY <1>1, <1>8, DequeueAbs DEF Steal
  <2>3. Abstract!Drop(w)
    BY <1>2, <1>8, <1>12, <2>1, <2>2 DEF Steal, Abstract!Drop
  <2> QED
    BY <2>3 DEF Abstract!Next
<1>9. CASE Link(w)
  <2>1. Abstract!Goto(w, "slot", "idle")
    BY <1>1, <1>9, GotoStage DEF Link, Finish, Abstract!Goto, TypeOK
  <2>2. Abstract!Commit(w)
    BY <1>1, <1>2, <1>9, <2>1, LinkAbs DEF Link, Finish, Abstract!Commit
  <2> QED
    BY <2>2 DEF Abstract!Next
<1>11. ASSUME NEW u \in Writers, LinkTorn(w, u) PROVE [Abstract!Next]_Abstract!vars
  <2>1. Abstract!Goto(w, "slot", "idle") /\ AbsStage[u] = "slot"
    BY <1>1, <1>11, GotoStage DEF LinkTorn, Finish, Abstract!Goto, TypeOK, AbsStage, Threads
  <2>2. Abstract!HoldUp(w, u)
    BY <1>1, <1>2, <1>11, <2>1, TornAbs DEF LinkTorn, Finish, Abstract!HoldUp
  <2> QED
    BY <2>2 DEF Abstract!Next
<1>10. CASE Recycle(w) \/ CheckFlag(w) \/ LoadOverruns(w) \/ StoreOverruns(w)
            \/ Fill(w) \/ Put(w)
  <2>1. /\ UNCHANGED <<free, queue, hung, msg>>
        /\ \E b : pc' = [pc EXCEPT ![w] = b]
        /\ pc[w] \notin {"idle", "pop", "steal"} /\ pc'[w] \notin {"idle", "pop", "steal"}
    BY <1>1, <1>10, PutReady
    DEF IInv, PutNeverFails, Recycle, CheckFlag, LoadOverruns,
       StoreOverruns, Fill, Put, TypeOK, linkVars
  <2>2. AbsStage' = AbsStage
    BY <1>1, <2>1, GotoStage
  <2> QED
    BY <1>1, <1>2, <2>1, <2>2, Stutter
<1> QED
  BY <1>4, <1>5, <1>6, <1>7, <1>8, <1>9, <1>10, <1>11 DEF WriteStep

(* Every step of a reader is a step of DropOldest or a stutter.            *)
LEMMA ReaderSimulates ==
  ASSUME TypeOK, IInv, NEW r \in Readers, Read(r) \/ ReadStep(r)
  PROVE  [Abstract!Next]_Abstract!vars
<1> USE DEF Goto
<1>1. r \in Threads /\ r \notin Writers /\ Conservation /\ [Next]_vars
  BY ThreadsAssumption DEF Threads, IInv, Next
<1>2. \A u \in Readers : u # r => AbsGot'[u] = AbsGot[u]
  <2>1. ASSUME NEW u \in Readers, u # r
        PROVE  pc'[u] = pc[u] /\ held'[u] = held[u] /\ got'[u] = got[u] /\ data' = data
    BY <2>1, <1>1 DEF Read, ReadStep, Recycle, Copy, Release, Dequeue, Hold,
       TypeOK, Threads, histVars
  <2> QED
    BY <2>1 DEF AbsGot
<1>3. AbsGot' = [AbsGot EXCEPT ![r] = AbsGot'[r]]
  BY <1>2 DEF AbsGot
<1>7. UNCHANGED linkVars => AbsLate' = AbsLate
  BY <1>1, LateStable DEF linkVars
<1>4. CASE Read(r)
  <2>1. Abstract!Goto(r, "idle", "slot")
    BY <1>1, <1>4, GotoStage DEF Read, Abstract!Goto, TypeOK
  <2>2. /\ AbsBuf # <<>> /\ AbsBuf' = Tail(AbsBuf) /\ Head(AbsBuf) = data[queue[1]]
    BY <1>1, <1>4, DequeueAbs DEF Read
  <2>3. AbsGot'[r] = Head(AbsBuf)
    BY <1>1, <1>4, <2>2, DequeueFacts DEF Read, AbsGot, TypeOK
  <2>4. Abstract!Receive(r)
    BY <1>3, <1>4, <1>7, <2>1, <2>2, <2>3 DEF Read, Abstract!Receive
  <2> QED
    BY <2>4 DEF Abstract!Next
<1>5. CASE Release(r)
  <2>1. Abstract!Goto(r, "slot", "idle")
    BY <1>1, <1>5, GotoStage DEF Release, Abstract!Goto, TypeOK
  <2>2. held[r] \notin free /\ queue' = queue /\ msg' = msg /\ UNCHANGED linkVars
    BY <1>1, <1>5 DEF Conservation, Release
  <2>3. Cardinality(free') = Cardinality(free) + 1
    BY <1>5, <2>2, Finite, FS_AddElement DEF Release
  <2>4. AbsBuf' = AbsBuf
    BY <1>1, <2>2, DataStable DEF AbsBuf
  <2>5. AbsGot' = AbsGot
    <3>1. AbsGot'[r] = AbsGot[r]
      BY <1>1, <1>5 DEF Release, AbsGot, TypeOK, histVars
    <3> QED
      BY <1>2, <3>1 DEF AbsGot
  <2>6. Abstract!Release(r)
    BY <1>7, <2>1, <2>2, <2>3, <2>4, <2>5 DEF Abstract!Release
  <2> QED
    BY <2>6 DEF Abstract!Next
<1>6. CASE Recycle(r) \/ Copy(r)
  <2>1. /\ UNCHANGED <<free, queue, hung, msg, data, held>>
        /\ \E b : pc' = [pc EXCEPT ![r] = b]
        /\ pc[r] \notin {"idle", "pop", "steal"} /\ pc'[r] \notin {"idle", "pop", "steal"}
    BY <1>1, <1>6 DEF Recycle, Copy, TypeOK, linkVars
  <2>2. AbsStage' = AbsStage
    BY <1>1, <2>1, GotoStage
  <2>3. AbsGot' = AbsGot
    <3>1. AbsGot'[r] = AbsGot[r]
      BY <1>1, <1>6 DEF Recycle, Copy, AbsGot, TypeOK, histVars
    <3> QED
      BY <1>2, <3>1 DEF AbsGot
  <2> QED
    BY <1>1, <2>1, <2>2, <2>3, Stutter
<1> QED
  BY <1>4, <1>5, <1>6 DEF ReadStep

LEMMA InitAbs == Init => Abstract!Init
<1> SUFFICES ASSUME Init PROVE Abstract!Init
  OBVIOUS
<1>1. TypeOK /\ queue = <<>>
  BY TypeInit DEF Init
<1>2. AbsBuf = <<>>
  BY <1>1, AbsBufFacts
<1>3. Cardinality(free) = Size
  BY FS_Interval, SizeAssumption DEF Init, Elements
<1>4. AbsStage = [t \in Writers \cup Readers |-> "idle"]
  BY DEF Init, AbsStage, Threads
<1>5. AbsGot = [r \in Readers |-> NoMsg]
  BY DEF Init, AbsGot, Threads
<1>6. AbsLate = [w \in Writers |-> <<>>]
  BY <1>1, AbsLateFacts DEF Init, AbsLate
<1> QED
  BY <1>2, <1>3, <1>4, <1>5, <1>6 DEF Abstract!Init, Init

(* The lock-free buffer does what a bounded queue that drops its oldest    *)
(* messages does, for any number of readers and writers, where messages of *)
(* several writers may be held up as DropOldest says.                      *)
THEOREM Refinement == Spec => ImplementsDropOldest
<1>1. TypeOK /\ IInv /\ [Next]_vars => [Abstract!Next]_Abstract!vars
  <2> SUFFICES ASSUME TypeOK, IInv, [Next]_vars PROVE [Abstract!Next]_Abstract!vars
    OBVIOUS
  <2>1. CASE UNCHANGED vars
    BY <2>1 DEF vars, callVars, linkVars, Abstract!vars, AbsBuf, AbsLate, AbsStage, AbsGot
  <2> QED
    BY <2>1, WriterSimulates, ReaderSimulates DEF Next
<1> QED
  BY InitAbs, Invariance, <1>1, PTL
  DEF Spec, ImplementsDropOldest, Abstract!Spec

-----------------------------------------------------------------------------
(***************************************************************************)
(* LfdsFreelist: the free list stays a stack.                              *)
(***************************************************************************)

(* What a thread in lfds611_freelist_pop holds: as long as the pair it saw *)
(* on top is on the stack, what it loaded of its next is still right.      *)
PopInv == \A t \in Users :
  /\ loc[t] \in Popping => old[t].ctr <= aba
  /\ loc[t] \in {"popNextCtr", "popCas"} => old[t].ptr # NIL
  /\ loc[t] = "popNextCtr" =>
       \A i \in DOMAIN stack : stack[i] = old[t] => new[t].ptr = next[old[t].ptr].ptr
  /\ loc[t] = "popCas" =>
       \A i \in DOMAIN stack : stack[i] = old[t] => new[t] = next[old[t].ptr]

(* What a thread in lfds611_freelist_push holds: an element that it links  *)
(* to the pair that it saw on top.                                         *)
PushInv == \A t \in Users :
  /\ fe[t] # NIL <=> loc[t] \in Pushing \cup {"has"}
  /\ loc[t] \in Pushing => new[t].ptr = fe[t] /\ new[t].ctr \in 1 .. aba
  /\ loc[t] = "linkCtr" => next[fe[t]].ptr = old[t].ptr
  /\ loc[t] = "pushCas" => next[fe[t]] = old[t]

(* A counter that is about to be pushed is on no pair of the stack, and no *)
(* thread has seen it yet: a pair that left the stack does not come back.  *)
FreshInv ==
  /\ \A i \in DOMAIN stack : stack[i].ctr \in 1 .. aba
  /\ \A t \in Users : loc[t] \in Pushing =>
       /\ \A i \in DOMAIN stack : stack[i].ctr # new[t].ctr
       /\ \A u \in Users \ {t} :
            /\ loc[u] \in Pushing => new[u].ctr # new[t].ctr
            /\ loc[u] \in Popping => old[u].ctr # new[t].ctr

FreelistInv == FreelistRight /\ PopInv /\ PushInv /\ FreshInv

(* Pairs of a pointer and a counter, and the places of the stack.          *)
LEMMA PairFacts ==
  /\ Nothing \in Pair /\ Nothing.ptr = NIL /\ Nothing.ctr = 0
  /\ \A p \in Pair : p.ptr \in Ptr /\ p.ctr \in Nat
  /\ \A p, q \in Pair : p.ptr = q.ptr /\ p.ctr = q.ctr => p = q
BY DEF Nothing, Pair, Ptr

LEMMA PlaceFacts ==
  ASSUME FreelistTypes
  PROVE  /\ DOMAIN stack = 1 .. Len(stack) /\ Len(stack) \in Nat
         /\ \A i \in 1 .. Len(stack) : /\ stack[i] \in Pair /\ stack[i].ptr \in Elems
                                      /\ stack[i].ptr # NIL /\ stack[i].ctr \in Nat
                                      /\ Place(i) = stack[i]
         /\ \A i \in Nat \ {0} : i > Len(stack) => Place(i) = Nothing
<1> stack \in Seq([ptr : Elems, ctr : Nat])
  BY DEF FreelistTypes
<1>1. DOMAIN stack = 1 .. Len(stack) /\ Len(stack) \in Nat
  OBVIOUS
<1>2. \A i \in 1 .. Len(stack) : stack[i] \in [ptr : Elems, ctr : Nat]
  BY ElementOfSeq
<1> QED
  BY <1>1, <1>2, ElemsAssumption DEF Place, Pair, Ptr

(* What lfds611_freelist_pop takes when its compare-and-swap succeeds.     *)
LEMMA PopFacts ==
  ASSUME FreelistInv, NEW t \in Users, PopCas(t)
  PROVE  /\ Len(stack) \in Nat \ {0} /\ stack[1] = old[t] /\ top = old[t]
         /\ old[t].ptr \in Elems /\ old[t].ptr # NIL
         /\ Len(stack') = Len(stack) - 1 /\ DOMAIN stack' = 1 .. Len(stack) - 1
         /\ stack' \in Seq([ptr : Elems, ctr : Nat])
         /\ \A i \in 1 .. Len(stack) - 1 : stack'[i] = stack[i + 1]
         /\ new[t] = Place(2)
<1> USE DEF FreelistInv, FreelistRight
<1>1. /\ top = Place(1) /\ top = old[t] /\ old[t].ptr # NIL
      /\ stack' = Tail(stack) /\ loc[t] = "popCas"
  BY DEF PopCas, CasSucceeds, Matches, PopInv, ListIsStack, Move
<1>2. Len(stack) > 0 /\ Place(1) = stack[1] /\ stack[1].ptr \in Elems
  BY <1>1, PlaceFacts, PairFacts
<1>3. /\ stack' \in Seq([ptr : Elems, ctr : Nat]) /\ Len(stack') = Len(stack) - 1
      /\ \A i \in 1 .. Len(stack) - 1 : stack'[i] = stack[i + 1]
  <2> stack \in Seq([ptr : Elems, ctr : Nat])
    BY DEF FreelistTypes
  <2> QED
    BY <1>1, <1>2
<1>4. new[t] = next[old[t].ptr]
  BY <1>1, <1>2, PlaceFacts DEF PopInv
<1>5. next[stack[1].ptr] = Place(1 + 1)
  BY <1>2, PlaceFacts DEF ListIsStack
<1>6. DOMAIN stack' = 1 .. Len(stack) - 1
  BY <1>3
<1> QED
  BY <1>1, <1>2, <1>3, <1>4, <1>5, <1>6, PlaceFacts

(* What lfds611_freelist_push adds when its compare-and-swap succeeds.     *)
LEMMA PushFacts ==
  ASSUME FreelistInv, NEW t \in Users, PushCas(t)
  PROVE  /\ Len(stack') = Len(stack) + 1 /\ DOMAIN stack' = 1 .. Len(stack) + 1
         /\ stack' \in Seq([ptr : Elems, ctr : Nat])
         /\ stack'[1] = new[t]
         /\ \A i \in 1 .. Len(stack) : stack'[i + 1] = stack[i]
         /\ \A i \in 2 .. Len(stack) + 1 : stack'[i] = stack[i - 1]
         /\ fe[t] \in Elems /\ fe[t] # NIL /\ new[t].ptr = fe[t] /\ new[t].ctr \in 1 .. aba
         /\ next[fe[t]] = top /\ loc[t] = "pushCas"
<1> USE DEF FreelistInv, FreelistRight
<1>1. /\ stack' = <<new[t]>> \o stack /\ loc[t] = "pushCas" /\ top = old[t]
  BY DEF PushCas, CasSucceeds, Matches, Move
<1>2. /\ fe[t] \in Elems /\ fe[t] # NIL /\ new[t].ptr = fe[t]
      /\ new[t].ctr \in 1 .. aba /\ next[fe[t]] = top
  BY <1>1 DEF PushInv, Pushing, FreelistTypes, Ptr
<1>3. new[t] \in [ptr : Elems, ctr : Nat]
  BY <1>2 DEF FreelistTypes, Pair
<1>4. /\ stack' \in Seq([ptr : Elems, ctr : Nat]) /\ Len(stack') = Len(stack) + 1
      /\ stack'[1] = new[t]
      /\ \A i \in 1 .. Len(stack) : stack'[i + 1] = stack[i]
  <2> stack \in Seq([ptr : Elems, ctr : Nat])
    BY DEF FreelistTypes
  <2> QED
    BY <1>1, <1>3
<1>5. DOMAIN stack' = 1 .. Len(stack) + 1
  BY <1>4
<1>6. Len(stack) \in Nat
  BY PlaceFacts
<1>7. ASSUME NEW i \in 2 .. Len(stack) + 1
      PROVE  stack'[i] = stack[i - 1]
  <2>1. i - 1 \in 1 .. Len(stack) /\ (i - 1) + 1 = i
    BY <1>6
  <2> QED
    BY <2>1, <1>4
<1> QED
  BY <1>1, <1>2, <1>4, <1>5, <1>7

(* Every step keeps the types.                                             *)
LEMMA FreelistTypeStep ==
  ASSUME FreelistInv, NEW t \in Users, FreelistStep(t), Watch
  PROVE  FreelistTypes'
<1> USE DEF Move, Locs, Popping, Pushing
<1>t. FreelistTypes
  BY DEF FreelistInv, FreelistRight
<1>w. wasEmpty' \in [Users -> BOOLEAN]
  BY DEF Watch
<1>1. CASE PopBegin(t)
  BY <1>t, <1>w, <1>1, MaxPopsAssumption DEF FreelistTypes, PopBegin
<1>2. CASE ReadTopCounter(t)
  BY <1>t, <1>w, <1>2 DEF FreelistTypes, ReadTopCounter, Pair
<1>3. CASE ReadTopPointer(t)
  BY <1>t, <1>w, <1>3 DEF FreelistTypes, ReadTopPointer, Pair
<1>4. CASE PopEmpty(t)
  BY <1>t, <1>w, <1>4 DEF FreelistTypes, PopEmpty
<1>5. CASE LoadNextPointer(t)
  <2>1. old[t].ptr \in Elems
    BY <1>t, <1>5 DEF FreelistTypes, LoadNextPointer, Pair, Ptr
  <2>2. next[old[t].ptr].ptr \in Ptr
    BY <1>t, <2>1 DEF FreelistTypes, Pair
  <2> QED
    BY <1>t, <1>w, <1>5, <2>2 DEF FreelistTypes, LoadNextPointer, Pair
<1>6. CASE LoadNextCounter(t)
  <2>1. old[t].ptr \in Elems
    BY <1>t, <1>6
    DEF FreelistTypes, LoadNextCounter, Pair, Ptr, FreelistInv, PopInv
  <2>2. next[old[t].ptr].ctr \in Nat
    BY <1>t, <2>1 DEF FreelistTypes, Pair
  <2> QED
    BY <1>t, <1>w, <1>6, <2>2 DEF FreelistTypes, LoadNextCounter, Pair
<1>7. CASE PopCas(t)
  BY <1>t, <1>w, <1>7, PopFacts, PairFacts
  DEF FreelistTypes, PopCas, CasSucceeds, Ptr
<1>8. CASE PopAgain(t)
  BY <1>t, <1>w, <1>8 DEF FreelistTypes, PopAgain, CasFails
<1>9. CASE PushBegin(t)
  <2>1. fe[t] \in Ptr /\ aba + 1 \in Nat /\ top.ptr \in Ptr
    BY <1>t DEF FreelistTypes, Pair
  <2> QED
    BY <1>t, <1>w, <1>9, <2>1 DEF FreelistTypes, PushBegin, Pair
<1>10. CASE ReadCounter(t)
  BY <1>t, <1>w, <1>10 DEF FreelistTypes, ReadCounter, Pair
<1>11. CASE LinkPointer(t)
  <2>1. old[t].ptr \in Ptr
    BY <1>t DEF FreelistTypes, Pair
  <2> QED
    BY <1>t, <1>w, <1>11, <2>1 DEF FreelistTypes, LinkPointer, Pair
<1>12. CASE LinkCounter(t)
  <2>1. old[t].ctr \in Nat
    BY <1>t DEF FreelistTypes, Pair
  <2> QED
    BY <1>t, <1>w, <1>12, <2>1 DEF FreelistTypes, LinkCounter, Pair
<1>13. CASE PushCas(t)
  BY <1>t, <1>w, <1>13, PushFacts, PairFacts
  DEF FreelistTypes, PushCas, CasSucceeds, Ptr
<1>14. CASE PushAgain(t)
  BY <1>t, <1>w, <1>14 DEF FreelistTypes, PushAgain, CasFails
<1> QED
  BY <1>1, <1>2, <1>3, <1>4, <1>5, <1>6, <1>7, <1>8, <1>9, <1>10, <1>11, <1>12,
     <1>13,
     <1>14 DEF FreelistStep

(* No other step touches the stack, nor an element on it.                  *)
LEMMA StackFrame ==
  ASSUME FreelistInv, NEW t \in Users, FreelistStep(t), ~ PopCas(t), ~ PushCas(t)
  PROVE  /\ stack' = stack /\ top' = top /\ fe' = fe
         /\ \A e \in Elems : fe[t] # e => next'[e] = next[e]
<1> next \in [Elems -> Pair]
  BY DEF FreelistInv, FreelistRight, FreelistTypes
<1> QED
  BY
  DEF FreelistStep, PopBegin, ReadTopCounter, ReadTopPointer, PopEmpty,
      LoadNextPointer,
         LoadNextCounter, PopAgain, CasFails, PushBegin, ReadCounter, LinkPointer,
         LinkCounter, PushAgain

(* The places of the stack move up by one, or down.                        *)
LEMMA PlacePop ==
  ASSUME FreelistInv, NEW t \in Users, PopCas(t), NEW i \in Nat \ {0}
  PROVE  Place(i)' = Place(i + 1)
<1>1. Len(stack) \in Nat \ {0} /\ DOMAIN stack = 1 .. Len(stack)
  BY PopFacts, PlaceFacts DEF FreelistInv, FreelistRight
<1>2. CASE i \in 1 .. Len(stack) - 1
  <2>1. i + 1 \in 1 .. Len(stack)
    BY <1>1, <1>2
  <2> QED
    BY <1>1, <1>2, <2>1, PopFacts DEF Place
<1>3. CASE i \notin 1 .. Len(stack) - 1
  <2>1. i + 1 \notin 1 .. Len(stack)
    BY <1>1, <1>3
  <2> QED
    BY <1>1, <1>3, <2>1, PopFacts DEF Place
<1> QED
  BY <1>2, <1>3

LEMMA PlacePush ==
  ASSUME FreelistInv, NEW t \in Users, PushCas(t)
  PROVE  Place(1)' = new[t] /\ \A i \in Nat \ {0} : Place(i + 1)' = Place(i)
<1>1. Len(stack) \in Nat /\ DOMAIN stack = 1 .. Len(stack)
  BY PlaceFacts DEF FreelistInv, FreelistRight
<1>2. Place(1)' = new[t]
  BY <1>1, PushFacts DEF Place
<1>3. ASSUME NEW i \in Nat \ {0}
      PROVE  Place(i + 1)' = Place(i)
  <2>1. CASE i \in 1 .. Len(stack)
    <3>1. i + 1 \in 1 .. Len(stack) + 1
      BY <1>1, <2>1
    <3> QED
      BY <1>1, <2>1, <3>1, PushFacts DEF Place
  <2>2. CASE i \notin 1 .. Len(stack)
    <3>1. i + 1 \notin 1 .. Len(stack) + 1
      BY <1>1, <2>2
    <3> QED
      BY <1>1, <2>2, <3>1, PushFacts DEF Place
  <2> QED
    BY <2>1, <2>2
<1> QED
  BY <1>2, <1>3

(* Every step keeps the list and the stack the same.                       *)
LEMMA ListStep ==
  ASSUME FreelistInv, NEW t \in Users, FreelistStep(t)
  PROVE  ListIsStack'
<1> USE DEF FreelistInv, FreelistRight
<1>1. CASE PopCas(t)
  <2>d. /\ Len(stack) \in Nat \ {0} /\ DOMAIN stack = 1 .. Len(stack)
        /\ DOMAIN stack' = 1 .. Len(stack) - 1
        /\ \A i \in 1 .. Len(stack) - 1 : stack'[i] = stack[i + 1]
    BY <1>1, PopFacts, PlaceFacts
  <2>1. top' = Place(1)'
    <3>1. top' = Place(2)
      BY <1>1, PopFacts DEF PopCas, CasSucceeds
    <3>2. Place(1)' = Place(1 + 1)
      BY <1>1, PlacePop
    <3> QED
      BY <3>1, <3>2
  <2>2. ASSUME NEW i \in DOMAIN stack'
        PROVE  next'[stack'[i].ptr] = Place(i + 1)'
    <3>1. /\ i \in Nat \ {0} /\ i + 1 \in Nat \ {0} /\ i + 1 \in DOMAIN stack
          /\ stack'[i] = stack[i + 1]
      BY <2>d, <2>2
    <3>2. next[stack[i + 1].ptr] = Place((i + 1) + 1)
      BY <3>1 DEF ListIsStack
    <3>3. Place(i + 1)' = Place((i + 1) + 1)
      BY <1>1, <3>1, PlacePop
    <3>4. next' = next
      BY <1>1 DEF PopCas, CasSucceeds
    <3> QED
      BY <3>1, <3>2, <3>3, <3>4
  <2> QED
    BY <2>1, <2>2 DEF ListIsStack
<1>2. CASE PushCas(t)
  <2>1. top' = Place(1)' /\ next' = next
    BY <1>2, PlacePush DEF PushCas, CasSucceeds
  <2>2. ASSUME NEW i \in DOMAIN stack'
        PROVE  next'[stack'[i].ptr] = Place(i + 1)'
    <3>1. CASE i = 1
      <4>1. next[stack'[1].ptr] = Place(1)
        BY <1>2, PushFacts DEF ListIsStack
      <4> QED
        BY <1>2, <2>1, <3>1, <4>1, PlacePush
    <3>2. CASE i # 1
      <4> DEFINE j == i - 1
      <4>1. j \in DOMAIN stack /\ j \in Nat \ {0} /\ i = j + 1 /\ stack'[i] = stack[j]
        BY <1>2, <2>2, <3>2, PushFacts, PlaceFacts
      <4> HIDE DEF j
      <4>2. Place(i + 1)' = Place(j + 1)
        <5>1. j + 1 \in Nat \ {0}
          BY <4>1
        <5>2. Place((j + 1) + 1)' = Place(j + 1)
          BY <1>2, <5>1, PlacePush
        <5> QED
          BY <4>1, <5>2
      <4>3. next[stack[j].ptr] = Place(j + 1)
        BY <4>1 DEF ListIsStack
      <4> QED
        BY <2>1, <4>1, <4>2, <4>3
    <3> QED
      BY <3>1, <3>2
  <2> QED
    BY <2>1, <2>2 DEF ListIsStack
<1>3. CASE ~ PopCas(t) /\ ~ PushCas(t)
  <2>1. ASSUME NEW i \in DOMAIN stack
        PROVE  fe[t] # stack[i].ptr /\ stack[i].ptr \in Elems
    BY PlaceFacts DEF OneOwner
  <2>2. \A i \in DOMAIN stack : next'[stack[i].ptr] = next[stack[i].ptr]
    BY <1>3, <2>1, StackFrame
  <2>3. stack' = stack /\ top' = top
    BY <1>3, StackFrame
  <2> QED
    BY <2>2, <2>3 DEF ListIsStack, Place
<1> QED
  BY <1>1, <1>2, <1>3

(* Every step leaves each element one owner.                               *)
LEMMA OwnerStep ==
  ASSUME FreelistInv, NEW t \in Users, FreelistStep(t)
  PROVE  OneOwner'
<1> USE DEF FreelistInv, FreelistRight
<1>a. fe \in [Users -> Ptr] /\ DOMAIN stack = 1 .. Len(stack) /\ Len(stack) \in Nat
  BY PlaceFacts DEF FreelistTypes
<1>1. CASE PopCas(t)
  <2>1. fe' = [fe EXCEPT ![t] = stack[1].ptr] /\ fe[t] = NIL
    BY <1>1, PopFacts DEF PopCas, CasSucceeds, Move, PushInv, Pushing
  <2>d. /\ DOMAIN stack' = 1 .. Len(stack) - 1 /\ Len(stack) \in Nat \ {0}
        /\ stack[1].ptr \in Elems /\ stack[1].ptr # NIL
        /\ \A i \in 1 .. Len(stack) - 1 : stack'[i] = stack[i + 1]
    BY <1>1, PopFacts
  <2>2. /\ DOMAIN stack' = 1 .. Len(stack) - 1 /\ 1 \in DOMAIN stack
        /\ stack[1].ptr \in Elems /\ stack[1].ptr # NIL
    BY <1>a, <2>d
  <2>3. \A i \in DOMAIN stack' : i + 1 \in DOMAIN stack /\ stack'[i] = stack[i + 1] /\ i \in Nat
    BY <1>a, <2>d
  <2>4. \A k \in DOMAIN stack : k # 1 => \E i \in DOMAIN stack' : stack'[i] = stack[k]
    <3> SUFFICES ASSUME NEW k \in DOMAIN stack, k # 1
                 PROVE  \E i \in DOMAIN stack' : stack'[i] = stack[k]
      OBVIOUS
    <3>1. k - 1 \in DOMAIN stack' /\ (k - 1) + 1 = k
      BY <1>a, <2>2
    <3> QED
      BY <2>3, <3>1
  <2>5. \A i, j \in DOMAIN stack' : stack'[i].ptr = stack'[j].ptr => i = j
    <3> SUFFICES ASSUME NEW i \in DOMAIN stack', NEW j \in DOMAIN stack',
                        stack'[i].ptr = stack'[j].ptr
                 PROVE  i = j
      OBVIOUS
    <3>1. i + 1 = j + 1
      BY <2>3 DEF OneOwner
    <3> QED
      BY <2>3, <3>1
  <2>6. \A u, v \in Users : fe'[u] = fe'[v] /\ fe'[u] # NIL => u = v
    BY <1>a, <2>1, <2>2 DEF OneOwner
  <2>7. ASSUME NEW e \in Elems
        PROVE  (\E i \in DOMAIN stack' : stack'[i].ptr = e) <=> \A u \in Users : fe'[u] # e
    <3>1. CASE e = stack[1].ptr
      <4>1. ASSUME NEW i \in DOMAIN stack', stack'[i].ptr = e PROVE FALSE
        <5>1. i + 1 = 1
          BY <2>2, <2>3, <3>1, <4>1 DEF OneOwner
        <5> QED
          BY <2>2, <4>1, <5>1, <1>a
      <4> QED
        BY <1>a, <2>1, <3>1, <4>1
    <3>2. CASE e # stack[1].ptr
      <4>1. (\E i \in DOMAIN stack' : stack'[i].ptr = e)
            <=> (\E i \in DOMAIN stack : stack[i].ptr = e)
        BY <2>3, <2>4, <3>2
      <4>2. (\A u \in Users : fe'[u] # e) <=> (\A u \in Users : fe[u] # e)
        BY <1>a, <2>1, <3>2, ElemsAssumption
      <4> QED
        BY <4>1, <4>2 DEF OneOwner
    <3> QED
      BY <3>1, <3>2
  <2> QED
    BY <2>5, <2>6, <2>7 DEF OneOwner
<1>2. CASE PushCas(t)
  <2>d. DOMAIN stack' = 1 .. Len(stack) + 1
    BY <1>2, PushFacts
  <2>e. 1 \in DOMAIN stack'
    BY <1>a, <2>d
  <2>1. /\ fe' = [fe EXCEPT ![t] = NIL] /\ fe[t] \in Elems /\ fe[t] # NIL
        /\ stack'[1].ptr = fe[t] /\ 1 \in DOMAIN stack'
    BY <1>2, <2>e, PushFacts DEF PushCas, CasSucceeds
  <2>2. \A i \in DOMAIN stack' : i # 1 => i - 1 \in DOMAIN stack /\ stack'[i] = stack[i - 1]
    BY <1>2, <1>a, PushFacts
  <2>3. \A k \in DOMAIN stack : k + 1 \in DOMAIN stack' /\ stack'[k + 1] = stack[k]
    BY <1>2, <1>a, PushFacts
  <2>4. \A k \in DOMAIN stack : stack[k].ptr # fe[t]
    BY <2>1 DEF OneOwner
  <2>5. \A i, j \in DOMAIN stack' : stack'[i].ptr = stack'[j].ptr => i = j
    <3> SUFFICES ASSUME NEW i \in DOMAIN stack', NEW j \in DOMAIN stack',
                        stack'[i].ptr = stack'[j].ptr
                 PROVE  i = j
      OBVIOUS
    <3>1. CASE i = 1 \/ j = 1
      BY <2>1, <2>2, <2>4, <3>1
    <3>2. CASE i # 1 /\ j # 1
      <4>1. i - 1 = j - 1
        BY <2>2, <3>2 DEF OneOwner
      <4>2. i \in Nat /\ j \in Nat
        BY <1>2, <1>a, PushFacts
      <4> QED
        BY <4>1, <4>2
    <3> QED
      BY <3>1, <3>2
  <2>6. \A u, v \in Users : fe'[u] = fe'[v] /\ fe'[u] # NIL => u = v
    BY <1>a, <2>1 DEF OneOwner
  <2>7. ASSUME NEW e \in Elems
        PROVE  (\E i \in DOMAIN stack' : stack'[i].ptr = e) <=> \A u \in Users : fe'[u] # e
    <3>1. CASE e = fe[t]
      <4>1. ASSUME NEW u \in Users, fe'[u] = e PROVE FALSE
        BY <1>a, <2>1, <3>1, <4>1 DEF OneOwner
      <4> QED
        BY <2>1, <3>1, <4>1
    <3>2. CASE e # fe[t]
      <4>1. (\E i \in DOMAIN stack' : stack'[i].ptr = e)
            <=> (\E i \in DOMAIN stack : stack[i].ptr = e)
        BY <2>1, <2>2, <2>3, <3>2
      <4>2. (\A u \in Users : fe'[u] # e) <=> (\A u \in Users : fe[u] # e)
        BY <1>a, <2>1, <3>2, ElemsAssumption
      <4> QED
        BY <4>1, <4>2 DEF OneOwner
    <3> QED
      BY <3>1, <3>2
  <2> QED
    BY <2>5, <2>6, <2>7 DEF OneOwner
<1>3. CASE ~ PopCas(t) /\ ~ PushCas(t)
  BY <1>3, StackFrame DEF OneOwner
<1> QED
  BY <1>1, <1>2, <1>3

(* A pop that finds no element was called while the list was empty.        *)
LEMMA EmptyStep ==
  ASSUME FreelistInv, NEW t \in Users, FreelistStep(t), Watch
  PROVE  EmptyIsTrue'
<1> SUFFICES ASSUME NEW u \in Users, loc'[u] = "popTest", old'[u].ptr = NIL
             PROVE  wasEmpty'[u]
  BY DEF EmptyIsTrue
<1>1. wasEmpty'[u] <=> wasEmpty[u] \/ top'.ptr = NIL
  BY DEF Watch
<1>a. /\ loc \in [Users -> Locs] /\ old \in [Users -> Pair]
      /\ loc[u] = "popTest" /\ old[u].ptr = NIL => wasEmpty[u]
  BY DEF FreelistInv, FreelistRight, FreelistTypes, EmptyIsTrue
<1>2. CASE ReadTopPointer(t) /\ u = t
  BY <1>1, <1>2, <1>a DEF ReadTopPointer, Pair
<1>3. CASE PopAgain(t) /\ u = t
  BY <1>1, <1>3, <1>a DEF PopAgain, CasFails
<1>4. CASE ~ (u = t /\ (ReadTopPointer(t) \/ PopAgain(t)))
  <2>1. loc[u] = "popTest" /\ old[u] = old'[u]
    BY <1>4, <1>a
    DEF FreelistStep, PopBegin, ReadTopCounter, ReadTopPointer, PopEmpty,
         LoadNextPointer, LoadNextCounter, PopAgain, CasFails, PushBegin, ReadCounter,
         LinkPointer, LinkCounter, PushAgain, PopCas, PushCas, CasSucceeds, Move
  <2> QED
    BY <1>1, <1>a, <2>1
<1> QED
  BY <1>2, <1>3, <1>4

(* A step changes the local variables of one thread only.                  *)
LEMMA OthersKeep ==
  ASSUME FreelistInv, NEW t \in Users, FreelistStep(t), NEW u \in Users \ {t}
  PROVE  loc'[u] = loc[u] /\ old'[u] = old[u] /\ new'[u] = new[u] /\ fe'[u] = fe[u]
<1> /\ loc \in [Users -> Locs] /\ old \in [Users -> Pair]
    /\ new \in [Users -> Pair] /\ fe \in [Users -> Ptr]
  BY DEF FreelistInv, FreelistRight, FreelistTypes
<1> QED
  BY
  DEF FreelistStep, PopBegin, ReadTopCounter, ReadTopPointer, PopEmpty,
      LoadNextPointer,
         LoadNextCounter, PopAgain, CasFails, PushBegin, ReadCounter, LinkPointer,
         LinkCounter, PushAgain, PopCas, PushCas, CasSucceeds, Move

LEMMA NextKept ==
  ASSUME FreelistInv, NEW t \in Users, FreelistStep(t), NEW e \in Elems, fe[t] # e
  PROVE  next'[e] = next[e]
<1> next \in [Elems -> Pair]
  BY DEF FreelistInv, FreelistRight, FreelistTypes
<1> QED
  BY
  DEF FreelistStep, PopBegin, ReadTopCounter, ReadTopPointer, PopEmpty,
      LoadNextPointer,
         LoadNextCounter, PopAgain, CasFails, PushBegin, ReadCounter, LinkPointer,
         LinkCounter, PushAgain, PopCas, PushCas, CasSucceeds, Move

LEMMA AbaGrows ==
  ASSUME FreelistInv, NEW t \in Users, FreelistStep(t)
  PROVE  aba \in Nat /\ aba' \in Nat /\ aba' >= aba
<1> aba \in Nat
  BY DEF FreelistInv, FreelistRight, FreelistTypes
<1> QED
  BY
  DEF FreelistStep, PopBegin, ReadTopCounter, ReadTopPointer, PopEmpty,
      LoadNextPointer,
         LoadNextCounter, PopAgain, CasFails, PushBegin, ReadCounter, LinkPointer,
         LinkCounter, PushAgain, PopCas, PushCas, CasSucceeds, Move

LEMMA TopFresh ==
  ASSUME FreelistInv
  PROVE  /\ top.ctr \in 0 .. aba /\ top.ptr \in Ptr
         /\ \A t \in Users : loc[t] \in Pushing => new[t].ctr # top.ctr
<1> USE DEF FreelistInv, FreelistRight
<1>1. aba \in Nat /\ top = Place(1) /\ top.ptr \in Ptr
  BY PairFacts DEF FreelistTypes, ListIsStack
<1>2. CASE 1 \in DOMAIN stack
  <2>1. top = stack[1]
    BY <1>1, <1>2 DEF Place
  <2> QED
    BY <1>1, <1>2, <2>1 DEF FreshInv
<1>3. CASE 1 \notin DOMAIN stack
  <2>1. top.ctr = 0
    BY <1>1, <1>3 DEF Place, Nothing
  <2> QED
    BY <1>1, <2>1 DEF PushInv
<1> QED
  BY <1>2, <1>3

(* What is on the stack after a step was there before, or was pushed.      *)
LEMMA StackGrows ==
  ASSUME FreelistInv, NEW t \in Users, FreelistStep(t), NEW k \in DOMAIN stack'
  PROVE  \/ PushCas(t) /\ stack'[k] = new[t]
         \/ \E i \in DOMAIN stack : stack'[k] = stack[i]
<1>a. DOMAIN stack = 1 .. Len(stack) /\ Len(stack) \in Nat
  BY PlaceFacts DEF FreelistInv, FreelistRight
<1>1. CASE PopCas(t)
  <2>1. /\ DOMAIN stack' = 1 .. Len(stack) - 1
        /\ \A i \in 1 .. Len(stack) - 1 : stack'[i] = stack[i + 1]
    BY <1>1, PopFacts
  <2>2. k + 1 \in DOMAIN stack /\ stack'[k] = stack[k + 1]
    BY <1>a, <2>1
  <2> QED
    BY <2>2
<1>2. CASE PushCas(t)
  <2>1. /\ DOMAIN stack' = 1 .. Len(stack) + 1 /\ stack'[1] = new[t]
        /\ \A i \in 2 .. Len(stack) + 1 : stack'[i] = stack[i - 1]
    BY <1>2, PushFacts
  <2>2. CASE k # 1
    <3>1. k - 1 \in DOMAIN stack /\ stack'[k] = stack[k - 1]
      BY <1>a, <2>1, <2>2
    <3> QED
      BY <3>1
  <2> QED
    BY <1>2, <2>1, <2>2
<1>3. CASE ~ PopCas(t) /\ ~ PushCas(t)
  BY <1>3, StackFrame
<1> QED
  BY <1>1, <1>2, <1>3

(* What a pop has loaded stays right while its element is on the stack.    *)
LEMMA PopStep ==
  ASSUME FreelistInv, NEW t \in Users, FreelistStep(t)
  PROVE  PopInv'
<1> SUFFICES ASSUME NEW u \in Users
             PROVE  /\ loc'[u] \in Popping => old'[u].ctr <= aba'
                    /\ loc'[u] \in {"popNextCtr", "popCas"} => old'[u].ptr # NIL
                    /\ loc'[u] = "popNextCtr" => \A k \in DOMAIN stack' :
                         stack'[k] = old'[u] => new'[u].ptr = next'[old'[u].ptr].ptr
                    /\ loc'[u] = "popCas" => \A k \in DOMAIN stack' :
                         stack'[k] = old'[u] => new'[u] = next'[old'[u].ptr]
  BY DEF PopInv
<1>a. /\ aba \in Nat /\ loc \in [Users -> Locs] /\ old \in [Users -> Pair] /\ top \in Pair
      /\ new \in [Users -> Pair] /\ next \in [Elems -> Pair] /\ PopInv
  BY DEF FreelistInv, FreelistRight, FreelistTypes
<1>b. \A e \in Elems : fe[t] # e => next'[e] = next[e]
  BY NextKept
<1>1. CASE u # t
  <2>1. loc'[u] = loc[u] /\ old'[u] = old[u] /\ new'[u] = new[u]
    BY <1>1, OthersKeep
  <2>2. aba' \in Nat /\ aba' >= aba /\ old[u].ctr \in Nat
    BY <1>a, AbaGrows, PairFacts
  <2>3. ASSUME NEW k \in DOMAIN stack', stack'[k] = old[u], loc[u] \in {"popNextCtr",
               "popCas"}
        PROVE  /\ \E i \in DOMAIN stack : stack[i] = old[u]
               /\ next'[old[u].ptr] = next[old[u].ptr]
    <3>1. CASE PushCas(t) /\ stack'[k] = new[t]
      <4>1. loc[t] \in Pushing /\ loc[u] \in Popping
        BY <2>3, <3>1 DEF PushCas, CasSucceeds, Move, Pushing, Popping
      <4>2. old[u].ctr # new[t].ctr
        BY <1>1, <4>1 DEF FreelistInv, FreshInv
      <4> QED
        BY <2>3, <3>1, <4>2
    <3>2. ASSUME NEW i \in DOMAIN stack, stack'[k] = stack[i]
          PROVE  /\ \E j \in DOMAIN stack : stack[j] = old[u]
                 /\ next'[old[u].ptr] = next[old[u].ptr]
      <4>1. stack[i].ptr \in Elems /\ fe[t] # stack[i].ptr
        BY PlaceFacts DEF FreelistInv, FreelistRight, OneOwner
      <4>2. next'[stack[i].ptr] = next[stack[i].ptr]
        BY <1>b, <4>1
      <4> QED
        BY <2>3, <3>2, <4>2
    <3> QED
      BY <3>1, <3>2, StackGrows
  <2> QED
    BY <1>a, <2>1, <2>2, <2>3 DEF PopInv
<1>2. CASE u = t
  <2>0. /\ top.ctr \in 0 .. aba /\ \A v \in Users : old[v].ctr \in Nat
        /\ \A v \in Users : loc[v] \in Popping => old[v].ctr <= aba
    BY <1>a, TopFresh, PairFacts DEF PopInv
  <2>1. CASE ReadTopCounter(t)
    BY <1>a, <1>2, <2>0, <2>1 DEF ReadTopCounter, Move, Pair
  <2>2. CASE ReadTopPointer(t)
    BY <1>a, <1>2, <2>0, <2>2 DEF ReadTopPointer, Move, Pair, Popping
  <2>3. CASE LoadNextPointer(t)
    BY <1>a, <1>2, <2>0, <2>3 DEF LoadNextPointer, Move, Pair, Popping
  <2>4. CASE LoadNextCounter(t)
    <3>1. /\ loc[t] = "popNextCtr" /\ loc'[t] = "popCas" /\ old' = old /\ next' = next
          /\ stack' = stack /\ aba' = aba
          /\ new'[t].ptr = new[t].ptr /\ new'[t].ctr = next[old[t].ptr].ctr
      BY <1>a, <2>4 DEF LoadNextCounter, Move, Pair
    <3>2. old[t].ptr # NIL /\ old[t].ctr <= aba
      BY <1>a, <3>1 DEF PopInv, Popping
    <3>3. new'[t] \in Pair /\ next[old[t].ptr] \in Pair
      <4>1. old[t].ptr \in Elems
        BY <1>a, <3>2, PairFacts DEF Ptr
      <4>2. next[old[t].ptr] \in Pair
        BY <1>a, <4>1
      <4>3. next[old[t].ptr].ctr \in Nat
        BY <4>2, PairFacts
      <4> QED
        BY <1>a, <2>4, <4>2, <4>3 DEF LoadNextCounter, Pair
    <3>4. ASSUME NEW k \in DOMAIN stack, stack[k] = old[t]
          PROVE  new'[t] = next[old[t].ptr]
      <4>1. new[t].ptr = next[old[t].ptr].ptr
        BY <1>a, <3>1, <3>4 DEF PopInv
      <4> QED
        BY <3>1, <3>3, <4>1, PairFacts
    <3> QED
      BY <1>2, <3>1, <3>2, <3>4
  <2>5. CASE PopAgain(t)
    BY <1>a, <1>2, <2>0, <2>5 DEF PopAgain, CasFails, Move
  <2>6. CASE ~ (ReadTopCounter(t) \/ ReadTopPointer(t) \/ LoadNextPointer(t)
               \/ LoadNextCounter(t) \/ PopAgain(t))
    <3>1. loc'[t] \notin Popping
      BY <1>a, <2>6
      DEF FreelistStep, PopBegin, PopEmpty, CasFails, PushBegin, ReadCounter,
         LinkPointer, LinkCounter, PushAgain, PopCas, PushCas, CasSucceeds, Move, Popping
    <3> QED
      BY <1>2, <3>1 DEF Popping
  <2> QED
    BY <2>1, <2>2, <2>3, <2>4, <2>5, <2>6
<1> QED
  BY <1>1, <1>2

(* A push keeps its element and links it to what it saw on top.            *)
LEMMA PushStep ==
  ASSUME FreelistInv, NEW t \in Users, FreelistStep(t)
  PROVE  PushInv'
<1> SUFFICES ASSUME NEW u \in Users
             PROVE  /\ fe'[u] # NIL <=> loc'[u] \in Pushing \cup {"has"}
                    /\ loc'[u] \in Pushing => new'[u].ptr = fe'[u] /\ new'[u].ctr \in 1 .. aba'
                    /\ loc'[u] = "linkCtr" => next'[fe'[u]].ptr = old'[u].ptr
                    /\ loc'[u] = "pushCas" => next'[fe'[u]] = old'[u]
  BY DEF PushInv
<1>a. /\ aba \in Nat /\ loc \in [Users -> Locs] /\ old \in [Users -> Pair] /\ top \in Pair
      /\ new \in [Users -> Pair] /\ next \in [Elems -> Pair] /\ fe \in [Users -> Ptr]
  BY DEF FreelistInv, FreelistRight, FreelistTypes
<1>b. aba' \in Nat /\ aba' >= aba
  BY AbaGrows
<1>c. /\ fe[u] # NIL <=> loc[u] \in Pushing \cup {"has"}
      /\ loc[u] \in Pushing => new[u].ptr = fe[u] /\ new[u].ctr \in 1 .. aba
      /\ loc[u] = "linkCtr" => next[fe[u]].ptr = old[u].ptr
      /\ loc[u] = "pushCas" => next[fe[u]] = old[u]
  BY DEF FreelistInv, PushInv
<1>1. CASE u # t
  <2>1. loc'[u] = loc[u] /\ old'[u] = old[u] /\ new'[u] = new[u] /\ fe'[u] = fe[u]
    BY <1>1, OthersKeep
  <2>2. ASSUME fe[u] # NIL
        PROVE  next'[fe[u]] = next[fe[u]]
    BY <1>1, <1>a, <2>2, NextKept DEF FreelistInv, FreelistRight, OneOwner, Ptr
  <2> QED
    BY <1>a, <1>b, <1>c, <2>1, <2>2 DEF Pushing
<1>2. CASE u = t
  <2>1. CASE PopCas(t)
    BY <1>a, <1>2, <2>1, PopFacts DEF PopCas, CasSucceeds, Move, Pushing
  <2>2. CASE PushCas(t)
    BY <1>a, <1>2, <2>2 DEF PushCas, CasSucceeds, Move, Pushing
  <2>3. CASE PushBegin(t)
    BY <1>a, <1>c, <1>2, <2>3 DEF PushBegin, Move, Pushing, Pair
  <2>4. CASE ReadCounter(t)
    BY <1>a, <1>c, <1>2, <2>4 DEF ReadCounter, Move, Pushing, Pair
  <2>5. CASE LinkPointer(t)
    <3>1. fe[t] \in Elems
      BY <1>a, <1>c, <1>2, <2>5 DEF LinkPointer, Move, Pushing, Ptr
    <3>2. next'[fe[t]].ptr = old[t].ptr
      BY <1>a, <2>5, <3>1 DEF LinkPointer, Pair
    <3> QED
      BY <1>a, <1>c, <1>2, <2>5, <3>2 DEF LinkPointer, Move, Pushing
  <2>6. CASE LinkCounter(t)
    <3>1. fe[t] \in Elems /\ next[fe[t]].ptr = old[t].ptr
      BY <1>a, <1>c, <1>2, <2>6 DEF LinkCounter, Move, Pushing, Ptr
    <3>2. next'[fe[t]].ptr = old[t].ptr /\ next'[fe[t]].ctr = old[t].ctr
      BY <1>a, <2>6, <3>1 DEF LinkCounter, Pair
    <3>3. next'[fe[t]] \in Pair
      BY <1>a, <2>6, <3>1 DEF LinkCounter, Pair
    <3>4. next'[fe[t]] = old[t]
      BY <1>a, <3>2, <3>3, PairFacts
    <3> QED
      BY <1>a, <1>c, <1>2, <2>6, <3>4 DEF LinkCounter, Move, Pushing
  <2>7. CASE PushAgain(t)
    BY <1>a, <1>c, <1>2, <2>7 DEF PushAgain, CasFails, Move, Pushing
  <2>8. CASE ~ (PopCas(t) \/ PushCas(t) \/ PushBegin(t) \/ ReadCounter(t) \/ LinkPointer(t)
               \/ LinkCounter(t) \/ PushAgain(t))
    <3>1. /\ loc'[t] \notin Pushing \cup {"has"} /\ loc[t] \notin Pushing \cup {"has"}
          /\ fe' = fe
      BY <1>a, <2>8
      DEF FreelistStep, PopBegin, ReadTopCounter, ReadTopPointer, PopEmpty,
         LoadNextPointer, LoadNextCounter, PopAgain, CasFails, Move, Pushing
    <3> QED
      BY <1>c, <1>2, <3>1 DEF Pushing
  <2> QED
    BY <2>1, <2>2, <2>3, <2>4, <2>5, <2>6, <2>7, <2>8
<1> QED
  BY <1>1, <1>2

(* The counter that a pop has seen is not the one of a later push.         *)
LEMMA SeenStep ==
  ASSUME FreelistInv, NEW t \in Users, FreelistStep(t), NEW u \in Users, loc'[u] \in Popping
  PROVE  /\ old'[u].ctr \in 0 .. aba
         /\ \A v \in Users : loc[v] \in Pushing /\ v # u => old'[u].ctr # new[v].ctr
<1>a. /\ aba \in Nat /\ loc \in [Users -> Locs] /\ old \in [Users -> Pair] /\ top \in Pair
      /\ old[u].ctr \in Nat
  BY PairFacts DEF FreelistInv, FreelistRight, FreelistTypes
<1>b. /\ top.ctr \in 0 .. aba
      /\ \A v \in Users : loc[v] \in Pushing => new[v].ctr # top.ctr
  BY TopFresh
<1>1. CASE loc[u] \in Popping /\ old'[u].ctr = old[u].ctr
  BY <1>a, <1>1 DEF FreelistInv, PopInv, FreshInv
<1>2. CASE old'[u].ctr = top.ctr
  BY <1>b, <1>2
<1>3. (loc[u] \in Popping /\ old'[u].ctr = old[u].ctr) \/ old'[u].ctr = top.ctr
  <2>1. CASE u # t
    BY <2>1, OthersKeep
  <2>2. CASE u = t /\ (ReadTopCounter(t) \/ ReadTopPointer(t))
    BY <1>a, <2>2 DEF ReadTopCounter, ReadTopPointer, Move, Popping, Pair
  <2>3. CASE u = t /\ (LoadNextPointer(t) \/ LoadNextCounter(t) \/ PopAgain(t))
    BY <1>a, <2>3
    DEF LoadNextPointer, LoadNextCounter, PopAgain, CasFails, Move, Popping
  <2>4. CASE u = t /\ ~ (ReadTopCounter(t) \/ ReadTopPointer(t) \/ LoadNextPointer(t)
                        \/ LoadNextCounter(t) \/ PopAgain(t))
    BY <1>a, <2>4
    DEF FreelistStep, PopBegin, PopEmpty, CasFails, PushBegin, ReadCounter,
       LinkPointer, LinkCounter, PushAgain, PopCas, PushCas, CasSucceeds, Move, Popping
  <2> QED
    BY <2>1, <2>2, <2>3, <2>4
<1> QED
  BY <1>1, <1>2, <1>3

(* A counter that is about to be pushed stays new.                         *)
LEMMA FreshStep ==
  ASSUME FreelistInv, NEW t \in Users, FreelistStep(t)
  PROVE  FreshInv'
<1>a. /\ aba \in Nat /\ loc \in [Users -> Locs] /\ new \in [Users -> Pair]
      /\ aba' \in Nat /\ aba' >= aba
  BY AbaGrows DEF FreelistInv, FreelistRight, FreelistTypes
<1>b. \A i \in DOMAIN stack : stack[i].ctr \in 1 .. aba
  BY DEF FreelistInv, FreshInv
<1>1. \A k \in DOMAIN stack' : stack'[k].ctr \in 1 .. aba'
  <2> SUFFICES ASSUME NEW k \in DOMAIN stack' PROVE stack'[k].ctr \in 1 .. aba
    BY <1>a
  <2> QED
    BY <1>b, StackGrows, PushFacts
<1>2. ASSUME NEW v \in Users, loc'[v] \in Pushing
      PROVE  \/ PushBegin(t) /\ v = t /\ new'[v].ctr = aba + 1
             \/ /\ loc[v] \in Pushing /\ new'[v] = new[v]
                /\ ~ (PushCas(t) /\ v = t) /\ ~ (PushBegin(t) /\ v = t)
  <2>1. CASE v # t
    BY <1>2, <2>1, OthersKeep
  <2>2. CASE v = t /\ PushBegin(t)
    <3>1. new'[t] = [ptr |-> fe[t], ctr |-> aba + 1]
      BY <1>a, <2>2 DEF PushBegin
    <3>2. new'[t].ctr = aba + 1
      BY <3>1
    <3> QED
      BY <2>2, <3>2
  <2>3. CASE v = t /\ ~ PushBegin(t)
    BY <1>a, <1>2, <2>3
    DEF FreelistStep, PopBegin, ReadTopCounter, ReadTopPointer, PopEmpty,
         LoadNextPointer, LoadNextCounter, PopAgain, CasFails, ReadCounter, LinkPointer,
         LinkCounter, PushAgain, PopCas, PushCas, CasSucceeds, Move, Pushing
  <2> QED
    BY <2>1, <2>2, <2>3
<1>3. ASSUME NEW v \in Users, loc'[v] \in Pushing, NEW k \in DOMAIN stack'
      PROVE  stack'[k].ctr # new'[v].ctr
  <2>1. CASE PushBegin(t) /\ v = t /\ new'[v].ctr = aba + 1
    <3>1. stack' = stack
      BY <2>1 DEF PushBegin
    <3>2. stack'[k].ctr \in 1 .. aba
      BY <1>b, <3>1
    <3> QED
      BY <1>a, <2>1, <3>2
  <2>2. CASE loc[v] \in Pushing /\ new'[v] = new[v] /\ ~ (PushCas(t) /\ v = t)
    <3>1. CASE PushCas(t) /\ stack'[k] = new[t]
      <4>1. loc[t] \in Pushing /\ v # t
        BY <2>2, <3>1 DEF PushCas, CasSucceeds, Move, Pushing
      <4> QED
        BY <2>2, <3>1, <4>1 DEF FreelistInv, FreshInv
    <3>2. CASE \E i \in DOMAIN stack : stack'[k] = stack[i]
      BY <2>2, <3>2 DEF FreelistInv, FreshInv
    <3> QED
      BY <3>1, <3>2, StackGrows
  <2> QED
    BY <1>2, <1>3, <2>1, <2>2
<1>4. ASSUME NEW v \in Users, loc'[v] \in Pushing, NEW u \in Users \ {v},
             loc'[u] \in Pushing
      PROVE  new'[u].ctr # new'[v].ctr
  <2>1. \A w \in Users : loc[w] \in Pushing => new[w].ctr \in 1 .. aba
    BY DEF FreelistInv, PushInv
  <2>2. CASE PushBegin(t) /\ v = t /\ new'[v].ctr = aba + 1
    <3>1. loc[u] \in Pushing /\ new'[u] = new[u]
      BY <1>2, <1>4, <2>2
    <3>2. new[u].ctr \in 1 .. aba
      BY <2>1, <3>1
    <3> QED
      BY <1>a, <2>2, <3>1, <3>2
  <2>3. CASE PushBegin(t) /\ u = t /\ new'[u].ctr = aba + 1
    <3>1. loc[v] \in Pushing /\ new'[v] = new[v]
      BY <1>2, <1>4, <2>3
    <3>2. new[v].ctr \in 1 .. aba
      BY <2>1, <3>1
    <3> QED
      BY <1>a, <2>3, <3>1, <3>2
  <2>4. CASE loc[v] \in Pushing /\ new'[v] = new[v] /\ loc[u] \in Pushing
        /\ new'[u] = new[u]
    BY <1>4, <2>4 DEF FreelistInv, FreshInv
  <2> QED
    BY <1>2, <1>4, <2>2, <2>3, <2>4
<1>5. ASSUME NEW v \in Users, loc'[v] \in Pushing, NEW u \in Users \ {v},
             loc'[u] \in Popping
      PROVE  old'[u].ctr # new'[v].ctr
  <2>1. /\ old'[u].ctr \in 0 .. aba
        /\ \A w \in Users : loc[w] \in Pushing /\ w # u => old'[u].ctr # new[w].ctr
    BY <1>5, SeenStep
  <2> QED
    BY <1>2, <1>5, <1>a, <2>1
<1> QED
  BY <1>1, <1>3, <1>4, <1>5 DEF FreshInv

(* lfds611_freelist_new builds the stack.                                  *)
LEMMA FreelistStart == FreelistInit => FreelistInv
<1> SUFFICES ASSUME FreelistInit PROVE FreelistInv
  OBVIOUS
<1> DEFINE n == Cardinality(Elems)
<1>1. n \in Nat
  BY ElemsAssumption, FS_CardinalityType
<1>2. PICK s \in Bijection(1 .. n, Elems) :
        /\ stack = [i \in 1 .. n |-> [ptr |-> s[i], ctr |-> n + 1 - i]]
        /\ next = [e \in Elems |-> Place(1 + CHOOSE i \in 1 .. n : s[i] = e)]
  BY DEF FreelistInit
<1>3. /\ s \in [1 .. n -> Elems]
      /\ \A i, j \in 1 .. n : s[i] = s[j] => i = j
      /\ \A e \in Elems : \E i \in 1 .. n : s[i] = e
  BY DEF Bijection, Injection, Surjection, IsInjective
<1> HIDE DEF n
<1> DEFINE place(e) == CHOOSE i \in 1 .. n : s[i] = e
<1>p. /\ \A i \in 1 .. n : place(s[i]) = i
      /\ \A e \in Elems : place(e) \in 1 .. n
  BY <1>3
<1>q. next = [e \in Elems |-> Place(1 + place(e))]
  BY <1>2
<1> HIDE DEF place
<1>4. /\ top = Place(1) /\ aba = n /\ loc = [t \in Users |-> "idle"]
      /\ fe = [t \in Users |-> NIL] /\ old = [t \in Users |-> Nothing]
      /\ new = [t \in Users |-> Nothing] /\ pops = [t \in Users |-> 0]
      /\ wasEmpty = [t \in Users |-> FALSE]
  BY DEF FreelistInit, n
<1>5. /\ stack \in Seq([ptr : Elems, ctr : Nat]) /\ DOMAIN stack = 1 .. n /\ Len(stack) = n
      /\ \A i \in 1 .. n : /\ stack[i] \in [ptr : Elems, ctr : Nat]
                          /\ stack[i].ptr = s[i] /\ stack[i].ctr = n + 1 - i
  <2>1. \A i \in 1 .. n : [ptr |-> s[i], ctr |-> n + 1 - i] \in [ptr : Elems, ctr : Nat]
    BY <1>1, <1>3
  <2>2. stack \in [1 .. n -> [ptr : Elems, ctr : Nat]]
    BY <1>2, <2>1
  <2>3. stack \in Seq([ptr : Elems, ctr : Nat])
    BY <1>1, <2>2, SeqDef
  <2>4. Len(stack) = n
    BY <1>1, <2>2, <2>3, LenProperties
  <2> QED
    BY <1>2, <2>2, <2>3, <2>4
<1>6. \A i \in Nat : Place(i) \in Pair
  <2>1. \A i \in DOMAIN stack : stack[i] \in Pair
    BY <1>5 DEF Pair, Ptr
  <2> QED
    BY <2>1, PairFacts DEF Place
<1>7. FreelistTypes
  <2>1. \A e \in Elems : 1 + place(e) \in Nat
    BY <1>1, <1>p
  <2>2. next \in [Elems -> Pair]
    BY <1>q, <1>6, <2>1
  <2> QED
    BY <1>1, <1>4, <1>5, <1>6, <2>2, PairFacts, MaxPopsAssumption
    DEF FreelistTypes, Locs, Ptr
<1>8. ListIsStack
  <2>1. ASSUME NEW i \in DOMAIN stack
        PROVE  next[stack[i].ptr] = Place(i + 1)
    <3>1. stack[i].ptr = s[i] /\ s[i] \in Elems /\ i \in 1 .. n
      BY <1>3, <1>5
    <3>2. place(s[i]) = i
      BY <1>p, <3>1
    <3>3. next[s[i]] = Place(1 + i)
      BY <1>q, <3>1, <3>2
    <3>4. 1 + i = i + 1
      BY <1>1, <3>1
    <3> QED
      BY <3>1, <3>3, <3>4
  <2> QED
    BY <1>4, <2>1 DEF ListIsStack
<1>9. OneOwner
  <2>1. \A t \in Users : fe[t] = NIL
    BY <1>4
  <2>2. \A e \in Elems : \E i \in DOMAIN stack : stack[i].ptr = e
    <3>1. DOMAIN stack = 1 .. n /\ \A i \in 1 .. n : stack[i].ptr = s[i]
      BY <1>5
    <3> QED
      BY <1>3, <3>1
  <2>3. \A i, j \in DOMAIN stack : stack[i].ptr = stack[j].ptr => i = j
    BY <1>3, <1>5
  <2> QED
    BY <2>1, <2>2, <2>3, ElemsAssumption DEF OneOwner
<1>10. EmptyIsTrue /\ PopInv /\ PushInv
  BY <1>4 DEF EmptyIsTrue, PopInv, PushInv, Popping, Pushing
<1>11. FreshInv
  <2>1. \A i \in DOMAIN stack : stack[i].ctr \in 1 .. aba
    BY <1>1, <1>4, <1>5
  <2> QED
    BY <1>4, <2>1 DEF FreshInv, Pushing
<1> QED
  BY <1>7, <1>8, <1>9, <1>10, <1>11 DEF FreelistInv, FreelistRight

(* FreelistInv is inductive.                                               *)
THEOREM FreelistInvariance == FreelistSpec => []FreelistInv
<1>1. FreelistInv /\ [FreelistNext]_freelistVars => FreelistInv'
  <2> SUFFICES ASSUME FreelistInv, [FreelistNext]_freelistVars PROVE FreelistInv'
    OBVIOUS
  <2>1. ASSUME NEW t \in Users, FreelistStep(t), Watch
        PROVE  FreelistInv'
    BY <2>1, FreelistTypeStep, ListStep, OwnerStep, EmptyStep, PopStep,
       PushStep, FreshStep
    DEF FreelistInv, FreelistRight
  <2>2. CASE UNCHANGED freelistVars
    BY <2>2
    DEF freelistVars, FreelistInv, FreelistRight, FreelistTypes, ListIsStack,
        Place,
            OneOwner, EmptyIsTrue, PopInv, PushInv, FreshInv
  <2> QED
    BY <2>1, <2>2 DEF FreelistNext
<1> QED
  BY FreelistStart, <1>1, PTL DEF FreelistSpec

(* Whatever threads pop and push, in whatever order their reads and writes *)
(* fall, fs->top and the next pointers are a stack that gives each element *)
(* to one thread (lfds611_freelist_pop, lfds611_freelist_push).            *)
THEOREM FreelistRightAlways == FreelistSpec => []FreelistRight
<1>1. FreelistInv => FreelistRight
  BY DEF FreelistInv
<1> QED
  BY FreelistInvariance, <1>1, PTL

-----------------------------------------------------------------------------
(***************************************************************************)
(* Mqueue: messages are read once and in order, and survive crashes.       *)
(***************************************************************************)

(* The name refers to the newest queue, and the writer writes to no queue  *)
(* that an older one with messages follows.                                *)
QueueInv ==
  /\ bound # NoQueue => bound = created
  /\ \A n \in Nodes : mqd[n] <= created
  /\ \A q \in Ids : queues[q] # <<>> => q <= created
  /\ mqd["writer"] # NoQueue => \A q \in Ids : q > mqd["writer"] => queues[q] = <<>>

(* The oldest queue that the reader may read from.                         *)
ReadsFrom == IF mqd["reader"] = NoQueue THEN created ELSE mqd["reader"]

(* What is queued was taken by mq_send, in this order over all queues, and *)
(* what the reader may still get is newer than what it got.                *)
AgeInv ==
  /\ \A q \in Ids : \A i, j \in DOMAIN queues[q] : i < j => queues[q][i] < queues[q][j]
  /\ \A q \in Ids : \A i \in DOMAIN queues[q] : queues[q][i] \in accepted
  /\ \A p, q \in Ids : p < q =>
       \A i \in DOMAIN queues[p], j \in DOMAIN queues[q] : queues[p][i] < queues[q][j]
  /\ \A k \in DOMAIN received, q \in Ids : q >= ReadsFrom =>
       \A i \in DOMAIN queues[q] : received[k] < queues[q][i]

(* Without a clean-up there is one queue, and it keeps its name.           *)
CrashInv == cleanups = 0 =>
  /\ created \in {0, 1} /\ bound = created
  /\ \A n \in Nodes : mqd[n] \in {NoQueue, bound}
  /\ \A m \in accepted :
       m \in Range(received) \/ (bound # NoQueue /\ m \in Range(queues[bound]))

MqInv == MqTypes /\ ReadInOrder /\ QueueInv /\ AgeInv /\ CrashInv

(* Sequences without their first element, with one more, and over a larger *)
(* set.                                                                    *)
LEMMA TailFacts ==
  ASSUME NEW S, NEW s \in Seq(S), s # <<>>
  PROVE  /\ Head(s) = s[1] /\ s[1] \in S /\ Tail(s) \in Seq(S)
         /\ Len(s) \in Nat \ {0} /\ Len(Tail(s)) = Len(s) - 1
         /\ DOMAIN s = 1 .. Len(s) /\ DOMAIN Tail(s) = 1 .. Len(s) - 1
         /\ \A i \in 1 .. Len(s) - 1 : Tail(s)[i] = s[i + 1]
OBVIOUS

LEMMA AppendFacts ==
  ASSUME NEW S, NEW s \in Seq(S), NEW x
  PROVE  /\ Len(s) \in Nat /\ DOMAIN s = 1 .. Len(s)
         /\ Len(Append(s, x)) = Len(s) + 1
         /\ DOMAIN Append(s, x) = 1 .. Len(s) + 1
         /\ \A i \in 1 .. Len(s) : Append(s, x)[i] = s[i]
         /\ Append(s, x)[Len(s) + 1] = x
OBVIOUS

LEMMA SeqOver ==
  ASSUME NEW S, NEW T, S \subseteq T, NEW s \in Seq(S)
  PROVE  s \in Seq(T)
<1>1. Len(s) \in Nat /\ s \in [1 .. Len(s) -> S]
  BY LenProperties
<1>2. s \in [1 .. Len(s) -> T]
  BY <1>1
<1> QED
  BY <1>1, <1>2, SeqDef

LEMMA ElementFacts ==
  ASSUME NEW S, NEW s \in Seq(S)
  PROVE  /\ Len(s) \in Nat /\ DOMAIN s = 1 .. Len(s) /\ s = <<>> => DOMAIN s = {}
         /\ \A i \in DOMAIN s : s[i] \in S
<1>1. Len(s) \in Nat /\ DOMAIN s = 1 .. Len(s) /\ (s = <<>> => DOMAIN s = {})
  OBVIOUS
<1> QED
  BY <1>1, ElementOfSeq

LEMMA QueueFactsMq ==
  ASSUME MqTypes, NEW q \in Ids
  PROVE  /\ queues[q] \in Seq(1 .. nr) /\ Len(queues[q]) \in Nat
         /\ DOMAIN queues[q] = 1 .. Len(queues[q])
         /\ queues[q] = <<>> => DOMAIN queues[q] = {}
         /\ \A i \in DOMAIN queues[q] : queues[q][i] \in 1 .. nr
<1>1. queues[q] \in Seq(1 .. nr)
  BY DEF MqTypes
<1> DEFINE s == queues[q]
<1> HIDE DEF s
<1>2. /\ Len(s) \in Nat /\ DOMAIN s = 1 .. Len(s) /\ s = <<>> => DOMAIN s = {}
      /\ \A i \in DOMAIN s : s[i] \in 1 .. nr
  BY <1>1, ElementFacts DEF s
<1> QED
  BY <1>1, <1>2 DEF s

LEMMA ReceivedFacts ==
  ASSUME MqTypes
  PROVE  /\ Len(received) \in Nat /\ DOMAIN received = 1 .. Len(received)
         /\ \A k \in DOMAIN received : received[k] \in accepted /\ received[k] \in 1 .. nr
<1>1. received \in Seq(accepted) /\ accepted \subseteq 1 .. nr
  BY DEF MqTypes
<1>2. /\ Len(received) \in Nat /\ DOMAIN received = 1 .. Len(received)
      /\ \A k \in DOMAIN received : received[k] \in accepted
  BY <1>1, ElementFacts
<1> QED
  BY <1>1, <1>2

(* What mqueue_write, mqueue_read and the two ends of a block do.          *)
LEMMA WriteFacts ==
  ASSUME MqTypes, MqueueWrite, NEW q, q = mqd["writer"]
  PROVE  /\ q \in Ids /\ q # NoQueue /\ nr' = nr + 1 /\ nr \in Nat
         /\ UNCHANGED <<bound, msgsize, created, mqd, len, received, cleanups, crashes>>
         /\ \/ UNCHANGED <<queues, accepted>>
            \/ /\ accepted' = accepted \cup {nr + 1}
               /\ Len(queues[q]) < BufferLen
               /\ queues' = [queues EXCEPT ![q] = Append(queues[q], nr + 1)]
               /\ DOMAIN queues'[q] = 1 .. Len(queues[q]) + 1
               /\ Len(queues'[q]) = Len(queues[q]) + 1
               /\ \A i \in 1 .. Len(queues[q]) : queues'[q][i] = queues[q][i]
               /\ queues'[q][Len(queues[q]) + 1] = nr + 1
               /\ \A p \in Ids \ {q} : queues'[p] = queues[p]
<1>1. q \in Ids /\ q # NoQueue /\ nr' = nr + 1 /\ nr \in Nat
  BY DEF MqTypes, MqueueWrite, Nodes
<1>2. UNCHANGED <<bound, msgsize, created, mqd, len, received, cleanups, crashes>>
  BY DEF MqueueWrite
<1>3. CASE Accepts(q)
  <2>1. /\ accepted' = accepted \cup {nr + 1} /\ Len(queues[q]) < BufferLen
        /\ queues' = [queues EXCEPT ![q] = Append(queues[q], nr + 1)]
    BY <1>1, <1>3 DEF MqueueWrite, Accepts
  <2>2. queues'[q] = Append(queues[q], nr + 1) /\ \A p \in Ids \ {q} : queues'[p] = queues[p]
    BY <1>1, <2>1 DEF MqTypes
  <2> QED
    BY <1>1, <1>2, <2>1, <2>2, AppendFacts DEF MqTypes
<1>4. CASE ~ Accepts(q)
  BY <1>1, <1>2, <1>4 DEF MqueueWrite
<1> QED
  BY <1>3, <1>4

LEMMA ReadFacts ==
  ASSUME MqTypes, MqueueRead, NEW q, q = mqd["reader"]
  PROVE  /\ q \in Ids /\ q # NoQueue
         /\ UNCHANGED <<bound, msgsize, created, mqd, len, nr, accepted, cleanups, crashes>>
         /\ Len(queues[q]) \in Nat \ {0}
         /\ queues' = [queues EXCEPT ![q] = Tail(queues[q])]
         /\ DOMAIN queues'[q] = 1 .. Len(queues[q]) - 1
         /\ Len(queues'[q]) = Len(queues[q]) - 1
         /\ queues'[q] \in Seq(1 .. nr)
         /\ \A i \in 1 .. Len(queues[q]) - 1 : queues'[q][i] = queues[q][i + 1]
         /\ \A p \in Ids \ {q} : queues'[p] = queues[p]
         /\ received' = Append(received, queues[q][1])
         /\ DOMAIN received' = 1 .. Len(received) + 1
         /\ \A k \in 1 .. Len(received) : received'[k] = received[k]
         /\ received'[Len(received) + 1] = queues[q][1]
<1>1. /\ q \in Ids /\ q # NoQueue /\ queues[q] # <<>> /\ queues[q] \in Seq(1 .. nr)
      /\ UNCHANGED <<bound, msgsize, created, mqd, len, nr, accepted, cleanups, crashes>>
      /\ queues' = [queues EXCEPT ![q] = Tail(queues[q])]
      /\ received' = Append(received, Head(queues[q]))
  BY DEF MqTypes, MqueueRead, Nodes
<1>2. queues'[q] = Tail(queues[q]) /\ \A p \in Ids \ {q} : queues'[p] = queues[p]
  BY <1>1 DEF MqTypes
<1>3. /\ Len(queues[q]) \in Nat \ {0} /\ Head(queues[q]) = queues[q][1]
      /\ DOMAIN queues'[q] = 1 .. Len(queues[q]) - 1
      /\ Len(queues'[q]) = Len(queues[q]) - 1
      /\ queues'[q] \in Seq(1 .. nr)
      /\ \A i \in 1 .. Len(queues[q]) - 1 : queues'[q][i] = queues[q][i + 1]
  <2> DEFINE s == queues[q]
  <2>1. s \in Seq(1 .. nr) /\ s # <<>> /\ queues'[q] = Tail(s)
    BY <1>1, <1>2
  <2> HIDE DEF s
  <2>2. /\ Len(s) \in Nat \ {0} /\ Head(s) = s[1]
        /\ DOMAIN queues'[q] = 1 .. Len(s) - 1 /\ Len(queues'[q]) = Len(s) - 1
        /\ queues'[q] \in Seq(1 .. nr)
        /\ \A i \in 1 .. Len(s) - 1 : queues'[q][i] = s[i + 1]
    BY <2>1, TailFacts
  <2> QED
    BY <2>2 DEF s
<1>4. /\ DOMAIN received' = 1 .. Len(received) + 1
      /\ \A k \in 1 .. Len(received) : received'[k] = received[k]
      /\ received'[Len(received) + 1] = Head(queues[q])
  BY <1>1, AppendFacts DEF MqTypes
<1> QED
  BY <1>1, <1>2, <1>3, <1>4

LEMMA CloseFacts ==
  ASSUME MqTypes, NEW n \in Nodes, CleanupBlock(n) \/ ProcessDies(n)
  PROVE  /\ mqd[n] # NoQueue /\ mqd' = [mqd EXCEPT ![n] = NoQueue]
         /\ UNCHANGED <<msgsize, created, len, mqHistory>>
         /\ bound' \in {bound, NoQueue} /\ cleanups' \in Nat /\ crashes' \in Nat
         /\ \A q \in Ids : queues'[q] = queues[q] \/ queues'[q] = <<>>
         /\ queues' \in [Ids -> Seq(1 .. nr)]
         /\ cleanups' = 0 => cleanups = 0 /\ bound' = bound /\
              (mqd[n] = bound => queues' = queues)
<1>a. /\ queues \in [Ids -> Seq(1 .. nr)] /\ cleanups \in Nat /\ crashes \in Nat
      /\ <<>> \in Seq(1 .. nr)
  BY DEF MqTypes
<1>1. Close(n) /\ mqd[n] # NoQueue /\ UNCHANGED <<msgsize, created, len, mqHistory>>
  BY DEF CleanupBlock, ProcessDies
<1>2. /\ mqd' = [mqd EXCEPT ![n] = NoQueue]
      /\ queues' = queues \/ queues' = [queues EXCEPT ![mqd[n]] = <<>>]
      /\ mqd[n] = bound' => queues' = queues
  BY <1>1 DEF Close
<1>3. /\ \A q \in Ids : queues'[q] = queues[q] \/ queues'[q] = <<>>
      /\ queues' \in [Ids -> Seq(1 .. nr)]
  BY <1>a, <1>2
<1>4. /\ bound' \in {bound, NoQueue} /\ cleanups' \in Nat /\ crashes' \in Nat
      /\ cleanups' = 0 => cleanups = 0 /\ bound' = bound
  BY <1>a DEF CleanupBlock, ProcessDies
<1> QED
  BY <1>1, <1>2, <1>3, <1>4

LEMMA OpenFacts ==
  ASSUME MqTypes, QueueInv, NEW n \in Nodes, InitBlock(n)
  PROVE  /\ mqd[n] = NoQueue /\ mqd' = [mqd EXCEPT ![n] = created']
         /\ bound' = created' /\ created' \in Ids /\ created' >= created
         /\ bound # NoQueue => bound' = bound /\ created' = created
         /\ bound = NoQueue => created' = created + 1
         /\ UNCHANGED <<queues, mqHistory, cleanups, crashes>>
         /\ msgsize' \in [Ids -> Lens \cup {NoQueue}]
         /\ len' \in [Nodes -> Lens \cup {NoQueue}]
<1>a. /\ bound \in Ids \cup {NoQueue} /\ created \in 0 .. MaxQueues /\ MaxQueues \in Nat
      /\ msgsize \in [Ids -> Lens \cup {NoQueue}] /\ len \in [Nodes -> Lens \cup {NoQueue}]
      /\ bound # NoQueue => bound = created
  BY BoundsAssumption DEF MqTypes, QueueInv
<1>1. PICK l \in Lens : len' = [len EXCEPT ![n] = l]
  BY DEF InitBlock
<1>2. len' \in [Nodes -> Lens \cup {NoQueue}] /\ len'[n] \in Lens
  BY <1>a, <1>1
<1>3. /\ mqd[n] = NoQueue /\ UNCHANGED <<queues, mqHistory, cleanups, crashes>>
      /\ mqd' = [mqd EXCEPT ![n] = bound']
  BY DEF InitBlock, Open
<1>4. CASE bound # NoQueue
  <2>1. UNCHANGED <<bound, created, msgsize>>
    BY <1>4 DEF InitBlock, Open
  <2> QED
    BY <1>a, <1>2, <1>3, <1>4, <2>1
<1>5. CASE bound = NoQueue
  <2>1. /\ created < MaxQueues /\ created' = created + 1 /\ bound' = created'
        /\ msgsize' = [msgsize EXCEPT ![created'] = len'[n]]
    BY <1>5 DEF InitBlock, Open
  <2>2. created' \in Ids /\ created' >= created
    BY <1>a, <2>1 DEF Ids
  <2> QED
    BY <1>a, <1>2, <1>3, <1>5, <2>1, <2>2
<1> QED
  BY <1>4, <1>5

(* Every step keeps the types.                                             *)
LEMMA MqTypeStep ==
  ASSUME MqTypes, QueueInv, AgeInv, [MqNext]_mqVars
  PROVE  MqTypes'
<1>1. ASSUME NEW n \in Nodes, InitBlock(n)
      PROVE  MqTypes'
  <2>1. /\ bound' \in Ids /\ created' \in 0 .. MaxQueues
        /\ mqd' \in [Nodes -> Ids \cup {NoQueue}]
        /\ msgsize' \in [Ids -> Lens \cup {NoQueue}]
        /\ len' \in [Nodes -> Lens \cup {NoQueue}]
    <3>1. /\ bound' \in Ids /\ created' \in Ids /\ mqd' = [mqd EXCEPT ![n] = created']
          /\ msgsize' \in [Ids -> Lens \cup {NoQueue}]
          /\ len' \in [Nodes -> Lens \cup {NoQueue}]
      BY <1>1, OpenFacts
    <3>2. created' \in 0 .. MaxQueues
      BY <3>1, BoundsAssumption DEF Ids
    <3>3. mqd' \in [Nodes -> Ids \cup {NoQueue}]
      BY <3>1 DEF MqTypes
    <3> QED
      BY <3>1, <3>2, <3>3
  <2>2. UNCHANGED <<queues, nr, accepted, received, cleanups, crashes>>
    BY <1>1, OpenFacts DEF mqHistory
  <2> QED
    BY <2>1, <2>2 DEF MqTypes
<1>2. ASSUME NEW n \in Nodes, CleanupBlock(n) \/ ProcessDies(n)
      PROVE  MqTypes'
  <2>1. /\ mqd' \in [Nodes -> Ids \cup {NoQueue}] /\ bound' \in Ids \cup {NoQueue}
        /\ UNCHANGED <<msgsize, created, len, nr, accepted, received>>
        /\ cleanups' \in Nat /\ crashes' \in Nat
        /\ queues' \in [Ids -> Seq(1 .. nr)]
    BY <1>2, CloseFacts DEF mqHistory, MqTypes
  <2>2. \A q \in Ids : Len(queues'[q]) <= BufferLen
    <3> SUFFICES ASSUME NEW q \in Ids PROVE Len(queues'[q]) <= BufferLen
      OBVIOUS
    <3>1. queues'[q] = queues[q] \/ queues'[q] = <<>>
      BY <1>2, CloseFacts
    <3>2. Len(queues[q]) <= BufferLen /\ Len(<<>>) <= BufferLen
      BY BoundsAssumption DEF MqTypes
    <3> QED
      BY <3>1, <3>2
  <2> QED
    BY <2>1, <2>2 DEF MqTypes
<1>3. CASE MqueueWrite
  <2> DEFINE q == mqd["writer"]
  <2>1. /\ q \in Ids /\ nr' = nr + 1 /\ nr \in Nat
        /\ UNCHANGED <<bound, msgsize, created, mqd, len, received, cleanups, crashes>>
    BY <1>3, WriteFacts
  <2>2. CASE UNCHANGED <<queues, accepted>>
    <3>1. \A p \in Ids : queues[p] \in Seq(1 .. nr + 1)
      <4> SUFFICES ASSUME NEW p \in Ids PROVE queues[p] \in Seq(1 .. nr + 1)
        OBVIOUS
      <4>1. queues[p] \in Seq(1 .. nr) /\ 1 .. nr \subseteq 1 .. nr + 1
        BY <2>1 DEF MqTypes
      <4> QED
        BY <4>1, SeqOver
    <3>2. queues \in [Ids -> Seq(1 .. nr + 1)]
      BY <3>1 DEF MqTypes
    <3>3. accepted \subseteq 1 .. nr + 1
      BY <2>1 DEF MqTypes
    <3> QED
      BY <2>1, <2>2, <3>2, <3>3 DEF MqTypes
  <2>3. CASE ~ UNCHANGED <<queues, accepted>>
    <3>1. /\ accepted' = accepted \cup {nr + 1} /\ Len(queues[q]) < BufferLen
          /\ queues' = [queues EXCEPT ![q] = Append(queues[q], nr + 1)]
          /\ Len(queues'[q]) = Len(queues[q]) + 1
      BY <1>3, <2>3, WriteFacts
    <3>2. \A p \in Ids : queues[p] \in Seq(1 .. nr + 1)
      <4> SUFFICES ASSUME NEW p \in Ids PROVE queues[p] \in Seq(1 .. nr + 1)
        OBVIOUS
      <4>1. queues[p] \in Seq(1 .. nr) /\ 1 .. nr \subseteq 1 .. nr + 1
        BY <2>1 DEF MqTypes
      <4> QED
        BY <4>1, SeqOver
    <3>3. queues' \in [Ids -> Seq(1 .. nr + 1)]
      <4>1. nr + 1 \in 1 .. nr + 1
        BY <2>1
      <4>2. Append(queues[q], nr + 1) \in Seq(1 .. nr + 1)
        BY <2>1, <3>2, <4>1, AppendProperties
      <4> QED
        BY <3>1, <3>2, <4>2 DEF MqTypes
    <3>4. \A p \in Ids : Len(queues'[p]) <= BufferLen
      <4>1. Len(queues[q]) \in Nat /\ BufferLen \in Nat
        BY <2>1, QueueFactsMq, BoundsAssumption
      <4>2. Len(queues'[q]) <= BufferLen
        BY <3>1, <4>1
      <4>3. \A p \in Ids \ {q} : queues'[p] = queues[p]
        BY <3>1 DEF MqTypes
      <4> QED
        BY <4>2, <4>3 DEF MqTypes
    <3>5. accepted' \subseteq 1 .. nr + 1 /\ accepted \subseteq accepted'
      BY <2>1, <3>1 DEF MqTypes
    <3>6. received' \in Seq(accepted')
      BY <2>1, <3>5, SeqOver DEF MqTypes
    <3> QED
      BY <2>1, <3>3, <3>4, <3>5, <3>6 DEF MqTypes
  <2> QED
    BY <2>2, <2>3
<1>4. CASE MqueueRead
  <2> DEFINE q == mqd["reader"]
  <2>1. /\ q \in Ids
        /\ UNCHANGED <<bound, msgsize, created, mqd, len, nr, accepted, cleanups, crashes>>
        /\ Len(queues[q]) \in Nat \ {0} /\ Len(queues'[q]) = Len(queues[q]) - 1
        /\ queues' = [queues EXCEPT ![q] = Tail(queues[q])] /\ queues'[q] \in Seq(1 .. nr)
        /\ \A p \in Ids \ {q} : queues'[p] = queues[p]
        /\ received' = Append(received, queues[q][1])
    BY <1>4, ReadFacts
  <2>2. queues' \in [Ids -> Seq(1 .. nr)]
    BY <2>1 DEF MqTypes
  <2>3. \A p \in Ids : Len(queues'[p]) <= BufferLen
    <3>1. Len(queues'[q]) <= BufferLen
      BY <2>1, BoundsAssumption DEF MqTypes
    <3> QED
      BY <2>1, <3>1 DEF MqTypes
  <2>4. queues[q][1] \in accepted
    <3>1. 1 \in DOMAIN queues[q]
      BY <2>1, QueueFactsMq
    <3> QED
      BY <2>1, <3>1 DEF AgeInv
  <2>5. received' \in Seq(accepted)
    BY <2>1, <2>4, AppendProperties DEF MqTypes
  <2> QED
    BY <2>1, <2>2, <2>3, <2>5 DEF MqTypes
<1>5. CASE UNCHANGED mqVars
  BY <1>5 DEF mqVars, mqHistory, MqTypes
<1> QED
  BY <1>1, <1>2, <1>3, <1>4, <1>5 DEF MqNext

LEMMA ReadsFromType ==
  ASSUME MqTypes
  PROVE  /\ created \in Nat /\ ReadsFrom \in Nat /\ Ids \subseteq Nat
         /\ "reader" \in Nodes /\ "writer" \in Nodes
         /\ \A n \in Nodes : mqd[n] \in Nat
<1>1. /\ created \in Nat /\ Ids \subseteq Nat /\ NoQueue = 0
      /\ "reader" \in Nodes /\ "writer" \in Nodes
  BY BoundsAssumption DEF MqTypes, Ids, Nodes, NoQueue
<1>2. ASSUME NEW n \in Nodes
      PROVE  mqd[n] \in Nat
  <2>1. mqd[n] \in Ids \cup {NoQueue}
    BY DEF MqTypes
  <2> QED
    BY <2>1, BoundsAssumption DEF Ids, NoQueue
<1> QED
  BY <1>1, <1>2 DEF ReadsFrom

(* Every step keeps the order of the queues.                               *)
LEMMA QueueStep ==
  ASSUME MqTypes, QueueInv, [MqNext]_mqVars
  PROVE  QueueInv'
<1>a. /\ created \in Nat /\ mqd \in [Nodes -> Ids \cup {NoQueue}] /\ Ids \subseteq Nat
      /\ "writer" \in Nodes /\ NoQueue = 0
  BY BoundsAssumption DEF MqTypes, Nodes, Ids, NoQueue
<1>1. ASSUME NEW n \in Nodes, InitBlock(n)
      PROVE  QueueInv'
  <2>1. /\ mqd' = [mqd EXCEPT ![n] = created'] /\ bound' = created' /\ created' \in Ids
        /\ created' >= created /\ queues' = queues
    BY <1>1, OpenFacts
  <2>2. \A m \in Nodes : mqd'[m] <= created'
    <3> SUFFICES ASSUME NEW m \in Nodes PROVE mqd'[m] <= created'
      OBVIOUS
    <3>1. /\ created' \in Nat /\ created' >= created
          /\ mqd'[m] = IF m = n THEN created' ELSE mqd[m]
      BY <1>a, <2>1
    <3>2. mqd[m] <= created /\ mqd[m] \in Nat
      <4>1. mqd[m] \in Nat
        BY ReadsFromType
      <4> QED
        BY <4>1 DEF QueueInv
    <3> QED
      BY <1>a, <3>1, <3>2
  <2>3. ASSUME NEW q \in Ids, q > mqd'["writer"], mqd'["writer"] # NoQueue
        PROVE  queues[q] = <<>>
    <3>1. CASE n = "writer"
      <4>1. ~ (q <= created)
        BY <1>a, <2>1, <2>3, <3>1
      <4> QED
        BY <4>1 DEF QueueInv
    <3>2. CASE n # "writer"
      BY <1>a, <2>1, <2>3, <3>2 DEF QueueInv
    <3> QED
      BY <3>1, <3>2
  <2>4. ASSUME NEW q \in Ids, queues[q] # <<>>
        PROVE  q <= created'
    <3>1. q <= created
      BY <2>4 DEF QueueInv
    <3>2. q \in Nat /\ created \in Nat /\ created' \in Nat
      BY <1>a, <2>1
    <3> QED
      BY <2>1, <3>1, <3>2
  <2> QED
    BY <2>1, <2>2, <2>3, <2>4 DEF QueueInv
<1>2. ASSUME NEW n \in Nodes, CleanupBlock(n) \/ ProcessDies(n)
      PROVE  QueueInv'
  <2>1. /\ mqd' = [mqd EXCEPT ![n] = NoQueue] /\ created' = created
        /\ bound' \in {bound, NoQueue}
        /\ \A q \in Ids : queues'[q] = queues[q] \/ queues'[q] = <<>>
    BY <1>2, CloseFacts
  <2> QED
    BY <1>a, <2>1 DEF QueueInv
<1>3. CASE MqueueWrite
  <2> DEFINE q == mqd["writer"]
  <2>1. /\ q \in Ids /\ q # NoQueue /\ UNCHANGED <<bound, created, mqd>>
        /\ \A p \in Ids \ {q} : queues'[p] = queues[p]
    BY <1>3, WriteFacts
  <2>2. q <= created /\ q \in Nat
    BY <1>a, <2>1 DEF QueueInv
  <2>3. \A p \in Ids : queues'[p] # <<>> => p <= created
    BY <2>1, <2>2 DEF QueueInv
  <2>4. \A p \in Ids : p > q => queues'[p] = <<>>
    <3> SUFFICES ASSUME NEW p \in Ids, p > q PROVE queues'[p] = <<>>
      OBVIOUS
    <3>1. p # q
      BY <1>a, <2>2
    <3> QED
      BY <2>1, <3>1 DEF QueueInv
  <2> HIDE DEF q
  <2> QED
    BY <2>1, <2>3, <2>4 DEF QueueInv, q
<1>4. CASE MqueueRead
  <2> DEFINE q == mqd["reader"]
  <2>1. /\ q \in Ids /\ UNCHANGED <<bound, created, mqd>> /\ queues[q] # <<>>
        /\ \A p \in Ids \ {q} : queues'[p] = queues[p]
    BY <1>4, ReadFacts DEF MqueueRead
  <2> QED
    BY <2>1 DEF QueueInv
<1>5. CASE UNCHANGED mqVars
  BY <1>5 DEF mqVars, QueueInv
<1> QED
  BY <1>1, <1>2, <1>3, <1>4, <1>5 DEF MqNext

(* The order of the messages survives what empties queues.                 *)
LEMMA AgeShrinks ==
  ASSUME MqTypes, AgeInv, UNCHANGED <<accepted, received>>,
         ReadsFrom' \in Nat, ReadsFrom' >= ReadsFrom,
         \A q \in Ids : queues'[q] = queues[q] \/ queues'[q] = <<>>
  PROVE  AgeInv'
<1>1. \A q \in Ids : \A i \in DOMAIN queues'[q] :
        queues'[q] = queues[q] /\ i \in DOMAIN queues[q] /\ queues'[q][i] = queues[q][i]
  OBVIOUS
<1>2. \A q \in Ids : q >= ReadsFrom' => q >= ReadsFrom
  BY ReadsFromType
<1>3. \A k \in DOMAIN received, q \in Ids : q >= ReadsFrom' =>
        \A i \in DOMAIN queues'[q] : received[k] < queues'[q][i]
  BY <1>1, <1>2 DEF AgeInv
<1> QED
  BY <1>1, <1>3 DEF AgeInv

LEMMA ReadsFromOpen ==
  ASSUME MqTypes, QueueInv, NEW n \in Nodes, InitBlock(n)
  PROVE  ReadsFrom' \in Nat /\ ReadsFrom' >= ReadsFrom
<1>1. /\ mqd[n] = NoQueue /\ mqd' = [mqd EXCEPT ![n] = created'] /\ created' \in Ids
      /\ created' >= created
  BY OpenFacts
<1>2. mqd \in [Nodes -> Ids \cup {NoQueue}]
  BY DEF MqTypes
<1>3. mqd'["reader"] = IF n = "reader" THEN created' ELSE mqd["reader"]
  BY <1>1, <1>2, ReadsFromType
<1>4. created' \in Nat /\ created' # NoQueue
  BY <1>1, ReadsFromType, BoundsAssumption DEF Ids, NoQueue
<1> QED
  BY <1>1, <1>3, <1>4, ReadsFromType DEF ReadsFrom

LEMMA ReadsFromClose ==
  ASSUME MqTypes, QueueInv, NEW n \in Nodes, CleanupBlock(n) \/ ProcessDies(n)
  PROVE  ReadsFrom' \in Nat /\ ReadsFrom' >= ReadsFrom
<1>1. mqd' = [mqd EXCEPT ![n] = NoQueue] /\ created' = created
  BY CloseFacts
<1>2. mqd \in [Nodes -> Ids \cup {NoQueue}]
  BY DEF MqTypes
<1>3. mqd'["reader"] = IF n = "reader" THEN NoQueue ELSE mqd["reader"]
  BY <1>1, <1>2, ReadsFromType
<1>4. mqd["reader"] <= created
  BY ReadsFromType DEF QueueInv
<1> QED
  BY <1>1, <1>3, <1>4, ReadsFromType DEF ReadsFrom

(* The messages of the queues after a write and after a read.              *)
LEMMA WriteItems ==
  ASSUME MqTypes, MqueueWrite, ~ UNCHANGED <<queues, accepted>>,
         NEW p \in Ids, NEW i \in DOMAIN queues'[p]
  PROVE  \/ i \in DOMAIN queues[p] /\ queues'[p][i] = queues[p][i]
         \/ p = mqd["writer"] /\ i = Len(queues[p]) + 1 /\ queues'[p][i] = nr + 1
<1> DEFINE q == mqd["writer"]
<1>1. /\ q \in Ids /\ DOMAIN queues'[q] = 1 .. Len(queues[q]) + 1
      /\ \A j \in 1 .. Len(queues[q]) : queues'[q][j] = queues[q][j]
      /\ queues'[q][Len(queues[q]) + 1] = nr + 1
      /\ \A r \in Ids \ {q} : queues'[r] = queues[r]
  BY WriteFacts
<1>2. DOMAIN queues[q] = 1 .. Len(queues[q]) /\ Len(queues[q]) \in Nat
  BY <1>1, QueueFactsMq
<1>3. CASE p = q
  <2>1. i \in 1 .. Len(queues[q]) \/ i = Len(queues[q]) + 1
    BY <1>1, <1>2, <1>3
  <2> QED
    BY <1>1, <1>2, <1>3, <2>1
<1>4. CASE p # q
  BY <1>1, <1>4
<1> QED
  BY <1>3, <1>4

LEMMA ReadItems ==
  ASSUME MqTypes, MqueueRead, NEW p \in Ids, NEW i \in DOMAIN queues'[p]
  PROVE  /\ i \in Nat
         /\ p = mqd["reader"] => i + 1 \in DOMAIN queues[p] /\ queues'[p][i] = queues[p][i + 1]
         /\ p # mqd["reader"] => i \in DOMAIN queues[p] /\ queues'[p][i] = queues[p][i]
<1> DEFINE q == mqd["reader"]
<1>1. /\ q \in Ids /\ DOMAIN queues'[q] = 1 .. Len(queues[q]) - 1
      /\ \A j \in 1 .. Len(queues[q]) - 1 : queues'[q][j] = queues[q][j + 1]
      /\ \A r \in Ids \ {q} : queues'[r] = queues[r]
  BY ReadFacts
<1>2. DOMAIN queues[q] = 1 .. Len(queues[q]) /\ Len(queues[q]) \in Nat
  BY <1>1, QueueFactsMq
<1>3. CASE p = q
  <2>1. i \in 1 .. Len(queues[q]) - 1 /\ i + 1 \in 1 .. Len(queues[q]) /\ i \in Nat
    BY <1>1, <1>2, <1>3
  <2> QED
    BY <1>1, <1>2, <1>3, <2>1
<1>4. CASE p # q
  <2>1. DOMAIN queues[p] = 1 .. Len(queues[p]) /\ Len(queues[p]) \in Nat
    BY QueueFactsMq
  <2> QED
    BY <1>1, <1>4, <2>1
<1> QED
  BY <1>3, <1>4

(* Writes and reads keep the order of the messages.                        *)
LEMMA AgeWrite ==
  ASSUME MqTypes, QueueInv, AgeInv, MqueueWrite, ~ UNCHANGED <<queues, accepted>>
  PROVE  AgeInv'
<1> DEFINE q == mqd["writer"]
<1>1. /\ q \in Ids /\ q # NoQueue /\ accepted' = accepted \cup {nr + 1} /\ nr \in Nat
      /\ UNCHANGED <<created, mqd, received>>
  BY WriteFacts
<1>2. /\ \A p \in Ids : /\ DOMAIN queues[p] = 1 .. Len(queues[p]) /\ Len(queues[p]) \in Nat
                        /\ \A i \in DOMAIN queues[p] : queues[p][i] \in 1 .. nr
      /\ \A k \in DOMAIN received : received[k] \in 1 .. nr
  BY QueueFactsMq, ReceivedFacts
<1>3. \A p \in Ids : p > q => DOMAIN queues[p] = {}
  BY <1>1, QueueFactsMq DEF QueueInv
<1>4. \A p \in Ids : \A i \in DOMAIN queues'[p] :
        \/ i \in DOMAIN queues[p] /\ queues'[p][i] = queues[p][i]
        \/ p = q /\ i = Len(queues[p]) + 1 /\ queues'[p][i] = nr + 1
  BY WriteItems
<1> HIDE DEF q
<1>5. ASSUME NEW p \in Ids, NEW i \in DOMAIN queues'[p], NEW j \in DOMAIN queues'[p], i < j
      PROVE  queues'[p][i] < queues'[p][j]
  <2>1. i \in DOMAIN queues[p] /\ queues'[p][i] = queues[p][i]
    BY <1>2, <1>4, <1>5
  <2>2. CASE j \in DOMAIN queues[p] /\ queues'[p][j] = queues[p][j]
    BY <1>5, <2>1, <2>2 DEF AgeInv
  <2>3. CASE queues'[p][j] = nr + 1
    BY <1>1, <1>2, <2>1, <2>3
  <2> QED
    BY <1>4, <2>2, <2>3
<1>6. \A p \in Ids : \A i \in DOMAIN queues'[p] : queues'[p][i] \in accepted'
  BY <1>1, <1>4 DEF AgeInv
<1>7. ASSUME NEW p \in Ids, NEW r \in Ids, p < r, NEW i \in DOMAIN queues'[p],
             NEW j \in DOMAIN queues'[r]
      PROVE  queues'[p][i] < queues'[r][j]
  <2>1. CASE j \in DOMAIN queues[r] /\ queues'[r][j] = queues[r][j]
    <3>1. p # q
      BY <1>3, <1>7, <2>1, ReadsFromType
    <3>2. i \in DOMAIN queues[p] /\ queues'[p][i] = queues[p][i]
      BY <1>4, <3>1
    <3> QED
      BY <1>7, <2>1, <3>2 DEF AgeInv
  <2>2. CASE r = q /\ queues'[r][j] = nr + 1
    <3>1. p # q
      BY <1>7, <2>2, ReadsFromType
    <3>2. i \in DOMAIN queues[p] /\ queues'[p][i] = queues[p][i]
      BY <1>4, <3>1
    <3>3. queues[p][i] \in 1 .. nr
      BY <1>2, <3>2
    <3> QED
      BY <1>1, <2>2, <3>2, <3>3
  <2> QED
    BY <1>4, <2>1, <2>2
<1>8. ASSUME NEW k \in DOMAIN received, NEW p \in Ids, p >= ReadsFrom,
             NEW i \in DOMAIN queues'[p]
      PROVE  received[k] < queues'[p][i]
  <2>1. CASE i \in DOMAIN queues[p] /\ queues'[p][i] = queues[p][i]
    BY <1>8, <2>1 DEF AgeInv
  <2>2. CASE queues'[p][i] = nr + 1
    BY <1>1, <1>2, <2>2
  <2> QED
    BY <1>4, <2>1, <2>2
<1>9. ReadsFrom' = ReadsFrom
  BY <1>1 DEF ReadsFrom
<1> QED
  BY <1>1, <1>5, <1>6, <1>7, <1>8, <1>9 DEF AgeInv

LEMMA AgeRead ==
  ASSUME MqTypes, QueueInv, AgeInv, ReadInOrder, MqueueRead
  PROVE  AgeInv' /\ ReadInOrder'
<1> DEFINE q == mqd["reader"]
<1>1. /\ q \in Ids /\ q # NoQueue /\ UNCHANGED <<created, mqd, accepted>>
      /\ Len(queues[q]) \in Nat \ {0}
      /\ DOMAIN received' = 1 .. Len(received) + 1
      /\ \A k \in 1 .. Len(received) : received'[k] = received[k]
      /\ received'[Len(received) + 1] = queues[q][1]
  BY ReadFacts
<1>2. /\ 1 \in DOMAIN queues[q] /\ Len(received) \in Nat
      /\ DOMAIN received = 1 .. Len(received)
      /\ q >= q /\ q \in Nat
  BY <1>1, QueueFactsMq, ReceivedFacts, ReadsFromType
<1>3. ReadsFrom = q /\ ReadsFrom' = q
  BY <1>1 DEF ReadsFrom
<1>4. \A p \in Ids : \A i \in DOMAIN queues'[p] :
        /\ i \in Nat
        /\ p = q => i + 1 \in DOMAIN queues[p] /\ queues'[p][i] = queues[p][i + 1]
        /\ p # q => i \in DOMAIN queues[p] /\ queues'[p][i] = queues[p][i]
  BY ReadItems
<1>5. \A k \in DOMAIN received' :
        (k \in DOMAIN received /\ received'[k] = received[k])
        \/ (k = Len(received) + 1 /\ received'[k] = queues[q][1])
  BY <1>1, <1>2
<1> HIDE DEF q
<1>6. ASSUME NEW p \in Ids, NEW i \in DOMAIN queues'[p], NEW j \in DOMAIN queues'[p], i < j
      PROVE  queues'[p][i] < queues'[p][j]
  <2>1. CASE p = q
    <3>1. /\ i + 1 \in DOMAIN queues[p] /\ queues'[p][i] = queues[p][i + 1] /\ i \in Nat
          /\ j + 1 \in DOMAIN queues[p] /\ queues'[p][j] = queues[p][j + 1] /\ j \in Nat
      BY <1>4, <2>1
    <3>2. i + 1 < j + 1
      BY <1>6, <3>1
    <3> QED
      BY <3>1, <3>2 DEF AgeInv
  <2>2. CASE p # q
    BY <1>4, <1>6, <2>2 DEF AgeInv
  <2> QED
    BY <2>1, <2>2
<1>7. \A p \in Ids : \A i \in DOMAIN queues'[p] :
        \E j \in DOMAIN queues[p] : queues'[p][i] = queues[p][j]
  BY <1>4
<1>8. \A p \in Ids : \A i \in DOMAIN queues'[p] : queues'[p][i] \in accepted
  BY <1>7 DEF AgeInv
<1>9. ASSUME NEW p \in Ids, NEW r \in Ids, p < r, NEW i \in DOMAIN queues'[p],
             NEW j \in DOMAIN queues'[r]
      PROVE  queues'[p][i] < queues'[r][j]
  BY <1>7, <1>9 DEF AgeInv
<1>10. ASSUME NEW k \in DOMAIN received', NEW p \in Ids, p >= q, NEW i \in DOMAIN queues'[p]
       PROVE  received'[k] < queues'[p][i]
  <2>1. CASE k \in DOMAIN received /\ received'[k] = received[k]
    BY <1>3, <1>7, <1>10, <2>1 DEF AgeInv
  <2>2. CASE received'[k] = queues[q][1]
    <3>1. CASE p = q
      <4>1. i + 1 \in DOMAIN queues[q] /\ queues'[p][i] = queues[q][i + 1] /\ 1 < i + 1
        <5>1. i + 1 \in DOMAIN queues[q] /\ queues'[p][i] = queues[q][i + 1]
          BY <1>4, <3>1
        <5>2. i \in Nat \ {0}
          BY <1>1, <3>1, ReadFacts DEF q
        <5> QED
          BY <5>1, <5>2
      <4> QED
        BY <1>1, <1>2, <2>2, <4>1 DEF AgeInv
    <3>2. CASE p # q
      <4>1. q < p
        BY <1>2, <1>10, <3>2, ReadsFromType
      <4> QED
        BY <1>1, <1>2, <1>4, <2>2, <3>2, <4>1 DEF AgeInv
    <3> QED
      BY <3>1, <3>2
  <2> QED
    BY <1>5, <2>1, <2>2
<1>11. AgeInv'
  BY <1>1, <1>3, <1>6, <1>8, <1>9, <1>10 DEF AgeInv
<1>12. ASSUME NEW i \in DOMAIN received', NEW j \in DOMAIN received', i < j
       PROVE  received'[i] < received'[j]
  <2>1. i \in DOMAIN received /\ received'[i] = received[i]
    BY <1>1, <1>2, <1>5, <1>12
  <2>2. CASE j \in DOMAIN received /\ received'[j] = received[j]
    BY <1>12, <2>1, <2>2 DEF ReadInOrder
  <2>3. CASE received'[j] = queues[q][1]
    BY <1>1, <1>2, <1>3, <2>1, <2>3 DEF AgeInv
  <2> QED
    BY <1>5, <2>2, <2>3
<1> QED
  BY <1>11, <1>12 DEF ReadInOrder

LEMMA AgeStep ==
  ASSUME MqTypes, QueueInv, AgeInv, ReadInOrder, [MqNext]_mqVars
  PROVE  AgeInv' /\ ReadInOrder'
<1>1. ASSUME NEW n \in Nodes, InitBlock(n)
      PROVE  AgeInv' /\ ReadInOrder'
  <2>1. UNCHANGED <<queues, accepted, received>>
    BY <1>1, OpenFacts DEF mqHistory
  <2> QED
    BY <1>1, <2>1, AgeShrinks, ReadsFromOpen DEF ReadInOrder
<1>2. ASSUME NEW n \in Nodes, CleanupBlock(n) \/ ProcessDies(n)
      PROVE  AgeInv' /\ ReadInOrder'
  <2>1. /\ UNCHANGED <<accepted, received>>
        /\ \A q \in Ids : queues'[q] = queues[q] \/ queues'[q] = <<>>
    BY <1>2, CloseFacts DEF mqHistory
  <2> QED
    BY <1>2, <2>1, AgeShrinks, ReadsFromClose DEF ReadInOrder
<1>3. CASE MqueueWrite
  <2>1. CASE UNCHANGED <<queues, accepted>>
    <3>1. UNCHANGED <<created, mqd, received>>
      BY <1>3 DEF MqueueWrite
    <3> QED
      BY <2>1, <3>1 DEF AgeInv, ReadInOrder, ReadsFrom
  <2>2. CASE ~ UNCHANGED <<queues, accepted>>
    <3>1. received' = received
      BY <1>3 DEF MqueueWrite
    <3> QED
      BY <1>3, <2>2, <3>1, AgeWrite DEF ReadInOrder
  <2> QED
    BY <2>1, <2>2
<1>4. CASE MqueueRead
  BY <1>4, AgeRead
<1>5. CASE UNCHANGED mqVars
  BY <1>5 DEF mqVars, mqHistory, AgeInv, ReadInOrder, ReadsFrom
<1> QED
  BY <1>1, <1>2, <1>3, <1>4, <1>5 DEF MqNext

(* Until a block is cleaned up every step keeps the one queue.             *)
LEMMA CrashStep ==
  ASSUME MqTypes, QueueInv, CrashInv, [MqNext]_mqVars
  PROVE  CrashInv'
<1> SUFFICES ASSUME cleanups' = 0 PROVE CrashInv'
  BY DEF CrashInv
<1>a. /\ created \in Nat /\ mqd \in [Nodes -> Ids \cup {NoQueue}]
      /\ NoQueue = 0 /\ cleanups \in Nat /\ 0 \notin Ids
      /\ queues \in [Ids -> Seq(1 .. nr)]
  BY ReadsFromType DEF MqTypes, NoQueue, Ids
<1>b. cleanups = 0
  BY <1>a
  DEF MqNext, CleanupBlock, InitBlock, ProcessDies, MqueueWrite, MqueueRead,
      mqVars
<1>c. /\ created \in {0, 1} /\ bound = created
      /\ \A n \in Nodes : mqd[n] \in {NoQueue, bound}
      /\ \A m \in accepted :
           m \in Range(received) \/ (bound # NoQueue /\ m \in Range(queues[bound]))
  BY <1>b DEF CrashInv
<1>1. ASSUME NEW n \in Nodes, InitBlock(n)
      PROVE  CrashInv'
  <2>1. /\ mqd[n] = NoQueue /\ mqd' = [mqd EXCEPT ![n] = created']
        /\ bound' = created' /\ UNCHANGED <<queues, accepted, received>>
        /\ bound # NoQueue => bound' = bound /\ created' = created
        /\ bound = NoQueue => created' = created + 1
    BY <1>1, OpenFacts DEF mqHistory
  <2>2. created' \in {0, 1}
    BY <1>a, <1>c, <2>1
  <2>3. \A p \in Nodes : mqd'[p] \in {NoQueue, bound'}
    BY <1>a, <1>c, <2>1
  <2>4. \A m \in accepted :
           m \in Range(received) \/ (bound' # NoQueue /\ m \in Range(queues[bound']))
    BY <1>c, <2>1
  <2> QED
    BY <2>1, <2>2, <2>3, <2>4 DEF CrashInv
<1>2. ASSUME NEW n \in Nodes, CleanupBlock(n) \/ ProcessDies(n)
      PROVE  CrashInv'
  <2>1. /\ mqd[n] # NoQueue /\ mqd' = [mqd EXCEPT ![n] = NoQueue] /\ bound' = bound
        /\ UNCHANGED <<created, accepted, received>>
        /\ mqd[n] = bound => queues' = queues
    BY <1>2, CloseFacts DEF mqHistory
  <2>2. queues' = queues
    BY <1>c, <2>1
  <2> QED
    BY <1>a, <1>c, <2>1, <2>2 DEF CrashInv
<1>3. CASE MqueueWrite
  <2>1. UNCHANGED <<bound, created, mqd, received>>
    BY <1>3 DEF MqueueWrite
  <2>2. CASE UNCHANGED <<queues, accepted>>
    BY <1>c, <2>1, <2>2 DEF CrashInv
  <2>3. CASE ~ UNCHANGED <<queues, accepted>>
    <3> DEFINE q == mqd["writer"]
    <3>1. q \in Ids /\ q = bound /\ q # NoQueue
      BY <1>3, <1>c, WriteFacts, ReadsFromType
    <3>2. /\ accepted' = accepted \cup {nr + 1}
          /\ DOMAIN queues'[q] = 1 .. Len(queues[q]) + 1
          /\ \A i \in 1 .. Len(queues[q]) : queues'[q][i] = queues[q][i]
          /\ queues'[q][Len(queues[q]) + 1] = nr + 1
      BY <1>3, <2>3, WriteFacts
    <3>3. Len(queues[q]) \in Nat /\ DOMAIN queues[q] = 1 .. Len(queues[q])
      BY <3>1, QueueFactsMq
    <3> HIDE DEF q
    <3>4. \A m \in Range(queues[q]) \cup {nr + 1} : m \in Range(queues'[q])
      BY <3>2, <3>3 DEF Range
    <3> QED
      BY <1>c, <2>1, <3>1, <3>2, <3>4 DEF CrashInv
  <2> QED
    BY <2>2, <2>3
<1>4. CASE MqueueRead
  <2> DEFINE q == mqd["reader"]
  <2>1. /\ q \in Ids /\ q # NoQueue /\ q = bound
        /\ UNCHANGED <<bound, created, mqd, accepted>>
    BY <1>4, <1>c, ReadFacts, ReadsFromType
  <2>2. /\ Len(queues[q]) \in Nat \ {0}
        /\ DOMAIN queues'[q] = 1 .. Len(queues[q]) - 1
        /\ \A i \in 1 .. Len(queues[q]) - 1 : queues'[q][i] = queues[q][i + 1]
        /\ DOMAIN received' = 1 .. Len(received) + 1
        /\ \A k \in 1 .. Len(received) : received'[k] = received[k]
        /\ received'[Len(received) + 1] = queues[q][1]
    BY <1>4, ReadFacts
  <2>3. /\ DOMAIN queues[q] = 1 .. Len(queues[q])
        /\ DOMAIN received = 1 .. Len(received) /\ Len(received) \in Nat
    BY <2>1, QueueFactsMq, ReceivedFacts
  <2> HIDE DEF q
  <2>4. \A m \in Range(received) : m \in Range(received')
    BY <2>2, <2>3 DEF Range
  <2>5. ASSUME NEW i \in DOMAIN queues[q]
        PROVE  queues[q][i] \in Range(received') \/ queues[q][i] \in Range(queues'[q])
    <3>1. CASE i = 1
      <4>1. Len(received) + 1 \in DOMAIN received'
        BY <2>2, <2>3
      <4> QED
        BY <2>2, <3>1, <4>1 DEF Range
    <3>2. CASE i # 1
      <4>1. i - 1 \in DOMAIN queues'[q] /\ queues'[q][i - 1] = queues[q][i]
        BY <2>2, <2>3, <3>2
      <4> QED
        BY <4>1 DEF Range
    <3> QED
      BY <3>1, <3>2
  <2>6. \A m \in Range(queues[q]) : m \in Range(received') \/ m \in Range(queues'[q])
    BY <2>5 DEF Range
  <2> QED
    BY <1>c, <2>1, <2>4, <2>6 DEF CrashInv
<1>5. CASE UNCHANGED mqVars
  BY <1>c, <1>5 DEF mqVars, mqHistory, CrashInv
<1> QED
  BY <1>1, <1>2, <1>3, <1>4, <1>5 DEF MqNext

(* MqInv is inductive.                                                     *)
THEOREM MqInvariance == MqSpec => []MqInv
<1>1. MqInit => MqInv
  <2> SUFFICES ASSUME MqInit PROVE MqInv
    OBVIOUS
  <2>1. MqTypes
    BY BoundsAssumption DEF MqInit, MqTypes, NoQueue, Ids
  <2>2. /\ bound = NoQueue /\ created = 0 /\ accepted = {} /\ received = <<>>
        /\ \A q \in Ids : queues[q] = <<>>
        /\ \A n \in Nodes : mqd[n] = NoQueue
    BY DEF MqInit
  <2>3. DOMAIN received = {} /\ \A q \in Ids : DOMAIN queues[q] = {}
    BY <2>2
  <2>4. ReadInOrder /\ AgeInv
    BY <2>3 DEF ReadInOrder, AgeInv
  <2>5. QueueInv /\ CrashInv
    BY <2>2 DEF QueueInv, CrashInv, NoQueue, Nodes
  <2> QED
    BY <2>1, <2>4, <2>5 DEF MqInv
<1>2. MqInv /\ [MqNext]_mqVars => MqInv'
  BY MqTypeStep, QueueStep, AgeStep, CrashStep DEF MqInv
<1> QED
  BY <1>1, <1>2, PTL DEF MqSpec

(* For every size of the queues and any number of queues, crashes and      *)
(* clean-ups: messages are read once and in order, and crashes alone lose  *)
(* none and keep the two blocks together (mqueue.c).                       *)
THEOREM MqueueSafeAlways == MqSpec => []MqueueSafe
<1>1. MqInv => MqueueSafe
  <2> SUFFICES ASSUME MqInv PROVE MqueueSafe
    OBVIOUS
  <2>1. MqTypes /\ ReadInOrder
    BY DEF MqInv
  <2>2. cleanups = 0 => SameQueue /\ Survives
    BY ReadsFromType DEF MqInv, CrashInv, SameQueue, Survives
  <2> QED
    BY <2>1, <2>2 DEF MqueueSafe
<1> QED
  BY MqInvariance, <1>1, PTL
-----------------------------------------------------------------------------
(***************************************************************************)
(* The queue of one writer (LfdsQueue).                                    *)
(***************************************************************************)
(* The elements from the dummy to the last one. *)
Linked == Chain(dequeue.ptr)

(* c is such a list.                                                       *)
IsList(c) ==
  /\ c \in Seq(QueueElems) /\ c # <<>> /\ c[1] = dequeue.ptr
  /\ \A i, j \in 1 .. Len(c) : c[i] = c[j] => i = j
  /\ \A i \in 1 .. Len(c) - 1 : qnext[c[i]].ptr = c[i + 1]
  /\ qnext[c[Len(c)]].ptr = NoElem
InList(e, c) == \E i \in 1 .. Len(c) : c[i] = e

OwnLocs == {"initPtr", "initCtr", "enqPtr", "enqCtr", "enqNextPtr", "enqNextCtr",
            "enqTest", "link", "helpEnqueue", "recycle"}

ListInv ==
  /\ IsList(Linked)
  /\ Len(Linked) = Len(content) + 1
  /\ \A i \in 1 .. Len(content) : userData[Linked[i + 1]] = content[i]

(* An element is free, in the list, or with a thread.                      *)
PlaceInv ==
  /\ \A t \in Callers : qpc[t] \in OwnLocs =>
       /\ qe[t] \in QueueElems /\ qe[t] \notin fs /\ ~InList(qe[t], Linked)
       /\ \A s \in Callers : qpc[s] \in OwnLocs /\ qe[s] = qe[t] => s = t
  /\ \A t \in Callers : qpc[t] \notin OwnLocs /\ qpc[t] # "swing" => qe[t] = NoElem
  /\ \A e \in fs : ~InList(e, Linked)
  /\ \A e \in QueueElems : e \in fs \/ InList(e, Linked)
                           \/ \E t \in Callers : qpc[t] \in OwnLocs /\ qe[t] = e

(* qs->enqueue is behind only while the writer has linked an element and   *)
(* nobody moved qs->enqueue on.                                            *)
TailInv ==
  /\ (\A t \in Callers : qpc[t] # "swing") => enqueue.ptr = Linked[Len(Linked)]
  /\ \A t \in Callers : qpc[t] = "swing" =>
       /\ qe[t] = Linked[Len(Linked)]
       /\ \/ /\ Len(Linked) > 1 /\ enqueue.ptr = Linked[Len(Linked) - 1]
             /\ enqueue = enq[t]
          \/ enqueue.ptr = Linked[Len(Linked)] /\ enq[t].ctr < enqueue.ctr

(* What the writer has read is what is there. *)
WriterInv(t) ==
  /\ qpc[t] \in EnqueueLocs =>
       t \in Enqueuers /\ val[t] \in QueueValues /\ due[t] = NoQueueValue
  /\ qpc[t] \in EnqueueLocs \ {"initPtr", "swing"} => qnext[qe[t]].ptr = NoElem
  /\ qpc[t] \in EnqueueLocs \ {"initPtr", "initCtr", "swing"} => userData[qe[t]] = val[t]
  /\ qpc[t] = "enqCtr" => enq[t].ptr = enqueue.ptr
  /\ qpc[t] \in {"enqNextPtr", "enqNextCtr", "enqTest", "link"} => enq[t] = enqueue
  /\ qpc[t] \in {"enqNextCtr", "enqTest", "link"} => nxt[t].ptr = qnext[enqueue.ptr].ptr
  /\ qpc[t] \in {"enqTest", "link"} => nxt[t].ctr = qnext[enqueue.ptr].ctr
  /\ qpc[t] # "helpEnqueue"

CtrRead  == DequeueLocs \ {"deqPtr", "deqCtr"}
EnqPRead == CtrRead \ {"deqEnqPtr"}
EnqRead  == EnqPRead \ {"deqEnqCtr"}

(* What a reader has read was there, and is if qs->dequeue has not moved.  *)
ReaderInv(t) ==
  /\ qpc[t] \in DequeueLocs \ {"deqPtr"} => deq[t].ptr \in QueueElems
  /\ qpc[t] \in CtrRead => deq[t].ctr <= dequeue.ctr
  /\ qpc[t] \in EnqRead => enq[t].ctr <= enqueue.ctr
  /\ qpc[t] \in EnqPRead /\ dequeue = deq[t] =>
       /\ InList(enq[t].ptr, Linked)
       /\ enq[t].ptr # dequeue.ptr => enqueue.ptr # dequeue.ptr
  /\ qpc[t] \in {"deqNextCtr", "deqTest"} /\ dequeue = deq[t] =>
       IF nxt[t].ptr = NoElem THEN sawEmpty[t] /\ enq[t].ptr = dequeue.ptr
       ELSE Len(Linked) > 1 /\ nxt[t].ptr = Linked[2]
  /\ qpc[t] = "helpDequeue" =>
       /\ nxt[t].ptr # NoElem
       /\ enqueue = enq[t] => qnext[enqueue.ptr].ptr = nxt[t].ptr
  /\ qpc[t] \in {"readData", "take"} =>
       /\ nxt[t].ptr # NoElem
       /\ dequeue = deq[t] =>
            Len(Linked) > 1 /\ nxt[t].ptr = Linked[2] /\ enqueue.ptr # dequeue.ptr
  /\ qpc[t] = "take" /\ dequeue = deq[t] => val[t] = userData[nxt[t].ptr]
  /\ qpc[t] \in {"idle", "recycle"} => val[t] = due[t]

LfdsInv ==
  /\ QueueTypeOK /\ ListInv /\ PlaceInv /\ TailInv
  /\ \A t \in Callers : WriterInv(t) /\ ReaderInv(t)

-----------------------------------------------------------------------------
(* A nonempty set of natural numbers has a least element.                  *)
LEMMA LeastElement ==
  ASSUME NEW S \in SUBSET Nat, S # {}
  PROVE  \E m \in S : \A n \in S : m <= n
<1>1. IsWellFoundedOn({z \in Nat \X Nat : z[1] < z[2]}, Nat)
  BY NatLessThanWellFounded DEF OpToRel
<1>2. PICK m \in S : \A n \in S : ~(<<n, m>> \in {z \in Nat \X Nat : z[1] < z[2]})
  BY <1>1, WFMin
<1>3. ASSUME NEW n \in S PROVE m <= n
  <2>1. m \in Nat /\ n \in Nat
    OBVIOUS
  <2>2. ~(n < m)
    BY <1>2, <2>1
  <2> QED
    BY <2>1, <2>2
<1> QED
  BY <1>3

(* What holds of 0 and of each number if it holds of the one before.       *)
LEMMA AllNumbers ==
  ASSUME NEW G, 0 \in G, \A n \in Nat : n \in G => n + 1 \in G
  PROVE  Nat \subseteq G
<1> DEFINE Bad == Nat \ G
<1> SUFFICES ASSUME Bad # {} PROVE FALSE
  OBVIOUS
<1>1. PICK k \in Bad : \A m \in Bad : k <= m
  <2>1. Bad \in SUBSET Nat
    OBVIOUS
  <2> HIDE DEF Bad
  <2> QED
    BY <2>1, LeastElement
<1>2. k \in Nat /\ k \notin G /\ k # 0
  OBVIOUS
<1>3. k - 1 \in Nat /\ (k - 1) + 1 = k /\ ~(k <= k - 1)
  BY <1>2
<1>4. k - 1 \notin Bad
  <2> HIDE DEF Bad
  <2> QED
    BY <1>1, <1>3
<1> QED
  BY <1>2, <1>3, <1>4

(* A list has no more elements than there are. *)
LEMMA ListFits ==
  ASSUME NEW c, IsList(c) PROVE Len(c) <= Cardinality(QueueElems)
<1>1. c \in Seq(QueueElems) /\ Len(c) \in Nat /\ DOMAIN c = 1 .. Len(c)
  BY DEF IsList
<1>2. c \in Injection(1 .. Len(c), QueueElems)
  BY <1>1 DEF IsList, Injection, IsInjective
<1>3. Cardinality(1 .. Len(c)) = Len(c)
  BY <1>1, FS_Interval
<1> QED
  BY <1>2, <1>3, FS_Injection, QueueElemsAssumption

(* A list that the next pointers make from the dummy is what Chain finds.  *)
LEMMA ChainIsList ==
  \A c : IsList(c) => Linked = c
<1> SUFFICES ASSUME NEW c, IsList(c) PROVE Linked = c
  OBVIOUS
<1> DEFINE Grow(s) == IF Last(s) = NoElem THEN s ELSE Append(s, qnext[Last(s)].ptr)
           D(f) == [n \in Nat |-> IF n = 0 THEN <<dequeue.ptr>> ELSE Grow(f[n - 1])]
           From == CHOOSE f : f = D(f)
           Pre(n) == IF n < Len(c) THEN SubSeq(c, 1, n + 1) ELSE Append(c, NoElem)
           F == [n \in Nat |-> Pre(n)]
<1>1. /\ c \in Seq(QueueElems) /\ Len(c) \in Nat \ {0} /\ c[1] = dequeue.ptr
      /\ \A i \in 1 .. Len(c) : c[i] \in QueueElems /\ c[i] # NoElem
      /\ \A i \in 1 .. Len(c) - 1 : qnext[c[i]].ptr = c[i + 1]
      /\ qnext[c[Len(c)]].ptr = NoElem
  BY QueueElemsAssumption DEF IsList
<1>2. Pre(0) = <<dequeue.ptr>>
  <2>1. SubSeq(c, 1, 1) = <<c[1]>>
    <3>1. SubSeq(c, 1, 1) \in Seq(QueueElems) /\ Len(SubSeq(c, 1, 1)) = 1
      BY <1>1
    <3>2. SubSeq(c, 1, 1)[1] = c[1] /\ c[1] \in QueueElems
      BY <1>1
    <3>3. \A s \in Seq(QueueElems) : Len(s) = 1 => s = <<s[1]>>
      OBVIOUS
    <3> QED
      BY <3>1, <3>2, <3>3
  <2>2. 0 < Len(c) /\ 0 + 1 = 1
    BY <1>1
  <2> QED
    BY <1>1, <2>1, <2>2
<1>3. ASSUME NEW n \in Nat PROVE Pre(n + 1) = Grow(Pre(n))
  <2>1. CASE n < Len(c)
    <3>1. Pre(n) = SubSeq(c, 1, n + 1)
      BY <2>1
    <3>2. Last(Pre(n)) = c[n + 1] /\ c[n + 1] # NoElem
      BY <1>1, <2>1, <3>1 DEF Last
    <3>3. Grow(Pre(n)) = Append(SubSeq(c, 1, n + 1), qnext[c[n + 1]].ptr)
      <4> HIDE DEF Pre
      <4> QED
        BY <3>1, <3>2
    <3>4. CASE n + 1 < Len(c)
      <4>1. qnext[c[n + 1]].ptr = c[(n + 1) + 1]
        BY <1>1, <3>4
      <4>2. SubSeq(c, 1, (n + 1) + 1) = Append(SubSeq(c, 1, n + 1), c[(n + 1) + 1])
        BY <1>1, <3>4
      <4> QED
        BY <3>3, <3>4, <4>1, <4>2
    <3>5. CASE n + 1 = Len(c)
      <4>1. qnext[c[n + 1]].ptr = NoElem /\ SubSeq(c, 1, n + 1) = c
        BY <1>1, <3>5
      <4>2. Pre(n + 1) = Append(c, NoElem)
        BY <3>5
      <4> HIDE DEF Pre, Grow
      <4> QED
        BY <3>3, <4>1, <4>2
    <3> QED
      BY <1>1, <2>1, <3>4, <3>5
  <2>2. CASE ~(n < Len(c))
    <3>1. Pre(n) = Append(c, NoElem) /\ Pre(n + 1) = Append(c, NoElem)
      BY <1>1, <2>2
    <3>2. Last(Append(c, NoElem)) = NoElem
      BY <1>1 DEF Last
    <3> HIDE DEF Pre
    <3> QED
      BY <3>1, <3>2
  <2> QED
    BY <2>1, <2>2
<1>4. F = D(F)
  <2> HIDE DEF Pre, Grow
  <2>1. ASSUME NEW n \in Nat, n # 0 PROVE F[n] = Grow(F[n - 1])
    <3>1. n - 1 \in Nat /\ (n - 1) + 1 = n
      BY <2>1
    <3>2. F[n] = Pre((n - 1) + 1) /\ F[n - 1] = Pre(n - 1)
      BY <3>1
    <3> HIDE DEF F
    <3> QED
      BY <3>1, <3>2, <1>3
  <2>2. F[0] = <<dequeue.ptr>>
    BY <1>2
  <2>3. F = [n \in Nat |-> F[n]]
    OBVIOUS
  <2> HIDE DEF F
  <2> QED
    BY <2>1, <2>2, <2>3
<1>5. From = D(From)
  <2> HIDE DEF D, F
  <2> QED
    BY <1>4
<1>6. Linked = Front(From[Cardinality(QueueElems) + 1])
  BY DEF Linked, Chain
<1> HIDE DEF From
<1> DEFINE G == {n \in Nat : From[n] = Pre(n)}
<1>7. Nat \subseteq G
  <2> HIDE DEF Pre, Grow
  <2>1. 0 \in G
    BY <1>2, <1>5
  <2>2. ASSUME NEW n \in Nat, n \in G PROVE n + 1 \in G
    <3>1. From[n + 1] = Grow(From[n])
      <4>1. n + 1 \in Nat /\ n + 1 # 0 /\ (n + 1) - 1 = n
        OBVIOUS
      <4> QED
        BY <1>5, <4>1
    <3> QED
      BY <2>2, <3>1, <1>3
  <2> HIDE DEF G
  <2> QED
    BY <2>1, <2>2, AllNumbers
<1>8. From[Cardinality(QueueElems) + 1] = Append(c, NoElem)
  <2>1. Cardinality(QueueElems) \in Nat
    BY QueueElemsAssumption, FS_CardinalityType
  <2>2. Cardinality(QueueElems) + 1 \in Nat /\ ~(Cardinality(QueueElems) + 1 < Len(c))
    BY <1>1, <2>1, ListFits
  <2> QED
    BY <1>7, <2>2
<1> HIDE DEF Pre, Grow, D, F, G
<1>9. Front(Append(c, NoElem)) = c
  BY <1>1 DEF Front
<1> QED
  BY <1>6, <1>8, <1>9

LEMMA ChainIsListNext == (\A c : IsList(c) => Linked = c)'
BY ChainIsList, PTL

-----------------------------------------------------------------------------
(* Type correctness of the queue.                                          *)
LEMMA QueueTypeInit == QueueInit => QueueTypeOK
<1> SUFFICES ASSUME QueueInit PROVE QueueTypeOK
  OBVIOUS
<1> DEFINE dummy == CHOOSE e \in QueueElems : TRUE
<1>1. dummy \in QueueElems
  BY QueueElemsAssumption
<1>2. PICK g \in Garbage :
        /\ enqueue = [ptr |-> dummy, ctr |-> 0] /\ dequeue = [ptr |-> dummy, ctr |-> 0]
        /\ qnext = [e \in QueueElems |->
             [ptr |-> NoElem, ctr |-> IF e = dummy THEN g + 2 ELSE 0]]
  BY DEF QueueInit
<1>3. g \in Nat
  BY GarbageAssumption
<1> HIDE DEF dummy
<1>4. enqueue \in QPair /\ dequeue \in QPair /\ qnext \in [QueueElems -> QPair]
  BY <1>1, <1>2, <1>3 DEF QPair, QPtr
<1>5. /\ userData \in [QueueElems -> QueueValues \cup {NoQueueValue}]
      /\ fs \subseteq QueueElems /\ qaba \in Nat
      /\ qpc \in [Callers -> EnqueueLocs \cup DequeueLocs \cup {"idle", "recycle"}]
      /\ qe \in [Callers -> QPtr]
  BY DEF QueueInit, QPtr
<1>6. /\ enq \in [Callers -> QPair] /\ deq \in [Callers -> QPair]
      /\ nxt \in [Callers -> QPair]
  BY DEF QueueInit, QPair, QPtr, NoPair
<1>7. /\ val \in [Callers -> QueueValues \cup {NoQueueValue}]
      /\ ops \in [Callers -> 0 .. MaxOps] /\ content \in Seq(QueueValues)
      /\ sawEmpty \in [Callers -> BOOLEAN]
      /\ due \in [Callers -> QueueValues \cup {NoQueueValue}]
  BY EnqueuersAssumption DEF QueueInit
<1> QED
  BY <1>4, <1>5, <1>6, <1>7 DEF QueueTypeOK

(* The parts of the types that one assignment of a thread changes. *)
LEMMA PairTypes ==
  ASSUME NEW f \in [Callers -> QPair], NEW t \in Callers, NEW p \in QPair
  PROVE  /\ [f EXCEPT ![t].ptr = p.ptr] \in [Callers -> QPair]
         /\ [f EXCEPT ![t].ctr = p.ctr] \in [Callers -> QPair]
         /\ With(f, t, p) \in [Callers -> QPair]
         /\ With(f, t, NoPair) \in [Callers -> QPair]
BY DEF QPair, QPtr, With, NoPair

(* What a thread needs of the invariant for its step to keep the types.    *)
LEMMA QueueTypeNext ==
  ASSUME QueueTypeOK, NEW t \in Callers, LfdsBegin(t) \/ LfdsStep(t),
         qpc[t] \in EnqueueLocs => val[t] \in QueueValues,
         qpc[t] \in {"enqNextPtr", "enqNextCtr"} => enq[t].ptr \in QueueElems,
         qpc[t] \in {"deqNextPtr", "deqNextCtr"} => deq[t].ptr \in QueueElems,
         qpc[t] = "readData" => nxt[t].ptr \in QueueElems,
         qpc[t] = "recycle" => qe[t] \in QueueElems,
         DequeueEmpty(t) => sawEmpty[t]
  PROVE  QueueTypeOK'
<1> DEFINE TurnLocs == EnqueueLocs \cup DequeueLocs \cup {"idle", "recycle"}
           Vals == QueueValues \cup {NoQueueValue}
<1>1. /\ enqueue \in QPair /\ dequeue \in QPair /\ qnext \in [QueueElems -> QPair]
      /\ userData \in [QueueElems -> Vals] /\ fs \subseteq QueueElems /\ qaba \in Nat
      /\ qpc \in [Callers -> TurnLocs] /\ qe \in [Callers -> QPtr]
      /\ enq \in [Callers -> QPair] /\ deq \in [Callers -> QPair]
      /\ nxt \in [Callers -> QPair] /\ val \in [Callers -> Vals]
      /\ ops \in [Callers -> 0 .. MaxOps] /\ content \in Seq(QueueValues)
      /\ sawEmpty \in [Callers -> BOOLEAN] /\ due \in [Callers -> Vals]
  BY DEF QueueTypeOK
<1>2. sawEmpty' \in [Callers -> BOOLEAN]
  BY DEF LfdsBegin, LfdsStep, WatchEmpty
<1>3. CASE EnqueueBegin(t) \/ DequeueBegin(t)
  <2>1. /\ UNCHANGED <<enqueue, dequeue, qnext, userData, enq, deq, nxt, content>>
        /\ ops[t] < MaxOps /\ ops' = [ops EXCEPT ![t] = @ + 1]
        /\ \/ qpc' = [qpc EXCEPT ![t] = "initPtr"]
           \/ qpc' = [qpc EXCEPT ![t] = "deqPtr"]
        /\ due' = [due EXCEPT ![t] = NoQueueValue]
        /\ \/ val' = [val EXCEPT ![t] = <<t, ops'[t]>>]
           \/ val' = [val EXCEPT ![t] = NoQueueValue]
    BY <1>3 DEF EnqueueBegin, DequeueBegin, Turn, With, queueShared
  <2>2. /\ fs' \subseteq QueueElems /\ qaba' \in Nat /\ qe' \in [Callers -> QPtr]
    <3>1. CASE EnqueueBegin(t)
      <4>1. PICK e \in fs : fs' = fs \ {e} /\ qe' = [qe EXCEPT ![t] = e]
        BY <3>1 DEF EnqueueBegin, With
      <4>2. e \in QPtr
        BY <1>1, <4>1 DEF QPtr
      <4>3. qaba' = qaba + 1
        BY <3>1 DEF EnqueueBegin
      <4> QED
        BY <1>1, <4>1, <4>2, <4>3
    <3>2. CASE DequeueBegin(t)
      BY <1>1, <3>2 DEF DequeueBegin, queueShared
    <3> QED
      BY <1>3, <3>1, <3>2
  <2>3. ops' \in [Callers -> 0 .. MaxOps] /\ ops'[t] \in 1 .. MaxOps
    BY <1>1, <2>1, EnqueuersAssumption
  <2>4. <<t, ops'[t]>> \in QueueValues
    BY <2>3 DEF QueueValues
  <2>5. val' \in [Callers -> Vals]
    BY <1>1, <2>1, <2>4
  <2>6. qpc' \in [Callers -> TurnLocs] /\ due' \in [Callers -> Vals]
    BY <1>1, <2>1 DEF EnqueueLocs, DequeueLocs
  <2> QED
    BY <1>1, <1>2, <2>1, <2>2, <2>3, <2>5, <2>6 DEF QueueTypeOK
<1>4. CASE LfdsStep(t)
  <2>1. qpc' \in [Callers -> TurnLocs]
    <3>1. \E x \in TurnLocs : qpc' = [qpc EXCEPT ![t] = x]
      BY <1>4 DEF InitPointer, InitCounter, LinkElement, LfdsStep, EnqueueStep,
        DequeueStep, HelpEnqueue, ReadEnqueuePointer, ReadEnqueueCounter,
        ReadNextPointer, ReadNextCounter, TestEnqueue, EnqueueEnd, ReadDequeuePointer,
        ReadDequeueCounter, DequeueReadEnqueuePointer, DequeueReadEnqueueCounter,
        DequeueReadNextPointer, DequeueReadNextCounter, DequeueEmpty, TestDequeue,
        ReadData, Take, RecycleElement, Turn, EnqueueLocs, DequeueLocs
    <3> HIDE DEF TurnLocs
    <3> QED
      BY <1>1, <3>1
  <2>2. CASE InitPointer(t) \/ InitCounter(t) \/ LinkElement(t)
    <3>1. /\ UNCHANGED <<enqueue, dequeue, fs, qe, enq, deq, nxt, val, ops, due>>
          /\ qaba' = qaba \/ qaba' = qaba + 1
          /\ userData' = userData \/ userData' = [userData EXCEPT ![qe[t]] = val[t]]
      BY <2>2 DEF InitPointer, InitCounter, LinkElement, queueHistory, With
    <3>2. \/ qnext' = qnext
          \/ qnext' = [qnext EXCEPT ![qe[t]].ptr = NoElem]
          \/ qnext' = [qnext EXCEPT ![qe[t]].ctr = qaba'] /\ qaba' = qaba + 1
          \/ qnext' = [qnext EXCEPT ![enq[t].ptr] =
                        [ptr |-> qe[t], ctr |-> nxt[t].ctr + 1]]
      BY <2>2 DEF InitPointer, InitCounter, LinkElement, With
    <3>3. [ptr |-> qe[t], ctr |-> nxt[t].ctr + 1] \in QPair /\ NoElem \in QPtr
      BY <1>1 DEF QPair, QPtr
    <3>4. qnext' \in [QueueElems -> QPair]
      <4>1. ASSUME NEW e PROVE [qnext EXCEPT ![e].ptr = NoElem] \in [QueueElems -> QPair]
        BY <1>1 DEF QPair, QPtr
      <4>2. ASSUME NEW e, NEW n \in Nat
            PROVE  [qnext EXCEPT ![e].ctr = n] \in [QueueElems -> QPair]
        BY <1>1 DEF QPair, QPtr
      <4>3. ASSUME NEW e, NEW p \in QPair
            PROVE  [qnext EXCEPT ![e] = p] \in [QueueElems -> QPair]
        BY <1>1
      <4>4. qaba' \in Nat
        BY <1>1, <3>1
      <4>5. CASE qnext' = qnext
        BY <1>1, <4>5
      <4>6. CASE qnext' = [qnext EXCEPT ![qe[t]].ptr = NoElem]
        BY <4>1, <4>6
      <4>7. CASE qnext' = [qnext EXCEPT ![qe[t]].ctr = qaba'] /\ qaba' = qaba + 1
        BY <4>2, <4>4, <4>7
      <4>8. CASE qnext' = [qnext EXCEPT ![enq[t].ptr] =
                            [ptr |-> qe[t], ctr |-> nxt[t].ctr + 1]]
        BY <3>3, <4>3, <4>8
      <4> QED
        BY <3>2, <4>5, <4>6, <4>7, <4>8
    <3>5. \/ content' = content
          \/ content' = Append(content, val[t]) /\ val[t] \in QueueValues
      BY <2>2 DEF InitPointer, InitCounter, LinkElement, queueHistory, EnqueueLocs, Turn
    <3>6. content' \in Seq(QueueValues)
      <4>1. content \in Seq(QueueValues)
        BY <1>1
      <4>2. ASSUME NEW v \in QueueValues PROVE Append(content, v) \in Seq(QueueValues)
        BY <4>1
      <4> QED
        BY <3>5, <4>1, <4>2
    <3>7. qaba' \in Nat
      BY <1>1, <3>1
    <3>8. userData' \in [QueueElems -> Vals]
      <4>1. val[t] \in Vals
        BY <1>1
      <4> HIDE DEF Vals
      <4> QED
        BY <1>1, <3>1, <4>1
    <3> QED
      BY <1>1, <1>2, <2>1, <3>1, <3>4, <3>6, <3>7, <3>8 DEF QueueTypeOK
  <2>3. CASE ~(InitPointer(t) \/ InitCounter(t) \/ LinkElement(t))
    <3>1. /\ UNCHANGED <<qnext, userData, qaba, ops>>
          /\ \/ enq' = [enq EXCEPT ![t].ptr = enqueue.ptr]
             \/ enq' = [enq EXCEPT ![t].ctr = enqueue.ctr]
             \/ enq' = With(enq, t, NoPair) \/ enq' = enq
          /\ \/ deq' = [deq EXCEPT ![t].ptr = dequeue.ptr]
             \/ deq' = [deq EXCEPT ![t].ctr = dequeue.ctr]
             \/ deq' = With(deq, t, NoPair) \/ deq' = deq
          /\ \/ /\ qpc[t] = "enqNextPtr"
                /\ nxt' = [nxt EXCEPT ![t].ptr = qnext[enq[t].ptr].ptr]
             \/ /\ qpc[t] = "enqNextCtr"
                /\ nxt' = [nxt EXCEPT ![t].ctr = qnext[enq[t].ptr].ctr]
             \/ /\ qpc[t] = "deqNextPtr"
                /\ nxt' = [nxt EXCEPT ![t].ptr = qnext[deq[t].ptr].ptr]
             \/ /\ qpc[t] = "deqNextCtr"
                /\ nxt' = [nxt EXCEPT ![t].ctr = qnext[deq[t].ptr].ctr]
             \/ nxt' = With(nxt, t, NoPair) \/ nxt' = nxt
      BY <1>4, <2>3 DEF LfdsStep, EnqueueStep, DequeueStep, HelpEnqueue,
        ReadEnqueuePointer, ReadEnqueueCounter, ReadNextPointer, ReadNextCounter,
        TestEnqueue, EnqueueEnd, ReadDequeuePointer, ReadDequeueCounter,
        DequeueReadEnqueuePointer, DequeueReadEnqueueCounter, DequeueReadNextPointer,
        DequeueReadNextCounter, DequeueEmpty, TestDequeue, ReadData, Take,
        RecycleElement, queueShared, queueHistory, NoLocals, Turn
    <3>2. /\ \/ val' = val \/ val' = With(val, t, NoQueueValue)
             \/ qpc[t] = "readData" /\ val' = With(val, t, userData[nxt[t].ptr])
          /\ \/ due' = due \/ due' = With(due, t, NoQueueValue)
             \/ content # <<>> /\ due' = With(due, t, Head(content))
          /\ content' = content \/ (content # <<>> /\ content' = Tail(content))
          /\ \/ enqueue' = enqueue
             \/ enqueue' = [ptr |-> nxt[t].ptr, ctr |-> enq[t].ctr + 1]
             \/ enqueue' = [ptr |-> qe[t], ctr |-> enq[t].ctr + 1]
          /\ \/ dequeue' = dequeue
             \/ dequeue' = [ptr |-> nxt[t].ptr, ctr |-> deq[t].ctr + 1]
          /\ \/ qe' = qe \/ qe' = [qe EXCEPT ![t] = NoElem]
             \/ qe' = [qe EXCEPT ![t] = deq[t].ptr]
          /\ fs' = fs \/ (qpc[t] = "recycle" /\ fs' = fs \cup {qe[t]})
      BY <1>4, <2>3 DEF LfdsStep, EnqueueStep, DequeueStep, HelpEnqueue,
        ReadEnqueuePointer, ReadEnqueueCounter, ReadNextPointer, ReadNextCounter,
        TestEnqueue, EnqueueEnd, ReadDequeuePointer, ReadDequeueCounter,
        DequeueReadEnqueuePointer, DequeueReadEnqueueCounter, DequeueReadNextPointer,
        DequeueReadNextCounter, DequeueEmpty, TestDequeue, ReadData, Take,
        RecycleElement, queueShared, queueHistory, SwingTo, With, Turn
    <3>3. enq' \in [Callers -> QPair] /\ deq' \in [Callers -> QPair]
      <4>1. /\ [enq EXCEPT ![t].ptr = enqueue.ptr] \in [Callers -> QPair]
            /\ [enq EXCEPT ![t].ctr = enqueue.ctr] \in [Callers -> QPair]
            /\ With(enq, t, NoPair) \in [Callers -> QPair]
            /\ [deq EXCEPT ![t].ptr = dequeue.ptr] \in [Callers -> QPair]
            /\ [deq EXCEPT ![t].ctr = dequeue.ctr] \in [Callers -> QPair]
            /\ With(deq, t, NoPair) \in [Callers -> QPair]
        BY <1>1, PairTypes
      <4> QED
        BY <1>1, <3>1, <4>1
    <3>4. nxt' \in [Callers -> QPair]
      <4>1. ASSUME NEW e \in QueueElems
            PROVE  /\ [nxt EXCEPT ![t].ptr = qnext[e].ptr] \in [Callers -> QPair]
                   /\ [nxt EXCEPT ![t].ctr = qnext[e].ctr] \in [Callers -> QPair]
        BY <1>1, PairTypes
      <4>2. With(nxt, t, NoPair) \in [Callers -> QPair] /\ nxt \in [Callers -> QPair]
        BY <1>1 DEF With, NoPair, QPair, QPtr
      <4>3. /\ qpc[t] \in {"enqNextPtr", "enqNextCtr"} =>
                 /\ [nxt EXCEPT ![t].ptr = qnext[enq[t].ptr].ptr] \in [Callers -> QPair]
                 /\ [nxt EXCEPT ![t].ctr = qnext[enq[t].ptr].ctr] \in [Callers -> QPair]
            /\ qpc[t] \in {"deqNextPtr", "deqNextCtr"} =>
                 /\ [nxt EXCEPT ![t].ptr = qnext[deq[t].ptr].ptr] \in [Callers -> QPair]
                 /\ [nxt EXCEPT ![t].ctr = qnext[deq[t].ptr].ctr] \in [Callers -> QPair]
        BY <4>1
      <4> QED
        BY <3>1, <4>2, <4>3
    <3>5. val' \in [Callers -> Vals] /\ due' \in [Callers -> Vals]
      <4>1. content # <<>> => Head(content) \in Vals
        BY <1>1
      <4>2. qpc[t] = "readData" => userData[nxt[t].ptr] \in Vals
        BY <1>1
      <4>3. NoQueueValue \in Vals
        OBVIOUS
      <4> HIDE DEF Vals
      <4>4. ASSUME NEW f \in [Callers -> Vals], NEW v \in Vals
            PROVE  With(f, t, v) \in [Callers -> Vals]
        BY DEF With
      <4>5. val \in [Callers -> Vals] /\ due \in [Callers -> Vals]
        BY <1>1
      <4>6. val' \in [Callers -> Vals]
        BY <3>2, <4>2, <4>3, <4>4, <4>5
      <4>7. due' \in [Callers -> Vals]
        BY <3>2, <4>1, <4>3, <4>4, <4>5
      <4> QED
        BY <4>6, <4>7
    <3>6. content' \in Seq(QueueValues)
      <4>1. content # <<>> => Tail(content) \in Seq(QueueValues)
        BY <1>1
      <4> QED
        BY <1>1, <3>2, <4>1
    <3>7. enqueue' \in QPair /\ dequeue' \in QPair
      <4>1. /\ [ptr |-> nxt[t].ptr, ctr |-> enq[t].ctr + 1] \in QPair
            /\ [ptr |-> qe[t], ctr |-> enq[t].ctr + 1] \in QPair
            /\ [ptr |-> nxt[t].ptr, ctr |-> deq[t].ctr + 1] \in QPair
        BY <1>1 DEF QPair
      <4> QED
        BY <1>1, <3>2, <4>1
    <3>8. fs' \subseteq QueueElems /\ qe' \in [Callers -> QPtr]
      <4>1. deq[t].ptr \in QPtr /\ NoElem \in QPtr
        BY <1>1 DEF QPair, QPtr
      <4> QED
        BY <1>1, <3>2, <4>1
    <3> QED
      BY <1>1, <1>2, <2>1, <3>1, <3>3, <3>4, <3>5, <3>6, <3>7, <3>8 DEF QueueTypeOK
  <2> QED
    BY <2>2, <2>3
<1> QED
  BY <1>3, <1>4 DEF LfdsBegin

-----------------------------------------------------------------------------
(* The list is what it was if no next pointer of it has changed.           *)
LEMMA LinkedKept ==
  ASSUME IsList(Linked), dequeue' = dequeue,
         \A i \in 1 .. Len(Linked) : qnext'[Linked[i]].ptr = qnext[Linked[i]].ptr
  PROVE  Linked' = Linked /\ IsList(Linked)'
<1>1. PICK c : c = Linked
  OBVIOUS
<1>2. Len(c) \in Nat \ {0}
  BY <1>1 DEF IsList
<1>3. IsList(c)'
  BY <1>1, <1>2 DEF IsList
<1>4. Linked' = c
  BY <1>3, ChainIsListNext
<1> QED
  BY <1>1, <1>3, <1>4 DEF IsList

(* A pointer to a new element makes it the last one.                       *)
LEMMA LinkedAppended ==
  ASSUME IsList(Linked), dequeue' = dequeue, NEW e \in QueueElems,
         ~InList(e, Linked), qnext[e].ptr = NoElem, qnext \in [QueueElems -> QPair],
         NEW p \in QPair, p.ptr = e, qnext' = With(qnext, Linked[Len(Linked)], p)
  PROVE  Linked' = Append(Linked, e) /\ IsList(Linked)'
<1>1. PICK c : c = Linked
  OBVIOUS
<1>2. /\ c \in Seq(QueueElems) /\ Len(c) \in Nat \ {0} /\ c[1] = dequeue.ptr
      /\ \A i, j \in 1 .. Len(c) : c[i] = c[j] => i = j
      /\ \A i \in 1 .. Len(c) - 1 : qnext[c[i]].ptr = c[i + 1]
      /\ qnext[c[Len(c)]].ptr = NoElem
      /\ \A i \in 1 .. Len(c) : c[i] # e /\ c[i] \in QueueElems
  BY <1>1 DEF IsList, InList
<1>3. PICK d : d = Append(c, e)
  OBVIOUS
<1>4. /\ d \in Seq(QueueElems) /\ Len(d) = Len(c) + 1 /\ d[Len(c) + 1] = e
      /\ \A i \in 1 .. Len(c) : d[i] = c[i]
  BY <1>2, <1>3, AppendProperties
<1>5. qnext'[c[Len(c)]].ptr = e
  BY <1>1, <1>2 DEF With
<1>6. \A x \in QueueElems : x # c[Len(c)] => qnext'[x] = qnext[x]
  BY <1>1 DEF With
<1>7. d # <<>> /\ d[1] = dequeue'.ptr
  BY <1>2, <1>4
<1>8. \A i, j \in 1 .. Len(d) : d[i] = d[j] => i = j
  BY <1>2, <1>4
<1>9. ASSUME NEW i \in 1 .. Len(d) - 1 PROVE qnext'[d[i]].ptr = d[i + 1]
  <2>1. i \in 1 .. Len(c) /\ d[i] = c[i]
    BY <1>2, <1>4
  <2>2. CASE i = Len(c)
    BY <1>4, <1>5, <2>1, <2>2
  <2>3. CASE i # Len(c)
    <3>1. i \in 1 .. Len(c) - 1 /\ i + 1 \in 1 .. Len(c)
      BY <1>2, <2>1, <2>3
    <3>2. c[i] # c[Len(c)]
      BY <1>2, <2>1, <2>3
    <3> QED
      BY <1>2, <1>4, <1>6, <2>1, <3>1, <3>2
  <2> QED
    BY <2>2, <2>3
<1>10. qnext'[d[Len(d)]].ptr = NoElem
  BY <1>2, <1>4, <1>6
<1>11. IsList(d)'
  BY <1>4, <1>7, <1>8, <1>9, <1>10 DEF IsList
<1>12. Linked' = d
  BY <1>11, ChainIsListNext
<1> QED
  BY <1>1, <1>3, <1>11, <1>12 DEF IsList

(* A dummy that moves on leaves the rest of the list.                      *)
LEMMA LinkedTail ==
  ASSUME IsList(Linked), Len(Linked) > 1, dequeue'.ptr = Linked[2], qnext' = qnext
  PROVE  /\ Linked' = Tail(Linked) /\ IsList(Linked)'
         /\ Len(Linked') = Len(Linked) - 1
         /\ \A i \in 1 .. Len(Linked') : Linked'[i] = Linked[i + 1]
<1>1. PICK c : c = Linked
  OBVIOUS
<1>2. /\ c \in Seq(QueueElems) /\ Len(c) \in Nat \ {0, 1}
      /\ \A i, j \in 1 .. Len(c) : c[i] = c[j] => i = j
      /\ \A i \in 1 .. Len(c) - 1 : qnext[c[i]].ptr = c[i + 1]
      /\ qnext[c[Len(c)]].ptr = NoElem
  BY <1>1 DEF IsList
<1>3. PICK d : d = Tail(c)
  OBVIOUS
<1>4. /\ d \in Seq(QueueElems) /\ Len(d) = Len(c) - 1 /\ d # <<>>
      /\ \A i \in 1 .. Len(d) : d[i] = c[i + 1]
  <2>1. c # <<>> /\ Len(c) - 1 # 0
    BY <1>2
  <2>2. Tail(c) \in Seq(QueueElems) /\ Len(Tail(c)) = Len(c) - 1
    BY <1>2, <2>1, HeadTailProperties
  <2>3. \A i \in 1 .. Len(Tail(c)) : Tail(c)[i] = c[i + 1]
    BY <1>2, <2>1, <2>2, HeadTailProperties
  <2> QED
    BY <1>3, <2>1, <2>2, <2>3
<1>5. IsList(d)'
  <2>1. d[1] = dequeue'.ptr
    BY <1>1, <1>2, <1>4
  <2>2. \A i, j \in 1 .. Len(d) : d[i] = d[j] => i = j
    <3>1. \A i \in 1 .. Len(d) : i + 1 \in 1 .. Len(c)
      BY <1>2, <1>4
    <3>2. TAKE i, j \in 1 .. Len(d)
    <3>3. HAVE d[i] = d[j]
    <3>4. i + 1 = j + 1
      BY <1>2, <1>4, <3>1, <3>3
    <3> QED
      BY <3>4
  <2>3. ASSUME NEW i \in 1 .. Len(d) - 1 PROVE qnext'[d[i]].ptr = d[i + 1]
    <3>1. i \in 1 .. Len(d) /\ i + 1 \in 1 .. Len(d) /\ i + 1 \in 1 .. Len(c) - 1
      BY <1>2, <1>4
    <3> QED
      BY <1>2, <1>4, <3>1
  <2>4. qnext'[d[Len(d)]].ptr = NoElem
    <3>1. d[Len(d)] = c[Len(c)]
      BY <1>2, <1>4
    <3> QED
      BY <1>2, <3>1
  <2> QED
    BY <1>4, <2>1, <2>2, <2>3, <2>4 DEF IsList
<1>6. Linked' = d
  BY <1>5, ChainIsListNext
<1> QED
  BY <1>1, <1>3, <1>4, <1>5, <1>6 DEF IsList

-----------------------------------------------------------------------------
(* What every step leaves to a reader: the counters grow with what they    *)
(* count, and while the dummy stays, what lies behind it stays.            *)
Ahead ==
  /\ dequeue' = dequeue \/ dequeue.ctr < dequeue'.ctr
  /\ enqueue' = enqueue \/ enqueue.ctr < enqueue'.ctr
  /\ dequeue' = dequeue =>
       /\ \A e : InList(e, Linked) => InList(e, Linked')
       /\ Len(Linked) > 1 => /\ Len(Linked') > 1 /\ Linked'[2] = Linked[2]
                             /\ userData'[Linked[2]] = userData[Linked[2]]
       /\ enqueue.ptr # dequeue.ptr => enqueue'.ptr # dequeue.ptr
  /\ enqueue' = enqueue /\ qnext[enqueue.ptr].ptr # NoElem =>
       qnext'[enqueue.ptr].ptr = qnext[enqueue.ptr].ptr

(* The local variables of a thread. *)
Local(s) == <<qpc[s], enq[s], deq[s], nxt[s], val[s], due[s]>>

(* A step of another thread.                                               *)
LEMMA ReaderKept ==
  ASSUME QueueTypeOK, QueueTypeOK', NEW s \in Callers, ReaderInv(s), Ahead,
         Local(s)' = Local(s), qpc[s] \in DequeueLocs /\ sawEmpty[s] => sawEmpty'[s]
  PROVE  ReaderInv(s)'
<1>1. /\ qpc'[s] = qpc[s] /\ enq'[s] = enq[s] /\ deq'[s] = deq[s] /\ nxt'[s] = nxt[s]
      /\ val'[s] = val[s] /\ due'[s] = due[s]
  BY DEF Local
<1>2. /\ enq[s].ctr \in Nat /\ deq[s].ctr \in Nat /\ enqueue.ctr \in Nat
      /\ dequeue.ctr \in Nat /\ enqueue'.ctr \in Nat /\ dequeue'.ctr \in Nat
  BY DEF QueueTypeOK, QPair
<1>3. dequeue.ctr <= dequeue'.ctr /\ enqueue.ctr <= enqueue'.ctr
  BY <1>2 DEF Ahead
<1>4. qpc[s] \in CtrRead /\ dequeue' = deq[s] => dequeue' = dequeue
  BY <1>2 DEF Ahead, ReaderInv
<1>5. /\ qpc'[s] \in DequeueLocs \ {"deqPtr"} => deq'[s].ptr \in QueueElems
      /\ qpc'[s] \in CtrRead => deq'[s].ctr <= dequeue'.ctr
      /\ qpc'[s] \in EnqRead => enq'[s].ctr <= enqueue'.ctr
  BY <1>1, <1>2, <1>3 DEF ReaderInv
<1>6. qpc'[s] \in EnqPRead /\ dequeue' = deq'[s] =>
       /\ InList(enq'[s].ptr, Linked')
       /\ enq'[s].ptr # dequeue'.ptr => enqueue'.ptr # dequeue'.ptr
  <2> SUFFICES ASSUME qpc[s] \in EnqPRead, dequeue' = deq[s]
               PROVE  /\ InList(enq[s].ptr, Linked')
                      /\ enq[s].ptr # dequeue.ptr => enqueue'.ptr # dequeue.ptr
    BY <1>1, <1>4 DEF EnqPRead
  <2>1. dequeue' = dequeue
    BY <1>4 DEF EnqPRead
  <2> QED
    BY <2>1 DEF Ahead, ReaderInv
<1>7. qpc'[s] \in {"deqNextCtr", "deqTest"} /\ dequeue' = deq'[s] =>
       IF nxt'[s].ptr = NoElem THEN sawEmpty'[s] /\ enq'[s].ptr = dequeue'.ptr
       ELSE Len(Linked') > 1 /\ nxt'[s].ptr = Linked'[2]
  <2> SUFFICES ASSUME qpc[s] \in {"deqNextCtr", "deqTest"}, dequeue' = deq[s]
               PROVE  IF nxt[s].ptr = NoElem
                      THEN sawEmpty'[s] /\ enq[s].ptr = dequeue'.ptr
                      ELSE Len(Linked') > 1 /\ nxt[s].ptr = Linked'[2]
    BY <1>1
  <2>1. dequeue' = dequeue /\ qpc[s] \in DequeueLocs
    BY <1>4 DEF CtrRead, DequeueLocs
  <2> QED
    BY <2>1 DEF Ahead, ReaderInv
<1>8. qpc'[s] = "helpDequeue" =>
       /\ nxt'[s].ptr # NoElem
       /\ enqueue' = enq'[s] => qnext'[enqueue'.ptr].ptr = nxt'[s].ptr
  <2> SUFFICES ASSUME qpc[s] = "helpDequeue"
               PROVE  /\ nxt[s].ptr # NoElem
                      /\ enqueue' = enq[s] => qnext'[enqueue'.ptr].ptr = nxt[s].ptr
    BY <1>1
  <2>1. enq[s].ctr <= enqueue.ctr
    BY DEF ReaderInv, EnqRead, EnqPRead, CtrRead, DequeueLocs
  <2>2. enqueue' = enq[s] => enqueue' = enqueue
    BY <1>2, <2>1 DEF Ahead
  <2> QED
    BY <2>2 DEF Ahead, ReaderInv
<1>9. qpc'[s] \in {"readData", "take"} =>
       /\ nxt'[s].ptr # NoElem
       /\ dequeue' = deq'[s] =>
            Len(Linked') > 1 /\ nxt'[s].ptr = Linked'[2] /\ enqueue'.ptr # dequeue'.ptr
  <2> SUFFICES ASSUME qpc[s] \in {"readData", "take"}
               PROVE  /\ nxt[s].ptr # NoElem
                      /\ dequeue' = deq[s] =>
                           /\ Len(Linked') > 1 /\ nxt[s].ptr = Linked'[2]
                           /\ enqueue'.ptr # dequeue'.ptr
    BY <1>1
  <2>1. dequeue' = deq[s] => dequeue' = dequeue
    BY <1>4 DEF CtrRead, DequeueLocs
  <2> QED
    BY <2>1 DEF Ahead, ReaderInv
<1>10. qpc'[s] = "take" /\ dequeue' = deq'[s] => val'[s] = userData'[nxt'[s].ptr]
  <2> SUFFICES ASSUME qpc[s] = "take", dequeue' = deq[s]
               PROVE  val[s] = userData'[nxt[s].ptr]
    BY <1>1
  <2>1. dequeue' = dequeue
    BY <1>4 DEF CtrRead, DequeueLocs
  <2> QED
    BY <2>1 DEF Ahead, ReaderInv
<1>11. qpc'[s] \in {"idle", "recycle"} => val'[s] = due'[s]
  BY <1>1 DEF ReaderInv
<1> QED
  BY <1>5, <1>6, <1>7, <1>8, <1>9, <1>10, <1>11 DEF ReaderInv

(* Another thread's step leaves the writer what it has read.               *)
LEMMA WriterKept ==
  ASSUME NEW s \in Callers, WriterInv(s), Local(s)' = Local(s), qe'[s] = qe[s],
         qpc[s] \in EnqueueLocs \ {"swing"} => UNCHANGED <<qnext, userData, enqueue>>
  PROVE  WriterInv(s)'
<1>1. /\ qpc'[s] = qpc[s] /\ enq'[s] = enq[s] /\ nxt'[s] = nxt[s] /\ val'[s] = val[s]
      /\ due'[s] = due[s]
  BY DEF Local
<1>2. CASE qpc[s] \in EnqueueLocs \ {"swing"}
  BY <1>1, <1>2 DEF WriterInv
<1>3. CASE qpc[s] \notin EnqueueLocs \ {"swing"}
  BY <1>1, <1>3 DEF WriterInv, EnqueueLocs
<1> QED
  BY <1>2, <1>3

-----------------------------------------------------------------------------
(* What the invariant says of the list. *)
LEMMA ListFacts ==
  ASSUME LfdsInv
  PROVE  /\ Linked \in Seq(QueueElems) /\ Len(Linked) \in Nat \ {0}
         /\ Linked[1] = dequeue.ptr /\ qnext[Linked[Len(Linked)]].ptr = NoElem
         /\ \A i \in 1 .. Len(Linked) : Linked[i] \in QueueElems /\ Linked[i] # NoElem
         /\ \A i, j \in 1 .. Len(Linked) : Linked[i] = Linked[j] => i = j
         /\ \A i \in 1 .. Len(Linked) - 1 : qnext[Linked[i]].ptr = Linked[i + 1]
         /\ InList(dequeue.ptr, Linked) /\ InList(enqueue.ptr, Linked)
         /\ dequeue.ptr \in QueueElems /\ enqueue.ptr \in QueueElems
         /\ content \in Seq(QueueValues) /\ Len(content) = Len(Linked) - 1
         /\ content = <<>> <=> Len(Linked) = 1
         /\ qnext[dequeue.ptr].ptr = IF Len(Linked) = 1 THEN NoElem ELSE Linked[2]
         /\ Len(Linked) = 1 \/ Len(Linked) > 1
<1>1. /\ Linked \in Seq(QueueElems) /\ Len(Linked) \in Nat \ {0}
      /\ Linked[1] = dequeue.ptr /\ qnext[Linked[Len(Linked)]].ptr = NoElem
      /\ \A i \in 1 .. Len(Linked) : Linked[i] \in QueueElems /\ Linked[i] # NoElem
      /\ \A i, j \in 1 .. Len(Linked) : Linked[i] = Linked[j] => i = j
      /\ \A i \in 1 .. Len(Linked) - 1 : qnext[Linked[i]].ptr = Linked[i + 1]
  BY QueueElemsAssumption DEF LfdsInv, ListInv, IsList
<1>2. InList(dequeue.ptr, Linked) /\ dequeue.ptr \in QueueElems
  BY <1>1 DEF InList
<1>3. InList(enqueue.ptr, Linked)
  <2>1. CASE \A t \in Callers : qpc[t] # "swing"
    BY <1>1, <2>1 DEF LfdsInv, TailInv, InList
  <2>2. CASE \E t \in Callers : qpc[t] = "swing"
    BY <1>1, <2>2 DEF LfdsInv, TailInv, InList
  <2> QED
    BY <2>1, <2>2
<1>4. enqueue.ptr \in QueueElems
  BY <1>1, <1>3 DEF InList
<1>5. /\ content \in Seq(QueueValues) /\ Len(content) = Len(Linked) - 1
      /\ content = <<>> <=> Len(Linked) = 1
  <2>1. content \in Seq(QueueValues) /\ Len(Linked) = Len(content) + 1
    BY DEF LfdsInv, ListInv, QueueTypeOK
  <2> QED
    BY <1>1, <2>1
<1>6. Len(Linked) = 1 \/ Len(Linked) > 1
  <2>1. \A n \in Nat \ {0} : n = 1 \/ n > 1
    OBVIOUS
  <2> QED
    BY <1>1, <2>1
<1>7. qnext[dequeue.ptr].ptr = IF Len(Linked) = 1 THEN NoElem ELSE Linked[2]
  <2>1. CASE Len(Linked) = 1
    BY <1>1, <2>1
  <2>2. CASE Len(Linked) > 1
    <3>1. 1 \in 1 .. Len(Linked) - 1 /\ 1 + 1 = 2
      BY <1>1, <2>2
    <3> QED
      BY <1>1, <2>2, <3>1
  <2> QED
    BY <1>6, <2>1, <2>2
<1> QED
  BY <1>1, <1>2, <1>3, <1>4, <1>5, <1>6, <1>7

(* If an element follows qs->enqueue, the writer has just linked it.       *)
LEMMA BehindFacts ==
  ASSUME LfdsInv, qnext[enqueue.ptr].ptr # NoElem
  PROVE  \E w \in Callers : qpc[w] = "swing" /\ qe[w] = Linked[Len(Linked)]
           /\ enqueue = enq[w] /\ Len(Linked) > 1
           /\ enqueue.ptr = Linked[Len(Linked) - 1]
           /\ qnext[enqueue.ptr].ptr = Linked[Len(Linked)]
<1>1. enqueue.ptr # Linked[Len(Linked)]
  BY ListFacts
<1>2. PICK w \in Callers : qpc[w] = "swing"
  BY <1>1 DEF LfdsInv, TailInv
<1>3. /\ qe[w] = Linked[Len(Linked)] /\ Len(Linked) > 1
      /\ enqueue.ptr = Linked[Len(Linked) - 1] /\ enqueue = enq[w]
  BY <1>1, <1>2 DEF LfdsInv, TailInv
<1>4. Len(Linked) - 1 \in 1 .. Len(Linked) - 1 /\ (Len(Linked) - 1) + 1 = Len(Linked)
  BY <1>3, ListFacts
<1>5. qnext[enqueue.ptr].ptr = Linked[Len(Linked)]
  BY <1>3, <1>4, ListFacts
<1> QED
  BY <1>2, <1>3, <1>5

(* Two pairs of a pointer and a counter are the same if both agree.        *)
LEMMA PairEqual ==
  ASSUME NEW p \in QPair, NEW q \in QPair, p.ptr = q.ptr, p.ctr = q.ctr PROVE p = q
BY DEF QPair

(* A step changes the local variables of its own thread only.              *)
LEMMA OwnLocals ==
  ASSUME QueueTypeOK, NEW t \in Callers, LfdsBegin(t) \/ LfdsStep(t),
         NEW s \in Callers, s # t
  PROVE  /\ Local(s)' = Local(s) /\ qe'[s] = qe[s]
         /\ qpc[s] \in DequeueLocs /\ sawEmpty[s] => sawEmpty'[s]
<1>1. qpc'[s] = qpc[s] /\ qe'[s] = qe[s]
  BY DEF QueueTypeOK, LfdsBegin, EnqueueBegin, DequeueBegin, LfdsStep, EnqueueStep,
    DequeueStep, HelpEnqueue, InitPointer, InitCounter, ReadEnqueuePointer, LinkElement,
    ReadEnqueueCounter, ReadNextPointer, ReadNextCounter, TestEnqueue, EnqueueEnd,
    ReadDequeuePointer, ReadDequeueCounter, DequeueReadEnqueuePointer,
    DequeueReadEnqueueCounter, DequeueReadNextPointer, DequeueReadNextCounter,
    DequeueEmpty, TestDequeue, ReadData, Take, RecycleElement, Turn, With
<1>2. enq'[s] = enq[s] /\ deq'[s] = deq[s]
  BY DEF QueueTypeOK, LfdsBegin, EnqueueBegin, DequeueBegin, LfdsStep, EnqueueStep,
    DequeueStep, HelpEnqueue, InitPointer, InitCounter, ReadEnqueuePointer, LinkElement,
    ReadEnqueueCounter, ReadNextPointer, ReadNextCounter, TestEnqueue, EnqueueEnd,
    ReadDequeuePointer, ReadDequeueCounter, DequeueReadEnqueuePointer,
    DequeueReadEnqueueCounter, DequeueReadNextPointer, DequeueReadNextCounter,
    DequeueEmpty, TestDequeue, ReadData, Take, RecycleElement, With, NoLocals
<1>3. nxt'[s] = nxt[s]
  BY DEF QueueTypeOK, LfdsBegin, EnqueueBegin, DequeueBegin, LfdsStep, EnqueueStep,
    DequeueStep, HelpEnqueue, InitPointer, InitCounter, ReadEnqueuePointer, LinkElement,
    ReadEnqueueCounter, ReadNextPointer, ReadNextCounter, TestEnqueue, EnqueueEnd,
    ReadDequeuePointer, ReadDequeueCounter, DequeueReadEnqueuePointer,
    DequeueReadEnqueueCounter, DequeueReadNextPointer, DequeueReadNextCounter,
    DequeueEmpty, TestDequeue, ReadData, Take, RecycleElement, With, NoLocals
<1>4. val'[s] = val[s] /\ due'[s] = due[s]
  BY DEF QueueTypeOK, LfdsBegin, EnqueueBegin, DequeueBegin, LfdsStep, EnqueueStep,
    DequeueStep, HelpEnqueue, InitPointer, InitCounter, ReadEnqueuePointer, LinkElement,
    ReadEnqueueCounter, ReadNextPointer, ReadNextCounter, TestEnqueue, EnqueueEnd,
    ReadDequeuePointer, ReadDequeueCounter, DequeueReadEnqueuePointer,
    DequeueReadEnqueueCounter, DequeueReadNextPointer, DequeueReadNextCounter,
    DequeueEmpty, TestDequeue, ReadData, Take, RecycleElement, With, queueHistory
<1>5. qpc[s] \in DequeueLocs /\ sawEmpty[s] => sawEmpty'[s]
  BY <1>1 DEF LfdsBegin, LfdsStep, WatchEmpty
<1> QED
  BY <1>1, <1>2, <1>3, <1>4, <1>5 DEF Local

-----------------------------------------------------------------------------
(* A step that changes local variables only. *)
Quiet(t) ==
  /\ UNCHANGED <<queueShared, qe, content>>
  /\ \A s \in Callers \ {t} : qpc'[s] = qpc[s] /\ enq'[s] = enq[s]
  /\ qpc'[t] \in OwnLocs <=> qpc[t] \in OwnLocs
  /\ qpc[t] # "swing" /\ qpc'[t] # "swing"

(* Such a step changes neither the list nor the place of an element.       *)
LEMMA QuietKeeps ==
  ASSUME LfdsInv, NEW t \in Callers, Quiet(t)
  PROVE  ListInv' /\ PlaceInv' /\ TailInv' /\ Ahead /\ Linked' = Linked
<1>1. /\ enqueue' = enqueue /\ dequeue' = dequeue /\ qnext' = qnext /\ fs' = fs
      /\ userData' = userData /\ qe' = qe /\ content' = content
  BY DEF Quiet, queueShared
<1>2. Linked' = Linked
  BY <1>1 DEF Linked, Chain
<1>3. ListInv'
  BY <1>1, <1>2 DEF LfdsInv, ListInv, IsList
<1>4. \A s \in Callers : /\ qpc'[s] \in OwnLocs <=> qpc[s] \in OwnLocs
                         /\ qpc'[s] = "swing" <=> qpc[s] = "swing"
                         /\ qpc[s] = "swing" => enq'[s] = enq[s]
  BY DEF Quiet
<1>5. PlaceInv'
  BY <1>1, <1>2, <1>4 DEF LfdsInv, PlaceInv, InList
<1>6. TailInv'
  BY <1>1, <1>2, <1>4 DEF LfdsInv, TailInv
<1>7. Ahead
  BY <1>1, <1>2 DEF Ahead
<1> QED
  BY <1>2, <1>3, <1>5, <1>6, <1>7

(* What a step has to establish. *)
Kept(t) == /\ ListInv' /\ PlaceInv' /\ TailInv' /\ Ahead /\ WriterInv(t)' /\ ReaderInv(t)'
           /\ \A s \in Callers : qpc[s] \in EnqueueLocs \ {"swing"} /\ s # t =>
                UNCHANGED <<qnext, userData, enqueue>>

(* A step that establishes this keeps the invariant: the other threads     *)
(* rely on nothing that it changes.                                        *)
LEMMA KeptInv ==
  ASSUME LfdsInv, QueueTypeOK', NEW t \in Callers, LfdsBegin(t) \/ LfdsStep(t), Kept(t)
  PROVE  LfdsInv'
<1>1. QueueTypeOK
  BY DEF LfdsInv
<1>2. ASSUME NEW s \in Callers PROVE WriterInv(s)' /\ ReaderInv(s)'
  <2>1. CASE s = t
    BY <2>1 DEF Kept
  <2>2. CASE s # t
    <3>1. /\ Local(s)' = Local(s) /\ qe'[s] = qe[s]
          /\ qpc[s] \in DequeueLocs /\ sawEmpty[s] => sawEmpty'[s]
      BY <1>1, <2>2, OwnLocals
    <3>2. WriterInv(s) /\ ReaderInv(s) /\ Ahead
      BY DEF LfdsInv, Kept
    <3>3. ReaderInv(s)'
      BY <1>1, <3>1, <3>2, ReaderKept
    <3>4. WriterInv(s)'
      BY <2>2, <3>1, <3>2, WriterKept DEF Kept
    <3> QED
      BY <3>3, <3>4
  <2> QED
    BY <2>1, <2>2
<1> QED
  BY <1>2 DEF LfdsInv, Kept

(* With one writer, nobody else enqueues. *)
OneWriter == \A v, w \in Enqueuers : v = w

LEMMA NobodyElse ==
  ASSUME OneWriter, LfdsInv, NEW t \in Enqueuers, NEW s \in Callers, s # t
  PROVE  qpc[s] \notin EnqueueLocs
BY DEF OneWriter, LfdsInv, WriterInv

(* After a quiet step, only what its thread relies on is left to prove.    *)
LEMMA QuietFrame ==
  ASSUME LfdsInv, NEW t \in Callers, Quiet(t), WriterInv(t)', ReaderInv(t)'
  PROVE  Kept(t)
<1>1. UNCHANGED <<qnext, userData, enqueue>>
  BY DEF Quiet, queueShared
<1> QED
  BY <1>1, QuietKeeps DEF Kept

-----------------------------------------------------------------------------
(* The steps of a reader that change its local variables only.             *)
LEMMA QuietReader ==
  ASSUME LfdsInv, QueueTypeOK', NEW t \in Callers, WatchEmpty,
         \/ DequeueBegin(t) \/ ReadDequeuePointer(t) \/ ReadDequeueCounter(t)
         \/ DequeueReadEnqueuePointer(t) \/ DequeueReadEnqueueCounter(t)
         \/ DequeueReadNextPointer(t) \/ DequeueReadNextCounter(t)
         \/ DequeueEmpty(t) \/ TestDequeue(t) \/ ReadData(t)
  PROVE  Quiet(t) /\ WriterInv(t)'
<1>1. /\ enqueue' = enqueue /\ dequeue' = dequeue /\ qnext' = qnext /\ fs' = fs
      /\ userData' = userData /\ qaba' = qaba /\ qe' = qe /\ content' = content
  BY DEF DequeueBegin, ReadDequeuePointer, ReadDequeueCounter,
    DequeueReadEnqueuePointer, DequeueReadEnqueueCounter, DequeueReadNextPointer,
    DequeueReadNextCounter, DequeueEmpty, TestDequeue, ReadData, queueShared,
    queueHistory
<1>2. /\ \A s \in Callers \ {t} : qpc'[s] = qpc[s] /\ enq'[s] = enq[s]
      /\ qpc[t] \in DequeueLocs \cup {"idle"} /\ qpc'[t] \in DequeueLocs \cup {"idle"}
  <2>1. QueueTypeOK
    BY DEF LfdsInv
  <2> QED
    BY <2>1 DEF QueueTypeOK, DequeueBegin, ReadDequeuePointer, ReadDequeueCounter,
      DequeueReadEnqueuePointer, DequeueReadEnqueueCounter, DequeueReadNextPointer,
      DequeueReadNextCounter, DequeueEmpty, TestDequeue, ReadData, Turn, NoLocals, With,
      DequeueLocs
<1>3. Quiet(t)
  BY <1>1, <1>2 DEF Quiet, queueShared, OwnLocs, DequeueLocs
<1>4. WriterInv(t)'
  BY <1>2 DEF WriterInv, EnqueueLocs, DequeueLocs
<1> QED
  BY <1>3, <1>4

(* What a reader reads is there when it reads it.                          *)
LEMMA QuietReaderInv ==
  ASSUME LfdsInv, QueueTypeOK', NEW t \in Callers, WatchEmpty,
         \/ DequeueBegin(t) \/ ReadDequeuePointer(t) \/ ReadDequeueCounter(t)
         \/ DequeueReadEnqueuePointer(t) \/ DequeueReadEnqueueCounter(t)
         \/ DequeueReadNextPointer(t) \/ DequeueReadNextCounter(t)
         \/ DequeueEmpty(t) \/ TestDequeue(t) \/ ReadData(t)
  PROVE  ReaderInv(t)'
<1> USE DEF DequeueLocs, CtrRead, EnqPRead, EnqRead
<1>1. /\ enqueue' = enqueue /\ dequeue' = dequeue /\ qnext' = qnext
      /\ userData' = userData /\ content' = content /\ Linked' = Linked
  BY QuietReader, QuietKeeps DEF Quiet, queueShared
<1>2. /\ enq \in [Callers -> QPair] /\ deq \in [Callers -> QPair]
      /\ nxt \in [Callers -> QPair]
      /\ val \in [Callers -> QueueValues \cup {NoQueueValue}]
      /\ due \in [Callers -> QueueValues \cup {NoQueueValue}]
      /\ qpc \in [Callers -> EnqueueLocs \cup DequeueLocs \cup {"idle", "recycle"}]
      /\ enqueue \in QPair /\ dequeue \in QPair
  BY DEF LfdsInv, QueueTypeOK
<1>3. ReaderInv(t)
  BY DEF LfdsInv
<1>4. sawEmpty'[t] = (qpc'[t] \in DequeueLocs /\ (sawEmpty[t] \/ content = <<>>))
  BY <1>1 DEF WatchEmpty
<1>5. enqueue.ctr \in Nat /\ dequeue.ctr \in Nat /\ deq[t] \in QPair /\ enq[t] \in QPair
  BY <1>2 DEF QPair
<1>6. dequeue.ptr \in QueueElems /\ InList(enqueue.ptr, Linked)
  BY ListFacts
<1>7. CASE DequeueBegin(t)
  <2>1. qpc'[t] = "deqPtr"
    BY <1>2, <1>7 DEF DequeueBegin, Turn
  <2> QED
    BY <2>1 DEF ReaderInv
<1>8. CASE ReadDequeuePointer(t)
  <2>1. qpc'[t] = "deqCtr" /\ deq'[t].ptr = dequeue.ptr
    BY <1>2, <1>8 DEF ReadDequeuePointer, Turn, QPair
  <2> QED
    BY <1>6, <2>1 DEF ReaderInv
<1>9. CASE ReadDequeueCounter(t)
  <2>1. /\ qpc[t] = "deqCtr" /\ qpc'[t] = "deqEnqPtr"
        /\ deq'[t].ctr = dequeue.ctr /\ deq'[t].ptr = deq[t].ptr
    BY <1>2, <1>9 DEF ReadDequeueCounter, Turn, QPair
  <2> QED
    BY <1>1, <1>3, <1>5, <2>1 DEF ReaderInv
<1>10. CASE DequeueReadEnqueuePointer(t)
  <2>1. /\ qpc[t] = "deqEnqPtr" /\ qpc'[t] = "deqEnqCtr"
        /\ deq'[t] = deq[t] /\ enq'[t].ptr = enqueue.ptr
    BY <1>2, <1>10 DEF DequeueReadEnqueuePointer, Turn, QPair
  <2> QED
    BY <1>1, <1>3, <1>6, <2>1 DEF ReaderInv
<1>11. CASE DequeueReadEnqueueCounter(t)
  <2>1. /\ qpc[t] = "deqEnqCtr" /\ qpc'[t] = "deqNextPtr" /\ deq'[t] = deq[t]
        /\ enq'[t].ptr = enq[t].ptr /\ enq'[t].ctr = enqueue.ctr
    BY <1>2, <1>11 DEF DequeueReadEnqueueCounter, Turn, QPair
  <2> QED
    BY <1>1, <1>3, <1>5, <2>1 DEF ReaderInv
<1>12. CASE DequeueReadNextPointer(t)
  <2>1. /\ qpc[t] = "deqNextPtr" /\ qpc'[t] = "deqNextCtr" /\ deq'[t] = deq[t]
        /\ enq'[t] = enq[t] /\ nxt'[t].ptr = qnext[deq[t].ptr].ptr
    BY <1>2, <1>12 DEF DequeueReadNextPointer, Turn, QPair
  <2>2. ASSUME dequeue = deq[t]
        PROVE  IF nxt'[t].ptr = NoElem THEN sawEmpty'[t] /\ enq[t].ptr = dequeue.ptr
               ELSE Len(Linked) > 1 /\ nxt'[t].ptr = Linked[2]
    <3>1. InList(enq[t].ptr, Linked)
      BY <1>3, <2>1, <2>2 DEF ReaderInv
    <3>2. CASE Len(Linked) = 1
      <4>1. nxt'[t].ptr = NoElem /\ sawEmpty'[t]
        BY <1>4, <2>1, <2>2, <3>2, ListFacts
      <4>2. enq[t].ptr = dequeue.ptr
        BY <3>1, <3>2, ListFacts DEF InList
      <4> QED
        BY <4>1, <4>2
    <3>3. CASE Len(Linked) # 1
      <4>1. Len(Linked) \in Nat \ {0}
        BY ListFacts
      <4>2. Len(Linked) > 1
        BY <3>3, ListFacts
      <4>3. 2 \in 1 .. Len(Linked)
        BY <4>1, <4>2
      <4>4. nxt'[t].ptr = Linked[2] /\ Linked[2] # NoElem
        BY <2>1, <2>2, <3>3, <4>3, ListFacts
      <4> QED
        BY <4>2, <4>4
    <3> QED
      BY <3>2, <3>3
  <2> QED
    BY <1>1, <1>3, <2>1, <2>2 DEF ReaderInv
<1>13. CASE DequeueReadNextCounter(t)
  <2>1. /\ qpc[t] = "deqNextCtr" /\ qpc'[t] = "deqTest" /\ deq'[t] = deq[t]
        /\ enq'[t] = enq[t] /\ nxt'[t].ptr = nxt[t].ptr
    BY <1>2, <1>13 DEF DequeueReadNextCounter, Turn, QPair
  <2> QED
    BY <1>1, <1>3, <1>4, <2>1 DEF ReaderInv
<1>14. CASE DequeueEmpty(t)
  <2>1. /\ qpc[t] = "deqTest" /\ qpc'[t] = "idle" /\ val'[t] = NoQueueValue
        /\ dequeue = deq[t] /\ nxt[t].ptr = NoElem
        /\ due'[t] = IF sawEmpty[t] THEN NoQueueValue ELSE Head(content)
    BY <1>2, <1>14 DEF DequeueEmpty, Turn, With
  <2>2. sawEmpty[t]
    BY <1>3, <2>1 DEF ReaderInv
  <2> QED
    BY <2>1, <2>2 DEF ReaderInv
<1>15. CASE TestDequeue(t)
  <2>1. deq'[t] = deq[t] /\ enq'[t] = enq[t] /\ nxt'[t] = nxt[t] /\ qpc[t] = "deqTest"
    BY <1>15 DEF TestDequeue, Turn
  <2>2. CASE qpc'[t] = "deqPtr"
    BY <2>2 DEF ReaderInv
  <2>3. CASE qpc'[t] = "helpDequeue"
    <3>1. dequeue = deq[t] /\ enq[t].ptr = deq[t].ptr /\ nxt[t].ptr # NoElem
      BY <1>2, <1>15, <2>3 DEF TestDequeue, Turn
    <3>2. Len(Linked) > 1 /\ nxt[t].ptr = Linked[2]
      BY <1>3, <2>1, <3>1 DEF ReaderInv
    <3>3. qnext[dequeue.ptr].ptr = nxt[t].ptr
      BY <3>2, ListFacts
    <3> QED
      BY <1>1, <1>3, <2>1, <2>3, <3>1, <3>2, <3>3 DEF ReaderInv
  <2>4. CASE qpc'[t] = "readData"
    <3>1. dequeue = deq[t] /\ enq[t].ptr # deq[t].ptr
      BY <1>2, <1>15, <2>4 DEF TestDequeue, Turn
    <3>2. nxt[t].ptr # NoElem /\ Len(Linked) > 1 /\ nxt[t].ptr = Linked[2]
      BY <1>3, <2>1, <3>1 DEF ReaderInv
    <3>3. enqueue.ptr # dequeue.ptr
      BY <1>3, <2>1, <3>1 DEF ReaderInv
    <3> QED
      BY <1>1, <1>3, <2>1, <2>4, <3>1, <3>2, <3>3 DEF ReaderInv
  <2> QED
    BY <1>2, <1>15, <2>2, <2>3, <2>4 DEF TestDequeue, Turn
<1>16. CASE ReadData(t)
  <2>1. /\ qpc[t] = "readData" /\ qpc'[t] = "take" /\ deq'[t] = deq[t] /\ enq'[t] = enq[t]
        /\ nxt'[t] = nxt[t] /\ val'[t] = userData[nxt[t].ptr]
    BY <1>2, <1>16 DEF ReadData, Turn, With
  <2> QED
    BY <1>1, <1>3, <2>1 DEF ReaderInv
<1> QED
  BY <1>7, <1>8, <1>9, <1>10, <1>11, <1>12, <1>13, <1>14, <1>15, <1>16

(* The steps of the writer that change its local variables only.           *)
LEMMA QuietWriter ==
  ASSUME OneWriter, LfdsInv, QueueTypeOK', NEW t \in Callers,
         \/ ReadEnqueuePointer(t) \/ ReadEnqueueCounter(t) \/ ReadNextPointer(t)
         \/ ReadNextCounter(t) \/ TestEnqueue(t)
  PROVE  Kept(t)
<1> DEFINE Reading == {"enqPtr", "enqCtr", "enqNextPtr", "enqNextCtr", "enqTest", "link"}
<1>1. /\ enqueue' = enqueue /\ dequeue' = dequeue /\ qnext' = qnext /\ fs' = fs
      /\ userData' = userData /\ qaba' = qaba /\ qe' = qe /\ content' = content
      /\ val' = val /\ due' = due
  BY DEF ReadEnqueuePointer, ReadEnqueueCounter, ReadNextPointer, ReadNextCounter,
    TestEnqueue, queueShared, queueHistory
<1>2. /\ enq \in [Callers -> QPair] /\ nxt \in [Callers -> QPair]
      /\ qpc \in [Callers -> EnqueueLocs \cup DequeueLocs \cup {"idle", "recycle"}]
      /\ enqueue \in QPair /\ enq' \in [Callers -> QPair]
  BY DEF LfdsInv, QueueTypeOK
<1>3. WriterInv(t) /\ qpc[t] \in Reading
  BY DEF LfdsInv, ReadEnqueuePointer, ReadEnqueueCounter, ReadNextPointer,
    ReadNextCounter, TestEnqueue, Turn
<1>4. qpc[t] = "enqTest" => nxt[t].ptr = NoElem
  <2> SUFFICES ASSUME qpc[t] = "enqTest", nxt[t].ptr # NoElem PROVE FALSE
    OBVIOUS
  <2>1. qnext[enqueue.ptr].ptr # NoElem /\ t \in Enqueuers
    BY <1>3 DEF WriterInv, EnqueueLocs
  <2>2. PICK w \in Callers : qpc[w] = "swing"
    BY <2>1, BehindFacts
  <2> QED
    BY <2>1, <2>2, NobodyElse DEF EnqueueLocs
<1>5. /\ \A s \in Callers \ {t} : qpc'[s] = qpc[s] /\ enq'[s] = enq[s]
      /\ qpc'[t] \in Reading
  BY <1>2, <1>4 DEF ReadEnqueuePointer, ReadEnqueueCounter, ReadNextPointer,
    ReadNextCounter, TestEnqueue, Turn
<1>6. Quiet(t)
  BY <1>1, <1>3, <1>5 DEF Quiet, queueShared, OwnLocs
<1>7. ReaderInv(t)'
  BY <1>5 DEF ReaderInv, DequeueLocs, CtrRead, EnqPRead, EnqRead
<1>8. /\ t \in Enqueuers /\ val'[t] \in QueueValues /\ due'[t] = NoQueueValue
      /\ qnext'[qe'[t]].ptr = NoElem /\ userData'[qe'[t]] = val'[t]
  BY <1>1, <1>3 DEF WriterInv, EnqueueLocs
<1>9. CASE ReadEnqueuePointer(t)
  <2>1. qpc'[t] = "enqCtr" /\ enq'[t].ptr = enqueue.ptr
    BY <1>2, <1>9 DEF ReadEnqueuePointer, Turn, QPair
  <2> QED
    BY <1>1, <1>6, <1>7, <1>8, <2>1, QuietFrame DEF WriterInv
<1>10. CASE ReadEnqueueCounter(t)
  <2>1. qpc[t] = "enqCtr" /\ qpc'[t] = "enqNextPtr"
    BY <1>2, <1>10 DEF ReadEnqueueCounter, Turn
  <2>2. enq'[t].ctr = enqueue.ctr /\ enq'[t].ptr = enqueue.ptr
    BY <1>2, <1>3, <1>10, <2>1 DEF ReadEnqueueCounter, QPair, WriterInv
  <2>3. enq'[t] = enqueue
    BY <1>2, <2>2, PairEqual
  <2> QED
    BY <1>1, <1>6, <1>7, <1>8, <2>1, <2>3, QuietFrame DEF WriterInv
<1>11. CASE ReadNextPointer(t)
  <2>1. /\ qpc[t] = "enqNextPtr" /\ qpc'[t] = "enqNextCtr" /\ enq'[t] = enq[t]
        /\ nxt'[t].ptr = qnext[enq[t].ptr].ptr
    BY <1>2, <1>11 DEF ReadNextPointer, Turn, QPair
  <2>2. enq[t] = enqueue
    BY <1>3, <2>1 DEF WriterInv
  <2> QED
    BY <1>1, <1>6, <1>7, <1>8, <2>1, <2>2, QuietFrame DEF WriterInv
<1>12. CASE ReadNextCounter(t)
  <2>1. /\ qpc[t] = "enqNextCtr" /\ qpc'[t] = "enqTest" /\ enq'[t] = enq[t]
        /\ nxt'[t].ptr = nxt[t].ptr /\ nxt'[t].ctr = qnext[enq[t].ptr].ctr
    BY <1>2, <1>12 DEF ReadNextCounter, Turn, QPair
  <2>2. enq[t] = enqueue /\ nxt[t].ptr = qnext[enqueue.ptr].ptr
    BY <1>3, <2>1 DEF WriterInv
  <2> QED
    BY <1>1, <1>6, <1>7, <1>8, <2>1, <2>2, QuietFrame DEF WriterInv
<1>13. CASE TestEnqueue(t)
  <2>1. /\ qpc[t] = "enqTest" /\ enq'[t] = enq[t] /\ nxt'[t] = nxt[t]
        /\ qpc'[t] = "enqPtr" \/ qpc'[t] = "link"
    BY <1>2, <1>4, <1>13 DEF TestEnqueue, Turn
  <2>2. /\ enq[t] = enqueue /\ nxt[t].ptr = qnext[enqueue.ptr].ptr
        /\ nxt[t].ctr = qnext[enqueue.ptr].ctr
    BY <1>3, <2>1 DEF WriterInv
  <2> QED
    BY <1>1, <1>6, <1>7, <1>8, <2>1, <2>2, QuietFrame DEF WriterInv
<1> QED
  BY <1>9, <1>10, <1>11, <1>12, <1>13

-----------------------------------------------------------------------------
(* The writer takes a free element and prepares it.                        *)
LEMMA EnqueueBeginKeeps ==
  ASSUME OneWriter, LfdsInv, NEW t \in Callers, EnqueueBegin(t)
  PROVE  Kept(t)
<1>1. /\ enqueue' = enqueue /\ dequeue' = dequeue /\ qnext' = qnext /\ enq' = enq
      /\ userData' = userData /\ content' = content /\ t \in Enqueuers
      /\ qpc[t] = "idle" /\ qpc' = [qpc EXCEPT ![t] = "initPtr"]
  BY DEF EnqueueBegin, Turn
<1>2. PICK e \in fs : fs' = fs \ {e} /\ qe' = [qe EXCEPT ![t] = e]
  BY DEF EnqueueBegin, With
<1>3. /\ qpc \in [Callers -> EnqueueLocs \cup DequeueLocs \cup {"idle", "recycle"}]
      /\ qe \in [Callers -> QPtr] /\ e \in QueueElems /\ ops[t] + 1 \in 1 .. MaxOps
      /\ ops' = [ops EXCEPT ![t] = @ + 1] /\ ops \in [Callers -> 0 .. MaxOps]
  BY <1>2, EnqueuersAssumption DEF LfdsInv, QueueTypeOK, EnqueueBegin
<1>4. Linked' = Linked
  BY <1>1 DEF Linked, Chain
<1>5. ListInv'
  BY <1>1, <1>4 DEF LfdsInv, ListInv, IsList
<1>6. PlaceInv'
  <2>1. /\ qpc'[t] = "initPtr" /\ qe'[t] = e
        /\ \A s \in Callers \ {t} : qpc'[s] = qpc[s] /\ qe'[s] = qe[s]
    BY <1>1, <1>2, <1>3
  <2>2. PlaceInv
    BY DEF LfdsInv
  <2>3. ASSUME NEW s \in Callers, qpc'[s] \in OwnLocs
        PROVE  /\ qe'[s] \in QueueElems /\ qe'[s] \notin fs' /\ ~InList(qe'[s], Linked')
               /\ \A u \in Callers : qpc'[u] \in OwnLocs /\ qe'[u] = qe'[s] => u = s
    BY <1>2, <1>3, <1>4, <2>1, <2>2, <2>3 DEF PlaceInv, OwnLocs
  <2>4. ASSUME NEW s \in Callers, qpc'[s] \notin OwnLocs, qpc'[s] # "swing"
        PROVE  qe'[s] = NoElem
    BY <2>1, <2>2, <2>4 DEF PlaceInv, OwnLocs
  <2>5. \A x \in fs' : ~InList(x, Linked')
    BY <1>2, <1>4, <2>2 DEF PlaceInv
  <2>6. ASSUME NEW x \in QueueElems, x \notin fs', ~InList(x, Linked')
        PROVE  \E s \in Callers : qpc'[s] \in OwnLocs /\ qe'[s] = x
    <3>1. CASE x = e
      BY <2>1, <3>1 DEF OwnLocs
    <3>2. CASE x # e
      <4>1. PICK s \in Callers : qpc[s] \in OwnLocs /\ qe[s] = x
        BY <1>2, <1>4, <2>2, <2>6, <3>2 DEF PlaceInv
      <4>2. s # t
        BY <1>1, <4>1 DEF OwnLocs
      <4> QED
        BY <2>1, <4>1, <4>2
    <3> QED
      BY <3>1, <3>2
  <2> QED
    BY <2>3, <2>4, <2>5, <2>6 DEF PlaceInv
<1>7. TailInv'
  <2>1. \A s \in Callers : qpc[s] # "swing" \/ s = t
    BY <1>1, NobodyElse DEF EnqueueLocs
  <2>2. \A s \in Callers : qpc'[s] # "swing" /\ qpc[s] # "swing"
    BY <1>1, <1>3, <2>1
  <2> QED
    BY <1>1, <1>4, <2>2 DEF LfdsInv, TailInv
<1>8. WriterInv(t)'
  <2>1. qpc'[t] = "initPtr" /\ val'[t] = <<t, ops[t] + 1>> /\ due'[t] = NoQueueValue
    BY <1>1, <1>3 DEF EnqueueBegin, With, LfdsInv, QueueTypeOK
  <2>2. val'[t] \in QueueValues
    BY <1>3, <2>1 DEF QueueValues
  <2> QED
    BY <1>1, <2>1, <2>2 DEF WriterInv
<1>9. ReaderInv(t)'
  BY <1>1, <1>3 DEF ReaderInv, DequeueLocs, CtrRead, EnqPRead, EnqRead
<1>10. Ahead
  BY <1>1, <1>4 DEF Ahead
<1> QED
  BY <1>1, <1>5, <1>6, <1>7, <1>8, <1>9, <1>10 DEF Kept

(* The element that the writer prepares is not in the list yet.            *)
LEMMA InitKeeps ==
  ASSUME OneWriter, LfdsInv, NEW t \in Callers, InitPointer(t) \/ InitCounter(t)
  PROVE  Kept(t)
<1>1. /\ enqueue' = enqueue /\ dequeue' = dequeue /\ fs' = fs /\ qe' = qe /\ enq' = enq
      /\ content' = content /\ val' = val /\ due' = due /\ nxt' = nxt
      /\ qpc[t] \in {"initPtr", "initCtr"}
      /\ qpc' = [qpc EXCEPT ![t] = IF qpc[t] = "initPtr" THEN "initCtr" ELSE "enqPtr"]
  BY DEF InitPointer, InitCounter, Turn, queueHistory
<1>2. /\ qpc \in [Callers -> EnqueueLocs \cup DequeueLocs \cup {"idle", "recycle"}]
      /\ qnext \in [QueueElems -> QPair]
      /\ userData \in [QueueElems -> QueueValues \cup {NoQueueValue}]
  BY DEF LfdsInv, QueueTypeOK
<1>3. qe[t] \in QueueElems /\ ~InList(qe[t], Linked)
  BY <1>1 DEF LfdsInv, PlaceInv, OwnLocs
<1>4. WriterInv(t) /\ t \in Enqueuers /\ val[t] \in QueueValues /\ due[t] = NoQueueValue
  BY <1>1 DEF LfdsInv, WriterInv, EnqueueLocs
<1>5. \A x \in QueueElems : x # qe[t] =>
        qnext'[x] = qnext[x] /\ userData'[x] = userData[x]
  BY <1>2 DEF InitPointer, InitCounter, With
<1>6. \A i \in 1 .. Len(Linked) : Linked[i] \in QueueElems /\ Linked[i] # qe[t]
  BY <1>3, ListFacts DEF InList
<1>7. Linked' = Linked /\ IsList(Linked)'
  BY <1>1, <1>5, <1>6, LinkedKept DEF LfdsInv, ListInv
<1>8. ListInv'
  <2>1. ASSUME NEW i \in 1 .. Len(content)
        PROVE  userData'[Linked[i + 1]] = content[i]
    <3>1. i + 1 \in 1 .. Len(Linked)
      BY ListFacts
    <3> QED
      BY <1>5, <1>6, <3>1 DEF LfdsInv, ListInv
  <2> QED
    BY <1>1, <1>7, <2>1 DEF LfdsInv, ListInv
<1>9. \A s \in Callers : /\ qpc'[s] \in OwnLocs <=> qpc[s] \in OwnLocs
                         /\ qpc'[s] # "swing" <=> qpc[s] # "swing"
  BY <1>1, <1>2 DEF OwnLocs
<1>10. PlaceInv' /\ TailInv'
  BY <1>1, <1>7, <1>9 DEF LfdsInv, PlaceInv, TailInv, InList
<1>11. WriterInv(t)'
  <2>1. CASE InitPointer(t)
    <3>1. qpc'[t] = "initCtr" /\ qnext'[qe[t]].ptr = NoElem
      BY <1>2, <1>3, <2>1 DEF InitPointer, Turn, QPair
    <3> QED
      BY <1>1, <1>4, <3>1 DEF WriterInv
  <2>2. CASE InitCounter(t)
    <3>1. qpc[t] = "initCtr" /\ qpc'[t] = "enqPtr" /\ qnext[qe[t]].ptr = NoElem
      BY <1>2, <1>4, <2>2 DEF InitCounter, Turn, WriterInv, EnqueueLocs
    <3>2. qnext'[qe[t]].ptr = NoElem /\ userData'[qe[t]] = val[t]
      BY <1>2, <1>3, <2>2, <3>1 DEF InitCounter, With, QPair
    <3> QED
      BY <1>1, <1>4, <3>1, <3>2 DEF WriterInv
  <2> QED
    BY <2>1, <2>2
<1>12. ReaderInv(t)'
  <2>1. qpc'[t] \in {"initCtr", "enqPtr"}
    BY <1>1, <1>2
  <2> QED
    BY <2>1 DEF ReaderInv, DequeueLocs, CtrRead, EnqPRead, EnqRead
<1>13. Ahead
  <2>1. enqueue.ptr # qe[t] /\ enqueue.ptr \in QueueElems
    BY <1>3, ListFacts
  <2>2. Len(Linked) > 1 => Linked[2] \in QueueElems /\ Linked[2] # qe[t]
    <3>1. Len(Linked) > 1 => 2 \in 1 .. Len(Linked)
      BY ListFacts
    <3> QED
      BY <1>6, <3>1
  <2> QED
    BY <1>1, <1>5, <1>7, <2>1, <2>2 DEF Ahead
<1> QED
  BY <1>4, <1>8, <1>10, <1>11, <1>12, <1>13, NobodyElse DEF Kept

(* The compare-and-swap of the only writer succeeds, on the last element.  *)
LEMMA LinkKeeps ==
  ASSUME OneWriter, LfdsInv, NEW t \in Callers, LinkElement(t)
  PROVE  Kept(t)
<1>1. qpc[t] = "link" /\ WriterInv(t)
  BY DEF LinkElement, LfdsInv
<1>2. /\ qpc \in [Callers -> EnqueueLocs \cup DequeueLocs \cup {"idle", "recycle"}]
      /\ qnext \in [QueueElems -> QPair] /\ nxt[t] \in QPair
      /\ userData \in [QueueElems -> QueueValues \cup {NoQueueValue}]
  BY DEF LfdsInv, QueueTypeOK
<1>3. /\ t \in Enqueuers /\ val[t] \in QueueValues /\ due[t] = NoQueueValue
      /\ qnext[qe[t]].ptr = NoElem /\ userData[qe[t]] = val[t] /\ enq[t] = enqueue
      /\ nxt[t].ptr = qnext[enqueue.ptr].ptr /\ nxt[t].ctr = qnext[enqueue.ptr].ctr
  BY <1>1 DEF WriterInv, EnqueueLocs
<1>4. qe[t] \in QueueElems /\ ~InList(qe[t], Linked) /\ qe[t] \notin fs
  BY <1>1 DEF LfdsInv, PlaceInv, OwnLocs
<1>5. qnext[enqueue.ptr] = nxt[t]
  BY <1>2, <1>3, ListFacts, PairEqual
<1>6. \A s \in Callers : qpc[s] # "swing"
  BY <1>1, <1>3, NobodyElse DEF EnqueueLocs
<1>7. enqueue.ptr = Linked[Len(Linked)]
  BY <1>6 DEF LfdsInv, TailInv
<1> DEFINE p == [ptr |-> qe[t], ctr |-> nxt[t].ctr + 1]
<1>8. /\ qpc' = [qpc EXCEPT ![t] = "swing"] /\ qnext' = With(qnext, enqueue.ptr, p)
      /\ content' = Append(content, val[t])
      /\ enqueue' = enqueue /\ dequeue' = dequeue /\ userData' = userData /\ fs' = fs
      /\ qe' = qe /\ enq' = enq /\ val' = val /\ due' = due
  BY <1>3, <1>5 DEF LinkElement, Same, Turn
<1>9. p \in QPair /\ p.ptr = qe[t]
  BY <1>2, <1>4 DEF QPair, QPtr
<1> HIDE DEF p
<1>10. Linked' = Append(Linked, qe[t]) /\ IsList(Linked)'
  <2>1. IsList(Linked)
    BY DEF LfdsInv, ListInv
  <2> QED
    BY <1>2, <1>3, <1>4, <1>7, <1>8, <1>9, <2>1, LinkedAppended
<1>11. /\ Len(Linked') = Len(Linked) + 1 /\ Linked'[Len(Linked) + 1] = qe[t]
       /\ \A i \in 1 .. Len(Linked) : Linked'[i] = Linked[i]
  BY <1>4, <1>10, ListFacts, AppendProperties
<1>12. \A e : InList(e, Linked') <=> InList(e, Linked) \/ e = qe[t]
  <2>1. Len(Linked) \in Nat
    BY ListFacts
  <2> QED
    BY <1>11, <2>1 DEF InList
<1>13. ListInv'
  <2>1. /\ Len(content') = Len(content) + 1 /\ content'[Len(content) + 1] = val[t]
        /\ \A i \in 1 .. Len(content) : content'[i] = content[i]
    BY <1>3, <1>8, ListFacts, AppendProperties
  <2>2. Len(Linked') = Len(content') + 1
    BY <1>11, <2>1, ListFacts
  <2>3. ASSUME NEW i \in 1 .. Len(content') PROVE userData'[Linked'[i + 1]] = content'[i]
    <3>1. CASE i = Len(content) + 1
      <4>1. i + 1 = Len(Linked) + 1
        BY <3>1, ListFacts
      <4> QED
        BY <1>3, <1>8, <1>11, <2>1, <3>1, <4>1
    <3>2. CASE i # Len(content) + 1
      <4>1. i \in 1 .. Len(content) /\ i + 1 \in 1 .. Len(Linked)
        BY <2>1, <3>2, ListFacts
      <4> QED
        BY <1>8, <1>11, <2>1, <4>1 DEF LfdsInv, ListInv
    <3> QED
      BY <3>1, <3>2
  <2> QED
    BY <1>10, <2>2, <2>3 DEF ListInv
<1>14. \A s \in Callers \ {t} : qpc'[s] = qpc[s]
  BY <1>2, <1>8
<1>15. qpc'[t] = "swing"
  BY <1>2, <1>8
<1>16. PlaceInv'
  <2>1. PlaceInv
    BY DEF LfdsInv
  <2>2. \A s \in Callers : qpc'[s] \in OwnLocs =>
          s # t /\ qpc[s] \in OwnLocs /\ qe[s] # qe[t]
    BY <1>1, <1>14, <1>15, <2>1 DEF PlaceInv, OwnLocs
  <2>3. \A s \in Callers : qpc'[s] \in OwnLocs =>
          /\ qe'[s] \in QueueElems /\ qe'[s] \notin fs' /\ ~InList(qe'[s], Linked')
          /\ \A u \in Callers : qpc'[u] \in OwnLocs /\ qe'[u] = qe'[s] => u = s
    BY <1>8, <1>12, <2>1, <2>2 DEF PlaceInv
  <2>4. \A s \in Callers : qpc'[s] \notin OwnLocs /\ qpc'[s] # "swing" => qe'[s] = NoElem
    BY <1>8, <1>14, <1>15, <2>1 DEF PlaceInv
  <2>5. \A e \in fs' : ~InList(e, Linked')
    BY <1>4, <1>8, <1>12, <2>1 DEF PlaceInv
  <2>6. ASSUME NEW e \in QueueElems, e \notin fs', ~InList(e, Linked')
        PROVE  \E s \in Callers : qpc'[s] \in OwnLocs /\ qe'[s] = e
    <3>1. e # qe[t] /\ e \notin fs /\ ~InList(e, Linked)
      BY <1>8, <1>12, <2>6
    <3>2. PICK s \in Callers : qpc[s] \in OwnLocs /\ qe[s] = e
      BY <2>1, <3>1 DEF PlaceInv
    <3> QED
      BY <1>8, <1>14, <3>1, <3>2
  <2> QED
    BY <2>3, <2>4, <2>5, <2>6 DEF PlaceInv
<1>17. TailInv'
  <2>1. \A s \in Callers : qpc'[s] = "swing" => s = t
    BY <1>6, <1>14
  <2>2. /\ Len(Linked') > 1 /\ Len(Linked') - 1 = Len(Linked)
        /\ Len(Linked) \in 1 .. Len(Linked)
    BY <1>11, ListFacts
  <2>3. /\ qe'[t] = Linked'[Len(Linked')] /\ enqueue'.ptr = Linked'[Len(Linked') - 1]
        /\ enqueue' = enq'[t]
    BY <1>3, <1>7, <1>8, <1>11, <2>2
  <2> QED
    BY <1>15, <2>1, <2>2, <2>3 DEF TailInv
<1>18. WriterInv(t)'
  BY <1>3, <1>8, <1>15 DEF WriterInv
<1>19. ReaderInv(t)'
  BY <1>15 DEF ReaderInv, DequeueLocs, CtrRead, EnqPRead, EnqRead
<1>20. Ahead
  <2>1. qnext[enqueue.ptr].ptr = NoElem
    BY <1>7, ListFacts
  <2>2. Len(Linked) > 1 => Len(Linked') > 1 /\ 2 \in 1 .. Len(Linked)
    BY <1>11, ListFacts
  <2> QED
    BY <1>8, <1>11, <1>12, <2>1, <2>2 DEF Ahead
<1> QED
  BY <1>3, <1>13, <1>16, <1>17, <1>18, <1>19, <1>20, NobodyElse DEF Kept

(* The writer moves qs->enqueue on, unless a reader did it already.        *)
LEMMA EnqueueEndKeeps ==
  ASSUME OneWriter, LfdsInv, NEW t \in Callers, EnqueueEnd(t)
  PROVE  Kept(t)
<1>1. /\ qpc[t] = "swing" /\ qpc' = [qpc EXCEPT ![t] = "idle"]
      /\ enqueue' = IF enqueue = enq[t] THEN [ptr |-> qe[t], ctr |-> enq[t].ctr + 1]
                                        ELSE enqueue
      /\ qe' = [qe EXCEPT ![t] = NoElem] /\ val' = [val EXCEPT ![t] = NoQueueValue]
      /\ enq' = [enq EXCEPT ![t] = NoPair]
      /\ dequeue' = dequeue /\ qnext' = qnext /\ fs' = fs /\ userData' = userData
      /\ content' = content /\ due' = due
  BY DEF EnqueueEnd, Turn, SwingTo, Same, With, NoLocals, queueHistory
<1>2. /\ qpc \in [Callers -> EnqueueLocs \cup DequeueLocs \cup {"idle", "recycle"}]
      /\ qe \in [Callers -> QPtr] /\ enq \in [Callers -> QPair] /\ enqueue \in QPair
      /\ val \in [Callers -> QueueValues \cup {NoQueueValue}]
  BY DEF LfdsInv, QueueTypeOK
<1>3. t \in Enqueuers /\ due[t] = NoQueueValue
  BY <1>1 DEF LfdsInv, WriterInv, EnqueueLocs
<1>4. Linked' = Linked
  BY <1>1 DEF Linked, Chain
<1>5. ListInv'
  BY <1>1, <1>4 DEF LfdsInv, ListInv, IsList
<1>6. /\ \A s \in Callers \ {t} : /\ qpc'[s] = qpc[s] /\ qe'[s] = qe[s]
                                  /\ qpc[s] \notin EnqueueLocs
      /\ qpc'[t] = "idle" /\ qe'[t] = NoElem /\ val'[t] = NoQueueValue
  BY <1>1, <1>2, <1>3, NobodyElse
<1>7. PlaceInv'
  BY <1>1, <1>4, <1>6 DEF LfdsInv, PlaceInv, OwnLocs, InList
<1>8. /\ qe[t] = Linked[Len(Linked)]
      /\ \/ Len(Linked) > 1 /\ enqueue = enq[t]
         \/ enqueue.ptr = Linked[Len(Linked)] /\ enq[t].ctr < enqueue.ctr
  BY <1>1 DEF LfdsInv, TailInv
<1>9. enqueue'.ptr = Linked[Len(Linked)]
  BY <1>1, <1>2, <1>8 DEF QPair
<1>10. TailInv'
  BY <1>4, <1>6, <1>9 DEF TailInv, EnqueueLocs
<1>11. ReaderInv(t)' /\ WriterInv(t)'
  BY <1>1, <1>3, <1>6
  DEF ReaderInv, WriterInv, EnqueueLocs, DequeueLocs, CtrRead, EnqPRead, EnqRead
<1>12. Ahead
  <2>1. enqueue' = enqueue \/ enqueue.ctr < enqueue'.ctr
    BY <1>1, <1>2 DEF QPair
  <2>2. enqueue.ptr # dequeue.ptr => enqueue'.ptr # dequeue.ptr
    <3>1. CASE enqueue' = enqueue
      BY <3>1
    <3>2. CASE enqueue' # enqueue
      <4>1. Len(Linked) > 1
        BY <1>1, <1>2, <1>8, <3>2 DEF QPair
      <4>2. 1 \in 1 .. Len(Linked) /\ Len(Linked) \in 1 .. Len(Linked) /\ 1 # Len(Linked)
        BY <4>1, ListFacts
      <4>3. Linked[1] # Linked[Len(Linked)]
        BY <4>2, ListFacts
      <4> QED
        BY <1>9, <4>3, ListFacts
    <3> QED
      BY <3>1, <3>2
  <2> QED
    BY <1>1, <1>4, <2>1, <2>2 DEF Ahead
<1> QED
  BY <1>5, <1>6, <1>7, <1>10, <1>11, <1>12 DEF Kept

(* A reader that moves qs->enqueue on moves it to the element that the     *)
(* writer has linked.                                                      *)
LEMMA HelpKeeps ==
  ASSUME OneWriter, LfdsInv, NEW t \in Callers, HelpEnqueue(t)
  PROVE  Kept(t)
<1>1. /\ qpc[t] = "helpDequeue" /\ qpc' = [qpc EXCEPT ![t] = "deqPtr"]
      /\ enqueue' = IF enqueue = enq[t] THEN [ptr |-> nxt[t].ptr, ctr |-> enq[t].ctr + 1]
                                        ELSE enqueue
      /\ dequeue' = dequeue /\ qnext' = qnext /\ fs' = fs /\ userData' = userData
      /\ content' = content /\ qe' = qe /\ enq' = enq
  <2>1. qpc[t] # "helpEnqueue"
    BY DEF LfdsInv, WriterInv
  <2> QED
    BY <2>1 DEF HelpEnqueue, Turn, SwingTo, Same, queueHistory
<1>2. /\ qpc \in [Callers -> EnqueueLocs \cup DequeueLocs \cup {"idle", "recycle"}]
      /\ enq \in [Callers -> QPair] /\ enqueue \in QPair
  BY DEF LfdsInv, QueueTypeOK
<1>3. /\ \A s \in Callers \ {t} : qpc'[s] = qpc[s]
      /\ qpc'[t] = "deqPtr"
  BY <1>1, <1>2
<1>4. WriterInv(t)' /\ ReaderInv(t)'
  BY <1>3
  DEF ReaderInv, WriterInv, EnqueueLocs, DequeueLocs, CtrRead, EnqPRead, EnqRead
<1>5. CASE enqueue # enq[t]
  <2>1. enqueue' = enqueue
    BY <1>1, <1>5
  <2>2. Quiet(t)
    <3>1. qaba' = qaba
      BY DEF HelpEnqueue
    <3> QED
      BY <1>1, <1>3, <2>1, <3>1 DEF Quiet, queueShared, OwnLocs
  <2> QED
    BY <1>4, <2>2, QuietFrame
<1>6. CASE enqueue = enq[t]
  <2>1. qnext[enqueue.ptr].ptr = nxt[t].ptr /\ nxt[t].ptr # NoElem
    BY <1>1, <1>6 DEF LfdsInv, ReaderInv
  <2>2. PICK w \in Callers : qpc[w] = "swing" /\ enqueue = enq[w] /\ Len(Linked) > 1
                  /\ enqueue.ptr = Linked[Len(Linked) - 1]
                  /\ qnext[enqueue.ptr].ptr = Linked[Len(Linked)]
    BY <2>1, BehindFacts
  <2>3. w \in Enqueuers /\ w # t
    BY <1>1, <2>2 DEF LfdsInv, WriterInv, EnqueueLocs
  <2>4. \A s \in Callers : qpc[s] \in EnqueueLocs => s = w
    BY <2>3, NobodyElse
  <2>5. enqueue'.ptr = Linked[Len(Linked)] /\ enqueue.ctr < enqueue'.ctr
    BY <1>1, <1>2, <1>6, <2>1, <2>2 DEF QPair
  <2>6. Linked' = Linked
    BY <1>1 DEF Linked, Chain
  <2>7. ListInv'
    BY <1>1, <2>6 DEF LfdsInv, ListInv, IsList
  <2>8. PlaceInv'
    <3>1. \A s \in Callers : /\ qpc'[s] \in OwnLocs <=> qpc[s] \in OwnLocs
                             /\ qpc'[s] = "swing" <=> qpc[s] = "swing"
      BY <1>1, <1>3 DEF OwnLocs
    <3> QED
      BY <1>1, <2>6, <3>1 DEF LfdsInv, PlaceInv, InList
  <2>9. TailInv'
    <3>1. \A s \in Callers : qpc'[s] = "swing" => s = w
      BY <1>3, <2>4 DEF EnqueueLocs
    <3>2. qpc'[w] = "swing"
      BY <1>3, <2>2, <2>3
    <3>3. qe[w] = Linked[Len(Linked)]
      BY <2>2 DEF LfdsInv, TailInv
    <3> QED
      BY <1>1, <2>2, <2>5, <2>6, <3>1, <3>2, <3>3 DEF TailInv
  <2>10. Ahead
    <3>1. 1 \in 1 .. Len(Linked) /\ Len(Linked) \in 1 .. Len(Linked) /\ 1 # Len(Linked)
      BY <2>2, ListFacts
    <3>2. Linked[1] # Linked[Len(Linked)]
      BY <3>1, ListFacts
    <3>3. enqueue'.ptr # dequeue.ptr
      BY <2>5, <3>2, ListFacts
    <3> QED
      BY <1>1, <2>5, <2>6, <3>3 DEF Ahead
  <2> QED
    BY <1>4, <2>2, <2>4, <2>7, <2>8, <2>9, <2>10 DEF Kept
<1> QED
  BY <1>5, <1>6

-----------------------------------------------------------------------------
(* A compare-and-swap of a reader that succeeds takes the oldest message,  *)
(* and the former dummy is the reader's.                                   *)
LEMMA TakeKeeps ==
  ASSUME LfdsInv, NEW t \in Callers, Take(t)
  PROVE  Kept(t)
<1>1. /\ qpc[t] = "take" /\ enqueue' = enqueue /\ qnext' = qnext /\ fs' = fs
      /\ userData' = userData /\ val' = val
  BY DEF Take
<1>2. /\ qpc \in [Callers -> EnqueueLocs \cup DequeueLocs \cup {"idle", "recycle"}]
      /\ qe \in [Callers -> QPtr] /\ enq \in [Callers -> QPair] /\ dequeue \in QPair
      /\ due \in [Callers -> QueueValues \cup {NoQueueValue}]
      /\ content \in Seq(QueueValues)
  BY DEF LfdsInv, QueueTypeOK
<1>3. CASE dequeue # deq[t]
  <2>1. /\ qpc' = [qpc EXCEPT ![t] = "deqPtr"] /\ dequeue' = dequeue /\ qe' = qe
        /\ enq' = enq /\ content' = content /\ qaba' = qaba
    BY <1>3 DEF Take, Same, Turn
  <2>2. qpc'[t] = "deqPtr" /\ \A s \in Callers \ {t} : qpc'[s] = qpc[s]
    BY <1>2, <2>1
  <2>3. Quiet(t)
    BY <1>1, <2>1, <2>2 DEF Quiet, queueShared, OwnLocs
  <2>4. WriterInv(t)' /\ ReaderInv(t)'
    BY <2>2 DEF ReaderInv, WriterInv, EnqueueLocs, DequeueLocs, CtrRead, EnqPRead,
      EnqRead
  <2> QED
    BY <2>3, <2>4, QuietFrame
<1>4. CASE dequeue = deq[t]
  <2>1. /\ Len(Linked) > 1 /\ nxt[t].ptr = Linked[2] /\ enqueue.ptr # dequeue.ptr
        /\ val[t] = userData[Linked[2]]
    BY <1>1, <1>4 DEF LfdsInv, ReaderInv
  <2>2. content # <<>>
    BY <2>1, ListFacts
  <2>3. /\ qpc' = [qpc EXCEPT ![t] = "recycle"]
        /\ dequeue' = [ptr |-> Linked[2], ctr |-> dequeue.ctr + 1]
        /\ qe' = [qe EXCEPT ![t] = Linked[1]]
        /\ due' = [due EXCEPT ![t] = Head(content)] /\ content' = Tail(content)
        /\ enq' = [enq EXCEPT ![t] = NoPair]
    BY <1>1, <1>4, <2>1, <2>2, ListFacts DEF Take, Same, Turn, With, NoLocals
  <2>4. /\ \A s \in Callers \ {t} : qpc'[s] = qpc[s] /\ qe'[s] = qe[s] /\ enq'[s] = enq[s]
        /\ qpc'[t] = "recycle" /\ qe'[t] = Linked[1] /\ due'[t] = Head(content)
    BY <1>2, <2>3
  <2>5. /\ IsList(Linked)' /\ Len(Linked') = Len(Linked) - 1
        /\ \A i \in 1 .. Len(Linked') : Linked'[i] = Linked[i + 1]
    <3>1. IsList(Linked) /\ dequeue'.ptr = Linked[2]
      BY <2>3 DEF LfdsInv, ListInv
    <3> QED
      BY <1>1, <2>1, <3>1, LinkedTail
  <2>6. /\ Len(content') = Len(content) - 1 /\ Head(content) = content[1]
        /\ \A i \in 1 .. Len(content') : content'[i] = content[i + 1]
    BY <1>2, <2>2, <2>3, HeadTailProperties
  <2>7. /\ Len(content) = Len(Linked) - 1 /\ Len(Linked) \in Nat /\ Len(content) \in Nat
        /\ \A i \in 1 .. Len(content) : userData[Linked[i + 1]] = content[i]
    BY ListFacts DEF LfdsInv, ListInv
  <2>8. ListInv'
    <3>1. ASSUME NEW i \in 1 .. Len(content')
          PROVE  userData'[Linked'[i + 1]] = content'[i]
      <4>1. i + 1 \in 1 .. Len(content) /\ i + 1 \in 1 .. Len(Linked')
        BY <2>5, <2>6, <2>7
      <4> QED
        BY <1>1, <2>5, <2>6, <2>7, <4>1
    <3>2. Len(Linked') = Len(content') + 1
      BY <2>5, <2>6, <2>7
    <3>3. IsList(Linked)'
      BY <2>5
    <3> QED
      BY <3>1, <3>2, <3>3 DEF ListInv
  <2>9. \A e : InList(e, Linked') <=> InList(e, Linked) /\ e # Linked[1]
    <3>1. ASSUME NEW e, InList(e, Linked') PROVE InList(e, Linked) /\ e # Linked[1]
      <4>1. PICK i \in 1 .. Len(Linked') : Linked'[i] = e
        BY <3>1 DEF InList
      <4>2. i + 1 \in 1 .. Len(Linked) /\ Linked[i + 1] = e /\ i + 1 # 1
            /\ 1 \in 1 .. Len(Linked)
        BY <2>1, <2>5, <2>7, <4>1
      <4> QED
        BY <4>2, ListFacts DEF InList
    <3>2. ASSUME NEW e, InList(e, Linked), e # Linked[1] PROVE InList(e, Linked')
      <4>1. PICK i \in 1 .. Len(Linked) : Linked[i] = e
        BY <3>2 DEF InList
      <4>2. i # 1
        BY <3>2, <4>1
      <4>3. i - 1 \in 1 .. Len(Linked') /\ (i - 1) + 1 = i
        BY <2>5, <2>7, <4>1, <4>2
      <4> QED
        BY <2>5, <4>1, <4>3 DEF InList
    <3> QED
      BY <3>1, <3>2
  <2>10. Linked[1] \in QueueElems /\ InList(Linked[1], Linked)
    BY ListFacts
  <2>11. PlaceInv'
    <3>1. PlaceInv
      BY DEF LfdsInv
    <3>2. \A s \in Callers \ {t} : qpc[s] \in OwnLocs => qe[s] # Linked[1]
      BY <2>10, <3>1 DEF PlaceInv
    <3>3. \A s \in Callers : qpc'[s] \in OwnLocs =>
            /\ qe'[s] \in QueueElems /\ qe'[s] \notin fs' /\ ~InList(qe'[s], Linked')
            /\ \A u \in Callers : qpc'[u] \in OwnLocs /\ qe'[u] = qe'[s] => u = s
      BY <1>1, <2>4, <2>9, <2>10, <3>1, <3>2 DEF PlaceInv
    <3>4. \A s \in Callers :
            qpc'[s] \notin OwnLocs /\ qpc'[s] # "swing" => qe'[s] = NoElem
      BY <2>4, <3>1 DEF PlaceInv, OwnLocs
    <3>5. \A e \in fs' : ~InList(e, Linked')
      BY <1>1, <2>9, <3>1 DEF PlaceInv
    <3>6. ASSUME NEW e \in QueueElems, e \notin fs', ~InList(e, Linked')
          PROVE  \E s \in Callers : qpc'[s] \in OwnLocs /\ qe'[s] = e
      <4>1. CASE e = Linked[1]
        BY <2>4, <4>1 DEF OwnLocs
      <4>2. CASE e # Linked[1]
        <5>1. PICK s \in Callers : qpc[s] \in OwnLocs /\ qe[s] = e
          BY <1>1, <2>9, <3>1, <3>6, <4>2 DEF PlaceInv
        <5>2. s # t
          BY <1>1, <5>1 DEF OwnLocs
        <5> QED
          BY <2>4, <5>1, <5>2
      <4> QED
        BY <4>1, <4>2
    <3> QED
      BY <3>3, <3>4, <3>5, <3>6 DEF PlaceInv
  <2>12. TailInv'
    <3>1. Linked'[Len(Linked')] = Linked[Len(Linked)]
      <4>1. Len(Linked') \in 1 .. Len(Linked') /\ Len(Linked') + 1 = Len(Linked)
        BY <2>1, <2>5, <2>7
      <4> QED
        BY <2>5, <4>1
    <3>2. \A s \in Callers : /\ qpc'[s] = "swing" <=> qpc[s] = "swing"
                             /\ qpc[s] = "swing" => qe'[s] = qe[s] /\ enq'[s] = enq[s]
      BY <1>1, <2>4
    <3>3. ASSUME enqueue.ptr = Linked[Len(Linked) - 1]
          PROVE  Len(Linked') > 1 /\ Linked'[Len(Linked') - 1] = enqueue.ptr
      <4>1. Len(Linked) - 1 # 1
        BY <2>1, <3>3, ListFacts
      <4>2. /\ Len(Linked') > 1 /\ Len(Linked') - 1 \in 1 .. Len(Linked')
            /\ (Len(Linked') - 1) + 1 = Len(Linked) - 1
        BY <2>1, <2>5, <2>7, <4>1
      <4> QED
        BY <2>5, <3>3, <4>2
    <3> QED
      BY <1>1, <3>1, <3>2, <3>3 DEF LfdsInv, TailInv
  <2>13. WriterInv(t)' /\ ReaderInv(t)'
    <3>1. val'[t] = due'[t]
      <4>1. 1 \in 1 .. Len(content) /\ 1 + 1 = 2
        BY <2>1, <2>7
      <4> QED
        BY <1>1, <2>1, <2>4, <2>6, <2>7, <4>1
    <3> QED
      BY <2>4, <3>1
      DEF ReaderInv, WriterInv, EnqueueLocs, DequeueLocs, CtrRead, EnqPRead, EnqRead
  <2>14. Ahead
    <3>1. dequeue'.ctr = dequeue.ctr + 1 /\ dequeue.ctr \in Nat
      BY <1>2, <2>3 DEF QPair
    <3>2. dequeue.ctr < dequeue'.ctr /\ dequeue' # dequeue
      BY <3>1
    <3> QED
      BY <1>1, <3>2 DEF Ahead
  <2> QED
    BY <1>1, <2>8, <2>11, <2>12, <2>13, <2>14 DEF Kept
<1> QED
  BY <1>3, <1>4

(* The former dummy goes back to the free list.                            *)
LEMMA RecycleKeeps ==
  ASSUME LfdsInv, NEW t \in Callers, RecycleElement(t)
  PROVE  Kept(t)
<1>1. /\ qpc[t] = "recycle" /\ qpc' = [qpc EXCEPT ![t] = "idle"]
      /\ fs' = fs \cup {qe[t]} /\ qe' = [qe EXCEPT ![t] = NoElem]
      /\ enqueue' = enqueue /\ dequeue' = dequeue /\ qnext' = qnext /\ enq' = enq
      /\ userData' = userData /\ val' = val /\ due' = due /\ content' = content
  BY DEF RecycleElement, Turn, With, queueHistory
<1>2. /\ qpc \in [Callers -> EnqueueLocs \cup DequeueLocs \cup {"idle", "recycle"}]
      /\ qe \in [Callers -> QPtr]
  BY DEF LfdsInv, QueueTypeOK
<1>3. /\ \A s \in Callers \ {t} : qpc'[s] = qpc[s] /\ qe'[s] = qe[s]
      /\ qpc'[t] = "idle" /\ qe'[t] = NoElem
  BY <1>1, <1>2
<1>4. Linked' = Linked
  BY <1>1 DEF Linked, Chain
<1>5. ListInv'
  BY <1>1, <1>4 DEF LfdsInv, ListInv, IsList
<1>6. PlaceInv'
  <2>1. PlaceInv
    BY DEF LfdsInv
  <2>2. /\ qe[t] \in QueueElems /\ ~InList(qe[t], Linked)
        /\ \A s \in Callers \ {t} : qpc[s] \in OwnLocs => qe[s] # qe[t]
    BY <1>1, <2>1 DEF PlaceInv, OwnLocs
  <2>3. \A s \in Callers : qpc'[s] \in OwnLocs => s # t
    BY <1>3 DEF OwnLocs
  <2>4. \A s \in Callers : qpc'[s] \in OwnLocs =>
          /\ qe'[s] \in QueueElems /\ qe'[s] \notin fs' /\ ~InList(qe'[s], Linked')
          /\ \A u \in Callers : qpc'[u] \in OwnLocs /\ qe'[u] = qe'[s] => u = s
    BY <1>1, <1>3, <1>4, <2>1, <2>2, <2>3 DEF PlaceInv
  <2>5. \A s \in Callers : qpc'[s] \notin OwnLocs /\ qpc'[s] # "swing" => qe'[s] = NoElem
    BY <1>3, <2>1 DEF PlaceInv
  <2>6. \A e \in fs' : ~InList(e, Linked')
    BY <1>1, <1>4, <2>1, <2>2 DEF PlaceInv
  <2>7. ASSUME NEW e \in QueueElems, e \notin fs', ~InList(e, Linked')
        PROVE  \E s \in Callers : qpc'[s] \in OwnLocs /\ qe'[s] = e
    <3>1. PICK s \in Callers : qpc[s] \in OwnLocs /\ qe[s] = e
      BY <1>1, <1>4, <2>1, <2>7 DEF PlaceInv
    <3>2. s # t
      BY <1>1, <2>7, <3>1
    <3> QED
      BY <1>3, <3>1, <3>2
  <2> QED
    BY <2>4, <2>5, <2>6, <2>7 DEF PlaceInv
<1>7. TailInv'
  <2>1. \A s \in Callers : /\ qpc'[s] = "swing" <=> qpc[s] = "swing"
                           /\ qpc[s] = "swing" => qe'[s] = qe[s]
    BY <1>1, <1>3
  <2> QED
    BY <1>1, <1>4, <2>1 DEF LfdsInv, TailInv
<1>8. WriterInv(t)' /\ ReaderInv(t)'
  <2>1. val[t] = due[t]
    BY <1>1 DEF LfdsInv, ReaderInv
  <2> QED
    BY <1>1, <1>3, <2>1
    DEF ReaderInv, WriterInv, EnqueueLocs, DequeueLocs, CtrRead, EnqPRead, EnqRead
<1>9. Ahead
  BY <1>1, <1>4 DEF Ahead
<1> QED
  BY <1>1, <1>5, <1>6, <1>7, <1>8, <1>9 DEF Kept

-----------------------------------------------------------------------------
(* The invariant holds in the beginning, and every step keeps it.          *)
LEMMA LfdsInvInit == QueueInit => LfdsInv
<1> SUFFICES ASSUME QueueInit PROVE LfdsInv
  OBVIOUS
<1> DEFINE dummy == CHOOSE e \in QueueElems : TRUE
<1>1. dummy \in QueueElems
  BY QueueElemsAssumption
<1>2. /\ enqueue = [ptr |-> dummy, ctr |-> 0] /\ dequeue = [ptr |-> dummy, ctr |-> 0]
      /\ qnext[dummy].ptr = NoElem /\ fs = QueueElems \ {dummy}
  BY <1>1 DEF QueueInit
<1>3. /\ qpc = [t \in Callers |-> "idle"] /\ qe = [t \in Callers |-> NoElem]
      /\ val = [t \in Callers |-> NoQueueValue] /\ due = [t \in Callers |-> NoQueueValue]
      /\ content = <<>>
  BY DEF QueueInit
<1> HIDE DEF dummy
<1>4. IsList(<<dummy>>)
  BY <1>1, <1>2 DEF IsList
<1>5. Linked = <<dummy>>
  BY <1>4, ChainIsList
<1>6. /\ Len(Linked) = 1 /\ Linked[1] = dummy
      /\ \A e : InList(e, Linked) <=> e = dummy
  BY <1>5 DEF InList
<1>7. ListInv
  BY <1>3, <1>4, <1>5, <1>6 DEF ListInv
<1>8. PlaceInv
  BY <1>2, <1>3, <1>6 DEF PlaceInv, OwnLocs
<1>9. TailInv
  BY <1>2, <1>3, <1>6 DEF TailInv
<1>10. \A t \in Callers : WriterInv(t) /\ ReaderInv(t)
  BY <1>3
  DEF ReaderInv, WriterInv, EnqueueLocs, DequeueLocs, CtrRead, EnqPRead, EnqRead
<1> QED
  BY <1>7, <1>8, <1>9, <1>10, QueueTypeInit DEF LfdsInv

LEMMA LfdsInvNext ==
  ASSUME OneWriter PROVE LfdsInv /\ [QueueNext]_queueVars => LfdsInv'
<1>1. ASSUME LfdsInv, NEW t \in Callers, LfdsBegin(t) \/ LfdsStep(t)
      PROVE  LfdsInv'
  <2>1. QueueTypeOK'
    <3>1. WriterInv(t) /\ ReaderInv(t) /\ QueueTypeOK
      BY <1>1 DEF LfdsInv
    <3>2. /\ qpc[t] \in EnqueueLocs => val[t] \in QueueValues
          /\ qpc[t] \in {"enqNextPtr", "enqNextCtr"} => enq[t].ptr \in QueueElems
      BY <1>1, <3>1, ListFacts DEF WriterInv
    <3>3. qpc[t] \in {"deqNextPtr", "deqNextCtr"} => deq[t].ptr \in QueueElems
      BY <3>1 DEF ReaderInv, DequeueLocs
    <3>4. qpc[t] = "readData" => nxt[t].ptr \in QueueElems
      BY <3>1 DEF ReaderInv, QueueTypeOK, QPair, QPtr
    <3>5. qpc[t] = "recycle" => qe[t] \in QueueElems
      BY <1>1 DEF LfdsInv, PlaceInv, OwnLocs
    <3>6. DequeueEmpty(t) => sawEmpty[t]
      BY <3>1 DEF DequeueEmpty, Turn, ReaderInv
    <3> QED
      BY <1>1, <3>1, <3>2, <3>3, <3>4, <3>5, <3>6, QueueTypeNext
  <2>2. WatchEmpty
    BY <1>1 DEF LfdsBegin, LfdsStep
  <2>3. ASSUME \/ DequeueBegin(t) \/ ReadDequeuePointer(t) \/ ReadDequeueCounter(t)
               \/ DequeueReadEnqueuePointer(t) \/ DequeueReadEnqueueCounter(t)
               \/ DequeueReadNextPointer(t) \/ DequeueReadNextCounter(t)
               \/ DequeueEmpty(t) \/ TestDequeue(t) \/ ReadData(t)
        PROVE  Kept(t)
    BY <1>1, <2>1, <2>2, <2>3, QuietReader, QuietReaderInv, QuietFrame
  <2>4. Kept(t)
    BY <1>1, <2>1, <2>3, QuietWriter, EnqueueBeginKeeps, InitKeeps, LinkKeeps,
      EnqueueEndKeeps, HelpKeeps, TakeKeeps, RecycleKeeps
    DEF LfdsBegin, LfdsStep, EnqueueStep, DequeueStep
  <2> QED
    BY <1>1, <2>1, <2>4, KeptInv
<1>2. ASSUME LfdsInv, UNCHANGED queueVars PROVE LfdsInv'
  <2>1. Linked' = Linked
    BY <1>2 DEF queueVars, queueShared, Linked, Chain
  <2>2. QueueTypeOK' /\ ListInv' /\ PlaceInv' /\ TailInv'
    BY <1>2, <2>1 DEF queueVars, queueShared, queueHistory, LfdsInv, QueueTypeOK,
      ListInv, IsList, PlaceInv, TailInv, InList
  <2>3. ASSUME NEW t \in Callers PROVE WriterInv(t)' /\ ReaderInv(t)'
    BY <1>2, <2>1 DEF queueVars, queueShared, queueHistory, LfdsInv, WriterInv,
      ReaderInv, InList
  <2> QED
    BY <2>2, <2>3 DEF LfdsInv
<1> QED
  BY <1>1, <1>2 DEF QueueNext

-----------------------------------------------------------------------------
(* What the invariant says of the list, the elements and the results.      *)
LEMMA LfdsInvList == LfdsInv => ListIsQueue
<1> SUFFICES ASSUME LfdsInv PROVE ListIsQueue
  OBVIOUS
<1>1. Chain(dequeue.ptr) = Linked
  BY DEF Linked
<1>2. DOMAIN Linked = 1 .. Len(Linked) /\ DOMAIN content = 1 .. Len(content)
  BY ListFacts
<1>3. Len(Linked) \in Nat \ {0}
  BY ListFacts
<1>4. \E i \in 1 .. Len(Linked) : Linked[i] = enqueue.ptr /\ i + 1 >= Len(Linked)
  <2>1. CASE enqueue.ptr = Linked[Len(Linked)]
    BY <1>3, <2>1
  <2>2. CASE enqueue.ptr # Linked[Len(Linked)]
    <3>1. Len(Linked) > 1 /\ enqueue.ptr = Linked[Len(Linked) - 1]
      BY <2>2 DEF LfdsInv, TailInv
    <3>2. Len(Linked) - 1 \in 1 .. Len(Linked) /\ (Len(Linked) - 1) + 1 >= Len(Linked)
      BY <1>3, <3>1
    <3> QED
      BY <3>1, <3>2
  <2> QED
    BY <2>1, <2>2
<1> QED
  BY <1>1, <1>2, <1>4 DEF ListIsQueue, LfdsInv, ListInv

LEMMA LfdsInvPlaces == LfdsInv => ElementsInOnePlace
<1> SUFFICES ASSUME LfdsInv, NEW e \in QueueElems
             PROVE  Cardinality({t \in Callers : qe[t] = e /\ qpc[t] # "swing"})
                      + (IF e \in fs THEN 1 ELSE 0)
                      + Cardinality({i \in DOMAIN Linked : Linked[i] = e}) = 1
  BY DEF ElementsInOnePlace, Linked
<1> DEFINE A == {t \in Callers : qe[t] = e /\ qpc[t] # "swing"}
           C == {i \in DOMAIN Linked : Linked[i] = e}
<1>1. PlaceInv /\ DOMAIN Linked = 1 .. Len(Linked) /\ e # NoElem
  BY ListFacts, QueueElemsAssumption DEF LfdsInv
<1>2. A = {t \in Callers : qpc[t] \in OwnLocs /\ qe[t] = e}
  BY <1>1 DEF PlaceInv, OwnLocs
<1>3. ~InList(e, Linked) => C = {}
  BY <1>1 DEF InList
<1>4. ASSUME InList(e, Linked) PROVE \E i : C = {i}
  <2>1. PICK i \in 1 .. Len(Linked) : Linked[i] = e
    BY <1>4 DEF InList
  <2>2. \A j \in 1 .. Len(Linked) : Linked[j] = e => j = i
    BY <2>1, ListFacts
  <2>3. C = {i}
    BY <1>1, <2>1, <2>2
  <2> QED
    BY <2>3
<1>5. Cardinality({}) = 0 /\ \A x : Cardinality({x}) = 1
  BY FS_EmptySet, FS_Singleton
<1>6. CASE e \in fs
  <2>1. A = {} /\ C = {}
    BY <1>1, <1>2, <1>3, <1>6 DEF PlaceInv
  <2> HIDE DEF A, C
  <2>2. Cardinality(A) = 0 /\ Cardinality(C) = 0
    BY <1>5, <2>1
  <2>3. Cardinality(A) + (IF e \in fs THEN 1 ELSE 0) + Cardinality(C) = 1
    BY <1>6, <2>2
  <2> QED
    BY <2>3 DEF A, C
<1>7. CASE InList(e, Linked)
  <2>1. A = {} /\ e \notin fs
    BY <1>1, <1>2, <1>7 DEF PlaceInv
  <2>2. PICK i : C = {i}
    BY <1>4, <1>7
  <2> HIDE DEF A, C
  <2>3. Cardinality(A) = 0 /\ Cardinality(C) = 1
    BY <1>5, <2>1, <2>2
  <2>4. Cardinality(A) + (IF e \in fs THEN 1 ELSE 0) + Cardinality(C) = 1
    BY <2>1, <2>3
  <2> QED
    BY <2>4 DEF A, C
<1>8. CASE e \notin fs /\ ~InList(e, Linked)
  <2>1. PICK t \in Callers : qpc[t] \in OwnLocs /\ qe[t] = e
    BY <1>1, <1>8 DEF PlaceInv
  <2>2. A = {t} /\ C = {}
    BY <1>1, <1>2, <1>3, <1>8, <2>1 DEF PlaceInv
  <2> HIDE DEF A, C
  <2>3. Cardinality(A) = 1 /\ Cardinality(C) = 0
    BY <1>5, <2>2
  <2>4. Cardinality(A) + (IF e \in fs THEN 1 ELSE 0) + Cardinality(C) = 1
    BY <1>8, <2>3
  <2> QED
    BY <2>4 DEF A, C
<1> QED
  BY <1>6, <1>7, <1>8

LEMMA LfdsInvRight == LfdsInv => QueueRight
<1> SUFFICES ASSUME LfdsInv PROVE QueueRight
  OBVIOUS
<1>1. DequeueIsRight
  BY DEF LfdsInv, WriterInv, ReaderInv, DequeueIsRight
<1> QED
  BY <1>1, LfdsInvList, LfdsInvPlaces DEF QueueRight, LfdsInv

(* However threads overtake each other, the queue of one writer returns    *)
(* what was written, in order, and no element of it is lost or in two      *)
(* places (lfds611_queue_internal_queue, lfds611_queue_dequeue).           *)
THEOREM QueueRightAlways == OneWriter => (QueueSpec => []QueueRight)
<1> SUFFICES ASSUME OneWriter PROVE QueueSpec => []QueueRight
  OBVIOUS
<1>1. LfdsInv /\ [QueueNext]_queueVars => LfdsInv'
  BY LfdsInvNext
<1> QED
  BY <1>1, LfdsInvInit, LfdsInvRight, PTL DEF QueueSpec
=============================================================================
