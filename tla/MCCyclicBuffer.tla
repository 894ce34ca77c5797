--------------------------- MODULE MCCyclicBuffer ---------------------------
(***************************************************************************)
(* The two buffers that interactions are made of: the lock-free ring of    *)
(* lfds_buffers with two writers and readers, and the queue of the mqueue  *)
(* block; and the two lists below the ring: the free list with three       *)
(* threads ("freelist") and the queue with one writer, as one port writes  *)
(* to a buffer of the scripts ("list"). The variable part says which of    *)
(* them a behaviour runs; the others stay in their initial states. The     *)
(* mqueue occurs with a clean-up of a block ("mqueue"), and with more      *)
(* messages and crashes of the processes alone ("crash"), where the        *)
(* messages have to arrive.                                                *)
(***************************************************************************)
EXTENDS CyclicBuffer, LfdsFreelist, LfdsQueue, Mqueue

CONSTANTS w1, w2, r1, r2
TwoWriters == {w1, w2}
TwoReaders == {r1, r2}
ThreeUsers == {w1, r1, r2}
TwoCallers == {w1, r1}
OneEnqueuer == {w1}

VARIABLES part

Crash == INSTANCE Mqueue WITH
  Lens <- {1}, MaxMessages <- 5, MaxCleanups <- 0, MaxCrashes <- 3

Ring(A)     == part = "ring" /\ A /\ UNCHANGED <<part, mqVars, freelistVars, queueVars>>
Queue(p, A) == part = p /\ A /\ UNCHANGED <<part, vars, freelistVars, queueVars>>
OnFl(A)     == part = "freelist" /\ A /\ UNCHANGED <<part, vars, mqVars, queueVars>>
OnList(A)   == part = "list" /\ A /\ UNCHANGED <<part, vars, mqVars, freelistVars>>

MCInit ==
  /\ part \in {"ring", "mqueue", "crash", "freelist", "list"}
  /\ Init /\ MqInit /\ FreelistInit /\ QueueInit
MCNext == Ring(Next) \/ Queue("mqueue", MqNext) \/ Queue("crash", Crash!MqNext)
          \/ OnFl(FreelistNext) \/ OnList(QueueNext)
MCVars == <<part, vars, mqVars, freelistVars, queueVars>>

(* The fairness of the modules.                                            *)
MCSpec ==
  /\ MCInit /\ [][MCNext]_MCVars
  /\ \A w \in Writers : WF_MCVars(Ring(WriteStep(w)))
  /\ \A r \in Readers : WF_MCVars(Ring(ReadStep(r)))
  /\ WF_MCVars(Queue("crash", Crash!MqueueRead))
  /\ WF_MCVars(Queue("crash", Crash!InitBlock("reader")))

(* A writer that finds neither a free nor a queued element of the ring     *)
(* does not spin for ever; and a message that mq_send took is read at      *)
(* last, through full queues and crashes of either process.                *)
BuffersProgress ==
  /\ WriteEnds
  /\ part = "crash"    => Crash!Delivered
=============================================================================
