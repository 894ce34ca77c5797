-------------------------------- MODULE Mqueue --------------------------------
(***************************************************************************)
(* The interaction mqueue between two nodes: the process of the writer and *)
(* that of the reader each have a block with the same mq_name, and the     *)
(* operating system keeps the queue behind the name. A block is configured *)
(* with the length of its messages (data_len), initialised, used by its    *)
(* ports and cleaned up. A process may die at any time: the system closes  *)
(* its descriptors, the cleanup hook does not run.                         *)
(*                                                                         *)
(* Messages are numbered by the writer. The type check always succeeds.    *)
(***************************************************************************)
EXTENDS Naturals, Sequences, SequencesExt

CONSTANTS
  Lens,         \* the values of data_len
  BufferLen,    \* buffer_len
  MaxQueues,    \* bound: queues created
  MaxMessages,  \* bound: calls of mqueue_write
  MaxCleanups,  \* bound: calls of mqueue_cleanup
  MaxCrashes    \* bound: processes that die

Nodes   == {"writer", "reader"}
NoQueue == 0
Ids     == 1 .. MaxQueues

ASSUME LensAssumption == Lens \subseteq Nat \ {0}
ASSUME BoundsAssumption == BufferLen \in Nat \ {0} /\ MaxQueues \in Nat

VARIABLES
  bound,     \* the queue that mq_name refers to in the system, or NoQueue
  queues,    \* the messages of each queue, oldest first
  msgsize,   \* mq_msgsize of each queue
  created,   \* number of queues created
  mqd,       \* mqi->mqd of each block that is initialised, else NoQueue
  len,       \* data_len of each block
  nr,        \* history: number of the last message handed to mqueue_write
  accepted,  \* history: numbers of the messages that mq_send took
  received,  \* history: numbers of the messages read, in this order
  cleanups, crashes

mqHistory == <<nr, accepted, received>>
mqVars == <<bound, queues, msgsize, created, mqd, len, mqHistory, cleanups, crashes>>

MqInit ==
  /\ bound = NoQueue /\ created = 0
  /\ queues = [q \in Ids |-> <<>>] /\ msgsize = [q \in Ids |-> NoQueue]
  /\ mqd = [n \in Nodes |-> NoQueue] /\ len = [n \in Nodes |-> NoQueue]
  /\ nr = 0 /\ accepted = {} /\ received = <<>>
  /\ cleanups = 0 /\ crashes = 0

-----------------------------------------------------------------------------
(* Mutant of Open: the name is unlinked first. *)
OpenNew(n) ==
  /\ created < MaxQueues
  /\ created' = created + 1 /\ bound' = created'
  /\ msgsize' = [msgsize EXCEPT ![created'] = len'[n]]
  /\ mqd' = [mqd EXCEPT ![n] = bound']

(* mq_open with O_CREAT: an existing queue is opened as it is, and the     *)
(* attributes only count for a new one.                                    *)
Open(n) ==
  /\ IF bound # NoQueue THEN UNCHANGED <<bound, created, msgsize>>
     ELSE /\ created < MaxQueues
          /\ created' = created + 1 /\ bound' = created'
          /\ msgsize' = [msgsize EXCEPT ![created'] = len'[n]]
  /\ mqd' = [mqd EXCEPT ![n] = bound']

(* mqueue_init *)
InitBlock(n) ==
  /\ mqd[n] = NoQueue
  /\ \E l \in Lens : len' = [len EXCEPT ![n] = l]
  /\ Open(n)
  /\ UNCHANGED <<queues, mqHistory, cleanups, crashes>>

(* A queue without a name is gone when its last descriptor is closed.      *)
Close(n) ==
  /\ mqd' = [mqd EXCEPT ![n] = NoQueue]
  /\ queues' = IF mqd[n] # bound' /\ \A p \in Nodes \ {n} : mqd[p] # mqd[n]
               THEN [queues EXCEPT ![mqd[n]] = <<>>] ELSE queues

(* mqueue_cleanup *)
CleanupBlock(n) ==
  /\ mqd[n] # NoQueue /\ cleanups < MaxCleanups
  /\ bound' = NoQueue
  /\ Close(n)
  /\ cleanups' = cleanups + 1
  /\ UNCHANGED <<msgsize, created, len, mqHistory, crashes>>

(* Mutant of ProcessDies: the cleanup hook runs. *)
ProcessCleansUp(n) ==
  /\ mqd[n] # NoQueue /\ crashes < MaxCrashes
  /\ bound' = NoQueue
  /\ Close(n)
  /\ crashes' = crashes + 1
  /\ UNCHANGED <<msgsize, created, len, mqHistory, cleanups>>

(* The process of node n dies.                                             *)
ProcessDies(n) ==
  /\ mqd[n] # NoQueue /\ crashes < MaxCrashes
  /\ UNCHANGED bound
  /\ Close(n)
  /\ crashes' = crashes + 1
  /\ UNCHANGED <<msgsize, created, len, mqHistory, cleanups>>

(* Mutant of Accepts: the buffer has a place too many. *)
AcceptsOneMore(q) == len["writer"] <= msgsize[q] /\ Len(queues[q]) <= BufferLen

(* mq_send takes no message that is too long and none for a full queue.    *)
Accepts(q) == len["writer"] <= msgsize[q] /\ Len(queues[q]) < BufferLen

(* mqueue_write *)
MqueueWrite ==
  LET q == mqd["writer"]
  IN  /\ q # NoQueue /\ nr < MaxMessages
      /\ nr' = nr + 1
      /\ IF Accepts(q)
         THEN /\ queues' = [queues EXCEPT ![q] = Append(@, nr')]
              /\ accepted' = accepted \cup {nr'}
         ELSE UNCHANGED <<queues, accepted>>
      /\ UNCHANGED <<bound, msgsize, created, mqd, len, received, cleanups, crashes>>

(* Mutants of MqueueRead: the last message is taken; the array must be longer    *)
(* than the message.                                                       *)
ReadLonger ==
  LET q == mqd["reader"]
  IN  /\ q # NoQueue /\ queues[q] # <<>> /\ len["reader"] > msgsize[q]
      /\ received' = Append(received, Head(queues[q]))
      /\ queues' = [queues EXCEPT ![q] = Tail(@)]
      /\ UNCHANGED <<bound, msgsize, created, mqd, len, nr, accepted, cleanups, crashes>>
ReadLast ==
  LET q == mqd["reader"]
  IN  /\ q # NoQueue /\ queues[q] # <<>> /\ len["reader"] >= msgsize[q]
      /\ received' = Append(received, Last(queues[q]))
      /\ queues' = [queues EXCEPT ![q] = Front(@)]
      /\ UNCHANGED <<bound, msgsize, created, mqd, len, nr, accepted, cleanups, crashes>>

(* mqueue_read of a message. Without one it returns 0, and mq_receive      *)
(* refuses an array that is shorter than mq_msgsize.                       *)
MqueueRead ==
  LET q == mqd["reader"]
  IN  /\ q # NoQueue /\ queues[q] # <<>> /\ len["reader"] >= msgsize[q]
      /\ received' = Append(received, Head(queues[q]))
      /\ queues' = [queues EXCEPT ![q] = Tail(@)]
      /\ UNCHANGED <<bound, msgsize, created, mqd, len, nr, accepted, cleanups, crashes>>

MqNext ==
  \/ \E n \in Nodes : InitBlock(n) \/ CleanupBlock(n) \/ ProcessDies(n)
  \/ MqueueWrite \/ MqueueRead

(* The trigger of the reader keeps reading, and its process is restarted.  *)
MqFairness == WF_mqVars(MqueueRead) /\ WF_mqVars(InitBlock("reader"))
MqSpec == MqInit /\ [][MqNext]_mqVars /\ MqFairness

-----------------------------------------------------------------------------
(***************************************************************************)
(* Properties.                                                             *)
(***************************************************************************)
MqTypes ==
  /\ bound \in Ids \cup {NoQueue} /\ created \in 0 .. MaxQueues
  /\ nr \in Nat
  /\ queues \in [Ids -> Seq(1 .. nr)]
  /\ \A q \in Ids : Len(queues[q]) <= BufferLen
  /\ msgsize \in [Ids -> Lens \cup {NoQueue}]
  /\ mqd \in [Nodes -> Ids \cup {NoQueue}] /\ len \in [Nodes -> Lens \cup {NoQueue}]
  /\ accepted \subseteq 1 .. nr
  /\ received \in Seq(accepted)
  /\ cleanups \in Nat /\ crashes \in Nat

(* A message is read at most once and in the order of the writes, also     *)
(* when either process was restarted in between.                           *)
ReadInOrder == \A i, j \in DOMAIN received : i < j => received[i] < received[j]

(* Blocks that are in use share the queue: what the writer sends is what   *)
(* the reader gets.                                                        *)
SameQueue ==
  mqd["writer"] # NoQueue /\ mqd["reader"] # NoQueue => mqd["writer"] = mqd["reader"]

(* A message that mq_send took outlives the death of both processes: it is *)
(* in the queue of the name, until it is read.                             *)
Survives ==
  \A m \in accepted : m \notin Range(received) =>
    bound # NoQueue /\ m \in Range(queues[bound])

(* A message is read at most once and in the order of the writes, whoever  *)
(* was restarted or cleaned up; and blocks that were never cleaned up meet *)
(* in the same queue again after any number of crashes, with every message *)
(* that it took (mqueue_init, mqueue_cleanup, mqueue_read, mqueue_write).  *)
MqueueSafe ==
  /\ MqTypes /\ ReadInOrder
  /\ cleanups = 0 => SameQueue /\ Survives

(* A message is read at last, if both blocks have the same data_len: a     *)
(* full queue or a restart of either process leaves no message behind.     *)
Delivered == \A m \in 1 .. MaxMessages : m \in accepted ~> m \in Range(received)

(* The queue of a block takes messages of the length that data_len tells.  *)
Configured == mqd["writer"] # NoQueue => msgsize[mqd["writer"]] = len["writer"]
=============================================================================
