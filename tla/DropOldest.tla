----------------------------- MODULE DropOldest -----------------------------
(***************************************************************************)
(* What a cyclic buffer promises the ports that it connects: a bounded     *)
(* queue that several threads write and read, with Size slots. A slot is   *)
(* free, holds a message of the queue, or is in the hands of a thread.     *)
(* A message is lost only as the oldest one of the queue, to a writer that *)
(* found no free slot. The messages of a single writer leave in the order  *)
(* in which they came. With several writers, a message may be held up      *)
(* until another writer commits, and comes after that writer's own.        *)
(***************************************************************************)
EXTENDS Naturals, Sequences

CONSTANTS Writers, Readers, Msgs, NoMsg, Size

VARIABLES
  buf,     \* the messages, oldest first
  late,    \* the messages that each writer holds up
  free,    \* number of free slots
  stage,   \* how far the call of each thread is
  arg,     \* the message of each writer's call
  got      \* the message that each reader was given last

vars == <<buf, late, free, stage, arg, got>>

Init ==
  /\ buf = <<>>
  /\ late = [w \in Writers |-> <<>>]
  /\ free = Size
  /\ stage = [t \in Writers \cup Readers |-> "idle"]
  /\ arg = [w \in Writers |-> NoMsg]
  /\ got = [r \in Readers |-> NoMsg]

Goto(t, from, to) == stage[t] = from /\ stage' = [stage EXCEPT ![t] = to]

Begin(w) ==
  /\ Goto(w, "idle", "begun")
  /\ \E m \in Msgs : arg' = [arg EXCEPT ![w] = m]
  /\ UNCHANGED <<buf, late, free, got>>

TakeFree(w) ==
  /\ Goto(w, "begun", "slot")
  /\ free > 0 /\ free' = free - 1
  /\ UNCHANGED <<buf, late, arg, got>>

FindFull(w) ==
  /\ Goto(w, "begun", "full")
  /\ free = 0
  /\ UNCHANGED <<buf, late, free, arg, got>>

(* The slots may all be in the hands of threads. *)
Retry(w) ==
  /\ Goto(w, "full", "begun")
  /\ buf = <<>>
  /\ UNCHANGED <<buf, late, free, arg, got>>

(* In the meantime a slot may have become free. *)
Drop(w) ==
  /\ Goto(w, "full", "slot")
  /\ buf # <<>> /\ buf' = Tail(buf)
  /\ UNCHANGED <<late, free, arg, got>>

Commit(w) ==
  /\ Goto(w, "slot", "idle")
  /\ buf' = buf \o <<arg[w]>> \o late[w]
  /\ late' = [late EXCEPT ![w] = <<>>]
  /\ UNCHANGED <<free, arg, got>>

(* Writer u, which has a slot and holds up nothing, holds up what w says.  *)
HoldUp(w, u) ==
  /\ Goto(w, "slot", "idle")
  /\ u # w /\ stage[u] = "slot" /\ late[u] = <<>>
  /\ late' = [late EXCEPT ![w] = <<>>, ![u] = <<arg[w]>> \o late[w]]
  /\ UNCHANGED <<buf, free, arg, got>>

Receive(r) ==
  /\ Goto(r, "idle", "slot")
  /\ buf # <<>> /\ buf' = Tail(buf)
  /\ got' = [got EXCEPT ![r] = Head(buf)]
  /\ UNCHANGED <<late, free, arg>>

Release(r) ==
  /\ Goto(r, "slot", "idle")
  /\ free' = free + 1
  /\ UNCHANGED <<buf, late, arg, got>>

Next ==
  \/ \E w \in Writers : \/ Begin(w) \/ TakeFree(w) \/ FindFull(w) \/ Retry(w)
                        \/ Drop(w) \/ Commit(w) \/ \E u \in Writers : HoldUp(w, u)
  \/ \E r \in Readers : Receive(r) \/ Release(r)

Spec == Init /\ [][Next]_vars
=============================================================================
