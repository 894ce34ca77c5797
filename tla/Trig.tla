-------------------------------- MODULE Trig --------------------------------
(***************************************************************************)
(* std_blocks/trig/trig.c: the passive trigger.  It has no thread: whoever *)
(* steps it runs a round, which steps each listed block its number of      *)
(* times, measures the round with the monotonic clock and updates the      *)
(* timing statistics.  The thread that steps the trigger is also the one   *)
(* that configures it and moves it between its states, so rounds and       *)
(* life cycle operations alternate; the listed blocks belong to others,    *)
(* which start and stop them at any time, in the middle of a round too.    *)
(*                                                                         *)
(* trig_start keeps a pointer into the buffer of the trig_blocks           *)
(* configuration instead of a copy, and data_set (lua/ubx.lua) moves that  *)
(* buffer when it grows it.  The number of the buffer stands for its       *)
(* address.                                                                *)
(***************************************************************************)
EXTENDS Timespec, Sequences

CONSTANTS
  ListedBlocks, \* the blocks the list may name
  Lists,       \* the values set_config gives trig_blocks
  NULL,        \* no block, no pointer
  MaxNow,      \* bound on the clock, in nanoseconds
  MaxGen,      \* bound on the buffers the configuration goes through
  MaxRounds    \* bound on the rounds between two inits

Entry == [b : ListedBlocks \cup {NULL}, num_steps : Nat]

(* The seconds and nanoseconds trig_init gives tstats.min.                 *)
Far == 999999999

ASSUME TrigAssumption ==
  /\ NULL \notin ListedBlocks
  /\ Lists \subseteq Seq(Entry)
  /\ MaxNow \in Nat
  /\ MaxNow \div NSEC_PER_SEC < Far
  /\ MaxGen \in Nat /\ MaxRounds \in Nat

VARIABLES
  state,       \* block_state of the trigger
  active,      \* the listed blocks that are ACTIVE
  conf,        \* the trig_blocks data: its buffer and what is in it
  trig_list,   \* inf->trig_list and inf->trig_list_len
  stats,      \* inf->tstats
  now,         \* the monotonic clock
  round,       \* do_trigger's locals: i, steps and the start time
  hist         \* ghost: what the completed rounds since init took

trigVars == <<state, active, conf, trig_list, stats, now, round, hist>>

----------------------------------------------------------------------------
(* ubx_clock_mono_gettime: a record is the clock's seconds and the rest.   *)
TimeOf(t) == [sec |-> t \div NSEC_PER_SEC, nsec |-> t % NSEC_PER_SEC]

Zero == [sec |-> 0, nsec |-> 0]

(* What trig_init leaves: min larger than any round, max and total zero.   *)
FreshStats ==
  [min |-> [sec |-> Far, nsec |-> Far],
   max |-> Zero, total |-> Zero, cnt |-> 0]

NoRounds == [cnt |-> 0, sum |-> 0, least |-> 0, greatest |-> 0]

NoRound == [on |-> FALSE, i |-> 0, steps |-> 0, start |-> 0]

(* A cloned configuration holds one zeroed entry (ubx_clone_config_data).  *)
TrigInitial ==
  /\ state = "preinit"
  /\ active \in SUBSET ListedBlocks
  /\ conf = [gen |-> 0, list |-> <<[b |-> NULL, num_steps |-> 0]>>]
  /\ trig_list = [gen |-> NULL, len |-> 0]
  /\ stats = FreshStats
  /\ now = 0
  /\ round = NoRound
  /\ hist = NoRounds

----------------------------------------------------------------------------
(* data_set with resize: the values go over the old ones from the front.   *)
(* A longer list grows the buffer, which realloc may move; a shorter one   *)
(* leaves length and tail as they were.                                    *)
Overlay(old, val) ==
  [k \in 1..(IF Len(val) > Len(old) THEN Len(val) ELSE Len(old)) |->
    IF k <= Len(val) THEN val[k] ELSE old[k]]

(* set_config, called while the trigger is not active.                     *)
SetConfig ==
  /\ state # "active"
  /\ \E val \in Lists :
       LET grown == Len(val) > Len(conf.list) IN
       /\ grown => conf.gen < MaxGen
       /\ conf' = [gen |-> IF grown THEN conf.gen + 1 ELSE conf.gen,
                   list |-> Overlay(conf.list, val)]
  /\ UNCHANGED <<state, active, trig_list, stats, now, round, hist>>

(* Mutant of TrigInit: the block's old statistics are kept.                *)
InitKeepsStats ==
  /\ state = "preinit"
  /\ state' = "inactive"
  /\ trig_list' = [gen |-> NULL, len |-> 0]
  /\ hist' = NoRounds
  /\ UNCHANGED <<active, conf, stats, now, round>>

(* trig_init: private data from calloc, statistics reset.                  *)
TrigInit ==
  /\ state = "preinit"
  /\ state' = "inactive"
  /\ trig_list' = [gen |-> NULL, len |-> 0]
  /\ stats' = FreshStats
  /\ hist' = NoRounds
  /\ UNCHANGED <<active, conf, now, round>>

(* Mutant of TrigStart: the pointer of an earlier start is kept.           *)
StartOnce ==
  /\ state = "inactive"
  /\ state' = "active"
  /\ trig_list' = IF trig_list.gen = NULL
                    THEN [gen |-> conf.gen, len |-> Len(conf.list)] ELSE trig_list
  /\ UNCHANGED <<active, conf, stats, now, round, hist>>

(* trig_start: the pointer and the length of the moment.                   *)
TrigStart ==
  /\ state = "inactive"
  /\ state' = "active"
  /\ trig_list' = [gen |-> conf.gen, len |-> Len(conf.list)]
  /\ UNCHANGED <<active, conf, stats, now, round, hist>>

(* There is no stop hook; the pointer stays.                               *)
TrigStop ==
  /\ state = "active" /\ ~round.on
  /\ state' = "inactive"
  /\ UNCHANGED <<active, conf, trig_list, stats, now, round, hist>>

(* trig_cleanup frees the private data.                                    *)
TrigCleanup ==
  /\ state = "inactive"
  /\ state' = "preinit"
  /\ UNCHANGED <<active, conf, trig_list, stats, now, round, hist>>

----------------------------------------------------------------------------
(* Another actor starts or stops a listed block.                           *)
Toggle(b) ==
  /\ active' = IF b \in active THEN active \ {b} ELSE active \cup {b}
  /\ UNCHANGED <<state, conf, trig_list, stats, now, round, hist>>

(* trig_step calls do_trigger, which reads the clock first.                *)
RoundBegin ==
  /\ state = "active" /\ ~round.on /\ hist.cnt < MaxRounds
  /\ round' = [on |-> TRUE, i |-> 1, steps |-> 0, start |-> now]
  /\ UNCHANGED <<state, active, conf, trig_list, stats, now, hist>>

(* The entry the loops stand at, and whether it is due another step.       *)
CurrentEntry == conf.list[round.i]
At(i, steps) == [on |-> TRUE, i |-> i, steps |-> steps, start |-> round.start]
Due == round.i <= trig_list.len /\ round.steps < CurrentEntry.num_steps

(* The inner loop is done with an entry.                                   *)
NextEntry ==
  /\ round.on /\ round.i <= trig_list.len /\ ~Due
  /\ round' = At(round.i + 1, 0)
  /\ UNCHANGED <<state, active, conf, trig_list, stats, now, hist>>

(* ubx_cblock_step of an active block, which takes any time; of a block    *)
(* that is not active it fails, and the round ends without statistics.     *)
StepBlock ==
  /\ round.on /\ Due
  /\ IF CurrentEntry.b \in active
       THEN /\ \E t \in now..MaxNow : now' = t
            /\ round' = At(round.i, round.steps + 1)
       ELSE /\ round' = NoRound
            /\ now' = now
  /\ UNCHANGED <<state, active, conf, trig_list, stats, hist>>

(* Mutant of Measured: max is compared the way min is.                     *)
MeasuredMin(dur) ==
  [min   |-> IF Cmp(dur, stats.min) = -1 THEN dur ELSE stats.min,
   max   |-> IF Cmp(dur, stats.max) = -1 THEN dur ELSE stats.max,
   total |-> Add(stats.total, dur),
   cnt   |-> stats.cnt + 1]

(* The statistics after a round of length dur.                             *)
Measured(dur) ==
  [min   |-> IF Cmp(dur, stats.min) = -1 THEN dur ELSE stats.min,
   max   |-> IF Cmp(dur, stats.max) = 1 THEN dur ELSE stats.max,
   total |-> Add(stats.total, dur),
   cnt   |-> stats.cnt + 1]

(* The end of a round in which every step succeeded.                       *)
RoundEnd ==
  /\ round.on /\ round.i > trig_list.len
  /\ LET d == now - round.start IN
     hist' = [cnt      |-> hist.cnt + 1,
              sum      |-> hist.sum + d,
              least    |-> IF hist.cnt = 0 \/ d < hist.least THEN d ELSE hist.least,
              greatest |-> IF d > hist.greatest THEN d ELSE hist.greatest]
  /\ stats' = Measured(Sub(TimeOf(now), TimeOf(round.start)))
  /\ round' = NoRound
  /\ UNCHANGED <<state, active, conf, trig_list, now>>

TrigNext ==
  \/ SetConfig
  \/ TrigInit \/ TrigStart \/ TrigStop \/ TrigCleanup
  \/ \E b \in ListedBlocks : Toggle(b)
  \/ RoundBegin \/ NextEntry \/ StepBlock \/ RoundEnd

TrigSpec == TrigInitial /\ [][TrigNext]_trigVars

----------------------------------------------------------------------------
(* Every variable has values of its kind.                                  *)
TrigTypeOK ==
  /\ state \in {"preinit", "inactive", "active"}
  /\ active \subseteq ListedBlocks
  /\ conf \in [gen : Nat, list : Seq(Entry)]
  /\ trig_list \in [gen : Nat \cup {NULL}, len : Nat]
  /\ stats \in [min : Timespec, max : Timespec, total : Timespec, cnt : Nat]
  /\ now \in 0..MaxNow
  /\ round \in [on : BOOLEAN, i : Nat, steps : Nat, start : Nat]
  /\ hist \in [cnt : Nat, sum : Nat, least : Nat, greatest : Nat]

(* do_trigger's statistics, kept as carried and sign-corrected records,    *)
(* are exactly the sum, the shortest and the longest of the rounds that    *)
(* completed since trig_init, over every stop and start in between: the    *)
(* lexicographic ubx_ts_cmp never takes a short round for a long one, and  *)
(* no nanosecond is lost in ubx_ts_sub and ubx_ts_add.                     *)
StatsRight ==
  state # "preinit" =>
    /\ stats.cnt = hist.cnt
    /\ Normal(stats.total) /\ Value(stats.total) = hist.sum
    /\ Normal(stats.max) /\ Value(stats.max) = hist.greatest
    /\ stats.cnt > 0 => Normal(stats.min) /\ Value(stats.min) = hist.least

(* While the trigger is active the pointer it keeps is the configuration's *)
(* buffer and no longer than it: configurations set between a stop and the *)
(* next start are safe although trig_start copies nothing.                 *)
ListLive ==
  state = "active" =>
    trig_list.gen = conf.gen /\ trig_list.len = Len(conf.list)

(* Both: what trigger_steps reads and what it writes stays right.          *)
TriggerRight == StatsRight /\ ListLive
=============================================================================
