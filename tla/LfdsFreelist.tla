---------------------------- MODULE LfdsFreelist ----------------------------
(***************************************************************************)
(* lfds611_freelist of liblfds: a stack of elements that several threads   *)
(* pop and push with a double-word compare-and-swap of top. A pointer has  *)
(* a counter beside it, so that a thread that was interrupted notices when *)
(* the element it saw on top was popped and pushed again meanwhile.        *)
(*                                                                         *)
(* Reads and writes of one word and a compare-and-swap are one action      *)
(* each; two words are read and written one after the other. Memory is     *)
(* sequentially consistent, the counters do not wrap.                      *)
(***************************************************************************)
EXTENDS Naturals, Sequences, FiniteSets, Functions

CONSTANTS
  Users,     \* threads that use the free list
  Elems,     \* its elements
  MaxPops,   \* bound: pops of each thread
  NIL        \* the null pointer

ASSUME ElemsAssumption == IsFiniteSet(Elems) /\ NIL \notin Elems
ASSUME MaxPopsAssumption == MaxPops \in Nat

VARIABLES
  top,      \* fs->top
  next,     \* next of each element
  aba,      \* fs->aba_counter
  loc,      \* where each thread is
  fe,       \* the element that a thread pushes or has popped
  old,      \* fe_local of a pop, original_fe_next of a push
  new,      \* the pair to be stored in top
  pops,     \* history: number of pops begun by each thread
  wasEmpty, \* history: the list was empty during the pop of a thread
  stack     \* history: what was pushed and not popped yet, the newest first

freelistVars == <<top, next, aba, loc, fe, old, new, pops, wasEmpty, stack>>

Ptr     == Elems \cup {NIL}
Pair    == [ptr : Ptr, ctr : Nat]
Nothing == [ptr |-> NIL, ctr |-> 0]

Popping == {"popPtr", "popTest", "popNextCtr", "popCas"}
Pushing == {"topCtr", "linkPtr", "linkCtr", "pushCas"}
Locs    == Popping \cup Pushing \cup {"idle", "popCtr", "has"}

(* The pair of place i of the stack, or what ends the list.                *)
Place(i) == IF i \in DOMAIN stack THEN stack[i] ELSE Nothing

(* lfds611_freelist_new pushes the elements one after the other, s in the  *)
(* order from the last to the first.                                       *)
FreelistInit ==
  LET n == Cardinality(Elems) IN
  /\ \E s \in Bijection(1 .. n, Elems) :
       /\ stack = [i \in 1 .. n |-> [ptr |-> s[i], ctr |-> n + 1 - i]]
       /\ next = [e \in Elems |-> Place(1 + CHOOSE i \in 1 .. n : s[i] = e)]
  /\ top = Place(1)
  /\ aba = n
  /\ loc = [t \in Users |-> "idle"]
  /\ fe = [t \in Users |-> NIL]
  /\ old = [t \in Users |-> Nothing] /\ new = [t \in Users |-> Nothing]
  /\ pops = [t \in Users |-> 0]
  /\ wasEmpty = [t \in Users |-> FALSE]

Move(t, from, to) == loc[t] = from /\ loc' = [loc EXCEPT ![t] = to]

(* While a thread pops it remembers whether the list was empty. *)
Watch == wasEmpty' = [t \in Users |->
  loc'[t] \notin {"idle", "has"} /\ (wasEmpty[t] \/ top'.ptr = NIL)]

-----------------------------------------------------------------------------
(* lfds611_freelist_pop: the counter is read before the pointer. *)
PopBegin(t) ==
  /\ Move(t, "idle", "popCtr") /\ pops[t] < MaxPops
  /\ pops' = [pops EXCEPT ![t] = @ + 1]
  /\ UNCHANGED <<top, next, aba, fe, old, new, stack>>

ReadTopCounter(t) ==
  /\ Move(t, "popCtr", "popPtr")
  /\ old' = [old EXCEPT ![t].ctr = top.ctr]
  /\ UNCHANGED <<top, next, aba, fe, new, pops, stack>>

ReadTopPointer(t) ==
  /\ Move(t, "popPtr", "popTest")
  /\ old' = [old EXCEPT ![t].ptr = top.ptr]
  /\ UNCHANGED <<top, next, aba, fe, new, pops, stack>>

PopEmpty(t) ==
  /\ Move(t, "popTest", "idle") /\ old[t].ptr = NIL
  /\ UNCHANGED <<top, next, aba, fe, old, new, pops, stack>>

(* The exchange value of the compare-and-swap is loaded before it: two     *)
(* words of an element that may belong to another thread by now.           *)
LoadNextPointer(t) ==
  /\ Move(t, "popTest", "popNextCtr") /\ old[t].ptr # NIL
  /\ new' = [new EXCEPT ![t].ptr = next[old[t].ptr].ptr]
  /\ UNCHANGED <<top, next, aba, fe, old, pops, stack>>

LoadNextCounter(t) ==
  /\ Move(t, "popNextCtr", "popCas")
  /\ new' = [new EXCEPT ![t].ctr = next[old[t].ptr].ctr]
  /\ UNCHANGED <<top, next, aba, fe, old, pops, stack>>

(* lfds611_abstraction_dcas, which loads what it found when it fails.      *)
(* Mutant of Matches: a compare-and-swap of the pointer alone.             *)
MatchesPointer(found, expected) == found.ptr = expected.ptr
Matches(found, expected) == found = expected

(* A compare-and-swap that fails leaves what it found in old.              *)
CasFails(t, from, to) ==
  /\ ~ Matches(top, old[t])
  /\ Move(t, from, to)
  /\ old' = [old EXCEPT ![t] = top]
  /\ UNCHANGED <<top, next, aba, fe, new, pops, stack>>

(* One that succeeds ends the call, with e in the hands of the thread.     *)
CasSucceeds(t, from, to, e) ==
  /\ Matches(top, old[t])
  /\ Move(t, from, to)
  /\ top' = new[t]
  /\ fe' = [fe EXCEPT ![t] = e]
  /\ old' = [old EXCEPT ![t] = Nothing] /\ new' = [new EXCEPT ![t] = Nothing]
  /\ UNCHANGED <<next, aba, pops>>

PopCas(t) ==
  /\ CasSucceeds(t, "popCas", "has", old[t].ptr)
  /\ stack' = Tail(stack)

PopAgain(t) == CasFails(t, "popCas", "popTest")

-----------------------------------------------------------------------------
(* lfds611_freelist_push. *)
PushBegin(t) ==
  /\ Move(t, "has", "topCtr")
  /\ aba' = aba + 1
  /\ new' = [new EXCEPT ![t] = [ptr |-> fe[t], ctr |-> aba']]
  /\ old' = [old EXCEPT ![t].ptr = top.ptr]
  /\ UNCHANGED <<top, next, fe, pops, stack>>

ReadCounter(t) ==
  /\ Move(t, "topCtr", "linkPtr")
  /\ old' = [old EXCEPT ![t].ctr = top.ctr]
  /\ UNCHANGED <<top, next, aba, fe, new, pops, stack>>

LinkPointer(t) ==
  /\ Move(t, "linkPtr", "linkCtr")
  /\ next' = [next EXCEPT ![fe[t]].ptr = old[t].ptr]
  /\ UNCHANGED <<top, aba, fe, old, new, pops, stack>>

LinkCounter(t) ==
  /\ Move(t, "linkCtr", "pushCas")
  /\ next' = [next EXCEPT ![fe[t]].ctr = old[t].ctr]
  /\ UNCHANGED <<top, aba, fe, old, new, pops, stack>>

PushCas(t) ==
  /\ CasSucceeds(t, "pushCas", "idle", NIL)
  /\ stack' = <<new[t]>> \o stack

PushAgain(t) == CasFails(t, "pushCas", "linkPtr")

-----------------------------------------------------------------------------
FreelistStep(t) ==
  \/ PopBegin(t) \/ ReadTopCounter(t) \/ ReadTopPointer(t) \/ PopEmpty(t)
  \/ LoadNextPointer(t) \/ LoadNextCounter(t) \/ PopCas(t) \/ PopAgain(t)
  \/ PushBegin(t) \/ ReadCounter(t) \/ LinkPointer(t) \/ LinkCounter(t)
  \/ PushCas(t) \/ PushAgain(t)

FreelistNext == \E t \in Users : FreelistStep(t) /\ Watch
FreelistSpec == FreelistInit /\ [][FreelistNext]_freelistVars

-----------------------------------------------------------------------------
(***************************************************************************)
(* Properties.                                                             *)
(***************************************************************************)
FreelistTypes ==
  /\ top \in Pair /\ next \in [Elems -> Pair] /\ aba \in Nat
  /\ loc \in [Users -> Locs] /\ fe \in [Users -> Ptr]
  /\ old \in [Users -> Pair] /\ new \in [Users -> Pair]
  /\ pops \in [Users -> 0 .. MaxPops] /\ wasEmpty \in [Users -> BOOLEAN]
  /\ stack \in Seq([ptr : Elems, ctr : Nat])

(* What the threads reach from fs->top is the stack.                       *)
ListIsStack ==
  /\ top = Place(1)
  /\ \A i \in DOMAIN stack : next[stack[i].ptr] = Place(i + 1)

(* Every element is on the list once or with one thread.                   *)
OneOwner ==
  /\ \A i, j \in DOMAIN stack : stack[i].ptr = stack[j].ptr => i = j
  /\ \A t, u \in Users : fe[t] = fe[u] /\ fe[t] # NIL => t = u
  /\ \A e \in Elems : (\E i \in DOMAIN stack : stack[i].ptr = e) <=> \A t \in Users : fe[t] # e

(* lfds611_freelist_pop fails only if the list was empty at some time of   *)
(* the call.                                                               *)
EmptyIsTrue == \A t \in Users :
  loc[t] = "popTest" /\ old[t].ptr = NIL => wasEmpty[t]

(* However the threads overtake each other between the reads of a word and *)
(* the compare-and-swap, the list stays a stack: none of their             *)
(* interleavings hands an element to two threads, loses one, closes a      *)
(* circle or finds it empty when it never was (lfds611_freelist_pop,       *)
(* lfds611_freelist_push).                                                 *)
FreelistRight == FreelistTypes /\ ListIsStack /\ OneOwner /\ EmptyIsTrue
=============================================================================
