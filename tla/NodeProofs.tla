----------------------------- MODULE NodeProofs -----------------------------
(***************************************************************************)
(* The registries and the ports of a node, and its logger.                 *)
(*                                                                         *)
(* An application that is careful, whatever its modules register and in    *)
(* whichever order they are loaded: no pointer dangles, types are those    *)
(* that are registered, every block that ubx_block_create returns lives,   *)
(* and the clean-up leaves nothing. One that is not: a registry entry      *)
(* dangles only after an init that failed.                                 *)
(*                                                                         *)
(* A block, however many ports, names and interactions there are: the      *)
(* pointers that a running block caches are those of its ports until ports *)
(* are added or removed under it, and then all but those that this moves;  *)
(* a read takes one sample, and connecting implements PortInterface.       *)
(*                                                                         *)
(* The logger, whatever it reports, in any order of the blocks: its        *)
(* cached pointers are right, its columns show samples of their sources    *)
(* since its init and never go back, and nothing freed is used.            *)
(*                                                                         *)
(* A launch, of every tree of systems: blocks get the configuration of the *)
(* outermost system, and a complete model comes to its end.                *)
(***************************************************************************)
EXTENDS NodeParts, FiniteSetTheorems, WellFoundedInduction, TLAPS

(* Item i of module m is registered at present. *)
Live(m, i) ==
  \/ m \in loaded
  \/ m = task.mod /\ task.op = "load" /\ i < task.k
  \/ m = task.mod /\ task.op # "load" /\ i >= task.k

(* The open libraries are those of loaded modules and of the one at work. *)
MappedInv == /\ mapped = loaded \cup ({task.mod} \ {NULL})
             /\ task.op = "done" => loaded = {}

(* What is registered belongs to a module that has it among its items, ... *)
OwnedInv ==
  /\ \A t \in TypeNames : types[t] # NULL =>
       \E o \in mapped : types[t] = o /\ \E i \in DOMAIN Items[o] :
         Items[o][i].name = t /\ Live(o, i)
  /\ \A p \in Protos : blocks[p] # NULL =>
       \E o \in mapped : blocks[p].hooks = o /\ \E i \in DOMAIN Items[o] :
         Items[o][i].name = p /\ Live(o, i)

(* ... and what a module has registered is still there. *)
LiveInv == \A m \in mapped : \A i \in DOMAIN Items[m] : Live(m, i) =>
  IF Items[m][i].kind = "type" THEN types[Items[m][i].name] = m
  ELSE blocks[Items[m][i].name] # NULL /\ blocks[Items[m][i].name].hooks = m

(* A module that is loading finds its other names free and its types.      *)
LoadInv == task.op = "load" =>
  \A i \in task.k .. Len(Items[task.mod]) :
    LET it == Items[task.mod][i]
    IN  IF it.kind = "type" THEN types[it.name] = NULL
        ELSE /\ blocks[it.name] = NULL
             /\ \A t \in it.uses :
                  Registered(t) \/ \E j \in task.k .. i - 1 : Items[task.mod][j].name = t

(* Blocks use registered types, except those of a module being unloaded,   *)
(* which only its own prototypes use; instances are of modules that stay.  *)
UsesInv == task.op \in {"none", "load", "unload"} =>
  \A b \in BlockNames : blocks[b] # NULL =>
    \A t \in TypeNames : blocks[b].uses[t] # NULL =>
      \/ types[t] = blocks[b].uses[t]
      \/ task.op = "unload" /\ blocks[b].uses[t] = task.mod

UnloadInv == task.op = "unload" =>
  \A b \in BlockNames : blocks[b] # NULL =>
    ((\E t \in TypeNames : blocks[b].uses[t] = task.mod) =>
      b \in Protos /\ blocks[b].hooks = task.mod)

InstanceInv == \A n \in Instances : blocks[n] # NULL =>
  task.op \in {"none", "load", "unload"} /\ blocks[n].hooks \in loaded

IInv == /\ TypeOK /\ MappedInv /\ OwnedInv /\ LiveInv /\ LoadInv
        /\ UsesInv /\ UnloadInv /\ InstanceInv /\ CreateReturnsLive

-----------------------------------------------------------------------------
(***************************************************************************)
(* Items and the operation going on.                                       *)
(***************************************************************************)
LEMMA ItemFacts ==
  ASSUME NEW m \in Modules
  PROVE  /\ Len(Items[m]) \in Nat
         /\ DOMAIN Items[m] = 1 .. Len(Items[m])
         /\ \A i \in DOMAIN Items[m] :
              /\ Items[m][i].kind \in {"type", "block"}
              /\ Items[m][i].kind = "type" => Items[m][i].name \in TypeNames
              /\ Items[m][i].kind = "block" =>
                   Items[m][i].name \in Protos /\ Items[m][i].uses \subseteq TypeNames
         /\ \A i, j \in DOMAIN Items[m] :
              Items[m][i].name = Items[m][j].name => i = j
<1>1. Items[m] \in Seq(Item)
  BY ItemsAssumption
<1>2. \A i \in DOMAIN Items[m] : Items[m][i] \in Item
  BY <1>1
<1> QED
  BY <1>1, <1>2, ItemsAssumption DEF Item

LEMMA TaskFacts ==
  ASSUME TypeOK
  PROVE  /\ task.op \in {"none", "load", "unload", "cleanup", "done"}
         /\ task.mod \in Modules \cup {NULL} /\ task.k \in Nat \ {0}
         /\ task = Idle <=> task.op = "none"
         /\ task.op \in {"none", "done"} => task.mod = NULL
         /\ task.op \in {"load", "unload"} => task.mod # NULL
         /\ task.mod = NULL => task.k = 1
         /\ task.mod # NULL =>
              /\ task.mod \in Modules /\ task.mod \in mapped \ loaded
              /\ task.k <= Len(Items[task.mod]) + 1
         /\ task = [op |-> task.op, mod |-> task.mod, k |-> task.k]
BY NamesAssumption DEF TypeOK, Idle

LEMMA TypeInit == Init => TypeOK
BY DEF Init, TypeOK, Pointers, BlockInfo

(* Every step keeps the types. *)
LEMMA TypeStep ==
  ASSUME TypeOK, [Next]_vars
  PROVE  TypeOK'
<1>0. careful' \in BOOLEAN
  BY DEF TypeOK, Next, vars
<1> USE <1>0 DEF Pointers, BlockInfo
<1>1. ASSUME NEW m \in Modules, LoadBegin(m)  PROVE TypeOK'
  <2>1. task' = [op |-> "load", mod |-> m, k |-> 1] /\ m \in mapped' \ loaded'
    BY <1>1 DEF LoadBegin, TypeOK
  <2>2. 1 <= Len(Items[m]) + 1
    BY ItemFacts
  <2> QED
    BY <1>1, <2>1, <2>2 DEF LoadBegin, TypeOK
<1>2. ASSUME NEW m \in Modules, UnloadBegin(m)  PROVE TypeOK'
  <2>1. 1 <= Len(Items[m]) + 1
    BY ItemFacts
  <2> QED
    BY <1>2, <2>1 DEF UnloadBegin, TypeOK
<1>3. ASSUME NEW m \in Modules, CleanupUnload(m)  PROVE TypeOK'
  <2>1. 1 <= Len(Items[m]) + 1
    BY ItemFacts
  <2>2. task' = [op |-> "cleanup", mod |-> m, k |-> 1]
    BY <1>3, TaskFacts DEF CleanupUnload
  <2>3. /\ m \in mapped' \ loaded' /\ loaded' \subseteq mapped'
        /\ mapped' = mapped /\ loaded' \subseteq loaded
        /\ UNCHANGED <<types, blocks, ret, failed>>
    BY <1>3 DEF CleanupUnload, TypeOK
  <2> QED
    BY <2>1, <2>2, <2>3 DEF TypeOK
<1>4. ASSUME MoreItems, NextItem, UNCHANGED <<loaded, mapped>>, task.mod # NULL
      PROVE  /\ task' = [op |-> task.op, mod |-> task.mod, k |-> task.k + 1]
             /\ task.op \in {"load", "unload", "cleanup"}
             /\ task'.k \in Nat \ {0} /\ task'.k <= Len(Items[task'.mod]) + 1
             /\ task'.mod \in Modules /\ task'.mod \in mapped' \ loaded'
  BY <1>4, TaskFacts, ItemFacts DEF MoreItems, NextItem
<1>5. CASE RegisterType
  <2>1. Current.name \in TypeNames /\ task.mod \in Modules
    BY <1>5, TaskFacts, ItemFacts DEF RegisterType, Current, MoreItems
  <2> QED
    BY <1>4, <1>5, <2>1, TaskFacts DEF RegisterType, TypeOK
<1>6. CASE RegisterBlock
  <2>1. Current.name \in Protos /\ task.mod \in Modules
    BY <1>6, TaskFacts, ItemFacts DEF RegisterBlock, Current, MoreItems
  <2>2. Resolved(Current.uses) \in [TypeNames -> Pointers]
    BY DEF Resolved, TypeOK
  <2>3. blocks' \in [BlockNames -> BlockInfo \cup {NULL}]
    BY <1>6, <2>1, <2>2 DEF RegisterBlock, BlockNames, TypeOK
  <2> QED
    BY <1>4, <1>6, <2>3, TaskFacts DEF RegisterBlock, TypeOK
<1>7. CASE LoadFail
  BY <1>7, TaskFacts DEF LoadFail, TypeOK
<1>8. CASE LoadEnd
  BY <1>8, TaskFacts DEF LoadEnd, TypeOK
<1>9. ASSUME NEW p \in BlockNames, NEW n \in Instances, BlockCreate(p, n)
      PROVE  TypeOK'
  BY <1>9 DEF BlockCreate, Resolved, BlockNames, TypeOK
<1>10. ASSUME NEW n \in Instances, BlockRm(n)  PROVE TypeOK'
  BY <1>10 DEF BlockRm, BlockNames, TypeOK
<1>11. CASE Unregister
  <2>1. types' \in [TypeNames -> Pointers] /\ blocks' \in [BlockNames -> BlockInfo \cup {NULL}]
    BY <1>11 DEF Unregister, TypeOK
  <2> QED
    BY <1>4, <1>11, <2>1 DEF Unregister, TypeOK
<1>12. CASE UnloadEnd
  BY <1>12, TaskFacts DEF UnloadEnd, TypeOK
<1>13. CASE CleanupBegin
  BY <1>13 DEF CleanupBegin, TypeOK
<1>14. CASE CleanupEnd
  BY <1>14, TaskFacts DEF CleanupEnd, TypeOK
<1>15. CASE UNCHANGED vars
  BY <1>15 DEF vars, TypeOK
<1> QED
  BY <1>1, <1>2, <1>3, <1>5, <1>6, <1>7, <1>8, <1>9, <1>10, <1>11, <1>12,
     <1>13, <1>14, <1>15 DEF Next, Operation

-----------------------------------------------------------------------------
(***************************************************************************)
(* Every step keeps the invariant.                                         *)
(***************************************************************************)
LEMMA InvInit == Init => IInv
<1> SUFFICES ASSUME Init PROVE IInv
  OBVIOUS
<1>1. TypeOK
  BY TypeInit
<1>2. /\ loaded = {} /\ mapped = {} /\ task.op = "none" /\ task.mod = NULL
      /\ \A t \in TypeNames : types[t] = NULL
      /\ \A b \in BlockNames : blocks[b] = NULL
  BY DEF Init, Idle
<1>3. MappedInv
  BY <1>2 DEF MappedInv
<1>4. OwnedInv /\ LiveInv /\ LoadInv
  BY <1>2 DEF OwnedInv, LiveInv, LoadInv, BlockNames
<1>5. UsesInv /\ UnloadInv /\ InstanceInv
  BY <1>2 DEF UsesInv, UnloadInv, InstanceInv, BlockNames
<1> QED
  BY <1>1, <1>3, <1>4, <1>5, NamesAssumption DEF IInv, Init, CreateReturnsLive

(* The library of a module that is loaded next is open. *)
LEMMA LoadBeginInv ==
  ASSUME careful, UNCHANGED careful, IInv, NEW m \in Modules, LoadBegin(m)
  PROVE  IInv'
<1> USE DEF IInv
<1>1. TypeOK'
  BY TypeStep DEF Next, Operation
<1>2. /\ task.op = "none" /\ task.mod = NULL
      /\ task'.op = "load" /\ task'.mod = m /\ task'.k = 1
      /\ m \notin mapped /\ mapped' = mapped \cup {m}
      /\ UNCHANGED <<loaded, types, blocks, ret, failed>>
  BY <1>1, TaskFacts DEF LoadBegin, Idle
<1>3. MappedInv'
  BY <1>2, NamesAssumption DEF MappedInv
<1>4. m \notin loaded /\ loaded = mapped
  BY <1>2 DEF MappedInv
<1>5. OwnedInv'
  BY <1>2, <1>4 DEF OwnedInv, Live
<1>6. LiveInv'
  BY <1>2, <1>4, ItemFacts DEF LiveInv, Live
<1>7. LoadInv'
  BY <1>2, ItemFacts DEF LoadInv, LoadBegin, MayLoad, NamesOf, BlockNames, Registered
<1>8. UsesInv' /\ UnloadInv' /\ InstanceInv' /\ CreateReturnsLive'
  BY <1>2 DEF UsesInv, UnloadInv, InstanceInv, CreateReturnsLive
<1> QED
  BY <1>1, <1>3, <1>5, <1>6, <1>7, <1>8

(* What goes on being registered of the module at work.                    *)
LEMMA NextItemFacts ==
  ASSUME TypeOK, MoreItems, NextItem, task.mod # NULL, UNCHANGED <<loaded, mapped>>
  PROVE  /\ task'.op = task.op /\ task'.mod = task.mod /\ task'.k = task.k + 1
         /\ task.mod \in Modules /\ task.mod \in mapped \ loaded
         /\ task.k \in DOMAIN Items[task.mod]
         /\ Current = Items[task.mod][task.k]
         /\ task.op \in {"load", "unload", "cleanup"}
BY TaskFacts, ItemFacts DEF MoreItems, NextItem, Current

LEMMA RegisterTypeInv ==
  ASSUME careful, UNCHANGED careful, IInv, RegisterType
  PROVE  IInv'
<1> USE DEF IInv
<1> DEFINE m == task.mod
           n == Current.name
<1>1. TypeOK'
  BY TypeStep DEF Next, Operation
<1>2. /\ task'.op = "load" /\ task'.mod = m /\ task'.k = task.k + 1
      /\ task.op = "load" /\ m \in Modules /\ m \in mapped \ loaded
      /\ task.k \in DOMAIN Items[m] /\ task.k \in Nat
      /\ Current = Items[m][task.k] /\ Current.kind = "type" /\ n \in TypeNames
      /\ UNCHANGED <<loaded, mapped, blocks, ret, failed>>
  BY TaskFacts, NextItemFacts, ItemFacts DEF RegisterType
<1>3. types[n] = NULL /\ types' = [types EXCEPT ![n] = m]
  <2>1. types[n] = NULL
    BY <1>2, ItemFacts DEF LoadInv, Registered
  <2> QED BY <1>2, <2>1 DEF RegisterType, Registered
<1>4. MappedInv'
  BY <1>2 DEF MappedInv
<1>t. \A t \in TypeNames : types'[t] = IF t = n THEN m ELSE types[t]
  BY <1>2, <1>3 DEF TypeOK
<1>5. OwnedInv'
  BY <1>2, <1>t, ItemFacts DEF OwnedInv, Live
<1>6. LiveInv'
  <2> SUFFICES ASSUME NEW o \in mapped, NEW i \in DOMAIN Items[o], Live(o, i)'
               PROVE  IF Items[o][i].kind = "type" THEN types'[Items[o][i].name] = o
                      ELSE blocks[Items[o][i].name] # NULL /\ blocks[Items[o][i].name].hooks = o
    BY <1>2 DEF LiveInv
  <2>1. o \in Modules
    BY DEF TypeOK
  <2>2. CASE o = m /\ i = task.k
    BY <1>2, <1>t, <2>2
  <2>3. CASE ~ (o = m /\ i = task.k)
    <3>1. Live(o, i)
      BY <1>2, <2>1, <2>3, ItemFacts DEF Live
    <3>2. Items[o][i].kind = "type" => Items[o][i].name \in TypeNames /\ Items[o][i].name # n
      BY <1>2, <1>3, <2>1, <3>1, NamesAssumption, ItemFacts DEF LiveInv
    <3> QED
      BY <1>t, <3>1, <3>2 DEF LiveInv
  <2> QED
    BY <2>2, <2>3
<1>7. LoadInv'
  <2> SUFFICES ASSUME NEW i \in task.k + 1 .. Len(Items[m])
               PROVE  IF Items[m][i].kind = "type" THEN types'[Items[m][i].name] = NULL
                      ELSE /\ blocks[Items[m][i].name] = NULL
                           /\ \A t \in Items[m][i].uses :
                                \/ types'[t] # NULL
                                \/ \E j \in task.k + 1 .. i - 1 : Items[m][j].name = t
    BY <1>2 DEF LoadInv, Registered
  <2>1. i \in task.k .. Len(Items[m]) /\ i \in DOMAIN Items[m] /\ i # task.k /\ i \in Nat
    BY <1>2, ItemFacts
  <2>2. CASE Items[m][i].kind = "type"
    BY <1>2, <1>t, <2>1, <2>2, ItemFacts DEF LoadInv
  <2>3. CASE Items[m][i].kind # "type"
    <3>1. Items[m][i].kind = "block" /\ Items[m][i].uses \subseteq TypeNames
      BY <1>2, <2>1, <2>3, ItemFacts
    <3>2. blocks[Items[m][i].name] = NULL
      BY <1>2, <2>1, <2>3 DEF LoadInv
    <3>3. ASSUME NEW t \in Items[m][i].uses
          PROVE  types'[t] # NULL \/ \E j \in task.k + 1 .. i - 1 : Items[m][j].name = t
      <4>1. types[t] # NULL \/ \E j \in task.k .. i - 1 : Items[m][j].name = t
        BY <1>2, <2>1, <2>3 DEF LoadInv, Registered
      <4> QED
        BY <1>2, <1>t, <2>1, <3>1, <4>1, NamesAssumption
    <3> QED
      BY <2>3, <3>2, <3>3
  <2> QED
    BY <2>2, <2>3
<1>8. UsesInv' /\ UnloadInv' /\ InstanceInv' /\ CreateReturnsLive'
  BY <1>2, <1>3, <1>t DEF UsesInv, UnloadInv, InstanceInv, CreateReturnsLive
<1> QED
  BY <1>1, <1>4, <1>5, <1>6, <1>7, <1>8

LEMMA RegisterBlockInv ==
  ASSUME careful, UNCHANGED careful, IInv, RegisterBlock
  PROVE  IInv'
<1> USE DEF IInv
<1> DEFINE m == task.mod
           n == Current.name
<1>1. TypeOK'
  BY TypeStep DEF Next, Operation
<1>2. /\ task'.op = "load" /\ task'.mod = m /\ task'.k = task.k + 1
      /\ task.op = "load" /\ m \in Modules /\ m \in mapped \ loaded
      /\ task.k \in DOMAIN Items[m] /\ task.k \in Nat
      /\ Current = Items[m][task.k] /\ Current.kind = "block" /\ n \in Protos
      /\ blocks[n] = NULL
      /\ UNCHANGED <<loaded, mapped, types, ret, failed>>
  BY TaskFacts, NextItemFacts, ItemFacts DEF RegisterBlock
<1>3. /\ blocks'[n] = [hooks |-> m, uses |-> Resolved(Current.uses)]
      /\ blocks'[n] # NULL
      /\ \A b \in BlockNames : b # n => blocks'[b] = blocks[b]
  <2>1. blocks'[n] = [hooks |-> m, uses |-> Resolved(Current.uses)]
    BY <1>2 DEF RegisterBlock, TypeOK, BlockNames
  <2>2. blocks'[n].hooks = m /\ blocks'[n] \in BlockInfo \cup {NULL} /\ n \in BlockNames
    BY <1>1, <1>2, <2>1 DEF TypeOK, BlockNames
  <2>3. blocks[n] = NULL /\ \A b \in BlockNames : b # n => blocks'[b] = blocks[b]
    BY <1>2 DEF RegisterBlock, TypeOK, BlockNames
  <2>4. [hooks |-> m, uses |-> Resolved(Current.uses)] # NULL
    <3>1. Resolved(Current.uses) \in [TypeNames -> Pointers]
      BY DEF Resolved, TypeOK, Pointers
    <3> QED
      BY <1>2, <3>1, NullAssumption DEF BlockInfo
  <2> QED
    BY <2>1, <2>3, <2>4
<1>4. MappedInv'
  BY <1>2 DEF MappedInv
<1>5. OwnedInv'
  <2>1. blocks'[n].hooks = m
    BY <1>3
  <2>2. ASSUME NEW o \in Modules, NEW i \in DOMAIN Items[o], Live(o, i)
        PROVE  Live(o, i)'
    <3>1. i \in Nat
      BY ItemFacts
    <3> QED
      BY <1>2, <2>2, <3>1 DEF Live
  <2>3. \A o \in Modules : \A i \in DOMAIN Items[o] :
          o = m /\ i = task.k => Live(o, i)'
    BY <1>2 DEF Live
  <2>4. ASSUME NEW t \in TypeNames, types[t] # NULL
        PROVE  \E o \in mapped : types[t] = o /\ \E i \in DOMAIN Items[o] :
                 Items[o][i].name = t /\ Live(o, i)'
    BY <2>2, <2>4 DEF OwnedInv, TypeOK
  <2>5. ASSUME NEW q \in Protos, blocks'[q] # NULL
        PROVE  \E o \in mapped : blocks'[q].hooks = o /\ \E i \in DOMAIN Items[o] :
                 Items[o][i].name = q /\ Live(o, i)'
    <3>1. CASE q = n
      BY <1>2, <2>1, <2>3, <3>1
    <3>2. CASE q # n
      BY <1>2, <1>3, <2>2, <2>5, <3>2 DEF OwnedInv, TypeOK, BlockNames
    <3> QED
      BY <3>1, <3>2
  <2> QED
    BY <1>2, <2>4, <2>5 DEF OwnedInv
<1>6. LiveInv'
  <2> SUFFICES ASSUME NEW o \in mapped, NEW i \in DOMAIN Items[o], Live(o, i)'
               PROVE  IF Items[o][i].kind = "type" THEN types[Items[o][i].name] = o
                      ELSE blocks'[Items[o][i].name] # NULL /\ blocks'[Items[o][i].name].hooks = o
    BY <1>2 DEF LiveInv
  <2>1. o \in Modules
    BY DEF TypeOK
  <2>2. CASE o = m /\ i = task.k
    BY <1>2, <1>3, <2>2
  <2>3. CASE ~ (o = m /\ i = task.k)
    <3>1. Live(o, i)
      BY <1>2, <2>1, <2>3, ItemFacts DEF Live
    <3>2. Items[o][i].kind # "type" =>
            Items[o][i].name \in BlockNames /\ Items[o][i].name # n
      BY <1>2, <2>1, <3>1, ItemFacts DEF LiveInv, BlockNames
    <3> QED
      BY <1>3, <3>1, <3>2 DEF LiveInv
  <2> QED
    BY <2>2, <2>3
<1>7. LoadInv'
  <2> SUFFICES ASSUME NEW i \in task.k + 1 .. Len(Items[m])
               PROVE  IF Items[m][i].kind = "type" THEN types[Items[m][i].name] = NULL
                      ELSE /\ blocks'[Items[m][i].name] = NULL
                           /\ \A t \in Items[m][i].uses :
                                \/ types[t] # NULL
                                \/ \E j \in task.k + 1 .. i - 1 : Items[m][j].name = t
    BY <1>2 DEF LoadInv, Registered
  <2>1. i \in task.k .. Len(Items[m]) /\ i \in DOMAIN Items[m] /\ i # task.k /\ i \in Nat
    BY <1>2, ItemFacts
  <2>2. CASE Items[m][i].kind = "type"
    BY <1>2, <2>1, <2>2, ItemFacts DEF LoadInv
  <2>3. CASE Items[m][i].kind # "type"
    <3>1. /\ Items[m][i].kind = "block" /\ Items[m][i].uses \subseteq TypeNames
          /\ Items[m][i].name \in BlockNames /\ Items[m][i].name # n
      BY <1>2, <2>1, <2>3, ItemFacts DEF BlockNames
    <3>2. blocks'[Items[m][i].name] = NULL
      BY <1>2, <1>3, <2>1, <2>3, <3>1 DEF LoadInv
    <3>3. ASSUME NEW t \in Items[m][i].uses
          PROVE  types[t] # NULL \/ \E j \in task.k + 1 .. i - 1 : Items[m][j].name = t
      <4>1. types[t] # NULL \/ \E j \in task.k .. i - 1 : Items[m][j].name = t
        BY <1>2, <2>1, <2>3 DEF LoadInv, Registered
      <4> QED
        BY <1>2, <2>1, <3>1, <4>1, NamesAssumption
    <3> QED
      BY <2>3, <3>2, <3>3
  <2> QED
    BY <2>2, <2>3
<1>8. UsesInv'
  BY <1>2, <1>3 DEF UsesInv, Resolved
<1>9. UnloadInv' /\ InstanceInv' /\ CreateReturnsLive'
  BY <1>2, <1>3, NamesAssumption DEF UnloadInv, InstanceInv, CreateReturnsLive, BlockNames
<1> QED
  BY <1>1, <1>4, <1>5, <1>6, <1>7, <1>8, <1>9

(* The init of a module that is loaded in order never fails. *)
LEMMA LoadNeverFails ==
  ASSUME careful, UNCHANGED careful, IInv
  PROVE  ~ LoadFail
<1> SUFFICES ASSUME LoadFail PROVE FALSE
  OBVIOUS
<1> USE DEF IInv
<1>1. /\ task.op = "load" /\ task.mod \in Modules /\ task.k \in Nat
      /\ task.k \in DOMAIN Items[task.mod] /\ Current = Items[task.mod][task.k]
      /\ task.k \in task.k .. Len(Items[task.mod])
  BY TaskFacts, ItemFacts DEF LoadFail, MoreItems, Current
<1>2. CASE Current.kind = "type"
  BY <1>1, <1>2 DEF LoadFail, LoadInv, Registered
<1>3. CASE Current.kind # "type"
  <2>1. \A t \in Current.uses : Registered(t)
    BY <1>1, <1>3 DEF LoadInv
  <2> QED
    BY <1>1, <1>3, <2>1 DEF LoadFail, LoadInv, Resolvable
<1> QED
  BY <1>2, <1>3

LEMMA LoadEndInv ==
  ASSUME careful, UNCHANGED careful, IInv, LoadEnd
  PROVE  IInv'
<1> USE DEF IInv
<1>1. TypeOK'
  BY TypeStep DEF Next, Operation
<1>2. /\ task.op = "load" /\ task.mod \in Modules /\ task.mod \in mapped \ loaded
      /\ task'.op = "none" /\ task'.mod = NULL /\ task.k \in Nat
      /\ task.k > Len(Items[task.mod])
      /\ loaded' = loaded \cup {task.mod}
      /\ UNCHANGED <<mapped, types, blocks, ret, failed>>
  BY TaskFacts, ItemFacts DEF LoadEnd, MoreItems, Idle
<1>3. MappedInv'
  BY <1>2 DEF MappedInv
<1>4. OwnedInv'
  BY <1>2 DEF OwnedInv, Live
<1>5. LiveInv'
  <2> SUFFICES ASSUME NEW o \in mapped, NEW i \in DOMAIN Items[o], Live(o, i)'
               PROVE  Live(o, i)
    BY <1>2 DEF LiveInv
  <2>1. o \in Modules
    BY DEF TypeOK
  <2> QED
    BY <1>2, <2>1, ItemFacts, NamesAssumption DEF Live
<1>6. LoadInv' /\ UsesInv' /\ UnloadInv' /\ InstanceInv' /\ CreateReturnsLive'
  BY <1>2 DEF LoadInv, UsesInv, UnloadInv, InstanceInv, CreateReturnsLive
<1> QED
  BY <1>1, <1>3, <1>4, <1>5, <1>6

(* The clone of a block finds the types of the block registered. *)
LEMMA BlockCreateInv ==
  ASSUME careful, UNCHANGED careful, IInv, NEW p \in BlockNames, NEW n \in Instances, BlockCreate(p, n)
  PROVE  IInv'
<1> USE DEF IInv
<1> DEFINE uses == {t \in TypeNames : blocks[p].uses[t] # NULL}
<1>1. TypeOK'
  BY TypeStep DEF Next, Operation
<1>2. /\ task.op = "none" /\ task.mod = NULL /\ blocks[p] # NULL /\ blocks[n] = NULL
      /\ mapped = loaded
      /\ UNCHANGED <<loaded, mapped, types, task, failed>>
  BY DEF BlockCreate, Idle, MappedInv
<1>3. Resolvable(uses)
  BY <1>2 DEF UsesInv, Resolvable, Registered
<1>4. /\ blocks' = [blocks EXCEPT ![n] = [hooks |-> blocks[p].hooks, uses |-> Resolved(uses)]]
      /\ ret' = "live" /\ n \in BlockNames /\ n \notin Protos
  BY <1>3, NamesAssumption DEF BlockCreate, BlockNames
<1>5. /\ blocks'[n] = [hooks |-> blocks[p].hooks, uses |-> Resolved(uses)]
      /\ \A b \in BlockNames : b # n => blocks'[b] = blocks[b]
  BY <1>4 DEF TypeOK
<1>6. blocks[p].hooks \in loaded
  BY <1>2 DEF OwnedInv, InstanceInv, BlockNames
<1>7. MappedInv' /\ LoadInv' /\ UnloadInv' /\ CreateReturnsLive'
  BY <1>2, <1>4 DEF MappedInv, LoadInv, UnloadInv, CreateReturnsLive
<1>8. OwnedInv'
  BY <1>2, <1>4, <1>5 DEF OwnedInv, Live, BlockNames
<1>9. LiveInv'
  <2> SUFFICES ASSUME NEW o \in mapped, NEW i \in DOMAIN Items[o], Live(o, i)
               PROVE  IF Items[o][i].kind = "type" THEN types[Items[o][i].name] = o
                      ELSE blocks'[Items[o][i].name] # NULL /\ blocks'[Items[o][i].name].hooks = o
    BY <1>2 DEF LiveInv, Live
  <2>1. Items[o][i].kind # "type" => Items[o][i].name \in BlockNames \ {n}
    BY <1>4, ItemFacts DEF TypeOK, BlockNames
  <2> QED
    BY <1>5, <2>1 DEF LiveInv
<1>10. UsesInv'
  BY <1>2, <1>5 DEF UsesInv, Resolved
<1>11. InstanceInv'
  BY <1>2, <1>5, <1>6 DEF InstanceInv, BlockNames
<1> QED
  BY <1>1, <1>7, <1>8, <1>9, <1>10, <1>11

LEMMA BlockRmInv ==
  ASSUME careful, UNCHANGED careful, IInv, NEW n \in Instances, BlockRm(n)
  PROVE  IInv'
<1> USE DEF IInv
<1>1. TypeOK'
  BY TypeStep DEF Next, Operation
<1>2. /\ task.op = "none" /\ task.mod = NULL /\ n \in BlockNames /\ n \notin Protos
      /\ blocks'[n] = NULL
      /\ \A b \in BlockNames : b # n => blocks'[b] = blocks[b]
      /\ UNCHANGED <<loaded, mapped, types, task, failed>> /\ ret' = NULL
  BY NamesAssumption DEF BlockRm, Idle, BlockNames, TypeOK
<1>3. MappedInv' /\ LoadInv' /\ UnloadInv'
  BY <1>2 DEF MappedInv, LoadInv, UnloadInv
<1>4. OwnedInv'
  BY <1>2 DEF OwnedInv, Live, BlockNames
<1>5. LiveInv'
  <2> SUFFICES ASSUME NEW o \in mapped, NEW i \in DOMAIN Items[o], Live(o, i)
               PROVE  IF Items[o][i].kind = "type" THEN types[Items[o][i].name] = o
                      ELSE blocks'[Items[o][i].name] # NULL /\ blocks'[Items[o][i].name].hooks = o
    BY <1>2 DEF LiveInv, Live
  <2>1. Items[o][i].kind # "type" => Items[o][i].name \in BlockNames \ {n}
    BY <1>2, ItemFacts DEF TypeOK, BlockNames
  <2> QED
    BY <1>2, <2>1 DEF LiveInv
<1>6. UsesInv' /\ InstanceInv'
  BY <1>2 DEF UsesInv, InstanceInv, BlockNames
<1>7. CreateReturnsLive'
  BY <1>2, NamesAssumption DEF CreateReturnsLive
<1> QED
  BY <1>1, <1>3, <1>4, <1>5, <1>6, <1>7

(* A module that is unloaded is not used by what stays.                    *)
LEMMA UnloadBeginInv ==
  ASSUME careful, UNCHANGED careful, IInv, NEW m \in Modules, UnloadBegin(m)
  PROVE  IInv'
<1> USE DEF IInv
<1>1. TypeOK'
  BY TypeStep DEF Next, Operation
<1>2. /\ task.op = "none" /\ task.mod = NULL /\ m \in loaded /\ mapped = loaded
      /\ task'.op = "unload" /\ task'.mod = m /\ task'.k = 1 /\ loaded' = loaded \ {m}
      /\ UNCHANGED <<mapped, types, blocks, ret, failed>>
  BY NamesAssumption DEF UnloadBegin, Idle, MappedInv
<1>3. MappedInv'
  BY <1>2, NamesAssumption DEF MappedInv
<1>4. \A o \in mapped : \A i \in DOMAIN Items[o] : Live(o, i) /\ Live(o, i)'
  BY <1>2, ItemFacts DEF Live, TypeOK
<1>5. OwnedInv' /\ LiveInv'
  BY <1>2, <1>4 DEF OwnedInv, LiveInv
<1>6. LoadInv' /\ UsesInv' /\ CreateReturnsLive'
  BY <1>2 DEF LoadInv, UsesInv, CreateReturnsLive
<1>7. ASSUME NEW b \in BlockNames, blocks[b] # NULL,
             b \notin Protos \/ blocks[b].hooks # m
      PROVE  blocks[b].hooks # m /\ \A t \in TypeNames : blocks[b].uses[t] # m
  <2>1. b \notin Protos \cap NamesOf(m)
    <3> SUFFICES ASSUME b \in Protos, NEW i \in DOMAIN Items[m], Items[m][i].name = b
                 PROVE  FALSE
      BY DEF NamesOf
    <3>1. Items[m][i].kind # "type"
      BY ItemFacts, NamesAssumption
    <3>2. blocks[b].hooks = m
      BY <1>2, <1>4, <3>1 DEF LiveInv
    <3> QED
      BY <1>7, <3>2
  <2> QED
    BY <1>7, <2>1 DEF UnloadBegin, MayUnload
<1>8. UnloadInv'
  BY <1>2, <1>7 DEF UnloadInv
<1>9. InstanceInv'
  BY <1>2, <1>7, NamesAssumption DEF InstanceInv, BlockNames
<1> QED
  BY <1>1, <1>3, <1>5, <1>6, <1>8, <1>9

(* A module unregisters what it has registered. *)
LEMMA UnregisterInv ==
  ASSUME careful, UNCHANGED careful, IInv, Unregister
  PROVE  IInv'
<1> USE DEF IInv
<1> DEFINE m == task.mod
           n == Current.name
<1>1. TypeOK'
  BY TypeStep DEF Next, Operation
<1>2. /\ task'.op = task.op /\ task'.mod = m /\ task'.k = task.k + 1
      /\ task.op \in {"unload", "cleanup"} /\ m \in Modules /\ m \in mapped \ loaded
      /\ task.k \in DOMAIN Items[m] /\ task.k \in Nat
      /\ Current = Items[m][task.k]
      /\ UNCHANGED <<loaded, mapped, ret, failed>>
  BY TaskFacts, NextItemFacts DEF Unregister
<1>3. Live(m, task.k)
  BY <1>2 DEF Live
<1>4. \A o \in mapped : \A i \in DOMAIN Items[o] :
        Live(o, i)' <=> Live(o, i) /\ ~ (o = m /\ i = task.k)
  BY <1>2, ItemFacts DEF Live, TypeOK
<1>5. /\ Current.kind = "type" => n \in TypeNames /\ types[n] = m
      /\ Current.kind # "type" => n \in Protos /\ blocks[n] # NULL /\ blocks[n].hooks = m
  BY <1>2, <1>3, ItemFacts DEF LiveInv
<1>6. /\ \A t \in TypeNames : types'[t] = IF t = n THEN NULL ELSE types[t]
      /\ \A b \in BlockNames : blocks'[b] = IF b = n /\ b \in Protos THEN NULL ELSE blocks[b]
      /\ n \in TypeNames \/ n \in Protos
  BY <1>5, NamesAssumption DEF Unregister, TypeOK, BlockNames
<1>7. MappedInv' /\ LoadInv' /\ CreateReturnsLive'
  BY <1>2 DEF MappedInv, LoadInv, CreateReturnsLive
<1>8. OwnedInv'
  <2>1. ASSUME NEW t \in TypeNames, types'[t] # NULL
        PROVE  \E o \in mapped : types'[t] = o /\ \E i \in DOMAIN Items[o] :
                 Items[o][i].name = t /\ Live(o, i)'
    <3>1. t # n /\ types'[t] = types[t] 
      BY <1>6, <2>1 DEF OwnedInv
    <3> QED
      BY <1>2, <1>4, <2>1, <3>1 DEF OwnedInv
  <2>2. ASSUME NEW q \in Protos, blocks'[q] # NULL
        PROVE  \E o \in mapped : blocks'[q].hooks = o /\ \E i \in DOMAIN Items[o] :
                 Items[o][i].name = q /\ Live(o, i)'
    <3>1. q # n /\ blocks'[q] = blocks[q]
      BY <1>6, <2>2 DEF OwnedInv, BlockNames
    <3> QED
      BY <1>2, <1>4, <2>2, <3>1 DEF OwnedInv
  <2> QED
    BY <1>2, <2>1, <2>2 DEF OwnedInv
<1>9. LiveInv'
  <2> SUFFICES ASSUME NEW o \in mapped, NEW i \in DOMAIN Items[o], Live(o, i)'
               PROVE  IF Items[o][i].kind = "type" THEN types'[Items[o][i].name] = o
                      ELSE blocks'[Items[o][i].name] # NULL /\ blocks'[Items[o][i].name].hooks = o
    BY <1>2 DEF LiveInv
  <2>1. o \in Modules /\ Live(o, i) /\ ~ (o = m /\ i = task.k)
    BY <1>4 DEF TypeOK
  <2>2. Items[o][i].name # n
    <3> SUFFICES ASSUME Items[o][i].name = n PROVE FALSE
      OBVIOUS
    <3>1. Items[o][i].kind = Current.kind
      BY <1>2, <2>1, ItemFacts, NamesAssumption
    <3>2. o = m
      BY <1>5, <2>1, <3>1 DEF LiveInv
    <3> QED
      BY <1>2, <2>1, <3>2, ItemFacts
  <2>3. CASE Items[o][i].kind = "type"
    <3>1. Items[o][i].name \in TypeNames
      BY <2>1, <2>3, ItemFacts
    <3> QED
      BY <1>6, <2>1, <2>2, <2>3, <3>1 DEF LiveInv
  <2>4. CASE Items[o][i].kind # "type"
    <3>1. Items[o][i].name \in BlockNames
      BY <2>1, <2>4, ItemFacts DEF BlockNames
    <3> QED
      BY <1>6, <2>1, <2>2, <2>4, <3>1 DEF LiveInv
  <2> QED
    BY <2>3, <2>4
<1>10. \A b \in BlockNames : blocks'[b] # NULL => blocks[b] = blocks'[b]
  BY <1>6
<1>11. UsesInv'
  <2> SUFFICES ASSUME task.op = "unload", NEW b \in BlockNames, blocks'[b] # NULL,
                      NEW t \in TypeNames, blocks'[b].uses[t] # NULL
               PROVE  types'[t] = blocks'[b].uses[t] \/ blocks'[b].uses[t] = m
    BY <1>2 DEF UsesInv
  <2>1. types[t] = blocks[b].uses[t] \/ blocks[b].uses[t] = m
    BY <1>10 DEF UsesInv
  <2>2. t = n => types[t] = m
    BY <1>2, <1>5, <1>6, ItemFacts, NamesAssumption
  <2> QED
    BY <1>6, <1>10, <2>1, <2>2
<1>12. UnloadInv' /\ InstanceInv'
  BY <1>2, <1>10 DEF UnloadInv, InstanceInv, BlockNames
<1> QED
  BY <1>1, <1>7, <1>8, <1>9, <1>11, <1>12

LEMMA UnloadEndInv ==
  ASSUME careful, UNCHANGED careful, IInv, UnloadEnd
  PROVE  IInv'
<1> USE DEF IInv
<1> DEFINE m == task.mod
<1>1. TypeOK'
  BY TypeStep DEF Next, Operation
<1>2. /\ task.op \in {"unload", "cleanup"} /\ m \in Modules /\ m \notin loaded
      /\ task.k \in Nat /\ task.k > Len(Items[m])
      /\ task'.mod = NULL
      /\ task'.op = IF task.op = "unload" THEN "none" ELSE "cleanup"
      /\ mapped' = mapped \ {m} /\ mapped = loaded \cup {m}
      /\ UNCHANGED <<loaded, types, blocks, ret, failed>>
  BY TaskFacts, ItemFacts, NamesAssumption DEF UnloadEnd, MoreItems, Idle, MappedInv
<1>3. \A i \in DOMAIN Items[m] : ~ Live(m, i)
  BY <1>2, ItemFacts DEF Live
<1>4. \A o \in mapped \ {m} : \A i \in DOMAIN Items[o] : Live(o, i) /\ Live(o, i)'
  BY <1>2 DEF Live
<1>5. MappedInv' /\ LoadInv' /\ CreateReturnsLive' /\ UnloadInv'
  BY <1>2 DEF MappedInv, LoadInv, CreateReturnsLive, UnloadInv
<1>6. /\ \A t \in TypeNames : types[t] # m \/ types[t] = NULL
      /\ \A q \in Protos : blocks[q] # NULL => blocks[q].hooks # m
  BY <1>2, <1>3 DEF OwnedInv
<1>7. OwnedInv' /\ LiveInv'
  BY <1>2, <1>4, <1>6 DEF OwnedInv, LiveInv
<1>8. UsesInv'
  BY <1>2, <1>6 DEF UsesInv, UnloadInv
<1>9. InstanceInv'
  BY <1>2 DEF InstanceInv
<1> QED
  BY <1>1, <1>5, <1>7, <1>8, <1>9

LEMMA CleanupInv ==
  ASSUME careful, UNCHANGED careful, IInv,
         CleanupBegin \/ CleanupEnd \/ \E m \in Modules : CleanupUnload(m)
  PROVE  IInv'
<1> USE DEF IInv
<1>1. TypeOK'
  BY TypeStep DEF Next, Operation
<1>2. CASE CleanupBegin
  <2>1. /\ task.op = "none" /\ task.mod = NULL /\ task'.op = "cleanup" /\ task'.mod = NULL
        /\ \A b \in BlockNames : blocks'[b] = IF b \in Instances THEN NULL ELSE blocks[b]
        /\ UNCHANGED <<loaded, mapped, types, failed>> /\ ret' = NULL /\ mapped = loaded
    BY <1>2 DEF CleanupBegin, Idle, MappedInv
  <2>2. \A q \in Protos : blocks'[q] = blocks[q] /\ q \in BlockNames
    BY <2>1, NamesAssumption DEF BlockNames
  <2>3. MappedInv' /\ LoadInv' /\ UsesInv' /\ UnloadInv' /\ CreateReturnsLive'
    BY <2>1, NamesAssumption DEF MappedInv, LoadInv, UsesInv, UnloadInv, CreateReturnsLive
  <2>4. OwnedInv'
    BY <2>1, <2>2 DEF OwnedInv, Live
  <2>5. LiveInv'
    <3> SUFFICES ASSUME NEW o \in mapped, NEW i \in DOMAIN Items[o]
                 PROVE  IF Items[o][i].kind = "type" THEN types[Items[o][i].name] = o
                        ELSE blocks'[Items[o][i].name] # NULL /\ blocks'[Items[o][i].name].hooks = o
      BY <2>1 DEF LiveInv
    <3>1. Items[o][i].kind # "type" => Items[o][i].name \in Protos
      BY ItemFacts DEF TypeOK
    <3> QED
      BY <2>1, <2>2, <3>1 DEF LiveInv, Live
  <2>6. InstanceInv'
    BY <2>1 DEF InstanceInv, BlockNames
  <2> QED
    BY <1>1, <2>3, <2>4, <2>5, <2>6
<1>3. CASE CleanupEnd
  <2>1. /\ task.op = "cleanup" /\ task.mod = NULL /\ task'.op = "done" /\ task'.mod = NULL
        /\ UNCHANGED <<loaded, mapped, types, blocks, ret, failed>> /\ mapped = loaded
    BY <1>3, TaskFacts DEF CleanupEnd, MappedInv
  <2>2. \A o \in mapped : \A i \in DOMAIN Items[o] : Live(o, i) /\ Live(o, i)'
    BY <2>1 DEF Live
  <2>3. MappedInv' /\ LoadInv' /\ UsesInv' /\ UnloadInv' /\ CreateReturnsLive'
    BY <1>3, <2>1 DEF CleanupEnd, MappedInv, LoadInv, UsesInv, UnloadInv, CreateReturnsLive
  <2>4. InstanceInv'
    BY <2>1 DEF InstanceInv
  <2> QED
    BY <1>1, <2>1, <2>2, <2>3, <2>4 DEF OwnedInv, LiveInv
<1>4. ASSUME NEW m \in Modules, CleanupUnload(m)  PROVE IInv'
  <2>1. /\ task.op = "cleanup" /\ task.mod = NULL /\ task'.op = "cleanup" /\ task'.mod = m
        /\ task'.k = 1 /\ m \in loaded /\ loaded' = loaded \ {m} /\ mapped = loaded
        /\ UNCHANGED <<mapped, types, blocks, ret, failed>>
    BY <1>4, TaskFacts DEF CleanupUnload, MappedInv
  <2>2. \A o \in mapped : \A i \in DOMAIN Items[o] : Live(o, i) /\ Live(o, i)'
    BY <2>1, ItemFacts DEF Live, TypeOK
  <2>3. MappedInv'
    BY <2>1, NamesAssumption DEF MappedInv
  <2> QED
    BY <1>1, <2>1, <2>2, <2>3 DEF OwnedInv, LiveInv, LoadInv, UsesInv,
                            UnloadInv, InstanceInv, CreateReturnsLive
<1> QED
  BY <1>2, <1>3, <1>4

LEMMA InvStep ==
  ASSUME careful, IInv, [Next]_vars
  PROVE  IInv'
<1>1. CASE UNCHANGED vars
  BY <1>1 DEF vars, IInv, TypeOK, MappedInv, OwnedInv, LiveInv, Live, LoadInv,
              Registered, UsesInv, UnloadInv, InstanceInv, CreateReturnsLive
<1> QED
  BY <1>1, LoadBeginInv, UnloadBeginInv, CleanupInv, RegisterTypeInv,
     RegisterBlockInv, LoadNeverFails, LoadEndInv, BlockCreateInv, BlockRmInv,
     UnregisterInv, UnloadEndInv
  DEF Next, Operation

-----------------------------------------------------------------------------
(***************************************************************************)
(* The theorems.                                                           *)
(***************************************************************************)

(* The tables and the operation going on have the types the code gives     *)
(* them, in whatever order modules are loaded (ubx_module_load, ...).      *)
THEOREM TypeCorrect == Spec => []TypeOK
<1>1. TypeOK /\ [Next]_vars => TypeOK'
  BY TypeStep
<1> QED
  BY TypeInit, <1>1, PTL DEF Spec

THEOREM Invariant == Spec => [](careful => IInv)
<1>1. (careful => IInv) /\ [Next]_vars => (careful => IInv)'
  <2> SUFFICES ASSUME careful => IInv, [Next]_vars, careful' PROVE IInv'
    OBVIOUS
  <2>1. careful
    BY DEF Next, vars
  <2> QED
    BY <2>1, InvStep
<1> QED
  BY InvInit, <1>1, PTL DEF Spec

(* Nothing registered and no pointer of a block is into a closed library.  *)
THEOREM NothingDangles == Spec => []NoDangling
<1>1. ASSUME careful => IInv PROVE NoDangling
  <2> SUFFICES ASSUME careful, IInv PROVE NoDangling
    BY <1>1 DEF NoDangling
  <2> USE DEF IInv
  <2>1. \A b \in BlockNames : blocks[b] # NULL => blocks[b].hooks \in mapped
    BY DEF OwnedInv, InstanceInv, MappedInv, BlockNames
  <2>2. task.op = "done" => mapped = loaded /\ task.mod = NULL
    BY TaskFacts DEF MappedInv
  <2>3. ASSUME NEW b \in BlockNames, blocks[b] # NULL, NEW t \in TypeNames,
               task.op # "cleanup", blocks[b].uses[t] # NULL
        PROVE  blocks[b].uses[t] \in mapped
    <3>1. CASE task.op = "done"
      BY <2>1, <2>2, <2>3, <3>1 DEF MappedInv
    <3>2. CASE task.op # "done"
      BY <2>3, <3>2, TaskFacts DEF UsesInv, OwnedInv
    <3> QED
      BY <3>1, <3>2
  <2> QED
    BY <2>1, <2>3 DEF NoDangling, OwnedInv
<1> QED
  BY <1>1, Invariant, PTL

(* The types that blocks use are those registered under their names.       *)
THEOREM TypesAreResolved == Spec => [](careful => TypesResolved)
<1>1. IInv => TypesResolved
  BY DEF IInv, UsesInv, TypesResolved, Idle
<1> QED
  BY <1>1, Invariant, PTL

(* ubx_block_create never returns a block that it has freed.               *)
THEOREM CreatedBlocksLive == Spec => [](careful => CreateReturnsLive)
<1>1. IInv => CreateReturnsLive
  BY DEF IInv
<1> QED
  BY <1>1, Invariant, PTL

(* After ubx_node_cleanup the node is empty and all libraries are closed.  *)
THEOREM CleanupLeavesNothing == Spec => []CleanAtEnd
<1>1. ASSUME careful => IInv PROVE CleanAtEnd
  BY <1>1, TaskFacts DEF IInv, CleanAtEnd, MappedInv, OwnedInv, InstanceInv, BlockNames
<1> QED
  BY <1>1, Invariant, PTL

-----------------------------------------------------------------------------
(***************************************************************************)
(* Without care: what is registered is of an open module that has it among *)
(* its items, and is still to be unregistered when that module is being    *)
(* unloaded, or it is of a module whose init failed.                       *)
(***************************************************************************)
ToCome(m, i) == m = task.mod /\ task.op \in {"unload", "cleanup"} => i >= task.k
Owned(m, name) == /\ m \in mapped \cup failed
                  /\ \E i \in DOMAIN Items[m] : Items[m][i].name = name /\ ToCome(m, i)
LeftInv ==
  /\ \A t \in TypeNames : types[t] # NULL => Owned(types[t], t)
  /\ \A p \in Protos : blocks[p] # NULL => Owned(blocks[p].hooks, p)

LEMMA OwnedKept ==
  ASSUME TypeOK, NEW m, NEW name, Owned(m, name), mapped \subseteq mapped' \cup failed',
         failed \subseteq failed',
         \/ task'.op \notin {"unload", "cleanup"} \/ task'.k = 1 \/ task'.mod # m
         \/ task'.op = task.op /\ task'.mod = task.mod /\ task'.k = task.k
  PROVE  Owned(m, name)'
<1>1. PICK i \in DOMAIN Items[m] : Items[m][i].name = name /\ ToCome(m, i)
  BY DEF Owned
<1>2. m \in Modules
  BY DEF Owned, TypeOK
<1>3. i \in Nat /\ i >= 1
  BY <1>1, <1>2, ItemFacts
<1>4. ToCome(m, i)'
  BY <1>1, <1>3 DEF ToCome
<1> QED
  BY <1>1, <1>4 DEF Owned

LEMMA LeftStep ==
  ASSUME TypeOK, LeftInv, [Next]_vars
  PROVE  LeftInv'
<1>0. TypeOK' /\ NULL \notin Modules
  BY TypeStep, NamesAssumption
<1>1. ASSUME UNCHANGED <<types, blocks, failed>>, mapped \subseteq mapped',
             task'.op \notin {"unload", "cleanup"} \/ task'.k = 1
      PROVE  LeftInv'
  BY <1>1, OwnedKept DEF LeftInv
<1>2. CASE UNCHANGED vars
  BY <1>2 DEF vars, LeftInv, Owned, ToCome
<1>3. ASSUME NEW m \in Modules, LoadBegin(m) \/ UnloadBegin(m) \/ CleanupUnload(m)
      PROVE  LeftInv'
  BY <1>1, <1>3, TaskFacts DEF LoadBegin, UnloadBegin, CleanupUnload
<1>4. CASE RegisterType
  <2>0. PICK m \in Modules, n \in TypeNames : m = task.mod /\ n = Current.name
    BY <1>4, TaskFacts, NextItemFacts, ItemFacts DEF RegisterType
  <2>1. /\ task.op = "load" /\ m \in mapped
        /\ task'.op = "load" /\ task'.mod = m
        /\ task.k \in DOMAIN Items[m] /\ Current = Items[m][task.k]
        /\ UNCHANGED <<loaded, mapped, blocks, ret, failed>>
    BY <1>4, <2>0, TaskFacts, NextItemFacts, ItemFacts DEF RegisterType
  <2>2. Owned(m, n)'
    BY <2>0, <2>1 DEF Owned, ToCome
  <2>3. \A t \in TypeNames : types'[t] # NULL =>
          types'[t] = types[t] \/ (t = n /\ types'[t] = m)
    BY <1>4, <2>0 DEF RegisterType, TypeOK
  <2>4. \A o, name : Owned(o, name) => Owned(o, name)'
    BY <2>1, OwnedKept
  <2> QED
    BY <2>1, <2>2, <2>3, <2>4 DEF LeftInv
<1>5. CASE RegisterBlock
  <2>0. PICK m \in Modules, n \in Protos : m = task.mod /\ n = Current.name
    BY <1>5, TaskFacts, NextItemFacts, ItemFacts DEF RegisterBlock
  <2>1. /\ task.op = "load" /\ m \in mapped
        /\ task'.op = "load" /\ task'.mod = m
        /\ task.k \in DOMAIN Items[m] /\ Current = Items[m][task.k]
        /\ UNCHANGED <<loaded, mapped, types, ret, failed>>
    BY <1>5, <2>0, TaskFacts, NextItemFacts, ItemFacts DEF RegisterBlock
  <2>2. Owned(m, n)'
    BY <2>0, <2>1 DEF Owned, ToCome
  <2>3. \A p \in Protos : blocks'[p] # NULL =>
          blocks'[p] = blocks[p] \/ (p = n /\ blocks'[p].hooks = m)
    BY <1>5, <2>0 DEF RegisterBlock, TypeOK, BlockNames
  <2>4. \A o, name : Owned(o, name) => Owned(o, name)'
    BY <2>1, OwnedKept
  <2> QED
    BY <2>1, <2>2, <2>3, <2>4 DEF LeftInv
<1>6. CASE LoadFail
  <2>1. /\ mapped \subseteq mapped' \cup failed' /\ failed \subseteq failed'
        /\ task'.op = "none" /\ UNCHANGED <<types, blocks>>
    BY <1>6 DEF LoadFail, Idle
  <2> QED
    BY <2>1, OwnedKept DEF LeftInv
<1>7. CASE LoadEnd \/ CleanupEnd
  BY <1>1, <1>7, TaskFacts DEF LoadEnd, CleanupEnd, Idle
<1>8. ASSUME NEW n \in Instances, BlockRm(n) \/ \E p \in BlockNames : BlockCreate(p, n)
      PROVE  LeftInv'
  <2>1. UNCHANGED <<loaded, mapped, types, task, failed>>
    BY <1>8 DEF BlockCreate, BlockRm
  <2>2. \A q \in Protos : blocks'[q] = blocks[q]
    BY <1>8, NamesAssumption DEF BlockCreate, BlockRm, TypeOK, BlockNames
  <2> QED
    BY <2>1, <2>2 DEF LeftInv, Owned, ToCome
<1>9. CASE Unregister
  <2> DEFINE m == task.mod
             n == Current.name
  <2>1. /\ task.op \in {"unload", "cleanup"} /\ task'.op = task.op /\ task'.mod = m
        /\ task'.k = task.k + 1 /\ m \in Modules /\ task.k \in Nat
        /\ task.k \in DOMAIN Items[m] /\ Current = Items[m][task.k]
        /\ Current.kind = "type" => n \in TypeNames
        /\ Current.kind # "type" => n \in Protos
        /\ UNCHANGED <<loaded, mapped, ret, failed>>
    BY <1>9, TaskFacts, NextItemFacts, ItemFacts DEF Unregister
  <2>2. ASSUME NEW o, NEW name, Owned(o, name), name # n
        PROVE  Owned(o, name)'
    <3>1. PICK i \in DOMAIN Items[o] : Items[o][i].name = name /\ ToCome(o, i)
      BY <2>2 DEF Owned
    <3>2. o \in Modules
      BY <2>2 DEF Owned, TypeOK
    <3>3. i \in Nat
      BY <3>1, <3>2, ItemFacts
    <3>4. o = m => i # task.k
      BY <2>1, <2>2, <3>1
    <3>5. ToCome(o, i)'
      BY <2>1, <3>1, <3>3, <3>4 DEF ToCome
    <3> QED
      BY <2>1, <2>2, <3>1, <3>5 DEF Owned
  <2>3. \A t \in TypeNames : types'[t] # NULL => types'[t] = types[t] /\ t # n
    <3>1. CASE Current.kind = "type"
      BY <1>9, <2>1, <3>1 DEF Unregister, TypeOK
    <3>2. CASE Current.kind # "type"
      <4>1. types' = types /\ n \notin TypeNames
        BY <1>9, <2>1, <3>2, NamesAssumption DEF Unregister
      <4> QED
        BY <4>1
    <3> QED
      BY <3>1, <3>2
  <2>4. \A p \in Protos : blocks'[p] # NULL => blocks'[p] = blocks[p] /\ p # n
    <3>1. CASE Current.kind = "type"
      <4>1. blocks' = blocks /\ n \notin Protos
        BY <1>9, <2>1, <3>1, NamesAssumption DEF Unregister
      <4> QED
        BY <4>1
    <3>2. CASE Current.kind # "type"
      BY <1>9, <2>1, <3>2 DEF Unregister, TypeOK, BlockNames
    <3> QED
      BY <3>1, <3>2
  <2> HIDE DEF m, n
  <2> QED
    BY <2>2, <2>3, <2>4 DEF LeftInv
<1>10. CASE UnloadEnd
  <2>1. /\ task.op \in {"unload", "cleanup"} /\ task.mod \in Modules
        /\ mapped' = mapped \ {task.mod} /\ UNCHANGED <<types, blocks, failed>>
        /\ task.k > Len(Items[task.mod]) /\ task.k \in Nat
        /\ task'.op \notin {"unload", "cleanup"} \/ task'.k = 1
    BY <1>10, TaskFacts, ItemFacts DEF UnloadEnd, MoreItems, Idle
  <2>2. ASSUME NEW o, NEW name, Owned(o, name)
        PROVE  Owned(o, name)'
    <3>1. PICK i \in DOMAIN Items[o] : Items[o][i].name = name /\ ToCome(o, i)
      BY <2>2 DEF Owned
    <3>2. o \in Modules
      BY <2>2 DEF Owned, TypeOK
    <3>3. i \in Nat /\ i >= 1 /\ i <= Len(Items[o]) /\ Len(Items[o]) \in Nat
      BY <3>1, <3>2, ItemFacts
    <3>4. o # task.mod
      BY <2>1, <3>1, <3>3 DEF ToCome
    <3>5. ToCome(o, i)'
      BY <2>1, <3>3 DEF ToCome
    <3> QED
      BY <2>1, <2>2, <3>1, <3>4, <3>5 DEF Owned
  <2> QED
    BY <2>1, <2>2 DEF LeftInv
<1>11. CASE CleanupBegin
  <2>1. /\ UNCHANGED <<loaded, mapped, types, failed>> /\ task'.k = 1
        /\ \A p \in Protos : blocks'[p] = blocks[p]
    BY <1>11, NamesAssumption DEF CleanupBegin, BlockNames
  <2> QED
    BY <2>1, OwnedKept DEF LeftInv
<1>12. Operation \/ UNCHANGED vars
  BY DEF Next
<1> QED
  BY <1>2, <1>3, <1>4, <1>5, <1>6, <1>7, <1>8, <1>9, <1>10, <1>11, <1>12 DEF Operation

(* What is registered dangles only after a failed init (ubx_module_load,   *)
(* ubx_module_unload), in whatever order modules come and go.              *)
LEMMA RegistriesSafe == Spec => [](TypeOK /\ DanglingOnlyAfterFailure)
<1>1. Init => LeftInv
  BY DEF Init, LeftInv, BlockNames
<1>2. LeftInv => DanglingOnlyAfterFailure
  BY DEF LeftInv, Owned, DanglingOnlyAfterFailure
<1> QED
  BY TypeInit, TypeStep, <1>1, LeftStep, <1>2, PTL DEF Spec

-----------------------------------------------------------------------------
(***************************************************************************)
(* Arrays: searching, moving the last element, counting.                   *)
(***************************************************************************)

LEMMA LeastNumber ==
  ASSUME NEW S \in SUBSET Nat, S # {}
  PROVE  \E m \in S : \A n \in S : m <= n
<1>1. IsWellFoundedOn({z \in Nat \X Nat : z[1] < z[2]}, Nat)
  BY NatLessThanWellFounded DEF OpToRel
<1>2. PICK m \in S : \A n \in S : ~(<<n, m>> \in {z \in Nat \X Nat : z[1] < z[2]})
  BY <1>1, WFMin
<1>3. ASSUME NEW n \in S PROVE m <= n
  <2>1. m \in Nat /\ n \in Nat
    OBVIOUS
  <2>2. ~(n < m)
    BY <1>2, <2>1
  <2> QED BY <2>1, <2>2
<1> QED BY <1>3

LEMMA GreatestNumber ==
  ASSUME NEW n \in Nat, NEW S \in SUBSET (1 .. n), S # {}
  PROVE  \E m \in S : \A k \in S : k <= m
<1> DEFINE D == {k \in 0 .. n : n - k \in S}
<1>1. D \in SUBSET Nat /\ D # {}
  <2>1. PICK k \in S : TRUE
    OBVIOUS
  <2>2. n - k \in 0 .. n /\ n - (n - k) = k
    BY <2>1
  <2>3. n - k \in D
    BY <2>1, <2>2
  <2>4. \A d \in D : d \in Nat
    OBVIOUS
  <2> HIDE DEF D
  <2> QED BY <2>3, <2>4
<1>2. PICK d \in D : \A k \in D : d <= k
  BY <1>1, LeastNumber
<1>3. ASSUME NEW k \in S PROVE k <= n - d
  <2>1. n - k \in 0 .. n /\ n - (n - k) = k /\ k \in Nat
    OBVIOUS
  <2>2. n - k \in D
    BY <2>1
  <2>3. d \in Nat /\ d <= n - k
    BY <1>1, <1>2, <2>2
  <2> HIDE DEF D
  <2> QED BY <2>1, <2>3
<1> QED BY <1>2, <1>3

LEMMA LookupFacts ==
  ASSUME NEW S, NEW arr \in Seq(S), NEW name, NamedIn(arr, name)
  PROVE  /\ Lookup(arr, name) \in DOMAIN arr
         /\ arr[Lookup(arr, name)].name = name
<1> DEFINE D == {i \in DOMAIN arr : arr[i].name = name}
<1>1. D \in SUBSET Nat /\ D # {}
  BY DEF NamedIn
<1>2. PICK i \in D : \A j \in D : i <= j
  BY <1>1, LeastNumber
<1>3. i \in DOMAIN arr /\ arr[i].name = name /\ \A j \in 1 .. i - 1 : ~ (arr[j].name = name)
  <2>1. ASSUME NEW j \in 1 .. i - 1, arr[j].name = name PROVE FALSE
    <3>1. j \in D /\ i \in Nat /\ j \in Nat /\ ~ (i <= j)
      BY <2>1
    <3> QED BY <1>2, <3>1
  <2> QED BY <2>1
<1> QED BY <1>3 DEF Lookup, FirstMatch

LEMMA LastMatchFacts ==
  ASSUME NEW S, NEW arr \in Seq(S), arr # NULL, NEW ib, Connected(arr, ib)
  PROVE  /\ LastMatch(arr, ib) \in DOMAIN arr /\ arr[LastMatch(arr, ib)] = ib
         /\ \A j \in DOMAIN arr : arr[j] = ib => j <= LastMatch(arr, ib)
<1> DEFINE D == {i \in DOMAIN arr : arr[i] = ib}
<1>1. D \in SUBSET (1 .. Len(arr)) /\ D # {} /\ Len(arr) \in Nat
  BY DEF Connected
<1>2. PICK i \in D : \A j \in D : j <= i
  BY <1>1, GreatestNumber
<1>3. i \in DOMAIN arr /\ arr[i] = ib /\ \A j \in DOMAIN arr : arr[j] = ib => j <= i
  BY <1>2
<1> QED BY <1>3 DEF LastMatch

LEMMA MovedLast ==
  ASSUME NEW S, NEW arr \in Seq(S), NEW i \in DOMAIN arr
  PROVE  LET new == MoveLastInto(arr, i)
         IN  /\ new \in Seq(S) /\ Len(new) = Len(arr) - 1 /\ Len(arr) \in Nat \ {0}
             /\ \A j \in DOMAIN new :
                  j \in DOMAIN arr /\ new[j] = arr[IF j = i THEN Len(arr) ELSE j]
<1> DEFINE new == MoveLastInto(arr, i)
<1>1. Len(arr) \in Nat /\ DOMAIN arr = 1 .. Len(arr) /\ i \in 1 .. Len(arr)
      /\ \A j \in 1 .. Len(arr) : arr[j] \in S
  OBVIOUS
<1>2. \A j \in 1 .. Len(arr) - 1 : (IF j = i THEN arr[Len(arr)] ELSE arr[j]) \in S
  BY <1>1
<1>3. new = [j \in 1 .. Len(arr) - 1 |-> IF j = i THEN arr[Len(arr)] ELSE arr[j]]
  BY DEF MoveLastInto
<1>4. new \in [1 .. Len(arr) - 1 -> S]
  BY <1>2, <1>3
<1>5. Len(arr) - 1 \in Nat
  BY <1>1
<1>6. new \in Seq(S) /\ Len(new) = Len(arr) - 1 /\ DOMAIN new = 1 .. Len(arr) - 1
  BY <1>4, <1>5
<1>7. \A j \in 1 .. Len(arr) - 1 : new[j] = IF j = i THEN arr[Len(arr)] ELSE arr[j]
  BY <1>3
<1> HIDE DEF new
<1>8. \A j \in DOMAIN new : j \in DOMAIN arr /\ new[j] = arr[IF j = i THEN Len(arr) ELSE j]
  BY <1>1, <1>6, <1>7
<1> QED BY <1>1, <1>6, <1>8 DEF new

(* How often an array has an interaction. *)
LEMMA OccurrencesType ==
  ASSUME NEW S, NEW arr \in Seq(S), arr # NULL, NEW ib
  PROVE  /\ IsFiniteSet({k \in DOMAIN arr : arr[k] = ib})
         /\ Occurrences(arr, ib) \in Nat
         /\ Occurrences(arr, ib) > 0 <=> Connected(arr, ib)
         /\ Occurrences(arr, ib) = Cardinality({k \in DOMAIN arr : arr[k] = ib})
<1> DEFINE D == {k \in DOMAIN arr : arr[k] = ib}
<1>1. D \in SUBSET (1 .. Len(arr)) /\ Len(arr) \in Nat
  OBVIOUS
<1>2. IsFiniteSet(1 .. Len(arr))
  BY <1>1, FS_Interval
<1>3. IsFiniteSet(D)
  BY <1>1, <1>2, FS_Subset
<1>4. Cardinality(D) \in Nat /\ (Cardinality(D) = 0 <=> D = {})
  BY <1>3, FS_CardinalityType, FS_EmptySet
<1>5. Occurrences(arr, ib) = Cardinality(D)
  BY DEF Occurrences
<1>6. Connected(arr, ib) <=> D # {}
  BY DEF Connected
<1> HIDE DEF D
<1>7. Cardinality(D) > 0 <=> D # {}
  BY <1>4
<1>8. /\ IsFiniteSet(D) /\ Occurrences(arr, ib) \in Nat
      /\ Occurrences(arr, ib) > 0 <=> Connected(arr, ib)
      /\ Occurrences(arr, ib) = Cardinality(D)
  BY <1>3, <1>4, <1>5, <1>6, <1>7
<1> QED BY <1>8 DEF D

LEMMA OccurrencesAdd ==
  ASSUME NEW S, NEW arr \in {NULL} \cup Seq(S), NULL \notin Seq(S), NEW ib \in S, NEW jb
  PROVE  Occurrences(ArrayBlockAdd(arr, ib), jb) =
           Occurrences(arr, jb) + IF jb = ib THEN 1 ELSE 0
<1> DEFINE new == ArrayBlockAdd(arr, ib)
           E   == {k \in DOMAIN new : new[k] = jb}
<1>1. CASE arr = NULL
  <2>1. new = <<ib>> /\ new # NULL
    <3>1. <<ib>> \in Seq(S)
      OBVIOUS
    <3> QED BY <1>1, <3>1 DEF ArrayBlockAdd
  <2>2. E = IF jb = ib THEN {1} ELSE {}
    BY <2>1
  <2>3. Cardinality({1}) = 1 /\ Cardinality({}) = 0
    BY FS_Singleton, FS_EmptySet
  <2>4. Occurrences(new, jb) = Cardinality(E) /\ Occurrences(arr, jb) = 0
    BY <1>1, <2>1 DEF Occurrences
  <2>5. Cardinality(E) = IF jb = ib THEN 1 ELSE 0
    BY <2>2, <2>3
  <2> HIDE DEF E, new
  <2>6. Occurrences(new, jb) = Occurrences(arr, jb) + IF jb = ib THEN 1 ELSE 0
    BY <2>4, <2>5
  <2> QED BY <2>6 DEF new
<1>2. CASE arr # NULL
  <2> DEFINE D == {k \in DOMAIN arr : arr[k] = jb}
             n == Len(arr) + 1
  <2>1. arr \in Seq(S) /\ new = Append(arr, ib) /\ new \in Seq(S) /\ new # NULL
    BY <1>2 DEF ArrayBlockAdd
  <2>2. DOMAIN new = 1 .. n /\ DOMAIN arr = 1 .. Len(arr) /\ Len(arr) \in Nat
        /\ (\A k \in 1 .. Len(arr) : new[k] = arr[k]) /\ new[n] = ib
    BY <2>1
  <2>3. E = IF jb = ib THEN D \cup {n} ELSE D
    <3> HIDE DEF new
    <3> QED BY <2>2
  <2>4. n \notin D
    BY <2>2
  <2>5. IsFiniteSet(D) /\ Occurrences(arr, jb) = Cardinality(D) /\ Occurrences(arr, jb) \in Nat
    BY <1>2, <2>1, OccurrencesType
  <2>6. Cardinality(D \cup {n}) = Cardinality(D) + 1
    BY <2>4, <2>5, FS_AddElement
  <2>7. Occurrences(new, jb) = Cardinality(E)
    BY <2>1 DEF Occurrences
  <2> HIDE DEF D, E, new, n
  <2>8. Occurrences(new, jb) = Occurrences(arr, jb) + IF jb = ib THEN 1 ELSE 0
    BY <2>3, <2>5, <2>6, <2>7
  <2> QED BY <2>8 DEF new
<1> QED BY <1>1, <1>2

LEMMA OccurrencesRm ==
  ASSUME NEW S, NEW arr \in Seq(S), NULL \notin Seq(S), NEW ib \in S, NEW jb \in S
  PROVE  Occurrences(ArrayBlockRm(arr, ib), jb) =
           Occurrences(arr, jb) - IF jb = ib /\ Connected(arr, ib) THEN 1 ELSE 0
<1>1. CASE ~ Connected(arr, ib)
  <2>1. Occurrences(arr, jb) \in Nat
    BY OccurrencesType
  <2> QED BY <1>1, <2>1 DEF ArrayBlockRm
<1>2. CASE Connected(arr, ib)
  <2> DEFINE m   == LastMatch(arr, ib)
             n   == Len(arr)
             new == MoveLastInto(arr, m)
             D   == {k \in DOMAIN arr : arr[k] = jb}
             E   == {k \in DOMAIN new : new[k] = jb}
  <2>1. ArrayBlockRm(arr, ib) = new /\ arr # NULL
    BY <1>2 DEF ArrayBlockRm
  <2>2. m \in DOMAIN arr /\ arr[m] = ib /\ \A j \in DOMAIN arr : arr[j] = ib => j <= m
    BY <1>2, <2>1, LastMatchFacts
  <2>3. new \in Seq(S) /\ Len(new) = n - 1 /\ n \in Nat \ {0}
        /\ \A j \in DOMAIN new : j \in DOMAIN arr /\ new[j] = arr[IF j = m THEN n ELSE j]
    BY <2>2, MovedLast
  <2>4. DOMAIN new = 1 .. n - 1 /\ DOMAIN arr = 1 .. n
    BY <2>3
  <2>5. IsFiniteSet(D) /\ Occurrences(arr, jb) = Cardinality(D) /\ Occurrences(arr, jb) \in Nat
    BY <2>1, OccurrencesType
  <2>6. Occurrences(new, jb) = Cardinality(E)
    BY <2>3 DEF Occurrences
  <2> HIDE DEF m, new
  <2>7. CASE jb = ib
    <3>1. m \in D
      BY <2>2, <2>7
    <3>2. E = D \ {m}
      <4>1. ASSUME NEW k \in E PROVE k \in D \ {m}
        <5>1. k \in 1 .. n - 1 /\ new[k] = jb /\ new[k] = arr[IF k = m THEN n ELSE k]
          BY <2>3, <2>4
        <5>2. k # m
          <6>1. ASSUME k = m PROVE FALSE
            <7>1. arr[n] = ib /\ n \in DOMAIN arr
              BY <2>3, <2>4, <2>7, <5>1, <6>1
            <7> QED BY <2>2, <2>3, <5>1, <6>1, <7>1
          <6> QED BY <6>1
        <5> QED BY <2>4, <5>1, <5>2
      <4>2. ASSUME NEW k \in D, k # m PROVE k \in E
        <5>1. k \in 1 .. n /\ arr[k] = ib /\ k <= m /\ m <= n
          BY <2>2, <2>4, <2>7, <4>2
        <5>2. k \in 1 .. n - 1
          BY <2>3, <2>2, <2>4, <4>2, <5>1
        <5> QED BY <2>3, <2>4, <4>2, <5>2
      <4> QED BY <4>1, <4>2
    <3>3. Cardinality(E) = Cardinality(D) - 1
      BY <2>5, <3>1, <3>2, FS_RemoveElement
    <3> HIDE DEF D, E
    <3> QED BY <1>2, <2>1, <2>5, <2>6, <2>7, <3>3
  <2>8. CASE jb # ib
    <3>1. m \notin D
      BY <2>2, <2>8
    <3>2. CASE n \in D
      <4>1. m # n /\ m \in 1 .. n - 1
        BY <2>2, <2>3, <2>4, <3>1, <3>2
      <4>2. E = (D \ {n}) \cup {m}
        <5>1. ASSUME NEW k \in E PROVE k \in (D \ {n}) \cup {m}
          BY <2>3, <2>4
        <5>2. ASSUME NEW k \in D, k # n PROVE k \in E
          BY <2>3, <2>4, <3>1, <5>2
        <5>3. m \in E
          BY <2>3, <2>4, <3>2, <4>1
        <5> QED BY <5>1, <5>2, <5>3
      <4>3. IsFiniteSet(D \ {n}) /\ Cardinality(D \ {n}) = Cardinality(D) - 1
        BY <2>5, <3>2, FS_RemoveElement
      <4>4. m \notin D \ {n}
        BY <3>1
      <4>5. Cardinality((D \ {n}) \cup {m}) = Cardinality(D \ {n}) + 1
        BY <4>3, <4>4, FS_AddElement
      <4> HIDE DEF D, E
      <4> QED BY <2>1, <2>5, <2>6, <2>8, <4>2, <4>3, <4>5
    <3>3. CASE n \notin D
      <4>1. E = D
        <5>1. ASSUME NEW k \in E PROVE k \in D
          <6>1. k \in 1 .. n - 1 /\ new[k] = jb /\ new[k] = arr[IF k = m THEN n ELSE k]
            BY <2>3, <2>4
          <6>2. n \in DOMAIN arr
            BY <2>3, <2>4
          <6>3. k # m
            BY <3>3, <6>1, <6>2
          <6> QED BY <2>4, <6>1, <6>3
        <5>2. ASSUME NEW k \in D PROVE k \in E
          <6>1. k \in 1 .. n /\ k # n /\ k # m
            BY <2>4, <3>1, <3>3
          <6>2. k \in 1 .. n - 1
            BY <2>3, <6>1
          <6> QED BY <2>3, <2>4, <6>1, <6>2
        <5> QED BY <5>1, <5>2
      <4> HIDE DEF D, E
      <4> QED BY <2>1, <2>5, <2>6, <2>8, <4>1
    <3> QED BY <3>2, <3>3
  <2> QED BY <2>7, <2>8
<1> QED BY <1>1, <1>2

LEMMA AddedArray ==
  ASSUME NEW arr \in Arrays, NEW i \in IBlocks, RoomFor(arr)
  PROVE  ArrayBlockAdd(arr, i) \in Arrays /\ ArrayBlockAdd(arr, i) # NULL
<1>1. CASE arr = NULL
  <2>1. <<i>> \in Seq(IBlocks) /\ Len(<<i>>) = 1
    OBVIOUS
  <2>2. MaxConns \in Nat \ {0}
    BY PortBoundsAssumption
  <2>3. 1 <= MaxConns
    BY <2>2
  <2> QED BY <1>1, <2>1, <2>3, PortNullAssumption DEF ArrayBlockAdd, Arrays
<1>2. CASE arr # NULL
  <2>1. arr \in Seq(IBlocks) /\ Len(arr) < MaxConns /\ Len(arr) \in Nat
    BY <1>2 DEF Arrays, RoomFor
  <2>2. Append(arr, i) \in Seq(IBlocks) /\ Len(Append(arr, i)) = Len(arr) + 1
    BY <2>1
  <2>3. MaxConns \in Nat
    BY PortBoundsAssumption
  <2>4. Len(arr) + 1 <= MaxConns
    BY <2>1, <2>3
  <2> QED BY <1>2, <2>2, <2>4, PortNullAssumption DEF ArrayBlockAdd, Arrays
<1> QED BY <1>1, <1>2

LEMMA RemovedArray ==
  ASSUME NEW arr \in Arrays, NEW i
  PROVE  ArrayBlockRm(arr, i) \in Arrays
<1>1. CASE ~ Connected(arr, i)
  BY <1>1 DEF ArrayBlockRm
<1>2. CASE Connected(arr, i)
  <2>1. arr # NULL /\ arr \in Seq(IBlocks) /\ Len(arr) <= MaxConns /\ Len(arr) \in Nat
    BY <1>2 DEF Connected, Arrays
  <2>2. LastMatch(arr, i) \in DOMAIN arr
    BY <1>2, <2>1, LastMatchFacts
  <2> DEFINE new == MoveLastInto(arr, LastMatch(arr, i))
  <2>3. new \in Seq(IBlocks) /\ Len(new) = Len(arr) - 1
    BY <2>1, <2>2, MovedLast
  <2>4. ArrayBlockRm(arr, i) = new
    BY <1>2 DEF ArrayBlockRm
  <2> HIDE DEF new
  <2>5. MaxConns \in Nat
    BY PortBoundsAssumption
  <2>6. Len(new) <= MaxConns
    BY <2>1, <2>3, <2>5
  <2> QED BY <2>3, <2>4, <2>6 DEF Arrays
<1> QED BY <1>1, <1>2

(* The ports of the block and of Lua: distinct structures. *)
PortShape ==
  /\ ports \in Seq(PortSet) /\ Len(ports) <= MaxPorts /\ pccs \subseteq PortSet
  /\ \A j, k \in DOMAIN ports : ports[j].uid = ports[k].uid => j = k
  /\ \A p, q \in pccs : p.uid = q.uid => p = q
  /\ \A p \in pccs : \A k \in DOMAIN ports : ports[k].uid # p.uid

LEMMA PortFacts ==
  ASSUME PortShape
  PROVE  /\ AllPorts \subseteq PortSet
         /\ \A p, q \in AllPorts : p.uid = q.uid => p = q
         /\ \A u \in Uids : Port(u) \in AllPorts /\ Port(u).uid = u
         /\ \A p \in AllPorts : p.uid \in Uids /\ Port(p.uid) = p
         /\ Uids \subseteq PortIds
         /\ DOMAIN ports = 1 .. Len(ports) /\ Len(ports) \in Nat
         /\ \A k \in DOMAIN ports : ports[k] \in AllPorts
<1>1. DOMAIN ports = 1 .. Len(ports) /\ Len(ports) \in Nat
      /\ \A k \in DOMAIN ports : ports[k] \in PortSet
  BY DEF PortShape
<1>2. AllPorts \subseteq PortSet /\ \A k \in DOMAIN ports : ports[k] \in AllPorts
  BY <1>1 DEF AllPorts, Elems, PortShape
<1>3. \A p, q \in AllPorts : p.uid = q.uid => p = q
  BY DEF AllPorts, Elems, PortShape
<1>4. ASSUME NEW u \in Uids PROVE Port(u) \in AllPorts /\ Port(u).uid = u
  BY DEF Uids, Port
<1>5. ASSUME NEW p \in AllPorts PROVE p.uid \in Uids /\ Port(p.uid) = p
  <2>1. p.uid \in Uids
    BY DEF Uids
  <2> QED BY <1>3, <1>4, <2>1
<1>6. Uids \subseteq PortIds
  BY <1>2 DEF Uids, PortSet
<1> QED BY <1>1, <1>2, <1>3, <1>4, <1>5, <1>6

(* An operation that changes the arrays of ports only. *)
LEMMA Updated ==
  ASSUME PortShape, NEW G,
         \A p \in AllPorts : G[p] \in PortSet /\ G[p].uid = p.uid /\ G[p].name = p.name,
         ports' = [k \in DOMAIN ports |-> G[ports[k]]], pccs' = {G[p] : p \in pccs}
  PROVE  /\ PortShape'
         /\ DOMAIN ports' = DOMAIN ports
         /\ \A k \in DOMAIN ports : ports'[k].name = ports[k].name
         /\ AllPorts' = {G[p] : p \in AllPorts}
<1>1. /\ DOMAIN ports = 1 .. Len(ports) /\ Len(ports) \in Nat
      /\ \A k \in DOMAIN ports : ports[k] \in AllPorts
  BY PortFacts
<1>2. pccs \subseteq AllPorts
  BY DEF AllPorts
<1>3. \A k \in DOMAIN ports : ports'[k] = G[ports[k]] /\ G[ports[k]] \in PortSet
  BY <1>1
<1>4. ports' \in [1 .. Len(ports) -> PortSet]
  BY <1>1, <1>3
<1>5. ports' \in Seq(PortSet) /\ Len(ports') = Len(ports) /\ DOMAIN ports' = DOMAIN ports
  BY <1>1, <1>4
<1>6. \A k \in DOMAIN ports : ports'[k].name = ports[k].name /\ ports'[k].uid = ports[k].uid
  BY <1>1, <1>3
<1>7. pccs' \subseteq PortSet
  BY <1>2
<1>8. PortShape'
  <2>1. \A j, k \in DOMAIN ports' : ports'[j].uid = ports'[k].uid => j = k
    BY <1>5, <1>6 DEF PortShape
  <2>2. \A p, q \in pccs' : p.uid = q.uid => p = q
    BY <1>2 DEF PortShape
  <2>3. \A p \in pccs' : \A k \in DOMAIN ports' : ports'[k].uid # p.uid
    BY <1>2, <1>5, <1>6 DEF PortShape
  <2> QED BY <1>5, <1>7, <2>1, <2>2, <2>3 DEF PortShape
<1>9. AllPorts' = {G[p] : p \in AllPorts}
  <2>1. AllPorts' = {ports'[k] : k \in DOMAIN ports'} \cup pccs'
    BY DEF AllPorts, Elems
  <2>2. AllPorts = {ports[k] : k \in DOMAIN ports} \cup pccs
    BY DEF AllPorts, Elems
  <2> QED BY <1>3, <1>5, <2>1, <2>2
<1> QED BY <1>5, <1>6, <1>8, <1>9

(* The ports when both ends are connected, and when they are disconnected. *)
Connecting(o, q, i) == [p \in AllPorts |->
  [p EXCEPT
     !.out_interaction = IF p.uid = o THEN ArrayBlockAdd(@, i) ELSE @,
     !.in_interaction  = IF p.uid = q /\ "in" \in p.dir THEN ArrayBlockAdd(@, i) ELSE @]]
Disconnecting(o, q, i) == [p \in AllPorts |->
  [p EXCEPT
     !.out_interaction = IF p.uid = o THEN ArrayBlockRm(@, i) ELSE @,
     !.in_interaction  = IF p.uid = q /\ "in" \in p.dir THEN ArrayBlockRm(@, i) ELSE @]]

LEMMA ConnectingKeeps ==
  ASSUME PortShape, NEW o \in Uids, NEW q \in Uids, NEW i \in IBlocks,
         RoomFor(Port(o).out_interaction), RoomFor(Port(q).in_interaction),
         ConnectEnds(o, q, i)
  PROVE  /\ PortShape' /\ DOMAIN ports' = DOMAIN ports
         /\ \A k \in DOMAIN ports : ports'[k].name = ports[k].name
         /\ AllPorts' = {Connecting(o, q, i)[p] : p \in AllPorts}
<1>1. PICK G : G = Connecting(o, q, i)
  OBVIOUS
<1>2. /\ AllPorts \subseteq PortSet
      /\ \A p \in AllPorts : p.uid = o => p = Port(o)
      /\ \A p \in AllPorts : p.uid = q => p = Port(q)
  BY PortFacts
<1>3. ASSUME NEW p \in AllPorts
      PROVE  G[p] \in PortSet /\ G[p].uid = p.uid /\ G[p].name = p.name
  <2>1. PICK a : a = IF p.uid = o THEN ArrayBlockAdd(p.out_interaction, i)
                     ELSE p.out_interaction
    OBVIOUS
  <2>2. PICK b : b = IF p.uid = q /\ "in" \in p.dir THEN ArrayBlockAdd(p.in_interaction, i)
                     ELSE p.in_interaction
    OBVIOUS
  <2>3. p \in PortSet /\ p.out_interaction \in Arrays /\ p.in_interaction \in Arrays
    BY <1>2 DEF PortSet
  <2>4. a \in Arrays
    BY <1>2, <2>1, <2>3, AddedArray
  <2>5. b \in Arrays
    BY <1>2, <2>2, <2>3, AddedArray
  <2>6. G[p] = [p EXCEPT !.out_interaction = a, !.in_interaction = b]
    BY <1>1, <2>1, <2>2 DEF Connecting
  <2> QED BY <2>3, <2>4, <2>5, <2>6 DEF PortSet
<1>4. /\ \A k \in DOMAIN ports : ports[k] \in AllPorts
      /\ pccs \subseteq AllPorts
  BY PortFacts DEF AllPorts
<1>5. ports' = [k \in DOMAIN ports |-> G[ports[k]]] /\ pccs' = {G[p] : p \in pccs}
  BY <1>1, <1>4 DEF ConnectEnds, UpdatePorts, Connecting
<1>6. /\ PortShape' /\ DOMAIN ports' = DOMAIN ports
      /\ \A k \in DOMAIN ports : ports'[k].name = ports[k].name
      /\ AllPorts' = {G[p] : p \in AllPorts}
  BY <1>3, <1>5, Updated
<1> QED BY <1>1, <1>6

LEMMA DisconnectingKeeps ==
  ASSUME PortShape, NEW o \in Uids, NEW q \in Uids, NEW i \in IBlocks,
         PortsDisconnectUni(o, q, i)
  PROVE  /\ PortShape' /\ DOMAIN ports' = DOMAIN ports
         /\ \A k \in DOMAIN ports : ports'[k].name = ports[k].name
         /\ AllPorts' = {Disconnecting(o, q, i)[p] : p \in AllPorts}
<1>1. PICK G : G = Disconnecting(o, q, i)
  OBVIOUS
<1>2. AllPorts \subseteq PortSet
  BY PortFacts
<1>3. ASSUME NEW p \in AllPorts
      PROVE  G[p] \in PortSet /\ G[p].uid = p.uid /\ G[p].name = p.name
  <2>1. PICK a : a = IF p.uid = o THEN ArrayBlockRm(p.out_interaction, i)
                     ELSE p.out_interaction
    OBVIOUS
  <2>2. PICK b : b = IF p.uid = q /\ "in" \in p.dir THEN ArrayBlockRm(p.in_interaction, i)
                     ELSE p.in_interaction
    OBVIOUS
  <2>3. p \in PortSet /\ p.out_interaction \in Arrays /\ p.in_interaction \in Arrays
    BY <1>2 DEF PortSet
  <2>4. a \in Arrays /\ b \in Arrays
    BY <2>1, <2>2, <2>3, RemovedArray
  <2>5. G[p] = [p EXCEPT !.out_interaction = a, !.in_interaction = b]
    BY <1>1, <2>1, <2>2 DEF Disconnecting
  <2> QED BY <2>3, <2>4, <2>5 DEF PortSet
<1>4. /\ \A k \in DOMAIN ports : ports[k] \in AllPorts
      /\ pccs \subseteq AllPorts
  BY PortFacts DEF AllPorts
<1>5. ports' = [k \in DOMAIN ports |-> G[ports[k]]] /\ pccs' = {G[p] : p \in pccs}
  BY <1>1, <1>4 DEF PortsDisconnectUni, UpdatePorts, Disconnecting
<1>6. /\ PortShape' /\ DOMAIN ports' = DOMAIN ports
      /\ \A k \in DOMAIN ports : ports'[k].name = ports[k].name
      /\ AllPorts' = {G[p] : p \in AllPorts}
  BY <1>3, <1>5, Updated
<1> QED BY <1>1, <1>6

LEMMA ClonedPortType ==
  ASSUME NEW u \in PortIds, NEW n \in Names, NEW d \in SUBSET {"in", "out"}
  PROVE  /\ ClonedPort(u, n, d) \in PortSet
         /\ ClonedPort(u, n, d).uid = u
<1>1. NULL \in Arrays
  BY DEF Arrays
<1> QED BY <1>1 DEF ClonedPort, PortSet

LEMMA AddingKeeps ==
  ASSUME PortShape, NEW u \in PortIds, NEW n \in Names, NEW d \in Dirs, PortAdd(u, n, d)
  PROVE  /\ PortShape' /\ \A p \in AllPorts : p.uid # u
         /\ AllPorts' = AllPorts \cup {ClonedPort(u, n, d)}
<1>1. PICK c : c = ClonedPort(u, n, d)
  OBVIOUS
<1>2. c \in PortSet /\ c.uid = u
  BY <1>1, ClonedPortType, PortBoundsAssumption
<1>3. ports' = Append(ports, c) /\ pccs' = pccs /\ u \notin Uids /\ Len(ports) < MaxPorts
  BY <1>1 DEF PortAdd
<1>4. /\ DOMAIN ports = 1 .. Len(ports) /\ Len(ports) \in Nat
      /\ \A k \in DOMAIN ports : ports[k] \in AllPorts
      /\ \A p \in AllPorts : p.uid \in Uids
  BY PortFacts
<1>5. \A p \in AllPorts : p.uid # u
  BY <1>3, <1>4
<1>6. PICK m : m = Len(ports)
  OBVIOUS
<1>7. ports \in Seq(PortSet)
  BY DEF PortShape
<1>8. /\ ports' \in Seq(PortSet) /\ Len(ports') = m + 1 /\ DOMAIN ports' = 1 .. m + 1
      /\ m \in Nat
      /\ \A k \in 1 .. m : ports'[k] = ports[k]
      /\ ports'[m + 1] = c
  BY <1>2, <1>3, <1>4, <1>6, <1>7
<1>9. Len(ports') <= MaxPorts
  <2>1. MaxPorts \in Nat
    BY PortBoundsAssumption
  <2> QED BY <1>3, <1>6, <1>8, <2>1
<1>10. \A k \in 1 .. m + 1 : k \in 1 .. m \/ k = m + 1
  BY <1>8
<1>11. PortShape'
  <2>1. pccs \subseteq AllPorts
    BY DEF AllPorts
  <2>2. \A k \in 1 .. m : ports[k].uid # u
    BY <1>4, <1>5, <1>6
  <2>3. \A j, k \in DOMAIN ports' : ports'[j].uid = ports'[k].uid => j = k
    <3>1. SUFFICES ASSUME NEW j \in DOMAIN ports', NEW k \in DOMAIN ports',
                          ports'[j].uid = ports'[k].uid
                   PROVE  j = k
      OBVIOUS
    <3>2. CASE j \in 1 .. m /\ k \in 1 .. m
      BY <1>4, <1>6, <1>8, <3>1, <3>2 DEF PortShape
    <3>3. CASE j = m + 1 \/ k = m + 1
      BY <1>2, <1>8, <1>10, <2>2, <3>1, <3>3
    <3> QED BY <1>8, <1>10, <3>2, <3>3
  <2>4. \A p \in pccs' : \A k \in DOMAIN ports' : ports'[k].uid # p.uid
    <3>1. SUFFICES ASSUME NEW p \in pccs, NEW k \in DOMAIN ports'
                   PROVE  ports'[k].uid # p.uid
      BY <1>3
    <3>2. CASE k \in 1 .. m
      BY <1>4, <1>6, <1>8, <3>2 DEF PortShape
    <3>3. CASE k = m + 1
      BY <1>2, <1>5, <1>8, <2>1, <3>3
    <3> QED BY <1>8, <1>10, <3>2, <3>3
  <2> QED BY <1>3, <1>8, <1>9, <2>3, <2>4 DEF PortShape
<1>12. AllPorts' = AllPorts \cup {c}
  <2>1. AllPorts' = {ports'[k] : k \in 1 .. m + 1} \cup pccs
    BY <1>3, <1>8 DEF AllPorts, Elems
  <2>2. AllPorts = {ports[k] : k \in 1 .. m} \cup pccs
    BY <1>4, <1>6 DEF AllPorts, Elems
  <2>3. m + 1 \in 1 .. m + 1 /\ \A k \in 1 .. m : k \in 1 .. m + 1
    BY <1>8
  <2> QED BY <1>8, <1>10, <2>1, <2>2, <2>3
<1> QED BY <1>1, <1>5, <1>11, <1>12

LEMMA RemovingKeeps ==
  ASSUME PortShape, NEW n \in Names, PortRm(n)
  PROVE  /\ PortShape'
         /\ \E p \in AllPorts : AllPorts' = AllPorts \ {p}
<1>1. ports \in Seq(PortSet) /\ NamedIn(ports, n) /\ pccs' = pccs
      /\ ports' = MoveLastInto(ports, Lookup(ports, n))
  BY DEF PortShape, PortRm
<1>2. PICK l : l = Lookup(ports, n)
  OBVIOUS
<1>3. l \in DOMAIN ports
  BY <1>1, <1>2, LookupFacts
<1>4. PICK m : m = Len(ports)
  OBVIOUS
<1>5. /\ ports' \in Seq(PortSet) /\ Len(ports') = m - 1 /\ m \in Nat \ {0}
      /\ \A j \in DOMAIN ports' :
           j \in DOMAIN ports /\ ports'[j] = ports[IF j = l THEN m ELSE j]
  BY <1>1, <1>2, <1>3, <1>4, MovedLast
<1>6. DOMAIN ports = 1 .. m /\ m <= MaxPorts /\ MaxPorts \in Nat
  BY <1>1, <1>4, PortBoundsAssumption DEF PortShape
<1>7. DOMAIN ports' = 1 .. m - 1 /\ Len(ports') <= MaxPorts
  BY <1>5, <1>6
<1>8. \A j, k \in 1 .. m : ports[j].uid = ports[k].uid => j = k
  BY <1>6 DEF PortShape
<1>9. \A j \in 1 .. m - 1 : /\ j \in 1 .. m /\ j # m
                            /\ ports'[j] = ports[IF j = l THEN m ELSE j]
  BY <1>5, <1>7
<1>10. m \in 1 .. m
  BY <1>5
<1>11. PortShape'
  <2>1. \A j, k \in 1 .. m - 1 : ports'[j].uid = ports'[k].uid => j = k
    <3>1. SUFFICES ASSUME NEW j \in 1 .. m - 1, NEW k \in 1 .. m - 1,
                          ports'[j].uid = ports'[k].uid
                   PROVE  j = k
      OBVIOUS
    <3>2. (IF j = l THEN m ELSE j) = (IF k = l THEN m ELSE k)
      BY <1>8, <1>9, <1>10, <3>1
    <3> QED BY <1>9, <3>2
  <2>2. \A p \in pccs : \A k \in 1 .. m - 1 : ports'[k].uid # p.uid
    <3>1. \A p \in pccs : \A k \in 1 .. m : ports[k].uid # p.uid
      BY <1>6 DEF PortShape
    <3> QED BY <1>9, <1>10, <3>1
  <2> QED BY <1>1, <1>5, <1>7, <2>1, <2>2 DEF PortShape
<1>12. AllPorts' = AllPorts \ {ports[l]}
  <2>1. AllPorts' = {ports'[k] : k \in 1 .. m - 1} \cup pccs
    BY <1>1, <1>7 DEF AllPorts, Elems
  <2>2. AllPorts = {ports[k] : k \in 1 .. m} \cup pccs
    BY <1>6 DEF AllPorts, Elems
  <2>3. \A p \in pccs : ports[l] # p
    BY <1>3 DEF PortShape
  <2>4. \A k \in 1 .. m : ports[k] = ports[l] => k = l
    BY <1>3, <1>6, <1>8
  <2>5. ASSUME NEW p \in AllPorts' PROVE p \in AllPorts /\ p # ports[l]
    <3>1. CASE p \in pccs
      BY <2>2, <2>3, <3>1
    <3>2. ASSUME NEW k \in 1 .. m - 1, p = ports'[k] PROVE p \in AllPorts /\ p # ports[l]
      BY <1>9, <1>10, <2>2, <2>4, <3>2
    <3> QED BY <2>1, <3>1, <3>2
  <2>6. ASSUME NEW p \in AllPorts, p # ports[l] PROVE p \in AllPorts'
    <3>1. CASE p \in pccs
      BY <2>1, <3>1
    <3>2. ASSUME NEW k \in 1 .. m, p = ports[k] PROVE p \in AllPorts'
      <4>1. CASE k # m
        <5>1. k \in 1 .. m - 1
          BY <1>5, <4>1
        <5>2. ports'[k] = ports[k]
          BY <1>9, <2>6, <3>2, <5>1
        <5> QED BY <2>1, <3>2, <5>1, <5>2
      <4>2. CASE k = m
        <5>1. l # m
          BY <2>6, <3>2, <4>2
        <5>2. l \in 1 .. m - 1
          BY <1>3, <1>5, <1>6, <5>1
        <5>3. ports'[l] = ports[m]
          BY <1>9, <5>2
        <5> QED BY <2>1, <3>2, <4>2, <5>2, <5>3
      <4> QED BY <4>1, <4>2
    <3> QED BY <2>2, <3>1, <3>2
  <2> QED BY <2>5, <2>6
<1> QED BY <1>3, <1>6, <1>11, <1>12, PortFacts

LEMMA CollectingKeeps ==
  ASSUME PortShape, NEW p \in pccs, CollectPort(p)
  PROVE  /\ PortShape'
         /\ AllPorts' = AllPorts \ {p} /\ p \in AllPorts
<1>1. ports' = ports /\ pccs' = pccs \ {p}
  BY DEF CollectPort
<1>2. PortShape'
  BY <1>1 DEF PortShape
<1>3. p \in AllPorts
  BY DEF AllPorts
<1>4. AllPorts' = AllPorts \ {p}
  <2>1. AllPorts' = {ports[k] : k \in DOMAIN ports} \cup (pccs \ {p})
    BY <1>1 DEF AllPorts, Elems
  <2>2. AllPorts = {ports[k] : k \in DOMAIN ports} \cup pccs
    BY DEF AllPorts, Elems
  <2>3. \A k \in DOMAIN ports : ports[k] # p
    BY DEF PortShape
  <2> QED BY <2>1, <2>2, <2>3
<1> QED BY <1>2, <1>3, <1>4

(* The port that port_clone_conn makes, and what becomes of the port that  *)
(* it is made for.                                                         *)
AddIf(end, dir, arr, x) == IF end \in dir THEN ArrayBlockAdd(arr, x) ELSE arr
ProtPort(prot, i, j) ==
  [prot EXCEPT !.in_interaction = AddIf("in", prot.dir, @, i),
               !.out_interaction = AddIf("out", prot.dir, @, j)]
PeerPort(prot, u, n, i, j) ==
  [ClonedPort(u, n, (IF "in" \in prot.dir THEN {"out"} ELSE {}) \cup
                    (IF "out" \in prot.dir THEN {"in"} ELSE {}))
     EXCEPT !.out_interaction = AddIf("in", prot.dir, @, i),
            !.in_interaction = AddIf("out", prot.dir, @, j)]

LEMMA CloningKeeps ==
  ASSUME PortShape, NEW u \in PortIds, NEW n \in Names, NEW i \in IBlocks, NEW j \in IBlocks,
         PortCloneConn(u, n, i, j)
  PROVE  /\ PortShape' /\ DOMAIN ports' = DOMAIN ports
         /\ \A k \in DOMAIN ports : ports'[k].name = ports[k].name
         /\ \A p \in AllPorts : p.uid # u
         /\ \E prot \in AllPorts :
              AllPorts' = (AllPorts \ {prot}) \cup
                          {ProtPort(prot, i, j), PeerPort(prot, u, n, i, j)}
<1>1. ports \in Seq(PortSet) /\ NamedIn(ports, n) /\ u \notin Uids
  BY DEF PortShape, PortCloneConn
<1>2. PICK l : l = Lookup(ports, n)
  OBVIOUS
<1>3. l \in DOMAIN ports
  BY <1>1, <1>2, LookupFacts
<1>4. PICK prot : prot = ports[l]
  OBVIOUS
<1>5. /\ AllPorts \subseteq PortSet /\ prot \in AllPorts /\ prot \in PortSet
      /\ \A k \in DOMAIN ports : ports[k] \in AllPorts
      /\ \A p \in AllPorts : p.uid \in Uids
      /\ DOMAIN ports = 1 .. Len(ports) /\ Len(ports) \in Nat
  BY <1>3, <1>4, PortFacts
<1>6. PICK a, b : a = ProtPort(prot, i, j) /\ b = PeerPort(prot, u, n, i, j)
  OBVIOUS
<1>7. /\ RoomFor(prot.in_interaction) /\ RoomFor(prot.out_interaction)
      /\ ports' = [ports EXCEPT ![l] = a]
      /\ pccs' = pccs \cup {b}
  BY <1>2, <1>3, <1>4, <1>6 DEF PortCloneConn, ProtPort, PeerPort, AddIf
<1>8. a \in PortSet /\ a.uid = prot.uid /\ a.name = prot.name
  <2>1. PICK x, y : x = AddIf("in", prot.dir, prot.in_interaction, i)
                    /\ y = AddIf("out", prot.dir, prot.out_interaction, j)
    OBVIOUS
  <2>2. prot.in_interaction \in Arrays /\ prot.out_interaction \in Arrays
    BY <1>5 DEF PortSet
  <2>3. x \in Arrays /\ y \in Arrays
    BY <1>7, <2>1, <2>2, AddedArray DEF AddIf
  <2>4. a = [prot EXCEPT !.in_interaction = x, !.out_interaction = y]
    BY <1>6, <2>1 DEF ProtPort
  <2> QED BY <1>5, <2>3, <2>4 DEF PortSet
<1>9. b \in PortSet /\ b.uid = u
  <2>1. PICK x, y : x = AddIf("in", prot.dir, NULL, i)
                    /\ y = AddIf("out", prot.dir, NULL, j)
    OBVIOUS
  <2>2. NULL \in Arrays /\ RoomFor(NULL)
    BY DEF Arrays, RoomFor
  <2>3. x \in Arrays /\ y \in Arrays
    BY <2>1, <2>2, AddedArray DEF AddIf
  <2>4. PICK d : d = (IF "in" \in prot.dir THEN {"out"} ELSE {}) \cup
                     (IF "out" \in prot.dir THEN {"in"} ELSE {})
    OBVIOUS
  <2>5. d \in SUBSET {"in", "out"}
    BY <2>4
  <2>6. PICK c : c = ClonedPort(u, n, d)
    OBVIOUS
  <2>7. c \in PortSet /\ c.uid = u
    BY <2>5, <2>6, ClonedPortType
  <2>8. c.out_interaction = NULL /\ c.in_interaction = NULL
    BY <2>6 DEF ClonedPort
  <2>9. b = [c EXCEPT !.out_interaction = x, !.in_interaction = y]
    BY <1>6, <2>1, <2>4, <2>6, <2>8 DEF PeerPort
  <2> QED BY <2>3, <2>7, <2>9 DEF PortSet
<1>10. /\ ports' \in Seq(PortSet) /\ Len(ports') = Len(ports) /\ DOMAIN ports' = DOMAIN ports
       /\ ports'[l] = a /\ \A k \in DOMAIN ports : k # l => ports'[k] = ports[k]
  BY <1>1, <1>3, <1>7, <1>8
<1>11. \A k \in DOMAIN ports : ports'[k].uid = ports[k].uid /\ ports'[k].name = ports[k].name
  BY <1>4, <1>8, <1>10
<1>12. \A p \in AllPorts : p.uid # u
  BY <1>1, <1>5
<1>13. pccs \subseteq AllPorts
  BY DEF AllPorts
<1>14. PortShape'
  <2>1. \A k, m \in DOMAIN ports' : ports'[k].uid = ports'[m].uid => k = m
    BY <1>10, <1>11 DEF PortShape
  <2>2. \A p, q \in pccs' : p.uid = q.uid => p = q
    BY <1>7, <1>9, <1>12, <1>13 DEF PortShape
  <2>3. \A p \in pccs' : \A k \in DOMAIN ports' : ports'[k].uid # p.uid
    BY <1>5, <1>7, <1>9, <1>10, <1>11, <1>12 DEF PortShape
  <2>4. pccs' \subseteq PortSet
    BY <1>5, <1>7, <1>9, <1>13
  <2>5. Len(ports') <= MaxPorts
    BY <1>10 DEF PortShape
  <2> QED BY <1>10, <2>1, <2>2, <2>3, <2>4, <2>5 DEF PortShape
<1>15. AllPorts' = (AllPorts \ {prot}) \cup {a, b}
  <2>1. AllPorts' = {ports'[k] : k \in DOMAIN ports} \cup pccs \cup {b}
    BY <1>7, <1>10 DEF AllPorts, Elems
  <2>2. AllPorts = {ports[k] : k \in DOMAIN ports} \cup pccs
    BY DEF AllPorts, Elems
  <2>3. \A p \in pccs : prot # p
    BY <1>3, <1>4 DEF PortShape
  <2>4. \A k \in DOMAIN ports : ports[k] = prot => k = l
    BY <1>3, <1>4 DEF PortShape
  <2>5. {ports'[k] : k \in DOMAIN ports} = ({ports[k] : k \in DOMAIN ports} \ {prot}) \cup {a}
    BY <1>3, <1>4, <1>10, <2>4
  <2> QED BY <2>1, <2>2, <2>3, <2>5
<1> QED BY <1>5, <1>6, <1>10, <1>11, <1>12, <1>14, <1>15

(* The interactions and the cached pointers. *)
IBlocksTyped == /\ istate \in [IBlocks -> IStates]
                /\ owner \in [IBlocks -> PortIds \cup {NULL}]
                /\ buf \in [IBlocks -> 0 .. BufferLen]
OthersTyped  == /\ block_state \in {"INACTIVE", "ACTIVE"}
                /\ held \in [Names -> {NULL} \cup Cached]
                /\ added \subseteq Names /\ shifted \subseteq Names
                /\ pret \in {NULL} \cup 0 .. Modulus - 1

LEMMA PortsTypeParts == PortsTypeOK <=> PortShape /\ IBlocksTyped /\ OthersTyped
BY DEF PortsTypeOK, PortShape, IBlocksTyped, OthersTyped

LEMMA PortsHeldNext ==
  ASSUME PortShape', IBlocksTyped', OthersTyped', CachedRight' PROVE HeldPortsRight'
BY DEF HeldPortsRight, PortsTypeOK, PortShape, IBlocksTyped, OthersTyped

LEMMA PortsInitRight == PortsInit => HeldPortsRight
<1>1. SUFFICES ASSUME PortsInit PROVE HeldPortsRight
  OBVIOUS
<1>2. PortShape
  <2>1. Len(ports) = 0 /\ ports \in Seq(PortSet) /\ DOMAIN ports = {}
    BY <1>1 DEF PortsInit
  <2>2. MaxPorts \in Nat
    BY PortBoundsAssumption
  <2>3. Len(ports) <= MaxPorts
    BY <2>1, <2>2
  <2> QED BY <1>1, <2>1, <2>3 DEF PortsInit, PortShape
<1>3. IBlocksTyped
  <2>1. BufferLen \in Nat
    BY PortBoundsAssumption
  <2>2. 0 \in 0 .. BufferLen
    BY <2>1
  <2> QED BY <1>1, <2>2 DEF PortsInit, IBlocksTyped, IStates
<1>4. OthersTyped /\ CachedRight
  BY <1>1 DEF PortsInit, OthersTyped, CachedRight
<1> QED BY <1>2, <1>3, <1>4, PortsTypeParts DEF HeldPortsRight

(* Pointers survive what leaves names and places alone. *)
LEMMA CachedKept ==
  ASSUME CachedRight, DOMAIN ports' = DOMAIN ports, UNCHANGED cacheVars,
         \A k \in DOMAIN ports : ports'[k].name = ports[k].name
  PROVE  CachedRight'
<1>1. \A n \in Names : NamedIn(ports, n)' <=> NamedIn(ports, n)
  BY DEF NamedIn
<1>2. /\ block_state' = block_state /\ held' = held
      /\ added' = added /\ shifted' = shifted
  BY DEF cacheVars
<1>3. SUFFICES ASSUME block_state = "ACTIVE", NEW n \in Names
               PROVE  PointerRight(n)'
  BY <1>2 DEF CachedRight
<1>4. PointerRight(n)
  BY <1>3 DEF CachedRight
<1> QED BY <1>1, <1>2, <1>4 DEF PointerRight

(* A port added behind the others leaves them where they are, ...          *)
LEMMA CachedAdding ==
  ASSUME PortShape, OthersTyped, CachedRight,
         NEW u \in PortIds, NEW n \in Names, NEW d \in Dirs, PortAdd(u, n, d)
  PROVE  OthersTyped' /\ CachedRight'
<1>1. /\ ports' = Append(ports, ClonedPort(u, n, d)) /\ held' \in {held, Moved(held)}
      /\ added' = added \cup WhileRunning({n}) /\ pret' = NULL
      /\ UNCHANGED <<block_state, shifted>>
  BY DEF PortAdd
<1>2. ClonedPort(u, n, d) \in PortSet /\ ClonedPort(u, n, d).name = n
  BY ClonedPortType, PortBoundsAssumption DEF ClonedPort
<1>3. /\ DOMAIN ports = 1 .. Len(ports) /\ Len(ports) \in Nat
      /\ ports \in Seq(PortSet)
  BY PortFacts DEF PortShape
<1> DEFINE m == Len(ports)
           c == ClonedPort(u, n, d)
<1> HIDE DEF c
<1>4. /\ DOMAIN ports' = 1 .. m + 1 /\ \A k \in 1 .. m : ports'[k] = ports[k]
      /\ ports'[m + 1] = c
  BY <1>1, <1>2, <1>3 DEF c
<1>5. Moved(held) \in [Names -> {NULL} \cup Cached]
  BY DEF OthersTyped, Moved, Cached
<1>6. OthersTyped'
  BY <1>1, <1>5 DEF OthersTyped, WhileRunning
<1>7. SUFFICES ASSUME block_state = "ACTIVE", NEW x \in Names
               PROVE  PointerRight(x)'
  BY <1>1, <1>6 DEF CachedRight
<1>8. PointerRight(x) /\ added' = added \cup {n}
  BY <1>1, <1>7 DEF CachedRight, WhileRunning
<1>9. /\ held'[x] = NULL <=> held[x] = NULL
      /\ held[x] # NULL => held'[x].index = held[x].index
  <2>1. held[x] # NULL => held[x] \in [index : 1 .. MaxPorts, live : BOOLEAN]
    BY DEF OthersTyped, Cached
  <2>2. CASE held' = Moved(held)
    <3>1. held'[x] = IF held[x] = NULL THEN NULL ELSE [held[x] EXCEPT !.live = FALSE]
      BY <2>2 DEF Moved, OthersTyped
    <3>2. ASSUME held[x] # NULL
          PROVE  /\ held'[x] \in [index : Nat, live : BOOLEAN]
                 /\ held'[x].index = held[x].index
      <4>1. PICK h \in [index : 1 .. MaxPorts, live : BOOLEAN] : h = held[x]
        BY <2>1, <3>2
      <4>2. h.index \in Nat /\ h = [index |-> h.index, live |-> h.live]
        BY PortBoundsAssumption
      <4>3. held'[x] = [index |-> h.index, live |-> FALSE]
        BY <3>1, <3>2, <4>1
      <4> QED BY <4>1, <4>2, <4>3
    <3> QED BY <3>1, <3>2, PortNullAssumption
  <2> QED BY <1>1, <2>2
<1>10. NamedIn(ports, x)' => NamedIn(ports, x) \/ x = n
  <2>1. SUFFICES ASSUME NEW k \in 1 .. m + 1, ports'[k].name = x
                 PROVE  NamedIn(ports, x) \/ x = n
    BY <1>4 DEF NamedIn
  <2>2. k \in 1 .. m \/ k = m + 1
    BY <1>3
  <2> QED BY <1>2, <1>3, <1>4, <2>1, <2>2 DEF NamedIn, c
<1>11. held[x] # NULL /\ held[x].index \in DOMAIN ports =>
         held[x].index \in DOMAIN ports' /\ ports'[held[x].index] = ports[held[x].index]
  BY <1>3, <1>4
<1> QED BY <1>1, <1>8, <1>9, <1>10, <1>11 DEF PointerRight

(* ... and a port removed takes its place and that of the last one.        *)
LEMMA CachedRemoving ==
  ASSUME PortShape, OthersTyped, CachedRight, NEW n \in Names, PortRm(n)
  PROVE  OthersTyped' /\ CachedRight'
<1>1. /\ NamedIn(ports, n) /\ ports' = MoveLastInto(ports, Lookup(ports, n))
      /\ shifted' = shifted \cup WhileRunning({n, ports[Len(ports)].name})
      /\ pret' = NULL /\ UNCHANGED <<block_state, held, added>>
  BY DEF PortRm
<1>2. /\ DOMAIN ports = 1 .. Len(ports) /\ Len(ports) \in Nat
      /\ ports \in Seq(PortSet)
  BY PortFacts DEF PortShape
<1>3. PICK l, m : l = Lookup(ports, n) /\ m = Len(ports)
  OBVIOUS
<1>4. l \in DOMAIN ports /\ ports[l].name = n
  BY <1>1, <1>2, <1>3, LookupFacts
<1>5. /\ ports' \in Seq(PortSet) /\ Len(ports') = m - 1 /\ m \in Nat \ {0}
      /\ \A j \in DOMAIN ports' :
           j \in DOMAIN ports /\ ports'[j] = ports[IF j = l THEN m ELSE j]
  BY <1>1, <1>2, <1>3, <1>4, MovedLast
<1>6. /\ DOMAIN ports' = 1 .. m - 1 /\ m \in 1 .. m
      /\ \A j \in 1 .. m - 1 : j \in 1 .. m /\ ports'[j] = ports[IF j = l THEN m ELSE j]
      /\ \A j \in 1 .. m : j = m \/ j \in 1 .. m - 1
  <2>1. DOMAIN ports' = 1 .. m - 1
    BY <1>5
  <2>2. DOMAIN ports = 1 .. m
    BY <1>2, <1>3
  <2>3. \A j \in 1 .. m - 1 : j \in 1 .. m /\ ports'[j] = ports[IF j = l THEN m ELSE j]
    BY <1>5, <2>1, <2>2
  <2>4. m \in 1 .. m /\ \A j \in 1 .. m : j = m \/ j \in 1 .. m - 1
    BY <1>5
  <2> QED BY <2>1, <2>3, <2>4
<1>7. ports[m] \in PortSet /\ ports[m].name \in Names
  <2>1. DOMAIN ports = 1 .. m /\ ports \in Seq(PortSet)
    BY <1>2, <1>3
  <2>2. ports[m] \in PortSet
    BY <1>6, <2>1
  <2> QED BY <2>2 DEF PortSet
<1>8. OthersTyped'
  BY <1>1, <1>3, <1>7 DEF OthersTyped, WhileRunning
<1>9. SUFFICES ASSUME block_state = "ACTIVE", NEW x \in Names
               PROVE  PointerRight(x)'
  BY <1>1, <1>8 DEF CachedRight
<1>10. PointerRight(x) /\ shifted' = shifted \cup {n, ports[m].name}
  BY <1>1, <1>3, <1>9 DEF CachedRight, WhileRunning
<1>11. NamedIn(ports, x)' => NamedIn(ports, x)
  BY <1>2, <1>3, <1>6 DEF NamedIn
<1>12. ASSUME NEW k \in 1 .. m, ports[k].name = x, x # n, x # ports[m].name
       PROVE  k \in DOMAIN ports' /\ ports'[k].name = x
  BY <1>4, <1>6, <1>12
<1> QED BY <1>1, <1>2, <1>3, <1>10, <1>11, <1>12 DEF PointerRight

LEMMA RegistersKeep ==
  ASSUME HeldPortsRight,
         \/ \E u \in PortIds, n \in Names, d \in Dirs : PortAdd(u, n, d)
         \/ \E n \in Names : PortRm(n)
  PROVE  HeldPortsRight'
<1>1. PortShape /\ IBlocksTyped /\ OthersTyped
  BY PortsTypeParts DEF HeldPortsRight
<1>2. CASE \E u \in PortIds, n \in Names, d \in Dirs : PortAdd(u, n, d)
  <2>1. PICK u \in PortIds, n \in Names, d \in Dirs : PortAdd(u, n, d)
    BY <1>2
  <2>2. PortShape'
    BY <1>1, <2>1, AddingKeeps
  <2>3. IBlocksTyped'
    BY <1>1, <2>1 DEF PortAdd, IBlocksTyped, ibVars, cacheVars
  <2>4. OthersTyped' /\ CachedRight'
    BY <1>1, <2>1, CachedAdding DEF HeldPortsRight
  <2> QED BY <2>2, <2>3, <2>4, PortsHeldNext
<1>3. CASE \E n \in Names : PortRm(n)
  <2>1. PICK n \in Names : PortRm(n)
    BY <1>3
  <2>2. PortShape'
    BY <1>1, <2>1, RemovingKeeps
  <2>3. IBlocksTyped'
    BY <1>1, <2>1 DEF PortRm, IBlocksTyped, ibVars, cacheVars
  <2>4. OthersTyped' /\ CachedRight'
    BY <1>1, <2>1, CachedRemoving DEF HeldPortsRight
  <2> QED BY <2>2, <2>3, <2>4, PortsHeldNext
<1> QED BY <1>2, <1>3

LEMMA BlockKeeps ==
  ASSUME HeldPortsRight, BlockStart \/ BlockStop
  PROVE  HeldPortsRight'
<1>1. PortShape /\ IBlocksTyped /\ OthersTyped
  BY PortsTypeParts DEF HeldPortsRight
<1>2. PortShape' /\ IBlocksTyped'
  BY <1>1 DEF BlockStart, BlockStop, PortShape, IBlocksTyped, ibVars, cacheVars
<1>3. CASE BlockStop
  <2>1. OthersTyped' /\ CachedRight'
    BY <1>1, <1>3 DEF BlockStop, OthersTyped, CachedRight
  <2> QED BY <1>2, <2>1, PortsHeldNext
<1>4. CASE BlockStart
  <2>1. ports \in Seq(PortSet) /\ DOMAIN ports = 1 .. Len(ports) /\ Len(ports) \in Nat
        /\ Len(ports) <= MaxPorts /\ MaxPorts \in Nat
    BY <1>1, PortFacts, PortBoundsAssumption DEF PortShape
  <2>2. ports' = ports /\ block_state' = "ACTIVE" /\ pret' = NULL
        /\ UNCHANGED <<added, shifted>>
        /\ held' = [n \in Names |->
             IF NamedIn(ports, n) THEN [index |-> Lookup(ports, n), live |-> TRUE] ELSE NULL]
    BY <1>4 DEF BlockStart
  <2>3. ASSUME NEW n \in Names, NamedIn(ports, n)
        PROVE  /\ Lookup(ports, n) \in 1 .. MaxPorts
               /\ Lookup(ports, n) \in DOMAIN ports
               /\ ports[Lookup(ports, n)].name = n
    <3>1. Lookup(ports, n) \in DOMAIN ports /\ ports[Lookup(ports, n)].name = n
      BY <2>1, <2>3, LookupFacts
    <3> QED BY <2>1, <3>1
  <2>4. OthersTyped'
    BY <1>1, <2>2, <2>3 DEF OthersTyped, Cached
  <2>5. CachedRight'
    <3>1. SUFFICES ASSUME NEW n \in Names
                   PROVE  PointerRight(n)'
      BY DEF CachedRight
    <3>2. CASE ~ NamedIn(ports, n)
      BY <2>2, <3>2 DEF PointerRight, NamedIn
    <3>3. CASE NamedIn(ports, n)
      <4>1. PICK e : e = [index |-> Lookup(ports, n), live |-> TRUE]
        OBVIOUS
      <4>2. e \in [index : Nat, live : BOOLEAN]
        BY <2>1, <2>3, <3>3, <4>1
      <4>3. e # NULL
        BY <4>2, PortNullAssumption
      <4>4. held'[n] = e
        BY <2>2, <3>3, <4>1
      <4> QED BY <2>2, <2>3, <3>3, <4>1, <4>3, <4>4 DEF PointerRight
    <3> QED BY <3>2, <3>3
  <2> QED BY <1>2, <2>4, <2>5, PortsHeldNext
<1> QED BY <1>3, <1>4

(* conn_uni finds two ports of the block by their names. *)
LEMMA ConnUniEnds ==
  ASSUME PortShape, NEW m \in Names, NEW n \in Names, NEW i \in IBlocks, ConnUni(m, n, i)
  PROVE  \E o \in Uids, q \in Uids :
           /\ "out" \in Port(o).dir /\ "in" \in Port(q).dir
           /\ RoomFor(Port(o).out_interaction) /\ RoomFor(Port(q).in_interaction)
           /\ ConnectEnds(o, q, i)
<1>1. ports \in Seq(PortSet) /\ NamedIn(ports, m) /\ NamedIn(ports, n)
  BY DEF PortShape, ConnUni
<1>2. PICK k, l : k = Lookup(ports, m) /\ l = Lookup(ports, n)
  OBVIOUS
<1>3. k \in DOMAIN ports /\ l \in DOMAIN ports
  BY <1>1, <1>2, LookupFacts
<1>4. PICK o, q : o = ports[k].uid /\ q = ports[l].uid
  OBVIOUS
<1>5. o \in Uids /\ q \in Uids /\ Port(o) = ports[k] /\ Port(q) = ports[l]
  BY <1>3, <1>4, PortFacts
<1>6. /\ "out" \in ports[k].dir /\ "in" \in ports[l].dir
      /\ RoomFor(ports[k].out_interaction) /\ RoomFor(ports[l].in_interaction)
      /\ ConnectEnds(o, q, i)
  BY <1>2, <1>4 DEF ConnUni
<1> QED BY <1>5, <1>6

LEMMA ConnectionsKeep ==
  ASSUME HeldPortsRight,
         \/ \E o, q \in Uids, i \in IBlocks :
              PortsConnectUni(o, q, i) \/ PortsDisconnectUni(o, q, i)
         \/ \E m, n \in Names, i \in IBlocks : ConnUni(m, n, i)
         \/ \E u \in PortIds, n \in Names, i, j \in IBlocks : PortCloneConn(u, n, i, j)
  PROVE  HeldPortsRight'
<1>1. PortShape /\ IBlocksTyped /\ OthersTyped /\ CachedRight
  BY PortsTypeParts DEF HeldPortsRight
<1>2. 0 \in 0 .. BufferLen
  BY PortBoundsAssumption
<1>3. ASSUME NEW o \in Uids, NEW q \in Uids, NEW i \in IBlocks, PortsConnectUni(o, q, i)
      PROVE  HeldPortsRight'
  <2>1. /\ PortShape' /\ DOMAIN ports' = DOMAIN ports
        /\ \A k \in DOMAIN ports : ports'[k].name = ports[k].name
    BY <1>1, <1>3, ConnectingKeeps DEF PortsConnectUni
  <2>2. UNCHANGED cacheVars
    BY <1>3 DEF PortsConnectUni
  <2>3. IBlocksTyped' /\ OthersTyped'
    BY <1>1, <1>3 DEF PortsConnectUni, IBlocksTyped, OthersTyped, ibVars, cacheVars
  <2> QED BY <1>1, <2>1, <2>2, <2>3, CachedKept, PortsHeldNext
<1>4. ASSUME NEW o \in Uids, NEW q \in Uids, NEW i \in IBlocks, PortsDisconnectUni(o, q, i)
      PROVE  HeldPortsRight'
  <2>1. /\ PortShape' /\ DOMAIN ports' = DOMAIN ports
        /\ \A k \in DOMAIN ports : ports'[k].name = ports[k].name
    BY <1>1, <1>4, DisconnectingKeeps
  <2>2. UNCHANGED cacheVars
    BY <1>4 DEF PortsDisconnectUni
  <2>3. IBlocksTyped' /\ OthersTyped'
    BY <1>1, <1>4 DEF PortsDisconnectUni, IBlocksTyped, OthersTyped, ibVars, cacheVars
  <2> QED BY <1>1, <2>1, <2>2, <2>3, CachedKept, PortsHeldNext
<1>5. ASSUME NEW m \in Names, NEW n \in Names, NEW i \in IBlocks, ConnUni(m, n, i)
      PROVE  HeldPortsRight'
  <2>1. PICK o \in Uids, q \in Uids :
          /\ RoomFor(Port(o).out_interaction) /\ RoomFor(Port(q).in_interaction)
          /\ ConnectEnds(o, q, i)
    BY <1>1, <1>5, ConnUniEnds
  <2>2. /\ PortShape' /\ DOMAIN ports' = DOMAIN ports
        /\ \A k \in DOMAIN ports : ports'[k].name = ports[k].name
    BY <1>1, <2>1, ConnectingKeeps
  <2>3. UNCHANGED cacheVars
    BY <1>5 DEF ConnUni
  <2>4. IBlocksTyped'
    BY <1>1, <1>2, <1>5 DEF ConnUni, IBlocksTyped, IStates
  <2>5. OthersTyped'
    BY <1>1, <1>5 DEF ConnUni, OthersTyped, cacheVars
  <2> QED BY <1>1, <2>2, <2>3, <2>4, <2>5, CachedKept, PortsHeldNext
<1>6. ASSUME NEW u \in PortIds, NEW n \in Names, NEW i \in IBlocks, NEW j \in IBlocks,
             PortCloneConn(u, n, i, j)
      PROVE  HeldPortsRight'
  <2>1. /\ PortShape' /\ DOMAIN ports' = DOMAIN ports
        /\ \A k \in DOMAIN ports : ports'[k].name = ports[k].name
    BY <1>1, <1>6, CloningKeeps
  <2>2. UNCHANGED cacheVars /\ pret' = NULL
    BY <1>6 DEF PortCloneConn
  <2>3. PICK New :
          /\ istate' = [x \in IBlocks |-> IF x \in New THEN "ACTIVE" ELSE istate[x]]
          /\ buf' = [x \in IBlocks |-> IF x \in New THEN 0 ELSE buf[x]]
          /\ owner' = [x \in IBlocks |-> IF x \in New THEN u ELSE owner[x]]
    BY <1>6 DEF PortCloneConn
  <2>4. IBlocksTyped'
    BY <1>1, <1>2, <2>3 DEF IBlocksTyped, IStates
  <2>5. OthersTyped'
    BY <1>1, <2>2 DEF OthersTyped, cacheVars
  <2> QED BY <1>1, <2>1, <2>2, <2>4, <2>5, CachedKept, PortsHeldNext
<1> QED BY <1>3, <1>4, <1>5, <1>6

LEMMA Modulo == ASSUME NEW a \in Int, NEW m \in Nat \ {0} PROVE a % m \in 0 .. m - 1
OBVIOUS

LEMMA SamplesKeep ==
  ASSUME HeldPortsRight,
         \/ \E i \in IBlocks : IBlockStart(i) \/ IBlockStop(i) \/ IBlockUnload(i)
         \/ \E u \in Uids : PortWrite(u)
         \/ Read
  PROVE  HeldPortsRight'
<1>1. PortShape /\ IBlocksTyped /\ OthersTyped /\ CachedRight
  BY PortsTypeParts DEF HeldPortsRight
<1>2. ports' = ports /\ pccs' = pccs /\ UNCHANGED cacheVars
  BY DEF IBlockStart, IBlockStop, IBlockUnload, PortWrite, Read, PortRead
<1>3. PortShape' /\ CachedRight'
  BY <1>1, <1>2, CachedKept DEF PortShape
<1>4. BufferLen \in Nat \ {0} /\ Modulus \in Nat /\ Modulus > BufferLen + 1
  BY PortBoundsAssumption
<1>5. 0 \in 0 .. BufferLen /\ Modulus \in Nat \ {0} /\ 0 \in 0 .. Modulus - 1
  BY <1>4
<1>6. SUFFICES IBlocksTyped' /\ pret' \in {NULL} \cup 0 .. Modulus - 1
  <2>1. OthersTyped'
    BY <1>1, <1>2, <1>6 DEF OthersTyped, cacheVars
  <2> QED BY <1>3, <1>6, <2>1, PortsHeldNext
<1>7. CASE \E i \in IBlocks : IBlockStart(i) \/ IBlockStop(i) \/ IBlockUnload(i)
  BY <1>1, <1>5, <1>7 DEF IBlockStart, IBlockStop, IBlockUnload, IBlocksTyped, IStates
<1>8. CASE \E u \in Uids : PortWrite(u)
  <2>1. PICK u \in Uids : PortWrite(u)
    BY <1>8
  <2>2. PICK arr : arr = Port(u).out_interaction
    OBVIOUS
  <2>3. arr \in Seq(IBlocks) /\ arr # NULL
    BY <1>1, <2>1, <2>2, PortFacts DEF PortWrite, PortSet, Arrays
  <2>4. ASSUME NEW i \in IBlocks PROVE Written(arr)[i] \in 0 .. BufferLen
    <3>1. buf[i] \in 0 .. BufferLen
      BY <1>1 DEF IBlocksTyped
    <3>2. Occurrences(arr, i) \in Nat
      BY <2>3, OccurrencesType
    <3>3. PICK c : c = Occurrences(arr, i)
      OBVIOUS
    <3>4. Written(arr)[i] = IF istate[i] = "ACTIVE" /\ buf[i] + c > BufferLen THEN BufferLen
                            ELSE IF istate[i] = "ACTIVE" THEN buf[i] + c ELSE buf[i]
      BY <3>3 DEF Written
    <3> QED BY <1>4, <3>1, <3>2, <3>3, <3>4
  <2>5. buf' = Written(arr) /\ istate' = istate /\ owner' = owner /\ pret' = NULL
    BY <2>1, <2>2 DEF PortWrite
  <2>6. buf' \in [IBlocks -> 0 .. BufferLen]
    BY <2>4, <2>5 DEF Written
  <2> QED BY <1>1, <2>5, <2>6 DEF IBlocksTyped
<1>9. CASE Read
  <2>1. PICK u \in Uids : PortRead(u)
    BY <1>9 DEF Read
  <2>2. istate' = istate /\ owner' = owner
    BY <2>1 DEF PortRead
  <2>3. CASE pret' = 0 /\ UNCHANGED buf
    BY <1>1, <1>5, <2>2, <2>3 DEF IBlocksTyped
  <2>4. ASSUME NEW i \in IBlocks, NEW r \in ReadResults(i) \ {0}, pret' = r % Modulus,
               buf' = [buf EXCEPT ![i] = IF r > 0 THEN @ - 1 ELSE @]
        PROVE  IBlocksTyped' /\ pret' \in {NULL} \cup 0 .. Modulus - 1
    <3>1. buf[i] \in 0 .. BufferLen /\ buf \in [IBlocks -> 0 .. BufferLen]
      BY <1>1 DEF IBlocksTyped
    <3>2. r \in {-1, 1} /\ (r > 0 => buf[i] > 0)
      BY <2>4, <3>1 DEF ReadResults
    <3>3. (IF r > 0 THEN buf[i] - 1 ELSE buf[i]) \in 0 .. BufferLen
      BY <1>4, <3>1, <3>2
    <3>4. buf' \in [IBlocks -> 0 .. BufferLen]
      BY <2>4, <3>1, <3>3
    <3>5. r \in Int
      BY <3>2
    <3>6. r % Modulus \in 0 .. Modulus - 1
      BY <1>5, <3>5, Modulo
    <3> QED BY <1>1, <2>2, <2>4, <3>4, <3>6 DEF IBlocksTyped
  <2>5. CASE Port(u).in_interaction = NULL
    BY <2>1, <2>3, <2>5 DEF PortRead
  <2>6. CASE Port(u).in_interaction # NULL
    <3>1. PICK arr : arr = Port(u).in_interaction
      OBVIOUS
    <3>2. arr \in Seq(IBlocks)
      BY <1>1, <2>6, <3>1, PortFacts DEF PortSet, Arrays
    <3>3. \/ pret' = 0 /\ UNCHANGED buf
          \/ \E k \in Asked(arr) : \E r \in ReadResults(arr[k]) \ {0} :
               /\ pret' = r % Modulus
               /\ buf' = [buf EXCEPT ![arr[k]] = IF r > 0 THEN @ - 1 ELSE @]
      BY <2>1, <2>6, <3>1 DEF PortRead
    <3>4. \A k \in Asked(arr) : arr[k] \in IBlocks
      BY <3>2 DEF Asked
    <3> QED BY <2>3, <2>4, <3>3, <3>4
  <2> QED BY <2>5, <2>6
<1> QED BY <1>7, <1>8, <1>9

LEMMA PortsStepRight ==
  ASSUME HeldPortsRight, [PortsNext]_portVars
  PROVE  HeldPortsRight'
<1>1. CASE \E p \in pccs : CollectPort(p)
  <2>1. PICK p \in pccs : CollectPort(p)
    BY <1>1
  <2>2. PortShape /\ IBlocksTyped /\ OthersTyped /\ CachedRight
    BY PortsTypeParts DEF HeldPortsRight
  <2>3. PortShape'
    BY <2>1, <2>2, CollectingKeeps
  <2>4. ports' = ports /\ UNCHANGED cacheVars
    BY <2>1 DEF CollectPort
  <2>5. CachedRight'
    BY <2>2, <2>4, CachedKept
  <2>6. IBlocksTyped' /\ OthersTyped'
    BY <2>1, <2>2 DEF CollectPort, IBlocksTyped, OthersTyped, ibVars, cacheVars
  <2> QED BY <2>3, <2>5, <2>6, PortsHeldNext
<1>2. CASE UNCHANGED portVars
  <2>1. PortShape /\ IBlocksTyped /\ OthersTyped /\ CachedRight
    BY PortsTypeParts DEF HeldPortsRight
  <2>2. CachedRight'
    BY <1>2, <2>1, CachedKept DEF portVars
  <2>3. PortShape' /\ IBlocksTyped' /\ OthersTyped'
    BY <1>2, <2>1 DEF portVars, ibVars, cacheVars, PortShape, IBlocksTyped, OthersTyped
  <2> QED BY <2>2, <2>3, PortsHeldNext
<1> QED BY <1>1, <1>2, RegistersKeep, BlockKeeps, ConnectionsKeep, SamplesKeep DEF PortsNext

(* While a block runs, what its start hook cached designates the port of   *)
(* that name, whatever was added and removed before; and what is added and *)
(* removed in its step costs it no pointer but those that realloc may move *)
(* and those of the names that ubx_port_rm frees or moves (ubx_port_add,   *)
(* ubx_port_rm, ubx_block_start).                                          *)
THEOREM HeldPorts == PortsSpec => []HeldPortsRight
<1>1. PortsInit => HeldPortsRight
  BY PortsInitRight
<1>2. HeldPortsRight /\ [PortsNext]_portVars => HeldPortsRight'
  BY PortsStepRight
<1> QED BY <1>1, <1>2, PTL DEF PortsSpec

-----------------------------------------------------------------------------
(***************************************************************************)
(* Ports implements PortInterface: one step lemma per operation.           *)
(***************************************************************************)

(* The ports as the interface of the block has them. *)
Counts == {Counted(p) : p \in AllPorts}

LEMMA CountedFacts ==
  ASSUME NEW p \in PortSet
  PROVE  /\ Counted(p).uid = p.uid /\ Counted(p).name = p.name /\ Counted(p).dir = p.dir
         /\ \A i \in IBlocks : /\ Counted(p).outs[i] = Occurrences(p.out_interaction, i)
                               /\ Counted(p).ins[i] = Occurrences(p.in_interaction, i)
BY DEF Counted

LEMMA ReplacedCounts ==
  ASSUME PortShape, NEW Old \in SUBSET AllPorts, NEW New, AllPorts' = (AllPorts \ Old) \cup New
  PROVE  Counts' = (Counts \ {Counted(p) : p \in Old}) \cup {Counted(p) : p \in New}
<1>1. \A p, q \in AllPorts : Counted(p) = Counted(q) => p = q
  BY PortFacts, CountedFacts
<1>2. Counts' = {Counted(p) : p \in AllPorts'}
  BY DEF Counts, Counted
<1> QED BY <1>1, <1>2 DEF Counts

LEMMA CountedArrays ==
  ASSUME NEW p \in PortSet, NEW a
  PROVE  /\ Counted([p EXCEPT !.out_interaction = a]) =
              [Counted(p) EXCEPT !.outs = [j \in IBlocks |-> Occurrences(a, j)]]
         /\ Counted([p EXCEPT !.in_interaction = a]) =
              [Counted(p) EXCEPT !.ins = [j \in IBlocks |-> Occurrences(a, j)]]
<1>1. PICK q, r : q = [p EXCEPT !.out_interaction = a] /\ r = [p EXCEPT !.in_interaction = a]
  OBVIOUS
<1>2. /\ q.uid = p.uid /\ q.name = p.name /\ q.dir = p.dir
      /\ q.out_interaction = a /\ q.in_interaction = p.in_interaction
      /\ r.uid = p.uid /\ r.name = p.name /\ r.dir = p.dir
      /\ r.in_interaction = a /\ r.out_interaction = p.out_interaction
  BY <1>1 DEF PortSet
<1>3. PICK x, y, z : /\ x = [j \in IBlocks |-> Occurrences(p.in_interaction, j)]
                     /\ y = [j \in IBlocks |-> Occurrences(p.out_interaction, j)]
                     /\ z = [j \in IBlocks |-> Occurrences(a, j)]
  OBVIOUS
<1>4. PICK c : c = Counted(p)
  OBVIOUS
<1>5. c = [uid |-> p.uid, name |-> p.name, dir |-> p.dir, ins |-> x, outs |-> y]
  BY <1>3, <1>4 DEF Counted
<1>6. /\ Counted(q) = [uid |-> p.uid, name |-> p.name, dir |-> p.dir, ins |-> x, outs |-> z]
      /\ Counted(r) = [uid |-> p.uid, name |-> p.name, dir |-> p.dir, ins |-> z, outs |-> y]
  BY <1>2, <1>3 DEF Counted
<1>7. Counted(q) = [c EXCEPT !.outs = z] /\ Counted(r) = [c EXCEPT !.ins = z]
  BY <1>5, <1>6
<1> QED BY <1>1, <1>3, <1>4, <1>7

(* One more, and one less, at either end. *)
LEMMA CountedAdd ==
  ASSUME NEW p \in PortSet, NEW i \in IBlocks
  PROVE  /\ Counted([p EXCEPT !.out_interaction = ArrayBlockAdd(@, i)]) =
              [Counted(p) EXCEPT !.outs[i] = @ + 1]
         /\ Counted([p EXCEPT !.in_interaction = ArrayBlockAdd(@, i)]) =
              [Counted(p) EXCEPT !.ins[i] = @ + 1]
<1>1. /\ p.out_interaction \in {NULL} \cup Seq(IBlocks)
      /\ p.in_interaction \in {NULL} \cup Seq(IBlocks)
  BY DEF PortSet, Arrays
<1>2. ASSUME NEW arr \in {NULL} \cup Seq(IBlocks)
      PROVE  [j \in IBlocks |-> Occurrences(ArrayBlockAdd(arr, i), j)] =
             [[j \in IBlocks |-> Occurrences(arr, j)] EXCEPT ![i] = @ + 1]
  <2>1. \A j \in IBlocks : Occurrences(ArrayBlockAdd(arr, i), j) =
                           IF j = i THEN Occurrences(arr, j) + 1 ELSE Occurrences(arr, j)
    <3>1. SUFFICES ASSUME NEW j \in IBlocks
                   PROVE  Occurrences(ArrayBlockAdd(arr, i), j) =
                          IF j = i THEN Occurrences(arr, j) + 1 ELSE Occurrences(arr, j)
      OBVIOUS
    <3>2. Occurrences(ArrayBlockAdd(arr, i), j) = Occurrences(arr, j) + IF j = i THEN 1 ELSE 0
      BY PortNullAssumption, OccurrencesAdd
    <3>3. Occurrences(arr, j) \in Nat
      <4>1. CASE arr = NULL
        BY <4>1 DEF Occurrences
      <4>2. CASE arr # NULL
        BY <4>2, OccurrencesType
      <4> QED BY <4>1, <4>2
    <3> QED BY <3>2, <3>3
  <2> QED BY <2>1
<1>3. PICK a, b : a = ArrayBlockAdd(p.out_interaction, i) /\ b = ArrayBlockAdd(p.in_interaction, i)
  OBVIOUS
<1>4. /\ [j \in IBlocks |-> Occurrences(a, j)] =
           [[j \in IBlocks |-> Occurrences(p.out_interaction, j)] EXCEPT ![i] = @ + 1]
      /\ [j \in IBlocks |-> Occurrences(b, j)] =
           [[j \in IBlocks |-> Occurrences(p.in_interaction, j)] EXCEPT ![i] = @ + 1]
  BY <1>1, <1>2, <1>3
<1>5. Counted([p EXCEPT !.out_interaction = a]) = [Counted(p) EXCEPT !.outs[i] = @ + 1]
  <2>1. Counted(p).outs = [j \in IBlocks |-> Occurrences(p.out_interaction, j)]
    BY DEF Counted
  <2>2. [Counted(p) EXCEPT !.outs[i] = @ + 1] =
          [Counted(p) EXCEPT !.outs = [Counted(p).outs EXCEPT ![i] = @ + 1]]
    BY DEF Counted
  <2>3. [j \in IBlocks |-> Occurrences(a, j)] = [Counted(p).outs EXCEPT ![i] = @ + 1]
    BY <1>4, <2>1
  <2>4. Counted([p EXCEPT !.out_interaction = a]) =
          [Counted(p) EXCEPT !.outs = [j \in IBlocks |-> Occurrences(a, j)]]
    BY CountedArrays
  <2> QED BY <2>2, <2>3, <2>4
<1>6. Counted([p EXCEPT !.in_interaction = b]) = [Counted(p) EXCEPT !.ins[i] = @ + 1]
  <2>1. Counted(p).ins = [j \in IBlocks |-> Occurrences(p.in_interaction, j)]
    BY DEF Counted
  <2>2. [Counted(p) EXCEPT !.ins[i] = @ + 1] =
          [Counted(p) EXCEPT !.ins = [Counted(p).ins EXCEPT ![i] = @ + 1]]
    BY DEF Counted
  <2>3. [j \in IBlocks |-> Occurrences(b, j)] = [Counted(p).ins EXCEPT ![i] = @ + 1]
    BY <1>4, <2>1
  <2>4. Counted([p EXCEPT !.in_interaction = b]) =
          [Counted(p) EXCEPT !.ins = [j \in IBlocks |-> Occurrences(b, j)]]
    BY CountedArrays
  <2> QED BY <2>2, <2>3, <2>4
<1> QED BY <1>3, <1>5, <1>6

LEMMA CountedRm ==
  ASSUME NEW p \in PortSet, NEW i \in IBlocks
  PROVE  /\ Connected(p.out_interaction, i) =>
              Counted([p EXCEPT !.out_interaction = ArrayBlockRm(@, i)]) =
                [Counted(p) EXCEPT !.outs[i] = @ - 1]
         /\ Connected(p.in_interaction, i) =>
              Counted([p EXCEPT !.in_interaction = ArrayBlockRm(@, i)]) =
                [Counted(p) EXCEPT !.ins[i] = @ - 1]
         /\ Counted(p).outs[i] > 0 <=> Connected(p.out_interaction, i)
         /\ Counted(p).ins[i] > 0 <=> Connected(p.in_interaction, i)
<1>1. /\ p.out_interaction \in {NULL} \cup Seq(IBlocks)
      /\ p.in_interaction \in {NULL} \cup Seq(IBlocks)
  BY DEF PortSet, Arrays
<1>2. ASSUME NEW arr \in {NULL} \cup Seq(IBlocks)
      PROVE  /\ Connected(arr, i) =>
                  [j \in IBlocks |-> Occurrences(ArrayBlockRm(arr, i), j)] =
                  [[j \in IBlocks |-> Occurrences(arr, j)] EXCEPT ![i] = @ - 1]
             /\ Occurrences(arr, i) > 0 <=> Connected(arr, i)
  <2>1. CASE arr = NULL
    BY <2>1 DEF Connected, Occurrences
  <2>2. CASE arr # NULL
    <3>1. arr \in Seq(IBlocks)
      BY <2>2
    <3>2. \A j \in IBlocks : Occurrences(arr, j) \in Nat
      BY <2>2, <3>1, OccurrencesType
    <3>3. Occurrences(arr, i) > 0 <=> Connected(arr, i)
      BY <2>2, <3>1, OccurrencesType
    <3>4. ASSUME Connected(arr, i), NEW j \in IBlocks
          PROVE  Occurrences(ArrayBlockRm(arr, i), j) =
                 IF j = i THEN Occurrences(arr, j) - 1 ELSE Occurrences(arr, j)
      <4>1. Occurrences(ArrayBlockRm(arr, i), j) =
              Occurrences(arr, j) - IF j = i /\ Connected(arr, i) THEN 1 ELSE 0
        BY <3>1, PortNullAssumption, OccurrencesRm
      <4> QED BY <3>2, <3>4, <4>1
    <3> QED BY <3>3, <3>4
  <2> QED BY <2>1, <2>2
<1>3. PICK a, b : a = ArrayBlockRm(p.out_interaction, i) /\ b = ArrayBlockRm(p.in_interaction, i)
  OBVIOUS
<1>4. /\ Connected(p.out_interaction, i) =>
           [j \in IBlocks |-> Occurrences(a, j)] =
             [[j \in IBlocks |-> Occurrences(p.out_interaction, j)] EXCEPT ![i] = @ - 1]
      /\ Connected(p.in_interaction, i) =>
           [j \in IBlocks |-> Occurrences(b, j)] =
             [[j \in IBlocks |-> Occurrences(p.in_interaction, j)] EXCEPT ![i] = @ - 1]
  BY <1>1, <1>2, <1>3
<1>5. Connected(p.out_interaction, i) =>
        Counted([p EXCEPT !.out_interaction = a]) = [Counted(p) EXCEPT !.outs[i] = @ - 1]
  <2>1. Counted(p).outs = [j \in IBlocks |-> Occurrences(p.out_interaction, j)]
    BY DEF Counted
  <2>2. [Counted(p) EXCEPT !.outs[i] = @ - 1] =
          [Counted(p) EXCEPT !.outs = [Counted(p).outs EXCEPT ![i] = @ - 1]]
    BY DEF Counted
  <2>3. Connected(p.out_interaction, i) =>
          [j \in IBlocks |-> Occurrences(a, j)] = [Counted(p).outs EXCEPT ![i] = @ - 1]
    BY <1>4, <2>1
  <2>4. Counted([p EXCEPT !.out_interaction = a]) =
          [Counted(p) EXCEPT !.outs = [j \in IBlocks |-> Occurrences(a, j)]]
    BY CountedArrays
  <2> QED BY <2>2, <2>3, <2>4
<1>6. Connected(p.in_interaction, i) =>
        Counted([p EXCEPT !.in_interaction = b]) = [Counted(p) EXCEPT !.ins[i] = @ - 1]
  <2>1. Counted(p).ins = [j \in IBlocks |-> Occurrences(p.in_interaction, j)]
    BY DEF Counted
  <2>2. [Counted(p) EXCEPT !.ins[i] = @ - 1] =
          [Counted(p) EXCEPT !.ins = [Counted(p).ins EXCEPT ![i] = @ - 1]]
    BY DEF Counted
  <2>3. Connected(p.in_interaction, i) =>
          [j \in IBlocks |-> Occurrences(b, j)] = [Counted(p).ins EXCEPT ![i] = @ - 1]
    BY <1>4, <2>1
  <2>4. Counted([p EXCEPT !.in_interaction = b]) =
          [Counted(p) EXCEPT !.ins = [j \in IBlocks |-> Occurrences(b, j)]]
    BY CountedArrays
  <2> QED BY <2>2, <2>3, <2>4
<1>7. /\ Counted(p).outs[i] > 0 <=> Connected(p.out_interaction, i)
      /\ Counted(p).ins[i] > 0 <=> Connected(p.in_interaction, i)
  BY <1>1, <1>2, CountedFacts
<1> QED BY <1>3, <1>5, <1>6, <1>7


LEMMA ConnectImplements ==
  ASSUME PortShape, NEW o \in Uids, NEW q \in Uids, NEW i \in IBlocks,
         "out" \in Port(o).dir,
         RoomFor(Port(o).out_interaction), RoomFor(Port(q).in_interaction),
         ConnectEnds(o, q, i)
  PROVE  Interface!Connect
<1>1. PICK po, pq, G : po = Port(o) /\ pq = Port(q) /\ G = Connecting(o, q, i)
  OBVIOUS
<1>2. /\ po \in AllPorts /\ pq \in AllPorts /\ po \in PortSet /\ pq \in PortSet
      /\ po.uid = o /\ pq.uid = q /\ "out" \in po.dir
      /\ \A p \in AllPorts : p.uid = o => p = po
      /\ \A p \in AllPorts : p.uid = q => p = pq
  BY <1>1, PortFacts
<1>3. AllPorts' = {G[p] : p \in AllPorts}
  BY <1>1, ConnectingKeeps
<1>4. \A p \in AllPorts : p # po /\ p # pq => G[p] = p
  <2>1. SUFFICES ASSUME NEW p \in AllPorts, p # po, p # pq PROVE G[p] = p
    OBVIOUS
  <2>2. p.uid # o /\ p.uid # q /\ p \in PortSet
    BY <1>2, <2>1, PortFacts
  <2>3. G[p] = [p EXCEPT !.out_interaction = @, !.in_interaction = @]
    BY <1>1, <2>2 DEF Connecting
  <2> QED BY <2>2, <2>3 DEF PortSet
<1>5. AllPorts' = (AllPorts \ {po, pq}) \cup {G[po], G[pq]}
  BY <1>2, <1>3, <1>4
<1>6. Counts' = (Counts \ {Counted(po), Counted(pq)}) \cup {Counted(G[po]), Counted(G[pq])}
  <2>1. {po, pq} \in SUBSET AllPorts
    BY <1>2
  <2>2. Counts' = (Counts \ {Counted(p) : p \in {po, pq}})
                  \cup {Counted(p) : p \in {G[po], G[pq]}}
    BY <1>5, <2>1, ReplacedCounts
  <2> QED BY <2>2
<1>7. PICK co, cq, oo : co = Counted(po) /\ cq = Counted(pq) /\ oo = [co EXCEPT !.outs[i] = @ + 1]
  OBVIOUS
<1>8. PICK p1 : p1 = [po EXCEPT !.out_interaction = ArrayBlockAdd(@, i)]
  OBVIOUS
<1>9. p1 \in PortSet /\ Counted(p1) = oo
  <2>1. po.out_interaction \in Arrays
    BY <1>2 DEF PortSet
  <2>2. PICK a : a = ArrayBlockAdd(po.out_interaction, i)
    OBVIOUS
  <2>3. a \in Arrays
    BY <1>1, <2>1, <2>2, AddedArray
  <2>4. p1 = [po EXCEPT !.out_interaction = a]
    BY <1>8, <2>2
  <2>5. p1 \in PortSet
    BY <1>2, <2>3, <2>4 DEF PortSet
  <2>6. Counted(p1) = oo
    BY <1>2, <1>7, <1>8, CountedAdd
  <2> QED BY <2>5, <2>6
<1>10. /\ co \in Counts /\ cq \in Counts /\ co.dir = po.dir /\ cq.dir = pq.dir
       /\ (co = cq <=> po = pq)
  <2>1. co.uid = o /\ cq.uid = q /\ co.dir = po.dir /\ cq.dir = pq.dir
    BY <1>2, <1>7, CountedFacts
  <2> QED BY <1>2, <1>7, <2>1 DEF Counts
<1>11. PICK qq : qq = [(IF co = cq THEN oo ELSE cq) EXCEPT !.ins[i] = @ + 1]
  OBVIOUS
<1>12. CASE "in" \in pq.dir
  <2>1. Counts' = (Counts \ {co, cq}) \cup ({qq} \cup (IF co = cq THEN {} ELSE {oo}))
    <3>1. CASE po = pq
      <4>1. G[po] = [p1 EXCEPT !.in_interaction = ArrayBlockAdd(@, i)]
        BY <1>1, <1>2, <1>8, <1>12, <3>1 DEF Connecting, PortSet
      <4>2. Counted(G[po]) = qq
        <5>1. qq = [oo EXCEPT !.ins[i] = @ + 1]
          BY <1>10, <1>11, <3>1
        <5>2. Counted([p1 EXCEPT !.in_interaction = ArrayBlockAdd(@, i)]) =
                [Counted(p1) EXCEPT !.ins[i] = @ + 1]
          BY <1>9, CountedAdd
        <5> QED BY <1>9, <4>1, <5>1, <5>2
      <4> QED BY <1>6, <1>7, <1>10, <3>1, <4>2
    <3>2. CASE po # pq
      <4>1. G[po] = p1
        BY <1>1, <1>2, <1>8, <3>2 DEF Connecting, PortSet
      <4>2. G[pq] = [pq EXCEPT !.in_interaction = ArrayBlockAdd(@, i)]
        BY <1>1, <1>2, <1>12, <3>2 DEF Connecting, PortSet
      <4>3. Counted(G[pq]) = qq
        <5>1. qq = [cq EXCEPT !.ins[i] = @ + 1]
          BY <1>10, <1>11, <3>2
        <5>2. Counted([pq EXCEPT !.in_interaction = ArrayBlockAdd(@, i)]) =
                [Counted(pq) EXCEPT !.ins[i] = @ + 1]
          BY <1>2, CountedAdd
        <5> QED BY <1>7, <4>2, <5>1, <5>2
      <4> QED BY <1>6, <1>7, <1>9, <1>10, <3>2, <4>1, <4>3
    <3> QED BY <3>1, <3>2
  <2>2. Counts' = (Counts \ {co, cq})
                  \cup ({[(IF co = cq THEN [co EXCEPT !.outs[i] = @ + 1] ELSE cq)
                           EXCEPT !.ins[i] = @ + 1]}
                        \cup (IF co = cq THEN {} ELSE {[co EXCEPT !.outs[i] = @ + 1]}))
    BY <1>7, <1>11, <2>1
  <2>3. "out" \in co.dir /\ "in" \in cq.dir /\ co \in Counts /\ cq \in Counts
    BY <1>2, <1>10, <1>12
  <2> QED BY <2>2, <2>3 DEF Interface!Connect, Interface!Replace, Counts
<1>13. CASE "in" \notin pq.dir
  <2>1. G[po] = p1
    BY <1>1, <1>2, <1>8, <1>13 DEF Connecting, PortSet
  <2>2. po # pq => G[pq] = pq
    BY <1>1, <1>2, <1>13 DEF Connecting, PortSet
  <2>3. Counts' = (Counts \ {co}) \cup {oo}
    <3>1. CASE po = pq
      BY <1>6, <1>7, <1>9, <2>1, <3>1
    <3>2. CASE po # pq
      BY <1>6, <1>7, <1>9, <1>10, <2>1, <2>2, <3>2
    <3> QED BY <3>1, <3>2
  <2> QED BY <1>2, <1>7, <1>10, <1>13, <2>3
      DEF Interface!Connect, Interface!Replace, Counts
<1> QED BY <1>12, <1>13

LEMMA DisconnectImplements ==
  ASSUME PortShape, NEW o \in Uids, NEW q \in Uids, NEW i \in IBlocks,
         PortsDisconnectUni(o, q, i)
  PROVE  Interface!Disconnect
<1>1. PICK po, pq, G : po = Port(o) /\ pq = Port(q) /\ G = Disconnecting(o, q, i)
  OBVIOUS
<1>2. /\ po \in AllPorts /\ pq \in AllPorts /\ po \in PortSet /\ pq \in PortSet
      /\ po.uid = o /\ pq.uid = q /\ "out" \in po.dir /\ Connected(po.out_interaction, i)
      /\ \A p \in AllPorts : p.uid = o => p = po
      /\ \A p \in AllPorts : p.uid = q => p = pq
  BY <1>1, PortFacts DEF PortsDisconnectUni
<1>3. AllPorts' = {G[p] : p \in AllPorts}
  BY <1>1, DisconnectingKeeps
<1>4. \A p \in AllPorts : p # po /\ p # pq => G[p] = p
  <2>1. SUFFICES ASSUME NEW p \in AllPorts, p # po, p # pq PROVE G[p] = p
    OBVIOUS
  <2>2. p.uid # o /\ p.uid # q /\ p \in PortSet
    BY <1>2, <2>1, PortFacts
  <2>3. G[p] = [p EXCEPT !.out_interaction = @, !.in_interaction = @]
    BY <1>1, <2>2 DEF Disconnecting
  <2> QED BY <2>2, <2>3 DEF PortSet
<1>5. AllPorts' = (AllPorts \ {po, pq}) \cup {G[po], G[pq]}
  BY <1>2, <1>3, <1>4
<1>6. Counts' = (Counts \ {Counted(po), Counted(pq)}) \cup {Counted(G[po]), Counted(G[pq])}
  <2>1. {po, pq} \in SUBSET AllPorts
    BY <1>2
  <2>2. Counts' = (Counts \ {Counted(p) : p \in {po, pq}})
                  \cup {Counted(p) : p \in {G[po], G[pq]}}
    BY <1>5, <2>1, ReplacedCounts
  <2> QED BY <2>2
<1>7. PICK co, cq, oo : co = Counted(po) /\ cq = Counted(pq) /\ oo = [co EXCEPT !.outs[i] = @ - 1]
  OBVIOUS
<1>8. PICK p1 : p1 = [po EXCEPT !.out_interaction = ArrayBlockRm(@, i)]
  OBVIOUS
<1>9. p1 \in PortSet /\ Counted(p1) = oo /\ p1.in_interaction = po.in_interaction
  <2>1. po.out_interaction \in Arrays
    BY <1>2 DEF PortSet
  <2>2. PICK a : a = ArrayBlockRm(po.out_interaction, i)
    OBVIOUS
  <2>3. a \in Arrays
    BY <2>1, <2>2, RemovedArray
  <2>4. p1 = [po EXCEPT !.out_interaction = a]
    BY <1>8, <2>2
  <2>5. p1 \in PortSet /\ p1.in_interaction = po.in_interaction
    BY <1>2, <2>3, <2>4 DEF PortSet
  <2>6. Counted(p1) = oo
    BY <1>2, <1>7, <1>8, CountedRm
  <2> QED BY <2>5, <2>6
<1>10. /\ co \in Counts /\ cq \in Counts /\ co.dir = po.dir /\ cq.dir = pq.dir
       /\ (co = cq <=> po = pq) /\ co.outs[i] > 0
       /\ cq.ins[i] > 0 <=> Connected(pq.in_interaction, i)
  <2>1. co.uid = o /\ cq.uid = q /\ co.dir = po.dir /\ cq.dir = pq.dir
    BY <1>2, <1>7, CountedFacts
  <2>2. co.outs[i] > 0 /\ (cq.ins[i] > 0 <=> Connected(pq.in_interaction, i))
    BY <1>2, <1>7, CountedRm
  <2> QED BY <1>2, <1>7, <2>1, <2>2 DEF Counts
<1>11. PICK qq : qq = [(IF co = cq THEN oo ELSE cq) EXCEPT !.ins[i] = @ - 1]
  OBVIOUS
<1>12. CASE "in" \in pq.dir /\ Connected(pq.in_interaction, i)
  <2>1. Counts' = (Counts \ {co, cq}) \cup ({qq} \cup (IF co = cq THEN {} ELSE {oo}))
    <3>1. CASE po = pq
      <4>1. G[po] = [p1 EXCEPT !.in_interaction = ArrayBlockRm(@, i)]
        BY <1>1, <1>2, <1>8, <1>12, <3>1 DEF Disconnecting, PortSet
      <4>2. Counted(G[po]) = qq
        <5>1. Connected(p1.in_interaction, i) /\ qq = [oo EXCEPT !.ins[i] = @ - 1]
          BY <1>9, <1>10, <1>11, <1>12, <3>1
        <5>2. Counted([p1 EXCEPT !.in_interaction = ArrayBlockRm(@, i)]) =
                [Counted(p1) EXCEPT !.ins[i] = @ - 1]
          BY <1>9, <5>1, CountedRm
        <5> QED BY <1>9, <4>1, <5>1, <5>2
      <4> QED BY <1>6, <1>7, <1>10, <3>1, <4>2
    <3>2. CASE po # pq
      <4>1. G[po] = p1
        BY <1>1, <1>2, <1>8, <3>2 DEF Disconnecting, PortSet
      <4>2. G[pq] = [pq EXCEPT !.in_interaction = ArrayBlockRm(@, i)]
        BY <1>1, <1>2, <1>12, <3>2 DEF Disconnecting, PortSet
      <4>3. Counted(G[pq]) = qq
        <5>1. qq = [cq EXCEPT !.ins[i] = @ - 1]
          BY <1>10, <1>11, <3>2
        <5>2. Counted([pq EXCEPT !.in_interaction = ArrayBlockRm(@, i)]) =
                [Counted(pq) EXCEPT !.ins[i] = @ - 1]
          BY <1>2, <1>12, CountedRm
        <5> QED BY <1>7, <4>2, <5>1, <5>2
      <4> QED BY <1>6, <1>7, <1>9, <1>10, <3>2, <4>1, <4>3
    <3> QED BY <3>1, <3>2
  <2>2. Counts' = (Counts \ {co, cq})
                  \cup ({[(IF co = cq THEN [co EXCEPT !.outs[i] = @ - 1] ELSE cq)
                           EXCEPT !.ins[i] = @ - 1]}
                        \cup (IF co = cq THEN {} ELSE {[co EXCEPT !.outs[i] = @ - 1]}))
    BY <1>7, <1>11, <2>1
  <2>3. /\ "out" \in co.dir /\ co.outs[i] > 0 /\ co \in Counts
        /\ "in" \in cq.dir /\ cq.ins[i] > 0 /\ cq \in Counts
    BY <1>2, <1>10, <1>12
  <2> QED BY <2>2, <2>3 DEF Interface!Disconnect, Interface!Replace, Counts
<1>13. CASE ~ ("in" \in pq.dir /\ Connected(pq.in_interaction, i))
  <2>1. ArrayBlockRm(pq.in_interaction, i) = pq.in_interaction \/ "in" \notin pq.dir
    BY <1>13 DEF ArrayBlockRm
  <2>2. G[po] = p1
    BY <1>1, <1>2, <1>8, <2>1 DEF Disconnecting, PortSet
  <2>3. po # pq => G[pq] = pq
    BY <1>1, <1>2, <2>1 DEF Disconnecting, PortSet
  <2>4. Counts' = (Counts \ {co}) \cup {oo}
    <3>1. CASE po = pq
      BY <1>6, <1>7, <1>9, <2>2, <3>1
    <3>2. CASE po # pq
      BY <1>6, <1>7, <1>9, <1>10, <2>2, <2>3, <3>2
    <3> QED BY <3>1, <3>2
  <2> QED BY <1>2, <1>7, <1>10, <1>13, <2>4
      DEF Interface!Disconnect, Interface!Replace, Counts
<1> QED BY <1>12, <1>13

LEMMA AddImplements ==
  ASSUME PortShape, NEW u \in PortIds, NEW n \in Names, NEW d \in Dirs, PortAdd(u, n, d)
  PROVE  Interface!Add
<1>1. PICK c : c = ClonedPort(u, n, d)
  OBVIOUS
<1>2. AllPorts' = AllPorts \cup {c} /\ \A p \in AllPorts : p.uid # u
  BY <1>1, AddingKeeps
<1>3. Counts' = (Counts \ {}) \cup {Counted(c)}
  <2>1. AllPorts' = (AllPorts \ {}) \cup {c} /\ {} \in SUBSET AllPorts
    BY <1>2
  <2>2. Counts' = (Counts \ {Counted(p) : p \in {}}) \cup {Counted(p) : p \in {c}}
    BY <2>1, ReplacedCounts
  <2> QED BY <2>2
<1>4. PICK none : none = [i \in IBlocks |-> 0]
  OBVIOUS
<1>5. Counted(c) = [uid |-> u, name |-> n, dir |-> d, ins |-> none, outs |-> none]
  <2>1. [i \in IBlocks |-> Occurrences(NULL, i)] = none
    BY <1>4 DEF Occurrences
  <2> QED BY <1>1, <2>1 DEF Counted, ClonedPort
<1>6. d \in SUBSET {"in", "out"}
  BY PortBoundsAssumption
<1>7. \A p \in Counts : p.uid # u
  <2>1. AllPorts \subseteq PortSet
    BY PortFacts
  <2> QED BY <1>2, <2>1, CountedFacts DEF Counts
<1>8. /\ \A p \in Counts : p.uid # u
      /\ Counts' = (Counts \ {}) \cup {[uid |-> u, name |-> n, dir |-> d,
                                       ins |-> [i \in IBlocks |-> 0],
                                       outs |-> [i \in IBlocks |-> 0]]}
  BY <1>3, <1>4, <1>5, <1>7
<1> QED BY <1>6, <1>8
    DEF Interface!Add, Interface!Replace, Interface!PortDirs, Interface!NoConnections, Counts

LEMMA RemoveImplements ==
  ASSUME PortShape, NEW p \in AllPorts, AllPorts' = AllPorts \ {p}
  PROVE  Interface!Remove
<1>1. AllPorts' = (AllPorts \ {p}) \cup {} /\ {p} \in SUBSET AllPorts
  OBVIOUS
<1>2. Counts' = (Counts \ {Counted(q) : q \in {p}}) \cup {Counted(q) : q \in {}}
  BY <1>1, ReplacedCounts
<1>3. Counts' = (Counts \ {Counted(p)}) \cup {} /\ Counted(p) \in Counts
  BY <1>2 DEF Counts
<1> QED BY <1>3 DEF Interface!Remove, Interface!Replace, Counts

(* What is added is counted once. *)
LEMMA AddedCounts ==
  ASSUME NEW arr \in {NULL} \cup Seq(IBlocks), NEW i \in IBlocks, NEW j \in IBlocks
  PROVE  /\ j = i => Occurrences(ArrayBlockAdd(arr, i), j) = Occurrences(arr, j) + 1
         /\ j # i => Occurrences(ArrayBlockAdd(arr, i), j) = Occurrences(arr, j)
<1>1. Occurrences(ArrayBlockAdd(arr, i), j) = Occurrences(arr, j) + IF j = i THEN 1 ELSE 0
  BY PortNullAssumption, OccurrencesAdd
<1>2. Occurrences(arr, j) \in Nat
  <2>1. CASE arr = NULL
    BY <2>1 DEF Occurrences
  <2>2. CASE arr # NULL
    BY <2>2, OccurrencesType
  <2> QED BY <2>1, <2>2
<1> QED BY <1>1, <1>2

LEMMA ProtCounted ==
  ASSUME NEW p \in PortSet, NEW i \in IBlocks, NEW j \in IBlocks
  PROVE  Counted(ProtPort(p, i, j)) =
           [Counted(p) EXCEPT !.ins[i] = IF "in" \in Counted(p).dir THEN @ + 1 ELSE @,
                              !.outs[j] = IF "out" \in Counted(p).dir THEN @ + 1 ELSE @]
<1>1. PICK a, b : /\ a = AddIf("in", p.dir, p.in_interaction, i)
                  /\ b = AddIf("out", p.dir, p.out_interaction, j)
  OBVIOUS
<1>2. PICK q : q = ProtPort(p, i, j)
  OBVIOUS
<1>3. /\ q.uid = p.uid /\ q.name = p.name /\ q.dir = p.dir
      /\ q.in_interaction = a /\ q.out_interaction = b
  BY <1>1, <1>2 DEF ProtPort, PortSet
<1>4. PICK x, y, z, w : /\ x = [k \in IBlocks |-> Occurrences(p.in_interaction, k)]
                        /\ y = [k \in IBlocks |-> Occurrences(p.out_interaction, k)]
                        /\ z = [k \in IBlocks |-> Occurrences(a, k)]
                        /\ w = [k \in IBlocks |-> Occurrences(b, k)]
  OBVIOUS
<1>5. PICK c, d : c = Counted(p) /\ d = p.dir
  OBVIOUS
<1>6. c = [uid |-> p.uid, name |-> p.name, dir |-> d, ins |-> x, outs |-> y]
  BY <1>4, <1>5 DEF Counted
<1>7. Counted(q) = [uid |-> p.uid, name |-> p.name, dir |-> d, ins |-> z, outs |-> w]
  BY <1>3, <1>4, <1>5 DEF Counted
<1>8. /\ p.in_interaction \in {NULL} \cup Seq(IBlocks)
      /\ p.out_interaction \in {NULL} \cup Seq(IBlocks)
  BY DEF PortSet, Arrays
<1>9. z = [x EXCEPT ![i] = IF "in" \in d THEN @ + 1 ELSE @]
  <2>1. PICK arr, e : arr = p.in_interaction /\ e = "in"
    OBVIOUS
  <2>2. a = AddIf(e, d, arr, i) /\ arr \in {NULL} \cup Seq(IBlocks)
    BY <1>1, <1>5, <1>8, <2>1
  <2>3. \A k \in IBlocks :
          /\ (k = i /\ e \in d) => Occurrences(a, k) = Occurrences(arr, k) + 1
          /\ ~ (k = i /\ e \in d) => Occurrences(a, k) = Occurrences(arr, k)
    BY <2>2, AddedCounts DEF AddIf
  <2>4. \A k \in IBlocks : z[k] = Occurrences(a, k) /\ x[k] = Occurrences(arr, k)
    BY <1>4, <2>1
  <2>5. \A k \in IBlocks : z[k] = IF k = i /\ "in" \in d THEN x[k] + 1 ELSE x[k]
    BY <2>1, <2>3, <2>4
  <2> QED BY <1>4, <2>5
<1>10. w = [y EXCEPT ![j] = IF "out" \in d THEN @ + 1 ELSE @]
  <2>1. PICK arr, e : arr = p.out_interaction /\ e = "out"
    OBVIOUS
  <2>2. b = AddIf(e, d, arr, j) /\ arr \in {NULL} \cup Seq(IBlocks)
    BY <1>1, <1>5, <1>8, <2>1
  <2>3. \A k \in IBlocks :
          /\ (k = j /\ e \in d) => Occurrences(b, k) = Occurrences(arr, k) + 1
          /\ ~ (k = j /\ e \in d) => Occurrences(b, k) = Occurrences(arr, k)
    BY <2>2, AddedCounts DEF AddIf
  <2>4. \A k \in IBlocks : w[k] = Occurrences(b, k) /\ y[k] = Occurrences(arr, k)
    BY <1>4, <2>1
  <2>5. \A k \in IBlocks : w[k] = IF k = j /\ "out" \in d THEN y[k] + 1 ELSE y[k]
    BY <2>1, <2>3, <2>4
  <2> QED BY <1>4, <2>5
<1>11. c.ins = x /\ c.outs = y /\ c.dir = d
  BY <1>6
<1>12. [c EXCEPT !.ins[i] = IF "in" \in c.dir THEN @ + 1 ELSE @,
                 !.outs[j] = IF "out" \in c.dir THEN @ + 1 ELSE @] =
       [uid |-> p.uid, name |-> p.name, dir |-> d,
        ins |-> [x EXCEPT ![i] = IF "in" \in d THEN @ + 1 ELSE @],
        outs |-> [y EXCEPT ![j] = IF "out" \in d THEN @ + 1 ELSE @]]
  <2>1. PICK r, s : /\ r = [c.ins EXCEPT ![i] = IF "in" \in c.dir THEN @ + 1 ELSE @]
                    /\ s = [c.outs EXCEPT ![j] = IF "out" \in c.dir THEN @ + 1 ELSE @]
    OBVIOUS
  <2>2. [c EXCEPT !.ins[i] = IF "in" \in c.dir THEN @ + 1 ELSE @,
                  !.outs[j] = IF "out" \in c.dir THEN @ + 1 ELSE @] =
        [c EXCEPT !.ins = r, !.outs = s]
    BY <1>6, <2>1
  <2>3. [c EXCEPT !.ins = r, !.outs = s] =
        [uid |-> p.uid, name |-> p.name, dir |-> d, ins |-> r, outs |-> s]
    <3>1. PICK g, h : g = p.uid /\ h = p.name
      OBVIOUS
    <3>2. c = [uid |-> g, name |-> h, dir |-> d, ins |-> x, outs |-> y]
      BY <1>6, <3>1
    <3>3. [c EXCEPT !.ins = r] = [uid |-> g, name |-> h, dir |-> d, ins |-> r, outs |-> y]
      BY <3>2
    <3>4. PICK m : m = [c EXCEPT !.ins = r]
      OBVIOUS
    <3>5. m = [uid |-> g, name |-> h, dir |-> d, ins |-> r, outs |-> y]
      BY <3>3, <3>4
    <3>6. [m EXCEPT !.outs = s] = [uid |-> g, name |-> h, dir |-> d, ins |-> r, outs |-> s]
      BY <3>5
    <3>7. [m EXCEPT !.outs = s] = [c EXCEPT !.ins = r, !.outs = s]
      BY <3>4
    <3> QED BY <3>1, <3>6, <3>7
  <2>4. /\ r = [x EXCEPT ![i] = IF "in" \in d THEN @ + 1 ELSE @]
        /\ s = [y EXCEPT ![j] = IF "out" \in d THEN @ + 1 ELSE @]
    BY <1>11, <2>1
  <2> QED BY <2>2, <2>3, <2>4
<1> QED BY <1>2, <1>5, <1>7, <1>9, <1>10, <1>12

LEMMA PeerCounted ==
  ASSUME NEW p \in PortSet, NEW u \in PortIds, NEW n \in Names, NEW i \in IBlocks, NEW j \in IBlocks
  PROVE  Counted(PeerPort(p, u, n, i, j)) =
           [uid |-> u, name |-> n,
            dir |-> (IF "in" \in Counted(p).dir THEN {"out"} ELSE {}) \cup
                    (IF "out" \in Counted(p).dir THEN {"in"} ELSE {}),
            outs |-> [[k \in IBlocks |-> 0] EXCEPT ![i] = IF "in" \in Counted(p).dir THEN 1 ELSE 0],
            ins |-> [[k \in IBlocks |-> 0] EXCEPT ![j] = IF "out" \in Counted(p).dir THEN 1 ELSE 0]]
<1>1. PICK d, e : /\ e = p.dir
                  /\ d = (IF "in" \in e THEN {"out"} ELSE {}) \cup
                         (IF "out" \in e THEN {"in"} ELSE {})
  OBVIOUS
<1>2. PICK q : q = PeerPort(p, u, n, i, j)
  OBVIOUS
<1>3. /\ q.uid = u /\ q.name = n /\ q.dir = d
      /\ q.in_interaction = AddIf("out", e, NULL, j)
      /\ q.out_interaction = AddIf("in", e, NULL, i)
  BY <1>1, <1>2 DEF PeerPort, ClonedPort
<1>4. \A k : Occurrences(NULL, k) = 0
  BY DEF Occurrences
<1>5. \A k \in IBlocks :
        /\ Occurrences(q.out_interaction, k) = IF k = i /\ "in" \in e THEN 1 ELSE 0
        /\ Occurrences(q.in_interaction, k) = IF k = j /\ "out" \in e THEN 1 ELSE 0
  <2>1. PICK end, other : end = "in" /\ other = "out"
    OBVIOUS
  <2>2. NULL \in {NULL} \cup Seq(IBlocks)
    OBVIOUS
  <2>3. \A k \in IBlocks :
          /\ (k = i /\ end \in e) =>
               Occurrences(AddIf(end, e, NULL, i), k) = Occurrences(NULL, k) + 1
          /\ ~ (k = i /\ end \in e) =>
               Occurrences(AddIf(end, e, NULL, i), k) = Occurrences(NULL, k)
    BY <2>2, AddedCounts DEF AddIf
  <2>4. \A k \in IBlocks :
          /\ (k = j /\ other \in e) =>
               Occurrences(AddIf(other, e, NULL, j), k) = Occurrences(NULL, k) + 1
          /\ ~ (k = j /\ other \in e) =>
               Occurrences(AddIf(other, e, NULL, j), k) = Occurrences(NULL, k)
    BY <2>2, AddedCounts DEF AddIf
  <2> QED BY <1>3, <1>4, <2>1, <2>3, <2>4
<1>6. PICK x, y : /\ x = [[k \in IBlocks |-> 0] EXCEPT ![j] = IF "out" \in e THEN 1 ELSE 0]
                  /\ y = [[k \in IBlocks |-> 0] EXCEPT ![i] = IF "in" \in e THEN 1 ELSE 0]
  OBVIOUS
<1>7. [k \in IBlocks |-> Occurrences(q.out_interaction, k)] = y
  BY <1>5, <1>6
<1>8. [k \in IBlocks |-> Occurrences(q.in_interaction, k)] = x
  BY <1>5, <1>6
<1>9. Counted(q) = [uid |-> u, name |-> n, dir |-> d, outs |-> y, ins |-> x]
  BY <1>3, <1>7, <1>8 DEF Counted
<1>10. Counted(p).dir = e
  BY <1>1, CountedFacts
<1> QED BY <1>1, <1>2, <1>6, <1>9, <1>10

LEMMA CloneImplements ==
  ASSUME PortShape, NEW u \in PortIds, NEW n \in Names, NEW i \in IBlocks, NEW j \in IBlocks,
         PortCloneConn(u, n, i, j)
  PROVE  Interface!CloneConn
<1>1. PICK prot \in AllPorts :
        AllPorts' = (AllPorts \ {prot}) \cup {ProtPort(prot, i, j), PeerPort(prot, u, n, i, j)}
  BY CloningKeeps
<1>2. AllPorts \subseteq PortSet /\ prot \in PortSet /\ \A p \in AllPorts : p.uid # u
  BY <1>1, PortFacts, CloningKeeps
<1>3. PICK a, b : a = ProtPort(prot, i, j) /\ b = PeerPort(prot, u, n, i, j)
  OBVIOUS
<1> DEFINE c == Counted(prot)
           A == [c EXCEPT !.ins[i] = IF "in" \in c.dir THEN @ + 1 ELSE @,
                          !.outs[j] = IF "out" \in c.dir THEN @ + 1 ELSE @]
           B == [uid |-> u, name |-> n,
                 dir |-> (IF "in" \in c.dir THEN {"out"} ELSE {}) \cup
                         (IF "out" \in c.dir THEN {"in"} ELSE {}),
                 outs |-> [[k \in IBlocks |-> 0] EXCEPT ![i] = IF "in" \in c.dir THEN 1 ELSE 0],
                 ins |-> [[k \in IBlocks |-> 0] EXCEPT ![j] = IF "out" \in c.dir THEN 1 ELSE 0]]
<1>4. Counts' = (Counts \ {c}) \cup {Counted(a), Counted(b)}
  <2>1. AllPorts' = (AllPorts \ {prot}) \cup {a, b} /\ {prot} \in SUBSET AllPorts
    BY <1>1, <1>3
  <2>2. Counts' = (Counts \ {Counted(p) : p \in {prot}}) \cup {Counted(p) : p \in {a, b}}
    BY <2>1, ReplacedCounts
  <2> QED BY <2>2
<1>5. c \in Counts /\ \A x \in Counts : x.uid # u
  BY <1>2, CountedFacts DEF Counts
<1>6. Counted(a) = A
  BY <1>2, <1>3, ProtCounted
<1>7. Counted(b) = B
  BY <1>2, <1>3, PeerCounted
<1> HIDE DEF A, B
<1>8. Counts' = (Counts \ {c}) \cup {A, B}
  BY <1>4, <1>6, <1>7
<1> USE DEF A, B
<1> QED BY <1>5, <1>8
    DEF Interface!CloneConn, Interface!Replace, Interface!NoConnections, Counts

LEMMA InterfaceStep ==
  ASSUME HeldPortsRight, [PortsNext]_portVars
  PROVE  Interface!Next \/ Counts' = Counts
<1>1. PortShape
  BY PortsTypeParts DEF HeldPortsRight
<1>2. ASSUME ports' = ports, pccs' = pccs PROVE Counts' = Counts
  BY <1>2 DEF Counts, Counted, AllPorts, Elems
<1>3. ASSUME NEW u \in PortIds, NEW n \in Names, NEW d \in Dirs, PortAdd(u, n, d)
      PROVE  Interface!Next
  BY <1>1, <1>3, AddImplements DEF Interface!Next
<1>4. ASSUME NEW n \in Names, PortRm(n) PROVE Interface!Next
  BY <1>1, <1>4, RemovingKeeps, RemoveImplements DEF Interface!Next
<1>5. ASSUME NEW o \in Uids, NEW q \in Uids, NEW i \in IBlocks, PortsConnectUni(o, q, i)
      PROVE  Interface!Next
  BY <1>1, <1>5, ConnectImplements DEF PortsConnectUni, Interface!Next
<1>6. ASSUME NEW o \in Uids, NEW q \in Uids, NEW i \in IBlocks, PortsDisconnectUni(o, q, i)
      PROVE  Interface!Next
  BY <1>1, <1>6, DisconnectImplements DEF Interface!Next
<1>7. ASSUME NEW m \in Names, NEW n \in Names, NEW i \in IBlocks, ConnUni(m, n, i)
      PROVE  Interface!Next
  BY <1>1, <1>7, ConnUniEnds, ConnectImplements DEF Interface!Next
<1>8. ASSUME NEW u \in PortIds, NEW n \in Names, NEW i \in IBlocks, NEW j \in IBlocks,
             PortCloneConn(u, n, i, j)
      PROVE  Interface!Next
  BY <1>1, <1>8, CloneImplements DEF Interface!Next
<1>9. ASSUME NEW p \in pccs, CollectPort(p) PROVE Interface!Next
  BY <1>1, <1>9, CollectingKeeps, RemoveImplements DEF Interface!Next
<1>10. CASE BlockStart \/ BlockStop \/ UNCHANGED portVars
  BY <1>2, <1>10 DEF BlockStart, BlockStop, portVars
<1>11. CASE \/ \E i \in IBlocks : IBlockStart(i) \/ IBlockStop(i) \/ IBlockUnload(i)
            \/ \E u \in Uids : PortWrite(u)
            \/ Read
  BY <1>2, <1>11 DEF IBlockStart, IBlockStop, IBlockUnload, PortWrite, Read, PortRead
<1> QED BY <1>3, <1>4, <1>5, <1>6, <1>7, <1>8, <1>9, <1>10, <1>11 DEF PortsNext

(* Adding, removing, connecting and disconnecting affect the named port    *)
(* and interaction only, whatever order the arrays have got into.          *)
THEOREM InterfaceImplemented == PortsSpec => ImplementsInterface
<1>1. PortsInit => Interface!Init
  <2>1. PortsInit => AllPorts = {}
    BY DEF PortsInit, AllPorts, Elems
  <2> QED BY <2>1 DEF Interface!Init
<1>2. HeldPortsRight /\ [PortsNext]_portVars => [Interface!Next]_({Counted(p) : p \in AllPorts})
  BY InterfaceStep DEF Counts
<1> QED BY <1>1, <1>2, HeldPorts, PTL DEF PortsSpec, ImplementsInterface, Interface!Spec

-----------------------------------------------------------------------------
(* One sample at most, from the first interaction that has one.            *)
LEMMA ReadStepTakesOne ==
  ASSUME HeldPortsRight, Faulty = {}
  PROVE  TakesOne
<1>1. PortShape /\ IBlocksTyped
  BY PortsTypeParts DEF HeldPortsRight
<1>2. SUFFICES ASSUME NEW u \in Uids, PortRead(u)
               PROVE  LET taken == {i \in IBlocks : buf'[i] # buf[i]}
                      IN  /\ pret' # 0 <=> HasData(Port(u))
                          /\ Cardinality(taken) = IF HasData(Port(u)) THEN 1 ELSE 0
                          /\ \A i \in taken : buf'[i] = buf[i] - 1
  BY DEF TakesOne, HasData
<1> DEFINE taken == {i \in IBlocks : buf'[i] # buf[i]}
<1>3. PICK arr : arr = Port(u).in_interaction
  OBVIOUS
<1>4. Cardinality({}) = 0
  BY FS_EmptySet
<1>5. CASE ~ HasData(Port(u)) /\ pret' = 0 /\ UNCHANGED buf
  <2>1. taken = {}
    BY <1>5
  <2> QED BY <1>4, <1>5, <2>1
<1>6. CASE arr = NULL
  <2>1. ~ HasData(Port(u)) /\ pret' = 0 /\ UNCHANGED buf
    BY <1>2, <1>3, <1>6 DEF PortRead, HasData
  <2> QED BY <1>5, <2>1
<1>7. CASE arr # NULL
  <2>1. arr \in Seq(IBlocks)
    BY <1>1, <1>3, <1>7, PortFacts DEF PortSet, Arrays
  <2>2. \A i \in IBlocks : buf[i] \in 0 .. BufferLen /\ buf[i] \in Int
    BY <1>1, PortBoundsAssumption DEF IBlocksTyped
  <2>3. \A i \in IBlocks : ReadResults(i) = {IF buf[i] > 0 THEN 1 ELSE 0}
    BY DEF ReadResults
  <2>4. HasData(Port(u)) <=> \E k \in Asked(arr) : buf[arr[k]] > 0
    BY <1>3, <1>7 DEF HasData, Asked
  <2>5. \A k \in Asked(arr) : arr[k] \in IBlocks
    BY <2>1 DEF Asked
  <2>6. CASE /\ \A k \in Asked(arr) : 0 \in ReadResults(arr[k])
             /\ pret' = 0 /\ UNCHANGED buf
    <3>1. ~ HasData(Port(u))
      BY <2>3, <2>4, <2>5, <2>6
    <3> QED BY <1>5, <2>6, <3>1
  <2>7. ASSUME NEW k \in Asked(arr), NEW r \in ReadResults(arr[k]) \ {0},
               pret' = r % Modulus,
               buf' = [buf EXCEPT ![arr[k]] = IF r > 0 THEN @ - 1 ELSE @]
        PROVE  /\ pret' # 0 <=> HasData(Port(u))
               /\ Cardinality(taken) = IF HasData(Port(u)) THEN 1 ELSE 0
               /\ \A i \in taken : buf'[i] = buf[i] - 1
    <3>1. PICK i : i = arr[k]
      OBVIOUS
    <3>2. i \in IBlocks /\ buf[i] > 0 /\ r = 1
      BY <2>3, <2>5, <2>7, <3>1
    <3>3. HasData(Port(u))
      BY <2>4, <3>1, <3>2
    <3>4. Modulus \in Nat /\ Modulus > 1
      BY PortBoundsAssumption
    <3>5. 1 % Modulus = 1
      BY <3>4
    <3>6. pret' = 1
      BY <2>7, <3>2, <3>5
    <3>7. buf \in [IBlocks -> 0 .. BufferLen] /\ buf[i] \in Int
      BY <1>1, <2>2, <3>2 DEF IBlocksTyped
    <3>8. \A l \in IBlocks : buf'[l] = IF l = i THEN buf[l] - 1 ELSE buf[l]
      BY <2>7, <3>1, <3>2, <3>7
    <3>9. taken = {i}
      BY <3>2, <3>7, <3>8
    <3>10. Cardinality({i}) = 1
      BY FS_Singleton
    <3> QED BY <3>3, <3>6, <3>8, <3>9, <3>10
  <2>8. \/ /\ \A k \in Asked(arr) : 0 \in ReadResults(arr[k])
           /\ pret' = 0 /\ UNCHANGED buf
        \/ \E k \in Asked(arr) : \E r \in ReadResults(arr[k]) \ {0} :
             /\ pret' = r % Modulus
             /\ buf' = [buf EXCEPT ![arr[k]] = IF r > 0 THEN @ - 1 ELSE @]
    BY <1>2, <1>3, <1>7 DEF PortRead
  <2> QED BY <2>6, <2>7, <2>8
<1> QED BY <1>6, <1>7

(* Where no read hook fails, a read succeeds and takes one sample whenever *)
(* an active interaction of the port has one.                              *)
THEOREM ReadsTakeOne == Faulty = {} => (PortsSpec => ReadTakesOne)
<1>1. SUFFICES ASSUME Faulty = {} PROVE PortsSpec => ReadTakesOne
  OBVIOUS
<1>2. HeldPortsRight /\ [PortsNext]_portVars => [TakesOne]_portVars
  BY <1>1, ReadStepTakesOne
<1> QED BY <1>2, HeldPorts, PTL DEF PortsSpec, ReadTakesOne

-----------------------------------------------------------------------------
(***************************************************************************)
(* The logger: the list of blocks, buffers and connections.                *)
(***************************************************************************)
(* Where a block is in a list that has it once. *)
LEMMA PositionFacts ==
  ASSUME NEW o, NEW b \in Elems(o)
  PROVE  Position(o, b) \in DOMAIN o /\ o[Position(o, b)] = b
BY DEF Elems, Position

(* A list without one of its blocks. *)
LEMMA UnlinkedList ==
  ASSUME NEW S, NEW o \in Seq(S), NEW b \in Elems(o),
         \A p, q \in DOMAIN o : o[p] = o[q] => p = q
  PROVE  LET u == Unlinked(o, b)
         IN  /\ u \in Seq(S) /\ Len(u) = Len(o) - 1 /\ Len(o) \in Nat \ {0}
             /\ \A p \in DOMAIN u : IF p < Position(o, b) THEN p \in DOMAIN o /\ u[p] = o[p]
                                    ELSE p + 1 \in DOMAIN o /\ u[p] = o[p + 1]
             /\ Elems(u) = Elems(o) \ {b}
             /\ \A p, q \in DOMAIN u : u[p] = u[q] => p = q
<1>1. PICK k : k = Position(o, b)
  OBVIOUS
<1>2. k \in 1 .. Len(o) /\ o[k] = b /\ Len(o) \in Nat /\ DOMAIN o = 1 .. Len(o)
      /\ \A p \in 1 .. Len(o) : o[p] \in S
  BY <1>1, PositionFacts
<1>3. PICK u : u = Unlinked(o, b)
  OBVIOUS
<1>4. u = [p \in 1 .. Len(o) - 1 |-> IF p < k THEN o[p] ELSE o[p + 1]]
  BY <1>1, <1>3 DEF Unlinked
<1>5. Len(o) \in Nat \ {0} /\ Len(o) - 1 \in Nat
  BY <1>2
<1>6. \A p \in 1 .. Len(o) - 1 : (IF p < k THEN o[p] ELSE o[p + 1]) \in S
  BY <1>2
<1>7. u \in Seq(S) /\ Len(u) = Len(o) - 1 /\ DOMAIN u = 1 .. Len(o) - 1
  BY <1>4, <1>5, <1>6
<1>8. \A p \in 1 .. Len(o) - 1 : u[p] = IF p < k THEN o[p] ELSE o[p + 1]
  BY <1>4
<1>9. \A p \in DOMAIN u : IF p < k THEN p \in DOMAIN o /\ u[p] = o[p]
                          ELSE p + 1 \in DOMAIN o /\ u[p] = o[p + 1]
  BY <1>2, <1>5, <1>7, <1>8
<1>10. \A p, q \in DOMAIN u : u[p] = u[q] => p = q
  BY <1>2, <1>5, <1>7, <1>9
<1>11. Elems(u) = Elems(o) \ {b}
  <2>1. ASSUME NEW x \in Elems(u) PROVE x \in Elems(o) \ {b}
    <3>1. PICK p \in DOMAIN u : u[p] = x
      BY DEF Elems
    <3>2. PICK q \in DOMAIN o : o[q] = x /\ q # k
      BY <1>2, <1>7, <1>9, <3>1
    <3> QED BY <1>2, <3>2 DEF Elems
  <2>2. ASSUME NEW x \in Elems(o), x # b PROVE x \in Elems(u)
    <3>1. PICK q \in DOMAIN o : o[q] = x
      BY DEF Elems
    <3>2. q # k /\ q \in 1 .. Len(o)
      BY <1>2, <2>2, <3>1
    <3>3. CASE q < k
      BY <1>2, <1>5, <1>7, <1>8, <3>1, <3>2, <3>3 DEF Elems
    <3>4. CASE q > k
      <4>1. q - 1 \in DOMAIN u /\ ~ (q - 1 < k) /\ (q - 1) + 1 = q
        BY <1>2, <1>5, <1>7, <3>2, <3>4
      <4>2. u[q - 1] = x
        BY <1>7, <1>8, <3>1, <4>1
      <4> QED BY <4>1, <4>2 DEF Elems
    <3> QED BY <1>2, <3>2, <3>3, <3>4
  <2> QED BY <2>1, <2>2
<1> QED BY <1>1, <1>3, <1>5, <1>7, <1>9, <1>10, <1>11

(* Connecting an interaction and disconnecting it. *)
LEMMA ArrayAdded ==
  ASSUME NEW S, NULL \notin Seq(S), NEW arr \in {NULL} \cup Seq(S), NEW i \in S
  PROVE  /\ ArrayBlockAdd(arr, i) \in Seq(S) /\ ArrayBlockAdd(arr, i) # NULL
         /\ \A j : Connected(ArrayBlockAdd(arr, i), j) <=> Connected(arr, j) \/ j = i
         /\ (/\ ~ Connected(arr, i)
             /\ arr # NULL => \A p, q \in DOMAIN arr : arr[p] = arr[q] => p = q) =>
              \A p, q \in DOMAIN ArrayBlockAdd(arr, i) :
                ArrayBlockAdd(arr, i)[p] = ArrayBlockAdd(arr, i)[q] => p = q
         /\ arr = NULL => ArrayBlockAdd(arr, i) = <<i>>
<1>1. CASE arr = NULL
  <2>1. PICK a : a = <<i>>
    OBVIOUS
  <2>2. a \in Seq(S) /\ DOMAIN a = {1} /\ a[1] = i /\ a # NULL
    <3>1. a \in Seq(S) /\ Len(a) = 1 /\ a[1] = i
      BY <2>1
    <3>2. DOMAIN a = 1 .. 1 /\ 1 .. 1 = {1}
      BY <3>1
    <3> QED BY <3>1, <3>2
  <2>3. ArrayBlockAdd(arr, i) = a
    BY <1>1, <2>1 DEF ArrayBlockAdd
  <2>4. \A j : Connected(a, j) <=> j = i
    BY <2>2 DEF Connected
  <2>5. \A j : ~ Connected(arr, j)
    BY <1>1 DEF Connected
  <2> QED BY <2>1, <2>2, <2>3, <2>4, <2>5
<1>2. CASE arr # NULL
  <2>1. arr \in Seq(S) /\ Len(arr) \in Nat /\ DOMAIN arr = 1 .. Len(arr)
    BY <1>2
  <2>2. PICK a : a = Append(arr, i)
    OBVIOUS
  <2>3. /\ a \in Seq(S) /\ DOMAIN a = 1 .. Len(arr) + 1 /\ a[Len(arr) + 1] = i
        /\ \A p \in 1 .. Len(arr) : a[p] = arr[p]
    BY <2>1, <2>2
  <2>4. ArrayBlockAdd(arr, i) = a /\ a # NULL
    BY <1>2, <2>2, <2>3 DEF ArrayBlockAdd
  <2>5. \A p : p \in DOMAIN a <=> p \in DOMAIN arr \/ p = Len(arr) + 1
    BY <2>1, <2>3
  <2>6. \A j : Connected(a, j) <=> Connected(arr, j) \/ j = i
    BY <1>2, <2>1, <2>3, <2>4, <2>5 DEF Connected
  <2>7. ASSUME ~ Connected(arr, i), \A p, q \in DOMAIN arr : arr[p] = arr[q] => p = q
        PROVE  \A p, q \in DOMAIN a : a[p] = a[q] => p = q
    BY <1>2, <2>1, <2>3, <2>5, <2>7 DEF Connected
  <2> QED BY <1>2, <2>3, <2>4, <2>6, <2>7
<1> QED BY <1>1, <1>2

LEMMA ArrayRemoved ==
  ASSUME NEW S, NULL \notin Seq(S), NEW arr \in {NULL} \cup Seq(S), NEW i,
         arr # NULL => \A p, q \in DOMAIN arr : arr[p] = arr[q] => p = q
  PROVE  /\ ArrayBlockRm(arr, i) \in {NULL} \cup Seq(S)
         /\ ~ Connected(ArrayBlockRm(arr, i), i)
         /\ \A j : Connected(ArrayBlockRm(arr, i), j) => Connected(arr, j)
         /\ ArrayBlockRm(arr, i) # NULL => \A p, q \in DOMAIN ArrayBlockRm(arr, i) :
              ArrayBlockRm(arr, i)[p] = ArrayBlockRm(arr, i)[q] => p = q
<1>1. CASE ~ Connected(arr, i)
  BY <1>1 DEF ArrayBlockRm
<1>2. CASE Connected(arr, i)
  <2>1. arr \in Seq(S) /\ arr # NULL /\ Len(arr) \in Nat /\ DOMAIN arr = 1 .. Len(arr)
    BY <1>2 DEF Connected
  <2>2. PICK k : k = LastMatch(arr, i)
    OBVIOUS
  <2>3. k \in DOMAIN arr /\ arr[k] = i
    BY <1>2, <2>1, <2>2, LastMatchFacts
  <2>4. PICK a : a = MoveLastInto(arr, k)
    OBVIOUS
  <2>5. /\ a \in Seq(S) /\ Len(a) = Len(arr) - 1 /\ Len(arr) \in Nat \ {0}
        /\ \A j \in DOMAIN a : j \in DOMAIN arr /\ a[j] = arr[IF j = k THEN Len(arr) ELSE j]
    BY <2>1, <2>3, <2>4, MovedLast
  <2>6. ArrayBlockRm(arr, i) = a /\ a # NULL /\ DOMAIN a = 1 .. Len(arr) - 1
    BY <1>2, <2>2, <2>4, <2>5 DEF ArrayBlockRm
  <2>7. \A p, q \in DOMAIN a : a[p] = a[q] => p = q
    BY <2>1, <2>3, <2>5, <2>6
  <2>8. \A j : Connected(a, j) => Connected(arr, j)
    BY <2>1, <2>3, <2>5, <2>6 DEF Connected
  <2>9. \A j \in DOMAIN a : a[j] # i
    BY <2>1, <2>3, <2>5, <2>6
  <2> QED BY <2>5, <2>6, <2>7, <2>8, <2>9 DEF Connected
<1> QED BY <1>1, <1>2

(* The port that is made for an entry: it is the last one, has the entry's *)
(* number as its name, and is connected if no other one has that name.     *)
LEMMA PortForFacts ==
  ASSUME NEW i \in Interactions, lports \in Seq(LogPorts), rconf \in Seq(Entries)
  PROVE  /\ PortFor(i) \in Seq(LogPorts) /\ Len(PortFor(i)) = Len(lports) + 1
         /\ \A j \in 1 .. Len(lports) : PortFor(i)[j].name = lports[j].name
         /\ PortFor(i)[Len(lports) + 1].name = Len(rconf) + 1
         /\ \A m : NamedIn(lports, m) \/ m = Len(rconf) + 1 => NamedIn(PortFor(i), m)
         /\ ~ NamedIn(lports, Len(rconf) + 1) =>
              /\ \A j \in 1 .. Len(lports) : PortFor(i)[j] = lports[j]
              /\ PortFor(i)[Len(lports) + 1].in_interaction = <<i>>
<1>1. PICK n : n = Len(rconf) + 1
  OBVIOUS
<1>2. n \in Nat \ {0} /\ Len(lports) \in Nat /\ DOMAIN lports = 1 .. Len(lports)
      /\ \A j \in 1 .. Len(lports) : lports[j] \in LogPorts
  BY <1>1
<1>3. PICK e : e = [name |-> n, in_interaction |-> NULL]
  OBVIOUS
<1>4. e \in LogPorts /\ e.name = n /\ e.in_interaction = NULL
  BY <1>2, <1>3 DEF LogPorts
<1>5. PICK a : a = Append(lports, e)
  OBVIOUS
<1>6. /\ a \in Seq(LogPorts) /\ Len(a) = Len(lports) + 1 /\ DOMAIN a = 1 .. Len(lports) + 1
      /\ a[Len(lports) + 1] = e /\ \A j \in 1 .. Len(lports) : a[j] = lports[j]
  BY <1>2, <1>4, <1>5
<1>7. Len(lports) + 1 \in DOMAIN a
  BY <1>2, <1>6
<1>8. NamedIn(a, n)
  BY <1>4, <1>6, <1>7 DEF NamedIn
<1>9. PICK k : k = Lookup(a, n)
  OBVIOUS
<1>10. k \in DOMAIN a /\ a[k].name = n
  BY <1>6, <1>8, <1>9, LookupFacts
<1>11. a[k] \in LogPorts /\ a[k].in_interaction \in {NULL} \cup Seq(Interactions)
  <2>1. a[k] \in LogPorts
    BY <1>6, <1>10
  <2> QED BY <2>1 DEF LogPorts
<1>12. PICK x : x = ArrayBlockAdd(a[k].in_interaction, i)
  OBVIOUS
<1>13. x \in Seq(Interactions) /\ (a[k].in_interaction = NULL => x = <<i>>)
  BY <1>11, <1>12, ArrayAdded, LogNamesAssumption
<1>14. PICK y : y = [a[k] EXCEPT !.in_interaction = x]
  OBVIOUS
<1>15. y \in LogPorts /\ y.name = n /\ y.in_interaction = x
  BY <1>10, <1>11, <1>13, <1>14 DEF LogPorts
<1>16. PICK r : r = [a EXCEPT ![k] = y]
  OBVIOUS
<1>17. /\ r \in Seq(LogPorts) /\ Len(r) = Len(a) /\ r[k] = y
       /\ \A j \in DOMAIN a : j # k => r[j] = a[j]
  BY <1>6, <1>10, <1>15, <1>16
<1>18. PortFor(i) = r
  BY <1>1, <1>3, <1>5, <1>9, <1>12, <1>14, <1>16 DEF PortFor, ConnectIn
<1>19. ASSUME NEW j \in 1 .. Len(lports) PROVE r[j].name = lports[j].name
  <2>1. j \in DOMAIN a /\ a[j] = lports[j]
    BY <1>2, <1>6
  <2>2. CASE j = k
    BY <1>10, <1>15, <1>17, <2>1, <2>2
  <2>3. CASE j # k
    BY <1>17, <2>1, <2>3
  <2> QED BY <2>2, <2>3
<1>20. r[Len(lports) + 1].name = n
  BY <1>4, <1>6, <1>7, <1>15, <1>17
<1>21. ASSUME ~ NamedIn(lports, n)
       PROVE  /\ \A j \in 1 .. Len(lports) : r[j] = lports[j]
              /\ r[Len(lports) + 1].in_interaction = <<i>>
  <2>1. k = Len(lports) + 1
    BY <1>2, <1>6, <1>10, <1>21 DEF NamedIn
  <2>2. x = <<i>>
    BY <1>4, <1>6, <1>13, <2>1
  <2>3. \A j \in 1 .. Len(lports) : r[j] = lports[j]
    <3>1. ASSUME NEW j \in 1 .. Len(lports) PROVE r[j] = lports[j]
      <4>1. j \in DOMAIN a /\ j # k /\ a[j] = lports[j]
        BY <1>2, <1>6, <2>1
      <4> QED BY <1>17, <4>1
    <3> QED BY <3>1
  <2> QED BY <1>15, <1>17, <2>1, <2>2, <2>3
<1>22. ASSUME NEW m, NamedIn(lports, m) \/ m = n PROVE NamedIn(r, m)
  <2>1. DOMAIN r = 1 .. Len(lports) + 1
    BY <1>2, <1>6, <1>17
  <2>2. CASE m = n
    BY <1>2, <1>20, <2>1, <2>2 DEF NamedIn
  <2>3. CASE NamedIn(lports, m)
    <3>1. PICK j \in 1 .. Len(lports) : lports[j].name = m
      BY <1>2, <2>3 DEF NamedIn
    <3>2. j \in DOMAIN r /\ r[j].name = m
      BY <1>2, <1>19, <2>1, <3>1
    <3> QED BY <3>2 DEF NamedIn
  <2> QED BY <1>22, <2>2, <2>3
<1> QED BY <1>1, <1>6, <1>17, <1>18, <1>19, <1>20, <1>21, <1>22

-----------------------------------------------------------------------------
(* Entries whose local port exists, whose reported port is connected, and  *)
(* whose interaction exists, while cleanup takes them away one by one.     *)
Cleaning   == hook \in {"disconnect", "remove", "unload"}
HasPort(k) == /\ k \in DOMAIN rconf
              /\ hook \in {"disconnect", "remove"} => k >= at
              /\ hook = "unload" => k > at
HasOut(k)  == /\ k \in DOMAIN rconf /\ rconf[k].kind = "port"
              /\ hook = "disconnect" => k >= at
              /\ hook \in {"remove", "unload"} => k > at
HasInter(k) == k \in DOMAIN rconf /\ rconf[k].kind = "port" /\ (Cleaning => k >= at)
Running    == state[Logger] \in {"INACTIVE", "ACTIVE"}

(* What state the logger is in while each of its hooks runs. *)
HookInv ==
  /\ hook = "init" => state[Logger] = "PREINIT" /\ pass = "run"
  /\ hook = "step" => state[Logger] = "ACTIVE"
  /\ Cleaning => /\ state[Logger] = "INACTIVE" /\ pass \in {"run", "cleanup"}
                 /\ pass = "cleanup" => cur = Logger
                 /\ at <= Len(rconf) + 1
  /\ hook \in {"remove", "unload"} => at <= Len(rconf)
  /\ hook = "unload" => rconf[at].kind = "port"
  /\ Running => /\ Len(sample) = Len(rconf)
                /\ \A k \in DOMAIN rconf : rconf[k].kind \in {"iblock", "port"}
  /\ ~ Running => sample = <<>>
  /\ ~ Running /\ hook # "init" => rconf = <<>>

(* The interactions of the entries. *)
EntryInv ==
  /\ \A k \in DOMAIN rconf :
       /\ rconf[k].kind \in {"iblock", "port", "inport"}
       /\ rconf[k].kind = "iblock" => rconf[k].ib = Inter
       /\ rconf[k].kind = "port" => rconf[k].ib \in Pool
  /\ \A j, k \in DOMAIN rconf :
       rconf[j].kind = "port" /\ rconf[k].kind = "port" /\ rconf[j].ib = rconf[k].ib => j = k
  /\ pass \in {"run", "stop", "cleanup"} =>
       \A k \in DOMAIN rconf : HasInter(k) => state[rconf[k].ib] # "none"

(* A source is connected to interactions that exist, to each one once, and *)
(* to those of entries as the entry says.                                  *)
ConnInv ==
  /\ \A b \in Sources : outs[b] # NULL =>
       \A p, q \in DOMAIN outs[b] : outs[b][p] = outs[b][q] => p = q
  /\ \A b, c \in Sources, i \in Pool : Connected(outs[b], i) /\ Connected(outs[c], i) => b = c
  /\ pass \in {"run", "stop", "cleanup"} =>
       \A b \in Sources, i \in Pool : Connected(outs[b], i) => state[i] # "none"
  /\ \A b \in Sources, k \in DOMAIN rconf :
       rconf[k].kind = "port" /\ Connected(outs[b], rconf[k].ib) => b = rconf[k].src /\ HasOut(k)

(* The pass that stops the blocks leaves none active. *)
StopInv ==
  /\ pass \in {"cleanup", "rm", "done"} => \A b \in LogBlocks : state[b] # "ACTIVE"
  /\ pass = "stop" =>
       /\ cur # NULL => cur \in Elems(order) /\ nxt = Succ(order, cur)
       /\ \A p \in DOMAIN order : (cur = NULL \/ p < Position(order, cur)) =>
            state[order[p]] # "ACTIVE"

(* An entry's interaction has samples of its source since init, all of     *)
(* them in the order of writing.                                           *)
BufferInv ==
  /\ \A b \in Sources : base[b] <= written[b]
  /\ \A i \in Pool : state[i] = "none" => lbuf[i] = <<>>
  /\ \A k \in DOMAIN rconf : rconf[k].kind = "port" => \A p \in DOMAIN lbuf[rconf[k].ib] :
       /\ lbuf[rconf[k].ib][p].src = rconf[k].src
       /\ lbuf[rconf[k].ib][p].nr > base[rconf[k].src]
  /\ \A i \in Interactions :
       \A p \in DOMAIN lbuf[i] : lbuf[i][p].nr <= written[lbuf[i][p].src]
  /\ \A i \in Interactions : \A p, q \in DOMAIN lbuf[i] :
       p < q /\ lbuf[i][p].src = lbuf[i][q].src => lbuf[i][p].nr < lbuf[i][q].nr

(* Every entry that has a port finds one of its name. *)
NamedInv ==
  /\ \A k \in DOMAIN rconf : HasPort(k) /\ rconf[k].kind # "inport" => NamedIn(lports, k)
  /\ Running /\ hook \in {"none", "step"} =>
       \A k \in DOMAIN rconf : rconf[k].pinv \in DOMAIN lports

(* As long as no init failed, the logger has the ports of its entries, and *)
(* connections and interactions are those of its entries.                  *)
OwnPorts == ~ broken =>
  /\ \A k \in DOMAIN rconf : rconf[k].kind # "inport"
  /\ \A j \in DOMAIN lports :
       HasPort(lports[j].name) /\ lports[j].in_interaction = <<rconf[lports[j].name].ib>>
  /\ \A j, l \in DOMAIN lports : lports[j].name = lports[l].name => j = l
  /\ Running /\ hook \in {"none", "step"} =>
       \A k \in DOMAIN rconf : lports[rconf[k].pinv].name = k

OwnInters == ~ broken =>
  /\ \A b \in Sources, i \in Pool : Connected(outs[b], i) =>
       \E k \in DOMAIN rconf : HasOut(k) /\ rconf[k].ib = i
  /\ \A i \in Pool : state[i] # "none" => \E k \in DOMAIN rconf : HasInter(k) /\ rconf[k].ib = i

(* What was logged is older than what is still in the interaction. *)
SampleInv == ~ broken => \A k \in DOMAIN sample : sample[k] # NULL =>
  /\ rconf[k].kind = "port" => sample[k].src = rconf[k].src /\ sample[k].nr > base[rconf[k].src]
  /\ sample[k].nr <= written[sample[k].src]
  /\ \A p \in DOMAIN lbuf[rconf[k].ib] :
       lbuf[rconf[k].ib][p].src = sample[k].src => lbuf[rconf[k].ib][p].nr > sample[k].nr

(* Until blocks are removed, the list begins with the blocks that were     *)
(* there before, and the saved successor is one of them.                   *)
FirstBlocks(o) ==
  /\ Len(o) <= Len(order) /\ \A p \in DOMAIN o : order[p] = o[p]
  /\ \A p \in DOMAIN order : p > Len(o) => order[p] \in Pool
ListInv == pass \in {"run", "stop", "cleanup"} => \E o \in Orders : FirstBlocks(o)

VisitInv ==
  /\ pass \in {"run", "done"} => cur = NULL
  /\ cur # NULL => /\ cur \in Elems(order)
                   /\ IF Cleaning THEN nxt \in Others ELSE nxt = Succ(order, cur)

LogInv ==
  /\ LogTypeOK /\ HookInv /\ EntryInv /\ ConnInv /\ StopInv /\ BufferInv /\ NamedInv
  /\ OwnPorts /\ OwnInters /\ SampleInv /\ ListInv /\ (LoggerFollowed => VisitInv)

(* What the types of the logger's variables say in other words. *)
LEMMA LogTypes ==
  ASSUME LogTypeOK
  PROVE  /\ Len(rconf) \in Nat /\ DOMAIN rconf = 1 .. Len(rconf)
         /\ \A k \in 1 .. Len(rconf) : /\ rconf[k] \in Entries /\ rconf[k].kind \in Kinds
                                       /\ rconf[k].src \in Sources
         /\ Len(lports) \in Nat /\ DOMAIN lports = 1 .. Len(lports)
         /\ \A j \in 1 .. Len(lports) : lports[j] \in LogPorts /\ lports[j].name \in Nat \ {0}
         /\ Len(sample) \in Nat /\ DOMAIN sample = 1 .. Len(sample)
         /\ \A k \in 1 .. Len(sample) : sample[k] \in Samples \cup {NULL}
         /\ Len(order) \in Nat /\ DOMAIN order = 1 .. Len(order)
         /\ \A p \in 1 .. Len(order) : order[p] \in LogBlocks /\ state[order[p]] # "none"
         /\ at \in Nat \ {0}
<1>1. /\ rconf \in Seq(Entries) /\ lports \in Seq(LogPorts) /\ sample \in Seq(Samples \cup {NULL})
      /\ order \in Seq(LogBlocks) /\ at \in Nat \ {0}
  BY DEF LogTypeOK, ListOK, EntriesOK, HooksOK
<1>2. ASSUME NEW k \in 1 .. Len(rconf)
      PROVE  rconf[k] \in Entries /\ rconf[k].kind \in Kinds /\ rconf[k].src \in Sources
  <2>1. rconf[k] \in Entries
    BY <1>1
  <2> QED BY <2>1 DEF Entries
<1>3. ASSUME NEW j \in 1 .. Len(lports)
      PROVE  lports[j] \in LogPorts /\ lports[j].name \in Nat \ {0}
  <2>1. lports[j] \in LogPorts
    BY <1>1
  <2> QED BY <2>1 DEF LogPorts
<1>4. ASSUME NEW p \in 1 .. Len(order) PROVE order[p] \in LogBlocks /\ state[order[p]] # "none"
  BY <1>1 DEF LogTypeOK, ListOK, Elems
<1>5. Len(rconf) \in Nat /\ DOMAIN rconf = 1 .. Len(rconf)
  BY <1>1
<1>6. Len(lports) \in Nat /\ DOMAIN lports = 1 .. Len(lports)
  BY <1>1
<1>7. /\ Len(sample) \in Nat /\ DOMAIN sample = 1 .. Len(sample)
      /\ \A k \in 1 .. Len(sample) : sample[k] \in Samples \cup {NULL}
  BY <1>1
<1>8. Len(order) \in Nat /\ DOMAIN order = 1 .. Len(order)
  BY <1>1
<1> QED BY <1>1, <1>2, <1>3, <1>4, <1>5, <1>6, <1>7, <1>8

(* NULL is no sequence of interactions of the pool either. *)
LEMMA SeqOfPool == NULL \notin Seq(Pool)
<1>1. Seq(Pool) \subseteq Seq(Interactions)
  BY DEF Interactions
<1> QED BY <1>1, LogNamesAssumption

(* An entry that goes into the list comes last. *)
LEMMA ListedFacts ==
  ASSUME LogTypeOK, NEW ib \in Interactions \cup {NULL}, todo # <<>>, Listed(ib)
  PROVE  /\ todo' \in Seq([kind : Kinds, src : Sources]) /\ rconf' \in Seq(Entries)
         /\ Len(rconf') = Len(rconf) + 1 /\ DOMAIN rconf' = 1 .. Len(rconf) + 1
         /\ \A k \in 1 .. Len(rconf) : rconf'[k] = rconf[k]
         /\ rconf'[Len(rconf) + 1].kind = Head(todo).kind
         /\ rconf'[Len(rconf) + 1].src = Head(todo).src /\ Head(todo).src \in Sources
         /\ rconf'[Len(rconf) + 1].ib = ib
<1>1. todo \in Seq([kind : Kinds, src : Sources]) /\ rconf \in Seq(Entries)
  BY DEF LogTypeOK, EntriesOK
<1>2. PICK h : h = Head(todo)
  OBVIOUS
<1>3. h \in [kind : Kinds, src : Sources] /\ Tail(todo) \in Seq([kind : Kinds, src : Sources])
  <2>1. PICK t : t = todo
    OBVIOUS
  <2>2. PICK R : R = [kind : Kinds, src : Sources]
    OBVIOUS
  <2>3. t \in Seq(R) /\ t # <<>>
    BY <1>1, <2>1, <2>2
  <2>4. Head(t) \in R /\ Tail(t) \in Seq(R)
    BY <2>3
  <2> QED BY <1>2, <2>1, <2>2, <2>4
<1>4. PICK e : e = [kind |-> h.kind, src |-> h.src, ib |-> ib, pinv |-> NULL]
  OBVIOUS
<1>5. e \in Entries /\ e.kind = h.kind /\ e.src = h.src /\ e.ib = ib /\ h.src \in Sources
  BY <1>3, <1>4 DEF Entries
<1>6. todo' = Tail(todo) /\ rconf' = Append(rconf, e)
  BY <1>2, <1>4 DEF Listed
<1>7. /\ rconf' \in Seq(Entries) /\ Len(rconf') = Len(rconf) + 1 /\ rconf'[Len(rconf) + 1] = e
      /\ \A k \in 1 .. Len(rconf) : rconf'[k] = rconf[k]
  BY <1>1, <1>5, <1>6
<1> QED BY <1>2, <1>3, <1>5, <1>6, <1>7

(* The ports after an entry was reported. *)
LEMMA ReportedPorts ==
  ASSUME LogTypeOK, HookInv, NamedInv, OwnPorts, NEW i \in Interactions,
         hook = "init", todo # <<>>, Head(todo).kind # "inport", Listed(i),
         lports' = PortFor(i), hook' = hook, broken' = broken, state'[Logger] = state[Logger]
  PROVE  (lports \in Seq(LogPorts))' /\ NamedInv' /\ OwnPorts'
<1>1. PICK n : n = Len(rconf)
  OBVIOUS
<1>2. PICK l : l = Len(lports)
  OBVIOUS
<1>3. n \in Nat /\ DOMAIN rconf = 1 .. n /\ l \in Nat /\ DOMAIN lports = 1 .. l
  BY <1>1, <1>2, LogTypes
<1>4. /\ DOMAIN rconf' = 1 .. n + 1 /\ \A k \in 1 .. n : rconf'[k] = rconf[k]
      /\ rconf'[n + 1].kind # "inport" /\ rconf'[n + 1].ib = i
  BY <1>1, ListedFacts
<1>5. rconf \in Seq(Entries) /\ lports \in Seq(LogPorts)
  BY DEF LogTypeOK, EntriesOK
<1>6. /\ lports' \in Seq(LogPorts) /\ Len(lports') = l + 1
      /\ \A j \in 1 .. l : lports'[j].name = lports[j].name
      /\ lports'[l + 1].name = n + 1
      /\ \A m : NamedIn(lports, m) \/ m = n + 1 => NamedIn(lports', m)
      /\ ~ NamedIn(lports, n + 1) =>
           \A j \in 1 .. l : lports'[j] = lports[j]
      /\ ~ NamedIn(lports, n + 1) => lports'[l + 1].in_interaction = <<i>>
  BY <1>1, <1>2, <1>5, PortForFacts
<1>7. DOMAIN lports' = 1 .. l + 1
  BY <1>3, <1>6
<1>8. ~ Running'
  BY DEF Running, HookInv
<1>9. NamedInv'
  <2>1. ASSUME NEW k \in 1 .. n + 1, rconf'[k].kind # "inport" PROVE NamedIn(lports', k)
    <3>1. CASE k = n + 1
      BY <1>6, <3>1
    <3>2. CASE k # n + 1
      <4>1. k \in 1 .. n
        BY <1>3, <3>2
      <4>2. NamedIn(lports, k)
        BY <1>3, <1>4, <2>1, <4>1 DEF NamedInv, HasPort
      <4> QED BY <1>6, <4>2
    <3> QED BY <3>1, <3>2
  <2> QED BY <1>4, <1>8, <2>1 DEF NamedInv
<1>10. ASSUME ~ broken PROVE OwnPorts'
  <2>1. \A j \in 1 .. l : lports[j].name \in 1 .. n
    BY <1>3, <1>10 DEF OwnPorts, HasPort
  <2>2. ~ NamedIn(lports, n + 1)
    BY <1>3, <2>1 DEF NamedIn
  <2>3. \A k \in DOMAIN rconf' : rconf'[k].kind # "inport"
    BY <1>3, <1>4, <1>10 DEF OwnPorts
  <2>4. ASSUME NEW j \in DOMAIN lports'
        PROVE  /\ lports'[j].name \in DOMAIN rconf'
               /\ lports'[j].in_interaction = <<rconf'[lports'[j].name].ib>>
    <3>1. CASE j = l + 1
      BY <1>3, <1>4, <1>6, <2>2, <3>1
    <3>2. CASE j # l + 1
      <4>1. j \in 1 .. l
        BY <1>3, <1>7, <3>2
      <4>2. lports[j].in_interaction = <<rconf[lports[j].name].ib>>
        BY <1>3, <1>10, <4>1 DEF OwnPorts
      <4>3. lports'[j] = lports[j]
        BY <1>6, <2>2, <4>1
      <4>4. lports'[j].name \in 1 .. n
        BY <2>1, <4>1, <4>3
      <4> QED BY <1>3, <1>4, <4>2, <4>3, <4>4
    <3> QED BY <3>1, <3>2
  <2>5. ASSUME NEW j \in DOMAIN lports', NEW k \in DOMAIN lports',
               lports'[j].name = lports'[k].name
        PROVE  j = k
    <3>1. \A p \in 1 .. l : lports'[p].name \in 1 .. n
      BY <1>6, <2>1
    <3>2. \A p, q \in 1 .. l : lports'[p].name = lports'[q].name => p = q
      BY <1>3, <1>6, <1>10 DEF OwnPorts
    <3>3. j \in 1 .. l \/ j = l + 1
      BY <1>3, <1>7
    <3>4. k \in 1 .. l \/ k = l + 1
      BY <1>3, <1>7
    <3> QED BY <1>3, <1>6, <2>5, <3>1, <3>2, <3>3, <3>4
  <2> QED BY <1>8, <2>3, <2>4, <2>5 DEF OwnPorts, HasPort
<1>11. CASE broken
  <2>1. broken'
    BY <1>11, Zenon
  <2> QED BY <1>6, <1>9, <2>1 DEF OwnPorts
<1> QED BY <1>6, <1>9, <1>10, <1>11

(* What one entry of a step does: nothing, or the oldest sample of an      *)
(* interaction of the entry's port is taken out and logged.                *)
LEMMA EntryEffect ==
  ASSUME LogTypeOK, HookInv, NamedInv, OwnPorts, LogEntry
  PROVE  /\ at \in 1 .. Len(rconf) /\ Len(sample) = Len(rconf) /\ DOMAIN sample = DOMAIN rconf
         /\ \/ lbuf' = lbuf /\ sample' = sample
            \/ \E i \in Interactions :
                 /\ lbuf[i] # <<>> /\ (~ broken => i = rconf[at].ib)
                 /\ sample' = [sample EXCEPT ![at] = Head(lbuf[i])]
                 /\ lbuf' = [lbuf EXCEPT ![i] = Tail(@)]
<1>1. at \in 1 .. Len(rconf) /\ DOMAIN rconf = 1 .. Len(rconf)
  <2>1. at <= Len(rconf) /\ at \in Nat \ {0} /\ Len(rconf) \in Nat
    BY LogTypes DEF LogEntry
  <2> QED BY <2>1, LogTypes
<1>2. hook = "step" /\ Running
  BY DEF LogEntry, HookInv, Running
<1>3. Len(sample) = Len(rconf) /\ DOMAIN sample = DOMAIN rconf
  BY <1>1, <1>2, LogTypes DEF HookInv
<1>4. PICK j : j = rconf[at].pinv
  OBVIOUS
<1>5. j \in DOMAIN lports
  BY <1>1, <1>2, <1>4 DEF NamedInv
<1>6. lports[j] \in LogPorts
  BY <1>5, LogTypes
<1>7. PICK s : s = lports[j].in_interaction
  OBVIOUS
<1>8. s \in {NULL} \cup Seq(Interactions) /\ s = Source(at)
  BY <1>4, <1>6, <1>7 DEF LogPorts, Source
<1>9. CASE s = NULL \/ Readable(at) = {}
  BY <1>1, <1>3, <1>8, <1>9 DEF LogEntry
<1>10. CASE s # NULL /\ Readable(at) # {}
  <2>1. s \in Seq(Interactions) /\ DOMAIN s = 1 .. Len(s) /\ Len(s) \in Nat
    BY <1>8, <1>10
  <2>2. Readable(at) \in SUBSET Nat /\ Readable(at) = {p \in DOMAIN s : HasSample(s[p])}
    BY <1>8, <2>1 DEF Readable
  <2>3. PICK p \in Readable(at) : \A q \in Readable(at) : p <= q
    BY <1>10, <2>2, LeastNumber
  <2>4. ASSUME NEW q \in 1 .. p - 1 PROVE ~ HasSample(s[q])
    <3>1. p \in 1 .. Len(s)
      BY <2>1, <2>2, <2>3
    <3>2. q \in DOMAIN s /\ ~ (p <= q)
      BY <2>1, <3>1
    <3> QED BY <2>2, <2>3, <3>2
  <2>5. p \in DOMAIN s /\ HasSample(s[p]) /\ \A q \in 1 .. p - 1 : ~ HasSample(s[q])
    BY <2>2, <2>3, <2>4
  <2>6. PICK f : f = FirstMatch(s, HasSample)
    OBVIOUS
  <2>7. f \in DOMAIN s /\ HasSample(s[f])
    BY <2>5, <2>6 DEF FirstMatch
  <2>8. s[f] \in Interactions /\ lbuf[s[f]] # <<>>
    BY <2>1, <2>7 DEF HasSample
  <2>9. ASSUME ~ broken PROVE s[f] = rconf[at].ib
    <3>1. lports[j].name = at
      BY <1>1, <1>2, <1>4, <2>9 DEF OwnPorts
    <3>2. s = <<rconf[at].ib>>
      BY <1>5, <1>7, <2>9, <3>1 DEF OwnPorts
    <3>3. f = 1
      BY <2>7, <3>2
    <3> QED BY <3>2, <3>3
  <2>10. /\ sample' = [sample EXCEPT ![at] = Head(lbuf[s[f]])]
         /\ lbuf' = [lbuf EXCEPT ![s[f]] = Tail(@)]
    <3>1. Source(at) # NULL /\ Readable(at) # {}
      BY <1>8, <1>10
    <3> QED BY <1>8, <2>6, <3>1 DEF LogEntry
  <2> QED BY <1>1, <1>3, <2>8, <2>9, <2>10
<1> QED BY <1>9, <1>10

(* The samples of an interaction, when one more is written to it. *)
LEMMA PutSample ==
  ASSUME LogTypeOK, BufferInv, NEW i \in Interactions, NEW b \in Sources, written[b] < MaxWrites
  PROVE  LET u == Put(lbuf[i], NextSample(b))
         IN  /\ u \in Seq(Samples) /\ Len(u) <= BuffLen
             /\ \A p \in DOMAIN u :
                  \/ u[p].src = b /\ u[p].nr = written[b] + 1
                  \/ \E q \in DOMAIN lbuf[i] : u[p] = lbuf[i][q]
             /\ \A p, q \in DOMAIN u : p < q /\ u[p].src = u[q].src => u[p].nr < u[q].nr
<1>1. PICK t : t = lbuf[i]
  OBVIOUS
<1>2. t \in Seq(Samples) /\ Len(t) <= BuffLen /\ DOMAIN t = 1 .. Len(t) /\ Len(t) \in Nat
  BY <1>1 DEF LogTypeOK, BuffersOK
<1>3. PICK x : x = NextSample(b)
  OBVIOUS
<1>4. x \in Samples /\ x.src = b /\ x.nr = written[b] + 1 /\ written[b] \in Nat
  <2>1. written[b] \in 0 .. MaxWrites /\ MaxWrites \in Nat
    BY LogBoundsAssumption DEF LogTypeOK, CountsOK
  <2>2. written[b] + 1 \in 1 .. MaxWrites /\ written[b] \in Nat
    BY <2>1
  <2> QED BY <1>3, <2>2 DEF NextSample, Samples
<1>5. PICK u : u = Put(t, x)
  OBVIOUS
<1>6. /\ u \in Seq(Samples) /\ Len(u) <= BuffLen /\ Len(u) \in Nat \ {0} /\ u[Len(u)] = x
      /\ \E d \in 0 .. 1 :
           \A p \in DOMAIN u : p < Len(u) => p + d \in DOMAIN t /\ u[p] = t[p + d]
  <2>1. CASE Len(t) = BuffLen
    <3>1. PICK v : v = Tail(t)
      OBVIOUS
    <3>2. Len(t) \in Nat \ {0}
      BY <1>2, <2>1, LogBoundsAssumption
    <3>3. v \in Seq(Samples) /\ Len(v) = Len(t) - 1 /\ \A p \in 1 .. Len(v) : v[p] = t[p + 1]
      BY <1>2, <3>1, <3>2
    <3>4. u = Append(v, x)
      BY <1>5, <2>1, <3>1 DEF Put
    <3>5. /\ u \in Seq(Samples) /\ Len(u) = Len(t) /\ u[Len(t)] = x
          /\ \A p \in 1 .. Len(t) - 1 : u[p] = v[p]
      <4>1. /\ u \in Seq(Samples) /\ Len(u) = Len(v) + 1 /\ u[Len(v) + 1] = x
            /\ \A p \in 1 .. Len(v) : u[p] = v[p]
        BY <1>4, <3>3, <3>4
      <4> QED BY <3>2, <3>3, <4>1
    <3>6. \A p \in DOMAIN u : p < Len(u) => p + 1 \in DOMAIN t /\ u[p] = t[p + 1]
      BY <1>2, <3>3, <3>5
    <3> QED BY <1>2, <3>2, <3>5, <3>6
  <2>2. CASE Len(t) # BuffLen
    <3>1. u = Append(t, x)
      BY <1>5, <2>2 DEF Put
    <3>2. /\ u \in Seq(Samples) /\ Len(u) = Len(t) + 1 /\ u[Len(t) + 1] = x
          /\ \A p \in 1 .. Len(t) : u[p] = t[p]
      BY <1>2, <1>4, <3>1
    <3>3. \A p \in DOMAIN u : p < Len(u) => p + 0 \in DOMAIN t /\ u[p] = t[p + 0]
      BY <1>2, <3>2
    <3>4. Len(u) \in Nat \ {0} /\ Len(u) <= BuffLen
      <4>1. PICK n \in Nat : n = Len(t)
        BY <1>2
      <4>2. n <= BuffLen /\ n # BuffLen /\ Len(u) = n + 1
        BY <1>2, <2>2, <3>2, <4>1
      <4> QED BY <4>2, LogBoundsAssumption
    <3> QED BY <3>2, <3>3, <3>4
  <2> QED BY <2>1, <2>2
<1>7. /\ u \in Seq(Samples) /\ Len(u) <= BuffLen /\ Len(u) \in Nat /\ DOMAIN u = 1 .. Len(u)
      /\ u[Len(u)] = x
  BY <1>6
<1>8. PICK d \in 0 .. 1 : \A p \in DOMAIN u : p < Len(u) => p + d \in DOMAIN t /\ u[p] = t[p + d]
  BY <1>6
<1>9. ASSUME NEW p \in DOMAIN u
      PROVE  (u[p].src = b /\ u[p].nr = written[b] + 1) \/ \E q \in DOMAIN t : u[p] = t[q]
  <2>1. p = Len(u) \/ p < Len(u)
    BY <1>7
  <2> QED BY <1>4, <1>7, <1>8, <2>1
<1>10. /\ \A p \in DOMAIN t : t[p].nr <= written[t[p].src]
       /\ \A p, q \in DOMAIN t : p < q /\ t[p].src = t[q].src => t[p].nr < t[q].nr
  BY <1>1 DEF BufferInv
<1>11. \A p \in DOMAIN t : t[p] \in Samples
  BY <1>2
<1>12. ASSUME NEW p \in DOMAIN u, NEW q \in DOMAIN u, p < q, u[p].src = u[q].src
       PROVE  u[p].nr < u[q].nr
  <2>1. p \in Nat /\ q \in Nat /\ d \in Nat /\ p < Len(u) /\ q <= Len(u)
    BY <1>7, <1>12
  <2>2. p + d \in DOMAIN t /\ u[p] = t[p + d]
    BY <1>8, <2>1
  <2>3. CASE q = Len(u)
    <3>1. t[p + d].nr <= written[b] /\ t[p + d].src = b
      BY <1>4, <1>7, <1>10, <1>12, <2>2, <2>3
    <3>2. t[p + d].nr \in Nat
      BY <1>11, <2>2 DEF Samples
    <3> QED BY <1>4, <1>7, <2>2, <2>3, <3>1, <3>2
  <2>4. CASE q # Len(u)
    <3>1. q + d \in DOMAIN t /\ u[q] = t[q + d] /\ p + d < q + d
      BY <1>7, <1>8, <1>12, <2>1, <2>4
    <3> QED BY <1>10, <1>12, <2>2, <3>1
  <2> QED BY <2>3, <2>4
<1> QED BY <1>1, <1>3, <1>5, <1>7, <1>9, <1>12

(* Whatever has a column has an entry with an interaction. *)
LEMMA ColumnEntry ==
  ASSUME LogTypeOK, HookInv, EntryInv, NEW k \in DOMAIN sample
  PROVE  /\ k \in DOMAIN rconf /\ rconf[k].kind \in {"iblock", "port"}
         /\ rconf[k].ib \in Interactions /\ Running /\ DOMAIN sample = DOMAIN rconf
<1>1. sample # <<>>
  BY LogTypes
<1>2. Running
  BY <1>1 DEF HookInv
<1>3. Len(sample) = Len(rconf) /\ \A j \in DOMAIN rconf : rconf[j].kind \in {"iblock", "port"}
  BY <1>2 DEF HookInv
<1>4. k \in DOMAIN rconf /\ DOMAIN sample = DOMAIN rconf
  BY <1>3, LogTypes
<1> QED BY <1>2, <1>3, <1>4 DEF EntryInv, Interactions

(* What a write to interactions of the logger preserves. *)
LEMMA WrittenSample ==
  ASSUME LogInv, NEW b \in Sources, written[b] < MaxWrites,
         written' = [written EXCEPT ![b] = @ + 1],
         lbuf' = [i \in Interactions |-> lbuf'[i]],
         \A i \in Interactions :
           \/ lbuf'[i] = lbuf[i]
           \/ /\ lbuf'[i] = Put(lbuf[i], NextSample(b))
              /\ i \in Pool => Connected(outs[b], i) /\ state[i] = "ACTIVE",
         state' = state, outs' = outs, UNCHANGED confVars
  PROVE  BuffersOK' /\ CountsOK' /\ BufferInv' /\ SampleInv'
<1>0. LogTypeOK /\ HookInv /\ EntryInv /\ ConnInv /\ BufferInv /\ SampleInv
  BY DEF LogInv
<1>a. written[b] \in Nat /\ written[b] + 1 \in 1 .. MaxWrites
  <2>1. written[b] \in 0 .. MaxWrites /\ MaxWrites \in Nat /\ written[b] < MaxWrites
    BY <1>0, LogBoundsAssumption DEF LogTypeOK, CountsOK
  <2> QED BY <2>1
<1>b. /\ written' \in [Sources -> 0 .. MaxWrites] /\ written'[b] = written[b] + 1
      /\ \A c \in Sources : c # b => written'[c] = written[c]
  BY <1>0, <1>a DEF LogTypeOK, CountsOK
<1>c. \A c \in Sources : written[c] \in Nat /\ written[c] <= written'[c]
  <2>1. \A c \in Sources : written[c] \in Nat
    BY <1>0 DEF LogTypeOK, CountsOK
  <2> QED BY <1>b, <2>1
<1>d. /\ rconf' = rconf /\ state' = state /\ base' = base /\ sample' = sample /\ outs' = outs
      /\ broken' = broken /\ todo' = todo
  BY DEF confVars
<1>f. ASSUME NEW i \in Interactions
      PROVE  \/ lbuf'[i] = lbuf[i]
             \/ /\ lbuf'[i] = Put(lbuf[i], NextSample(b))
                /\ i \in Pool => Connected(outs[b], i) /\ state[i] = "ACTIVE"
  OBVIOUS
<1>g. ASSUME NEW i \in Interactions
      PROVE  /\ lbuf'[i] \in Seq(Samples) /\ Len(lbuf'[i]) <= BuffLen
             /\ \A p \in DOMAIN lbuf'[i] :
                  \/ /\ lbuf'[i][p].src = b /\ lbuf'[i][p].nr = written[b] + 1
                     /\ i \in Pool => Connected(outs[b], i) /\ state[i] = "ACTIVE"
                  \/ \E q \in DOMAIN lbuf[i] : lbuf'[i][p] = lbuf[i][q]
             /\ \A p, q \in DOMAIN lbuf'[i] :
                  p < q /\ lbuf'[i][p].src = lbuf'[i][q].src => lbuf'[i][p].nr < lbuf'[i][q].nr
  <2>1. CASE lbuf'[i] = lbuf[i]
    BY <1>0, <2>1 DEF LogTypeOK, BuffersOK, BufferInv
  <2>2. CASE /\ lbuf'[i] = Put(lbuf[i], NextSample(b))
             /\ i \in Pool => Connected(outs[b], i) /\ state[i] = "ACTIVE"
    <3>2. PICK u : u = Put(lbuf[i], NextSample(b))
      OBVIOUS
    <3>3. /\ u \in Seq(Samples) /\ Len(u) <= BuffLen
          /\ \A p \in DOMAIN u :
               \/ u[p].src = b /\ u[p].nr = written[b] + 1
               \/ \E q \in DOMAIN lbuf[i] : u[p] = lbuf[i][q]
          /\ \A p, q \in DOMAIN u : p < q /\ u[p].src = u[q].src => u[p].nr < u[q].nr
      BY <1>0, <3>2, PutSample
    <3> QED BY <2>2, <3>2, <3>3
  <2> QED BY <1>f, <2>1, <2>2
<1>1. BuffersOK'
  BY <1>g DEF BuffersOK
<1>2. CountsOK'
  BY <1>0, <1>b, <1>d DEF LogTypeOK, CountsOK
<1>3. BufferInv'
  <2>1. \A c \in Sources : base[c] <= written'[c]
    <3>1. \A c \in Sources : base[c] \in Nat /\ base[c] <= written[c] /\ written'[c] \in Nat
      BY <1>0, <1>b DEF BufferInv, LogTypeOK, CountsOK
    <3> QED BY <1>c, <3>1
  <2>2. \A i \in Pool : state[i] = "none" => lbuf'[i] = <<>>
    BY <1>0, <1>f DEF BufferInv, Interactions
  <2>3. ASSUME NEW k \in DOMAIN rconf, rconf[k].kind = "port", NEW p \in DOMAIN lbuf'[rconf[k].ib]
        PROVE  /\ lbuf'[rconf[k].ib][p].src = rconf[k].src
               /\ lbuf'[rconf[k].ib][p].nr > base[rconf[k].src]
    <3>1. PICK i \in Pool : i = rconf[k].ib
      BY <1>0, <2>3 DEF EntryInv
    <3>2. i \in Interactions
      BY <3>1 DEF Interactions
    <3>3. CASE \E q \in DOMAIN lbuf[i] : lbuf'[i][p] = lbuf[i][q]
      BY <1>0, <2>3, <3>1, <3>3 DEF BufferInv
    <3>4. CASE lbuf'[i][p].src = b /\ lbuf'[i][p].nr = written[b] + 1 /\ Connected(outs[b], i)
      <4>1. b = rconf[k].src
        BY <1>0, <2>3, <3>1, <3>4 DEF ConnInv
      <4>2. base[b] \in Nat /\ base[b] <= written[b]
        BY <1>0 DEF BufferInv, LogTypeOK, CountsOK
      <4>3. written[b] + 1 > base[b]
        BY <1>a, <4>2
      <4> QED BY <3>1, <3>4, <4>1, <4>3
    <3> QED BY <1>g, <2>3, <3>1, <3>2, <3>3, <3>4
  <2>4. ASSUME NEW i \in Interactions, NEW p \in DOMAIN lbuf'[i]
        PROVE  lbuf'[i][p].nr <= written'[lbuf'[i][p].src]
    <3>1. CASE lbuf'[i][p].src = b /\ lbuf'[i][p].nr = written[b] + 1
      BY <1>a, <1>b, <3>1
    <3>2. ASSUME NEW q \in DOMAIN lbuf[i], lbuf'[i][p] = lbuf[i][q]
          PROVE  lbuf'[i][p].nr <= written'[lbuf'[i][p].src]
      <4>1. PICK x : x = lbuf[i][q]
        OBVIOUS
      <4>2. x \in Samples
        BY <1>0, <4>1 DEF LogTypeOK, BuffersOK
      <4>3. x.src \in Sources /\ x.nr \in Nat
        BY <4>2 DEF Samples
      <4>4. x.nr <= written[x.src]
        BY <1>0, <4>1 DEF BufferInv
      <4>5. written'[x.src] \in Nat
        BY <1>b, <4>3
      <4> QED BY <1>c, <3>2, <4>1, <4>3, <4>4, <4>5
    <3> QED BY <1>g, <3>1, <3>2
  <2>5. \A i \in Interactions : \A p, q \in DOMAIN lbuf'[i] :
          p < q /\ lbuf'[i][p].src = lbuf'[i][q].src => lbuf'[i][p].nr < lbuf'[i][q].nr
    BY <1>g
  <2> QED BY <1>d, <2>1, <2>2, <2>3, <2>4, <2>5 DEF BufferInv
<1>4. SampleInv'
  <2>1. ASSUME broken PROVE SampleInv'
    <3>1. broken'
      BY <1>d, <2>1, Zenon
    <3> QED BY <3>1 DEF SampleInv
  <2>2. ASSUME ~ broken, NEW k \in DOMAIN sample, sample[k] # NULL
        PROVE  /\ rconf[k].kind = "port" =>
                    sample[k].src = rconf[k].src /\ sample[k].nr > base[rconf[k].src]
               /\ sample[k].nr <= written'[sample[k].src]
               /\ \A p \in DOMAIN lbuf'[rconf[k].ib] :
                    lbuf'[rconf[k].ib][p].src = sample[k].src =>
                      lbuf'[rconf[k].ib][p].nr > sample[k].nr
    <3>1. /\ rconf[k].kind = "port" =>
               sample[k].src = rconf[k].src /\ sample[k].nr > base[rconf[k].src]
          /\ sample[k].nr <= written[sample[k].src]
          /\ \A p \in DOMAIN lbuf[rconf[k].ib] :
               lbuf[rconf[k].ib][p].src = sample[k].src => lbuf[rconf[k].ib][p].nr > sample[k].nr
      BY <1>0, <2>2 DEF SampleInv
    <3>2. PICK x \in Samples : x = sample[k]
      <4>1. sample[k] \in Samples \cup {NULL}
        BY <1>0, LogTypes
      <4> QED BY <2>2, <4>1
    <3>3. x.src \in Sources /\ x.nr \in Nat
      BY <3>2 DEF Samples
    <3>4. x.nr <= written'[x.src]
      <4>1. written[x.src] \in Nat /\ written'[x.src] \in Nat /\ written[x.src] <= written'[x.src]
            /\ x.nr <= written[x.src]
        BY <1>b, <1>c, <3>1, <3>2, <3>3
      <4> QED BY <3>3, <4>1
    <3>5. PICK i \in Interactions : i = rconf[k].ib
      BY <1>0, ColumnEntry
    <3>6. ASSUME NEW p \in DOMAIN lbuf'[i], lbuf'[i][p].src = x.src
          PROVE  lbuf'[i][p].nr > x.nr
      <4>1. CASE \E q \in DOMAIN lbuf[i] : lbuf'[i][p] = lbuf[i][q]
        BY <3>1, <3>2, <3>5, <3>6, <4>1
      <4>2. CASE lbuf'[i][p].src = b /\ lbuf'[i][p].nr = written[b] + 1
        <5>1. x.nr <= written[b]
          BY <3>1, <3>2, <3>6, <4>2
        <5> QED BY <1>a, <3>3, <4>2, <5>1
      <4> QED BY <1>g, <4>1, <4>2
    <3> QED BY <3>1, <3>2, <3>4, <3>5, <3>6
  <2>3. ASSUME ~ broken PROVE SampleInv'
    <3>1. \A k \in DOMAIN sample : sample[k] # NULL =>
            /\ rconf[k].kind = "port" =>
                 sample[k].src = rconf[k].src /\ sample[k].nr > base[rconf[k].src]
            /\ sample[k].nr <= written'[sample[k].src]
            /\ \A p \in DOMAIN lbuf'[rconf[k].ib] :
                 lbuf'[rconf[k].ib][p].src = sample[k].src =>
                   lbuf'[rconf[k].ib][p].nr > sample[k].nr
      BY <2>2, <2>3
    <3> QED BY <1>d, <3>1 DEF SampleInv
  <2> QED BY <2>1, <2>3
<1> QED BY <1>1, <1>2, <1>3, <1>4

(* The blocks that were there before any interaction was made are those at *)
(* the head of the list; with LoggerFollowed, one of them follows the      *)
(* logger.                                                                 *)
LEMMA FirstBlocksFacts ==
  ASSUME LogTypeOK, ListInv, pass \in {"run", "stop", "cleanup"}
  PROVE  Others \subseteq Elems(order) /\ (LoggerFollowed => Succ(order, Logger) \in Others)
<1>1. PICK o \in Orders : FirstBlocks(o)
  BY DEF ListInv
<1>2. o \in Seq(Others) /\ Elems(o) = Others /\ DOMAIN o = 1 .. Len(o) /\ Len(o) \in Nat
      /\ \A p \in 1 .. Len(o) : o[p] \in Others
  BY OrdersAssumption
<1>3. Len(order) \in Nat /\ DOMAIN order = 1 .. Len(order)
  BY LogTypes
<1>4. \A p \in 1 .. Len(o) : p \in DOMAIN order /\ order[p] = o[p]
  BY <1>1, <1>2, <1>3 DEF FirstBlocks
<1>5. Others \subseteq Elems(order)
  BY <1>2, <1>4 DEF Elems
<1>6. ASSUME LoggerFollowed PROVE Succ(order, Logger) \in Others
  <2>1. PICK k \in 1 .. Len(o) : o[k] = Logger
    BY <1>2 DEF Others, Elems
  <2>2. \A p, q \in DOMAIN order : order[p] = order[q] => p = q
    BY DEF LogTypeOK, ListOK
  <2>3. Logger \in Elems(order)
    BY <1>5 DEF Others
  <2>4. Position(order, Logger) = k
    BY <1>4, <2>1, <2>2, <2>3, PositionFacts
  <2>5. o[Len(o)] # Logger
    BY <1>6 DEF LoggerFollowed
  <2>6. k < Len(o)
    BY <1>2, <2>1, <2>5
  <2>7. k + 1 \in 1 .. Len(o)
    BY <1>2, <2>6
  <2>8. k # Len(order)
    <3>1. PICK m \in Nat, n \in Nat : m = Len(o) /\ n = Len(order)
      BY <1>2, <1>3
    <3>2. m <= n /\ k < m /\ k \in Nat
      BY <1>1, <1>2, <2>6, <3>1 DEF FirstBlocks
    <3> QED BY <3>1, <3>2
  <2>9. Succ(order, Logger) = order[k + 1]
    BY <2>3, <2>4, <2>8 DEF Succ
  <2> QED BY <1>2, <1>4, <2>7, <2>9
<1> QED BY <1>5, <1>6

(* The successor of a block is a block of the list, another one, and the   *)
(* next one in it.                                                         *)
LEMMA SuccFacts ==
  ASSUME LogTypeOK, NEW b \in Elems(order)
  PROVE  /\ Position(order, b) \in 1 .. Len(order) /\ order[Position(order, b)] = b
         /\ Succ(order, b) = NULL => Position(order, b) = Len(order)
         /\ Succ(order, b) # NULL =>
              /\ Succ(order, b) \in Elems(order) /\ Succ(order, b) # b
              /\ Position(order, b) + 1 \in DOMAIN order
              /\ Position(order, Succ(order, b)) = Position(order, b) + 1
<1>1. PICK k : k = Position(order, b)
  OBVIOUS
<1>2. /\ k \in 1 .. Len(order) /\ order[k] = b /\ Len(order) \in Nat /\ DOMAIN order = 1 .. Len(order)
      /\ \A p \in 1 .. Len(order) : order[p] \in LogBlocks
      /\ \A p, q \in DOMAIN order : order[p] = order[q] => p = q
  BY <1>1, PositionFacts, LogTypes DEF LogTypeOK, ListOK
<1>3. CASE k = Len(order)
  BY <1>1, <1>2, <1>3 DEF Succ
<1>4. CASE k # Len(order)
  <2>1. Succ(order, b) = order[k + 1]
    BY <1>1, <1>4 DEF Succ
  <2>2. k + 1 \in DOMAIN order /\ k + 1 # k
    <3>1. PICK n \in Nat : n = Len(order)
      BY <1>2
    <3>2. k \in 1 .. n /\ k # n
      BY <1>2, <1>4, <3>1
    <3>3. k + 1 \in 1 .. n /\ k + 1 # k
      BY <3>2
    <3> QED BY <1>2, <3>1, <3>3
  <2>3. order[k + 1] # NULL
    BY <1>2, <2>2, LogNamesAssumption
  <2>4. order[k + 1] \in Elems(order) /\ order[k + 1] # b
    BY <1>2, <2>2 DEF Elems
  <2>5. Position(order, order[k + 1]) = k + 1
    BY <1>2, <2>2, <2>4, PositionFacts
  <2> QED BY <1>1, <1>2, <2>1, <2>2, <2>3, <2>4, <2>5
<1> QED BY <1>3, <1>4

(* What it means for the logger that a block is removed. *)
LEMMA DroppedBlock ==
  ASSUME LogInv, NEW b \in LogBlocks, state[b] # "none", Dropped(b)
  PROVE  /\ state' \in [LogBlocks -> LogStates] /\ state'[b] = "none"
         /\ \A c \in LogBlocks : c # b => state'[c] = state[c]
         /\ b \in Elems(order) /\ ListOK' /\ Elems(order') = Elems(order) \ {b}
         /\ Len(order') = Len(order) - 1 /\ Len(order) \in Nat \ {0}
         /\ \A p \in DOMAIN order' :
              IF p < Position(order, b) THEN p \in DOMAIN order /\ order'[p] = order[p]
              ELSE p + 1 \in DOMAIN order /\ order'[p] = order[p + 1]
         /\ BuffersOK' /\ BufferInv' /\ SampleInv'
<1>0. LogTypeOK /\ HookInv /\ EntryInv /\ BufferInv /\ SampleInv
  BY DEF LogInv
<1>1. state' \in [LogBlocks -> LogStates] /\ state'[b] = "none"
      /\ \A c \in LogBlocks : c # b => state'[c] = state[c]
  BY <1>0 DEF Dropped, LogTypeOK, LogStates
<1>2. /\ order \in Seq(LogBlocks) /\ Elems(order) = {c \in LogBlocks : state[c] # "none"}
      /\ \A p, q \in DOMAIN order : order[p] = order[q] => p = q
  BY <1>0 DEF LogTypeOK, ListOK
<1>3. b \in Elems(order)
  BY <1>2
<1>4. PICK u : u = Unlinked(order, b)
  OBVIOUS
<1>5. /\ u \in Seq(LogBlocks) /\ Len(u) = Len(order) - 1 /\ Len(order) \in Nat \ {0}
      /\ \A p \in DOMAIN u : IF p < Position(order, b) THEN p \in DOMAIN order /\ u[p] = order[p]
                             ELSE p + 1 \in DOMAIN order /\ u[p] = order[p + 1]
      /\ Elems(u) = Elems(order) \ {b}
      /\ \A p, q \in DOMAIN u : u[p] = u[q] => p = q
  BY <1>2, <1>3, <1>4, UnlinkedList
<1>6. order' = u
  BY <1>4 DEF Dropped
<1>7. ListOK'
  <2>1. Elems(order) \ {b} = {c \in LogBlocks : state'[c] # "none"}
    BY <1>1, <1>2
  <2> QED BY <1>5, <1>6, <2>1 DEF ListOK
<1>8. lbuf \in [Interactions -> Seq(Samples)] /\ \A i \in Interactions : Len(lbuf[i]) <= BuffLen
  BY <1>0 DEF LogTypeOK, BuffersOK
<1>9. lbuf' \in [Interactions -> Seq(Samples)]
      /\ \A i \in Interactions : lbuf'[i] = IF i = b THEN <<>> ELSE lbuf[i]
  BY <1>8 DEF Dropped
<1>10. BuffersOK'
  <2>1. Len(<<>>) <= BuffLen
    BY LogBoundsAssumption
  <2>2. \A i \in Interactions : Len(lbuf'[i]) <= BuffLen
    BY <1>8, <1>9, <2>1
  <2> QED BY <1>9, <2>2 DEF BuffersOK
<1>11. /\ rconf' = rconf /\ sample' = sample /\ base' = base /\ written' = written
       /\ broken' = broken
  BY DEF Dropped, confVars
<1>12. \A i \in Interactions : (DOMAIN lbuf'[i] = {} /\ lbuf'[i] = <<>>) \/ lbuf'[i] = lbuf[i]
  BY <1>9
<1>13. BufferInv'
  <2>1. \A i \in Pool : i \in Interactions /\ i \in LogBlocks
    BY DEF Interactions, LogBlocks
  <2>2. \A i \in Pool : state'[i] = "none" => lbuf'[i] = <<>>
    BY <1>0, <1>1, <1>9, <2>1 DEF BufferInv
  <2>3. \A k \in DOMAIN rconf : rconf[k].kind = "port" => \A p \in DOMAIN lbuf'[rconf[k].ib] :
          /\ lbuf'[rconf[k].ib][p].src = rconf[k].src
          /\ lbuf'[rconf[k].ib][p].nr > base[rconf[k].src]
    BY <1>0, <1>12, <2>1 DEF BufferInv, EntryInv
  <2>4. \A i \in Interactions :
          \A p \in DOMAIN lbuf'[i] : lbuf'[i][p].nr <= written[lbuf'[i][p].src]
    BY <1>0, <1>12 DEF BufferInv
  <2>5. \A i \in Interactions : \A p, q \in DOMAIN lbuf'[i] :
          p < q /\ lbuf'[i][p].src = lbuf'[i][q].src => lbuf'[i][p].nr < lbuf'[i][q].nr
    BY <1>0, <1>12 DEF BufferInv
  <2> QED BY <1>0, <1>11, <2>2, <2>3, <2>4, <2>5 DEF BufferInv
<1>14. ASSUME ~ broken PROVE SampleInv'
  <2>1. \A k \in DOMAIN sample : rconf[k].ib \in Interactions
    BY <1>0, ColumnEntry
  <2> QED BY <1>0, <1>11, <1>12, <1>14, <2>1 DEF SampleInv
<1>15. ASSUME broken PROVE SampleInv'
  <2>1. broken'
    BY <1>11, <1>15, Zenon
  <2> QED BY <2>1 DEF SampleInv
<1> QED BY <1>1, <1>3, <1>5, <1>6, <1>7, <1>10, <1>13, <1>14, <1>15

(* A successor is a block, or NULL. *)
LEMMA SuccIn ==
  ASSUME NEW S, NEW o \in Seq(S), NEW b
  PROVE  Succ(o, b) \in S \cup {NULL}
<1>1. CASE b \notin Elems(o) \/ Position(o, b) = Len(o)
  BY <1>1 DEF Succ
<1>2. CASE b \in Elems(o) /\ Position(o, b) # Len(o)
  <2>1. PICK k : k = Position(o, b)
    OBVIOUS
  <2>2. PICK n \in Nat : n = Len(o) /\ DOMAIN o = 1 .. n
    OBVIOUS
  <2>3. k \in 1 .. n /\ k # n
    BY <1>2, <2>1, <2>2, PositionFacts
  <2>4. k + 1 \in 1 .. n
    BY <2>3
  <2>5. o[k + 1] \in S
    BY <2>2, <2>4
  <2>6. Succ(o, b) = o[k + 1]
    BY <1>2, <2>1 DEF Succ
  <2> QED BY <2>5, <2>6
<1> QED BY <1>1, <1>2

(* So it is, if the list is a list of blocks. *)
LEMMA SuccType ==
  ASSUME LogTypeOK, NEW b
  PROVE  Succ(order, b) \in LogBlocks \cup {NULL} /\ First(order) \in LogBlocks \cup {NULL}
<1>2. First(order) \in LogBlocks \cup {NULL}
  <2>1. CASE order = <<>>
    BY <2>1 DEF First
  <2>2. CASE order # <<>>
    <3>1. order[1] \in LogBlocks
      BY <2>2 DEF LogTypeOK, ListOK
    <3> QED BY <2>2, <3>1 DEF First
  <2> QED BY <2>1, <2>2
<1> QED BY <1>2, SuccIn DEF LogTypeOK, ListOK

(* A loop begins with the first block of the list. *)
LEMMA EnterFacts ==
  ASSUME LogTypeOK, NEW p, Enter(p)
  PROVE  /\ cur' \in LogBlocks \cup {NULL} /\ nxt' \in LogBlocks \cup {NULL} /\ pass' = p
         /\ cur' = NULL => DOMAIN order = {}
         /\ cur' # NULL => /\ cur' \in Elems(order) /\ nxt' = Succ(order, cur')
                           /\ Position(order, cur') = 1
<1>1. pass' = p /\ cur' = First(order) /\ nxt' = Succ(order, First(order))
  BY DEF Enter
<1>2. CASE order = <<>>
  <2>1. cur' = NULL
    BY <1>1, <1>2 DEF First
  <2> QED BY <1>1, <1>2, <2>1, SuccType
<1>3. CASE order # <<>>
  <2>1. Len(order) \in Nat \ {0} /\ DOMAIN order = 1 .. Len(order)
    BY <1>3 DEF LogTypeOK, ListOK
  <2>2. 1 \in DOMAIN order
    BY <2>1
  <2>3. order[1] \in LogBlocks /\ order[1] \in Elems(order)
    BY <2>2, LogTypes DEF Elems
  <2>4. cur' = order[1] /\ cur' # NULL
    BY <1>1, <1>3, <2>3, LogNamesAssumption DEF First
  <2>5. Position(order, order[1]) = 1
    BY <2>2, <2>3, PositionFacts DEF LogTypeOK, ListOK
  <2> QED BY <1>1, <2>3, <2>4, <2>5, SuccType
<1> QED BY <1>2, <1>3

(* The blocks that the pass has not stopped yet are those from cur on. *)
LEMMA AllStopped ==
  ASSUME LogTypeOK, \A p \in DOMAIN order : state[order[p]] # "ACTIVE"
  PROVE  \A b \in LogBlocks : state[b] # "ACTIVE"
<1>1. ASSUME NEW b \in LogBlocks, state[b] = "ACTIVE" PROVE FALSE
  <2>1. b \in Elems(order)
    BY <1>1 DEF LogTypeOK, ListOK
  <2>2. PICK p \in DOMAIN order : order[p] = b
    BY <2>1 DEF Elems
  <2> QED BY <1>1, <2>2
<1> QED BY <1>1

(* When cleanup is done with the entries, nothing of them is left. *)
LEMMA NothingLeft ==
  ASSUME LogInv, CleanEnd, ~ broken
  PROVE  /\ lports = <<>> /\ (\A b \in Sources, i \in Pool : ~ Connected(outs[b], i))
         /\ \A i \in Pool : state[i] = "none"
<1>0. LogTypeOK /\ OwnPorts /\ OwnInters
  BY DEF LogInv
<1>1. hook = "disconnect" /\ Cleaning
  BY DEF CleanEnd, Cleaning
<1>2. \A k \in DOMAIN rconf : ~ (k >= at)
  <2>1. Len(rconf) \in Nat /\ DOMAIN rconf = 1 .. Len(rconf) /\ at \in Nat /\ at > Len(rconf)
    BY <1>0, LogTypes DEF CleanEnd
  <2> QED BY <2>1
<1>3. \A k : ~ HasPort(k) /\ ~ HasOut(k) /\ ~ HasInter(k)
  BY <1>1, <1>2 DEF HasPort, HasOut, HasInter
<1>4. DOMAIN lports = {}
  BY <1>0, <1>3 DEF OwnPorts
<1>5. lports = <<>>
  BY <1>0, <1>4 DEF LogTypeOK
<1> QED BY <1>0, <1>3, <1>5 DEF OwnInters

(* A part of the invariant holds after a step that leaves alone what it is *)
(* about.                                                                  *)
LEMMA Kept ==
  /\ ListOK /\ UNCHANGED <<order, state>> => ListOK'
  /\ BuffersOK /\ UNCHANGED <<lbuf>> => BuffersOK'
  /\ CountsOK /\ UNCHANGED <<written, base>> => CountsOK'
  /\ EntriesOK /\ UNCHANGED <<todo, rconf, sample>> => EntriesOK'
  /\ HooksOK /\ UNCHANGED <<hook, at, broken, pass, cur, nxt>> => HooksOK'
  /\ HookInv /\ UNCHANGED <<hook, state, pass, at, rconf, sample, cur>> => HookInv'
  /\ EntryInv /\ UNCHANGED <<rconf, hook, at, state, pass>> => EntryInv'
  /\ ConnInv /\ UNCHANGED <<outs, state, pass, rconf, hook, at>> => ConnInv'
  /\ StopInv /\ UNCHANGED <<pass, state, cur, nxt, order>> => StopInv'
  /\ BufferInv /\ UNCHANGED <<base, written, state, lbuf, rconf>> => BufferInv'
  /\ NamedInv /\ UNCHANGED <<rconf, hook, at, lports, state>> => NamedInv'
  /\ OwnPorts /\ UNCHANGED <<broken, rconf, lports, hook, at, state>> => OwnPorts'
  /\ OwnInters /\ UNCHANGED <<broken, outs, rconf, hook, at, state>> => OwnInters'
  /\ SampleInv /\ UNCHANGED <<broken, sample, rconf, base, written, lbuf>> => SampleInv'
  /\ ListInv /\ UNCHANGED <<pass, order>> => ListInv'
  /\ VisitInv /\ UNCHANGED <<pass, cur, nxt, order, hook>> => VisitInv'
<1>1. ListOK /\ UNCHANGED <<order, state>> => ListOK'
  BY DEF ListOK
<1>2. BuffersOK /\ UNCHANGED <<lbuf>> => BuffersOK'
  BY DEF BuffersOK
<1>3. CountsOK /\ UNCHANGED <<written, base>> => CountsOK'
  BY DEF CountsOK
<1>4. EntriesOK /\ UNCHANGED <<todo, rconf, sample>> => EntriesOK'
  BY DEF EntriesOK
<1>5. HooksOK /\ UNCHANGED <<hook, at, broken, pass, cur, nxt>> => HooksOK'
  BY DEF HooksOK
<1>6. HookInv /\ UNCHANGED <<hook, state, pass, at, rconf, sample, cur>> => HookInv'
  BY DEF HookInv, Cleaning, Running
<1>7. EntryInv /\ UNCHANGED <<rconf, hook, at, state, pass>> => EntryInv'
  BY DEF EntryInv, HasInter, Cleaning
<1>8. ConnInv /\ UNCHANGED <<outs, state, pass, rconf, hook, at>> => ConnInv'
  BY DEF ConnInv, HasOut, Cleaning
<1>9. StopInv /\ UNCHANGED <<pass, state, cur, nxt, order>> => StopInv'
  BY DEF StopInv
<1>10. BufferInv /\ UNCHANGED <<base, written, state, lbuf, rconf>> => BufferInv'
  BY DEF BufferInv
<1>11. NamedInv /\ UNCHANGED <<rconf, hook, at, lports, state>> => NamedInv'
  BY DEF NamedInv, Running, HasPort
<1>12. OwnPorts /\ UNCHANGED <<broken, rconf, lports, hook, at, state>> => OwnPorts'
  BY DEF OwnPorts, Running, HasPort
<1>13. OwnInters /\ UNCHANGED <<broken, outs, rconf, hook, at, state>> => OwnInters'
  BY DEF OwnInters, HasOut, HasInter, Cleaning
<1>14. SampleInv /\ UNCHANGED <<broken, sample, rconf, base, written, lbuf>> => SampleInv'
  BY DEF SampleInv
<1>15. ListInv /\ UNCHANGED <<pass, order>> => ListInv'
  BY DEF ListInv, FirstBlocks
<1>16. VisitInv /\ UNCHANGED <<pass, cur, nxt, order, hook>> => VisitInv'
  BY DEF VisitInv, Cleaning
<1> QED BY <1>1, <1>2, <1>3, <1>4, <1>5, <1>6, <1>7, <1>8, <1>9, <1>10, <1>11, <1>12, <1>13,
  <1>14, <1>15, <1>16

LEMMA InitBeginLogInv ==
  ASSUME LogInv, NEW conf \in Confs, InitBegin(conf)
  PROVE  LogInv'
<1>0. LogTypeOK /\ HookInv /\ EntryInv /\ ConnInv /\ StopInv /\ BufferInv /\ NamedInv
      /\ OwnPorts /\ OwnInters /\ SampleInv /\ ListInv /\ (LoggerFollowed => VisitInv)
  BY DEF LogInv
<1>a. /\ rconf = <<>> /\ sample = <<>> /\ rconf' = <<>> /\ sample' = <<>> /\ DOMAIN rconf = {}
      /\ DOMAIN rconf' = {} /\ DOMAIN sample' = {}
  BY <1>0 DEF InitBegin, HookInv, Running
<1>1. ListOK' /\ BuffersOK' /\ StopInv' /\ ListInv'
  BY <1>0, Kept DEF LogTypeOK, LoggerFollowed, InitBegin, loopVars
<1>2. LogTypeOK'
  <2>1. CountsOK'
    BY <1>0 DEF InitBegin, loopVars, LogTypeOK, CountsOK
  <2>2. EntriesOK'
    <3>1. conf \in Seq([kind : Kinds, src : Sources])
      BY ConfsAssumption
    <3> QED BY <1>0, <1>a, <3>1 DEF InitBegin, LogTypeOK, EntriesOK
  <2>3. HooksOK'
    BY <1>0 DEF InitBegin, loopVars, LogTypeOK, HooksOK
  <2>4. /\ (state \in [LogBlocks -> LogStates])'
        /\ (lports \in Seq(LogPorts))'
        /\ (outs \in [Sources -> {NULL} \cup Seq(Pool)])'
    BY <1>0 DEF InitBegin, loopVars, LogTypeOK
  <2> QED BY <1>1, <2>1, <2>2, <2>3, <2>4 DEF LogTypeOK
<1>3. HookInv'
  BY <1>0 DEF LogTypeOK, InitBegin, loopVars, HookInv, Cleaning, Running, HooksOK, EntriesOK
<1>4. EntryInv'
  BY <1>0 DEF LogTypeOK, InitBegin, loopVars, EntryInv, HasInter, Cleaning, HooksOK, EntriesOK
<1>5. ConnInv'
  BY <1>0 DEF LogTypeOK, InitBegin, loopVars, ConnInv, HasOut, Cleaning
<1>6. BufferInv'
  <2>1. base' = written /\ written' = written /\ lbuf' = lbuf /\ state' = state
    BY DEF InitBegin
  <2>2. \A b \in Sources : written[b] \in Nat
    BY <1>0 DEF LogTypeOK, CountsOK
  <2> QED BY <1>0, <1>a, <2>1, <2>2 DEF BufferInv
<1>7. NamedInv'
  BY <1>0 DEF LogTypeOK, InitBegin, loopVars, NamedInv, Running, HasPort
<1>8. OwnPorts'
  BY <1>0, <1>a DEF InitBegin, OwnPorts, Running, HasPort
<1>9. OwnInters'
  BY <1>0, <1>a DEF InitBegin, OwnInters, HasOut, HasInter, Cleaning
<1>10. SampleInv'
  BY <1>a DEF SampleInv
<1>11. (LoggerFollowed => VisitInv)'
  BY <1>0 DEF LogTypeOK, InitBegin, loopVars, VisitInv, Cleaning
<1> QED BY <1>1, <1>2, <1>3, <1>4, <1>5, <1>6, <1>7, <1>8, <1>9, <1>10, <1>11 DEF LogInv

LEMMA ReportIBlockLogInv ==
  ASSUME LogInv, ReportIBlock
  PROVE  LogInv'
<1>0. LogTypeOK /\ HookInv /\ EntryInv /\ ConnInv /\ StopInv /\ BufferInv /\ NamedInv
      /\ OwnPorts /\ OwnInters /\ SampleInv /\ ListInv /\ (LoggerFollowed => VisitInv)
  BY DEF LogInv
<1>a. PICK n : n = Len(rconf)
  OBVIOUS
<1>b. /\ hook = "init" /\ todo # <<>> /\ Head(todo).kind = "iblock" /\ sample = <<>>
      /\ state[Logger] = "PREINIT" /\ n \in Nat /\ DOMAIN rconf = 1 .. n /\ DOMAIN sample = {}
  BY <1>0, <1>a, LogTypes DEF ReportIBlock, Reporting, HookInv, Running
<1>c. /\ (lports \in Seq(LogPorts))' /\ NamedInv' /\ OwnPorts'
  BY <1>0, <1>b, ReportedPorts DEF ReportIBlock, Interactions
<1>d. /\ todo' \in Seq([kind : Kinds, src : Sources]) /\ rconf' \in Seq(Entries)
      /\ DOMAIN rconf' = 1 .. n + 1 /\ \A k \in 1 .. n : rconf'[k] = rconf[k]
      /\ rconf'[n + 1].kind = "iblock" /\ rconf'[n + 1].ib = Inter
  BY <1>0, <1>a, <1>b, ListedFacts DEF ReportIBlock, Interactions
<1>1. ListOK' /\ BuffersOK' /\ CountsOK' /\ HooksOK' /\ StopInv' /\ ListInv'
      /\ (LoggerFollowed => VisitInv)'
  BY <1>0, Kept DEF LogTypeOK, LoggerFollowed, ReportIBlock, loopVars
<1>2. LogTypeOK'
  <2>1. (lports \in Seq(LogPorts))'
    BY <1>c
  <2>2. EntriesOK'
    BY <1>0, <1>d DEF ReportIBlock, LogTypeOK, EntriesOK
  <2>3. (state \in [LogBlocks -> LogStates])' /\ (outs \in [Sources -> {NULL} \cup Seq(Pool)])'
    BY <1>0 DEF ReportIBlock, Reporting, Listed, loopVars, LogTypeOK
  <2> QED BY <1>1, <2>1, <2>2, <2>3 DEF LogTypeOK
<1>3. HookInv'
  BY <1>0 DEF LogTypeOK, ReportIBlock, Reporting, Listed, loopVars, HookInv, Cleaning, Running,
    HooksOK, EntriesOK
<1>4. EntryInv'
  BY <1>0 DEF LogTypeOK, ReportIBlock, Reporting, Listed, loopVars, EntryInv, HasInter, Cleaning,
    HooksOK, EntriesOK
<1>5. ConnInv'
  BY <1>0 DEF LogTypeOK, ReportIBlock, Reporting, Listed, loopVars, ConnInv, HasOut, Cleaning
<1>6. BufferInv'
  <2>1. \A k \in DOMAIN rconf' : rconf'[k].kind = "port" => k \in DOMAIN rconf /\ rconf'[k] = rconf[k]
    BY <1>b, <1>d
  <2>2. base' = base /\ written' = written /\ lbuf' = lbuf /\ state' = state
    BY DEF ReportIBlock
  <2> QED BY <1>0, <2>1, <2>2 DEF BufferInv
<1>7. NamedInv'
  BY <1>c
<1>8. OwnPorts'
  BY <1>c
<1>9. OwnInters'
  <2>1. /\ UNCHANGED <<outs, state, hook, at, broken>> /\ hook = "init"
        /\ \A k \in DOMAIN rconf : k \in DOMAIN rconf' /\ rconf'[k] = rconf[k]
    BY <1>b, <1>d DEF ReportIBlock
  <2>2. \A k : HasOut(k) => HasOut(k)' /\ rconf'[k].ib = rconf[k].ib
    BY <2>1 DEF HasOut
  <2>3. \A k : HasInter(k) => HasInter(k)' /\ rconf'[k].ib = rconf[k].ib
    BY <2>1 DEF HasInter, Cleaning
  <2> QED BY <1>0, <2>1, <2>2, <2>3 DEF OwnInters
<1>10. SampleInv'
  BY <1>b DEF ReportIBlock, SampleInv
<1> QED BY <1>1, <1>2, <1>3, <1>4, <1>5, <1>6, <1>7, <1>8, <1>9, <1>10 DEF LogInv

LEMMA RefuseInPortLogInv ==
  ASSUME LogInv, RefuseInPort
  PROVE  LogInv'
<1>0. LogTypeOK /\ HookInv /\ EntryInv /\ ConnInv /\ StopInv /\ BufferInv /\ NamedInv
      /\ OwnPorts /\ OwnInters /\ SampleInv /\ ListInv /\ (LoggerFollowed => VisitInv)
  BY DEF LogInv
<1>a. PICK n : n = Len(rconf)
  OBVIOUS
<1>b. /\ hook = "init" /\ todo # <<>> /\ Head(todo).kind = "inport" /\ sample = <<>>
      /\ state[Logger] = "PREINIT" /\ n \in Nat /\ DOMAIN rconf = 1 .. n
  BY <1>0, <1>a, LogTypes DEF RefuseInPort, Reporting, HookInv, Running
<1>c. /\ todo' \in Seq([kind : Kinds, src : Sources]) /\ rconf' \in Seq(Entries)
      /\ DOMAIN rconf' = 1 .. n + 1 /\ \A k \in 1 .. n : rconf'[k] = rconf[k]
      /\ rconf'[n + 1].kind = "inport"
  BY <1>0, <1>a, <1>b, ListedFacts DEF RefuseInPort
<1>d. \A k \in DOMAIN rconf' : rconf'[k].kind # "inport" => k \in DOMAIN rconf /\ rconf'[k] = rconf[k]
  BY <1>b, <1>c
<1>1. ListOK' /\ BuffersOK' /\ CountsOK' /\ StopInv' /\ ListInv'
      /\ (LoggerFollowed => VisitInv)'
  BY <1>0, Kept DEF LogTypeOK, LoggerFollowed, RefuseInPort, loopVars
<1>2. LogTypeOK'
  <2>1. EntriesOK'
    BY <1>0, <1>c DEF RefuseInPort, LogTypeOK, EntriesOK
  <2>2. HooksOK'
    BY <1>0 DEF RefuseInPort, Reporting, Listed, loopVars, LogTypeOK, HooksOK
  <2>3. /\ (state \in [LogBlocks -> LogStates])'
        /\ (lports \in Seq(LogPorts))'
        /\ (outs \in [Sources -> {NULL} \cup Seq(Pool)])'
    BY <1>0 DEF RefuseInPort, Reporting, Listed, loopVars, LogTypeOK
  <2> QED BY <1>1, <2>1, <2>2, <2>3 DEF LogTypeOK
<1>3. HookInv'
  BY <1>0 DEF LogTypeOK, RefuseInPort, Reporting, Listed, loopVars, HookInv, Cleaning, Running,
    HooksOK, EntriesOK
<1>4. EntryInv'
  <2>1. \A k \in DOMAIN rconf' : rconf'[k].kind # "inport" => ~ Cleaning /\ ~ Cleaning'
    BY <1>b DEF RefuseInPort, Cleaning
  <2> QED BY <1>0, <1>b, <1>d, <2>1 DEF RefuseInPort, EntryInv, HasInter, loopVars
<1>5. ConnInv'
  BY <1>0 DEF LogTypeOK, RefuseInPort, Reporting, Listed, loopVars, ConnInv, HasOut, Cleaning
<1>6. BufferInv'
  <2>1. base' = base /\ written' = written /\ lbuf' = lbuf /\ state' = state
    BY DEF RefuseInPort
  <2>2. \A k \in DOMAIN rconf' : rconf'[k].kind = "port" => k \in DOMAIN rconf /\ rconf'[k] = rconf[k]
    BY <1>d
  <2> QED BY <1>0, <2>1, <2>2 DEF BufferInv
<1>7. NamedInv'
  BY <1>0 DEF LogTypeOK, RefuseInPort, Reporting, Listed, loopVars, NamedInv, Running, HasPort
<1>8. OwnPorts'
  BY <1>0 DEF LogTypeOK, RefuseInPort, Reporting, Listed, loopVars, OwnPorts, Running, HasPort
<1>9. OwnInters'
  BY <1>0 DEF LogTypeOK, RefuseInPort, Reporting, Listed, loopVars, OwnInters, HasOut, HasInter,
    Cleaning
<1>10. SampleInv'
  BY <1>0 DEF LogTypeOK, RefuseInPort, Reporting, Listed, loopVars, SampleInv
<1> QED BY <1>1, <1>2, <1>3, <1>4, <1>5, <1>6, <1>7, <1>8, <1>9, <1>10 DEF LogInv

LEMMA InitFailsLogInv ==
  ASSUME LogInv, InitFails
  PROVE  LogInv'
<1>0. LogTypeOK /\ HookInv /\ EntryInv /\ ConnInv /\ StopInv /\ BufferInv /\ NamedInv
      /\ OwnPorts /\ OwnInters /\ SampleInv /\ ListInv /\ (LoggerFollowed => VisitInv)
  BY DEF LogInv
<1>a. /\ hook = "init" /\ sample = <<>> /\ DOMAIN sample = {} /\ state[Logger] = "PREINIT"
      /\ rconf' = <<>> /\ DOMAIN rconf' = {} /\ hook' = "none" /\ broken' /\ pass = "run"
  BY <1>0 DEF InitFails, Reporting, HookInv, Running
<1>1. ListOK' /\ BuffersOK' /\ CountsOK' /\ StopInv' /\ ListInv'
  BY <1>0, Kept DEF LogTypeOK, LoggerFollowed, InitFails, loopVars
<1>2. LogTypeOK'
  <2>1. EntriesOK'
    BY <1>0 DEF InitFails, loopVars, LogTypeOK, EntriesOK
  <2>2. HooksOK'
    BY <1>0 DEF InitFails, loopVars, LogTypeOK, HooksOK
  <2>3. /\ (state \in [LogBlocks -> LogStates])'
        /\ (lports \in Seq(LogPorts))'
        /\ (outs \in [Sources -> {NULL} \cup Seq(Pool)])'
    BY <1>0 DEF InitFails, loopVars, LogTypeOK
  <2> QED BY <1>1, <2>1, <2>2, <2>3 DEF LogTypeOK
<1>3. HookInv'
  BY <1>0, <1>a DEF InitFails, HookInv, Cleaning, Running
<1>4. EntryInv'
  BY <1>0 DEF LogTypeOK, InitFails, loopVars, EntryInv, HasInter, Cleaning, HooksOK, EntriesOK
<1>5. ConnInv'
  BY <1>0 DEF LogTypeOK, InitFails, loopVars, ConnInv, HasOut, Cleaning
<1>6. BufferInv'
  BY <1>0 DEF LogTypeOK, InitFails, loopVars, BufferInv
<1>7. NamedInv'
  BY <1>0 DEF LogTypeOK, InitFails, loopVars, NamedInv, Running, HasPort
<1>8. OwnPorts'
  BY <1>0 DEF LogTypeOK, InitFails, loopVars, OwnPorts, Running, HasPort
<1>9. OwnInters'
  BY <1>0 DEF LogTypeOK, InitFails, loopVars, OwnInters, HasOut, HasInter, Cleaning
<1>10. SampleInv'
  BY <1>0 DEF LogTypeOK, InitFails, loopVars, SampleInv
<1>11. (LoggerFollowed => VisitInv)'
  BY <1>0, <1>a DEF InitFails, VisitInv, Cleaning, loopVars
<1> QED BY <1>1, <1>2, <1>3, <1>4, <1>5, <1>6, <1>7, <1>8, <1>9, <1>10, <1>11 DEF LogInv

LEMMA InitEndLogInv ==
  ASSUME LogInv, InitEnd
  PROVE  LogInv'
<1>0. LogTypeOK /\ HookInv /\ EntryInv /\ ConnInv /\ StopInv /\ BufferInv /\ NamedInv
      /\ OwnPorts /\ OwnInters /\ SampleInv /\ ListInv /\ (LoggerFollowed => VisitInv)
  BY DEF LogInv
<1>a. PICK n : n = Len(rconf)
  OBVIOUS
<1>b. /\ n \in Nat /\ DOMAIN rconf = 1 .. n /\ hook = "init" /\ hook' = "none" /\ broken' = broken
      /\ state[Logger] = "PREINIT" /\ lports' = lports /\ pass' = pass /\ pass = "run"
      /\ \A k \in 1 .. n : rconf[k] \in Entries
  BY <1>0, <1>a, LogTypes DEF InitEnd, HookInv, loopVars
<1>c. state' = [state EXCEPT ![Logger] = "INACTIVE"] /\ Logger \in LogBlocks /\ Logger \notin Pool
  BY LogNamesAssumption DEF InitEnd, LogBlocks, Others
<1>d. /\ state' \in [LogBlocks -> LogStates] /\ state'[Logger] = "INACTIVE"
      /\ \A b \in LogBlocks : b # Logger => state'[b] = state[b]
      /\ \A b \in LogBlocks : state'[b] = "none" <=> state[b] = "none"
  BY <1>0, <1>b, <1>c DEF LogTypeOK, LogStates
<1>e. \A k \in 1 .. n : rconf[k].kind \in {"iblock", "port"}
  BY <1>0, <1>b DEF InitEnd, Refused, EntryInv
<1>f. \A k \in 1 .. n : NamedIn(lports, k)
  BY <1>0, <1>b, <1>e DEF NamedInv, HasPort
<1>g. \A k \in 1 .. n : Lookup(lports, k) \in DOMAIN lports /\ lports[Lookup(lports, k)].name = k
  BY <1>0, <1>f, LookupFacts DEF LogTypeOK
<1>h. DOMAIN lports \subseteq Nat
  BY <1>0, LogTypes
<1>i. rconf' = [k \in 1 .. n |-> [rconf[k] EXCEPT !.pinv = Lookup(lports, k)]]
  BY <1>b DEF InitEnd, PortPointers
<1>j. ASSUME NEW k \in 1 .. n
      PROVE  /\ rconf'[k] \in Entries /\ rconf'[k].kind = rconf[k].kind
             /\ rconf'[k].src = rconf[k].src /\ rconf'[k].ib = rconf[k].ib
             /\ rconf'[k].pinv \in DOMAIN lports /\ lports[rconf'[k].pinv].name = k
  <2>1. PICK x : x = Lookup(lports, k)
    OBVIOUS
  <2>2. x \in DOMAIN lports /\ lports[x].name = k /\ x \in Nat
    BY <1>g, <1>h, <2>1
  <2>3. PICK e : e = rconf[k]
    OBVIOUS
  <2>4. e \in Entries
    BY <1>b, <2>3
  <2>5. PICK f : f = [e EXCEPT !.pinv = x]
    OBVIOUS
  <2>6. /\ f \in Entries /\ f.kind = e.kind /\ f.src = e.src /\ f.ib = e.ib /\ f.pinv = x
    BY <2>2, <2>4, <2>5 DEF Entries
  <2>7. rconf'[k] = f
    BY <1>i, <2>1, <2>3, <2>5
  <2> QED BY <2>2, <2>3, <2>6, <2>7
<1>k. rconf' \in Seq(Entries) /\ DOMAIN rconf' = 1 .. n /\ Len(rconf') = n
  <2>1. rconf' \in [1 .. n -> Entries]
    BY <1>i, <1>j
  <2> QED BY <1>b, <2>1
<1>l. sample' \in Seq(Samples \cup {NULL}) /\ Len(sample') = n /\ DOMAIN sample' = 1 .. n
      /\ \A k \in 1 .. n : sample'[k] = NULL
  <2>1. sample' = [k \in 1 .. n |-> NULL]
    BY <1>b DEF InitEnd
  <2>2. sample' \in [1 .. n -> Samples \cup {NULL}]
    BY <2>1
  <2> QED BY <1>b, <2>1, <2>2
<1>m. ~ Cleaning /\ ~ Cleaning'
  BY <1>b DEF Cleaning
<1>1. BuffersOK' /\ CountsOK' /\ ListInv'
  BY <1>0, Kept DEF LogTypeOK, LoggerFollowed, InitEnd, loopVars
<1>2. LogTypeOK'
  <2>1. (state \in [LogBlocks -> LogStates])'
    BY <1>0 DEF InitEnd, loopVars, LogTypeOK, LogStates
  <2>2. ListOK'
    BY <1>0, <1>d DEF InitEnd, LogTypeOK, ListOK
  <2>3. EntriesOK'
    BY <1>0, <1>k, <1>l DEF InitEnd, LogTypeOK, EntriesOK
  <2>4. HooksOK'
    BY <1>0 DEF InitEnd, loopVars, LogTypeOK, HooksOK
  <2>5. (lports \in Seq(LogPorts))' /\ (outs \in [Sources -> {NULL} \cup Seq(Pool)])'
    BY <1>0 DEF InitEnd, loopVars, LogTypeOK
  <2> QED BY <1>1, <2>1, <2>2, <2>3, <2>4, <2>5 DEF LogTypeOK
<1>3. HookInv'
  BY <1>b, <1>d, <1>e, <1>j, <1>k, <1>l, <1>m DEF HookInv, Running
<1>4. EntryInv'
  <2>1. \A k \in DOMAIN rconf' : HasInter(k)' => HasInter(k)
    BY <1>b, <1>j, <1>k, <1>m DEF HasInter
  <2>2. \A k \in 1 .. n : rconf[k].ib \in Pool => rconf[k].ib # Logger /\ rconf[k].ib \in LogBlocks
    BY <1>c DEF LogBlocks
  <2>3. \A k \in DOMAIN rconf' : HasInter(k)' => rconf[k].kind = "port" /\ rconf[k].ib \in Pool
    BY <1>0, <1>b, <2>1 DEF EntryInv, HasInter
  <2> QED BY <1>0, <1>b, <1>d, <1>j, <1>k, <2>1, <2>2, <2>3 DEF EntryInv
<1>5. ConnInv'
  <2>1. \A k \in DOMAIN rconf' : HasOut(k)' <=> HasOut(k)
    BY <1>b, <1>j, <1>k DEF HasOut
  <2>2. outs' = outs
    BY DEF InitEnd
  <2>3. \A i \in Pool : state'[i] = "none" <=> state[i] = "none"
    BY <1>d DEF LogBlocks
  <2> QED BY <1>0, <1>b, <1>j, <1>k, <2>1, <2>2, <2>3 DEF ConnInv
<1>6. StopInv'
  BY <1>0 DEF LogTypeOK, InitEnd, loopVars, StopInv
<1>7. BufferInv'
  <2>1. base' = base /\ written' = written /\ lbuf' = lbuf
    BY DEF InitEnd
  <2>2. \A i \in Pool : state'[i] = "none" <=> state[i] = "none"
    BY <1>d DEF LogBlocks
  <2>3. \A k \in DOMAIN rconf' : k \in DOMAIN rconf /\ rconf'[k].kind = rconf[k].kind
          /\ rconf'[k].src = rconf[k].src /\ rconf'[k].ib = rconf[k].ib
    BY <1>b, <1>j, <1>k
  <2> QED BY <1>0, <2>1, <2>2, <2>3 DEF BufferInv
<1>8. NamedInv'
  <2>1. \A k \in DOMAIN rconf' : HasPort(k)' => HasPort(k)
    BY <1>b, <1>k DEF HasPort
  <2> QED BY <1>b, <1>f, <1>j, <1>k DEF NamedInv
<1>9. OwnPorts'
  <2>1. \A k \in DOMAIN rconf' : HasPort(k)' <=> HasPort(k)
    BY <1>b, <1>k DEF HasPort
  <2>2. ASSUME broken' PROVE OwnPorts'
    BY <2>2 DEF OwnPorts
  <2>3. ASSUME ~ broken' PROVE OwnPorts'
    <3>1. ~ broken
      BY <1>b, <2>3, Zenon
    <3>2. \A j \in DOMAIN lports : lports[j].name \in 1 .. n
      BY <1>0, <1>b, <3>1 DEF OwnPorts, HasPort
    <3>3. \A j \in DOMAIN lports : HasPort(lports[j].name)' /\ lports[j].name \in DOMAIN rconf'
      BY <1>b, <1>k, <3>2 DEF HasPort
    <3>4. \A j \in DOMAIN lports : lports[j].in_interaction = <<rconf'[lports[j].name].ib>>
      BY <1>0, <1>j, <3>1, <3>2 DEF OwnPorts
    <3>5. \A j, l \in DOMAIN lports : lports[j].name = lports[l].name => j = l
      BY <1>0, <3>1 DEF OwnPorts
    <3> QED BY <1>b, <1>e, <1>j, <1>k, <3>3, <3>4, <3>5 DEF OwnPorts
  <2> QED BY <2>2, <2>3
<1>10. OwnInters'
  <2>1. \A k \in DOMAIN rconf' : HasOut(k)' <=> HasOut(k)
    BY <1>b, <1>j, <1>k DEF HasOut
  <2>2. outs' = outs
    BY DEF InitEnd
  <2>3. \A i \in Pool : state'[i] = "none" <=> state[i] = "none"
    BY <1>d DEF LogBlocks
  <2>4. \A k \in DOMAIN rconf' : HasInter(k)' <=> HasInter(k)
    BY <1>b, <1>j, <1>k, <1>m DEF HasInter
  <2>5. ASSUME broken' PROVE OwnInters'
    BY <2>5 DEF OwnInters
  <2>6. ASSUME ~ broken' PROVE OwnInters'
    <3>1. ~ broken
      BY <1>b, <2>6, Zenon
    <3> QED BY <1>0, <1>b, <1>j, <1>k, <2>1, <2>2, <2>3, <2>4, <3>1 DEF OwnInters
  <2> QED BY <2>5, <2>6
<1>11. SampleInv'
  BY <1>l DEF SampleInv
<1>12. (LoggerFollowed => VisitInv)'
  BY <1>0 DEF LogTypeOK, InitEnd, loopVars, VisitInv, Cleaning
<1> QED BY <1>1, <1>2, <1>3, <1>4, <1>5, <1>6, <1>7, <1>8, <1>9, <1>10, <1>11, <1>12 DEF LogInv

LEMMA ReportPortLogInv ==
  ASSUME LogInv, NEW i \in Pool, ReportPort(i)
  PROVE  LogInv'
<1>0. LogTypeOK /\ HookInv /\ EntryInv /\ ConnInv /\ StopInv /\ BufferInv /\ NamedInv
      /\ OwnPorts /\ OwnInters /\ SampleInv /\ ListInv /\ (LoggerFollowed => VisitInv)
  BY DEF LogInv
<1>a. PICK n : n = Len(rconf)
  OBVIOUS
<1>b. PICK s : s = Head(todo).src
  OBVIOUS
<1>c. /\ n \in Nat /\ DOMAIN rconf = 1 .. n /\ hook = "init" /\ hook' = hook /\ broken' = broken
      /\ state[Logger] = "PREINIT" /\ pass = "run" /\ pass' = pass /\ sample = <<>> /\ sample' = <<>>
      /\ DOMAIN sample' = {} /\ todo # <<>> /\ Head(todo).kind = "port" /\ state[i] = "none"
      /\ lbuf' = lbuf /\ written' = written /\ base' = base
  BY <1>0, <1>a, LogTypes DEF ReportPort, Reporting, HookInv, Running, loopVars
<1>d. i \in LogBlocks /\ i \in Interactions /\ i # Logger /\ Logger \in LogBlocks
  BY LogNamesAssumption DEF LogBlocks, Interactions, Others
<1>e. /\ state' \in [LogBlocks -> LogStates] /\ state'[i] = "ACTIVE"
      /\ \A b \in LogBlocks : b # i => state'[b] = state[b]
  BY <1>0, <1>d DEF ReportPort, LogTypeOK, LogStates
<1>f. state'[Logger] = state[Logger]
  BY <1>d, <1>e
<1>g. (lports \in Seq(LogPorts))' /\ NamedInv' /\ OwnPorts'
  <2>1. Listed(i) /\ lports' = PortFor(i)
    BY DEF ReportPort
  <2> QED BY <1>0, <1>c, <1>d, <1>f, <2>1, ReportedPorts
<1>h. /\ todo' \in Seq([kind : Kinds, src : Sources]) /\ rconf' \in Seq(Entries)
      /\ DOMAIN rconf' = 1 .. n + 1 /\ \A k \in 1 .. n : rconf'[k] = rconf[k]
      /\ rconf'[n + 1].kind = "port" /\ rconf'[n + 1].src = s /\ rconf'[n + 1].ib = i
      /\ s \in Sources
  <2>1. Listed(i)
    BY DEF ReportPort
  <2> QED BY <1>0, <1>a, <1>b, <1>c, <1>d, <2>1, ListedFacts
<1>i. PICK a : a = ArrayBlockAdd(outs[s], i)
  OBVIOUS
<1>j. outs[s] \in {NULL} \cup Seq(Pool)
  BY <1>0, <1>h DEF LogTypeOK
<1>k. \A b \in Sources : ~ Connected(outs[b], i)
  BY <1>0, <1>c DEF ConnInv
<1>l. /\ a \in Seq(Pool) /\ \A j : Connected(a, j) <=> Connected(outs[s], j) \/ j = i
      /\ \A p, q \in DOMAIN a : a[p] = a[q] => p = q
  <2>1. NULL \notin Seq(Pool)
    BY SeqOfPool
  <2>2. outs[s] # NULL => \A p, q \in DOMAIN outs[s] : outs[s][p] = outs[s][q] => p = q
    BY <1>0, <1>h DEF ConnInv
  <2>3. ~ Connected(outs[s], i)
    BY <1>h, <1>k
  <2>4. PICK x : x = outs[s]
    OBVIOUS
  <2>5. x \in {NULL} \cup Seq(Pool) /\ (x # NULL => \A p, q \in DOMAIN x : x[p] = x[q] => p = q)
        /\ ~ Connected(x, i) /\ a = ArrayBlockAdd(x, i)
    BY <1>i, <1>j, <2>2, <2>3, <2>4
  <2>6. /\ ArrayBlockAdd(x, i) \in Seq(Pool)
        /\ \A j : Connected(ArrayBlockAdd(x, i), j) <=> Connected(x, j) \/ j = i
        /\ \A p, q \in DOMAIN ArrayBlockAdd(x, i) :
             ArrayBlockAdd(x, i)[p] = ArrayBlockAdd(x, i)[q] => p = q
    BY <2>1, <2>5, ArrayAdded
  <2> QED BY <2>4, <2>5, <2>6
<1>m. outs' \in [Sources -> {NULL} \cup Seq(Pool)] /\ outs'[s] = a
      /\ \A b \in Sources : b # s => outs'[b] = outs[b]
  BY <1>0, <1>b, <1>h, <1>i, <1>l DEF ReportPort, LogTypeOK
<1>n. \A b \in Sources : \A j : Connected(outs'[b], j) <=> Connected(outs[b], j) \/ (b = s /\ j = i)
  <2>1. ASSUME NEW b \in Sources, b # s
        PROVE  \A j : Connected(outs'[b], j) <=> Connected(outs[b], j)
    BY <1>m, <2>1
  <2> QED BY <1>l, <1>m, <2>1
<1>o. order' \in Seq(LogBlocks) /\ Len(order') = Len(order) + 1 /\ order'[Len(order) + 1] = i
      /\ \A p \in 1 .. Len(order) : order'[p] = order[p]
  BY <1>0, <1>d DEF ReportPort, LogTypeOK, ListOK
<1>p. /\ Len(order) \in Nat /\ DOMAIN order = 1 .. Len(order) /\ DOMAIN order' = 1 .. Len(order) + 1
      /\ \A p \in 1 .. Len(order) : order[p] \in LogBlocks /\ state[order[p]] # "none"
  BY <1>0, <1>o, LogTypes
<1>q. ~ Cleaning /\ ~ Cleaning'
  BY <1>c DEF Cleaning
<1>r. ASSUME NEW k \in DOMAIN rconf, rconf[k].kind = "port"
      PROVE  rconf[k].ib # i /\ rconf[k].ib \in LogBlocks
  BY <1>0, <1>c, <1>q, <1>r DEF EntryInv, HasInter, LogBlocks
<1>1. BuffersOK' /\ CountsOK' /\ HooksOK'
  BY <1>0, Kept DEF LogTypeOK, LoggerFollowed, ReportPort, loopVars
<1>2. LogTypeOK'
  <2>1. (state \in [LogBlocks -> LogStates])'
    BY <1>e
  <2>2. ListOK'
    <3>1. Elems(order') = Elems(order) \cup {i}
      <4>1. \A x \in Elems(order') : x \in Elems(order) \cup {i}
        BY <1>o, <1>p DEF Elems
      <4>2. \A x \in Elems(order) : x \in Elems(order')
        BY <1>o, <1>p DEF Elems
      <4>3. Len(order) + 1 \in DOMAIN order'
        BY <1>p
      <4>4. i \in Elems(order')
        BY <1>o, <4>3 DEF Elems
      <4> QED BY <4>1, <4>2, <4>4
    <3>2. {b \in LogBlocks : state'[b] # "none"} = {b \in LogBlocks : state[b] # "none"} \cup {i}
      BY <1>d, <1>e
    <3>3. \A p, q \in DOMAIN order' : order'[p] = order'[q] => p = q
      <4>1. \A p, q \in 1 .. Len(order) : order'[p] = order'[q] => p = q
        BY <1>0, <1>o, <1>p DEF LogTypeOK, ListOK
      <4>2. \A p \in 1 .. Len(order) : order'[p] # i
        BY <1>c, <1>o, <1>p
      <4> QED BY <1>o, <1>p, <4>1, <4>2
    <3> QED BY <1>0, <1>o, <3>1, <3>2, <3>3 DEF LogTypeOK, ListOK
  <2>3. (lports \in Seq(LogPorts))'
    BY <1>g
  <2>4. (outs \in [Sources -> {NULL} \cup Seq(Pool)])'
    BY <1>m
  <2>5. EntriesOK'
    BY <1>0, <1>c, <1>h DEF LogTypeOK, EntriesOK
  <2> QED BY <1>1, <2>1, <2>2, <2>3, <2>4, <2>5 DEF LogTypeOK
<1>3. HookInv'
  BY <1>0 DEF LogTypeOK, ReportPort, Reporting, Listed, loopVars, HookInv, Cleaning, Running,
    HooksOK, EntriesOK
<1>4. EntryInv'
  <2>1. \A k \in DOMAIN rconf' : k = n + 1 \/ (k \in DOMAIN rconf /\ rconf'[k] = rconf[k])
    BY <1>c, <1>h
  <2>2. \A k \in DOMAIN rconf : rconf[k].kind = "port" => state[rconf[k].ib] # "none"
    BY <1>0, <1>c, <1>q DEF EntryInv, HasInter
  <2>3. \A k \in DOMAIN rconf' : rconf'[k].kind = "port" => state'[rconf'[k].ib] # "none"
    BY <1>e, <1>h, <1>r, <2>1, <2>2
  <2>4. \A j, k \in DOMAIN rconf' :
          rconf'[j].kind = "port" /\ rconf'[k].kind = "port" /\ rconf'[j].ib = rconf'[k].ib => j = k
    BY <1>0, <1>h, <1>r, <2>1 DEF EntryInv
  <2> QED BY <1>0, <1>h, <2>1, <2>3, <2>4 DEF EntryInv, HasInter
<1>5. ConnInv'
  <2>1. \A k \in DOMAIN rconf' : k = n + 1 \/ (k \in DOMAIN rconf /\ rconf'[k] = rconf[k])
    BY <1>c, <1>h
  <2>2. \A k \in DOMAIN rconf' : HasOut(k)' <=> rconf'[k].kind = "port"
    BY <1>c, <1>q DEF HasOut, Cleaning
  <2>3. ASSUME NEW b \in Sources, outs'[b] # NULL
        PROVE  \A p, q \in DOMAIN outs'[b] : outs'[b][p] = outs'[b][q] => p = q
    BY <1>0, <1>l, <1>m, <2>3 DEF ConnInv
  <2>4. \A b, c \in Sources, j \in Pool :
          Connected(outs'[b], j) /\ Connected(outs'[c], j) => b = c
    BY <1>0, <1>k, <1>n DEF ConnInv
  <2>5. \A b \in Sources, j \in Pool : Connected(outs'[b], j) => state'[j] # "none"
    BY <1>0, <1>c, <1>e, <1>n DEF ConnInv, LogBlocks
  <2>6. ASSUME NEW b \in Sources, NEW k \in DOMAIN rconf',
               rconf'[k].kind = "port", Connected(outs'[b], rconf'[k].ib)
        PROVE  b = rconf'[k].src
    <3>1. CASE k = n + 1
      BY <1>h, <1>k, <1>n, <2>6, <3>1
    <3>2. CASE k # n + 1
      BY <1>0, <1>n, <1>r, <2>1, <2>6, <3>2 DEF ConnInv
    <3> QED BY <3>1, <3>2
  <2> QED BY <2>2, <2>3, <2>4, <2>5, <2>6 DEF ConnInv
<1>6. StopInv'
  BY <1>c DEF StopInv
<1>7. BufferInv'
  <2>1. \A k \in DOMAIN rconf' : k = n + 1 \/ (k \in DOMAIN rconf /\ rconf'[k] = rconf[k])
    BY <1>c, <1>h
  <2>2. lbuf[i] = <<>> /\ DOMAIN lbuf[i] = {}
    BY <1>0, <1>c DEF BufferInv
  <2>3. \A j \in Pool : state'[j] = "none" => state[j] = "none"
    BY <1>e DEF LogBlocks
  <2>4. \A k \in DOMAIN rconf' : rconf'[k].kind = "port" => \A p \in DOMAIN lbuf[rconf'[k].ib] :
          /\ lbuf[rconf'[k].ib][p].src = rconf'[k].src
          /\ lbuf[rconf'[k].ib][p].nr > base[rconf'[k].src]
    BY <1>0, <1>h, <2>1, <2>2 DEF BufferInv
  <2> QED BY <1>0, <1>c, <2>3, <2>4 DEF BufferInv
<1>8. NamedInv'
  BY <1>g
<1>9. OwnPorts'
  BY <1>g
<1>10. OwnInters'
  <2>1. \A k \in DOMAIN rconf : k \in DOMAIN rconf' /\ rconf'[k] = rconf[k]
    BY <1>c, <1>h
  <2>2. \A k \in DOMAIN rconf' : HasOut(k)' <=> rconf'[k].kind = "port"
    BY <1>c, <1>q DEF HasOut, Cleaning
  <2>3. \A k \in DOMAIN rconf' : HasInter(k)' <=> rconf'[k].kind = "port"
    BY <1>q DEF HasInter
  <2>4. n + 1 \in DOMAIN rconf'
    BY <1>c, <1>h
  <2>5. \A k \in DOMAIN rconf : HasOut(k) \/ HasInter(k) => rconf[k].kind = "port"
    BY DEF HasOut, HasInter
  <2>6. ASSUME ~ broken PROVE OwnInters'
    <3>1. ASSUME NEW b \in Sources, NEW j \in Pool, Connected(outs'[b], j)
          PROVE  \E k \in DOMAIN rconf' : HasOut(k)' /\ rconf'[k].ib = j
      BY <1>0, <1>h, <1>n, <2>1, <2>2, <2>4, <2>5, <2>6, <3>1 DEF OwnInters
    <3>2. ASSUME NEW j \in Pool, state'[j] # "none"
          PROVE  \E k \in DOMAIN rconf' : HasInter(k)' /\ rconf'[k].ib = j
      <4>1. CASE j = i
        BY <1>h, <2>3, <2>4, <4>1
      <4>2. CASE j # i
        <5>1. state[j] # "none"
          BY <1>e, <3>2, <4>2 DEF LogBlocks
        <5> QED BY <1>0, <2>1, <2>3, <2>5, <2>6, <5>1 DEF OwnInters
      <4> QED BY <4>1, <4>2
    <3> QED BY <3>1, <3>2 DEF OwnInters
  <2>7. ASSUME broken PROVE OwnInters'
    <3>1. broken'
      BY <1>c, <2>7, Zenon
    <3> QED BY <3>1 DEF OwnInters
  <2> QED BY <2>6, <2>7
<1>11. SampleInv'
  BY <1>c DEF SampleInv
<1>12. ListInv'
  <2>1. PICK o \in Orders : FirstBlocks(o)
    BY <1>0, <1>c DEF ListInv
  <2>2. o \in Seq(Others)
    BY OrdersAssumption
  <2>3. Len(o) <= Len(order') /\ \A p \in DOMAIN o : order'[p] = o[p]
    BY <1>o, <1>p, <2>1, <2>2 DEF FirstBlocks
  <2>4. \A p \in DOMAIN order' : p > Len(o) => order'[p] \in Pool
    BY <1>o, <1>p, <2>1, <2>2 DEF FirstBlocks
  <2> QED BY <2>1, <2>3, <2>4 DEF ListInv, FirstBlocks
<1>13. (LoggerFollowed => VisitInv)'
  BY <1>0, <1>c DEF ReportPort, VisitInv, loopVars
<1> QED BY <1>1, <1>2, <1>3, <1>4, <1>5, <1>6, <1>7, <1>8, <1>9, <1>10, <1>11, <1>12, <1>13 DEF
  LogInv

LEMMA LoggerStartLogInv ==
  ASSUME LogInv, LoggerStart
  PROVE  LogInv'
<1>0. LogTypeOK /\ HookInv /\ EntryInv /\ ConnInv /\ StopInv /\ BufferInv /\ NamedInv
      /\ OwnPorts /\ OwnInters /\ SampleInv /\ ListInv /\ (LoggerFollowed => VisitInv)
  BY DEF LogInv
<1>1. BuffersOK' /\ CountsOK' /\ EntriesOK' /\ HooksOK' /\ SampleInv' /\ ListInv'
      /\ (LoggerFollowed => VisitInv)'
  BY <1>0, Kept DEF LogTypeOK, LoggerFollowed, LoggerStart, Moves, confVars, loopVars
<1>2. LogTypeOK'
  <2>1. (state \in [LogBlocks -> LogStates])'
    BY <1>0 DEF LoggerStart, Moves, confVars, loopVars, LogTypeOK, LogStates
  <2>2. ListOK'
    BY <1>0 DEF LoggerStart, Moves, confVars, loopVars, LogTypeOK, ListOK
  <2>3. (lports \in Seq(LogPorts))' /\ (outs \in [Sources -> {NULL} \cup Seq(Pool)])'
    BY <1>0 DEF LoggerStart, Moves, confVars, loopVars, LogTypeOK
  <2> QED BY <1>1, <2>1, <2>2, <2>3 DEF LogTypeOK
<1>3. HookInv'
  BY <1>0 DEF LogTypeOK, LoggerStart, Moves, confVars, loopVars, HookInv, Cleaning, Running,
    HooksOK, EntriesOK
<1>4. EntryInv'
  BY <1>0 DEF LogTypeOK, LoggerStart, Moves, confVars, loopVars, EntryInv, HasInter, Cleaning,
    HooksOK, EntriesOK
<1>5. ConnInv'
  BY <1>0 DEF LogTypeOK, LoggerStart, Moves, confVars, loopVars, ConnInv, HasOut, Cleaning
<1>6. StopInv'
  BY <1>0 DEF LogTypeOK, LoggerStart, Moves, confVars, loopVars, StopInv
<1>7. BufferInv'
  BY <1>0 DEF LogTypeOK, LoggerStart, Moves, confVars, loopVars, BufferInv
<1>8. NamedInv'
  BY <1>0 DEF LogTypeOK, LoggerStart, Moves, confVars, loopVars, NamedInv, Running, HasPort
<1>9. OwnPorts'
  BY <1>0 DEF LogTypeOK, LoggerStart, Moves, confVars, loopVars, OwnPorts, Running, HasPort
<1>10. OwnInters'
  BY <1>0 DEF LogTypeOK, LoggerStart, Moves, confVars, loopVars, OwnInters, HasOut, HasInter,
    Cleaning
<1> QED BY <1>1, <1>2, <1>3, <1>4, <1>5, <1>6, <1>7, <1>8, <1>9, <1>10 DEF LogInv

LEMMA LoggerStopLogInv ==
  ASSUME LogInv, LoggerStop
  PROVE  LogInv'
<1>0. LogTypeOK /\ HookInv /\ EntryInv /\ ConnInv /\ StopInv /\ BufferInv /\ NamedInv
      /\ OwnPorts /\ OwnInters /\ SampleInv /\ ListInv /\ (LoggerFollowed => VisitInv)
  BY DEF LogInv
<1>1. BuffersOK' /\ CountsOK' /\ EntriesOK' /\ HooksOK' /\ SampleInv' /\ ListInv'
      /\ (LoggerFollowed => VisitInv)'
  BY <1>0, Kept DEF LogTypeOK, LoggerFollowed, LoggerStop, Moves, confVars, loopVars
<1>2. LogTypeOK'
  <2>1. (state \in [LogBlocks -> LogStates])'
    BY <1>0 DEF LoggerStop, Moves, confVars, loopVars, LogTypeOK, LogStates
  <2>2. ListOK'
    BY <1>0 DEF LoggerStop, Moves, confVars, loopVars, LogTypeOK, ListOK
  <2>3. (lports \in Seq(LogPorts))' /\ (outs \in [Sources -> {NULL} \cup Seq(Pool)])'
    BY <1>0 DEF LoggerStop, Moves, confVars, loopVars, LogTypeOK
  <2> QED BY <1>1, <2>1, <2>2, <2>3 DEF LogTypeOK
<1>3. HookInv'
  BY <1>0 DEF LogTypeOK, LoggerStop, Moves, confVars, loopVars, HookInv, Cleaning, Running,
    HooksOK, EntriesOK
<1>4. EntryInv'
  BY <1>0 DEF LogTypeOK, LoggerStop, Moves, confVars, loopVars, EntryInv, HasInter, Cleaning,
    HooksOK, EntriesOK
<1>5. ConnInv'
  BY <1>0 DEF LogTypeOK, LoggerStop, Moves, confVars, loopVars, ConnInv, HasOut, Cleaning
<1>6. StopInv'
  BY <1>0 DEF LogTypeOK, LoggerStop, Moves, confVars, loopVars, StopInv
<1>7. BufferInv'
  BY <1>0 DEF LogTypeOK, LoggerStop, Moves, confVars, loopVars, BufferInv
<1>8. NamedInv'
  BY <1>0 DEF LogTypeOK, LoggerStop, Moves, confVars, loopVars, NamedInv, Running, HasPort
<1>9. OwnPorts'
  BY <1>0 DEF LogTypeOK, LoggerStop, Moves, confVars, loopVars, OwnPorts, Running, HasPort
<1>10. OwnInters'
  BY <1>0 DEF LogTypeOK, LoggerStop, Moves, confVars, loopVars, OwnInters, HasOut, HasInter,
    Cleaning
<1> QED BY <1>1, <1>2, <1>3, <1>4, <1>5, <1>6, <1>7, <1>8, <1>9, <1>10 DEF LogInv

LEMMA StepBeginLogInv ==
  ASSUME LogInv, StepBegin
  PROVE  LogInv'
<1>0. LogTypeOK /\ HookInv /\ EntryInv /\ ConnInv /\ StopInv /\ BufferInv /\ NamedInv
      /\ OwnPorts /\ OwnInters /\ SampleInv /\ ListInv /\ (LoggerFollowed => VisitInv)
  BY DEF LogInv
<1>1. ListOK' /\ BuffersOK' /\ CountsOK' /\ EntriesOK' /\ StopInv' /\ BufferInv' /\ SampleInv'
      /\ ListInv'
  BY <1>0, Kept DEF LogTypeOK, LoggerFollowed, StepBegin, confVars, loopVars
<1>2. LogTypeOK'
  <2>1. HooksOK'
    BY <1>0 DEF StepBegin, confVars, loopVars, LogTypeOK, HooksOK
  <2>2. /\ (state \in [LogBlocks -> LogStates])'
        /\ (lports \in Seq(LogPorts))'
        /\ (outs \in [Sources -> {NULL} \cup Seq(Pool)])'
    BY <1>0 DEF StepBegin, confVars, loopVars, LogTypeOK
  <2> QED BY <1>1, <2>1, <2>2 DEF LogTypeOK
<1>3. HookInv'
  BY <1>0 DEF LogTypeOK, StepBegin, confVars, loopVars, HookInv, Cleaning, Running, HooksOK,
    EntriesOK
<1>4. EntryInv'
  BY <1>0 DEF LogTypeOK, StepBegin, confVars, loopVars, EntryInv, HasInter, Cleaning, HooksOK,
    EntriesOK
<1>5. ConnInv'
  BY <1>0 DEF LogTypeOK, StepBegin, confVars, loopVars, ConnInv, HasOut, Cleaning
<1>6. NamedInv'
  BY <1>0 DEF LogTypeOK, StepBegin, confVars, loopVars, NamedInv, Running, HasPort
<1>7. OwnPorts'
  BY <1>0 DEF LogTypeOK, StepBegin, confVars, loopVars, OwnPorts, Running, HasPort
<1>8. OwnInters'
  BY <1>0 DEF LogTypeOK, StepBegin, confVars, loopVars, OwnInters, HasOut, HasInter, Cleaning
<1>9. (LoggerFollowed => VisitInv)'
  BY <1>0 DEF LogTypeOK, StepBegin, confVars, loopVars, VisitInv, Cleaning
<1> QED BY <1>1, <1>2, <1>3, <1>4, <1>5, <1>6, <1>7, <1>8, <1>9 DEF LogInv

LEMMA LogEntryLogInv ==
  ASSUME LogInv, LogEntry
  PROVE  LogInv'
<1>0. LogTypeOK /\ HookInv /\ EntryInv /\ ConnInv /\ StopInv /\ BufferInv /\ NamedInv
      /\ OwnPorts /\ OwnInters /\ SampleInv /\ ListInv /\ (LoggerFollowed => VisitInv)
  BY DEF LogInv
<1>a. /\ at \in 1 .. Len(rconf) /\ Len(sample) = Len(rconf) /\ DOMAIN sample = DOMAIN rconf
      /\ \/ lbuf' = lbuf /\ sample' = sample
         \/ \E i \in Interactions :
              /\ lbuf[i] # <<>> /\ (~ broken => i = rconf[at].ib)
              /\ sample' = [sample EXCEPT ![at] = Head(lbuf[i])]
              /\ lbuf' = [lbuf EXCEPT ![i] = Tail(@)]
  BY <1>0, EntryEffect
<1>b. /\ rconf' = rconf /\ state' = state /\ base' = base /\ written' = written /\ todo' = todo
      /\ broken' = broken
  BY DEF LogEntry
<1>c. ASSUME NEW i \in Interactions, lbuf[i] # <<>>, lbuf' = [lbuf EXCEPT ![i] = Tail(@)]
      PROVE  /\ lbuf' \in [Interactions -> Seq(Samples)] /\ Head(lbuf[i]) = lbuf[i][1]
             /\ 1 \in DOMAIN lbuf[i] /\ lbuf[i][1] \in Samples
             /\ Len(lbuf'[i]) = Len(lbuf[i]) - 1 /\ Len(lbuf[i]) \in Nat /\ Len(lbuf[i]) <= BuffLen
             /\ \A p \in DOMAIN lbuf'[i] : /\ p \in Nat \ {0} /\ p + 1 \in DOMAIN lbuf[i]
                                           /\ lbuf'[i][p] = lbuf[i][p + 1]
             /\ \A j \in Interactions : j # i => lbuf'[j] = lbuf[j]
  <2>1. PICK t : t = lbuf[i]
    OBVIOUS
  <2>2. t \in Seq(Samples) /\ t # <<>> /\ Len(t) <= BuffLen
    BY <1>0, <1>c, <2>1 DEF LogTypeOK, BuffersOK
  <2>3. PICK u : u = Tail(t)
    OBVIOUS
  <2>4. /\ u \in Seq(Samples) /\ Len(u) = Len(t) - 1 /\ Len(t) \in Nat \ {0} /\ Head(t) = t[1]
        /\ DOMAIN t = 1 .. Len(t) /\ t[1] \in Samples
        /\ DOMAIN u = 1 .. Len(u) /\ \A p \in DOMAIN u : u[p] = t[p + 1]
    BY <2>2, <2>3
  <2>5. \A p \in DOMAIN u : p \in Nat \ {0} /\ p + 1 \in DOMAIN t
    BY <2>4
  <2>6. lbuf \in [Interactions -> Seq(Samples)]
    BY <1>0 DEF LogTypeOK, BuffersOK
  <2>7. lbuf' = [lbuf EXCEPT ![i] = u]
    BY <1>c, <2>1, <2>3
  <2>8. lbuf' \in [Interactions -> Seq(Samples)] /\ lbuf'[i] = u
        /\ \A j \in Interactions : j # i => lbuf'[j] = lbuf[j]
    BY <2>4, <2>6, <2>7
  <2>9. 1 \in DOMAIN t
    BY <2>4
  <2> QED BY <2>1, <2>2, <2>4, <2>5, <2>8, <2>9
<1>1. ListOK' /\ CountsOK' /\ StopInv' /\ ListInv' /\ (LoggerFollowed => VisitInv)'
  BY <1>0, Kept DEF LogTypeOK, LoggerFollowed, LogEntry, loopVars
<1>2. LogTypeOK'
  <2>1. BuffersOK'
    <3>1. CASE lbuf' = lbuf
      BY <1>0, <3>1 DEF LogTypeOK, BuffersOK
    <3>2. ASSUME NEW i \in Interactions, lbuf[i] # <<>>, lbuf' = [lbuf EXCEPT ![i] = Tail(@)]
          PROVE  BuffersOK'
      <4>1. /\ lbuf' \in [Interactions -> Seq(Samples)] /\ Len(lbuf'[i]) = Len(lbuf[i]) - 1
            /\ Len(lbuf[i]) \in Nat /\ Len(lbuf[i]) <= BuffLen
            /\ \A j \in Interactions : j # i => lbuf'[j] = lbuf[j]
        BY <1>c, <3>2
      <4>2. Len(lbuf'[i]) <= BuffLen
        BY <4>1, LogBoundsAssumption
      <4>3. \A j \in Interactions : Len(lbuf'[j]) <= BuffLen
        BY <1>0, <4>1, <4>2 DEF LogTypeOK, BuffersOK
      <4> QED BY <4>1, <4>3 DEF BuffersOK
    <3> QED BY <1>a, <3>1, <3>2
  <2>2. EntriesOK'
    <3>1. sample' \in Seq(Samples \cup {NULL})
      <4>1. ASSUME NEW i \in Interactions, lbuf[i] # <<>>, lbuf' = [lbuf EXCEPT ![i] = Tail(@)],
                   sample' = [sample EXCEPT ![at] = Head(lbuf[i])]
            PROVE  sample' \in Seq(Samples \cup {NULL})
        <5>1. PICK x \in Samples : x = Head(lbuf[i])
          BY <1>c, <4>1
        <5>2. sample \in Seq(Samples \cup {NULL}) /\ at \in 1 .. Len(sample)
          BY <1>0, <1>a DEF LogTypeOK, EntriesOK
        <5>3. sample' = [sample EXCEPT ![at] = x]
          BY <4>1, <5>1
        <5> QED BY <5>2, <5>3
      <4> QED BY <1>0, <1>a, <4>1 DEF LogTypeOK, EntriesOK
    <3> QED BY <1>0, <1>b, <3>1 DEF LogTypeOK, EntriesOK
  <2>3. HooksOK'
    BY <1>0 DEF LogEntry, loopVars, LogTypeOK, HooksOK
  <2>4. /\ (state \in [LogBlocks -> LogStates])'
        /\ (lports \in Seq(LogPorts))'
        /\ (outs \in [Sources -> {NULL} \cup Seq(Pool)])'
    BY <1>0 DEF LogEntry, loopVars, LogTypeOK
  <2> QED BY <1>1, <2>1, <2>2, <2>3, <2>4 DEF LogTypeOK
<1>3. HookInv'
  BY <1>0 DEF LogTypeOK, LogEntry, loopVars, HookInv, Cleaning, Running, HooksOK, EntriesOK
<1>4. EntryInv'
  BY <1>0 DEF LogTypeOK, LogEntry, loopVars, EntryInv, HasInter, Cleaning, HooksOK, EntriesOK
<1>5. ConnInv'
  BY <1>0 DEF LogTypeOK, LogEntry, loopVars, ConnInv, HasOut, Cleaning
<1>6. BufferInv'
  <2>1. CASE lbuf' = lbuf
    BY <1>0, <1>b, <2>1 DEF BufferInv
  <2>2. ASSUME NEW i \in Interactions, lbuf[i] # <<>>, lbuf' = [lbuf EXCEPT ![i] = Tail(@)]
        PROVE  BufferInv'
    <3>1. ASSUME NEW j \in Interactions, NEW p \in DOMAIN lbuf'[j]
          PROVE  \E q \in DOMAIN lbuf[j] : lbuf'[j][p] = lbuf[j][q]
      <4>1. CASE j = i
        <5>1. p + 1 \in DOMAIN lbuf[i] /\ lbuf'[i][p] = lbuf[i][p + 1]
          BY <1>c, <2>2, <4>1
        <5> QED BY <4>1, <5>1
      <4>2. CASE j # i
        <5>1. lbuf'[j] = lbuf[j]
          BY <1>c, <2>2, <4>2
        <5> QED BY <5>1
      <4> QED BY <4>1, <4>2
    <3>2. \A j \in Interactions : \A p, q \in DOMAIN lbuf'[j] : p < q =>
            \E m, n \in DOMAIN lbuf[j] : m < n /\ lbuf'[j][p] = lbuf[j][m] /\ lbuf'[j][q] = lbuf[j][n]
      <4>1. ASSUME NEW p \in DOMAIN lbuf'[i], NEW q \in DOMAIN lbuf'[i], p < q
            PROVE  \E m, n \in DOMAIN lbuf[i] :
                     m < n /\ lbuf'[i][p] = lbuf[i][m] /\ lbuf'[i][q] = lbuf[i][n]
        <5>1. /\ p \in Nat /\ q \in Nat /\ p + 1 \in DOMAIN lbuf[i] /\ q + 1 \in DOMAIN lbuf[i]
              /\ lbuf'[i][p] = lbuf[i][p + 1] /\ lbuf'[i][q] = lbuf[i][q + 1]
          BY <1>c, <2>2
        <5>2. p + 1 < q + 1
          BY <4>1, <5>1
        <5> QED BY <5>1, <5>2
      <4>2. \A j \in Interactions : j # i => lbuf'[j] = lbuf[j]
        BY <1>c, <2>2
      <4> QED BY <4>1, <4>2
    <3>3. \A k \in DOMAIN rconf : rconf[k].kind = "port" => rconf[k].ib \in Interactions
      BY <1>0 DEF EntryInv, Interactions
    <3>4. \A j \in Pool : state[j] = "none" => lbuf'[j] = <<>>
      <4>1. \A j \in Pool : state[j] = "none" => j # i /\ j \in Interactions /\ lbuf[j] = <<>>
        BY <1>0, <2>2 DEF BufferInv, Interactions
      <4> QED BY <1>c, <2>2, <4>1
    <3>5. \A k \in DOMAIN rconf : rconf[k].kind = "port" => \A p \in DOMAIN lbuf'[rconf[k].ib] :
            /\ lbuf'[rconf[k].ib][p].src = rconf[k].src
            /\ lbuf'[rconf[k].ib][p].nr > base[rconf[k].src]
      BY <1>0, <3>1, <3>3 DEF BufferInv
    <3>6. \A j \in Interactions :
            \A p \in DOMAIN lbuf'[j] : lbuf'[j][p].nr <= written[lbuf'[j][p].src]
      BY <1>0, <3>1 DEF BufferInv
    <3>7. \A j \in Interactions : \A p, q \in DOMAIN lbuf'[j] :
            p < q /\ lbuf'[j][p].src = lbuf'[j][q].src => lbuf'[j][p].nr < lbuf'[j][q].nr
      BY <1>0, <3>2 DEF BufferInv
    <3> QED BY <1>0, <1>b, <3>4, <3>5, <3>6, <3>7 DEF BufferInv
  <2> QED BY <1>a, <2>1, <2>2
<1>7. NamedInv'
  BY <1>0 DEF LogTypeOK, LogEntry, loopVars, NamedInv, Running, HasPort
<1>8. OwnPorts'
  BY <1>0 DEF LogTypeOK, LogEntry, loopVars, OwnPorts, Running, HasPort
<1>9. OwnInters'
  BY <1>0 DEF LogTypeOK, LogEntry, loopVars, OwnInters, HasOut, HasInter, Cleaning
<1>10. SampleInv'
  <2>1. ASSUME broken PROVE SampleInv'
    <3>1. broken'
      BY <1>b, <2>1, Zenon
    <3> QED BY <3>1 DEF SampleInv
  <2>2. CASE lbuf' = lbuf /\ sample' = sample
    BY <1>0, <1>b, <2>2 DEF SampleInv
  <2>3. ASSUME ~ broken, NEW i \in Interactions, lbuf[i] # <<>>, lbuf' = [lbuf EXCEPT ![i] = Tail(@)],
               i = rconf[at].ib, sample' = [sample EXCEPT ![at] = Head(lbuf[i])]
        PROVE  SampleInv'
    <3>1. PICK x \in Samples : x = Head(lbuf[i]) /\ x = lbuf[i][1] /\ 1 \in DOMAIN lbuf[i]
      BY <1>c, <2>3
    <3>2. /\ at \in DOMAIN sample /\ DOMAIN sample' = DOMAIN sample /\ sample'[at] = x
          /\ \A k \in DOMAIN sample : k # at => sample'[k] = sample[k]
      <4>1. at \in DOMAIN sample
        BY <1>0, <1>a, LogTypes
      <4> QED BY <2>3, <3>1, <4>1
    <3>3. ASSUME NEW j \in Interactions, NEW p \in DOMAIN lbuf'[j]
          PROVE  \E q \in DOMAIN lbuf[j] : lbuf'[j][p] = lbuf[j][q]
      <4>1. CASE j = i
        <5>1. p + 1 \in DOMAIN lbuf[i] /\ lbuf'[i][p] = lbuf[i][p + 1]
          BY <1>c, <2>3, <4>1
        <5> QED BY <4>1, <5>1
      <4>2. CASE j # i
        <5>1. lbuf'[j] = lbuf[j]
          BY <1>c, <2>3, <4>2
        <5> QED BY <5>1
      <4> QED BY <4>1, <4>2
    <3>4. ASSUME NEW p \in DOMAIN lbuf'[i], lbuf'[i][p].src = x.src
          PROVE  lbuf'[i][p].nr > x.nr
      <4>1. p \in Nat \ {0} /\ p + 1 \in DOMAIN lbuf[i] /\ lbuf'[i][p] = lbuf[i][p + 1]
        BY <1>c, <2>3
      <4>2. 1 < p + 1
        BY <4>1
      <4>3. lbuf[i][1].nr < lbuf[i][p + 1].nr
        BY <1>0, <3>1, <3>4, <4>1, <4>2 DEF BufferInv
      <4>4. lbuf[i][p + 1] \in Samples
        BY <1>0, <4>1 DEF LogTypeOK, BuffersOK
      <4>5. lbuf[i][p + 1].nr \in Nat /\ x.nr \in Nat
        BY <4>4 DEF Samples
      <4> QED BY <3>1, <4>1, <4>3, <4>5
    <3>5. /\ rconf[at].kind = "port" => x.src = rconf[at].src /\ x.nr > base[rconf[at].src]
          /\ x.nr <= written[x.src]
      <4>1. at \in DOMAIN rconf
        BY <1>a, <3>2
      <4>2. x.nr <= written[x.src]
        BY <1>0, <3>1 DEF BufferInv
      <4>3. rconf[at].kind = "port" => x.src = rconf[at].src /\ x.nr > base[rconf[at].src]
        BY <1>0, <2>3, <3>1, <4>1 DEF BufferInv
      <4> QED BY <4>2, <4>3
    <3>6. ASSUME NEW k \in DOMAIN sample, sample'[k] # NULL
          PROVE  /\ rconf[k].kind = "port" =>
                      sample'[k].src = rconf[k].src /\ sample'[k].nr > base[rconf[k].src]
                 /\ sample'[k].nr <= written[sample'[k].src]
                 /\ \A p \in DOMAIN lbuf'[rconf[k].ib] :
                      lbuf'[rconf[k].ib][p].src = sample'[k].src =>
                        lbuf'[rconf[k].ib][p].nr > sample'[k].nr
      <4>1. CASE k = at
        BY <2>3, <3>2, <3>4, <3>5, <4>1
      <4>2. CASE k # at
        <5>1. sample'[k] = sample[k] /\ sample[k] # NULL
          BY <3>2, <3>6, <4>2
        <5>2. rconf[k].ib \in Interactions
          <6>1. rconf[k].kind \in {"iblock", "port"}
            BY <1>0, <1>a DEF LogEntry, HookInv, Running
          <6> QED BY <1>0, <1>a, <6>1 DEF EntryInv, Interactions
        <5>3. /\ rconf[k].kind = "port" =>
                   sample[k].src = rconf[k].src /\ sample[k].nr > base[rconf[k].src]
              /\ sample[k].nr <= written[sample[k].src]
              /\ \A p \in DOMAIN lbuf[rconf[k].ib] :
                   lbuf[rconf[k].ib][p].src = sample[k].src => lbuf[rconf[k].ib][p].nr > sample[k].nr
          BY <1>0, <2>3, <5>1 DEF SampleInv
        <5>4. \A p \in DOMAIN lbuf'[rconf[k].ib] :
                \E q \in DOMAIN lbuf[rconf[k].ib] : lbuf'[rconf[k].ib][p] = lbuf[rconf[k].ib][q]
          BY <3>3, <5>2
        <5> QED BY <5>1, <5>3, <5>4
      <4> QED BY <4>1, <4>2
    <3> QED BY <1>b, <3>2, <3>6 DEF SampleInv
  <2> QED BY <1>a, <2>1, <2>2, <2>3
<1> QED BY <1>1, <1>2, <1>3, <1>4, <1>5, <1>6, <1>7, <1>8, <1>9, <1>10 DEF LogInv

LEMMA StepEndLogInv ==
  ASSUME LogInv, StepEnd
  PROVE  LogInv'
<1>0. LogTypeOK /\ HookInv /\ EntryInv /\ ConnInv /\ StopInv /\ BufferInv /\ NamedInv
      /\ OwnPorts /\ OwnInters /\ SampleInv /\ ListInv /\ (LoggerFollowed => VisitInv)
  BY DEF LogInv
<1>1. ListOK' /\ BuffersOK' /\ CountsOK' /\ EntriesOK' /\ StopInv' /\ BufferInv' /\ SampleInv'
      /\ ListInv'
  BY <1>0, Kept DEF LogTypeOK, LoggerFollowed, StepEnd, confVars, loopVars
<1>2. LogTypeOK'
  <2>1. HooksOK'
    BY <1>0 DEF StepEnd, confVars, loopVars, LogTypeOK, HooksOK
  <2>2. /\ (state \in [LogBlocks -> LogStates])'
        /\ (lports \in Seq(LogPorts))'
        /\ (outs \in [Sources -> {NULL} \cup Seq(Pool)])'
    BY <1>0 DEF StepEnd, confVars, loopVars, LogTypeOK
  <2> QED BY <1>1, <2>1, <2>2 DEF LogTypeOK
<1>3. HookInv'
  BY <1>0 DEF LogTypeOK, StepEnd, confVars, loopVars, HookInv, Cleaning, Running, HooksOK,
    EntriesOK
<1>4. EntryInv'
  BY <1>0 DEF LogTypeOK, StepEnd, confVars, loopVars, EntryInv, HasInter, Cleaning, HooksOK,
    EntriesOK
<1>5. ConnInv'
  BY <1>0 DEF LogTypeOK, StepEnd, confVars, loopVars, ConnInv, HasOut, Cleaning
<1>6. NamedInv'
  BY <1>0 DEF LogTypeOK, StepEnd, confVars, loopVars, NamedInv, Running, HasPort
<1>7. OwnPorts'
  BY <1>0 DEF LogTypeOK, StepEnd, confVars, loopVars, OwnPorts, Running, HasPort
<1>8. OwnInters'
  BY <1>0 DEF LogTypeOK, StepEnd, confVars, loopVars, OwnInters, HasOut, HasInter, Cleaning
<1>9. (LoggerFollowed => VisitInv)'
  BY <1>0 DEF LogTypeOK, StepEnd, confVars, loopVars, VisitInv, Cleaning
<1> QED BY <1>1, <1>2, <1>3, <1>4, <1>5, <1>6, <1>7, <1>8, <1>9 DEF LogInv

LEMMA SourceWriteLogInv ==
  ASSUME LogInv, NEW b \in Sources, SourceWrite(b)
  PROVE  LogInv'
<1>0. LogTypeOK /\ HookInv /\ EntryInv /\ ConnInv /\ StopInv /\ BufferInv /\ NamedInv
      /\ OwnPorts /\ OwnInters /\ SampleInv /\ ListInv /\ (LoggerFollowed => VisitInv)
  BY DEF LogInv
<1>a. BuffersOK' /\ CountsOK' /\ BufferInv' /\ SampleInv'
  <2>1. \A i \in Interactions :
          \/ lbuf'[i] = lbuf[i]
          \/ /\ lbuf'[i] = Put(lbuf[i], NextSample(b))
             /\ i \in Pool => Connected(outs[b], i) /\ state[i] = "ACTIVE"
    BY DEF SourceWrite
  <2>2. lbuf' = [i \in Interactions |-> lbuf'[i]]
    BY DEF SourceWrite
  <2>3. /\ written[b] < MaxWrites /\ written' = [written EXCEPT ![b] = @ + 1]
        /\ state' = state /\ outs' = outs /\ UNCHANGED confVars
    BY DEF SourceWrite
  <2> QED BY <2>1, <2>2, <2>3, WrittenSample
<1>1. ListOK' /\ EntriesOK' /\ HooksOK' /\ HookInv' /\ EntryInv' /\ ConnInv' /\ StopInv'
      /\ NamedInv' /\ OwnPorts' /\ OwnInters' /\ ListInv' /\ (LoggerFollowed => VisitInv)'
  BY <1>0, Kept DEF LogTypeOK, LoggerFollowed, SourceWrite, confVars, loopVars
<1>2. LogTypeOK'
  <2>1. BuffersOK'
    BY <1>a
  <2>2. CountsOK'
    BY <1>a
  <2>3. /\ (state \in [LogBlocks -> LogStates])'
        /\ (lports \in Seq(LogPorts))'
        /\ (outs \in [Sources -> {NULL} \cup Seq(Pool)])'
    BY <1>0 DEF SourceWrite, confVars, loopVars, LogTypeOK
  <2> QED BY <1>1, <2>1, <2>2, <2>3 DEF LogTypeOK
<1>3. BufferInv'
  BY <1>a
<1>4. SampleInv'
  BY <1>a
<1> QED BY <1>1, <1>2, <1>3, <1>4 DEF LogInv

LEMMA InterWriteLogInv ==
  ASSUME LogInv, NEW b \in Sources, InterWrite(b)
  PROVE  LogInv'
<1>0. LogTypeOK /\ HookInv /\ EntryInv /\ ConnInv /\ StopInv /\ BufferInv /\ NamedInv
      /\ OwnPorts /\ OwnInters /\ SampleInv /\ ListInv /\ (LoggerFollowed => VisitInv)
  BY DEF LogInv
<1>a. BuffersOK' /\ CountsOK' /\ BufferInv' /\ SampleInv'
  <2>1. Inter \notin Pool /\ Inter \in Interactions
    BY LogNamesAssumption DEF Others, Interactions
  <2>2. lbuf \in [Interactions -> Seq(Samples)]
    BY <1>0 DEF LogTypeOK, BuffersOK
  <2>3. PICK u : u = Put(lbuf[Inter], NextSample(b))
    OBVIOUS
  <2>4. lbuf' = [lbuf EXCEPT ![Inter] = u]
    BY <2>3 DEF InterWrite
  <2>5. \A i \in Interactions :
          \/ lbuf'[i] = lbuf[i]
          \/ /\ lbuf'[i] = Put(lbuf[i], NextSample(b))
             /\ i \in Pool => Connected(outs[b], i) /\ state[i] = "ACTIVE"
    BY <2>1, <2>2, <2>3, <2>4
  <2>6. lbuf' = [i \in Interactions |-> lbuf'[i]]
    BY <2>2, <2>4
  <2>7. /\ written[b] < MaxWrites /\ written' = [written EXCEPT ![b] = @ + 1]
        /\ state' = state /\ outs' = outs /\ UNCHANGED confVars
    BY DEF InterWrite
  <2> QED BY <2>5, <2>6, <2>7, WrittenSample
<1>1. ListOK' /\ EntriesOK' /\ HooksOK' /\ HookInv' /\ EntryInv' /\ ConnInv' /\ StopInv'
      /\ NamedInv' /\ OwnPorts' /\ OwnInters' /\ ListInv' /\ (LoggerFollowed => VisitInv)'
  BY <1>0, Kept DEF LogTypeOK, LoggerFollowed, InterWrite, confVars, loopVars
<1>2. LogTypeOK'
  <2>1. BuffersOK'
    BY <1>a
  <2>2. CountsOK'
    BY <1>a
  <2>3. /\ (state \in [LogBlocks -> LogStates])'
        /\ (lports \in Seq(LogPorts))'
        /\ (outs \in [Sources -> {NULL} \cup Seq(Pool)])'
    BY <1>0 DEF InterWrite, confVars, loopVars, LogTypeOK
  <2> QED BY <1>1, <2>1, <2>2, <2>3 DEF LogTypeOK
<1>3. BufferInv'
  BY <1>a
<1>4. SampleInv'
  BY <1>a
<1> QED BY <1>1, <1>2, <1>3, <1>4 DEF LogInv

LEMMA CleanBeginLogInv ==
  ASSUME LogInv, hook = "none", state[Logger] = "INACTIVE", CleanBegin,
         pass = "run" \/ (pass = "cleanup" /\ cur = Logger)
  PROVE  LogInv'
<1>0. LogTypeOK /\ HookInv /\ EntryInv /\ ConnInv /\ StopInv /\ BufferInv /\ NamedInv
      /\ OwnPorts /\ OwnInters /\ SampleInv /\ ListInv /\ (LoggerFollowed => VisitInv)
  BY DEF LogInv
<1>a. /\ hook' = "disconnect" /\ at' = 1 /\ Running /\ state' = state /\ pass' = pass /\ cur' = cur
      /\ nxt' = nxt /\ rconf' = rconf /\ sample' = sample /\ lports' = lports /\ outs' = outs
      /\ order' = order /\ broken' = broken
  BY DEF CleanBegin, Running, loopVars, confVars
<1>b. /\ Len(rconf) \in Nat /\ DOMAIN rconf = 1 .. Len(rconf)
      /\ \A k \in DOMAIN rconf : k >= 1
  BY <1>0, LogTypes
<1>c. Logger \in LogBlocks /\ Logger \in Others
  BY DEF LogBlocks, Others
<1>d. \A k \in DOMAIN rconf : HasPort(k) /\ HasPort(k)' /\ (HasOut(k) <=> HasOut(k)')
                              /\ (HasInter(k) <=> HasInter(k)')
  BY <1>a, <1>b DEF HasPort, HasOut, HasInter, Cleaning
<1>e. \A k : (HasPort(k) => k \in DOMAIN rconf) /\ (HasOut(k) => k \in DOMAIN rconf)
             /\ (HasInter(k) => k \in DOMAIN rconf)
  BY DEF HasPort, HasOut, HasInter
<1>1. ListOK' /\ BuffersOK' /\ CountsOK' /\ EntriesOK' /\ StopInv' /\ BufferInv' /\ SampleInv'
      /\ ListInv'
  BY <1>0, Kept DEF LogTypeOK, LoggerFollowed, CleanBegin, confVars, loopVars
<1>2. LogTypeOK'
  <2>1. HooksOK'
    BY <1>0 DEF CleanBegin, confVars, loopVars, LogTypeOK, HooksOK
  <2>2. /\ (state \in [LogBlocks -> LogStates])'
        /\ (lports \in Seq(LogPorts))'
        /\ (outs \in [Sources -> {NULL} \cup Seq(Pool)])'
    BY <1>0 DEF CleanBegin, confVars, loopVars, LogTypeOK
  <2> QED BY <1>1, <2>1, <2>2 DEF LogTypeOK
<1>3. HookInv'
  BY <1>0, <1>a, <1>b DEF HookInv, Cleaning, Running
<1>4. EntryInv'
  BY <1>0, <1>a, <1>d DEF EntryInv
<1>5. ConnInv'
  BY <1>0, <1>a, <1>d DEF ConnInv
<1>6. NamedInv'
  BY <1>0, <1>a, <1>d DEF NamedInv
<1>7. OwnPorts'
  <2>1. ASSUME broken PROVE OwnPorts'
    <3>1. broken'
      BY <1>a, <2>1, Zenon
    <3> QED BY <3>1 DEF OwnPorts
  <2>2. ASSUME ~ broken PROVE OwnPorts'
    BY <1>0, <1>a, <1>d, <1>e, <2>2 DEF OwnPorts
  <2> QED BY <2>1, <2>2
<1>8. OwnInters'
  <2>1. ASSUME broken PROVE OwnInters'
    <3>1. broken'
      BY <1>a, <2>1, Zenon
    <3> QED BY <3>1 DEF OwnInters
  <2>2. ASSUME ~ broken PROVE OwnInters'
    BY <1>0, <1>a, <1>d, <2>2 DEF OwnInters
  <2> QED BY <2>1, <2>2
<1>9. (LoggerFollowed => VisitInv)'
  <2>1. CASE pass = "run"
    BY <1>0, <1>a, <2>1 DEF VisitInv
  <2>2. CASE pass = "cleanup" /\ cur = Logger
    <3>1. SUFFICES ASSUME LoggerFollowed PROVE VisitInv'
      BY DEF LoggerFollowed
    <3>2. Cleaning' /\ ~ Cleaning
      BY <1>a DEF Cleaning
    <3>3. cur \in Elems(order) /\ Logger # NULL /\ nxt = Succ(order, Logger)
      BY <1>0, <1>c, <2>2, <3>1, <3>2, LogNamesAssumption DEF VisitInv
    <3>4. nxt \in Others
      BY <1>0, <2>2, <3>1, <3>3, FirstBlocksFacts
    <3> QED BY <1>a, <2>2, <3>2, <3>3, <3>4 DEF VisitInv
  <2> QED BY <2>1, <2>2
<1> QED BY <1>1, <1>2, <1>3, <1>4, <1>5, <1>6, <1>7, <1>8, <1>9 DEF LogInv

LEMMA DisconnectLogInv ==
  ASSUME LogInv, Disconnect
  PROVE  LogInv'
<1>0. LogTypeOK /\ HookInv /\ EntryInv /\ ConnInv /\ StopInv /\ BufferInv /\ NamedInv
      /\ OwnPorts /\ OwnInters /\ SampleInv /\ ListInv /\ (LoggerFollowed => VisitInv)
  BY DEF LogInv
<1>a. PICK k : k = at
  OBVIOUS
<1>b. k \in 1 .. Len(rconf) /\ DOMAIN rconf = 1 .. Len(rconf) /\ Len(rconf) \in Nat
      /\ rconf[k].src \in Sources
  <2>1. k \in Nat \ {0} /\ k <= Len(rconf)
    BY <1>0, <1>a, LogTypes DEF Disconnect
  <2>2. DOMAIN rconf = 1 .. Len(rconf) /\ Len(rconf) \in Nat
    BY <1>0, LogTypes
  <2>3. k \in 1 .. Len(rconf)
    BY <2>1, <2>2
  <2> QED BY <1>0, <2>2, <2>3, LogTypes
<1>c. /\ hook = "disconnect" /\ hook' = "remove" /\ at' = at /\ rconf' = rconf /\ broken' = broken
      /\ state' = state /\ pass' = pass
  BY DEF Disconnect, loopVars, confVars
<1>d. /\ outs' \in [Sources -> {NULL} \cup Seq(Pool)]
      /\ \A b \in Sources : \A j : Connected(outs'[b], j) => Connected(outs[b], j)
      /\ \A b \in Sources : outs'[b] # NULL =>
           \A p, q \in DOMAIN outs'[b] : outs'[b][p] = outs'[b][q] => p = q
      /\ rconf[k].kind = "port" => \A b \in Sources : ~ Connected(outs'[b], rconf[k].ib)
  <2>1. CASE rconf[k].kind # "port"
    <3>1. outs' = outs
      BY <1>a, <2>1 DEF Disconnect
    <3> QED BY <1>0, <2>1, <3>1 DEF LogTypeOK, ConnInv
  <2>2. CASE rconf[k].kind = "port"
    <3>1. PICK s \in Sources : s = rconf[k].src
      BY <1>b
    <3>2. PICK x : x = outs[s]
      OBVIOUS
    <3>3. PICK i : i = rconf[k].ib
      OBVIOUS
    <3>4. PICK y : y = ArrayBlockRm(x, i)
      OBVIOUS
    <3>5. x \in {NULL} \cup Seq(Pool) /\ (x # NULL => \A p, q \in DOMAIN x : x[p] = x[q] => p = q)
      BY <1>0, <3>2 DEF LogTypeOK, ConnInv
    <3>6. /\ y \in {NULL} \cup Seq(Pool) /\ ~ Connected(y, i)
          /\ \A j : Connected(y, j) => Connected(x, j)
          /\ y # NULL => \A p, q \in DOMAIN y : y[p] = y[q] => p = q
      BY <3>4, <3>5, SeqOfPool, ArrayRemoved
    <3>7. outs' = [outs EXCEPT ![s] = y] /\ outs \in [Sources -> {NULL} \cup Seq(Pool)]
      BY <1>0, <1>a, <2>2, <3>1, <3>2, <3>3, <3>4 DEF Disconnect, LogTypeOK
    <3>8. outs' \in [Sources -> {NULL} \cup Seq(Pool)] /\ outs'[s] = y
          /\ \A b \in Sources : b # s => outs'[b] = outs[b]
      BY <3>6, <3>7
    <3>9. \A b \in Sources : b # s => ~ Connected(outs[b], i)
      BY <1>0, <1>b, <2>2, <3>1, <3>3 DEF ConnInv
    <3>10. ASSUME NEW b \in Sources
           PROVE  /\ \A j : Connected(outs'[b], j) => Connected(outs[b], j)
                  /\ outs'[b] # NULL =>
                       \A p, q \in DOMAIN outs'[b] : outs'[b][p] = outs'[b][q] => p = q
                  /\ ~ Connected(outs'[b], i)
      <4>1. CASE b = s
        BY <3>2, <3>6, <3>8, <4>1
      <4>2. CASE b # s
        <5>1. outs'[b] = outs[b]
          BY <3>8, <4>2
        <5> QED BY <1>0, <3>9, <4>2, <5>1 DEF ConnInv
      <4> QED BY <4>1, <4>2
    <3> QED BY <3>3, <3>8, <3>10
  <2> QED BY <2>1, <2>2
<1>e. \A j \in DOMAIN rconf : HasOut(j) => HasOut(j)' \/ j = k
  BY <1>a, <1>b, <1>c DEF HasOut
<1>f. \A j \in DOMAIN rconf : HasOut(j)' => HasOut(j)
  BY <1>a, <1>b, <1>c DEF HasOut
<1>g. \A j \in DOMAIN rconf : HasInter(j)' <=> HasInter(j)
  BY <1>c DEF HasInter, Cleaning
<1>h. \A j \in DOMAIN rconf : HasOut(j) => rconf[j].kind = "port"
  BY DEF HasOut
<1>1. ListOK' /\ BuffersOK' /\ CountsOK' /\ EntriesOK' /\ StopInv' /\ BufferInv' /\ SampleInv'
      /\ ListInv'
  BY <1>0, Kept DEF LogTypeOK, LoggerFollowed, Disconnect, confVars, loopVars
<1>2. LogTypeOK'
  <2>1. (outs \in [Sources -> {NULL} \cup Seq(Pool)])'
    BY <1>d
  <2>2. HooksOK'
    BY <1>0 DEF Disconnect, confVars, loopVars, LogTypeOK, HooksOK
  <2>3. (state \in [LogBlocks -> LogStates])' /\ (lports \in Seq(LogPorts))'
    BY <1>0 DEF Disconnect, confVars, loopVars, LogTypeOK
  <2> QED BY <1>1, <2>1, <2>2, <2>3 DEF LogTypeOK
<1>3. HookInv'
  BY <1>0 DEF LogTypeOK, Disconnect, confVars, loopVars, HookInv, Cleaning, Running, HooksOK,
    EntriesOK
<1>4. EntryInv'
  BY <1>0 DEF LogTypeOK, Disconnect, confVars, loopVars, EntryInv, HasInter, Cleaning, HooksOK,
    EntriesOK
<1>5. ConnInv'
  <2>1. \A b, c \in Sources, i \in Pool : Connected(outs'[b], i) /\ Connected(outs'[c], i) => b = c
    BY <1>0, <1>d DEF ConnInv
  <2>2. pass \in {"run", "stop", "cleanup"} =>
          \A b \in Sources, i \in Pool : Connected(outs'[b], i) => state[i] # "none"
    BY <1>0, <1>d DEF ConnInv
  <2>3. ASSUME NEW b \in Sources, NEW j \in DOMAIN rconf,
               rconf[j].kind = "port", Connected(outs'[b], rconf[j].ib)
        PROVE  b = rconf[j].src /\ HasOut(j)'
    <3>1. Connected(outs[b], rconf[j].ib)
      BY <1>d, <2>3
    <3>2. b = rconf[j].src /\ HasOut(j)
      BY <1>0, <2>3, <3>1 DEF ConnInv
    <3>3. j # k
      BY <1>d, <2>3
    <3> QED BY <1>e, <3>2, <3>3
  <2> QED BY <1>c, <1>d, <2>1, <2>2, <2>3 DEF ConnInv
<1>6. NamedInv'
  BY <1>0 DEF LogTypeOK, Disconnect, confVars, loopVars, NamedInv, Running, HasPort
<1>7. OwnPorts'
  BY <1>0 DEF LogTypeOK, Disconnect, confVars, loopVars, OwnPorts, Running, HasPort
<1>8. OwnInters'
  <2>1. ASSUME broken PROVE OwnInters'
    <3>1. broken'
      BY <1>c, <2>1, Zenon
    <3> QED BY <3>1 DEF OwnInters
  <2>2. ASSUME ~ broken PROVE OwnInters'
    <3>1. ASSUME NEW b \in Sources, NEW i \in Pool, Connected(outs'[b], i)
          PROVE  \E j \in DOMAIN rconf : HasOut(j)' /\ rconf[j].ib = i
      <4>1. Connected(outs[b], i)
        BY <1>d, <3>1
      <4>2. PICK j \in DOMAIN rconf : HasOut(j) /\ rconf[j].ib = i
        BY <1>0, <2>2, <4>1 DEF OwnInters
      <4>3. j # k
        BY <1>d, <1>h, <3>1, <4>2
      <4> QED BY <1>e, <4>2, <4>3
    <3>2. \A i \in Pool : state[i] # "none" => \E j \in DOMAIN rconf : HasInter(j)' /\ rconf[j].ib = i
      BY <1>0, <1>g, <2>2 DEF OwnInters
    <3> QED BY <1>c, <3>1, <3>2 DEF OwnInters
  <2> QED BY <2>1, <2>2
<1>9. (LoggerFollowed => VisitInv)'
  BY <1>0 DEF LogTypeOK, Disconnect, confVars, loopVars, VisitInv, Cleaning
<1> QED BY <1>1, <1>2, <1>3, <1>4, <1>5, <1>6, <1>7, <1>8, <1>9 DEF LogInv

LEMMA RemovePortLogInv ==
  ASSUME LogInv, RemovePort
  PROVE  LogInv'
<1>0. LogTypeOK /\ HookInv /\ EntryInv /\ ConnInv /\ StopInv /\ BufferInv /\ NamedInv
      /\ OwnPorts /\ OwnInters /\ SampleInv /\ ListInv /\ (LoggerFollowed => VisitInv)
  BY DEF LogInv
<1>a. PICK k : k = at
  OBVIOUS
<1>b. /\ hook = "remove" /\ Cleaning /\ at <= Len(rconf) /\ state[Logger] = "INACTIVE" /\ Running
  BY <1>0 DEF RemovePort, HookInv, Cleaning, Running
<1>c. k \in 1 .. Len(rconf) /\ DOMAIN rconf = 1 .. Len(rconf) /\ Len(rconf) \in Nat /\ k \in Nat
  <2>1. k \in Nat \ {0} /\ k <= Len(rconf)
    BY <1>0, <1>a, <1>b, LogTypes
  <2>2. DOMAIN rconf = 1 .. Len(rconf) /\ Len(rconf) \in Nat
    BY <1>0, LogTypes
  <2> QED BY <2>1, <2>2
<1>d. /\ rconf' = rconf /\ state' = state /\ outs' = outs /\ broken' = broken /\ pass' = pass
      /\ cur' = cur /\ nxt' = nxt /\ order' = order
      /\ \/ rconf[k].kind = "port" /\ hook' = "unload" /\ at' = k
         \/ rconf[k].kind # "port" /\ hook' = "disconnect" /\ at' = k + 1
  BY <1>a DEF RemovePort, loopVars, confVars
<1>e. Cleaning'
  BY <1>d DEF Cleaning
<1>f. \A j \in DOMAIN rconf : HasPort(j)' <=> j > k
  BY <1>c, <1>d DEF HasPort
<1>g. \A j \in DOMAIN rconf : HasPort(j) <=> j >= k
  BY <1>a, <1>b DEF HasPort
<1>h. \A j \in DOMAIN rconf : HasOut(j)' <=> HasOut(j)
  BY <1>a, <1>b, <1>c, <1>d DEF HasOut
<1>i. \A j \in DOMAIN rconf : HasInter(j)' <=> HasInter(j)
  BY <1>a, <1>b, <1>c, <1>d, <1>e DEF HasInter
<1>j. NamedIn(lports, k)
  <2>1. rconf[k].kind # "inport"
    BY <1>0, <1>b, <1>c DEF HookInv
  <2>2. HasPort(k)
    BY <1>c, <1>g
  <2> QED BY <1>0, <1>c, <2>1, <2>2 DEF NamedInv
<1>k. PICK i : i = Lookup(lports, k)
  OBVIOUS
<1>l. lports \in Seq(LogPorts) /\ i \in DOMAIN lports /\ lports[i].name = k
  BY <1>0, <1>j, <1>k, LookupFacts DEF LogTypeOK
<1>m. PICK n \in Nat : n = Len(lports) /\ DOMAIN lports = 1 .. n
  BY <1>l
<1>n. lports' = MoveLastInto(lports, i)
  BY <1>a, <1>k DEF RemovePort
<1>o. /\ lports' \in Seq(LogPorts) /\ DOMAIN lports' = 1 .. n - 1 /\ n \in Nat \ {0} /\ i \in 1 .. n
      /\ \A j \in 1 .. n - 1 : lports'[j] = lports[IF j = i THEN n ELSE j]
  <2>1. /\ MoveLastInto(lports, i) \in Seq(LogPorts)
        /\ Len(MoveLastInto(lports, i)) = Len(lports) - 1 /\ Len(lports) \in Nat \ {0}
        /\ \A j \in DOMAIN MoveLastInto(lports, i) :
             j \in DOMAIN lports
             /\ MoveLastInto(lports, i)[j] = lports[IF j = i THEN Len(lports) ELSE j]
    BY <1>l, MovedLast
  <2>2. /\ lports' \in Seq(LogPorts) /\ Len(lports') = n - 1 /\ n \in Nat \ {0}
        /\ \A j \in DOMAIN lports' : lports'[j] = lports[IF j = i THEN n ELSE j]
    BY <1>m, <1>n, <2>1
  <2> QED BY <1>l, <1>m, <2>2
<1>1. ListOK' /\ BuffersOK' /\ CountsOK' /\ EntriesOK' /\ StopInv' /\ BufferInv' /\ SampleInv'
      /\ ListInv'
  BY <1>0, Kept DEF LogTypeOK, LoggerFollowed, RemovePort, confVars, loopVars
<1>2. LogTypeOK'
  <2>1. (lports \in Seq(LogPorts))'
    BY <1>o
  <2>2. HooksOK'
    BY <1>0 DEF RemovePort, confVars, loopVars, LogTypeOK, HooksOK
  <2>3. (state \in [LogBlocks -> LogStates])' /\ (outs \in [Sources -> {NULL} \cup Seq(Pool)])'
    BY <1>0 DEF RemovePort, confVars, loopVars, LogTypeOK
  <2> QED BY <1>1, <2>1, <2>2, <2>3 DEF LogTypeOK
<1>3. HookInv'
  BY <1>0 DEF LogTypeOK, RemovePort, confVars, loopVars, HookInv, Cleaning, Running, HooksOK,
    EntriesOK
<1>4. EntryInv'
  BY <1>0, <1>d, <1>i DEF EntryInv
<1>5. ConnInv'
  BY <1>0, <1>d, <1>h DEF ConnInv
<1>6. NamedInv'
  <2>1. ASSUME NEW j \in DOMAIN rconf, HasPort(j)', rconf[j].kind # "inport"
        PROVE  NamedIn(lports', j)
    <3>1. j > k /\ HasPort(j)
      BY <1>c, <1>f, <1>g, <2>1
    <3>2. NamedIn(lports, j)
      BY <1>0, <2>1, <3>1 DEF NamedInv
    <3>3. PICK l \in 1 .. n : lports[l].name = j
      BY <1>m, <3>2 DEF NamedIn
    <3>4. l # i
      BY <1>c, <1>l, <3>1, <3>3
    <3>5. CASE l = n
      <4>1. i \in DOMAIN lports' /\ lports'[i] = lports[n]
        BY <1>o, <3>4, <3>5
      <4> QED BY <3>3, <3>5, <4>1 DEF NamedIn
    <3>6. CASE l # n
      <4>1. l \in DOMAIN lports' /\ lports'[l] = lports[l]
        BY <1>o, <3>4, <3>6
      <4> QED BY <3>3, <4>1 DEF NamedIn
    <3> QED BY <3>5, <3>6
  <2>2. hook' \notin {"none", "step"}
    BY <1>d
  <2> QED BY <1>d, <2>1, <2>2 DEF NamedInv
<1>7. OwnPorts'
  <2>1. ASSUME broken PROVE OwnPorts'
    <3>1. broken'
      BY <1>d, <2>1, Zenon
    <3> QED BY <3>1 DEF OwnPorts
  <2>2. ASSUME ~ broken PROVE OwnPorts'
    <3>1. ASSUME NEW j \in 1 .. n - 1
          PROVE  \E m \in 1 .. n : m # i /\ lports'[j] = lports[m] /\ m = IF j = i THEN n ELSE j
      BY <1>o
    <3>2. ASSUME NEW m \in 1 .. n, m # i
          PROVE  /\ lports[m].name \in DOMAIN rconf /\ lports[m].name > k
                 /\ lports[m].in_interaction = <<rconf[lports[m].name].ib>>
      <4>1. /\ HasPort(lports[m].name)
            /\ lports[m].in_interaction = <<rconf[lports[m].name].ib>>
        BY <1>0, <1>m, <2>2 DEF OwnPorts
      <4>2. lports[m].name # k
        BY <1>0, <1>l, <1>m, <2>2, <3>2 DEF OwnPorts
      <4>3. lports[m].name \in DOMAIN rconf
        BY <4>1 DEF HasPort
      <4>4. lports[m].name >= k
        BY <1>g, <4>1, <4>3
      <4> QED BY <1>c, <4>1, <4>2, <4>3, <4>4
    <3>3. ASSUME NEW j \in DOMAIN lports'
          PROVE  /\ lports'[j].name \in DOMAIN rconf /\ lports'[j].name > k
                 /\ lports'[j].in_interaction = <<rconf[lports'[j].name].ib>>
      <4>1. PICK m \in 1 .. n : m # i /\ lports'[j] = lports[m]
        BY <1>o, <3>1
      <4> QED BY <3>2, <4>1
    <3>4. ASSUME NEW j \in DOMAIN lports', NEW l \in DOMAIN lports', lports'[j].name = lports'[l].name
          PROVE  j = l
      <4>1. PICK m \in 1 .. n : m # i /\ lports'[j] = lports[m] /\ m = IF j = i THEN n ELSE j
        BY <1>o, <3>1
      <4>2. PICK q \in 1 .. n : q # i /\ lports'[l] = lports[q] /\ q = IF l = i THEN n ELSE l
        BY <1>o, <3>1
      <4>3. m = q
        BY <1>0, <1>m, <2>2, <3>4, <4>1, <4>2 DEF OwnPorts
      <4> QED BY <1>o, <4>1, <4>2, <4>3
    <3>5. \A j \in DOMAIN rconf : rconf[j].kind # "inport"
      BY <1>0, <2>2 DEF OwnPorts
    <3>6. hook' \notin {"none", "step"}
      BY <1>d
    <3>7. ASSUME NEW m \in DOMAIN rconf, m > k
          PROVE  /\ hook' \in {"disconnect", "remove"} => m >= at'
                 /\ hook' = "unload" => m > at'
      BY <1>c, <1>d, <3>7
    <3> QED BY <1>d, <3>3, <3>4, <3>5, <3>6, <3>7 DEF OwnPorts, HasPort
  <2> QED BY <2>1, <2>2
<1>8. OwnInters'
  <2>1. ASSUME broken PROVE OwnInters'
    <3>1. broken'
      BY <1>d, <2>1, Zenon
    <3> QED BY <3>1 DEF OwnInters
  <2>2. ASSUME ~ broken PROVE OwnInters'
    BY <1>0, <1>d, <1>h, <1>i, <2>2 DEF OwnInters
  <2> QED BY <2>1, <2>2
<1>9. (LoggerFollowed => VisitInv)'
  BY <1>0 DEF LogTypeOK, RemovePort, confVars, loopVars, VisitInv, Cleaning
<1> QED BY <1>1, <1>2, <1>3, <1>4, <1>5, <1>6, <1>7, <1>8, <1>9 DEF LogInv

LEMMA UnloadLogInv ==
  ASSUME LogInv, Unload
  PROVE  LogInv'
<1>0. LogTypeOK /\ HookInv /\ EntryInv /\ ConnInv /\ StopInv /\ BufferInv /\ NamedInv
      /\ OwnPorts /\ OwnInters /\ SampleInv /\ ListInv /\ (LoggerFollowed => VisitInv)
  BY DEF LogInv
<1>a. PICK k : k = at
  OBVIOUS
<1>b. /\ hook = "unload" /\ Cleaning /\ at <= Len(rconf) /\ state[Logger] = "INACTIVE" /\ Running
      /\ rconf[k].kind = "port" /\ pass \in {"run", "cleanup"} /\ (pass = "cleanup" => cur = Logger)
  BY <1>0, <1>a DEF Unload, HookInv, Cleaning, Running
<1>c. k \in 1 .. Len(rconf) /\ DOMAIN rconf = 1 .. Len(rconf) /\ Len(rconf) \in Nat /\ k \in Nat
  <2>1. k \in Nat \ {0} /\ k <= Len(rconf)
    BY <1>0, <1>a, <1>b, LogTypes
  <2>2. DOMAIN rconf = 1 .. Len(rconf) /\ Len(rconf) \in Nat
    BY <1>0, LogTypes
  <2> QED BY <2>1, <2>2
<1>d. PICK i \in Pool : i = rconf[k].ib
  BY <1>0, <1>b, <1>c DEF EntryInv
<1>e. i \in LogBlocks /\ i \in Interactions /\ i \notin Others /\ Logger \in LogBlocks
      /\ Logger \in Others /\ i # Logger
  BY LogNamesAssumption DEF LogBlocks, Interactions, Others
<1>f. state[i] # "none"
  <2>1. HasInter(k)
    BY <1>a, <1>b, <1>c DEF HasInter
  <2> QED BY <1>0, <1>b, <1>c, <1>d, <2>1 DEF EntryInv
<1>g. /\ rconf' = rconf /\ sample' = sample /\ lports' = lports /\ outs' = outs /\ broken' = broken
      /\ todo' = todo /\ base' = base /\ written' = written /\ pass' = pass /\ cur' = cur
      /\ nxt' = nxt /\ hook' = "disconnect" /\ at' = k + 1
  BY <1>a DEF Unload, Dropped, loopVars, confVars
<1>h. Dropped(i)
  BY <1>a, <1>d DEF Unload
<1>i. /\ state' \in [LogBlocks -> LogStates] /\ state'[i] = "none"
      /\ \A c \in LogBlocks : c # i => state'[c] = state[c]
      /\ i \in Elems(order) /\ ListOK' /\ Elems(order') = Elems(order) \ {i}
      /\ Len(order') = Len(order) - 1 /\ Len(order) \in Nat \ {0}
      /\ \A p \in DOMAIN order' :
           IF p < Position(order, i) THEN p \in DOMAIN order /\ order'[p] = order[p]
           ELSE p + 1 \in DOMAIN order /\ order'[p] = order[p + 1]
      /\ BuffersOK' /\ BufferInv' /\ SampleInv'
  BY <1>e, <1>f, <1>h, DroppedBlock
<1>j. Cleaning' /\ state'[Logger] = "INACTIVE" /\ Running'
  BY <1>b, <1>e, <1>g, <1>i DEF Cleaning, Running
<1>k. \A j \in DOMAIN rconf : HasPort(j)' <=> HasPort(j)
  BY <1>a, <1>b, <1>c, <1>g DEF HasPort
<1>l. \A j \in DOMAIN rconf : HasOut(j)' <=> HasOut(j)
  BY <1>a, <1>b, <1>c, <1>g DEF HasOut
<1>m. \A j \in DOMAIN rconf : HasInter(j)' <=> HasInter(j) /\ j # k
  BY <1>a, <1>b, <1>c, <1>g, <1>j DEF HasInter
<1>1. CountsOK' /\ EntriesOK'
  BY <1>0, Kept DEF LogTypeOK, LoggerFollowed, Unload, Dropped, confVars, loopVars
<1>2. LogTypeOK'
  <2>1. (state \in [LogBlocks -> LogStates])'
    BY <1>i
  <2>2. ListOK'
    BY <1>i
  <2>3. BuffersOK'
    BY <1>i
  <2>4. HooksOK'
    BY <1>0 DEF Unload, Dropped, confVars, loopVars, LogTypeOK, HooksOK
  <2>5. (lports \in Seq(LogPorts))' /\ (outs \in [Sources -> {NULL} \cup Seq(Pool)])'
    BY <1>0 DEF Unload, Dropped, confVars, loopVars, LogTypeOK
  <2> QED BY <1>1, <2>1, <2>2, <2>3, <2>4, <2>5 DEF LogTypeOK
<1>3. HookInv'
  <2>1. at' <= Len(rconf) + 1
    BY <1>c, <1>g
  <2> QED BY <1>0, <1>b, <1>g, <1>j, <2>1 DEF HookInv, Running
<1>4. EntryInv'
  <2>1. ASSUME pass \in {"run", "stop", "cleanup"}, NEW j \in DOMAIN rconf, HasInter(j)'
        PROVE  state'[rconf[j].ib] # "none"
    <3>1. HasInter(j) /\ j # k /\ rconf[j].kind = "port"
      BY <1>m, <2>1 DEF HasInter
    <3>2. rconf[j].ib # i /\ rconf[j].ib \in LogBlocks
      BY <1>0, <1>b, <1>c, <1>d, <3>1 DEF EntryInv, LogBlocks
    <3>3. state[rconf[j].ib] # "none"
      BY <1>0, <2>1, <3>1 DEF EntryInv
    <3> QED BY <1>i, <3>2, <3>3
  <2> QED BY <1>0, <1>g, <2>1 DEF EntryInv
<1>5. ConnInv'
  <2>1. ASSUME NEW b \in Sources, NEW j \in Pool, Connected(outs[b], j)
        PROVE  state'[j] # "none"
    <3>1. ~ HasOut(k)
      BY <1>a, <1>b, <1>c DEF HasOut
    <3>2. j # i
      BY <1>0, <1>b, <1>c, <1>d, <2>1, <3>1 DEF ConnInv
    <3>3. state[j] # "none" /\ j \in LogBlocks
      BY <1>0, <1>b, <2>1 DEF ConnInv, LogBlocks
    <3> QED BY <1>i, <3>2, <3>3
  <2> QED BY <1>0, <1>g, <1>l, <2>1 DEF ConnInv
<1>6. StopInv'
  <2>1. pass # "stop"
    BY <1>b
  <2>2. pass = "cleanup" => \A b \in LogBlocks : state'[b] # "ACTIVE"
    BY <1>0, <1>i DEF StopInv
  <2> QED BY <1>b, <1>g, <2>1, <2>2 DEF StopInv
<1>7. BufferInv'
  BY <1>i
<1>8. NamedInv'
  BY <1>0, <1>g, <1>k DEF NamedInv
<1>9. OwnPorts'
  <2>1. ASSUME broken PROVE OwnPorts'
    <3>1. broken'
      BY <1>g, <2>1, Zenon
    <3> QED BY <3>1 DEF OwnPorts
  <2>2. ASSUME ~ broken PROVE OwnPorts'
    <3>1. ASSUME NEW j \in DOMAIN lports PROVE HasPort(lports[j].name)'
      <4>1. PICK m : m = lports[j].name
        OBVIOUS
      <4>2. m \in DOMAIN rconf /\ HasPort(m)
        BY <1>0, <2>2, <4>1 DEF OwnPorts, HasPort
      <4>3. HasPort(m)'
        BY <1>k, <4>2
      <4> QED BY <1>g, <4>1, <4>3 DEF HasPort
    <3>2. hook' \notin {"none", "step"}
      BY <1>g
    <3> QED BY <1>0, <1>g, <2>2, <3>1, <3>2 DEF OwnPorts
  <2> QED BY <2>1, <2>2
<1>10. OwnInters'
  <2>1. ASSUME broken PROVE OwnInters'
    <3>1. broken'
      BY <1>g, <2>1, Zenon
    <3> QED BY <3>1 DEF OwnInters
  <2>2. ASSUME ~ broken PROVE OwnInters'
    <3>1. \A b \in Sources, j \in Pool : Connected(outs[b], j) =>
            \E l \in DOMAIN rconf : HasOut(l)' /\ rconf[l].ib = j
      BY <1>0, <1>l, <2>2 DEF OwnInters
    <3>2. ASSUME NEW j \in Pool, state'[j] # "none"
          PROVE  \E l \in DOMAIN rconf : HasInter(l)' /\ rconf[l].ib = j
      <4>1. j # i /\ state[j] # "none"
        BY <1>i, <3>2 DEF LogBlocks
      <4>2. PICK l \in DOMAIN rconf : HasInter(l) /\ rconf[l].ib = j
        BY <1>0, <2>2, <4>1 DEF OwnInters
      <4> QED BY <1>d, <1>m, <4>1, <4>2
    <3> QED BY <1>g, <3>1, <3>2 DEF OwnInters
  <2> QED BY <2>1, <2>2
<1>11. SampleInv'
  BY <1>i
<1>12. ListInv'
  <2>1. PICK o \in Orders : FirstBlocks(o)
    BY <1>0, <1>b DEF ListInv
  <2>2. o \in Seq(Others) /\ DOMAIN o = 1 .. Len(o) /\ Len(o) \in Nat
        /\ \A p \in 1 .. Len(o) : o[p] \in Others
    BY OrdersAssumption
  <2>3. PICK m \in Nat : m = Len(o)
    BY <2>2
  <2>4. PICK n \in Nat : n = Len(order) /\ DOMAIN order = 1 .. n
    BY <1>0, LogTypes
  <2>5. PICK q : q = Position(order, i)
    OBVIOUS
  <2>6. q \in 1 .. n /\ order[q] = i
    BY <1>i, <2>4, <2>5, PositionFacts
  <2>7. m <= n /\ \A p \in 1 .. m : order[p] = o[p]
    BY <2>1, <2>2, <2>3, <2>4 DEF FirstBlocks
  <2>8. q > m
    <3>1. ~ (q \in 1 .. m)
      BY <1>e, <2>2, <2>3, <2>6, <2>7
    <3> QED BY <2>6, <3>1
  <2>9. Len(order') = n - 1 /\ DOMAIN order' = 1 .. n - 1
    <3>1. order' \in Seq(LogBlocks)
      BY <1>i DEF ListOK
    <3> QED BY <1>i, <2>4, <3>1
  <2>10. m <= n - 1
    BY <2>6, <2>8
  <2>11. \A p \in 1 .. m : p \in DOMAIN order' /\ p < q
    BY <2>6, <2>8, <2>9, <2>10
  <2>12. \A p \in 1 .. m : order'[p] = o[p]
    BY <1>i, <2>5, <2>7, <2>11
  <2>13. ASSUME NEW p \in DOMAIN order', p > m PROVE order'[p] \in Pool
    <3>1. \A r \in DOMAIN order : r > m => order[r] \in Pool
      BY <2>1, <2>3 DEF FirstBlocks
    <3>2. CASE p < q
      BY <1>i, <2>5, <2>13, <3>1, <3>2
    <3>3. CASE ~ (p < q)
      <4>1. p + 1 \in DOMAIN order /\ order'[p] = order[p + 1]
        BY <1>i, <2>5, <3>3
      <4>2. p + 1 > m
        BY <2>9, <2>13
      <4> QED BY <3>1, <4>1, <4>2
    <3> QED BY <3>2, <3>3
  <2>14. m <= Len(order')
    BY <2>9, <2>10
  <2>15. DOMAIN o = 1 .. m
    BY <2>2, <2>3
  <2> QED BY <2>1, <2>3, <2>12, <2>13, <2>14, <2>15 DEF ListInv, FirstBlocks
<1>13. (LoggerFollowed => VisitInv)'
  <2>1. CASE pass = "run"
    BY <1>0, <1>g, <2>1 DEF VisitInv
  <2>2. CASE pass = "cleanup"
    BY <1>0, <1>b, <1>e, <1>g, <1>i, <1>j, <2>2 DEF VisitInv
  <2> QED BY <1>b, <2>1, <2>2
<1> QED BY <1>1, <1>2, <1>3, <1>4, <1>5, <1>6, <1>7, <1>8, <1>9, <1>10, <1>11, <1>12, <1>13 DEF
  LogInv

LEMMA CleanEndLogInv ==
  ASSUME LogInv, CleanEnd
  PROVE  LogInv'
<1>0. LogTypeOK /\ HookInv /\ EntryInv /\ ConnInv /\ StopInv /\ BufferInv /\ NamedInv
      /\ OwnPorts /\ OwnInters /\ SampleInv /\ ListInv /\ (LoggerFollowed => VisitInv)
  BY DEF LogInv
<1>a. /\ hook = "disconnect" /\ Cleaning /\ state[Logger] = "INACTIVE" /\ pass \in {"run", "cleanup"}
      /\ (pass = "cleanup" => cur = Logger)
  BY <1>0 DEF CleanEnd, HookInv, Cleaning
<1>b. /\ rconf' = <<>> /\ sample' = <<>> /\ DOMAIN rconf' = {} /\ DOMAIN sample' = {}
      /\ hook' = "none" /\ lports' = lports /\ outs' = outs /\ broken' = broken /\ order' = order
      /\ pass' = pass /\ lbuf' = lbuf /\ base' = base /\ written' = written
  BY DEF CleanEnd, Advance, loopVars
<1>c. Logger \in LogBlocks /\ Logger \in Others /\ Logger \notin Pool
  BY LogNamesAssumption DEF LogBlocks, Others
<1>d. state' \in [LogBlocks -> LogStates] /\ state'[Logger] = "PREINIT"
      /\ \A b \in LogBlocks : b # Logger => state'[b] = state[b]
  BY <1>0, <1>c DEF CleanEnd, LogTypeOK, LogStates
<1>e. \A b \in LogBlocks : state'[b] = "none" <=> state[b] = "none"
  BY <1>a, <1>c, <1>d
<1>f. \A b \in LogBlocks : state'[b] = "ACTIVE" => state[b] = "ACTIVE"
  BY <1>d
<1>h. ~ broken => /\ lports = <<>> /\ (\A b \in Sources, i \in Pool : ~ Connected(outs[b], i))
                  /\ \A i \in Pool : state[i] = "none"
  BY NothingLeft
<1>i. /\ pass = "run" => cur' = cur /\ nxt' = nxt
      /\ pass = "cleanup" => cur' = nxt /\ nxt' = Succ(order, nxt)
  BY <1>b DEF CleanEnd, Advance, loopVars
<1>j. \A b : Succ(order, b) \in LogBlocks \cup {NULL}
  BY <1>0, SuccType
<1>1. BuffersOK' /\ CountsOK' /\ ListInv'
  BY <1>0, Kept DEF LogTypeOK, LoggerFollowed, CleanEnd, Advance, loopVars
<1>2. LogTypeOK'
  <2>1. (state \in [LogBlocks -> LogStates])'
    BY <1>0 DEF CleanEnd, Advance, loopVars, LogTypeOK, LogStates
  <2>2. ListOK'
    BY <1>0, <1>b, <1>e DEF LogTypeOK, ListOK
  <2>3. EntriesOK'
    BY <1>0 DEF CleanEnd, Advance, loopVars, LogTypeOK, EntriesOK
  <2>4. HooksOK'
    BY <1>0, <1>a, <1>b, <1>i, <1>j DEF CleanEnd, LogTypeOK, HooksOK
  <2>5. (lports \in Seq(LogPorts))' /\ (outs \in [Sources -> {NULL} \cup Seq(Pool)])'
    BY <1>0 DEF CleanEnd, Advance, loopVars, LogTypeOK
  <2> QED BY <1>1, <2>1, <2>2, <2>3, <2>4, <2>5 DEF LogTypeOK
<1>3. HookInv'
  BY <1>a, <1>b, <1>d DEF HookInv, Cleaning, Running
<1>4. EntryInv'
  BY <1>b DEF EntryInv
<1>5. ConnInv'
  <2>1. \A i \in Pool : state'[i] = "none" <=> state[i] = "none"
    BY <1>e DEF LogBlocks
  <2> QED BY <1>0, <1>b, <2>1 DEF ConnInv
<1>6. StopInv'
  <2>1. pass # "stop"
    BY <1>a
  <2> QED BY <1>0, <1>b, <1>f, <2>1 DEF StopInv
<1>7. BufferInv'
  <2>1. \A i \in Pool : state'[i] = "none" <=> state[i] = "none"
    BY <1>e DEF LogBlocks
  <2> QED BY <1>0, <1>b, <2>1 DEF BufferInv
<1>8. NamedInv'
  BY <1>b DEF NamedInv
<1>9. OwnPorts'
  <2>1. ASSUME broken PROVE OwnPorts'
    <3>1. broken'
      BY <1>b, <2>1, Zenon
    <3> QED BY <3>1 DEF OwnPorts
  <2>2. ASSUME ~ broken PROVE OwnPorts'
    <3>1. DOMAIN lports' = {}
      BY <1>b, <1>h, <2>2
    <3> QED BY <1>b, <3>1 DEF OwnPorts
  <2> QED BY <2>1, <2>2
<1>10. OwnInters'
  <2>1. ASSUME broken PROVE OwnInters'
    <3>1. broken'
      BY <1>b, <2>1, Zenon
    <3> QED BY <3>1 DEF OwnInters
  <2>2. ASSUME ~ broken PROVE OwnInters'
    <3>1. \A i \in Pool : state'[i] = "none"
      BY <1>e, <1>h, <2>2 DEF LogBlocks
    <3> QED BY <1>b, <1>h, <2>2, <3>1 DEF OwnInters
  <2> QED BY <2>1, <2>2
<1>11. SampleInv'
  BY <1>b DEF SampleInv
<1>12. (LoggerFollowed => VisitInv)'
  <2>1. CASE pass = "run"
    BY <1>0, <1>b, <1>i, <2>1 DEF VisitInv, Cleaning
  <2>2. CASE pass = "cleanup"
    <3>1. SUFFICES ASSUME LoggerFollowed PROVE VisitInv'
      BY DEF LoggerFollowed
    <3>2. cur # NULL
      BY <1>a, <1>c, <2>2, LogNamesAssumption
    <3>3. nxt \in Others
      BY <1>0, <1>a, <3>1, <3>2 DEF VisitInv
    <3>4. nxt \in Elems(order)
      BY <1>0, <2>2, <3>3, FirstBlocksFacts
    <3>5. ~ Cleaning'
      BY <1>b DEF Cleaning
    <3> QED BY <1>b, <1>i, <2>2, <3>4, <3>5 DEF VisitInv
  <2> QED BY <1>a, <2>1, <2>2
<1> QED BY <1>1, <1>2, <1>3, <1>4, <1>5, <1>6, <1>7, <1>8, <1>9, <1>10, <1>11, <1>12 DEF LogInv

LEMMA NodeCleanupLogInv ==
  ASSUME LogInv, NodeCleanup
  PROVE  LogInv'
<1>0. LogTypeOK /\ HookInv /\ EntryInv /\ ConnInv /\ StopInv /\ BufferInv /\ NamedInv
      /\ OwnPorts /\ OwnInters /\ SampleInv /\ ListInv /\ (LoggerFollowed => VisitInv)
  BY DEF LogInv
<1>a. /\ cur' \in LogBlocks \cup {NULL} /\ nxt' \in LogBlocks \cup {NULL} /\ pass' = "stop"
      /\ cur' = NULL => DOMAIN order = {}
      /\ cur' # NULL => /\ cur' \in Elems(order) /\ nxt' = Succ(order, cur')
                        /\ Position(order, cur') = 1
  BY <1>0, EnterFacts DEF NodeCleanup
<1>b. hook = "none" /\ hook' = "none" /\ order' = order /\ state' = state
  BY DEF NodeCleanup
<1>1. ListOK' /\ BuffersOK' /\ CountsOK' /\ EntriesOK' /\ BufferInv' /\ NamedInv' /\ OwnPorts'
      /\ OwnInters' /\ SampleInv'
  BY <1>0, Kept DEF LogTypeOK, LoggerFollowed, NodeCleanup, Enter, confVars
<1>2. LogTypeOK'
  <2>1. HooksOK'
    BY <1>0, <1>a DEF NodeCleanup, confVars, LogTypeOK, HooksOK
  <2>2. /\ (state \in [LogBlocks -> LogStates])'
        /\ (lports \in Seq(LogPorts))'
        /\ (outs \in [Sources -> {NULL} \cup Seq(Pool)])'
    BY <1>0 DEF NodeCleanup, Enter, confVars, LogTypeOK
  <2> QED BY <1>1, <2>1, <2>2 DEF LogTypeOK
<1>3. HookInv'
  BY <1>0 DEF LogTypeOK, NodeCleanup, Enter, confVars, HookInv, Cleaning, Running, HooksOK,
    EntriesOK
<1>4. EntryInv'
  BY <1>0 DEF LogTypeOK, NodeCleanup, Enter, confVars, EntryInv, HasInter, Cleaning, HooksOK,
    EntriesOK
<1>5. ConnInv'
  BY <1>0 DEF LogTypeOK, NodeCleanup, Enter, confVars, ConnInv, HasOut, Cleaning
<1>6. StopInv'
  <2>1. DOMAIN order = 1 .. Len(order)
    BY <1>0, LogTypes
  <2>2. \A p \in DOMAIN order : cur' # NULL => ~ (p < Position(order, cur'))
    BY <1>a, <2>1
  <2> QED BY <1>a, <1>b, <2>2 DEF StopInv
<1>7. ListInv'
  BY <1>0 DEF LogTypeOK, NodeCleanup, Enter, confVars, ListInv, FirstBlocks
<1>8. (LoggerFollowed => VisitInv)'
  BY <1>a, <1>b DEF VisitInv, Cleaning
<1> QED BY <1>1, <1>2, <1>3, <1>4, <1>5, <1>6, <1>7, <1>8 DEF LogInv

LEMMA NextPassLogInv ==
  ASSUME LogInv, NextPass
  PROVE  LogInv'
<1>0. LogTypeOK /\ HookInv /\ EntryInv /\ ConnInv /\ StopInv /\ BufferInv /\ NamedInv
      /\ OwnPorts /\ OwnInters /\ SampleInv /\ ListInv /\ (LoggerFollowed => VisitInv)
  BY DEF LogInv
<1>a. /\ pass \in {"stop", "cleanup", "rm"} /\ cur = NULL /\ hook' = hook /\ order' = order
      /\ state' = state /\ rconf' = rconf
  BY DEF NextPass, PassAfter, confVars
<1>b. /\ pass = "stop" => pass' = "cleanup" /\ Enter("cleanup")
      /\ pass = "cleanup" => pass' = "rm" /\ Enter("rm")
      /\ pass = "rm" => pass' = "done" /\ cur' = cur /\ nxt' = nxt
  BY <1>a DEF NextPass, PassAfter, Enter
<1>c. pass = "rm" \/ Enter(pass')
  BY <1>a, <1>b
<1>d. pass' \in {"cleanup", "rm", "done"} /\ (pass' = "cleanup" => pass = "stop")
  BY <1>a, <1>b
<1>e. pass # "rm" =>
        /\ cur' \in LogBlocks \cup {NULL} /\ nxt' \in LogBlocks \cup {NULL}
        /\ cur' # NULL => cur' \in Elems(order) /\ nxt' = Succ(order, cur')
  <2>1. CASE pass = "stop"
    BY <1>0, <1>b, <2>1, EnterFacts
  <2>2. CASE pass = "cleanup"
    BY <1>0, <1>b, <2>2, EnterFacts
  <2> QED BY <1>a, <2>1, <2>2
<1>f. \A b \in LogBlocks : state[b] # "ACTIVE"
  BY <1>0, <1>a, AllStopped DEF StopInv
<1>g. hook = "none"
  <2>1. Logger \in LogBlocks /\ Logger # NULL
    BY LogNamesAssumption DEF LogBlocks, Others
  <2>2. hook # "init" /\ hook # "step"
    BY <1>0, <1>a, <1>f, <2>1 DEF HookInv
  <2>3. ~ Cleaning
    BY <1>0, <1>a, <2>1 DEF HookInv
  <2> QED BY <1>0, <2>2, <2>3 DEF LogTypeOK, HooksOK, Cleaning
<1>1. ListOK' /\ BuffersOK' /\ CountsOK' /\ EntriesOK' /\ BufferInv' /\ NamedInv' /\ OwnPorts'
      /\ OwnInters' /\ SampleInv'
  BY <1>0, Kept DEF LogTypeOK, LoggerFollowed, NextPass, Enter, confVars
<1>2. LogTypeOK'
  <2>1. HooksOK'
    BY <1>0, <1>a, <1>b, <1>e DEF NextPass, confVars, LogTypeOK, HooksOK
  <2>2. /\ (state \in [LogBlocks -> LogStates])'
        /\ (lports \in Seq(LogPorts))'
        /\ (outs \in [Sources -> {NULL} \cup Seq(Pool)])'
    BY <1>0 DEF NextPass, Enter, PassAfter, confVars, LogTypeOK
  <2> QED BY <1>1, <2>1, <2>2 DEF LogTypeOK
<1>3. HookInv'
  BY <1>0, <1>a, <1>g DEF NextPass, confVars, HookInv, Cleaning, Running
<1>4. EntryInv'
  BY <1>0 DEF LogTypeOK, NextPass, Enter, PassAfter, confVars, EntryInv, HasInter, Cleaning,
    HooksOK, EntriesOK
<1>5. ConnInv'
  BY <1>0 DEF LogTypeOK, NextPass, Enter, PassAfter, confVars, ConnInv, HasOut, Cleaning
<1>6. StopInv'
  BY <1>a, <1>d, <1>f DEF StopInv
<1>7. ListInv'
  BY <1>0 DEF LogTypeOK, NextPass, Enter, PassAfter, confVars, ListInv, FirstBlocks
<1>8. (LoggerFollowed => VisitInv)'
  <2>1. CASE pass = "rm"
    BY <1>0, <1>a, <1>b, <1>g, <2>1 DEF VisitInv, Cleaning
  <2>2. CASE pass # "rm"
    BY <1>a, <1>b, <1>e, <1>g, <2>2 DEF VisitInv, Cleaning
  <2> QED BY <2>1, <2>2
<1> QED BY <1>1, <1>2, <1>3, <1>4, <1>5, <1>6, <1>7, <1>8 DEF LogInv

LEMMA VisitStopLogInv ==
  ASSUME LogInv, VisitStop
  PROVE  LogInv'
<1>0. LogTypeOK /\ HookInv /\ EntryInv /\ ConnInv /\ StopInv /\ BufferInv /\ NamedInv
      /\ OwnPorts /\ OwnInters /\ SampleInv /\ ListInv /\ (LoggerFollowed => VisitInv)
  BY DEF LogInv
<1>a. /\ pass = "stop" /\ hook = "none" /\ hook' = "none" /\ pass' = pass /\ cur # NULL
      /\ cur \in Elems(order) /\ order' = order /\ cur' = nxt /\ nxt' = Succ(order, nxt)
      /\ rconf' = rconf /\ sample' = sample
  BY DEF VisitStop, Visiting, Moves, Advance, confVars
<1>b. cur \in LogBlocks
  BY <1>0, <1>a DEF LogTypeOK, ListOK
<1>c. /\ state' \in [LogBlocks -> LogStates]
      /\ state'[cur] # "ACTIVE" /\ (state[cur] = "ACTIVE" => state'[cur] = "INACTIVE")
      /\ (state[cur] # "ACTIVE" => state'[cur] = state[cur])
      /\ \A b \in LogBlocks : b # cur => state'[b] = state[b]
  BY <1>0, <1>b DEF VisitStop, Moves, LogTypeOK, LogStates
<1>d. \A b \in LogBlocks : state'[b] = "ACTIVE" => state[b] = "ACTIVE"
  BY <1>c
<1>e. nxt = Succ(order, cur)
  BY <1>0, <1>a DEF StopInv
<1>f. Succ(order, nxt) \in LogBlocks \cup {NULL}
  BY <1>0, SuccType
<1>1. BuffersOK' /\ CountsOK' /\ EntriesOK' /\ SampleInv' /\ ListInv'
  BY <1>0, Kept DEF LogTypeOK, LoggerFollowed, VisitStop, Moves, Advance, confVars
<1>2. LogTypeOK'
  <2>1. (state \in [LogBlocks -> LogStates])'
    BY <1>0 DEF VisitStop, Visiting, Moves, Advance, confVars, LogTypeOK, LogStates
  <2>2. ListOK'
    BY <1>0 DEF VisitStop, Visiting, Moves, Advance, confVars, LogTypeOK, ListOK
  <2>3. HooksOK'
    BY <1>0, <1>a, <1>f DEF VisitStop, Moves, confVars, LogTypeOK, HooksOK
  <2>4. (lports \in Seq(LogPorts))' /\ (outs \in [Sources -> {NULL} \cup Seq(Pool)])'
    BY <1>0 DEF VisitStop, Visiting, Moves, Advance, confVars, LogTypeOK
  <2> QED BY <1>1, <2>1, <2>2, <2>3, <2>4 DEF LogTypeOK
<1>3. HookInv'
  BY <1>0 DEF LogTypeOK, VisitStop, Visiting, Moves, Advance, confVars, HookInv, Cleaning,
    Running, HooksOK, EntriesOK
<1>4. EntryInv'
  BY <1>0 DEF LogTypeOK, VisitStop, Visiting, Moves, Advance, confVars, EntryInv, HasInter,
    Cleaning, HooksOK, EntriesOK
<1>5. ConnInv'
  BY <1>0 DEF LogTypeOK, VisitStop, Visiting, Moves, Advance, confVars, ConnInv, HasOut, Cleaning
<1>6. StopInv'
  <2>1. Len(order) \in Nat /\ DOMAIN order = 1 .. Len(order)
        /\ \A p \in DOMAIN order : order[p] \in LogBlocks
    BY <1>0, LogTypes
  <2>2. PICK k : k = Position(order, cur)
    OBVIOUS
  <2>3. /\ k \in 1 .. Len(order) /\ order[k] = cur /\ (nxt = NULL => k = Len(order))
        /\ nxt # NULL => nxt \in Elems(order) /\ Position(order, nxt) = k + 1
    BY <1>0, <1>a, <1>e, <2>2, SuccFacts
  <2>4. \A p \in DOMAIN order : p < k => state[order[p]] # "ACTIVE"
    BY <1>0, <1>a, <2>2 DEF StopInv
  <2>5. \A p \in DOMAIN order : p <= k => state'[order[p]] # "ACTIVE"
    <3>1. \A p \in DOMAIN order : p < k => state'[order[p]] # "ACTIVE"
      BY <1>d, <2>1, <2>4
    <3> QED BY <1>c, <2>1, <2>3, <3>1
  <2>6. nxt' = Succ(order, cur')
    BY <1>a
  <2>7. \A p \in DOMAIN order : (cur' = NULL \/ p < Position(order, cur')) =>
          state'[order[p]] # "ACTIVE"
    <3>1. CASE nxt = NULL
      <4>1. \A p \in DOMAIN order : p <= k
        BY <2>1, <2>3, <3>1
      <4> QED BY <1>a, <2>5, <3>1, <4>1
    <3>2. CASE nxt # NULL
      <4>1. ASSUME NEW p \in DOMAIN order, p < k + 1 PROVE p <= k
        <5>1. p \in 1 .. Len(order) /\ k \in 1 .. Len(order)
          BY <2>1, <2>3
        <5>2. p \in Nat /\ k \in Nat
          BY <5>1
        <5> QED BY <4>1, <5>2
      <4> QED BY <1>a, <2>3, <2>5, <3>2, <4>1
    <3> QED BY <3>1, <3>2
  <2> QED BY <1>a, <2>3, <2>6, <2>7 DEF StopInv
<1>7. BufferInv'
  BY <1>0 DEF LogTypeOK, VisitStop, Visiting, Moves, Advance, confVars, BufferInv
<1>8. NamedInv'
  BY <1>0 DEF LogTypeOK, VisitStop, Visiting, Moves, Advance, confVars, NamedInv, Running, HasPort
<1>9. OwnPorts'
  BY <1>0 DEF LogTypeOK, VisitStop, Visiting, Moves, Advance, confVars, OwnPorts, Running, HasPort
<1>10. OwnInters'
  BY <1>0 DEF LogTypeOK, VisitStop, Visiting, Moves, Advance, confVars, OwnInters, HasOut,
    HasInter, Cleaning
<1>11. (LoggerFollowed => VisitInv)'
  <2>1. nxt # NULL => nxt \in Elems(order)
    BY <1>0, <1>a, <1>e, SuccFacts
  <2> QED BY <1>a, <2>1 DEF VisitInv, Cleaning
<1> QED BY <1>1, <1>2, <1>3, <1>4, <1>5, <1>6, <1>7, <1>8, <1>9, <1>10, <1>11 DEF LogInv

LEMMA VisitPreinitLogInv ==
  ASSUME LogInv, Visiting("cleanup"), ~ (cur = Logger /\ state[cur] = "INACTIVE"),
         Moves(cur, IF state[cur] = "INACTIVE" THEN "PREINIT" ELSE state[cur]), Advance, hook' = hook
  PROVE  LogInv'
<1>0. LogTypeOK /\ HookInv /\ EntryInv /\ ConnInv /\ StopInv /\ BufferInv /\ NamedInv
      /\ OwnPorts /\ OwnInters /\ SampleInv /\ ListInv /\ (LoggerFollowed => VisitInv)
  BY DEF LogInv
<1>a. /\ pass = "cleanup" /\ hook = "none" /\ pass' = pass /\ cur # NULL
      /\ cur \in Elems(order) /\ order' = order /\ cur' = nxt /\ nxt' = Succ(order, nxt)
      /\ rconf' = rconf /\ sample' = sample /\ outs' = outs /\ lports' = lports /\ broken' = broken
      /\ lbuf' = lbuf /\ base' = base /\ written' = written /\ at' = at /\ todo' = todo
  BY DEF Visiting, Moves, Advance, confVars
<1>b. cur \in LogBlocks /\ Logger \in LogBlocks /\ Pool \subseteq LogBlocks
  BY <1>0, <1>a DEF LogTypeOK, ListOK, LogBlocks, Others
<1>c. /\ state' \in [LogBlocks -> LogStates]
      /\ state'[cur] = IF state[cur] = "INACTIVE" THEN "PREINIT" ELSE state[cur]
      /\ \A b \in LogBlocks : b # cur => state'[b] = state[b]
  BY <1>0, <1>b DEF Moves, LogTypeOK, LogStates
<1>d. /\ \A b \in LogBlocks : state'[b] = "none" <=> state[b] = "none"
      /\ \A b \in LogBlocks : state'[b] = "ACTIVE" => state[b] = "ACTIVE"
      /\ state'[Logger] = state[Logger]
  BY <1>b, <1>c
<1>e. \A i \in Pool : state'[i] = "none" <=> state[i] = "none"
  BY <1>b, <1>d
<1>f. Running' <=> Running
  BY <1>d DEF Running
<1>g. ~ Cleaning /\ ~ Cleaning'
  BY <1>a DEF Cleaning
<1>h. Succ(order, nxt) \in LogBlocks \cup {NULL}
  BY <1>0, SuccType
<1>i. \A k \in DOMAIN rconf : (HasPort(k)' <=> HasPort(k)) /\ (HasOut(k)' <=> HasOut(k))
                              /\ (HasInter(k)' <=> HasInter(k))
  BY <1>a, <1>g DEF HasPort, HasOut, HasInter
<1>1. BuffersOK' /\ CountsOK' /\ EntriesOK' /\ SampleInv' /\ ListInv'
  BY <1>0, Kept DEF LogTypeOK, LoggerFollowed, Moves, Advance, confVars
<1>2. LogTypeOK'
  <2>1. (state \in [LogBlocks -> LogStates])'
    BY <1>0 DEF Visiting, Moves, Advance, confVars, LogTypeOK, LogStates
  <2>2. ListOK'
    BY <1>0 DEF Visiting, Moves, Advance, confVars, LogTypeOK, ListOK
  <2>3. HooksOK'
    BY <1>0, <1>a, <1>h DEF LogTypeOK, HooksOK
  <2>4. (lports \in Seq(LogPorts))' /\ (outs \in [Sources -> {NULL} \cup Seq(Pool)])'
    BY <1>0 DEF Visiting, Moves, Advance, confVars, LogTypeOK
  <2> QED BY <1>1, <2>1, <2>2, <2>3, <2>4 DEF LogTypeOK
<1>3. HookInv'
  BY <1>0, <1>a, <1>d, <1>f, <1>g DEF HookInv
<1>4. EntryInv'
  <2>1. \A k \in DOMAIN rconf : HasInter(k) => state'[rconf[k].ib] # "none"
    BY <1>0, <1>a, <1>e DEF EntryInv, HasInter
  <2> QED BY <1>0, <1>a, <1>i, <2>1 DEF EntryInv
<1>5. ConnInv'
  BY <1>0, <1>a, <1>e, <1>i DEF ConnInv
<1>6. StopInv'
  BY <1>0, <1>a, <1>d DEF StopInv
<1>7. BufferInv'
  BY <1>0, <1>a, <1>e DEF BufferInv
<1>8. NamedInv'
  BY <1>0, <1>a, <1>f, <1>i DEF NamedInv
<1>9. OwnPorts'
  <2>1. ASSUME broken PROVE OwnPorts'
    <3>1. broken'
      BY <1>a, <2>1, Zenon
    <3> QED BY <3>1 DEF OwnPorts
  <2>2. ASSUME ~ broken PROVE OwnPorts'
    BY <1>0, <1>a, <1>f, <1>i, <2>2 DEF OwnPorts, HasPort
  <2> QED BY <2>1, <2>2
<1>10. OwnInters'
  <2>1. ASSUME broken PROVE OwnInters'
    <3>1. broken'
      BY <1>a, <2>1, Zenon
    <3> QED BY <3>1 DEF OwnInters
  <2>2. ASSUME ~ broken PROVE OwnInters'
    BY <1>0, <1>a, <1>e, <1>i, <2>2 DEF OwnInters
  <2> QED BY <2>1, <2>2
<1>11. (LoggerFollowed => VisitInv)'
  <2>1. SUFFICES ASSUME LoggerFollowed PROVE VisitInv'
    BY DEF LoggerFollowed
  <2>2. nxt = Succ(order, cur)
    BY <1>0, <1>a, <1>g, <2>1 DEF VisitInv
  <2>3. nxt # NULL => nxt \in Elems(order)
    BY <1>0, <1>a, <2>2, SuccFacts
  <2> QED BY <1>a, <1>g, <2>3 DEF VisitInv
<1> QED BY <1>1, <1>2, <1>3, <1>4, <1>5, <1>6, <1>7, <1>8, <1>9, <1>10, <1>11 DEF LogInv

LEMMA VisitRmLogInv ==
  ASSUME LogInv, VisitRm
  PROVE  LogInv'
<1>0. LogTypeOK /\ HookInv /\ EntryInv /\ ConnInv /\ StopInv /\ BufferInv /\ NamedInv
      /\ OwnPorts /\ OwnInters /\ SampleInv /\ ListInv /\ (LoggerFollowed => VisitInv)
  BY DEF LogInv
<1>a. /\ pass = "rm" /\ hook = "none" /\ hook' = "none" /\ pass' = pass /\ cur # NULL
      /\ cur \in Elems(order) /\ cur' = nxt /\ nxt' = Succ(order', nxt)
      /\ rconf' = rconf /\ sample' = sample /\ outs' = outs /\ lports' = lports /\ broken' = broken
      /\ base' = base /\ written' = written /\ at' = at /\ todo' = todo
  BY DEF VisitRm, Visiting, Moves, Dropped, Advance, confVars
<1>b. cur \in LogBlocks /\ state[cur] # "none" /\ Logger \in LogBlocks /\ Pool \subseteq LogBlocks
  BY <1>0, <1>a DEF LogTypeOK, ListOK, LogBlocks, Others
<1>c. \/ state[cur] = "PREINIT" /\ Dropped(cur)
      \/ order' = order /\ lbuf' = lbuf /\ state' = [state EXCEPT ![cur] = state[cur]]
  BY DEF VisitRm, Moves
<1>d. /\ state' \in [LogBlocks -> LogStates] /\ ListOK' /\ BuffersOK' /\ BufferInv' /\ SampleInv'
      /\ \A b \in LogBlocks : b # cur => state'[b] = state[b]
      /\ state'[cur] = state[cur] \/ (state[cur] = "PREINIT" /\ state'[cur] = "none")
      /\ \A b \in Elems(order) : b # cur => b \in Elems(order')
  <2>1. CASE state[cur] = "PREINIT" /\ Dropped(cur)
    <3>1. /\ state' \in [LogBlocks -> LogStates] /\ state'[cur] = "none"
          /\ \A c \in LogBlocks : c # cur => state'[c] = state[c]
          /\ ListOK' /\ Elems(order') = Elems(order) \ {cur}
          /\ BuffersOK' /\ BufferInv' /\ SampleInv'
      <4>1. PICK b : b = cur
        OBVIOUS
      <4>2. b \in LogBlocks /\ state[b] # "none" /\ Dropped(b)
        BY <1>b, <2>1, <4>1
      <4> QED BY <4>1, <4>2, DroppedBlock
    <3> QED BY <2>1, <3>1
  <2>2. CASE order' = order /\ lbuf' = lbuf /\ state' = [state EXCEPT ![cur] = state[cur]]
    <3>1. state' = state
      BY <1>0, <2>2 DEF LogTypeOK
    <3>2. SampleInv'
      <4>1. ASSUME broken PROVE SampleInv'
        <5>1. broken'
          BY <1>a, <4>1, Zenon
        <5> QED BY <5>1 DEF SampleInv
      <4>2. ASSUME ~ broken PROVE SampleInv'
        BY <1>0, <1>a, <2>2, <4>2 DEF SampleInv
      <4> QED BY <4>1, <4>2
    <3> QED BY <1>0, <1>a, <2>2, <3>1, <3>2 DEF LogTypeOK, ListOK, BuffersOK, BufferInv
  <2> QED BY <1>c, <2>1, <2>2
<1>e. \A b \in LogBlocks : state'[b] # "none" => state[b] # "none"
  BY <1>d
<1>f. Running' <=> Running
  BY <1>b, <1>d DEF Running
<1>g. ~ Cleaning /\ ~ Cleaning'
  BY <1>a DEF Cleaning
<1>h. \A k \in DOMAIN rconf : (HasPort(k)' <=> HasPort(k)) /\ (HasOut(k)' <=> HasOut(k))
                              /\ (HasInter(k)' <=> HasInter(k))
  BY <1>a, <1>g DEF HasPort, HasOut, HasInter
<1>1. CountsOK' /\ EntriesOK'
  BY <1>0, Kept DEF LogTypeOK, LoggerFollowed, VisitRm, Moves, Dropped, Advance, confVars
<1>2. LogTypeOK'
  <2>1. (state \in [LogBlocks -> LogStates])'
    BY <1>d
  <2>2. ListOK'
    BY <1>d
  <2>3. BuffersOK'
    BY <1>d
  <2>4. HooksOK'
    <3>1. Succ(order', nxt) \in LogBlocks \cup {NULL}
      BY <1>d, SuccIn DEF ListOK
    <3> QED BY <1>0, <1>a, <3>1 DEF LogTypeOK, HooksOK
  <2>5. (lports \in Seq(LogPorts))' /\ (outs \in [Sources -> {NULL} \cup Seq(Pool)])'
    BY <1>0 DEF VisitRm, Visiting, Moves, Dropped, Advance, confVars, LogTypeOK
  <2> QED BY <1>1, <2>1, <2>2, <2>3, <2>4, <2>5 DEF LogTypeOK
<1>3. HookInv'
  BY <1>0, <1>a, <1>f, <1>g DEF HookInv
<1>4. EntryInv'
  BY <1>0, <1>a DEF EntryInv
<1>5. ConnInv'
  BY <1>0, <1>a, <1>h DEF ConnInv
<1>6. StopInv'
  BY <1>0, <1>a, <1>d DEF StopInv
<1>7. BufferInv'
  BY <1>d
<1>8. NamedInv'
  BY <1>0, <1>a, <1>f, <1>h DEF NamedInv
<1>9. OwnPorts'
  <2>1. ASSUME broken PROVE OwnPorts'
    <3>1. broken'
      BY <1>a, <2>1, Zenon
    <3> QED BY <3>1 DEF OwnPorts
  <2>2. ASSUME ~ broken PROVE OwnPorts'
    BY <1>0, <1>a, <1>f, <1>h, <2>2 DEF OwnPorts, HasPort
  <2> QED BY <2>1, <2>2
<1>10. OwnInters'
  <2>1. ASSUME broken PROVE OwnInters'
    <3>1. broken'
      BY <1>a, <2>1, Zenon
    <3> QED BY <3>1 DEF OwnInters
  <2>2. ASSUME ~ broken PROVE OwnInters'
    BY <1>0, <1>a, <1>b, <1>e, <1>h, <2>2 DEF OwnInters
  <2> QED BY <2>1, <2>2
<1>11. SampleInv'
  BY <1>d
<1>12. ListInv'
  BY <1>0 DEF LogTypeOK, VisitRm, Visiting, Moves, Dropped, Advance, confVars, ListInv,
    FirstBlocks
<1>13. (LoggerFollowed => VisitInv)'
  <2>1. SUFFICES ASSUME LoggerFollowed PROVE VisitInv'
    BY DEF LoggerFollowed
  <2>2. nxt = Succ(order, cur)
    BY <1>0, <1>a, <1>g, <2>1 DEF VisitInv
  <2>3. nxt # NULL => nxt \in Elems(order')
    BY <1>0, <1>a, <1>d, <2>2, SuccFacts
  <2> QED BY <1>a, <1>g, <2>3 DEF VisitInv
<1> QED BY <1>1, <1>2, <1>3, <1>4, <1>5, <1>6, <1>7, <1>8, <1>9, <1>10, <1>11, <1>12, <1>13 DEF
  LogInv

(* The parts of the invariant together. *)
LEMMA LogInitInv == LogInit => LogInv
<1>0. SUFFICES ASSUME LogInit PROVE LogInv
  OBVIOUS
<1>1. order \in Orders /\ hook = "none" /\ at = 1 /\ pass = "run" /\ cur = NULL /\ nxt = NULL
  BY <1>0 DEF LogInit
<1>b. todo = <<>> /\ rconf = <<>> /\ sample = <<>> /\ lports = <<>> /\ base = written
  BY <1>0 DEF LogInit
<1>c. state = [b \in LogBlocks |-> IF b \in Pool THEN "none"
                                  ELSE IF b = Logger THEN "PREINIT" ELSE "ACTIVE"]
  BY <1>0 DEF LogInit
<1>d. /\ outs = [b \in Sources |-> NULL] /\ lbuf = [i \in Interactions |-> <<>>]
      /\ written = [b \in Sources |-> 0]
  BY <1>0 DEF LogInit
<1>2. DOMAIN rconf = {} /\ DOMAIN sample = {} /\ DOMAIN lports = {}
  BY <1>1, <1>b, <1>c, <1>d
<1>a. broken \in BOOLEAN
  BY <1>0 DEF LogInit
<1>3. /\ state \in [LogBlocks -> LogStates] /\ state[Logger] = "PREINIT"
      /\ {b \in LogBlocks : state[b] # "none"} = Others
      /\ \A i \in Pool : state[i] = "none"
  BY <1>1, <1>b, <1>c, <1>d, LogNamesAssumption DEF LogBlocks, Others, LogStates
<1>4. ~ Running /\ ~ Cleaning
  BY <1>1, <1>b, <1>c, <1>d, <1>3 DEF Running, Cleaning
<1>5. \A b \in Sources : \A i : ~ Connected(outs[b], i)
  BY <1>1, <1>b, <1>c, <1>d DEF Connected
<1>6. LogTypeOK
  <2>1. ListOK
    <3>1. order \in Seq(Others) /\ Others \subseteq LogBlocks
      BY <1>1, <1>b, <1>c, <1>d, OrdersAssumption DEF LogBlocks
    <3>2. order \in Seq(LogBlocks)
      BY <3>1
    <3> QED BY <1>1, <1>b, <1>c, <1>d, <1>3, <3>2, OrdersAssumption DEF ListOK
  <2>2. BuffersOK
    BY <1>1, <1>b, <1>c, <1>d, LogBoundsAssumption DEF BuffersOK
  <2>3. CountsOK
    BY <1>1, <1>b, <1>c, <1>d, LogBoundsAssumption DEF CountsOK
  <2>4. EntriesOK
    BY <1>1, <1>b, <1>c, <1>d DEF EntriesOK
  <2>5. HooksOK
    BY <1>1, <1>b, <1>c, <1>d, <1>a DEF HooksOK
  <2>6. lports \in Seq(LogPorts) /\ outs \in [Sources -> {NULL} \cup Seq(Pool)]
    BY <1>1, <1>b, <1>c, <1>d
  <2> QED BY <1>3, <2>1, <2>2, <2>3, <2>4, <2>5, <2>6 DEF LogTypeOK
<1>7. HookInv
  BY <1>1, <1>b, <1>c, <1>d, <1>2, <1>3, <1>4 DEF HookInv
<1>8. EntryInv /\ NamedInv /\ SampleInv
  BY <1>2 DEF EntryInv, NamedInv, SampleInv
<1>9. ConnInv
  BY <1>1, <1>b, <1>c, <1>d, <1>2, <1>5 DEF ConnInv
<1>10. StopInv
  BY <1>1, <1>b, <1>c, <1>d DEF StopInv
<1>11. BufferInv
  <2>1. \A i \in Interactions : lbuf[i] = <<>> /\ DOMAIN lbuf[i] = {}
    BY <1>1, <1>b, <1>c, <1>d
  <2>2. \A i \in Pool : i \in Interactions
    BY DEF Interactions
  <2>3. \A b \in Sources : base[b] <= written[b]
    BY <1>1, <1>b, <1>c, <1>d
  <2> QED BY <1>2, <2>1, <2>2, <2>3 DEF BufferInv
<1>12. OwnPorts
  BY <1>2 DEF OwnPorts
<1>13. OwnInters
  BY <1>3, <1>5 DEF OwnInters
<1>14. ListInv
  <2>1. order \in Seq(Others) /\ DOMAIN order = 1 .. Len(order) /\ Len(order) \in Nat
    BY <1>1, <1>b, <1>c, <1>d, OrdersAssumption
  <2>2. FirstBlocks(order)
    BY <2>1 DEF FirstBlocks
  <2> QED BY <1>1, <1>b, <1>c, <1>d, <2>2 DEF ListInv
<1>15. VisitInv
  BY <1>1, <1>b, <1>c, <1>d DEF VisitInv
<1> QED BY <1>6, <1>7, <1>8, <1>9, <1>10, <1>11, <1>12, <1>13, <1>14, <1>15 DEF LogInv

LEMMA LogNextInv == LogInv /\ [LogNext]_logVars => LogInv'
<1>1. SUFFICES ASSUME LogInv, [LogNext]_logVars PROVE LogInv'
  OBVIOUS
<1>2. CASE UNCHANGED logVars
  BY <1>1, <1>2 DEF logVars, confVars, loopVars, LogInv, LogTypeOK, ListOK, BuffersOK, CountsOK,
    EntriesOK, HooksOK, HookInv, EntryInv, ConnInv, StopInv, BufferInv, NamedInv, OwnPorts, OwnInters,
    SampleInv, ListInv, FirstBlocks, VisitInv, Cleaning, HasPort, HasOut, HasInter, Running
<1>3. CASE \E conf \in Confs : InitBegin(conf)
  BY <1>1, <1>3, InitBeginLogInv
<1>4. CASE ReportIBlock \/ RefuseInPort \/ InitFails \/ InitEnd
  BY <1>1, <1>4, ReportIBlockLogInv, RefuseInPortLogInv, InitFailsLogInv, InitEndLogInv
<1>5. CASE \E i \in Pool : ReportPort(i)
  BY <1>1, <1>5, ReportPortLogInv
<1>6. CASE LoggerStart \/ LoggerStop \/ StepBegin \/ LogEntry \/ StepEnd
  BY <1>1, <1>6, LoggerStartLogInv, LoggerStopLogInv, StepBeginLogInv, LogEntryLogInv, StepEndLogInv
<1>7. CASE \E b \in Sources : SourceWrite(b) \/ InterWrite(b)
  BY <1>1, <1>7, SourceWriteLogInv, InterWriteLogInv
<1>8. CASE LoggerCleanup
  <2>1. hook = "none" /\ state[Logger] = "INACTIVE" /\ CleanBegin /\ pass = "run"
    BY <1>8 DEF LoggerCleanup
  <2> QED BY <1>1, <2>1, CleanBeginLogInv
<1>9. CASE Disconnect \/ RemovePort \/ Unload \/ CleanEnd
  BY <1>1, <1>9, DisconnectLogInv, RemovePortLogInv, UnloadLogInv, CleanEndLogInv
<1>10. CASE NodeCleanup \/ NextPass \/ VisitStop \/ VisitRm
  BY <1>1, <1>10, NodeCleanupLogInv, NextPassLogInv, VisitStopLogInv, VisitRmLogInv
<1>11. CASE VisitCleanup
  <2>1. pass = "cleanup" /\ hook = "none" /\ Visiting("cleanup")
    BY <1>11 DEF VisitCleanup, Visiting
  <2>2. CASE cur = Logger /\ state[cur] = "INACTIVE"
    <3>1. CleanBegin
      BY <1>11, <2>2 DEF VisitCleanup
    <3> QED BY <1>1, <2>1, <2>2, <3>1, CleanBeginLogInv
  <2>3. CASE ~ (cur = Logger /\ state[cur] = "INACTIVE")
    <3>1. /\ Moves(cur, IF state[cur] = "INACTIVE" THEN "PREINIT" ELSE state[cur])
          /\ Advance /\ hook' = hook
      BY <1>11, <2>3 DEF VisitCleanup
    <3> QED BY <1>1, <2>1, <2>3, <3>1, VisitPreinitLogInv
  <2> QED BY <2>2, <2>3
<1> QED BY <1>1, <1>2, <1>3, <1>4, <1>5, <1>6, <1>7, <1>8, <1>9, <1>10, <1>11 DEF LogNext

(* The invariant of the logger, whatever it is configured to report and in *)
(* whichever order the blocks were created (file_logger.lua,               *)
(* ubx_node_cleanup).                                                      *)
THEOREM LogInvariant == LogSpec => []LogInv
<1>1. LogInit => LogInv
  BY LogInitInv
<1>2. LogInv /\ [LogNext]_logVars => LogInv'
  BY LogNextInv
<1> QED BY <1>1, <1>2, PTL DEF LogSpec

LEMMA LogInvSafe == LogInv => LoggerSafe
<1>0. SUFFICES ASSUME LogInv PROVE LoggerSafe
  OBVIOUS
<1>1. LogTypeOK /\ HookInv /\ EntryInv /\ ConnInv /\ StopInv /\ NamedInv
      /\ OwnPorts /\ SampleInv /\ (LoggerFollowed => VisitInv)
  BY <1>0 DEF LogInv
<1>2. PinvRight
  <2>1. SUFFICES ASSUME ~ broken, Running, hook \in {"none", "step"}, NEW k \in DOMAIN rconf
                 PROVE  /\ rconf[k].pinv \in DOMAIN lports
                        /\ lports[rconf[k].pinv].name = k
                        /\ lports[rconf[k].pinv].in_interaction = <<rconf[k].ib>>
    BY DEF PinvRight, Running
  <2>2. rconf[k].pinv \in DOMAIN lports
    BY <1>1, <2>1 DEF NamedInv
  <2> QED BY <1>1, <2>1, <2>2 DEF OwnPorts
<1>3. LogFresh
  BY <1>1 DEF SampleInv, LogFresh
<1>4. NoFreedWrite
  <2>1. SUFFICES ASSUME NEW b \in Sources, state[b] = "ACTIVE", NEW i \in Interactions,
                        Connected(outs[b], i)
                 PROVE  state[i] # "none"
    BY DEF NoFreedWrite
  <2>2. b \in LogBlocks
    BY DEF LogBlocks, Others
  <2>3. pass \in {"run", "stop", "cleanup"}
    BY <1>1, <2>1, <2>2 DEF StopInv, LogTypeOK, HooksOK
  <2>4. i \in Pool
    <3>1. outs[b] \in {NULL} \cup Seq(Pool)
      BY <1>1 DEF LogTypeOK
    <3> QED BY <2>1, <3>1 DEF Connected
  <2> QED BY <1>1, <2>1, <2>3, <2>4 DEF ConnInv
<1>5. LoggerFollowed => NoFreedVisit
  BY <1>1 DEF VisitInv, NoFreedVisit
<1> QED BY <1>1, <1>2, <1>3, <1>4, <1>5 DEF LoggerSafe

(* The pointers that the logger caches are those of its columns' ports     *)
(* when the hooks go through the entries, columns show what was written    *)
(* since the init, nothing freed is written to or, if a block was created  *)
(* after the logger, visited by the clean-up of the node.                  *)
THEOREM LoggerSafeAlways == LogSpec => []LoggerSafe
<1>1. LogInv => LoggerSafe
  BY LogInvSafe
<1> QED BY <1>1, LogInvariant, PTL

(* A step of the logger replaces a sample by a later one of its source. *)
LEMMA MonotoneStep ==
  ASSUME LogInv, LogNext, ~ broken, rconf' = rconf, NEW k \in DOMAIN sample, sample[k] # NULL,
         sample'[k].src = sample[k].src
  PROVE  sample'[k].nr >= sample[k].nr
<1>0. LogTypeOK /\ HookInv /\ EntryInv /\ NamedInv /\ OwnPorts /\ SampleInv
  BY DEF LogInv
<1>1. PICK x \in Samples : x = sample[k]
  BY <1>0, LogTypes
<1>2. x.nr \in Nat
  BY <1>1 DEF Samples
<1>3. CASE sample' = sample
  BY <1>1, <1>2, <1>3
<1>4. CASE InitEnd
  BY <1>0, <1>4, ColumnEntry DEF InitEnd, HookInv, Running
<1>5. CASE CleanEnd
  <2>1. DOMAIN rconf = {}
    BY <1>5 DEF CleanEnd
  <2> QED BY <1>0, <2>1, ColumnEntry
<1>6. CASE LogEntry
  <2>1. ASSUME NEW i \in Interactions, lbuf[i] # <<>>, i = rconf[at].ib,
               sample' = [sample EXCEPT ![at] = Head(lbuf[i])], k = at
        PROVE  sample'[k].nr >= sample[k].nr
    <3>1. sample'[k] = Head(lbuf[i])
      BY <2>1
    <3>2. PICK t : t = lbuf[i]
      OBVIOUS
    <3>3. t \in Seq(Samples) /\ t # <<>>
      BY <1>0, <2>1, <3>2 DEF LogTypeOK, BuffersOK
    <3>4. Head(t) = t[1] /\ 1 \in DOMAIN t /\ t[1] \in Samples
      BY <3>3
    <3>5. \A p \in DOMAIN lbuf[rconf[k].ib] :
            lbuf[rconf[k].ib][p].src = sample[k].src => lbuf[rconf[k].ib][p].nr > sample[k].nr
      BY <1>0 DEF SampleInv
    <3>6. t[1].nr > sample[k].nr
      BY <2>1, <3>1, <3>2, <3>4, <3>5
    <3>7. t[1].nr \in Nat
      BY <3>4 DEF Samples
    <3> QED BY <1>1, <1>2, <3>1, <3>2, <3>4, <3>6, <3>7
  <2>2. ASSUME NEW i \in Interactions, sample' = [sample EXCEPT ![at] = Head(lbuf[i])], k # at
        PROVE  sample'[k].nr >= sample[k].nr
    <3>1. sample'[k] = sample[k]
      BY <2>2
    <3> QED BY <1>1, <1>2, <3>1
  <2> QED BY <1>0, <1>3, <1>6, <2>1, <2>2, EntryEffect
<1> QED BY <1>3, <1>4, <1>5, <1>6 DEF LogNext, InitBegin, ReportIBlock, RefuseInPort, InitFails,
  ReportPort, LoggerStart, LoggerStop, StepBegin, StepEnd, SourceWrite, InterWrite, LoggerCleanup,
  CleanBegin, Disconnect, RemovePort, Unload, Dropped, NodeCleanup, NextPass, VisitStop, VisitCleanup,
  VisitRm, Moves, confVars

(* The logger gets back to PREINIT by the end of cleanup only. *)
LEMMA CleanedStep ==
  ASSUME LogInv, LogNext, ~ broken, state[Logger] = "INACTIVE", state'[Logger] = "PREINIT"
  PROVE  /\ lports' = <<>>
         /\ \A b \in Sources : outs'[b] = NULL \/ outs'[b] = <<>>
         /\ \A i \in Pool : state'[i] = "none"
<1>0. LogTypeOK /\ HookInv /\ StopInv
  BY DEF LogInv
<1>1. state \in [LogBlocks -> LogStates] /\ Logger \in LogBlocks /\ Logger \notin Pool
  BY <1>0, LogNamesAssumption DEF LogTypeOK, LogBlocks, Others
<1>2. CASE CleanEnd
  <2>1. /\ lports = <<>> /\ (\A b \in Sources, i \in Pool : ~ Connected(outs[b], i))
        /\ \A i \in Pool : state[i] = "none"
    BY <1>2, NothingLeft
  <2>2. lports' = lports /\ outs' = outs /\ state' = [state EXCEPT ![Logger] = "PREINIT"]
    BY <1>2 DEF CleanEnd
  <2>3. ASSUME NEW b \in Sources PROVE outs[b] = NULL \/ outs[b] = <<>>
    <3>1. outs[b] \in {NULL} \cup Seq(Pool)
      BY <1>0 DEF LogTypeOK
    <3>2. ASSUME outs[b] \in Seq(Pool), outs[b] # NULL PROVE outs[b] = <<>>
      <4>1. PICK o \in Seq(Pool) : o = outs[b]
        BY <3>2
      <4>2. \A p \in DOMAIN o : o[p] \in Pool
        BY <4>1
      <4>3. DOMAIN o = {}
        BY <2>1, <3>2, <4>1, <4>2 DEF Connected
      <4>4. Len(o) = 0
        <5>1. PICK n \in Nat : n = Len(o) /\ DOMAIN o = 1 .. n
          BY <4>1
        <5>2. ~ (1 \in 1 .. n)
          BY <4>3, <5>1
        <5> QED BY <5>1, <5>2
      <4> QED BY <4>1, <4>4
    <3> QED BY <3>1, <3>2
  <2>4. \A i \in Pool : state'[i] = "none"
    BY <1>1, <2>1, <2>2
  <2> QED BY <2>1, <2>2, <2>3, <2>4
<1>3. ASSUME NEW b, NEW s, state' = [state EXCEPT ![b] = s], s = "PREINIT" => b # Logger
      PROVE  FALSE
  BY <1>1, <1>3
<1>4. state' # state
  BY <1>1
<1>5. CASE InitEnd
  BY <1>0, <1>5 DEF InitEnd, HookInv
<1>6. ASSUME NEW i \in Pool, ReportPort(i) PROVE FALSE
  BY <1>3, <1>6 DEF ReportPort
<1>7. CASE LoggerStart \/ LoggerStop
  BY <1>3, <1>7 DEF LoggerStart, LoggerStop, Moves
<1>8. CASE Unload
  BY <1>3, <1>8 DEF Unload, Dropped
<1>9. CASE VisitStop
  BY <1>3, <1>9 DEF VisitStop, Moves
<1>10. CASE VisitCleanup
  <2>1. CASE cur = Logger
    BY <1>4, <1>10, <2>1 DEF VisitCleanup, CleanBegin
  <2>2. CASE cur # Logger
    BY <1>3, <1>10, <2>2 DEF VisitCleanup, Moves
  <2> QED BY <2>1, <2>2
<1>11. CASE VisitRm
  BY <1>3, <1>11 DEF VisitRm, Dropped, Moves
<1> QED BY <1>2, <1>4, <1>5, <1>6, <1>7, <1>8, <1>9, <1>10, <1>11 DEF LogNext, InitBegin,
  ReportIBlock, RefuseInPort, InitFails, StepBegin, LogEntry, StepEnd, SourceWrite, InterWrite,
  LoggerCleanup, CleanBegin, Disconnect, RemovePort, NodeCleanup, NextPass

(* A column never goes back to an older sample of its source. *)
THEOREM LogMonotoneAlways == LogSpec => LogMonotone
<1>1. LogInv /\ [LogNext]_logVars =>
        [~ broken /\ rconf' = rconf => \A k \in DOMAIN sample :
           sample[k] # NULL /\ sample'[k].src = sample[k].src =>
             sample'[k].nr >= sample[k].nr]_logVars
  BY MonotoneStep
<1> QED BY <1>1, LogInvariant, PTL DEF LogSpec, LogMonotone

(* The cleanup hook leaves nothing of what init made. *)
THEOREM CleanedUpAlways == LogSpec => CleanedUp
<1>1. LogInv /\ [LogNext]_logVars =>
        [~ broken /\ state[Logger] = "INACTIVE" /\ state'[Logger] = "PREINIT" =>
           /\ lports' = <<>>
           /\ \A b \in Sources : outs'[b] = NULL \/ outs'[b] = <<>>
           /\ \A i \in Pool : state'[i] = "none"]_logVars
  BY CleanedStep
<1> QED BY <1>1, LogInvariant, PTL DEF LogSpec, CleanedUp

(* What is said of samples: a read takes one, columns do not go back and   *)
(* cleanup takes all of them away (__port_read, step and cleanup of        *)
(* file_logger.lua).                                                       *)
THEOREM SamplesAreRight == Faulty = {} => (PortsSpec /\ LogSpec => SamplesRight)
<1>1. SUFFICES ASSUME Faulty = {} PROVE PortsSpec /\ LogSpec => SamplesRight
  OBVIOUS
<1>2. PortsSpec => ReadTakesOne
  BY <1>1, ReadsTakeOne
<1> QED BY <1>2, LogMonotoneAlways, CleanedUpAlways, PTL DEF SamplesRight

-----------------------------------------------------------------------------
(* The entries of a system's configurations are handled: a block whose init *)
(* hook does not fail is initialised.                                       *)
Settled(c) == c.name \in model.broken \/ bstate[c.name] # "preinit"
Configured(s) == \A c \in Range(model.confs[s]) : Settled(c)

(* The frame below one has just included its system; the last is Root.      *)
Called(g, s) ==
  /\ g.phase = "include"
  /\ g.i - 1 \in DOMAIN model.include[g.sys] /\ model.include[g.sys][g.i - 1] = s
StackInv ==
  \A n \in 1..Len(stack) :
    IF n = Len(stack) THEN stack[n].sys = Root ELSE Called(stack[n + 1], stack[n].sys)

(* What an activation has done by its phase and position; before n the      *)
(* included systems are through.                                            *)
Progress(f, n) ==
  /\ f.phase = "include" =>
       \A j \in DOMAIN model.include[f.sys] : j < n => model.include[f.sys][j] \in finished
  /\ f.phase \in {"configure", "walk", "connect"} =>
       Range(model.include[f.sys]) \subseteq finished
  /\ f.phase \in {"configure", "walk"} =>
       \A j \in DOMAIN model.confs[f.sys] : j < f.i => Settled(model.confs[f.sys][j])
  /\ f.phase = "connect" =>
       /\ Configured(f.sys)
       /\ \A j \in DOMAIN model.conns[f.sys] : j < f.i => model.conns[f.sys][j] \in conns
ProgressInv ==
  \A n \in 1..Len(stack) : Progress(stack[n], IF n = 1 THEN stack[n].i ELSE stack[n].i - 1)
FinishedInv ==
  \A s \in finished :
    /\ Range(model.include[s]) \subseteq finished
    /\ Configured(s)
    /\ Range(model.conns[s]) \subseteq conns

(* The super-systems that the walk has left behind, and those among them    *)
(* and the entries of the current one that set a config of the block.       *)
Walked == IF walker = NULL THEN Around[Top.sys]
                           ELSE Around[Top.sys] \ ({walker} \cup Around[walker])
SetSoFar(b, k) ==
  \E j \in DOMAIN model.confs[walker] :
    j < pos /\ model.confs[walker][j].name = b /\ k \in model.confs[walker][j].sets
Heard(b, k) ==
  {p \in Walked : SetBy(p, b, k)}
    \cup {p \in Around[Top.sys] : p = walker /\ SetSoFar(b, k)}
    \cup {p \in {Top.sys} : k \in Conf.sets}
Outermost(v, P) == P # {} => v \in P /\ \A p \in P : v \in {p} \cup Around[p]
WalkInv ==
  At("walk") =>
    /\ More /\ bstate[Conf.name] = "preinit"
    /\ walker # NULL => /\ walker \in Around[Top.sys]
                        /\ \A p \in Walked : walker \in Around[p]
    /\ \A k \in Configs : Outermost(value[Conf.name][k], Heard(Conf.name, k))

ResultInv ==
  /\ result # "creating" => created = BlockList
  /\ result = "running" => stack # <<>>
  /\ result = "done" => Root \in finished
  /\ result = "aborted" => ~Complete

LaunchInv ==
  /\ LaunchTypes /\ model \in Models
  /\ StackInv /\ ProgressInv /\ FinishedInv
  /\ WalkInv /\ OutermostWins /\ ResultInv

-----------------------------------------------------------------------------
(* The tree of systems.                                                    *)
LEMMA ParentOf ==
  ASSUME model \in Models
  PROVE  /\ \A p, s \in Systems : s \in Range(model.include[p]) => Parent(s) = p
         /\ \A s \in Systems : Parent(s) \in Systems \cup {NULL}
         /\ \A s \in Systems : Parent(s) = NULL <=> s = Root
         /\ \A s \in Systems : Parent(s) # NULL =>
              Parent(s) \in Systems /\ s \in Range(model.include[Parent(s)])
<1>1. IsTree(model.include) /\ NULL \notin Systems /\ model.include \in [Systems -> Seq(Systems)]
  BY ModelsAssumption
<1>2. ASSUME NEW p \in Systems, NEW s \in Systems, s \in Range(model.include[p])
      PROVE  Parent(s) = p
  <2>1. \A q \in Systems : s \in Range(model.include[q]) => q = p
    BY <1>1, <1>2 DEF IsTree, Range
  <2>2. {q \in Systems : s \in Range(model.include[q])} = {p}
    BY <1>2, <2>1
  <2> QED
    BY <2>2 DEF Parent
<1>3. ASSUME NEW s \in Systems, s # Root
      PROVE  \E p \in Systems : s \in Range(model.include[p])
  BY <1>1, <1>3 DEF IsTree
<1>4. ASSUME NEW p \in Systems PROVE Root \notin Range(model.include[p])
  BY <1>1, ModelsAssumption DEF IsTree
<1>5. Parent(Root) = NULL
  <2>1. {p \in Systems : Root \in Range(model.include[p])} = {}
    BY <1>4
  <2> QED
    BY <2>1 DEF Parent
<1>6. ASSUME NEW s \in Systems, s # Root
      PROVE  /\ Parent(s) \in Systems /\ Parent(s) # NULL
             /\ s \in Range(model.include[Parent(s)])
  <2>1. PICK p \in Systems : s \in Range(model.include[p])
    BY <1>3, <1>6
  <2>2. Parent(s) = p
    BY <1>2, <2>1
  <2> QED
    BY <1>1, <2>1, <2>2
<1> QED
  BY <1>2, <1>5, <1>6

(* Every set of systems has one whose parent is not in the set.            *)
LEMMA OutermostOf ==
  ASSUME model \in Models, NEW S \in SUBSET Systems, S # {}
  PROVE  \E s \in S : Parent(s) \notin S
<1>1. IsTree(model.include) /\ NULL \notin Systems
  BY ModelsAssumption
<1>2. PICK s \in S : \A p \in S : s \notin Range(model.include[p])
  BY <1>1 DEF IsTree
<1>3. Parent(s) \notin S
  BY <1>1, <1>2, ParentOf
<1> QED
  BY <1>3

(* The super-systems, by their recursive definition: the smallest set that *)
(* holds the parent and the parent of each member satisfies it.            *)
Closed(S) == \A q \in S : Parent(q) \in S \cup {NULL}
Above(s) ==
  IF Parent(s) = NULL THEN {}
  ELSE {p \in Systems : \A S \in SUBSET Systems : Parent(s) \in S /\ Closed(S) => p \in S}
LEMMA AboveStep ==
  ASSUME model \in Models, NEW s \in Systems
  PROVE  Above(s) = IF Parent(s) = NULL THEN {} ELSE {Parent(s)} \cup Above(Parent(s))
<1>1. CASE Parent(s) = NULL
  BY <1>1 DEF Above
<1>2. CASE Parent(s) # NULL
  <2> DEFINE p == Parent(s)
             T == {p} \cup Above(p)
  <2>1. p \in Systems /\ NULL \notin Systems /\ Parent(p) \in Systems \cup {NULL}
    BY <1>2, ParentOf, ModelsAssumption
  <2>2. T \subseteq Systems
    BY <2>1 DEF Above
  <2>3. Closed(T)
    <3>1. p = p /\ Parent(p) \in T \cup {NULL}
      BY <2>1 DEF Above
    <3>2. ASSUME NEW q \in Above(p) PROVE Parent(q) \in T \cup {NULL}
      <4>1. Parent(p) # NULL /\ q \in Systems
        BY <3>2 DEF Above
      <4>2. ASSUME Parent(q) # NULL PROVE Parent(q) \in Above(p)
        <5>1. Parent(q) \in Systems
          BY <4>1, <4>2, ParentOf
        <5>2. ASSUME NEW S \in SUBSET Systems, Parent(p) \in S, Closed(S)
              PROVE  Parent(q) \in S
          <6>1. q \in S
            BY <3>2, <5>2, <4>1 DEF Above
          <6> QED
            BY <6>1, <5>2, <4>2 DEF Closed
        <5> QED
          BY <4>1, <5>1, <5>2 DEF Above
      <4> QED
        BY <4>2
    <3> QED
      BY <3>1, <3>2 DEF Closed
  <2>4. ASSUME NEW q \in Above(s) PROVE q \in T
    <3>1. \A S \in SUBSET Systems : p \in S /\ Closed(S) => q \in S
      BY <1>2 DEF Above
    <3> QED
      BY <3>1, <2>2, <2>3
  <2>5. ASSUME NEW q \in T PROVE q \in Above(s)
    <3>1. q \in Systems
      BY <2>2
    <3>2. ASSUME NEW S \in SUBSET Systems, p \in S, Closed(S) PROVE q \in S
      <4>1. CASE q = p
        BY <4>1, <3>2
      <4>2. CASE q \in Above(p)
        <5>1. Parent(p) # NULL
          BY <4>2 DEF Above
        <5>2. Parent(p) \in S
          BY <5>1, <3>2 DEF Closed
        <5> QED
          BY <4>2, <5>1, <5>2, <3>2 DEF Above
      <4> QED
        BY <4>1, <4>2
    <3> QED
      BY <1>2, <3>1, <3>2 DEF Above
  <2>6. Above(s) = T
    BY <2>4, <2>5
  <2> QED
    BY <2>6, <1>2
<1> QED
  BY <1>1, <1>2

LEMMA AroundIs ==
  ASSUME model \in Models
  PROVE  \A s \in Systems :
           /\ Around[s] = IF Parent(s) = NULL THEN {} ELSE {Parent(s)} \cup Around[Parent(s)]
           /\ Around[s] \in SUBSET Systems
<1> DEFINE Def(f) == f = [s \in Systems |->
                       IF Parent(s) = NULL THEN {} ELSE {Parent(s)} \cup f[Parent(s)]]
           F == [s \in Systems |-> Above(s)]
<1>1. Def(F)
  <2>1. ASSUME NEW s \in Systems
        PROVE  Above(s) = IF Parent(s) = NULL THEN {} ELSE {Parent(s)} \cup F[Parent(s)]
    <3>1. Above(s) = IF Parent(s) = NULL THEN {} ELSE {Parent(s)} \cup Above(Parent(s))
      BY AboveStep
    <3>2. Parent(s) # NULL => F[Parent(s)] = Above(Parent(s))
      BY ParentOf
    <3> QED
      BY <3>1, <3>2
  <2>2. [s \in Systems |-> Above(s)] =
        [s \in Systems |-> IF Parent(s) = NULL THEN {} ELSE {Parent(s)} \cup F[Parent(s)]]
    BY <2>1
  <2> QED
    BY <2>2
<1>2. Around = CHOOSE f : Def(f)
  BY DEF Around
<1>3. Def(Around)
  <2> HIDE DEF Def, F
  <2> QED
    BY <1>1, <1>2
<1>4. ASSUME NEW s \in Systems
      PROVE  Around[s] = IF Parent(s) = NULL THEN {} ELSE {Parent(s)} \cup Around[Parent(s)]
  BY <1>3
<1>5. ASSUME NEW s \in Systems PROVE Around[s] \in SUBSET Systems
  <2> DEFINE Bad == {p \in Systems : ~(Around[p] \in SUBSET Systems)}
  <2>1. ASSUME Bad # {} PROVE FALSE
    <3>1. Bad \in SUBSET Systems
      OBVIOUS
    <3> HIDE DEF Bad
    <3>2. PICK p \in Bad : Parent(p) \notin Bad
      BY <2>1, <3>1, OutermostOf
    <3> USE DEF Bad
    <3>3. CASE Parent(p) = NULL
      BY <3>3, <1>4
    <3>4. CASE Parent(p) # NULL
      <4>1. Parent(p) \in Systems /\ Around[Parent(p)] \in SUBSET Systems
        BY <3>2, <3>4, ParentOf
      <4>2. Around[p] = {Parent(p)} \cup Around[Parent(p)]
        BY <3>4, <1>4
      <4> QED
        BY <4>1, <4>2
    <3> QED
      BY <3>3, <3>4
  <2> QED
    BY <2>1
<1> QED
  BY <1>4, <1>5

(* The super-systems of a super-system are super-systems; no system is its *)
(* own; and every system is Root or has it around.                         *)
LEMMA AroundTree ==
  ASSUME model \in Models
  PROVE  /\ \A s \in Systems : \A p \in Around[s] : Around[p] \subseteq Around[s]
         /\ \A s \in Systems : s \notin Around[s]
         /\ \A s \in Systems : s = Root \/ Root \in Around[s]
<1> USE AroundIs
<1>1. ASSUME NEW s \in Systems PROVE \A p \in Around[s] : Around[p] \subseteq Around[s]
  <2> DEFINE Bad == {t \in Systems : \E p \in Around[t] : ~(Around[p] \subseteq Around[t])}
  <2>1. ASSUME Bad # {} PROVE FALSE
    <3>1. Bad \in SUBSET Systems
      OBVIOUS
    <3> HIDE DEF Bad
    <3>2. PICK t \in Bad : Parent(t) \notin Bad
      BY <2>1, <3>1, OutermostOf
    <3>3. t \in Systems /\ \E p \in Around[t] : ~(Around[p] \subseteq Around[t])
      BY <3>2 DEF Bad
    <3>4. PICK p \in Around[t] : ~(Around[p] \subseteq Around[t])
      BY <3>3
    <3>5. Parent(t) \in Systems /\ Around[t] = {Parent(t)} \cup Around[Parent(t)]
      BY <3>3, <3>4, ParentOf
    <3>6. \A q \in Around[Parent(t)] : Around[q] \subseteq Around[Parent(t)]
      BY <3>2, <3>5 DEF Bad
    <3> QED
      BY <3>4, <3>5, <3>6
  <2> QED
    BY <2>1
<1>2. ASSUME NEW s \in Systems PROVE s \notin Around[s]
  <2> DEFINE Bad == {t \in Systems : t \in Around[t]}
  <2>1. ASSUME Bad # {} PROVE FALSE
    <3>1. Bad \in SUBSET Systems
      OBVIOUS
    <3> HIDE DEF Bad
    <3>2. PICK t \in Bad : Parent(t) \notin Bad
      BY <2>1, <3>1, OutermostOf
    <3>3. t \in Systems /\ t \in Around[t]
      BY <3>2 DEF Bad
    <3>4. Parent(t) \in Systems /\ Around[t] = {Parent(t)} \cup Around[Parent(t)]
      BY <3>3, ParentOf
    <3>5. Parent(t) \in Around[Parent(t)]
      BY <1>1, <3>3, <3>4
    <3> QED
      BY <3>2, <3>4, <3>5 DEF Bad
  <2> QED
    BY <2>1
<1>3. ASSUME NEW s \in Systems PROVE s = Root \/ Root \in Around[s]
  <2> DEFINE Bad == {t \in Systems : t # Root /\ Root \notin Around[t]}
  <2>1. ASSUME Bad # {} PROVE FALSE
    <3>1. Bad \in SUBSET Systems
      OBVIOUS
    <3> HIDE DEF Bad
    <3>2. PICK t \in Bad : Parent(t) \notin Bad
      BY <2>1, <3>1, OutermostOf
    <3>3. t \in Systems /\ t # Root /\ Root \notin Around[t]
      BY <3>2 DEF Bad
    <3>4. Parent(t) \in Systems /\ Around[t] = {Parent(t)} \cup Around[Parent(t)]
      BY <3>3, ParentOf
    <3> QED
      BY <3>2, <3>3, <3>4 DEF Bad
  <2> QED
    BY <2>1
<1> QED
  BY <1>1, <1>2, <1>3

(* A launch does not change its model, nor what is said of it.              *)
LEMMA SameModel ==
  ASSUME model' = model
  PROVE  /\ Around' = Around
         /\ \A s : Parent(s)' = Parent(s)
         /\ BlockList' = BlockList
         /\ Complete' = Complete
         /\ \A p, b, k : SetBy(p, b, k)' = SetBy(p, b, k)
<1>1. \A s : Parent(s)' = Parent(s)
  BY DEF Parent
<1>2. Around' = Around
  BY <1>1 DEF Around, Parent
<1>3. BlockList' = BlockList
  BY DEF BlockList
<1>4. \A p, b, k : SetBy(p, b, k)' = SetBy(p, b, k)
  BY DEF SetBy
<1>5. Complete' = Complete
  BY <1>2, <1>3 DEF Complete, ConfiguredBefore, Within
<1> QED
  BY <1>1, <1>2, <1>3, <1>4, <1>5

-----------------------------------------------------------------------------
(* The stack of activations.                                                *)
Frames == [sys : Systems, i : Nat \ {0},
           phase : {"preproc", "include", "configure", "walk", "connect"}]

LEMMA Stacks ==
  ASSUME NEW F, NEW s \in Seq(F), s # <<>>
  PROVE  /\ Len(s) \in Nat \ {0} /\ s[1] \in F
         /\ Tail(s) \in Seq(F) /\ Len(Tail(s)) = Len(s) - 1
         /\ \A n \in 1..Len(s) - 1 : Tail(s)[n] = s[n + 1]
         /\ \A g \in F : /\ <<g>> \o Tail(s) \in Seq(F) /\ <<g>> \o Tail(s) # <<>>
                         /\ Len(<<g>> \o Tail(s)) = Len(s)
                         /\ (<<g>> \o Tail(s))[1] = g
                         /\ \A n \in 2..Len(s) : (<<g>> \o Tail(s))[n] = s[n]
         /\ \A g, h \in F : /\ <<h, g>> \o Tail(s) \in Seq(F) /\ <<h, g>> \o Tail(s) # <<>>
                            /\ Len(<<h, g>> \o Tail(s)) = Len(s) + 1
                            /\ (<<h, g>> \o Tail(s))[1] = h
                            /\ (<<h, g>> \o Tail(s))[2] = g
                            /\ \A n \in 3..Len(s) + 1 : (<<h, g>> \o Tail(s))[n] = s[n - 1]
<1>1. /\ Len(s) \in Nat \ {0} /\ s[1] \in F
      /\ Tail(s) \in Seq(F) /\ Len(Tail(s)) = Len(s) - 1
      /\ \A n \in 1..Len(s) - 1 : Tail(s)[n] = s[n + 1]
  OBVIOUS
<1>2. ASSUME NEW g \in F
      PROVE  /\ <<g>> \o Tail(s) \in Seq(F) /\ <<g>> \o Tail(s) # <<>>
             /\ Len(<<g>> \o Tail(s)) = Len(s)
             /\ (<<g>> \o Tail(s))[1] = g
             /\ \A n \in 2..Len(s) : (<<g>> \o Tail(s))[n] = s[n]
  BY <1>1
<1>3. ASSUME NEW g \in F, NEW h \in F
      PROVE  /\ <<h, g>> \o Tail(s) \in Seq(F) /\ <<h, g>> \o Tail(s) # <<>>
             /\ Len(<<h, g>> \o Tail(s)) = Len(s) + 1
             /\ (<<h, g>> \o Tail(s))[1] = h
             /\ (<<h, g>> \o Tail(s))[2] = g
             /\ \A n \in 3..Len(s) + 1 : (<<h, g>> \o Tail(s))[n] = s[n - 1]
  <2> DEFINE T == Tail(s)
             n == Len(s) - 1
  <2>1. n \in Nat /\ n = Len(s) - 1 /\ Len(s) = n + 1 /\ T \in Seq(F) /\ Len(T) = n
    BY <1>1
  <2> HIDE DEF T, n
  <2>2. <<h, g>> \in Seq(F) /\ Len(<<h, g>>) = 2 /\ <<h, g>>[1] = h /\ <<h, g>>[2] = g
    OBVIOUS
  <2>3. \A k \in 1..2 + n : (<<h, g>> \o T)[k] = IF k <= 2 THEN <<h, g>>[k] ELSE T[k - 2]
    BY <2>1, <2>2
  <2>4. \A k \in 3..n + 2 : T[k - 2] = s[k - 1]
    <3>1. ASSUME NEW k \in 3..n + 2 PROVE T[k - 2] = s[k - 1]
      <4>1. k - 2 \in 1..Len(s) - 1 /\ k - 2 + 1 = k - 1
        BY <2>1
      <4> QED
        BY <1>1, <4>1 DEF T
    <3> QED
      BY <3>1
  <2>5. /\ <<h, g>> \o T \in Seq(F) /\ Len(<<h, g>> \o T) = n + 2
        /\ (<<h, g>> \o T)[1] = h /\ (<<h, g>> \o T)[2] = g
    BY <2>1, <2>2, <2>3
  <2>6. \A k \in 3..n + 2 : (<<h, g>> \o T)[k] = s[k - 1]
    BY <2>1, <2>3, <2>4
  <2>7. <<h, g>> \o T # <<>>
    BY <2>1, <2>5
  <2>8. n + 2 = Len(s) + 1
    BY <1>1, <2>1
  <2> QED
    BY <2>5, <2>6, <2>7, <2>8 DEF T
<1> QED
  BY <1>1, <1>2, <1>3

(* What each action does to the top of the stack.                           *)
LEMMA TopIs ==
  ASSUME LaunchTypes, stack # <<>>
  PROVE  /\ Top \in Frames /\ stack \in Seq(Frames)
         /\ Len(stack) \in Nat \ {0}
         /\ Len(Below) = Len(stack) - 1 /\ Below \in Seq(Frames)
         /\ \A n \in 1..Len(stack) - 1 : Below[n] = stack[n + 1]
<1>1. stack \in Seq(Frames)
  BY DEF LaunchTypes, Frames
<1> QED
  BY <1>1, Stacks DEF Top, Below

Replaced(g) == stack' = <<g>> \o Below
LEMMA ReplacedIs ==
  ASSUME LaunchTypes, stack # <<>>, NEW g \in Frames, Replaced(g)
  PROVE  /\ stack' \in Seq(Frames) /\ stack' # <<>> /\ Len(stack') = Len(stack) /\ Top' = g
         /\ stack'[1] = g
         /\ \A n \in 2..Len(stack) : stack'[n] = stack[n]
BY Stacks DEF LaunchTypes, Frames, Top, Below, Replaced

LEMMA Edited ==
  ASSUME NEW f \in Frames
  PROVE  /\ \E g \in Frames : /\ g = [f EXCEPT !.i = @ + 1]
                              /\ g.sys = f.sys /\ g.phase = f.phase /\ g.i = f.i + 1
         /\ \A p \in {"configure", "walk"} :
              \E g \in Frames : /\ g = [f EXCEPT !.phase = p]
                                /\ g.sys = f.sys /\ g.phase = p /\ g.i = f.i
<1>1. [f EXCEPT !.i = @ + 1] \in Frames
  BY DEF Frames
<1>2. /\ [f EXCEPT !.i = @ + 1].sys = f.sys /\ [f EXCEPT !.i = @ + 1].phase = f.phase
      /\ [f EXCEPT !.i = @ + 1].i = f.i + 1
  BY DEF Frames
<1>3. ASSUME NEW p \in {"configure", "walk"}
      PROVE  /\ [f EXCEPT !.phase = p] \in Frames
             /\ [f EXCEPT !.phase = p].sys = f.sys /\ [f EXCEPT !.phase = p].phase = p
             /\ [f EXCEPT !.phase = p].i = f.i
  BY DEF Frames
<1> QED
  BY <1>1, <1>2, <1>3

LEMMA FrameAt ==
  ASSUME NEW t \in Frames, NEW p \in {"include", "configure", "connect"}
  PROVE  [t EXCEPT !.phase = p, !.i = 1] \in Frames
<1>1. [t EXCEPT !.phase = p] \in Frames
  BY DEF Frames
<1>2. \A h \in Frames : [h EXCEPT !.i = 1] \in Frames
  BY DEF Frames
<1>3. [[t EXCEPT !.phase = p] EXCEPT !.i = 1] \in Frames
  BY <1>1, <1>2
<1> QED
  BY <1>3

LEMMA TopSteps ==
  ASSUME LaunchTypes, stack # <<>>
  PROVE  /\ AdvanceTop => \E g \in Frames :
              /\ Replaced(g) /\ g.sys = Top.sys /\ g.phase = Top.phase /\ g.i = Top.i + 1
         /\ \A p \in {"include", "configure", "connect"} : Phase(p) => \E g \in Frames :
              /\ Replaced(g) /\ g.sys = Top.sys /\ g.phase = p /\ g.i = 1
<1>1. Top \in Frames
  BY TopIs
<1>2. ASSUME AdvanceTop
      PROVE  \E g \in Frames :
               /\ Replaced(g) /\ g.sys = Top.sys /\ g.phase = Top.phase /\ g.i = Top.i + 1
  <2> DEFINE g == [Top EXCEPT !.i = @ + 1]
  <2>1. g \in Frames /\ g.sys = Top.sys /\ g.phase = Top.phase /\ g.i = Top.i + 1
    BY <1>1 DEF Frames
  <2>2. Replaced(g)
    BY <1>2 DEF AdvanceTop, Replaced
  <2> QED
    BY <2>1, <2>2
<1>3. ASSUME NEW p \in {"include", "configure", "connect"}, Phase(p)
      PROVE  \E g \in Frames : Replaced(g) /\ g.sys = Top.sys /\ g.phase = p /\ g.i = 1
  <2> DEFINE g == [Top EXCEPT !.phase = p, !.i = 1]
  <2>1. PICK t \in Frames : t = Top
    BY <1>1
  <2>2. g \in Frames
    <3>1. [t EXCEPT !.phase = p, !.i = 1] \in Frames
      BY FrameAt
    <3> QED
      BY <2>1, <3>1
  <2>3. g.sys = Top.sys /\ g.phase = p /\ g.i = 1
    <3>1. g.sys = Top.sys
      BY <2>1 DEF Frames
    <3>2. g.phase = p
      BY <2>1 DEF Frames
    <3>3. g.i = 1
      BY <2>1 DEF Frames
    <3> QED
      BY <3>1, <3>2, <3>3
  <2>4. Replaced(g)
    BY <1>3 DEF Phase, Replaced
  <2> QED
    BY <2>2, <2>3, <2>4
<1> QED
  BY <1>2, <1>3

(* Every step keeps the types.                                             *)
LEMMA ConfIs ==
  ASSUME model \in Models, NEW s \in Systems
  PROVE  /\ model.confs[s] \in Seq(ConfEntries) /\ Range(model.confs[s]) \subseteq ConfEntries
         /\ model.conns[s] \in Seq(Blocks \X Blocks)
         /\ Range(model.conns[s]) \subseteq Blocks \X Blocks
         /\ model.include[s] \in Seq(Systems) /\ Range(model.include[s]) \subseteq Systems
         /\ DOMAIN model.confs[s] = 1..Len(model.confs[s]) /\ Len(model.confs[s]) \in Nat
         /\ DOMAIN model.conns[s] = 1..Len(model.conns[s]) /\ Len(model.conns[s]) \in Nat
         /\ DOMAIN model.include[s] = 1..Len(model.include[s]) /\ Len(model.include[s]) \in Nat
         /\ BlockList \subseteq Blocks
<1>1. /\ model.confs[s] \in Seq(ConfEntries) /\ model.conns[s] \in Seq(Blocks \X Blocks)
      /\ model.include[s] \in Seq(Systems)
  BY ModelsAssumption
<1>2. \A T : \A q \in Seq(T) : DOMAIN q = 1..Len(q) /\ Len(q) \in Nat /\ Range(q) \subseteq T
  BY DEF Range
<1>3. BlockList \subseteq Blocks
  <2>1. \A t \in Systems : Range(model.blocks[t]) \subseteq Blocks
    BY <1>2, ModelsAssumption
  <2> QED
    BY <2>1 DEF BlockList
<1>4. Range(model.confs[s]) \subseteq ConfEntries
  BY <1>1, <1>2
<1>5. Range(model.conns[s]) \subseteq Blocks \X Blocks
  BY <1>1, <1>2
<1>6. Range(model.include[s]) \subseteq Systems
  BY <1>1, <1>2
<1>7. /\ DOMAIN model.confs[s] = 1..Len(model.confs[s]) /\ Len(model.confs[s]) \in Nat
      /\ DOMAIN model.conns[s] = 1..Len(model.conns[s]) /\ Len(model.conns[s]) \in Nat
      /\ DOMAIN model.include[s] = 1..Len(model.include[s]) /\ Len(model.include[s]) \in Nat
  BY <1>1, <1>2
<1> QED
  BY <1>1, <1>3, <1>4, <1>5, <1>6, <1>7

LEMMA ApplyIs ==
  ASSUME NEW c \in ConfEntries, NEW s \in Systems, Apply(c, s),
         value \in [Blocks -> [Configs -> Systems \cup {NULL}]]
  PROVE  /\ value' \in [Blocks -> [Configs -> Systems \cup {NULL}]]
         /\ \A b \in Blocks : \A k \in Configs :
              value'[b][k] = IF b = c.name /\ k \in c.sets THEN s ELSE value[b][k]
<1>1. c.name \in Blocks
  BY DEF ConfEntries
<1> DEFINE row == [k \in Configs |-> IF k \in c.sets THEN s ELSE value[c.name][k]]
<1>2. value' = [value EXCEPT ![c.name] = row]
  BY <1>1 DEF Apply
<1>3. row \in [Configs -> Systems \cup {NULL}]
  <2>1. value[c.name] \in [Configs -> Systems \cup {NULL}]
    BY <1>1
  <2>2. \A k \in Configs : value[c.name][k] \in Systems \cup {NULL}
    BY <2>1
  <2> QED
    BY <2>2
<1>4. \A k \in Configs : row[k] = IF k \in c.sets THEN s ELSE value[c.name][k]
  OBVIOUS
<1> HIDE DEF row
<1> QED
  BY <1>1, <1>2, <1>3, <1>4

LEMMA ConfOfTop ==
  ASSUME LaunchTypes, model \in Models, stack # <<>>
  PROVE  /\ Top.sys \in Systems /\ Top.i \in Nat \ {0}
         /\ More => Conf \in Range(model.confs[Top.sys]) /\ Conf \in ConfEntries
                    /\ Conf.name \in Blocks /\ Top.i \in DOMAIN model.confs[Top.sys]
<1>1. Top.sys \in Systems /\ Top.i \in Nat \ {0}
  BY TopIs DEF Frames
<1>2. ASSUME More
      PROVE  /\ Conf \in Range(model.confs[Top.sys]) /\ Conf \in ConfEntries
             /\ Conf.name \in Blocks /\ Top.i \in DOMAIN model.confs[Top.sys]
  <2>1. Top.i \in DOMAIN model.confs[Top.sys]
    BY <1>1, <1>2, ConfIs DEF More
  <2>2. Conf \in Range(model.confs[Top.sys])
    BY <2>1 DEF Conf, Range
  <2>3. Conf \in ConfEntries
    BY <2>2, <1>1, ConfIs
  <2> QED
    BY <2>1, <2>2, <2>3 DEF ConfEntries
<1> QED
  BY <1>1, <1>2

LEMMA TypesStep ==
  ASSUME LaunchTypes, model \in Models, result = "running" => stack # <<>>, LaunchNext
  PROVE  LaunchTypes'
<1>1. CASE CreateBlocks
  <2>1. created' \subseteq Blocks
    BY <1>1, ConfIs, ModelsAssumption DEF CreateBlocks
  <2>2. Frame(Root) \in Frames
    BY ModelsAssumption DEF Frame, Frames
  <2>3. stack' \in Seq(Frames)
    BY <1>1, <2>2 DEF CreateBlocks
  <2> QED
    BY <1>1, <2>1, <2>3 DEF CreateBlocks, LaunchTypes, Frames
<1>2. CASE Preproc
  <2>1. stack # <<>>
    BY <1>2 DEF Preproc, At
  <2>2. stack' \in Seq(Frames) /\ result' \in {"running", "aborted"}
    <3>1. CASE Phase("include") /\ UNCHANGED result
      BY <1>2, <2>1, <3>1, TopSteps, ReplacedIs DEF Preproc, At
    <3>2. CASE Abort
      BY <3>2, <2>1, TopIs DEF Abort
    <3> QED
      BY <1>2, <3>1, <3>2 DEF Preproc
  <2> QED
    BY <1>2, <2>2 DEF Preproc, LaunchTypes, Frames
<1>3. CASE IncludeNext
  <2>1. stack # <<>>
    BY <1>3 DEF IncludeNext, At
  <2>2. stack' \in Seq(Frames)
    <3>1. CASE Top.i <= Len(model.include[Top.sys])
      <4> DEFINE g == [Top EXCEPT !.i = @ + 1]
                 h == Frame(model.include[Top.sys][Top.i])
      <4>1. g \in Frames
        <5>1. \A f \in Frames : [f EXCEPT !.i = @ + 1] \in Frames
          BY DEF Frames
        <5> QED
          BY <2>1, <5>1, TopIs
      <4>2. model.include[Top.sys][Top.i] \in Systems
        BY <2>1, <3>1, ConfIs, ConfOfTop
      <4>3. h \in Frames
        BY <4>2 DEF Frames, Frame
      <4>4. stack' = <<h, g>> \o Tail(stack)
        BY <1>3, <3>1 DEF IncludeNext, Below
      <4> HIDE DEF g, h
      <4> QED
        BY <2>1, <4>1, <4>3, <4>4, Stacks, TopIs
    <3>2. CASE ~(Top.i <= Len(model.include[Top.sys]))
      BY <1>3, <2>1, <3>2, TopSteps, ReplacedIs DEF IncludeNext
    <3> QED
      BY <3>1, <3>2
  <2> QED
    BY <1>3, <2>2 DEF IncludeNext, LaunchTypes, Frames
<1>4. CASE Configure
  <2>1. stack # <<>>
    BY <1>4 DEF Configure, At
  <2>2. /\ Top.sys \in Systems /\ Conf \in ConfEntries /\ Conf.name \in Blocks
        /\ Parent(Top.sys) \in Systems \cup {NULL}
    BY <1>4, <2>1, ConfOfTop, ParentOf DEF Configure
  <2>3. UNCHANGED <<created, bstate, inited, conns, finished>>
    BY <1>4 DEF Configure
  <2>4. CASE Abort /\ UNCHANGED <<value, walker, pos>>
    <3>1. stack' = stack /\ result' = "aborted"
      BY <2>4 DEF Abort
    <3> QED
      BY <2>3, <2>4, <3>1 DEF LaunchTypes
  <2>5. CASE AdvanceTop /\ UNCHANGED <<value, walker, pos, result>>
    <3>1. stack' \in Seq(Frames)
      BY <2>1, <2>5, TopSteps, ReplacedIs
    <3> QED
      BY <2>3, <2>5, <3>1 DEF LaunchTypes, Frames
  <2>6. CASE /\ Apply(Conf, Top.sys)
             /\ stack' = <<[Top EXCEPT !.phase = "walk"]>> \o Below
             /\ walker' = Parent(Top.sys) /\ pos' = 1
             /\ UNCHANGED result
    <3> DEFINE g == [Top EXCEPT !.phase = "walk"]
    <3>1. g \in Frames
      BY <2>1, TopIs DEF Frames
    <3>2. Replaced(g)
      BY <2>6 DEF Replaced
    <3> HIDE DEF g
    <3>3. stack' \in Seq(Frames)
      BY <2>1, <3>1, <3>2, ReplacedIs
    <3>4. value' \in [Blocks -> [Configs -> Systems \cup {NULL}]]
      BY <2>2, <2>6, ApplyIs DEF LaunchTypes
    <3> QED
      BY <2>2, <2>3, <2>6, <3>3, <3>4 DEF LaunchTypes, Frames
  <2> QED
    BY <1>4, <2>4, <2>5, <2>6 DEF Configure
<1>5. CASE WalkEntry
  <2> DEFINE cc == model.confs[walker][pos]
  <2>1. walker \in Systems /\ pos \in Nat \ {0} /\ pos' = pos + 1
    BY <1>5 DEF WalkEntry, LaunchTypes
  <2>2. cc \in ConfEntries
    BY <1>5, <2>1, ConfIs DEF WalkEntry
  <2>3. Apply(cc, walker) \/ UNCHANGED value
    BY <1>5 DEF WalkEntry
  <2>4. value' \in [Blocks -> [Configs -> Systems \cup {NULL}]]
    BY <2>1, <2>2, <2>3, ApplyIs DEF LaunchTypes
  <2> QED
    BY <1>5, <2>1, <2>4 DEF WalkEntry, LaunchTypes
<1>6. CASE WalkUp
  <2>1. walker' \in Systems \cup {NULL} /\ pos' = 1
    BY <1>6, ParentOf DEF WalkUp, LaunchTypes
  <2> QED
    BY <1>6, <2>1 DEF WalkUp, LaunchTypes
<1>7. CASE InitBlock
  <2>1. stack # <<>>
    BY <1>7 DEF InitBlock, At
  <2> DEFINE h == [Top EXCEPT !.phase = "configure"]
             g == [Top EXCEPT !.phase = "configure", !.i = @ + 1]
  <2>2. g \in Frames
    <3>1. h \in Frames
      BY <2>1, TopIs DEF Frames
    <3>2. \A f \in Frames : [f EXCEPT !.i = @ + 1] \in Frames
      BY DEF Frames
    <3>3. [h EXCEPT !.i = @ + 1] \in Frames
      BY <3>1, <3>2
    <3> QED
      BY <3>3
  <2>3. Replaced(g)
    BY <1>7 DEF InitBlock, Replaced
  <2>4. stack' \in Seq(Frames)
    <3> HIDE DEF g
    <3> QED
      BY <2>1, <2>2, <2>3, ReplacedIs
  <2>5. Top.sys \in Systems
    BY <2>1, ConfOfTop
  <2>6. /\ bstate' \in [Blocks -> {"preinit", "inactive"}]
        /\ inited' \in [Blocks -> Systems \cup {NULL}]
    BY <1>7, <2>5 DEF InitBlock, LaunchTypes
  <2> QED
    BY <1>7, <2>4, <2>6 DEF InitBlock, LaunchTypes, Frames
<1>8. CASE EndConfigure
  <2>1. stack # <<>>
    BY <1>8 DEF EndConfigure, At
  <2>2. stack' \in Seq(Frames)
    BY <1>8, <2>1, TopSteps, ReplacedIs DEF EndConfigure
  <2> QED
    BY <1>8, <2>2 DEF EndConfigure, LaunchTypes, Frames
<1>9. CASE MakeConnection
  <2>1. stack # <<>>
    BY <1>9 DEF MakeConnection, At
  <2> DEFINE c == model.conns[Top.sys][Top.i]
  <2>2. c \in Blocks \X Blocks
    BY <1>9, <2>1, ConfIs, ConfOfTop DEF MakeConnection
  <2>3. UNCHANGED <<created, bstate, value, inited, walker, pos, finished>>
    BY <1>9 DEF MakeConnection
  <2>4. CASE AdvanceTop /\ conns' = conns \cup {c} /\ UNCHANGED result
    <3>1. stack' \in Seq(Frames)
      BY <2>1, <2>4, TopSteps, ReplacedIs
    <3>2. conns' \subseteq Blocks \X Blocks
      BY <2>2, <2>4 DEF LaunchTypes
    <3> QED
      BY <2>3, <2>4, <3>1, <3>2 DEF LaunchTypes, Frames
  <2>5. CASE Abort /\ UNCHANGED conns
    <3>1. stack' = stack /\ result' = "aborted"
      BY <2>5 DEF Abort
    <3> QED
      BY <2>3, <2>5, <3>1 DEF LaunchTypes
  <2> QED
    BY <1>9, <2>4, <2>5 DEF MakeConnection
<1>10. CASE Return
  <2>1. stack # <<>>
    BY <1>10 DEF Return, At
  <2>2. stack' \in Seq(Frames)
    BY <1>10, <2>1, TopIs DEF Return
  <2>3. finished' \subseteq Systems /\ result' \in {"running", "done"}
    BY <1>10, <2>1, ConfOfTop DEF Return, LaunchTypes, At
  <2> QED
    BY <1>10, <2>2, <2>3 DEF Return, LaunchTypes, Frames
<1> QED
  BY <1>1, <1>2, <1>3, <1>4, <1>5, <1>6, <1>7, <1>8, <1>9, <1>10 DEF LaunchNext

(* What is finished, initialised and connected stays so, and with it what  *)
(* is said of an activation.                                               *)
Grows ==
  /\ model' = model /\ finished \subseteq finished' /\ conns \subseteq conns'
  /\ \A b \in Blocks : bstate[b] # "preinit" => bstate'[b] # "preinit"
LEMMA GrowsStep ==
  ASSUME LaunchTypes, model \in Models, LaunchNext
  PROVE  Grows
<1>1. CASE InitBlock
  <2>1. \/ bstate' = bstate
        \/ bstate' = [bstate EXCEPT ![Conf.name] = "inactive"]
    BY <1>1 DEF InitBlock
  <2>2. \A b \in Blocks : bstate[b] # "preinit" => bstate'[b] # "preinit"
    BY <2>1 DEF LaunchTypes
  <2> QED
    BY <1>1, <2>2 DEF InitBlock, Grows
<1>2. CASE MakeConnection
  BY <1>2 DEF MakeConnection, Grows
<1>3. CASE Return
  BY <1>3 DEF Return, Grows
<1> QED
  BY <1>1, <1>2, <1>3
     DEF LaunchNext, Grows, CreateBlocks, Preproc, IncludeNext, Configure, WalkEntry, WalkUp,
         EndConfigure

LEMMA Settling ==
  ASSUME Grows, model \in Models
  PROVE  /\ \A c \in ConfEntries : Settled(c) => Settled(c)'
         /\ \A s \in Systems : Configured(s) => Configured(s)'
<1>1. ASSUME NEW c \in ConfEntries, Settled(c) PROVE Settled(c)'
  <2>1. c.name \in Blocks
    BY DEF ConfEntries
  <2> QED
    BY <1>1, <2>1 DEF Settled, Grows
<1>2. ASSUME NEW s \in Systems, Configured(s) PROVE Configured(s)'
  <2>1. \A c \in Range(model.confs[s]) : Settled(c)'
    BY <1>1, <1>2, ConfIs DEF Configured
  <2> QED
    BY <2>1 DEF Configured, Grows
<1> QED
  BY <1>1, <1>2

LEMMA Progresses ==
  ASSUME Grows, model \in Models, NEW f \in Frames, NEW n \in Int, Progress(f, n)
  PROVE  Progress(f, n)'
<1>1. f.sys \in Systems /\ model' = model
  BY DEF Frames, Grows
<1>2. f.phase = "include" =>
        \A j \in DOMAIN model.include[f.sys] : j < n => model.include[f.sys][j] \in finished'
  BY DEF Progress, Grows
<1>3. f.phase \in {"configure", "walk", "connect"} =>
        Range(model.include[f.sys]) \subseteq finished'
  BY DEF Progress, Grows
<1>4. ASSUME f.phase \in {"configure", "walk"}, NEW j \in DOMAIN model.confs[f.sys], j < f.i
      PROVE  Settled(model.confs[f.sys][j])'
  <2>1. PICK c \in ConfEntries : c = model.confs[f.sys][j]
    BY <1>1, <1>4, ConfIs
  <2>2. Settled(c)'
    BY <1>4, <2>1, Settling DEF Progress
  <2> QED
    BY <1>1, <2>1, <2>2
<1>5. f.phase = "connect" =>
        /\ Configured(f.sys)'
        /\ \A j \in DOMAIN model.conns[f.sys] : j < f.i => model.conns[f.sys][j] \in conns'
  BY <1>1, Settling DEF Progress, Grows
<1> QED
  BY <1>1, <1>2, <1>3, <1>4, <1>5 DEF Progress

(* The stack invariants when the top frame is replaced.                    *)
LEMMA ReplacedInv ==
  ASSUME LaunchTypes, model \in Models, stack # <<>>, StackInv, ProgressInv, Grows,
         NEW g \in Frames, Replaced(g), g.sys = Top.sys, Progress(g, g.i)'
  PROVE  StackInv' /\ ProgressInv'
<1>1. /\ stack' \in Seq(Frames) /\ stack' # <<>> /\ Len(stack') = Len(stack) /\ stack'[1] = g
      /\ \A n \in 2..Len(stack) : stack'[n] = stack[n]
  BY ReplacedIs
<1>2. PICK l \in Nat \ {0} : l = Len(stack) /\ l = Len(stack')
  BY <1>1, TopIs
<1>3. stack \in Seq(Frames) /\ \A n \in 1..l : stack[n] \in Frames
  <2>1. stack \in Seq(Frames)
    BY TopIs
  <2>2. \A n \in 1..Len(stack) : stack[n] \in Frames
    BY <2>1
  <2> QED
    BY <1>2, <2>1, <2>2
<1>4. StackInv'
  <2> SUFFICES ASSUME NEW n \in 1..l
               PROVE  (IF n = Len(stack) THEN stack[n].sys = Root
                                         ELSE Called(stack[n + 1], stack[n].sys))'
    BY <1>2 DEF StackInv
  <2>1. stack'[n].sys = stack[n].sys
    BY <1>1, <1>2 DEF Top
  <2>2. n # l => stack'[n + 1] = stack[n + 1]
    BY <1>1, <1>2
  <2>3. IF n = l THEN stack[n].sys = Root ELSE Called(stack[n + 1], stack[n].sys)
    BY <1>2 DEF StackInv
  <2> QED
    BY <1>2, <2>1, <2>2, <2>3 DEF Called, Grows
<1>5. ProgressInv'
  <2> SUFFICES ASSUME NEW n \in 1..l
               PROVE  Progress(stack[n], IF n = 1 THEN stack[n].i ELSE stack[n].i - 1)'
    BY <1>2 DEF ProgressInv
  <2>1. CASE n = 1
    BY <1>1, <2>1
  <2>2. CASE n # 1
    <3>1. stack'[n] = stack[n] /\ stack[n] \in Frames
      BY <1>1, <1>2, <1>3, <2>2
    <3>2. PICK f \in Frames : f = stack[n]
      BY <3>1
    <3>3. Progress(f, f.i - 1) /\ f.i - 1 \in Int
      BY <1>2, <2>2, <3>2 DEF ProgressInv, Frames
    <3>4. Progress(f, f.i - 1)'
      BY <3>3, Progresses
    <3> QED
      BY <2>2, <3>1, <3>2, <3>4
  <2> QED
    BY <2>1, <2>2
<1> QED
  BY <1>4, <1>5

LEMMA TopProgress ==
  ASSUME LaunchTypes, model \in Models, stack # <<>>, ProgressInv, Grows
  PROVE  \E f \in Frames : /\ f = Top /\ f.sys \in Systems /\ f.i \in Nat \ {0}
                           /\ Progress(f, f.i) /\ Progress(f, f.i)'
<1>1. PICK f \in Frames : f = stack[1]
  BY TopIs DEF Top
<1>2. f.sys \in Systems /\ f.i \in Nat \ {0}
  BY DEF Frames
<1>3. Progress(f, f.i)
  <2>1. 1 \in 1..Len(stack)
    BY TopIs
  <2> QED
    BY <1>1, <2>1 DEF ProgressInv
<1>4. Progress(f, f.i)'
  BY <1>2, <1>3, Progresses
<1> QED
  BY <1>1, <1>2, <1>3, <1>4 DEF Top

LEMMA AnotherSettled ==
  ASSUME Grows, model \in Models, NEW f \in Frames, NEW g \in Frames, Progress(f, f.i)',
         g.sys = f.sys, g.phase = "configure", g.i = f.i + 1,
         f.phase \in {"configure", "walk"},
         f.i \in DOMAIN model.confs[f.sys] => Settled(model.confs[f.sys][f.i])'
  PROVE  Progress(g, g.i)'
<1>1. f.sys \in Systems /\ f.i \in Nat /\ model' = model
  BY DEF Frames, Grows
<1>2. \A j \in DOMAIN model.confs[f.sys] : j < g.i => j < f.i \/ j = f.i
  BY <1>1, ConfIs
<1> QED
  BY <1>1, <1>2 DEF Progress

(* The stack invariants in each step.                                       *)
LEMMA StackStep ==
  ASSUME LaunchTypes, model \in Models, result = "running" => stack # <<>>,
         StackInv, ProgressInv, WalkInv, LaunchNext
  PROVE  StackInv' /\ ProgressInv'
<1>1. Grows
  BY GrowsStep
<1> USE <1>1
<1>2. ASSUME UNCHANGED stack PROVE StackInv' /\ ProgressInv'
  <2>1. StackInv'
    BY <1>2 DEF StackInv, Called, Grows
  <2>2. ASSUME NEW n \in 1..Len(stack)
        PROVE  Progress(stack[n], IF n = 1 THEN stack[n].i ELSE stack[n].i - 1)'
    <3>1. stack \in Seq(Frames)
      BY DEF LaunchTypes, Frames
    <3>2. PICK f \in Frames : f = stack[n]
      BY <3>1
    <3>3. PICK k \in Int : k = IF n = 1 THEN f.i ELSE f.i - 1
      BY DEF Frames
    <3>4. Progress(f, k)'
      BY <3>2, <3>3, Progresses DEF ProgressInv
    <3> QED
      BY <1>2, <3>2, <3>3, <3>4
  <2> QED
    BY <1>2, <2>1, <2>2 DEF ProgressInv
<1>3. CASE CreateBlocks
  <2> DEFINE f == Frame(Root)
  <2>1. stack' = <<f>> /\ Len(stack') = 1
    BY <1>3 DEF CreateBlocks
  <2>2. f.sys = Root /\ f.phase = "preproc"
    BY DEF Frame
  <2> HIDE DEF f
  <2>3. StackInv'
    BY <2>1, <2>2 DEF StackInv
  <2>4. Progress(f, f.i)'
    BY <2>2 DEF Progress
  <2>5. ProgressInv'
    BY <2>1, <2>4 DEF ProgressInv
  <2> QED
    BY <2>3, <2>5
<1>4. CASE Preproc
  <2>1. stack # <<>>
    BY <1>4 DEF Preproc, At
  <2>2. CASE Phase("include")
    <3>1. PICK g \in Frames : Replaced(g) /\ g.sys = Top.sys /\ g.phase = "include" /\ g.i = 1
      BY <2>1, <2>2, TopSteps
    <3>2. Progress(g, g.i)'
      <4>1. \A j \in DOMAIN model.include[g.sys] : ~(j < 1)
        BY ConfIs DEF Frames
      <4> QED
        BY <3>1, <4>1 DEF Progress, Grows
    <3> QED
      BY <2>1, <3>1, <3>2, ReplacedInv
  <2> QED
    BY <1>2, <1>4, <2>2 DEF Preproc, Abort
<1>5. CASE IncludeNext
  <2>1. stack # <<>> /\ Top.phase = "include"
    BY <1>5 DEF IncludeNext, At
  <2>2. PICK f \in Frames : /\ f = Top /\ f.sys \in Systems /\ f.i \in Nat \ {0}
                            /\ Progress(f, f.i) /\ Progress(f, f.i)'
    BY <2>1, TopProgress
  <2>3. CASE f.i <= Len(model.include[f.sys])
    <3>1. PICK g \in Frames : /\ g = [f EXCEPT !.i = @ + 1]
                              /\ g.sys = f.sys /\ g.phase = "include" /\ g.i = f.i + 1
      <4>1. PICK g \in Frames : /\ g = [f EXCEPT !.i = @ + 1]
                                /\ g.sys = f.sys /\ g.phase = f.phase /\ g.i = f.i + 1
        BY Edited
      <4> QED
        BY <2>1, <2>2, <4>1
    <3>2. f.i \in DOMAIN model.include[f.sys] /\ model.include[f.sys][f.i] \in Systems
      BY <2>2, <2>3, ConfIs
    <3>3. PICK h \in Frames : /\ h = Frame(model.include[f.sys][f.i])
                              /\ h.sys = model.include[f.sys][f.i] /\ h.phase = "preproc"
      <4> DEFINE h == Frame(model.include[f.sys][f.i])
      <4>1. h \in Frames
        BY <3>2 DEF Frames, Frame
      <4>2. h.sys = model.include[f.sys][f.i] /\ h.phase = "preproc"
        BY DEF Frame
      <4> QED
        BY <4>1, <4>2
    <3>4. stack' = <<h, g>> \o Tail(stack)
      BY <1>5, <2>2, <2>3, <3>1, <3>3 DEF IncludeNext, Below
    <3>5. PICK l \in Nat \ {0} : l = Len(stack)
      BY <2>1, TopIs
    <3>6. /\ Len(stack') = l + 1 /\ stack'[1] = h /\ stack'[2] = g
          /\ \A n \in 3..l + 1 : stack'[n] = stack[n - 1]
      BY <2>1, <3>4, <3>5, Stacks, TopIs
    <3>7. StackInv'
      <4> SUFFICES ASSUME NEW n \in 1..l + 1
                   PROVE  (IF n = Len(stack) THEN stack[n].sys = Root
                                             ELSE Called(stack[n + 1], stack[n].sys))'
        BY <3>5, <3>6 DEF StackInv
      <4>1. CASE n = 1
        <5>1. Called(g, h.sys)'
          BY <3>1, <3>2, <3>3, <2>2 DEF Called, Grows
        <5> QED
          BY <3>5, <3>6, <4>1, <5>1
      <4>2. CASE n = 2
        <5>1. IF 1 = l THEN stack[1].sys = Root ELSE Called(stack[2], stack[1].sys)
          BY <3>5 DEF StackInv
        <5>2. l # 1 => stack'[3] = stack[2]
          BY <3>5, <3>6
        <5>3. g.sys = stack[1].sys
          BY <2>2, <3>1 DEF Top
        <5>4. l = 1 => stack'[2].sys = Root
          BY <3>6, <5>1, <5>3
        <5>5. l # 1 => Called(stack[2], g.sys)
          BY <5>1, <5>3
        <5>6. l # 1 => Called(stack[3], stack[2].sys)'
          BY <3>6, <5>2, <5>5 DEF Called, Grows
        <5>7. CASE l = 1
          BY <3>6, <4>2, <5>4, <5>7
        <5>8. CASE l # 1
          <6>1. n # l + 1 /\ n + 1 = 3
            BY <4>2, <5>8
          <6> QED
            BY <3>6, <4>2, <5>6, <5>8, <6>1
        <5> QED
          BY <5>7, <5>8
      <4>3. CASE n > 2
        <5>1. n - 1 \in 1..l /\ stack'[n] = stack[n - 1] /\ n - 1 + 1 = n
          BY <3>6, <4>3
        <5>2. n # l + 1 => stack'[n + 1] = stack[n]
          <6>1. ASSUME n # l + 1 PROVE n + 1 \in 3..l + 1 /\ n + 1 - 1 = n
            BY <3>5, <4>3, <6>1
          <6> QED
            BY <3>6, <6>1
        <5>3. IF n - 1 = l THEN stack[n - 1].sys = Root ELSE Called(stack[n], stack[n - 1].sys)
          BY <3>5, <5>1 DEF StackInv
        <5>4. n = l + 1 => stack'[n].sys = Root
          BY <3>5, <5>1, <5>3
        <5>5. n # l + 1 => Called(stack[n], stack[n - 1].sys)
          BY <3>5, <5>1, <5>3
        <5>6. n # l + 1 => Called(stack[n + 1], stack[n].sys)'
          BY <5>1, <5>2, <5>5 DEF Called, Grows
        <5> QED
          BY <3>5, <3>6, <5>4, <5>6
      <4> QED
        BY <4>1, <4>2, <4>3
    <3>8. ProgressInv'
      <4> SUFFICES ASSUME NEW n \in 1..l + 1
                   PROVE  Progress(stack[n], IF n = 1 THEN stack[n].i ELSE stack[n].i - 1)'
        BY <3>5, <3>6 DEF ProgressInv
      <4>1. CASE n = 1
        <5>1. Progress(h, h.i)'
          BY <3>3 DEF Progress
        <5> QED
          BY <3>6, <4>1, <5>1
      <4>2. CASE n = 2
        <5>1. \A j \in DOMAIN model'.include[f.sys] :
                j < f.i => model'.include[f.sys][j] \in finished'
          BY <2>1, <2>2 DEF Progress
        <5>2. g.i - 1 = f.i
          BY <2>2, <3>1
        <5>3. Progress(g, g.i - 1)'
          BY <3>1, <5>1, <5>2 DEF Progress
        <5>4. stack'[n] = g /\ n # 1
          BY <3>6, <4>2
        <5> QED
          BY <5>3, <5>4
      <4>3. CASE n > 2
        <5>1. n - 1 \in 1..l /\ n - 1 # 1 /\ stack'[n] = stack[n - 1]
          BY <3>6, <4>3
        <5>2. \A k \in 1..Len(stack) : stack[k] \in Frames
          BY <2>1, TopIs
        <5>3. PICK e \in Frames : e = stack[n - 1]
          BY <3>5, <5>1, <5>2
        <5>4. Progress(e, e.i - 1) /\ e.i - 1 \in Int
          BY <3>5, <5>1, <5>3 DEF ProgressInv, Frames
        <5>5. Progress(e, e.i - 1)'
          BY <5>4, Progresses
        <5>6. stack'[n] = e /\ n # 1
          BY <4>3, <5>1, <5>3
        <5> QED
          BY <5>5, <5>6
      <4> QED
        BY <4>1, <4>2, <4>3
    <3> QED
      BY <3>7, <3>8
  <2>4. CASE ~(f.i <= Len(model.include[f.sys]))
    <3>1. PICK g \in Frames : Replaced(g) /\ g.sys = Top.sys /\ g.phase = "configure" /\ g.i = 1
      BY <1>5, <2>1, <2>2, <2>4, TopSteps DEF IncludeNext
    <3>2. Range(model.include[g.sys]) \subseteq finished
      <4>1. \A j \in DOMAIN model.include[f.sys] : j < f.i
        BY <2>2, <2>4, ConfIs
      <4> QED
        BY <2>1, <2>2, <3>1, <4>1 DEF Progress, Range
    <3>3. Progress(g, g.i)'
      <4>1. \A j \in DOMAIN model.confs[g.sys] : ~(j < 1)
        BY ConfIs DEF Frames
      <4> QED
        BY <3>1, <3>2, <4>1 DEF Progress, Grows
    <3> QED
      BY <2>1, <3>1, <3>3, ReplacedInv
  <2> QED
    BY <2>3, <2>4
<1>6. CASE Configure
  <2>1. stack # <<>> /\ Top.phase = "configure" /\ More
    BY <1>6 DEF Configure, At
  <2>2. PICK f \in Frames : /\ f = Top /\ f.sys \in Systems /\ f.i \in Nat \ {0}
                            /\ Progress(f, f.i) /\ Progress(f, f.i)'
    BY <2>1, TopProgress
  <2>3. CASE AdvanceTop /\ bstate[Conf.name] # "preinit"
    <3>1. PICK g \in Frames :
            Replaced(g) /\ g.sys = f.sys /\ g.phase = "configure" /\ g.i = f.i + 1
      BY <2>1, <2>2, <2>3, TopSteps
    <3>2. PICK c \in ConfEntries : c = model.confs[f.sys][f.i] /\ c = Conf
      BY <2>1, <2>2, ConfOfTop DEF Conf
    <3>3. Settled(c)'
      BY <2>3, <3>2, Settling DEF Settled
    <3>4. Settled(model.confs[f.sys][f.i])'
      BY <3>2, <3>3 DEF Grows
    <3>5. Progress(g, g.i)'
      BY <2>1, <2>2, <3>1, <3>4, AnotherSettled
    <3> QED
      BY <2>1, <2>2, <3>1, <3>5, ReplacedInv
  <2>4. CASE stack' = <<[Top EXCEPT !.phase = "walk"]>> \o Below
    <3>1. PICK g \in Frames : /\ g = [f EXCEPT !.phase = "walk"]
                              /\ g.sys = f.sys /\ g.phase = "walk" /\ g.i = f.i
      BY Edited
    <3>2. Replaced(g)
      BY <2>2, <2>4, <3>1 DEF Replaced
    <3>3. Progress(g, g.i)'
      BY <2>1, <2>2, <3>1 DEF Progress
    <3> QED
      BY <2>1, <2>2, <3>1, <3>2, <3>3, ReplacedInv
  <2> QED
    BY <1>2, <1>6, <2>3, <2>4 DEF Configure, Abort
<1>7. CASE InitBlock
  <2>1. stack # <<>> /\ Top.phase = "walk"
    BY <1>7 DEF InitBlock, At
  <2>2. PICK f \in Frames : /\ f = Top /\ f.sys \in Systems /\ f.i \in Nat \ {0}
                            /\ Progress(f, f.i) /\ Progress(f, f.i)'
    BY <2>1, TopProgress
  <2>3. PICK h \in Frames : /\ h = [f EXCEPT !.phase = "configure"]
                            /\ h.sys = f.sys /\ h.phase = "configure" /\ h.i = f.i
    BY Edited
  <2>4. PICK g \in Frames : /\ g = [h EXCEPT !.i = @ + 1]
                            /\ g.sys = f.sys /\ g.phase = "configure" /\ g.i = f.i + 1
    <3>1. PICK g \in Frames : /\ g = [h EXCEPT !.i = @ + 1]
                              /\ g.sys = h.sys /\ g.phase = h.phase /\ g.i = h.i + 1
      BY Edited
    <3> QED
      BY <2>3, <3>1
  <2>5. Replaced(g)
    <3>1. stack' = <<[[f EXCEPT !.phase = "configure"] EXCEPT !.i = @ + 1]>> \o Below
      BY <1>7, <2>2 DEF InitBlock
    <3> QED
      BY <2>3, <2>4, <3>1 DEF Replaced
  <2>6. More
    BY <1>7 DEF InitBlock, WalkInv
  <2>7. PICK c \in ConfEntries : c = model.confs[f.sys][f.i] /\ c = Conf
    BY <2>1, <2>2, <2>6, ConfOfTop DEF Conf
  <2>8. Settled(c)'
    BY <1>7, <2>7 DEF InitBlock, Settled, ConfEntries, LaunchTypes
  <2>9. Settled(model.confs[f.sys][f.i])'
    BY <2>7, <2>8 DEF Grows
  <2>10. Progress(g, g.i)'
    BY <2>1, <2>2, <2>4, <2>9, AnotherSettled
  <2> QED
    BY <2>1, <2>2, <2>4, <2>5, <2>10, ReplacedInv
<1>8. CASE EndConfigure
  <2>1. stack # <<>> /\ Top.phase = "configure" /\ ~More
    BY <1>8 DEF EndConfigure, At
  <2>2. PICK f \in Frames : /\ f = Top /\ f.sys \in Systems /\ f.i \in Nat \ {0}
                            /\ Progress(f, f.i) /\ Progress(f, f.i)'
    BY <2>1, TopProgress
  <2>3. PICK g \in Frames : Replaced(g) /\ g.sys = f.sys /\ g.phase = "connect" /\ g.i = 1
    BY <1>8, <2>1, <2>2, TopSteps DEF EndConfigure
  <2>4. \A j \in DOMAIN model.confs[f.sys] : j < f.i
    BY <2>1, <2>2, ConfIs DEF More
  <2>5. Configured(f.sys)
    BY <2>1, <2>2, <2>4 DEF Progress, Configured, Range
  <2>6. Configured(f.sys)'
    BY <2>2, <2>5, Settling
  <2>7. \A j \in DOMAIN model.conns[f.sys] : ~(j < 1)
    BY <2>2, ConfIs
  <2>8. Progress(g, g.i)'
    BY <2>1, <2>2, <2>3, <2>6, <2>7 DEF Progress, Grows
  <2> QED
    BY <2>1, <2>2, <2>3, <2>8, ReplacedInv
<1>9. CASE MakeConnection
  <2>1. stack # <<>> /\ Top.phase = "connect"
    BY <1>9 DEF MakeConnection, At
  <2>2. PICK f \in Frames : /\ f = Top /\ f.sys \in Systems /\ f.i \in Nat \ {0}
                            /\ Progress(f, f.i) /\ Progress(f, f.i)'
    BY <2>1, TopProgress
  <2>3. CASE AdvanceTop /\ conns' = conns \cup {model.conns[f.sys][f.i]}
    <3>1. PICK g \in Frames :
            Replaced(g) /\ g.sys = f.sys /\ g.phase = "connect" /\ g.i = f.i + 1
      BY <2>1, <2>2, <2>3, TopSteps
    <3>2. \A j \in DOMAIN model.conns[f.sys] : j < g.i => j < f.i \/ j = f.i
      BY <2>2, <3>1, ConfIs
    <3>3. Progress(g, g.i)'
      BY <2>1, <2>2, <2>3, <3>1, <3>2 DEF Progress, Grows
    <3> QED
      BY <2>1, <2>2, <3>1, <3>3, ReplacedInv
  <2> QED
    BY <1>2, <1>9, <2>2, <2>3 DEF MakeConnection, Abort
<1>10. CASE Return
  <2>1. stack # <<>> /\ stack' = Below
    BY <1>10 DEF Return, At
  <2>2. PICK l \in Nat \ {0} : l = Len(stack)
    BY <2>1, TopIs
  <2>3. /\ Len(stack') = l - 1 /\ \A n \in 1..l - 1 : stack'[n] = stack[n + 1]
        /\ \A n \in 1..l : stack[n] \in Frames
    <3>1. stack \in Seq(Frames)
      BY <2>1, TopIs
    <3>2. \A n \in 1..Len(stack) : stack[n] \in Frames
      BY <3>1
    <3> QED
      BY <2>1, <2>2, <3>2, TopIs
  <2>4. StackInv'
    <3> SUFFICES ASSUME NEW n \in 1..l - 1
                 PROVE  (IF n = Len(stack) THEN stack[n].sys = Root
                                           ELSE Called(stack[n + 1], stack[n].sys))'
      BY <2>2, <2>3 DEF StackInv
    <3>1. n + 1 \in 1..l /\ n + 1 + 1 = n + 2 /\ stack'[n] = stack[n + 1]
      BY <2>2, <2>3
    <3>2. n # l - 1 => stack'[n + 1] = stack[n + 2]
      BY <2>2, <2>3
    <3>3. IF n + 1 = l THEN stack[n + 1].sys = Root ELSE Called(stack[n + 2], stack[n + 1].sys)
      BY <2>2, <3>1 DEF StackInv
    <3>4. n = l - 1 => stack'[n].sys = Root
      BY <2>2, <3>1, <3>3
    <3>5. n # l - 1 => Called(stack[n + 2], stack[n + 1].sys)
      BY <2>2, <3>1, <3>3
    <3>6. n # l - 1 => Called(stack[n + 1], stack[n].sys)'
      BY <3>1, <3>2, <3>5 DEF Called, Grows
    <3> QED
      BY <2>2, <2>3, <3>4, <3>6
  <2>5. ProgressInv'
    <3> SUFFICES ASSUME NEW n \in 1..l - 1
                 PROVE  Progress(stack[n], IF n = 1 THEN stack[n].i ELSE stack[n].i - 1)'
      BY <2>2, <2>3 DEF ProgressInv
    <3>1. n + 1 \in 1..l /\ n + 1 # 1 /\ stack'[n] = stack[n + 1]
      BY <2>2, <2>3
    <3>2. PICK e \in Frames : e = stack[n + 1]
      BY <2>3, <3>1
    <3>3. Progress(e, e.i - 1) /\ e.i - 1 \in Int /\ e.i \in Nat
      BY <2>2, <3>1, <3>2 DEF ProgressInv, Frames
    <3>4. Progress(e, e.i - 1)'
      BY <3>3, Progresses
    <3>5. CASE n = 1
      <4>1. Called(stack[2], stack[1].sys)
        BY <2>2, <3>5 DEF StackInv
      <4>2. e.phase = "include" /\ model.include[e.sys][e.i - 1] \in finished'
        BY <1>10, <3>2, <3>5, <4>1 DEF Called, Return, Top
      <4>3. \A j \in DOMAIN model.include[e.sys] : j < e.i => j < e.i - 1 \/ j = e.i - 1
        BY <3>3, ConfIs DEF Frames
      <4>4. Progress(e, e.i)'
        BY <3>4, <4>2, <4>3 DEF Progress, Grows
      <4> QED
        BY <3>1, <3>2, <3>5, <4>4
    <3>6. CASE n # 1
      BY <3>1, <3>2, <3>4, <3>6
    <3> QED
      BY <3>5, <3>6
  <2> QED
    BY <2>4, <2>5
<1>11. CASE WalkEntry \/ WalkUp
  BY <1>2, <1>11 DEF WalkEntry, WalkUp
<1> QED
  BY <1>3, <1>4, <1>5, <1>6, <1>7, <1>8, <1>9, <1>10, <1>11 DEF LaunchNext

(* What returns has done all of its own.                                   *)
LEMMA FinishedStep ==
  ASSUME LaunchTypes, model \in Models, result = "running" => stack # <<>>,
         ProgressInv, FinishedInv, LaunchNext
  PROVE  FinishedInv'
<1>1. Grows
  BY GrowsStep
<1>2. ASSUME NEW s \in finished
      PROVE  (/\ Range(model.include[s]) \subseteq finished
              /\ Configured(s)
              /\ Range(model.conns[s]) \subseteq conns)'
  <2>1. s \in Systems
    BY DEF LaunchTypes
  <2>2. Configured(s)'
    BY <1>1, <2>1, Settling DEF FinishedInv
  <2> QED
    BY <1>1, <2>2 DEF FinishedInv, Grows
<1>3. CASE finished' = finished
  BY <1>2, <1>3 DEF FinishedInv
<1>4. CASE Return
  <2>1. stack # <<>> /\ Top.phase = "connect"
    BY <1>4 DEF Return, At
  <2>2. PICK f \in Frames : /\ f = Top /\ f.sys \in Systems /\ f.i \in Nat \ {0}
                            /\ Progress(f, f.i) /\ Progress(f, f.i)'
    BY <1>1, <2>1, TopProgress
  <2>3. finished' = finished \cup {f.sys} /\ conns' = conns
    BY <1>4, <2>2 DEF Return
  <2>4. Configured(f.sys)' /\ Range(model.include[f.sys])' \subseteq finished'
    BY <2>1, <2>2 DEF Progress
  <2>5. Range(model.conns[f.sys]) \subseteq conns
    <3>1. \A j \in DOMAIN model.conns[f.sys] : j < f.i
      BY <1>4, <2>2, ConfIs DEF Return
    <3> QED
      BY <2>1, <2>2, <3>1 DEF Progress, Range
  <2>6. (Range(model.conns[f.sys]) \subseteq conns)'
    BY <1>1, <2>3, <2>5 DEF Grows
  <2> QED
    BY <1>2, <2>3, <2>4, <2>6 DEF FinishedInv
<1> QED
  BY <1>3, <1>4
     DEF LaunchNext, CreateBlocks, Preproc, IncludeNext, Configure, WalkEntry, WalkUp,
         InitBlock, EndConfigure, MakeConnection

-----------------------------------------------------------------------------
(* The walk through the super-systems.                                      *)
LEMMA WalkBegins ==
  ASSUME LaunchTypes, model \in Models, result = "running" => stack # <<>>,
         Configure, ~Abort, ~AdvanceTop
  PROVE  WalkInv'
<1>1. stack # <<>> /\ Top.phase = "configure" /\ More
  BY DEF Configure, At
<1>2. /\ bstate[Conf.name] = "preinit" /\ bstate' = bstate
      /\ stack' = <<[Top EXCEPT !.phase = "walk"]>> \o Below
      /\ walker' = Parent(Top.sys) /\ pos' = 1 /\ model' = model
  BY DEF Configure
<1>3. PICK f \in Frames : f = Top /\ f.sys \in Systems
  BY <1>1, TopIs DEF Frames
<1>4. PICK g \in Frames : /\ g = [f EXCEPT !.phase = "walk"]
                          /\ g.sys = f.sys /\ g.phase = "walk" /\ g.i = f.i
  BY Edited
<1>5. Top' = g
  BY <1>1, <1>2, <1>3, <1>4, ReplacedIs DEF Replaced
<1>6. More' /\ Conf' = Conf
  BY <1>1, <1>2, <1>3, <1>4, <1>5 DEF More, Conf
<1>7. Around' = Around
  BY <1>2, SameModel
<1>8. Around[f.sys] = IF walker' = NULL THEN {} ELSE {walker'} \cup Around[walker']
  BY <1>2, <1>3, AroundIs
<1>9. Walked' = {}
  BY <1>3, <1>4, <1>5, <1>7, <1>8 DEF Walked
<1>10. walker' # NULL => walker' \in Around'[Top'.sys]
  BY <1>3, <1>4, <1>5, <1>7, <1>8
<1>11. ASSUME NEW b, NEW k PROVE Heard(b, k)' = IF k \in Conf.sets THEN {f.sys} ELSE {}
  <2>1. ASSUME walker' # NULL PROVE \A j \in DOMAIN model'.confs[walker'] : ~(j < pos')
    BY <1>2, <1>3, <2>1, ParentOf, ConfIs
  <2>2. NULL \notin Around'[Top'.sys]
    <3>1. NULL \notin Systems /\ Around[f.sys] \subseteq Systems
      BY <1>3, AroundIs, ModelsAssumption
    <3> QED
      BY <1>3, <1>4, <1>5, <1>7, <3>1
  <2>3. {p \in Around'[Top'.sys] : p = walker' /\ SetSoFar(b, k)'} = {}
    BY <2>1, <2>2 DEF SetSoFar
  <2>4. {p \in Walked' : SetBy(p, b, k)'} = {}
    BY <1>9
  <2>5. {p \in {Top'.sys} : k \in Conf'.sets} = IF k \in Conf.sets THEN {f.sys} ELSE {}
    BY <1>4, <1>5, <1>6
  <2> QED
    BY <2>3, <2>4, <2>5 DEF Heard
<1>12. PICK c \in ConfEntries : c = Conf /\ c.name \in Blocks
  BY <1>1, ConfOfTop
<1>13. ASSUME NEW k \in Configs, k \in c.sets PROVE value'[c.name][k] = f.sys
  <2>1. Apply(c, f.sys)
    BY <1>3, <1>12 DEF Configure
  <2> QED
    BY <1>3, <1>12, <1>13, <2>1, ApplyIs DEF LaunchTypes
<1>14. \A k \in Configs : Outermost(value[Conf.name][k], Heard(Conf.name, k))'
  BY <1>6, <1>11, <1>12, <1>13 DEF Outermost
<1> QED
  BY <1>2, <1>6, <1>9, <1>10, <1>14 DEF WalkInv

LEMMA WalkGoesOn ==
  ASSUME LaunchTypes, model \in Models, result = "running" => stack # <<>>,
         WalkInv, WalkEntry
  PROVE  WalkInv'
<1>1. stack # <<>> /\ Top.phase = "walk" /\ At("walk") /\ More /\ bstate[Conf.name] = "preinit"
  BY DEF WalkEntry, At, WalkInv
<1>2. /\ UNCHANGED <<model, bstate, stack, walker>> /\ pos' = pos + 1 /\ pos \in Nat \ {0}
      /\ walker \in Around[Top.sys] /\ \A p \in Walked : walker \in Around[p]
  BY <1>1 DEF WalkEntry, WalkInv, LaunchTypes
<1>3. Around' = Around /\ \A p, b, k : SetBy(p, b, k)' <=> SetBy(p, b, k)
  BY <1>2, SameModel
<1>4. Top' = Top /\ (More' <=> More) /\ Conf' = Conf /\ Walked' = Walked
  BY <1>2, <1>3 DEF Top, More, Conf, Walked
<1>5. PICK w \in Systems, cc \in ConfEntries : w = walker /\ cc = model.confs[walker][pos]
  BY <1>2, ConfIs DEF WalkEntry, LaunchTypes
<1>6. PICK c \in ConfEntries : c = Conf /\ c.name \in Blocks
  BY <1>1, ConfOfTop
<1>7. ASSUME NEW k \in Configs
      PROVE  Outermost(value[c.name][k], Heard(c.name, k))'
  <2>1. Outermost(value[c.name][k], Heard(c.name, k))
    BY <1>1, <1>6, <1>7 DEF WalkInv
  <2>2. SetSoFar(c.name, k)' <=>
          SetSoFar(c.name, k) \/ (cc.name = c.name /\ k \in cc.sets)
    <3>1. pos \in DOMAIN model.confs[w]
      BY <1>2, <1>5, ConfIs DEF WalkEntry
    <3>2. \A j \in DOMAIN model.confs[w] : j < pos + 1 <=> j < pos \/ j = pos
      BY <1>2, ConfIs
    <3> QED
      BY <1>2, <1>5, <3>1, <3>2 DEF SetSoFar
  <2>3. CASE cc.name = c.name /\ k \in cc.sets
    <3>1. /\ w \in Heard(c.name, k)'
          /\ Heard(c.name, k)' \subseteq Walked \cup {w} \cup {Top.sys}
      BY <1>2, <1>3, <1>4, <1>5, <2>2, <2>3 DEF Heard
    <3>2. value'[c.name][k] = w
      BY <1>5, <1>6, <2>3, ApplyIs DEF WalkEntry, LaunchTypes
    <3> QED
      BY <1>2, <1>3, <1>5, <3>1, <3>2 DEF Outermost
  <2>4. CASE ~(cc.name = c.name /\ k \in cc.sets)
    <3>1. Heard(c.name, k)' = Heard(c.name, k)
      BY <1>2, <1>3, <1>4, <1>5, <2>2, <2>4 DEF Heard
    <3>2. value'[c.name][k] = value[c.name][k]
      <4>1. CASE Apply(cc, walker)
        BY <1>5, <1>6, <2>4, <4>1, ApplyIs DEF LaunchTypes
      <4>2. CASE UNCHANGED value
        BY <4>2
      <4> QED
        BY <1>5, <4>1, <4>2 DEF WalkEntry
    <3> QED
      BY <1>3, <2>1, <3>1, <3>2 DEF Outermost
  <2> QED
    BY <2>3, <2>4
<1>8. \A k \in Configs : Outermost(value[Conf.name][k], Heard(Conf.name, k))'
  BY <1>4, <1>6, <1>7
<1> QED
  BY <1>1, <1>2, <1>3, <1>4, <1>8 DEF WalkInv

LEMMA WalkGoesUp ==
  ASSUME LaunchTypes, model \in Models, result = "running" => stack # <<>>,
         WalkInv, WalkUp
  PROVE  WalkInv'
<1>1. stack # <<>> /\ Top.phase = "walk" /\ At("walk") /\ More /\ bstate[Conf.name] = "preinit"
  BY DEF WalkUp, At, WalkInv
<1>2. /\ UNCHANGED <<model, bstate, stack, value>> /\ pos' = 1
      /\ walker \in Systems /\ walker' = Parent(walker)
      /\ walker \in Around[Top.sys] /\ \A p \in Walked : walker \in Around[p]
  BY <1>1 DEF WalkUp, WalkInv, LaunchTypes
<1>3. Around' = Around /\ \A p, b, k : SetBy(p, b, k)' <=> SetBy(p, b, k)
  BY <1>2, SameModel
<1>4. Top' = Top /\ (More' <=> More) /\ Conf' = Conf
  BY <1>2 DEF Top, More, Conf
<1>5. PICK s \in Systems, w \in Systems : s = Top.sys /\ w = walker
  BY <1>1, <1>2, ConfOfTop
<1>6. PICK v \in Systems \cup {NULL} : v = walker' /\ v = Parent(w)
  BY <1>2, <1>5, ParentOf
<1>7. /\ Around[w] = IF v = NULL THEN {} ELSE {v} \cup Around[v]
      /\ w \in Around[s] /\ w \notin Around[w] /\ Around[w] \subseteq Around[s]
      /\ Around[s] \subseteq Systems /\ NULL \notin Systems
  BY <1>2, <1>5, <1>6, AroundIs, AroundTree, ModelsAssumption
<1>8. Walked' = Walked \cup {w}
  <2>1. Walked = Around[s] \ ({w} \cup Around[w])
    BY <1>5, <1>7 DEF Walked
  <2>2. Walked' = Around[s] \ Around[w]
    BY <1>3, <1>4, <1>5, <1>6, <1>7 DEF Walked
  <2> QED
    BY <1>7, <2>1, <2>2
<1>9. ASSUME v # NULL PROVE v \in Around[s] /\ \A p \in Walked' : v \in Around[p]
  <2>1. v \in Around[w]
    BY <1>7, <1>9
  <2>2. \A p \in Walked : p \in Systems /\ Around[w] \subseteq Around[p]
    BY <1>2, <1>5, <1>7, AroundTree DEF Walked
  <2> QED
    BY <1>7, <1>8, <2>1, <2>2
<1>10. ASSUME NEW b, NEW k PROVE Heard(b, k)' = Heard(b, k)
  <2>1. SetSoFar(b, k) <=> SetBy(w, b, k)
    <3>1. \A j \in DOMAIN model.confs[w] : j < pos
      BY <1>5, ConfIs DEF WalkUp, LaunchTypes
    <3> QED
      BY <1>5, <3>1 DEF SetSoFar, SetBy, Range
  <2>2. ASSUME v # NULL PROVE ~SetSoFar(b, k)'
    BY <1>2, <1>6, <2>2, ConfIs DEF SetSoFar
  <2> DEFINE Own == {p \in {Top.sys} : k \in Conf.sets}
  <2>3. Heard(b, k) = {p \in Walked \cup {w} : SetBy(p, b, k)} \cup Own
    BY <1>5, <1>7, <2>1 DEF Heard
  <2>4. Heard(b, k)' = {p \in Walked \cup {w} : SetBy(p, b, k)} \cup Own
    <3>1. {p \in Around[s] : p = v /\ SetSoFar(b, k)'} = {}
      BY <1>7, <2>2
    <3> QED
      BY <1>3, <1>4, <1>5, <1>6, <1>8, <3>1 DEF Heard
  <2> QED
    BY <2>3, <2>4
<1>11. \A k \in Configs : Outermost(value[Conf.name][k], Heard(Conf.name, k))'
  <2>1. \A k \in Configs : Outermost(value[Conf.name][k], Heard(Conf.name, k))
    BY <1>1 DEF WalkInv
  <2> QED
    BY <1>2, <1>3, <1>4, <1>10, <2>1 DEF Outermost
<1> QED
  BY <1>1, <1>2, <1>3, <1>4, <1>5, <1>6, <1>9, <1>11 DEF WalkInv

LEMMA WalkStep ==
  ASSUME LaunchTypes, model \in Models, result = "running" => stack # <<>>,
         StackInv, WalkInv, LaunchNext
  PROVE  WalkInv'
<1>1. ASSUME result' # "running" \/ Top'.phase # "walk" PROVE WalkInv'
  BY <1>1 DEF WalkInv, At
<1>2. CASE CreateBlocks
  <2>1. Top' = Frame(Root)
    BY <1>2 DEF CreateBlocks, Top
  <2> QED
    BY <1>1, <2>1 DEF Frame
<1>3. ASSUME stack # <<>>, NEW p \in {"include", "configure", "connect"}, Phase(p)
      PROVE  Top'.phase # "walk"
  BY <1>3, TopSteps, ReplacedIs
<1>4. ASSUME stack # <<>>, AdvanceTop, Top.phase # "walk"
      PROVE  Top'.phase # "walk"
  BY <1>4, TopSteps, ReplacedIs
<1>5. CASE Preproc
  <2>1. stack # <<>>
    BY <1>5 DEF Preproc, At
  <2> QED
    BY <1>1, <1>3, <1>5, <2>1 DEF Preproc, Abort
<1>6. CASE IncludeNext
  <2>1. stack # <<>>
    BY <1>6 DEF IncludeNext, At
  <2>2. CASE Top.i <= Len(model.include[Top.sys])
    <3>1. PICK g \in Frames : g = [Top EXCEPT !.i = @ + 1]
      BY <2>1, TopIs, Edited
    <3>2. model.include[Top.sys][Top.i] \in Systems
      BY <2>1, <2>2, ConfIs, ConfOfTop
    <3>3. PICK h \in Frames : h = Frame(model.include[Top.sys][Top.i]) /\ h.phase = "preproc"
      <4> DEFINE h == Frame(model.include[Top.sys][Top.i])
      <4>1. h \in Frames /\ h.phase = "preproc"
        BY <3>2 DEF Frames, Frame
      <4> QED
        BY <4>1
    <3>4. stack' = <<h, g>> \o Tail(stack)
      BY <1>6, <2>2, <3>1, <3>3 DEF IncludeNext, Below
    <3>5. Top' = h
      BY <2>1, <3>4, Stacks, TopIs DEF Top
    <3> QED
      BY <1>1, <3>3, <3>5
  <2>3. CASE ~(Top.i <= Len(model.include[Top.sys]))
    BY <1>1, <1>3, <1>6, <2>1, <2>3 DEF IncludeNext
  <2> QED
    BY <2>2, <2>3
<1>7. CASE Configure
  <2>1. stack # <<>> /\ Top.phase = "configure"
    BY <1>7 DEF Configure, At
  <2>2. CASE Abort
    BY <1>1, <2>2 DEF Abort
  <2>3. CASE AdvanceTop
    BY <1>1, <1>4, <2>1, <2>3
  <2> QED
    BY <1>7, <2>2, <2>3, WalkBegins
<1>8. CASE InitBlock
  <2>1. stack # <<>>
    BY <1>8 DEF InitBlock, At
  <2>2. PICK f \in Frames : f = Top
    BY <2>1, TopIs
  <2>3. PICK h \in Frames : h = [f EXCEPT !.phase = "configure"] /\ h.phase = "configure"
    BY Edited
  <2>4. PICK g \in Frames : g = [h EXCEPT !.i = @ + 1] /\ g.phase = h.phase
    BY Edited
  <2>5. Replaced(g)
    <3>1. stack' = <<[[f EXCEPT !.phase = "configure"] EXCEPT !.i = @ + 1]>> \o Below
      BY <1>8, <2>2 DEF InitBlock
    <3> QED
      BY <2>3, <2>4, <3>1 DEF Replaced
  <2>6. Top' = g
    BY <2>1, <2>5, ReplacedIs
  <2> QED
    BY <1>1, <2>3, <2>4, <2>6
<1>9. CASE EndConfigure
  <2>1. stack # <<>>
    BY <1>9 DEF EndConfigure, At
  <2> QED
    BY <1>1, <1>3, <1>9, <2>1 DEF EndConfigure
<1>10. CASE MakeConnection
  <2>1. stack # <<>> /\ Top.phase = "connect"
    BY <1>10 DEF MakeConnection, At
  <2> QED
    BY <1>1, <1>4, <1>10, <2>1 DEF MakeConnection, Abort
<1>11. CASE Return
  <2>1. stack # <<>> /\ stack' = Below /\ Len(stack) \in Nat \ {0}
    BY <1>11, TopIs DEF Return, At
  <2>2. CASE Len(stack) = 1
    <3>1. Below = <<>>
      BY <2>1, <2>2, TopIs
    <3> QED
      BY <1>1, <1>11, <3>1 DEF Return
  <2>3. CASE Len(stack) # 1
    <3>1. Top' = stack[2]
      BY <2>1, <2>3, TopIs DEF Top
    <3>2. 1 \in 1..Len(stack)
      BY <2>1
    <3>3. Called(stack[2], stack[1].sys)
      <4>1. IF 1 = Len(stack) THEN stack[1].sys = Root ELSE Called(stack[1 + 1], stack[1].sys)
        BY <3>2 DEF StackInv
      <4> QED
        BY <2>3, <4>1
    <3> QED
      BY <1>1, <3>1, <3>3 DEF Called
  <2> QED
    BY <2>2, <2>3
<1> QED
  BY <1>2, <1>5, <1>6, <1>7, <1>8, <1>9, <1>10, <1>11, WalkGoesOn, WalkGoesUp DEF LaunchNext

(* The entry at work is the first one of its system for the block.          *)
LEMMA FirstIsConf ==
  ASSUME LaunchTypes, model \in Models, stack # <<>>, ProgressInv, WalkInv, At("walk"),
         Conf.name \notin model.broken, NEW k
  PROVE  SetFirst(Top.sys, Conf.name, k) <=> k \in Conf.sets
<1>1. PICK f \in Frames : f = Top /\ f.sys \in Systems /\ f.i \in Nat \ {0}
  BY TopIs DEF Frames
<1>2. Progress(f, f.i)
  <2>1. 1 \in 1..Len(stack) /\ f = stack[1]
    BY <1>1, TopIs DEF Top
  <2> QED
    BY <2>1 DEF ProgressInv
<1>3. /\ DOMAIN model.confs[f.sys] \subseteq Nat
      /\ f.i \in DOMAIN model.confs[f.sys] /\ Conf = model.confs[f.sys][f.i]
  BY <1>1, ConfIs, ConfOfTop DEF WalkInv, Conf
<1>4. \A j \in DOMAIN model.confs[f.sys] :
        j < f.i => model.confs[f.sys][j].name # Conf.name
  BY <1>1, <1>2 DEF Progress, At, WalkInv, Settled
<1>5. ASSUME SetFirst(f.sys, Conf.name, k) PROVE k \in Conf.sets
  <2>1. PICK j \in DOMAIN model.confs[f.sys] :
          /\ model.confs[f.sys][j].name = Conf.name /\ k \in model.confs[f.sys][j].sets
          /\ \A i \in DOMAIN model.confs[f.sys] : i < j => model.confs[f.sys][i].name # Conf.name
    BY <1>5 DEF SetFirst
  <2>2. j = f.i
    BY <1>1, <1>3, <1>4, <2>1
  <2> QED
    BY <1>3, <2>1, <2>2
<1> QED
  BY <1>1, <1>3, <1>4, <1>5 DEF SetFirst

(* What an initialised block holds.                                         *)
LEMMA OutermostStep ==
  ASSUME LaunchTypes, model \in Models, result = "running" => stack # <<>>,
         ProgressInv, WalkInv, OutermostWins, LaunchNext
  PROVE  OutermostWins'
<1> DEFINE Holds(b) == \A k \in Configs : Outermost(value[b][k], Setters(inited[b], b, k))
<1>1. model' = model /\ Around' = Around /\ \A p, b, k : SetBy(p, b, k)' <=> SetBy(p, b, k)
  BY GrowsStep, SameModel DEF Grows
<1>2. \A s, b, k : Setters(s, b, k)' = Setters(s, b, k)
  BY <1>1 DEF Setters, SetFirst
<1>3. \A v, P : Outermost(v, P)' <=> Outermost(v, P)
  BY <1>1 DEF Outermost
<1>4. \A b \in Blocks : bstate[b] # "preinit" => Holds(b)
  BY DEF OutermostWins, Outermost
<1>5. SUFFICES ASSUME NEW b \in Blocks, bstate'[b] # "preinit" PROVE Holds(b)'
  BY DEF OutermostWins, Outermost
<1>6. ASSUME bstate[b] # "preinit", inited'[b] = inited[b],
             \A k \in Configs : value'[b][k] = value[b][k]
      PROVE  Holds(b)'
  <2>1. Holds(b)
    BY <1>4, <1>6
  <2> QED
    BY <1>2, <1>3, <1>6, <2>1
<1>7. CASE UNCHANGED <<bstate, value, inited>>
  BY <1>5, <1>6, <1>7
<1>8. CASE Configure
  <2>1. bstate' = bstate /\ inited' = inited /\ stack # <<>>
    BY <1>8 DEF Configure, At
  <2>2. CASE Apply(Conf, Top.sys) /\ bstate[Conf.name] = "preinit"
    <3>1. Conf \in ConfEntries /\ Top.sys \in Systems
      BY <1>8, <2>1, ConfOfTop DEF Configure
    <3>2. b # Conf.name
      BY <1>5, <2>1, <2>2
    <3>3. \A k \in Configs : value'[b][k] = value[b][k]
      BY <2>2, <3>1, <3>2, ApplyIs DEF LaunchTypes
    <3> QED
      BY <1>5, <1>6, <2>1, <3>3
  <2>3. CASE UNCHANGED value
    BY <1>7, <2>1, <2>3
  <2> QED
    BY <1>8, <2>2, <2>3 DEF Configure
<1>9. CASE WalkEntry
  <2>1. bstate' = bstate /\ inited' = inited /\ bstate[Conf.name] = "preinit"
    BY <1>9 DEF WalkEntry, WalkInv
  <2>2. PICK w \in Systems, cc \in ConfEntries : w = walker /\ cc = model.confs[walker][pos]
    BY <1>9, ConfIs DEF WalkEntry, LaunchTypes
  <2>3. CASE cc.name = Conf.name
    <3>1. Apply(cc, w) /\ b # cc.name
      BY <1>5, <1>9, <2>1, <2>2, <2>3 DEF WalkEntry
    <3>2. \A k \in Configs : value'[b][k] = value[b][k]
      BY <3>1, ApplyIs DEF LaunchTypes
    <3> QED
      BY <1>5, <1>6, <2>1, <3>2
  <2>4. CASE cc.name # Conf.name
    BY <1>7, <1>9, <2>1, <2>2, <2>4 DEF WalkEntry
  <2> QED
    BY <2>3, <2>4
<1>10. CASE InitBlock
  <2>1. At("walk") /\ walker = NULL /\ value' = value /\ stack # <<>>
    BY <1>10 DEF InitBlock, At
  <2>2. PICK c \in ConfEntries, s \in Systems : c = Conf /\ s = Top.sys /\ c.name \in Blocks
    BY <2>1, ConfOfTop DEF WalkInv
  <2>3. CASE UNCHANGED <<bstate, inited>>
    BY <1>7, <2>1, <2>3
  <2>4. CASE /\ c.name \notin model.broken
             /\ bstate' = [bstate EXCEPT ![c.name] = "inactive"]
             /\ inited' = [inited EXCEPT ![c.name] = s]
    <3>1. CASE b = c.name
      <4>1. inited'[b] = s
        BY <2>2, <2>4, <3>1 DEF LaunchTypes
      <4>2. ASSUME NEW k \in Configs PROVE Outermost(value[b][k], Setters(s, b, k))
        <5>1. Outermost(value[b][k], Heard(b, k))
          BY <2>1, <2>2, <3>1 DEF WalkInv
        <5>2. Around[s] \subseteq Systems /\ NULL \notin Systems
          BY AroundIs, ModelsAssumption
        <5>3. SetFirst(s, b, k) <=> k \in c.sets
          BY <2>1, <2>2, <2>4, <3>1, <1>5, FirstIsConf
        <5>4. Heard(b, k) = Setters(s, b, k)
          BY <2>1, <2>2, <5>2, <5>3 DEF Heard, Walked, Setters
        <5> QED
          BY <5>1, <5>4
      <4> QED
        BY <1>2, <1>3, <2>1, <4>1, <4>2
    <3>2. CASE b # c.name
      <4>1. bstate'[b] = bstate[b] /\ inited'[b] = inited[b]
        BY <2>2, <2>4, <3>2 DEF LaunchTypes
      <4> QED
        BY <1>5, <1>6, <2>1, <4>1
    <3> QED
      BY <3>1, <3>2
  <2> QED
    BY <1>10, <2>2, <2>3, <2>4 DEF InitBlock
<1> QED
  BY <1>7, <1>8, <1>9, <1>10
     DEF LaunchNext, CreateBlocks, Preproc, IncludeNext, WalkUp, EndConfigure, MakeConnection,
         Return

-----------------------------------------------------------------------------
(* When a system connects, the systems whose configurations should be       *)
(* through are finished: those inside it, ...                               *)
LEMMA InsideFinished ==
  ASSUME model \in Models, LaunchTypes, FinishedInv, NEW t \in Systems,
         Range(model.include[t]) \subseteq finished, NEW p \in Systems, t \in Around[p]
  PROVE  p \in finished
<1> DEFINE Bad == {q \in Systems : t \in Around[q] /\ q \notin finished}
<1>1. ASSUME Bad # {} PROVE FALSE
  <2>1. Bad \in SUBSET Systems
    OBVIOUS
  <2> HIDE DEF Bad
  <2>2. PICK q \in Bad : Parent(q) \notin Bad
    BY <1>1, <2>1, OutermostOf
  <2>3. q \in Systems /\ t \in Around[q] /\ q \notin finished
    BY <2>2 DEF Bad
  <2>4. /\ Parent(q) \in Systems /\ Around[q] = {Parent(q)} \cup Around[Parent(q)]
        /\ q \in Range(model.include[Parent(q)])
    BY <2>3, AroundIs, ParentOf
  <2>5. Parent(q) # t
    BY <2>3, <2>4
  <2>6. Parent(q) \in finished
    BY <2>2, <2>3, <2>4, <2>5 DEF Bad
  <2> QED
    BY <2>3, <2>4, <2>6 DEF FinishedInv
<1> QED
  BY <1>1

LEMMA WithinFinished ==
  ASSUME model \in Models, LaunchTypes, FinishedInv, NEW t \in finished, NEW p \in Systems,
         Within(p, t)
  PROVE  p \in finished
BY InsideFinished DEF Within, FinishedInv, LaunchTypes

(* ... and those included before it or before a system around it.           *)
OnStack == {stack[n].sys : n \in 1..Len(stack)}
Preceding(s) ==
  \A q \in Around[s] : \A i, j \in DOMAIN model.include[q] :
    i < j /\ Within(s, model.include[q][j]) => model.include[q][i] \in finished
LEMMA PrecedingFinished ==
  ASSUME model \in Models, LaunchTypes, StackInv, ProgressInv
  PROVE  \A s \in OnStack : Preceding(s)
<1> DEFINE Bad == {s \in OnStack : ~Preceding(s)}
<1>1. ASSUME Bad # {} PROVE FALSE
  <2>0. Len(stack) \in Nat /\ \A n \in 1..Len(stack) : stack[n] \in Frames
    <3>1. stack \in Seq(Frames)
      BY DEF LaunchTypes, Frames
    <3> QED
      BY <3>1
  <2>1. OnStack \subseteq Systems
    BY <2>0 DEF OnStack, Frames
  <2>2. Bad \in SUBSET Systems
    BY <2>1
  <2> HIDE DEF Bad
  <2>3. PICK s \in Bad : Parent(s) \notin Bad
    BY <1>1, <2>2, OutermostOf
  <2>4. s \in OnStack /\ s \in Systems /\ ~Preceding(s)
    BY <2>1, <2>3 DEF Bad
  <2>5. PICK q \in Around[s] : \E i, j \in DOMAIN model.include[q] :
          i < j /\ Within(s, model.include[q][j]) /\ model.include[q][i] \notin finished
    BY <2>4 DEF Preceding
  <2>6. PICK i \in DOMAIN model.include[q], j \in DOMAIN model.include[q] :
          i < j /\ Within(s, model.include[q][j]) /\ model.include[q][i] \notin finished
    BY <2>5
  <2>7. PICK p \in Systems : /\ p = Parent(s) /\ Around[s] = {p} \cup Around[p] /\ s # Root
                             /\ p \notin Around[p] /\ Around[s] \subseteq Systems
    BY <2>4, <2>5, AroundIs, AroundTree, ParentOf
  <2>8. PICK n \in 1..Len(stack) : stack[n].sys = s
    BY <2>4 DEF OnStack
  <2>9. Len(stack) \in Nat /\ n # Len(stack) /\ n + 1 \in 1..Len(stack)
    BY <2>7, <2>8 DEF StackInv, LaunchTypes
  <2>10. Called(stack[n + 1], s)
    BY <2>8, <2>9 DEF StackInv
  <2>11. \A g \in Frames : g.sys \in Systems /\ g.i \in Nat
    BY DEF Frames
  <2>12. PICK f \in Frames : f = stack[n + 1] /\ f.sys \in Systems /\ f.i \in Nat
    BY <2>0, <2>9, <2>11
  <2>13. /\ f.phase = "include" /\ f.i - 1 \in DOMAIN model.include[f.sys]
         /\ model.include[f.sys][f.i - 1] = s
    BY <2>10, <2>12 DEF Called
  <2>14. f.sys = p
    BY <2>4, <2>7, <2>12, <2>13, ParentOf DEF Range
  <2>15. p \in OnStack /\ Preceding(p)
    BY <2>3, <2>7, <2>9, <2>12, <2>14 DEF OnStack, Bad
  <2>16. PICK x \in Systems : x = model.include[q][j] /\ Parent(x) = q
    <3>1. model.include[q][j] \in Systems /\ model.include[q][j] \in Range(model.include[q])
      BY <2>5, <2>6, <2>7, ConfIs DEF Range
    <3> QED
      BY <2>5, <2>7, <3>1, ParentOf
  <2>17. q \in Systems /\ q \in Around[x]
    <3>1. q \in Systems /\ q # NULL
      BY <2>5, <2>7, ModelsAssumption
    <3>2. Around[x] = {q} \cup Around[q]
      BY <2>16, <3>1, AroundIs
    <3> QED
      BY <3>1, <3>2
  <2>18. CASE q = p
    <3>1. s = x
      <4>1. x \notin Around[s]
        <5>1. x # p
          BY <2>7, <2>17, <2>18
        <5>2. x \in Around[p] => Around[x] \subseteq Around[p]
          BY AroundTree
        <5> QED
          BY <2>7, <2>17, <2>18, <5>1, <5>2
      <4> QED
        BY <2>6, <2>16, <4>1 DEF Within
    <3>2. j = f.i - 1
      <4>1. IsTree(model.include)
        BY ModelsAssumption
      <4> QED
        BY <2>6, <2>13, <2>14, <2>16, <2>18, <3>1, <4>1 DEF IsTree
    <3>3. n + 1 # 1 /\ Progress(f, f.i - 1)
      BY <2>9, <2>12 DEF ProgressInv
    <3> QED
      BY <2>6, <2>13, <2>14, <2>18, <3>2, <3>3 DEF Progress
  <2>19. CASE q \in Around[p]
    <3>1. s # x
      BY <2>7, <2>16, <2>19
    <3>2. Within(p, x)
      BY <2>6, <2>7, <2>16, <3>1 DEF Within
    <3> QED
      BY <2>6, <2>15, <2>16, <2>19, <3>2 DEF Preceding
  <2> QED
    BY <2>5, <2>7, <2>18, <2>19
<1> QED
  BY <1>1

LEMMA ConfiguredWhenConnecting ==
  ASSUME model \in Models, LaunchTypes, StackInv, ProgressInv, FinishedInv,
         stack # <<>>, Top.phase = "connect", NEW p \in Systems, ConfiguredBefore(p, Top.sys)
  PROVE  Configured(p)
<1>1. PICK f \in Frames : f = Top /\ f.sys \in Systems
  BY TopIs DEF Frames
<1>2. 1 \in 1..Len(stack) /\ f = stack[1]
  BY <1>1, TopIs DEF Top
<1>3. Progress(f, f.i) /\ f.sys \in OnStack
  BY <1>2 DEF ProgressInv, OnStack
<1>4. Configured(f.sys) /\ Range(model.include[f.sys]) \subseteq finished
  BY <1>1, <1>3 DEF Progress
<1>5. CASE p = f.sys
  BY <1>4, <1>5
<1>6. CASE f.sys \in Around[p]
  BY <1>1, <1>4, <1>6, InsideFinished DEF FinishedInv
<1>7. ASSUME NEW q \in Around[f.sys], NEW i \in DOMAIN model.include[q],
             NEW j \in DOMAIN model.include[q], i < j,
             Within(p, model.include[q][i]), Within(f.sys, model.include[q][j])
      PROVE  Configured(p)
  <2>1. model.include[q][i] \in finished
    BY <1>3, <1>7, PrecedingFinished DEF Preceding
  <2> QED
    BY <1>7, <2>1, WithinFinished DEF FinishedInv
<1> QED
  BY <1>1, <1>5, <1>6, <1>7 DEF ConfiguredBefore, Within

LEMMA ResultStep ==
  ASSUME model \in Models, LaunchTypes, StackInv, ProgressInv, FinishedInv, ResultInv,
         LaunchNext
  PROVE  ResultInv'
<1>1. /\ model' = model /\ BlockList' = BlockList /\ (Complete' <=> Complete)
      /\ finished \subseteq finished'
  BY GrowsStep, SameModel DEF Grows
<1>2. CASE CreateBlocks
  BY <1>1, <1>2 DEF CreateBlocks, ResultInv
<1>3. ASSUME result = "running" PROVE created = BlockList /\ stack # <<>>
  BY <1>3 DEF ResultInv
<1>4. ASSUME result = "running", created' = created, result' = "running", stack' # <<>>
      PROVE  ResultInv'
  BY <1>1, <1>3, <1>4 DEF ResultInv
<1>5. ASSUME result = "running", created' = created, result' = "aborted", ~Complete
      PROVE  ResultInv'
  BY <1>1, <1>3, <1>5 DEF ResultInv
<1>6. ASSUME NEW g, stack' = <<g>> \o Below, stack # <<>> PROVE stack' # <<>>
  <2>1. Below \in Seq(Frames)
    BY <1>6, TopIs
  <2> QED
    BY <1>6, <2>1
<1>7. ASSUME stack # <<>>, AdvanceTop \/ \E p \in {"include", "configure", "connect"} : Phase(p)
      PROVE  stack' # <<>>
  BY <1>6, <1>7 DEF AdvanceTop, Phase
<1>8. CASE Preproc
  <2>1. result = "running" /\ created' = created /\ stack # <<>> /\ Top.sys \in Systems
    BY <1>3, <1>8, ConfOfTop DEF Preproc, At
  <2>2. CASE \A c \in Range(model.confs[Top.sys]) : c.refs \subseteq created
    BY <1>4, <1>7, <1>8, <2>1, <2>2 DEF Preproc
  <2>3. CASE ~(\A c \in Range(model.confs[Top.sys]) : c.refs \subseteq created)
    <3>1. ~Complete
      BY <1>3, <2>1, <2>3 DEF Complete
    <3> QED
      BY <1>5, <1>8, <2>1, <2>3, <3>1 DEF Preproc, Abort
  <2> QED
    BY <2>2, <2>3
<1>9. CASE IncludeNext
  <2>1. result = "running" /\ created' = created /\ stack # <<>> /\ result' = "running"
    BY <1>3, <1>9 DEF IncludeNext, At
  <2>2. CASE Top.i <= Len(model.include[Top.sys])
    <3>1. PICK g, h : stack' = <<h, g>> \o Below
      BY <1>9, <2>2 DEF IncludeNext
    <3>2. Below \in Seq(Frames)
      BY <2>1, TopIs
    <3>3. stack' # <<>>
      BY <3>1, <3>2
    <3> QED
      BY <1>4, <2>1, <3>3
  <2>3. CASE ~(Top.i <= Len(model.include[Top.sys]))
    BY <1>4, <1>7, <1>9, <2>1, <2>3 DEF IncludeNext
  <2> QED
    BY <2>2, <2>3
<1>10. CASE Configure
  <2>1. result = "running" /\ created' = created /\ stack # <<>> /\ Top.sys \in Systems
    BY <1>3, <1>10, ConfOfTop DEF Configure, At
  <2>2. CASE Conf.name \notin created
    <3>1. Conf \in Range(model.confs[Top.sys])
      BY <1>10, <2>1, ConfOfTop DEF Configure
    <3>2. ~Complete
      BY <1>3, <2>1, <2>2, <3>1 DEF Complete
    <3> QED
      BY <1>5, <1>10, <2>1, <2>2, <3>2 DEF Configure, Abort
  <2>3. CASE Conf.name \in created
    <3>1. result' = result /\ (AdvanceTop \/ stack' = <<[Top EXCEPT !.phase = "walk"]>> \o Below)
      BY <1>10, <2>3 DEF Configure
    <3>2. stack' # <<>>
      BY <1>6, <1>7, <2>1, <3>1
    <3> QED
      BY <1>4, <2>1, <3>1, <3>2
  <2> QED
    BY <2>2, <2>3
<1>11. CASE WalkEntry \/ WalkUp
  BY <1>3, <1>4, <1>11 DEF WalkEntry, WalkUp, At
<1>12. CASE InitBlock
  <2>1. stack' # <<>>
    BY <1>3, <1>6, <1>12 DEF InitBlock, At
  <2> QED
    BY <1>4, <1>12, <2>1 DEF InitBlock, At
<1>13. CASE EndConfigure
  BY <1>3, <1>4, <1>7, <1>13 DEF EndConfigure, At
<1>14. CASE MakeConnection
  <2>1. /\ result = "running" /\ created' = created /\ stack # <<>> /\ Top.sys \in Systems
        /\ Top.phase = "connect" /\ bstate' = bstate
    BY <1>3, <1>14, ConfOfTop DEF MakeConnection, At
  <2>2. PICK c \in Range(model.conns[Top.sys]) :
          IF HasPorts(c[1]) /\ HasPorts(c[2])
          THEN AdvanceTop /\ conns' = conns \cup {c} /\ UNCHANGED result
          ELSE Abort /\ UNCHANGED conns
    <3>1. Top.i \in DOMAIN model.conns[Top.sys]
      BY <1>14, <2>1, ConfIs, ConfOfTop DEF MakeConnection
    <3> QED
      BY <1>14, <3>1 DEF MakeConnection, Range
  <2>3. CASE HasPorts(c[1]) /\ HasPorts(c[2])
    BY <1>4, <1>7, <2>1, <2>2, <2>3
  <2>4. CASE ~(HasPorts(c[1]) /\ HasPorts(c[2]))
    <3>1. PICK b \in {c[1], c[2]} : ~HasPorts(b)
      BY <2>4
    <3>2. ASSUME Complete PROVE FALSE
      <4>1. b \in BlockList /\ (b \in Dynamic =>
              /\ b \notin model.broken
              /\ \E p \in Systems : ConfiguredBefore(p, Top.sys)
                                    /\ \E e \in Range(model.confs[p]) : e.name = b)
        BY <2>1, <2>2, <3>1, <3>2 DEF Complete
      <4>2. b \in Dynamic /\ bstate[b] = "preinit"
        BY <1>3, <2>1, <3>1, <4>1 DEF HasPorts
      <4>3. PICK p \in Systems : ConfiguredBefore(p, Top.sys)
                                 /\ \E e \in Range(model.confs[p]) : e.name = b
        BY <4>1, <4>2
      <4>4. Configured(p)
        BY <2>1, <4>3, ConfiguredWhenConnecting
      <4> QED
        BY <4>1, <4>2, <4>3, <4>4 DEF Configured, Settled
    <3> QED
      BY <1>5, <2>1, <2>2, <2>4, <3>2 DEF Abort
  <2> QED
    BY <2>3, <2>4
<1>15. CASE Return
  <2>1. /\ result = "running" /\ created' = created /\ stack # <<>> /\ stack' = Below
        /\ finished' = finished \cup {Top.sys}
        /\ result' = IF Below = <<>> THEN "done" ELSE result
    BY <1>3, <1>15 DEF Return, At
  <2>2. CASE Below = <<>>
    <3>1. Len(stack) = 1
      BY <2>1, <2>2, TopIs
    <3>2. stack[1].sys = Root
      BY <3>1 DEF StackInv
    <3> QED
      BY <1>1, <1>3, <2>1, <2>2, <3>2 DEF ResultInv, Top
  <2>3. CASE Below # <<>>
    BY <1>4, <2>1, <2>3
  <2> QED
    BY <2>2, <2>3
<1> QED
  BY <1>2, <1>8, <1>9, <1>10, <1>11, <1>12, <1>13, <1>14, <1>15 DEF LaunchNext

-----------------------------------------------------------------------------
LEMMA LaunchBegins == LaunchInit => LaunchInv
<1> SUFFICES ASSUME LaunchInit PROVE LaunchInv
  OBVIOUS
<1>1. LaunchTypes
  BY DEF LaunchInit, LaunchTypes
<1>2. StackInv /\ ProgressInv /\ FinishedInv
  BY DEF LaunchInit, StackInv, ProgressInv, FinishedInv
<1>3. WalkInv /\ OutermostWins /\ ResultInv
  BY DEF LaunchInit, WalkInv, OutermostWins, ResultInv, At
<1> QED
  BY <1>1, <1>2, <1>3 DEF LaunchInit, LaunchInv

LEMMA LaunchStep == LaunchInv /\ [LaunchNext]_launchVars => LaunchInv'
<1> SUFFICES ASSUME LaunchInv, [LaunchNext]_launchVars PROVE LaunchInv'
  OBVIOUS
<1> USE DEF LaunchInv
<1>1. CASE LaunchNext
  <2>1. result = "running" => stack # <<>>
    BY DEF ResultInv
  <2>2. LaunchTypes' /\ model' \in Models
    BY <1>1, <2>1, TypesStep, GrowsStep DEF Grows
  <2>3. StackInv' /\ ProgressInv' /\ FinishedInv'
    BY <1>1, <2>1, StackStep, FinishedStep
  <2>4. WalkInv' /\ OutermostWins' /\ ResultInv'
    BY <1>1, <2>1, WalkStep, OutermostStep, ResultStep
  <2> QED
    BY <2>2, <2>3, <2>4
<1>2. CASE UNCHANGED launchVars
  <2>1. UNCHANGED <<model, created, bstate, value, inited, conns, stack, walker, pos, finished,
                    result>>
    BY <1>2 DEF launchVars
  <2>2. Around' = Around /\ (Complete' <=> Complete) /\ BlockList' = BlockList
    BY <2>1, SameModel
  <2>3. LaunchTypes'
    BY <2>1 DEF LaunchTypes
  <2>4. StackInv'
    BY <2>1 DEF StackInv, Called
  <2>5. ProgressInv'
    BY <2>1 DEF ProgressInv, Progress, Configured, Settled
  <2>6. FinishedInv'
    BY <2>1 DEF FinishedInv, Configured, Settled
  <2>7. WalkInv'
    <3>1. /\ Top' = Top /\ (More' <=> More) /\ Conf' = Conf /\ Walked' = Walked
          /\ At("walk")' <=> At("walk")
      BY <2>1, <2>2 DEF At, Top, More, Conf, Walked
    <3>2. \A b, k : Heard(b, k)' = Heard(b, k)
      BY <2>1, <2>2, <3>1 DEF Heard, SetSoFar, SetBy
    <3> QED
      BY <2>1, <2>2, <3>1, <3>2 DEF WalkInv, Outermost
  <2>8. OutermostWins'
    BY <2>1, <2>2 DEF OutermostWins, Setters, SetBy, SetFirst
  <2>9. ResultInv'
    BY <2>1, <2>2 DEF ResultInv
  <2> QED
    BY <2>1, <2>3, <2>4, <2>5, <2>6, <2>7, <2>8, <2>9
<1> QED
  BY <1>1, <1>2

LEMMA LaunchEnds == LaunchInv => CompleteLaunches
<1> SUFFICES ASSUME LaunchInv PROVE CompleteLaunches
  OBVIOUS
<1>1. model \in Models /\ LaunchTypes /\ FinishedInv /\ ResultInv
  BY DEF LaunchInv
<1>2. ASSUME result = "done", NEW s \in Systems
      PROVE  /\ Range(model.conns[s]) \subseteq conns
             /\ \A c \in Range(model.confs[s]) :
                  c.name \in model.broken \/ bstate[c.name] # "preinit"
  <2>1. Root \in finished /\ (s = Root \/ Root \in Around[s])
    BY <1>1, <1>2, AroundTree DEF ResultInv
  <2>2. s \in finished
    BY <1>1, <2>1, WithinFinished DEF Within
  <2> QED
    BY <1>1, <2>2 DEF FinishedInv, Configured, Settled
<1> QED
  BY <1>1, <1>2 DEF CompleteLaunches, ResultInv

(* A launch, of every tree of systems, as deep and as wide as it is.        *)
LEMMA LaunchesRight == LaunchSpec => [](LaunchTypes /\ OutermostWins /\ CompleteLaunches)
<1>1. LaunchInv => LaunchTypes /\ OutermostWins /\ CompleteLaunches
  BY LaunchEnds DEF LaunchInv
<1> QED
  BY <1>1, LaunchBegins, LaunchStep, PTL DEF LaunchSpec

(* What the start-up of a node keeps: the registries and the launch that   *)
(* fills them (ubx_module_load, ubx_module_unload, system.launch).         *)
THEOREM StartsUpSafely == Spec /\ LaunchSpec => []StartUpSafe
BY RegistriesSafe, LaunchesRight, PTL DEF StartUpSafe
=============================================================================
