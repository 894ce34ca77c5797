-------------------------------- MODULE Node --------------------------------
(***************************************************************************)
(* The registries of a node (src/ubx.c): modules that are loaded and       *)
(* unloaded, the types and block prototypes that their init functions      *)
(* register, and instances cloned from prototypes.                         *)
(*                                                                         *)
(* Registered types and blocks live in the library of their module, so a   *)
(* pointer to one is represented by the module it points into, and dangles *)
(* when that library is closed. One register or unregister call of a       *)
(* module is one action. The three passes of ubx_node_cleanup over the     *)
(* instances are one action here (see Ptrig and FileLogger); the modules   *)
(* are then unloaded in any order, the code takes that of loading.         *)
(***************************************************************************)
EXTENDS Naturals, Sequences, Null

CONSTANTS
  Modules, TypeNames, Protos, Instances,
  Items,    \* Items[m]: what the init of m registers, in its order
  Strict    \* modules whose init stops at a type that is refused

Item == [kind : {"type"}, name : TypeNames]
        \cup [kind : {"block"}, name : Protos, uses : SUBSET TypeNames]

ASSUME ItemsAssumption ==
  /\ Items \in [Modules -> Seq(Item)]
  /\ \A m \in Modules : \A i, j \in DOMAIN Items[m] :
       Items[m][i].name = Items[m][j].name => i = j
ASSUME StrictAssumption == Strict \subseteq Modules
ASSUME NamesAssumption ==
  /\ TypeNames \cap Protos = {} /\ Instances \cap Protos = {}
  /\ NULL \notin Modules /\ NULL # "freed"

VARIABLES
  careful, \* whether the application loads and unloads in a safe order
  loaded,  \* ni->modules
  mapped,  \* modules whose library is open
  types,   \* ni->types: the module each registered type is in, or NULL
  blocks,  \* ni->blocks: hooks and resolved types of each block, or NULL
  task,    \* the operation going on: load, unload or clean-up of the node
  ret,     \* what the last ubx_block_create returned
  failed   \* history: modules whose init failed

vars == <<careful, loaded, mapped, types, blocks, task, ret, failed>>

BlockNames == Protos \cup Instances
Pointers   == Modules \cup {NULL}
BlockInfo  == [hooks : Modules, uses : [TypeNames -> Pointers]]
ASSUME NullAssumption == NULL \notin BlockInfo

Idle       == [op |-> "none", mod |-> NULL, k |-> 1]

(* Every variable holds what the code keeps there, and the calls of a      *)
(* module's init and cleanup never run past its items.                     *)
TypeOK ==
  /\ careful \in BOOLEAN
  /\ loaded \in SUBSET Modules /\ mapped \in SUBSET Modules
  /\ loaded \subseteq mapped
  /\ types \in [TypeNames -> Pointers]
  /\ blocks \in [BlockNames -> BlockInfo \cup {NULL}]
  /\ \/ task = Idle
     \/ /\ task \in [op : {"load", "unload", "cleanup"}, mod : Modules, k : Nat \ {0}]
        /\ task.k <= Len(Items[task.mod]) + 1
        /\ task.mod \in mapped \ loaded
     \/ task \in [op : {"cleanup", "done"}, mod : {NULL}, k : {1}]
  /\ ret \in {NULL, "live", "freed"}
  /\ failed \in SUBSET Modules

Init ==
  /\ careful \in BOOLEAN
  /\ loaded = {} /\ mapped = {}
  /\ types = [t \in TypeNames |-> NULL]
  /\ blocks = [b \in BlockNames |-> NULL]
  /\ task = Idle /\ ret = NULL /\ failed = {}

-----------------------------------------------------------------------------
(***************************************************************************)
(* Loading a module.                                                       *)
(***************************************************************************)

NamesOf(m)   == {Items[m][i].name : i \in DOMAIN Items[m]}
Current    == Items[task.mod][task.k]
MoreItems  == task.k <= Len(Items[task.mod])
Registered(t) == types[t] # NULL

(* The order a careful application keeps to: a module is loaded when its    *)
(* names are free and the types that it uses are registered, and unloaded  *)
(* when nothing outside it refers to it.                                   *)
MayLoad(m) == careful =>
  /\ \A t \in TypeNames \cap NamesOf(m) : types[t] = NULL
  /\ \A b \in BlockNames \cap NamesOf(m) : blocks[b] = NULL
  /\ \A i \in DOMAIN Items[m] : Items[m][i].kind = "block" =>
       \A t \in Items[m][i].uses :
         Registered(t) \/ \E j \in 1 .. i - 1 : Items[m][j].name = t

MayUnload(m) == careful =>
  \A b \in BlockNames \ (Protos \cap NamesOf(m)) : blocks[b] # NULL =>
    blocks[b].hooks # m /\ \A t \in TypeNames : blocks[b].uses[t] # m

(* ubx_module_load: the library is opened, then its init runs.             *)
LoadBegin(m) ==
  /\ task = Idle /\ m \notin mapped /\ MayLoad(m)
  /\ mapped' = mapped \cup {m}
  /\ task' = [op |-> "load", mod |-> m, k |-> 1]
  /\ UNCHANGED <<loaded, types, blocks, ret, failed>>

NextItem == task' = [task EXCEPT !.k = @ + 1]

(* ubx_type_register: a name that is taken is refused.                     *)
RegisterType ==
  /\ task.op = "load" /\ MoreItems /\ Current.kind = "type"
  /\ Registered(Current.name) => task.mod \notin Strict
  /\ types' = IF Registered(Current.name) THEN types
              ELSE [types EXCEPT ![Current.name] = task.mod]
  /\ NextItem
  /\ UNCHANGED <<loaded, mapped, blocks, ret, failed>>

(* Mutant of Resolved: the result of an earlier lookup is used again. *)
ResolvedStale(uses) ==
  [t \in TypeNames |-> IF t \in uses THEN types[CHOOSE u \in uses : TRUE] ELSE NULL]

(* ubx_resolve_types: the pointers for the names of used types.            *)
Resolved(uses) == [t \in TypeNames |-> IF t \in uses THEN types[t] ELSE NULL]

Resolvable(uses) == \A t \in uses : Registered(t)

(* ubx_block_register of a prototype.                                      *)
RegisterBlock ==
  /\ task.op = "load" /\ MoreItems /\ Current.kind = "block"
  /\ blocks[Current.name] = NULL /\ Resolvable(Current.uses)
  /\ blocks' = [blocks EXCEPT ![Current.name] =
                  [hooks |-> task.mod, uses |-> Resolved(Current.uses)]]
  /\ NextItem
  /\ UNCHANGED <<loaded, mapped, types, ret, failed>>

(* An init that fails: the library is closed, and what was registered      *)
(* before stays.                                                           *)
LoadFail ==
  /\ task.op = "load" /\ MoreItems
  /\ IF Current.kind = "type"
     THEN Registered(Current.name) /\ task.mod \in Strict
     ELSE blocks[Current.name] # NULL \/ ~ Resolvable(Current.uses)
  /\ mapped' = mapped \ {task.mod}
  /\ failed' = failed \cup {task.mod}
  /\ task' = Idle
  /\ UNCHANGED <<loaded, types, blocks, ret>>

LoadEnd ==
  /\ task.op = "load" /\ ~ MoreItems
  /\ loaded' = loaded \cup {task.mod}
  /\ task' = Idle
  /\ UNCHANGED <<mapped, types, blocks, ret, failed>>

-----------------------------------------------------------------------------
(***************************************************************************)
(* Instances.                                                              *)
(***************************************************************************)

(* Mutant of BlockCreate: a name in use is only noticed when registering. *)
BlockCreateNoCheck(p, n) ==
  /\ task = Idle /\ blocks[p] # NULL
  /\ LET uses == {t \in TypeNames : blocks[p].uses[t] # NULL}
     IN  IF blocks[n] = NULL /\ Resolvable(uses)
         THEN /\ blocks' = [blocks EXCEPT ![n] =
                              [hooks |-> blocks[p].hooks, uses |-> Resolved(uses)]]
              /\ ret' = "live"
         ELSE ret' = "freed" /\ UNCHANGED blocks
  /\ UNCHANGED <<loaded, mapped, types, task, failed>>

(* ubx_block_create: clone the prototype, resolve its types by name and    *)
(* register the clone. When that fails the clone is freed, and returned.   *)
BlockCreate(p, n) ==
  /\ task = Idle /\ blocks[p] # NULL /\ blocks[n] = NULL
  /\ LET uses == {t \in TypeNames : blocks[p].uses[t] # NULL}
     IN  IF Resolvable(uses)
         THEN /\ blocks' = [blocks EXCEPT ![n] =
                              [hooks |-> blocks[p].hooks, uses |-> Resolved(uses)]]
              /\ ret' = "live"
         ELSE ret' = "freed" /\ UNCHANGED blocks
  /\ UNCHANGED <<loaded, mapped, types, task, failed>>

(* ubx_block_rm of an instance that is PREINIT.                            *)
BlockRm(n) ==
  /\ task = Idle /\ blocks[n] # NULL
  /\ blocks' = [blocks EXCEPT ![n] = NULL]
  /\ ret' = NULL
  /\ UNCHANGED <<loaded, mapped, types, task, failed>>

-----------------------------------------------------------------------------
(***************************************************************************)
(* Unloading a module, and the clean-up of the node.                       *)
(***************************************************************************)

(* ubx_module_unload: the module leaves the list, then its cleanup runs.   *)
UnloadBegin(m) ==
  /\ task = Idle /\ m \in loaded /\ MayUnload(m)
  /\ loaded' = loaded \ {m}
  /\ task' = [op |-> "unload", mod |-> m, k |-> 1]
  /\ UNCHANGED <<mapped, types, blocks, ret, failed>>

(* Mutant of Unregister: cleanup functions forget the prototypes. *)
UnregisterTypes ==
  /\ task.op \in {"unload", "cleanup"} /\ task.mod # NULL /\ MoreItems
  /\ IF Current.kind = "type"
     THEN types' = [types EXCEPT ![Current.name] = NULL] /\ UNCHANGED blocks
     ELSE UNCHANGED <<types, blocks>>
  /\ NextItem
  /\ UNCHANGED <<loaded, mapped, ret, failed>>

(* ubx_type_unregister and ubx_block_unregister: whatever has the name.    *)
Unregister ==
  /\ task.op \in {"unload", "cleanup"} /\ task.mod # NULL /\ MoreItems
  /\ IF Current.kind = "type"
     THEN types' = [types EXCEPT ![Current.name] = NULL] /\ UNCHANGED blocks
     ELSE blocks' = [blocks EXCEPT ![Current.name] = NULL] /\ UNCHANGED types
  /\ NextItem
  /\ UNCHANGED <<loaded, mapped, ret, failed>>

(* After the cleanup function the library is closed.                       *)
UnloadEnd ==
  /\ task.op \in {"unload", "cleanup"} /\ task.mod # NULL /\ ~ MoreItems
  /\ mapped' = mapped \ {task.mod}
  /\ task' = IF task.op = "unload" THEN Idle
             ELSE [op |-> "cleanup", mod |-> NULL, k |-> 1]
  /\ UNCHANGED <<loaded, types, blocks, ret, failed>>

(* Mutant of CleanupBegin: modules are unloaded under the instances. *)
CleanupBeginKeeps ==
  /\ task = Idle
  /\ ret' = NULL
  /\ task' = [op |-> "cleanup", mod |-> NULL, k |-> 1]
  /\ UNCHANGED <<loaded, mapped, types, blocks, failed>>

(* ubx_node_cleanup: all instances are stopped, cleaned up and removed.    *)
CleanupBegin ==
  /\ task = Idle
  /\ blocks' = [b \in BlockNames |-> IF b \in Instances THEN NULL ELSE blocks[b]]
  /\ ret' = NULL
  /\ task' = [op |-> "cleanup", mod |-> NULL, k |-> 1]
  /\ UNCHANGED <<loaded, mapped, types, failed>>

(* Mutant of CleanupUnload: the module stays in the list. *)
CleanupUnloadKeeps(m) ==
  /\ task.op = "cleanup" /\ task.mod = NULL /\ m \in loaded
  /\ task' = [task EXCEPT !.mod = m]
  /\ UNCHANGED <<loaded, mapped, types, blocks, ret, failed>>

(* ubx_node_cleanup calls ubx_module_unload for each module.               *)
CleanupUnload(m) ==
  /\ task.op = "cleanup" /\ task.mod = NULL /\ m \in loaded
  /\ loaded' = loaded \ {m}
  /\ task' = [task EXCEPT !.mod = m]
  /\ UNCHANGED <<mapped, types, blocks, ret, failed>>

CleanupEnd ==
  /\ task.op = "cleanup" /\ task.mod = NULL /\ loaded = {}
  /\ task' = [task EXCEPT !.op = "done"]
  /\ UNCHANGED <<loaded, mapped, types, blocks, ret, failed>>

Operation ==
  \/ \E m \in Modules : LoadBegin(m) \/ UnloadBegin(m) \/ CleanupUnload(m)
  \/ RegisterType \/ RegisterBlock \/ LoadFail \/ LoadEnd
  \/ \E p \in BlockNames, n \in Instances : BlockCreate(p, n)
  \/ \E n \in Instances : BlockRm(n)
  \/ Unregister \/ UnloadEnd \/ CleanupBegin \/ CleanupEnd

Next == Operation /\ UNCHANGED careful

Spec == Init /\ [][Next]_vars

-----------------------------------------------------------------------------
(***************************************************************************)
(* Properties.                                                             *)
(***************************************************************************)

(* With a careful application everything registered, and every type or     *)
(* hook that a block points to, is in a library that is open               *)
(* (ubx_module_load, ubx_module_unload). Only prototypes may point to      *)
(* types already gone while the modules are unloaded at the end.           *)
NoDangling == careful =>
  /\ \A t \in TypeNames : types[t] # NULL => types[t] \in mapped
  /\ \A b \in BlockNames : blocks[b] # NULL =>
       /\ blocks[b].hooks \in mapped
       /\ task.op # "cleanup" =>
            \A t \in TypeNames : blocks[b].uses[t] # NULL => blocks[b].uses[t] \in mapped

(* Without that care, what is registered dangles only when it is of a      *)
(* module whose init failed: unloading never leaves anything behind, even  *)
(* of modules that registered only some of their names.                    *)
DanglingOnlyAfterFailure ==
  /\ \A t \in TypeNames : types[t] # NULL => types[t] \in mapped \cup failed
  /\ \A p \in Protos : blocks[p] # NULL => blocks[p].hooks \in mapped \cup failed

(* Between operations a block's type pointers are those that the node has  *)
(* registered for the names: ports of one type can be connected, their     *)
(* type pointers are compared (ubx_resolve_types, __port_write).           *)
TypesResolved == task = Idle => \A b \in BlockNames : blocks[b] # NULL =>
  \A t \in TypeNames : blocks[b].uses[t] # NULL => types[t] = blocks[b].uses[t]

(* ubx_block_create returns the newly created block or NULL.               *)
CreateReturnsLive == ret # "freed"

(* The node is empty after its clean-up: no types, modules or blocks are   *)
(* left (the checks at the end of ubx_node_cleanup).                       *)
CleanAtEnd == careful /\ task.op = "done" =>
  /\ \A t \in TypeNames : types[t] = NULL
  /\ \A b \in BlockNames : blocks[b] = NULL
  /\ loaded = {} /\ mapped = {}

(* Registering a type never replaces one, and a type is only dropped by    *)
(* its own module: modules that define a name twice do not disturb each    *)
(* other (ubx_type_register, ubx_type_unregister).                         *)
OwnTypesOnly == [][\A t \in TypeNames : types'[t] # types[t] =>
  types[t] \in {NULL, task.mod} /\ types'[t] \in {NULL, task.mod}]_vars
=============================================================================
