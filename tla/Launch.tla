------------------------------- MODULE Launch -------------------------------
(***************************************************************************)
(* lua/blockdiagram.lua: system.launch, which ubx_launch runs.  A model is *)
(* a tree of systems, each with blocks, configurations and connections.    *)
(* All blocks are created first; then __launch walks the tree: it resolves *)
(* the #block references of a system's configurations, launches the        *)
(* included systems, configures and initialises blocks and at last makes   *)
(* the system's connections.                                               *)
(*                                                                         *)
(* A configuration entry names its block, the configs it sets and the      *)
(* blocks it refers to; what a config's value is is abstracted to the      *)
(* system that set it.  A script error and a crash end the launch alike.   *)
(***************************************************************************)
EXTENDS Naturals, Sequences, Functions, Null

CONSTANTS
  Systems, Root,   \* the systems of a model and the outermost one
  Blocks, Configs, \* block names and names of configs
  Dynamic,         \* the blocks whose ports are added by their init hook
  Models           \* the models a launch is given

(* Systems include each other as a tree: only the outermost one has no     *)
(* super-system, a table has one _parent, and includes end somewhere.      *)
IsTree(include) ==
  /\ \A s \in Systems : s = Root <=> \A p \in Systems : s \notin Range(include[p])
  /\ \A p, q \in Systems : \A i \in DOMAIN include[p], j \in DOMAIN include[q] :
       include[p][i] = include[q][j] => p = q /\ i = j
  /\ \A S \in SUBSET Systems \ {{}} : \E s \in S : \A p \in S : s \notin Range(include[p])

ConfEntries == [name : Blocks, sets : SUBSET Configs, refs : SUBSET Blocks]
ASSUME ModelsAssumption ==
  /\ Root \in Systems /\ NULL \notin Systems
  /\ \A m \in Models :
       /\ m.include \in [Systems -> Seq(Systems)] /\ IsTree(m.include)
       /\ m.blocks \in [Systems -> Seq(Blocks)]
       /\ m.confs \in [Systems -> Seq(ConfEntries)]
       /\ m.conns \in [Systems -> Seq(Blocks \X Blocks)]
       /\ m.broken \subseteq Blocks

VARIABLES
  model,    \* include, blocks, confs and conns of each system; broken blocks
  created,  \* the blocks created so far
  bstate,   \* "preinit" or "inactive", of every block
  value,    \* for each block and config, the system whose value it holds
  inited,   \* ghost: the system that initialised a block
  conns,    \* the connections made
  stack,    \* the activations of __launch: system, phase and position
  walker,   \* the super-system whose entries are looked at, nil after the last
  pos,      \* position in the configurations of walker
  finished, \* ghost: the systems whose activation has returned
  result    \* "creating", "running", "done" or "aborted"

launchVars ==
  <<model, created, bstate, value, inited, conns, stack, walker, pos, finished, result>>

(* The _parent link that system:init makes.                                *)
Parent(s) ==
  LET P == {p \in Systems : s \in Range(model.include[p])}
  IN  IF P = {} THEN NULL ELSE CHOOSE p \in P : TRUE

(* The super-systems of a system: its parent, the parent's, and so on.     *)
Around[s \in Systems] ==
  IF Parent(s) = NULL THEN {} ELSE {Parent(s)} \cup Around[Parent(s)]

Frame(s) == [sys |-> s, phase |-> "preproc", i |-> 1]
Top == stack[1]
Below == Tail(stack)
AdvanceTop == stack' = <<[Top EXCEPT !.i = @ + 1]>> \o Below
Phase(p) == stack' = <<[Top EXCEPT !.phase = p, !.i = 1]>> \o Below
At(p) == result = "running" /\ Top.phase = p
Abort == result' = "aborted" /\ UNCHANGED stack

----------------------------------------------------------------------------
LaunchInit ==
  /\ model \in Models
  /\ created = {}
  /\ bstate = [b \in Blocks |-> "preinit"]
  /\ value = [b \in Blocks |-> [k \in Configs |-> NULL]]
  /\ inited = [b \in Blocks |-> NULL]
  /\ conns = {}
  /\ stack = <<>> /\ walker = NULL /\ pos = 1 /\ finished = {}
  /\ result = "creating"

(* make_block_list goes over all systems; every listed block is created,   *)
(* then __launch is called for the outermost system.                       *)
BlockList == UNION {Range(model.blocks[s]) : s \in Systems}
CreateBlocks ==
  /\ result = "creating"
  /\ created' = BlockList
  /\ stack' = <<Frame(Root)>>
  /\ result' = "running"
  /\ UNCHANGED <<model, bstate, value, inited, conns, walker, pos, finished>>

(* preproc_configs: ubx.block_get raises an error for an unknown block.    *)
Preproc ==
  /\ At("preproc")
  /\ IF \A c \in Range(model.confs[Top.sys]) : c.refs \subseteq created
       THEN Phase("include") /\ UNCHANGED result
       ELSE Abort
  /\ UNCHANGED <<model, created, bstate, value, inited, conns, walker, pos, finished>>

(* The included systems, one after the other.                              *)
IncludeNext ==
  /\ At("include")
  /\ LET incl == model.include[Top.sys] IN
     IF Top.i <= Len(incl)
       THEN stack' = <<Frame(incl[Top.i]), [Top EXCEPT !.i = @ + 1]>> \o Below
       ELSE Phase("configure")
  /\ UNCHANGED <<model, created, bstate, value, inited, conns, walker, pos, finished, result>>

(* set_config_tab of an entry c of system s.                               *)
Apply(c, s) ==
  value' = [value EXCEPT ![c.name] = [k \in Configs |-> IF k \in c.sets THEN s ELSE @[k]]]

More == Top.i <= Len(model.confs[Top.sys])
Conf == model.confs[Top.sys][Top.i]

(* One entry of the configurations: a block that is not preinit any more   *)
(* keeps its configuration; else the entry is applied, and the walk through *)
(* the super-systems begins.                                               *)
Configure ==
  /\ At("configure") /\ More
  /\ IF Conf.name \notin created
       THEN Abort /\ UNCHANGED <<value, walker, pos>>
     ELSE IF bstate[Conf.name] # "preinit"
       THEN AdvanceTop /\ UNCHANGED <<value, walker, pos, result>>
     ELSE /\ Apply(Conf, Top.sys)
          /\ stack' = <<[Top EXCEPT !.phase = "walk"]>> \o Below
          /\ walker' = Parent(Top.sys) /\ pos' = 1
          /\ UNCHANGED result
  /\ UNCHANGED <<model, created, bstate, inited, conns, finished>>

(* Every entry that a super-system has for the block is applied, too.      *)
WalkEntry ==
  /\ At("walk") /\ walker # NULL /\ pos <= Len(model.confs[walker])
  /\ LET cc == model.confs[walker][pos] IN
     IF cc.name = Conf.name THEN Apply(cc, walker) ELSE UNCHANGED value
  /\ pos' = pos + 1
  /\ UNCHANGED <<model, created, bstate, inited, conns, stack, walker, finished, result>>

(* Mutant of WalkUp: only the parent is looked at.                         *)
WalkUpOnce ==
  /\ At("walk") /\ walker # NULL /\ pos > Len(model.confs[walker])
  /\ walker' = NULL /\ pos' = 1
  /\ UNCHANGED <<model, created, bstate, value, inited, conns, stack, finished, result>>

WalkUp ==
  /\ At("walk") /\ walker # NULL /\ pos > Len(model.confs[walker])
  /\ walker' = Parent(walker) /\ pos' = 1
  /\ UNCHANGED <<model, created, bstate, value, inited, conns, stack, finished, result>>

(* ubx.block_init: the result of the init hook is not looked at.           *)
InitBlock ==
  /\ At("walk") /\ walker = NULL
  /\ IF Conf.name \in model.broken
       THEN UNCHANGED <<bstate, inited>>
       ELSE /\ bstate' = [bstate EXCEPT ![Conf.name] = "inactive"]
            /\ inited' = [inited EXCEPT ![Conf.name] = Top.sys]
  /\ stack' = <<[Top EXCEPT !.phase = "configure", !.i = @ + 1]>> \o Below
  /\ UNCHANGED <<model, created, value, conns, walker, pos, finished, result>>

EndConfigure ==
  /\ At("configure") /\ ~More
  /\ Phase("connect")
  /\ UNCHANGED <<model, created, bstate, value, inited, conns, walker, pos, finished, result>>

(* A block has its ports from the start, or from its init hook on.         *)
HasPorts(b) == b \in created /\ (b \in Dynamic => bstate[b] # "preinit")

(* One connection.  A missing port ends the script: with an error, or in   *)
(* ubx_port_connect_in and _out, which follow the NULL.                    *)
MakeConnection ==
  /\ At("connect")
  /\ Top.i <= Len(model.conns[Top.sys])
  /\ LET c == model.conns[Top.sys][Top.i] IN
     IF HasPorts(c[1]) /\ HasPorts(c[2])
       THEN AdvanceTop /\ conns' = conns \cup {c} /\ UNCHANGED result
       ELSE Abort /\ UNCHANGED conns
  /\ UNCHANGED <<model, created, bstate, value, inited, walker, pos, finished>>

(* The end of an activation, and with the outermost one of the launch.     *)
Return ==
  /\ At("connect")
  /\ Top.i > Len(model.conns[Top.sys])
  /\ stack' = Below
  /\ finished' = finished \cup {Top.sys}
  /\ result' = IF Below = <<>> THEN "done" ELSE result
  /\ UNCHANGED <<model, created, bstate, value, inited, conns, walker, pos>>

LaunchNext ==
  \/ CreateBlocks \/ Preproc \/ IncludeNext
  \/ Configure \/ WalkEntry \/ WalkUp \/ InitBlock \/ EndConfigure
  \/ MakeConnection \/ Return

LaunchSpec == LaunchInit /\ [][LaunchNext]_launchVars

----------------------------------------------------------------------------
(* Every variable has values of its kind.                                  *)
LaunchTypes ==
  /\ created \subseteq Blocks
  /\ bstate \in [Blocks -> {"preinit", "inactive"}]
  /\ value \in [Blocks -> [Configs -> Systems \cup {NULL}]]
  /\ inited \in [Blocks -> Systems \cup {NULL}]
  /\ conns \subseteq Blocks \X Blocks
  /\ stack \in Seq([sys : Systems, i : Nat \ {0},
                    phase : {"preproc", "include", "configure", "walk", "connect"}])
  /\ walker \in Systems \cup {NULL} /\ pos \in Nat \ {0}
  /\ finished \subseteq Systems
  /\ result \in {"creating", "running", "done", "aborted"}

(* The systems that set config k of a block b that s initialises: those    *)
(* around s, in whichever entry, and s itself in its first entry for b.    *)
SetBy(p, b, k) == \E c \in Range(model.confs[p]) : c.name = b /\ k \in c.sets
SetFirst(s, b, k) ==
  \E j \in DOMAIN model.confs[s] :
    /\ model.confs[s][j].name = b /\ k \in model.confs[s][j].sets
    /\ \A i \in DOMAIN model.confs[s] : i < j => model.confs[s][i].name # b
Setters(s, b, k) ==
  {p \in Around[s] : SetBy(p, b, k)} \cup {p \in {s} : SetFirst(p, b, k)}

(* An initialised block holds, for every config, the value of the          *)
(* outermost of these: a super-system overrides what its included systems  *)
(* set, and an included system that runs later never takes the value back. *)
OutermostWins ==
  \A b \in Blocks : bstate[b] # "preinit" =>
    \A k \in Configs :
      LET P == Setters(inited[b], b, k) IN
      P # {} => /\ value[b][k] \in P
                /\ \A p \in P : value[b][k] \in {p} \cup Around[p]

(* The systems whose configurations are through when those of s connect:   *)
(* s, the systems inside it, and those inside what is included before s,   *)
(* or before a system around s.                                            *)
Within(p, s) == p = s \/ s \in Around[p]
ConfiguredBefore(p, s) ==
  \/ Within(p, s)
  \/ \E q \in Around[s] : \E i, j \in DOMAIN model.include[q] :
       i < j /\ Within(p, model.include[q][i]) /\ Within(s, model.include[q][j])

(* A model is complete when every block it names is listed and every       *)
(* connection to dynamic ports stands in the system that configures the    *)
(* block or in one launched after it.                                      *)
Complete ==
  \A s \in Systems :
    /\ \A c \in Range(model.confs[s]) : {c.name} \cup c.refs \subseteq BlockList
    /\ \A e \in Range(model.conns[s]) : \A b \in {e[1], e[2]} :
         /\ b \in BlockList
         /\ b \in Dynamic =>
              /\ b \notin model.broken
              /\ \E p \in Systems : ConfiguredBefore(p, s)
                                    /\ \E c \in Range(model.confs[p]) : c.name = b

(* A complete model never aborts half-way, and at the end all its          *)
(* connections exist and every configured block is initialised unless its  *)
(* own init hook failed: no order of includes, no block configured in      *)
(* several systems and no failed hook makes the walk skip one.             *)
CompleteLaunches ==
  /\ result = "aborted" => ~Complete
  /\ result = "done" /\ Complete =>
       \A s \in Systems :
         /\ Range(model.conns[s]) \subseteq conns
         /\ \A c \in Range(model.confs[s]) :
              c.name \in model.broken \/ bstate[c.name] # "preinit"
=============================================================================
