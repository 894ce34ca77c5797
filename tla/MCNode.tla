------------------------------- MODULE MCNode -------------------------------
(***************************************************************************)
(* A node and what stands on its registries, each on a small instance of   *)
(* its own. The variable part says which of them a behaviour runs; the     *)
(* others stay in their initial states:                                    *)
(*   "node"    modules loaded and unloaded in an order that is safe, a     *)
(*             trigger and a block and two instances;                      *)
(*   "order"   the same modules in any order, and one that defines a type  *)
(*             again;                                                      *)
(*   "held"    three ports of one block that are added, removed, cached,   *)
(*             before the block is started and while it runs;              *)
(*   "connect" two ports, cloned and connected through two interactions;   *)
(*   "logger"  a logger of two blocks, and the clean-up of the node;       *)
(*   "launch"  trees of three systems of up to two blocks.                 *)
(***************************************************************************)
EXTENDS NodeParts, TLC

CONSTANTS std, trg, blk, twin, int, conf, tproto, bproto, x, y
AllModules == {std, trg, blk, twin}
AllTypes   == {int, conf}
AllProtos  == {tproto, bproto}
AllInsts   == {x, y}

Type(n)     == [kind |-> "type", name |-> n]
Block(n, u) == [kind |-> "block", name |-> n, uses |-> u]
AllItems == std  :> <<Type(int)>> @@
            trg  :> <<Type(conf), Block(tproto, {int, conf})>> @@
            blk  :> <<Block(bproto, {int})>> @@
            twin :> <<Type(conf)>>
StrictMods == {std, trg}

VARIABLE part

(* Modules in any order, and one instance.                                 *)
FewInstances == part = "order" => blocks'[y] = NULL

-----------------------------------------------------------------------------
(* Ports.                                                                  *)
CONSTANTS p1, p2, p3, na, nb, i1, i2
ThreePorts == {p1, p2, p3}
TwoNames   == {na, nb}
TwoIBlocks == {i1, i2}
EachDir    == {{"in"}, {"out"}}

(* Either three out ports that stay unconnected, or two ports of a block   *)
(* that is not started.                                                    *)
FewPorts ==
  /\ part = "held" => pccs' = {} /\ \A p \in Elems(ports') : p.dir = {"out"}
  /\ part = "connect" => /\ block_state' = "INACTIVE"
                         /\ Len(ports') + Cardinality(pccs') <= 2

-----------------------------------------------------------------------------
(* The logger. Another block was created after it, nobody writes any more  *)
(* when the node is cleaned up, and the interaction is written when it is  *)
(* reported, by one source.                                                *)
CONSTANTS lg, sa, sb, inter, c1, c2
TwoSources == {sa, sb}
TwoInters  == {c1, c2}
SomeOrders == {<<sa, lg, inter, sb>>, <<sb, inter, lg, sa>>}

Entry(k, s) == [kind |-> k, src |-> s]
SomeConfs  == {<<Entry("iblock", sa), Entry("port", sb)>>,
               <<Entry("port", sa), Entry("port", sb)>>,
               <<Entry("port", sa), Entry("inport", sb)>>,
               <<Entry("port", sb), Entry("missing", sb)>>}

FewWrites == written' # written =>
  /\ pass = "run"
  /\ lbuf'[inter] # lbuf[inter] =>
       written'[sb] = written[sb] /\ \E k \in DOMAIN rconf : rconf[k].kind = "iblock"

(* Only what is told apart by its name is not permuted. *)
Symmetry == Permutations(ThreePorts) \cup Permutations(TwoNames)
            \cup Permutations(TwoIBlocks) \cup Permutations(TwoInters)

-----------------------------------------------------------------------------
(* Launched systems: s and t are included by r, or t by s.                 *)
OneConf(b, k, r) == <<[name |-> b, sets |-> k, refs |-> r]>>
InnerConfs == {<<>>, OneConf("a", {"k"}, {}), OneConf("a", {}, {"b"}), OneConf("b", {"k"}, {})}
OuterConfs == InnerConfs \cup {OneConf("a", {}, {}) \o OneConf("b", {"k"}, {}),
                               OneConf("a", {}, {}) \o OneConf("a", {"k"}, {})}
Trees      == {[r |-> <<"s", "t">>, s |-> <<>>, t |-> <<>>],
               [r |-> <<"s">>, s |-> <<"t">>, t |-> <<>>]}
BlockLists == {[r |-> <<"a">>, s |-> <<>>, t |-> <<"b">>],
               [r |-> <<"b">>, s |-> <<>>, t |-> <<>>]}
ConnLists  == {<<>>, <<<<"a", "b">>>>}
SomeModels ==
  {[include |-> i, blocks |-> l, confs |-> [r |-> cr, s |-> cs, t |-> ct],
    conns |-> [r |-> nr, s |-> <<>>, t |-> nt], broken |-> br] :
     i \in Trees, l \in BlockLists, cr \in OuterConfs, cs \in InnerConfs,
     ct \in InnerConfs, nr \in ConnLists, nt \in ConnLists, br \in {{}, {"a"}}}

NoModel == CHOOSE m \in SomeModels : TRUE

-----------------------------------------------------------------------------
(* One part after the other.                                               *)
OnlyNode(A)   == part \in {"node", "order"} /\ A
                 /\ UNCHANGED <<part, portVars, logVars, launchVars>>
OnlyPorts(A)  == part \in {"held", "connect"} /\ A
                 /\ UNCHANGED <<part, vars, logVars, launchVars>>
OnlyLogger(A) == part = "logger" /\ A
                 /\ UNCHANGED <<part, vars, portVars, launchVars>>
OnlyLaunch(A) == part = "launch" /\ A
                 /\ UNCHANGED <<part, vars, portVars, logVars>>

MCInit ==
  /\ part \in {"node", "order", "held", "connect", "logger", "launch"}
  /\ Init /\ careful = (part # "order")
  /\ PortsInit
  /\ LogInit /\ (part = "logger" \/ order = <<sa, lg, inter, sb>>)
  /\ LaunchInit /\ (part = "launch" \/ model = NoModel)

MCNext ==
  \/ OnlyNode(Next /\ FewInstances)
  \/ OnlyPorts(PortsNext /\ FewPorts)
  \/ OnlyLogger(LogNext /\ FewWrites) \/ OnlyLaunch(LaunchNext)

MCVars == <<part, vars, portVars, logVars, launchVars>>
MCSpec == MCInit /\ [][MCNext]_MCVars
=============================================================================
