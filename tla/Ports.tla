------------------------------- MODULE Ports -------------------------------
(***************************************************************************)
(* The ports of a block instance (src/ubx.c): adding and removing them,    *)
(* connecting them through interactions, reading and writing, and the      *)
(* functions of lua/ubx.lua that connect a block or a script (conn_uni,    *)
(* port_clone_conn, port_read_timed).                                      *)
(*                                                                         *)
(* A call of the library is one action; calls that return an error without *)
(* a change are left out, and so is the exhaustion of memory. A port is    *)
(* known by its uid. Interactions hold a number of samples and are created *)
(* with the name of the connection, hence never looked up.                 *)
(***************************************************************************)
EXTENDS PortOps, Integers, FiniteSets

CONSTANTS
  PortIds,    \* identities of port structures, reused after they are freed
  Names,      \* port names
  IBlocks,    \* interaction blocks
  Faulty,     \* interactions whose read hook may fail (mqueue)
  Dirs,       \* directions that ports of the block have
  MaxPorts,   \* bound: ports of the block
  MaxPccs,    \* bound: ports of Lua
  MayStart,   \* bound: whether the block is started
  MaxConns,   \* bound: connections of a port in one direction
  BufferLen,  \* samples that an interaction keeps
  Modulus     \* 2^32: what uint32_t is computed modulo

ASSUME FaultyAssumption == Faulty \subseteq IBlocks
ASSUME PortNullAssumption ==
  NULL \notin PortIds /\ NULL \notin Seq(IBlocks) /\ NULL \notin [index : Nat, live : BOOLEAN]
ASSUME PortBoundsAssumption ==
  /\ Dirs \subseteq SUBSET {"in", "out"}
  /\ MaxPorts \in Nat /\ MaxPccs \in Nat /\ MaxConns \in Nat \ {0}
  /\ BufferLen \in Nat \ {0} /\ Modulus \in Nat /\ Modulus > BufferLen + 1

VARIABLES
  block_state,  \* state of the block that has the ports
  ports,        \* b->ports, up to the terminating entry
  pccs,         \* ports made by port_clone_conn that Lua still refers to
  istate,       \* state of each interaction, "none" when it does not exist
  owner,        \* uid of the port that port_clone_conn made the interaction for
  buf,          \* number of samples in each interaction
  held,         \* per name: pointer into ports that the block cached, or NULL
  added,        \* history: names of the ports added while the block runs
  shifted,      \* history: names of the ports that ubx_port_rm freed or moved
                \* while the block runs
  pret           \* result of the call if it was __port_read, else NULL

ibVars == <<istate, owner, buf>>
cacheVars == <<block_state, held, added, shifted>>
portVars   == <<ports, pccs, ibVars, cacheVars, pret>>

IStates  == {"none", "PREINIT", "INACTIVE", "ACTIVE"}

AllPorts == Elems(ports) \cup pccs
Uids     == {p.uid : p \in AllPorts}
Port(u)  == CHOOSE p \in AllPorts : p.uid = u
InUse(i) == \E p \in AllPorts :
  Connected(p.in_interaction, i) \/ Connected(p.out_interaction, i)

Cached   == [index : 1 .. MaxPorts, live : BOOLEAN]
Arrays   == {NULL} \cup {a \in Seq(IBlocks) : Len(a) <= MaxConns}
PortSet  == [uid : PortIds, name : Names, dir : SUBSET {"in", "out"}, in_interaction : Arrays,
             out_interaction : Arrays, block : {NULL, "b"}]

(* Every variable holds what the code keeps there, and no two ports share  *)
(* a structure.                                                            *)
PortsTypeOK ==
  /\ block_state \in {"INACTIVE", "ACTIVE"}
  /\ ports \in Seq(PortSet) /\ Len(ports) <= MaxPorts /\ pccs \subseteq PortSet
  /\ \A j, k \in DOMAIN ports : ports[j].uid = ports[k].uid => j = k
  /\ \A p, q \in pccs : p.uid = q.uid => p = q
  /\ \A p \in pccs : \A k \in DOMAIN ports : ports[k].uid # p.uid
  /\ istate \in [IBlocks -> IStates]
  /\ owner \in [IBlocks -> PortIds \cup {NULL}]
  /\ buf \in [IBlocks -> 0 .. BufferLen]
  /\ held \in [Names -> {NULL} \cup Cached]
  /\ added \subseteq Names /\ shifted \subseteq Names
  /\ pret \in {NULL} \cup 0 .. Modulus - 1

PortsInit ==
  /\ block_state = "INACTIVE"
  /\ ports = <<>> /\ pccs = {}
  /\ istate = [i \in IBlocks |-> "none"]
  /\ owner = [i \in IBlocks |-> NULL]
  /\ buf = [i \in IBlocks |-> 0]
  /\ held = [n \in Names |-> NULL] /\ added = {} /\ shifted = {}
  /\ pret = NULL

-----------------------------------------------------------------------------
(***************************************************************************)
(* The interface of the block.                                             *)
(***************************************************************************)

(* What realloc does to pointers into the old array. *)
Moved(h) == [n \in DOMAIN h |-> IF h[n] = NULL THEN NULL
                                ELSE [h[n] EXCEPT !.live = FALSE]]

(* Names that a call changes under a block that runs.                      *)
WhileRunning(ns) == IF block_state = "ACTIVE" THEN ns ELSE {}

(* ubx_port_add: the array grows, in place or not; a name may occur twice. *)
(* A block may do this in its step.                                        *)
PortAdd(u, n, d) ==
  /\ u \notin Uids /\ Len(ports) < MaxPorts
  /\ ports' = Append(ports, ClonedPort(u, n, d))
  /\ held' \in {held, Moved(held)} /\ added' = added \cup WhileRunning({n})
  /\ UNCHANGED <<block_state, pccs, ibVars, shifted>> /\ pret' = NULL

(* ubx_port_rm frees the port with its interaction arrays and moves the    *)
(* last port into its place.                                               *)
PortRm(n) ==
  /\ NamedIn(ports, n)
  /\ ports' = MoveLastInto(ports, Lookup(ports, n))
  /\ shifted' = shifted \cup WhileRunning({n, ports[Len(ports)].name})
  /\ UNCHANGED <<block_state, pccs, ibVars, held, added>> /\ pret' = NULL

(* Mutant of BlockStart: only pointers that are still NULL are fetched. *)
BlockStartKeeps ==
  /\ block_state = "INACTIVE" /\ MayStart
  /\ block_state' = "ACTIVE"
  /\ held' = [n \in Names |->
       IF held[n] # NULL THEN held[n]
       ELSE IF NamedIn(ports, n) THEN [index |-> Lookup(ports, n), live |-> TRUE] ELSE NULL]
  /\ UNCHANGED <<ports, pccs, ibVars, added, shifted>> /\ pret' = NULL

(* ubx_block_start: the start hook caches the ports it finds.              *)
BlockStart ==
  /\ block_state = "INACTIVE" /\ MayStart
  /\ block_state' = "ACTIVE"
  /\ held' = [n \in Names |->
       IF NamedIn(ports, n) THEN [index |-> Lookup(ports, n), live |-> TRUE] ELSE NULL]
  /\ UNCHANGED <<ports, pccs, ibVars, added, shifted>> /\ pret' = NULL

BlockStop ==
  /\ block_state = "ACTIVE"
  /\ block_state' = "INACTIVE" /\ added' = {} /\ shifted' = {}
  /\ UNCHANGED <<ports, pccs, ibVars, held>> /\ pret' = NULL

-----------------------------------------------------------------------------
(***************************************************************************)
(* Connecting.                                                             *)
(***************************************************************************)

UpdatePorts(F(_)) ==
  /\ ports' = [k \in DOMAIN ports |-> F(ports[k])]
  /\ pccs' = {F(p) : p \in pccs}

RoomFor(arr) == IF arr = NULL THEN TRUE ELSE Len(arr) < MaxConns

(* ubx_ports_connect_uni: first the out end; the in end is left when it is *)
(* no in port, and the out end stays connected.                            *)
ConnectEnds(o, q, i) == UpdatePorts(LAMBDA p :
  [p EXCEPT
     !.out_interaction = IF p.uid = o THEN ArrayBlockAdd(@, i) ELSE @,
     !.in_interaction  = IF p.uid = q /\ "in" \in p.dir
                         THEN ArrayBlockAdd(@, i) ELSE @])

PortsConnectUni(o, q, i) ==
  /\ istate[i] # "none"
  /\ "out" \in Port(o).dir
  /\ RoomFor(Port(o).out_interaction) /\ RoomFor(Port(q).in_interaction)
  /\ ConnectEnds(o, q, i)
  /\ UNCHANGED <<ibVars, cacheVars>> /\ pret' = NULL

(* ubx_ports_disconnect_uni: the in end only when the out end was removed. *)
(* It is called for ports that have been connected before, so that the     *)
(* arrays exist.                                                           *)
PortsDisconnectUni(o, q, i) ==
  /\ "out" \in Port(o).dir /\ Connected(Port(o).out_interaction, i)
  /\ "in" \in Port(q).dir => Port(q).in_interaction # NULL
  /\ UpdatePorts(LAMBDA p :
       [p EXCEPT
          !.out_interaction = IF p.uid = o THEN ArrayBlockRm(@, i) ELSE @,
          !.in_interaction  = IF p.uid = q /\ "in" \in p.dir
                              THEN ArrayBlockRm(@, i) ELSE @])
  /\ UNCHANGED <<ibVars, cacheVars>> /\ pret' = NULL

(* conn_uni of lua/ubx.lua: ports by name, both directions checked before  *)
(* a new interaction is created, initialised, connected and started        *)
(* (unless dont_start).                                                    *)
ConnUni(m, n, i) ==
  /\ istate[i] = "none"
  /\ NamedIn(ports, m) /\ NamedIn(ports, n)
  /\ LET o == ports[Lookup(ports, m)]
         q == ports[Lookup(ports, n)]
     IN  /\ "out" \in o.dir /\ "in" \in q.dir
         /\ RoomFor(o.out_interaction) /\ RoomFor(q.in_interaction)
         /\ ConnectEnds(o.uid, q.uid, i)
  /\ istate' \in {[istate EXCEPT ![i] = s] : s \in {"INACTIVE", "ACTIVE"}}
  /\ buf' = [buf EXCEPT ![i] = 0]
  /\ owner' = [owner EXCEPT ![i] = NULL]
  /\ UNCHANGED cacheVars /\ pret' = NULL

(* port_clone_conn: a port of the opposite direction, and one interaction  *)
(* per direction of the given port, i towards it and j from it.            *)
PortCloneConn(u, n, i, j) ==
  /\ u \notin Uids /\ NamedIn(ports, n) /\ Cardinality(pccs) < MaxPccs
  /\ i # j /\ istate[i] = "none" /\ istate[j] = "none"
  /\ LET k    == Lookup(ports, n)
         prot == ports[k]
         New  == {i : x \in prot.dir \cap {"in"}} \cup {j : x \in prot.dir \cap {"out"}}
         Add(arr, x, d) == IF d \in prot.dir THEN ArrayBlockAdd(arr, x) ELSE arr
     IN  /\ RoomFor(prot.in_interaction) /\ RoomFor(prot.out_interaction)
         /\ ports' = [ports EXCEPT ![k].in_interaction = Add(@, i, "in"),
                                   ![k].out_interaction = Add(@, j, "out")]
         /\ pccs' = pccs \cup
              {[ClonedPort(u, n, (IF "in" \in prot.dir THEN {"out"} ELSE {}) \cup
                                 (IF "out" \in prot.dir THEN {"in"} ELSE {}))
                EXCEPT !.out_interaction = Add(@, i, "in"),
                       !.in_interaction = Add(@, j, "out")]}
         /\ istate' = [x \in IBlocks |-> IF x \in New THEN "ACTIVE" ELSE istate[x]]
         /\ buf' = [x \in IBlocks |-> IF x \in New THEN 0 ELSE buf[x]]
         /\ owner' = [x \in IBlocks |-> IF x \in New THEN u ELSE owner[x]]
  /\ UNCHANGED cacheVars /\ pret' = NULL

(* The finaliser that port_clone_conn sets, once Lua collects the port.    *)
CollectPort(p) ==
  /\ pccs' = pccs \ {p}
  /\ UNCHANGED <<ports, ibVars, cacheVars>> /\ pret' = NULL

(* The interactions' own life cycle: start and stop, and block_unload of   *)
(* one that is not connected any more.                                     *)
IBlockStart(i) ==
  /\ istate[i] = "INACTIVE"
  /\ istate' = [istate EXCEPT ![i] = "ACTIVE"]
  /\ UNCHANGED <<ports, pccs, owner, buf, cacheVars>> /\ pret' = NULL

IBlockStop(i) ==
  /\ istate[i] = "ACTIVE"
  /\ istate' = [istate EXCEPT ![i] = "INACTIVE"]
  /\ UNCHANGED <<ports, pccs, owner, buf, cacheVars>> /\ pret' = NULL

IBlockUnload(i) ==
  /\ istate[i] # "none" /\ ~ InUse(i)
  /\ istate' = [istate EXCEPT ![i] = "none"]
  /\ buf' = [buf EXCEPT ![i] = 0] /\ owner' = [owner EXCEPT ![i] = NULL]
  /\ UNCHANGED <<ports, pccs, cacheVars>> /\ pret' = NULL

-----------------------------------------------------------------------------
(***************************************************************************)
(* Reading and writing.                                                    *)
(***************************************************************************)

(* __port_write: to every active interaction, as often as it is connected. *)
Written(arr) == [i \in IBlocks |->
  IF istate[i] = "ACTIVE" /\ buf[i] + Occurrences(arr, i) > BufferLen
  THEN BufferLen
  ELSE IF istate[i] = "ACTIVE" THEN buf[i] + Occurrences(arr, i) ELSE buf[i]]

PortWrite(u) ==
  /\ "out" \in Port(u).dir
  /\ Port(u).out_interaction # NULL
  /\ buf' = Written(Port(u).out_interaction)
  /\ UNCHANGED <<ports, pccs, istate, owner, cacheVars>> /\ pret' = NULL

(* The results that the read hook of an active interaction may have.       *)
ReadResults(i) == {IF buf[i] > 0 THEN 1 ELSE 0} \cup (IF i \in Faulty THEN {-1} ELSE {})

(* Mutant of Asked: an interaction that is not active ends the search. *)
AskedStops(arr) == {k \in DOMAIN arr : \A l \in 1 .. k : istate[arr[l]] = "ACTIVE"}

(* The places of the interactions that __port_read asks: the active ones.  *)
Asked(arr) == {k \in DOMAIN arr : istate[arr[k]] = "ACTIVE"}

(* __port_read goes through them in order; the results are held in an      *)
(* uint32_t, so that everything but 0 counts as data and ends the search.  *)
PortRead(u) ==
  /\ "in" \in Port(u).dir
  /\ IF Port(u).in_interaction = NULL
     THEN pret' = 0 /\ UNCHANGED buf
     ELSE LET arr   == Port(u).in_interaction
              asked == Asked(arr)
          IN \/ /\ \A k \in asked : 0 \in ReadResults(arr[k])
                /\ pret' = 0 /\ UNCHANGED buf
             \/ \E k \in asked : \E r \in ReadResults(arr[k]) \ {0} :
                  /\ \A l \in asked : l < k => 0 \in ReadResults(arr[l])
                  /\ pret' = r % Modulus
                  /\ buf' = [buf EXCEPT ![arr[k]] = IF r > 0 THEN @ - 1 ELSE @]
  /\ UNCHANGED <<ports, pccs, istate, owner, cacheVars>>

Read == \E u \in Uids : PortRead(u)

PortsNext ==
  \/ \E u \in PortIds, n \in Names, d \in Dirs : PortAdd(u, n, d)
  \/ \E n \in Names : PortRm(n)
  \/ BlockStart \/ BlockStop
  \/ \E o, q \in Uids, i \in IBlocks :
       PortsConnectUni(o, q, i) \/ PortsDisconnectUni(o, q, i)
  \/ \E m, n \in Names, i \in IBlocks : ConnUni(m, n, i)
  \/ \E u \in PortIds, n \in Names, i, j \in IBlocks : PortCloneConn(u, n, i, j)
  \/ \E p \in pccs : CollectPort(p)
  \/ \E i \in IBlocks : IBlockStart(i) \/ IBlockStop(i) \/ IBlockUnload(i)
  \/ \E u \in Uids : PortWrite(u)
  \/ Read

PortsSpec == PortsInit /\ [][PortsNext]_portVars

-----------------------------------------------------------------------------
(***************************************************************************)
(* Properties.                                                             *)
(***************************************************************************)

Counted(p) ==
  [uid |-> p.uid, name |-> p.name, dir |-> p.dir,
   ins |-> [i \in IBlocks |-> Occurrences(p.in_interaction, i)],
   outs |-> [i \in IBlocks |-> Occurrences(p.out_interaction, i)]]

Interface == INSTANCE PortInterface WITH ports <- {Counted(p) : p \in AllPorts}

(* Whatever order the arrays get into (array_block_rm and ubx_port_rm move *)
(* their last element), adding, removing, connecting and disconnecting     *)
(* affect the named port and interaction only.                             *)
ImplementsInterface == Interface!Spec

(* While a block runs, every pointer that its start hook cached designates *)
(* the port of that name, however the ports were added, removed and moved  *)
(* before, and still does when the interface changes in its step, but for  *)
(* what that must cost: after ubx_port_add any pointer may point into the  *)
(* old array, and after ubx_port_rm the name removed and the name of the   *)
(* port moved into its place may be at another one (ubx_port_add,          *)
(* ubx_port_rm).                                                           *)
PointerRight(n) ==
  /\ held[n] = NULL => ~ NamedIn(ports, n) \/ n \in added
  /\ held[n] # NULL => /\ held[n].live \/ added # {}
                       /\ \/ n \in shifted
                          \/ /\ held[n].index \in DOMAIN ports
                             /\ ports[held[n].index].name = n
CachedRight == block_state = "ACTIVE" => \A n \in Names : PointerRight(n)
HeldPortsRight == PortsTypeOK /\ CachedRight

HasData(p) == p.in_interaction # NULL /\ \E k \in DOMAIN p.in_interaction :
  istate[p.in_interaction[k]] = "ACTIVE" /\ buf[p.in_interaction[k]] > 0

(* A read succeeds, and takes one sample out of one interaction, whenever  *)
(* any active interaction of the port has one, whichever position it has   *)
(* and whatever state the others are in (__port_read).                     *)
TakesOne == \A u \in Uids : PortRead(u) =>
  LET taken == {i \in IBlocks : buf'[i] # buf[i]}
  IN  /\ (pret' # 0) = HasData(Port(u))
      /\ Cardinality(taken) = IF HasData(Port(u)) THEN 1 ELSE 0
      /\ \A i \in taken : buf'[i] = buf[i] - 1

ReadTakesOne == [][TakesOne]_portVars

(* port_read_timed returns the data of the port when the result is above   *)
(* 0, and the read hooks report errors by negative values: a result above  *)
(* 0 would have to mean that a sample was taken.                           *)
TimedReadHasData == [][Read /\ pret' > 0 => buf' # buf]_portVars

(* port_clone_conn cleans up interaction and port once the reference is    *)
(* lost.                                                                   *)
CollectedInteractionGone == \A i \in IBlocks :
  istate[i] # "none" /\ owner[i] # NULL => \E p \in pccs : p.uid = owner[i]

(* The block of a port is set for extra type checks (struct ubx_port).     *)
PortBlockSet == \A k \in DOMAIN ports : ports[k].block = "b"
=============================================================================
