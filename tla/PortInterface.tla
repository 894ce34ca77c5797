--------------------------- MODULE PortInterface ---------------------------
(***************************************************************************)
(* What connecting promises: a block has a collection of ports, each port  *)
(* has in either direction a bag of interactions, and every operation      *)
(* touches only the port and the interaction it was called for. There is   *)
(* no order of ports or of connections.                                    *)
(***************************************************************************)
EXTENDS Naturals

CONSTANTS PortIds, Names, IBlocks

VARIABLE ports   \* set of [uid, name, dir, ins, outs]

PortDirs == SUBSET {"in", "out"}
NoConnections == [i \in IBlocks |-> 0]

Replace(old, new) == ports' = (ports \ old) \cup new

Init == ports = {}

(* A new port, unconnected. *)
Add == \E u \in PortIds, n \in Names, d \in PortDirs :
  /\ \A p \in ports : p.uid # u
  /\ Replace({}, {[uid |-> u, name |-> n, dir |-> d,
                   ins |-> NoConnections, outs |-> NoConnections]})

(* A port goes with its connections; the other ends keep theirs. *)
Remove == \E p \in ports : Replace({p}, {})

(* Both ends, or only the out end when the other is no in port. *)
Connect == \E o, q \in ports, i \in IBlocks :
  LET oo == [o EXCEPT !.outs[i] = @ + 1]
      qq == [(IF o = q THEN oo ELSE q) EXCEPT !.ins[i] = @ + 1]
  IN  /\ "out" \in o.dir
      /\ IF "in" \in q.dir
         THEN Replace({o, q}, {qq} \cup (IF o = q THEN {} ELSE {oo}))
         ELSE Replace({o}, {oo})

(* The out end, and the in end unless that fails. *)
Disconnect == \E o, q \in ports, i \in IBlocks :
  LET oo == [o EXCEPT !.outs[i] = @ - 1]
      qq == [(IF o = q THEN oo ELSE q) EXCEPT !.ins[i] = @ - 1]
  IN  /\ "out" \in o.dir /\ o.outs[i] > 0
      /\ IF "in" \in q.dir /\ q.ins[i] > 0
         THEN Replace({o, q}, {qq} \cup (IF o = q THEN {} ELSE {oo}))
         ELSE Replace({o}, {oo})

(* A port cloned from another one, connected with it. *)
CloneConn == \E u \in PortIds, n \in Names, p \in ports : \E i, j \in IBlocks :
  LET toProt == "in" \in p.dir
      toPort == "out" \in p.dir
  IN  /\ \A x \in ports : x.uid # u
      /\ Replace({p},
           {[p EXCEPT !.ins[i] = IF toProt THEN @ + 1 ELSE @,
                      !.outs[j] = IF toPort THEN @ + 1 ELSE @],
            [uid |-> u, name |-> n,
             dir |-> (IF toProt THEN {"out"} ELSE {}) \cup
                     (IF toPort THEN {"in"} ELSE {}),
             outs |-> [NoConnections EXCEPT ![i] = IF toProt THEN 1 ELSE 0],
             ins |-> [NoConnections EXCEPT ![j] = IF toPort THEN 1 ELSE 0]]})

Next == Add \/ Remove \/ Connect \/ Disconnect \/ CloneConn
Spec == Init /\ [][Next]_ports
=============================================================================
