------------------------------ MODULE PortOps ------------------------------
(***************************************************************************)
(* Ports, configs and interaction arrays of a block as pure operators      *)
(* (src/ubx.c). A NULL terminated C array is the sequence of its elements, *)
(* or NULL as long as nothing was allocated.                               *)
(***************************************************************************)
EXTENDS Naturals, Sequences, FiniteSets, Null

(* array_block_add: append, after growing the array. *)
ArrayBlockAdd(arr, ib) == IF arr = NULL THEN <<ib>> ELSE Append(arr, ib)

(* Mutant of MoveLastInto: the last one is not zeroed after it was copied. *)
MoveLastIntoKeeps(arr, i) == [arr EXCEPT ![i] = arr[Len(arr)]]

(* Take element i out by moving the last one into its place. *)
MoveLastInto(arr, i) ==
  [j \in 1 .. Len(arr) - 1 |-> IF j = i THEN arr[Len(arr)] ELSE arr[j]]

LastMatch(arr, ib) ==
  CHOOSE i \in DOMAIN arr :
    arr[i] = ib /\ \A j \in DOMAIN arr : arr[j] = ib => j <= i

FirstMatch(arr, ok(_)) ==
  CHOOSE i \in DOMAIN arr : ok(arr[i]) /\ \A j \in 1 .. i - 1 : ~ ok(arr[j])

Connected(arr, ib) == IF arr = NULL THEN FALSE ELSE \E i \in DOMAIN arr : arr[i] = ib

(* Mutant of ArrayBlockRm: the last one goes, whichever was asked for. *)
ArrayBlockRmLast(arr, ib) ==
  IF Connected(arr, ib) THEN SubSeq(arr, 1, Len(arr) - 1) ELSE arr

(* array_block_rm: the last occurrence; -1, and no change, if there is     *)
(* none. The array must have been allocated.                               *)
ArrayBlockRm(arr, ib) ==
  IF Connected(arr, ib) THEN MoveLastInto(arr, LastMatch(arr, ib)) ELSE arr

Occurrences(arr, ib) ==
  IF arr = NULL THEN 0 ELSE Cardinality({k \in DOMAIN arr : arr[k] = ib})

Elems(s) == {s[i] : i \in DOMAIN s}

(* ubx_clone_port_data: what the caller had put into *p is zeroed first.   *)
ClonedPort(uid, name, dir) ==
  [uid |-> uid, name |-> name, dir |-> dir,
   in_interaction |-> NULL, out_interaction |-> NULL, block |-> NULL]

NamedIn(arr, name) == \E i \in DOMAIN arr : arr[i].name = name

(* ubx_port_get, ubx_config_get and the search loops of ubx_port_rm and    *)
(* ubx_config_rm: the first entry of that name.                            *)
Lookup(arr, name) == FirstMatch(arr, LAMBDA e : e.name = name)
=============================================================================
