---------------------------- MODULE MCScanDriver ----------------------------
(***************************************************************************)
(* The driver of the laser scanner with a device that sends its scans      *)
(* without a pause, and with one that may fall silent in the middle of a   *)
(* scan: of that one the first samples of two scans are looked at.         *)
(***************************************************************************)
EXTENDS ScanDriver

Short(A) == A /\ (stalls => dev'.scan <= 2 /\ dev'.pos <= 2)

MCSpec ==
  /\ Init /\ [][Short(Next)]_vars
  /\ WF_vars(Short(Thread)) /\ WF_vars(Short(Client /\ pc # "idle"))

(* Two threads never write to the cache at a time, no scan is handed out   *)
(* twice or after a later one, and stop and the operations that begin with *)
(* it return, also when the device is silent (startScan, stop).            *)
ThreadsAndGrabs == StopReturns /\ OneThread /\ GrabsAdvance
=============================================================================
