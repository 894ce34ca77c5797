----------------------------- MODULE NodeParts -----------------------------
(***************************************************************************)
(* The parts of a node side by side: its registries, the ports of a block, *)
(* a logger that reads such ports, and the launch that sets all this up.   *)
(***************************************************************************)
EXTENDS Node, Ports, FileLogger, Launch

(* A read of a port takes one sample if any interaction has one; a column  *)
(* of the log never goes back to an older sample; the logger's cleanup     *)
(* leaves no port, connection or interaction of its own (__port_read,      *)
(* step and cleanup of file_logger.lua).                                   *)
SamplesRight == ReadTakesOne /\ LogMonotone /\ CleanedUp

(* Modules may be loaded and unloaded in any order: what is registered     *)
(* dangles only when the init of its module failed. And a launch gives     *)
(* every block it initialises the configuration of the outermost system,   *)
(* and carries a complete model through to its last connection.            *)
StartUpSafe ==
  /\ TypeOK /\ DanglingOnlyAfterFailure
  /\ LaunchTypes /\ OutermostWins /\ CompleteLaunches
=============================================================================
