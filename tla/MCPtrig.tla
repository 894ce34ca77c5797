------------------------------ MODULE MCPtrig ------------------------------
(* Ptrig on small sets of triggers and blocks. *)
EXTENDS Ptrig, TLC

CONSTANTS t1, t2, b1, b2

(* One trigger that steps two blocks, as ptrig2 of app_scripts/fmpc_sim.lua. *)
OneTriggers   == {t1}
TwoBlocks     == {b1, b2}
OneTrigBlocks == (t1 :> <<b1, b2>>)

(* Two triggers that share a block, one of them with num_steps=2. *)
TwoTriggers   == {t1, t2}
OneBlock      == {b1}
TwoTrigBlocks == (t1 :> <<b1>>) @@ (t2 :> <<b1, b1>>)
=============================================================================
