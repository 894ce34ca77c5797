----------------------------- MODULE MCYoubotArm -----------------------------
(***************************************************************************)
(* An arm with two joints, with every position and set point ("arm"), and, *)
(* for what must happen at last, with one of each ("calibration"): only    *)
(* the contact with the limits matters there. The variable part says which *)
(* of them a behaviour is.                                                 *)
(***************************************************************************)
EXTENDS YoubotArm

CONSTANTS j1, j2
TwoJoints == {j1, j2}

(* Positions past the lower end of the scaling range, between the ranges   *)
(* and inside the upper range.                                             *)
SomePositions == {-90, 0, 82}
SomeCommands  == {-10, 10}

Calib == INSTANCE YoubotArm WITH Positions <- {0}, Commands <- {10}

VARIABLE part

Calibrates(A) == part = "calibration" /\ A /\ UNCHANGED part

MCInit == part \in {"arm", "calibration"} /\ Init
MCNext == (part = "arm" /\ Next /\ UNCHANGED part) \/ Calibrates(Calib!Next)
MCVars == <<part, vars>>

MCSpec ==
  /\ MCInit /\ [][MCNext]_MCVars
  /\ WF_MCVars(Calibrates(Calib!ProcUpdate))
  /\ \A j \in Joints :
       WF_MCVars(Calibrates(calibrating = 1 /\ Calib!ProcUpdate /\ j \in contact'))

(* A calibration that is not requested again comes to its end, however     *)
(* late each joint arrives at its limit (arm_proc_update).                 *)
EveryCalibrationEnds == part = "calibration" => Calib!CalibrationEnds
=============================================================================
