----------------------------- MODULE YoubotArm -----------------------------
(***************************************************************************)
(* An arm of the youBot driver (std_blocks/youbot_driver): the control     *)
(* mode machine that arm_proc_update runs in every cycle, the calibration  *)
(* machine that overrides it, and the soft limits of the joints.           *)
(*                                                                         *)
(* As in YoubotBase a hook is one action and a port delivers any value or  *)
(* none. A set point is a number with its unit. The position of a joint is *)
(* in percent of its limit on that side, so that all joints have the same  *)
(* limits.                                                                 *)
(***************************************************************************)
EXTENDS Integers

CONSTANTS
  Joints,      \* the joint motors
  Positions,   \* measured positions, in percent of the limit
  Commands,    \* set points that the ports deliver
  SCALE_START, \* YOUBOT_ARM_SCALE_START, in percent
  SCALE_END,   \* YOUBOT_ARM_SCALE_END, in percent
  MoveIn,      \* arm_calib_move_in_vel
  RefPos       \* arm_calib_ref_pos

ASSUME JointsAssumption == Joints # {}
ASSUME PositionsAssumption == Positions \subseteq Int /\ Positions # {}
ASSUME CommandsAssumption == Commands \subseteq Int
ASSUME ScaleAssumption ==
  SCALE_START \in Nat /\ SCALE_END \in Nat /\ SCALE_START < SCALE_END
ASSUME CalibAssumption == MoveIn \in Nat \ {0} /\ RefPos \in Nat \ {0}

VARIABLES
  block_state,    \* life-cycle state of the driver block
  control_mode,   \* arm->control_mode
  cmd_val,        \* jnt_inf[i].cmd_val
  mod_init_stat,  \* joints whose controller reported MODULE_INIT
  i2t_ex,         \* joints whose I2T_EXCEEDED flag was seen set
  pos,            \* arm->pos
  calibrating,    \* 0: no, 1: moving to the limits, 2: taking the reference
  axis_at_limit,  \* joints that reached their limit in this calibration
  jntlim_safety_disabled,
  outputs,        \* the EtherCAT output image that every frame carries
  mode_in,        \* read from p_control_mode in the last cycle
  calib_in,       \* p_calibrate_cmd had data in the last cycle
  fatal,          \* an error of the last cycle asked for a motor stop
  contact         \* history: joints not driven since they hit their limit

machineVars == <<control_mode, cmd_val, mod_init_stat, i2t_ex, pos>>
calibVars   == <<calibrating, axis_at_limit, jntlim_safety_disabled>>
inVars      == <<mode_in, calib_in, fatal>>
vars        == <<block_state, machineVars, calibVars, outputs, inVars, contact>>

Modes     == {"MOTORSTOP", "POSITIONING", "VELOCITY", "NOACTION",
              "SET_POSITION_TO_REFERENCE", "PWM", "CURRENT", "INITIALIZE"}
Driving   == {"POSITIONING", "VELOCITY", "CURRENT"}
Supported == Driving \cup {"MOTORSTOP", "SET_POSITION_TO_REFERENCE", "INITIALIZE"}

Unit(m) == CASE m = "VELOCITY" -> "rpm"
             [] m = "CURRENT"  -> "mA"
             [] OTHER          -> "ticks"

SetPoints == [unit : {"none", "rpm", "mA", "ticks"}, val : Int]

(* A set point of 0 is the same in every unit. *)
SetPoint(u, n) == [unit |-> IF n = 0 THEN "none" ELSE u, val |-> n]
Zero           == [j \in Joints |-> SetPoint("none", 0)]
Reference      == [j \in Joints |-> SetPoint("ticks", RefPos)]

(* Every variable holds what the code keeps there: only supported modes    *)
(* are in force, and no calibration keeps the flags of all joints.         *)
TypeOK ==
  /\ block_state \in {"PREINIT", "INACTIVE", "ACTIVE"}
  /\ control_mode \in Supported
  /\ cmd_val \in [Joints -> SetPoints]
  /\ mod_init_stat \in SUBSET Joints
  /\ i2t_ex \in SUBSET Joints
  /\ pos \in [Joints -> Positions \cup {0}]
  /\ calibrating \in 0 .. 2
  /\ axis_at_limit \in SUBSET Joints /\ axis_at_limit # Joints
  /\ jntlim_safety_disabled \in BOOLEAN
  /\ outputs \in [mode : Supported, value : [Joints -> SetPoints]]
  /\ mode_in \in Modes \cup {"none", "invalid"}
  /\ calib_in \in BOOLEAN /\ fatal \in BOOLEAN
  /\ contact \in SUBSET Joints

Init ==
  /\ block_state = "PREINIT"
  /\ control_mode = "INITIALIZE"
  /\ cmd_val = Zero
  /\ mod_init_stat = {} /\ i2t_ex = {}
  /\ pos = [j \in Joints |-> 0]
  /\ calibrating = 0 /\ axis_at_limit = {} /\ jntlim_safety_disabled = FALSE
  /\ outputs = [mode |-> "MOTORSTOP", value |-> Zero]
  /\ mode_in = "none" /\ calib_in = FALSE /\ fatal = FALSE
  /\ contact = {}

-----------------------------------------------------------------------------
(***************************************************************************)
(* The life cycle of the block.                                            *)
(***************************************************************************)

NoInput == mode_in' = "none" /\ calib_in' = FALSE /\ fatal' = FALSE

(* youbot_init succeeds: the driver state, the output image in it          *)
(* included, is allocated zeroed; arm_config_params sets the mode. A       *)
(* failing youbot_init frees it and the block stays PREINIT.               *)
YoubotInit ==
  /\ block_state = "PREINIT"
  /\ block_state' = "INACTIVE"
  /\ control_mode' = "INITIALIZE"
  /\ cmd_val' = Zero
  /\ mod_init_stat' = {} /\ i2t_ex' = {}
  /\ pos' = [j \in Joints |-> 0]
  /\ calibrating' = 0 /\ axis_at_limit' = {} /\ jntlim_safety_disabled' = FALSE
  /\ outputs' = [mode |-> "MOTORSTOP", value |-> Zero]
  /\ contact' = {}
  /\ NoInput

(* youbot_start zeroes the commands (arm_prepare_start) and nothing else;  *)
(* it fails when a mailbox or the change to OPERATIONAL fails.             *)
YoubotStart ==
  /\ block_state = "INACTIVE"
  /\ block_state' \in {"INACTIVE", "ACTIVE"}
  /\ cmd_val' = Zero
  /\ NoInput
  /\ UNCHANGED <<control_mode, mod_init_stat, i2t_ex, pos, calibVars, outputs,
                 contact>>

(* youbot_stop does nothing. *)
YoubotStop ==
  /\ block_state = "ACTIVE"
  /\ block_state' = "INACTIVE"
  /\ UNCHANGED <<machineVars, calibVars, outputs, inVars, contact>>

YoubotCleanup ==
  /\ block_state = "INACTIVE"
  /\ block_state' = "PREINIT"
  /\ UNCHANGED <<machineVars, calibVars, outputs, inVars, contact>>

-----------------------------------------------------------------------------
(***************************************************************************)
(* scale_down_cmd_val.                                                     *)
(***************************************************************************)
Abs(n) == IF n < 0 THEN -n ELSE n

(* Integer division that rounds to zero, as a conversion from double does. *)
Quotient(n, d) == IF n < 0 THEN -((-n) \div d) ELSE n \div d

(* The set point points from position p to the limit that p is close to. *)
TowardsLimit(n, p) == \/ p > SCALE_START /\ n > 0
                      \/ p < -SCALE_START /\ n < 0

Scaled(n, p) ==
  IF TowardsLimit(n, p)
  THEN Quotient(n * (SCALE_END - Abs(p)), SCALE_END - SCALE_START)
  ELSE n

ScaleDown(m, sp, p, disabled) ==
  IF disabled \/ m = "POSITIONING"
  THEN sp ELSE SetPoint(sp.unit, Scaled(sp.val, p))

-----------------------------------------------------------------------------
(***************************************************************************)
(* arm_proc_update.                                                        *)
(***************************************************************************)

(* The last part of every cycle, with mode m and set points val; reached   *)
(* are the joints that hit their limit in this cycle of a calibration.     *)
Output(m, val, reached) ==
  /\ control_mode' = m
  /\ cmd_val' = val
  /\ outputs' = [mode |-> m,
                 value |-> [j \in Joints |->
                   ScaleDown(m, val[j], pos'[j], jntlim_safety_disabled')]]
  /\ contact' = {j \in contact \cup reached :
                   m \notin Driving \/ (m # "POSITIONING" /\ outputs'.value[j].val = 0)}

(* The switch over the control mode outside a calibration. *)
Idling(m, val) ==
  /\ m \notin Driving \cup {"SET_POSITION_TO_REFERENCE"}
  /\ Output(IF m \in Supported THEN m ELSE "MOTORSTOP", val, {})

NewSetPoint(m) ==
  /\ m \in Driving
  /\ \E n \in [Joints -> Commands] :
       Output(m, [j \in Joints |-> SetPoint(Unit(m), n[j])], {})

Holding(m, val) == m \in Driving /\ Output(m, val, {})

SettingReference(m) ==
  /\ m = "SET_POSITION_TO_REFERENCE"
  /\ Output(m, Reference, {})

HandleMode(m, val) ==
  \/ Idling(m, val)
  \/ NewSetPoint(m)
  \/ Holding(m, val)
  \/ SettingReference(m)

(* Some joint's controller is not initialised yet: nothing is read. *)
Unconfigured ==
  /\ mod_init_stat' # Joints
  /\ mode_in' = "none" /\ calib_in' = FALSE
  /\ UNCHANGED <<pos, calibVars>>
  /\ HandleMode("INITIALIZE", cmd_val)

(* arm_move_to_lim: the commands of the joints, of which those in high     *)
(* draw the current that tells that they are at their limit.               *)
MoveInVal(high) ==
  [j \in Joints |-> IF j \in high THEN SetPoint("rpm", 0)
                    ELSE IF j \notin axis_at_limit THEN SetPoint("rpm", MoveIn)
                    ELSE cmd_val[j]]

(* Mutant of MoveToLimits: all joints must be at their limits at once. *)
MoveToLimitsAtOnce(high) ==
  /\ axis_at_limit' = high
  /\ axis_at_limit' # Joints
  /\ calibrating' = 1
  /\ Output("VELOCITY", MoveInVal(high), high)

(* Calibration, first phase: some joint is not at its limit yet. *)
MoveToLimits(high) ==
  /\ axis_at_limit' = axis_at_limit \cup high
  /\ axis_at_limit' # Joints
  /\ calibrating' = 1
  /\ Output("VELOCITY", MoveInVal(high), high)

(* Mutant of ReachLimits: the flags are left for the next calibration. *)
ReachLimitsKeepFlags(high) ==
  /\ axis_at_limit \cup high = Joints
  /\ axis_at_limit' = Joints
  /\ calibrating' = 2
  /\ Output("SET_POSITION_TO_REFERENCE", Reference, high)

(* All joints have been at their limits: this is the reference position. *)
ReachLimits(high) ==
  /\ axis_at_limit \cup high = Joints
  /\ axis_at_limit' = {}
  /\ calibrating' = 2
  /\ Output("SET_POSITION_TO_REFERENCE", Reference, high)

(* Calibration is requested or in its first phase. *)
Calibrate ==
  /\ calib_in' \/ calibrating = 1
  /\ mode_in' = "none"
  /\ jntlim_safety_disabled' = (jntlim_safety_disabled \/ calib_in')
  /\ \E high \in SUBSET Joints : MoveToLimits(high) \/ ReachLimits(high)

(* Mutant of EndCalibration: the soft limits stay disabled. *)
EndCalibrationUnlimited ==
  /\ ~ calib_in' /\ calibrating = 2
  /\ mode_in' = "none"
  /\ calibrating' = 0
  /\ UNCHANGED <<axis_at_limit, jntlim_safety_disabled>>
  /\ Output("MOTORSTOP", cmd_val, {})

(* Mutant of EndCalibration: back to the mode of the first phase. *)
EndCalibrationVelocity ==
  /\ ~ calib_in' /\ calibrating = 2
  /\ mode_in' = "none"
  /\ calibrating' = 0 /\ jntlim_safety_disabled' = FALSE
  /\ UNCHANGED axis_at_limit
  /\ Output("VELOCITY", cmd_val, {})

EndCalibration ==
  /\ ~ calib_in' /\ calibrating = 2
  /\ mode_in' = "none"
  /\ calibrating' = 0 /\ jntlim_safety_disabled' = FALSE
  /\ UNCHANGED axis_at_limit
  /\ Output("MOTORSTOP", cmd_val, {})

(* Mutant of SetMode: the set point of the old mode is kept. *)
SetModeKeepsSetPoint ==
  \E cm \in Modes \cup {"invalid"} :
    /\ mode_in' = cm
    /\ HandleMode(IF cm = "invalid" THEN "MOTORSTOP" ELSE cm, cmd_val)

(* A mode command resets the set points. *)
SetMode ==
  \E cm \in Modes \cup {"invalid"} :
    /\ mode_in' = cm
    /\ HandleMode(IF cm = "invalid" THEN "MOTORSTOP" ELSE cm, Zero)

KeepMode(m) == mode_in' = "none" /\ HandleMode(m, cmd_val)

(* No calibration: the control mode in force is m unless it is commanded. *)
Operate(m) ==
  /\ ~ calib_in' /\ calibrating = 0
  /\ UNCHANGED calibVars
  /\ KeepMode(m) \/ SetMode

Configured(m) ==
  /\ mod_init_stat' = Joints
  /\ pos' \in [Joints -> Positions]
  /\ calib_in' \in BOOLEAN
  /\ \/ Calibrate
     \/ EndCalibration
     \/ Operate(IF m = "INITIALIZE" THEN "MOTORSTOP" ELSE m)

(* Mutant of ModeAfterErrflg: errors are only counted. *)
ModeAfterErrflgCounted == control_mode

ModeAfterErrflg == IF fatal' THEN "MOTORSTOP" ELSE control_mode

(* arm_proc_errflg: hard tells that a joint reports overcurrent,           *)
(* undervoltage or overtemperature. I2T_EXCEEDED stops on its rising edge. *)
ProcErrflg ==
  \E hard \in BOOLEAN, i2t, module_init \in SUBSET Joints :
    /\ mod_init_stat \subseteq module_init
    /\ mod_init_stat' = module_init
    /\ i2t_ex' = i2t
    /\ fatal' = (hard \/ ~ (i2t \subseteq i2t_ex))

(* A cycle that received process data. *)
ProcUpdate ==
  /\ block_state = "ACTIVE"
  /\ ProcErrflg
  /\ Unconfigured \/ Configured(ModeAfterErrflg)
  /\ UNCHANGED block_state

(* A cycle whose receive failed sends the old output image again. *)
LostCycle ==
  /\ block_state = "ACTIVE"
  /\ NoInput
  /\ UNCHANGED <<block_state, machineVars, calibVars, outputs, contact>>

Next ==
  \/ YoubotInit \/ YoubotStart \/ YoubotStop \/ YoubotCleanup
  \/ ProcUpdate \/ LostCycle

Spec == Init /\ [][Next]_vars

(* A started driver goes on receiving process data, and a joint that is    *)
(* moved towards its limit arrives there and draws more current.           *)
FairSpec ==
  /\ Spec
  /\ WF_vars(ProcUpdate)
  /\ \A j \in Joints : WF_vars(calibrating = 1 /\ ProcUpdate /\ j \in contact')

-----------------------------------------------------------------------------
(***************************************************************************)
(* Properties.                                                             *)
(***************************************************************************)

(* The reference position is taken from joints that stand at their limits: *)
(* each has hit its limit and was not driven since, however often the      *)
(* calibration was requested again, stopped or restarted in between, and   *)
(* the reference reaches the motors unscaled.                              *)
ReferenceAtLimits ==
  calibrating = 2 =>
    /\ contact = Joints
    /\ outputs = [mode |-> "SET_POSITION_TO_REFERENCE", value |-> Reference]

(* Outside a calibration no velocity and no current drives a joint that is *)
(* past the scaling range further towards its limit.                       *)
SoftLimits ==
  calibrating = 0 /\ outputs.mode \in {"VELOCITY", "CURRENT"} =>
    \A j \in Joints :
      /\ pos[j] >= SCALE_END => outputs.value[j].val <= 0
      /\ pos[j] <= -SCALE_END => outputs.value[j].val >= 0

(* A joint is driven only when all are initialised, in the unit of the     *)
(* mode: nothing is left over from another mode, from a calibration that   *)
(* was broken off or from before a restart.                                *)
OutputsConsistent ==
  outputs.mode \in Driving =>
    /\ mod_init_stat = Joints
    /\ \A j \in Joints : outputs.value[j].unit \in {"none", Unit(outputs.mode)}

(* A stopped arm drives again only in a cycle that reads the command for   *)
(* that mode, or for a calibration that begins or goes on.                 *)
NoRestart ==
  [][outputs.mode \notin Driving /\ outputs'.mode \in Driving
     => mode_in' = outputs'.mode \/ calib_in' \/ calibrating = 1]_vars

(* Outside a calibration an error stops the arm in the cycle that reports  *)
(* it, unless a mode command of the same cycle overrides it.               *)
ErrorStops ==
  fatal /\ mode_in = "none" /\ calibrating # 1 => outputs.mode \notin Driving

(* A calibration that is not requested again comes to its end: one joint   *)
(* waits at its limit for the others, however late each arrives.           *)
CalibrationEnds ==
  <>[](block_state = "ACTIVE" /\ ~ calib_in) => <>[](calibrating = 0)

(* arm_proc_errflg says "I2T_EXCEEDED on joint %i setting arm to           *)
(* control_mode=MotorStop": no frame of that cycle should drive the arm.   *)
(* During a calibration arm_move_to_lim sets VELOCITY again.               *)
I2tStops ==
  [][~ (i2t_ex' \subseteq i2t_ex) /\ mode_in' = "none"
     => outputs'.mode \notin Driving]_vars

(* "Scale down the cmd output according to limits", by 100% to 0: the      *)
(* value sent should lie between 0 and the set point. Past the end of the  *)
(* range the factor of the code is negative, without bound.                *)
ScaledDown ==
  [][outputs' # outputs /\ outputs'.mode \in {"VELOCITY", "CURRENT"}
     => \A j \in Joints :
          LET sent == outputs'.value[j].val
              cmd  == cmd_val'[j].val
          IN  sent \in 0 .. cmd \/ sent \in cmd .. 0]_vars
=============================================================================
