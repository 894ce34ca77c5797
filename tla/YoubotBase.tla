----------------------------- MODULE YoubotBase -----------------------------
(***************************************************************************)
(* The base of the youBot driver (std_blocks/youbot_driver): the control   *)
(* mode state machine that base_proc_update runs in every cycle, its       *)
(* command watchdog, and what the life-cycle hooks of the block leave      *)
(* behind in the EtherCAT output image.                                    *)
(*                                                                         *)
(* The hooks are called by one thread at a time (see Ptrig), so each is    *)
(* one action. What a port delivers is any choice: commands may have been  *)
(* written before, during or after any other event.  A set point is        *)
(* abstracted to its unit, "zero" standing for the value 0.                *)
(***************************************************************************)
EXTENDS Integers

CONSTANTS
  Wheels,         \* the wheel motors
  BASE_TIMEOUT,   \* seconds without a command after which the base stops
  TicksPerSec,    \* resolution of the monotonic clock
  MaxSec          \* bound: the clock stops at this second

ASSUME WheelsAssumption == Wheels # {}
ASSUME TimeoutAssumption == BASE_TIMEOUT \in Nat \ {0}
ASSUME ClockAssumption == TicksPerSec \in Nat \ {0} /\ MaxSec \in Nat

VARIABLES
  block_state,    \* life-cycle state of the driver block
  control_mode,   \* base->control_mode
  cmd_val,        \* wheel_inf[i].cmd_val
  mod_init_stat,  \* wheels whose controller reported MODULE_INIT
  i2t_ex,         \* wheels whose I2T_EXCEEDED flag was seen set
  last_cmd,       \* base->last_cmd
  outputs,        \* the EtherCAT output image that every frame carries
  mode_in,        \* read from p_control_mode in the last cycle
  mode_out,       \* last written to p_control_mode in the last cycle
  now,            \* CLOCK_MONOTONIC
  heard,          \* history: when the driver last read a command
  computed        \* history: when outputs was last computed

portVars == <<mode_in, mode_out>>
baseVars == <<control_mode, cmd_val, mod_init_stat, i2t_ex, last_cmd, outputs>>
vars     == <<block_state, baseVars, portVars, now, heard, computed>>

Modes   == {"MOTORSTOP", "POSITIONING", "VELOCITY", "NOACTION",
            "SET_POSITION_TO_REFERENCE", "PWM", "CURRENT", "INITIALIZE"}
Driving == {"VELOCITY", "CURRENT"}

(* The modes that the switch of base_proc_update has a case for. *)
Supported == Driving \cup {"MOTORSTOP", "INITIALIZE"}

Unit(m)    == IF m = "VELOCITY" THEN "rpm" ELSE "mA"
Units      == {"rpm", "mA"}
Values     == [Wheels -> {"zero"} \cup Units]
Zero       == [w \in Wheels |-> "zero"]
SetPts(m)  == [Wheels -> {"zero", Unit(m)}]

(* A struct timespec; the nanoseconds are counted in ticks. *)
Time       == [sec : Nat, tick : 0 .. TicksPerSec - 1]
Ticks(t)   == t.sec * TicksPerSec + t.tick
Epoch      == [sec |-> 0, tick |-> 0]

(* Every variable holds what the code keeps there: only supported modes    *)
(* are in force.                                                           *)
TypeOK ==
  /\ block_state \in {"PREINIT", "INACTIVE", "ACTIVE"}
  /\ control_mode \in Supported
  /\ cmd_val \in Values
  /\ mod_init_stat \in SUBSET Wheels
  /\ i2t_ex \in SUBSET Wheels
  /\ last_cmd \in Time
  /\ outputs \in [mode : Supported, value : Values]
  /\ mode_in \in Modes \cup {"none", "invalid"}
  /\ mode_out \in Modes \cup {"none"}
  /\ now \in Time /\ heard \in Time /\ computed \in Time

Init ==
  /\ block_state = "PREINIT"
  /\ control_mode = "INITIALIZE"
  /\ cmd_val = Zero
  /\ mod_init_stat = {}
  /\ i2t_ex = {}
  /\ last_cmd = Epoch
  /\ outputs = [mode |-> "MOTORSTOP", value |-> Zero]
  /\ mode_in = "none" /\ mode_out = "none"
  /\ now = Epoch /\ heard = Epoch /\ computed = Epoch

-----------------------------------------------------------------------------
(***************************************************************************)
(* The life cycle of the block.                                            *)
(***************************************************************************)

(* youbot_init succeeds: the driver state, the output image in it          *)
(* included, is allocated zeroed; base_config_params sets the mode. A      *)
(* failing youbot_init frees it and the block stays PREINIT.               *)
YoubotInit ==
  /\ block_state = "PREINIT"
  /\ block_state' = "INACTIVE"
  /\ control_mode' = "INITIALIZE"
  /\ cmd_val' = Zero
  /\ mod_init_stat' = {}
  /\ i2t_ex' = {}
  /\ last_cmd' = Epoch
  /\ outputs' = [mode |-> "MOTORSTOP", value |-> Zero]
  /\ mode_in' = "none" /\ mode_out' = "none"
  /\ UNCHANGED <<now, heard, computed>>

(* youbot_start zeroes the commands (base_prepare_start), which is all     *)
(* that remains of it when a mailbox or the change to OPERATIONAL fails.   *)
(* If it succeeds it sends the output image as it is.                      *)
YoubotStart ==
  /\ block_state = "INACTIVE"
  /\ block_state' \in {"INACTIVE", "ACTIVE"}
  /\ cmd_val' = Zero
  /\ mode_in' = "none" /\ mode_out' = "none"
  /\ UNCHANGED <<control_mode, mod_init_stat, i2t_ex, last_cmd, outputs,
                 now, heard, computed>>

(* youbot_stop does nothing. *)
YoubotStop ==
  /\ block_state = "ACTIVE"
  /\ block_state' = "INACTIVE"
  /\ UNCHANGED <<baseVars, portVars, now, heard, computed>>

YoubotCleanup ==
  /\ block_state = "INACTIVE"
  /\ block_state' = "PREINIT"
  /\ UNCHANGED <<baseVars, portVars, now, heard, computed>>

-----------------------------------------------------------------------------
(***************************************************************************)
(* base_proc_update.                                                       *)
(***************************************************************************)

(* Mutant of ModeAfterErrflg: I2T_EXCEEDED is only counted, too. *)
ModeAfterErrflgCounted(i2t) == control_mode

(* base_proc_errflg: the rising edge of I2T_EXCEEDED on a wheel stops the  *)
(* base. The other errors are only counted.                                *)
ModeAfterErrflg(i2t) == IF i2t \subseteq i2t_ex THEN control_mode ELSE "MOTORSTOP"

(* Mutant of Expired: off by one. *)
ExpiredLater == now.sec - last_cmd.sec > BASE_TIMEOUT

(* base_check_watchdog without a trigger compares whole seconds. *)
Expired == now.sec - last_cmd.sec >= BASE_TIMEOUT

Output(m, val) ==
  /\ control_mode' = m
  /\ cmd_val' = val
  /\ outputs' = [mode |-> m, value |-> val]

(* The switch over the control mode m, with val in cmd_val. triggered:     *)
(* a mode command triggered the watchdog in this cycle already.            *)
Idling(m, val, triggered) ==
  /\ m \notin Driving
  /\ Output(IF m \in Supported THEN m ELSE "MOTORSTOP", val)
  /\ last_cmd' = IF triggered THEN now ELSE last_cmd
  /\ heard' = IF triggered THEN now ELSE heard

(* Mutant of NewSetPoint: it does not trigger the watchdog. *)
NewSetPointUntriggered(m) ==
  /\ m \in Driving
  /\ \E val \in SetPts(m) : Output(m, val)
  /\ UNCHANGED last_cmd
  /\ heard' = now

(* A set point was read from p_cmd_vel, p_cmd_twist or p_cmd_cur. *)
NewSetPoint(m) ==
  /\ m \in Driving
  /\ \E val \in SetPts(m) : Output(m, val)
  /\ last_cmd' = now
  /\ heard' = now

(* No new set point, and the one in force is zero: the watchdog is fed. *)
Resting(m, val, triggered) ==
  /\ m \in Driving
  /\ val = Zero
  /\ Output(m, val)
  /\ last_cmd' = now
  /\ heard' = IF triggered THEN now ELSE heard

(* Mutant of Holding: the watchdog stops the motors but keeps the mode. *)
HoldingMode(m, val) ==
  /\ m \in Driving
  /\ val # Zero
  /\ control_mode' = m
  /\ cmd_val' = val
  /\ outputs' = [mode |-> IF Expired THEN "MOTORSTOP" ELSE m, value |-> val]
  /\ UNCHANGED <<last_cmd, heard>>

(* No new set point: go on with the one in force unless it is too old. *)
Holding(m, val) ==
  /\ m \in Driving
  /\ val # Zero
  /\ Output(IF Expired THEN "MOTORSTOP" ELSE m, val)
  /\ UNCHANGED <<last_cmd, heard>>

HandleMode(m, val, triggered) ==
  \/ Idling(m, val, triggered)
  \/ NewSetPoint(m)
  \/ Resting(m, val, triggered)
  \/ Holding(m, val)

(* Some wheel's controller is not initialised yet: no command is read. *)
Unconfigured ==
  /\ mod_init_stat' # Wheels
  /\ HandleMode("INITIALIZE", cmd_val, FALSE)
  /\ mode_in' = "none" /\ mode_out' = "none"

(* No mode command; the end of the initialisation is announced. *)
KeepMode(m) ==
  /\ mod_init_stat' = Wheels
  /\ mode_in' = "none"
  /\ \/ /\ m = "INITIALIZE"
        /\ mode_out' = "MOTORSTOP"
        /\ HandleMode("MOTORSTOP", cmd_val, FALSE)
     \/ /\ m # "INITIALIZE"
        /\ mode_out' = "none"
        /\ HandleMode(m, cmd_val, FALSE)

(* Mutant of Commanded: the range of the mode is not checked. *)
CommandedUnchecked(cm) == cm

(* The mode that a command sets and that is echoed. *)
Commanded(cm) == IF cm = "invalid" THEN "MOTORSTOP" ELSE cm

(* Mutant of SetMode: the set point of the old mode is kept. *)
SetModeKeepsSetPoint ==
  /\ mod_init_stat' = Wheels
  /\ \E cm \in Modes \cup {"invalid"} :
       /\ mode_in' = cm
       /\ mode_out' = Commanded(cm)
       /\ HandleMode(Commanded(cm), cmd_val, TRUE)

(* A mode command: it resets the set point and triggers the watchdog. *)
SetMode ==
  /\ mod_init_stat' = Wheels
  /\ \E cm \in Modes \cup {"invalid"} :
       /\ mode_in' = cm
       /\ mode_out' = Commanded(cm)
       /\ HandleMode(Commanded(cm), Zero, TRUE)

(* A cycle that received process data: error flags, mode, set point. *)
ProcUpdate ==
  /\ block_state = "ACTIVE"
  /\ \E module_init, i2t \in SUBSET Wheels :
       /\ mod_init_stat' = mod_init_stat \cup module_init
       /\ i2t_ex' = i2t
       /\ Unconfigured \/ KeepMode(ModeAfterErrflg(i2t)) \/ SetMode
  /\ computed' = now
  /\ UNCHANGED <<block_state, now>>

(* A cycle whose receive failed sends the old output image again. *)
LostCycle ==
  /\ block_state = "ACTIVE"
  /\ mode_in' = "none" /\ mode_out' = "none"
  /\ UNCHANGED <<block_state, baseVars, now, heard, computed>>

Tick ==
  /\ now.sec < MaxSec
  /\ now' = IF now.tick < TicksPerSec - 1
            THEN [now EXCEPT !.tick = @ + 1]
            ELSE [sec |-> now.sec + 1, tick |-> 0]
  /\ UNCHANGED <<block_state, baseVars, portVars, heard, computed>>

Next ==
  \/ YoubotInit \/ YoubotStart \/ YoubotStop \/ YoubotCleanup
  \/ ProcUpdate \/ LostCycle
  \/ Tick

Spec == Init /\ [][Next]_vars

-----------------------------------------------------------------------------
(***************************************************************************)
(* Properties.                                                             *)
(***************************************************************************)
Moving(image) == image.mode \in Driving /\ image.value # Zero

(* Wheels driven by a cycle that processed its inputs obey a command that  *)
(* was read less than BASE_TIMEOUT seconds before, to the tick, although   *)
(* the watchdog compares whole seconds and is also fed by zero set points. *)
WatchdogStops ==
  Moving(outputs) => Ticks(computed) - Ticks(heard) < BASE_TIMEOUT * TicksPerSec

(* The watchdog never stops a base that read a command within the last     *)
(* BASE_TIMEOUT - 1 seconds: nothing but a mode command, an I2T error or   *)
(* a silence longer than that ends a driving mode while the block lives.   *)
WatchdogPatient ==
  [][/\ control_mode \in Driving /\ control_mode' \notin Driving
     /\ mode_in' = "none"
     /\ i2t_ex' \subseteq i2t_ex
     /\ block_state = "ACTIVE"
     => Ticks(now) - Ticks(heard) > (BASE_TIMEOUT - 1) * TicksPerSec]_vars

(* A motor is put in a driving mode only when every wheel is initialised,  *)
(* and then its value is in that mode's unit: no rpm is left over as a     *)
(* current after a change of mode, a restart or a stop.                    *)
OutputsConsistent ==
  outputs.mode \in Driving =>
    /\ mod_init_stat = Wheels
    /\ outputs.value \in SetPts(outputs.mode)

(* A base that was stopped, by whatever cause, drives again only in a      *)
(* cycle that reads the command for that mode: fresh set points alone do   *)
(* not restart it.                                                         *)
NoRestart ==
  [][outputs.mode \notin Driving /\ outputs'.mode \in Driving
     => mode_in' = outputs'.mode]_vars

(* An I2T error stops the base in the cycle that reports it, unless a mode *)
(* command of the same cycle overrides it.                                 *)
I2tStops ==
  [][~ (i2t_ex' \subseteq i2t_ex) /\ mode_in' = "none"
     => outputs'.mode \notin Driving]_vars

(* youbot_start says "reset old commands": the frame it sends should carry *)
(* none from before the stop. The code resets cmd_val but sends outputs.   *)
OldCommandsReset ==
  [][block_state = "INACTIVE" /\ block_state' = "ACTIVE" => ~ Moving(outputs')]_vars

(* base_set_control_mode of the youBot scripts takes the echo of its mode  *)
(* for "true if mode was set": an echoed mode should be the one set.       *)
EchoedModeSet == mode_out # "none" => control_mode = mode_out
=============================================================================
