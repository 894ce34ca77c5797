-------------------------- MODULE YoubotBaseProofs --------------------------
(***************************************************************************)
(* The safety and action properties of YoubotBase hold for every set of    *)
(* wheels, every timeout and every clock resolution.                       *)
(***************************************************************************)
EXTENDS YoubotBase, TLAPS

(* The image follows the mode, and while the base drives every wheel is    *)
(* initialised and the set point is in the unit of the mode.               *)
ModeInv ==
  /\ control_mode \in Driving =>
       /\ mod_init_stat = Wheels
       /\ cmd_val \in SetPts(control_mode)
       /\ outputs.mode = control_mode
  /\ OutputsConsistent

(* A set point other than zero was the last thing that fed the watchdog.   *)
FedInv == cmd_val # Zero => last_cmd = heard

IInv == ModeInv /\ FedInv /\ WatchdogStops

-----------------------------------------------------------------------------
LEMMA ValueTypes ==
  /\ Zero \in Values
  /\ \A m \in Driving : Zero \in SetPts(m) /\ SetPts(m) \subseteq Values
BY DEF Zero, Values, SetPts, Unit, Units, Driving

LEMMA EpochType == Epoch \in Time
BY ClockAssumption DEF Epoch, Time

(* The mode that the switch is entered with is a mode. *)
LEMMA ModeTypes ==
  /\ Driving \subseteq Supported /\ Supported \subseteq Modes
  /\ \A cm \in Modes \cup {"invalid"} : Commanded(cm) \in Modes
BY DEF Driving, Supported, Modes, Commanded

(* The switch keeps the variables it writes well typed. *)
LEMMA SwitchTypes ==
  ASSUME TypeOK, NEW m \in Modes, NEW val \in Values, NEW triggered \in BOOLEAN,
         HandleMode(m, val, triggered)
  PROVE  /\ control_mode' \in Supported
         /\ cmd_val' \in Values
         /\ outputs' \in [mode : Supported, value : Values]
         /\ last_cmd' \in Time /\ heard' \in Time
<1>1. CASE Idling(m, val, triggered)
  BY <1>1, ModeTypes DEF Idling, Output, TypeOK, Supported
<1>2. CASE NewSetPoint(m)
  BY <1>2, ModeTypes, ValueTypes DEF NewSetPoint, Output, TypeOK
<1>3. CASE Resting(m, val, triggered)
  BY <1>3, ModeTypes DEF Resting, Output, TypeOK
<1>4. CASE Holding(m, val)
  BY <1>4, ModeTypes DEF Holding, Output, TypeOK, Supported
<1>5. QED
  BY <1>1, <1>2, <1>3, <1>4 DEF HandleMode

(* Every state is well typed. *)
THEOREM TypeCorrect == Spec => []TypeOK
<1>1. Init => TypeOK
  BY ValueTypes, EpochType DEF Init, TypeOK, Supported
<1>2. TypeOK /\ [Next]_vars => TypeOK'
  <2> SUFFICES ASSUME TypeOK, [Next]_vars
               PROVE  TypeOK'
    OBVIOUS
  <2>1. CASE YoubotInit
    BY <2>1, ValueTypes, EpochType DEF YoubotInit, TypeOK, Supported
  <2>2. CASE YoubotStart
    BY <2>2, ValueTypes DEF YoubotStart, TypeOK
  <2>3. CASE YoubotStop \/ YoubotCleanup
    BY <2>3 DEF YoubotStop, YoubotCleanup, TypeOK, baseVars, portVars
  <2>4. CASE ProcUpdate
    <3>1. PICK module_init \in SUBSET Wheels, i2t \in SUBSET Wheels :
            /\ mod_init_stat' = mod_init_stat \cup module_init
            /\ i2t_ex' = i2t
            /\ Unconfigured \/ KeepMode(ModeAfterErrflg(i2t)) \/ SetMode
      BY <2>4 DEF ProcUpdate
    <3>2. /\ mod_init_stat' \in SUBSET Wheels /\ i2t_ex' \in SUBSET Wheels
          /\ block_state' \in {"PREINIT", "INACTIVE", "ACTIVE"}
          /\ now' \in Time /\ computed' \in Time
      BY <2>4, <3>1 DEF ProcUpdate, TypeOK
    <3>3. CASE Unconfigured
      BY <3>2, <3>3, SwitchTypes DEF Unconfigured, TypeOK, Modes
    <3>4. CASE KeepMode(ModeAfterErrflg(i2t))
      <4>1. ModeAfterErrflg(i2t) \in Modes
        BY ModeTypes DEF ModeAfterErrflg, TypeOK, Modes
      <4>2. QED
        BY <3>2, <3>4, <4>1, SwitchTypes DEF KeepMode, TypeOK, Modes
    <3>5. CASE SetMode
      BY <3>2, <3>5, SwitchTypes, ModeTypes, ValueTypes DEF SetMode, TypeOK
    <3>6. QED
      BY <3>1, <3>3, <3>4, <3>5
  <2>5. CASE LostCycle
    BY <2>5 DEF LostCycle, TypeOK, baseVars
  <2>6. CASE Tick
    <3>1. now' \in Time
      BY <2>6, ClockAssumption DEF Tick, Time, TypeOK
    <3>2. QED
      BY <2>6, <3>1 DEF Tick, TypeOK, baseVars, portVars
  <2>7. CASE UNCHANGED vars
    BY <2>7 DEF vars, baseVars, portVars, TypeOK
  <2>8. QED
    BY <2>1, <2>2, <2>3, <2>4, <2>5, <2>6, <2>7 DEF Next
<1>3. QED
  BY <1>1, <1>2, PTL DEF Spec

-----------------------------------------------------------------------------
(* Comparing whole seconds: less than BASE_TIMEOUT of them apart is less   *)
(* than BASE_TIMEOUT apart, and otherwise more than BASE_TIMEOUT - 1.      *)
LEMMA WholeSeconds ==
  ASSUME NEW a \in Time, NEW b \in Time
  PROVE  /\ a.sec - b.sec < BASE_TIMEOUT =>
              Ticks(a) - Ticks(b) < BASE_TIMEOUT * TicksPerSec
         /\ a.sec - b.sec >= BASE_TIMEOUT =>
              Ticks(a) - Ticks(b) > (BASE_TIMEOUT - 1) * TicksPerSec
<1> DEFINE d == a.sec - b.sec
           T == TicksPerSec
<1>1. /\ a.sec \in Nat /\ b.sec \in Nat /\ d \in Int
      /\ a.tick \in Int /\ b.tick \in Int
      /\ 0 <= a.tick /\ a.tick < T /\ 0 <= b.tick /\ b.tick < T
      /\ T \in Nat /\ T > 0 /\ BASE_TIMEOUT \in Nat
  BY ClockAssumption, TimeoutAssumption DEF Time
<1>2. a.sec * T - b.sec * T = d * T
  BY <1>1
<1>3. Ticks(a) - Ticks(b) = d * T + (a.tick - b.tick)
  BY <1>1, <1>2 DEF Ticks
<1>4. \A x, y \in Int : x <= y => x * T <= y * T
  BY <1>1
<1>5. BASE_TIMEOUT * T = (BASE_TIMEOUT - 1) * T + T
  BY <1>1
<1>6. ASSUME d < BASE_TIMEOUT
      PROVE  Ticks(a) - Ticks(b) < BASE_TIMEOUT * T
  <2>1. d <= BASE_TIMEOUT - 1
    BY <1>1, <1>6
  <2>2. d * T <= (BASE_TIMEOUT - 1) * T
    BY <1>1, <1>4, <2>1
  <2>3. d * T \in Int /\ (BASE_TIMEOUT - 1) * T \in Int
    BY <1>1
  <2> HIDE DEF d, T
  <2>4. QED
    BY <1>1, <1>3, <1>5, <2>2, <2>3
<1>7. ASSUME d >= BASE_TIMEOUT
      PROVE  Ticks(a) - Ticks(b) > (BASE_TIMEOUT - 1) * T
  <2>1. BASE_TIMEOUT * T <= d * T
    BY <1>1, <1>4, <1>7
  <2>2. d * T \in Int /\ (BASE_TIMEOUT - 1) * T \in Int
    BY <1>1
  <2> HIDE DEF d, T
  <2>3. QED
    BY <1>1, <1>3, <1>5, <2>1, <2>2
<1>8. QED
  BY <1>6, <1>7

(* What the switch leaves behind, given what its callers know. *)
LEMMA SwitchInv ==
  ASSUME TypeOK, NEW m \in Modes, NEW val \in Values, NEW triggered \in BOOLEAN,
         HandleMode(m, val, triggered),
         m \in Driving => mod_init_stat' = Wheels /\ val \in SetPts(m),
         val # Zero => last_cmd = heard /\ triggered = FALSE,
         computed' = now
  PROVE  IInv'
<1> USE ModeTypes, ValueTypes
<1>0. /\ now \in Time /\ heard \in Time /\ last_cmd \in Time
      /\ "MOTORSTOP" \notin Driving
      /\ Zero' = Zero /\ \A n : SetPts(n)' = SetPts(n)
  BY DEF TypeOK, Driving, Zero, SetPts, Unit
<1>1. CASE Idling(m, val, triggered)
  <2>1. control_mode' \notin Driving /\ outputs'.mode \notin Driving
    BY <1>0, <1>1 DEF Idling, Output
  <2>2. cmd_val' = val /\ (val # Zero => last_cmd' = last_cmd /\ heard' = heard)
    BY <1>1 DEF Idling, Output
  <2>3. QED
    BY <1>0, <2>1, <2>2 DEF IInv, ModeInv, OutputsConsistent, FedInv, WatchdogStops, Moving
<1>2. CASE NewSetPoint(m)
  <2>1. /\ m \in Driving /\ mod_init_stat' = Wheels
        /\ control_mode' = m /\ outputs'.mode = m
        /\ cmd_val' \in SetPts(m) /\ outputs'.value = cmd_val'
        /\ last_cmd' = now /\ heard' = now
    BY <1>2 DEF NewSetPoint, Output
  <2>2. Ticks(computed') - Ticks(heard') < BASE_TIMEOUT * TicksPerSec
    <3>1. now.sec \in Nat /\ now.sec - now.sec < BASE_TIMEOUT
      BY <1>0, TimeoutAssumption DEF Time
    <3>2. QED
      BY <1>0, <2>1, <3>1, WholeSeconds
  <2>3. (Ticks(computed) - Ticks(heard))' = Ticks(computed') - Ticks(heard')
    BY DEF Ticks
  <2>4. QED
    BY <1>0, <2>1, <2>2, <2>3 DEF IInv, ModeInv, OutputsConsistent, FedInv, WatchdogStops
<1>3. CASE Resting(m, val, triggered)
  <2>1. /\ m \in Driving /\ mod_init_stat' = Wheels
        /\ control_mode' = m /\ outputs'.mode = m
        /\ cmd_val' = Zero /\ outputs'.value = Zero
    BY <1>3 DEF Resting, Output
  <2>2. QED
    BY <1>0, <2>1 DEF IInv, ModeInv, OutputsConsistent, FedInv, WatchdogStops, Moving
<1>4. CASE Holding(m, val)
  <2>1. /\ m \in Driving /\ mod_init_stat' = Wheels /\ val \in SetPts(m)
        /\ cmd_val' = val /\ outputs'.value = val /\ outputs'.mode = control_mode'
        /\ control_mode' = IF Expired THEN "MOTORSTOP" ELSE m
        /\ last_cmd' = last_cmd /\ heard' = heard /\ last_cmd = heard
    BY <1>4 DEF Holding, Output
  <2>2. ~ Expired => Ticks(computed') - Ticks(heard') < BASE_TIMEOUT * TicksPerSec
    <3>1. ~ Expired => now.sec - last_cmd.sec < BASE_TIMEOUT
      BY <1>0, TimeoutAssumption DEF Expired, Time
    <3>2. QED
      BY <1>0, <2>1, <3>1, WholeSeconds
  <2>3. (Ticks(computed) - Ticks(heard))' = Ticks(computed') - Ticks(heard')
    BY DEF Ticks
  <2>4. QED
    BY <1>0, <2>1, <2>2, <2>3
    DEF IInv, ModeInv, OutputsConsistent, FedInv, WatchdogStops, Moving
<1>5. QED
  BY <1>1, <1>2, <1>3, <1>4 DEF HandleMode

(* The three ways through a cycle, each with what it passes to the switch. *)
LEMMA CycleInv ==
  ASSUME TypeOK, IInv, ProcUpdate
  PROVE  IInv'
<1>1. PICK module_init \in SUBSET Wheels, i2t \in SUBSET Wheels :
        /\ mod_init_stat' = mod_init_stat \cup module_init
        /\ i2t_ex' = i2t
        /\ Unconfigured \/ KeepMode(ModeAfterErrflg(i2t)) \/ SetMode
  BY DEF ProcUpdate
<1>2. /\ computed' = now
      /\ cmd_val \in Values /\ (cmd_val # Zero => last_cmd = heard)
      /\ control_mode \in Driving => mod_init_stat = Wheels /\ cmd_val \in SetPts(control_mode)
  BY DEF ProcUpdate, TypeOK, IInv, ModeInv, FedInv
<1>3. CASE Unconfigured
  BY <1>2, <1>3, SwitchInv DEF Unconfigured, Driving, Modes
<1>4. CASE KeepMode(ModeAfterErrflg(i2t))
  <2>1. /\ ModeAfterErrflg(i2t) \in Modes
        /\ ModeAfterErrflg(i2t) \in Driving => ModeAfterErrflg(i2t) = control_mode
    BY ModeTypes DEF ModeAfterErrflg, TypeOK, Modes, Driving
  <2>2. mod_init_stat' = Wheels
    BY <1>4 DEF KeepMode
  <2>3. CASE HandleMode("MOTORSTOP", cmd_val, FALSE)
    BY <1>2, <2>3, SwitchInv DEF Driving, Modes
  <2>4. CASE HandleMode(ModeAfterErrflg(i2t), cmd_val, FALSE)
    BY <1>2, <2>1, <2>2, <2>4, SwitchInv
  <2>5. QED
    BY <1>4, <2>3, <2>4 DEF KeepMode
<1>5. CASE SetMode
  <2>1. PICK cm \in Modes \cup {"invalid"} : HandleMode(Commanded(cm), Zero, TRUE)
    BY <1>5 DEF SetMode
  <2>2. Commanded(cm) \in Modes /\ mod_init_stat' = Wheels
    BY <1>5, ModeTypes DEF SetMode
  <2>3. QED
    BY <1>2, <2>1, <2>2, ValueTypes, SwitchInv
<1>6. QED
  BY <1>1, <1>3, <1>4, <1>5

THEOREM Invariance == Spec => []IInv
<1> USE DEF IInv, ModeInv, OutputsConsistent, FedInv, WatchdogStops, Moving
<1>1. Init => IInv
  BY DEF Init, Driving
<1>2. TypeOK /\ IInv /\ [Next]_vars => IInv'
  <2> SUFFICES ASSUME TypeOK, IInv, [Next]_vars
               PROVE  IInv'
    OBVIOUS
  <2>0. Zero' = Zero /\ \A n : SetPts(n)' = SetPts(n)
    BY DEF Zero, SetPts, Unit
  <2>1. CASE YoubotInit
    BY <2>0, <2>1 DEF YoubotInit, Driving
  <2>2. CASE YoubotStart
    BY <2>0, <2>2, ValueTypes DEF YoubotStart, Ticks
  <2>3. CASE YoubotStop \/ YoubotCleanup \/ LostCycle \/ Tick
    BY <2>0, <2>3 DEF YoubotStop, YoubotCleanup, LostCycle, Tick, baseVars, Ticks
  <2>4. CASE ProcUpdate
    BY <2>4, CycleInv
  <2>5. CASE UNCHANGED vars
    BY <2>0, <2>5 DEF vars, baseVars, Ticks
  <2>6. QED
    BY <2>1, <2>2, <2>3, <2>4, <2>5 DEF Next
<1>3. QED
  BY <1>1, <1>2, TypeCorrect, PTL DEF Spec

(* The watchdog is never late. *)
THEOREM WatchdogStopsAlways == Spec => []WatchdogStops
BY Invariance, PTL DEF IInv

(* No motor is driven uninitialised or in the unit of another mode. *)
THEOREM OutputsConsistentAlways == Spec => []OutputsConsistent
<1>1. IInv => OutputsConsistent
  BY DEF IInv, ModeInv
<1>2. QED
  BY <1>1, Invariance, PTL

-----------------------------------------------------------------------------
(* Only a cycle and youbot_init change the mode or the image. *)
LEMMA OtherSteps ==
  ASSUME [Next]_vars, ~ ProcUpdate
  PROVE  \/ YoubotInit
         \/ UNCHANGED <<control_mode, outputs, mod_init_stat, i2t_ex>>
BY DEF Next, vars, baseVars, YoubotStart, YoubotStop, YoubotCleanup, LostCycle, Tick

(* The switch drives in the mode it was entered with or not at all. *)
LEMMA SwitchMode ==
  ASSUME NEW m, NEW val, NEW triggered \in BOOLEAN, HandleMode(m, val, triggered)
  PROVE  outputs'.mode \in Driving => outputs'.mode = m
BY DEF HandleMode, Idling, NewSetPoint, Resting, Holding, Output, Driving, Supported

(* Without a mode command only a base that was driving goes on driving,    *)
(* and only if no wheel reports a new I2T error.                           *)
LEMMA UncommandedMode ==
  ASSUME NEW i2t \in SUBSET Wheels,
         Unconfigured \/ KeepMode(ModeAfterErrflg(i2t)),
         outputs'.mode \in Driving
  PROVE  control_mode = outputs'.mode /\ i2t \subseteq i2t_ex
<1>1. PICK m \in {"INITIALIZE", "MOTORSTOP", ModeAfterErrflg(i2t)} :
        HandleMode(m, cmd_val, FALSE)
  BY DEF Unconfigured, KeepMode
<1>2. outputs'.mode = m
  BY <1>1, SwitchMode
<1>3. QED
  BY <1>2 DEF Driving, ModeAfterErrflg

(* A stopped base drives again only by a mode command. *)
THEOREM NoRestartAlways == Spec => NoRestart
<1> DEFINE Restart == outputs.mode \notin Driving /\ outputs'.mode \in Driving
                      => mode_in' = outputs'.mode
<1>1. IInv /\ [Next]_vars => [Restart]_vars
  <2> SUFFICES ASSUME IInv, [Next]_vars,
                      outputs.mode \notin Driving, outputs'.mode \in Driving
               PROVE  mode_in' = outputs'.mode
    OBVIOUS
  <2>1. control_mode \notin Driving
    BY DEF IInv, ModeInv
  <2>2. CASE ProcUpdate
    <3>1. PICK i2t \in SUBSET Wheels :
            Unconfigured \/ KeepMode(ModeAfterErrflg(i2t)) \/ SetMode
      BY <2>2 DEF ProcUpdate
    <3>2. CASE Unconfigured \/ KeepMode(ModeAfterErrflg(i2t))
      BY <2>1, <3>2, UncommandedMode
    <3>3. CASE SetMode
      <4>1. PICK cm \in Modes \cup {"invalid"} :
              mode_in' = cm /\ HandleMode(Commanded(cm), Zero, TRUE)
        BY <3>3 DEF SetMode
      <4>2. outputs'.mode = Commanded(cm)
        BY <4>1, SwitchMode
      <4>3. QED
        BY <4>1, <4>2 DEF Commanded, Driving
    <3>4. QED
      BY <3>1, <3>2, <3>3
  <2>3. CASE ~ ProcUpdate
    BY <2>3, OtherSteps DEF YoubotInit, Driving
  <2>4. QED
    BY <2>2, <2>3
<1>2. QED
  BY <1>1, Invariance, PTL DEF Spec, NoRestart

(* An I2T error stops the base in the cycle that reports it. *)
THEOREM I2tStopsAlways == Spec => I2tStops
<1> DEFINE Stop == ~ (i2t_ex' \subseteq i2t_ex) /\ mode_in' = "none"
                   => outputs'.mode \notin Driving
<1>1. [Next]_vars => [Stop]_vars
  <2> SUFFICES ASSUME [Next]_vars, ~ (i2t_ex' \subseteq i2t_ex), mode_in' = "none"
               PROVE  outputs'.mode \notin Driving
    OBVIOUS
  <2>1. ProcUpdate
    BY OtherSteps DEF YoubotInit
  <2>2. PICK i2t \in SUBSET Wheels :
          /\ i2t_ex' = i2t
          /\ Unconfigured \/ KeepMode(ModeAfterErrflg(i2t)) \/ SetMode
    BY <2>1 DEF ProcUpdate
  <2>3. CASE Unconfigured \/ KeepMode(ModeAfterErrflg(i2t))
    BY <2>2, <2>3, UncommandedMode
  <2>4. CASE SetMode
    BY <2>4 DEF SetMode, Modes
  <2>5. QED
    BY <2>2, <2>3, <2>4
<1>2. QED
  BY <1>1, PTL DEF Spec, I2tStops

(* The watchdog is never early by more than the second it cannot resolve. *)
THEOREM WatchdogPatientAlways == Spec => WatchdogPatient
<1> DEFINE Patient ==
             /\ control_mode \in Driving /\ control_mode' \notin Driving
             /\ mode_in' = "none"
             /\ i2t_ex' \subseteq i2t_ex
             /\ block_state = "ACTIVE"
             => Ticks(now) - Ticks(heard) > (BASE_TIMEOUT - 1) * TicksPerSec
<1>1. TypeOK /\ IInv /\ [Next]_vars => [Patient]_vars
  <2> SUFFICES ASSUME TypeOK, IInv, [Next]_vars,
                      control_mode \in Driving, control_mode' \notin Driving,
                      mode_in' = "none", i2t_ex' \subseteq i2t_ex,
                      block_state = "ACTIVE"
               PROVE  Ticks(now) - Ticks(heard) > (BASE_TIMEOUT - 1) * TicksPerSec
    OBVIOUS
  <2>1. ProcUpdate
    BY OtherSteps DEF YoubotInit
  <2>2. PICK i2t \in SUBSET Wheels :
          /\ i2t_ex' = i2t
          /\ Unconfigured \/ KeepMode(ModeAfterErrflg(i2t)) \/ SetMode
    BY <2>1 DEF ProcUpdate
  <2>3. mod_init_stat' = Wheels /\ ~ Unconfigured /\ ~ SetMode
    BY <2>1 DEF IInv, ModeInv, ProcUpdate, Unconfigured, SetMode, Modes, TypeOK
  <2>4. HandleMode(control_mode, cmd_val, FALSE)
    BY <2>2, <2>3 DEF KeepMode, ModeAfterErrflg, Driving
  <2>5. cmd_val # Zero /\ Expired
    BY <2>4 DEF HandleMode, Idling, NewSetPoint, Resting, Holding, Output
  <2>6. now.sec - last_cmd.sec >= BASE_TIMEOUT /\ last_cmd = heard
    BY <2>5 DEF Expired, IInv, FedInv
  <2>7. QED
    BY <2>6, WholeSeconds DEF TypeOK
<1>2. QED
  BY <1>1, TypeCorrect, Invariance, PTL DEF Spec, WatchdogPatient
=============================================================================
