-------------------------- MODULE YoubotArmProofs --------------------------
(***************************************************************************)
(* The safety and action properties of YoubotArm hold for every set of     *)
(* joints, all positions and set points, and every scaling range.          *)
(***************************************************************************)
EXTENDS YoubotArm, TLAPS

UnitsOf(m, val) == \A j \in Joints : val[j].unit \in {"none", Unit(m)}

(* The phases of the calibration. A joint found at its limit stays there.  *)
CalibInv ==
  /\ calibrating = 0 => axis_at_limit = {} /\ ~ jntlim_safety_disabled
  /\ calibrating # 0 => mod_init_stat = Joints /\ jntlim_safety_disabled
  /\ calibrating = 1 => /\ axis_at_limit \subseteq contact
                        /\ \A j \in axis_at_limit : cmd_val[j].val = 0
                        /\ \A j \in axis_at_limit : cmd_val[j].unit = "none"
  /\ calibrating = 2 => axis_at_limit = {}

(* The image follows the mode, and while the arm drives every joint is     *)
(* initialised and the set point is in the unit of the mode.               *)
ModeInv ==
  /\ control_mode \in Driving =>
       /\ mod_init_stat = Joints
       /\ UnitsOf(control_mode, cmd_val)
       /\ outputs.mode = control_mode
  /\ OutputsConsistent

IInv == CalibInv /\ ModeInv /\ ReferenceAtLimits /\ SoftLimits

-----------------------------------------------------------------------------
(***************************************************************************)
(* scale_down_cmd_val.                                                     *)
(***************************************************************************)
LEMMA QuotientSign ==
  ASSUME NEW n \in Int, NEW d \in Nat \ {0}
  PROVE  /\ Quotient(n, d) \in Int
         /\ n <= 0 => Quotient(n, d) <= 0
         /\ n >= 0 => Quotient(n, d) >= 0
<1>1. \A k \in Nat : k \div d \in Nat
  OBVIOUS
<1>2. n < 0 => -n \in Nat
  OBVIOUS
<1>3. n >= 0 => n \in Nat
  OBVIOUS
<1>4. CASE n < 0
  <2>1. (-n) \div d \in Nat
    BY <1>1, <1>2, <1>4
  <2>2. Quotient(n, d) = -((-n) \div d)
    BY <1>4 DEF Quotient
  <2> DEFINE q == (-n) \div d
  <2> HIDE DEF q
  <2>3. q \in Nat /\ Quotient(n, d) = -q
    BY <2>1, <2>2 DEF q
  <2>4. QED
    BY <1>4, <2>3
<1>5. CASE n >= 0
  <2>1. n \div d \in Nat
    BY <1>1, <1>3, <1>5
  <2>2. Quotient(n, d) = n \div d
    BY <1>5 DEF Quotient
  <2>3. n = 0 => n \div d = 0
    OBVIOUS
  <2> DEFINE q == n \div d
  <2> HIDE DEF q
  <2>4. q \in Nat /\ Quotient(n, d) = q /\ (n = 0 => q = 0)
    BY <2>1, <2>2, <2>3 DEF q
  <2>5. QED
    BY <1>5, <2>4
<1>6. QED
  BY <1>4, <1>5

(* Past the end of the scaling range a set point towards the limit becomes *)
(* one away from it, or zero.                                              *)
LEMMA ScaledAway ==
  ASSUME NEW n \in Int, NEW p \in Int
  PROVE  /\ Scaled(n, p) \in Int
         /\ p >= SCALE_END => Scaled(n, p) <= 0
         /\ p <= -SCALE_END => Scaled(n, p) >= 0
<1> DEFINE r == SCALE_END - Abs(p)
           d == SCALE_END - SCALE_START
<1>1. r \in Int /\ d \in Nat \ {0} /\ n * r \in Int
  BY ScaleAssumption DEF Abs
<1>2. p >= SCALE_END => p > SCALE_START /\ ~ (p < -SCALE_START) /\ r <= 0
  BY ScaleAssumption DEF Abs
<1>3. p <= -SCALE_END => p < -SCALE_START /\ ~ (p > SCALE_START) /\ r <= 0
  BY ScaleAssumption DEF Abs
<1>4. (n > 0 /\ r <= 0 => n * r <= 0) /\ (n < 0 /\ r <= 0 => n * r >= 0)
  <2> HIDE DEF r
  <2>1. QED
    BY <1>1
<1>5. /\ Quotient(n * r, d) \in Int
      /\ n * r <= 0 => Quotient(n * r, d) <= 0
      /\ n * r >= 0 => Quotient(n * r, d) >= 0
  BY <1>1, QuotientSign
<1>6. Scaled(n, p) = IF TowardsLimit(n, p) THEN Quotient(n * r, d) ELSE n
  BY DEF Scaled
<1>7. TowardsLimit(n, p) <=> (p > SCALE_START /\ n > 0) \/ (p < -SCALE_START /\ n < 0)
  BY DEF TowardsLimit
<1> DEFINE q == Quotient(n * r, d)
<1> HIDE DEF q, r
<1>8. QED
  BY <1>2, <1>3, <1>4, <1>5, <1>6, <1>7 DEF q

-----------------------------------------------------------------------------
(***************************************************************************)
(* What the last part of a cycle and the switch establish.                 *)
(***************************************************************************)
LEMMA ModeTypes ==
  /\ Driving \subseteq Supported /\ Supported \subseteq Modes
  /\ {"VELOCITY", "CURRENT"} \subseteq Driving
  /\ {"MOTORSTOP", "INITIALIZE", "SET_POSITION_TO_REFERENCE"}
       \subseteq Supported \ Driving
BY DEF Driving, Supported, Modes

LEMMA SetPointTypes ==
  /\ \A u \in {"none", "rpm", "mA", "ticks"}, n \in Int : SetPoint(u, n) \in SetPoints
  /\ \A m \in Modes : Unit(m) \in {"rpm", "mA", "ticks"}
  /\ Zero \in [Joints -> SetPoints] /\ Reference \in [Joints -> SetPoints]
  /\ \A m : UnitsOf(m, Zero)
<1>1. \A u \in {"none", "rpm", "mA", "ticks"}, n \in Int : SetPoint(u, n) \in SetPoints
  BY DEF SetPoint, SetPoints
<1>2. \A m \in Modes : Unit(m) \in {"rpm", "mA", "ticks"}
  BY DEF Unit
<1>3. Zero \in [Joints -> SetPoints] /\ Reference \in [Joints -> SetPoints]
  BY <1>1, CalibAssumption DEF Zero, Reference
<1>4. \A m : UnitsOf(m, Zero)
  BY DEF UnitsOf, Zero, SetPoint
<1>5. QED
  BY <1>1, <1>2, <1>3, <1>4

(* A scaled set point keeps its unit, and obeys the soft limits.           *)
LEMMA ScaleDownFacts ==
  ASSUME NEW m, NEW sp \in SetPoints, NEW p \in Int, NEW disabled \in BOOLEAN
  PROVE  /\ ScaleDown(m, sp, p, disabled) \in SetPoints
         /\ ScaleDown(m, sp, p, disabled).unit \in {"none", sp.unit}
         /\ disabled => ScaleDown(m, sp, p, disabled) = sp
         /\ ~ disabled /\ m # "POSITIONING" =>
              /\ p >= SCALE_END => ScaleDown(m, sp, p, disabled).val <= 0
              /\ p <= -SCALE_END => ScaleDown(m, sp, p, disabled).val >= 0
<1> DEFINE n == Scaled(sp.val, p)
<1>1. sp.val \in Int /\ sp.unit \in {"none", "rpm", "mA", "ticks"}
  BY DEF SetPoints
<1>2. /\ n \in Int
      /\ p >= SCALE_END => n <= 0
      /\ p <= -SCALE_END => n >= 0
  BY <1>1, ScaledAway
<1>3. /\ SetPoint(sp.unit, n) \in SetPoints
      /\ SetPoint(sp.unit, n).unit \in {"none", sp.unit}
      /\ SetPoint(sp.unit, n).val = n
  BY <1>1, <1>2, SetPointTypes DEF SetPoint
<1>4. ScaleDown(m, sp, p, disabled) =
        IF disabled \/ m = "POSITIONING" THEN sp ELSE SetPoint(sp.unit, n)
  BY DEF ScaleDown
<1> HIDE DEF n
<1>5. QED
  BY <1>2, <1>3, <1>4

LEMMA OutputFacts ==
  ASSUME NEW m \in Supported, NEW val \in [Joints -> SetPoints],
         NEW reached \in SUBSET Joints, contact \in SUBSET Joints,
         pos' \in [Joints -> Int], jntlim_safety_disabled' \in BOOLEAN,
         Output(m, val, reached)
  PROVE  /\ control_mode' = m /\ cmd_val' = val
         /\ outputs' \in [mode : Supported, value : [Joints -> SetPoints]]
         /\ outputs'.mode = m
         /\ contact' \in SUBSET Joints
         /\ UnitsOf(m, val) => UnitsOf(m, outputs'.value)
         /\ jntlim_safety_disabled' => outputs'.value = val
         /\ ~ jntlim_safety_disabled' /\ m # "POSITIONING" =>
              \A j \in Joints :
                /\ pos'[j] >= SCALE_END => outputs'.value[j].val <= 0
                /\ pos'[j] <= -SCALE_END => outputs'.value[j].val >= 0
<1> DEFINE v == [j \in Joints |-> ScaleDown(m, val[j], pos'[j], jntlim_safety_disabled')]
<1>1. /\ control_mode' = m /\ cmd_val' = val
      /\ outputs' = [mode |-> m, value |-> v]
      /\ contact' \in SUBSET Joints
  BY DEF Output
<1>2. \A j \in Joints :
        /\ v[j] \in SetPoints
        /\ v[j].unit \in {"none", val[j].unit}
        /\ jntlim_safety_disabled' => v[j] = val[j]
        /\ ~ jntlim_safety_disabled' /\ m # "POSITIONING" =>
             /\ pos'[j] >= SCALE_END => v[j].val <= 0
             /\ pos'[j] <= -SCALE_END => v[j].val >= 0
  <2> SUFFICES ASSUME NEW j \in Joints
               PROVE  /\ v[j] \in SetPoints
                      /\ v[j].unit \in {"none", val[j].unit}
                      /\ jntlim_safety_disabled' => v[j] = val[j]
                      /\ ~ jntlim_safety_disabled' /\ m # "POSITIONING" =>
                           /\ pos'[j] >= SCALE_END => v[j].val <= 0
                           /\ pos'[j] <= -SCALE_END => v[j].val >= 0
    OBVIOUS
  <2>1. v[j] = ScaleDown(m, val[j], pos'[j], jntlim_safety_disabled')
    OBVIOUS
  <2>2. val[j] \in SetPoints /\ pos'[j] \in Int
    OBVIOUS
  <2> HIDE DEF v
  <2>3. QED
    BY <2>1, <2>2, ScaleDownFacts
<1>3. DOMAIN v = Joints /\ v = [j \in Joints |-> v[j]]
  OBVIOUS
<1> HIDE DEF v
<1>4. v \in [Joints -> SetPoints]
  BY <1>2, <1>3
<1>5. jntlim_safety_disabled' => v = val
  BY <1>2, <1>3
<1>6. UnitsOf(m, val) => UnitsOf(m, v)
  BY <1>2 DEF UnitsOf
<1>7. outputs'.mode = m /\ outputs'.value = v
  BY <1>1
<1>8. outputs' \in [mode : Supported, value : [Joints -> SetPoints]]
  BY <1>1, <1>4
<1>9. QED
  BY <1>1, <1>2, <1>5, <1>6, <1>7, <1>8

(* The switch, entered outside a calibration with set points in the unit   *)
(* of its mode.                                                            *)
LEMMA SwitchInv ==
  ASSUME NEW m \in Modes, NEW val \in [Joints -> SetPoints],
         contact \in SUBSET Joints,
         pos' \in [Joints -> Int], jntlim_safety_disabled' = FALSE,
         m \in Driving => mod_init_stat' = Joints /\ UnitsOf(m, val),
         HandleMode(m, val)
  PROVE  /\ control_mode' \in Supported /\ cmd_val' \in [Joints -> SetPoints]
         /\ outputs' \in [mode : Supported, value : [Joints -> SetPoints]]
         /\ contact' \in SUBSET Joints
         /\ outputs'.mode \in Driving => outputs'.mode = m
         /\ ModeInv' /\ SoftLimits'
<1> DEFINE Goal ==
             /\ control_mode' \in Supported /\ cmd_val' \in [Joints -> SetPoints]
             /\ outputs' \in [mode : Supported, value : [Joints -> SetPoints]]
             /\ contact' \in SUBSET Joints
             /\ outputs'.mode \in Driving => outputs'.mode = m
             /\ ModeInv' /\ SoftLimits'
<1> SUFFICES Goal
  OBVIOUS
<1>1. ASSUME NEW mm \in Supported, NEW vv \in [Joints -> SetPoints],
             mm \in Driving => mm = m /\ UnitsOf(m, vv),
             Output(mm, vv, {})
      PROVE  Goal
  <2>1. {} \in SUBSET Joints /\ jntlim_safety_disabled' \in BOOLEAN
    OBVIOUS
  <2>2. /\ control_mode' = mm /\ cmd_val' = vv
        /\ outputs' \in [mode : Supported, value : [Joints -> SetPoints]]
        /\ outputs'.mode = mm
        /\ contact' \in SUBSET Joints
        /\ UnitsOf(mm, vv) => UnitsOf(mm, outputs'.value)
        /\ mm # "POSITIONING" =>
             \A j \in Joints :
               /\ pos'[j] >= SCALE_END => outputs'.value[j].val <= 0
               /\ pos'[j] <= -SCALE_END => outputs'.value[j].val >= 0
    BY <1>1, <2>1, OutputFacts
  <2>3. ModeInv'
    BY <1>1, <2>2 DEF ModeInv, OutputsConsistent, UnitsOf
  <2>4. SoftLimits'
    BY <2>2 DEF SoftLimits
  <2>5. QED
    BY <1>1, <2>2, <2>3, <2>4
<1>2. CASE Idling(m, val)
  <2> DEFINE mm == IF m \in Supported THEN m ELSE "MOTORSTOP"
  <2>1. mm \in Supported /\ mm \notin Driving /\ Output(mm, val, {})
    BY <1>2, ModeTypes DEF Idling
  <2> HIDE DEF mm, Goal
  <2>2. QED
    BY <1>1, <2>1
<1>3. CASE NewSetPoint(m)
  <2>1. PICK n \in [Joints -> Commands] :
          Output(m, [j \in Joints |-> SetPoint(Unit(m), n[j])], {})
    BY <1>3 DEF NewSetPoint
  <2> DEFINE vv == [j \in Joints |-> SetPoint(Unit(m), n[j])]
  <2>2. \A j \in Joints : n[j] \in Int
    BY CommandsAssumption
  <2>3. vv \in [Joints -> SetPoints] /\ UnitsOf(m, vv)
    BY <2>2, SetPointTypes DEF UnitsOf, SetPoint
  <2>4. m \in Supported
    BY <1>3, ModeTypes DEF NewSetPoint
  <2> HIDE DEF vv, Goal
  <2>5. QED
    BY <1>1, <2>1, <2>3, <2>4 DEF vv
<1>4. CASE Holding(m, val)
  <2>1. m \in Supported /\ UnitsOf(m, val) /\ Output(m, val, {})
    BY <1>4, ModeTypes DEF Holding
  <2> HIDE DEF Goal
  <2>2. QED
    BY <1>1, <2>1
<1>5. CASE SettingReference(m)
  <2>1. /\ m \in Supported /\ m \notin Driving
        /\ Reference \in [Joints -> SetPoints] /\ Output(m, Reference, {})
    BY <1>5, ModeTypes, SetPointTypes DEF SettingReference
  <2> HIDE DEF Goal
  <2>2. QED
    BY <1>1, <2>1
<1>6. QED
  BY <1>2, <1>3, <1>4, <1>5 DEF HandleMode

-----------------------------------------------------------------------------
(***************************************************************************)
(* The ways through a cycle.                                               *)
(***************************************************************************)
(* The part of TypeOK that a cycle has to establish after ProcErrflg. *)
CycleTypes ==
  /\ control_mode \in Supported
  /\ cmd_val \in [Joints -> SetPoints]
  /\ outputs \in [mode : Supported, value : [Joints -> SetPoints]]
  /\ contact \in SUBSET Joints
  /\ pos \in [Joints -> Positions \cup {0}]
  /\ calibrating \in 0 .. 2
  /\ axis_at_limit \in SUBSET Joints /\ axis_at_limit # Joints
  /\ jntlim_safety_disabled \in BOOLEAN
  /\ mode_in \in Modes \cup {"none", "invalid"}

LEMMA PosTypes ==
  ASSUME NEW p, p \in [Joints -> Positions \cup {0}] \/ p \in [Joints -> Positions]
  PROVE  p \in [Joints -> Int] /\ p \in [Joints -> Positions \cup {0}]
<1>1. Positions \cup {0} \subseteq Int
  BY PositionsAssumption
<1>2. p \in [Joints -> Positions \cup {0}]
  OBVIOUS
<1>3. QED
  BY <1>1, <1>2

(* Nothing else is known of a joint that is not initialised. *)
LEMMA UnconfiguredInv ==
  ASSUME TypeOK, IInv, mod_init_stat \subseteq mod_init_stat',
         mod_init_stat' \subseteq Joints, Unconfigured
  PROVE  CycleTypes' /\ IInv' /\ outputs'.mode \notin Driving
<1>1. mod_init_stat # Joints
  BY DEF Unconfigured
<1>2. calibrating = 0 /\ axis_at_limit = {} /\ jntlim_safety_disabled = FALSE
  BY <1>1 DEF IInv, CalibInv, TypeOK
<1>3. UNCHANGED <<pos, calibrating, axis_at_limit, jntlim_safety_disabled>>
  BY DEF Unconfigured, calibVars
<1>4. /\ "INITIALIZE" \in Modes /\ "INITIALIZE" \notin Driving
      /\ cmd_val \in [Joints -> SetPoints] /\ contact \in SUBSET Joints
      /\ pos' \in [Joints -> Int] /\ jntlim_safety_disabled' = FALSE
      /\ HandleMode("INITIALIZE", cmd_val)
  BY <1>2, <1>3, ModeTypes, PosTypes DEF TypeOK, Unconfigured
<1>5. /\ control_mode' \in Supported /\ cmd_val' \in [Joints -> SetPoints]
      /\ outputs' \in [mode : Supported, value : [Joints -> SetPoints]]
      /\ contact' \in SUBSET Joints
      /\ outputs'.mode \in Driving => outputs'.mode = "INITIALIZE"
      /\ ModeInv' /\ SoftLimits'
  BY <1>4, SwitchInv
<1>6. CycleTypes'
  BY <1>2, <1>3, <1>5 DEF CycleTypes, TypeOK, Unconfigured
<1>7. CalibInv' /\ ReferenceAtLimits'
  BY <1>2, <1>3 DEF CalibInv, ReferenceAtLimits
<1>8. QED
  BY <1>4, <1>5, <1>6, <1>7 DEF IInv

(* Modes and set points, outside a calibration. *)
LEMMA OperateInv ==
  ASSUME TypeOK, IInv, NEW m \in Modes,
         m \in Driving => m = control_mode,
         mod_init_stat' = Joints, pos' \in [Joints -> Positions], Operate(m)
  PROVE  /\ CycleTypes' /\ IInv'
         /\ outputs'.mode \in Driving =>
              mode_in' = outputs'.mode \/ (mode_in' = "none" /\ outputs'.mode = m)
<1>1. calibrating = 0 /\ axis_at_limit = {} /\ jntlim_safety_disabled = FALSE
  BY DEF IInv, CalibInv, TypeOK, Operate
<1>2. UNCHANGED <<calibrating, axis_at_limit, jntlim_safety_disabled>>
  BY DEF Operate, calibVars
<1>3. contact \in SUBSET Joints /\ pos' \in [Joints -> Int]
      /\ pos' \in [Joints -> Positions \cup {0}]
      /\ jntlim_safety_disabled' = FALSE
  BY <1>1, <1>2, PosTypes DEF TypeOK
<1> DEFINE Switched(mm) ==
      /\ control_mode' \in Supported /\ cmd_val' \in [Joints -> SetPoints]
      /\ outputs' \in [mode : Supported, value : [Joints -> SetPoints]]
      /\ contact' \in SUBSET Joints
      /\ outputs'.mode \in Driving => outputs'.mode = mm
      /\ ModeInv' /\ SoftLimits'
<1>4. CalibInv' /\ ReferenceAtLimits'
  BY <1>1, <1>2 DEF CalibInv, ReferenceAtLimits
<1>5. ASSUME NEW mm, Switched(mm), mode_in' \in Modes \cup {"none", "invalid"}
      PROVE  CycleTypes' /\ IInv'
  <2>1. jntlim_safety_disabled' \in BOOLEAN
    BY <1>1, <1>2
  <2>2. calibrating' \in 0 .. 2
    BY <1>1, <1>2
  <2>3. axis_at_limit' \in SUBSET Joints /\ axis_at_limit' # Joints
    BY <1>1, <1>2, JointsAssumption
  <2>4. QED
    BY <1>3, <1>4, <1>5, <2>1, <2>2, <2>3 DEF CycleTypes, IInv
<1>6. CASE KeepMode(m)
  <2>1. m \in Driving => UnitsOf(m, cmd_val)
    BY DEF IInv, ModeInv
  <2>2. cmd_val \in [Joints -> SetPoints] /\ HandleMode(m, cmd_val) /\ mode_in' = "none"
    BY <1>6 DEF KeepMode, TypeOK
  <2>3. Switched(m)
    BY <1>3, <2>1, <2>2, SwitchInv
  <2>4. QED
    BY <1>5, <2>2, <2>3
<1>7. CASE SetMode
  <2>1. PICK cm \in Modes \cup {"invalid"} :
          /\ mode_in' = cm
          /\ HandleMode(IF cm = "invalid" THEN "MOTORSTOP" ELSE cm, Zero)
    BY <1>7 DEF SetMode
  <2> DEFINE mm == IF cm = "invalid" THEN "MOTORSTOP" ELSE cm
  <2>2. mm \in Modes /\ (mm \in Driving => mm = cm)
    BY ModeTypes
  <2>3. Zero \in [Joints -> SetPoints] /\ UnitsOf(mm, Zero) /\ HandleMode(mm, Zero)
    BY <2>1, SetPointTypes
  <2> HIDE DEF mm
  <2>4. Switched(mm)
    BY <1>3, <2>2, <2>3, SwitchInv
  <2>5. QED
    BY <1>5, <2>1, <2>2, <2>4
<1>8. QED
  BY <1>6, <1>7 DEF Operate

(* The phases of a calibration. *)
LEMMA CalibrateInv ==
  ASSUME TypeOK, IInv, calib_in' \in BOOLEAN,
         mod_init_stat' = Joints, pos' \in [Joints -> Positions], Calibrate
  PROVE  CycleTypes' /\ IInv'
<1>1. PICK high \in SUBSET Joints : MoveToLimits(high) \/ ReachLimits(high)
  BY DEF Calibrate
<1>2. jntlim_safety_disabled' = TRUE
  BY DEF Calibrate, IInv, CalibInv, TypeOK
<1>3. /\ contact \in SUBSET Joints /\ pos' \in [Joints -> Int]
      /\ pos' \in [Joints -> Positions \cup {0}]
      /\ axis_at_limit \in SUBSET Joints
      /\ mode_in' \in Modes \cup {"none", "invalid"}
  BY PosTypes DEF TypeOK, Calibrate
<1>4. /\ axis_at_limit \subseteq contact
      /\ \A j \in axis_at_limit : cmd_val[j].val = 0
      /\ \A j \in axis_at_limit : cmd_val[j].unit = "none"
  BY DEF IInv, CalibInv, TypeOK
<1>5. CASE MoveToLimits(high)
  <2> DEFINE val == MoveInVal(high)
  <2>1. "VELOCITY" \in Supported /\ "VELOCITY" \in Driving /\ Unit("VELOCITY") = "rpm"
    BY DEF Supported, Driving, Unit
  <2>2. /\ val \in [Joints -> SetPoints]
        /\ UnitsOf("VELOCITY", val)
        /\ \A j \in axis_at_limit \cup high : val[j].val = 0 /\ val[j].unit = "none"
    <3>1. ASSUME NEW j \in Joints
          PROVE  /\ val[j] \in SetPoints
                 /\ val[j].unit \in {"none", "rpm"}
                 /\ j \in axis_at_limit \cup high => val[j].val = 0 /\ val[j].unit = "none"
      BY <1>4, SetPointTypes, CalibAssumption DEF MoveInVal, SetPoint, TypeOK
    <3>2. val = [j \in Joints |-> val[j]]
      BY DEF MoveInVal
    <3> HIDE DEF val
    <3>3. QED
      BY <1>3, <2>1, <3>1, <3>2 DEF UnitsOf
  <2>3. Output("VELOCITY", val, high)
    BY <1>5 DEF MoveToLimits
  <2> HIDE DEF val
  <2>4. /\ control_mode' = "VELOCITY" /\ cmd_val' = val
        /\ outputs' \in [mode : Supported, value : [Joints -> SetPoints]]
        /\ outputs'.mode = "VELOCITY" /\ outputs'.value = val
        /\ contact' \in SUBSET Joints
    BY <1>2, <1>3, <2>1, <2>2, <2>3, OutputFacts
  <2>5. calibrating' = 1 /\ axis_at_limit' = axis_at_limit \cup high
        /\ axis_at_limit' # Joints
    BY <1>5 DEF MoveToLimits
  <2>6. axis_at_limit' \subseteq contact'
    <3>1. contact' = {j \in contact \cup high :
                        "VELOCITY" \notin Driving
                          \/ ("VELOCITY" # "POSITIONING" /\ outputs'.value[j].val = 0)}
      BY <2>3 DEF Output
    <3>2. QED
      BY <1>3, <1>4, <2>2, <2>4, <2>5, <3>1
  <2>7. CalibInv'
    BY <1>2, <2>2, <2>4, <2>5, <2>6 DEF CalibInv
  <2>8. ModeInv'
    BY <2>1, <2>2, <2>4 DEF ModeInv, OutputsConsistent, UnitsOf
  <2>9. ReferenceAtLimits' /\ SoftLimits'
    BY <2>5 DEF ReferenceAtLimits, SoftLimits
  <2>10. CycleTypes'
    BY <1>2, <1>3, <2>1, <2>2, <2>4, <2>5 DEF CycleTypes
  <2>11. QED
    BY <2>7, <2>8, <2>9, <2>10 DEF IInv
<1>6. CASE ReachLimits(high)
  <2>1. /\ "SET_POSITION_TO_REFERENCE" \in Supported
        /\ "SET_POSITION_TO_REFERENCE" \notin Driving
        /\ Reference \in [Joints -> SetPoints]
    BY ModeTypes, SetPointTypes
  <2>2. /\ calibrating' = 2 /\ axis_at_limit' = {} /\ axis_at_limit \cup high = Joints
        /\ Output("SET_POSITION_TO_REFERENCE", Reference, high)
    BY <1>6 DEF ReachLimits
  <2>3. /\ control_mode' = "SET_POSITION_TO_REFERENCE" /\ cmd_val' = Reference
        /\ outputs' \in [mode : Supported, value : [Joints -> SetPoints]]
        /\ outputs'.mode = "SET_POSITION_TO_REFERENCE" /\ outputs'.value = Reference
        /\ contact' \in SUBSET Joints
    BY <1>2, <1>3, <2>1, <2>2, OutputFacts
  <2>4. contact' = Joints
    BY <1>3, <1>4, <2>1, <2>2 DEF Output
  <2>5. outputs' = [mode |-> "SET_POSITION_TO_REFERENCE", value |-> Reference]
    BY <2>3
  <2>6. ReferenceAtLimits' /\ SoftLimits'
    BY <2>2, <2>4, <2>5 DEF ReferenceAtLimits, SoftLimits
  <2>7. CalibInv' /\ ModeInv'
    BY <1>2, <2>1, <2>2, <2>3 DEF CalibInv, ModeInv, OutputsConsistent
  <2>8. CycleTypes'
    BY <1>2, <1>3, <2>1, <2>2, <2>3, JointsAssumption DEF CycleTypes
  <2>9. QED
    BY <2>6, <2>7, <2>8 DEF IInv
<1>7. QED
  BY <1>1, <1>5, <1>6

LEMMA EndCalibrationInv ==
  ASSUME TypeOK, IInv,
         mod_init_stat' = Joints, pos' \in [Joints -> Positions], EndCalibration
  PROVE  CycleTypes' /\ IInv' /\ outputs'.mode \notin Driving
<1>1. /\ calibrating' = 0 /\ axis_at_limit' = {} /\ jntlim_safety_disabled' = FALSE
      /\ mode_in' = "none"
      /\ Output("MOTORSTOP", cmd_val, {})
  BY DEF EndCalibration, IInv, CalibInv
<1>2. /\ contact \in SUBSET Joints /\ pos' \in [Joints -> Int]
      /\ pos' \in [Joints -> Positions \cup {0}]
      /\ cmd_val \in [Joints -> SetPoints]
      /\ {} \in SUBSET Joints /\ FALSE \in BOOLEAN
      /\ "MOTORSTOP" \in Supported /\ "MOTORSTOP" \notin Driving
  BY PosTypes, ModeTypes DEF TypeOK
<1>3. /\ control_mode' = "MOTORSTOP" /\ cmd_val' = cmd_val
      /\ outputs' \in [mode : Supported, value : [Joints -> SetPoints]]
      /\ outputs'.mode = "MOTORSTOP"
      /\ contact' \in SUBSET Joints
  BY <1>1, <1>2, OutputFacts
<1>4. CycleTypes'
  <2>1. jntlim_safety_disabled' \in BOOLEAN
    BY <1>1
  <2>2. calibrating' \in 0 .. 2
    BY <1>1
  <2>3. axis_at_limit' \in SUBSET Joints /\ axis_at_limit' # Joints
    BY <1>1, JointsAssumption
  <2>4. QED
    BY <1>1, <1>2, <1>3, <2>1, <2>2, <2>3 DEF CycleTypes
<1>5. CalibInv' /\ ReferenceAtLimits' /\ SoftLimits' /\ ModeInv'
  BY <1>1, <1>2, <1>3
     DEF CalibInv, ReferenceAtLimits, SoftLimits, ModeInv, OutputsConsistent
<1>6. QED
  BY <1>2, <1>3, <1>4, <1>5 DEF IInv

-----------------------------------------------------------------------------
(***************************************************************************)
(* The inductive invariant.                                                *)
(***************************************************************************)
(* A cycle is one of the three, entered after ProcErrflg. *)
LEMMA CycleInv ==
  ASSUME TypeOK, IInv, ProcUpdate
  PROVE  /\ TypeOK' /\ IInv'
         /\ outputs'.mode \in Driving /\ mode_in' = "none" /\ calibrating' # 1
              => fatal' = FALSE
         /\ outputs'.mode \in Driving /\ outputs.mode \notin Driving
              => mode_in' = outputs'.mode \/ calib_in' \/ calibrating = 1
<1>1. /\ mod_init_stat \subseteq mod_init_stat' /\ mod_init_stat' \in SUBSET Joints
      /\ i2t_ex' \in SUBSET Joints /\ fatal' \in BOOLEAN
      /\ block_state' \in {"PREINIT", "INACTIVE", "ACTIVE"}
  BY DEF ProcUpdate, ProcErrflg, TypeOK
<1>2. ASSUME CycleTypes', calib_in' \in BOOLEAN
      PROVE  TypeOK'
  BY <1>1, <1>2 DEF CycleTypes, TypeOK
<1>3. CASE Unconfigured
  <2>1. calib_in' \in BOOLEAN
    BY <1>3 DEF Unconfigured
  <2>2. CycleTypes' /\ IInv' /\ outputs'.mode \notin Driving
    BY <1>1, <1>3, UnconfiguredInv
  <2>3. QED
    BY <1>2, <2>1, <2>2
<1>4. CASE Configured(ModeAfterErrflg)
  <2> DEFINE m == IF ModeAfterErrflg = "INITIALIZE" THEN "MOTORSTOP" ELSE ModeAfterErrflg
  <2>1. /\ mod_init_stat' = Joints /\ pos' \in [Joints -> Positions]
        /\ calib_in' \in BOOLEAN
        /\ Calibrate \/ EndCalibration \/ Operate(m)
    BY <1>4 DEF Configured
  <2>2. CASE Calibrate
    <3>1. CycleTypes' /\ IInv'
      BY <2>1, <2>2, CalibrateInv
    <3>2. /\ calibrating' = 1 \/ outputs'.mode \notin Driving
          /\ calib_in' \/ calibrating = 1
      BY <2>2, <3>1, ModeTypes
         DEF Calibrate, MoveToLimits, ReachLimits, Output
    <3>3. QED
      BY <1>2, <2>1, <3>1, <3>2
  <2>3. CASE EndCalibration
    BY <1>2, <2>1, <2>3, EndCalibrationInv
  <2>4. CASE Operate(m)
    <3>1. /\ m \in Modes
          /\ m \in Driving => m = control_mode /\ fatal' = FALSE
      BY <1>1, ModeTypes DEF ModeAfterErrflg, TypeOK
    <3>2. m \in Driving => outputs.mode = m
      BY <3>1 DEF IInv, ModeInv
    <3> HIDE DEF m
    <3>3. /\ CycleTypes' /\ IInv'
          /\ outputs'.mode \in Driving =>
               mode_in' = outputs'.mode \/ (mode_in' = "none" /\ outputs'.mode = m)
      BY <2>1, <2>4, <3>1, OperateInv
    <3>4. "none" \notin Driving
      BY DEF Driving
    <3>5. QED
      BY <1>2, <2>1, <3>1, <3>2, <3>3, <3>4
  <2>5. QED
    BY <2>1, <2>2, <2>3, <2>4
<1>5. QED
  BY <1>3, <1>4 DEF ProcUpdate

(* Every reachable state satisfies the inductive invariant. *)
THEOREM Invariance == Spec => [](TypeOK /\ IInv)
<1>1. Init => TypeOK /\ IInv
  <2> SUFFICES ASSUME Init PROVE TypeOK /\ IInv
    OBVIOUS
  <2>1. TypeOK
    <3>1. jntlim_safety_disabled \in BOOLEAN /\ calib_in \in BOOLEAN /\ fatal \in BOOLEAN
      BY DEF Init
    <3>2. pos \in [Joints -> Positions \cup {0}] /\ axis_at_limit # Joints
      BY JointsAssumption DEF Init
    <3>3. outputs \in [mode : Supported, value : [Joints -> SetPoints]]
      BY SetPointTypes, ModeTypes DEF Init
    <3>4. QED
      BY <3>1, <3>2, <3>3, SetPointTypes, ModeTypes DEF Init, TypeOK
  <2>2. IInv
    BY DEF Init, IInv, CalibInv, ModeInv, OutputsConsistent, ReferenceAtLimits,
           SoftLimits, Driving
  <2>3. QED
    BY <2>1, <2>2
<1>2. TypeOK /\ IInv /\ [Next]_vars => TypeOK' /\ IInv'
  <2> SUFFICES ASSUME TypeOK, IInv, [Next]_vars
               PROVE  TypeOK' /\ IInv'
    OBVIOUS
  <2> USE DEF NoInput
  <2>1. CASE YoubotInit
    <3>1. TypeOK'
      <4>1. /\ jntlim_safety_disabled' \in BOOLEAN /\ calib_in' \in BOOLEAN
            /\ fatal' \in BOOLEAN
        BY <2>1 DEF YoubotInit
      <4>2. pos' \in [Joints -> Positions \cup {0}] /\ axis_at_limit' # Joints
        BY <2>1, JointsAssumption DEF YoubotInit
      <4>3. outputs' \in [mode : Supported, value : [Joints -> SetPoints]]
        BY <2>1, SetPointTypes, ModeTypes DEF YoubotInit
      <4>4. QED
        BY <2>1, <4>1, <4>2, <4>3, SetPointTypes, ModeTypes DEF YoubotInit, TypeOK
    <3>2. IInv'
      BY <2>1 DEF YoubotInit, IInv, CalibInv, ModeInv, OutputsConsistent,
                  ReferenceAtLimits, SoftLimits, Driving
    <3>3. QED
      BY <3>1, <3>2
  <2>2. CASE YoubotStart
    <3>1. TypeOK'
      BY <2>2, SetPointTypes DEF YoubotStart, TypeOK, calibVars
    <3>2. \A j \in Joints : Zero[j].val = 0 /\ Zero[j].unit = "none"
      BY DEF Zero, SetPoint
    <3>3. CalibInv' /\ ModeInv'
      BY <2>2, <3>2, SetPointTypes
         DEF YoubotStart, calibVars, IInv, CalibInv, ModeInv, OutputsConsistent,
             UnitsOf, TypeOK
    <3>4. ReferenceAtLimits' /\ SoftLimits'
      BY <2>2 DEF YoubotStart, calibVars, IInv, ReferenceAtLimits, SoftLimits
    <3>5. QED
      BY <3>1, <3>3, <3>4 DEF IInv
  <2>3. CASE YoubotStop \/ YoubotCleanup \/ LostCycle \/ UNCHANGED vars
    <3>1. /\ UNCHANGED <<machineVars, calibVars, outputs, contact>>
          /\ block_state' \in {"PREINIT", "INACTIVE", "ACTIVE"}
          /\ mode_in' \in Modes \cup {"none", "invalid"}
          /\ calib_in' \in BOOLEAN /\ fatal' \in BOOLEAN
      BY <2>3 DEF YoubotStop, YoubotCleanup, LostCycle, vars, inVars, TypeOK
    <3>2. TypeOK'
      BY <3>1 DEF TypeOK, machineVars, calibVars
    <3>3. IInv'
      BY <3>1 DEF IInv, CalibInv, ModeInv, OutputsConsistent, UnitsOf,
                  ReferenceAtLimits, SoftLimits, machineVars, calibVars
    <3>4. QED
      BY <3>2, <3>3
  <2>4. CASE ProcUpdate
    BY <2>4, CycleInv
  <2>5. QED
    BY <2>1, <2>2, <2>3, <2>4 DEF Next
<1>3. QED
  BY <1>1, <1>2, PTL DEF Spec

-----------------------------------------------------------------------------
(***************************************************************************)
(* The properties.                                                         *)
(***************************************************************************)

(* Every state is well typed. *)
THEOREM TypeCorrect == Spec => []TypeOK
BY Invariance, PTL

(* The reference position is taken with every joint at its limit, where it *)
(* stays until then, and the reference is sent unscaled.                   *)
THEOREM ReferenceAtLimitsAlways == Spec => []ReferenceAtLimits
<1>1. IInv => ReferenceAtLimits
  BY DEF IInv
<1>2. QED
  BY <1>1, Invariance, PTL

(* Outside a calibration no joint past the scaling range is driven towards *)
(* its limit by a velocity or a current.                                   *)
THEOREM SoftLimitsAlways == Spec => []SoftLimits
<1>1. IInv => SoftLimits
  BY DEF IInv
<1>2. QED
  BY <1>1, Invariance, PTL

(* Joints are driven only when initialised and in the unit of the mode. *)
THEOREM OutputsConsistentAlways == Spec => []OutputsConsistent
<1>1. IInv => OutputsConsistent
  BY DEF IInv, ModeInv
<1>2. QED
  BY <1>1, Invariance, PTL

(* The steps other than cycles drive nothing that was not driven. *)
LEMMA HooksKeepImage ==
  ASSUME [Next]_vars, ~ ProcUpdate
  PROVE  outputs'.mode = outputs.mode \/ outputs'.mode \notin Driving
BY DEF Next, YoubotInit, YoubotStart, YoubotStop, YoubotCleanup, LostCycle, vars, Driving

(* A stopped arm drives again only on a command. *)
THEOREM NoRestartAlways == Spec => NoRestart
<1>1. TypeOK /\ IInv /\ [Next]_vars =>
        (outputs.mode \notin Driving /\ outputs'.mode \in Driving
          => mode_in' = outputs'.mode \/ calib_in' \/ calibrating = 1)
  BY CycleInv, HooksKeepImage
<1>2. QED
  BY <1>1, Invariance, PTL DEF Spec, NoRestart

(* Outside a calibration an error stops the arm unless a mode command of   *)
(* the same cycle overrides it.                                            *)
THEOREM ErrorStopsAlways == Spec => []ErrorStops
<1>1. Init => ErrorStops
  BY DEF Init, ErrorStops
<1>2. TypeOK /\ IInv /\ ErrorStops /\ [Next]_vars => ErrorStops'
  <2> SUFFICES ASSUME TypeOK, IInv, ErrorStops, [Next]_vars
               PROVE  ErrorStops'
    OBVIOUS
  <2>1. CASE ProcUpdate
    BY <2>1, CycleInv DEF ErrorStops
  <2>2. CASE YoubotInit \/ YoubotStart \/ LostCycle
    BY <2>2 DEF YoubotInit, YoubotStart, LostCycle, NoInput, ErrorStops
  <2>3. CASE YoubotStop \/ YoubotCleanup \/ UNCHANGED vars
    BY <2>3 DEF YoubotStop, YoubotCleanup, vars, inVars, calibVars, ErrorStops
  <2>4. QED
    BY <2>1, <2>2, <2>3 DEF Next
<1>3. QED
  BY <1>1, <1>2, Invariance, PTL DEF Spec
=============================================================================
