-------------------------------- MODULE Fmpc --------------------------------
(***************************************************************************)
(* The blocks fmpc_c and fmpc_c2: how a step of the controller turns the   *)
(* obstacle into bounds for the predicted positions, and the loops of the  *)
(* solver that search for a point between the bounds.                      *)
(*                                                                         *)
(* Positions are relative to the goal. Of a predicted state only the       *)
(* position is kept, as <<x, y>>, and of z only its states: the bounds of  *)
(* the inputs are moved by the speed of a wheel, both by the same amount,  *)
(* and never cross. What Newton's method finds is any plan between the     *)
(* bounds (FmpcSolver has the algebra). All sizes are scaled down: two     *)
(* coordinates for the four states, and a horizon longer than that.        *)
(***************************************************************************)
EXTENDS Integers

CONSTANTS
  FMPC_GT,                \* rows of the horizon
  Positions,              \* the positions a plan may have, with the goal <<0, 0>>
  Obstacles,              \* records [x, y, r]
  Xmin_const, Xmax_const, \* bounds of the configuration
  Guarded,                \* FALSE: fmpc_c, TRUE: fmpc_c2
  niter,                  \* param_iteration
  MaxShort                \* after so many factors beta nothing is left of a step
FmpcAssumption ==
  /\ FMPC_GT \in 2..4 /\ niter \in Nat \ {0} /\ MaxShort \in Nat /\ Guarded \in BOOLEAN
  /\ <<0, 0>> \in Positions
  /\ \A c \in 1..2 : Xmin_const[c] < Xmax_const[c]

VARIABLES
  fpc,           \* "idle", "iterate", "length" or "search"
  X_ao,          \* the plan of the last step, from row 1 on
  lo, hi,        \* xmin_a and xmax_a
  obstacle,
  count, short,  \* iterations, and factors beta in the loop that runs
  reach,         \* the step of this iteration reaches the inside of the bounds
  inside,        \* z is strictly between its bounds
  wasReset       \* history: fmpc_c2 has replaced its bounds
fmpcVars == <<fpc, X_ao, lo, hi, obstacle, count, short, reach, inside, wasReset>>

Horizon == 0..(FMPC_GT - 1)
LastRow == FMPC_GT - 1
Kept == 1..LastRow      \* the rows of a plan that the next step reads
Plans == [Kept -> Positions]

(* The square root; the positions are such that it is exact where used. *)
Sqrt(k) == CHOOSE s \in 0..k : s * s = k

Square(a) == a * a
InCircle(p, o) == Square(p[1] - o.x) + Square(p[2] - o.y) < Square(o.r)

(* On which side of the line to the goal the obstacle is. *)
cal_passover_side(p, o) == (0 - p[1]) * (o.y - p[2]) - (0 - p[2]) * (o.x - p[1])

(* Half the circle's height above p's x, and half its width at p's y. *)
HalfHeight(p, o) == Sqrt(Square(o.r) - Square(p[1] - o.x))
HalfWidth(p, o)  == Sqrt(Square(o.r) - Square(p[2] - o.y))

(* The bounds that a position inside the circle gives its own row. The x   *)
(* coordinate of the obstacle enters with the wrong sign (factor), and the *)
(* lower bound of x is set back in any case.                               *)
UpperSide(p, o) == <<-HalfWidth(p, o) - o.x, -HalfHeight(p, o) + o.y>>
LowerSide(p, o) == <<HalfWidth(p, o) - o.x, HalfHeight(p, o) + o.y>>

(* Mutant of Avoid: fmpc_c2 as careless as fmpc_c. *)
AvoidCareless(b, j, p, o) ==
  IF cal_passover_side(p, o) > 0
  THEN [b EXCEPT !.hi[j] = UpperSide(p, o)]
  ELSE [b EXCEPT !.lo[j] = <<Xmin_const[1], LowerSide(p, o)[2]>>]

(* The bounds after a position p inside the circle at row j. *)
Avoid(b, j, p, o) ==
  IF cal_passover_side(p, o) > 0
  THEN LET up == UpperSide(p, o) IN
       IF Guarded /\ ~(up[1] > b.lo[j][1] /\ up[2] > b.lo[j][2])
       THEN b ELSE [b EXCEPT !.hi[j] = up]
  ELSE LET low == LowerSide(p, o) IN
       IF Guarded /\ ~(low[1] < b.hi[j][1] /\ low[2] < b.hi[j][2])
       THEN [b EXCEPT !.lo[j][1] = Xmin_const[1]]
       ELSE [b EXCEPT !.lo[j] = <<Xmin_const[1], low[2]>>]

(* Row by row: a position inside the circle bounds its row, one outside    *)
(* frees the next. Nothing ever frees row 0, and nothing bounds the last.  *)
Bounds(X, l, h, o) ==
  LET after[j \in -1..(LastRow - 1)] ==
        IF j = -1 THEN [lo |-> l, hi |-> h]
        ELSE IF InCircle(X[j], o) THEN Avoid(after[j - 1], j, X[j], o)
        ELSE [after[j - 1] EXCEPT !.lo[j + 1] = Xmin_const, !.hi[j + 1] = Xmax_const]
  IN  after[LastRow - 1]

(* A coordinate in hundredths after the clamp to the bounds less a margin  *)
(* of one percent (checkBoundary).                                         *)
Clamped(a, l, h) ==
  LET top == 100 * h - (h - l)
      low == 100 * l + (h - l)
      b == IF 100 * a > top THEN top ELSE 100 * a
  IN  IF b < low THEN low ELSE b

StartsInside(X, l, h) ==
  \A j \in Horizon, c \in 1..2 :
    LET a == Clamped(X[j][c], l[j][c], h[j][c]) IN 100 * l[j][c] < a /\ a < 100 * h[j][c]

Ordered(l, h) == \A j \in Horizon, c \in 1..2 : l[j][c] < h[j][c]

(* A plan of which every position is strictly between its bounds.          *)
Between(X) == \A j \in Kept, c \in 1..2 : lo[j][c] < X[j][c] /\ X[j][c] < hi[j][c]

(* The last plan moved up by a row, with the goal in the last one.         *)
Shifted(X) == [j \in Horizon |-> IF j = LastRow THEN <<0, 0>> ELSE X[j + 1]]

(* The bounds that fmpc_c2 takes when goal and obstacle have both changed: *)
(* the limits of coordinate i for all of row i. For rows beyond the        *)
(* coordinates it reads past the end of two arrays. It also puts the plan  *)
(* of X0.txt into X_a, which youbot_fmpc overwrites before anything reads  *)
(* it. What it finds past the end is one limit or the other here.          *)
Garbage == {Xmin_const[1], Xmax_const[1]}
ResetRows(low, high) ==
  LET limits(const, other) ==
        [j \in Horizon |-> IF j < 2 THEN <<const[j + 1], const[j + 1]>> ELSE <<other, other>>]
  IN  [lo |-> limits(Xmin_const, low), hi |-> limits(Xmax_const, high)]

Init ==
  /\ fpc = "idle" /\ obstacle \in Obstacles
  /\ X_ao = [j \in Kept |-> <<0, 0>>]                        \* a zeroed global
  /\ lo = [j \in Horizon |-> Xmin_const] /\ hi = [j \in Horizon |-> Xmax_const]
  /\ count = 0 /\ short = 0 /\ reach = FALSE /\ inside = FALSE /\ wasReset = FALSE

(* The messages of a step: an obstacle or none (relative to the goal, so   *)
(* it moves with either), and a goal or none. The bounds b after reading.  *)
ReadPorts(b) ==
  /\ obstacle' \in Obstacles
  /\ \/ b = [lo |-> lo, hi |-> hi] /\ UNCHANGED wasReset
     \/ /\ Guarded /\ obstacle' # obstacle
        /\ \E low, high \in Garbage : b = ResetRows(low, high)
        /\ wasReset' = TRUE
KnownBounds == {[lo |-> lo, hi |-> hi]} \cup {ResetRows(low, high) : low, high \in Garbage}

(* A step with odometry and twist: bounds, and z clamped to them.          *)
Step ==
  /\ fpc = "idle" /\ fpc' = "iterate"
  /\ \E b \in KnownBounds :
       /\ ReadPorts(b)
       /\ LET X == Shifted(X_ao)
              n == Bounds(X, b.lo, b.hi, obstacle')
          IN  lo' = n.lo /\ hi' = n.hi /\ inside' = StartsInside(X, n.lo, n.hi)
  /\ count' = 0 /\ short' = 0
  /\ UNCHANGED <<X_ao, reach>>

(* A step without them solves nothing.                                     *)
StepBlind ==
  /\ fpc = "idle"
  /\ \E b \in KnownBounds : ReadPorts(b) /\ lo' = b.lo /\ hi' = b.hi
  /\ UNCHANGED <<fpc, X_ao, count, short, reach, inside>>

(* A Newton step. From inside the bounds some part of it ends inside. From *)
(* outside it may or may not cross the inside; crossed bounds have none.   *)
Iterate ==
  /\ fpc = "iterate" /\ count < niter
  /\ reach' \in (IF inside THEN {TRUE} ELSE IF Ordered(lo, hi) THEN BOOLEAN ELSE {FALSE})
  /\ fpc' = "length" /\ short' = 0
  /\ UNCHANGED <<X_ao, lo, hi, obstacle, count, inside, wasReset>>

(* The step length loop: another factor beta, or the step ends inside. A   *)
(* factor that has become 0 stays 0.                                       *)
Shorten ==
  /\ fpc = "length" /\ (short < MaxShort \/ ~reach)
  /\ short' = IF short < MaxShort THEN short + 1 ELSE short
  /\ UNCHANGED <<fpc, X_ao, lo, hi, obstacle, count, reach, inside, wasReset>>
LengthFound ==
  /\ fpc = "length" /\ reach
  /\ fpc' = "search" /\ inside' = TRUE /\ short' = 0
  /\ UNCHANGED <<X_ao, lo, hi, obstacle, count, reach, wasReset>>

(* The line search: another factor beta, or the residual has shrunk. It    *)
(* does for a short enough Newton step.                                    *)
Backtrack ==
  /\ fpc = "search" /\ short < MaxShort /\ short' = short + 1
  /\ UNCHANGED <<fpc, X_ao, lo, hi, obstacle, count, reach, inside, wasReset>>
Accept ==
  /\ fpc = "search" /\ fpc' = "iterate" /\ count' = count + 1
  /\ UNCHANGED <<X_ao, lo, hi, obstacle, short, reach, inside, wasReset>>

(* The residual is small, or the iterations are used up.                   *)
Finish ==
  /\ fpc = "iterate" /\ fpc' = "idle"
  /\ X_ao' \in Plans /\ (inside => Between(X_ao'))
  /\ count' = 0 /\ short' = 0 /\ reach' = FALSE /\ inside' = FALSE
  /\ UNCHANGED <<lo, hi, obstacle, wasReset>>

Solve == Iterate \/ Shorten \/ LengthFound \/ Backtrack \/ Accept \/ Finish
Next == Step \/ StepBlind \/ Solve

(* The solver runs within one call of the step hook.                       *)
Spec == Init /\ [][Next]_fmpcVars /\ WF_fmpcVars(Solve)

-----------------------------------------------------------------------------
TypeOK ==
  /\ fpc \in {"idle", "iterate", "length", "search"} /\ X_ao \in Plans
  /\ {lo, hi} \subseteq [Horizon -> Int \X Int] /\ obstacle \in Obstacles
  /\ count \in 0..niter /\ short \in 0..MaxShort
  /\ {reach, inside, wasReset} \subseteq BOOLEAN

(* The solver never begins with bounds that leave no room, as long as      *)
(* fmpc_c2 has not replaced them: a bound is only set on the right side of *)
(* the opposite bound, which may be left over from earlier steps.          *)
GuardKeepsOrder == Guarded /\ ~wasReset => Ordered(lo, hi)

(* A step that begins with room between the bounds ends, and the plan it   *)
(* sends is between them (fmpc_solver, checkBoundary).                     *)
StepEnds == fpc = "iterate" /\ Ordered(lo, hi) ~> fpc = "idle"
PlanBetween == [][fpc # "idle" /\ fpc' = "idle" /\ Ordered(lo, hi) => Between(X_ao')]_fmpcVars

(* Every step of the controller ends; its meta data promise real time.     *)
EveryStepEnds == fpc = "iterate" ~> fpc = "idle"
=============================================================================
