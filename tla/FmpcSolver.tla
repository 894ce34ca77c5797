----------------------------- MODULE FmpcSolver -----------------------------
(***************************************************************************)
(* The Newton iteration of the predictive controller (fmpc_c/mol/fmpc):    *)
(* residuals, Newton step and the update of the point, in exact arithmetic *)
(* (Mol). Row i of z holds the input u(i) and the state x(i+1) it leads    *)
(* to; the problem is to minimize  SUM u'Ru + x'Qx  (Qf for the last       *)
(* state) with a logarithmic barrier at the bounds, subject to             *)
(* x(i+1) = A x(i) + B u(i).                                               *)
(*                                                                         *)
(* The two loops that shorten a step compare numbers, which a finite field *)
(* does not order; Fmpc has them. Here a whole step is taken. Problems are *)
(* numbered, and their data are spread over the field by Entry.            *)
(***************************************************************************)
EXTENDS Mol

CONSTANTS
  FMPC_GN, FMPC_GM,  \* number of states and of inputs
  FMPC_GT,           \* number of steps looked ahead
  Problems,          \* the numbers of the problems
  MaxIter            \* param_iteration
SizeAssumption == {FMPC_GN, FMPC_GM, FMPC_GT, MaxIter} \subseteq Nat \ {0}

VARIABLES
  stage,    \* where the iteration is
  prob,     \* the problem
  iiter,    \* number of the iteration
  row,      \* the row at which a loop of dnudz is
  z, nu,    \* the point: inputs and states, and the multipliers
  hp,       \* second derivative of the barrier
  rd, rp,   \* dual and primal residual
  inv,      \* the inverses of the blocks of Phi
  Ld, Lld,  \* the block Cholesky factor
  v, y,     \* forward and backward substitution: v and dnu of dnudz
  dz, dnu   \* the Newton step
solverVars == <<stage, prob, iiter, row, z, nu, hp, rd, rp, inv, Ld, Lld, v, y, dz, dnu>>

n == FMPC_GN
m == FMPC_GM
T == FMPC_GT

Two == Add(One, One)
Rest == 0..(T - 1)

(* Some number for each place of the data of a problem; never 0, so that   *)
(* no point lies on its bounds.                                            *)
Entry(s, k) == <<1 + ((7 * s * s + 3 * s * k + 5 * k * k + k) % (Prime - 1)), 0>>
Filled(s, k, rows, cols) ==
  Of(rows, cols, [i \in 0..(rows - 1), j \in 0..(cols - 1) |-> Entry(s, k + i * cols + j)])
Diagonal(s, k, size) ==
  Of(size, size, [i \in 0..(size - 1), j \in 0..(size - 1) |->
                   IF i = j THEN Entry(s, k + i) ELSE Zero])

(* What the block passes: the matrices of the files, the bounds of this    *)
(* step and the state. The weights are diagonal as in data_fmpc.           *)
Problem(s) ==
  [A |-> Filled(s, 0, n, n), B |-> Filled(s, 20, n, m),
   Q |-> Diagonal(s, 40, n), R |-> Diagonal(s, 50, m), Qf |-> Diagonal(s, 60, n),
   zmax |-> Filled(s, 100, T, m + n), zmin |-> Filled(s, 200, T, m + n),
   x |-> Filled(s, 70, n, 1), kappa |-> Entry(s, 80)]

-----------------------------------------------------------------------------
(* The gradient of the cost, and the barrier's first two derivatives.      *)
Gfgphp(p, zz) ==
  LET gp1 == [zz EXCEPT !.e = [k \in DOMAIN @ |-> Inv(Add(p.zmax.e[k], Neg(@[k])))]]
      gp2 == [zz EXCEPT !.e = [k \in DOMAIN @ |-> Inv(Add(@[k], Neg(p.zmin.e[k])))]]
      input(i, gf) == Fgemv(0, Two, Whole(p.R), Block(zz, i, 0, 1, m), Zero, Block(gf, i, 0, 1, m))
      state(i, gf) == Fgemv(0, Two, Whole(IF i = T - 1 THEN p.Qf ELSE p.Q),
                            Block(zz, i, m, 1, n), Zero, Block(gf, i, m, 1, n))
      line[i \in -1..(T - 1)] ==
        IF i = -1 THEN Zeros(T, m + n) ELSE state(i, input(i, line[i - 1]))
  IN  [gf |-> line[T - 1], gp |-> Minus(gp1, gp2),
       hp |-> [gp1 EXCEPT !.e = [k \in DOMAIN @ |-> Add(Mul(@[k], @[k]), Mul(gp2.e[k], gp2.e[k]))]]]

(* Cz, the left side of the dynamics. *)
Cz(p, zz) ==
  LET states == SubMatrix(zz, T, n, 0, m, 0)
      input(i, M) == Fgemv(0, Neg(One), Whole(p.B), Block(zz, i, 0, 1, m), One, Block(M, i, 0, 1, n))
      state(i, M) == Fgemv(0, Neg(One), Whole(p.A), Block(zz, i - 1, m, 1, n), One,
                           Block(M, i, 0, 1, n))
      line[i \in Rest] == IF i = 0 THEN input(0, states) ELSE input(i, state(i, line[i - 1]))
  IN  line[T - 1]

(* C'y for one row of multipliers per step. *)
Ct(p, w) ==
  LET input(i, M) == Fgemv(1, Neg(One), Whole(p.B), Block(w, i, 0, 1, n), Zero, Block(M, i, 0, 1, m))
      state(i, M) == IF i = T - 1 THEN M
                     ELSE Fgemv(1, Neg(One), Whole(p.A), Block(w, i + 1, 0, 1, n), One,
                                Block(M, i, m, 1, n))
      copied == Of(T, m + n, [i \in Rest, j \in 0..(m + n - 1) |->
                               IF j < m THEN Zero ELSE At(w, i, j - m)])
      line[i \in -1..(T - 1)] == IF i = -1 THEN copied ELSE state(i, input(i, line[i - 1]))
  IN  line[T - 1]

(* The residuals rp = Cz - b and rd = grad + kappa * barrier + C'nu.       *)
Rdrp(p, zz, mult, g) ==
  LET bb == Fgemv(0, One, Whole(p.A), Whole(p.x), Zero, Block(Zeros(T, n), 0, 0, 1, n))
  IN  [rp |-> Minus(Cz(p, zz), bb),
       rd |-> Plus(Plus(Ct(p, mult), g.gf), Scaled(g.gp, p.kappa))]

-----------------------------------------------------------------------------
(* The Newton step. It eliminates dz from                                  *)
(*      Phi dz + C'dnu = -rd,   C dz = -rp,   Phi = 2H + kappa * diag(hp)   *)
(* and solves for dnu with the block Cholesky factor of C Phi^-1 C'.        *)

AddDiagonal(M, h, i, from, kappa) ==
  [M EXCEPT !.e = [k \in DOMAIN @ |->
     LET r == (k - 1) \div M.c
     IN  IF r = (k - 1) % M.c THEN Add(@[k], Mul(kappa, At(h, i, from + r))) ELSE @[k]]]
PhiQ(p, h, i) == AddDiagonal(Scaled(IF i = T - 1 THEN p.Qf ELSE p.Q, Two), h, i, m, p.kappa)
PhiR(p, h, i) == AddDiagonal(Scaled(p.R, Two), h, i, 0, p.kappa)

(* The factor U of a block of Phi, the block's inverse applied to another  *)
(* matrix, and its inverse. The last applies the two triangles the other   *)
(* way round, which is the same only for a diagonal block.                 *)
InverseOf(Phi, other) ==
  LET U == Fpotf2(0, Phi)
  IN  [U |-> U, applied |-> Ftrsm(0, 0, U, Ftrsm(0, 1, U, other)),
       eye |-> Ftrsm(0, 1, U, Ftrsm(0, 0, U, Eye(Phi.c)))]
Inverses(p, h) ==
  [Q |-> [i \in Rest |-> InverseOf(PhiQ(p, h, i), Transpose(p.A))],
   R |-> [i \in Rest |-> InverseOf(PhiR(p, h, i), Transpose(p.B))]]

(* Mutant of Yd: the part of the state before is forgotten. *)
YdOwn(p, iv, i) == Plus(iv.Q[i].eye, Product(p.B, iv.R[i].applied))

(* The blocks of C Phi^-1 C' on and above the diagonal. *)
Yd(p, iv, i) ==
  LET own == Plus(iv.Q[i].eye, Product(p.B, iv.R[i].applied))
  IN  IF i = 0 THEN own ELSE Plus(own, Product(p.A, iv.Q[i - 1].applied))
Yud(iv, i) == Scaled(iv.Q[i].applied, Neg(One))

(* Its factor, block by block: Ld[i] on the diagonal and the transposed    *)
(* block Lld[i - 1] left of it.                                            *)
LeftOf(iv, LdBefore, i) == Ftrtrs(1, 0, LdBefore, Yud(iv, i - 1))
Corner(d) == Fposv(1, d, Zeros(n, 1)).A

(* The blocks of C Phi^-1 rd. The triangles of Phi's factor are taken for  *)
(* lower ones here, which they are only when diagonal.                     *)
CPhiinvrd(p, iv, r, i) ==
  LET lower(U, b) == Ftrsm(1, 1, U, Ftrsm(1, 0, U, b))
      stateOf(k) == lower(iv.Q[k].U, SubMatrix(r, n, 1, m, k, 1))
      inputOf(k) == lower(iv.R[k].U, SubMatrix(r, m, 1, 0, k, 1))
      minus(M, b, c) == Fgemv(0, Neg(One), Whole(M), Whole(b), One, Whole(c))
      own == minus(p.B, inputOf(i), stateOf(i))
  IN  IF i = 0 THEN own ELSE minus(p.A, stateOf(i - 1), own)

(* One row forward and backward through the factor. A row of v is a column *)
(* that is used as a row.                                                  *)
AsRow(M) == Block(M, 0, 0, 1, n)
ForwardRow(be, LldBefore, before, L) ==
  Ftrsm(1, 0, L, Fgemv(1, Neg(One), Whole(LldBefore), AsRow(before), Neg(One), AsRow(be)))
BackwardRow(vi, LldAfter, after, L) ==
  Ftrsm(1, 1, L, Fgemv(0, Neg(One), Whole(LldAfter), Whole(after), One, Whole(vi)))

(* Phi^-1 (-C'dnu - rd), row by row. *)
Dz(iv, r, Ctdnu) ==
  LET rhs == Minus(Scaled(Ctdnu, Neg(One)), r)
      state(i, M) == Fgemv(0, One, Whole(iv.Q[i].eye), Block(rhs, i, m, 1, n), Zero,
                           Block(M, i, m, 1, n))
      input(i, M) == Fgemv(0, One, Whole(iv.R[i].eye), Block(rhs, i, 0, 1, m), Zero,
                           Block(M, i, 0, 1, m))
      line[i \in -1..(T - 1)] ==
        IF i = -1 THEN Zeros(T, m + n) ELSE input(i, state(i, line[i - 1]))
  IN  line[T - 1]

-----------------------------------------------------------------------------
NoRows == Zeros(0, n)

Init ==
  /\ stage = "evaluate" /\ prob \in Problems /\ iiter = 0 /\ row = 0
  /\ z = Filled(prob, 300, T, m + n) /\ nu = Zeros(T, n)
  /\ hp = NoRows /\ rd = NoRows /\ rp = NoRows
  /\ inv = [Q |-> <<>>, R |-> <<>>] /\ Ld = <<>> /\ Lld = <<>>
  /\ v = [i \in Rest |-> Zeros(n, 1)] /\ y = [i \in Rest |-> Zeros(n, 1)]
  /\ dz = NoRows /\ dnu = NoRows

(* A new iteration: the residuals at z and nu. *)
Evaluate ==
  /\ stage = "evaluate"
  /\ IF iiter = MaxIter
     THEN stage' = "done" /\ UNCHANGED <<hp, rd, rp>>
     ELSE LET g == Gfgphp(Problem(prob), z)
              r == Rdrp(Problem(prob), z, nu, g)
          IN  stage' = "invert" /\ hp' = g.hp /\ rd' = r.rd /\ rp' = r.rp
  /\ UNCHANGED <<prob, iiter, row, z, nu, inv, Ld, Lld, v, y, dz, dnu>>

(* dnudz begins: the inverses of the blocks of Phi. *)
Invert ==
  /\ stage = "invert" /\ stage' = "factor"
  /\ inv' = Inverses(Problem(prob), hp) /\ row' = 0
  /\ UNCHANGED <<prob, iiter, z, nu, hp, rd, rp, Ld, Lld, v, y, dz, dnu>>

(* One row of the block Cholesky factorization. *)
FactorRow ==
  /\ stage = "factor"
  /\ LET Y == Yd(Problem(prob), inv, row) IN
     IF row = 0
     THEN Ld' = <<Corner(Y)>> /\ Lld' = <<>>
     ELSE LET l == LeftOf(inv, Ld[row], row)
          IN  /\ Lld' = Append(Lld, l)
              /\ Ld' = Append(Ld, Corner(Fgemm(2, Neg(One), l, l, One, Y)))
  /\ IF row = T - 1 THEN stage' = "forward" /\ row' = 0 ELSE row' = row + 1 /\ UNCHANGED stage
  /\ UNCHANGED <<prob, iiter, z, nu, hp, rd, rp, inv, v, y, dz, dnu>>

(* The right side for one row, be, and v by forward substitution. *)
Forward ==
  /\ stage = "forward"
  /\ LET be == Minus(CPhiinvrd(Problem(prob), inv, rd, row), SubMatrix(rp, n, 1, 0, row, 1))
     IN  v' = [v EXCEPT ![row] =
                 IF row = 0 THEN Ftrsm(1, 0, Ld[1], Scaled(be, Neg(One)))
                            ELSE ForwardRow(be, Lld[row], v[row - 1], Ld[row + 1])]
  /\ IF row = T - 1 THEN stage' = "backward" /\ UNCHANGED row
                    ELSE row' = row + 1 /\ UNCHANGED stage
  /\ UNCHANGED <<prob, iiter, z, nu, hp, rd, rp, inv, Ld, Lld, y, dz, dnu>>

(* One row of dnu by backward substitution. *)
Backward ==
  /\ stage = "backward"
  /\ y' = [y EXCEPT ![row] =
             IF row = T - 1 THEN Ftrsm(1, 1, Ld[T], v[row])
                            ELSE BackwardRow(v[row], Lld[row + 1], y[row + 1], Ld[row + 1])]
  /\ IF row = 0 THEN stage' = "direct" /\ UNCHANGED row ELSE row' = row - 1 /\ UNCHANGED stage
  /\ UNCHANGED <<prob, iiter, z, nu, hp, rd, rp, inv, Ld, Lld, v, dz, dnu>>

(* A root of 0 on the diagonal of a factor, which floats can give only by  *)
(* rounding, ends the problem here.                                        *)
AllRegular ==
  \A i \in Rest : Regular(inv.Q[i].U) /\ Regular(inv.R[i].U) /\ Regular(Ld[i + 1])

(* dnudz ends: dz from dnu. *)
Direct ==
  /\ stage = "direct"
  /\ LET mult == Of(T, n, [i \in Rest, j \in 0..(n - 1) |-> At(y[i], j, 0)])
     IN  dnu' = mult /\ dz' = Dz(inv, rd, Ct(Problem(prob), mult))
  /\ stage' = IF AllRegular THEN "move" ELSE "done"
  /\ UNCHANGED <<prob, iiter, row, z, nu, hp, rd, rp, inv, Ld, Lld, v, y>>

(* newz = z + dz * s and newnu = nu + dnu * s, with s = 1. *)
Move ==
  /\ stage = "move"
  /\ z' = Plus(z, dz) /\ nu' = Plus(nu, dnu)
  /\ iiter' = iiter + 1 /\ stage' = "evaluate"
  /\ UNCHANGED <<prob, row, hp, rd, rp, inv, Ld, Lld, v, y, dz, dnu>>

Next == Evaluate \/ Invert \/ FactorRow \/ Forward \/ Backward \/ Direct \/ Move

Spec == Init /\ [][Next]_solverVars

-----------------------------------------------------------------------------
(* What the step is for, in terms of the problem alone.                    *)

TypeOK ==
  /\ stage \in {"evaluate", "invert", "factor", "forward", "backward", "direct", "move", "done"}
  /\ prob \in Problems /\ iiter \in 0..MaxIter
  /\ Rows(z) = T /\ z.c = m + n /\ Rows(nu) = T /\ nu.c = n
  /\ \A M \in {z, nu, hp, rd, rp, dz, dnu} :
       \A k \in DOMAIN M.e : M.e[k] \in Residues \X Residues

Times(M, x(_), i) == Total([k \in 0..(M.c - 1) |-> Mul(At(M, i, k), x(k))])

(* x(i+1) - A x(i) - B u(i), component j, for the rows of zz from x0 on. *)
Defect(p, zz, x0, i, j) ==
  LET u(k) == At(zz, i, k)
      x(k) == IF i = 0 THEN At(x0, k, 0) ELSE At(zz, i - 1, m + k)
  IN  Add(At(zz, i, m + j), Neg(Add(Times(p.A, x, j), Times(p.B, u, j))))

(* The derivative of the Lagrangian without its constant part: weights     *)
(* times zz and the multipliers of the dynamics in which the entry occurs. *)
Slope(p, zz, w, i, j) ==
  LET mult(k) == At(w, i, k)
      later(k) == IF i = T - 1 THEN Zero ELSE At(w, i + 1, k)
      own(k) == IF j < m THEN At(zz, i, k) ELSE At(zz, i, m + k)
      W == IF j < m THEN p.R ELSE IF i = T - 1 THEN p.Qf ELSE p.Q
      c == IF j < m THEN j ELSE j - m
  IN  Add(Mul(Two, Times(W, own, c)),
          IF j < m THEN Neg(Times(Transpose(p.B), mult, c))
                   ELSE Add(At(w, i, c), Neg(Times(Transpose(p.A), later, c))))

(* The residuals are the defects of the dynamics and the derivative of the *)
(* Lagrangian (rdrp, gfgphp).                                              *)
ResidualsRight ==
  stage = "invert" =>
    LET p == Problem(prob) IN
    /\ \A i \in Rest, j \in 0..(n - 1) : At(rp, i, j) = Defect(p, z, p.x, i, j)
    /\ \A i \in Rest, j \in 0..(m + n - 1) :
         At(rd, i, j) = Add(Slope(p, z, nu, i, j),
           Mul(p.kappa, Add(Inv(Add(At(p.zmax, i, j), Neg(At(z, i, j)))),
                            Neg(Inv(Add(At(z, i, j), Neg(At(p.zmin, i, j))))))))

(* The step solves the linear system it is meant to solve (dnudz).         *)
StepRight ==
  stage = "move" =>
    LET p == Problem(prob) IN
    /\ \A i \in Rest, j \in 0..(n - 1) :
         Defect(p, dz, Zeros(n, 1), i, j) = Neg(At(rp, i, j))
    /\ \A i \in Rest, j \in 0..(m + n - 1) :
         Add(Slope(p, dz, dnu, i, j), Mul(p.kappa, Mul(At(hp, i, j), At(dz, i, j))))
           = Neg(At(rd, i, j))

(* After one whole step the plan obeys the dynamics from the measured      *)
(* state on, and every later step keeps it so (fmpc_solver).               *)
StaysFeasible ==
  stage = "invert" /\ iiter > 0 => \A k \in DOMAIN rp.e : rp.e[k] = Zero
=============================================================================
