-------------------------------- MODULE Mol --------------------------------
(***************************************************************************)
(* The matrix kernels of the predictive controller (fmpc_c/mol): products  *)
(* of blocks, the Cholesky factorization and the triangular solvers.       *)
(*                                                                         *)
(* A matrix is what Matrix<T, NROW, NCOL> is in memory: its elements row   *)
(* by row (e) and the number of its columns (c). That matters where a      *)
(* kernel addresses a column as a row. Indices begin with 0 as in the      *)
(* code. Where a kernel works in place on blocks of one matrix, the blocks *)
(* of every caller are disjoint, so old values are read.                   *)
(*                                                                         *)
(* Numbers are exact: float is replaced by the field with Prime squared    *)
(* elements, <<a, b>> standing for a + b*i. What the kernels promise is    *)
(* algebra and holds in any field; in this one every pivot has a root, as  *)
(* every positive float has. Rounding is left out.                         *)
(***************************************************************************)
EXTENDS Integers, Sequences, Functions, SequencesExt

CONSTANT Prime      (* a prime that leaves 3 when divided by 4: -1 has no root *)
PrimeAssumption ==
  Prime \in Nat /\ Prime % 4 = 3 /\ \A a \in 2..(Prime - 1) : Prime % a # 0

Residues == 0..(Prime - 1)
Zero == <<0, 0>>
One  == <<1, 0>>

Add(a, b) == <<(a[1] + b[1]) % Prime, (a[2] + b[2]) % Prime>>
Neg(a)    == <<(-a[1]) % Prime, (-a[2]) % Prime>>
Mul(a, b) == <<(a[1] * b[1] - a[2] * b[2]) % Prime, (a[1] * b[2] + a[2] * b[1]) % Prime>>

ResidueInverse == [a \in Residues \ {0} |-> CHOOSE b \in Residues : (a * b) % Prime = 1]
ResidueRoot == [a \in {(b * b) % Prime : b \in Residues} |->
                  CHOOSE b \in Residues : (b * b) % Prime = a]

(* 1 / a; the division by a pivot that is 0 gives 0 and is told apart by   *)
(* Regular.                                                                *)
Inv(a) == LET n == (a[1] * a[1] + a[2] * a[2]) % Prime
          IN  IF n = 0 THEN Zero ELSE Mul(<<a[1], -a[2]>>, <<ResidueInverse[n], 0>>)
Div(a, b) == Mul(a, Inv(b))

(* sqrt of a pivot, which has no imaginary part. *)
Sqrt(a) == IF a[1] \in DOMAIN ResidueRoot THEN <<ResidueRoot[a[1]], 0>>
                                          ELSE <<0, ResidueRoot[(-a[1]) % Prime]>>

Total(f) == FoldFunction(Add, Zero, f)

-----------------------------------------------------------------------------
(* Matrices.                                                               *)

Rows(M) == Len(M.e) \div M.c
At(M, i, j) == M.e[i * M.c + j + 1]
Of(rows, cols, f) ==
  [c |-> cols, e |-> [n \in 1..(rows * cols) |-> f[(n - 1) \div cols, (n - 1) % cols]]]
Zeros(rows, cols) == [c |-> cols, e |-> [n \in 1..(rows * cols) |-> Zero]]

Transpose(M) == Of(M.c, Rows(M), [i \in 0..(M.c - 1), j \in 0..(Rows(M) - 1) |-> At(M, j, i)])
Eye(n) == Of(n, n, [i \in 0..(n - 1), j \in 0..(n - 1) |-> IF i = j THEN One ELSE Zero])
Plus(M, N) == [M EXCEPT !.e = [n \in DOMAIN @ |-> Add(@[n], N.e[n])]]
Scaled(M, s) == [M EXCEPT !.e = [n \in DOMAIN @ |-> Mul(@[n], s)]]
Minus(M, N) == Plus(M, Scaled(N, Neg(One)))
Product(M, N) ==
  Of(Rows(M), N.c, [i \in 0..(Rows(M) - 1), j \in 0..(N.c - 1) |->
       Total([k \in 0..(M.c - 1) |-> Mul(At(M, i, k), At(N, k, j))])])

(* The rows x cols matrix whose element i, j is element i+X, j+Y of M, or  *)
(* j+Y, i+X if it is to be transposed (GetSubMatrix).                      *)
SubMatrix(M, rows, cols, X, Y, trans) ==
  Of(rows, cols, [i \in 0..(rows - 1), j \in 0..(cols - 1) |->
       IF trans = 0 THEN At(M, i + X, j + Y) ELSE At(M, j + Y, i + X)])

-----------------------------------------------------------------------------
(* Products of blocks: r rows and c columns of m, from row i and column j. *)

Block(M, i, j, r, c) == [m |-> M, i |-> i, j |-> j, r |-> r, c |-> c]
Whole(M) == Block(M, 0, 0, Rows(M), M.c)
Place(B, i, j) == (B.i + i) * B.m.c + B.j + j + 1
In(B, i, j) == B.m.e[Place(B, i, j)]
Places(B) == {Place(B, i, j) : i \in 0..(B.r - 1), j \in 0..(B.c - 1)}

(* The sum of the products of the elements of two blocks. *)
Fdot(X, Y) ==
  Total([p \in (0..(X.r - 1)) \X (0..(X.c - 1)) |-> Mul(In(X, p[1], p[2]), In(Y, p[1], p[2]))])

Fscal(s, X) == [X.m EXCEPT !.e = [n \in DOMAIN @ |-> IF n \in Places(X) THEN Mul(s, @[n]) ELSE @[n]]]

(* C := alpha * op(A) * b + beta * C. The vectors are columns or rows: of  *)
(* b by its shape, of C if it has one row.                                 *)
Fgemv(trans, alpha, A, B, beta, C) ==
  LET M == IF trans = 1 THEN A.c ELSE A.r
      K == IF trans = 1 THEN A.r ELSE A.c
      a(i, k) == IF trans = 1 THEN In(A, k, i) ELSE In(A, i, k)
      b(k) == IF B.r > B.c THEN In(B, k, 0) ELSE In(B, 0, k)
      row(i) == Total([k \in 0..(K - 1) |-> Mul(a(i, k), b(k))])
      result(i) == IF C.r = 1 THEN Place(C, 0, i) ELSE Place(C, i, 0)
      scaled == Fscal(beta, C)
  IN  [scaled EXCEPT !.e = [n \in DOMAIN @ |->
         IF \E i \in 0..(M - 1) : result(i) = n
         THEN Add(@[n], Mul(alpha, row(CHOOSE i \in 0..(M - 1) : result(i) = n)))
         ELSE @[n]]]

(* C := alpha * op(A) * op(B) + beta * C; the bits of trans tell which of  *)
(* the two is transposed.                                                  *)
Fgemm(trans, alpha, A, B, beta, C) ==
  LET opA == IF trans \div 2 = 1 THEN Transpose(A) ELSE A
      opB == IF trans % 2 = 1 THEN Transpose(B) ELSE B
  IN  Plus(Scaled(C, beta), Scaled(Product(opA, opB), alpha))

-----------------------------------------------------------------------------
(* The Cholesky factorization A = U'*U (uplo 0) or A = L*L' (uplo 1). It   *)
(* overwrites one triangle; the other keeps the elements of A.             *)

PivotColumn(uplo, A, n, j) ==
  LET done == IF uplo = 0 THEN Block(A, 0, j, j, 1) ELSE Block(A, j, 0, 1, j)
      rest == n - j - 1
      ajj  == Sqrt(Add(At(A, j, j), Neg(Fdot(done, done))))
      P    == [A EXCEPT !.e[j * n + j + 1] = ajj]
      tail(M) == IF uplo = 0 THEN Block(M, j, j + 1, 1, rest) ELSE Block(M, j + 1, j, rest, 1)
      G    == IF uplo = 0
              THEN Fgemv(1, Neg(One), Block(P, 0, j + 1, j, rest), Block(P, 0, j, j, 1),
                         One, Block(P, j, j + 1, 1, j))
              ELSE Fgemv(0, Neg(One), Block(P, j + 1, 0, rest, j), Block(P, j, 0, 1, j),
                         One, tail(P))
  IN  IF j = n - 1 THEN P ELSE Fscal(Inv(ajj), tail(G))

Fpotf2(uplo, A) ==
  LET n == A.c
      step[j \in -1..(n - 1)] == IF j = -1 THEN A ELSE PivotColumn(uplo, step[j - 1], n, j)
  IN  step[n - 1]

(* op(A)^-1 * B for a triangular A. Without transposition a column of B is *)
(* solved by eliminating each solved element from the others, with it each *)
(* element takes the products of those solved before. The order runs away  *)
(* from the corner of the triangle that has one element.                   *)
Eliminate(A, b, k, others) ==
  LET x == Div(b[k], At(A, k, k))
  IN  [i \in DOMAIN b |-> IF i = k THEN x
                          ELSE IF i \in others THEN Add(b[i], Neg(Mul(x, At(A, i, k))))
                          ELSE b[i]]
Substitute(A, b, i, solved) ==
  [b EXCEPT ![i] = Div(Add(@, Neg(Total([k \in solved |-> Mul(At(A, k, i), b[k])]))), At(A, i, i))]

Ftrsm(uplo, trans, A, B) ==
  LET n == A.c
      up == [k \in 1..n |-> k - 1]
      order == IF uplo + trans = 1 THEN up ELSE Reverse(up)
      column(j) == [i \in 0..(n - 1) |-> At(B, i, j)]
      step(b, k) ==
        IF trans = 0 THEN Eliminate(A, b, k, IF uplo = 0 THEN 0..(k - 1) ELSE (k + 1)..(n - 1))
                     ELSE Substitute(A, b, k, IF uplo = 0 THEN 0..(k - 1) ELSE (k + 1)..(n - 1))
      solved == [j \in 0..(B.c - 1) |-> FoldLeft(step, column(j), order)]
  IN  Of(n, B.c, [i \in 0..(n - 1), j \in 0..(B.c - 1) |-> solved[j][i]])

Ftrtrs(uplo, trans, A, B) == Ftrsm(uplo, trans, A, B)

(* A^-1 * B for a symmetric A, given its factor, and with the factor that  *)
(* is left in A.                                                           *)
Fpotrs(uplo, A, B) ==
  IF uplo = 0 THEN Ftrsm(0, 0, A, Ftrsm(0, 1, A, B)) ELSE Ftrsm(1, 1, A, Ftrsm(1, 0, A, B))
Fposv(uplo, A, B) == LET F == Fpotf2(uplo, A) IN [A |-> F, B |-> Fpotrs(uplo, F, B)]

Regular(F) == \A j \in 0..(F.c - 1) : At(F, j, j) # Zero
=============================================================================
