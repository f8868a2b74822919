--------------------------- MODULE MultigridKernels ---------------------------
(***************************************************************************)
(* The kernels of src/GAMG/GAMGKernels.C.  A field is a function from the  *)
(* cells 0..n-1 to the integers modulo the prime P: there every division   *)
(* by a nonzero number is exact, so that two computations agree exactly    *)
(* when they are the same rational function of the input, whatever the     *)
(* order of the sums.  Magnitudes have no counterpart: partial pivoting    *)
(* takes some pivot that is not zero, and norms are left to the solver.     *)
(***************************************************************************)
EXTENDS Integers, Sequences, FiniteSets, FiniteSetsExt, SequencesExt

CONSTANT P

ASSUME PrimeAssumption == P \in Nat /\ P > 1 /\ \A a \in 2 .. P - 1 : P % a # 0

Value == 0 .. P - 1
\* the inverse modulo P; some value takes the place of 1/0, which has none
Reciprocal(a) == CHOOSE x \in Value : a = 0 \/ (a * x) % P = 1
Over(a, b) == (a * Reciprocal(b % P)) % P

\* the sum of value(x) over S
Total(value(_), S) == MapThenSumSet(value, S) % P

Index(m) == 0 .. m.n - 1
Upwards(n) == [i \in 1 .. n |-> i - 1]
FacesAt(m) == [f \in 1 .. Len(m.lower) |-> f]
OwnedBy(m, c) == {f \in 1 .. Len(m.lower) : m.lower[f] = c}

\* the same field, which TLC keeps as a table, once it has compared it, instead of
\* computing it at each use
Table(x) == CHOOSE y \in {x} : y = x

FieldOf(m) == [Index(m) -> Value]
ZeroField(n) == [c \in 0 .. n - 1 |-> 0]
PlusField(x, y) == Table([c \in DOMAIN x |-> (x[c] + y[c]) % P])
MinusField(x, y) == Table([c \in DOMAIN x |-> (x[c] - y[c]) % P])
InnerProduct(x, y) == Total(LAMBDA c : x[c] * y[c], DOMAIN x)

-----------------------------------------------------------------------------
(* Matrix times field.  The direct-flat view copies lower, upper and coeff, *)
(* and is walked through as the matrix itself is.                           *)

Scatter(m, f, owner, x, y) ==
  Table([y EXCEPT ![owner] = (@ + m.coeff[f] * x[m.upper[f]]) % P,
                  ![m.upper[f]] = (@ + m.coeff[f] * x[owner]) % P])

DiagonalTimes(m, x) == Table([c \in Index(m) |-> (m.diag[c] * x[c]) % P])

\* multiply, multiplyDirectFlat
Multiply(m, x) ==
  FoldLeft(LAMBDA y, f : Scatter(m, f, m.lower[f], x, y),
           DiagonalTimes(m, x), FacesAt(m))

\* the product of the owner is kept in a register while its faces scatter
MultiplyOwnerAccumulated(m, x) ==
  LET Owner(y, owner) ==
        Table([c \in Index(m) |->
          (y[c] + (IF c = owner
                     THEN Total(LAMBDA f : m.coeff[f] * x[m.upper[f]], OwnedBy(m, c))
                     ELSE Total(LAMBDA f : m.coeff[f] * x[owner],
                                {f \in OwnedBy(m, owner) : m.upper[f] = c}))) % P])
  IN  FoldLeft(Owner, DiagonalTimes(m, x), Upwards(m.n))

Residual(m, x, source) == MinusField(source, Multiply(m, x))

-----------------------------------------------------------------------------
(* Transfer between levels, smoothing, scaling. *)

\* the level is a record with fineToCoarse, a function of the fine cells
RestrictField(fineToCoarse, n, fine) ==
  Table([C \in 0 .. n - 1 |->
           Total(LAMBDA c : fine[c], {c \in DOMAIN fine : fineToCoarse[c] = C})])

ProlongField(fineToCoarse, coarse) ==
  Table([c \in DOMAIN fineToCoarse |-> coarse[fineToCoarse[c]]])

\* one cell of a sweep: gather from the neighbours it owns, scatter to them
SmoothCell(m, s, c) ==
  LET owned == OwnedBy(m, c)
      value == Over(s.bPrime[c] - Total(LAMBDA f : m.coeff[f] * s.psi[m.upper[f]], owned),
                    m.diag[c])
  IN  [bPrime |-> Table([d \in Index(m) |->
         (s.bPrime[d] - value * Total(LAMBDA f : m.coeff[f],
                                      {f \in owned : m.upper[f] = d})) % P]),
       psi |-> Table([s.psi EXCEPT ![c] = value])]

GaussSeidelSmooth(m, psi, source, nSweeps) ==
  LET Sweep(x, k) == FoldLeft(LAMBDA s, c : SmoothCell(m, s, c),
                              [bPrime |-> source, psi |-> x], Upwards(m.n)).psi
  IN  FoldLeft(Sweep, psi, Upwards(nSweeps))

\* A vanishing denominator is replaced by a number that is not zero: 1e-300.
ScaleCorrection(m, x, source) ==
  LET product == Multiply(m, x)
      denominator == InnerProduct(x, product)
      factor == Over(InnerProduct(x, source), IF denominator = 0 THEN 1 ELSE denominator)
  IN  Table([c \in Index(m) |->
         (factor * x[c] + Over(source[c] - factor * product[c], m.diag[c])) % P])

-----------------------------------------------------------------------------
(* solveCoarsest *)

\* a face sets its entry; if two join the same cells, the last one counts
DenseMatrix(m) ==
  [r \in Index(m) |-> [c \in Index(m) |->
     LET faces == {f \in 1 .. Len(m.lower) : {m.lower[f], m.upper[f]} = {r, c}}
     IN  (IF r = c THEN m.diag[r] ELSE IF faces = {} THEN 0 ELSE m.coeff[Max(faces)]) % P]]

PivotRows(e, pivot) == {r \in DOMAIN e.rhs : r >= pivot /\ e.dense[r][pivot] # 0}

\* Mutant: the right-hand side stays where it is.
EliminateKeepingRhs(e, pivot) ==
  LET best == Max(PivotRows(e, pivot))
      from == [r \in DOMAIN e.rhs |-> IF r = pivot THEN best
                                      ELSE IF r = best THEN pivot ELSE r]
      dense == [r \in DOMAIN e.rhs |-> e.dense[from[r]]]
      factor(r) == IF r > pivot THEN Over(dense[r][pivot], dense[pivot][pivot]) ELSE 0
  IN  [singular |-> FALSE,
       dense |-> Table([r \in DOMAIN e.rhs |-> Table([c \in DOMAIN e.rhs |->
                    (dense[r][c] - factor(r) * dense[pivot][c]) % P])]),
       rhs |-> Table([r \in DOMAIN e.rhs |-> (e.rhs[r] - factor(r) * e.rhs[pivot]) % P])]

\* the row with the pivot changes places, then the rows below are reduced
Eliminate(e, pivot) ==
  LET best == Max(PivotRows(e, pivot))
      from == [r \in DOMAIN e.rhs |-> IF r = pivot THEN best
                                      ELSE IF r = best THEN pivot ELSE r]
      dense == [r \in DOMAIN e.rhs |-> e.dense[from[r]]]
      rhs == [r \in DOMAIN e.rhs |-> e.rhs[from[r]]]
      factor(r) == IF r > pivot THEN Over(dense[r][pivot], dense[pivot][pivot]) ELSE 0
  IN  [singular |-> FALSE,
       dense |-> Table([r \in DOMAIN rhs |-> Table([c \in DOMAIN rhs |->
                    (dense[r][c] - factor(r) * dense[pivot][c]) % P])]),
       rhs |-> Table([r \in DOMAIN rhs |-> (rhs[r] - factor(r) * rhs[pivot]) % P])]

Elimination(dense, source) ==
  FoldLeft(LAMBDA e, pivot :
             IF e.singular \/ PivotRows(e, pivot) = {} THEN [e EXCEPT !.singular = TRUE]
                                                       ELSE Eliminate(e, pivot),
           [singular |-> FALSE, dense |-> dense, rhs |-> source],
           Upwards(Cardinality(DOMAIN source)))

\* "singular GAMG coarsest matrix", "singular fw coarsest matrix"
Singular(dense) == Elimination(dense, [r \in DOMAIN dense |-> 0]).singular

SolveDense(dense, source) ==
  LET e == Elimination(dense, source)
      n == Cardinality(DOMAIN source)
      BackSubstitute(x, row) ==
        Table([x EXCEPT ![row] =
          Over(@ - Total(LAMBDA c : e.dense[row][c] * x[c], row + 1 .. n - 1),
               e.dense[row][row])])
  IN  FoldLeft(BackSubstitute, e.rhs, Reverse(Upwards(n)))

SolveCoarsest(m, source) == SolveDense(DenseMatrix(m), source)
================================================================================
