----------------------------- MODULE ComplexMod -----------------------------
(***************************************************************************)
(* Scalars and matrices for the tile algorithms. A scalar is a number of   *)
(* the field with 49 elements, Z_7[i], coded as re + 7*im: it has a        *)
(* conjugate, and every value but 0 an inverse, so the linear algebra of   *)
(* the complex routines can be done exactly. Undef stands for the content  *)
(* of memory nobody has written and for a NaN: it absorbs every operation. *)
(* A matrix is a function of <<row, column>>, both from 0.                 *)
(***************************************************************************)
EXTENDS Integers, Sequences

Defined == 0..48
Undef == 49
Scalars == Defined \cup {Undef}

Re(x) == x % 7
Im(x) == x \div 7
Cplx(re, im) == (re % 7) + 7 * (im % 7)

PlusTable == [x, y \in Scalars |->
    IF Undef \in {x, y} THEN Undef ELSE Cplx(Re(x) + Re(y), Im(x) + Im(y))]
TimesTable == [x, y \in Scalars |->
    IF Undef \in {x, y} THEN Undef
    ELSE Cplx(Re(x) * Re(y) - Im(x) * Im(y), Re(x) * Im(y) + Im(x) * Re(y))]
InverseTable == [x \in Scalars |->
    IF x \in {0, Undef} THEN Undef ELSE CHOOSE y \in Defined : TimesTable[x, y] = 1]

Plus(x, y) == PlusTable[x, y]
Times(x, y) == TimesTable[x, y]
Neg(x) == Times(6, x)
Over(x, y) == Times(x, InverseTable[y])
Conj(x) == IF x = Undef THEN Undef ELSE Cplx(Re(x), 7 - Im(x))
RealPart(x) == IF x = Undef THEN Undef ELSE Re(x)

Dims(rows, cols) == (0..(rows - 1)) \X (0..(cols - 1))

\* The sum of F(0), ..., F(n - 1).
SumOf(n, F(_)) ==
    LET s[i \in 0..n] == IF i = 0 THEN 0 ELSE Plus(s[i - 1], F(i - 1)) IN s[n]

\* Entry (i, j) of op(a), for op one of "N" (a), "T" (transpose) and "C"
\* (conjugate transpose).
OpAt(op, a, i, j) ==
    CASE op = "N" -> a[i, j] [] op = "T" -> a[j, i] [] op = "C" -> Conj(a[j, i])

InTriangle(uplo, x) == IF uplo = "L" THEN x[1] >= x[2] ELSE x[1] <= x[2]

=============================================================================
