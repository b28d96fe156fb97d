---------------------------- MODULE BlasKernels ----------------------------
(***************************************************************************)
(* What a BLAS routine computes, as the code of src/blas uses it: on tiles *)
(* it is the kernel of a task (cuBLAS on a device, the native BLAS on the  *)
(* host), on whole matrices it is the result the tile algorithm of the     *)
(* same routine has to produce. Every kernel maps the old content of its   *)
(* output to the new one. The fields of a call p that a routine does not   *)
(* have are ignored.                                                       *)
(***************************************************************************)
EXTENDS ComplexMod

\* beta * y; the output is not read when beta is 0.
Scaled(beta, y) == IF beta = 0 THEN 0 ELSE Times(beta, y)

\* alpha times the sum; the operands are not read when alpha is 0.
Product(alpha, n, F(_)) == IF alpha = 0 \/ n = 0 THEN 0 ELSE Times(alpha, SumOf(n, F))

\* c := alpha op(a) op(b) + beta c
GemmKernel(p, a, b, c) ==
    [x \in DOMAIN c |->
        Plus(Scaled(p.beta, c[x]),
             Product(p.alpha, p.k,
                     LAMBDA l : Times(OpAt(p.ta, a, x[1], l), OpAt(p.tb, b, l, x[2]))))]

\* The same on the triangle uplo of c only (no uplo: the whole of c).
GemmtKernel(p, a, b, c) ==
    LET full == GemmKernel(p, a, b, c)
    IN  [x \in DOMAIN c |->
            IF p.uplo = "full" \/ InTriangle(p.uplo, x) THEN full[x] ELSE c[x]]

\* Rank-k and rank-2k updates of one triangle. Flip is the transposition of
\* the routine: "T" for the symmetric ones, "C" for the Hermitian ones.
RankUpdate(p, flip, a, b, c, Diagonal(_)) ==
    LET At(m, i, l) == IF p.ta = "N" THEN m[i, l] ELSE OpAt(flip, m, i, l)
        Other(m, l, j) == IF p.ta = "N" THEN OpAt(flip, m, l, j) ELSE m[l, j]
        alpha2 == IF flip = "C" THEN Conj(p.alpha) ELSE p.alpha
        Term(x) ==
            IF p.kernel \in {"syrk", "herk"}
            THEN Product(p.alpha, p.k, LAMBDA l : Times(At(a, x[1], l), Other(a, l, x[2])))
            ELSE Plus(Product(p.alpha, p.k,
                              LAMBDA l : Times(At(a, x[1], l), Other(b, l, x[2]))),
                      Product(alpha2, p.k,
                              LAMBDA l : Times(At(b, x[1], l), Other(a, l, x[2]))))
    IN  [x \in DOMAIN c |->
            IF ~InTriangle(p.uplo, x) THEN c[x]
            ELSE IF x[1] = x[2] THEN Diagonal(Plus(Scaled(p.beta, Diagonal(c[x])), Term(x)))
            ELSE Plus(Scaled(p.beta, c[x]), Term(x))]

Same(x) == x
SyrKernel(p, a, b, c) == RankUpdate(p, "T", a, b, c, Same)
HerKernel(p, a, b, c) == RankUpdate(p, "C", a, b, c, RealPart)

\* The symmetric or Hermitian matrix of which a holds one triangle.
FromTriangle(p, a) ==
    [x \in DOMAIN a |->
        IF p.kernel = "hemm"
        THEN IF x[1] = x[2] THEN RealPart(a[x])
             ELSE IF InTriangle(p.uplo, x) THEN a[x] ELSE Conj(a[x[2], x[1]])
        ELSE IF InTriangle(p.uplo, x) THEN a[x] ELSE a[x[2], x[1]]]

SymmKernel(p, a, b, c) ==
    LET s == FromTriangle(p, a)
        q == [p EXCEPT !.ta = "N", !.tb = "N", !.k = IF p.side = "L" THEN p.m ELSE p.n]
    IN  IF p.side = "L" THEN GemmKernel(q, s, b, c) ELSE GemmKernel(q, b, s, c)

\* The triangular matrix of which a holds one triangle (diag "U": the
\* diagonal is 1 and is not read).
Triangular(p, a) ==
    [x \in DOMAIN a |->
        IF x[1] = x[2] THEN (IF p.diag = "U" THEN 1 ELSE a[x])
        ELSE IF InTriangle(p.uplo, x) THEN a[x] ELSE 0]

\* b := alpha op(a) b (side L) or alpha b op(a) (side R)
TrmmKernel(p, a, b) ==
    LET t == Triangular(p, a)
        q == [p EXCEPT !.beta = 0, !.k = IF p.side = "L" THEN p.m ELSE p.n]
    IN  IF p.side = "L" THEN GemmKernel([q EXCEPT !.tb = "N"], t, b, b)
        ELSE GemmKernel([q EXCEPT !.ta = "N", !.tb = p.ta], b, t, b)

\* b := the solution X of op(a) X = alpha b (side L) or X op(a) = alpha b
\* (side R), by substitution along a row or a column of b.
TrsmKernel(p, a, b) ==
    LET t == Triangular(p, a)
        size == IF p.side = "L" THEN p.m ELSE p.n
        At(i, l) == IF p.side = "L" THEN OpAt(p.ta, t, i, l) ELSE OpAt(p.ta, t, l, i)
        \* the first unknown is known at once: downwards when At is lower triangular
        down == (p.side = "L") = ((p.uplo = "L") = (p.ta = "N"))
        Row(s) == IF down THEN s ELSE size - 1 - s
        Rhs(r, i) == Scaled(p.alpha, IF p.side = "L" THEN b[i, r] ELSE b[r, i])
        Line(r) ==
            LET x[s \in 0..(size - 1)] ==
                    Over(Plus(Rhs(r, Row(s)),
                              Neg(SumOf(s, LAMBDA l : Times(At(Row(s), Row(l)), x[l])))),
                         At(Row(s), Row(s)))
            IN  [i \in 0..(size - 1) |-> x[Row(i)]]
        lines == [r \in 0..((IF p.side = "L" THEN p.n ELSE p.m) - 1) |-> Line(r)]
    IN  [x \in DOMAIN b |-> IF p.side = "L" THEN lines[x[2]][x[1]] ELSE lines[x[1]][x[2]]]

\* The new content of the output c of a call p with operands a and b. The
\* triangular routines have two operands and write the second.
Kernel(p, a, b, c) ==
    CASE p.kernel = "gemm"                -> GemmKernel(p, a, b, c)
      [] p.kernel = "gemmt"               -> GemmtKernel(p, a, b, c)
      [] p.kernel \in {"syrk", "syr2k"}   -> SyrKernel(p, a, b, c)
      [] p.kernel \in {"herk", "her2k"}   -> HerKernel(p, a, b, c)
      [] p.kernel \in {"symm", "hemm"}    -> SymmKernel(p, a, b, c)
      [] p.kernel = "trmm"                -> TrmmKernel(p, a, c)
      [] p.kernel = "trsm"                -> TrsmKernel(p, a, c)

=============================================================================
