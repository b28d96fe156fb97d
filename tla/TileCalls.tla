----------------------------- MODULE TileCalls ------------------------------
(* Calls for TileRuns: every routine with every side, triangle, transposition *)
(* and diagonal, on two by two ragged tiles (three by two for the triangular  *)
(* ones), with scalings 0, 1 and others.                                      *)
EXTENDS Integers

Base == [kernel |-> "gemm", side |-> "L", uplo |-> "L", ta |-> "N", tb |-> "N", diag |-> "N",
         M |-> 3, N |-> 3, K |-> 3, alpha |-> 8, beta |-> 1, nb |-> 2, nbA |-> 2, opB |-> "B",
         lda |-> 5, ldb |-> 5, ldc |-> 5]

Ops == {"N", "T", "C"}
Sides == {"L", "R"}
Uplos == {"L", "U"}

GemmCalls ==
    {[Base EXCEPT !.ta = ta, !.tb = tb, !.beta = beta] :
        ta \in Ops, tb \in Ops, beta \in {0, 3}}
    \cup {[Base EXCEPT !.alpha = 0, !.beta = beta] : beta \in {0, 1, 3}}
    \cup {[Base EXCEPT !.K = 0, !.beta = beta] : beta \in {1, 3}} \cup {[Base EXCEPT !.M = 0]}
    \cup {[Base EXCEPT !.N = 1, !.M = 2, !.K = 5, !.opB = "B"]}
GemmtCalls ==
    {[Base EXCEPT !.kernel = "gemmt", !.uplo = uplo, !.ta = ta, !.tb = tb, !.beta = 3] :
        uplo \in Uplos \cup {"full"}, ta \in Ops, tb \in {"N", "C"}}
    \cup {[Base EXCEPT !.kernel = "gemmt", !.uplo = uplo, !.beta = 0] : uplo \in Uplos}
RankCalls ==
    {[Base EXCEPT !.kernel = kernel, !.uplo = uplo, !.ta = ta, !.beta = 3, !.alpha = 2] :
        kernel \in {"syrk", "herk", "syr2k", "her2k"}, uplo \in Uplos, ta \in {"N"}}
    \cup {[Base EXCEPT !.kernel = kernel, !.uplo = uplo, !.ta = "T", !.beta = 3] :
        kernel \in {"syrk", "syr2k"}, uplo \in Uplos}
    \cup {[Base EXCEPT !.kernel = kernel, !.uplo = uplo, !.ta = "C", !.beta = beta, !.alpha = 2] :
        kernel \in {"herk", "her2k"}, uplo \in Uplos, beta \in {0, 3}}
    \cup {[Base EXCEPT !.kernel = "her2k", !.uplo = uplo, !.ta = ta, !.beta = 3] :
        uplo \in Uplos, ta \in {"N", "C"}}
    \cup {[Base EXCEPT !.kernel = "syr2k", !.beta = 3, !.opB = "A"]}
    \cup {[Base EXCEPT !.kernel = kernel, !.uplo = uplo, !.ta = ta, !.beta = 3, !.alpha = 2, !.ldb = 4] :
        kernel \in {"syr2k", "her2k"}, uplo \in Uplos, ta \in {"N"}}
    \cup {[Base EXCEPT !.kernel = kernel, !.K = 0, !.beta = beta] :
        kernel \in {"gemmt", "syrk", "syr2k"}, beta \in {1, 3}}
SymmCalls ==
    {[Base EXCEPT !.kernel = kernel, !.side = side, !.uplo = uplo, !.beta = beta,
                  !.M = 4] :
        kernel \in {"symm", "hemm"}, side \in Sides, uplo \in Uplos, beta \in {0, 3}}
TriangularCalls ==
    {[Base EXCEPT !.kernel = kernel, !.side = side, !.uplo = uplo, !.ta = ta, !.diag = diag,
                  !.M = IF side = "L" THEN 5 ELSE 3, !.N = IF side = "L" THEN 3 ELSE 5] :
        kernel \in {"trmm", "trsm"}, side \in Sides, uplo \in Uplos, ta \in Ops,
        diag \in {"N", "U"}}
    \cup {[Base EXCEPT !.kernel = kernel, !.side = side, !.uplo = uplo, !.alpha = 1] :
        kernel \in {"trmm", "trsm"}, side \in Sides, uplo \in Uplos}
    \cup {[Base EXCEPT !.kernel = kernel, !.side = side, !.ta = ta, !.alpha = 0] :
        kernel \in {"trmm", "trsm"}, side \in Sides, ta \in {"N", "T"}}

\* Tight leading dimensions and illegal arguments.
CheckCalls ==
    {[Base EXCEPT !.kernel = kernel, !.side = side, !.ta = op, !.tb = op, !.N = 2, !.K = 2, !.beta = 3,
                  !.M = IF kernel \in {"gemm", "symm", "hemm", "trmm", "trsm"} THEN 3 ELSE 2,
                  !.lda = ld[1], !.ldb = ld[2], !.ldc = ld[3]] :
        kernel \in {"gemm", "gemmt", "syrk", "herk", "syr2k", "her2k", "symm", "hemm", "trmm", "trsm"},
        side \in Sides, op \in Ops,
        ld \in {<<3, 3, 3>>, <<2, 3, 3>>, <<3, 2, 3>>, <<3, 3, 2>>, <<1, 3, 3>>, <<3, 1, 3>>, <<3, 3, 1>>}}
    \cup {[Base EXCEPT !.M = -1], [Base EXCEPT !.kernel = "herk", !.K = -1],
          [Base EXCEPT !.kernel = "trsm", !.N = -1]}

MCCalls == CheckCalls \cup GemmCalls \cup GemmtCalls \cup RankCalls \cup SymmCalls \cup TriangularCalls

\* Symmetric updates that overwrite the result.
MCOverwrite == {[Base EXCEPT !.kernel = "syrk", !.beta = 0]}

\* A Hermitian rank-2k update with two leading dimensions.
MCTwoLds == {[Base EXCEPT !.kernel = "her2k", !.uplo = "U", !.beta = 3, !.alpha = 2, !.ldb = 4]}

\* A product of matrices without a column and a row to multiply.
MCNoInner == {[Base EXCEPT !.K = 0, !.beta = 3]}

=============================================================================
