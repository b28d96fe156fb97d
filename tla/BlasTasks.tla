----------------------------- MODULE BlasTasks -----------------------------
(***************************************************************************)
(* The tasks of src/blas/ztask_*.c. A task is a kernel call p and a list   *)
(* of accesses to tiles, the output last. An access names a tile <<matrix, *)
(* i, j>>, the mode dep under which INSERT_TASK_* registers it with        *)
(* kaapi_update_dependencies, the mode of the task format (which decides   *)
(* what is copied to and from a device), and its view: rows, columns and   *)
(* the leading dimension, which the caller of INSERT_TASK_* passes.        *)
(***************************************************************************)
EXTENDS BlasKernels

\* The arguments X(row, col), ldx of INSERT_TASK_*: a tile, and the matrix whose
\* leading dimension is passed with it, as a rule its own.
Tile(matrix, row, col) == [tile |-> <<matrix, row, col>>, ld |-> matrix]

Access(arg, dep, mode, view) ==
    [tile |-> arg.tile, ld |-> arg.ld, dep |-> dep, mode |-> mode,
     rows |-> view[1], cols |-> view[2]]

Reads(arg, view) == Access(arg, "R", "R", view)
Updates(arg, view) == Access(arg, "RW", "RW", view)

\* beta = 0: the old content of the output is not needed.
OutMode(beta) == IF beta = 0 THEN "W" ELSE "RW"

\* ROWDIM and COLDIM: m by n, or n by m when transposed.
Turned(op, m, n) == IF op = "N" THEN <<m, n>> ELSE <<n, m>>

BaseCall == [kernel |-> "none", side |-> "L", uplo |-> "L", ta |-> "N", tb |-> "N",
             diag |-> "N", m |-> 0, n |-> 0, k |-> 0, alpha |-> 1, beta |-> 0]

\* Defect: the output is registered as if it were only read.
InsertGemmReader(ta, tb, m, n, k, alpha, A, B, beta, C) ==
    <<[p |-> [BaseCall EXCEPT !.kernel = "gemm", !.ta = ta, !.tb = tb, !.m = m, !.n = n,
                              !.k = k, !.alpha = alpha, !.beta = beta],
       acc |-> <<Reads(A, Turned(ta, m, k)), Reads(B, Turned(tb, k, n)),
                 Access(C, "R", OutMode(beta), <<m, n>>)>>]>>

InsertGemm(ta, tb, m, n, k, alpha, A, B, beta, C) ==
    <<[p |-> [BaseCall EXCEPT !.kernel = "gemm", !.ta = ta, !.tb = tb, !.m = m, !.n = n,
                              !.k = k, !.alpha = alpha, !.beta = beta],
       acc |-> <<Reads(A, Turned(ta, m, k)), Reads(B, Turned(tb, k, n)),
                 Access(C, OutMode(beta), OutMode(beta), <<m, n>>)>>]>>

InsertGemmt(uplo, ta, tb, n, k, alpha, A, B, beta, C) ==
    <<[p |-> [BaseCall EXCEPT !.kernel = "gemmt", !.uplo = uplo, !.ta = ta, !.tb = tb,
                              !.m = n, !.n = n, !.k = k, !.alpha = alpha, !.beta = beta],
       acc |-> <<Reads(A, Turned(ta, n, k)), Reads(B, Turned(tb, k, n)),
                 Access(C, "RW", OutMode(beta), <<n, n>>)>>]>>

InsertSyrk(uplo, trans, n, k, alpha, A, beta, C) ==
    <<[p |-> [BaseCall EXCEPT !.kernel = "syrk", !.uplo = uplo, !.ta = trans, !.n = n,
                              !.k = k, !.alpha = alpha, !.beta = beta],
       acc |-> <<Reads(A, Turned(trans, n, k)),
                 Access(C, OutMode(beta), OutMode(beta), <<n, n>>)>>]>>

InsertHerk(uplo, trans, n, k, alpha, A, beta, C) ==
    <<[p |-> [BaseCall EXCEPT !.kernel = "herk", !.uplo = uplo, !.ta = trans, !.n = n,
                              !.k = k, !.alpha = alpha, !.beta = beta],
       acc |-> <<Reads(A, Turned(trans, n, k)), Updates(C, <<n, n>>)>>]>>

\* Defect: the second operand is registered RW, as in InsertHer2k.
InsertSyr2kUpdates(uplo, trans, n, k, alpha, A, B, beta, C) ==
    <<[p |-> [BaseCall EXCEPT !.kernel = "syr2k", !.uplo = uplo, !.ta = trans, !.n = n,
                              !.k = k, !.alpha = alpha, !.beta = beta],
       acc |-> <<Reads(A, Turned(trans, n, k)),
                 Access(B, "RW", "R", Turned(trans, n, k)),
                 Access(C, OutMode(beta), OutMode(beta), <<n, n>>)>>]>>

InsertSyr2k(uplo, trans, n, k, alpha, A, B, beta, C) ==
    <<[p |-> [BaseCall EXCEPT !.kernel = "syr2k", !.uplo = uplo, !.ta = trans, !.n = n,
                              !.k = k, !.alpha = alpha, !.beta = beta],
       acc |-> <<Reads(A, Turned(trans, n, k)), Reads(B, Turned(trans, n, k)),
                 Access(C, OutMode(beta), OutMode(beta), <<n, n>>)>>]>>

\* The second operand is registered RW although the kernel only reads it.
InsertHer2k(uplo, trans, n, k, alpha, A, B, beta, C) ==
    <<[p |-> [BaseCall EXCEPT !.kernel = "her2k", !.uplo = uplo, !.ta = trans, !.n = n,
                              !.k = k, !.alpha = alpha, !.beta = beta],
       acc |-> <<Reads(A, Turned(trans, n, k)),
                 Access(B, "RW", "R", Turned(trans, n, k)), Updates(C, <<n, n>>)>>]>>

\* The diagonal tile of the symmetric or triangular operand is square.
Square(side, m, n) == IF side = "L" THEN <<m, m>> ELSE <<n, n>>

InsertSymm(side, uplo, m, n, alpha, A, B, beta, C) ==
    <<[p |-> [BaseCall EXCEPT !.kernel = "symm", !.side = side, !.uplo = uplo, !.m = m,
                              !.n = n, !.alpha = alpha, !.beta = beta],
       acc |-> <<Reads(A, Square(side, m, n)), Reads(B, <<m, n>>),
                 Access(C, "RW", OutMode(beta), <<m, n>>)>>]>>

InsertHemm(side, uplo, m, n, alpha, A, B, beta, C) ==
    <<[p |-> [BaseCall EXCEPT !.kernel = "hemm", !.side = side, !.uplo = uplo, !.m = m,
                              !.n = n, !.alpha = alpha, !.beta = beta],
       acc |-> <<Reads(A, Square(side, m, n)), Reads(B, <<m, n>>),
                 Access(C, "RW", OutMode(beta), <<m, n>>)>>]>>

InsertTrmm(side, uplo, ta, diag, m, n, alpha, A, B) ==
    <<[p |-> [BaseCall EXCEPT !.kernel = "trmm", !.side = side, !.uplo = uplo, !.ta = ta,
                              !.diag = diag, !.m = m, !.n = n, !.alpha = alpha],
       acc |-> <<Reads(A, Square(side, m, n)), Updates(B, <<m, n>>)>>]>>

InsertTrsm(side, uplo, ta, diag, m, n, alpha, A, B) ==
    <<[p |-> [BaseCall EXCEPT !.kernel = "trsm", !.side = side, !.uplo = uplo, !.ta = ta,
                              !.diag = diag, !.m = m, !.n = n, !.alpha = alpha],
       acc |-> <<Reads(A, Square(side, m, n)), Updates(B, <<m, n>>)>>]>>

\* Two accesses that the data-flow engine orders: the same tile, not both reads.
Conflicting(a, b) == a.tile = b.tile /\ ~(a.dep = "R" /\ b.dep = "R")

=============================================================================
