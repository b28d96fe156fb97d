--------------------------- MODULE TileAlgorithms ---------------------------
(***************************************************************************)
(* The tile algorithms of src/blas/z*.c: the sequence of tasks each        *)
(* xkblas_z*_async creates for a call. A call is a record with the         *)
(* arguments of the routine (M, N, K are the sizes the routine is given;   *)
(* for trmm and trsm the code names them N and NRHS), nb, the tile size    *)
(* the call chooses, nbA, the tile size of the descriptor of its first     *)
(* operand (another one when an earlier call created the descriptor), opB, *)
(* the matrix passed as second operand, and the leading dimensions.        *)
(***************************************************************************)
EXTENDS BlasTasks, SequencesExt

\* xkblas_num_of_tiles
TileCount(size, nb) == (size + nb - 1) \div nb

Descr(size, ld, nb) ==
    [M |-> size[1], N |-> size[2], ld |-> ld, nb |-> nb,
     mt |-> TileCount(size[1], nb), nt |-> TileCount(size[2], nb)]

\* Body(lo) \o ... \o Body(hi - 1), and the same downwards.
Loop(lo, hi, Body(_)) == FlattenSeq([s \in 1..(hi - lo) |-> Body(lo + s - 1)])
DownLoop(lo, hi, Body(_)) == FlattenSeq([s \in 1..(hi - lo) |-> Body(hi - s)])

\* Defect: the last tile counts as a whole one.
EdgeWhole(i, count, size, nb) == nb

\* The size of tile i out of count along a dimension of the given size.
Edge(i, count, size, nb) == IF i = count - 1 THEN size - i * nb ELSE nb

\* Defect: every task on a tile applies beta.
EveryBeta(k, beta) == beta

\* beta is applied by the first task on a tile only.
FirstBeta(k, beta) == IF k = 0 THEN beta ELSE 1

\* Tile <<row, col>> of op(matrix).
TileOf(matrix, op, row, col) ==
    IF op = "N" THEN Tile(matrix, row, col) ELSE Tile(matrix, col, row)

-----------------------------------------------------------------------------
(* Arguments. The checks of a routine in their order, each with the value  *)
(* it returns; then the descriptors the routine creates.                   *)

LD(ld, rows) == ld < Max({1, rows})

GemmChecks(c) ==
    <<<<c.ta \notin {"N", "T", "C"}, -1>>, <<c.tb \notin {"N", "T", "C"}, -2>>,
      <<c.M < 0, -3>>, <<c.N < 0, -4>>, <<c.K < 0, -5>>,
      <<LD(c.lda, Turned(c.ta, c.M, c.K)[1]), -8>>,
      <<LD(c.ldb, Turned(c.tb, c.K, c.N)[1]), -10>>, <<LD(c.ldc, c.M), -13>>>>
GemmtChecks(c) ==
    <<<<c.ta \notin {"N", "T", "C"}, -1>>, <<c.tb \notin {"N", "T", "C"}, -2>>,
      <<c.N < 0, -4>>, <<c.K < 0, -5>>, <<LD(c.lda, Turned(c.ta, c.N, c.K)[1]), -8>>,
      <<LD(c.ldb, Turned(c.tb, c.K, c.N)[1]), -10>>, <<LD(c.ldc, c.N), -13>>>>
SyrkChecks(c) ==
    <<<<c.uplo \notin {"L", "U"}, -1>>, <<c.ta \notin {"N", "T"}, -2>>,
      <<c.N < 0, -3>>, <<c.K < 0, -4>>, <<LD(c.lda, Turned(c.ta, c.N, c.K)[1]), -7>>,
      <<LD(c.ldc, c.N), -10>>>>
HerkChecks(c) ==
    <<<<c.uplo \notin {"L", "U"}, -1>>, <<c.ta \notin {"N", "C"}, -2>>,
      <<c.N < 0, -3>>, <<c.K < 0, -4>>, <<LD(c.lda, Turned(c.ta, c.N, c.K)[1]), -7>>,
      <<LD(c.ldc, c.N), -10>>>>
Syr2kChecks(c) ==
    <<<<c.uplo \notin {"L", "U"}, -1>>, <<c.ta \notin {"N", "T"}, -2>>,
      <<c.N < 0, -3>>, <<c.K < 0, -4>>, <<LD(c.lda, Turned(c.ta, c.N, c.K)[1]), -7>>,
      <<LD(c.ldb, Turned(c.ta, c.N, c.K)[1]), -9>>, <<LD(c.ldc, c.N), -12>>>>
Her2kChecks(c) ==
    <<<<c.uplo \notin {"L", "U"}, -1>>, <<c.ta \notin {"N", "C"}, -2>>,
      <<c.N < 0, -3>>, <<c.K < 0, -4>>, <<LD(c.lda, Turned(c.ta, c.N, c.K)[1]), -7>>,
      <<LD(c.ldb, Turned(c.ta, c.N, c.K)[1]), -9>>, <<LD(c.ldc, c.N), -12>>>>
SymmChecks(c) ==
    <<<<c.side \notin {"L", "R"}, -1>>, <<c.uplo \notin {"L", "U"}, -2>>,
      <<c.M < 0, -3>>, <<c.N < 0, -4>>, <<LD(c.lda, Square(c.side, c.M, c.N)[1]), -7>>,
      <<LD(c.ldb, c.M), -9>>, <<LD(c.ldc, c.M), -12>>>>
HemmChecks(c) ==
    <<<<c.side \notin {"L", "R"}, -1>>, <<c.uplo \notin {"L", "U"}, -2>>,
      <<c.M < 0, -3>>, <<c.N < 0, -4>>, <<LD(c.lda, Square(c.side, c.M, c.N)[1]), -7>>,
      <<LD(c.ldb, c.M), -9>>, <<LD(c.ldc, c.M), -12>>>>
TrmmChecks(c) ==
    <<<<c.side \notin {"L", "R"}, -1>>, <<c.uplo \notin {"L", "U"}, -2>>,
      <<c.ta \notin {"N", "T", "C"}, -3>>, <<c.diag \notin {"N", "U"}, -4>>,
      <<c.M < 0, -5>>, <<c.N < 0, -6>>, <<LD(c.lda, Square(c.side, c.M, c.N)[1]), -8>>,
      <<LD(c.ldb, c.M), -10>>>>
TrsmChecks(c) ==
    <<<<c.side \notin {"L", "R"}, -1>>, <<c.uplo \notin {"L", "U"}, -2>>,
      <<c.ta \notin {"N", "T", "C"}, -3>>, <<c.diag \notin {"N", "U"}, -4>>,
      <<c.M < 0, -5>>, <<c.N < 0, -6>>, <<LD(c.lda, Square(c.side, c.M, c.N)[1]), -8>>,
      <<LD(c.ldb, c.M), -10>>>>

Checks(c) ==
    CASE c.kernel = "gemm"  -> GemmChecks(c)
      [] c.kernel = "gemmt" -> GemmtChecks(c)
      [] c.kernel = "syrk"  -> SyrkChecks(c)
      [] c.kernel = "herk"  -> HerkChecks(c)
      [] c.kernel = "syr2k" -> Syr2kChecks(c)
      [] c.kernel = "her2k" -> Her2kChecks(c)
      [] c.kernel = "symm"  -> SymmChecks(c)
      [] c.kernel = "hemm"  -> HemmChecks(c)
      [] c.kernel = "trmm"  -> TrmmChecks(c)
      [] c.kernel = "trsm"  -> TrsmChecks(c)

\* The value the routine returns: that of the first check that fails.
Returned(c) ==
    LET failed == SelectSeq(Checks(c), LAMBDA check : check[1])
    IN  IF failed = <<>> THEN 0 ELSE failed[1][2]

\* The descriptors of operands of the given sizes.
Handles(c, sizeA, sizeB, sizeC) ==
    [A |-> Descr(sizeA, c.lda, c.nbA), B |-> Descr(sizeB, c.ldb, c.nb),
     C |-> Descr(sizeC, c.ldc, c.nb)]

GemmHandles(c) ==
    Handles(c, Turned(c.ta, c.M, c.K), Turned(c.tb, c.K, c.N), <<c.M, c.N>>)
GemmtHandles(c) ==
    Handles(c, Turned(c.ta, c.N, c.K), Turned(c.tb, c.K, c.N), <<c.N, c.N>>)
SyrkHandles(c) == Handles(c, Turned(c.ta, c.N, c.K), <<0, 0>>, <<c.N, c.N>>)
HerkHandles(c) == Handles(c, Turned(c.ta, c.N, c.K), <<0, 0>>, <<c.N, c.N>>)
Syr2kHandles(c) ==
    Handles(c, Turned(c.ta, c.N, c.K), Turned(c.ta, c.N, c.K), <<c.N, c.N>>)
Her2kHandles(c) ==
    Handles(c, Turned(c.ta, c.N, c.K), Turned(c.ta, c.N, c.K), <<c.N, c.N>>)
SymmHandles(c) == Handles(c, Square(c.side, c.M, c.N), <<c.M, c.N>>, <<c.M, c.N>>)
HemmHandles(c) == Handles(c, Square(c.side, c.M, c.N), <<c.M, c.N>>, <<c.M, c.N>>)
TrmmHandles(c) == Handles(c, Square(c.side, c.M, c.N), <<c.M, c.N>>, <<0, 0>>)
TrsmHandles(c) == Handles(c, Square(c.side, c.M, c.N), <<c.M, c.N>>, <<0, 0>>)

HandlesOf(c) ==
    CASE c.kernel = "gemm"  -> GemmHandles(c)
      [] c.kernel = "gemmt" -> GemmtHandles(c)
      [] c.kernel = "syrk"  -> SyrkHandles(c)
      [] c.kernel = "herk"  -> HerkHandles(c)
      [] c.kernel = "syr2k" -> Syr2kHandles(c)
      [] c.kernel = "her2k" -> Her2kHandles(c)
      [] c.kernel = "symm"  -> SymmHandles(c)
      [] c.kernel = "hemm"  -> HemmHandles(c)
      [] c.kernel = "trmm"  -> TrmmHandles(c)
      [] c.kernel = "trsm"  -> TrsmHandles(c)

-----------------------------------------------------------------------------
(* General products.                                                       *)

NothingToDo(c) ==
    \/ c.M = 0 \/ c.N = 0
    \/ (c.alpha = 0 \/ c.K = 0) /\ c.beta = 1

\* The inner loop over k: how many tiles, and the size of tile k.
InnerCount(c) == LET A == HandlesOf(c).A IN IF c.ta = "N" THEN A.nt ELSE A.mt
InnerEdge(c, k) ==
    LET A == HandlesOf(c).A
    IN  IF c.ta = "N" THEN Edge(k, A.nt, A.N, A.nb) ELSE Edge(k, A.mt, A.M, A.nb)

Gemm(c) ==
    LET C == HandlesOf(c).C
        Task(m, n, k) ==
            InsertGemm(c.ta, c.tb, Edge(m, C.mt, c.M, C.nb), Edge(n, C.nt, c.N, C.nb),
                       InnerEdge(c, k), c.alpha, TileOf("A", c.ta, m, k),
                       TileOf(c.opB, c.tb, k, n), FirstBeta(k, c.beta), Tile("C", m, n))
    IN  IF NothingToDo(c) THEN <<>>
        ELSE Loop(0, C.mt, LAMBDA m : Loop(0, C.nt, LAMBDA n :
                Loop(0, InnerCount(c), LAMBDA k : Task(m, n, k))))

Gemmt(c) ==
    LET C == HandlesOf(c).C
        First(m) == IF c.uplo = "U" THEN m ELSE 0
        Bound(m) == IF c.uplo = "L" THEN m + 1 ELSE C.nt
        Task(m, n, k) ==
            IF m = n /\ c.uplo # "full"
            THEN InsertGemmt(c.uplo, c.ta, c.tb, Edge(n, C.nt, c.N, C.nb),
                             InnerEdge(c, k), c.alpha, TileOf("A", c.ta, m, k),
                             TileOf(c.opB, c.tb, k, n), FirstBeta(k, c.beta), Tile("C", m, n))
            ELSE InsertGemm(c.ta, c.tb, Edge(m, C.mt, c.N, C.nb), Edge(n, C.nt, c.N, C.nb),
                            InnerEdge(c, k), c.alpha, TileOf("A", c.ta, m, k),
                            TileOf(c.opB, c.tb, k, n), FirstBeta(k, c.beta), Tile("C", m, n))
    IN  IF NothingToDo(c) THEN <<>>
        ELSE Loop(0, C.mt, LAMBDA m : Loop(First(m), Bound(m), LAMBDA n :
                Loop(0, InnerCount(c), LAMBDA k : Task(m, n, k))))

-----------------------------------------------------------------------------
(* Rank-k and rank-2k updates: the diagonal tile with the kernel of the    *)
(* routine, the tiles of one side of it with products.                     *)

RankK(c, flip) ==
    LET C == HandlesOf(c).C
        other == IF c.ta = "N" THEN flip ELSE "N"
        Extent(i) == Edge(i, C.nt, C.N, C.nb)
        Diagonal(n, k) ==
            IF c.kernel = "syrk"
            THEN InsertSyrk(c.uplo, c.ta, Extent(n), InnerEdge(c, k), c.alpha,
                            TileOf("A", c.ta, n, k), FirstBeta(k, c.beta), Tile("C", n, n))
            ELSE InsertHerk(c.uplo, c.ta, Extent(n), InnerEdge(c, k), c.alpha,
                            TileOf("A", c.ta, n, k), FirstBeta(k, c.beta), Tile("C", n, n))
        \* the product of block rows i and j of op(A)
        Task(i, j, k) ==
            InsertGemm(c.ta, other, Extent(i), Extent(j), InnerEdge(c, k), c.alpha,
                       TileOf("A", c.ta, i, k), TileOf("A", c.ta, j, k),
                       FirstBeta(k, c.beta), Tile("C", i, j))
    IN  IF NothingToDo(c) THEN <<>>
        ELSE Loop(0, C.nt, LAMBDA n :
               Loop(0, InnerCount(c), LAMBDA k : Diagonal(n, k))
               \o Loop(n + 1, C.mt, LAMBDA m :
                    Loop(0, InnerCount(c), LAMBDA k :
                        IF c.uplo = "L" THEN Task(m, n, k) ELSE Task(n, m, k))))

Syrk(c) == RankK(c, "T")

Herk(c) == RankK(c, "C")

\* The loop of xkblas_zher2k_async for the upper triangle without transposition
\* passes LDA with a tile of B.
MixesLD(c) == c.kernel = "her2k" /\ c.uplo = "U" /\ c.ta = "N"

\* Tile (i, j) of a rank-2k update, inner index k: two products, the second
\* with scaling alpha2.
Rank2kTile(c, flip, alpha2, i, j, k) ==
    LET C == HandlesOf(c).C
        other == IF c.ta = "N" THEN flip ELSE "N"
        Product2(alpha, first, second, beta) ==
            InsertGemm(c.ta, other, Edge(i, C.mt, C.M, C.nb), Edge(j, C.nt, C.N, C.nb),
                       InnerEdge(c, k), alpha, first, second, beta, Tile("C", i, j))
        B == TileOf(c.opB, c.ta, i, k)
    IN  Product2(c.alpha, TileOf("A", c.ta, i, k), TileOf(c.opB, c.ta, j, k),
                 FirstBeta(k, c.beta))
        \o Product2(alpha2, IF MixesLD(c) THEN [B EXCEPT !.ld = "A"] ELSE B,
                    TileOf("A", c.ta, j, k), 1)

Syr2k(c) ==
    LET C == HandlesOf(c).C
        First(n) == IF c.uplo = "L" THEN n + 1 ELSE 0
        Bound(n) == IF c.uplo = "L" THEN C.mt ELSE n
    IN  IF NothingToDo(c) THEN <<>>
        ELSE Loop(0, C.nt, LAMBDA n :
               Loop(0, InnerCount(c), LAMBDA k :
                 InsertSyr2k(c.uplo, c.ta, Edge(n, C.nt, C.N, C.nb), InnerEdge(c, k), c.alpha,
                             TileOf("A", c.ta, n, k), TileOf(c.opB, c.ta, n, k),
                             FirstBeta(k, c.beta), Tile("C", n, n)))
               \o Loop(First(n), Bound(n), LAMBDA m :
                    Loop(0, InnerCount(c), LAMBDA k :
                        Rank2kTile(c, "T", c.alpha, m, n, k))))

Her2k(c) ==
    LET C == HandlesOf(c).C
    IN  IF NothingToDo(c) THEN <<>>
        ELSE Loop(0, C.nt, LAMBDA n :
               Loop(0, InnerCount(c), LAMBDA k :
                 InsertHer2k(c.uplo, c.ta, Edge(n, C.nt, C.N, C.nb), InnerEdge(c, k), c.alpha,
                             TileOf("A", c.ta, n, k), TileOf(c.opB, c.ta, n, k),
                             FirstBeta(k, c.beta), Tile("C", n, n)))
               \o Loop(n + 1, C.mt, LAMBDA m :
                    Loop(0, InnerCount(c), LAMBDA k :
                        IF c.uplo = "L" THEN Rank2kTile(c, "C", Conj(c.alpha), m, n, k)
                        ELSE Rank2kTile(c, "C", Conj(c.alpha), n, m, k))))

-----------------------------------------------------------------------------
(* Products with a symmetric or Hermitian matrix of which one triangle is  *)
(* stored: a tile of the other triangle is read transposed from its        *)
(* mirror image, a diagonal tile is left to the kernel of the routine.     *)

SymmTask(c, flip, m, n, k) ==
    LET C == HandlesOf(c).C
        mm == Edge(m, C.mt, C.M, C.nb)
        nn == Edge(n, C.nt, C.N, C.nb)
        kk == IF c.side = "L" THEN Edge(k, C.mt, C.M, C.nb) ELSE Edge(k, C.nt, C.N, C.nb)
        beta == FirstBeta(k, c.beta)
        row == IF c.side = "L" THEN m ELSE k
        col == IF c.side = "L" THEN k ELSE n
        stored == IF InTriangle(c.uplo, <<row, col>>) THEN "N" ELSE flip
        A == TileOf("A", stored, row, col)
        B == IF c.side = "L" THEN Tile(c.opB, k, n) ELSE Tile(c.opB, m, k)
    IN  IF row = col /\ c.kernel = "symm"
        THEN InsertSymm(c.side, c.uplo, mm, nn, c.alpha, A, B, beta, Tile("C", m, n))
        ELSE IF row = col
        THEN InsertHemm(c.side, c.uplo, mm, nn, c.alpha, A, B, beta, Tile("C", m, n))
        ELSE IF c.side = "L"
        THEN InsertGemm(stored, "N", mm, nn, kk, c.alpha, A, B, beta, Tile("C", m, n))
        ELSE InsertGemm("N", stored, mm, nn, kk, c.alpha, B, A, beta, Tile("C", m, n))

NoProduct(c) == c.M = 0 \/ c.N = 0 \/ (c.alpha = 0 /\ c.beta = 1)

Symm(c) ==
    LET C == HandlesOf(c).C
        Task(m, n, k) == SymmTask(c, "T", m, n, k)
    IN  IF NoProduct(c) THEN <<>>
        ELSE IF c.side = "L"
        THEN Loop(0, C.mt, LAMBDA k : Loop(0, C.nt, LAMBDA n :
                Loop(0, C.mt, LAMBDA m : Task(m, n, k))))
        ELSE Loop(0, C.nt, LAMBDA k : Loop(0, C.mt, LAMBDA m :
                Loop(0, C.nt, LAMBDA n : Task(m, n, k))))

Hemm(c) ==
    LET C == HandlesOf(c).C
        Task(m, n, k) == SymmTask(c, "C", m, n, k)
    IN  IF NoProduct(c) THEN <<>>
        ELSE Loop(0, C.mt, LAMBDA m : Loop(0, C.nt, LAMBDA n :
                Loop(0, IF c.side = "L" THEN C.mt ELSE C.nt, LAMBDA k : Task(m, n, k))))

-----------------------------------------------------------------------------
(* Products with and solutions of a triangular matrix, in place: the       *)
(* result overwrites the right-hand side, so the order of the tiles counts.*)

\* op(A) is upper triangular.
Upper(c) == (c.uplo = "U") = (c.ta = "N")

\* Row m of the product uses the rows below (op(A) upper) or above it, which
\* must not have been overwritten.
TrmmLeft(c) ==
    LET A == HandlesOf(c).A
        B == HandlesOf(c).B
        mm(m) == Edge(m, B.mt, B.M, B.nb)
        nn(n) == Edge(n, B.nt, B.N, B.nb)
        Sum(m, n, k, kk) ==
            InsertGemm(c.ta, "N", mm(m), nn(n), kk, c.alpha, TileOf("A", c.ta, m, k),
                       Tile("B", k, n), 1, Tile("B", m, n))
        Row(m) ==
            Loop(0, B.nt, LAMBDA n :
                InsertTrmm("L", c.uplo, c.ta, c.diag, mm(m), nn(n), c.alpha,
                           Tile("A", m, m), Tile("B", m, n))
                \o IF Upper(c)
                   THEN Loop(m + 1, A.mt, LAMBDA k : Sum(m, n, k, Edge(k, A.mt, A.M, A.nb)))
                   ELSE Loop(0, m, LAMBDA k : Sum(m, n, k, B.nb)))
    IN  IF Upper(c) THEN Loop(0, B.mt, Row) ELSE DownLoop(0, B.mt, Row)

TrmmRight(c) ==
    LET A == HandlesOf(c).A
        B == HandlesOf(c).B
        mm(m) == Edge(m, B.mt, B.M, B.nb)
        nn(n) == Edge(n, B.nt, B.N, B.nb)
        Sum(m, n, k, kk) ==
            InsertGemm("N", c.ta, mm(m), nn(n), kk, c.alpha, Tile("B", m, k),
                       TileOf("A", c.ta, k, n), 1, Tile("B", m, n))
        Column(n) ==
            Loop(0, B.mt, LAMBDA m :
                InsertTrmm("R", c.uplo, c.ta, c.diag, mm(m), nn(n), c.alpha,
                           Tile("A", n, n), Tile("B", m, n))
                \o IF Upper(c)
                   THEN Loop(0, n, LAMBDA k : Sum(m, n, k, B.nb))
                   ELSE Loop(n + 1, A.mt, LAMBDA k : Sum(m, n, k, Edge(k, A.mt, A.M, A.nb))))
    IN  IF Upper(c) THEN DownLoop(0, B.nt, Column) ELSE Loop(0, B.nt, Column)

Trmm(c) ==
    IF c.M = 0 \/ c.N = 0 THEN <<>>
    ELSE IF c.side = "L" THEN TrmmLeft(c) ELSE TrmmRight(c)

\* Row block k is solved, then subtracted from the rows not solved yet. When
\* op(A) is upper triangular the rows are counted from the last one, which
\* is the one that may be short. alpha is applied by the first step.
TrsmLeft(c) ==
    LET B == HandlesOf(c).B
        At(k) == IF Upper(c) THEN B.mt - 1 - k ELSE k
        Extent(k) == Edge(At(k), B.mt, B.M, B.nb)
        nn(n) == Edge(n, B.nt, B.N, B.nb)
        lalpha(k) == IF k = 0 THEN c.alpha ELSE 1
        mm(m) == IF Upper(c) THEN B.nb ELSE Extent(m)
        kk(k) == IF Upper(c) THEN Extent(k) ELSE B.nb
    IN  Loop(0, B.mt, LAMBDA k :
            Loop(0, B.nt, LAMBDA n :
                InsertTrsm("L", c.uplo, c.ta, c.diag, Extent(k), nn(n), lalpha(k),
                           Tile("A", At(k), At(k)), Tile("B", At(k), n)))
            \o Loop(k + 1, B.mt, LAMBDA m : Loop(0, B.nt, LAMBDA n :
                InsertGemm(c.ta, "N", mm(m), nn(n), kk(k), Neg(1),
                           TileOf("A", c.ta, At(m), At(k)), Tile("B", At(k), n),
                           lalpha(k), Tile("B", At(m), n)))))

\* The same by columns. With a transposed A every block is solved with alpha
\* and the products are scaled by -1/alpha instead.
TrsmRight(c) ==
    LET B == HandlesOf(c).B
        At(k) == IF Upper(c) THEN k ELSE B.nt - 1 - k
        Extent(k) == Edge(At(k), B.nt, B.N, B.nb)
        mm(m) == Edge(m, B.mt, B.M, B.nb)
        lalpha(k) == IF c.ta # "N" \/ k = 0 THEN c.alpha ELSE 1
        Solve(m, k) ==
            InsertTrsm("R", c.uplo, c.ta, c.diag, mm(m), Extent(k), lalpha(k),
                       Tile("A", At(k), At(k)), Tile("B", m, At(k)))
        Subtract(m, k, n) ==
            InsertGemm("N", c.ta, mm(m),
                       IF Upper(c) THEN Extent(n) ELSE B.nb,
                       IF Upper(c) THEN B.nb ELSE Extent(k),
                       IF c.ta = "N" THEN Neg(1) ELSE Over(Neg(1), c.alpha),
                       Tile("B", m, At(k)), TileOf("A", c.ta, At(k), At(n)),
                       IF c.ta = "N" THEN lalpha(k) ELSE 1, Tile("B", m, At(n)))
        Row(m, k) == Loop(k + 1, B.nt, LAMBDA n : Subtract(m, k, n))
    IN  Loop(0, B.nt, LAMBDA k :
            IF c.uplo = "U" /\ c.ta = "N"
            THEN Loop(0, B.mt, LAMBDA m : Solve(m, k)) \o Loop(0, B.mt, LAMBDA m : Row(m, k))
            ELSE Loop(0, B.mt, LAMBDA m : Solve(m, k) \o Row(m, k)))

Trsm(c) ==
    IF c.M = 0 \/ c.N = 0 THEN <<>>
    ELSE IF c.side = "L" THEN TrsmLeft(c) ELSE TrsmRight(c)

-----------------------------------------------------------------------------
\* The tasks of a call, in the order of their creation.
TasksOf(c) ==
    IF Returned(c) # 0 THEN <<>> ELSE
    CASE c.kernel = "gemm"  -> Gemm(c)
      [] c.kernel = "gemmt" -> Gemmt(c)
      [] c.kernel = "syrk"  -> Syrk(c)
      [] c.kernel = "herk"  -> Herk(c)
      [] c.kernel = "syr2k" -> Syr2k(c)
      [] c.kernel = "her2k" -> Her2k(c)
      [] c.kernel = "symm"  -> Symm(c)
      [] c.kernel = "hemm"  -> Hemm(c)
      [] c.kernel = "trmm"  -> Trmm(c)
      [] c.kernel = "trsm"  -> Trsm(c)

=============================================================================
