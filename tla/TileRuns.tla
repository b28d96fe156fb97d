------------------------------ MODULE TileRuns ------------------------------
(***************************************************************************)
(* A tile algorithm executed by the runtime: the tasks of one call run in  *)
(* any order the dependencies between their accesses allow, each on a      *)
(* device (on copies of its tiles, brought in and written back as the      *)
(* modes of its format say) or on the host (in place). What the memory     *)
(* holds when all have run is compared with the routine applied to the     *)
(* whole matrices.                                                         *)
(***************************************************************************)
EXTENDS TileAlgorithms, FiniteSets

CONSTANT Calls      \* the calls to try, one per behaviour

VARIABLES call,     \* the call of this behaviour
          graph,    \* the tasks it has inserted, in their order
          done,     \* the tasks that have run
          mem,      \* host memory: the matrices by name
          view      \* tile -> leading dimension of its replica on the host; only
                    \* the tiles for which the tasks do not all name the same one
vars == <<call, graph, done, mem, view>>

Tasks == DOMAIN graph
Task(t) == graph[t]

Output(c) == IF c.kernel \in {"trmm", "trsm"} THEN "B" ELSE "C"
ProductKernels == {"gemm", "gemmt", "syrk", "herk", "syr2k", "her2k"}
Matrices(c) == {"A", "B"} \cup (IF Output(c) = "C" THEN {"C"} ELSE {})
DescrOf(c, X) == HandlesOf(c)[X]

\* The accesses of two tasks that the data-flow engine orders.
Ordered(s, t) == \E i \in DOMAIN s.acc, j \in DOMAIN t.acc : Conflicting(s.acc[i], t.acc[j])

\* A task waits for those inserted before it that it is ordered with.
Ready(t) ==
    /\ t \in Tasks \ done
    /\ \A s \in 1..(t - 1) : s \notin done => ~Ordered(Task(s), Task(t))

-----------------------------------------------------------------------------
(* Tiles and views *)

Origin(c, tile) ==
    LET nb == DescrOf(c, tile[1]).nb IN <<tile[2] * nb, tile[3] * nb>>

\* The entries of the matrix that an access covers.
Entries(c, a) ==
    LET o == Origin(c, a.tile) IN {<<o[1] + x[1], o[2] + x[2]>> : x \in Dims(a.rows, a.cols)}

\* The array of a matrix is stored by columns: the place of an entry, and of
\* entry x of an access whose columns are ld apart.
PlaceIn(d, x) == x[1] + d.ld * x[2]
PlaceOf(c, a, ld, x) == PlaceIn(DescrOf(c, a.tile[1]), Origin(c, a.tile)) + x[1] + ld * x[2]

LdOf(c, a) == DescrOf(c, a.ld).ld
Addresses(c, a) == {PlaceOf(c, a, LdOf(c, a), x) : x \in Dims(a.rows, a.cols)}

\* What place p of the array of X holds: an entry, or memory that belongs to
\* nobody between two columns or beyond the last one.
Content(X, p) ==
    LET ld == DescrOf(call, X).ld
        x == <<p % ld, p \div ld>>
    IN  IF x \in DOMAIN mem[X] THEN mem[X][x] ELSE Undef

\* The tiles of which two accesses name different leading dimensions.
Accesses(g) == UNION {{g[t].acc[i] : i \in DOMAIN g[t].acc} : t \in DOMAIN g}
Disputed(c, g) ==
    {a.tile : a \in {x \in Accesses(g) : \E y \in Accesses(g) :
                        x.tile = y.tile /\ LdOf(c, x) # LdOf(c, y)}}

\* _kaapi_new_mdi: the first access that reaches a device describes the tile on
\* the host for all that follow.
NoView == 0
ViewAfter(acc) ==
    [tile \in DOMAIN view |->
        LET mine == {i \in DOMAIN acc : acc[i].tile = tile}
        IN  IF view[tile] # NoView \/ mine = {} THEN view[tile] ELSE LdOf(call, acc[Min(mine)])]

\* The leading dimension a task reads an access with: on the host its own, on a
\* device that of the replica on the host, from which its copy is made.
ReadLd(a, place) ==
    IF place = "device" /\ a.tile \in DOMAIN view' THEN view'[a.tile] ELSE LdOf(call, a)

\* What a kernel finds in the view of an access: on a device the copy of a
\* tile that is only written starts with whatever the device memory holds.
ViewOf(a, place) ==
    [x \in Dims(a.rows, a.cols) |->
        IF place = "device" /\ a.mode = "W" THEN Undef
        ELSE Content(a.tile[1], PlaceOf(call, a, ReadLd(a, place), x))]

\* Where the body of a task can run: on a device, or on the host, where only the
\* MKL has a gemmt of its own.
PlacesFor(p) == {"device", "host"} \cup (IF p.kernel = "gemmt" THEN {"MKL"} ELSE {})

\* The body of the task on one place. Without the MKL a gemmt computes the whole
\* tile.
Body(p, place, a, b, c) ==
    IF p.kernel = "gemmt" /\ place # "MKL" THEN GemmKernel(p, a, b, c) ELSE Kernel(p, a, b, c)

Execute(t, place) ==
    LET acc == Task(t).acc
        last == acc[Len(acc)]
        View(i) == ViewOf(acc[i], place)
        new == Body(Task(t).p, place, View(1), View(IF Len(acc) = 3 THEN 2 ELSE 1),
                    View(Len(acc)))
        o == Origin(call, last.tile)
    IN  /\ Ready(t)
        /\ view' = IF place = "device" THEN ViewAfter(acc) ELSE view
        /\ done' = done \cup {t}
        /\ mem' = [mem EXCEPT ![last.tile[1]] = [x \in DOMAIN @ |->
                      IF x \in Entries(call, last)
                      THEN new[x[1] - o[1], x[2] - o[2]] ELSE @[x]]]
        /\ UNCHANGED <<call, graph>>

Finished == done = Tasks /\ UNCHANGED vars

-----------------------------------------------------------------------------
\* Arbitrary contents without zeros.
Filling(seed, rows, cols) ==
    [x \in Dims(rows, cols) |-> 1 + ((11 * x[1] + 17 * x[2] + 5 * x[1] * x[2] + seed) % 48)]
FirstMem(c) ==
    [X \in Matrices(c) |->
        LET d == DescrOf(c, X)
        IN  Filling(CASE X = "A" -> 3 [] X = "B" -> 20 [] X = "C" -> 38, d.M, d.N)]

Init ==
    /\ call \in Calls
    /\ graph = TasksOf(call)
    /\ done = {}
    /\ mem = FirstMem(call)
    /\ view = [tile \in Disputed(call, graph) |-> NoView]

Next == (\E t \in Tasks : \E place \in PlacesFor(Task(t).p) : Execute(t, place)) \/ Finished

Spec == Init /\ [][Next]_vars

-----------------------------------------------------------------------------
\* The call applied to the whole matrices.
WholeCall(c) ==
    LET p == [BaseCall EXCEPT !.kernel = c.kernel, !.side = c.side, !.uplo = c.uplo,
                !.ta = c.ta, !.tb = c.tb, !.diag = c.diag, !.m = c.M, !.n = c.N, !.k = c.K,
                !.alpha = c.alpha, !.beta = c.beta]
        first == FirstMem(c)
    IN  Kernel(p, first.A, first[c.opB], first[Output(c)])

\* The entries of the output that the routine defines.
Significant(c) ==
    {x \in Dims(c.M, c.N) : c.kernel = "gemmt" /\ c.uplo # "full" => InTriangle(c.uplo, x)}

\* Two leading dimensions that differ where xkblas_zher2k_async mixes them up.
MixedLD(c) == MixesLD(c) /\ c.lda # c.ldb

\* The inner loop has no step, and so there is no task to apply beta.
BetaDropped(c) == c.K = 0 /\ c.beta # 1 /\ c.kernel \in ProductKernels

\* The tasks that have run are tasks of the call and the matrices keep their
\* sizes; no content of uninitialised device memory ever reaches them. (With
\* alpha = 0 ztrsm scales by -1/alpha, but overwrites what it has spoilt.)
TypeOK ==
    /\ call \in Calls
    /\ done \subseteq Tasks
    /\ \A X \in Matrices(call) :
            mem[X] \in [Dims(DescrOf(call, X).M, DescrOf(call, X).N) ->
                            IF call.alpha = 0 \/ MixedLD(call) THEN Scalars ELSE Defined]

\* All tasks have run: the memory holds what the routine computes on whole
\* matrices, and its operands are unchanged (the comments of xkblas_z*_async give
\* the formula, for matrices with the leading dimensions LDA, LDB and LDC).
ResultHolds ==
    done = Tasks /\ Returned(call) = 0 =>
        /\ \A X \in Matrices(call) \ {Output(call)} : mem[X] = FirstMem(call)[X]
        /\ LET right == WholeCall(call)
           IN  \A x \in Significant(call) : mem[Output(call)][x] = right[x]

\* Whatever the order and the places in which the tasks of a call ran, the
\* result is right: the loops, tile sizes, transpositions, scalings, leading
\* dimensions and access modes of xkblas_z*_async and ztask_*.c fit together, but
\* for two cases: a her2k that takes the leading dimension of A for B, and a
\* product without an inner step whose beta nobody applies.
ResultRight == ~MixedLD(call) /\ ~BetaDropped(call) => ResultHolds

\* No task declares two accesses to one tile of which one is a write: with
\* such a pair kaapi_update_dependencies makes the task wait for itself.
NoSelfWait ==
    done = {} => \A t \in Tasks : \A i, j \in DOMAIN Task(t).acc :
        i # j => ~Conflicting(Task(t).acc[i], Task(t).acc[j])

\* Two tasks that may run at the same time never touch a common place of an
\* array that one of them writes: the modes the tasks are registered with in
\* INSERT_TASK_* order every overlap, ragged tiles and leading dimensions
\* included.
RaceFree ==
    \A s, t \in Tasks : s < t /\ Ready(s) /\ Ready(t) =>
        \A i \in DOMAIN Task(s).acc, j \in DOMAIN Task(t).acc :
            LET a == Task(s).acc[i]
                b == Task(t).acc[j]
            IN  a.tile[1] = b.tile[1] /\ {a.mode, b.mode} # {"R"}
                => Addresses(call, a) \cap Addresses(call, b) = {}

\* The arguments the BLAS standard allows: no negative size, and columns that do
\* not overlap in memory.
Legal(c) ==
    /\ c.ta \in {"N"} \cup (CASE c.kernel \in {"syrk", "syr2k"} -> {"T"}
                              [] c.kernel \in {"herk", "her2k"} -> {"C"}
                              [] OTHER -> {"T", "C"})
    /\ c.M >= 0 /\ c.N >= 0 /\ c.K >= 0
    /\ \A X \in {"A", "B", "C"} :
          LET d == DescrOf(c, X) IN d.M > 0 => d.ld >= d.M

\* A routine refuses exactly the calls with illegal arguments: what it accepts
\* can be cut into tiles, and what it refuses leaves the matrices alone.
ChecksRefuseIllegal ==
    done = {} => /\ Returned(call) = 0 <=> Legal(call)
                 /\ Returned(call) # 0 => Tasks = {}

\* The places of a tile in the array of its matrix.
TilePlaces(c, tile) ==
    LET d == DescrOf(c, tile[1])
        o == Origin(c, tile)
    IN  {PlaceIn(d, x) : x \in {y \in Dims(d.M, d.N) : /\ o[1] <= y[1] /\ y[1] < o[1] + d.nb
                                                     /\ o[2] <= y[2] /\ y[2] < o[2] + d.nb}}

\* The view of an access, with the leading dimension passed to INSERT_TASK_*, does
\* not reach beyond its tile, whatever part of a tile the sizes leave at the
\* border; again but for the her2k that mixes up two leading dimensions.
ViewsInside ==
    done = {} /\ ~MixedLD(call) => \A t \in Tasks : \A i \in DOMAIN Task(t).acc :
        LET a == Task(t).acc[i]
        IN  a.rows >= 0 /\ a.cols >= 0 /\ Addresses(call, a) \subseteq TilePlaces(call, a.tile)

=============================================================================
