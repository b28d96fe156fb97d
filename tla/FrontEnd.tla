------------------------------ MODULE FrontEnd ------------------------------
(***************************************************************************)
(* The front-end of the library (src/blas/xkblas.c): the initialisation    *)
(* count, one context per client thread, the descriptors that give every   *)
(* tile of a matrix its handle and its locality domain, the choice of the  *)
(* tile size and of the mapping, and the calls that synchronise, write     *)
(* back, distribute and forget the tiles.                                  *)
(*                                                                         *)
(* A task is represented by its accesses to handles; the order in which    *)
(* they run is the matter of module DataFlow, what they compute that of    *)
(* module TileAlgorithms.  No task starts before its client calls          *)
(* xkblas_sync, which activates the first synchronisation point of every   *)
(* handle of list_sync0.  The matrices of two clients are different ones.  *)
(* The configuration is the default one: no adaptive partition of the      *)
(* GPUs, hlevel 1 (mapping onto the GPUs).                                 *)
(***************************************************************************)
EXTENDS Integers, Sequences, FiniteSets

CONSTANTS
    Clients,        \* client threads
    Dim,            \* matrix |-> its sizes [m, n]
    NbParams,       \* tile sizes the program may set; 0 lets the library choose
    SysGpus,        \* sys_ngpus, the GPUs of the machine
    GpuCounts,      \* arguments of xkblas_set_ngpus
    BlasCalls,      \* the BLAS calls: [kernel, in, inuplo, out, outuplo]
    MapCalls,       \* explicit mappings: [how, b, p, q, force], see GpuOf
    MaxArrays,      \* bound: arrays of handles a client ever allocates
    MaxCalls        \* bound: calls of the program

Matrices == DOMAIN Dim
NoCtx == <<>>
Unmapped == 0       \* (uint16_t)-1; the GPU r is the domain r + 1

VARIABLES
    init_count,     \* initialisations not finalised yet
    NB,             \* the default tile size
    list_context,   \* _xkblas_list_context: the clients whose context is linked
    ctx,            \* client |-> its context, or NoCtx
    access,         \* client |-> the accesses of its tasks not executed yet
    copies,         \* the tiles whose metadata records copies on devices
    calls           \* calls made so far

vars == <<init_count, NB, list_context, ctx, access, copies, calls>>

(***************************************************************************)
(* Tile sizes and mappings.                                                *)
(***************************************************************************)

RoundDown(x, a) == x - (x % a)
RoundUp(x, a) == RoundDown(x + a - 1, a)
NumTiles(size, nb) == (size + nb - 1) \div nb
AtLeast(low, x) == IF x < low THEN low ELSE x

\* The tile size computed for a kernel when none is set.
TileSize(kernel, M, N, ngpus) ==
    LET S == AtLeast(N, M)
        Share(fact) == S \div (fact * ngpus)
        Cut(nb, fact) == IF nb > 4096 THEN Share(2 * fact) ELSE nb
        Down(fact) == IF Share(fact) >= 2048 THEN RoundDown(Share(fact), 2048)
                                             ELSE Share(fact)
        Up(fact) == RoundUp(Share(fact), 64)
    IN CASE kernel \in {"herk", "syrk"} ->
              LET fact == IF Down(2) <= 1024 THEN 1 ELSE 2
              IN AtLeast(512, Cut(Down(fact), fact))
         [] kernel \in {"her2k", "syr2k"} ->
              LET fact == CHOOSE f \in 2..4 :
                            /\ \A g \in f + 1..4 : Up(g) <= 2048
                            /\ f = 2 \/ Up(f) > 2048
              IN AtLeast(512, Cut(Up(fact), fact))
         [] kernel \in {"hemm", "symm"} ->
              LET nb == AtLeast(1024, RoundDown(Share(1), 1024))
              IN IF nb < 4096 THEN 2 * nb ELSE nb
         [] kernel \in {"trmm", "trsm"} -> AtLeast(2048, Up(2))
         [] kernel \in {"gemm", "gemmt"} ->
              LET nb == IF S > ngpus /\ S > 16384 THEN AtLeast(2048, Share(1)) ELSE Share(1)
              IN RoundUp(AtLeast(512, Cut(nb, 1)), 64)
         [] kernel = "copyscale" ->
              LET nb == IF Share(1) >= 4096 THEN Share(2) ELSE Share(1)
              IN RoundUp(AtLeast(1024, nb), 64)

Sqrt(n) == CHOOSE r \in 0..n : r * r <= n /\ (r + 1) * (r + 1) > n

AutoGridSquare(ngpus) == [p |-> Sqrt(ngpus), q |-> Sqrt(ngpus)]

\* The most square grid of the GPUs, as the code searches it.
AutoGrid(ngpus) ==
    LET g == CHOOSE d \in 1..Sqrt(ngpus) + 1 :
               /\ ngpus % d = 0
               /\ \A e \in d + 1..Sqrt(ngpus) + 1 : ngpus % e # 0
    IN [p |-> g, q |-> ngpus \div g]

-----------------------------------------------------------------------------
(* Descriptors, handles and contexts.                                      *)

NoDescr == [addr |-> FALSE]
Tiles(D) == (0..D.mt - 1) \X (0..D.nt - 1)
Handle(D, t) == <<D.array, t[1], t[2]>>
HandlesOf(D) == {Handle(D, t) : t \in Tiles(D)}
Known(C) == {m \in DOMAIN C.descr : C.descr[m].addr}

\* kaapi_handle_init: nothing accesses the tile, its metadata is known or not.
NewHandle(mdi) == [touched |-> FALSE, mdi |-> mdi, lastmdi |-> FALSE]

NewContext == [NB |-> NB, ngpus |-> SysGpus, syncing |-> FALSE, arrays |-> 0,
               descr |-> <<>>, handle |-> <<>>, list_sync0 |-> <<>>]

\* xkblas_context_get creates the context of the calling thread at its first call.
Context(c) == IF ctx[c] = NoCtx THEN NewContext ELSE ctx[c]
Become(c, C) ==
    /\ ctx' = [ctx EXCEPT ![c] = C]
    /\ list_context' = IF ctx[c] = NoCtx THEN <<c>> \o list_context ELSE list_context

With(f, d, e) == [x \in DOMAIN f \cup {d} |-> IF x = d THEN e ELSE f[x]]

\* xkblas_find: the descriptor of a matrix, a new one if there is none.
Find(C, m) ==
    IF m \in DOMAIN C.descr THEN C ELSE [C EXCEPT !.descr = With(@, m, NoDescr)]

\* xkblas_init_matrix_handle: every tile gets a handle, pushed on list_sync0.
InitMatrixHandle(C, m, nb) ==
    LET mt == NumTiles(Dim[m].m, nb)
        nt == NumTiles(Dim[m].n, nb)
        new == C.arrays + 1
        D == [addr |-> TRUE, nb |-> nb, mt |-> mt, nt |-> nt, array |-> new,
              ldid |-> [t \in (0..mt - 1) \X (0..nt - 1) |-> Unmapped]]
        Nth(k) == Handle(D, <<k \div nt, k % nt>>)
    IN [C EXCEPT !.arrays = new, !.descr[m] = D,
                 !.handle = [h \in DOMAIN @ \cup HandlesOf(D) |->
                               IF h \in DOMAIN @ THEN @[h] ELSE NewHandle(FALSE)],
                 !.list_sync0 = [k \in 1..mt * nt |-> Nth(mt * nt - k)] \o @]

FindInit(C, m, nb) ==
    LET F == Find(C, m)
    IN IF F.descr[m].addr THEN F ELSE InitMatrixHandle(F, m, nb)

\* kaapi_update_dependencies: tasks that access handles become their last accesses.
Touch(C, hs) == [C EXCEPT !.handle =
    [h \in DOMAIN @ |-> IF h \in hs THEN [@[h] EXCEPT !.touched = TRUE, !.lastmdi = FALSE]
                                    ELSE @[h]]]
Accesses(kind, D, ts) == {[kind |-> kind, h |-> Handle(D, t), ld |-> D.ldid[t]] : t \in ts}

\* The tiles of one part of a matrix, as the loops on its tiles visit them.
Part(D, uplo) == {t \in Tiles(D) : CASE uplo = "all"   -> TRUE
                                     [] uplo = "upper" -> t[2] >= t[1]
                                     [] uplo = "lower" -> t[2] <= t[1]}
Complement(D, uplo) == {t \in Tiles(D) : CASE uplo = "all"   -> FALSE
                                           [] uplo = "upper" -> t[2] < t[1]
                                           [] uplo = "lower" -> t[2] > t[1]}

-----------------------------------------------------------------------------
(* Mappings.                                                               *)

BlockCyclic(t, Bp, Bq, Gp, Gq) ==
    1 + (((((t[1] \div Bp) % Gp) * Gq) + ((t[2] \div Bq) % Gq)) % SysGpus)

\* The domain of the tile t of m for a call; nb is the tile size the 1D forms use.
GpuOf(call, m, D, nb, t) ==
    CASE call.how = "all"    -> 1 + call.p
      [] call.how = "2D"     -> BlockCyclic(t, call.b, call.b, call.p, call.q)
      [] call.how = "col"    -> BlockCyclic(t, NumTiles(Dim[m].m, nb), call.b, 1, call.p)
      [] call.how = "row"    -> BlockCyclic(t, call.b, NumTiles(Dim[m].n, nb), call.p, 1)
      [] call.how = "cyclic" -> 1 + ((t[1] * D.nt + t[2]) % SysGpus)
      [] call.how = "ij"     -> 1 + ((t[1] + t[2]) % SysGpus)

\* Tiles already mapped keep their domain unless the call forces them.
Remap(C, m, nb, call) ==
    [C EXCEPT !.descr[m].ldid =
        [t \in DOMAIN @ |-> IF @[t] = Unmapped \/ call.force
                            THEN GpuOf(call, m, C.descr[m], nb, t) ELSE @[t]]]

\* xkblas_auto_map: a two-dimensional block-cyclic mapping on the grid of the GPUs.
AutoMap(C, m) ==
    IF C.ngpus = 0 THEN C
    ELSE LET G == AutoGrid(C.ngpus)
         IN Remap(C, m, 0, [how |-> "2D", b |-> 1, p |-> G.p, q |-> G.q, force |-> FALSE])

-----------------------------------------------------------------------------
(* The calls.                                                              *)

Init ==
    /\ init_count = 0 /\ NB = 0 /\ list_context = <<>> /\ calls = 0
    /\ ctx = [c \in Clients |-> NoCtx]
    /\ access = [c \in Clients |-> {}]
    /\ copies = {}

Idle(c) == ctx[c] # NoCtx => ~ctx[c].syncing
Call(c) == calls < MaxCalls /\ Idle(c) /\ calls' = calls + 1
Running(c) == Call(c) /\ init_count > 0

\* xkblas_init: only the first one starts the runtime, and the context of its caller.
XkInit(c) ==
    /\ Call(c)
    /\ init_count' = init_count + 1
    /\ IF init_count = 0 THEN Become(c, Context(c)) ELSE UNCHANGED <<ctx, list_context>>
    /\ UNCHANGED <<NB, access, copies>>

\* xkblas_finalize: the last one frees every context.  The program has synchronised.
FreeOwnContext(c) == [ctx EXCEPT ![c] = NoCtx]
FreeContexts(c) == [d \in Clients |-> NoCtx]
Finalize(c) ==
    /\ Running(c)
    /\ init_count' = init_count - 1
    /\ IF init_count > 1 THEN UNCHANGED <<NB, list_context, ctx, copies>>
       ELSE /\ \A d \in Clients : Idle(d) /\ access[d] = {}
            /\ ctx' = FreeContexts(c) /\ list_context' = <<>>
            /\ NB' = 0 /\ copies' = {}
    /\ UNCHANGED access

\* xkblas_set_param changes the default of the contexts created later.
SetParam(c, nb) ==
    /\ Call(c)
    /\ NB' = nb
    /\ UNCHANGED <<init_count, list_context, ctx, access, copies>>

SetNgpus(c, n) ==
    /\ Running(c)
    /\ Become(c, [Context(c) EXCEPT !.ngpus = IF n > SysGpus THEN SysGpus ELSE n])
    /\ UNCHANGED <<init_count, NB, access, copies>>

\* A BLAS routine: descriptors of its operands, mapping of the result, tasks.
Blas(c, call) ==
    LET C == Context(c)
        nb == IF C.NB # 0 THEN C.NB
              ELSE TileSize(call.kernel, Dim[call.out].m, Dim[call.out].n, C.ngpus)
        F == FindInit(FindInit(C, call.in, nb), call.out, nb)
        A == AutoMap(F, call.out)
        D == A.descr[call.in]
        E == A.descr[call.out]
        new == Accesses("read", D, Part(D, call.inuplo))
                 \cup Accesses("write", E, Part(E, call.outuplo))
    IN /\ Running(c)
       /\ C.NB # 0 \/ C.ngpus # 0             \* the code divides by ngpus
       /\ F.arrays <= MaxArrays
       /\ Become(c, Touch(A, {a.h : a \in new}))
       /\ access' = [access EXCEPT ![c] = @ \cup new]
       /\ UNCHANGED <<init_count, NB, copies>>

\* xkblas_map_...: nothing happens to a matrix that has no handles yet.
Map(c, m, call) ==
    LET F == Find(Context(c), m)
    IN /\ Running(c)
       /\ call.how \in {"col", "row"} => F.NB # 0     \* the code divides by NB
       /\ Become(c, IF F.descr[m].addr THEN Remap(F, m, F.NB, call) ELSE F)
       /\ UNCHANGED <<init_count, NB, access, copies>>

\* xkblas_distribute_..._async: a task bound to its GPU reads every tile.
Distribute(c, m, nb, call) ==
    LET F == FindInit(Context(c), m, nb)
        R == Remap(F, m, nb, [call EXCEPT !.force = TRUE])
        new == Accesses("distribute", R.descr[m], Tiles(R.descr[m]))
    IN /\ Running(c)
       /\ F.arrays <= MaxArrays
       /\ Become(c, Touch(R, {a.h : a \in new}))
       /\ access' = [access EXCEPT ![c] = @ \cup new]
       /\ UNCHANGED <<init_count, NB, copies>>

\* xkblas_memory_coherent_async: write back a part; in strict mode, drop the rest.
Coherent(c, m, uplo, strict) ==
    LET F == Find(Context(c), m)
        D == F.descr[m]
        back == Accesses("writeback", D, Part(D, uplo))
        drop == IF strict THEN Accesses("invalidate", D, Complement(D, uplo)) ELSE {}
        new == IF D.addr THEN back \cup drop ELSE {}
    IN /\ Running(c)
       /\ D.addr => D.mt <= D.nt + 1          \* the code indexes beyond the last column
       /\ Become(c, Touch(F, {a.h : a \in new}))
       /\ access' = [access EXCEPT ![c] = @ \cup new]
       /\ UNCHANGED <<init_count, NB, copies>>

-----------------------------------------------------------------------------
(* xkblas_sync                                                             *)

\* The first synchronisation points of the touched handles are activated.
SyncBegin(c) ==
    /\ Running(c)
    /\ Become(c, [Context(c) EXCEPT !.syncing = TRUE])
    /\ UNCHANGED <<init_count, NB, access, copies>>

TileOf(c, C, h) ==
    LET m == CHOOSE x \in Known(C) : C.descr[x].array = h[1]
    IN <<c, m, C.descr[m].nb, h[2], h[3]>>

\* kaapi_end_dfg: the accesses of the activated handles are executed; each one
\* acquires its tile on a device, and so learns its metadata.
Activated(C) == {C.list_sync0[k] : k \in DOMAIN C.list_sync0}
Execute(c) ==
    LET C == ctx[c]
        run == {a \in access[c] : a.h \in Activated(C)}
        hs == {a.h : a \in run}
    IN /\ C # NoCtx /\ C.syncing /\ run # {}
       /\ ctx' = [ctx EXCEPT ![c].handle =
            [h \in DOMAIN @ |-> IF h \in hs THEN [@[h] EXCEPT !.lastmdi = TRUE] ELSE @[h]]]
       /\ access' = [access EXCEPT ![c] = @ \ run]
       /\ copies' = copies \cup {TileOf(c, C, h) : h \in hs}
       /\ UNCHANGED <<init_count, NB, list_context, calls>>

\* Every handle of the list is initialised again and keeps its metadata, the
\* one it has or else the one of its last access; the list is reversed.
KeptOwn(h) == h.mdi
Kept(h) == h.mdi \/ (h.touched /\ h.lastmdi)
ReinitKeepsLast(h) == [h EXCEPT !.mdi = Kept(h)]
Reinit(h) == NewHandle(Kept(h))
SyncEnd(c) ==
    LET C == ctx[c]
        n == Len(C.list_sync0)
    IN /\ C # NoCtx /\ C.syncing /\ access[c] = {}
       /\ ctx' = [ctx EXCEPT ![c] =
            [C EXCEPT !.syncing = FALSE,
                      !.list_sync0 = [k \in 1..n |-> @[n + 1 - k]],
                      !.handle = [h \in DOMAIN @ |-> IF h \in Activated(C)
                                    THEN Reinit(@[h]) ELSE @[h]]]]
       /\ UNCHANGED <<init_count, NB, list_context, access, copies, calls>>

-----------------------------------------------------------------------------
(* Forgetting the tiles: the program calls these once its tasks are done.  *)

ForgottenKeepsList(C) == [C EXCEPT !.descr = <<>>, !.handle = <<>>]
Forgotten(C) == [C EXCEPT !.descr = <<>>, !.handle = <<>>, !.list_sync0 = <<>>]

\* xkblas_memory_invalidate_caches drops the copies of the tiles it knows of.
InvalidateCaches(c) ==
    LET C == Context(c)
    IN /\ Running(c) /\ access[c] = {}
       /\ copies' = copies \ {TileOf(c, C, h) : h \in {x \in DOMAIN C.handle : C.handle[x].mdi}}
       /\ Become(c, Forgotten(C))
       /\ UNCHANGED <<init_count, NB, access>>

\* xkblas_memory_free frees the metadata of all clients: the others have no tiles.
MemoryFree(c) ==
    /\ Running(c) /\ access[c] = {}
    /\ \A d \in Clients \ {c} : ctx[d] # NoCtx => Known(ctx[d]) = {}
    /\ copies' = {}
    /\ Become(c, Forgotten(Context(c)))
    /\ UNCHANGED <<init_count, NB, access>>

Next ==
    \E c \in Clients :
        \/ XkInit(c) \/ Finalize(c)
        \/ \E nb \in NbParams : SetParam(c, nb)
        \/ \E n \in GpuCounts : SetNgpus(c, n)
        \/ \E call \in BlasCalls : Blas(c, call)
        \/ \E m \in Matrices, call \in MapCalls : Map(c, m, call)
        \/ \E m \in Matrices, nb \in NbParams \ {0}, call \in {x \in MapCalls : ~x.force} :
              call.how \in {"2D", "col", "row"} /\ Distribute(c, m, nb, call)
        \/ \E m \in Matrices, uplo \in {"all", "upper", "lower"}, strict \in BOOLEAN :
              Coherent(c, m, uplo, strict)
        \/ SyncBegin(c) \/ Execute(c) \/ SyncEnd(c)
        \/ InvalidateCaches(c) \/ MemoryFree(c)

Spec == Init /\ [][Next]_vars

-----------------------------------------------------------------------------
HasContext == {c \in Clients : ctx[c] # NoCtx}

(***************************************************************************)
(* list_sync0 holds every handle of the initialised descriptors of its     *)
(* context, once, and nothing else: xkblas_sync activates each tile that   *)
(* tasks wait for, and initialises no handle that was freed.               *)
(***************************************************************************)
SyncListExact ==
    \A c \in HasContext :
        LET C == ctx[c]
            reachable == UNION {HandlesOf(C.descr[m]) : m \in Known(C)}
        IN /\ Activated(C) = reachable
           /\ Len(C.list_sync0) = Cardinality(reachable)
           /\ {a.h : a \in access[c]} \subseteq reachable

(***************************************************************************)
(* Between two synchronisations a handle that no task accesses is as       *)
(* kaapi_handle_init leaves it: its last access is no access of a task     *)
(* that is over, which the next task would link itself to.                 *)
(***************************************************************************)
NoStaleLast ==
    \A c \in HasContext : ~ctx[c].syncing =>
        \A h \in DOMAIN ctx[c].handle :
            ctx[c].handle[h].touched <=> \E a \in access[c] : a.h = h

(***************************************************************************)
(* When a client has no task left, its handles know the metadata of        *)
(* exactly the tiles that have copies on devices: so                       *)
(* xkblas_memory_invalidate_caches forgets all of them, whatever syncs,    *)
(* mappings and new matrices came before.                                  *)
(***************************************************************************)
MetadataKnown ==
    \A c \in Clients :
        (ctx[c] # NoCtx => ~ctx[c].syncing /\ access[c] = {}) =>
            {t \in copies : t[1] = c} =
                IF ctx[c] = NoCtx THEN {}
                ELSE {TileOf(c, ctx[c], h) : h \in {x \in DOMAIN ctx[c].handle :
                                                          ctx[c].handle[x].mdi}}

(***************************************************************************)
(* The list of contexts names each client that has one, once; none is left *)
(* when the library is finalised, so the next start finds no old handle.   *)
(***************************************************************************)
ContextsListed ==
    /\ Len(list_context) = Cardinality(HasContext)
    /\ {list_context[k] : k \in DOMAIN list_context} = HasContext
    /\ HasContext # {} => init_count > 0

(***************************************************************************)
(* The automatic mapping of a new result with at least as many rows and    *)
(* columns of tiles as the grid uses all the GPUs of the client.           *)
(***************************************************************************)
Mapped(c) == IF ctx[c] = NoCtx THEN {} ELSE Known(ctx[c])
AutoMapUsesAllGpus ==
    [][\A c \in Clients, call \in BlasCalls :
          call.out \in Mapped(c)' \ Mapped(c) /\ Blas(c, call) =>
              LET C == ctx[c]'
                  D == C.descr[call.out]
                  G == AutoGrid(C.ngpus)
              IN C.ngpus > 0 /\ D.mt >= G.p /\ D.nt >= G.q =>
                    {D.ldid[t] : t \in Tiles(D)} = 1..C.ngpus]_vars
=============================================================================
