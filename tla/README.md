# XKBLAS / XKaapi: TLA+ verification project

XKBLAS is a multi-GPU BLAS-3 library. Its front-end (`src/blas/`) cuts matrices into
tiles and turns a BLAS call into tasks that declare accesses to tiles; the XKaapi
runtime (`src/kaapi/`) orders the tasks by their accesses, distributes them over the
devices, moves the tiles and runs the kernels. The code is threaded C: one thread per
device, the threads of the application, a few helpers, and callbacks that run on
whichever device thread sees a transfer or a kernel end.

Contents: [1 inventory](#1-inventory), [2 modules](#2-modules-and-the-code-they-model),
[3 runs](#3-runs), [4 fairness](#4-fairness), [5 theorems](#5-theorems),
[6 findings](#6-findings), [7 limits](#7-outside-the-bounds-and-the-models),
[8 not modelled](#8-not-modelled), [9 plan](#9-plan).

## 1. Inventory

| Component (source) | State | Operations | Hard behaviour | What makes it correct |
|---|---|---|---|---|
| Front-end (`xkblas.c`) | count of initialisations, contexts of client threads, descriptors, handles, `list_sync0` | init, finalize, parameters, BLAS calls, mapping, coherency, sync, invalidate, free | handles kept over syncs, matrices forgotten by flag | a used handle is activated once and forgets finished tasks |
| Work buffer (`xkblas.c`) | segments, free list, clearing thread | register, get, free, unregister | several waiters of different sizes | segments partition the buffer; nobody waits beside room |
| Tile algorithms (`z*.c`, `ztask_*.c`) | none | task graphs of gemm, gemmt, syrk, herk, syr2k, her2k, symm, hemm, trmm, trsm | ragged tiles, transpositions, `beta`, declared modes | the graph computes the routine, in every order allowed |
| Data-flow engine (`kaapi_task.c`, `kaapi.h`, `xkblas.c`) | handles with chains of synchronisation points, counters of tasks, `spawn_count`/`exec_count` | task init and commit, `kaapi_update_dependencies`, `xkblas_sync`, activation of successors | epilogues on several devices decrement the same counters; descriptors are recycled; split write-backs | conflicting accesses in program order; a task released once; the frame freed only when idle; every sync returns |
| Stack and frames (`kaapi_task.c`, `kaapi.h`) | blocs, free list, frames | descriptor allocation, push and pop of frames | a frame across several blocs | live descriptors are disjoint, no bloc is lost |
| Worker queue (`kaapi_task.c`) | `H`, `T` per priority | push, pop, steal, growth | THE protocol | each task taken once |
| Locality domains, queues (`kaapi_ld.c`) | circular array, `waiter_push`, push and pop counts; numbering of domains | push, owner push, pop, steal; attach, detach | full queue, holes left by steals; numbers given by two counters | no task lost or duplicated; every pusher gets through; a domain has the number of its address space |
| Device pipeline (`kaapi_offload_device.c`) | circular buffer, `p_write`, `p_ready`, `p_finish`, `task->wc` | prepare, `callback_set_valid`, `callback_epilogue` | `wc` is decremented before `pipe_lock` is taken, on any thread | kernels inserted once, in order, with their data; no slot overwritten |
| Mail box and sleep (`kaapi_offload_device.c`) | `request`, `issleeping`, a counter on the caller's stack | MEMSYNC, write-back, reply, sleep, wake-up | unlocked writes of `op`, replies of several threads | the host coherent on return; no early reply; no lost wake-up |
| Device life cycle (`kaapi_offload.c`, `kaapi_offload_device.c`) | state of devices, peers, counts | create, commit, start, stop, join | threads that wait for each other; restart | peers known; nothing left behind |
| Distributed shared memory (`kaapi_memory.c`) | per tile and node: valid, transfer, pin, callbacks; `ro` and `rw` lists | acquire, fetch, forward, evict, write back | joined and forwarded transfers, eviction | a kernel reads the last version |
| Device heap (`kaapi_memory.c`) | chunks, free list | alloc, free | split, merge | chunks partition the heap |
| Hash map (`kaapi_hashmap.c`) | buckets, blocs | find, insert, clear | blocs used again | finds what was inserted |
| IO streams (`kaapi_offload_stream.c`, plugins) | instruction ring, pending ring | push, decode, test, callback | rings at capacity | callbacks once, in order |
| Host registration (`kaapi_plugin_cuda.c`) | ring of requests, daemon | post, test, wait, wait all, finalize | the daemon works outside the lock | a wait returns for performed requests |
| Team barrier (`kaapi_barrier.c`) | three counters in turn | wait, signal, term | counters used again | nobody passes early |
| Event recorder and reader (`kaapi_trace*.c`, `src/bin/`) | buffers in two lists, files, rows | record, collect, fini, read | buffers and addresses used again | complete rows in the order of dates |
| Formats, wrappers, vendor calls, LAPACK | - | - | - | see section 8 |

How they interact. A BLAS call finds or creates the descriptors of its matrices
(front-end), inserts tasks (tile algorithms) in descriptors taken from the stack, and the
data-flow engine links their accesses; `xkblas_sync` then signals the first
synchronisation point of each handle. A ready task is pushed to the queue of a device
(locality domains); the device thread pops it, asks the shared memory for its tiles,
whose blocks come from the heap and whose transfers go through the io streams, and
writes it into its pipeline; the end of each transfer calls back into the pipeline; the
end of the kernel calls `callback_epilogue`, which frees the slot, signals the successors
and counts the task in the frame. `xkblas_memory_syncall` asks every device, through its
mail box, to write modified tiles back. The models cut the system at these calls: each
module takes over what the neighbour promises (`Dsm` starts a task only when no live task
conflicts with it, which is `DataFlow!ConflictOrder`; `MemSync` counts transfers as
`Dsm` serves them; `TileRuns` runs tasks in the orders `DataFlow` allows).

## 2. Modules and the code they model

Definitions marked *Defect* are plausible bugs of a definition that comes after them. No
specification uses them; `PROJECT.json` names one for each property, which fails when the
defect takes the place of the definition.

### Data-flow engine: `TaskOrder`, `DataFlow`, `DataFlowInv`, `DataFlowProofs`

`TaskOrder` is what the engine promises to its caller; `DataFlow` implements it
(refinement mapping at its end); `DataFlowInv` is its inductive invariant in named parts.
`acc` is the sequence of accesses in program order, each with the number `gen` of its
synchronisation point; `swc[h][g]` is the `wc` of that point, `wc[t]` the counter of a
task, `walk[th]` the rest of the list a thread traverses in
`kaapi_sched_activate_syncpoint`. There is one action per step that another thread can
interleave with: each decrement of a synchronisation point (`SignalSyncPoint`), each
access of a traversal (`Notify`), the increment of `exec_count` (`FinishEpilogue`) and the
write of the flags after it (`MarkExec`).

Abstractions: lists of accesses are sets traversed in program order, which is their link
order; the order in which `xkblas_sync` activates handles is left open (the code rebuilds
the list in reverse); a ready task may be taken by any device; a write-back task may find
the host valid or start a transfer. `CallerMayAccess` is the precondition on callers: a
task does not declare two conflicting accesses to one tile. `TileRuns!NoSelfWait` shows
that the tile algorithms keep it (her2k only when its two operands are different).

### Device pipeline: `DevicePipeline` (proofs in `ServicesProofs`)

State as in the code; a task is identified with its pipeline index, `xfers[i]` are its
transfers, `cbk[i]` its callbacks between the decrement and `pipe_lock`. The traversal of
`callback_set_valid` is one step because `wc` of published tasks only falls. `Prepare`
does not ask `Accept`: the MEMSYNC path does not either, and the invariant shows why that
is safe (the loop comes back only with `Accept` true). Callbacks and the ends of kernels are
handled while parameters are prepared, too: the thread polls when it finds no memory.

### Mail box: `MemSync`, `MemSyncInv`, `MemSyncProofs`

The caller (`cpc`), the device threads (`dpc`) and the callbacks they run. `TestIdle` and
`Sleep` are two steps, as in the code; `Memsync` and `SetWait` write `op` without the
lock. `valid` and `rw` decide which tiles are written back; `RunTask` stands for a task
with one access. A tile written by one device, then another, then read by the first is in
both `rw` lists; the second device joins the transfer of the first, which runs the
callbacks of both. `Big` stands for 2^32: it exceeds the number of callbacks. A read of
the counter of a call that has returned yields anything. `MemSyncInv` is the inductive
invariant; `OnTile`, `InCalls` and `Unsent` are the sets whose sizes the counter must hold:
callbacks at host replicas, callbacks a thread has still to run, transfers started and not
added yet.

### Device queue: `TaskLine`, `FifoQueue`, `FifoQueueProofs`

`TaskLine` is a line of tasks; `FifoQueue` is `struct kaapi_fifo_queue` and where each
thread is in its push (`FifoParameters` holds its constants). A critical section is one
action; `WakeUp` is the spurious return POSIX allows. `Slot` is C's remainder, negative for
negative positions, and the owner decrements `H` without a bound, as the code does: `Cells`
are the array and the memory in front of it. Nobody else is said to write that memory; that
it is used at all is finding 8. `Stealing` is `KAAPI_WS_GPUTASK`.

### Tiles: `ComplexMod`, `BlasKernels`, `BlasTasks`, `TileAlgorithms`, `TileRuns`

`TileAlgorithms` maps a call to the sequence of tasks `xkblas_z*_async` inserts: the
argument checks, the descriptors, the loops, the extents of border tiles, the scalings.
`BlasTasks` gives each task its kernel and its accesses, with the mode `INSERT_TASK_*`
declares (which orders tasks) and the mode of the format (which decides what is copied).
`BlasKernels` is what a BLAS routine computes, on a tile or on a whole matrix, over the
field of 49 elements of `ComplexMod`, which has a conjugate and exact inverses.
`TileRuns` executes the tasks of one call in any order their accesses allow, each on a
device (a tile that is only written starts undefined) or on the host, and compares the
memory with the routine applied to whole matrices.

Matrices lie in memory by columns. An access names its tile, its extent and the leading
dimension that the call of `INSERT_TASK_*` passes (`Access`, `ld`), and covers the places
`Addresses` gives; what it finds there is an entry of the matrix or memory between and
behind its columns (`PlaceOf`, `Content`). On the host a task reads with its own leading
dimension. On a device it reads a copy made with that of the replica on the host, which the
first access that reaches a device describes for all that follow; `view` remembers it for the
tiles of which two accesses disagree. A gemmt without the MKL computes the full tile
(`PlacesFor`, `Body`; `zgemmt.c:417`, `ztask_gemmt.c:212`). `ResultRight` excludes by name two
sets of calls for which the source is wrong: `MixedLD` (finding 6) and `BetaDropped`
(finding 7); `ResultHolds` is the claim without the exclusion. Two places where the routines share
code in the model and not in the source: `RankK` is the loop nest of `zsyrk.c` and
`zherk.c`, `SymmTask` that of `zsymm.c` and `zhemm.c`, which differ in the conjugate.

### Shared memory: `Dsm`, `DsmInv`, `DsmProofs`

Per tile and node `valid`, `xfer`, `pin`, the block `blk` and the callbacks `cbk`; per
device the lists `ro` and `rw`; `copies` are the copies on streams, each with the blocks
it reads and writes, whose contents are versions of tiles. A device thread prepares one
task at a time; when its memory is full it evicts, and polls while nothing can be
evicted. A fetch chooses a source, then posts a copy, joins one, or asks a replica under
transfer to forward. Every device may evict at any time, nothing pins the source of a
copy, and a writer may start during a split write-back. A callback of kind forward at a replica stands for `callback_resend_replica_on_callback_cbk`; a replica
is served if a copy to it exists or a chain of such callbacks leads to it from a copy, which
`Reach[k]` follows through `k` links. `DsmInv` and `ChainInv` are the inductive invariants.

The code does not prevent that a device takes away what another one relies on. `mishaps` is a
history of these events which no action reads: an eviction dropped the replica a copy
reads or a thread has just chosen as source (`"source"`), or the last valid replica, because
two evictions were decided on each other's (`"last"`), or the only replica of a modified tile
that an `rw` list names (`"unlisted"`), and a writer started before the write-back of its tile
arrived (`"overtaken"`). The properties about contents hold in every behaviour up to its first
mishap other than `"unlisted"` (`Unharmed`), with any number of devices that evict; that mishaps
happen is findings 5 and 16.

### The work of a device: `DeviceWork`

Places the device queue, the shared memory and the tile runs side by side: `part`, chosen by
the initial state, is the one that moves, and `Only(p)` frames the others. `MCDeviceWork`
gives the instance; `MCDsm` and `MCTileRuns` are the instances of single modules, which the
findings use (that of the queue needs `FifoQueue` only).

### Streams: `IoStream`, `IoStreamProofs`

One module, three instances (`Plugin`): the cuda plugin decodes one instruction per
stream and poll, the hip plugin copes with kernels on several queues, the host plugin
runs the operation and its callback at once. Pushers hold the mutex of the stream from
`StreamPush` to `InsertTask` or `InsertCopy`; vendor operations end in any order; `ok_p`
moves over the longest prefix that has ended. A push tests the instruction ring only, in a
loop with a test at its top, under the mutex, and one at its end: `Spin` goes round,
`StreamPush` leaves it with the mutex, `LeaveUnlocked` without. `Start` moves an instruction to
the pending ring without a test. `overrun` records that one of the two happened; `StreamSound`
is about the behaviours before (findings 13, 14). The device thread pushes, too, and may wait for
itself (`SelfBlocked`, finding 15).

### Other services: `Services`, `ServicesProofs`

`Services` puts the pipeline, the three streams, the registration, the barrier, the recorder
and the life cycle side by side. They share no state, so that one variable, `comp`, chosen by
the initial state, says which one moves, and `Only(c)` frames the others.

- `HostRegister`: critical sections are one step, except the daemon's test of
  `plugin_initialized`, which finalize writes without the lock; a handle is a position of
  the ring of `RegSize` requests. A wait for one request sleeps once: `SpuriousWakeUp` ends it
  early, and a second waiter returns at once with the lock of the request (`locked`), on which the
  daemon and later callers block (`blocked`). `answer` is what the last test or wait returned and
  whether it was true.
- `TeamBarrier`: every read and write of a shared word is a step; counters are indexed by
  `cycle % 3`.
- `TraceRecorder`: events are recorded into buffers of `Size`, full buffers go through
  `listevt` to the collector and back through `listfree`; after `fini` the reader merges
  the files by date and matches begins and ends into rows.
- `DeviceLife`: the main thread and one thread per device over several `kaapi_init` /
  `kaapi_finalize`, the barrier between the threads of a driver, the numbers of address
  spaces (`lid`), domains (`ldid`) and nodes, and the queue `kaapi_thread_push` chooses.

### Data structures and front-end: `Structures`, `StructuresProofs`, `StackProofs`

`Structures` composes them in the same way.

- `ChunkHeap`: descriptors with `prev`, `next` and the free link, best fit as coded (the
  last chunk that fits), split, merge with both neighbours.
- `HashMap`: chains of entries carved out of blocs, which `clear` makes available again;
  `Walk[n][b]` is the entry the search of bucket `b` looks at after `n` links.
- `WorkBuffer`: segments in two doubly linked lists; the clearing thread takes the buffer
  in parts at registration; `xkblas_free_work_pos` wakes all waiters.
- `TheQueue`: one action per access the other side can see. An array grows as often as it is
  full, by a copy of the first array; `regrown` records that a priority has grown twice.
- `TaskStack`: blocs, `sp`, frames, and the pop of frames across blocs.
- `FrontEnd`: contexts, descriptors, handles, mapping and coherency of two clients; a task
  is its list of accesses, executed between `SyncBegin` and `SyncEnd`.

## 3. Runs

| Run | Instance | Shows | Result |
|---|---|---|---|
| `dataflow` | 3 tasks, 2 tiles, 2 devices, R/RW, 4 accesses, 1 sync | order of conflicting tasks, quiescence at the release of the frame, disjoint traversals, one push per task, refinement of `TaskOrder` | holds, 1.5 M states |
| `dataflow_liveness` | 2 tasks, R/W/CW, 2 accesses, 2 syncs, fair | exact counters; `xkblas_sync` returns | holds |
| `memsync` | 2 devices, 2 tiles, 4 tasks, 2 calls | exact counter (with the inductive invariant `SyncInv`), no early reply, host coherent whenever a call returns | holds, 0.5 M states |
| `device_work` | shared memory: 3 tiles; one device of two blocks with 4 tasks, or two devices of one and two blocks with 3 tasks, both of which evict. Queue: array of 2, 2 clients, 3 client and 2 owner tasks, steals, spurious wake-ups. Tiles: 583 calls; ten routines with every side, triangle, transposition, diagonal, two leading dimensions, K = 0; 2 x 2 or 3 x 2 ragged tiles; illegal arguments. Fair | until the first mishap kernels read current data, replicas are current, copies keep their blocks, dirty tiles are findable; transfers served once; tasks end; refinement of `TaskLine` and inductive invariant of the queue, a thread that waits alone gets through; results, no self wait, no race between ready tasks, arguments and views | holds, 110 k states |
| `services` | pipeline of 3 slots and 5 tasks; three plugins; 2 clients and 4 requests on a ring of 2; 3 threads and 4 barriers; 2 rounds of traced tasks; 2 lives of up to 3 devices; fair | one property per component and one on progress of all of them | holds, 224 k states |
| `structures` | heap of 5 units; 3 keys, blocs of 2; 3 clients of a buffer of 8; owner and 2 thieves, 4 tasks; stack of 3 blocs; 2 clients, 2 matrices, 5 calls | one property per component, and the automatic mapping | holds, 366 k states |
| `tiles_overwrite` | zsyrk with beta = 0 | the opposite triangle survives | violated (finding 1) |
| `memsync_sleep` | 1 device, 1 call, fair | the call returns; its own request is missed, no task is pushed | violated (finding 2) |
| `memsync_lost_request` | 1 device, 2 calls | a posted request is kept | violated (finding 3) |
| `fifo_two_pushers` | array of 2, 2 clients, 4 tasks, fair | every push completes | violated (finding 4) |
| `dsm_unpinned` | the shared memory of `device_work` | the source of a copy keeps its block | violated (finding 5) |
| `tiles_her2k_ld` | zher2k with LDA # LDB | the result | violated (finding 6) |

`DeviceWork`, `Services` and `Structures` compose several components, and `MCDeviceWork`,
`MCServices` and `MCStructures` give their constants values. Since one component moves, the state space of a run is the sum,
not the product, of those of the components. A property such as `BarrierSound` is a conjunction of properties stated and commented in
the component's own module.

Why the bounds are enough. Two accesses of one task, a third task and two devices are
needed for traversals that meet in one task; four accesses on two tiles give them all; a
second sync recycles descriptors. Five tasks go round a buffer of three slots; five tasks
go round an array of two, leave holes in it, make two clients wait, and owner pushes take the
head below 0. In `MemSync` three tasks
make a tile modified on two devices and a fourth modifies it between the calls. In `Dsm`
two blocks for three tiles force evictions of clean and dirty tiles; two devices of one and
two blocks evict under each other's copies, which gives every mishap but `"last"`, forwarding and joined
transfers, and with the small one a memory that holds only modified or pinned tiles. A matrix of two by two tiles has a corner,
two borders and a full tile; the triangular routines, which work in place, get three
tiles in the direction of their recurrence. Streams of two cells wrap after three
instructions, the registration ring after two of four requests; four barriers reuse
each of the three counters; buffers of three events are recycled between two syncs; a second life of
the devices meets the numbers the first one left; five units of heap have chunks
between two neighbours; arrays of two make the queue grow, the second priority, which begins
without an array, twice. `MaxAccesses`, `MaxRounds`, `MaxTasks`,
`MaxXfers`, `MaxSyncs`, `MaxOps`, `MaxReq`, `Rounds`, `MaxBufs`, `MaxBlocs`, `MaxArrays`
and `MaxCalls` only bound the exploration.

Symmetry is used where no liveness is checked: tasks, handles and devices in `dataflow`,
tiles in `memsync`. The runs of systems that stop (bounded calls, a program
that may cease to call) have no deadlock check; `dataflow` and the single calls of
`MCTileRuns` have it.

## 4. Fairness

- Device threads loop for ever: weak fairness of their polls (`DevicePipeline`, `IoStream`,
  `Dsm`, `DeviceLife`). Transfers, kernels and vendor operations end (the hardware).
- A caller inside a blocking call goes on: weak fairness of its steps; it is never obliged
  to make another call. Threads of a barrier and of the recorder run.
- A thread that asks for a mutex others take again and again gets it: strong fairness of
  `IoStream!StreamPush` (with the other way out of its loop, `LeaveUnlocked`) and of the return
  from `cond_wait` in `HostRegister`.
- No fairness is assumed of spurious wake-ups; `FifoQueue` keeps popping because
  `AllExecuted` of the pipeline shows that the device thread comes back.

Where a step has several branches one fairness condition covers their union, so that
no more is assumed than that the thread moves. Liveness in `services` is stated as
`[]<>` of "nothing is left": every prefix of calls is eventually served.

## 5. Theorems

The theorems hold for all values of the constants. The assumptions are those the modules name:
`DataFlowAssumption`, `FifoQueueAssumption` and so on, `ServicesAssumption` and
`StructuresAssumption` for the compositions, and the hypotheses of `NoIdleWaitHolds`.
They say that sets of threads, tasks and keys are finite, that
sizes are positive, that markers (`Main`, `NoTask`, `NoKey`) are none of the things they mark,
that `Big` exceeds the number of callbacks, that a task of the shared memory does not write a
tile through one parameter and use it through another (`NoSelfWait`), that a chunk descriptor can be allocated for each unit
of a heap (the code does not test what `malloc` returns there), that the size of the work
buffer and its parts are multiples of the alignment, that a task descriptor and the header of a
bloc fit in a bloc of the stack (`_kaapi_resize_stack` stops the program, `kaapi_task.c:759`, only
for a descriptor as large as the bloc, without its header; descriptors are far smaller), and that the numbers of devices asked for
are bounded and the sets of devices finite.

| Module | Theorems | Inductive invariant |
|---|---|---|
| `DataFlowProofs` | `IndInvHolds`, `TypeCorrect`, `ConflictOrderHolds`, `CountersExactHolds`, `SyncQuiescentHolds`, `WalksMeetWaitingTasksHolds`, `PushedOnceThenRecycledHolds`, `ImplementsTaskOrderHolds` | `DataFlowInv!IndInv` |
| `FifoQueueProofs` | `QueueInvHolds`, `QueueTypeCorrect`, `CountsQueuedHolds`, `ImplementsTaskLineHolds`, `NoIdleWaitHolds`, all in the composition `DeviceWork` | `FifoQueue!QueueInv` |
| `DsmProofs` | `DsmInvHolds`, `KernelReadsCurrentHolds`, `ValidIsCurrentHolds`, `CopyKeepsBlocksHolds`, `DirtyIsInRwHolds`, `TransfersSoundHolds` | `DsmInv!DsmInv`, `DsmInv!ChainInv` |
| `MemSyncProofs` | `SyncInvHolds`, `CounterSoundHolds`, `NoEarlyReplyHolds`, `HostCoherentHolds` | `MemSyncInv!SyncInv` |
| `IoStreamProofs` | `StreamSoundHolds` | `IoStream!StreamInv` |
| `ServicesProofs` | `PipelineInvHolds`, `PipelineTypeCorrect`, `KernelsInOrderHolds`, `LeaderNotForgottenHolds`, `SlotKeptHolds`, `FinishIsOldestHolds`; in the composition `ServicesPipelineInv`, `RegisterInvHolds`, `BarrierInvHolds`, `BarrierSoundHolds`, `StreamsSoundHolds`, `LifeInvHolds`, `LifeSoundHolds` | `PipelineInv`, `RegisterInv`, `TeamBarrier!BarrierInv`, `LifeInv`, that of the streams |
| `StructuresProofs` | in the composition `TheQueueInvHolds`, `QueueSoundHolds`, `HeapInvHolds`, `HeapSoundHolds`, `MapSoundHolds`, `WorkInvHolds`, `WorkSoundHolds` | `TheQueueInv`, `HeapInv`, `MapInv`, `WorkInv` |
| `StackProofs` | in the composition `StackInvHolds`, `StackSoundHolds` | `StackInv` |

The arguments, one by one.

**Data flow.** `ConflictOrder` is not inductive alone: that a started task has all its accesses
ready must be tied to the generations before them being signalled, hence the parts of `IndInv`
that relate `ready`, `sig`, `walk` and the counters, that order generations by program
order, and that count `spawn` and `exec` as sums over tasks and write-backs. In the
refinement each step is one step of `TaskOrder` or none: `Pop` is its `Start`
(`ReadyMayStart`: a ready task has its accesses released, hence every conflicting task
before it finished), `SyncReturn` its `Forget` (by `SyncQuiescent`), `KernelEnd` its
`Finish`, and the signals, the notifications and the rest of the epilogue are not seen.

**Pipeline.** The invariant adds that the window fits into the buffer (`WindowFits`), that `wc`
counts transfers and the preparation (`WcExact`) and that a finished slot stays empty until
`p_finish` passes it (`SlotFreed`).

**Device queue.** The refinement needs that positions less than `Size` apart have different
cells, negative ones included (`SlotsDiffer`), and that a task is in one place only
(`OnePlace`). H is not bounded: the claim is that the remainders of C keep the tasks of a window
apart, in the array or in front of it. `NoIdleWait` holds for a single pusher.

**Streams.** `StreamInv` says which instruction is in each cell of the two rings as a function
of positions that only grow: position k holds the k-th commit (`Nth`), and the callbacks called
are the positions below the one the poll has reached. Positions less than `Count` apart have
different cells. The instruction ring is tested, so its window is at most `Count`; that of the
pending ring is while no instruction is moved to a full one, and a pusher inside holds the mutex
while none has left the loop without it: `StreamInv` is preserved by every step after which
`overrun` is still false, and `overrun` stays true. Order,
single calls and "after its operation" are then comparisons of positions. The number of pushers
between choice and commit is a cardinality that every step changes by at most one.

**Registration.** The invariant adds that the daemon works on the oldest request, that the
history is one entry ahead of `posr` between the operation and the end of its request
(`DaemonAtOldest`), and that a signalled client's request is done (`AwakeIsDone`); positions less
than `RegSize` apart have different slots. `WaitMeansPerformed` is about the waits that ended
because they were signalled, found the request over, or waited for all: that other ways out
exist, which return 0 for a request not performed, is part of the model (`answer.call` is then
`"spurious"` or `"second"`) and finding 12. The theorem covers the locks that second waiters keep.

**Barrier.** For some number g of turns every thread has arrived g or g + 1 times; the counter
of `g % 3` is the number of those that have arrived g + 1 times, the next counter is clear, and
the third is clear before the turn. A worker's exit cycle is the barrier it is in, since the
master signals a barrier before it enters the next.

**Device life.** `LifeInv` has a witness b, the number of the first domain: 0 after the first
start of the program and 1 after a later one, because the end of
the previous run sets `kaapi_ldid` to 1 (`kaapi_ld.c:77`); an attached device d has domain b + d. The stage of a device (starting, looping,
stopping, gone) is tied to where the main thread is and which devices it has passed; the tables of
domains and nodes are given as functions of the devices that are there. `ndevices` and
`ndevices_commit` are the cardinalities of the sets of processors past a point, hence a
processor that leaves the barrier finds the address spaces of all its peers, and the main
thread goes on only when all processors loop. For the round robin, each processor has got q or
q + 1 tasks without a hint, those up to `last_ldid` one more. The host is not waited for: it may
be in any stage before the loop when the program runs, and the invariant holds for both values
of `HostFirst`.

**Worker queue.** T and H are not the bounds of the queue while the owner or a thief has
moved its index and not yet looked at the other's. The invariant is about `FirstPlace(p)` and
`EndPlace(p)`, the bounds as they were before that move: between them every entry is a task
not taken yet, each in one place, inside the array, with the bit of its priority set. A
conflict is then a comparison of two numbers, and the copy that `kaapi_queue_realloc`
makes outside the lock needs to agree with the array between these bounds only. It does at the
first growth of a priority, since then the first array is the current one; from the
second on the copy is wrong (finding 9). `QueueSound` and the invariant hence hold until `regrown`,
while thieves and the owner may be anywhere in their protocols when an array is replaced.

**Heap.** The links are described by addresses: `next` and `prev` of a chunk are the chunks that
start where it ends and end where it starts, and the free link of a free chunk is the first
free chunk after its address (`HeapNextFree`). Each call is a few updates, so the invariant is
a predicate `HeapGood` on the fields, applied to the states in between; each update has its
lemma (split, unlink, merge, insert). Chunks are disjoint and not empty, so a new descriptor
exists as long as memory is left to split (pigeonhole), and the walk along the list, whose
addresses grow, reaches its end within as many links as there are descriptors.

**Hash map.** The invariant has a witness: a function L from buckets and places to entries,
which `chain` links (`MapChained`), whose keys are the inserted ones, once each, in their
buckets (`MapKeysOnce`) and whose entries are in no bloc waiting to be used again and below the
carved part of the current one (`MapCarved`). An insertion shifts L by one at one bucket; the
search of the code is L (`MapWalkIsList`), and as keys in a bucket differ it ends within as many
links as there are keys.

**Work buffer.** As in the heap, both lists are described by addresses (the free links of a segment
are the first free one after it and the last one before it) and the invariant is a predicate
`WorkGood` on the segments, applied to the states between the updates of a call (cut, take,
clear, merge). The walk along the free list meets at place n the free segment that has n free
ones before it (`WorkPlaceCounts`), so first fit finds a segment whenever one is large enough;
hence a client that waits has met only smaller ones. This stays so: a cut and a take only make
free segments smaller or fewer, and a release, which makes larger ones, wakes all that wait.

**Stack.** The invariant has two lists as witnesses, L of the blocs of the stack and F of those of
the allocator; the links go through each, no bloc is in both and every allocated bloc is in one.
The bloc that holds `sp` in a frame has a rank in L, not below the rank of the frame under it, and
the bloc then current was not a later one. `After` of the bloc of rank p is therefore
the rest of L, a pop gives exactly these blocs back, and they come to the head of F in the reverse
order. `frame_pop` compares `save_bloc_sp` with the current bloc before it gives anything back; that
comparison never keeps a bloc that should go: `save_bloc_sp` is not behind the bloc of `sp` in L, so
when it is the last of L that of `sp` is too. Descriptors do not overlap because `sp` is behind all those of its bloc; it is put
back only when no descriptor is alive.

**Shared memory.** The theorems hold for any number of devices, all of which may evict at any
time, for any sizes of their memories. The invariant is preserved by every step that adds no
mishap but `"unlisted"`, so that each theorem speaks of all behaviours up to the first step in which
an eviction takes a source or the last replica, or a writer overtakes a write-back; the finer
`DirtyListed` ends at `"unlisted"`. Without the condition on `"source"` or `"overtaken"` TLC finds the
properties violated within the bounds of the run. `"last"` takes two devices of one block each and
four tasks, and there comes only with `"source"`; the theorems name it because nothing shows that it
cannot come alone. The subject of the invariant is a use: one parameter of a live task.
While a device thread prepares a task, its uses move in their order through four sets: pinned,
with a block, asked for, listed. The pin of a replica is the number of its pinned uses, the
counter `wc` of a task the number of its uses with a callback plus its preparation, and every
callback is traced back to a use or to the one forwarded copy of its tile.
`KernelReadsCurrent` then follows from `InputsServed` (a use that has been asked for is valid,
under transfer, or about to be posted) and from `Apart` (two live tasks that conflict do not
exist, which is what `DataFlow!ConflictOrder` grants).

`TransfersSound` adds that every transfer is served, once. A transfer without a copy waits for
a request to forward at another replica, which may itself wait; what has to be excluded is a
ring of replicas that wait for each other. `ChainsEnd` does: each tile has a ranking of the nodes
by 0..N that every request increases. A new request goes to a replica nobody has asked
anything of, so it can be put above; ranks are then counted anew (the number of nodes
with a smaller one), which keeps them in 0..N. A chain is thus no longer than N and
`Reach[N]` contains every replica under transfer. The host takes no part: a write-back reads a
valid replica (`ReadsBackValid`), so that nothing is forwarded to the host and its transfer has
the callback of the caller (`HostAnswered`). `ListsApart` is the finer half of the type
invariant: a tile is in one list of a device at most, and once.

**Mail box.** The counter holds `Big` for each device of a set that contains all
engaged devices, and in the first call no other (`Balance`); since what devices have started
and not added yet is less than `Big`, and such a device is engaged, a counter at zero means
that nothing is left anywhere. `HostCoherent` holds in every call although a later one may
lose its request to a late write of the mail box (finding 3): a device at such a write has
run no task since it answered and has nothing to write back (`Late`), and the contribution
that nobody withdraws keeps the counter above zero.

**Recursive definitions.** The induction theorems of the library take an operator as parameter
and cannot be used with the provers at hand. Where a recursive function has to be reasoned about
(`HashMap!Walk`, the walk of the heap, `WorkBuffer!FreeAt`, `TaskStack!After`,
`Dsm!Reach`) the proof takes the least argument at which the claim fails, from the well-foundedness of the naturals.

Only model-checked: liveness (`TasksEnd`, `EveryCallback`, `WaitsReturn`, `SyncReturns`, `LonePushCompletes`, `ServicesProgress`:
fairness and ENABLED are out of the prover's reach); `AutoMapUsesAllGpus`, a statement about the
block-cyclic arithmetic of the GPU grid; `ResultRight`,
`NoSelfWait`, `RaceFree` and `ArgumentsSound`, statements about what the recursive functions of
`BlasKernels` and `TileAlgorithms` compute from the sizes of a call; traces and the front-end, whose invariants TLC checks on their instances.

## 6. Findings

The first six are violations that runs show.

1. `ztask_syrk.c:98`: with beta = 0 the diagonal tile of C is declared as overwritten, but
   the kernel writes one triangle; the other triangle of the program's matrix receives
   what the device memory held (`ztask_syr2k.c:107` does the same).
2. `kaapi_offload_device.c:876`: the device thread tests its sleep condition without the lock and
   not again under it. A MEMSYNC request posted in between finds it awake and wakes nobody;
   the device sleeps with the request in its mail box and `xkblas_memory_syncall` never returns.
   No task is involved.
3. `kaapi_offload_device.c:1059` overwrites `request.op` after the reply: the next request
   is lost, or the mail box stays occupied for ever.
4. `kaapi_ld.c:394`: one flag for all waiting pushers; the second one is never signalled
   (the array, of 16384 tasks, must be full; the run uses a small one).
5. `kaapi_memory.c:2582`: the comment at 2573 says the source of a copy is pinned; nothing pins it,
   and another device's eviction takes its block while the copy is under way.
6. `zher2k.c:299`: the upper, not transposed case passes LDA as leading dimension of B.

The others were met while modelling. The models have the behaviour, except where a
source line alone is named, and TLC finds the property in brackets violated in them; the
properties the passing runs check are stated for the behaviours in which it has not happened.

7. `zgemm.c:298` and the like: with K = 0 no task is made and C is not multiplied by beta
   (`TileRuns!ResultHolds` with `Calls <- MCNoInner`).
8. `kaapi_ld.c:439`: owner pushes take `H` below 0 and `H % size` with it; the cell is then in front
   of the array, where `kaapi_impl.h:491` says it is an entry of it (`FifoQueue!EntriesInArray`).
9. `kaapi_task.c:140`: the second growth of a priority copies from its first array, and beyond its end
   (`TheQueue!TakenOnce`, `TheQueue!NoTaskLost` once `regrown`).
10. `kaapi_task.c:140`: the copy is made without the lock, so the mark of a thief that has executed
    its task can go to the old array; the owner then looks for it for ever
    (`TheQueue!MarkedIsCleared`).
11. `kaapi_plugin_cuda.c:2140`: the test of a registration says that a request still being performed
    is over (`answer.call = "test" /\ answer.result = 0 => answer.done` of `HostRegister`).
12. `kaapi_plugin_cuda.c:2160`: a wait sleeps once and does not look again; a second waiter returns
    at once and keeps the lock, on which the daemon blocks (`WaitMeansPerformed` without its premise).
13. `kaapi_offload_stream.c:704`: the pending ring is written without a test of its capacity,
    which `kaapi_offload_stream.h:132` promises (`IoStream!RingsKeepInstructions` after `overrun`).
14. `kaapi_offload_stream.c:593`: the loop of a push may end without the mutex, which the commit
    unlocks all the same (`LeaveUnlocked`).
15. `kaapi_offload_stream.c:586`: a device thread that pushes to its own full ring waits for
    itself (`SelfBlocked`).
16. `kaapi_memory.c:1281`: a tile modified on one device and read on another is in one `rw` list;
    when that device evicts it, `xkblas_memory_syncall` does not find it (`DirtyIsInRw` without
    its condition on mishaps).
17. `kaapi_memory.c:2200`: a device whose memory holds only pinned tiles and tiles valid nowhere else
    looks for room for ever (`TasksEnd` without its condition, `Starved`).

## 7. Outside the bounds and the models

What was seen in the code while modelling, is in no run and is no finding, and what the models simplify.

- Data flow: `KAAPI_TASK_FLAG_EXEC` is written after the increment of `exec_count` that lets
  `xkblas_sync` recycle the descriptor (`kaapi_offload_device.c:214`); it may mark a new task.
  `SyncQuiescent` allows this one late access and shows that there is no other. The comment at
  `kaapi_task.c:1310` says a new synchronisation point counts 1 where 0 is written;
  `CountersExact` needs 0.
- Pipeline and queue: `cnt_pending` is not the number `kaapi_offload.h:195` says
  (`kaapi_offload_device.c:643`). A device thread can wait for room in its own full queue
  (`kaapi_ld.c:434`), which `LonePushCompletes` leaves out. The memory in front of the array of the
  queue is assumed to be nobody's; what an overwritten neighbour does is not modelled.
- Shared memory: after a mishap (section 2) the models go on, and their properties claim nothing.
- Tiles: a descriptor kept with another tile size is used as it is (`zgemm.c:214`); her2k with the
  same matrix twice waits for itself.
- Registration: finalize's signal may be missed (`kaapi_plugin_cuda.c:2041`).
- Team barrier: `MayExit` is the test and the sleep in one step; a futex compares and sleeps
  atomically, and the code tests again when it returns (`kaapi_barrier.c:265`).
- Device life: the host driver is not awaited by `kaapi_offload_start` (the run takes
  `HostFirst = TRUE`, `LifeSoundHolds` covers both), and `LifeSound` exempts the host from the claim
  that it has the first domain (`kaapi_ld.c:50`); a cell of the table of domains nobody has
  written (`kaapi_ld.c:160`) is modelled as absent, and TLC would report an evaluation that reads it;
  the array of devices is reallocated while threads use it (`kaapi_offload.c:261`); the wake-up of a
  stop may be lost (`kaapi_offload_device.c:1473`), which is not in the model, so that
  `ServicesProgress` says nothing of it; `device->ld` is used after its release (1298).
- Front-end: parameters set after the context exists have no effect (`xkblas.c:310`);
  `xkblas_memory_free` frees the metadata of all clients (1915); invalidating caches with
  unsynchronised tasks empties `list_sync0` (1904); a second thread's `xkblas_init` returns
  before the first one has finished (1462).
- Queue and stack: what a second growth reads beyond the first array is any task or none; the
  test of the bloc size ignores the header (`kaapi_task.c:759`); the slow path advances `sp` twice
  (`kaapi.h:1211`).
- Heap, map, buffer: `kaapi_memory.c:531` keeps the last chunk that fits, not the smallest;
  `kaapi_hashmap_clear` leaks blocs it has used again (`kaapi_hashmap.c:97`); a work buffer
  whose size is no multiple of 8 makes a request for all of it wait for ever.
- Traces: the fence that a signal handler calls runs beside the collector
  (`kaapi_trace_recorder.c:299`).

## 8. Not modelled

- Vendor calls of the plugins (discovery, allocation, copies, cuBLAS, rocBLAS): external
  libraries; their order and completion are in `IoStream`.
- `zpotrf`, `zgetrf_*` (not compiled or not ported), `zcopyscale`, `zswap`.
- BLAS wrappers (symbol interposition), tables of formats, environment variables, hwloc,
  performance counters, the output formats of the trace tools.
- Affinity scores and stealing between devices (`KAAPI_WS_GPUTASK`, 0 by default), except for
  the effect of a steal on the queue; prefetching and reordering of kernels, compiled out.
- INVALIDATE_CACHES through the mail box, several clients on one mail box, several client
  threads on the free list of blocs.

## 9. Plan

1. Proofs: `FrontEnd`, `TraceRecorder`, each by an invariant of its own like the other components of the two compositions.
2. INVALIDATE_CACHES and several clients in `MemSync`; the reuse of descriptors with other
   tile sizes in `TileRuns`.
3. Affinity scores in `DeviceLife`, and a composition of the sleep protocol with `FifoQueue`.
