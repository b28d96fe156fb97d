----------------------------- MODULE Structures -----------------------------
(***************************************************************************)
(* The data structures and the front-end: the heap of a device, the hash   *)
(* map of the tiles, the shared work buffer, the queue of a worker, the    *)
(* stack of task descriptors and the handles a client's calls keep.  As in *)
(* Services, comp is the one component that moves.                         *)
(***************************************************************************)
EXTENDS Sequences, TheQueue

CONSTANTS
    HeapTotal, HeapSizes, HeapIds,                        \* ChunkHeap
    MapKeys, MapHash, MapBlocSize, MapMaxBlocs,           \* HashMap
    WorkClients, WorkTotal, WorkAlign, WorkElement, WorkRequests,  \* WorkBuffer
    StackCap, StackHeader, StackBaseSize, StackFrameSize, \* TaskStack
    StackSizes, StackMaxBlocs,
    FrontClients, FrontDim, FrontNbParams, FrontSysGpus,  \* FrontEnd
    FrontGpuCounts, FrontMaxArrays, FrontMaxCalls,
    BlasCalls, MapCalls   \* the BLAS calls and the mappings that clients ask for

\* The heap has a descriptor for each unit of memory: malloc does not fail.  The
\* work buffer and its parts are multiples of the alignment.  A descriptor fits in
\* a bloc of the stack with the header of the bloc.
ASSUME StructuresAssumption ==
    /\ HeapTotal \in Nat \ {0} /\ HeapSizes \subseteq Nat \ {0}
    /\ IsFiniteSet(HeapIds) /\ HeapIds \subseteq Nat \ {0} /\ 1 \in HeapIds
    /\ HeapTotal <= Cardinality(HeapIds)
    /\ IsFiniteSet(MapKeys) /\ 0 \notin MapKeys
    /\ MapBlocSize \in Nat \ {0} /\ MapMaxBlocs \in Nat
    /\ WorkTotal \in Nat \ {0} /\ WorkAlign \in Nat \ {0} /\ WorkElement \in Nat \ {0}
    /\ WorkTotal % WorkAlign = 0 /\ WorkElement % WorkAlign = 0
    /\ WorkRequests \subseteq Nat \ {0}
    /\ 0 \in Prios /\ Free \notin Thieves /\ Size0 \in Nat \ {0} /\ MaxTasks \in Nat
    /\ StackCap \in Nat /\ StackHeader \in Nat /\ StackMaxBlocs \in Nat
    /\ StackBaseSize \in Nat /\ StackFrameSize \in Nat
    /\ StackSizes \subseteq Nat /\ \A n \in StackSizes : StackHeader + n <= StackCap

VARIABLES
    comp,
    \* ChunkHeap
    chunk, live, free_chunk_list, main_chunk, asked,
    \* HashMap
    entries, key, chain, pos, currentbloc, freebloc, allallocatedbloc, inserted,
    \* WorkBuffer
    seg, free_segment_list, first_segment, total_size, client, buffer_owner,
    \* TaskStack
    malloced, next, head, bloc0, bloc, sp, frames, phase, tasks,
    \* FrontEnd
    init_count, NB, list_context, ctx, access, copies, calls

Heap == INSTANCE ChunkHeap WITH Total <- HeapTotal, Sizes <- HeapSizes, Ids <- HeapIds
Map == INSTANCE HashMap WITH Keys <- MapKeys, Hash <- MapHash,
            BlocSize <- MapBlocSize, MaxBlocs <- MapMaxBlocs
Work == INSTANCE WorkBuffer WITH Clients <- WorkClients, Total <- WorkTotal,
            Align <- WorkAlign, Element <- WorkElement, Requests <- WorkRequests,
            owner <- buffer_owner
Stack == INSTANCE TaskStack WITH Cap <- StackCap, Header <- StackHeader,
            BaseSize <- StackBaseSize, FrameSize <- StackFrameSize, Sizes <- StackSizes,
            MaxBlocs <- StackMaxBlocs
Front == INSTANCE FrontEnd WITH
    Clients <- FrontClients, Dim <- FrontDim,
    NbParams <- FrontNbParams, SysGpus <- FrontSysGpus, GpuCounts <- FrontGpuCounts,
    MaxArrays <- FrontMaxArrays, MaxCalls <- FrontMaxCalls

heapVars == <<chunk, live, free_chunk_list, main_chunk, asked>>
mapVars == <<entries, key, chain, pos, currentbloc, freebloc, allallocatedbloc, inserted>>
workVars == <<seg, free_segment_list, first_segment, total_size, client, buffer_owner>>
queueVars == vars
stackVars == <<malloced, next, head, bloc0, bloc, sp, frames, phase, tasks>>
frontVars == <<init_count, NB, list_context, ctx, access, copies, calls>>

\* Component c moves, the others do not.
Only(c) ==
    /\ comp = c /\ UNCHANGED comp
    /\ IF c = "heap" THEN TRUE ELSE UNCHANGED heapVars
    /\ IF c = "map" THEN TRUE ELSE UNCHANGED mapVars
    /\ IF c = "work" THEN TRUE ELSE UNCHANGED workVars
    /\ IF c = "queue" THEN TRUE ELSE UNCHANGED queueVars
    /\ IF c = "stack" THEN TRUE ELSE UNCHANGED stackVars
    /\ IF c = "front" THEN TRUE ELSE UNCHANGED frontVars

StructuresInit ==
    /\ comp \in {"heap", "map", "work", "queue", "stack", "front"}
    /\ Heap!Init /\ Map!Init /\ Work!Init /\ Init /\ Stack!Init /\ Front!Init

HeapNext ==
    \/ Only("heap") /\ Heap!MainChunk
    \/ \E n \in HeapSizes : Only("heap") /\ Heap!Alloc(n)
    \/ \E c \in HeapIds : Only("heap") /\ Heap!Free(c)

MapNext ==
    \/ \E k \in MapKeys : Only("map") /\ Map!FindInsert(k)
    \/ Only("map") /\ Map!Clear

WorkNext ==
    \/ Only("work") /\ Work!Register
    \/ Only("work") /\ Work!TakePart
    \/ Only("work") /\ Work!ClearPart
    \/ Only("work") /\ Work!Unregister
    \/ \E c \in WorkClients :
          \/ Only("work") /\ Work!Get(c)
          \/ Only("work") /\ Work!Free(c)

QueueNext ==
    \/ Only("queue") /\ BeginPush
    \/ Only("queue") /\ Swap
    \/ Only("queue") /\ WriteTask
    \/ Only("queue") /\ Publish
    \/ Only("queue") /\ BeginPop
    \/ Only("queue") /\ Check
    \/ Only("queue") /\ RollBack
    \/ Only("queue") /\ LockedPop
    \/ Only("queue") /\ ClearBit
    \/ \E i \in Thieves :
          \/ Only("queue") /\ BeginSteal(i)
          \/ Only("queue") /\ Claim(i)
          \/ Only("queue") /\ Look(i)
          \/ Only("queue") /\ Undo(i)
          \/ Only("queue") /\ LoadArray(i)
          \/ Only("queue") /\ MarkExecuted(i)

StackNext ==
    \/ Only("stack") /\ Stack!Bind
    \/ Only("stack") /\ Stack!BeginDfg
    \/ Only("stack") /\ Stack!SyncPop
    \/ Only("stack") /\ Stack!EndDfg
    \/ Only("stack") /\ Stack!Unbind
    \/ \E n \in StackSizes : Only("stack") /\ Stack!AllocTask(n)

FrontNext ==
    \E c \in FrontClients :
        \/ Only("front") /\ Front!XkInit(c)
        \/ Only("front") /\ Front!Finalize(c)
        \/ \E nb \in FrontNbParams : Only("front") /\ Front!SetParam(c, nb)
        \/ \E n \in FrontGpuCounts : Only("front") /\ Front!SetNgpus(c, n)
        \/ \E call \in BlasCalls : Only("front") /\ Front!Blas(c, call)
        \/ \E m \in DOMAIN FrontDim, call \in MapCalls : Only("front") /\ Front!Map(c, m, call)
        \/ \E m \in DOMAIN FrontDim, nb \in FrontNbParams \ {0},
              call \in {x \in MapCalls : ~x.force} :
              Only("front") /\ Front!Distribute(c, m, nb, call)
        \/ \E m \in DOMAIN FrontDim, uplo \in {"all", "upper", "lower"}, strict \in BOOLEAN :
              Only("front") /\ Front!Coherent(c, m, uplo, strict)
        \/ Only("front") /\ Front!SyncBegin(c)
        \/ Only("front") /\ Front!Execute(c)
        \/ Only("front") /\ Front!SyncEnd(c)
        \/ Only("front") /\ Front!InvalidateCaches(c)
        \/ Only("front") /\ Front!MemoryFree(c)

StructuresNext == HeapNext \/ MapNext \/ WorkNext \/ QueueNext \/ StackNext \/ FrontNext

structuresVars ==
    <<comp, heapVars, mapVars, workVars, queueVars, stackVars, frontVars>>

StructuresSpec == StructuresInit /\ [][StructuresNext]_structuresVars

-----------------------------------------------------------------------------
(* What each component promises, beside QueueSound of TheQueue.             *)

\* ChunkHeap: the chunks cut the memory of the device into linked intervals, the
\* list of free chunks is exact and in the order of addresses, and no two
\* neighbours are free (kaapi_memory_heap_alloc, _free).
HeapSound == Heap!ChunksPartition /\ Heap!FreeListExact /\ Heap!Coalesced

\* HashMap: the map finds exactly what was inserted since it was cleared,
\* although it uses its blocs again, and kaapi_hashmap_clear meets the free bloc
\* it asserts (kaapi_hashmap_findinsert).
MapSound == Map!FindsInserted /\ Map!ClearFindsNoFreeBloc

\* WorkBuffer: the segments cut the buffer and no two clients share one, the
\* coherency_check of the source never stops the program, and a request waits
\* only while nothing is large enough for it (xkblas_get_work_pos, _free_work_pos).
WorkSound == Work!SegmentsPartition /\ Work!CoherencyHolds /\ Work!WaiterHasNoRoom

\* TaskStack: live descriptors do not overlap across blocs that were given back
\* and taken again, and no bloc is lost (kaapi_task_alloc, kaapi_stack_pop).
StackSound == Stack!TasksDisjoint /\ Stack!BlocsAccounted

\* FrontEnd: list_sync0 holds every handle of the context once, no handle keeps
\* the last access of a task that is over, the handles know the metadata of every
\* tile with a copy, and the list of contexts names each client that has one, once
\* (xkblas_sync, xkblas_memory_invalidate_caches, xkblas_finalize).
FrontSound ==
    Front!SyncListExact /\ Front!NoStaleLast /\ Front!MetadataKnown /\ Front!ContextsListed

\* FrontEnd: the automatic mapping uses all the GPUs.
AutoMapUsesAllGpus == Front!AutoMapUsesAllGpus
=============================================================================
