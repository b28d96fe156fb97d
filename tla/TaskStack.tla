----------------------------- MODULE TaskStack -----------------------------
(***************************************************************************)
(* The stack of a thread, where task descriptors and frames are allocated  *)
(* (kaapi/kaapi_task.c and the inline functions of kaapi.h).               *)
(*                                                                         *)
(* The stack is a list of blocs (bloc0 the first, bloc the current one);   *)
(* blocs given back are kept in the free list of the allocator.  sp is a   *)
(* bloc and an offset in it.  A dfg frame saves sp; popping the frame      *)
(* above it puts sp back, which discards every descriptor allocated since. *)
(***************************************************************************)
EXTENDS Integers, Sequences, FiniteSets

CONSTANTS
    Cap,       \* KAAPI_STACKBLOCSIZE
    Header,    \* the fields of kaapi_stack_bloc_t before its data
    BaseSize,  \* what kaapi_thread_bind leaves on the stack
    FrameSize, \* sizeof(kaapi_frame_t)
    Sizes,     \* sizes of the task descriptors
    MaxBlocs   \* bound: blocs allocated by posix_memalign

None == 0
Blocs == 1..MaxBlocs

VARIABLES
    malloced,  \* blocs allocated and not freed
    next,      \* bloc -> bloc->next
    head,      \* the free list of the allocator
    bloc0, bloc,
    sp,        \* [bloc, off]
    frames,    \* the frames, outermost first: [sp, save_bloc_sp]
    phase,     \* progress of the client
    tasks      \* live descriptors: [bloc, first, size]

vars == <<malloced, next, head, bloc0, bloc, sp, frames, phase, tasks>>

Init ==
    /\ malloced = {} /\ next = [b \in Blocs |-> None]
    /\ head = None /\ bloc0 = None /\ bloc = None
    /\ sp = [bloc |-> None, off |-> 0]
    /\ frames = <<>>
    /\ phase = "unbound"
    /\ tasks = {}

Front(s) == SubSeq(s, 1, Len(s) - 1)
Top(s) == s[Len(s)]

-----------------------------------------------------------------------------
(* Allocation.                                                             *)

\* _kaapi_has_enough_dataspace: sp + size is in the bloc of sp.
Enough(size) == sp.off + size < Cap

\* kaapi_stackallocator_alloc: a bloc of the free list, else a new one.
CanAlloc == head # None \/ malloced # Blocs
NewBloc == IF head # None THEN head ELSE CHOOSE b \in Blocs \ malloced : TRUE

\* The allocator without NewBloc, that comes after b in the stack.
TakeBloc(b) ==
    /\ head' = IF head # None THEN next[head] ELSE None
    /\ malloced' = malloced \cup {NewBloc}
    /\ next' = [c \in Blocs |-> IF c = NewBloc THEN None ELSE IF c = b THEN NewBloc ELSE next[c]]
    /\ bloc' = NewBloc

\* size units for the caller, at sp or in a new bloc (_kaapi_resize_stack);
\* again: what the caller adds to sp in the second case.
Push(size, again) ==
    IF Enough(size)
    THEN /\ sp' = [sp EXCEPT !.off = @ + size]
         /\ UNCHANGED <<malloced, next, head, bloc>>
    ELSE /\ CanAlloc
         /\ TakeBloc(bloc)
         /\ sp' = [bloc |-> NewBloc, off |-> Header + size + again]

\* Where Push puts the data.
At(size) == IF Enough(size) THEN sp ELSE [bloc |-> NewBloc, off |-> Header]

\* kaapi_thread_bind: the bloc, the queue, the two frames and the main task.
Bind ==
    /\ phase = "unbound" /\ CanAlloc
    /\ TakeBloc(None)
    /\ bloc0' = NewBloc
    /\ sp' = [bloc |-> NewBloc, off |-> Header + BaseSize]
    /\ frames' = <<[sp |-> [bloc |-> NewBloc, off |-> Header + BaseSize],
                    save_bloc_sp |-> NewBloc]>>
    /\ phase' = "closed"
    /\ UNCHANGED tasks

\* kaapi_begin_dfg: the frame is data of the stack; the bloc is read before.
BeginDfg ==
    /\ phase = "closed"
    /\ Push(FrameSize, 0)
    /\ frames' = Append(frames, [sp |-> sp', save_bloc_sp |-> bloc])
    /\ phase' = "open"
    /\ UNCHANGED <<bloc0, tasks>>

\* kaapi_task_alloc: the slow path has moved sp already and it moves again.
AllocTask(size) ==
    /\ phase = "open"
    /\ Push(size, size)
    /\ tasks' = tasks \cup {[bloc |-> At(size).bloc, first |-> At(size).off, size |-> size]}
    /\ UNCHANGED <<bloc0, frames, phase>>

-----------------------------------------------------------------------------
(* Frames are popped when their tasks have been executed.                  *)

\* The blocs after b in the list that starts with it, in order.
After(b) ==
    LET at[n \in 0..MaxBlocs] ==
            IF n = 0 THEN b ELSE IF at[n - 1] = None THEN None ELSE next[at[n - 1]]
        n == Cardinality({k \in 1..MaxBlocs : at[k] # None})
    IN  [k \in 1..n |-> at[k]]

\* kaapi_stackallocator_dealloc of each bloc of list, in order.
Dealloc(list) ==
    /\ head' = IF list = <<>> THEN head ELSE Top(list)
    /\ next' = [c \in Blocs |->
        IF \E k \in DOMAIN list : list[k] = c
        THEN LET k == CHOOSE k \in DOMAIN list : list[k] = c
             IN  IF k = 1 THEN head ELSE list[k - 1]
        ELSE IF list # <<>> /\ next[c] = list[1] THEN None ELSE next[c]]

\* Defect: the current bloc stays one of those given back.
FreeUntilKeeps(p) ==
    IF p.bloc = bloc THEN UNCHANGED <<next, head, bloc>>
    ELSE Dealloc(After(p.bloc)) /\ UNCHANGED bloc

\* _kaapi_stack_free_until
FreeUntil(p) ==
    IF p.bloc = bloc THEN UNCHANGED <<next, head, bloc>>
    ELSE Dealloc(After(p.bloc)) /\ bloc' = p.bloc

\* kaapi_frame_pop: f is the frame below the one popped.
FramePop(f) ==
    /\ sp' = f.sp
    /\ IF f.save_bloc_sp # bloc THEN FreeUntil(f.sp) ELSE UNCHANGED <<next, head, bloc>>

\* The end of the synchronisation in kaapi_end_dfg: the automatic frame above
\* the frame of the tasks is popped.
SyncPop ==
    /\ phase = "open"
    /\ FramePop(Top(frames))
    /\ tasks' = {}
    /\ phase' = "synced"
    /\ UNCHANGED <<malloced, bloc0, frames>>

\* kaapi_end_dfg pops the frame of begin_dfg.
EndDfg ==
    /\ phase = "synced"
    /\ frames' = Front(frames)
    /\ FramePop(Top(frames'))
    /\ phase' = "closed"
    /\ UNCHANGED <<malloced, bloc0, tasks>>

\* kaapi_thread_unbind: kaapi_stack_destroy frees the blocs of the stack and
\* of the allocator.
Unbind ==
    /\ phase = "closed"
    /\ malloced' = malloced \ ({bloc0} \cup {After(bloc0)[k] : k \in DOMAIN After(bloc0)}
                      \cup {head} \cup {After(head)[k] : k \in DOMAIN After(head)})
    /\ next' = [b \in Blocs |-> None]
    /\ head' = None /\ bloc0' = None /\ bloc' = None
    /\ sp' = [bloc |-> None, off |-> 0]
    /\ frames' = <<>>
    /\ phase' = "unbound"
    /\ UNCHANGED tasks

Next ==
    \/ Bind \/ BeginDfg \/ SyncPop \/ EndDfg \/ Unbind
    \/ \E size \in Sizes : AllocTask(size)

Spec == Init /\ [][Next]_vars

-----------------------------------------------------------------------------
(* Properties.                                                             *)

\* Descriptors of tasks not yet synchronised lie inside a bloc of the stack,
\* after its header, and do not overlap, across blocs that were given back and
\* taken again.
TasksDisjoint ==
    \A t \in tasks :
        /\ t.first >= Header /\ t.first + t.size <= Cap
        /\ t.bloc = bloc0 \/ \E k \in DOMAIN After(bloc0) : After(bloc0)[k] = t.bloc
        /\ \A u \in tasks : u.bloc = t.bloc /\ u # t =>
            u.first + u.size <= t.first \/ t.first + t.size <= u.first

Listed(b) == IF b = None THEN {} ELSE {b} \cup {After(b)[k] : k \in DOMAIN After(b)}

\* Each bloc is once in the stack or in the free list of the allocator, none
\* is lost; the current bloc is the last of the stack and sp points into it.
BlocsAccounted ==
    /\ malloced = Listed(bloc0) \cup Listed(head)
    /\ Listed(bloc0) \cap Listed(head) = {}
    /\ bloc # None => next[bloc] = None /\ bloc \in Listed(bloc0)
    /\ sp.bloc = bloc

=============================================================================
