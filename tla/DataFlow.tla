------------------------------ MODULE DataFlow ------------------------------
(***************************************************************************)
(* The data-flow engine of XKaapi as the XKBLAS front-end drives it        *)
(* (kaapi/kaapi_task.c, kaapi/kaapi.h, blas/xkblas.c).                     *)
(*                                                                         *)
(* The main thread builds a task graph: every task declares accesses to    *)
(* data handles (the tiles of a matrix).  The accesses of a handle are cut *)
(* into generations of pairwise concurrent accesses.  Between generations  *)
(* g-1 and g stands a synchronisation point whose counter (its wc field)   *)
(* holds the number of accesses of generation g-1 not yet completed; when  *)
(* it falls to zero the accesses of generation g are made ready one after  *)
(* the other, and a task whose last access becomes ready is pushed.        *)
(* Synchronisation point 0 is the sync0 of the handle: xkblas_sync signals *)
(* it, which starts the execution.  Device threads execute the tasks and,  *)
(* in the epilogue of each, signal the successors.  xkblas_sync waits      *)
(* until the two counters of the frame (spawn_count, exec_count) agree and *)
(* then recycles the memory of all tasks and accesses.                     *)
(***************************************************************************)
EXTENDS Naturals, Sequences, FiniteSets

CONSTANTS
    Tasks,        \* task descriptors of the stack of the main thread
    Handles,      \* data handles, one per tile
    Devices,      \* device threads
    Main,         \* the thread that builds the graph and calls xkblas_sync
    NoTask,       \* the null task pointer
    Modes,        \* access modes used by the tasks
    MaxAccesses,  \* bound: accesses declared between two xkblas_sync
    MaxRounds     \* bound: calls to xkblas_sync

ASSUME DataFlowAssumption ==
    /\ IsFiniteSet(Tasks) /\ IsFiniteSet(Devices)
    /\ Main \notin Devices
    /\ NoTask \notin Tasks
    /\ Modes \subseteq {"R", "W", "RW", "CW"}
    /\ MaxAccesses \in Nat
    /\ MaxRounds \in Nat

VARIABLES
    phase,     \* program point of the main thread
    cur,       \* task under construction
    kind,      \* "kernel" or "writeback" (xkblas_create_taskwriteback)
    tstate,    \* life cycle of a task descriptor
    dev,       \* device that popped the task
    wc,        \* task->wc: accesses not ready, plus one until the commit
    acc,       \* the accesses, in program order
    ready,     \* accesses with a->ready = 1
    sig,       \* accesses whose sync point was signalled by an epilogue
    swc,       \* swc[h][g]: wc of the g-th synchronisation point of h
    nsync,     \* nsync[h]: number of the current h->sync, 0 when null
    lastmode,  \* h->last->mode
    pend,      \* handles that xkblas_sync has still to activate
    walk,      \* walk[th]: rest of the list th traverses in activate_syncpoint
    epi,       \* task whose epilogue the device thread executes
    late,      \* task whose flags word the epilogue has still to write
    flagged,   \* tasks with KAAPI_TASK_FLAG_EXEC
    cnt,       \* thread->cnt
    spawn,     \* frame->spawn_count
    exec,      \* frame->exec_count
    flight,    \* write-back tasks whose transfer to the host is pending
    round      \* number of xkblas_sync done (bounded)

graphVars  == <<acc, nsync, lastmode>>
syncVars   == <<ready, sig, swc, walk>>
deviceVars == <<dev, epi, late>>
vars == <<phase, cur, kind, tstate, wc, graphVars, syncVars, pend,
          deviceVars, flagged, cnt, spawn, exec, flight, round>>

Threads == Devices \cup {Main}
Index   == 1..MaxAccesses
Access  == [task : Tasks, h : Handles, mode : Modes, gen : Index]

TaskState == {"free", "alloc", "waiting", "ready", "popped", "launched",
              "epilogue", "done"}
Started  == {"popped", "launched", "epilogue", "done"}
Finished == {"epilogue", "done"}

\* Two modes are concurrent; the mode of sync0 contains the bit P and so is
\* concurrent with every mode.
Concurrent(m1, m2) ==
    \/ m1 = m2 /\ m1 \in {"R", "CW"}
    \/ "SYNC" \in {m1, m2}

\* The accesses of task t / of generation g of handle h.
AccessesOf(t) == {i \in DOMAIN acc : acc[i].task = t}
Generation(h, g) == {i \in DOMAIN acc : acc[i].h = h /\ acc[i].gen = g}

Init ==
    /\ phase = "build" /\ cur = NoTask
    /\ kind = [t \in Tasks |-> "kernel"]
    /\ tstate = [t \in Tasks |-> "free"]
    /\ wc = [t \in Tasks |-> 0]
    /\ acc = <<>> /\ ready = {} /\ sig = {}
    /\ swc = [h \in Handles |-> [g \in 0..MaxAccesses |-> IF g = 0 THEN 1 ELSE 0]]
    /\ nsync = [h \in Handles |-> 0]
    /\ lastmode = [h \in Handles |-> "SYNC"]
    /\ pend = {}
    /\ walk = [th \in Threads |-> {}]
    /\ dev = [t \in Tasks |-> Main]
    /\ epi = [d \in Devices |-> NoTask]
    /\ late = [d \in Devices |-> NoTask]
    /\ flagged = {}
    /\ cnt = 0 /\ spawn = 0 /\ exec = 0
    /\ flight = {}
    /\ round = 0

-----------------------------------------------------------------------------
(* Construction of the graph, by the main thread.                          *)

\* kaapi_task_alloc + kaapi_task_init.
AllocTask(t, k) ==
    /\ phase = "build" /\ cur = NoTask /\ tstate[t] = "free"
    /\ round < MaxRounds
    /\ k = "writeback" => Len(acc) < MaxAccesses
    /\ cur' = t
    /\ kind' = [kind EXCEPT ![t] = k]
    /\ tstate' = [tstate EXCEPT ![t] = "alloc"]
    /\ wc' = [wc EXCEPT ![t] = 1]
    /\ flagged' = flagged \ {t}
    /\ UNCHANGED <<phase, graphVars, syncVars, pend, deviceVars, cnt, spawn,
                   exec, flight, round>>

\* What the callers guarantee: a write-back task declares one access, in mode
\* R, and no task declares two conflicting accesses to the same tile.
CallerMayAccess(h, m) ==
    /\ kind[cur] = "writeback" => m = "R" /\ AccessesOf(cur) = {}
    /\ \A i \in AccessesOf(cur) : acc[i].h = h => Concurrent(m, acc[i].mode)

\* Defect: a reader joins the generation of the writer before it.
ReaderJoinsWriter(h, m) ==
    IF nsync[h] = 0 \/ m # "R" THEN nsync[h] + 1 ELSE nsync[h]

\* A new synchronisation point is allocated for the first access and whenever
\* the access is not concurrent with the last one.
NextGeneration(h, m) ==
    IF nsync[h] = 0 \/ ~Concurrent(m, lastmode[h]) THEN nsync[h] + 1
                                                   ELSE nsync[h]

UpdateDependencies(h, m) ==
    LET g == NextGeneration(h, m)
    IN  /\ phase = "build" /\ cur # NoTask
        /\ Len(acc) < MaxAccesses
        /\ CallerMayAccess(h, m)
        /\ acc' = Append(acc, [task |-> cur, h |-> h, mode |-> m, gen |-> g])
        /\ nsync' = [nsync EXCEPT ![h] = g]
        /\ lastmode' = [lastmode EXCEPT ![h] = m]
        /\ swc' = [swc EXCEPT ![h][g] = @ + 1]
        /\ wc' = [wc EXCEPT ![cur] = @ + 1]
        /\ UNCHANGED <<phase, cur, kind, tstate, ready, sig, walk, pend,
                       deviceVars, flagged, cnt, spawn, exec, flight, round>>

\* Defect: the arrival of a write-back is not counted as spawned.
CommitUncounted ==
    /\ cur # NoTask
    /\ kind[cur] = "writeback" => AccessesOf(cur) # {}
    /\ cnt' = cnt + 1
    /\ wc' = [wc EXCEPT ![cur] = @ - 1]
    /\ tstate' = [tstate EXCEPT ![cur] = IF wc'[cur] = 0 THEN "ready" ELSE "waiting"]
    /\ cur' = NoTask
    /\ UNCHANGED <<phase, kind, graphVars, syncVars, pend, deviceVars, flagged,
                   spawn, exec, flight, round>>

\* kaapi_task_commit; a write-back task counts twice in the frame, for its
\* own execution and for the arrival of the data on the host.
Commit ==
    /\ cur # NoTask
    /\ kind[cur] = "writeback" => AccessesOf(cur) # {}
    /\ spawn' = IF kind[cur] = "writeback" THEN spawn + 1 ELSE spawn
    /\ cnt' = cnt + 1
    /\ wc' = [wc EXCEPT ![cur] = @ - 1]
    /\ tstate' = [tstate EXCEPT ![cur] = IF wc'[cur] = 0 THEN "ready" ELSE "waiting"]
    /\ cur' = NoTask
    /\ UNCHANGED <<phase, kind, graphVars, syncVars, pend, deviceVars, flagged,
                   exec, flight, round>>

-----------------------------------------------------------------------------
(* xkblas_sync, by the main thread.                                        *)

\* Defect: a handle used by one generation of tasks only is not activated.
BeginSyncSkips ==
    /\ phase = "build" /\ cur = NoTask /\ round < MaxRounds
    /\ phase' = "activate"
    /\ pend' = {h \in Handles : nsync[h] > 1}
    /\ UNCHANGED <<cur, kind, tstate, wc, graphVars, syncVars, deviceVars,
                   flagged, cnt, spawn, exec, flight, round>>

BeginSync ==
    /\ phase = "build" /\ cur = NoTask /\ round < MaxRounds
    /\ phase' = "activate"
    /\ pend' = {h \in Handles : nsync[h] # 0}
    /\ UNCHANGED <<cur, kind, tstate, wc, graphVars, syncVars, deviceVars,
                   flagged, cnt, spawn, exec, flight, round>>

\* Defects: every signal traverses the list, not only the last one; the
\* signal goes to the synchronisation point after the right one.
SignalAlwaysWalks(th, h, g) ==
    /\ swc' = [swc EXCEPT ![h][g] = @ - 1]
    /\ walk' = [walk EXCEPT ![th] = Generation(h, g + 1)]
SignalNextPoint(th, h, g) ==
    /\ swc' = [swc EXCEPT ![h][g + 1] = IF @ > 0 THEN @ - 1 ELSE 0]
    /\ walk' = [walk EXCEPT ![th] = IF swc'[h][g + 1] = 0 THEN Generation(h, g + 1)
                                                          ELSE {}]

\* kaapi_sched_activate_syncpoint up to its loop: thread th signals
\* synchronisation point g of h and, when it is the last one to do so, has
\* the list of the accesses of the next generation to traverse.
SignalSyncPoint(th, h, g) ==
    /\ swc' = [swc EXCEPT ![h][g] = @ - 1]
    /\ walk' = [walk EXCEPT ![th] = IF swc'[h][g] = 0 THEN Generation(h, g + 1)
                                                      ELSE {}]

ActivateHandle(h) ==
    /\ phase = "activate" /\ h \in pend /\ walk[Main] = {}
    /\ pend' = pend \ {h}
    /\ SignalSyncPoint(Main, h, 0)
    /\ UNCHANGED <<phase, cur, kind, tstate, wc, graphVars, ready, sig,
                   deviceVars, flagged, cnt, spawn, exec, flight, round>>

\* kaapi_end_dfg: kaapi_sched_sync publishes the number of spawned tasks and
\* starts to wait; without a task it returns at once.
EndDfg ==
    /\ phase = "activate" /\ pend = {} /\ walk[Main] = {}
    /\ IF cnt = 0 THEN phase' = "build" /\ round' = round + 1
                  ELSE phase' = "wait"  /\ round' = round
    /\ spawn' = spawn + cnt
    /\ cnt' = 0
    /\ UNCHANGED <<cur, kind, tstate, wc, graphVars, syncVars, pend,
                   deviceVars, flagged, exec, flight>>

\* Defect: the frame does not wait for the transfers that are in flight.
CompletedInFlight == spawn <= exec + Cardinality(flight)

\* _kaapi_frame_completed
FrameCompleted == spawn = exec

\* The wait ends: the frame is popped, which frees the tasks and accesses,
\* every handle is initialised again and a new frame is pushed.
SyncReturn ==
    /\ phase = "wait" /\ FrameCompleted
    /\ phase' = "build" /\ round' = round + 1
    /\ tstate' = [t \in Tasks |-> "free"]
    /\ wc' = [t \in Tasks |-> 0]
    /\ kind' = [t \in Tasks |-> "kernel"]
    /\ dev' = [t \in Tasks |-> Main]
    /\ acc' = <<>> /\ ready' = {} /\ sig' = {}
    /\ swc' = [h \in Handles |-> [g \in 0..MaxAccesses |-> IF g = 0 THEN 1 ELSE 0]]
    /\ nsync' = [h \in Handles |-> 0]
    /\ lastmode' = [h \in Handles |-> "SYNC"]
    /\ spawn' = 0 /\ exec' = 0
    /\ UNCHANGED <<cur, pend, walk, epi, late, flagged, cnt, flight>>

-----------------------------------------------------------------------------
(* Execution, by the device threads.                                       *)

\* The loop of kaapi_sched_activate_syncpoint: the next access of the list
\* becomes ready; its task is pushed when it was the last one to wait for.
Notify(th, i) ==
    LET t == acc[i].task
    IN  /\ i \in walk[th] /\ \A j \in walk[th] : i <= j
        /\ walk' = [walk EXCEPT ![th] = @ \ {i}]
        /\ ready' = ready \cup {i}
        /\ wc' = [wc EXCEPT ![t] = @ - 1]
        /\ tstate' = [tstate EXCEPT ![t] = IF wc'[t] = 0 THEN "ready" ELSE @]
        /\ UNCHANGED <<phase, cur, kind, graphVars, sig, swc, pend, deviceVars,
                       flagged, cnt, spawn, exec, flight, round>>

\* The device thread is not inside an epilogue.
Idle(d) == epi[d] = NoTask /\ late[d] = NoTask

\* The device takes a ready task and prepares its data.
Pop(d, t) ==
    /\ Idle(d) /\ tstate[t] = "ready"
    /\ tstate' = [tstate EXCEPT ![t] = "popped"]
    /\ dev' = [dev EXCEPT ![t] = d]
    /\ UNCHANGED <<phase, cur, kind, wc, graphVars, syncVars, pend, epi, late,
                   flagged, cnt, spawn, exec, flight, round>>

\* The body of the task is called.  A write-back finds valid data on the host,
\* and counts its arrival itself, or starts a transfer.
Launch(d, t) ==
    /\ Idle(d) /\ tstate[t] = "popped" /\ dev[t] = d
    /\ tstate' = [tstate EXCEPT ![t] = "launched"]
    /\ \/ kind[t] = "kernel" /\ UNCHANGED <<exec, flight>>
       \/ kind[t] = "writeback" /\ exec' = exec + 1 /\ UNCHANGED flight
       \/ kind[t] = "writeback" /\ flight' = flight \cup {t} /\ UNCHANGED exec
    /\ UNCHANGED <<phase, cur, kind, wc, graphVars, syncVars, pend, deviceVars,
                   flagged, cnt, spawn, round>>

\* callback_epilogue_writeback
WritebackArrived(t) ==
    /\ t \in flight
    /\ flight' = flight \ {t}
    /\ exec' = exec + 1
    /\ UNCHANGED <<phase, cur, kind, tstate, wc, graphVars, syncVars, pend,
                   deviceVars, flagged, cnt, spawn, round>>

\* The completion of the kernel is detected: callback_epilogue starts.
KernelEnd(d, t) ==
    /\ Idle(d) /\ tstate[t] = "launched" /\ dev[t] = d
    /\ tstate' = [tstate EXCEPT ![t] = "epilogue"]
    /\ epi' = [epi EXCEPT ![d] = t]
    /\ UNCHANGED <<phase, cur, kind, wc, graphVars, syncVars, pend, dev, late,
                   flagged, cnt, spawn, exec, flight, round>>

\* One turn of the loop of kaapi_sched_activate_successors: the parameters
\* are taken in order, each after the list of the previous one is traversed.
SignalSuccessors(d, i) ==
    /\ epi[d] # NoTask /\ walk[d] = {}
    /\ i \in AccessesOf(epi[d]) \ sig
    /\ \A j \in AccessesOf(epi[d]) \ sig : i <= j
    /\ sig' = sig \cup {i}
    /\ SignalSyncPoint(d, acc[i].h, acc[i].gen)
    /\ UNCHANGED <<phase, cur, kind, tstate, wc, graphVars, ready, pend,
                   deviceVars, flagged, cnt, spawn, exec, flight, round>>

\* The epilogue counts the execution in the frame of the task ...
FinishEpilogue(d) ==
    /\ epi[d] # NoTask /\ walk[d] = {}
    /\ AccessesOf(epi[d]) \subseteq sig
    /\ exec' = exec + 1
    /\ tstate' = [tstate EXCEPT ![epi[d]] = "done"]
    /\ late' = [late EXCEPT ![d] = epi[d]]
    /\ epi' = [epi EXCEPT ![d] = NoTask]
    /\ UNCHANGED <<phase, cur, kind, wc, graphVars, syncVars, pend, dev,
                   flagged, cnt, spawn, flight, round>>

\* ... and only then marks the task executed.
MarkExec(d) ==
    /\ late[d] # NoTask
    /\ flagged' = flagged \cup {late[d]}
    /\ late' = [late EXCEPT ![d] = NoTask]
    /\ UNCHANGED <<phase, cur, kind, tstate, wc, graphVars, syncVars, pend,
                   dev, epi, cnt, spawn, exec, flight, round>>

-----------------------------------------------------------------------------
Build ==
    \/ \E t \in Tasks, k \in {"kernel", "writeback"} : AllocTask(t, k)
    \/ \E h \in Handles, m \in Modes : UpdateDependencies(h, m)
    \/ Commit

Sync ==
    \/ BeginSync
    \/ \E h \in Handles : ActivateHandle(h)
    \/ \E i \in Index : Notify(Main, i)
    \/ EndDfg
    \/ SyncReturn

Device(d) ==
    \/ \E t \in Tasks : Pop(d, t) \/ Launch(d, t) \/ KernelEnd(d, t)
    \/ \E i \in Index : SignalSuccessors(d, i) \/ Notify(d, i)
    \/ FinishEpilogue(d)
    \/ MarkExec(d)

\* The bounded number of rounds is exhausted.
Terminated ==
    /\ round = MaxRounds /\ phase = "build" /\ late = [d \in Devices |-> NoTask]
    /\ UNCHANGED vars

Next ==
    \/ Build
    \/ Sync
    \/ \E d \in Devices : Device(d)
    \/ \E t \in Tasks : WritebackArrived(t)
    \/ Terminated

Spec == Init /\ [][Next]_vars

\* The main thread and the device threads run; a transfer that was started
\* ends.  Nothing obliges the application to call xkblas_sync again.
FairSpec ==
    /\ Spec
    /\ WF_vars(Sync /\ phase # "build")
    /\ \A d \in Devices : WF_vars(Device(d))
    /\ \A t \in Tasks : WF_vars(WritebackArrived(t))

-----------------------------------------------------------------------------
(* Properties.                                                             *)

\* Every variable holds a value of its type.
TypeOK ==
    /\ phase \in {"build", "activate", "wait"}
    /\ cur \in Tasks \cup {NoTask}
    /\ kind \in [Tasks -> {"kernel", "writeback"}]
    /\ tstate \in [Tasks -> TaskState]
    /\ dev \in [Tasks -> Threads]
    /\ wc \in [Tasks -> Nat]
    /\ acc \in Seq(Access) /\ Len(acc) <= MaxAccesses
    /\ ready \subseteq DOMAIN acc
    /\ sig \subseteq DOMAIN acc
    /\ swc \in [Handles -> [0..MaxAccesses -> Nat]]
    /\ nsync \in [Handles -> 0..MaxAccesses]
    /\ lastmode \in [Handles -> Modes \cup {"SYNC"}]
    /\ pend \subseteq Handles
    /\ walk \in [Threads -> SUBSET DOMAIN acc]
    /\ epi \in [Devices -> Tasks \cup {NoTask}]
    /\ late \in [Devices -> Tasks \cup {NoTask}]
    /\ flagged \subseteq Tasks
    /\ cnt \in Nat /\ spawn \in Nat /\ exec \in Nat
    /\ flight \subseteq Tasks
    /\ round \in 0..MaxRounds

\* Sequential consistency of the task graph: of two conflicting accesses to a
\* tile, the task of the one declared first has finished its kernel before a
\* device takes the task of the other (kaapi_update_dependencies cuts the
\* generations, kaapi_sched_activate_syncpoint releases them).
ConflictOrder ==
    \A i, j \in DOMAIN acc :
        (/\ i < j /\ acc[i].h = acc[j].h
         /\ ~Concurrent(acc[i].mode, acc[j].mode)
         /\ tstate[acc[j].task] \in Started)
        => tstate[acc[i].task] \in Finished

\* The counters that decide when a task runs are exact: a synchronisation
\* point counts the accesses of its generation not yet signalled, a task the
\* accesses not yet ready (plus one until it is committed), whatever the
\* order in which the epilogues of the devices decrement them.
CountersExact ==
    /\ \A h \in Handles, g \in 1..MaxAccesses :
          swc[h][g] = Cardinality(Generation(h, g) \ sig)
    /\ \A t \in Tasks :
          wc[t] = Cardinality(AccessesOf(t) \ ready)
                  + (IF tstate[t] = "alloc" THEN 1 ELSE 0)

\* When kaapi_sched_sync sees the frame completed, no task is left, no
\* write-back is on its way to the host, and no device thread is inside an
\* epilogue or traverses a list of accesses: the memory of the frame can go.
SyncQuiescent ==
    (phase = "wait" /\ FrameCompleted) =>
        /\ \A t \in Tasks : tstate[t] \in {"free", "done"}
        /\ flight = {}
        /\ \A d \in Devices : epi[d] = NoTask
        /\ \A th \in Threads : walk[th] = {}

\* A thread that traverses a list of accesses only meets tasks that still wait
\* for it: the list is never traversed twice and a task is never pushed before
\* the traversal has notified all of its accesses.
WalksMeetWaitingTasks ==
    /\ \A th \in Threads : \A i \in walk[th] :
          i \notin ready /\ tstate[acc[i].task] = "waiting"
    /\ \A th1, th2 \in Threads : th1 # th2 => walk[th1] \cap walk[th2] = {}

\* A task is pushed once per round, and its descriptor is recycled by
\* xkblas_sync only after its execution was counted.
PushedOnceThenRecycled ==
    [][\A t \in Tasks :
         /\ tstate'[t] = "ready" => tstate[t] \in {"alloc", "waiting", "ready"}
         /\ tstate'[t] = "free"  => tstate[t] \in {"done", "free"}]_vars

\* xkblas_sync returns: every handle with an access is activated, every
\* committed task is released and every write-back is counted in the frame.
SyncReturns == phase = "activate" ~> phase = "build"

\* kaapi.h says of KAAPI_TASK_FLAG_EXEC: "mark task executed".  The epilogue
\* writes it after it has counted the task in the frame.
ExecFlagMarksExecuted ==
    \A t \in flagged : tstate[t] \in {"done", "free"}

-----------------------------------------------------------------------------
(* The engine implements TaskOrder.                                        *)

Conflicting(m1, m2) == ~Concurrent(m1, m2)

\* The program as the caller sees it: the accesses without their generation.
Program == [i \in DOMAIN acc |->
              [task |-> acc[i].task, h |-> acc[i].h, mode |-> acc[i].mode]]

Progress(s) ==
    CASE s = "free" -> "free"
      [] s = "alloc" -> "declared"
      [] s \in {"waiting", "ready"} -> "submitted"
      [] s \in {"popped", "launched"} -> "running"
      [] OTHER -> "finished"

Order == INSTANCE TaskOrder WITH
            Conflict <- Conflicting,
            prog <- Program,
            st   <- [t \in Tasks |-> Progress(tstate[t])],
            owed <- flight

\* Every behaviour of the engine is one that TaskOrder allows: the generations
\* and counters start no task early, and xkblas_sync forgets the graph only
\* when everything is finished and home.
ImplementsTaskOrder == Order!OSpec

=============================================================================
