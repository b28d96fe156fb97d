----------------------------- MODULE DeviceWork -----------------------------
(***************************************************************************)
(* What the devices work with: the queue in which ready tasks wait for a   *)
(* device (FifoQueue), the replicas of tiles it brings into its memory     *)
(* (Dsm) and the kernels of the tile algorithms it runs on them            *)
(* (TileRuns).  As in Services, part is the one that moves: they share     *)
(* nothing but the task, of which each sees another side.                  *)
(***************************************************************************)
EXTENDS DsmInv, FifoParameters

CONSTANT Calls

VARIABLES
    part,
    \* FifoQueue
    H, T, data, push_count, pop_count, waiter_push, at, arg, todo, popped, stolen,
    \* TileRuns
    call, graph, done, view, matrices

Queue == INSTANCE FifoQueue
Tiled == INSTANCE TileRuns WITH mem <- matrices

queueVars == <<H, T, data, push_count, pop_count, waiter_push, at, arg, todo, popped, stolen>>
tiledVars == <<call, graph, done, view, matrices>>
workVars == <<part, vars, queueVars, tiledVars>>

\* Part p moves, the others do not.
Only(p) ==
    /\ part = p /\ UNCHANGED part
    /\ IF p = "dsm" THEN TRUE ELSE UNCHANGED vars
    /\ IF p = "queue" THEN TRUE ELSE UNCHANGED queueVars
    /\ IF p = "tiled" THEN TRUE ELSE UNCHANGED tiledVars

\* The first state of the parts that do not move.
Resting(p) ==
    /\ p = "dsm" \/ cap = CHOOSE c \in Capacities : TRUE
    /\ p = "tiled" \/ call = CHOOSE c \in Calls : TRUE

WorkInit ==
    /\ part \in {"dsm", "queue", "tiled"}
    /\ Resting(part) /\ Init /\ Queue!Init /\ Tiled!Init

DsmNext ==
    \/ \E d \in Devices :
          \/ \E s \in Shapes : Only("dsm") /\ Begin(d, s)
          \/ Only("dsm") /\ Acquire(d)
          \/ Only("dsm") /\ Alloc(d)
          \/ Only("dsm") /\ Evict(d)
          \/ Only("dsm") /\ Unset(d)
          \/ Only("dsm") /\ Fetch(d)
          \/ Only("dsm") /\ Post(d)
          \/ Only("dsm") /\ Touch(d)
    \/ \E c \in copies : Only("dsm") /\ Receive(c)
    \/ \E i \in DOMAIN tasks :
          \/ Only("dsm") /\ Run(i)
          \/ Only("dsm") /\ RunWriteBack(i)
    \/ Only("dsm") /\ Invalidate

QueueNext ==
    \/ \E p \in Threads :
          \/ \E t \in Tasks : Only("queue") /\ Queue!CallPush(p, t)
          \/ Only("queue") /\ Queue!WaitSpace(p)
          \/ Only("queue") /\ Queue!WakeUp(p)
    \/ \E p \in Clients : Only("queue") /\ Queue!Push(p)
    \/ Only("queue") /\ Queue!OwnerPush
    \/ Only("queue") /\ Queue!Pop
    \/ Only("queue") /\ Queue!StealWithAffinity

TiledNext ==
    \/ \E t \in Tiled!Tasks : \E place \in Tiled!PlacesFor(Tiled!Task(t).p) :
          Only("tiled") /\ Tiled!Execute(t, place)
    \/ Only("tiled") /\ Tiled!Finished

WorkNext == DsmNext \/ QueueNext \/ TiledNext

\* The fairness of FifoQueue and of Dsm, for the part that moves.
WorkSpec ==
    /\ WorkInit /\ [][WorkNext]_workVars
    /\ \A d \in Devices : WF_vars(part = "dsm" /\ Progress(d))
    /\ WF_queueVars(part = "queue" /\ Queue!Pop)
    /\ WF_queueVars(part = "queue" /\ Queue!OwnerPush)
    /\ \A p \in Clients : WF_queueVars(part = "queue" /\ Queue!Push(p))
    /\ \A p \in Threads : WF_queueVars(part = "queue" /\ Queue!WaitSpace(p))

-----------------------------------------------------------------------------
(* The properties of FifoQueue and TileRuns, beside those of Dsm and DsmInv. *)

\* FifoQueue: the window, the counters and the tasks of the threads inside of
\* kaapi_fifo_queue_push and kaapi_fifo_queue_owner_push agree.
QueueInv == part = "queue" => Queue!QueueInv

\* FifoQueue: pushes, pops and steals lose no task, deliver none twice and keep the
\* order of those that stay (kaapi_ld.c).
ImplementsTaskLine == Queue!ImplementsTaskLine

\* FifoQueue: as long as at most one client waits at a time and the device thread
\* never pushes on a full array, every push completes (kaapi_fifo_queue_push).
LonePushCompletes == part = "queue" => Queue!LonePushCompletes

\* TileRuns: in every order and in all places in which the tasks of a call of
\* xkblas_z*_async run, the result is right, but for the two cases it names.
ResultRight == part = "tiled" => Tiled!ResultRight

\* TileRuns: no task of INSERT_TASK_* waits for itself.
NoSelfWait == part = "tiled" => Tiled!NoSelfWait

\* TileRuns: two tasks that may run at the same time never touch a common place of
\* an array that one of them writes (INSERT_TASK_*).
RaceFree == part = "tiled" => Tiled!RaceFree

\* TileRuns: no call reaches beyond its matrices: illegal arguments are refused
\* before a task is made, and the views of a legal call stay inside its tiles
\* (the checks and the extents of tiles in xkblas_zgemm and the others).
ArgumentsSound ==
    part = "tiled" => Tiled!TypeOK /\ Tiled!ChecksRefuseIllegal /\ Tiled!ViewsInside

=============================================================================
