----------------------------- MODULE FifoQueue -----------------------------
(***************************************************************************)
(* The queue of ready tasks of one device (kaapi/kaapi_ld.c).              *)
(*                                                                         *)
(* Clients (the application and the threads of the other devices) push at  *)
(* T; the device thread, its owner, pops at H and pushes the tasks that    *)
(* its own epilogues release in front of H.  All of it is under one mutex; *)
(* a thread that finds the array full waits on cond_push.  With            *)
(* KAAPI_WS_GPUTASK other devices steal from inside the window H..T-1 and  *)
(* leave a hole there.                                                     *)
(***************************************************************************)
EXTENDS FifoParameters

VARIABLES
    H, T,                   \* the window of the array that is in use
    data,                   \* the array
    push_count, pop_count,
    waiter_push,            \* a pusher waits
    at,                     \* where each thread is in its push
    arg,                    \* the task it pushes
    todo,                   \* tasks not yet pushed by anyone
    popped, stolen          \* tasks taken by the owner, by thieves

threadVars == <<at, arg, todo>>
vars == <<H, T, data, push_count, pop_count, waiter_push, threadVars,
          popped, stolen>>

\* The cells of the array, and the memory before it, which the queue reaches when
\* H is below 0: nothing else is said to write there.
Cells == (1 - Size)..(Size - 1)

\* The remainder of C, which has the sign of i.
Slot(i) == IF i >= 0 THEN i % Size ELSE -((-i) % Size)

\* The positions in use, and the task at one of them.
Window == H..(T - 1)
Entry(i) == data[Slot(i)]

\* Lazy allocation by the first push is part of Init: until then H = T too.
Init ==
    /\ H = Size \div 2 /\ T = Size \div 2
    /\ data = [c \in Cells |-> NoTask]
    /\ push_count = 0 /\ pop_count = 0
    /\ waiter_push = FALSE
    /\ at = [p \in Threads |-> "idle"]
    /\ arg = [p \in Threads |-> NoTask]
    /\ todo = Tasks
    /\ popped = {} /\ stolen = {}

-----------------------------------------------------------------------------
(* Pushes.                                                                 *)

\* kaapi_thread_push: the owner of the queue pushes in front.
CallPush(p, t) ==
    /\ at[p] = "idle" /\ t \in todo
    /\ t \in IF p = Owner THEN OwnerTasks ELSE ClientTasks
    /\ at' = [at EXCEPT ![p] = "trying"]
    /\ arg' = [arg EXCEPT ![p] = t]
    /\ todo' = todo \ {t}
    /\ UNCHANGED <<H, T, data, push_count, pop_count, waiter_push, popped, stolen>>

Full == T - H >= Size

\* The test of the loop fails: wait on cond_push.
WaitSpace(p) ==
    /\ at[p] = "trying" /\ Full
    /\ waiter_push' = TRUE
    /\ at' = [at EXCEPT ![p] = "waiting"]
    /\ UNCHANGED <<H, T, data, push_count, pop_count, arg, todo, popped, stolen>>

\* pthread_cond_wait may return without a signal.
WakeUp(p) ==
    /\ at[p] = "waiting"
    /\ at' = [at EXCEPT ![p] = "trying"]
    /\ UNCHANGED <<H, T, data, push_count, pop_count, waiter_push, arg, todo,
                   popped, stolen>>

\* The end of both pushes, with the task written in cell c.  cbk_fnc, called
\* here, wakes the device thread: see Push of MemSync.
Write(p, c) ==
    /\ at[p] = "trying" /\ ~Full
    /\ waiter_push' = FALSE
    /\ data' = [data EXCEPT ![c] = arg[p]]
    /\ push_count' = push_count + 1
    /\ at' = [at EXCEPT ![p] = "idle"]
    /\ arg' = [arg EXCEPT ![p] = NoTask]
    /\ UNCHANGED <<pop_count, todo, popped, stolen>>

\* kaapi_fifo_queue_push
Push(p) == Write(p, Slot(T)) /\ T' = T + 1 /\ UNCHANGED H

\* Defect: H is decremented after the write.
OwnerPushAtHead == Write(Owner, Slot(H)) /\ H' = H - 1 /\ UNCHANGED T

\* kaapi_fifo_queue_owner_push
OwnerPush == Write(Owner, Slot(H - 1)) /\ H' = H - 1 /\ UNCHANGED T

-----------------------------------------------------------------------------
(* Pops and steals.                                                        *)

\* Defect: nobody is woken.
SignalNobody == UNCHANGED at

\* pthread_cond_signal, if a pusher is said to wait.
SignalPush ==
    IF waiter_push /\ \E p \in Threads : at[p] = "waiting"
    THEN \E p \in Threads : at[p] = "waiting" /\ at' = [at EXCEPT ![p] = "trying"]
    ELSE UNCHANGED at

\* Defect: a hole counts as a task.
CountAll(t) == 1

\* What the pop of t adds to pop_count.
CountTask(t) == IF t = NoTask THEN 0 ELSE 1

\* kaapi_fifo_queue_pop.  A hole is popped as the null pointer.
Pop ==
    /\ at[Owner] = "idle" /\ H < T
    /\ LET t == Entry(H)
       IN  /\ popped' = popped \cup ({t} \ {NoTask})
           /\ pop_count' = pop_count + CountTask(t)
    /\ data' = [data EXCEPT ![Slot(H)] = NoTask]
    /\ H' = H + 1
    /\ SignalPush
    /\ UNCHANGED <<T, push_count, waiter_push, arg, todo, stolen>>

\* kaapi_fifo_queue_steal_with_affinity takes the task of the best score, and
\* makes room only if it is the last one.
StealWithAffinity ==
    \E i \in Window :
        /\ Stealing /\ Entry(i) # NoTask
        /\ stolen' = stolen \cup {Entry(i)}
        /\ data' = [data EXCEPT ![Slot(i)] = NoTask]
        /\ pop_count' = pop_count + 1
        /\ IF i + 1 = T THEN T' = T - 1 /\ SignalPush ELSE UNCHANGED <<T, at>>
        /\ UNCHANGED <<H, push_count, waiter_push, arg, todo, popped>>

-----------------------------------------------------------------------------
Next ==
    \/ \E p \in Threads : (\E t \in Tasks : CallPush(p, t)) \/ WaitSpace(p) \/ WakeUp(p)
    \/ \E p \in Clients : Push(p)
    \/ OwnerPush
    \/ Pop
    \/ StealWithAffinity

Spec == Init /\ [][Next]_vars

\* A thread that waits for the mutex gets it, and the device thread pops
\* whenever it is not in a push.
FairSpec ==
    /\ Spec
    /\ WF_vars(Pop)
    /\ WF_vars(OwnerPush)
    /\ \A p \in Clients : WF_vars(Push(p))
    /\ \A p \in Threads : WF_vars(WaitSpace(p))

-----------------------------------------------------------------------------
(* Properties.                                                             *)

\* The tasks in the window and their order.
Queued == {Entry(i) : i \in Window} \ {NoTask}

Before == {q \in Queued \X Queued :
              \E i, j \in Window : i < j /\ q = <<Entry(i), Entry(j)>>}

Line == INSTANCE TaskLine WITH line <- Queued, before <- Before

\* The circular array implements the line of tasks: pushes, pops and steals,
\* with the holes they leave and the positions that go round the array, lose
\* no task, deliver none twice and keep the order of those that stay.
ImplementsTaskLine == Line!LSpec

\* Every variable holds a value of its type; the window is never larger than
\* the array.
TypeOK ==
    /\ H \in Int
    /\ T \in H..(H + Size)
    /\ data \in [Cells -> Tasks \cup {NoTask}]
    /\ push_count \in Nat /\ pop_count \in Nat
    /\ waiter_push \in BOOLEAN
    /\ at \in [Threads -> {"idle", "trying", "waiting"}]
    /\ arg \in [Threads -> Tasks \cup {NoTask}]
    /\ todo \subseteq Tasks /\ popped \subseteq Tasks /\ stolen \subseteq Tasks

\* The device thread goes to sleep when push_count = pop_count: their
\* difference is the number of tasks in the queue, whatever holes the window has.
CountsQueued == push_count - pop_count = Cardinality(Queued)

\* The tasks that threads are about to push.
Held == {arg[p] : p \in Threads} \ {NoTask}

\* A task is in one place: not yet pushed, held by one thread, in one position
\* of the window, popped or stolen.
OnePlace ==
    /\ \A i, j \in Window :
          Entry(i) = Entry(j) /\ Entry(i) # NoTask => i = j
    /\ \A p, q \in Threads : arg[p] = arg[q] /\ arg[p] # NoTask => p = q
    /\ Queued \cap (todo \cup Held \cup popped \cup stolen) = {}
    /\ Held \cap (todo \cup popped \cup stolen) = {}
    /\ todo \cap (popped \cup stolen) = {}
    /\ popped \cap stolen = {}

\* A thread holds a task of its kind exactly while it pushes.
PushersHold ==
    /\ \A p \in Threads : arg[p] = NoTask <=> at[p] = "idle"
    /\ arg[Owner] \in OwnerTasks \cup {NoTask}
    /\ \A p \in Clients : arg[p] \in ClientTasks \cup {NoTask}

\* The inductive invariant: the window, the counters and the tasks of the
\* threads inside of kaapi_fifo_queue_push and kaapi_fifo_queue_owner_push agree.
QueueInv == TypeOK /\ OnePlace /\ PushersHold /\ CountsQueued

\* A pusher waits only while the array is full.  With a single pusher no pop
\* can miss it.
NoIdleWait == \A p \in Threads : at[p] = "waiting" => Full

\* "wait enough space": a thread that pushes a task gets through.
PushCompletes == \A p \in Threads : (at[p] # "idle") ~> (at[p] = "idle")

\* At most one thread waits for space, and it is not the one that makes it.
OnePusherWaits ==
    /\ Cardinality({p \in Threads : at[p] = "waiting"}) <= 1
    /\ at[Owner] # "idle" => ~Full

\* As long as at most one client waits at a time and the device thread never
\* pushes on a full array, every push completes (kaapi_fifo_queue_push).
LonePushCompletes == []OnePusherWaits => PushCompletes

\* "T % size and H % size are the entry on data" (kaapi_impl.h:491): every
\* position of the window has its cell inside of the array.
EntriesInArray == \A i \in Window : Slot(i) \in 0..(Size - 1)

=============================================================================
