--------------------------- MODULE FifoParameters ---------------------------
(***************************************************************************)
(* The threads, the tasks and the size of the array of FifoQueue.          *)
(***************************************************************************)
EXTENDS Integers, FiniteSets

CONSTANTS
    Clients, Owner,           \* the threads
    ClientTasks, OwnerTasks,  \* the tasks each kind of thread pushes
    NoTask,                   \* the null pointer
    Size,                     \* QUEUE_DEFAULT_SIZE
    Stealing                  \* KAAPI_WS_GPUTASK

Threads == Clients \cup {Owner}
Tasks == ClientTasks \cup OwnerTasks

ASSUME QueueAssumption ==
    /\ Owner \notin Clients
    /\ NoTask \notin Tasks
    /\ ClientTasks \cap OwnerTasks = {}
    /\ IsFiniteSet(Tasks)
    /\ Size \in Nat \ {0}
    /\ Stealing \in BOOLEAN

=============================================================================
