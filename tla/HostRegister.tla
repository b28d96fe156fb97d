---------------------------- MODULE HostRegister ----------------------------
(***************************************************************************)
(* Asynchronous registration of host memory (kaapi_plugin_cuda.c and its   *)
(* copy in kaapi_plugin_hip.c; xkblas_register_memory_async and its        *)
(* companions in blas/xkblas.c).                                           *)
(*                                                                         *)
(* Threads post requests into a ring; a daemon thread copies the oldest,   *)
(* releases the lock, performs it, and marks it done under the lock of the *)
(* ring and that of the request.  A handle is the position of the request. *)
(* Critical sections are one step, except the daemon's test of             *)
(* plugin_initialized, which finalize writes without the lock.             *)
(*                                                                         *)
(* One queue (KAAPI_RRL_SIZE is 1 by default).  A wait for one request     *)
(* calls pthread_cond_wait once and does not test the request again, so it *)
(* may return too early; and a wait for a request that somebody waits for  *)
(* already returns at once and keeps the lock of the request.              *)
(***************************************************************************)
EXTENDS Integers, Sequences, FiniteSets

CONSTANTS
    Clients,   \* threads that call the api
    RegSize,   \* KAAPI_MAX_REGLIST
    MaxReq     \* bound: requests posted

VARIABLES
    plugin_initialized,
    posw, posr,
    req,       \* slot -> [state, handle]
    daemon,    \* the daemon thread: its program point
    exec,      \* the handle it performs
    client,    \* client -> what it is doing
    performed, \* handles performed, in order
    locked,    \* slots whose request lock a wait that returned has kept
    blocked,   \* a thread that holds the ring lock waits for one of those
    answer,    \* the last test or wait that returned: its result, how it ended,
               \* and whether what it was asked about had been performed
    final      \* progress of finalize

vars == <<plugin_initialized, posw, posr, req, daemon, exec, client, performed,
          locked, blocked, answer, final>>

Handles == 0..(MaxReq - 1)
Slot(h) == h % RegSize
NoHandle == -1
EINPROGRESS == 115
Idle == [op |-> "idle", h |-> NoHandle]
Sleeping(h) == [op |-> "sleep", h |-> h]    \* in pthread_cond_wait of request h
Awake(h)    == [op |-> "awake", h |-> h]    \* signalled
All(pos)    == [op |-> "waitall", h |-> pos]
Performed == {performed[i] : i \in 1..Len(performed)}

\* The call returns 0 about the handles hs.
Returns(call, hs) == [call |-> call, result |-> 0, done |-> hs \subseteq Performed]

\* The ring lock is held by the daemon between its test and its wait, and for
\* ever by a thread that needs a request lock nobody will release.
LockFree == daemon # "towait" /\ ~blocked

\* kaapi_cuda_init_reqreg_list
Init ==
    /\ plugin_initialized = TRUE
    /\ posw = 0 /\ posr = 0
    /\ req = [i \in 0..(RegSize - 1) |-> [state |-> "INIT", h |-> NoHandle]]
    /\ daemon = "loop" /\ exec = NoHandle
    /\ client = [c \in Clients |-> Idle]
    /\ performed = <<>> /\ answer = Returns("wait", {})
    /\ locked = {} /\ blocked = FALSE
    /\ final = "none"

-----------------------------------------------------------------------------
(* The api.                                                                *)

Full == posw - posr >= RegSize

\* post_request: waits while the ring is full, then stores and signals.
PostRequest(c) ==
    /\ client[c].op \in {"idle", "post"} /\ LockFree /\ final = "none"
    /\ posw < MaxReq
    /\ IF Full
       THEN client' = [client EXCEPT ![c] = [op |-> "post", h |-> NoHandle]]
            /\ UNCHANGED <<posw, req, daemon>>
       ELSE /\ client' = [client EXCEPT ![c] = Idle]
            /\ req' = [req EXCEPT ![Slot(posw)] = [state |-> "POST", h |-> posw]]
            /\ posw' = posw + 1
            /\ daemon' = IF daemon = "waiting" THEN "loop" ELSE daemon
    /\ UNCHANGED <<plugin_initialized, posr, exec, performed, locked,
                   blocked, answer, final>>

\* xkblas_register_memory_test; the position is read without the lock.
Test(c, h) ==
    /\ client[c] = Idle /\ final = "none" /\ h < posw
    /\ answer' = [call |-> "test", result |-> IF h <= posr THEN 0 ELSE EINPROGRESS,
                  done |-> h \in Performed]
    /\ UNCHANGED <<plugin_initialized, posw, posr, req, daemon, exec, client,
                   performed, locked, blocked, final>>

\* Defect: a request being performed counts as done.
WaitEarly(c, h) ==
    /\ client[c] = Idle /\ final = "none" /\ h <= posr /\ h < posw /\ LockFree
    /\ answer' = Returns("wait", {h})
    /\ UNCHANGED <<plugin_initialized, posw, posr, req, daemon, exec, client,
                   performed, locked, blocked, final>>

\* xkblas_register_memory_wait for a request that is over.
WaitOver(c, h) ==
    /\ client[c] = Idle /\ final = "none" /\ h < posr /\ LockFree
    /\ answer' = Returns("wait", {h})
    /\ UNCHANGED <<plugin_initialized, posw, posr, req, daemon, exec, client,
                   performed, locked, blocked, final>>

\* xkblas_register_memory_wait for a request that is not over, which takes the
\* lock of the request while it holds that of the ring.
Wait(c, h) ==
    /\ client[c] = Idle /\ final = "none" /\ h \in posr..(posw - 1) /\ LockFree
    /\ \/ /\ Slot(h) \in locked
          /\ client' = [client EXCEPT ![c] = Sleeping(h)]
          /\ blocked' = TRUE
          /\ UNCHANGED <<req, locked, answer>>
       \/ /\ Slot(h) \notin locked /\ req[Slot(h)].state = "POST"
          /\ req' = [req EXCEPT ![Slot(h)].state = "WAIT"]
          /\ client' = [client EXCEPT ![c] = Sleeping(h)]
          /\ UNCHANGED <<locked, blocked, answer>>
       \/ /\ Slot(h) \notin locked /\ req[Slot(h)].state # "POST"
          /\ locked' = locked \cup {Slot(h)}
          /\ answer' = Returns("second", {h})
          /\ UNCHANGED <<req, client, blocked>>
    /\ UNCHANGED <<plugin_initialized, posw, posr, daemon, exec, performed, final>>

\* pthread_cond_wait returns to a client that is op, with the request lock.
LeaveWait(c, op, call) ==
    /\ client[c].op = op /\ Slot(client[c].h) \notin locked
    /\ answer' = Returns(call, {client[c].h})
    /\ client' = [client EXCEPT ![c] = Idle]
    /\ UNCHANGED <<plugin_initialized, posw, posr, req, daemon, exec, performed,
                   locked, blocked, final>>

\* The request has been signalled.
EndWait(c) == LeaveWait(c, "awake", "wait")

\* It has not, and the wait returns all the same.
SpuriousWakeUp(c) == LeaveWait(c, "sleep", "spurious")

\* xkblas_register_memory_waitall, which xkblas_unregister_memory also calls.
WaitAll(c) ==
    /\ client[c] = Idle /\ final = "none" /\ LockFree /\ posw > posr
    /\ client' = [client EXCEPT ![c] = All(posw)]
    /\ UNCHANGED <<plugin_initialized, posw, posr, req, daemon, exec, performed,
                   locked, blocked, answer, final>>

\* posr moves with a broadcast, so the sleepers test it each time.
EndWaitAll(c) ==
    /\ client[c].op = "waitall" /\ posr >= client[c].h /\ LockFree
    /\ answer' = Returns("wait", 0..(client[c].h - 1))
    /\ client' = [client EXCEPT ![c] = Idle]
    /\ UNCHANGED <<plugin_initialized, posw, posr, req, daemon, exec, performed,
                   locked, blocked, final>>

-----------------------------------------------------------------------------
(* kaapi_cuda_register_thread.                                             *)

\* Holding the lock: something to do, end of the plugin, or nothing.
DaemonTest ==
    /\ daemon = "loop" /\ ~blocked
    /\ daemon' = CASE posw > posr -> "perform"
                   [] posw = posr /\ plugin_initialized -> "towait"
                   [] posw = posr /\ ~plugin_initialized -> "exit"
    /\ exec' = IF posw > posr THEN req[Slot(posr)].h ELSE NoHandle
    /\ UNCHANGED <<plugin_initialized, posw, posr, req, client, performed, locked,
                   blocked, answer, final>>

\* pthread_cond_wait releases the lock.
DaemonWait ==
    /\ daemon = "towait"
    /\ daemon' = "waiting"
    /\ UNCHANGED <<plugin_initialized, posw, posr, req, exec, client, performed,
                   locked, blocked, answer, final>>

\* cudaHostRegister or cudaHostUnregister, without the lock.
Perform ==
    /\ daemon = "perform"
    /\ daemon' = "finish"
    /\ performed' = Append(performed, exec)
    /\ UNCHANGED <<plugin_initialized, posw, posr, req, exec, client, locked,
                   blocked, answer, final>>

\* Defect: the waiter is signalled when nobody has said that it waits.
SignalPosted(h) ==
    client' = [c \in Clients |-> IF client[c] = Sleeping(h) /\ req[Slot(h)].state = "POST"
                                 THEN Awake(h) ELSE client[c]]

SignalWaiter(h) ==
    client' = [c \in Clients |-> IF client[c] = Sleeping(h) /\ req[Slot(h)].state = "WAIT"
                                 THEN Awake(h) ELSE client[c]]

\* The request is over.
Finish ==
    /\ daemon = "finish" /\ LockFree /\ Slot(posr) \notin locked
    /\ req' = [req EXCEPT ![Slot(posr)].state = "DONE"]
    /\ SignalWaiter(exec)
    /\ posr' = posr + 1
    /\ daemon' = "loop"
    /\ UNCHANGED <<plugin_initialized, posw, exec, performed, locked,
                   blocked, answer, final>>

\* The daemon keeps the ring lock while it waits for a request lock.
FinishBlocked ==
    /\ daemon = "finish" /\ LockFree /\ Slot(posr) \in locked
    /\ blocked' = TRUE
    /\ UNCHANGED <<plugin_initialized, posw, posr, req, daemon, exec, client,
                   performed, locked, answer, final>>

-----------------------------------------------------------------------------
(* finalize of the plugin: when the clients have returned.                 *)

FinalizeFlag ==
    /\ final = "none" /\ \A c \in Clients : client[c] = Idle
    /\ final' = "signal"
    /\ plugin_initialized' = FALSE
    /\ UNCHANGED <<posw, posr, req, daemon, exec, client, performed, locked,
                   blocked, answer>>

\* A signal, without the lock, wakes the daemon only if it waits already.
FinalizeSignal ==
    /\ final = "signal"
    /\ final' = "join"
    /\ daemon' = IF daemon = "waiting" THEN "loop" ELSE daemon
    /\ UNCHANGED <<plugin_initialized, posw, posr, req, exec, client, performed,
                   locked, blocked, answer>>

FinalizeJoin ==
    /\ final = "join" /\ daemon = "exit"
    /\ final' = "done"
    /\ UNCHANGED <<plugin_initialized, posw, posr, req, daemon, exec, client,
                   performed, locked, blocked, answer>>

Daemon == DaemonTest \/ DaemonWait \/ Perform \/ Finish \/ FinishBlocked
Finalize == FinalizeFlag \/ FinalizeSignal \/ FinalizeJoin

Next ==
    \/ \E c \in Clients :
          \/ PostRequest(c) \/ EndWait(c) \/ SpuriousWakeUp(c)
          \/ WaitAll(c) \/ EndWaitAll(c)
          \/ \E h \in Handles : Test(c, h) \/ WaitOver(c, h) \/ Wait(c, h)
    \/ Daemon \/ Finalize

Spec == Init /\ [][Next]_vars

\* The daemon and woken clients run; finalize, once begun, goes on.
Fairness ==
    /\ WF_vars(Daemon) /\ WF_vars(FinalizeSignal \/ FinalizeJoin)
    /\ SF_vars(\E c \in Clients : EndWait(c) \/ EndWaitAll(c))

-----------------------------------------------------------------------------
(* Properties.                                                             *)

\* "On return the memory block has been 'host registered'": so it is when a wait
\* ended because it was signalled or found the requests over.
WaitMeansPerformed == answer.call = "wait" => answer.done

\* Requests are performed once each and in the order of their posts, and no
\* slot of the ring is taken from a request that is not done.
PerformedInOrder ==
    /\ \A i \in 1..Len(performed) : performed[i] = i - 1
    /\ \A h \in posr..(posw - 1) : req[Slot(h)].h = h

\* What the interface promises.
RegisterSound == PerformedInOrder /\ WaitMeansPerformed

\* As long as no two clients have waited for one request, a client that waits
\* for a request, or for all, returns: again and again, nobody waits.
WaitsReturn ==
    []<>(locked = {} => \A c \in Clients : client[c].op \notin {"sleep", "awake", "waitall"})

-----------------------------------------------------------------------------
(* The inductive invariant.                                                *)

RequestState == [state : {"INIT", "POST", "WAIT", "DONE"}, h : Nat \cup {NoHandle}]
ClientState == [op : {"idle", "post", "sleep", "awake", "waitall"}, h : Nat \cup {NoHandle}]

\* The types of the variables.  The ring holds at most RegSize requests.
TypeOK ==
    /\ plugin_initialized \in BOOLEAN
    /\ posw \in Nat /\ posr \in 0..posw /\ posw - posr <= RegSize
    /\ req \in [0..(RegSize - 1) -> RequestState]
    /\ daemon \in {"loop", "towait", "waiting", "perform", "finish", "exit"}
    /\ exec \in Nat \cup {NoHandle}
    /\ client \in [Clients -> ClientState]
    /\ performed \in Seq(Nat)
    /\ locked \subseteq 0..(RegSize - 1) /\ blocked \in BOOLEAN
    /\ final \in {"none", "signal", "join", "done"}

\* The daemon performs the oldest request; the history has one entry more than
\* posr says between the operation and the end of the request.
DaemonAtOldest ==
    /\ daemon \in {"perform", "finish"} => posr < posw /\ exec = posr
    /\ Len(performed) = posr + (IF daemon = "finish" THEN 1 ELSE 0)

\* A client that has been woken was waiting for a request that is done.
AwakeIsDone == \A c \in Clients : client[c].op = "awake" => client[c].h \in 0..(posr - 1)

RegisterInv == TypeOK /\ DaemonAtOldest /\ AwakeIsDone /\ RegisterSound

=============================================================================
