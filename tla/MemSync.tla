------------------------------ MODULE MemSync -------------------------------
(***************************************************************************)
(* xkblas_memory_syncall: the request protocol between the calling thread  *)
(* and the device threads, and the sleep of an idle device thread          *)
(* (kaapi/kaapi_offload_device.c, blas/xkblas.c).                          *)
(*                                                                         *)
(* The caller waits for its tasks and then posts a MEMSYNC request to the  *)
(* mail box of every device.  All requests share one counter on the stack  *)
(* of the caller, incremented by Big (2^32 in the code) per device before  *)
(* the request is posted.  A device starts the transfers of its modified   *)
(* tiles to the host, adds their number, subtracts Big and replies when    *)
(* the counter is zero; the callbacks of the transfers decrement it too.   *)
(*                                                                         *)
(* A tile written by one device, then by another and then read by the      *)
(* first is modified, and in the rw list, on both: the second device to    *)
(* write it back joins the transfer of the first, whose thread runs the    *)
(* callbacks of both.                                                      *)
(***************************************************************************)
EXTENDS Integers, Sequences, FiniteSetsExt

CONSTANTS
    N,         \* number of devices, 1..N; the host is 0
    Tiles,     \* data accessed by the tasks
    Big,       \* what the counter is incremented by per device
    MaxTasks,  \* bound: tasks pushed in a behaviour
    MaxSyncs   \* bound: calls to xkblas_memory_syncall

ASSUME MemSyncAssumption ==
    /\ N \in Nat \ {0}
    /\ IsFiniteSet(Tiles)
    /\ MaxTasks \in Nat /\ MaxSyncs \in Nat
    /\ Big \in Nat /\ Big > N * Cardinality(Tiles)

Devices == 1..N
Host    == 0

VARIABLES
    cpc,         \* program point of the caller
    ci,          \* loop index of kaapi_offload_synchronize
    blocked,     \* the caller waits on the condition variable of device ci
    counter,     \* sync_counter
    op,          \* request.op
    ptr,         \* request.counter is not null
    dpc,         \* program point of the device thread
    issleeping,
    queue,       \* number of tasks in the queue of the device
    sent,        \* send_msg
    valid,       \* where a tile is valid
    rw,          \* the devices that have a tile in their rw list
    cbk,         \* callbacks of the host replica: the first device moves the tile
    calls,       \* callbacks that the device thread has still to run
    due,         \* device threads whose first callback must reply
    pushed,      \* number of tasks pushed (bounded)
    syncs        \* number of calls completed (bounded)

clientVars == <<cpc, ci, blocked, pushed, syncs>>
mailVars   == <<op, ptr, counter>>
memVars    == <<valid, rw, cbk>>
cbVars     == <<calls, due>>
vars == <<clientVars, mailVars, memVars, cbVars, dpc, issleeping, queue, sent>>

Init ==
    /\ cpc = "idle" /\ ci = 1 /\ blocked = FALSE
    /\ counter = 0
    /\ op = [d \in Devices |-> "NOP"]
    /\ ptr = [d \in Devices |-> FALSE]
    /\ dpc = [d \in Devices |-> "loop"]
    /\ issleeping = [d \in Devices |-> FALSE]
    /\ queue = [d \in Devices |-> 0]
    /\ sent = [d \in Devices |-> 0]
    /\ valid = [t \in Tiles |-> {Host}]
    /\ rw = [t \in Tiles |-> {}]
    /\ cbk = [t \in Tiles |-> <<>>]
    /\ calls = [d \in Devices |-> <<>>]
    /\ due = {}
    /\ pushed = 0 /\ syncs = 0

\* kaapi_offload_device_wakeup_
Wakeup(d) == issleeping' = [issleeping EXCEPT ![d] = FALSE]

\* The device thread, not in a callback, goes from program point k to l.
Goto(d, k, l) ==
    /\ dpc[d] = k /\ calls[d] = <<>>
    /\ dpc' = [dpc EXCEPT ![d] = l]

\* kaapi_offload_requestreply: the caller is woken if it waits on this device.
RequestReply(d) ==
    /\ op' = [op EXCEPT ![d] = "REPLY"]
    /\ blocked' = (blocked /\ ci # d)

\* The streams of d have a transfer to the host.
Moving(d) == \E t \in Tiles : cbk[t] # <<>> /\ Head(cbk[t]) = d

\* Defect: a tile also valid on another device is left to that device.
ModifiedAlone(d) == {t \in Tiles : d \in rw[t] /\ valid[t] = {d}}

\* The tiles that d must write back: kaapi_memory_writeback_all.
Modified(d) == {t \in Tiles : d \in rw[t] /\ d \in valid[t] /\ Host \notin valid[t]}

\* _allocate_callback: the first slot is the head of the list, the next ones are
\* inserted behind it.
AddCallback(list, d) ==
    IF list = <<>> THEN <<d>> ELSE <<Head(list), d>> \o Tail(list)

-----------------------------------------------------------------------------
(* The caller.                                                             *)

\* A task is pushed to the queue of d, whose callback wakes the device.
Push(d) ==
    /\ cpc = "idle" /\ pushed < MaxTasks /\ syncs < MaxSyncs
    /\ queue' = [queue EXCEPT ![d] = @ + 1]
    /\ Wakeup(d)
    /\ pushed' = pushed + 1
    /\ UNCHANGED <<cpc, ci, blocked, syncs, mailVars, memVars, cbVars, dpc, sent>>

SyncAll ==
    /\ cpc = "idle" /\ syncs < MaxSyncs
    /\ cpc' = "drain"
    /\ UNCHANGED <<ci, blocked, pushed, syncs, mailVars, memVars, cbVars, dpc,
                   issleeping, queue, sent>>

\* xkblas_sync returns when all tasks are executed.
Drained ==
    /\ cpc = "drain" /\ \A d \in Devices : queue[d] = 0
    /\ cpc' = "count" /\ ci' = 1
    /\ counter' = 0
    /\ UNCHANGED <<blocked, pushed, syncs, op, ptr, memVars, cbVars, dpc,
                   issleeping, queue, sent>>

\* Defect: the contribution of a device is one, as if it were a transfer.
CountByOne ==
    /\ cpc = "count"
    /\ cpc' = "post"
    /\ counter' = counter + 1
    /\ ptr' = [ptr EXCEPT ![ci] = TRUE]
    /\ UNCHANGED <<ci, blocked, pushed, syncs, op, memVars, cbVars, dpc,
                   issleeping, queue, sent>>

\* The first loop of kaapi_offload_synchronize, up to the call ...
Count ==
    /\ cpc = "count"
    /\ cpc' = "post"
    /\ counter' = counter + Big
    /\ ptr' = [ptr EXCEPT ![ci] = TRUE]
    /\ UNCHANGED <<ci, blocked, pushed, syncs, op, memVars, cbVars, dpc,
                   issleeping, queue, sent>>

\* ... of kaapi_offload_request2device.
Request2Device ==
    /\ cpc = "post" /\ ~blocked
    /\ Wakeup(ci)
    /\ IF op[ci] = "NOP"
       THEN /\ op' = [op EXCEPT ![ci] = "MEMSYNC"]
            /\ cpc' = IF ci = N THEN "wait" ELSE "count"
            /\ ci'  = IF ci = N THEN 1 ELSE ci + 1
            /\ UNCHANGED blocked
       ELSE blocked' = TRUE /\ UNCHANGED <<op, cpc, ci>>
    /\ UNCHANGED <<ptr, counter, pushed, syncs, memVars, cbVars, dpc, queue, sent>>

\* kaapi_offload_requestwait, in the second loop.
RequestWait ==
    /\ cpc = "wait" /\ ~blocked
    /\ IF op[ci] = "REPLY"
       THEN /\ op' = [op EXCEPT ![ci] = "NOP"]
            /\ ptr' = [ptr EXCEPT ![ci] = FALSE]
            /\ cpc' = IF ci = N THEN "idle" ELSE "wait"
            /\ ci'  = IF ci = N THEN 1 ELSE ci + 1
            /\ syncs' = IF ci = N THEN syncs + 1 ELSE syncs
            /\ UNCHANGED <<blocked, issleeping>>
       ELSE /\ Wakeup(ci) /\ blocked' = TRUE
            /\ UNCHANGED <<op, ptr, cpc, ci, syncs>>
    /\ UNCHANGED <<counter, pushed, memVars, cbVars, dpc, queue, sent>>

-----------------------------------------------------------------------------
(* The device thread: kaapi_sched_idle_offload.                            *)

\* The condition of the sleep loop, read without the lock.
TestIdle(d) ==
    /\ Goto(d, "loop", "sleep")
    /\ op[d] = "NOP" /\ queue[d] = 0 /\ ~Moving(d)
    /\ UNCHANGED <<clientVars, mailVars, memVars, cbVars, issleeping, queue, sent>>

\* kaapi_offload_device_sleep
Sleep(d) ==
    /\ Goto(d, "sleep", "asleep")
    /\ issleeping' = [issleeping EXCEPT ![d] = TRUE]
    /\ UNCHANGED <<clientVars, mailVars, memVars, cbVars, queue, sent>>

WokenUp(d) ==
    /\ Goto(d, "asleep", "loop")
    /\ ~issleeping[d]
    /\ UNCHANGED <<clientVars, mailVars, memVars, cbVars, issleeping, queue, sent>>

\* A task is popped and runs through the pipeline: its only access is a tile that
\* it reads or writes (kaapi_dsm_acquire_data, kaapi_memory_cache_touch).
RunTask(d) ==
    /\ dpc[d] = "loop" /\ calls[d] = <<>> /\ queue[d] > 0
    /\ queue' = [queue EXCEPT ![d] = @ - 1]
    /\ \E t \in Tiles :
          \/ /\ valid' = [valid EXCEPT ![t] = {d}]
             /\ rw' = [rw EXCEPT ![t] = @ \cup {d}]
          \/ /\ valid' = [valid EXCEPT ![t] = @ \cup {d}]
             /\ rw' = IF Host \in valid[t] THEN [rw EXCEPT ![t] = @ \ {d}] ELSE rw
    /\ UNCHANGED <<clientVars, mailVars, cbk, cbVars, dpc, issleeping, sent>>

\* DEVICEOP_MEMSYNC with empty streams and queue.
Memsync(d) ==
    /\ Goto(d, "loop", "writeback")
    /\ op[d] = "MEMSYNC" /\ queue[d] = 0 /\ ~Moving(d)
    /\ op' = [op EXCEPT ![d] = "WRITEBACK"]
    /\ UNCHANGED <<clientVars, ptr, counter, memVars, cbVars, issleeping, queue, sent>>

\* kaapi_memory_writeback_all starts, or joins, the transfers of the modified
\* tiles; joined ones may end before their number is added to the counter.
WritebackAll(d) ==
    /\ Goto(d, "writeback", "add")
    /\ sent' = [sent EXCEPT ![d] = Cardinality(Modified(d))]
    /\ cbk' = [t \in Tiles |-> IF t \in Modified(d) THEN AddCallback(cbk[t], d)
                                                    ELSE cbk[t]]
    /\ UNCHANGED <<clientVars, mailVars, valid, rw, cbVars, issleeping, queue>>

\* Defect: the number of transfers is not added to the counter.
AddSentNothing(d) ==
    /\ Goto(d, "add", "sub")
    /\ UNCHANGED <<clientVars, mailVars, memVars, cbVars, issleeping, queue, sent>>

\* The number of transfers is added to the counter.
AddSent(d) ==
    /\ Goto(d, "add", "sub")
    /\ counter' = counter + sent[d]
    /\ UNCHANGED <<clientVars, op, ptr, memVars, cbVars, issleeping, queue, sent>>

\* The contribution of the device is withdrawn, with a reply at zero ...
SubBig(d) ==
    /\ Goto(d, "sub", "setwait")
    /\ counter' = counter - Big
    /\ IF counter' = 0 THEN RequestReply(d) ELSE UNCHANGED <<op, blocked>>
    /\ UNCHANGED <<cpc, ci, pushed, syncs, ptr, memVars, cbVars, issleeping, queue,
                   sent>>

\* ... and the operation is overwritten without the lock.
SetWait(d) ==
    /\ Goto(d, "setwait", "loop")
    /\ op' = [op EXCEPT ![d] = "WRITEBACK_WAIT"]
    /\ UNCHANGED <<clientVars, ptr, counter, memVars, cbVars, issleeping, queue, sent>>

\* DEVICEOP_WRITEBACK_WAIT: the streams of the device are emptied, the pointer to
\* the counter is tested ...
TestPointer(d) ==
    /\ Goto(d, "loop", "deref")
    /\ op[d] = "WRITEBACK_WAIT" /\ queue[d] = 0 /\ ~Moving(d)
    /\ ptr[d]
    /\ UNCHANGED <<clientVars, mailVars, memVars, cbVars, issleeping, queue, sent>>

\* ... and followed; the counter of a call that has returned holds anything.
TestCounter(d) ==
    /\ \E v \in IF cpc \in {"idle", "drain"} THEN {0, 1} ELSE {counter} :
          Goto(d, "deref", IF v = 0 THEN "reply" ELSE "loop")
    /\ UNCHANGED <<clientVars, mailVars, memVars, cbVars, issleeping, queue, sent>>

Reply(d) ==
    /\ Goto(d, "reply", "loop")
    /\ RequestReply(d)
    /\ UNCHANGED <<cpc, ci, pushed, syncs, ptr, counter, memVars, cbVars, issleeping,
                   queue, sent>>

-----------------------------------------------------------------------------
(* The transfers, seen by the thread of the device that moves the tile.    *)

\* callback_activate_replica_on_receive_cbk, up to the list of callbacks.
TransferEnds(e) ==
    /\ dpc[e] \in {"loop", "sub"} /\ calls[e] = <<>> /\ op[e] # "REPLY"
    /\ \E t \in Tiles :
          /\ cbk[t] # <<>> /\ Head(cbk[t]) = e
          /\ valid' = [valid EXCEPT ![t] = @ \cup {Host}]
          /\ calls' = [calls EXCEPT ![e] = cbk[t]]
          /\ cbk' = [cbk EXCEPT ![t] = <<>>]
    /\ UNCHANGED <<clientVars, mailVars, rw, due, dpc, issleeping, queue, sent>>

\* callback_replyrequest_memsync of the next device in the list: the counter ...
CallbackDecr(e) ==
    /\ calls[e] # <<>> /\ e \notin due
    /\ LET d == Head(calls[e])
           c == IF ptr[d] THEN counter - 1 ELSE counter
       IN /\ counter' = c
          /\ IF ptr[d] /\ c # 0
             THEN calls' = [calls EXCEPT ![e] = Tail(@)] /\ UNCHANGED due
             ELSE due' = due \cup {e} /\ UNCHANGED calls
    /\ UNCHANGED <<clientVars, op, ptr, memVars, dpc, issleeping, queue, sent>>

\* ... and the reply.
CallbackReply(e) ==
    /\ e \in due
    /\ due' = due \ {e}
    /\ calls' = [calls EXCEPT ![e] = Tail(@)]
    /\ RequestReply(Head(calls[e]))
    /\ UNCHANGED <<cpc, ci, pushed, syncs, ptr, counter, memVars, dpc, issleeping,
                   queue, sent>>

-----------------------------------------------------------------------------
Client ==
    \/ \E d \in Devices : Push(d)
    \/ SyncAll \/ Drained \/ Count \/ Request2Device \/ RequestWait

DeviceThread(d) ==
    \/ TestIdle(d) \/ Sleep(d) \/ WokenUp(d) \/ RunTask(d)
    \/ Memsync(d) \/ WritebackAll(d) \/ AddSent(d) \/ SubBig(d) \/ SetWait(d)
    \/ TestPointer(d) \/ TestCounter(d) \/ Reply(d)
    \/ CallbackDecr(d) \/ CallbackReply(d)

Next == Client \/ \E d \in Devices : DeviceThread(d) \/ TransferEnds(d)

Spec == Init /\ [][Next]_vars

\* The caller, once in a call, and the device threads run; transfers end.
FairSpec ==
    /\ Spec
    /\ WF_vars(Client /\ cpc # "idle")
    /\ \A d \in Devices : WF_vars(DeviceThread(d)) /\ WF_vars(TransferEnds(d))

-----------------------------------------------------------------------------
(* Properties.                                                             *)

Ops == {"NOP", "REPLY", "WRITEBACK", "WRITEBACK_WAIT", "MEMSYNC"}

\* Every variable holds a value of its type; sync_counter never wraps below zero.
TypeOK ==
    /\ cpc \in {"idle", "drain", "count", "post", "wait"}
    /\ ci \in Devices /\ blocked \in BOOLEAN
    /\ counter \in Nat
    /\ op \in [Devices -> Ops]
    /\ ptr \in [Devices -> BOOLEAN]
    /\ dpc \in [Devices -> {"loop", "sleep", "asleep", "writeback", "add", "sub",
                            "setwait", "deref", "reply"}]
    /\ issleeping \in [Devices -> BOOLEAN]
    /\ queue \in [Devices -> Nat]
    /\ sent \in [Devices -> Nat]
    /\ valid \in [Tiles -> SUBSET (Devices \cup {Host})]
    /\ rw \in [Tiles -> SUBSET Devices]
    /\ cbk \in [Tiles -> Seq(Devices)]
    /\ calls \in [Devices -> Seq(Devices)]
    /\ due \subseteq Devices
    /\ pushed \in 0..MaxTasks /\ syncs \in 0..MaxSyncs

\* When xkblas_memory_syncall returns, every tile is valid in the host memory
\* (xkblas.h: "memory on the host is coherent with copies on different devices").
HostCoherent ==
    [][(cpc = "wait" /\ cpc' = "idle") => \A t \in Tiles : Host \in valid'[t]]_vars

\* The callbacks that have not decremented the counter yet: of a device, at the host
\* replica of a tile or in the list that a thread runs.
OnTile  == {p \in Tiles \X Devices : \E k \in DOMAIN cbk[p[1]] : cbk[p[1]][k] = p[2]}
InCalls == {p \in Devices \X Devices :
               \E k \in DOMAIN calls[p[1]] : calls[p[1]][k] = p[2] /\ (k = 1 => p[1] \notin due)}

\* The transfers that a device has started and not added to the counter yet.
Unsent == {p \in Devices \X (1..Cardinality(Tiles)) : dpc[p[1]] = "add" /\ p[2] <= sent[p[1]]}

\* d has no callback that must still run.
Free(d) == (\A t \in Tiles : <<t, d>> \notin OnTile) /\ \A e \in Devices : <<e, d>> \notin InCalls

\* d has been counted by the caller and has not withdrawn its contribution.
Engaged(d) == ptr[d] /\ \/ cpc = "post" /\ ci = d
                        \/ op[d] = "MEMSYNC"
                        \/ dpc[d] \in {"writeback", "add", "sub"}

\* During the first call the shared counter holds Big for each engaged device plus
\* the callbacks not run yet, less what a device has sent and not added yet. (A
\* later call may find the request it posted overwritten: see RequestKept.)
CounterExact ==
    syncs = 0 /\ cpc \in {"count", "post", "wait"} =>
        counter + Cardinality(Unsent) =
            Big * Cardinality({d \in Devices : Engaged(d)})
            + Cardinality(OnTile) + Cardinality(InCalls)

\* In the first call, a device whose mail box holds the reply has nothing left to
\* send: "callback will not prematurely signal the client"
\* (kaapi_offload_synchronize). In a later call it may be a late reply to the first.
NoEarlyReply ==
    syncs = 0 => \A d \in Devices : op[d] = "REPLY" => ~Engaged(d) /\ Free(d)

\* Violated: the last device replies, the caller consumes the reply and posts the
\* request of its next call, and SetWait overwrites it.  A posted request stays
\* until the device thread takes it ("post until request processed by cuda
\* thread", kaapi_offload_request2device).
RequestKept ==
    [][\A d \in Devices : op[d] = "MEMSYNC" => op'[d] \in {"MEMSYNC", "WRITEBACK"}]_vars

\* Violated: a task pushed between TestIdle and Sleep does not wake the device.
\* xkblas_memory_syncall returns ("Wait until all tasks have been executed and
\* memory on the host is coherent", xkblas.h).
SyncAllReturns == (cpc = "drain") ~> (cpc = "idle")

=============================================================================
