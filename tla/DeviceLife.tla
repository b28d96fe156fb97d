---------------------------- MODULE DeviceLife ------------------------------
(***************************************************************************)
(* The life of the devices (kaapi/kaapi_offload.c, kaapi_offload_device.c) *)
(* and of their locality domains (kaapi/kaapi_ld.c), over several calls of *)
(* kaapi_init and kaapi_finalize, and the choice of the device that gets a *)
(* ready task (kaapi/kaapi_task.c).                                        *)
(*                                                                         *)
(* Device 0 is the host, device 1 + i the i-th graphics processor in use.  *)
(* The main thread starts one thread per device; the threads of one driver *)
(* wait for each other before they look at their peers.                    *)
(***************************************************************************)
EXTENDS Integers, Sequences, FiniteSets

CONSTANTS
    NumGpus,        \* values of KAAPI_NUM_GPUS
    GpuSets,        \* values of KAAPI_GPUSET, sets of device numbers
    MaxRounds,      \* bound: calls of kaapi_init
    MaxTasks,       \* bound: tasks pushed between two of them
    HostFirst       \* the host thread is ready before the GPU driver is

Gpus == 1..(CHOOSE n \in NumGpus : \A k \in NumGpus : k <= n)
Devices == {0} \cup Gpus
None == -1

VARIABLES
    main, i,            \* where the main thread is, and the device it is at
    round,
    ids,                \* kaapi_device_ids
    kaapi_ldid,         \* the next identifier of a domain
    map_ldid2ld,        \* the domain (its device) of an identifier
    gpuDomains,         \* kaapi_all_lddomains of the GPU type
    ldid, lid,          \* of a device: its domain, its address space
    table,              \* kaapi_offload_devices: the devices that are there
    nodes,              \* kaapi_the_dsm.nodes
    state, pc,          \* of a device, of its thread
    ndevices, ndevices_commit,
    peers,              \* device->affinity: the address spaces of the peers
    issleeping, queue,  \* of a device: its thread sleeps, its tasks
    last_ldid,          \* of the context: next domain of the round robin
    pushes              \* the tasks pushed: hint and target

domainVars == <<kaapi_ldid, map_ldid2ld, gpuDomains, ldid>>
taskVars == <<queue, last_ldid, pushes>>
deviceVars == <<lid, table, nodes, state, pc, ndevices, ndevices_commit,
                peers, issleeping>>
vars == <<main, i, round, ids, domainVars, deviceVars, taskVars>>

States == <<"create", "init", "commit", "start", "stop", "stopped",
            "finalized", "destroyed">>

\* The enumeration of the states is ordered.
Rank(s) == IF s = "none" THEN 0 ELSE CHOOSE k \in 1..Len(States) : States[k] = s

Driver(d) == IF d = 0 THEN "host" ELSE "gpu"
Count(driver) == IF driver = "host" THEN 1 ELSE Len(ids)
InUse == {0} \cup {g \in Gpus : g <= Len(ids)}

\* The n smallest numbers of a set, all of it when it has no more.
Nth(S, k) == CHOOSE x \in S : Cardinality({y \in S : y < x}) = k - 1
Smallest(S, n) ==
    LET size == Cardinality(S)
    IN  [k \in 1..(IF n < size THEN n ELSE size) |-> Nth(S, k)]

Init ==
    /\ main = "out" /\ i = 0 /\ round = 0 /\ ids = <<>>
    /\ kaapi_ldid = 0 /\ map_ldid2ld = <<>> /\ gpuDomains = <<>>
    /\ ldid = [d \in Devices |-> None] /\ lid = [d \in Devices |-> None]
    /\ table = {} /\ nodes = <<>>
    /\ state = [d \in Devices |-> "none"] /\ pc = [d \in Devices |-> "none"]
    /\ ndevices = [x \in {"host", "gpu"} |-> 0]
    /\ ndevices_commit = [x \in {"host", "gpu"} |-> 0]
    /\ peers = [d \in Devices |-> {}]
    /\ issleeping = [d \in Devices |-> FALSE]
    /\ queue = [d \in Devices |-> 0] /\ last_ldid = 0 /\ pushes = <<>>

-----------------------------------------------------------------------------
(* kaapi_init.                                                             *)

\* kaapi_setup_param and the init of the GPU driver select the devices.
KaapiInit ==
    /\ main = "out" /\ round < MaxRounds
    /\ \E n \in NumGpus, set \in GpuSets : ids' = Smallest(set, n)
    /\ main' = "config" /\ i' = 0 /\ round' = round + 1
    /\ ndevices' = [x \in {"host", "gpu"} |-> 0]
    /\ ndevices_commit' = [x \in {"host", "gpu"} |-> 0]
    /\ UNCHANGED <<domainVars, lid, table, nodes, state, pc, peers, issleeping, taskVars>>

\* kaapi_localitydomain_attach.  After a restart the first cell of the map
\* is not initialised: here it is absent.
Attach(d) ==
    /\ ldid' = [ldid EXCEPT ![d] = kaapi_ldid]
    /\ kaapi_ldid' = kaapi_ldid + 1
    /\ map_ldid2ld' = [l \in DOMAIN map_ldid2ld \cup {kaapi_ldid} |->
                         IF l = kaapi_ldid THEN d ELSE map_ldid2ld[l]]
    /\ gpuDomains' = IF d = 0 THEN gpuDomains ELSE Append(gpuDomains, d)

\* kaapi_offload_config_devices, one device of the host or GPU driver.
ConfigDevice ==
    /\ main = "config" /\ i \in InUse
    /\ (HostFirst /\ i = 1) => state[0] = "start"
    /\ Attach(i)
    /\ pc' = [pc EXCEPT ![i] = "create"]
    /\ i' = i + 1
    /\ UNCHANGED <<main, round, ids, lid, table, nodes, state, ndevices,
                   ndevices_commit, peers, issleeping, taskVars>>

\* kaapi_offload_start: only the GPU driver is waited for.
Started ==
    /\ main = "config" /\ i \notin InUse
    /\ ndevices_commit["gpu"] >= Len(ids)
    /\ main' = "running"
    /\ UNCHANGED <<i, round, ids, domainVars, deviceVars, taskVars>>

-----------------------------------------------------------------------------
(* The thread of a device, kaapi_offload_device_thread.                    *)

At(d, from, to) == pc[d] = from /\ pc' = [pc EXCEPT ![d] = to]
SetState(d, s) == state' = [state EXCEPT ![d] = s]

\* device_create, and the entry of the device in the table
Create(d) ==
    /\ At(d, "create", "init") /\ SetState(d, "create")
    /\ table' = table \cup {d}
    /\ UNCHANGED <<main, i, round, ids, domainVars, lid, nodes, ndevices,
                   ndevices_commit, peers, issleeping, taskVars>>

\* Defect: address spaces are numbered as they come.
LidByArrival(d) == IF d = 0 THEN 0 ELSE 1 + Cardinality(DOMAIN nodes \ {0})

\* kaapi_dsm_register_device: the address space of the device
Lid(d) == IF d = 0 THEN 0 ELSE ldid[d]

\* kaapi_offload_device_init
DeviceInit(d) ==
    /\ At(d, "init", "count") /\ SetState(d, "init")
    /\ lid' = [lid EXCEPT ![d] = Lid(d)]
    /\ nodes' = [l \in DOMAIN nodes \cup {Lid(d)} |->
                   IF l = Lid(d) THEN d ELSE nodes[l]]
    /\ UNCHANGED <<main, i, round, ids, domainVars, table, ndevices,
                   ndevices_commit, peers, issleeping, taskVars>>

CountDevice(d) ==
    /\ At(d, "count", "barrier")
    /\ ndevices' = [ndevices EXCEPT ![Driver(d)] = @ + 1]
    /\ UNCHANGED <<main, i, round, ids, domainVars, lid, table, nodes, state,
                   ndevices_commit, peers, issleeping, taskVars>>

\* All threads of the driver have initialised their device.
Barrier(d) == ndevices[Driver(d)] >= Count(Driver(d))

\* f_device_commit notes the address spaces of the peers.
Commit(d) ==
    /\ At(d, "barrier", "committed") /\ Barrier(d)
    /\ SetState(d, "commit")
    /\ peers' = [peers EXCEPT ![d] = IF d = 0 THEN {}
                                     ELSE {lid[e] : e \in InUse \ {0}}]
    /\ UNCHANGED <<main, i, round, ids, domainVars, lid, table, nodes, ndevices,
                   ndevices_commit, issleeping, taskVars>>

CountCommit(d) == ndevices_commit' = [ndevices_commit EXCEPT ![Driver(d)] = @ + 1]

Start(d) ==
    /\ At(d, "committed", "loop") /\ SetState(d, "start")
    /\ CountCommit(d)
    /\ UNCHANGED <<main, i, round, ids, domainVars, lid, table, nodes, ndevices,
                   peers, issleeping, taskVars>>

\* kaapi_sched_idle_offload, reduced to what the end of the thread depends
\* on: a task is executed ...
RunTask(d) ==
    /\ pc[d] = "loop" /\ queue[d] > 0
    /\ queue' = [queue EXCEPT ![d] = @ - 1]
    /\ UNCHANGED <<main, i, round, ids, domainVars, deviceVars, last_ldid, pushes>>

\* ... or there is none, and the loop ends when the device is to stop ...
Test(d) ==
    /\ pc[d] = "loop" /\ queue[d] = 0
    /\ pc' = [pc EXCEPT ![d] = IF state[d] = "stop" THEN "ended" ELSE "tosleep"]
    /\ UNCHANGED <<main, i, round, ids, domainVars, lid, table, nodes, state,
                   ndevices, ndevices_commit, peers, issleeping, taskVars>>

\* ... or the thread sleeps, kaapi_offload_device_sleep.
Sleep(d) ==
    /\ At(d, "tosleep", "sleeping")
    /\ issleeping' = [issleeping EXCEPT ![d] = TRUE]
    /\ UNCHANGED <<main, i, round, ids, domainVars, lid, table, nodes, state,
                   ndevices, ndevices_commit, peers, taskVars>>

WokenUp(d) ==
    /\ At(d, "sleeping", "loop") /\ ~issleeping[d]
    /\ UNCHANGED <<main, i, round, ids, domainVars, lid, table, nodes, state,
                   ndevices, ndevices_commit, peers, issleeping, taskVars>>

\* The end of the loop, announced to kaapi_offload_device_stop
Stopped(d) ==
    /\ At(d, "ended", "fini") /\ SetState(d, "stopped")
    /\ UNCHANGED <<main, i, round, ids, domainVars, lid, table, nodes,
                   ndevices, ndevices_commit, peers, issleeping, taskVars>>

\* kaapi_dsm_unregister_device; node 0 is left to kaapi_dsm_finalize.
Unregister(d) ==
    nodes' = IF d = 0 THEN nodes ELSE [l \in DOMAIN nodes \ {lid[d]} |-> nodes[l]]

\* _kaapi_offload_device_finalize, localitydomain_deattach and _destroy.  The
\* domains by type, which nothing reads any more, go in KaapiFinalize.
DeviceFinalize(d) ==
    /\ At(d, "fini", "dead") /\ SetState(d, "destroyed")
    /\ Unregister(d)
    /\ map_ldid2ld' = [l \in DOMAIN map_ldid2ld \ {ldid[d]} |-> map_ldid2ld[l]]
    /\ UNCHANGED <<main, i, round, ids, kaapi_ldid, gpuDomains, ldid, lid,
                   table, ndevices, ndevices_commit, peers, issleeping, taskVars>>

-----------------------------------------------------------------------------
(* The choice of a device, kaapi_thread_push.                              *)

\* kaapi_localitydomain_get
Domain(l) == IF l \in DOMAIN map_ldid2ld THEN map_ldid2ld[l] ELSE None

\* What a task may say of its place: nothing, a domain, or an access whose
\* tile is valid on some address spaces and may have a wished one.
GpuLids == {lid[g] : g \in InUse \ {0}}
NoHint == [kind |-> "none", valid |-> {}, wish |-> {}]
Hints ==
    {NoHint}
    \cup [kind : {"bound"}, valid : {{}}, wish : {{l} : l \in GpuLids}]
    \cup [kind : {"ocr"}, valid : SUBSET GpuLids,
          wish : {{}} \cup {{l} : l \in GpuLids}]

\* The devices the hint leads to: a valid replica first, then the wish.
Named(h) == {Domain(l) : l \in IF h.valid # {} THEN h.valid ELSE h.wish} \ {None}

Next1(k) == IF k + 1 >= Len(gpuDomains) THEN 0 ELSE k + 1

Push(h) ==
    /\ main = "running" /\ Len(pushes) < MaxTasks /\ ids # <<>>
    /\ LET turn == gpuDomains[last_ldid + 1]
       IN  \E d \in IF Named(h) # {} THEN Named(h) ELSE {turn} :
             /\ queue' = [queue EXCEPT ![d] = @ + 1]
             /\ issleeping' = [issleeping EXCEPT ![d] = FALSE]
             /\ pushes' = Append(pushes, [hint |-> h, to |-> d])
    /\ last_ldid' = IF Named(h) # {} THEN last_ldid ELSE Next1(last_ldid)
    /\ UNCHANGED <<main, i, round, ids, domainVars, lid, table, nodes, state, pc,
                   ndevices, ndevices_commit, peers>>

-----------------------------------------------------------------------------
(* kaapi_finalize.                                                         *)

\* xkblas_finalize has waited for the tasks and freed the context.
BeginFinalize ==
    /\ main = "running" /\ \A d \in Devices : queue[d] = 0
    /\ main' = "stop" /\ i' = 0
    /\ last_ldid' = 0 /\ pushes' = <<>>
    /\ UNCHANGED <<round, ids, domainVars, deviceVars, queue>>

\* kaapi_offload_device_stop; a device that has not started is not stopped.
SetStop ==
    /\ main = "stop" /\ i \in InUse
    /\ IF Rank(state[i]) >= Rank("start")
       THEN SetState(i, "stop") /\ main' = "wakeup" /\ UNCHANGED i
       ELSE i' = i + 1 /\ UNCHANGED <<main, state>>
    /\ UNCHANGED <<round, ids, domainVars, lid, table, nodes, pc, ndevices,
                   ndevices_commit, peers, issleeping, taskVars>>

\* ... wakes its thread ...
Wakeup ==
    /\ main = "wakeup"
    /\ issleeping' = [issleeping EXCEPT ![i] = FALSE]
    /\ main' = "stopwait"
    /\ UNCHANGED <<i, round, ids, domainVars, lid, table, nodes, state, pc,
                   ndevices, ndevices_commit, peers, taskVars>>

\* ... and waits until it has left its loop.
StopWait ==
    /\ main = "stopwait" /\ state[i] # "stop"
    /\ main' = "stop" /\ i' = i + 1
    /\ UNCHANGED <<round, ids, domainVars, deviceVars, taskVars>>

AllStopped ==
    /\ main = "stop" /\ i \notin InUse
    /\ main' = "join" /\ i' = 0
    /\ UNCHANGED <<round, ids, domainVars, deviceVars, taskVars>>

\* pthread_join
Joined == pc[i] = "dead"

\* kaapi_offload_finalize: the thread is joined, the device freed.
Join ==
    /\ main = "join" /\ i \in InUse /\ Joined
    /\ SetState(i, "none") /\ pc' = [pc EXCEPT ![i] = "none"]
    /\ lid' = [lid EXCEPT ![i] = None] /\ ldid' = [ldid EXCEPT ![i] = None]
    /\ peers' = [peers EXCEPT ![i] = {}]
    /\ i' = i + 1
    /\ UNCHANGED <<main, round, ids, kaapi_ldid, map_ldid2ld, gpuDomains, table,
                   nodes, ndevices, ndevices_commit, issleeping, taskVars>>

\* kaapi_dsm_finalize and kaapi_localitydomain_finalize, after which the
\* identifiers of domains start from 1.
KaapiFinalize ==
    /\ main = "join" /\ i \notin InUse
    /\ table' = {} /\ nodes' = [l \in DOMAIN nodes \ {0} |-> nodes[l]]
    /\ kaapi_ldid' = 1 /\ gpuDomains' = <<>>
    /\ main' = "out" /\ i' = 0 /\ ids' = <<>>
    /\ UNCHANGED <<round, map_ldid2ld, ldid, lid, state, pc, ndevices,
                   ndevices_commit, peers, issleeping, taskVars>>

ThreadStep(d) ==
    \/ Create(d) \/ DeviceInit(d) \/ CountDevice(d) \/ Commit(d) \/ Start(d)
    \/ RunTask(d) \/ Test(d) \/ Sleep(d) \/ WokenUp(d) \/ Stopped(d)
    \/ DeviceFinalize(d)

MainStep ==
    \/ KaapiInit \/ ConfigDevice \/ Started \/ BeginFinalize \/ SetStop
    \/ Wakeup \/ StopWait \/ AllStopped \/ Join \/ KaapiFinalize

Next == MainStep \/ (\E h \in Hints : Push(h)) \/ (\E d \in Devices : ThreadStep(d))

Fairness ==
    WF_vars(ConfigDevice \/ Started \/ \E d \in Devices : ThreadStep(d))

Spec == Init /\ [][Next]_vars /\ Fairness

-----------------------------------------------------------------------------
(* Properties.                                                             *)

\* When a graphics processor commits, every peer has its address space: the
\* set of peers that later decides from where a tile is copied is complete.
PeersKnown ==
    \A d \in InUse \ {0} :
        state[d] \in {"commit", "start"} =>
            peers[d] = {ldid[g] : g \in InUse \ {0}}

\* Once kaapi_init has returned, and whatever was started and stopped before,
\* the address space of a device is also the identifier of its domain and of
\* its node: the runtime uses one in place of the other.
LidNamesDomain ==
    main = "running" =>
        \A g \in InUse \ {0} :
            /\ lid[g] \in DOMAIN nodes /\ nodes[lid[g]] = g
            /\ Domain(lid[g]) = g

\* kaapi_finalize leaves nothing behind: no thread, no node, no domain.
CleanRestart ==
    main = "out" =>
        /\ \A d \in Devices : pc[d] = "none" /\ queue[d] = 0
        /\ DOMAIN nodes = {} /\ DOMAIN map_ldid2ld = {} /\ table = {}

\* A ready task goes to a device that holds the tile it asks to follow, to the
\* device wished for the tile when none holds it, and else to each in turn.
TaskFollowsTile ==
    main = "running" =>
        /\ \A k \in DOMAIN pushes :
              LET h == pushes[k].hint
                  at == lid[pushes[k].to]
              IN  IF h.valid # {} THEN at \in h.valid
                  ELSE h.wish # {} => at \in h.wish
        /\ \A g1, g2 \in InUse \ {0} :
              LET got(g) == Cardinality({k \in DOMAIN pushes :
                                pushes[k].to = g
                                /\ pushes[k].hint.valid \cup pushes[k].hint.wish = {}})
              IN  got(g1) <= got(g2) + 1

\* kaapi_init returns: no thread waits for ever for the others of its driver.
InitReturns == []<>(main # "config")
=============================================================================
