------------------------------ MODULE Services ------------------------------
(***************************************************************************)
(* The services round a device: its task pipeline, its io streams in the   *)
(* three plugins, the daemon that registers host memory, the barrier of a  *)
(* team, the recorder of events and the life of the device threads.  They  *)
(* share no variable here: comp, chosen at the start, is the one component *)
(* that moves, so that one run explores each of them and checks liveness   *)
(* under the fairness each module states.                                  *)
(***************************************************************************)
EXTENDS DevicePipeline

CONSTANTS
    Pushers, IoDevice, \* IoStream: the threads that push, the device thread
    Plugins,           \* plugin |-> the other parameters of its IoStream
    RegClients, RegSize, MaxReq,                          \* HostRegister
    TeamThreads, BarRounds,                               \* TeamBarrier
    TraceDevices, TraceTasks, TraceRounds, BufSize, MaxBufs,  \* TraceRecorder
    NumGpus, GpuSets, LifeRounds, LifeTasks, HostFirst    \* DeviceLife

ASSUME ServicesAssumption ==
    /\ RegSize \in Nat \ {0} /\ MaxReq \in Nat
    /\ IsFiniteSet(TeamThreads) /\ 0 \in TeamThreads /\ BarRounds \in Nat
    /\ IsFiniteSet(Pushers) /\ Pushers \subseteq Nat \ {0} /\ IoDevice \in Pushers
    /\ \A name \in {"cuda", "hip", "host"} :
          /\ Plugins[name].NS \in Nat \ {0} /\ Plugins[name].Kern \in BOOLEAN
          /\ Plugins[name].Count \in Nat \ {0} /\ Plugins[name].ConcKernel \in Nat
          /\ Plugins[name].MaxOps \in Nat
    /\ NumGpus \subseteq Nat /\ \E most \in NumGpus : \A some \in NumGpus : some <= most
    /\ \A set \in GpuSets : IsFiniteSet(set)

VARIABLES
    comp,
    \* IoStream
    next, mutex, pos_w, pos_r, pos_wp, pos_rp, ok_p, instr, pending, end_event,
    overrun, push, spin, where, ended, phase, cur, size, called,
    \* HostRegister
    plugin_initialized, posw, posr, req, daemon, exec, client, performed, locked,
    blocked, answer, final,
    \* TeamBarrier
    cycle, count, wait_cycle, term, bpc, current_cycle, wcycle, left, signals,
    arrived,
    \* TraceRecorder
    evb, eventbuffer, listevt, listfree, malloced, collector, finalize, file,
    clock, todo, ready, executed, tround, stage, tphase, rpos, region, rows, bad,
    \* DeviceLife
    main, at, dround, ids, kaapi_ldid, map_ldid2ld, gpuDomains, ldid, lid, table,
    nodes, state, dpc, ndevices, ndevices_commit, peers, issleeping, queue,
    last_ldid, pushes

Cuda == INSTANCE IoStream WITH Plugin <- "cuda", Device <- IoDevice, NS <- Plugins["cuda"].NS,
            Kern <- Plugins["cuda"].Kern, Count <- Plugins["cuda"].Count,
            ConcKernel <- Plugins["cuda"].ConcKernel, MaxOps <- Plugins["cuda"].MaxOps
Hip == INSTANCE IoStream WITH Plugin <- "hip", Device <- IoDevice, NS <- Plugins["hip"].NS,
            Kern <- Plugins["hip"].Kern, Count <- Plugins["hip"].Count,
            ConcKernel <- Plugins["hip"].ConcKernel, MaxOps <- Plugins["hip"].MaxOps
Host == INSTANCE IoStream WITH Plugin <- "host", Device <- IoDevice, NS <- Plugins["host"].NS,
            Kern <- Plugins["host"].Kern, Count <- Plugins["host"].Count,
            ConcKernel <- Plugins["host"].ConcKernel, MaxOps <- Plugins["host"].MaxOps
Reg == INSTANCE HostRegister WITH Clients <- RegClients
Bar == INSTANCE TeamBarrier WITH Threads <- TeamThreads, Rounds <- BarRounds, pc <- bpc
Trace == INSTANCE TraceRecorder WITH Devices <- TraceDevices, Tasks <- TraceTasks,
            Rounds <- TraceRounds, Size <- BufSize, round <- tround, phase <- tphase
Life == INSTANCE DeviceLife WITH MaxRounds <- LifeRounds, MaxTasks <- LifeTasks,
            i <- at, round <- dround, pc <- dpc

pipelineVars == vars
streamVars == <<next, mutex, pos_w, pos_r, pos_wp, pos_rp, ok_p, instr, pending,
                end_event, overrun, push, spin, where, ended, phase, cur, size, called>>
registerVars == <<plugin_initialized, posw, posr, req, daemon, exec, client,
                  performed, locked, blocked, answer, final>>
barrierVars == <<cycle, count, wait_cycle, term, bpc, current_cycle, wcycle, left,
                 signals, arrived>>
traceVars == <<evb, eventbuffer, listevt, listfree, malloced, collector, finalize,
               file, clock, todo, ready, executed, tround, stage, tphase, rpos,
               region, rows, bad>>
lifeVars == <<main, at, dround, ids, kaapi_ldid, map_ldid2ld, gpuDomains, ldid,
              lid, table, nodes, state, dpc, ndevices, ndevices_commit, peers,
              issleeping, queue, last_ldid, pushes>>

\* Component c moves, the others do not.
Only(c) ==
    /\ comp = c /\ UNCHANGED comp
    /\ IF c = "pipeline" THEN TRUE ELSE UNCHANGED pipelineVars
    /\ IF c \in {"cuda", "hip", "host"} THEN TRUE ELSE UNCHANGED streamVars
    /\ IF c = "register" THEN TRUE ELSE UNCHANGED registerVars
    /\ IF c = "barrier" THEN TRUE ELSE UNCHANGED barrierVars
    /\ IF c = "trace" THEN TRUE ELSE UNCHANGED traceVars
    /\ IF c = "life" THEN TRUE ELSE UNCHANGED lifeVars

ServicesInit ==
    /\ Init /\ Reg!Init /\ Bar!Init /\ Trace!Init /\ Life!Init
    /\ \/ comp \in {"pipeline", "cuda", "register", "barrier", "trace", "life"} /\ Cuda!Init
       \/ comp = "hip" /\ Hip!Init
       \/ comp = "host" /\ Host!Init

PipelineNext ==
    \/ Only("pipeline") /\ Prepare
    \/ Only("pipeline") /\ AcquireData
    \/ Only("pipeline") /\ Publish
    \/ Only("pipeline") /\ EndPrepare
    \/ Only("pipeline") /\ EndPoll
    \/ \E j \in Index :
          \/ Only("pipeline") /\ Epilogue(j)
          \/ Only("pipeline") /\ DecrWc(j)
          \/ Only("pipeline") /\ SetValid(j)
    \/ Only("pipeline") /\ Done

CudaNext ==
    \/ \E p \in Pushers :
          \/ Only("cuda") /\ Cuda!CallPush(p)
          \/ Only("cuda") /\ Cuda!Spin(p)
          \/ Only("cuda") /\ Cuda!StreamPush(p)
          \/ Only("cuda") /\ Cuda!LeaveUnlocked(p)
          \/ Only("cuda") /\ Cuda!InsertTask(p)
          \/ Only("cuda") /\ Cuda!InsertCopy(p)
    \/ Only("cuda") /\ Cuda!OnestreamProcessInstruction
    \/ Only("cuda") /\ Cuda!ProcessInstruction
    \/ Only("cuda") /\ Cuda!TestStream
    \/ Only("cuda") /\ Cuda!SkipStream
    \/ Only("cuda") /\ Cuda!ProcessPending
    \/ Only("cuda") /\ Cuda!NextStream
    \/ Only("cuda") /\ Cuda!WaitStream
    \/ \E o \in Cuda!Ops : Only("cuda") /\ Cuda!EndOperation(o)

\* The other two plugins differ in what the actions above do.
OtherPluginsNext ==
    \/ Only("hip") /\ Hip!Next
    \/ Only("host") /\ Host!Next

RegisterNext ==
    \/ \E c \in RegClients :
          \/ Only("register") /\ Reg!PostRequest(c)
          \/ Only("register") /\ Reg!EndWait(c)
          \/ Only("register") /\ Reg!SpuriousWakeUp(c)
          \/ Only("register") /\ Reg!WaitAll(c)
          \/ Only("register") /\ Reg!EndWaitAll(c)
          \/ \E h \in Reg!Handles : Only("register") /\ Reg!Test(c, h)
          \/ \E h \in Reg!Handles : Only("register") /\ Reg!WaitOver(c, h)
          \/ \E h \in Reg!Handles : Only("register") /\ Reg!Wait(c, h)
    \/ Only("register") /\ Reg!DaemonTest
    \/ Only("register") /\ Reg!DaemonWait
    \/ Only("register") /\ Reg!Perform
    \/ Only("register") /\ Reg!Finish
    \/ Only("register") /\ Reg!FinishBlocked
    \/ Only("register") /\ Reg!FinalizeFlag
    \/ Only("register") /\ Reg!FinalizeSignal
    \/ Only("register") /\ Reg!FinalizeJoin

BarrierNext ==
    \/ \E t \in TeamThreads :
          \/ Only("barrier") /\ Bar!Enter(t)
          \/ Only("barrier") /\ Bar!ReadWaitCycle(t)
          \/ Only("barrier") /\ Bar!Arrive(t)
          \/ Only("barrier") /\ Bar!Clean(t)
          \/ Only("barrier") /\ Bar!Turn(t)
          \/ Only("barrier") /\ Bar!Spin(t)
          \/ Only("barrier") /\ Bar!Exit(t)
          \/ Only("barrier") /\ Bar!SignalTerm(t)
          \/ Only("barrier") /\ Bar!EndTerm(t)
    \/ Only("barrier") /\ Bar!Signal
    \/ Only("barrier") /\ Bar!Done

TraceNext ==
    \/ \E t \in Trace!Threads :
          \/ Only("trace") /\ Trace!Record(t)
          \/ Only("trace") /\ Trace!NewBuffer(t)
          \/ Only("trace") /\ Trace!CloseBuffer(t)
    \/ Only("trace") /\ Trace!Submit
    \/ \E d \in TraceDevices :
          \/ Only("trace") /\ Trace!Execute(d)
          \/ Only("trace") /\ Trace!StopDevice(d)
    \/ Only("trace") /\ Trace!Collect
    \/ Only("trace") /\ Trace!WriteEvb
    \/ Only("trace") /\ Trace!Fini
    \/ Only("trace") /\ Trace!Join
    \/ Only("trace") /\ Trace!Read
    \/ Only("trace") /\ Trace!Done

LifeNext ==
    \/ Only("life") /\ Life!KaapiInit
    \/ Only("life") /\ Life!ConfigDevice
    \/ Only("life") /\ Life!Started
    \/ Only("life") /\ Life!BeginFinalize
    \/ Only("life") /\ Life!SetStop
    \/ Only("life") /\ Life!Wakeup
    \/ Only("life") /\ Life!StopWait
    \/ Only("life") /\ Life!AllStopped
    \/ Only("life") /\ Life!Join
    \/ Only("life") /\ Life!KaapiFinalize
    \/ \E h \in Life!Hints : Only("life") /\ Life!Push(h)
    \/ \E d \in Life!Devices :
          \/ Only("life") /\ Life!Create(d)
          \/ Only("life") /\ Life!DeviceInit(d)
          \/ Only("life") /\ Life!CountDevice(d)
          \/ Only("life") /\ Life!Commit(d)
          \/ Only("life") /\ Life!Start(d)
          \/ Only("life") /\ Life!RunTask(d)
          \/ Only("life") /\ Life!Test(d)
          \/ Only("life") /\ Life!Sleep(d)
          \/ Only("life") /\ Life!WokenUp(d)
          \/ Only("life") /\ Life!Stopped(d)
          \/ Only("life") /\ Life!DeviceFinalize(d)

ServicesNext ==
    \/ PipelineNext \/ CudaNext \/ OtherPluginsNext
    \/ RegisterNext \/ BarrierNext \/ TraceNext \/ LifeNext

-----------------------------------------------------------------------------
(* The fairness of each module, for the component that moves.              *)

PipelineFairness ==
    /\ WF_pipelineVars(comp = "pipeline" /\ (Prepare \/ EndPrepare \/ EndPoll))
    /\ WF_pipelineVars(comp = "pipeline" /\ Publish)
    /\ WF_pipelineVars(comp = "pipeline" /\ \E j \in Index :
                            Epilogue(j) \/ DecrWc(j) \/ SetValid(j))

PollDevice ==
    \/ comp = "cuda" /\ Cuda!PollDevice
    \/ comp = "hip" /\ Hip!PollDevice
    \/ comp = "host" /\ Host!PollDevice

StreamPush ==
    \/ comp = "cuda" /\ \E p \in Pushers : Cuda!StreamPush(p) \/ Cuda!LeaveUnlocked(p)
    \/ comp = "hip" /\ \E p \in Pushers : Hip!StreamPush(p) \/ Hip!LeaveUnlocked(p)
    \/ comp = "host" /\ \E p \in Pushers : Host!StreamPush(p) \/ Host!LeaveUnlocked(p)

InsertTask ==
    \/ comp = "cuda" /\ \E p \in Pushers : Cuda!InsertTask(p)
    \/ comp = "hip" /\ \E p \in Pushers : Hip!InsertTask(p)
    \/ comp = "host" /\ \E p \in Pushers : Host!InsertTask(p)

EndOperation ==
    \/ comp = "cuda" /\ \E o \in Cuda!Ops : Cuda!EndOperation(o)
    \/ comp = "hip" /\ \E o \in Hip!Ops : Hip!EndOperation(o)
    \/ comp = "host" /\ \E o \in Host!Ops : Host!EndOperation(o)

StreamFairness ==
    /\ WF_streamVars(PollDevice) /\ SF_streamVars(StreamPush)
    /\ WF_streamVars(InsertTask) /\ WF_streamVars(EndOperation)

RegisterFairness ==
    /\ WF_registerVars(comp = "register" /\ Reg!Daemon)
    /\ WF_registerVars(comp = "register" /\ (Reg!FinalizeSignal \/ Reg!FinalizeJoin))
    /\ SF_registerVars(comp = "register" /\ \E c \in RegClients :
                            Reg!EndWait(c) \/ Reg!EndWaitAll(c))

BarrierFairness ==
    WF_barrierVars(comp = "barrier" /\ ((\E t \in TeamThreads : Bar!Step(t)) \/ Bar!Signal))

TraceFairness == WF_traceVars(comp = "trace" /\ Trace!Next)

LifeFairness ==
    WF_lifeVars(comp = "life" /\ ((\E d \in Life!Devices : Life!ThreadStep(d))
                                  \/ Life!ConfigDevice \/ Life!Started))

allVars == <<comp, pipelineVars, streamVars, registerVars, barrierVars, traceVars,
             lifeVars>>

ServicesSpec ==
    /\ ServicesInit /\ [][ServicesNext]_allVars
    /\ PipelineFairness /\ StreamFairness /\ RegisterFairness
    /\ BarrierFairness /\ TraceFairness /\ LifeFairness

-----------------------------------------------------------------------------
(* What each component promises, beside the invariants of DevicePipeline.   *)

\* IoStream: as long as no pending ring, whose capacity nothing tests, took an
\* instruction when it was full, callbacks are called once each, in the order of
\* the pushes and after the end of their operation, and no instruction is lost
\* between two pushers nor overwritten
\* (kaapi_offload_stream_push, kaapi_offload_stream_process_pending).
StreamsSound ==
    /\ comp = "cuda" => Cuda!StreamSound
    /\ comp = "hip" => Hip!StreamSound
    /\ comp = "host" => Host!StreamSound

\* HostRegister: requests are performed once each, in the order of their
\* handles, although slots of the ring are used again, and a wait that was
\* signalled, found its request over or waited for all of them returns only for
\* requests the daemon has performed (xkblas_register_memory_wait).
RegisterInv == Reg!RegisterInv

\* TeamBarrier: no thread passes a barrier before all have arrived, although
\* the three counters are used in turn; a worker leaves after the master's
\* signal and the master ends after the workers (kaapi_team_barrier_wait).
BarrierSound == Bar!BarrierSound

\* TraceRecorder: the file of a thread holds its events in the order of their
\* dates, although buffers are used again, and ukilli finds in them a complete
\* row for every execution, copy and kernel, although the addresses of tasks are
\* used again (kaapi_eventrecorder.c, kaapi_trace_lib.c).
TraceSound == Trace!FilesInOrder /\ Trace!RowsComplete

\* DeviceLife: a device commits when its peers all have an address space; an
\* address space, a domain and a node then have one number after any sequence of
\* starts and stops, tasks go where their hint says, or to each device in turn,
\* and kaapi_finalize leaves nothing behind (kaapi_offload_device_commit,
\* kaapi_localitydomain_attach, kaapi_thread_push).
LifeSound ==
    Life!PeersKnown /\ Life!LidNamesDomain /\ Life!TaskFollowsTile /\ Life!CleanRestart

\* Nothing waits for ever.  Tasks of the pipeline are executed; every instruction
\* gets its callback unless a pending ring was overrun; a client that waits for a
\* registration nobody else waits for returns; threads
\* pass every barrier; kaapi_eventrecorder_fini joins the collector and kaapi_init
\* returns.
ServicesProgress ==
    /\ AllExecuted
    /\ Hip!EveryCallback
    /\ Reg!WaitsReturn
    /\ (comp = "barrier" => Bar!BarriersEnd)
    /\ (comp = "trace" => Trace!TraceEnds)
    /\ Life!InitReturns
=============================================================================
