---------------------------- MODULE DataFlowInv ----------------------------
(***************************************************************************)
(* The inductive invariant behind the safety properties of DataFlow, in    *)
(* named parts.  DataFlowProofs shows that it is inductive for every value *)
(* of the constants, MCDataFlow checks it on small instances.              *)
(***************************************************************************)
EXTENDS DataFlow

Committed    == {t \in Tasks : tstate[t] \notin {"free", "alloc"}}
Executed     == {t \in Tasks : tstate[t] = "done"}
Writebacks   == {t \in Committed : kind[t] = "writeback"}
\* The write-backs whose data has been counted as arrived on the host.
Home         == {t \in Writebacks : tstate[t] \in {"launched", "epilogue", "done"}
                                    /\ t \notin flight}

\* Shape of the graph: generations grow with program order, two accesses of a
\* generation are concurrent, and the last generation has the last mode.
GraphShape ==
    /\ \A h \in Handles :
          /\ nsync[h] <= Len(acc)
          /\ nsync[h] # 0 => \E i \in DOMAIN acc : acc[i].h = h
          /\ nsync[h] # 0 => lastmode[h] \in Modes
    /\ \A i \in DOMAIN acc :
          /\ acc[i].gen <= nsync[acc[i].h]
          /\ acc[i].gen = nsync[acc[i].h] => acc[i].mode = lastmode[acc[i].h]
    /\ \A i, j \in DOMAIN acc :
          acc[i].h = acc[j].h =>
             /\ i < j => acc[i].gen <= acc[j].gen
             /\ i # j /\ acc[i].gen = acc[j].gen
                   => Concurrent(acc[i].mode, acc[j].mode)

\* Where the main thread is, and what has been released so far.
MainShape ==
    /\ cur # NoTask => phase = "build" /\ tstate[cur] = "alloc"
    /\ \A t \in Tasks : tstate[t] = "alloc" => t = cur
    /\ phase = "build" => pend = {} /\ ready = {} /\ sig = {}
    /\ phase = "wait" => pend = {}
    /\ phase # "build" => round < MaxRounds
    /\ phase # "activate" => walk[Main] = {}
    /\ \A h \in pend : nsync[h] # 0
    /\ \A h \in Handles :
          swc[h][0] = IF phase = "build" \/ h \in pend \/ nsync[h] = 0 THEN 1 ELSE 0

\* Life cycle of a task against its accesses.
TaskShape ==
    /\ \A t \in Tasks :
          /\ tstate[t] = "free" => AccessesOf(t) = {}
          /\ tstate[t] = "waiting" => AccessesOf(t) \ ready # {}
          /\ tstate[t] \in Started \cup {"ready"} => AccessesOf(t) \subseteq ready
          /\ tstate[t] = "done" => AccessesOf(t) \subseteq sig
    /\ \A i \in sig : tstate[acc[i].task] \in Finished

\* An access is notified only when its generation is released: sync0 and all
\* accesses of the earlier generations of the handle were signalled.
Released ==
    \A i \in DOMAIN acc :
        (i \in ready \/ \E th \in Threads : i \in walk[th]) =>
            /\ swc[acc[i].h][0] = 0
            /\ \A j \in DOMAIN acc :
                  acc[j].h = acc[i].h /\ acc[j].gen < acc[i].gen => j \in sig

\* Nobody traverses an access that is ready, or that another one traverses.
WalksApart ==
    /\ \A th \in Threads : walk[th] \cap ready = {}
    /\ \A th1, th2 \in Threads : th1 # th2 => walk[th1] \cap walk[th2] = {}

\* A device thread traverses lists inside an epilogue only.
DeviceShape ==
    /\ \A d \in Devices :
          /\ walk[d] # {} => epi[d] # NoTask
          /\ epi[d] # NoTask => tstate[epi[d]] = "epilogue" /\ dev[epi[d]] = d
    /\ \A t \in Tasks :
          /\ tstate[t] \in Started => dev[t] \in Devices
          /\ tstate[t] = "epilogue" => epi[dev[t]] = t

\* The two counters of the frame count tasks and arrivals.
FrameShape ==
    /\ flight \subseteq {t \in Writebacks : tstate[t] \in {"launched", "epilogue", "done"}}
    /\ exec = Cardinality(Executed) + Cardinality(Home)
    /\ spawn + cnt = Cardinality(Committed) + Cardinality(Writebacks)
    /\ phase = "wait" => cnt = 0
    /\ phase # "wait" => cnt = Cardinality(Committed)

\* The inductive invariant: the counters of kaapi_update_dependencies and
\* kaapi_sched_activate_syncpoint agree with the graph, the frame counters
\* with the tasks, and each thread is where its state says.
IndInv ==
    /\ TypeOK
    /\ GraphShape
    /\ MainShape
    /\ TaskShape
    /\ Released
    /\ WalksApart
    /\ DeviceShape
    /\ CountersExact
    /\ FrameShape

=============================================================================
