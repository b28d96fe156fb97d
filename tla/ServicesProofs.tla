--------------------------- MODULE ServicesProofs ---------------------------
(***************************************************************************)
(* The safety of the services round a device, under the specification      *)
(* that composes them and for every value of its constants.                *)
(*                                                                         *)
(* DevicePipeline: PipelineInv is inductive for every size of the circular *)
(* buffer.  HostRegister: RegisterInv is inductive for every size of the   *)
(* ring.  TeamBarrier: BarrierInv is inductive for every finite team.      *)
(* IoStream: the invariant of IoStreamProofs, taken over through           *)
(* instances.  DeviceLife: LifeInv is inductive for every choice of        *)
(* devices, whether or not the host is ready before the processors.  A     *)
(* step of the composition is a step of one component and leaves the       *)
(* variables of the others alone.                                          *)
(***************************************************************************)
EXTENDS Services, TLAPS, FiniteSetTheorems

-----------------------------------------------------------------------------
(* DeviceLife.                                                             *)

\* The number of graphics processors in use, and the devices attached and not
\* yet joined.
LifeN == Len(ids)
LifeUp ==
    CASE main = "out"    -> {}
      [] main = "config" -> 0..at - 1
      [] main = "join"   -> at..LifeN
      [] OTHER           -> 0..LifeN

LifeStates == {"none", "create", "init", "commit", "start", "stop", "stopped", "destroyed"}
LifePcs == {"none", "create", "init", "count", "barrier", "committed", "loop", "tosleep",
            "sleeping", "ended", "fini", "dead"}
LifeType ==
    /\ main \in {"out", "config", "running", "stop", "wakeup", "stopwait", "join"}
    /\ at \in 0..LifeN + 1
    /\ main \in {"wakeup", "stopwait"} => at <= LifeN
    /\ LifeN \in Nat /\ 1..LifeN \subseteq Life!Gpus
    /\ main = "out" => LifeN = 0
    /\ LifeN = 0 => ids = <<>>
    /\ ldid \in [Life!Devices -> Int] /\ lid \in [Life!Devices -> Int]
    /\ peers \in [Life!Devices -> SUBSET Int]
    /\ state \in [Life!Devices -> LifeStates] /\ dpc \in [Life!Devices -> LifePcs]
    /\ queue \in [Life!Devices -> Nat]
    /\ ndevices \in [{"host", "gpu"} -> Nat] /\ ndevices_commit \in [{"host", "gpu"} -> Nat]

\* The progress of a device from its attachment to its end.
LifeStarting(d) ==
    \/ dpc[d] = "create" /\ state[d] = "none"
    \/ dpc[d] = "init" /\ state[d] = "create"
    \/ dpc[d] \in {"count", "barrier"} /\ state[d] = "init"
    \/ dpc[d] = "committed" /\ state[d] = "commit"
LifeLooping(d) == dpc[d] \in {"loop", "tosleep", "sleeping"} /\ state[d] = "start"
LifeStopping(d) == dpc[d] \in {"loop", "tosleep", "sleeping", "ended"} /\ state[d] = "stop"
LifeGone(d) ==
    \/ dpc[d] = "fini" /\ state[d] = "stopped"
    \/ dpc[d] = "dead" /\ state[d] = "destroyed"

\* Only the host may still be starting when the main thread goes on; it is then
\* left out by the stop.
LifeSlow(d) == LifeLooping(d) \/ (d = 0 /\ LifeStarting(d))
LifeLeft(d) == LifeGone(d) \/ (d = 0 /\ (LifeStarting(d) \/ LifeLooping(d)))
LifeStage ==
    \A d \in LifeUp :
        /\ main = "config" => LifeStarting(d) \/ LifeLooping(d)
        /\ main = "running" => LifeSlow(d)
        /\ main \in {"stop", "wakeup", "stopwait"} /\ d < at => LifeLeft(d)
        /\ main \in {"stop", "wakeup", "stopwait"} /\ d > at => LifeSlow(d)
        /\ main = "stop" /\ d = at => LifeSlow(d)
        /\ main \in {"wakeup", "stopwait"} /\ d = at => LifeStopping(d) \/ LifeGone(d)
        /\ main = "join" => LifeLeft(d)

\* The address space of a device that has one; b is the first domain.
LifeLid(b, d) == IF d = 0 THEN 0 ELSE b + d
LifeNumbers(b) ==
    \A d \in Life!Devices :
        IF d \in LifeUp
        THEN /\ ldid[d] = b + d
             /\ lid[d] = IF dpc[d] \in {"create", "init"} THEN Life!None ELSE LifeLid(b, d)
        ELSE /\ ldid[d] = Life!None /\ lid[d] = Life!None
             /\ dpc[d] = "none" /\ state[d] = "none"

\* The tables of domains and of nodes hold the devices that are there.
LifeListed == {d \in LifeUp : dpc[d] # "dead"}
LifeNoded ==
    {d \in LifeUp : dpc[d] \notin {"create", "init"} /\ (d = 0 \/ dpc[d] # "dead")}
        \cup {d \in {0} : main = "join" /\ at > 0}
LifeTables(b) ==
    /\ map_ldid2ld = [l \in {b + d : d \in LifeListed} |-> l - b]
    /\ nodes = [l \in {LifeLid(b, d) : d \in LifeNoded} |-> IF l = 0 THEN 0 ELSE l - b]
    /\ main = "out" => kaapi_ldid = b /\ table = {} /\ gpuDomains = <<>>
    /\ main = "config" => kaapi_ldid = b + at
    /\ main = "config" => gpuDomains = [k \in 1..(IF at = 0 THEN 0 ELSE at - 1) |-> k]
    /\ main = "running" => gpuDomains = [k \in 1..LifeN |-> k]

\* The counters of the driver, and what a processor has learnt when it commits.
LifeCounted == {g \in 1..LifeN : dpc[g] \notin {"none", "create", "init", "count"}}
LifeCommitted == {g \in 1..LifeN : dpc[g] \notin {"none", "create", "init", "count", "barrier", "committed"}}
LifeBarrier(b) ==
    /\ main = "config" => /\ ndevices["gpu"] = Cardinality(LifeCounted)
                          /\ ndevices_commit["gpu"] = Cardinality(LifeCommitted)
    /\ \A g \in 1..LifeN : state[g] \in {"commit", "start"} =>
          /\ main = "config" => at > LifeN
          /\ peers[g] = {b + h : h \in 1..LifeN}

\* The tasks pushed, and the turns of the round robin.
LifeGot(g) ==
    {k \in DOMAIN pushes : pushes[k].to = g
                           /\ pushes[k].hint.valid \cup pushes[k].hint.wish = {}}
LifePlaced(b, p) ==
    /\ p.to \in 1..LifeN
    /\ IF p.hint.valid # {} THEN b + p.to \in p.hint.valid
       ELSE p.hint.wish # {} => b + p.to \in p.hint.wish
LifePushes(b) ==
    /\ pushes \in Seq([hint : [kind : {"none", "bound", "ocr"}, valid : SUBSET Int, wish : SUBSET Int], to : Int])
    /\ \A k \in DOMAIN pushes : LifePlaced(b, pushes[k])
    /\ main # "running" => pushes = <<>> /\ last_ldid = 0 /\ \A d \in Life!Devices : queue[d] = 0
LifeTurns ==
    /\ last_ldid \in Nat /\ (last_ldid < LifeN \/ last_ldid = 0)
    /\ \E q \in 0..Len(pushes) : \A g \in 1..LifeN :
          Cardinality(LifeGot(g)) = IF g <= last_ldid THEN q + 1 ELSE q

LifeGood(b) ==
    /\ LifeType /\ LifeStage /\ LifeNumbers(b) /\ LifeTables(b)
    /\ LifeBarrier(b) /\ LifePushes(b) /\ LifeTurns
LifeInv == \E b \in {0, 1} : LifeGood(b)

\* The devices are 0 and the processors up to the largest number asked for.
LEMMA LifeDevices ==
    /\ \E n \in Nat : Life!Gpus = 1..n /\ \A k \in NumGpus : k \in 0..n
    /\ Life!Devices = {0} \cup Life!Gpus
  <1>1. PICK n \in NumGpus : \A k \in NumGpus : k <= n
    BY ServicesAssumption
  <1> DEFINE max == CHOOSE m \in NumGpus : \A k \in NumGpus : k <= m
  <1>2. max \in NumGpus /\ \A k \in NumGpus : k <= max
    BY <1>1
  <1>3. Life!Gpus = 1..max
    BY DEF Life!Gpus
  <1> HIDE DEF max
  <1>4. max \in Nat /\ \A k \in NumGpus : k \in 0..max
    BY <1>2, ServicesAssumption
  <1> QED BY <1>3, <1>4 DEF Life!Devices

\* The processors in use are numbered from 1.
LEMMA LifeInUse ==
    ASSUME LifeType
    PROVE  Life!InUse = 0..LifeN /\ Life!InUse \ {0} = 1..LifeN /\ 0..LifeN \subseteq Life!Devices
  <1>1. PICK n \in Nat : Life!Gpus = 1..n
    BY LifeDevices
  <1>2. LifeN \in Nat /\ 1..LifeN \subseteq 1..n
    BY <1>1 DEF LifeType
  <1>3. LifeN <= n
    <2>1. LifeN = 0 \/ LifeN \in 1..LifeN
      BY <1>2
    <2> QED BY <2>1, <1>2
  <1>4. Life!InUse = {0} \cup {g \in 1..n : g <= LifeN}
    BY <1>1 DEF Life!InUse, LifeN
  <1>5. Life!Devices = {0} \cup 1..n
    BY <1>1, LifeDevices
  <1> QED BY <1>2, <1>3, <1>4, <1>5

\* An instance has operators of its own for the standard ones.
LEMMA SameLife == \A S : Life!Cardinality(S) = Cardinality(S)
  BY Zenon DEF Life!Cardinality, Cardinality

\* kaapi_setup_param selects at most as many devices as are asked for.
LEMMA LifeSelects ==
    ASSUME NEW n \in NumGpus, NEW set \in GpuSets
    PROVE  \E k \in Nat : /\ Life!Smallest(set, n) = [x \in 1..k |-> Life!Nth(set, x)]
                          /\ 1..k \subseteq Life!Gpus
  <1> DEFINE k == IF n < Cardinality(set) THEN n ELSE Cardinality(set)
  <1>1. PICK m \in Nat : Life!Gpus = 1..m /\ n \in 0..m
    BY LifeDevices
  <1>2. Cardinality(set) \in Nat
    BY FS_CardinalityType, ServicesAssumption
  <1>3. k \in 0..m
    BY <1>1, <1>2
  <1>4. Life!Smallest(set, n) = [x \in 1..k |-> Life!Nth(set, x)]
    <2>1. Life!Cardinality(set) = Cardinality(set)
      BY SameLife
    <2> QED BY <2>1, Zenon DEF Life!Smallest, k
  <1> HIDE DEF k
  <1>5. k \in Nat /\ 1..k \subseteq 1..m
    BY <1>1, <1>3
  <1> QED BY <1>1, <1>4, <1>5

\* At the start there is no device.
LEMMA LifeInit == Life!Init => LifeGood(0)
  <1> SUFFICES ASSUME Life!Init PROVE LifeGood(0)
    OBVIOUS
  <1>1. PICK n \in Nat : Life!Gpus = 1..n
    BY LifeDevices
  <1>2. LifeN = 0 /\ LifeUp = {} /\ main = "out"
    BY DEF Life!Init, LifeN, LifeUp
  <1>3. LifeType
    <2>1. state \in [Life!Devices -> LifeStates] /\ dpc \in [Life!Devices -> LifePcs]
      BY DEF Life!Init, LifeStates, LifePcs
    <2>2. ldid \in [Life!Devices -> Int] /\ lid \in [Life!Devices -> Int]
      BY DEF Life!Init, Life!None
    <2>3. peers \in [Life!Devices -> SUBSET Int] /\ queue \in [Life!Devices -> Nat]
      BY DEF Life!Init
    <2>4. ndevices \in [{"host", "gpu"} -> Nat] /\ ndevices_commit \in [{"host", "gpu"} -> Nat]
      BY DEF Life!Init
    <2>5. at = 0 /\ ids = <<>>
      BY DEF Life!Init
    <2> QED BY <2>1, <2>2, <2>3, <2>4, <2>5, <1>2, <1>1 DEF LifeType
  <1>4. LifeStage /\ LifeNumbers(0)
    BY <1>2 DEF Life!Init, LifeStage, LifeNumbers, Life!None
  <1>5. LifeListed = {} /\ LifeNoded = {}
    BY <1>2 DEF LifeListed, LifeNoded
  <1>6. LifeTables(0)
    BY <1>2, <1>5 DEF LifeTables, Life!Init
  <1>7. LifeBarrier(0)
    BY <1>2 DEF LifeBarrier
  <1>8. LifePushes(0)
    BY <1>2 DEF LifePushes, Life!Init
  <1>9. LifeTurns
    BY <1>2 DEF LifeTurns, Life!Init
  <1> QED BY <1>3, <1>4, <1>6, <1>7, <1>8, <1>9 DEF LifeGood

-----------------------------------------------------------------------------
(* The threads of the devices.                                             *)

\* What a step of the thread of d leads from and to.
LifeStep(d, p, s) ==
    /\ dpc[d] # "none" /\ p \in LifePcs \ {"none"} /\ s \in LifeStates
    /\ dpc' = [dpc EXCEPT ![d] = p] /\ state' = [state EXCEPT ![d] = s]
    /\ LifeStarting(d) => LifeStarting(d)' \/ LifeLooping(d)'
    /\ LifeLooping(d) => LifeLooping(d)'
    /\ LifeStopping(d) => LifeStopping(d)' \/ LifeGone(d)'
    /\ LifeGone(d) => LifeGone(d)'
    /\ UNCHANGED <<main, at, dround, ids>>

\* Such a step leaves the device where the main thread expects it.
LEMMA LifeStepStage ==
    ASSUME NEW b \in {0, 1}, NEW d \in Life!Devices, NEW p, NEW s,
           LifeGood(b), LifeStep(d, p, s)
    PROVE  /\ LifeN' = LifeN /\ LifeUp' = LifeUp /\ d \in LifeUp /\ LifeUp \subseteq Life!Devices
           /\ dpc' \in [Life!Devices -> LifePcs] /\ state' \in [Life!Devices -> LifeStates]
           /\ dpc'[d] = p /\ state'[d] = s
           /\ \A x \in Life!Devices : x # d => dpc'[x] = dpc[x] /\ state'[x] = state[x]
           /\ LifeStage'
  <1>1. LifeN' = LifeN
    BY DEF LifeStep, LifeN
  <1>2. LifeUp' = LifeUp
    BY <1>1 DEF LifeStep, LifeUp
  <1>3. d \in LifeUp
    BY DEF LifeStep, LifeGood, LifeNumbers
  <1>4. LifeUp \subseteq Life!Devices
    <2>1. 0..LifeN \subseteq Life!Devices /\ LifeN \in Nat /\ at \in 0..LifeN + 1
      BY LifeInUse DEF LifeGood, LifeType
    <2> QED BY <2>1 DEF LifeUp
  <1>5. /\ dpc' \in [Life!Devices -> LifePcs] /\ state' \in [Life!Devices -> LifeStates]
        /\ dpc'[d] = p /\ state'[d] = s
        /\ \A x \in Life!Devices : x # d => dpc'[x] = dpc[x] /\ state'[x] = state[x]
    BY DEF LifeStep, LifeGood, LifeType
  <1>6. LifeStage'
    <2> SUFFICES ASSUME NEW x \in LifeUp
                 PROVE  /\ main = "config" => LifeStarting(x)' \/ LifeLooping(x)'
                        /\ main = "running" => LifeSlow(x)'
                        /\ main \in {"stop", "wakeup", "stopwait"} /\ x < at => LifeLeft(x)'
                        /\ main \in {"stop", "wakeup", "stopwait"} /\ x > at => LifeSlow(x)'
                        /\ main = "stop" /\ x = at => LifeSlow(x)'
                        /\ main \in {"wakeup", "stopwait"} /\ x = at => LifeStopping(x)' \/ LifeGone(x)'
                        /\ main = "join" => LifeLeft(x)'
      <3>1. main' = main /\ at' = at
        BY DEF LifeStep
      <3> QED BY <3>1, <1>2 DEF LifeStage
    <2>1. /\ main = "config" => LifeStarting(x) \/ LifeLooping(x)
          /\ main = "running" => LifeSlow(x)
          /\ main \in {"stop", "wakeup", "stopwait"} /\ x < at => LifeLeft(x)
          /\ main \in {"stop", "wakeup", "stopwait"} /\ x > at => LifeSlow(x)
          /\ main = "stop" /\ x = at => LifeSlow(x)
          /\ main \in {"wakeup", "stopwait"} /\ x = at => LifeStopping(x) \/ LifeGone(x)
          /\ main = "join" => LifeLeft(x)
      BY DEF LifeGood, LifeStage
    <2>2. CASE x = d
      <3>1. /\ LifeStarting(x) => LifeStarting(x)' \/ LifeLooping(x)'
            /\ LifeLooping(x) => LifeLooping(x)'
            /\ LifeStopping(x) => LifeStopping(x)' \/ LifeGone(x)'
            /\ LifeGone(x) => LifeGone(x)'
        BY <2>2 DEF LifeStep
      <3>2. /\ LifeSlow(x) => LifeSlow(x)'
            /\ LifeLeft(x) => LifeLeft(x)'
        BY <3>1 DEF LifeSlow, LifeLeft
      <3> QED BY <2>1, <3>1, <3>2
    <2>3. CASE x # d
      <3>1. dpc'[x] = dpc[x] /\ state'[x] = state[x]
        BY <1>4, <1>5, <2>3
      <3>2. /\ LifeStarting(x)' <=> LifeStarting(x)
            /\ LifeLooping(x)' <=> LifeLooping(x)
            /\ LifeStopping(x)' <=> LifeStopping(x)
            /\ LifeGone(x)' <=> LifeGone(x)
        BY <3>1 DEF LifeStarting, LifeLooping, LifeStopping, LifeGone
      <3>3. (LifeSlow(x)' <=> LifeSlow(x)) /\ (LifeLeft(x)' <=> LifeLeft(x))
        BY <3>2 DEF LifeSlow, LifeLeft
      <3> QED BY <2>1, <3>2, <3>3
    <2> QED BY <2>2, <2>3
  <1> QED BY <1>1, <1>2, <1>3, <1>4, <1>5, <1>6

\* What a step that pushes no task leaves alone.
LifeNoPush == UNCHANGED <<queue, last_ldid, pushes>>

\* The turns of the round robin, and the tasks pushed, stay as they are.
LEMMA LifeTurnsKept ==
    ASSUME LifeTurns, LifeN' = LifeN, pushes' = pushes, last_ldid' = last_ldid
    PROVE  LifeTurns'
  BY Zenon DEF LifeTurns, LifeGot

\* Who pushes nothing leaves the tasks pushed as they were.
LEMMA LifePushesKept ==
    ASSUME NEW b \in {0, 1}, LifeGood(b), LifeNoPush, UNCHANGED <<main, ids>>
    PROVE  LifePushes(b)' /\ LifeTurns'
  <1>1. LifeN' = LifeN
    BY DEF LifeN
  <1>2. LifePushes(b)'
    BY <1>1 DEF LifeGood, LifePushes, LifePlaced, LifeNoPush
  <1>3. LifeTurns'
    BY <1>1, LifeTurnsKept DEF LifeGood, LifeNoPush
  <1> QED BY <1>2, <1>3

\* A thread that goes round its loop, or leaves it, changes no table.
LEMMA LifeLoopStep ==
    ASSUME NEW b \in {0, 1}, NEW d \in Life!Devices, NEW p, NEW s,
           LifeGood(b), LifeStep(d, p, s), LifeNoPush,
           dpc[d] \in {"loop", "tosleep", "sleeping", "ended"},
           p \in {"loop", "tosleep", "sleeping", "ended", "fini"}, s = state[d] \/ s = "stopped",
           UNCHANGED <<kaapi_ldid, map_ldid2ld, gpuDomains, ldid, lid, table, nodes, ndevices, ndevices_commit, peers>>
    PROVE  LifeGood(b)'
  <1>1. /\ LifeN' = LifeN /\ LifeUp' = LifeUp /\ d \in LifeUp /\ LifeUp \subseteq Life!Devices
        /\ dpc' \in [Life!Devices -> LifePcs] /\ state' \in [Life!Devices -> LifeStates]
        /\ dpc'[d] = p /\ state'[d] = s
        /\ \A x \in Life!Devices : x # d => dpc'[x] = dpc[x] /\ state'[x] = state[x]
        /\ LifeStage'
    BY LifeStepStage
  <1>2. LifeType'
    BY <1>1 DEF LifeGood, LifeType, LifeStep, LifeNoPush
  <1>3. \A x \in Life!Devices : \A q \in {"none", "create", "init", "count", "barrier", "committed", "dead"} :
            dpc'[x] = q <=> dpc[x] = q
    BY <1>1
  <1>4. LifeNumbers(b)'
    <2> SUFFICES ASSUME NEW x \in Life!Devices
                 PROVE  IF x \in LifeUp
                        THEN /\ ldid[x] = b + x
                             /\ lid[x] = IF dpc'[x] \in {"create", "init"} THEN Life!None ELSE LifeLid(b, x)
                        ELSE /\ ldid[x] = Life!None /\ lid[x] = Life!None
                             /\ dpc'[x] = "none" /\ state'[x] = "none"
      BY <1>1 DEF LifeNumbers, LifeLid
    <2>1. x \notin LifeUp => x # d
      BY <1>1
    <2> QED BY <1>1, <1>3, <2>1 DEF LifeGood, LifeNumbers
  <1>5. LifeListed' = LifeListed /\ LifeNoded' = LifeNoded
    BY <1>1, <1>3 DEF LifeListed, LifeNoded, LifeStep
  <1>6. LifeTables(b)'
    BY <1>1, <1>5 DEF LifeTables, LifeGood, LifeStep, LifeLid
  <1>7. 1..LifeN \subseteq Life!Devices
    BY LifeInUse DEF LifeGood
  <1>8. LifeCounted' = LifeCounted /\ LifeCommitted' = LifeCommitted
    BY <1>1, <1>3, <1>7 DEF LifeCounted, LifeCommitted
  <1>9. LifeBarrier(b)'
    <2>1. \A g \in 1..LifeN : state'[g] \in {"commit", "start"} => state[g] \in {"commit", "start"}
      BY <1>1, <1>7
    <2> QED BY <1>1, <1>8, <2>1 DEF LifeBarrier, LifeGood, LifeStep
  <1>10. LifePushes(b)' /\ LifeTurns'
    BY LifePushesKept DEF LifeStep
  <1> QED BY <1>1, <1>2, <1>4, <1>6, <1>9, <1>10 DEF LifeGood

\* kaapi_sched_idle_offload, kaapi_offload_device_sleep and the end of the loop.
LEMMA LifeLoops ==
    ASSUME NEW b \in {0, 1}, NEW d \in Life!Devices, LifeGood(b),
           Life!Test(d) \/ Life!Sleep(d) \/ Life!WokenUp(d) \/ Life!Stopped(d)
    PROVE  LifeGood(b)'
  <1>1. dpc[d] \in {"loop", "tosleep", "sleeping", "ended"}
    BY DEF Life!Test, Life!Sleep, Life!WokenUp, Life!Stopped, Life!At
  <1>2. state \in [Life!Devices -> LifeStates] /\ dpc \in [Life!Devices -> LifePcs]
    BY DEF LifeGood, LifeType
  <1>3. state = [state EXCEPT ![d] = state[d]]
    BY <1>2
  <1>4. LifeNoPush /\ UNCHANGED <<kaapi_ldid, map_ldid2ld, gpuDomains, ldid, lid, table, nodes, ndevices, ndevices_commit, peers, main, at, dround, ids>>
    BY DEF Life!Test, Life!Sleep, Life!WokenUp, Life!Stopped, LifeNoPush, Life!domainVars, Life!taskVars
  <1>5. CASE Life!Test(d)
    <2> DEFINE p == IF state[d] = "stop" THEN "ended" ELSE "tosleep"
    <2>1. dpc' = [dpc EXCEPT ![d] = p] /\ state' = state /\ dpc[d] = "loop"
      BY <1>5 DEF Life!Test
    <2>2. LifeStep(d, p, state[d])
      BY <2>1, <1>1, <1>2, <1>3, <1>4 DEF LifeStep, LifePcs, LifeStarting, LifeLooping, LifeStopping, LifeGone
    <2> HIDE DEF p
    <2>3. p \in {"ended", "tosleep"}
      BY DEF p
    <2> QED BY <2>2, <2>3, <1>1, <1>4, LifeLoopStep
  <1>6. CASE Life!Sleep(d)
    <2>1. LifeStep(d, "sleeping", state[d])
      BY <1>6, <1>1, <1>2, <1>3, <1>4 DEF LifeStep, LifePcs, LifeStarting, LifeLooping, LifeStopping, LifeGone,
            Life!Sleep, Life!At
    <2> QED BY <2>1, <1>1, <1>4, LifeLoopStep
  <1>7. CASE Life!WokenUp(d)
    <2>1. LifeStep(d, "loop", state[d])
      BY <1>7, <1>1, <1>2, <1>3, <1>4 DEF LifeStep, LifePcs, LifeStarting, LifeLooping, LifeStopping, LifeGone,
            Life!WokenUp, Life!At
    <2> QED BY <2>1, <1>1, <1>4, LifeLoopStep
  <1>8. CASE Life!Stopped(d)
    <2>1. LifeStep(d, "fini", "stopped")
      BY <1>8, <1>1, <1>2, <1>3, <1>4 DEF LifeStep, LifePcs, LifeStates, LifeStarting, LifeLooping, LifeStopping,
            LifeGone, Life!Stopped, Life!At, Life!SetState
    <2> QED BY <2>1, <1>1, <1>4, LifeLoopStep
  <1> QED BY <1>5, <1>6, <1>7, <1>8

\* device_create: the device is in the table.
LEMMA LifeCreate ==
    ASSUME NEW b \in {0, 1}, NEW d \in Life!Devices, LifeGood(b), Life!Create(d)
    PROVE  LifeGood(b)'
  <1>1. LifeStep(d, "init", "create")
    BY DEF LifeStep, LifePcs, LifeStates, LifeStarting, LifeLooping, LifeStopping, LifeGone,
           LifeGood, LifeType, Life!Create, Life!At, Life!SetState
  <1>2. /\ LifeN' = LifeN /\ LifeUp' = LifeUp /\ d \in LifeUp /\ LifeUp \subseteq Life!Devices
        /\ dpc' \in [Life!Devices -> LifePcs] /\ state' \in [Life!Devices -> LifeStates]
        /\ dpc'[d] = "init" /\ state'[d] = "create"
        /\ \A x \in Life!Devices : x # d => dpc'[x] = dpc[x] /\ state'[x] = state[x]
        /\ LifeStage'
    BY <1>1, LifeStepStage
  <1>3. /\ dpc[d] = "create" /\ LifeNoPush
        /\ UNCHANGED <<main, at, ids, kaapi_ldid, map_ldid2ld, gpuDomains, ldid, lid, nodes, ndevices,
                       ndevices_commit, peers>>
    BY DEF Life!Create, Life!At, LifeNoPush, Life!domainVars, Life!taskVars
  <1>4. LifeType'
    BY <1>2, <1>3 DEF LifeGood, LifeType, LifeNoPush
  <1>5. LifeNumbers(b)'
    BY <1>2, <1>3 DEF LifeGood, LifeNumbers, LifeLid
  <1>6. LifeListed' = LifeListed /\ LifeNoded' = LifeNoded
    BY <1>2, <1>3 DEF LifeListed, LifeNoded
  <1>7. main # "out"
    BY <1>2 DEF LifeUp
  <1>8. LifeTables(b)'
    BY <1>2, <1>3, <1>6, <1>7 DEF LifeTables, LifeGood, LifeLid
  <1>9. 1..LifeN \subseteq Life!Devices
    BY LifeInUse DEF LifeGood
  <1>10. LifeCounted' = LifeCounted /\ LifeCommitted' = LifeCommitted
    BY <1>2, <1>3, <1>9 DEF LifeCounted, LifeCommitted
  <1>11. LifeBarrier(b)'
    <2>1. \A g \in 1..LifeN : state'[g] \in {"commit", "start"} => state[g] \in {"commit", "start"}
      BY <1>2, <1>9
    <2> QED BY <1>2, <1>3, <1>10, <2>1 DEF LifeBarrier, LifeGood
  <1>12. LifePushes(b)' /\ LifeTurns'
    BY <1>3, LifePushesKept
  <1> QED BY <1>2, <1>4, <1>5, <1>8, <1>11, <1>12 DEF LifeGood

\* kaapi_dsm_register_device: the address space is the domain, and a node.
LEMMA LifeRegister ==
    ASSUME NEW b \in {0, 1}, NEW d \in Life!Devices, LifeGood(b), Life!DeviceInit(d)
    PROVE  LifeGood(b)'
  <1>1. LifeStep(d, "count", "init")
    BY DEF LifeStep, LifePcs, LifeStates, LifeStarting, LifeLooping, LifeStopping, LifeGone,
           LifeGood, LifeType, Life!DeviceInit, Life!At, Life!SetState
  <1>2. /\ LifeN' = LifeN /\ LifeUp' = LifeUp /\ d \in LifeUp /\ LifeUp \subseteq Life!Devices
        /\ dpc' \in [Life!Devices -> LifePcs] /\ state' \in [Life!Devices -> LifeStates]
        /\ dpc'[d] = "count" /\ state'[d] = "init"
        /\ \A x \in Life!Devices : x # d => dpc'[x] = dpc[x] /\ state'[x] = state[x]
        /\ LifeStage'
    BY <1>1, LifeStepStage
  <1>3. /\ dpc[d] = "init" /\ LifeNoPush
        /\ UNCHANGED <<main, at, ids, kaapi_ldid, map_ldid2ld, gpuDomains, ldid, table, ndevices,
                       ndevices_commit, peers>>
        /\ lid' = [lid EXCEPT ![d] = Life!Lid(d)]
        /\ nodes' = [l \in DOMAIN nodes \cup {Life!Lid(d)} |-> IF l = Life!Lid(d) THEN d ELSE nodes[l]]
    BY DEF Life!DeviceInit, Life!At, LifeNoPush, Life!domainVars, Life!taskVars
  <1>4. ldid[d] = b + d /\ Life!Lid(d) = LifeLid(b, d)
    BY <1>2 DEF Life!Lid, LifeLid, LifeGood, LifeNumbers
  <1>5. d \in Nat /\ Life!Devices \subseteq Nat
    BY LifeDevices
  <1>6. LifeType'
    <2>1. lid' \in [Life!Devices -> Int]
      BY <1>3, <1>4, <1>5 DEF LifeGood, LifeType, LifeLid
    <2> QED BY <1>2, <1>3, <2>1 DEF LifeGood, LifeType, LifeNoPush
  <1>7. LifeNumbers(b)'
    <2> SUFFICES ASSUME NEW x \in Life!Devices
                 PROVE  IF x \in LifeUp
                        THEN /\ ldid[x] = b + x
                             /\ lid'[x] = IF dpc'[x] \in {"create", "init"} THEN Life!None ELSE LifeLid(b, x)
                        ELSE /\ ldid[x] = Life!None /\ lid'[x] = Life!None
                             /\ dpc'[x] = "none" /\ state'[x] = "none"
      BY <1>2, <1>3 DEF LifeNumbers, LifeLid
    <2>1. lid \in [Life!Devices -> Int]
      BY DEF LifeGood, LifeType
    <2>2. CASE x = d
      BY <1>2, <1>3, <1>4, <2>1, <2>2
    <2>3. CASE x # d
      BY <1>2, <1>3, <2>1, <2>3 DEF LifeGood, LifeNumbers
    <2> QED BY <2>2, <2>3
  <1>8. LifeListed' = LifeListed /\ LifeNoded' = LifeNoded \cup {d}
    BY <1>2, <1>3 DEF LifeListed, LifeNoded
  <1>9. main # "out"
    BY <1>2 DEF LifeUp
  <1>10. nodes' = [l \in {LifeLid(b, x) : x \in LifeNoded \cup {d}} |-> IF l = 0 THEN 0 ELSE l - b]
    <2>1. nodes = [l \in {LifeLid(b, x) : x \in LifeNoded} |-> IF l = 0 THEN 0 ELSE l - b]
      BY DEF LifeGood, LifeTables
    <2>2. (IF LifeLid(b, d) = 0 THEN 0 ELSE LifeLid(b, d) - b) = d
      BY <1>5 DEF LifeLid
    <2>3. {LifeLid(b, x) : x \in LifeNoded \cup {d}} = {LifeLid(b, x) : x \in LifeNoded} \cup {LifeLid(b, d)}
      OBVIOUS
    <2> QED BY <1>3, <1>4, <2>1, <2>2, <2>3
  <1>11. LifeTables(b)'
    BY <1>2, <1>3, <1>8, <1>9, <1>10 DEF LifeTables, LifeGood, LifeLid
  <1>12. 1..LifeN \subseteq Life!Devices
    BY LifeInUse DEF LifeGood
  <1>13. LifeCounted' = LifeCounted /\ LifeCommitted' = LifeCommitted
    BY <1>2, <1>3, <1>12 DEF LifeCounted, LifeCommitted
  <1>14. LifeBarrier(b)'
    <2>1. \A g \in 1..LifeN : state'[g] \in {"commit", "start"} => state[g] \in {"commit", "start"}
      BY <1>2, <1>12
    <2> QED BY <1>2, <1>3, <1>13, <2>1 DEF LifeBarrier, LifeGood
  <1>15. LifePushes(b)' /\ LifeTurns'
    BY <1>3, LifePushesKept
  <1> QED BY <1>2, <1>6, <1>7, <1>11, <1>14, <1>15 DEF LifeGood

\* A processor is counted when it waits for the others, and when it has committed.
LEMMA LifeCountGrows ==
    ASSUME NEW set, IsFiniteSet(set), NEW d, d \notin set
    PROVE  Cardinality(set \cup {d}) = Cardinality(set) + 1
  BY FS_AddElement

\* The numbers up to n are n.
LEMMA LifeCountTo == ASSUME NEW n \in Nat PROVE Cardinality(1..n) = n
  <1> DEFINE one == 1
  <1>1. one \in Int /\ n \in Int
    OBVIOUS
  <1>2. Cardinality(one..n) = IF one > n THEN 0 ELSE n - one + 1
    <2> HIDE DEF one
    <2> QED BY <1>1, FS_Interval
  <1> QED BY <1>2

\* The sets of processors past a point are finite.
LEMMA LifeSetsFinite ==
    ASSUME LifeType
    PROVE  IsFiniteSet(LifeCounted) /\ IsFiniteSet(LifeCommitted)
  <1>1. IsFiniteSet(1..LifeN)
    BY FS_Interval DEF LifeType
  <1>2. LifeCounted \subseteq 1..LifeN /\ LifeCommitted \subseteq 1..LifeN
    BY DEF LifeCounted, LifeCommitted
  <1> QED BY <1>1, <1>2, FS_Subset

\* The devices attached are in use.
LEMMA LifeUpBounds ==
    ASSUME NEW b \in {0, 1}, LifeGood(b)
    PROVE  /\ 1..LifeN \subseteq Life!Devices /\ LifeUp \subseteq 0..LifeN /\ LifeN \in Nat
           /\ Life!InUse \ {0} = 1..LifeN /\ at \in 0..LifeN + 1
  <1>1. LifeN \in Nat /\ at \in 0..LifeN + 1
    BY DEF LifeGood, LifeType
  <1>2. Life!InUse \ {0} = 1..LifeN /\ 0..LifeN \subseteq Life!Devices
    BY LifeInUse DEF LifeGood
  <1>3. LifeUp \subseteq 0..LifeN
    BY <1>1 DEF LifeUp
  <1>4. 1..LifeN \subseteq 0..LifeN
    BY <1>1
  <1> QED BY <1>1, <1>2, <1>3, <1>4

\* kaapi_offload_device_thread counts the devices that have an address space.
LEMMA LifeCount ==
    ASSUME NEW b \in {0, 1}, NEW d \in Life!Devices, LifeGood(b), Life!CountDevice(d)
    PROVE  LifeGood(b)'
  <1>1. LifeStep(d, "barrier", state[d])
    BY DEF LifeStep, LifePcs, LifeStates, LifeStarting, LifeLooping, LifeStopping, LifeGone,
           LifeGood, LifeType, Life!CountDevice, Life!At
  <1>2. /\ LifeN' = LifeN /\ LifeUp' = LifeUp /\ d \in LifeUp /\ LifeUp \subseteq Life!Devices
        /\ dpc' \in [Life!Devices -> LifePcs] /\ state' \in [Life!Devices -> LifeStates]
        /\ dpc'[d] = "barrier" /\ state'[d] = state[d]
        /\ \A x \in Life!Devices : x # d => dpc'[x] = dpc[x] /\ state'[x] = state[x]
        /\ LifeStage'
    BY <1>1, LifeStepStage
  <1>3. /\ dpc[d] = "count" /\ LifeNoPush
        /\ UNCHANGED <<main, at, ids, kaapi_ldid, map_ldid2ld, gpuDomains, ldid, lid, table, nodes,
                       ndevices_commit, peers>>
        /\ ndevices' = [ndevices EXCEPT ![Life!Driver(d)] = @ + 1]
    BY DEF Life!CountDevice, Life!At, LifeNoPush, Life!domainVars, Life!taskVars
  <1>4. LifeType'
    <2>1. ndevices' \in [{"host", "gpu"} -> Nat]
      BY <1>3 DEF LifeGood, LifeType, Life!Driver
    <2> QED BY <1>2, <1>3, <2>1 DEF LifeGood, LifeType, LifeNoPush
  <1>5. LifeNumbers(b)'
    BY <1>2, <1>3 DEF LifeGood, LifeNumbers, LifeLid
  <1>6. LifeListed' = LifeListed /\ LifeNoded' = LifeNoded
    BY <1>2, <1>3 DEF LifeListed, LifeNoded
  <1>7. LifeTables(b)'
    BY <1>2, <1>3, <1>6 DEF LifeTables, LifeGood, LifeLid
  <1>8. 1..LifeN \subseteq Life!Devices /\ LifeUp \subseteq 0..LifeN /\ LifeN \in Nat
    BY LifeUpBounds
  <1>9. LifeCommitted' = LifeCommitted
    BY <1>2, <1>3, <1>8 DEF LifeCommitted
  <1>10. ndevices'["gpu"] = ndevices["gpu"] + Cardinality(LifeCounted') - Cardinality(LifeCounted)
    <2>1. CASE d = 0
      <3>1. ndevices'["gpu"] = ndevices["gpu"]
        BY <1>3, <2>1 DEF Life!Driver, LifeGood, LifeType
      <3>2. LifeCounted' = LifeCounted
        BY <1>2, <1>8, <2>1 DEF LifeCounted
      <3>3. Cardinality(LifeCounted) \in Nat /\ ndevices["gpu"] \in Nat
        BY LifeSetsFinite, FS_CardinalityType DEF LifeGood, LifeType
      <3> QED BY <3>1, <3>2, <3>3
    <2>2. CASE d # 0
      <3>1. ndevices'["gpu"] = ndevices["gpu"] + 1 /\ ndevices["gpu"] \in Nat
        BY <1>3, <2>2 DEF Life!Driver, LifeGood, LifeType
      <3>2. d \in 1..LifeN
        BY <1>2, <1>8, <2>2
      <3>3. LifeCounted' = LifeCounted \cup {d} /\ d \notin LifeCounted
        BY <1>2, <1>3, <1>8, <3>2 DEF LifeCounted
      <3>4. IsFiniteSet(LifeCounted)
        BY LifeSetsFinite DEF LifeGood
      <3>5. Cardinality(LifeCounted') = Cardinality(LifeCounted) + 1 /\ Cardinality(LifeCounted) \in Nat
        BY <3>3, <3>4, LifeCountGrows, FS_CardinalityType
      <3> QED BY <3>1, <3>5
    <2> QED BY <2>1, <2>2
  <1>11. LifeBarrier(b)'
    <2>1. main = "config" => ndevices["gpu"] = Cardinality(LifeCounted)
                             /\ ndevices_commit["gpu"] = Cardinality(LifeCommitted)
      BY DEF LifeBarrier, LifeGood
    <2>2. Cardinality(LifeCounted) \in Nat /\ Cardinality(LifeCounted') \in Nat
      <3>1. IsFiniteSet(LifeCounted) /\ IsFiniteSet(1..LifeN)
        BY LifeSetsFinite, <1>8, FS_Interval DEF LifeGood
      <3>2. LifeCounted' \subseteq 1..LifeN
        BY <1>2 DEF LifeCounted
      <3> QED BY <3>1, <3>2, FS_Subset, FS_CardinalityType
    <2>3. main = "config" => ndevices'["gpu"] = Cardinality(LifeCounted')
                             /\ ndevices_commit'["gpu"] = Cardinality(LifeCommitted')
      BY <2>1, <2>2, <1>10, <1>9, <1>3
    <2>4. \A g \in 1..LifeN : state'[g] \in {"commit", "start"} => state[g] \in {"commit", "start"}
      BY <1>2, <1>8
    <2> QED BY <1>2, <1>3, <2>3, <2>4 DEF LifeBarrier, LifeGood
  <1>12. LifePushes(b)' /\ LifeTurns'
    BY <1>3, LifePushesKept
  <1> QED BY <1>2, <1>4, <1>5, <1>7, <1>11, <1>12 DEF LifeGood

\* f_device_commit: past the barrier all processors have their address spaces.
LEMMA LifeCommit ==
    ASSUME NEW b \in {0, 1}, NEW d \in Life!Devices, LifeGood(b), Life!Commit(d)
    PROVE  LifeGood(b)'
  <1>1. LifeStep(d, "committed", "commit")
    BY DEF LifeStep, LifePcs, LifeStates, LifeStarting, LifeLooping, LifeStopping, LifeGone,
           LifeGood, LifeType, Life!Commit, Life!At, Life!SetState
  <1>2. /\ LifeN' = LifeN /\ LifeUp' = LifeUp /\ d \in LifeUp /\ LifeUp \subseteq Life!Devices
        /\ dpc' \in [Life!Devices -> LifePcs] /\ state' \in [Life!Devices -> LifeStates]
        /\ dpc'[d] = "committed" /\ state'[d] = "commit"
        /\ \A x \in Life!Devices : x # d => dpc'[x] = dpc[x] /\ state'[x] = state[x]
        /\ LifeStage'
    BY <1>1, LifeStepStage
  <1>3. /\ dpc[d] = "barrier" /\ LifeNoPush /\ Life!Barrier(d)
        /\ UNCHANGED <<main, at, ids, kaapi_ldid, map_ldid2ld, gpuDomains, ldid, lid, table, nodes,
                       ndevices, ndevices_commit>>
        /\ peers' = [peers EXCEPT ![d] = IF d = 0 THEN {} ELSE {lid[e] : e \in Life!InUse \ {0}}]
    BY DEF Life!Commit, Life!At, LifeNoPush, Life!domainVars, Life!taskVars
  <1>4. /\ 1..LifeN \subseteq Life!Devices /\ LifeUp \subseteq 0..LifeN /\ LifeN \in Nat
        /\ Life!InUse \ {0} = 1..LifeN /\ at \in 0..LifeN + 1
    BY LifeUpBounds
  <1>5. LifeType'
    <2>1. {lid[e] : e \in Life!InUse \ {0}} \in SUBSET Int
      BY <1>4 DEF LifeGood, LifeType
    <2>2. peers' \in [Life!Devices -> SUBSET Int]
      BY <1>3, <2>1 DEF LifeGood, LifeType
    <2> QED BY <1>2, <1>3, <2>2 DEF LifeGood, LifeType, LifeNoPush
  <1>6. LifeNumbers(b)'
    BY <1>2, <1>3 DEF LifeGood, LifeNumbers, LifeLid
  <1>7. LifeListed' = LifeListed /\ LifeNoded' = LifeNoded
    BY <1>2, <1>3 DEF LifeListed, LifeNoded
  <1>8. LifeTables(b)'
    BY <1>2, <1>3, <1>7 DEF LifeTables, LifeGood, LifeLid
  <1>9. LifeCommitted' = LifeCommitted /\ LifeCounted' = LifeCounted
    BY <1>2, <1>3, <1>4 DEF LifeCommitted, LifeCounted
  <1>10. d # 0 => main = "config" /\ at > LifeN /\ peers'[d] = {b + h : h \in 1..LifeN}
    <2> SUFFICES ASSUME d # 0
                 PROVE  main = "config" /\ at > LifeN /\ peers'[d] = {b + h : h \in 1..LifeN}
      OBVIOUS
    <2>1. main = "config"
      <3>1. ~LifeLooping(d) /\ ~LifeStopping(d) /\ ~LifeGone(d)
        BY <1>3 DEF LifeLooping, LifeStopping, LifeGone
      <3>2. ~LifeSlow(d) /\ ~LifeLeft(d)
        BY <3>1 DEF LifeSlow, LifeLeft
      <3>3. LifeUp # {} => main # "out"
        BY DEF LifeUp
      <3>4. main \in {"out", "config", "running", "stop", "wakeup", "stopwait", "join"}
        BY DEF LifeGood, LifeType
      <3>5. d < at \/ d > at \/ d = at
        BY <1>2, <1>4
      <3> QED BY <1>2, <3>1, <3>2, <3>3, <3>4, <3>5 DEF LifeStage, LifeGood
    <2>2. Cardinality(LifeCounted) >= LifeN
      BY <1>3, <2>1 DEF Life!Barrier, Life!Driver, Life!Count, LifeN, LifeGood, LifeBarrier
    <2>3. LifeCounted = 1..LifeN
      <3>1. IsFiniteSet(1..LifeN) /\ Cardinality(1..LifeN) = LifeN
        <4>1. Cardinality(1..LifeN) = LifeN
          BY <1>4, LifeCountTo
        <4>2. IsFiniteSet(1..LifeN)
          BY <1>4, FS_Interval
        <4> QED BY <4>1, <4>2
      <3>2. LifeCounted \subseteq 1..LifeN
        BY DEF LifeCounted
      <3>3. Cardinality(LifeCounted) <= LifeN /\ Cardinality(LifeCounted) \in Nat
        BY <3>1, <3>2, FS_Subset, FS_CardinalityType
      <3>4. Cardinality(LifeCounted) = Cardinality(1..LifeN)
        BY <3>1, <3>3, <2>2, <1>4
      <3> QED BY <3>1, <3>2, <3>4, FS_Subset
    <2>4. \A g \in 1..LifeN : g \in LifeUp /\ lid[g] = b + g
      <3> SUFFICES ASSUME NEW g \in 1..LifeN PROVE g \in LifeUp /\ lid[g] = b + g
        OBVIOUS
      <3>1. dpc[g] \notin {"none", "create", "init"}
        BY <2>3 DEF LifeCounted
      <3>2. g \in Life!Devices /\ g # 0
        BY <1>4
      <3> QED BY <3>1, <3>2 DEF LifeGood, LifeNumbers, LifeLid
    <2>5. at > LifeN
      <3>1. LifeN \in 1..LifeN
        BY <1>2, <1>4
      <3> QED BY <3>1, <2>4, <2>1, <1>4 DEF LifeUp
    <2>6. peers'[d] = {lid[e] : e \in 1..LifeN}
      BY <1>3, <1>4 DEF LifeGood, LifeType
    <2>7. {lid[e] : e \in 1..LifeN} = {b + h : h \in 1..LifeN}
      BY <2>4
    <2> QED BY <2>1, <2>5, <2>6, <2>7
  <1>11. LifeBarrier(b)'
    <2>1. \A g \in 1..LifeN : g # d => state'[g] = state[g] /\ peers'[g] = peers[g]
      BY <1>2, <1>3, <1>4 DEF LifeGood, LifeType
    <2>2. /\ main = "config" => /\ ndevices["gpu"] = Cardinality(LifeCounted)
                                /\ ndevices_commit["gpu"] = Cardinality(LifeCommitted)
          /\ \A g \in 1..LifeN : state[g] \in {"commit", "start"} =>
                /\ main = "config" => at > LifeN
                /\ peers[g] = {b + h : h \in 1..LifeN}
      BY DEF LifeBarrier, LifeGood
    <2>3. /\ main = "config" => /\ ndevices["gpu"] = Cardinality(LifeCounted')
                                /\ ndevices_commit["gpu"] = Cardinality(LifeCommitted')
      BY <2>2, <1>9
    <2>4. \A g \in 1..LifeN : state'[g] \in {"commit", "start"} =>
                /\ main = "config" => at > LifeN
                /\ peers'[g] = {b + h : h \in 1..LifeN}
      <3> SUFFICES ASSUME NEW g \in 1..LifeN, state'[g] \in {"commit", "start"}
                   PROVE  /\ main = "config" => at > LifeN
                          /\ peers'[g] = {b + h : h \in 1..LifeN}
        OBVIOUS
      <3>1. CASE g = d
        <4>1. d # 0
          BY <3>1, <1>4
        <4> QED BY <3>1, <4>1, <1>10
      <3>2. CASE g # d
        BY <3>2, <2>1, <2>2
      <3> QED BY <3>1, <3>2
    <2> QED BY <1>2, <1>3, <2>3, <2>4 DEF LifeBarrier
  <1>12. LifePushes(b)' /\ LifeTurns'
    BY <1>3, LifePushesKept
  <1> QED BY <1>2, <1>5, <1>6, <1>8, <1>11, <1>12 DEF LifeGood

\* A device attached is in one of four stages.
LEMMA LifeOneOf ==
    ASSUME NEW b \in {0, 1}, LifeGood(b), NEW d \in LifeUp
    PROVE  LifeStarting(d) \/ LifeLooping(d) \/ LifeStopping(d) \/ LifeGone(d)
  <1>1. main # "out"
    BY DEF LifeUp
  <1>2. main \in {"config", "running", "stop", "wakeup", "stopwait", "join"}
    BY <1>1 DEF LifeGood, LifeType
  <1>3. d < at \/ d > at \/ d = at
    BY LifeUpBounds
  <1>4. /\ LifeSlow(d) => LifeLooping(d) \/ LifeStarting(d)
        /\ LifeLeft(d) => LifeGone(d) \/ LifeLooping(d) \/ LifeStarting(d)
    BY DEF LifeSlow, LifeLeft
  <1> QED BY <1>2, <1>3, <1>4 DEF LifeGood, LifeStage

\* The end of the start of a device: it is counted and enters its loop.
LEMMA LifeStart ==
    ASSUME NEW b \in {0, 1}, NEW d \in Life!Devices, LifeGood(b), Life!Start(d)
    PROVE  LifeGood(b)'
  <1>1. LifeStep(d, "loop", "start")
    BY DEF LifeStep, LifePcs, LifeStates, LifeStarting, LifeLooping, LifeStopping, LifeGone,
           LifeGood, LifeType, Life!Start, Life!At, Life!SetState
  <1>2. /\ LifeN' = LifeN /\ LifeUp' = LifeUp /\ d \in LifeUp /\ LifeUp \subseteq Life!Devices
        /\ dpc' \in [Life!Devices -> LifePcs] /\ state' \in [Life!Devices -> LifeStates]
        /\ dpc'[d] = "loop" /\ state'[d] = "start"
        /\ \A x \in Life!Devices : x # d => dpc'[x] = dpc[x] /\ state'[x] = state[x]
        /\ LifeStage'
    BY <1>1, LifeStepStage
  <1>3. /\ dpc[d] = "committed" /\ LifeNoPush
        /\ UNCHANGED <<main, at, ids, kaapi_ldid, map_ldid2ld, gpuDomains, ldid, lid, table, nodes,
                       ndevices, peers>>
        /\ ndevices_commit' = [ndevices_commit EXCEPT ![Life!Driver(d)] = @ + 1]
    BY DEF Life!Start, Life!CountCommit, Life!At, LifeNoPush, Life!domainVars, Life!taskVars
  <1>4. LifeType'
    <2>1. ndevices_commit' \in [{"host", "gpu"} -> Nat]
      BY <1>3 DEF LifeGood, LifeType, Life!Driver
    <2> QED BY <1>2, <1>3, <2>1 DEF LifeGood, LifeType, LifeNoPush
  <1>5. LifeNumbers(b)'
    BY <1>2, <1>3 DEF LifeGood, LifeNumbers, LifeLid
  <1>6. LifeListed' = LifeListed /\ LifeNoded' = LifeNoded
    BY <1>2, <1>3 DEF LifeListed, LifeNoded
  <1>7. LifeTables(b)'
    BY <1>2, <1>3, <1>6 DEF LifeTables, LifeGood, LifeLid
  <1>8. 1..LifeN \subseteq Life!Devices /\ LifeUp \subseteq 0..LifeN /\ LifeN \in Nat
    BY LifeUpBounds
  <1>9. LifeCounted' = LifeCounted
    BY <1>2, <1>3, <1>8 DEF LifeCounted
  <1>10. ndevices_commit'["gpu"] = ndevices_commit["gpu"] + Cardinality(LifeCommitted') - Cardinality(LifeCommitted)
    <2>1. CASE d = 0
      <3>1. ndevices_commit'["gpu"] = ndevices_commit["gpu"]
        BY <1>3, <2>1 DEF Life!Driver, LifeGood, LifeType
      <3>2. LifeCommitted' = LifeCommitted
        BY <1>2, <1>8, <2>1 DEF LifeCommitted
      <3>3. Cardinality(LifeCommitted) \in Nat /\ ndevices_commit["gpu"] \in Nat
        BY LifeSetsFinite, FS_CardinalityType DEF LifeGood, LifeType
      <3> QED BY <3>1, <3>2, <3>3
    <2>2. CASE d # 0
      <3>1. ndevices_commit'["gpu"] = ndevices_commit["gpu"] + 1 /\ ndevices_commit["gpu"] \in Nat
        BY <1>3, <2>2 DEF Life!Driver, LifeGood, LifeType
      <3>2. d \in 1..LifeN
        BY <1>2, <1>8, <2>2
      <3>3. LifeCommitted' = LifeCommitted \cup {d} /\ d \notin LifeCommitted
        BY <1>2, <1>3, <1>8, <3>2 DEF LifeCommitted
      <3>4. IsFiniteSet(LifeCommitted)
        BY LifeSetsFinite DEF LifeGood
      <3>5. Cardinality(LifeCommitted') = Cardinality(LifeCommitted) + 1 /\ Cardinality(LifeCommitted) \in Nat
        BY <3>3, <3>4, LifeCountGrows, FS_CardinalityType
      <3> QED BY <3>1, <3>5
    <2> QED BY <2>1, <2>2
  <1>11. LifeBarrier(b)'
    <2>1. /\ main = "config" => /\ ndevices["gpu"] = Cardinality(LifeCounted)
                                /\ ndevices_commit["gpu"] = Cardinality(LifeCommitted)
          /\ \A g \in 1..LifeN : state[g] \in {"commit", "start"} =>
                /\ main = "config" => at > LifeN
                /\ peers[g] = {b + h : h \in 1..LifeN}
      BY DEF LifeBarrier, LifeGood
    <2>2. Cardinality(LifeCommitted) \in Nat /\ Cardinality(LifeCommitted') \in Nat
      <3>1. IsFiniteSet(LifeCommitted) /\ IsFiniteSet(1..LifeN)
        BY LifeSetsFinite, <1>8, FS_Interval DEF LifeGood
      <3>2. LifeCommitted' \subseteq 1..LifeN
        BY <1>2 DEF LifeCommitted
      <3> QED BY <3>1, <3>2, FS_Subset, FS_CardinalityType
    <2>3. main = "config" => ndevices'["gpu"] = Cardinality(LifeCounted')
                             /\ ndevices_commit'["gpu"] = Cardinality(LifeCommitted')
      BY <2>1, <2>2, <1>10, <1>9, <1>3
    <2>4. LifeStarting(d)
      BY <1>2, <1>3, LifeOneOf DEF LifeLooping, LifeStopping, LifeGone
    <2>5. \A g \in 1..LifeN : state'[g] \in {"commit", "start"} => state[g] \in {"commit", "start"}
      BY <1>2, <1>3, <1>8, <2>4 DEF LifeStarting
    <2> QED BY <1>2, <1>3, <2>1, <2>3, <2>5 DEF LifeBarrier
  <1>12. LifePushes(b)' /\ LifeTurns'
    BY <1>3, LifePushesKept
  <1> QED BY <1>2, <1>4, <1>5, <1>7, <1>11, <1>12 DEF LifeGood

\* _kaapi_offload_device_finalize: the domain and the node of the device are gone.
LEMMA LifeFinalize ==
    ASSUME NEW b \in {0, 1}, NEW d \in Life!Devices, LifeGood(b), Life!DeviceFinalize(d)
    PROVE  LifeGood(b)'
  <1>1. LifeStep(d, "dead", "destroyed")
    BY DEF LifeStep, LifePcs, LifeStates, LifeStarting, LifeLooping, LifeStopping, LifeGone,
           LifeGood, LifeType, Life!DeviceFinalize, Life!At, Life!SetState
  <1>2. /\ LifeN' = LifeN /\ LifeUp' = LifeUp /\ d \in LifeUp /\ LifeUp \subseteq Life!Devices
        /\ dpc' \in [Life!Devices -> LifePcs] /\ state' \in [Life!Devices -> LifeStates]
        /\ dpc'[d] = "dead" /\ state'[d] = "destroyed"
        /\ \A x \in Life!Devices : x # d => dpc'[x] = dpc[x] /\ state'[x] = state[x]
        /\ LifeStage'
    BY <1>1, LifeStepStage
  <1>3. /\ dpc[d] = "fini" /\ LifeNoPush
        /\ UNCHANGED <<main, at, ids, kaapi_ldid, gpuDomains, ldid, lid, table, ndevices,
                       ndevices_commit, peers>>
        /\ nodes' = IF d = 0 THEN nodes ELSE [l \in DOMAIN nodes \ {lid[d]} |-> nodes[l]]
        /\ map_ldid2ld' = [l \in DOMAIN map_ldid2ld \ {ldid[d]} |-> map_ldid2ld[l]]
    BY DEF Life!DeviceFinalize, Life!Unregister, Life!At, LifeNoPush, Life!domainVars, Life!taskVars
  <1>4. ldid[d] = b + d /\ lid[d] = LifeLid(b, d)
    BY <1>2, <1>3 DEF LifeGood, LifeNumbers
  <1>5. Life!Devices \subseteq Nat
    BY LifeDevices
  <1>6. LifeType'
    BY <1>2, <1>3 DEF LifeGood, LifeType, LifeNoPush
  <1>7. LifeNumbers(b)'
    BY <1>2, <1>3 DEF LifeGood, LifeNumbers, LifeLid
  <1>8. LifeListed' = LifeListed \ {d} /\ LifeNoded' = IF d = 0 THEN LifeNoded ELSE LifeNoded \ {d}
    <2>1. LifeListed' = LifeListed \ {d}
      BY <1>2, <1>3 DEF LifeListed
    <2>2. LifeNoded' = IF d = 0 THEN LifeNoded ELSE LifeNoded \ {d}
      BY <1>2, <1>3 DEF LifeNoded
    <2> QED BY <2>1, <2>2
  <1>9. LifeListed \subseteq Nat /\ LifeNoded \subseteq Nat
    <2>1. LifeUp \subseteq Nat
      BY <1>2, <1>5
    <2>2. LifeListed \subseteq LifeUp
      BY DEF LifeListed
    <2>3. LifeNoded \subseteq LifeUp \cup {0}
      BY DEF LifeNoded
    <2> QED BY <2>1, <2>2, <2>3
  <1>10. map_ldid2ld' = [l \in {b + x : x \in LifeListed \ {d}} |-> l - b]
    <2>1. map_ldid2ld = [l \in {b + x : x \in LifeListed} |-> l - b]
      BY DEF LifeGood, LifeTables
    <2>2. {b + x : x \in LifeListed \ {d}} = {b + x : x \in LifeListed} \ {b + d}
      <3>1. \A x \in LifeListed : b + x = b + d => x = d
        BY <1>5, <1>9
      <3>2. \A x \in LifeListed \ {d} : b + x # b + d
        BY <3>1
      <3> QED BY <3>1, <3>2, Zenon
    <2> QED BY <1>3, <1>4, <2>1, <2>2
  <1>11. nodes' = [l \in {LifeLid(b, x) : x \in LifeNoded'} |-> IF l = 0 THEN 0 ELSE l - b]
    <2>1. nodes = [l \in {LifeLid(b, x) : x \in LifeNoded} |-> IF l = 0 THEN 0 ELSE l - b]
      BY DEF LifeGood, LifeTables
    <2>2. CASE d = 0
      BY <1>3, <1>8, <2>1, <2>2
    <2>3. CASE d # 0
      <3>1. \A x \in Nat : LifeLid(b, x) = LifeLid(b, d) => x = d
        BY <1>5, <2>3 DEF LifeLid
      <3>2. {LifeLid(b, x) : x \in LifeNoded \ {d}} = {LifeLid(b, x) : x \in LifeNoded} \ {LifeLid(b, d)}
        BY <3>1, <1>9
      <3> QED BY <1>3, <1>4, <1>8, <2>1, <2>3, <3>2
    <2> QED BY <2>2, <2>3
  <1>12. main # "out"
    BY <1>2 DEF LifeUp
  <1>13. LifeTables(b)'
    BY <1>2, <1>3, <1>8, <1>10, <1>11, <1>12 DEF LifeTables, LifeGood, LifeLid
  <1>14. 1..LifeN \subseteq Life!Devices
    BY LifeUpBounds
  <1>15. LifeCounted' = LifeCounted /\ LifeCommitted' = LifeCommitted
    BY <1>2, <1>3, <1>14 DEF LifeCounted, LifeCommitted
  <1>16. LifeBarrier(b)'
    <2>1. \A g \in 1..LifeN : state'[g] \in {"commit", "start"} => state[g] \in {"commit", "start"}
      BY <1>2, <1>14
    <2> QED BY <1>2, <1>3, <1>15, <2>1 DEF LifeBarrier, LifeGood
  <1>17. LifePushes(b)' /\ LifeTurns'
    BY <1>3, LifePushesKept
  <1> QED BY <1>2, <1>6, <1>7, <1>13, <1>16, <1>17 DEF LifeGood

\* A device executes a task.
LEMMA LifeRun ==
    ASSUME NEW b \in {0, 1}, NEW d \in Life!Devices, LifeGood(b), Life!RunTask(d)
    PROVE  LifeGood(b)'
  <1>1. /\ queue[d] > 0 /\ queue' = [queue EXCEPT ![d] = @ - 1]
        /\ UNCHANGED <<main, at, ids, kaapi_ldid, map_ldid2ld, gpuDomains, ldid, lid, table, nodes, state, dpc,
                       ndevices, ndevices_commit, peers, last_ldid, pushes>>
    BY DEF Life!RunTask, Life!domainVars, Life!deviceVars
  <1>2. LifeN' = LifeN /\ LifeUp' = LifeUp
    BY <1>1 DEF LifeN, LifeUp
  <1>3. main = "running"
    BY <1>1 DEF LifeGood, LifePushes
  <1>4. LifeType'
    BY <1>1, <1>2 DEF LifeGood, LifeType
  <1>5. LifeStage' /\ LifeNumbers(b)'
    BY <1>1, <1>2 DEF LifeGood, LifeStage, LifeNumbers, LifeLid, LifeStarting, LifeLooping, LifeStopping, LifeGone,
          LifeSlow, LifeLeft
  <1>6. LifeListed' = LifeListed /\ LifeNoded' = LifeNoded
    BY <1>1, <1>2 DEF LifeListed, LifeNoded
  <1>7. LifeTables(b)'
    BY <1>1, <1>2, <1>6 DEF LifeTables, LifeGood, LifeLid
  <1>8. LifeBarrier(b)'
    BY <1>1, <1>2, <1>3 DEF LifeBarrier, LifeGood
  <1>9. LifePushes(b)'
    BY <1>1, <1>2, <1>3 DEF LifeGood, LifePushes, LifePlaced
  <1>10. LifeTurns'
    BY <1>1, <1>2, Zenon DEF LifeGood, LifeTurns, LifeGot
  <1> QED BY <1>4, <1>5, <1>7, <1>8, <1>9, <1>10 DEF LifeGood

-----------------------------------------------------------------------------
(* kaapi_thread_push.                                                      *)

\* The hint of a task names processors by their address spaces, which lead to them.
LEMMA LifeHint ==
    ASSUME NEW b \in {0, 1}, LifeGood(b), main = "running", NEW h \in Life!Hints
    PROVE  /\ h \in [kind : {"none", "bound", "ocr"}, valid : SUBSET Int, wish : SUBSET Int]
           /\ h.valid \subseteq {b + g : g \in 1..LifeN} /\ h.wish \subseteq {b + g : g \in 1..LifeN}
           /\ Life!Named(h) = {l - b : l \in IF h.valid # {} THEN h.valid ELSE h.wish}
  <1>1. 1..LifeN \subseteq Life!Devices /\ LifeN \in Nat /\ Life!InUse \ {0} = 1..LifeN
    BY LifeUpBounds
  <1>2. \A g \in 1..LifeN : lid[g] = b + g /\ g \in LifeListed
    <2> SUFFICES ASSUME NEW g \in 1..LifeN PROVE lid[g] = b + g /\ g \in LifeListed
      OBVIOUS
    <2>1. g \in LifeUp /\ g # 0 /\ g \in Life!Devices
      BY <1>1 DEF LifeUp
    <2>2. LifeLooping(g)
      BY <2>1 DEF LifeGood, LifeStage, LifeSlow
    <2> QED BY <2>1, <2>2 DEF LifeGood, LifeNumbers, LifeLid, LifeLooping, LifeListed
  <1>3. Life!GpuLids = {b + g : g \in 1..LifeN}
    BY <1>1, <1>2 DEF Life!GpuLids
  <1>4. /\ h \in [kind : {"none", "bound", "ocr"}, valid : SUBSET Int, wish : SUBSET Int]
        /\ h.valid \subseteq Life!GpuLids /\ h.wish \subseteq Life!GpuLids
    <2>1. Life!GpuLids \subseteq Int
      BY <1>3, <1>1
    <2>2. CASE h = Life!NoHint
      BY <2>2 DEF Life!NoHint
    <2>3. CASE h \in [kind : {"bound"}, valid : {{}}, wish : {{l} : l \in Life!GpuLids}]
      BY <2>1, <2>3
    <2>4. CASE h \in [kind : {"ocr"}, valid : SUBSET Life!GpuLids, wish : {{}} \cup {{l} : l \in Life!GpuLids}]
      BY <2>1, <2>4
    <2> QED BY <2>2, <2>3, <2>4 DEF Life!Hints
  <1>5. \A l \in Life!GpuLids : Life!Domain(l) = l - b /\ l - b # Life!None
    <2> SUFFICES ASSUME NEW g \in 1..LifeN PROVE Life!Domain(b + g) = b + g - b /\ b + g - b # Life!None
      BY <1>3
    <2>1. map_ldid2ld = [l \in {b + d : d \in LifeListed} |-> l - b]
      BY DEF LifeGood, LifeTables
    <2>2. b + g \in DOMAIN map_ldid2ld
      BY <1>2, <2>1
    <2>3. b + g \in {b + d : d \in LifeListed}
      BY <1>2
    <2>4. map_ldid2ld[b + g] = b + g - b
      BY <2>1, <2>3
    <2> QED BY <2>2, <2>4, <1>1 DEF Life!Domain, Life!None
  <1>6. Life!Named(h) = {l - b : l \in IF h.valid # {} THEN h.valid ELSE h.wish}
    <2> DEFINE S == IF h.valid # {} THEN h.valid ELSE h.wish
    <2>1. Life!Named(h) = {Life!Domain(l) : l \in S} \ {Life!None}
      BY Zenon DEF Life!Named
    <2>2. S \subseteq Life!GpuLids
      BY <1>4
    <2> HIDE DEF S
    <2>3. \A l \in S : Life!Domain(l) = l - b /\ l - b # Life!None
      BY <1>5, <2>2
    <2>4. {Life!Domain(l) : l \in S} \ {Life!None} = {l - b : l \in S}
      BY <2>3
    <2> QED BY <2>1, <2>4 DEF S
  <1> QED BY <1>3, <1>4, <1>6

\* A task goes where its hint leads, or to the processor whose turn it is.
LEMMA LifePush ==
    ASSUME NEW b \in {0, 1}, NEW h \in Life!Hints, LifeGood(b), Life!Push(h)
    PROVE  LifeGood(b)'
  <1> DEFINE turn == gpuDomains[last_ldid + 1]
             hinted == Life!Named(h) # {}
  <1>1. PICK d \in IF hinted THEN Life!Named(h) ELSE {turn} :
          /\ queue' = [queue EXCEPT ![d] = @ + 1]
          /\ pushes' = Append(pushes, [hint |-> h, to |-> d])
    BY DEF Life!Push
  <1>2. /\ main = "running" /\ ids # <<>>
        /\ last_ldid' = IF hinted THEN last_ldid ELSE Life!Next1(last_ldid)
        /\ UNCHANGED <<main, at, ids, kaapi_ldid, map_ldid2ld, gpuDomains, ldid, lid, table, nodes, state, dpc,
                       ndevices, ndevices_commit, peers>>
    BY DEF Life!Push, Life!domainVars
  <1>3. /\ h \in [kind : {"none", "bound", "ocr"}, valid : SUBSET Int, wish : SUBSET Int]
        /\ h.valid \subseteq {b + g : g \in 1..LifeN} /\ h.wish \subseteq {b + g : g \in 1..LifeN}
        /\ Life!Named(h) = {l - b : l \in IF h.valid # {} THEN h.valid ELSE h.wish}
    BY <1>2, LifeHint
  <1>4. LifeN \in Nat /\ LifeN > 0 /\ 1..LifeN \subseteq Life!Devices
    BY <1>2, LifeUpBounds DEF LifeGood, LifeType
  <1>5. last_ldid \in Nat /\ last_ldid < LifeN
    BY <1>4 DEF LifeGood, LifeTurns
  <1>6. turn = last_ldid + 1 /\ turn \in 1..LifeN /\ Len(gpuDomains) = LifeN
    <2>1. gpuDomains = [k \in 1..LifeN |-> k]
      BY <1>2 DEF LifeGood, LifeTables
    <2> QED BY <2>1, <1>4, <1>5
  <1>7. hinted <=> h.valid \cup h.wish # {}
    <2>1. hinted <=> (IF h.valid # {} THEN h.valid ELSE h.wish) # {}
      BY <1>3
    <2> QED BY <2>1
  <1>8. d \in 1..LifeN /\ (hinted => b + d \in IF h.valid # {} THEN h.valid ELSE h.wish)
    <2>1. CASE hinted
      <3>1. PICK l \in IF h.valid # {} THEN h.valid ELSE h.wish : d = l - b
        BY <1>1, <1>3, <2>1
      <3>2. PICK g \in 1..LifeN : l = b + g
        BY <1>3
      <3>3. d = g /\ b + d = l
        BY <3>1, <3>2
      <3> QED BY <3>1, <3>3
    <2>2. CASE ~hinted
      BY <1>1, <1>6, <2>2
    <2> QED BY <2>1, <2>2
  <1>9. hinted \/ d = turn
    BY <1>1
  <1> HIDE DEF turn, hinted
  <1>10. LifeN' = LifeN /\ LifeUp' = LifeUp
    BY <1>2 DEF LifeN, LifeUp
  <1>11. LifeType'
    <2>1. queue' \in [Life!Devices -> Nat]
      BY <1>1, <1>4, <1>8 DEF LifeGood, LifeType
    <2> QED BY <1>2, <1>10, <2>1 DEF LifeGood, LifeType
  <1>12. LifeStage' /\ LifeNumbers(b)'
    BY <1>2, <1>10 DEF LifeGood, LifeStage, LifeNumbers, LifeLid, LifeStarting, LifeLooping, LifeStopping, LifeGone,
          LifeSlow, LifeLeft
  <1>13. LifeListed' = LifeListed /\ LifeNoded' = LifeNoded
    BY <1>2, <1>10 DEF LifeListed, LifeNoded
  <1>14. LifeTables(b)'
    BY <1>2, <1>10, <1>13 DEF LifeTables, LifeGood, LifeLid
  <1>15. LifeBarrier(b)'
    BY <1>2, <1>10 DEF LifeBarrier, LifeGood
  <1> DEFINE new == [hint |-> h, to |-> d]
             T == [hint : [kind : {"none", "bound", "ocr"}, valid : SUBSET Int, wish : SUBSET Int], to : Int]
  <1>16. pushes \in Seq(T) /\ new \in T /\ pushes' = Append(pushes, new)
    BY <1>1, <1>3, <1>8 DEF LifeGood, LifePushes
  <1>17. LifePlaced(b, new)
    <2>1. new.hint = h /\ new.to = d
      OBVIOUS
    <2> HIDE DEF new
    <2> QED BY <2>1, <1>7, <1>8 DEF LifePlaced
  <1>18. new.to = d /\ new.hint = h
    OBVIOUS
  <1> HIDE DEF new, T
  <1>19. /\ Len(pushes) \in Nat /\ Len(pushes') = Len(pushes) + 1
         /\ DOMAIN pushes = 1..Len(pushes) /\ DOMAIN pushes' = 1..Len(pushes) + 1
         /\ \A k \in 1..Len(pushes) : pushes'[k] = pushes[k]
         /\ pushes'[Len(pushes) + 1] = new /\ pushes' \in Seq(T)
    BY <1>16
  <1>20. LifePushes(b)'
    <2>1. \A k \in DOMAIN pushes' : LifePlaced(b, pushes'[k])
      BY <1>17, <1>19 DEF LifeGood, LifePushes
    <2>2. \A k \in DOMAIN pushes' : LifePlaced(b, pushes[k])'
      BY <2>1, <1>10 DEF LifePlaced
    <2> QED BY <2>2, <1>2, <1>19 DEF LifePushes, T
  <1>21. \A g \in 1..LifeN :
           LifeGot(g)' = IF ~hinted /\ g = d THEN LifeGot(g) \cup {Len(pushes) + 1} ELSE LifeGot(g)
    <2> SUFFICES ASSUME NEW g \in 1..LifeN
                 PROVE  LifeGot(g)' = IF ~hinted /\ g = d THEN LifeGot(g) \cup {Len(pushes) + 1} ELSE LifeGot(g)
      OBVIOUS
    <2> DEFINE Free(p) == p.to = g /\ p.hint.valid \cup p.hint.wish = {}
    <2>1. LifeGot(g) = {k \in 1..Len(pushes) : Free(pushes[k])}
      BY <1>19, Zenon DEF LifeGot
    <2>2. LifeGot(g)' = {k \in 1..Len(pushes) + 1 : Free(pushes'[k])}
      BY <1>19, Zenon DEF LifeGot
    <2>3. Free(new) <=> ~hinted /\ g = d
      BY <1>7, <1>18
    <2> HIDE DEF Free
    <2>4. {k \in 1..Len(pushes) + 1 : Free(pushes'[k])} =
            IF ~hinted /\ g = d THEN {k \in 1..Len(pushes) : Free(pushes[k])} \cup {Len(pushes) + 1}
                               ELSE {k \in 1..Len(pushes) : Free(pushes[k])}
      <3>1. \A k \in 1..Len(pushes) : Free(pushes'[k]) <=> Free(pushes[k])
        BY <1>19
      <3>2. Free(pushes'[Len(pushes) + 1]) <=> ~hinted /\ g = d
        BY <1>19, <2>3
      <3>3. \A k : k \in 1..Len(pushes) + 1 <=> (k \in 1..Len(pushes) \/ k = Len(pushes) + 1)
        BY <1>19
      <3> QED BY <3>1, <3>2, <3>3
    <2> QED BY <2>1, <2>2, <2>4
  <1>22. \A g \in 1..LifeN :
           Cardinality(LifeGot(g)') = Cardinality(LifeGot(g)) + IF ~hinted /\ g = d THEN 1 ELSE 0
    <2> SUFFICES ASSUME NEW g \in 1..LifeN
                 PROVE  Cardinality(LifeGot(g)') = Cardinality(LifeGot(g)) + IF ~hinted /\ g = d THEN 1 ELSE 0
      OBVIOUS
    <2>1. IsFiniteSet(1..Len(pushes)) /\ LifeGot(g) \subseteq 1..Len(pushes)
      BY <1>19, FS_Interval DEF LifeGot
    <2>2. IsFiniteSet(LifeGot(g)) /\ Len(pushes) + 1 \notin LifeGot(g)
      BY <2>1, <1>19, FS_Subset
    <2>3. Cardinality(LifeGot(g)) \in Nat
      BY <2>2, FS_CardinalityType
    <2>4. Cardinality(LifeGot(g) \cup {Len(pushes) + 1}) = Cardinality(LifeGot(g)) + 1
      BY <2>2, LifeCountGrows
    <2>5. CASE ~hinted /\ g = d
      BY <2>3, <2>4, <2>5, <1>21
    <2>6. CASE ~(~hinted /\ g = d)
      <3>1. LifeGot(g)' = LifeGot(g)
        BY <2>6, <1>21
      <3> QED BY <3>1, <2>3, <2>6
    <2> QED BY <2>5, <2>6
  <1>23. LifeTurns'
    <2>1. PICK q \in 0..Len(pushes) : \A g \in 1..LifeN :
            Cardinality(LifeGot(g)) = IF g <= last_ldid THEN q + 1 ELSE q
      BY DEF LifeGood, LifeTurns
    <2>2. CASE hinted
      <3>1. last_ldid' = last_ldid
        BY <1>2, <2>2
      <3>2. \A g \in 1..LifeN : Cardinality(LifeGot(g)') = IF g <= last_ldid THEN q + 1 ELSE q
        BY <1>22, <2>1, <2>2
      <3>3. q \in 0..Len(pushes')
        BY <1>19
      <3> QED BY <3>1, <3>2, <3>3, <1>5, <1>10 DEF LifeTurns
    <2>3. CASE ~hinted
      <3>1. last_ldid' = IF last_ldid + 1 >= LifeN THEN 0 ELSE last_ldid + 1
        BY <1>2, <1>6, <2>3 DEF Life!Next1
      <3>2. \A g \in 1..LifeN : Cardinality(LifeGot(g)') = IF g <= last_ldid + 1 THEN q + 1 ELSE q
        BY <1>22, <2>1, <2>3, <1>5, <1>6, <1>9
      <3>3. q \in 0..Len(pushes') /\ q + 1 \in 0..Len(pushes')
        BY <1>19
      <3>4. CASE last_ldid + 1 >= LifeN
        <4>1. \A g \in 1..LifeN : Cardinality(LifeGot(g)') = IF g <= 0 THEN q + 2 ELSE q + 1
          BY <3>2, <3>4, <1>5, <1>4
        <4> QED BY <3>1, <3>3, <3>4, <4>1, <1>10 DEF LifeTurns
      <3>5. CASE last_ldid + 1 < LifeN
        <4>1. last_ldid' = last_ldid + 1
          BY <3>1, <3>5, <1>4, <1>5
        <4>2. \A g \in 1..LifeN : Cardinality(LifeGot(g)') = IF g <= last_ldid' THEN q + 1 ELSE q
          BY <4>1, <3>2
        <4> QED BY <4>1, <4>2, <3>3, <3>5, <1>5, <1>10 DEF LifeTurns
      <3> QED BY <3>4, <3>5, <1>4, <1>5
    <2> QED BY <2>2, <2>3
  <1> QED BY <1>11, <1>12, <1>14, <1>15, <1>20, <1>23 DEF LifeGood

-----------------------------------------------------------------------------
(* The main thread.                                                        *)

\* kaapi_init begins: no device is there.
LEMMA LifeKaapiInit ==
    ASSUME NEW b \in {0, 1}, LifeGood(b), Life!KaapiInit
    PROVE  LifeGood(b)'
  <1>1. PICK n \in NumGpus, set \in GpuSets : ids' = Life!Smallest(set, n)
    BY DEF Life!KaapiInit
  <1>2. /\ main = "out" /\ main' = "config" /\ at' = 0 /\ LifeNoPush
        /\ ndevices' = [x \in {"host", "gpu"} |-> 0] /\ ndevices_commit' = [x \in {"host", "gpu"} |-> 0]
        /\ UNCHANGED <<kaapi_ldid, map_ldid2ld, gpuDomains, ldid, lid, table, nodes, state, dpc, peers>>
    BY DEF Life!KaapiInit, LifeNoPush, Life!domainVars, Life!taskVars
  <1>3. /\ LifeN' \in Nat /\ 1..LifeN' \subseteq Life!Gpus
        /\ LifeN' = 0 => ids' = <<>>
    <2>1. PICK k \in Nat : ids' = [x \in 1..k |-> Life!Nth(set, x)] /\ 1..k \subseteq Life!Gpus
      BY <1>1, LifeSelects
    <2>2. LifeN' = k
      BY <2>1 DEF LifeN
    <2>3. k = 0 => ids' = <<>>
      BY <2>1
    <2> QED BY <2>1, <2>2, <2>3
  <1>4. LifeUp = {} /\ LifeUp' = {}
    BY <1>2 DEF LifeUp
  <1>5. \A d \in Life!Devices : dpc[d] = "none" /\ state[d] = "none" /\ ldid[d] = Life!None /\ lid[d] = Life!None
    BY <1>4 DEF LifeGood, LifeNumbers
  <1>6. LifeType'
    <2>1. ndevices' \in [{"host", "gpu"} -> Nat] /\ ndevices_commit' \in [{"host", "gpu"} -> Nat]
      BY <1>2
    <2>2. PICK k \in Nat : LifeN' = k
      BY <1>3
    <2>3. at' \in 0..k + 1
      BY <1>2
    <2> QED BY <1>2, <1>3, <2>1, <2>2, <2>3 DEF LifeGood, LifeType, LifeNoPush
  <1>7. LifeStage' /\ LifeNumbers(b)'
    BY <1>2, <1>4, <1>5 DEF LifeStage, LifeNumbers
  <1>8. LifeListed = {} /\ LifeListed' = {} /\ LifeNoded = {} /\ LifeNoded' = {}
    BY <1>2, <1>4 DEF LifeListed, LifeNoded
  <1>9. LifeTables(b)'
    BY <1>2, <1>8 DEF LifeTables, LifeGood, LifeLid
  <1>10. 1..LifeN' \subseteq Life!Devices
    BY <1>3, LifeDevices
  <1>11. LifeCounted' = {} /\ LifeCommitted' = {}
    BY <1>2, <1>5, <1>10 DEF LifeCounted, LifeCommitted
  <1>12. LifeBarrier(b)'
    <2>1. Cardinality({}) = 0
      BY FS_EmptySet
    <2>2. ndevices'["gpu"] = 0 /\ ndevices_commit'["gpu"] = 0
      BY <1>2
    <2>3. \A g \in 1..LifeN' : state'[g] = "none"
      BY <1>2, <1>5, <1>10
    <2> QED BY <1>11, <2>1, <2>2, <2>3 DEF LifeBarrier
  <1>13. pushes = <<>> /\ last_ldid = 0 /\ \A d \in Life!Devices : queue[d] = 0
    BY <1>2 DEF LifeGood, LifePushes
  <1>14. LifePushes(b)'
    BY <1>2, <1>13 DEF LifePushes, LifeNoPush
  <1>15. LifeTurns'
    <2>1. \A g \in 1..LifeN' : LifeGot(g)' = {}
      BY <1>2, <1>13 DEF LifeGot, LifeNoPush
    <2>2. \A g \in 1..LifeN' : Cardinality(LifeGot(g)') = 0 /\ ~(g <= 0)
      <3>1. Cardinality({}) = 0
        BY FS_EmptySet
      <3>2. PICK k \in Nat : LifeN' = k
        BY <1>3
      <3>3. \A g \in 1..k : ~(g <= 0)
        OBVIOUS
      <3> QED BY <2>1, <3>1, <3>2, <3>3
    <2>3. 0 \in 0..Len(pushes') /\ last_ldid' = 0
      BY <1>2, <1>13 DEF LifeNoPush
    <2> QED BY <2>2, <2>3 DEF LifeTurns
  <1> QED BY <1>6, <1>7, <1>9, <1>12, <1>14, <1>15 DEF LifeGood

\* kaapi_offload_config_devices: a device is attached and its thread created.
LEMMA LifeConfig ==
    ASSUME NEW b \in {0, 1}, LifeGood(b), Life!ConfigDevice
    PROVE  LifeGood(b)'
  <1>1. /\ main = "config" /\ at \in Life!InUse /\ at' = at + 1 /\ LifeNoPush
        /\ dpc' = [dpc EXCEPT ![at] = "create"]
        /\ ldid' = [ldid EXCEPT ![at] = kaapi_ldid] /\ kaapi_ldid' = kaapi_ldid + 1
        /\ map_ldid2ld' = [l \in DOMAIN map_ldid2ld \cup {kaapi_ldid} |-> IF l = kaapi_ldid THEN at ELSE map_ldid2ld[l]]
        /\ gpuDomains' = IF at = 0 THEN gpuDomains ELSE Append(gpuDomains, at)
        /\ UNCHANGED <<main, ids, lid, table, nodes, state, ndevices, ndevices_commit, peers>>
    BY DEF Life!ConfigDevice, Life!Attach, LifeNoPush, Life!taskVars
  <1>2. LifeN \in Nat /\ at \in 0..LifeN /\ 0..LifeN \subseteq Life!Devices
    BY <1>1, LifeInUse DEF LifeGood, LifeType
  <1>3. LifeN' = LifeN /\ LifeUp = 0..at - 1 /\ LifeUp' = LifeUp \cup {at} /\ at \notin LifeUp
    <2>1. LifeN' = LifeN
      BY <1>1 DEF LifeN
    <2>2. LifeUp = 0..at - 1 /\ LifeUp' = 0..at
      <3>1. LifeUp' = 0..at' - 1
        BY <1>1 DEF LifeUp
      <3>2. at' - 1 = at
        BY <1>1, <1>2
      <3> QED BY <3>1, <3>2, <1>1 DEF LifeUp
    <2> QED BY <1>2, <2>1, <2>2
  <1>4. at \in Life!Devices
    BY <1>2
  <1>5. dpc[at] = "none" /\ state[at] = "none" /\ lid[at] = Life!None
    BY <1>3, <1>4 DEF LifeGood, LifeNumbers
  <1>6. kaapi_ldid = b + at
    BY <1>1 DEF LifeGood, LifeTables
  <1>7. /\ dpc'[at] = "create" /\ ldid'[at] = b + at /\ dpc' \in [Life!Devices -> LifePcs]
        /\ \A x \in Life!Devices : x # at => dpc'[x] = dpc[x] /\ ldid'[x] = ldid[x]
    BY <1>1, <1>4, <1>6 DEF LifeGood, LifeType, LifePcs
  <1>8. LifeType'
    <2>1. ldid' \in [Life!Devices -> Int]
      BY <1>1, <1>2, <1>6 DEF LifeGood, LifeType
    <2>2. at' \in 0..LifeN' + 1
      BY <1>1, <1>2, <1>3
    <2> QED BY <1>1, <1>3, <1>7, <2>1, <2>2 DEF LifeGood, LifeType, LifeNoPush
  <1>9. LifeStage'
    <2> SUFFICES ASSUME NEW x \in LifeUp' PROVE LifeStarting(x)' \/ LifeLooping(x)'
      BY <1>1 DEF LifeStage
    <2>1. CASE x = at
      BY <1>1, <1>5, <1>7, <2>1 DEF LifeStarting
    <2>2. CASE x # at
      <3>1. x \in LifeUp /\ x \in Life!Devices
        BY <1>2, <1>3, <2>2
      <3>2. LifeStarting(x) \/ LifeLooping(x)
        BY <3>1, <1>1 DEF LifeGood, LifeStage
      <3>3. dpc'[x] = dpc[x] /\ state'[x] = state[x]
        BY <3>1, <2>2, <1>1, <1>7
      <3> QED BY <3>2, <3>3 DEF LifeStarting, LifeLooping
    <2> QED BY <2>1, <2>2
  <1>10. LifeNumbers(b)'
    <2> SUFFICES ASSUME NEW x \in Life!Devices
                 PROVE  IF x \in LifeUp'
                        THEN /\ ldid'[x] = b + x
                             /\ lid[x] = IF dpc'[x] \in {"create", "init"} THEN Life!None ELSE LifeLid(b, x)
                        ELSE /\ ldid'[x] = Life!None /\ lid[x] = Life!None
                             /\ dpc'[x] = "none" /\ state[x] = "none"
      BY <1>1 DEF LifeNumbers, LifeLid
    <2>1. CASE x = at
      BY <1>3, <1>5, <1>7, <2>1
    <2>2. CASE x # at
      BY <1>3, <1>7, <2>2 DEF LifeGood, LifeNumbers
    <2> QED BY <2>1, <2>2
  <1>11. LifeListed' = LifeListed \cup {at} /\ LifeNoded' = LifeNoded
    <2>1. \A x \in LifeUp : x # at /\ x \in Life!Devices
      BY <1>2, <1>3
    <2>2. LifeListed' = LifeListed \cup {at}
      BY <1>3, <1>7, <2>1 DEF LifeListed
    <2>3. LifeNoded' = LifeNoded
      BY <1>1, <1>3, <1>7, <2>1 DEF LifeNoded
    <2> QED BY <2>2, <2>3
  <1>12. LifeTables(b)'
    <2>1. map_ldid2ld' = [l \in {b + d : d \in LifeListed'} |-> l - b]
      <3>1. map_ldid2ld = [l \in {b + d : d \in LifeListed} |-> l - b]
        BY DEF LifeGood, LifeTables
      <3>2. {b + d : d \in LifeListed \cup {at}} = {b + d : d \in LifeListed} \cup {b + at}
        OBVIOUS
      <3>3. b + at - b = at
        BY <1>2
      <3>4. DOMAIN map_ldid2ld' = {b + d : d \in LifeListed'}
        BY <1>1, <1>6, <1>11, <3>1, <3>2
      <3>5. \A l \in DOMAIN map_ldid2ld' : map_ldid2ld'[l] = l - b
        <4> SUFFICES ASSUME NEW l \in DOMAIN map_ldid2ld' PROVE map_ldid2ld'[l] = l - b
          OBVIOUS
        <4>1. l = kaapi_ldid \/ (l # kaapi_ldid /\ l \in DOMAIN map_ldid2ld)
          BY <1>1
        <4>2. map_ldid2ld'[l] = IF l = kaapi_ldid THEN at ELSE map_ldid2ld[l]
          BY <1>1, <4>1
        <4>3. l # kaapi_ldid => map_ldid2ld[l] = l - b
          BY <3>1, <4>1
        <4>4. CASE l = kaapi_ldid
          <5>1. map_ldid2ld'[l] = at
            BY <4>2, <4>4
          <5>2. l = b + at
            BY <4>4, <1>6
          <5>3. l - b = at
            BY <5>2, <1>2
          <5> QED BY <5>1, <5>3
        <4>5. CASE l # kaapi_ldid
          BY <4>2, <4>3, <4>5
        <4> QED BY <4>4, <4>5
      <3>6. map_ldid2ld' = [l \in DOMAIN map_ldid2ld' |-> map_ldid2ld'[l]]
        BY <1>1
      <3> QED BY <3>4, <3>5, <3>6
    <2>2. nodes' = [l \in {LifeLid(b, d) : d \in LifeNoded'} |-> IF l = 0 THEN 0 ELSE l - b]
      BY <1>1, <1>11 DEF LifeGood, LifeTables
    <2>3. kaapi_ldid' = b + at'
      BY <1>1, <1>2, <1>6
    <2>4. gpuDomains' = [k \in 1..(IF at' = 0 THEN 0 ELSE at' - 1) |-> k]
      <3>1. gpuDomains = [k \in 1..(IF at = 0 THEN 0 ELSE at - 1) |-> k]
        BY <1>1 DEF LifeGood, LifeTables
      <3>2. (IF at' = 0 THEN 0 ELSE at' - 1) = at
        BY <1>1, <1>2
      <3>3. CASE at = 0
        BY <1>1, <3>1, <3>2, <3>3
      <3>4. CASE at # 0
        <4>1. gpuDomains = [k \in 1..at - 1 |-> k]
          BY <3>1, <3>4
        <4>2. gpuDomains \in Seq(Int) /\ Len(gpuDomains) = at - 1
          BY <4>1, <1>2, <3>4
        <4>3. Append(gpuDomains, at) = [k \in 1..at |-> k]
          BY <4>1, <4>2, <1>2, <3>4
        <4> QED BY <1>1, <4>3, <3>2, <3>4
      <3> QED BY <3>3, <3>4
    <2> QED BY <2>1, <2>2, <2>3, <2>4, <1>1 DEF LifeTables, LifeLid
  <1>13. 1..LifeN \subseteq Life!Devices
    BY LifeUpBounds
  <1>14. LifeCounted' = LifeCounted /\ LifeCommitted' = LifeCommitted
    BY <1>3, <1>5, <1>7, <1>13 DEF LifeCounted, LifeCommitted
  <1>15. LifeBarrier(b)'
    <2>1. \A g \in 1..LifeN : state[g] \in {"commit", "start"} => FALSE
      BY <1>1, <1>2 DEF LifeBarrier, LifeGood
    <2> QED BY <1>1, <1>3, <1>14, <2>1 DEF LifeBarrier, LifeGood
  <1>16. LifePushes(b)' /\ LifeTurns'
    BY <1>1, LifePushesKept
  <1> QED BY <1>8, <1>9, <1>10, <1>12, <1>15, <1>16 DEF LifeGood

\* What the main thread leaves alone while it goes through the devices.
LifeDevicesKept ==
    UNCHANGED <<ids, kaapi_ldid, map_ldid2ld, gpuDomains, ldid, lid, table, nodes, dpc, peers>>

\* A step of the main thread that attaches and joins nobody, and at most asks the
\* device it is at to stop.
LEMMA LifeMainStep ==
    ASSUME NEW b \in {0, 1}, LifeGood(b), LifeDevicesKept,
           UNCHANGED <<ndevices, ndevices_commit>>,
           main \in {"config", "running", "stop", "wakeup", "stopwait"},
           main' \in {"running", "stop", "wakeup", "stopwait", "join"},
           main = "config" => at > LifeN /\ main' = "running",
           main # "config" => main' # "running",
           main' = "join" => at' = 0,
           at' \in 0..LifeN + 1, main' \in {"wakeup", "stopwait"} => at' <= LifeN,
           state' \in [Life!Devices -> LifeStates],
           \A x \in Life!Devices : state'[x] = state[x] \/ (state'[x] = "stop" /\ x = at /\ at <= LifeN),
           LifeStage', queue' = queue, main = "running" => \A d \in Life!Devices : queue[d] = 0,
           IF main = "running" THEN pushes' = <<>> /\ last_ldid' = 0 ELSE UNCHANGED <<pushes, last_ldid>>
    PROVE  LifeGood(b)'
  <1>1. LifeN' = LifeN
    BY DEF LifeDevicesKept, LifeN
  <1>2. 1..LifeN \subseteq Life!Devices /\ LifeN \in Nat /\ at \in 0..LifeN + 1 /\ 0..LifeN \subseteq Life!Devices
    BY LifeUpBounds, LifeInUse DEF LifeGood
  <1>3. LifeUp = 0..LifeN /\ LifeUp' = 0..LifeN
    <2>1. LifeUp = 0..LifeN
      <3>1. main = "config" => at - 1 = LifeN
        BY <1>2
      <3> QED BY <3>1 DEF LifeUp
    <2>2. LifeUp' = 0..LifeN
      BY <1>1 DEF LifeUp
    <2> QED BY <2>1, <2>2
  <1>4. LifeType'
    BY <1>1 DEF LifeGood, LifeType, LifeDevicesKept
  <1>5. LifeNumbers(b)'
    <2> SUFFICES ASSUME NEW x \in Life!Devices
                 PROVE  IF x \in LifeUp
                        THEN /\ ldid[x] = b + x
                             /\ lid[x] = IF dpc[x] \in {"create", "init"} THEN Life!None ELSE LifeLid(b, x)
                        ELSE /\ ldid[x] = Life!None /\ lid[x] = Life!None
                             /\ dpc[x] = "none" /\ state'[x] = "none"
      BY <1>3 DEF LifeNumbers, LifeLid, LifeDevicesKept
    <2>1. CASE x \in LifeUp
      BY <2>1 DEF LifeGood, LifeNumbers
    <2>2. CASE x \notin LifeUp
      <3>1. ~(x = at /\ at <= LifeN)
        BY <1>2, <1>3, <2>2
      <3> QED BY <2>2, <3>1 DEF LifeGood, LifeNumbers
    <2> QED BY <2>1, <2>2
  <1>6. LifeListed' = LifeListed
    BY <1>3 DEF LifeListed, LifeDevicesKept
  <1>7. LifeNoded' = LifeNoded
    BY <1>3 DEF LifeNoded, LifeDevicesKept
  <1>8. LifeTables(b)'
    <2>1. gpuDomains = [k \in 1..LifeN |-> k] \/ main' # "running"
      <3>1. main = "config" => (IF at = 0 THEN 0 ELSE at - 1) = LifeN
        BY <1>2
      <3> QED BY <3>1 DEF LifeGood, LifeTables
    <2> QED BY <1>1, <1>6, <1>7, <2>1 DEF LifeTables, LifeGood, LifeLid, LifeDevicesKept
  <1>9. LifeBarrier(b)'
    <2>1. \A g \in 1..LifeN : state'[g] \in {"commit", "start"} => state[g] \in {"commit", "start"}
      BY <1>2
    <2> QED BY <1>1, <2>1 DEF LifeBarrier, LifeGood, LifeDevicesKept
  <1>10. LifePushes(b)' /\ LifeTurns'
    <2>1. CASE main = "running"
      <3>1. LifePushes(b)'
        BY <2>1 DEF LifePushes
      <3>2. \A g \in 1..LifeN : LifeGot(g)' = {}
        BY <2>1 DEF LifeGot
      <3>3. \A g \in 1..LifeN : Cardinality(LifeGot(g)') = 0 /\ ~(g <= 0)
        <4>1. Cardinality({}) = 0
          BY FS_EmptySet
        <4>2. \A g \in 1..LifeN : ~(g <= 0)
          BY <1>2
        <4> QED BY <4>1, <4>2, <3>2
      <3>4. 0 \in 0..Len(pushes') /\ last_ldid' = 0
        BY <2>1
      <3>5. LifeTurns'
        BY <1>1, <3>3, <3>4 DEF LifeTurns
      <3> QED BY <3>1, <3>5
    <2>2. CASE main # "running"
      <3>1. pushes = <<>> /\ last_ldid = 0 /\ \A d \in Life!Devices : queue[d] = 0
        BY <2>2 DEF LifeGood, LifePushes
      <3>2. LifePushes(b)'
        BY <2>2, <3>1 DEF LifePushes
      <3>3. LifeTurns'
        <4>1. pushes' = pushes /\ last_ldid' = last_ldid
          BY <2>2
        <4> QED BY <4>1, <1>1, LifeTurnsKept DEF LifeGood
      <3> QED BY <3>2, <3>3
    <2> QED BY <2>1, <2>2
  <1> QED BY <1>4, <1>5, <1>8, <1>9, <1>10 DEF LifeGood

\* The value of the state of a device in the order of the enumeration.
LEMMA LifeRank ==
    /\ Life!Rank("none") = 0 /\ Life!Rank("create") = 1 /\ Life!Rank("init") = 2
    /\ Life!Rank("commit") = 3 /\ Life!Rank("start") = 4
  <1>1. Life!Rank("none") = 0
    BY DEF Life!Rank
  <1>2. Len(Life!States) = 8
    BY DEF Life!States
  <1>3. /\ Life!States[1] = "create" /\ Life!States[2] = "init" /\ Life!States[3] = "commit"
        /\ Life!States[4] = "start" /\ Life!States[5] = "stop" /\ Life!States[6] = "stopped"
        /\ Life!States[7] = "finalized" /\ Life!States[8] = "destroyed"
    BY DEF Life!States
  <1>4. \A k \in 1..8 : k = 1 \/ k = 2 \/ k = 3 \/ k = 4 \/ k = 5 \/ k = 6 \/ k = 7 \/ k = 8
    OBVIOUS
  <1>5. \A k \in 1..8 : /\ Life!States[k] = "create" <=> k = 1
                        /\ Life!States[k] = "init" <=> k = 2
                        /\ Life!States[k] = "commit" <=> k = 3
                        /\ Life!States[k] = "start" <=> k = 4
    BY <1>3, <1>4
  <1>6. 1 \in 1..8 /\ 2 \in 1..8 /\ 3 \in 1..8 /\ 4 \in 1..8
    OBVIOUS
  <1>7. (CHOOSE k \in 1..8 : Life!States[k] = "create") = 1
    BY <1>5, <1>6
  <1>8. (CHOOSE k \in 1..8 : Life!States[k] = "init") = 2
    BY <1>5, <1>6
  <1>9. (CHOOSE k \in 1..8 : Life!States[k] = "commit") = 3
    BY <1>5, <1>6
  <1>10. (CHOOSE k \in 1..8 : Life!States[k] = "start") = 4
    BY <1>5, <1>6
  <1> QED BY <1>1, <1>2, <1>7, <1>8, <1>9, <1>10 DEF Life!Rank

\* kaapi_init returns: every processor has started.
LEMMA LifeStarted ==
    ASSUME NEW b \in {0, 1}, LifeGood(b), Life!Started
    PROVE  LifeGood(b)'
  <1>1. /\ main = "config" /\ main' = "running" /\ at \notin Life!InUse
        /\ ndevices_commit["gpu"] >= Len(ids)
        /\ UNCHANGED <<at, state, ndevices, ndevices_commit, queue, pushes, last_ldid>>
        /\ LifeDevicesKept
    BY DEF Life!Started, LifeDevicesKept, Life!domainVars, Life!deviceVars, Life!taskVars
  <1>2. /\ 1..LifeN \subseteq Life!Devices /\ LifeUp \subseteq 0..LifeN /\ LifeN \in Nat
        /\ Life!InUse = 0..LifeN /\ at \in 0..LifeN + 1
    BY LifeUpBounds, LifeInUse DEF LifeGood
  <1>3. at > LifeN
    BY <1>1, <1>2
  <1>4. LifeCommitted = 1..LifeN
    <2>1. IsFiniteSet(1..LifeN)
      BY <1>2, FS_Interval
    <2>2. Cardinality(1..LifeN) = LifeN
      BY <1>2, LifeCountTo
    <2>3. LifeCommitted \subseteq 1..LifeN
      BY DEF LifeCommitted
    <2>4. ndevices_commit["gpu"] = Cardinality(LifeCommitted)
      BY <1>1 DEF LifeGood, LifeBarrier
    <2>5. Cardinality(LifeCommitted) >= LifeN
      BY <2>4, <1>1 DEF LifeN
    <2>6. Cardinality(LifeCommitted) <= LifeN /\ Cardinality(LifeCommitted) \in Nat
      BY <2>1, <2>2, <2>3, FS_Subset, FS_CardinalityType
    <2>7. Cardinality(LifeCommitted) = Cardinality(1..LifeN)
      BY <2>2, <2>5, <2>6, <1>2
    <2> QED BY <2>1, <2>3, <2>7, FS_Subset
  <1>5. LifeUp = 0..LifeN /\ LifeUp' = 0..LifeN
    <2>1. at - 1 = LifeN /\ LifeN' = LifeN
      BY <1>2, <1>3, <1>1 DEF LifeDevicesKept, LifeN
    <2>2. main' # "out" /\ main' # "config" /\ main' # "join"
      BY <1>1
    <2> QED BY <2>1, <2>2, <1>1 DEF LifeUp
  <1>6. LifeStage'
    <2> SUFFICES ASSUME NEW x \in 0..LifeN PROVE LifeSlow(x)
      BY <1>1, <1>5 DEF LifeStage, LifeSlow, LifeStarting, LifeLooping, LifeDevicesKept
    <2>1. LifeStarting(x) \/ LifeLooping(x)
      BY <1>1, <1>5 DEF LifeGood, LifeStage
    <2>2. x # 0 => ~LifeStarting(x)
      <3>1. x # 0 => x \in 1..LifeN
        BY <1>2
      <3> QED BY <3>1, <1>4 DEF LifeCommitted, LifeStarting
    <2> QED BY <2>1, <2>2 DEF LifeSlow
  <1>7. state' \in [Life!Devices -> LifeStates]
    BY <1>1 DEF LifeGood, LifeType
  <1> QED BY <1>1, <1>2, <1>3, <1>6, <1>7, LifeMainStep

\* kaapi_finalize begins, once no task is left.
LEMMA LifeBeginFinalize ==
    ASSUME NEW b \in {0, 1}, LifeGood(b), Life!BeginFinalize
    PROVE  LifeGood(b)'
  <1>1. /\ main = "running" /\ main' = "stop" /\ at' = 0 /\ \A d \in Life!Devices : queue[d] = 0
        /\ last_ldid' = 0 /\ pushes' = <<>>
        /\ UNCHANGED <<state, ndevices, ndevices_commit, queue>>
        /\ LifeDevicesKept
    BY DEF Life!BeginFinalize, LifeDevicesKept, Life!domainVars, Life!deviceVars
  <1>2. LifeN \in Nat /\ LifeUp \subseteq 0..LifeN
    BY LifeUpBounds
  <1>3. LifeUp' = LifeUp
    BY <1>1 DEF LifeUp, LifeN, LifeDevicesKept
  <1>4. LifeStage'
    <2> SUFFICES ASSUME NEW x \in LifeUp PROVE LifeSlow(x) /\ ~(x < 0)
      BY <1>1, <1>3 DEF LifeStage, LifeSlow, LifeStarting, LifeLooping, LifeDevicesKept
    <2> QED BY <1>1, <1>2 DEF LifeGood, LifeStage
  <1>5. state' \in [Life!Devices -> LifeStates]
    BY <1>1 DEF LifeGood, LifeType
  <1>6. at' \in 0..LifeN + 1
    BY <1>1, <1>2
  <1> QED BY <1>1, <1>4, <1>5, <1>6, LifeMainStep

\* kaapi_offload_device_stop: a device that has started is asked to stop.
LEMMA LifeSetStop ==
    ASSUME NEW b \in {0, 1}, LifeGood(b), Life!SetStop
    PROVE  LifeGood(b)'
  <1>1. /\ main = "stop" /\ at \in Life!InUse
        /\ UNCHANGED <<ndevices, ndevices_commit, queue, pushes, last_ldid>>
        /\ LifeDevicesKept
        /\ IF Life!Rank(state[at]) >= Life!Rank("start")
           THEN state' = [state EXCEPT ![at] = "stop"] /\ main' = "wakeup" /\ at' = at
           ELSE at' = at + 1 /\ main' = main /\ state' = state
    BY DEF Life!SetStop, Life!SetState, LifeDevicesKept, Life!domainVars, Life!taskVars
  <1>2. /\ LifeN \in Nat /\ at \in 0..LifeN /\ LifeUp = 0..LifeN /\ 0..LifeN \subseteq Life!Devices
    BY <1>1, LifeInUse, LifeUpBounds DEF LifeGood, LifeUp
  <1>3. LifeSlow(at)
    BY <1>1, <1>2 DEF LifeGood, LifeStage
  <1>4. state \in [Life!Devices -> LifeStates]
    BY DEF LifeGood, LifeType
  <1>5. CASE LifeLooping(at)
    <2>1. /\ state' = [state EXCEPT ![at] = "stop"] /\ main' = "wakeup" /\ at' = at
      BY <1>1, <1>5, LifeRank DEF LifeLooping
    <2>2. /\ state' \in [Life!Devices -> LifeStates] /\ state'[at] = "stop"
          /\ \A x \in Life!Devices : x # at => state'[x] = state[x]
      BY <2>1, <1>2, <1>4 DEF LifeStates
    <2>3. LifeUp' = 0..LifeN
      BY <2>1, <1>1 DEF LifeUp, LifeN, LifeDevicesKept
    <2>4. LifeStage'
      <3> SUFFICES ASSUME NEW x \in 0..LifeN
                   PROVE  /\ x < at => LifeLeft(x)'
                          /\ x > at => LifeSlow(x)'
                          /\ x = at => LifeStopping(x)'
        BY <2>1, <2>3 DEF LifeStage
      <3>1. /\ x < at => LifeLeft(x)
            /\ x > at => LifeSlow(x)
        BY <1>1, <1>2 DEF LifeGood, LifeStage
      <3>2. x # at => state'[x] = state[x] /\ dpc'[x] = dpc[x]
        BY <1>1, <1>2, <2>2 DEF LifeDevicesKept
      <3>3. x # at => (LifeLeft(x) => LifeLeft(x)') /\ (LifeSlow(x) => LifeSlow(x)')
        BY <3>2 DEF LifeLeft, LifeSlow, LifeStarting, LifeLooping, LifeStopping, LifeGone
      <3>4. x = at => LifeStopping(x)'
        BY <1>1, <1>5, <2>2 DEF LifeLooping, LifeStopping, LifeDevicesKept
      <3>5. (x < at => x # at) /\ (x > at => x # at)
        BY <1>2
      <3> QED BY <3>1, <3>3, <3>4, <3>5
    <2>5. at' \in 0..LifeN + 1 /\ at' <= LifeN
      BY <2>1, <1>2
    <2> QED BY <1>1, <1>2, <2>1, <2>2, <2>4, <2>5, LifeMainStep
  <1>6. CASE ~LifeLooping(at)
    <2>1. at = 0 /\ LifeStarting(at)
      BY <1>3, <1>6 DEF LifeSlow
    <2>2. at' = at + 1 /\ main' = main /\ state' = state
      BY <1>1, <2>1, LifeRank DEF LifeStarting
    <2>3. LifeUp' = 0..LifeN
      BY <2>2, <1>1, <1>2 DEF LifeUp, LifeN, LifeDevicesKept
    <2>4. LifeStage'
      <3> SUFFICES ASSUME NEW x \in 0..LifeN
                   PROVE  /\ x < at + 1 => LifeLeft(x)
                          /\ x > at + 1 => LifeSlow(x)
                          /\ x = at + 1 => LifeSlow(x)
        BY <1>1, <2>2, <2>3 DEF LifeStage, LifeSlow, LifeLeft, LifeStarting, LifeLooping, LifeGone, LifeDevicesKept
      <3>1. x > at => LifeSlow(x)
        BY <1>1, <1>2 DEF LifeGood, LifeStage
      <3>2. x = at => LifeLeft(x)
        BY <2>1 DEF LifeLeft
      <3>3. (x < at + 1 => x = at) /\ (x > at + 1 => x > at) /\ (x = at + 1 => x > at)
        BY <2>1
      <3> QED BY <3>1, <3>2, <3>3
    <2>5. at' \in 0..LifeN + 1
      BY <2>2, <1>2
    <2> QED BY <1>1, <1>2, <1>4, <2>2, <2>4, <2>5, LifeMainStep
  <1> QED BY <1>5, <1>6

\* The main thread wakes the device, waits for the end of its loop and goes on.
LEMMA LifeStop ==
    ASSUME NEW b \in {0, 1}, LifeGood(b), Life!Wakeup \/ Life!StopWait \/ Life!AllStopped
    PROVE  LifeGood(b)'
  <1>1. /\ UNCHANGED <<state, ndevices, ndevices_commit, queue, pushes, last_ldid>>
        /\ LifeDevicesKept
    BY DEF Life!Wakeup, Life!StopWait, Life!AllStopped, LifeDevicesKept, Life!domainVars, Life!deviceVars, Life!taskVars
  <1>2. /\ LifeN \in Nat /\ at \in 0..LifeN + 1 /\ LifeUp \subseteq 0..LifeN /\ Life!InUse = 0..LifeN
    BY LifeUpBounds, LifeInUse DEF LifeGood
  <1>3. state' \in [Life!Devices -> LifeStates]
    BY <1>1 DEF LifeGood, LifeType
  <1>4. \A x \in LifeUp : /\ LifeLeft(x) => LifeLeft(x)'
                          /\ LifeSlow(x) => LifeSlow(x)'
                          /\ LifeStopping(x) => LifeStopping(x)'
                          /\ LifeGone(x) => LifeGone(x)' /\ LifeLeft(x)'
    BY <1>1 DEF LifeLeft, LifeSlow, LifeStarting, LifeLooping, LifeStopping, LifeGone, LifeDevicesKept
  <1>5. CASE Life!Wakeup
    <2>1. main = "wakeup" /\ main' = "stopwait" /\ at' = at
      BY <1>5 DEF Life!Wakeup
    <2>2. LifeUp' = LifeUp
      BY <2>1, <1>1 DEF LifeUp, LifeN, LifeDevicesKept
    <2>3. LifeStage'
      BY <2>1, <2>2, <1>4 DEF LifeGood, LifeStage
    <2>4. at <= LifeN
      BY <2>1 DEF LifeGood, LifeType
    <2> QED BY <1>1, <1>2, <1>3, <2>1, <2>3, <2>4, LifeMainStep
  <1>6. CASE Life!StopWait
    <2>1. main = "stopwait" /\ main' = "stop" /\ at' = at + 1 /\ state[at] # "stop"
      BY <1>6 DEF Life!StopWait
    <2>2. LifeUp' = LifeUp
      BY <2>1, <1>1 DEF LifeUp, LifeN, LifeDevicesKept
    <2>3. LifeStage'
      <3> SUFFICES ASSUME NEW x \in LifeUp
                   PROVE  /\ x < at + 1 => LifeLeft(x)'
                          /\ x > at + 1 => LifeSlow(x)'
                          /\ x = at + 1 => LifeSlow(x)'
        BY <2>1, <2>2 DEF LifeStage
      <3>1. /\ x < at => LifeLeft(x)
            /\ x > at => LifeSlow(x)
            /\ x = at => LifeStopping(x) \/ LifeGone(x)
        BY <2>1 DEF LifeGood, LifeStage
      <3>2. x = at => ~LifeStopping(x)
        BY <2>1 DEF LifeStopping
      <3>3. (x < at + 1 => x < at \/ x = at) /\ (x > at + 1 => x > at) /\ (x = at + 1 => x > at)
        BY <1>2
      <3> QED BY <3>1, <3>2, <3>3, <1>4
    <2>4. at' \in 0..LifeN + 1
      <3>1. at <= LifeN
        BY <2>1 DEF LifeGood, LifeType
      <3> QED BY <2>1, <1>2, <3>1
    <2> QED BY <1>1, <1>2, <1>3, <2>1, <2>3, <2>4, LifeMainStep
  <1>7. CASE Life!AllStopped
    <2>1. main = "stop" /\ main' = "join" /\ at' = 0 /\ at \notin Life!InUse
      BY <1>7 DEF Life!AllStopped
    <2>2. LifeUp' = LifeUp
      BY <2>1, <1>1 DEF LifeUp, LifeN, LifeDevicesKept
    <2>3. LifeStage'
      <3> SUFFICES ASSUME NEW x \in LifeUp PROVE LifeLeft(x)'
        BY <2>1, <2>2 DEF LifeStage
      <3>1. x < at
        BY <1>2, <2>1
      <3> QED BY <3>1, <2>1, <1>4 DEF LifeGood, LifeStage
    <2>4. at' \in 0..LifeN + 1
      BY <2>1, <1>2
    <2> QED BY <1>1, <1>2, <1>3, <2>1, <2>3, <2>4, LifeMainStep
  <1> QED BY <1>5, <1>6, <1>7

\* The thread of a device is joined and its numbers are cleared.
LEMMA LifeJoin ==
    ASSUME NEW b \in {0, 1}, LifeGood(b), Life!Join
    PROVE  LifeGood(b)'
  <1>1. /\ main = "join" /\ at \in Life!InUse /\ dpc[at] = "dead" /\ at' = at + 1 /\ LifeNoPush
        /\ state' = [state EXCEPT ![at] = "none"] /\ dpc' = [dpc EXCEPT ![at] = "none"]
        /\ lid' = [lid EXCEPT ![at] = Life!None] /\ ldid' = [ldid EXCEPT ![at] = Life!None]
        /\ peers' = [peers EXCEPT ![at] = {}]
        /\ UNCHANGED <<main, ids, kaapi_ldid, map_ldid2ld, gpuDomains, table, nodes, ndevices, ndevices_commit>>
    BY DEF Life!Join, Life!Joined, Life!SetState, LifeNoPush, Life!taskVars
  <1>2. /\ LifeN \in Nat /\ at \in 0..LifeN /\ 0..LifeN \subseteq Life!Devices /\ 1..LifeN \subseteq Life!Devices
        /\ at \in Life!Devices
    BY <1>1, LifeInUse, LifeUpBounds DEF LifeGood
  <1>3. LifeN' = LifeN
    BY <1>1 DEF LifeN
  <1>4. LifeUp = at..LifeN /\ LifeUp' = LifeUp \ {at} /\ at \in LifeUp
    <2>1. LifeUp = at..LifeN
      BY <1>1 DEF LifeUp
    <2>2. LifeUp' = at + 1..LifeN
      BY <1>1, <1>3 DEF LifeUp
    <2> QED BY <2>1, <2>2, <1>2
  <1>5. /\ dpc' \in [Life!Devices -> LifePcs] /\ state' \in [Life!Devices -> LifeStates]
        /\ ldid' \in [Life!Devices -> Int] /\ lid' \in [Life!Devices -> Int]
        /\ peers' \in [Life!Devices -> SUBSET Int]
        /\ dpc'[at] = "none" /\ state'[at] = "none" /\ ldid'[at] = Life!None /\ lid'[at] = Life!None
        /\ \A x \in Life!Devices : x # at => /\ dpc'[x] = dpc[x] /\ state'[x] = state[x] /\ ldid'[x] = ldid[x]
                                             /\ lid'[x] = lid[x] /\ peers'[x] = peers[x]
    <2>1. Life!None \in Int
      BY DEF Life!None
    <2>2. dpc' \in [Life!Devices -> LifePcs] /\ state' \in [Life!Devices -> LifeStates]
      BY <1>1, <1>2 DEF LifeGood, LifeType, LifePcs, LifeStates
    <2>3. /\ ldid' \in [Life!Devices -> Int] /\ lid' \in [Life!Devices -> Int]
          /\ peers' \in [Life!Devices -> SUBSET Int]
      BY <1>1, <1>2, <2>1 DEF LifeGood, LifeType
    <2>4. /\ dpc'[at] = "none" /\ state'[at] = "none" /\ ldid'[at] = Life!None /\ lid'[at] = Life!None
      BY <1>1, <1>2 DEF LifeGood, LifeType
    <2>5. \A x \in Life!Devices : x # at => /\ dpc'[x] = dpc[x] /\ state'[x] = state[x] /\ ldid'[x] = ldid[x]
                                             /\ lid'[x] = lid[x] /\ peers'[x] = peers[x]
      BY <1>1, <1>2 DEF LifeGood, LifeType
    <2> QED BY <2>2, <2>3, <2>4, <2>5
  <1>6. LifeType'
    <2>1. at' \in 0..LifeN + 1
      BY <1>1, <1>2
    <2> QED BY <1>1, <1>3, <1>5, <2>1 DEF LifeGood, LifeType, LifeNoPush
  <1>7. \A x \in LifeUp' : x \in LifeUp /\ x \in Life!Devices /\ x # at
    BY <1>2, <1>4
  <1>8. LifeStage'
    <2> SUFFICES ASSUME NEW x \in LifeUp' PROVE LifeLeft(x)'
      BY <1>1 DEF LifeStage
    <2>1. LifeLeft(x)
      BY <1>1, <1>7 DEF LifeGood, LifeStage
    <2>2. dpc'[x] = dpc[x] /\ state'[x] = state[x]
      BY <1>5, <1>7
    <2> QED BY <2>1, <2>2 DEF LifeLeft, LifeGone, LifeStarting, LifeLooping
  <1>9. LifeNumbers(b)'
    <2> SUFFICES ASSUME NEW x \in Life!Devices
                 PROVE  IF x \in LifeUp'
                        THEN /\ ldid'[x] = b + x
                             /\ lid'[x] = IF dpc'[x] \in {"create", "init"} THEN Life!None ELSE LifeLid(b, x)
                        ELSE /\ ldid'[x] = Life!None /\ lid'[x] = Life!None
                             /\ dpc'[x] = "none" /\ state'[x] = "none"
      BY DEF LifeNumbers, LifeLid
    <2>1. CASE x = at
      BY <1>4, <1>5, <2>1
    <2>2. CASE x # at
      BY <1>4, <1>5, <2>2 DEF LifeGood, LifeNumbers
    <2> QED BY <2>1, <2>2
  <1>10. LifeListed' = LifeListed
    BY <1>1, <1>4, <1>5, <1>7 DEF LifeListed
  <1>11. LifeNoded' = LifeNoded
    <2> DEFINE There(x, p) == p \notin {"create", "init"} /\ (x = 0 \/ p # "dead")
    <2>1. LifeNoded = {x \in LifeUp : There(x, dpc[x])} \cup {x \in {0} : at > 0}
      BY <1>1 DEF LifeNoded
    <2>2. LifeNoded' = {x \in LifeUp' : There(x, dpc'[x])} \cup {x \in {0} : at' > 0}
      BY <1>1 DEF LifeNoded
    <2>3. \A x \in LifeUp' : There(x, dpc'[x]) <=> There(x, dpc[x])
      BY <1>5, <1>7
    <2>4. at # 0 => ~There(at, dpc[at])
      BY <1>1
    <2>5. at = 0 => There(at, dpc[at])
      BY <1>1
    <2>6. {x \in {0} : at' > 0} = {0}
      BY <1>1, <1>2
    <2>7. {x \in {0} : at > 0} = IF at = 0 THEN {} ELSE {0}
      BY <1>2
    <2> HIDE DEF There
    <2>8. {x \in LifeUp' : There(x, dpc'[x])} = {x \in LifeUp : There(x, dpc[x])} \ {at}
      BY <1>4, <2>3
    <2>9. CASE at = 0
      BY <2>1, <2>2, <2>5, <2>6, <2>7, <2>8, <2>9, <1>4
    <2>10. CASE at # 0
      BY <2>1, <2>2, <2>4, <2>6, <2>7, <2>8, <2>10, <1>4
    <2> QED BY <2>9, <2>10
  <1>12. LifeTables(b)'
    BY <1>1, <1>3, <1>10, <1>11 DEF LifeTables, LifeGood, LifeLid
  <1>13. LifeBarrier(b)'
    <2>1. \A g \in 1..LifeN : state'[g] \in {"commit", "start"} =>
             state[g] \in {"commit", "start"} /\ peers'[g] = peers[g]
      BY <1>2, <1>5
    <2> QED BY <1>1, <1>3, <2>1 DEF LifeBarrier, LifeGood
  <1>14. LifePushes(b)' /\ LifeTurns'
    BY <1>1, LifePushesKept
  <1> QED BY <1>6, <1>8, <1>9, <1>12, <1>13, <1>14 DEF LifeGood

\* kaapi_finalize ends: no domain and no node is left, and the next start counts
\* domains from 1.
LEMMA LifeKaapiFinalize ==
    ASSUME NEW b \in {0, 1}, LifeGood(b), Life!KaapiFinalize
    PROVE  LifeGood(1)'
  <1>1. /\ main = "join" /\ at \notin Life!InUse /\ table' = {} /\ nodes' = [l \in DOMAIN nodes \ {0} |-> nodes[l]]
        /\ kaapi_ldid' = 1 /\ gpuDomains' = <<>> /\ main' = "out" /\ at' = 0 /\ ids' = <<>> /\ LifeNoPush
        /\ UNCHANGED <<map_ldid2ld, ldid, lid, state, dpc, ndevices, ndevices_commit, peers>>
    BY DEF Life!KaapiFinalize, LifeNoPush, Life!taskVars
  <1>2. /\ LifeN \in Nat /\ at = LifeN + 1
    BY <1>1, LifeInUse, LifeUpBounds DEF LifeGood
  <1>3. LifeN' = 0 /\ LifeUp = {} /\ LifeUp' = {}
    <2>1. LifeUp = at..LifeN
      BY <1>1 DEF LifeUp
    <2> QED BY <1>1, <1>2, <2>1 DEF LifeUp, LifeN
  <1>4. LifeType'
    BY <1>1, <1>3, LifeDevices DEF LifeGood, LifeType, LifeNoPush
  <1>5. LifeStage' /\ LifeNumbers(1)'
    BY <1>1, <1>3 DEF LifeStage, LifeNumbers, LifeGood
  <1>6. LifeListed = {} /\ LifeListed' = {} /\ LifeNoded \subseteq {0} /\ LifeNoded' = {}
    BY <1>1, <1>3 DEF LifeListed, LifeNoded
  <1>7. DOMAIN map_ldid2ld = {} /\ map_ldid2ld = [l \in {} |-> l - b] /\ DOMAIN nodes \subseteq {0}
    <2>1. map_ldid2ld = [l \in {b + d : d \in LifeListed} |-> l - b]
      BY DEF LifeGood, LifeTables
    <2>2. nodes = [l \in {LifeLid(b, d) : d \in LifeNoded} |-> IF l = 0 THEN 0 ELSE l - b]
      BY DEF LifeGood, LifeTables
    <2>3. {b + d : d \in LifeListed} = {} /\ {LifeLid(b, d) : d \in LifeNoded} \subseteq {0}
      BY <1>6 DEF LifeLid
    <2> QED BY <2>1, <2>2, <2>3
  <1>8. LifeTables(1)'
    <2>1. {1 + d : d \in LifeListed'} = {} /\ {LifeLid(1, d) : d \in LifeNoded'} = {}
      BY <1>6
    <2>2. map_ldid2ld' = [l \in {} |-> l - 1]
      BY <1>1, <1>7
    <2>3. nodes' = [l \in {} |-> IF l = 0 THEN 0 ELSE l - 1]
      <3>1. DOMAIN nodes \ {0} = {}
        BY <1>7
      <3> QED BY <1>1, <3>1
    <2> QED BY <1>1, <2>1, <2>2, <2>3 DEF LifeTables, LifeLid
  <1>9. LifeBarrier(1)'
    BY <1>1, <1>3 DEF LifeBarrier
  <1>10. pushes = <<>> /\ last_ldid = 0 /\ \A d \in Life!Devices : queue[d] = 0
    BY <1>1 DEF LifeGood, LifePushes
  <1>11. LifePushes(1)' /\ LifeTurns'
    <2>1. LifePushes(1)'
      BY <1>1, <1>10 DEF LifePushes, LifeNoPush
    <2>2. 0 \in 0..Len(pushes') /\ last_ldid' = 0
      BY <1>1, <1>10 DEF LifeNoPush
    <2>3. LifeTurns'
      BY <1>3, <2>2 DEF LifeTurns
    <2> QED BY <2>1, <2>3
  <1> QED BY <1>4, <1>5, <1>8, <1>9, <1>11 DEF LifeGood

-----------------------------------------------------------------------------
(* What the invariant gives.                                               *)

\* Whatever is done, the invariant holds after it.
LEMMA LifeKept ==
    ASSUME LifeInv, [Life!Next]_(Life!vars)
    PROVE  LifeInv'
  <1>1. PICK b \in {0, 1} : LifeGood(b)
    BY DEF LifeInv
  <1>2. LifeGood(b)' \/ LifeGood(1)' => LifeInv'
    BY DEF LifeInv
  <1>3. CASE \E h \in Life!Hints : Life!Push(h)
    BY <1>1, <1>2, <1>3, LifePush
  <1>4. CASE \E d \in Life!Devices : Life!ThreadStep(d)
    <2>1. PICK d \in Life!Devices : Life!ThreadStep(d)
      BY <1>4
    <2>2. CASE Life!Test(d) \/ Life!Sleep(d) \/ Life!WokenUp(d) \/ Life!Stopped(d)
      BY <1>1, <1>2, <2>2, LifeLoops
    <2>3. CASE Life!Create(d)
      BY <1>1, <1>2, <2>3, LifeCreate
    <2>4. CASE Life!DeviceInit(d)
      BY <1>1, <1>2, <2>4, LifeRegister
    <2>5. CASE Life!CountDevice(d)
      BY <1>1, <1>2, <2>5, LifeCount
    <2>6. CASE Life!Commit(d)
      BY <1>1, <1>2, <2>6, LifeCommit
    <2>7. CASE Life!Start(d)
      BY <1>1, <1>2, <2>7, LifeStart
    <2>8. CASE Life!RunTask(d)
      BY <1>1, <1>2, <2>8, LifeRun
    <2>9. CASE Life!DeviceFinalize(d)
      BY <1>1, <1>2, <2>9, LifeFinalize
    <2> QED BY <2>1, <2>2, <2>3, <2>4, <2>5, <2>6, <2>7, <2>8, <2>9, Zenon DEF Life!ThreadStep
  <1>5. CASE Life!MainStep
    <2>1. CASE Life!KaapiInit
      BY <1>1, <1>2, <2>1, LifeKaapiInit
    <2>2. CASE Life!ConfigDevice
      BY <1>1, <1>2, <2>2, LifeConfig
    <2>3. CASE Life!Started
      BY <1>1, <1>2, <2>3, LifeStarted
    <2>4. CASE Life!BeginFinalize
      BY <1>1, <1>2, <2>4, LifeBeginFinalize
    <2>5. CASE Life!SetStop
      BY <1>1, <1>2, <2>5, LifeSetStop
    <2>6. CASE Life!Wakeup \/ Life!StopWait \/ Life!AllStopped
      BY <1>1, <1>2, <2>6, LifeStop
    <2>7. CASE Life!Join
      BY <1>1, <1>2, <2>7, LifeJoin
    <2>8. CASE Life!KaapiFinalize
      BY <1>1, <1>2, <2>8, LifeKaapiFinalize
    <2> QED BY <1>5, <2>1, <2>2, <2>3, <2>4, <2>5, <2>6, <2>7, <2>8, Zenon DEF Life!MainStep
  <1>6. CASE UNCHANGED Life!vars
    <2>1. UNCHANGED <<main, at, ids, kaapi_ldid, map_ldid2ld, gpuDomains, ldid, lid, table, nodes, state, dpc,
                      ndevices, ndevices_commit, peers, queue, last_ldid, pushes>>
      BY <1>6 DEF Life!vars, Life!domainVars, Life!deviceVars, Life!taskVars
    <2>2. LifeN' = LifeN /\ LifeUp' = LifeUp
      BY <2>1 DEF LifeN, LifeUp
    <2>3. LifeType' /\ LifeStage' /\ LifeNumbers(b)'
      BY <1>1, <2>1, <2>2 DEF LifeGood, LifeType, LifeStage, LifeNumbers, LifeLid, LifeStarting, LifeLooping,
            LifeStopping, LifeGone, LifeSlow, LifeLeft
    <2>4. /\ LifeListed' = LifeListed /\ LifeNoded' = LifeNoded
          /\ LifeCounted' = LifeCounted /\ LifeCommitted' = LifeCommitted
      BY <2>1, <2>2 DEF LifeListed, LifeNoded, LifeCounted, LifeCommitted
    <2>5. LifeTables(b)' /\ LifeBarrier(b)'
      BY <1>1, <2>1, <2>2, <2>4 DEF LifeTables, LifeBarrier, LifeGood, LifeLid
    <2>6. LifePushes(b)' /\ LifeTurns'
      BY <1>1, <2>1, LifePushesKept DEF LifeNoPush
    <2> QED BY <1>2, <2>3, <2>5, <2>6 DEF LifeGood
  <1> QED BY <1>3, <1>4, <1>5, <1>6, Zenon DEF Life!Next

\* A processor that commits knows all its peers, which keep their numbers.
LEMMA LifePeers ==
    ASSUME NEW b \in {0, 1}, LifeGood(b)
    PROVE  Life!PeersKnown
  <1>1. /\ 1..LifeN \subseteq Life!Devices /\ LifeN \in Nat /\ Life!InUse \ {0} = 1..LifeN
        /\ at \in 0..LifeN + 1
    BY LifeUpBounds
  <1> SUFFICES ASSUME NEW d \in 1..LifeN, state[d] \in {"commit", "start"}
               PROVE  peers[d] = {ldid[g] : g \in 1..LifeN}
    BY <1>1 DEF Life!PeersKnown
  <1>2. d \in LifeUp /\ d # 0
    BY <1>1 DEF LifeGood, LifeNumbers
  <1>3. main # "out" /\ main # "join"
    <2>1. main # "out"
      BY <1>2 DEF LifeUp
    <2>2. ~LifeLeft(d)
      BY <1>2 DEF LifeLeft, LifeGone
    <2> QED BY <1>2, <2>1, <2>2 DEF LifeGood, LifeStage
  <1>4. main = "config" => at > LifeN
    BY DEF LifeGood, LifeBarrier
  <1>5. \A g \in 1..LifeN : g \in LifeUp
    <2>1. main = "config" => 0..at - 1 = 0..LifeN
      <3>1. main = "config" => at - 1 = LifeN
        BY <1>1, <1>4
      <3> QED BY <3>1
    <2>2. LifeUp = 0..LifeN
      BY <1>3, <2>1 DEF LifeUp
    <2> QED BY <2>2
  <1>6. \A g \in 1..LifeN : ldid[g] = b + g
    BY <1>1, <1>5 DEF LifeGood, LifeNumbers
  <1>7. peers[d] = {b + h : h \in 1..LifeN}
    BY DEF LifeGood, LifeBarrier
  <1> QED BY <1>6, <1>7

\* The numbers of a processor once kaapi_init has returned.
LEMMA LifeNames ==
    ASSUME NEW b \in {0, 1}, LifeGood(b), main = "running", NEW g \in 1..LifeN
    PROVE  /\ lid[g] = b + g /\ lid[g] \in DOMAIN nodes /\ nodes[lid[g]] = g
           /\ Life!Domain(lid[g]) = g
  <1>1. 1..LifeN \subseteq Life!Devices /\ LifeN \in Nat
    BY LifeUpBounds
  <1>2. g \in LifeUp /\ g # 0 /\ g \in Life!Devices /\ g \in Nat
    BY <1>1 DEF LifeUp
  <1>3. LifeLooping(g)
    BY <1>2 DEF LifeGood, LifeStage, LifeSlow
  <1>4. lid[g] = b + g /\ g \in LifeListed /\ g \in LifeNoded
    BY <1>2, <1>3 DEF LifeGood, LifeNumbers, LifeLid, LifeLooping, LifeListed, LifeNoded
  <1>5. b + g # 0 /\ b + g - b = g /\ LifeLid(b, g) = b + g
    BY <1>2 DEF LifeLid
  <1>6. b + g \in {LifeLid(b, d) : d \in LifeNoded} /\ b + g \in {b + d : d \in LifeListed}
    BY <1>4, <1>5
  <1>7. b + g \in DOMAIN nodes /\ nodes[b + g] = g
    <2>1. nodes = [l \in {LifeLid(b, d) : d \in LifeNoded} |-> IF l = 0 THEN 0 ELSE l - b]
      BY DEF LifeGood, LifeTables
    <2> QED BY <2>1, <1>5, <1>6
  <1>8. b + g \in DOMAIN map_ldid2ld /\ map_ldid2ld[b + g] = g
    <2>1. map_ldid2ld = [l \in {b + d : d \in LifeListed} |-> l - b]
      BY DEF LifeGood, LifeTables
    <2> QED BY <2>1, <1>5, <1>6
  <1> QED BY <1>4, <1>7, <1>8 DEF Life!Domain

\* The tasks are where their hints lead, or went round.
LEMMA LifeFollows ==
    ASSUME NEW b \in {0, 1}, LifeGood(b), main = "running"
    PROVE  Life!TaskFollowsTile
  <1>1. Life!InUse \ {0} = 1..LifeN
    BY LifeUpBounds
  <1>2. \A k \in DOMAIN pushes :
          LET h == pushes[k].hint
              place == lid[pushes[k].to]
          IN  IF h.valid # {} THEN place \in h.valid ELSE h.wish # {} => place \in h.wish
    <2> SUFFICES ASSUME NEW k \in DOMAIN pushes
                 PROVE  LET h == pushes[k].hint
                            place == lid[pushes[k].to]
                        IN  IF h.valid # {} THEN place \in h.valid ELSE h.wish # {} => place \in h.wish
      OBVIOUS
    <2>1. LifePlaced(b, pushes[k])
      BY DEF LifeGood, LifePushes
    <2>2. lid[pushes[k].to] = b + pushes[k].to
      BY <2>1, LifeNames DEF LifePlaced
    <2> QED BY <2>1, <2>2 DEF LifePlaced
  <1> DEFINE got(g) == Life!Cardinality({k \in DOMAIN pushes :
                          pushes[k].to = g /\ pushes[k].hint.valid \cup pushes[k].hint.wish = {}})
  <1>3. \A g \in 1..LifeN : got(g) = Cardinality(LifeGot(g))
    BY SameLife DEF LifeGot
  <1> HIDE DEF got
  <1>4. \A g1, g2 \in 1..LifeN : got(g1) <= got(g2) + 1
    <2>1. PICK q \in 0..Len(pushes) : \A g \in 1..LifeN :
            Cardinality(LifeGot(g)) = IF g <= last_ldid THEN q + 1 ELSE q
      BY DEF LifeGood, LifeTurns
    <2>2. q \in Int
      BY DEF LifeGood, LifePushes
    <2> SUFFICES ASSUME NEW g1 \in 1..LifeN, NEW g2 \in 1..LifeN PROVE got(g1) <= got(g2) + 1
      OBVIOUS
    <2>3. got(g1) \in {q, q + 1} /\ got(g2) \in {q, q + 1}
      BY <2>1, <1>3
    <2> QED BY <2>2, <2>3
  <1>5. \A g1, g2 \in Life!InUse \ {0} : got(g1) <= got(g2) + 1
    BY <1>1, <1>4
  <1> QED BY <1>2, <1>5, Zenon DEF Life!TaskFollowsTile, got

\* The invariant gives the promises of the life cycle.
LEMMA LifeSoundFollows == LifeInv => LifeSound
  <1> SUFFICES ASSUME LifeInv PROVE LifeSound
    OBVIOUS
  <1>1. PICK b \in {0, 1} : LifeGood(b)
    BY DEF LifeInv
  <1>2. Life!PeersKnown
    BY <1>1, LifePeers
  <1>3. Life!LidNamesDomain
    <2>1. Life!InUse \ {0} = 1..LifeN
      BY <1>1, LifeUpBounds
    <2> QED BY <1>1, <2>1, LifeNames DEF Life!LidNamesDomain
  <1>4. Life!TaskFollowsTile
    <2>1. CASE main = "running"
      BY <1>1, <2>1, LifeFollows
    <2>2. CASE main # "running"
      BY <2>2, Zenon DEF Life!TaskFollowsTile
    <2> QED BY <2>1, <2>2
  <1>5. Life!CleanRestart
    <2> SUFFICES ASSUME main = "out"
                 PROVE  /\ \A d \in Life!Devices : dpc[d] = "none" /\ queue[d] = 0
                        /\ DOMAIN nodes = {} /\ DOMAIN map_ldid2ld = {} /\ table = {}
      BY DEF Life!CleanRestart
    <2>1. LifeUp = {}
      BY DEF LifeUp
    <2>2. \A d \in Life!Devices : dpc[d] = "none"
      BY <1>1, <2>1 DEF LifeGood, LifeNumbers
    <2>3. \A d \in Life!Devices : queue[d] = 0
      BY <1>1 DEF LifeGood, LifePushes
    <2>4. LifeListed = {} /\ LifeNoded = {}
      BY <2>1 DEF LifeListed, LifeNoded
    <2>5. DOMAIN nodes = {} /\ DOMAIN map_ldid2ld = {} /\ table = {}
      BY <1>1, <2>4 DEF LifeGood, LifeTables
    <2> QED BY <2>2, <2>3, <2>5
  <1> QED BY <1>2, <1>3, <1>4, <1>5 DEF LifeSound

\* A step of the composition is one of the life of the devices or leaves it alone.
LEMMA LifeSteps == [ServicesNext]_allVars => [Life!Next]_(Life!vars)
<1>1. ASSUME ServicesNext PROVE [Life!Next]_(Life!vars)
  <2>1. CASE LifeNext
    BY <2>1, Zenon DEF LifeNext, Life!Next, Life!MainStep, Life!ThreadStep
  <2>2. CASE PipelineNext \/ CudaNext \/ OtherPluginsNext \/ RegisterNext \/ BarrierNext \/ TraceNext
    <3>1. \E c \in {"pipeline", "cuda", "hip", "host", "register", "barrier", "trace"} : Only(c)
      BY <2>2, Zenon DEF PipelineNext, CudaNext, OtherPluginsNext, RegisterNext, BarrierNext, TraceNext
    <3>2. UNCHANGED lifeVars
      BY <3>1 DEF Only
    <3> QED BY <3>2 DEF lifeVars, Life!vars, Life!domainVars, Life!deviceVars, Life!taskVars
  <2> QED BY <1>1, <2>1, <2>2 DEF ServicesNext
<1>2. ASSUME UNCHANGED allVars PROVE UNCHANGED Life!vars
  BY <1>2 DEF allVars, lifeVars, Life!vars, Life!domainVars, Life!deviceVars, Life!taskVars
<1> QED BY <1>1, <1>2

-----------------------------------------------------------------------------
(* TeamBarrier.                                                            *)

\* What the proofs need of the constants.
BarrierConstants ==
    IsFiniteSet(TeamThreads) /\ Bar!Master \in TeamThreads /\ BarRounds \in Nat

\* The instance has the library's operators.
LEMMA SameTeam == \A S : Bar!Cardinality(S) = Cardinality(S)
  BY Zenon DEF Bar!Cardinality, Cardinality

\* The assumption on the constants of the services gives it.
LEMMA BarrierConstantsHold == BarrierConstants
  BY ServicesAssumption DEF BarrierConstants, Bar!Master

-----------------------------------------------------------------------------
(* Counters and cardinalities.                                             *)

\* Three counters in turn: those of three successive barriers differ.
LEMMA BarrierThreeCounters ==
    ASSUME NEW g \in Nat
    PROVE  /\ g % Bar!Cycles \in 0..(Bar!Cycles - 1)
           /\ Bar!NextCycle(g % Bar!Cycles) = (g + 1) % Bar!Cycles
           /\ Bar!NextCycle(Bar!NextCycle(g % Bar!Cycles)) = (g + 2) % Bar!Cycles
           /\ g % Bar!Cycles # (g + 1) % Bar!Cycles /\ g % Bar!Cycles # (g + 2) % Bar!Cycles
           /\ (g + 1) % Bar!Cycles # (g + 2) % Bar!Cycles
           /\ (g + 1) % Bar!Cycles \in 0..(Bar!Cycles - 1) /\ (g + 2) % Bar!Cycles \in 0..(Bar!Cycles - 1)
  BY DEF Bar!Cycles, Bar!NextCycle

\* A part of the team has a number of threads; one more thread counts one
\* more, and a part as large as the team is the team.
LEMMA BarrierPartCounts ==
    ASSUME BarrierConstants, NEW A \in SUBSET TeamThreads
    PROVE  /\ Bar!Cardinality(A) \in Nat
           /\ \A t \in TeamThreads \ A : Bar!Cardinality(A \cup {t}) = Bar!Cardinality(A) + 1
           /\ Bar!Cardinality(A) = Bar!Cardinality(TeamThreads) => A = TeamThreads
  <1>1. IsFiniteSet(A) /\ Bar!Cardinality(A) \in Nat
    BY FS_Subset, FS_CardinalityType, SameTeam DEF BarrierConstants
  <1>2. \A t \in TeamThreads \ A : Bar!Cardinality(A \cup {t}) = Bar!Cardinality(A) + 1
    BY <1>1, FS_AddElement, SameTeam
  <1>3. Bar!Cardinality(A) = Bar!Cardinality(TeamThreads) => A = TeamThreads
    BY FS_Subset, SameTeam DEF BarrierConstants
  <1> QED BY <1>1, <1>2, <1>3

-----------------------------------------------------------------------------
(* Each step keeps the invariant.                                          *)

\* A thread moves to a point that is not an end: the ends are as before.
LEMMA BarrierEndsKept ==
    ASSUME BarrierConstants, Bar!TypeOK, Bar!EndsCounted, NEW t \in TeamThreads, NEW l,
           bpc' = [bpc EXCEPT ![t] = l], l \notin {"end", "wait_term"},
           bpc[t] \notin {"end", "wait_term"}, term' = term
    PROVE  Bar!EndsCounted'
  <1>1. \A u \in TeamThreads : bpc'[u] = IF u = t THEN l ELSE bpc[u]
    BY DEF Bar!TypeOK
  <1>2. {u \in TeamThreads : bpc'[u] \in {"end", "wait_term"}}
        = {u \in TeamThreads : bpc[u] \in {"end", "wait_term"}}
    BY <1>1
  <1>3. (\A u \in Bar!Workers : bpc[u] # "wait_term")'
    BY <1>1 DEF Bar!EndsCounted, Bar!Workers
  <1>4. (bpc[Bar!Master] = "end" => \A u \in Bar!Workers : bpc[u] = "end")'
    <2> SUFFICES ASSUME bpc'[Bar!Master] = "end", NEW u \in Bar!Workers PROVE bpc'[u] = "end"
      OBVIOUS
    <2>1. bpc[Bar!Master] = "end"
      BY <1>1 DEF BarrierConstants
    <2>2. \A v \in Bar!Workers : bpc[v] = "end"
      BY <2>1 DEF Bar!EndsCounted
    <2> QED BY <1>1, <2>1, <2>2 DEF Bar!Workers
  <1> QED BY <1>2, <1>3, <1>4 DEF Bar!EndsCounted

\* A thread enters a barrier.
LEMMA BarrierEnterKeeps ==
    ASSUME BarrierConstants, Bar!TypeOK, Bar!EndsCounted, NEW g \in 0..BarRounds, Bar!RoundAt(g),
           NEW t \in TeamThreads, Bar!Enter(t)
    PROVE  Bar!TypeOK' /\ Bar!EndsCounted' /\ Bar!RoundAt(g)'
  <1> DEFINE l == IF t \in Bar!Workers THEN "read_wait" ELSE "arrive"
  <1>1. /\ bpc[t] = "out" /\ left[t] < BarRounds /\ bpc' = [bpc EXCEPT ![t] = l]
        /\ current_cycle' = [current_cycle EXCEPT ![t] = cycle]
        /\ UNCHANGED <<cycle, count, wait_cycle, wcycle, left, signals, arrived, term>>
    BY DEF Bar!Enter, Bar!Goto
  <1>2. l \in {"read_wait", "arrive"} /\ (t \in Bar!Workers => l = "read_wait")
    OBVIOUS
  <1> HIDE DEF l
  <1>3. Bar!TypeOK'
    BY <1>1, <1>2 DEF Bar!TypeOK
  <1>4. Bar!EndsCounted'
    BY <1>1, <1>2, BarrierEndsKept
  <1>5. \A u \in TeamThreads : /\ bpc'[u] = IF u = t THEN l ELSE bpc[u]
                           /\ current_cycle'[u] = IF u = t THEN cycle ELSE current_cycle[u]
    BY <1>1 DEF Bar!TypeOK
  <1>6. left[t] = g /\ arrived[t] = g /\ cycle = g % Bar!Cycles
    BY <1>1 DEF Bar!RoundAt, Bar!ThreadAt, Bar!CountersAt
  <1>7. Bar!CountersAt(g)'
    BY <1>1, <1>2, <1>5 DEF Bar!RoundAt, Bar!CountersAt, Bar!Arrived
  <1>8. Bar!SignalsAt(g)'
    BY <1>1, <1>2, <1>5 DEF Bar!RoundAt, Bar!SignalsAt, Bar!Workers
  <1>9. ASSUME NEW u \in TeamThreads PROVE Bar!ThreadAt(g, u)'
    <2>1. CASE u = t
      BY <1>1, <1>2, <1>5, <1>6, <2>1 DEF Bar!ThreadAt, Bar!RoundAt
    <2>2. CASE u # t
      BY <1>1, <1>5, <2>2 DEF Bar!ThreadAt, Bar!RoundAt, Bar!Arrived
    <2> QED BY <2>1, <2>2
  <1> QED BY <1>3, <1>4, <1>7, <1>8, <1>9 DEF Bar!RoundAt

\* It reads the cycle of the barrier.
LEMMA BarrierReadWaitCycleKeeps ==
    ASSUME BarrierConstants, Bar!TypeOK, Bar!EndsCounted, NEW g \in 0..BarRounds, Bar!RoundAt(g),
           NEW t \in TeamThreads, Bar!ReadWaitCycle(t)
    PROVE  Bar!TypeOK' /\ Bar!EndsCounted' /\ Bar!RoundAt(g)'
  <1>1. /\ bpc[t] = "read_wait" /\ bpc' = [bpc EXCEPT ![t] = "arrive"]
        /\ wcycle' = [wcycle EXCEPT ![t] = wait_cycle]
        /\ UNCHANGED <<cycle, count, wait_cycle, current_cycle, left, signals, arrived, term>>
    BY DEF Bar!ReadWaitCycle, Bar!Goto
  <1>2. Bar!TypeOK'
    BY <1>1 DEF Bar!TypeOK
  <1>3. Bar!EndsCounted'
    BY <1>1, BarrierEndsKept
  <1>4. \A u \in TeamThreads : /\ bpc'[u] = IF u = t THEN "arrive" ELSE bpc[u]
                           /\ wcycle'[u] = IF u = t THEN wait_cycle ELSE wcycle[u]
    BY <1>1 DEF Bar!TypeOK
  <1>5. Bar!CountersAt(g)'
    BY <1>1, <1>4 DEF Bar!RoundAt, Bar!CountersAt, Bar!Arrived
  <1>6. ASSUME NEW u \in TeamThreads PROVE Bar!ThreadAt(g, u)'
    BY <1>1, <1>4 DEF Bar!ThreadAt, Bar!RoundAt, Bar!Arrived
  <1>7. t \in Bar!Workers => wait_cycle = left[t]
    <2>1. left[t] = g /\ left[Bar!Master] <= g
      <3>1. /\ bpc[Bar!Master] \in {"out", "read_wait", "arrive", "wait_term", "end", "spin", "clean",
                               "turn", "exit"}
            /\ left[Bar!Master] \in Nat /\ arrived[Bar!Master] \in {g, g + 1}
        BY DEF BarrierConstants, Bar!TypeOK, Bar!RoundAt, Bar!ThreadAt
      <3>2. left[Bar!Master] <= g
        BY <3>1 DEF BarrierConstants, Bar!RoundAt, Bar!ThreadAt
      <3> QED BY <1>1, <3>2 DEF Bar!RoundAt, Bar!ThreadAt
    <2>2. t \in Bar!Workers => left[t] <= signals /\ signals <= left[Bar!Master] /\ wait_cycle = signals
      BY DEF Bar!RoundAt, Bar!SignalsAt
    <2>3. left[t] \in Nat /\ signals \in Nat /\ left[Bar!Master] \in Nat
      BY DEF Bar!TypeOK, BarrierConstants
    <2> QED BY <2>1, <2>2, <2>3
  <1>8. Bar!SignalsAt(g)'
    BY <1>1, <1>4, <1>7 DEF Bar!RoundAt, Bar!SignalsAt, Bar!Workers
  <1> QED BY <1>2, <1>3, <1>5, <1>6, <1>8 DEF Bar!RoundAt

\* It counts itself: the last one sees all the others.
LEMMA BarrierArriveKeeps ==
    ASSUME BarrierConstants, Bar!TypeOK, Bar!EndsCounted, NEW g \in 0..BarRounds, Bar!RoundAt(g),
           NEW t \in TeamThreads, Bar!Arrive(t)
    PROVE  Bar!TypeOK' /\ Bar!EndsCounted' /\ Bar!RoundAt(g)'
  <1>1. /\ bpc[t] = "arrive" /\ left[t] = g /\ arrived[t] = g /\ g < BarRounds
        /\ current_cycle[t] = g % Bar!Cycles
    BY DEF Bar!Arrive, Bar!RoundAt, Bar!ThreadAt
  <1>2. PICK n : n = count[g % Bar!Cycles] + 1
    OBVIOUS
  <1>3. PICK l : l = IF Bar!LastArrival(n) THEN "clean" ELSE "spin"
    OBVIOUS
  <1>4. /\ count' = [count EXCEPT ![g % Bar!Cycles] = n]
        /\ arrived' = [arrived EXCEPT ![t] = @ + 1]
        /\ bpc' = [bpc EXCEPT ![t] = l]
        /\ UNCHANGED <<cycle, wait_cycle, current_cycle, wcycle, left, signals, term>>
    BY <1>1, <1>2, <1>3 DEF Bar!Arrive, Bar!Goto
  <1>5. l \in {"clean", "spin"}
    BY <1>3
  <1>6. g \in Nat /\ g % Bar!Cycles \in 0..(Bar!Cycles - 1)
    BY BarrierThreeCounters DEF BarrierConstants
  <1>7. /\ \A u \in TeamThreads : /\ bpc'[u] = IF u = t THEN l ELSE bpc[u]
                              /\ arrived'[u] = IF u = t THEN g + 1 ELSE arrived[u]
        /\ count' \in [0..(Bar!Cycles - 1) -> Nat]
        /\ \A c \in 0..(Bar!Cycles - 1) : count'[c] = IF c = g % Bar!Cycles THEN n ELSE count[c]
    BY <1>1, <1>2, <1>4, <1>6 DEF Bar!TypeOK
  <1>8. Bar!TypeOK'
    BY <1>1, <1>4, <1>5, <1>6, <1>7 DEF Bar!TypeOK
  <1>9. Bar!EndsCounted'
    BY <1>1, <1>4, <1>5, BarrierEndsKept
  <1>10. t \notin Bar!Arrived(g) /\ Bar!Arrived(g)' = Bar!Arrived(g) \cup {t}
    BY <1>1, <1>6, <1>7 DEF Bar!Arrived
  <1>11. n = Bar!Cardinality(Bar!Arrived(g)')
    <2>1. Bar!Arrived(g) \in SUBSET TeamThreads
      BY DEF Bar!Arrived
    <2> QED BY <1>2, <1>10, <2>1, BarrierPartCounts DEF Bar!RoundAt, Bar!CountersAt
  <1>12. l = "clean" => Bar!Arrived(g)' = TeamThreads
    <2>1. Bar!Arrived(g)' \in SUBSET TeamThreads
      BY <1>10 DEF Bar!Arrived
    <2> QED BY <1>3, <1>11, <2>1, BarrierPartCounts DEF Bar!LastArrival
  <1>13. \A u \in TeamThreads : bpc[u] \notin {"clean", "turn"}
    BY <1>10 DEF Bar!RoundAt, Bar!ThreadAt
  <1>14. Bar!CountersAt(g)'
    <2>1. count'[g % Bar!Cycles] = Bar!Cardinality(Bar!Arrived(g)')
      BY <1>6, <1>7, <1>11
    <2>2. count'[(g + 1) % Bar!Cycles] = 0
      BY <1>6, <1>7, BarrierThreeCounters DEF Bar!RoundAt, Bar!CountersAt
    <2>3. \A u \in TeamThreads : bpc'[u] # "turn"
      BY <1>5, <1>7, <1>13
    <2>4. \A u \in TeamThreads : bpc'[u] \in {"clean", "turn"} => u = t
      BY <1>7, <1>13
    <2>5. cycle' = g % Bar!Cycles
      BY <1>4 DEF Bar!RoundAt, Bar!CountersAt
    <2> QED BY <2>1, <2>2, <2>3, <2>4, <2>5 DEF Bar!CountersAt
  <1>15. Bar!SignalsAt(g)'
    BY <1>1, <1>4, <1>7 DEF Bar!RoundAt, Bar!SignalsAt, Bar!Workers
  <1>16. ASSUME NEW u \in TeamThreads PROVE Bar!ThreadAt(g, u)'
    <2>1. CASE u = t
      BY <1>1, <1>4, <1>5, <1>6, <1>7, <1>12, <2>1 DEF Bar!ThreadAt, Bar!RoundAt, BarrierConstants
    <2>2. CASE u # t
      BY <1>4, <1>7, <1>13, <2>2 DEF Bar!ThreadAt, Bar!RoundAt
    <2> QED BY <2>1, <2>2
  <1> QED BY <1>8, <1>9, <1>14, <1>15, <1>16 DEF Bar!RoundAt

\* The last one clears the counter of the next barrier.
LEMMA BarrierCleanKeeps ==
    ASSUME BarrierConstants, Bar!TypeOK, Bar!EndsCounted, NEW g \in 0..BarRounds, Bar!RoundAt(g),
           NEW t \in TeamThreads, Bar!Clean(t)
    PROVE  Bar!TypeOK' /\ Bar!EndsCounted' /\ Bar!RoundAt(g)'
  <1>1. /\ bpc[t] = "clean" /\ current_cycle[t] = g % Bar!Cycles /\ bpc' = [bpc EXCEPT ![t] = "turn"]
        /\ UNCHANGED <<cycle, wait_cycle, current_cycle, wcycle, left, signals, arrived, term>>
    BY DEF Bar!Clean, Bar!Goto, Bar!RoundAt, Bar!ThreadAt
  <1>2. g \in Nat /\ (g + 2) % Bar!Cycles \in 0..(Bar!Cycles - 1)
    BY BarrierThreeCounters DEF BarrierConstants
  <1>3. count' = [count EXCEPT ![(g + 2) % Bar!Cycles] = 0]
    BY <1>1, <1>2, BarrierThreeCounters DEF Bar!Clean
  <1>4. /\ \A u \in TeamThreads : bpc'[u] = IF u = t THEN "turn" ELSE bpc[u]
        /\ count' \in [0..(Bar!Cycles - 1) -> Nat]
        /\ \A c \in 0..(Bar!Cycles - 1) : count'[c] = IF c = (g + 2) % Bar!Cycles THEN 0 ELSE count[c]
    BY <1>1, <1>2, <1>3 DEF Bar!TypeOK
  <1>5. Bar!TypeOK'
    BY <1>1, <1>4 DEF Bar!TypeOK
  <1>6. Bar!EndsCounted'
    BY <1>1, BarrierEndsKept
  <1>7. Bar!Arrived(g)' = Bar!Arrived(g)
    BY <1>1 DEF Bar!Arrived
  <1>8. Bar!CountersAt(g)'
    <2>1. /\ count'[g % Bar!Cycles] = count[g % Bar!Cycles]
          /\ count'[(g + 1) % Bar!Cycles] = count[(g + 1) % Bar!Cycles]
          /\ count'[(g + 2) % Bar!Cycles] = 0
      BY <1>2, <1>4, BarrierThreeCounters
    <2>2. \A u, v \in TeamThreads : bpc'[u] \in {"clean", "turn"} /\ bpc'[v] \in {"clean", "turn"} => u = v
      BY <1>1, <1>4 DEF Bar!RoundAt, Bar!CountersAt
    <2> QED BY <1>1, <1>7, <2>1, <2>2 DEF Bar!RoundAt, Bar!CountersAt
  <1>9. Bar!SignalsAt(g)'
    BY <1>1, <1>4 DEF Bar!RoundAt, Bar!SignalsAt, Bar!Workers
  <1>10. ASSUME NEW u \in TeamThreads PROVE Bar!ThreadAt(g, u)'
    BY <1>1, <1>4, <1>7 DEF Bar!ThreadAt, Bar!RoundAt
  <1> QED BY <1>5, <1>6, <1>8, <1>9, <1>10 DEF Bar!RoundAt

\* The last one turns the cycle.
LEMMA BarrierTurnKeeps ==
    ASSUME BarrierConstants, Bar!TypeOK, Bar!EndsCounted, NEW g \in 0..BarRounds, Bar!RoundAt(g),
           NEW t \in TeamThreads, Bar!Turn(t)
    PROVE  Bar!TypeOK' /\ Bar!EndsCounted' /\ g + 1 \in 0..BarRounds /\ Bar!RoundAt(g + 1)'
  <1>1. /\ bpc[t] = "turn" /\ current_cycle[t] = g % Bar!Cycles /\ bpc' = [bpc EXCEPT ![t] = "exit"]
        /\ left[t] = g /\ Bar!Arrived(g) = TeamThreads
        /\ UNCHANGED <<count, wait_cycle, current_cycle, wcycle, left, signals, arrived, term>>
    BY DEF Bar!Turn, Bar!Goto, Bar!RoundAt, Bar!ThreadAt
  <1>2. g \in Nat
    BY DEF BarrierConstants
  <1>3. cycle' = (g + 1) % Bar!Cycles /\ cycle' \in 0..(Bar!Cycles - 1)
    BY <1>1, <1>2, BarrierThreeCounters DEF Bar!Turn
  <1>4. \A u \in TeamThreads : bpc'[u] = IF u = t THEN "exit" ELSE bpc[u]
    BY <1>1 DEF Bar!TypeOK
  <1>5. Bar!TypeOK'
    BY <1>1, <1>3 DEF Bar!TypeOK
  <1>6. Bar!EndsCounted'
    <2>1. bpc[t] = "turn" /\ bpc' = [bpc EXCEPT ![t] = "exit"] /\ term' = term
      BY <1>1
    <2> QED BY <2>1, BarrierEndsKept
  <1>7. \A u \in TeamThreads : arrived[u] = g + 1
    BY <1>1 DEF Bar!Arrived
  <1>8. g + 1 \in 0..BarRounds
    BY <1>2, <1>7 DEF Bar!RoundAt, Bar!ThreadAt, BarrierConstants
  <1>9. \A u \in TeamThreads \ {t} : bpc[u] = "spin"
    <2> SUFFICES ASSUME NEW u \in TeamThreads \ {t} PROVE bpc[u] = "spin"
      OBVIOUS
    <2>1. bpc[u] \notin {"clean", "turn"}
      BY <1>1 DEF Bar!RoundAt, Bar!CountersAt
    <2>2. bpc[u] \notin {"out", "read_wait", "arrive", "wait_term", "end", "exit"}
      BY <1>2, <1>7 DEF Bar!RoundAt, Bar!ThreadAt
    <2>3. bpc[u] \in {"out", "read_wait", "arrive", "spin", "clean", "turn", "exit", "wait_term",
                     "end"}
      BY DEF Bar!TypeOK
    <2> QED BY <2>1, <2>2, <2>3
  <1>10. Bar!CountersAt(g + 1)'
    <2>1. Bar!Arrived(g + 1)' = {}
      BY <1>1, <1>2, <1>7 DEF Bar!Arrived
    <2>2. count[(g + 1) % Bar!Cycles] = 0 /\ count[(g + 2) % Bar!Cycles] = 0
      BY <1>1 DEF Bar!RoundAt, Bar!CountersAt
    <2>3. (g + 1) + 1 = g + 2
      BY <1>2
    <2>4. \A u \in TeamThreads : bpc'[u] \notin {"clean", "turn"}
      BY <1>4, <1>9
    <2> QED BY <1>1, <1>3, <2>1, <2>2, <2>3, <2>4, FS_EmptySet, SameTeam DEF Bar!CountersAt
  <1>11. Bar!SignalsAt(g + 1)'
    BY <1>1, <1>4 DEF Bar!RoundAt, Bar!SignalsAt, Bar!Workers
  <1>12. ASSUME NEW u \in TeamThreads PROVE Bar!ThreadAt(g + 1, u)'
    <2>1. CASE u = t
      BY <1>1, <1>2, <1>4, <1>7, <1>8, <2>1 DEF Bar!ThreadAt, Bar!RoundAt
    <2>2. CASE u # t
      BY <1>1, <1>2, <1>4, <1>7, <1>8, <1>9, <2>2 DEF Bar!ThreadAt, Bar!RoundAt
    <2> QED BY <2>1, <2>2
  <1> QED BY <1>5, <1>6, <1>8, <1>10, <1>11, <1>12 DEF Bar!RoundAt

\* A thread that waits sees the cycle turn.
LEMMA BarrierSpinKeeps ==
    ASSUME BarrierConstants, Bar!TypeOK, Bar!EndsCounted, NEW g \in 0..BarRounds, Bar!RoundAt(g),
           NEW t \in TeamThreads, Bar!Spin(t)
    PROVE  Bar!TypeOK' /\ Bar!EndsCounted' /\ Bar!RoundAt(g)'
  <1>1. /\ bpc[t] = "spin" /\ bpc' = [bpc EXCEPT ![t] = "exit"]
        /\ cycle = Bar!NextCycle(current_cycle[t])
        /\ UNCHANGED <<cycle, count, wait_cycle, current_cycle, wcycle, left, signals, arrived, term>>
    BY DEF Bar!Spin, Bar!Goto
  <1>2. g \in Nat
    BY DEF BarrierConstants
  <1>3. left[t] + 1 = g /\ arrived[t] = g
    <2>1. /\ left[t] \in Nat /\ left[t] + 1 \in {g, g + 1} /\ arrived[t] = left[t] + 1
          /\ current_cycle[t] = left[t] % Bar!Cycles /\ cycle = g % Bar!Cycles
      BY <1>1 DEF Bar!TypeOK, Bar!RoundAt, Bar!ThreadAt, Bar!CountersAt
    <2>2. left[t] # g
      BY <1>1, <1>2, <2>1, BarrierThreeCounters
    <2> QED BY <1>2, <2>1, <2>2
  <1>4. \A u \in TeamThreads : bpc'[u] = IF u = t THEN "exit" ELSE bpc[u]
    BY <1>1 DEF Bar!TypeOK
  <1>5. Bar!TypeOK'
    BY <1>1 DEF Bar!TypeOK
  <1>6. Bar!EndsCounted'
    BY <1>1, BarrierEndsKept
  <1>7. Bar!Arrived(g)' = Bar!Arrived(g)
    BY <1>1 DEF Bar!Arrived
  <1>8. Bar!CountersAt(g)'
    BY <1>1, <1>4, <1>7 DEF Bar!RoundAt, Bar!CountersAt
  <1>9. Bar!SignalsAt(g)'
    BY <1>1, <1>4 DEF Bar!RoundAt, Bar!SignalsAt, Bar!Workers
  <1>10. ASSUME NEW u \in TeamThreads PROVE Bar!ThreadAt(g, u)'
    BY <1>1, <1>3, <1>4, <1>7 DEF Bar!ThreadAt, Bar!RoundAt
  <1> QED BY <1>5, <1>6, <1>8, <1>9, <1>10 DEF Bar!RoundAt

\* A thread leaves its barrier.
LEMMA BarrierExitKeeps ==
    ASSUME BarrierConstants, Bar!TypeOK, Bar!EndsCounted, NEW g \in 0..BarRounds, Bar!RoundAt(g),
           NEW t \in TeamThreads, Bar!Exit(t)
    PROVE  Bar!TypeOK' /\ Bar!EndsCounted' /\ Bar!RoundAt(g)'
  <1>1. /\ bpc[t] = "exit" /\ bpc' = [bpc EXCEPT ![t] = "out"]
        /\ left' = [left EXCEPT ![t] = @ + 1] /\ (t \in Bar!Workers => wcycle[t] # wait_cycle)
        /\ UNCHANGED <<cycle, count, wait_cycle, current_cycle, wcycle, signals, arrived, term>>
    BY DEF Bar!Exit, Bar!MayExit, Bar!Goto
  <1>2. g \in Nat /\ left[t] \in Nat /\ left[t] + 1 = g /\ arrived[t] = g
    BY <1>1 DEF BarrierConstants, Bar!TypeOK, Bar!RoundAt, Bar!ThreadAt
  <1>3. /\ left' \in [TeamThreads -> Nat]
        /\ \A u \in TeamThreads : /\ bpc'[u] = IF u = t THEN "out" ELSE bpc[u]
                              /\ left'[u] = IF u = t THEN left[t] + 1 ELSE left[u]
    <2>1. left \in [TeamThreads -> Nat] /\ bpc \in [TeamThreads -> {"out", "read_wait", "arrive", "spin",
                 "clean", "turn", "exit", "wait_term", "end"}]
      BY DEF Bar!TypeOK
    <2> QED BY <1>1, <1>2, <2>1
  <1>4. Bar!TypeOK'
    BY <1>1, <1>3 DEF Bar!TypeOK
  <1>5. Bar!EndsCounted'
    BY <1>1, BarrierEndsKept
  <1>6. Bar!Arrived(g)' = Bar!Arrived(g)
    BY <1>1 DEF Bar!Arrived
  <1>7. Bar!CountersAt(g)'
    BY <1>1, <1>3, <1>6 DEF Bar!RoundAt, Bar!CountersAt
  <1>8. Bar!SignalsAt(g)'
    <2>1. signals \in Nat /\ left[Bar!Master] \in Nat /\ signals <= left[Bar!Master]
          /\ wait_cycle = signals
      BY DEF Bar!TypeOK, BarrierConstants, Bar!RoundAt, Bar!SignalsAt
    <2>2. left'[Bar!Master] >= left[Bar!Master]
      BY <1>2, <1>3, <2>1 DEF BarrierConstants
    <2>3. signals <= left'[Bar!Master]
      BY <1>3, <2>1, <2>2 DEF Bar!TypeOK, BarrierConstants
    <2>4. ASSUME NEW u \in Bar!Workers PROVE left'[u] <= signals
      <3>1. CASE u = t
        <4>1. wcycle[t] = left[t] /\ left[t] <= signals /\ left[t] # signals
          BY <1>1, <2>1, <3>1 DEF Bar!RoundAt, Bar!SignalsAt
        <4> QED BY <1>2, <1>3, <2>1, <3>1, <4>1 DEF Bar!Workers
      <3>2. CASE u # t
        BY <1>3, <3>2 DEF Bar!RoundAt, Bar!SignalsAt, Bar!Workers
      <3> QED BY <3>1, <3>2
    <2>5. ASSUME NEW u \in Bar!Workers, bpc'[u] \in {"arrive", "spin", "clean", "turn", "exit"}
          PROVE  wcycle[u] = left'[u]
      <3>1. u # t /\ u \in TeamThreads
        BY <1>3, <2>5 DEF Bar!Workers
      <3> QED BY <1>3, <2>5, <3>1 DEF Bar!RoundAt, Bar!SignalsAt
    <2> QED BY <1>1, <2>1, <2>3, <2>4, <2>5 DEF Bar!SignalsAt
  <1>9. ASSUME NEW u \in TeamThreads PROVE Bar!ThreadAt(g, u)'
    BY <1>1, <1>2, <1>3, <1>6 DEF Bar!ThreadAt, Bar!RoundAt
  <1> QED BY <1>4, <1>5, <1>7, <1>8, <1>9 DEF Bar!RoundAt

\* The master signals the workers.
LEMMA BarrierSignalKeeps ==
    ASSUME BarrierConstants, Bar!TypeOK, Bar!EndsCounted, NEW g \in 0..BarRounds, Bar!RoundAt(g), Bar!Signal
    PROVE  Bar!TypeOK' /\ Bar!EndsCounted' /\ Bar!RoundAt(g)'
  <1>1. /\ signals < left[Bar!Master] /\ wait_cycle' = wait_cycle + 1 /\ signals' = signals + 1
        /\ UNCHANGED <<cycle, count, bpc, current_cycle, wcycle, left, arrived, term>>
    BY DEF Bar!Signal
  <1>2. Bar!TypeOK'
    BY <1>1 DEF Bar!TypeOK
  <1>3. Bar!EndsCounted'
    BY <1>1 DEF Bar!EndsCounted
  <1>4. Bar!CountersAt(g)' /\ \A u \in TeamThreads : Bar!ThreadAt(g, u)'
    BY <1>1 DEF Bar!RoundAt, Bar!CountersAt, Bar!ThreadAt, Bar!Arrived
  <1>5. Bar!SignalsAt(g)'
    <2>1. signals \in Nat /\ left[Bar!Master] \in Nat /\ \A u \in Bar!Workers : left[u] \in Nat
      BY DEF Bar!TypeOK, BarrierConstants, Bar!Workers
    <2> QED BY <1>1, <2>1 DEF Bar!RoundAt, Bar!SignalsAt
  <1> QED BY <1>2, <1>3, <1>4, <1>5 DEF Bar!RoundAt

\* A worker signals its end.
LEMMA BarrierSignalTermKeeps ==
    ASSUME BarrierConstants, Bar!TypeOK, Bar!EndsCounted, NEW g \in 0..BarRounds, Bar!RoundAt(g),
           NEW t \in TeamThreads, Bar!SignalTerm(t)
    PROVE  Bar!TypeOK' /\ Bar!EndsCounted' /\ Bar!RoundAt(g)'
  <1>1. PICK l : l = IF t = Bar!Master THEN "wait_term" ELSE "end"
    OBVIOUS
  <1>2. /\ bpc[t] = "out" /\ term' = term + 1 /\ bpc' = [bpc EXCEPT ![t] = l]
        /\ UNCHANGED <<cycle, count, wait_cycle, current_cycle, wcycle, left, signals, arrived>>
    BY <1>1 DEF Bar!SignalTerm, Bar!Goto
  <1>3. l \in {"wait_term", "end"} /\ (l = "wait_term" <=> t = Bar!Master)
    BY <1>1
  <1>4. \A u \in TeamThreads : bpc'[u] = IF u = t THEN l ELSE bpc[u]
    BY <1>2 DEF Bar!TypeOK
  <1>5. Bar!TypeOK'
    BY <1>2, <1>3 DEF Bar!TypeOK
  <1>6. Bar!EndsCounted'
    <2> DEFINE A == {u \in TeamThreads : bpc[u] \in {"end", "wait_term"}}
    <2>1. A \in SUBSET TeamThreads /\ t \notin A /\ A' = A \cup {t}
      BY <1>2, <1>3, <1>4
    <2>2. term' = Bar!Cardinality(A')
      BY <1>2, <2>1, BarrierPartCounts DEF Bar!EndsCounted
    <2>3. \A u \in Bar!Workers : bpc'[u] # "wait_term"
      BY <1>3, <1>4 DEF Bar!EndsCounted, Bar!Workers
    <2>4. ASSUME bpc'[Bar!Master] = "end", NEW u \in Bar!Workers PROVE bpc'[u] = "end"
      <3>1. t # Bar!Master /\ bpc[Bar!Master] = "end"
        BY <1>3, <1>4, <2>4 DEF BarrierConstants
      <3>2. bpc[t] = "end"
        BY <3>1 DEF Bar!EndsCounted, Bar!Workers
      <3> QED BY <1>2, <3>2
    <2> QED BY <2>2, <2>3, <2>4 DEF Bar!EndsCounted
  <1>7. Bar!CountersAt(g)'
    BY <1>2, <1>3, <1>4 DEF Bar!RoundAt, Bar!CountersAt, Bar!Arrived
  <1>8. Bar!SignalsAt(g)'
    BY <1>2, <1>3, <1>4 DEF Bar!RoundAt, Bar!SignalsAt, Bar!Workers
  <1>9. ASSUME NEW u \in TeamThreads PROVE Bar!ThreadAt(g, u)'
    <2>1. CASE u = t
      BY <1>2, <1>3, <1>4, <2>1 DEF Bar!ThreadAt, Bar!RoundAt
    <2>2. CASE u # t
      BY <1>2, <1>4, <2>2 DEF Bar!ThreadAt, Bar!RoundAt, Bar!Arrived
    <2> QED BY <2>1, <2>2
  <1> QED BY <1>5, <1>6, <1>7, <1>8, <1>9 DEF Bar!RoundAt

\* The master has seen every worker end.
LEMMA BarrierEndTermKeeps ==
    ASSUME BarrierConstants, Bar!TypeOK, Bar!EndsCounted, NEW g \in 0..BarRounds, Bar!RoundAt(g),
           NEW t \in TeamThreads, Bar!EndTerm(t)
    PROVE  Bar!TypeOK' /\ Bar!EndsCounted' /\ Bar!RoundAt(g)'
  <1>1. /\ bpc[t] = "wait_term" /\ term = Bar!Cardinality(TeamThreads) /\ bpc' = [bpc EXCEPT ![t] = "end"]
        /\ UNCHANGED <<cycle, count, wait_cycle, current_cycle, wcycle, left, signals, arrived, term>>
    BY DEF Bar!EndTerm, Bar!AllTerm, Bar!Goto
  <1>2. t = Bar!Master
    BY <1>1 DEF Bar!EndsCounted, Bar!Workers
  <1>3. \A u \in TeamThreads : bpc'[u] = IF u = t THEN "end" ELSE bpc[u]
    BY <1>1 DEF Bar!TypeOK
  <1>4. Bar!TypeOK'
    BY <1>1 DEF Bar!TypeOK
  <1>5. Bar!EndsCounted'
    <2> DEFINE A == {u \in TeamThreads : bpc[u] \in {"end", "wait_term"}}
    <2>1. A \in SUBSET TeamThreads /\ A' = A
      BY <1>1, <1>3
    <2>2. A = TeamThreads
      BY <1>1, <2>1, BarrierPartCounts DEF Bar!EndsCounted
    <2>3. \A u \in Bar!Workers : bpc[u] = "end"
      BY <2>2 DEF Bar!EndsCounted, Bar!Workers
    <2>4. \A u \in Bar!Workers : bpc'[u] = "end"
      BY <1>3, <2>3 DEF Bar!Workers
    <2> QED BY <1>1, <2>1, <2>4 DEF Bar!EndsCounted
  <1>6. Bar!CountersAt(g)'
    BY <1>1, <1>3 DEF Bar!RoundAt, Bar!CountersAt, Bar!Arrived
  <1>7. Bar!SignalsAt(g)'
    BY <1>1, <1>3 DEF Bar!RoundAt, Bar!SignalsAt, Bar!Workers
  <1>8. ASSUME NEW u \in TeamThreads PROVE Bar!ThreadAt(g, u)'
    <2>1. CASE u = t
      BY <1>1, <1>3, <2>1 DEF Bar!ThreadAt, Bar!RoundAt
    <2>2. CASE u # t
      BY <1>1, <1>3, <2>2 DEF Bar!ThreadAt, Bar!RoundAt, Bar!Arrived
    <2> QED BY <2>1, <2>2
  <1> QED BY <1>4, <1>5, <1>6, <1>7, <1>8 DEF Bar!RoundAt

-----------------------------------------------------------------------------
(* Theorems.                                                               *)

\* The invariant holds at the start.
LEMMA BarrierInitRight ==
    ASSUME BarrierConstants, Bar!Init
    PROVE  Bar!BarrierInv
  <1>1. Bar!TypeOK
    BY DEF Bar!Init, Bar!TypeOK, Bar!Cycles
  <1>2. Bar!EndsCounted
    <2>1. {t \in TeamThreads : bpc[t] \in {"end", "wait_term"}} = {}
      BY DEF Bar!Init
    <2> QED BY <2>1, FS_EmptySet, SameTeam DEF Bar!Init, Bar!EndsCounted, Bar!Workers, BarrierConstants
  <1>3. Bar!RoundAt(0)
    <2>1. Bar!Arrived(0) = {}
      BY DEF Bar!Init, Bar!Arrived
    <2>2. Bar!CountersAt(0)
      BY <2>1, FS_EmptySet, SameTeam DEF Bar!Init, Bar!CountersAt, Bar!Cycles
    <2>3. Bar!SignalsAt(0)
      BY DEF Bar!Init, Bar!SignalsAt, Bar!Workers, BarrierConstants
    <2>4. \A t \in TeamThreads : Bar!ThreadAt(0, t)
      BY DEF Bar!Init, Bar!ThreadAt, BarrierConstants
    <2> QED BY <2>2, <2>3, <2>4 DEF Bar!RoundAt
  <1> QED BY <1>1, <1>2, <1>3 DEF Bar!BarrierInv, BarrierConstants

\* Every step keeps the invariant.
LEMMA BarrierStepKeeps ==
    ASSUME BarrierConstants, Bar!BarrierInv, [Bar!Next]_(Bar!vars)
    PROVE  Bar!BarrierInv'
  <1>1. PICK g \in 0..BarRounds : Bar!RoundAt(g)
    BY DEF Bar!BarrierInv
  <1>2. Bar!TypeOK /\ Bar!EndsCounted
    BY DEF Bar!BarrierInv
  <1>3. CASE \E t \in TeamThreads : Bar!Turn(t)
    <2>1. Bar!TypeOK' /\ Bar!EndsCounted' /\ g + 1 \in 0..BarRounds /\ Bar!RoundAt(g + 1)'
      BY <1>1, <1>2, <1>3, BarrierTurnKeeps
    <2>2. \E k \in 0..BarRounds : Bar!RoundAt(k)'
      BY <2>1
    <2> QED BY <2>1, <2>2 DEF Bar!BarrierInv
  <1>4. CASE \/ Bar!Signal
             \/ \E t \in TeamThreads : \/ Bar!Enter(t) \/ Bar!ReadWaitCycle(t) \/ Bar!Arrive(t) \/ Bar!Clean(t)
                                   \/ Bar!Spin(t) \/ Bar!Exit(t) \/ Bar!SignalTerm(t) \/ Bar!EndTerm(t)
    <2>1. Bar!TypeOK' /\ Bar!EndsCounted' /\ Bar!RoundAt(g)'
      BY <1>1, <1>2, <1>4, BarrierSignalKeeps, BarrierEnterKeeps, BarrierReadWaitCycleKeeps, BarrierArriveKeeps, BarrierCleanKeeps,
         BarrierSpinKeeps, BarrierExitKeeps, BarrierSignalTermKeeps, BarrierEndTermKeeps
    <2>2. \E k \in 0..BarRounds : Bar!RoundAt(k)'
      BY <2>1
    <2> QED BY <2>1, <2>2 DEF Bar!BarrierInv
  <1>5. CASE UNCHANGED Bar!vars
    <2>1. Bar!TypeOK' /\ Bar!EndsCounted' /\ Bar!RoundAt(g)'
      BY <1>1, <1>2, <1>5 DEF Bar!vars, Bar!TypeOK, Bar!EndsCounted, Bar!RoundAt, Bar!CountersAt, Bar!SignalsAt, Bar!ThreadAt,
                              Bar!Arrived
    <2>2. \E k \in 0..BarRounds : Bar!RoundAt(k)'
      BY <2>1
    <2> QED BY <2>1, <2>2 DEF Bar!BarrierInv
  <1> QED BY <1>3, <1>4, <1>5 DEF Bar!Next, Bar!Step, Bar!Done

\* The invariant has what the barrier promises among its consequences.
LEMMA BarrierInvIsSound ==
    ASSUME Bar!BarrierInv
    PROVE  Bar!BarrierSound
  <1>1. Bar!BarrierHolds
    <2> SUFFICES ASSUME Bar!TypeOK, NEW g \in 0..BarRounds, Bar!RoundAt(g), NEW t \in TeamThreads, NEW u \in TeamThreads
                 PROVE  left[t] + (IF bpc[t] = "exit" THEN 1 ELSE 0) <= arrived[u]
      BY DEF Bar!BarrierInv, Bar!BarrierHolds
    <2>1. left[t] + (IF bpc[t] = "exit" THEN 1 ELSE 0) <= g
      <3>1. bpc[t] \in {"out", "read_wait", "arrive", "spin", "clean", "turn", "exit", "wait_term",
                       "end"} /\ left[t] \in Nat /\ arrived[t] \in {g, g + 1} /\ g \in Int
        BY DEF Bar!TypeOK, Bar!RoundAt, Bar!ThreadAt
      <3> QED BY <3>1 DEF Bar!RoundAt, Bar!ThreadAt
    <2>2. arrived[u] \in {g, g + 1} /\ g \in Int /\ left[t] \in Nat
      BY DEF Bar!RoundAt, Bar!ThreadAt, Bar!TypeOK
    <2> QED BY <2>1, <2>2
  <1>2. Bar!ExitAfterSignal
    BY DEF Bar!BarrierInv, Bar!EndsCounted, Bar!RoundAt, Bar!SignalsAt, Bar!ExitAfterSignal
  <1> QED BY <1>1, <1>2 DEF Bar!BarrierSound

-----------------------------------------------------------------------------
(* The slots of a window.                                                  *)

\* A slot number is inside the circular buffer.
LEMMA SlotType == \A i \in Nat : Slot(i) \in 0..(Conc - 1)
  BY PipelineAssumption DEF Slot

\* Two multiples of a positive number differ by nothing or by at least it.
LEMMA MultiplesApart ==
    ASSUME NEW P \in Nat \ {0}, NEW d \in Int, NEW e \in Int,
           P * d - P * e < P, P * d - P * e > 0
    PROVE  FALSE
  <1>1. P * (d - e) < P /\ P * (d - e) > 0
    OBVIOUS
  <1>2. CASE d - e <= 0
    <2>1. P * (d - e) <= 0
      BY <1>2
    <2> QED BY <1>1, <2>1
  <1>3. CASE d - e >= 1
    <2>1. P * (d - e) >= P
      BY <1>3
    <2> QED BY <1>1, <2>1
  <1> QED BY <1>2, <1>3

\* Two tasks less than Conc apart have different slots.
LEMMA SlotsDiffer ==
    ASSUME NEW i \in Nat, NEW j \in Nat, i < j, j - i < Conc
    PROVE  Slot(i) # Slot(j)
  <1> SUFFICES ASSUME i % Conc = j % Conc PROVE FALSE
    BY DEF Slot
  <1>0. Conc \in Nat \ {0}
    BY PipelineAssumption
  <1> DEFINE d == j \div Conc
             e == i \div Conc
             r == i % Conc
  <1>1. i = Conc * e + r /\ e \in Int /\ r \in Int
    BY <1>0
  <1>2. j = Conc * d + r /\ d \in Int
    BY <1>0
  <1> HIDE DEF d, e, r
  <1>3. Conc * d - Conc * e < Conc /\ Conc * d - Conc * e > 0
    BY <1>0, <1>1, <1>2
  <1> QED BY <1>0, <1>1, <1>2, <1>3, MultiplesApart

\* The same for any two tasks of a window, in either order.
LEMMA WindowSlots ==
    ASSUME NEW lo \in Nat, NEW i \in Nat, NEW j \in Nat,
           lo <= i, lo <= j, i - lo < Conc, j - lo < Conc, i # j
    PROVE  Slot(i) # Slot(j)
  <1>0. Conc \in Nat
    BY PipelineAssumption
  <1>1. CASE i < j
    BY <1>0, <1>1, SlotsDiffer
  <1>2. CASE j < i
    BY <1>0, <1>2, SlotsDiffer
  <1> QED BY <1>1, <1>2

\* The value and the type of a counter of the tasks after an update.
LEMMA CounterUpdate ==
    ASSUME NEW f \in [Index -> Nat], NEW x \in Index, NEW v \in Nat
    PROVE  LET g == [f EXCEPT ![x] = v]
           IN  g \in [Index -> Nat] /\ \A j \in Index : g[j] = IF j = x THEN v ELSE f[j]
  OBVIOUS

-----------------------------------------------------------------------------
(* PipelineInv holds initially and is preserved by every action.           *)

\* The empty pipeline satisfies PipelineInv.
LEMMA InitInv == Init => PipelineInv
  <1> SUFFICES ASSUME Init PROVE PipelineInv
    OBVIOUS
  <1> USE PipelineAssumption DEF Init
  <1>1. TypeOK
    BY DEF TypeOK, Index, Empty
  <1>2. WindowFits
    BY DEF WindowFits, Accept
  <1>3. WcExact
    BY DEF WcExact, Held, Index
  <1>4. KernelsInOrder
    BY DEF KernelsInOrder, Index
  <1>5. LeaderNotForgotten /\ SlotKeptUntilFinished /\ SlotFreed /\ FinishIsOldest
    BY DEF LeaderNotForgotten, SlotKeptUntilFinished, SlotFreed, FinishIsOldest, Index
  <1> QED BY <1>1, <1>2, <1>3, <1>4, <1>5 DEF PipelineInv

\* What TypeOK says of the positions and of the counters of a task.
LEMMA TypeFacts ==
    ASSUME TypeOK
    PROVE  /\ Conc \in Nat \ {0} /\ MaxTasks \in Nat
           /\ p_write \in Nat /\ p_ready \in Nat /\ p_finish \in Nat
           /\ p_finish <= p_ready /\ p_ready <= p_write /\ p_write <= MaxTasks
           /\ \A i \in Index : i \in Nat /\ i < MaxTasks
           /\ \A i \in Nat : i < MaxTasks => i \in Index
           /\ \A i \in Index : wc[i] \in Nat /\ xfers[i] \in Nat /\ cbk[i] \in Nat
  BY PipelineAssumption DEF TypeOK, Index

\* The start of a preparation writes a slot that belongs to nobody.
LEMMA PrepareInv == PipelineInv /\ Prepare => PipelineInv'
  <1> SUFFICES ASSUME PipelineInv, Prepare PROVE PipelineInv'
    OBVIOUS
  <1> USE DEF PipelineInv
  <1>0. /\ pc = "loop" /\ pc' = "params" /\ p_write < MaxTasks
        /\ pipeline' = [pipeline EXCEPT ![Slot(p_write)] = p_write]
        /\ wc' = [wc EXCEPT ![p_write] = wc[p_write] + 1]
        /\ cnt_pending' = cnt_pending + 1
        /\ UNCHANGED <<p_write, p_ready, p_finish, xfers, cbk, stream, finished, cnt_ready>>
    BY DEF Prepare, indexVars
  <1>t. /\ Conc \in Nat \ {0} /\ MaxTasks \in Nat
        /\ p_write \in Nat /\ p_ready \in Nat /\ p_finish \in Nat
        /\ p_finish <= p_ready /\ p_ready <= p_write /\ p_write <= MaxTasks
        /\ \A i \in Index : i \in Nat /\ i < MaxTasks
        /\ \A i \in Index : wc[i] \in Nat /\ xfers[i] \in Nat /\ cbk[i] \in Nat
        /\ p_write \in Index
    BY TypeFacts, <1>0
  <1>a. p_write - p_finish < Conc
    BY <1>0 DEF WindowFits, Accept
  <1>u. wc' \in [Index -> Nat]
        /\ \A j \in Index : wc'[j] = IF j = p_write THEN wc[p_write] + 1 ELSE wc[j]
    <2>1. wc \in [Index -> Nat] /\ wc[p_write] + 1 \in Nat
      BY <1>t DEF TypeOK
    <2> QED BY <2>1, <1>t, <1>0, CounterUpdate
  <1>v. /\ pipeline' \in [0..(Conc - 1) -> Index \cup {Empty}]
        /\ pipeline'[Slot(p_write)] = p_write
        /\ \A j \in Index : Slot(j) # Slot(p_write) => pipeline'[Slot(j)] = pipeline[Slot(j)]
    <2>1. /\ pipeline \in [0..(Conc - 1) -> Index \cup {Empty}]
          /\ \A j \in Index : Slot(j) \in 0..(Conc - 1)
      BY <1>t, SlotType DEF TypeOK
    <2> QED BY <2>1, <1>0, <1>t
  <1>1. TypeOK'
    BY <1>0, <1>t, <1>u, <1>v DEF TypeOK
  <1>2. WindowFits'
    BY <1>0, <1>t, <1>a DEF WindowFits
  <1>3. WcExact'
    BY <1>0, <1>t, <1>u DEF WcExact, Held
  <1>4. KernelsInOrder'
    BY <1>0, <1>t, <1>u DEF KernelsInOrder
  <1>5. LeaderNotForgotten'
    <2> SUFFICES ASSUME p_ready < p_write, wc'[p_ready] = 0 PROVE cbk[p_ready] > 0
      BY <1>0 DEF LeaderNotForgotten
    <2>1. p_ready \in Index /\ p_ready # p_write
      BY <1>t, <1>0, TypeFacts
    <2> QED BY <2>1, <1>u DEF LeaderNotForgotten
  <1>6. \A i \in Index : p_finish <= i /\ i < p_write => Slot(i) # Slot(p_write)
    BY <1>t, <1>a, WindowSlots
  <1>7. SlotKeptUntilFinished'
    <2> SUFFICES ASSUME NEW i \in Index, i <= p_write, i \notin finished
                 PROVE  pipeline'[Slot(i)] = i
      BY <1>0, <1>t DEF SlotKeptUntilFinished
    <2>1. CASE i = p_write
      BY <2>1, <1>v
    <2>2. CASE i < p_write
      <3>1. p_finish <= i
        BY <1>t DEF FinishIsOldest
      <3>2. Slot(i) # Slot(p_write)
        BY <3>1, <2>2, <1>6
      <3>3. pipeline[Slot(i)] = i
        BY <2>2 DEF SlotKeptUntilFinished
      <3> QED BY <3>2, <3>3, <1>v
    <2> QED BY <2>1, <2>2, <1>t
  <1>8. SlotFreed'
    <2>1. \A i \in finished : i \in Index /\ i < p_write
      BY <1>t DEF SlotFreed, TypeOK
    <2> QED BY <2>1, <1>0, <1>t, <1>6, <1>v DEF SlotFreed
  <1>9. FinishIsOldest'
    BY <1>0 DEF FinishIsOldest
  <1> QED BY <1>1, <1>2, <1>3, <1>4, <1>5, <1>7, <1>8, <1>9

\* A transfer started by the preparation is counted in wc.
LEMMA AcquireInv == PipelineInv /\ AcquireData => PipelineInv'
  <1> SUFFICES ASSUME PipelineInv, AcquireData PROVE PipelineInv'
    OBVIOUS
  <1> USE DEF PipelineInv
  <1>0. /\ pc = "params"
        /\ wc' = [wc EXCEPT ![p_write] = wc[p_write] + 1]
        /\ xfers' = [xfers EXCEPT ![p_write] = xfers[p_write] + 1]
        /\ UNCHANGED <<pc, p_write, p_ready, p_finish, pipeline, cbk, stream, finished,
                       cnt_pending, cnt_ready>>
    BY DEF AcquireData, indexVars
  <1>t. /\ Conc \in Nat \ {0} /\ MaxTasks \in Nat
        /\ p_write \in Nat /\ p_ready \in Nat /\ p_finish \in Nat
        /\ p_finish <= p_ready /\ p_ready <= p_write /\ p_write <= MaxTasks
        /\ \A i \in Index : i \in Nat /\ i < MaxTasks
        /\ \A i \in Index : wc[i] \in Nat /\ xfers[i] \in Nat /\ cbk[i] \in Nat
        /\ p_write \in Index
    BY TypeFacts, <1>0 DEF WindowFits
  <1>u. /\ wc' \in [Index -> Nat] /\ xfers' \in [Index -> Nat]
        /\ \A j \in Index :
              /\ wc'[j] = IF j = p_write THEN wc[p_write] + 1 ELSE wc[j]
              /\ xfers'[j] = IF j = p_write THEN xfers[p_write] + 1 ELSE xfers[j]
    <2>1. /\ wc \in [Index -> Nat] /\ wc[p_write] + 1 \in Nat
          /\ xfers \in [Index -> Nat] /\ xfers[p_write] + 1 \in Nat
      BY <1>t DEF TypeOK
    <2> QED BY <2>1, <1>t, <1>0, CounterUpdate
  <1>1. TypeOK'
    BY <1>0, <1>u DEF TypeOK
  <1>2. WindowFits'
    BY <1>0 DEF WindowFits
  <1>3. WcExact'
    BY <1>0, <1>t, <1>u DEF WcExact, Held
  <1>4. KernelsInOrder'
    BY <1>0, <1>t, <1>u DEF KernelsInOrder
  <1>5. LeaderNotForgotten'
    <2> SUFFICES ASSUME p_ready < p_write, wc'[p_ready] = 0 PROVE cbk[p_ready] > 0
      BY <1>0 DEF LeaderNotForgotten
    <2>1. p_ready \in Index /\ p_ready # p_write
      BY <1>t, TypeFacts
    <2> QED BY <2>1, <1>u DEF LeaderNotForgotten
  <1>6. SlotKeptUntilFinished' /\ SlotFreed' /\ FinishIsOldest'
    BY <1>0 DEF SlotKeptUntilFinished, SlotFreed, FinishIsOldest
  <1> QED BY <1>1, <1>2, <1>3, <1>4, <1>5, <1>6

\* The new position is visible to the callbacks, but the task is still held.
LEMMA PublishInv == PipelineInv /\ Publish => PipelineInv'
  <1> SUFFICES ASSUME PipelineInv, Publish PROVE PipelineInv'
    OBVIOUS
  <1> USE PipelineAssumption DEF PipelineInv, Publish, dataVars, Index
  <1>0. /\ p_write \in Index /\ p_ready \in 0..p_write /\ p_finish \in 0..p_ready
        /\ p_write' = p_write + 1 /\ p_write - p_finish < Conc
    BY DEF TypeOK, WindowFits
  <1>1. TypeOK'
    BY <1>0 DEF TypeOK
  <1>2. WindowFits'
    BY <1>0 DEF WindowFits
  <1>3. WcExact'
    BY <1>0 DEF WcExact, Held, TypeOK
  <1>4. KernelsInOrder'
    BY <1>0 DEF KernelsInOrder, TypeOK
  <1>5. LeaderNotForgotten'
    <2>1. wc[p_write] > 0
      BY <1>0 DEF WcExact, Held, TypeOK
    <2> QED BY <2>1, <1>0 DEF LeaderNotForgotten, TypeOK
  <1>6. SlotKeptUntilFinished'
    BY <1>0 DEF SlotKeptUntilFinished
  <1>7. SlotFreed' /\ FinishIsOldest'
    BY <1>0 DEF SlotFreed, FinishIsOldest
  <1> QED BY <1>1, <1>2, <1>3, <1>4, <1>5, <1>6, <1>7

\* The end of the preparation inserts the task when it leads, and otherwise
\* leaves it to a callback that will find it.
LEMMA EndPrepareInv == PipelineInv /\ EndPrepare => PipelineInv'
  <1> SUFFICES ASSUME PipelineInv, EndPrepare PROVE PipelineInv'
    OBVIOUS
  <1> USE PipelineAssumption DEF PipelineInv, Index
  <1> DEFINE t == p_write - 1
  <1>0. /\ pc = "publish" /\ pc' = "poll" /\ t \in Index
        /\ p_write \in 1..MaxTasks /\ p_ready \in 0..t /\ p_finish \in 0..p_ready
        /\ wc[t] = xfers[t] + 1 /\ wc[t] \in Nat /\ xfers[t] \in Nat
        /\ wc' = [wc EXCEPT ![t] = @ - 1]
        /\ UNCHANGED <<p_write, p_finish, pipeline, xfers, cbk, finished>>
    BY DEF EndPrepare, TypeOK, WindowFits, WcExact, Held
  <1>1. \/ /\ wc[t] = 1 /\ p_ready = t /\ stream' = Append(stream, t)
           /\ p_ready' = p_ready + 1
        \/ ~(wc[t] = 1 /\ p_ready = t) /\ UNCHANGED <<stream, p_ready>>
    BY DEF EndPrepare, Leading
  <1>2. cnt_ready' \in Int /\ cnt_pending' \in Int
    BY DEF EndPrepare, TypeOK
  <1>u. wc' \in [Index -> Nat]
        /\ \A j \in Index : wc'[j] = IF j = t THEN wc[t] - 1 ELSE wc[j]
    <2>1. wc \in [Index -> Nat] /\ wc[t] - 1 \in Nat
      BY <1>0 DEF TypeOK
    <2> HIDE DEF Index, PipelineInv, t
    <2> QED BY <2>1, <1>0, CounterUpdate
  <1>s. /\ stream \in Seq(Index) /\ Len(stream) = p_ready
        /\ \A n \in 1..p_ready : stream[n] = n - 1
    BY DEF TypeOK, KernelsInOrder
  <1>3. /\ stream' \in Seq(Index) /\ p_ready' \in p_ready..p_write
        /\ Len(stream') = p_ready' /\ \A n \in 1..p_ready' : stream'[n] = n - 1
    <2> HIDE DEF Index, PipelineInv, t
    <2>1. CASE wc[t] = 1 /\ p_ready = t /\ stream' = Append(stream, t) /\ p_ready' = p_ready + 1
      <3>1. stream' \in Seq(Index) /\ Len(stream') = p_ready + 1
        BY <2>1, <1>0, <1>s
      <3>2. \A n \in 1..p_ready : stream'[n] = stream[n]
        BY <2>1, <1>0, <1>s
      <3>3. stream'[p_ready + 1] = t
        BY <2>1, <1>0, <1>s
      <3>4. p_write = t + 1 /\ t \in Nat
        BY <1>0 DEF t
      <3>5. p_ready' \in p_ready..p_write
        BY <2>1, <3>4
      <3> QED BY <2>1, <3>1, <3>2, <3>3, <3>4, <3>5, <1>s
    <2>2. CASE UNCHANGED <<stream, p_ready>>
      BY <2>2, <1>0, <1>s DEF t
    <2> QED BY <2>1, <2>2, <1>1
  <1> HIDE DEF t
  <1>4. TypeOK'
    <2>1. p_finish' \in 0..p_ready'
      BY <1>0, <1>3
    <2> HIDE DEF Index
    <2> QED BY <2>1, <1>0, <1>2, <1>3, <1>u DEF TypeOK
  <1>5. WindowFits'
    BY <1>0, <1>3 DEF WindowFits
  <1>6. WcExact'
    BY <1>0, <1>u DEF WcExact, Held, TypeOK, t
  <1>7. KernelsInOrder'
    <2>2. ASSUME NEW i \in Index, i < p_ready' PROVE wc'[i] = 0 /\ xfers'[i] = 0
      <3>1. CASE i < p_ready
        <4>1. i # t
          BY <3>1, <1>0
        <4> QED BY <3>1, <4>1, <1>0, <1>u DEF KernelsInOrder
      <3>2. CASE i = t /\ p_ready = t /\ wc[t] = 1
        BY <3>2, <1>0, <1>u
      <3> QED BY <2>2, <3>1, <3>2, <1>0, <1>1
    <2> QED BY <2>2, <1>3 DEF KernelsInOrder
  <1>8. LeaderNotForgotten'
    <2> SUFFICES ASSUME p_ready' < p_write', wc'[p_ready'] = 0 PROVE cbk'[p_ready'] > 0
      BY DEF LeaderNotForgotten
    <2>1. p_ready' = p_ready /\ p_ready \in Index /\ ~(wc[t] = 1 /\ p_ready = t)
      BY <1>0, <1>1 DEF t
    <2>2. p_ready # t
      BY <2>1, <1>0, <1>u
    <2> QED BY <2>1, <2>2, <1>0, <1>u DEF LeaderNotForgotten, t
  <1>9. SlotKeptUntilFinished' /\ SlotFreed'
    BY <1>0, <1>3 DEF SlotKeptUntilFinished, SlotFreed, TypeOK
  <1>10. FinishIsOldest'
    BY <1>0, <1>3 DEF FinishIsOldest, SlotFreed, TypeOK
  <1> QED BY <1>4, <1>5, <1>6, <1>7, <1>8, <1>9, <1>10

\* The loop comes back only when a new task may be accepted.
LEMMA EndPollInv == PipelineInv /\ EndPoll => PipelineInv'
  <1> SUFFICES ASSUME PipelineInv, EndPoll PROVE PipelineInv'
    OBVIOUS
  <1> USE PipelineAssumption DEF PipelineInv, EndPoll, indexVars, dataVars, Index
  <1>1. TypeOK' /\ KernelsInOrder' /\ LeaderNotForgotten'
    BY DEF TypeOK, KernelsInOrder, LeaderNotForgotten
  <1>2. WindowFits'
    BY DEF WindowFits, Accept, TypeOK
  <1>3. WcExact'
    BY DEF WcExact, Held, TypeOK
  <1>4. SlotKeptUntilFinished' /\ SlotFreed' /\ FinishIsOldest'
    BY DEF SlotKeptUntilFinished, SlotFreed, FinishIsOldest
  <1> QED BY <1>1, <1>2, <1>3, <1>4

\* The epilogue empties one slot; p_finish stops at the oldest live task.
LEMMA EpilogueInv ==
    ASSUME PipelineInv, NEW i \in Index, Epilogue(i) PROVE PipelineInv'
  <1> USE DEF PipelineInv
  <1>t. /\ Conc \in Nat \ {0} /\ MaxTasks \in Nat
        /\ p_write \in Nat /\ p_ready \in Nat /\ p_finish \in Nat
        /\ p_finish <= p_ready /\ p_ready <= p_write /\ p_write <= MaxTasks
        /\ \A j \in Index : j \in Nat /\ j < MaxTasks
        /\ \A j \in Nat : j < MaxTasks => j \in Index
        /\ \A j \in Index : wc[j] \in Nat /\ xfers[j] \in Nat /\ cbk[j] \in Nat
    BY TypeFacts
  <1>e. \A j \in Index : j # Empty
    BY <1>t DEF Empty
  <1>0. /\ p_write - p_finish <= Conc
        /\ pc \in {"loop", "params", "poll"} /\ i < p_ready /\ i \notin finished
        /\ finished' = finished \cup {i}
        /\ pipeline' = [pipeline EXCEPT ![Slot(i)] = Empty]
        /\ UNCHANGED <<pc, p_write, p_ready, wc, xfers, cbk, stream, cnt_pending>>
    BY DEF Epilogue, WindowFits, dataVars
  <1>1. p_finish <= i
    BY <1>0, <1>t DEF FinishIsOldest
  <1>2. \/ i = p_finish /\ NextFinish(i, pipeline', p_finish')
        \/ i # p_finish /\ p_finish' = p_finish
    BY DEF Epilogue
  <1>3. p_finish' \in p_finish..p_ready /\ p_finish' \in Nat
    BY <1>0, <1>t, <1>2 DEF NextFinish
  <1>4. pipeline' \in [0..(Conc - 1) -> Index \cup {Empty}]
        /\ \A j \in Index : pipeline'[Slot(j)] = IF Slot(j) = Slot(i) THEN Empty
                                                 ELSE pipeline[Slot(j)]
    <2>1. /\ pipeline \in [0..(Conc - 1) -> Index \cup {Empty}]
          /\ \A j \in Index : Slot(j) \in 0..(Conc - 1)
      BY <1>t, SlotType DEF TypeOK
    <2> QED BY <2>1, <1>0
  <1>5. \A j \in Index :
           p_finish <= j /\ (j < p_write \/ (j = p_write /\ pc = "params")) /\ j # i
               => Slot(j) # Slot(i)
    <2> SUFFICES ASSUME NEW j \in Index, p_finish <= j, j # i,
                        j < p_write \/ (j = p_write /\ pc = "params")
                 PROVE  Slot(j) # Slot(i)
      OBVIOUS
    <2>0. pc = "params" => p_write - p_finish < Conc
      BY DEF WindowFits
    <2>1. i - p_finish < Conc /\ j - p_finish < Conc /\ i \in Nat /\ j \in Nat
      BY <1>0, <1>t, <2>0
    <2> QED BY <2>1, <1>t, <1>1, WindowSlots
  <1>6. TypeOK'
    <2>1. p_finish' \in 0..p_ready
      BY <1>3, <1>t
    <2>2. cnt_ready' \in Int
      BY DEF Epilogue, TypeOK
    <2> QED BY <2>1, <2>2, <1>0, <1>4 DEF TypeOK
  <1>7. WindowFits'
    <2>1. /\ pc = "loop" => p_write - p_finish < Conc /\ p_write - p_ready < (1 + Conc) \div 2
          /\ pc = "params" => p_write < MaxTasks /\ p_write - p_finish < Conc
      BY DEF WindowFits, Accept
    <2>2. p_write \in Nat /\ p_finish \in Nat /\ p_finish' \in Nat /\ Conc \in Nat
      BY <1>t, <1>3
    <2>4. p_finish <= p_finish'
      BY <1>t, <1>3
    <2>5. p_write - p_finish <= Conc
      BY <1>0
    <2> DEFINE w == p_write
               f == p_finish
               g == p_finish'
    <2>6. w \in Nat /\ f \in Nat /\ g \in Nat /\ f <= g /\ w - f <= Conc
          /\ (pc \in {"loop", "params"} => w - f < Conc)
      BY <2>1, <2>2, <2>4, <2>5
    <2> HIDE DEF w, f, g
    <2>7. w - g <= Conc /\ (pc \in {"loop", "params"} => w - g < Conc)
      BY <2>6, <2>2
    <2>3. p_write - p_finish' <= Conc
          /\ (pc \in {"loop", "params"} => p_write - p_finish' < Conc)
      BY <2>7 DEF w, g
    <2> QED BY <2>1, <2>3, <1>0 DEF WindowFits, Accept
  <1>8. WcExact' /\ KernelsInOrder' /\ LeaderNotForgotten'
    BY <1>0 DEF WcExact, Held, KernelsInOrder, LeaderNotForgotten
  <1>9. SlotKeptUntilFinished'
    <2> SUFFICES ASSUME NEW j \in Index, j \notin finished',
                        j < p_write \/ (j = p_write /\ pc = "params")
                 PROVE  pipeline'[Slot(j)] = j
      BY <1>0 DEF SlotKeptUntilFinished
    <2>1. p_finish <= j /\ j # i /\ j \notin finished
      BY <1>0, <1>t DEF FinishIsOldest
    <2>2. pipeline[Slot(j)] = j
      BY <2>1 DEF SlotKeptUntilFinished
    <2> QED BY <2>1, <2>2, <1>4, <1>5
  <1>10. SlotFreed'
    <2> SUFFICES ASSUME NEW j \in finished'
                 PROVE  j < p_ready' /\ (j >= p_finish' => pipeline'[Slot(j)] = Empty)
      BY DEF SlotFreed
    <2>1. CASE j = i
      BY <2>1, <1>0, <1>4
    <2>2. CASE j \in finished
      <3>1. j \in Index /\ j < p_ready /\ (j >= p_finish => pipeline[Slot(j)] = Empty)
        BY <2>2 DEF SlotFreed, TypeOK
      <3> QED BY <3>1, <1>0, <1>t, <1>3, <1>4
    <2> QED BY <2>1, <2>2, <1>0
  <1>11. FinishIsOldest'
    <2>1. ASSUME NEW j \in Index, j < p_finish' PROVE j \in finished'
      <3>1. CASE j < p_finish
        BY <3>1, <1>0 DEF FinishIsOldest
      <3>2. CASE j = i
        BY <3>2, <1>0
      <3>3. CASE j > p_finish /\ j # i
        <4>1. i = p_finish /\ NextFinish(i, pipeline', p_finish')
          BY <3>3, <2>1, <1>t, <1>2
        <4>2. pipeline'[Slot(j)] = Empty
          <5>1. j \in (i + 1)..(p_finish' - 1)
            BY <4>1, <3>3, <2>1, <1>t, <1>3
          <5> QED BY <4>1, <5>1 DEF NextFinish
        <4>3. j < p_write
          BY <2>1, <1>t, <1>3
        <4> QED BY <4>2, <4>3, <1>e, <1>0, <1>9 DEF SlotKeptUntilFinished
      <3> QED BY <3>1, <3>2, <3>3, <1>t, <1>1, <1>2, <2>1
    <2>2. ASSUME p_finish' < p_ready' PROVE p_finish' \notin finished'
      <3>1. CASE i = p_finish
        <4>1. pipeline'[Slot(p_finish')] # Empty /\ p_finish' \in Index
          BY <3>1, <2>2, <1>0, <1>t, <1>2, <1>3 DEF NextFinish
        <4> QED BY <4>1, <1>10, <1>t, <1>3 DEF SlotFreed
      <3>2. CASE i # p_finish
        BY <3>2, <2>2, <1>0, <1>2 DEF FinishIsOldest
      <3> QED BY <3>1, <3>2
    <2> QED BY <2>1, <2>2 DEF FinishIsOldest
  <1> QED BY <1>6, <1>7, <1>8, <1>9, <1>10, <1>11

\* A callback decrements outside of pipe_lock, and then owes a visit to it.
LEMMA DecrWcInv ==
    ASSUME PipelineInv, NEW i \in Index, DecrWc(i) PROVE PipelineInv'
  <1> USE DEF PipelineInv
  <1>0. /\ xfers[i] > 0
        /\ xfers' = [xfers EXCEPT ![i] = xfers[i] - 1]
        /\ wc' = [wc EXCEPT ![i] = wc[i] - 1]
        /\ cbk' = [cbk EXCEPT ![i] = cbk[i] + 1]
        /\ UNCHANGED <<pc, p_write, p_ready, p_finish, pipeline, stream, finished>>
    BY DEF DecrWc, indexVars
  <1>c. cnt_ready' \in Int /\ cnt_pending' \in Int
    BY DEF DecrWc, TypeOK
  <1>t. /\ p_write \in Nat /\ p_ready \in Nat
        /\ \A j \in Index : j \in Nat
        /\ \A j \in Index : wc[j] \in Nat /\ xfers[j] \in Nat /\ cbk[j] \in Nat
    BY TypeFacts
  <1>h. wc[i] = xfers[i] + Held(i) /\ Held(i) \in Nat
    BY DEF WcExact, Held
  <1>u. /\ wc' \in [Index -> Nat] /\ xfers' \in [Index -> Nat] /\ cbk' \in [Index -> Nat]
        /\ \A j \in Index :
              /\ wc'[j] = IF j = i THEN wc[i] - 1 ELSE wc[j]
              /\ xfers'[j] = IF j = i THEN xfers[i] - 1 ELSE xfers[j]
              /\ cbk'[j] = IF j = i THEN cbk[i] + 1 ELSE cbk[j]
    <2>1. wc \in [Index -> Nat] /\ xfers \in [Index -> Nat] /\ cbk \in [Index -> Nat]
      BY DEF TypeOK
    <2>2. wc[i] - 1 \in Nat /\ xfers[i] - 1 \in Nat /\ cbk[i] + 1 \in Nat
      BY <1>t, <1>h, <1>0
    <2> QED BY <2>1, <2>2, <1>0, CounterUpdate
  <1>1. TypeOK'
    BY <1>0, <1>c, <1>u DEF TypeOK
  <1>2. WindowFits'
    BY <1>0 DEF WindowFits, Accept
  <1>3. WcExact'
    <2>1. \A j \in Index : Held(j)' = Held(j)
      BY <1>0 DEF Held
    <2>2. \A j \in Index : wc'[j] = xfers'[j] + Held(j)'
      BY <2>1, <1>h, <1>t, <1>u DEF WcExact
    <2>3. ~(i > p_write \/ (i = p_write /\ pc # "params"))
      BY <1>0, <1>t DEF WcExact
    <2> QED BY <2>2, <2>3, <1>0, <1>u DEF WcExact
  <1>4. KernelsInOrder'
    <2>1. ~(i < p_ready)
      BY <1>0 DEF KernelsInOrder
    <2> QED BY <2>1, <1>0, <1>u DEF KernelsInOrder
  <1>5. LeaderNotForgotten'
    <2> SUFFICES ASSUME p_ready < p_write, wc'[p_ready] = 0 PROVE cbk'[p_ready] > 0
      BY <1>0 DEF LeaderNotForgotten
    <2>1. p_ready \in Index
      BY TypeFacts
    <2> QED BY <2>1, <1>t, <1>u DEF LeaderNotForgotten
  <1>6. SlotKeptUntilFinished' /\ SlotFreed' /\ FinishIsOldest'
    BY <1>0 DEF SlotKeptUntilFinished, SlotFreed, FinishIsOldest
  <1> QED BY <1>1, <1>2, <1>3, <1>4, <1>5, <1>6

\* What a run of kernels adds to the stream.
LEMMA StreamExtended ==
    ASSUME NEW i \in Nat, NEW k \in Nat, i <= k, k <= MaxTasks,
           stream \in Seq(Index), Len(stream) = i,
           \A n \in 1..i : stream[n] = n - 1
    PROVE  LET s == stream \o Kernels(i, k)
           IN  s \in Seq(Index) /\ Len(s) = k /\ \A n \in 1..k : s[n] = n - 1
  <1> USE PipelineAssumption
  <1> DEFINE q == Kernels(i, k)
  <1>1. \A n \in 1..(k - i) : i + n - 1 \in Index
    BY DEF Index
  <1>2. q \in Seq(Index) /\ Len(q) = k - i /\ \A n \in 1..(k - i) : q[n] = i + n - 1
    BY <1>1 DEF Kernels
  <1> HIDE DEF q
  <1>3. stream \o q \in Seq(Index) /\ Len(stream \o q) = k
    BY <1>2
  <1>4. \A n \in 1..k : (stream \o q)[n] = n - 1
    BY <1>2
  <1> QED BY <1>3, <1>4 DEF q

\* Under pipe_lock the callback inserts every task that became the leader with
\* all its data, and stops at one that is still held or waits.
LEMMA SetValidInv ==
    ASSUME PipelineInv, NEW i \in Index, SetValid(i) PROVE PipelineInv'
  <1> USE DEF PipelineInv
  <1>t. /\ Conc \in Nat \ {0} /\ MaxTasks \in Nat
        /\ p_write \in Nat /\ p_ready \in Nat /\ p_finish \in Nat
        /\ p_finish <= p_ready /\ p_ready <= p_write /\ p_write <= MaxTasks
        /\ \A j \in Index : j \in Nat /\ j < MaxTasks
        /\ \A j \in Nat : j < MaxTasks => j \in Index
        /\ \A j \in Index : wc[j] \in Nat /\ xfers[j] \in Nat /\ cbk[j] \in Nat
    BY TypeFacts
  <1>0. /\ cbk[i] > 0 /\ cbk' = [cbk EXCEPT ![i] = @ - 1] /\ cbk \in [Index -> Nat]
        /\ UNCHANGED <<pc, p_write, p_finish, pipeline, wc, xfers, finished,
                       cnt_pending, cnt_ready>>
    BY DEF SetValid, TypeOK
  <1>1. \/ i # p_ready /\ UNCHANGED <<p_ready, stream>>
        \/ /\ i = p_ready /\ NextReady(i, p_ready')
           /\ stream' = stream \o Kernels(i, p_ready')
    BY DEF SetValid
  <1>2. p_ready' \in p_ready..p_write /\ p_ready' \in Nat
    BY <1>t, <1>1 DEF NextReady
  <1>3. \A j \in Index : p_ready <= j /\ j < p_write => pipeline[Slot(j)] = j
    BY <1>t DEF SlotKeptUntilFinished, SlotFreed
  <1>4. \A j \in Index : p_ready <= j /\ j < p_ready' => wc[j] = 0
    <2> SUFFICES ASSUME NEW j \in Index, p_ready <= j, j < p_ready' PROVE wc[j] = 0
      OBVIOUS
    <2>1. i = p_ready /\ NextReady(i, p_ready')
      BY <1>t, <1>1
    <2>2. j \in i..(p_ready' - 1) /\ j < p_write
      BY <2>1, <1>t, <1>2
    <2> QED BY <2>1, <2>2, <1>3 DEF NextReady
  <1>5. (i = p_ready /\ p_ready' < p_write) => wc[p_ready'] # 0
    BY <1>t, <1>1, <1>2, <1>3 DEF NextReady
  <1>6. stream' \in Seq(Index) /\ Len(stream') = p_ready'
        /\ \A n \in 1..p_ready' : stream'[n] = n - 1
    <2>1. stream \in Seq(Index) /\ Len(stream) = p_ready
          /\ \A n \in 1..p_ready : stream[n] = n - 1
      BY DEF TypeOK, KernelsInOrder
    <2>2. CASE i # p_ready
      BY <2>1, <2>2, <1>1
    <2>3. CASE i = p_ready
      <3>1. i \in Nat /\ p_ready' \in Nat /\ i <= p_ready' /\ p_ready' <= MaxTasks
        BY <2>3, <1>t, <1>2
      <3>2. Len(stream) = i /\ \A n \in 1..i : stream[n] = n - 1
        BY <2>1, <2>3
      <3>3. LET s == stream \o Kernels(i, p_ready')
            IN  s \in Seq(Index) /\ Len(s) = p_ready' /\ \A n \in 1..p_ready' : s[n] = n - 1
        BY <2>1, <3>1, <3>2, StreamExtended
      <3> QED BY <2>3, <3>3, <1>1
    <2> QED BY <2>2, <2>3
  <1>u. cbk' \in [Index -> Nat] /\ \A j \in Index : j # i => cbk'[j] = cbk[j]
    <2>1. cbk[i] - 1 \in Nat
      BY <1>0, <1>t
    <2> QED BY <2>1, <1>0, CounterUpdate
  <1>7. TypeOK'
    <2>1. p_ready' \in 0..p_write /\ p_finish \in 0..p_ready'
      BY <1>t, <1>2
    <2> QED BY <2>1, <1>0, <1>6, <1>u DEF TypeOK
  <1>8. WindowFits'
    <2>1. pc = "publish" => p_ready' < p_write
      <3> SUFFICES ASSUME pc = "publish", p_ready' = p_write PROVE FALSE
        BY <1>t, <1>2
      <3>1. p_write - 1 \in Index /\ p_ready <= p_write - 1
        BY <1>t DEF WindowFits
      <3>2. wc[p_write - 1] # 0
        BY <3>1, <1>t DEF WcExact, Held
      <3> QED BY <3>1, <3>2, <1>4, <1>t
    <2>2. pc = "loop" => p_write - p_finish < Conc /\ p_write - p_ready < (1 + Conc) \div 2
      BY DEF WindowFits, Accept
    <2>3. pc = "loop" => p_write - p_ready' < (1 + Conc) \div 2
      <3> DEFINE half == (1 + Conc) \div 2
      <3>1. half \in Int
        BY <1>t
      <3>2. pc = "loop" => p_write - p_ready < half
        BY <2>2
      <3> DEFINE w == p_write
                 r == p_ready
                 q == p_ready'
      <3> HIDE DEF half
      <3>3. p_write \in Nat /\ p_ready \in Nat /\ p_ready' \in Nat
        BY <1>t, <1>2
      <3>4. p_ready <= p_ready'
        BY <1>t, <1>2
      <3>5. w \in Nat /\ r \in Nat /\ q \in Nat /\ r <= q /\ (pc = "loop" => w - r < half)
        BY <3>2, <3>3, <3>4
      <3> HIDE DEF w, r, q
      <3>6. pc = "loop" => w - q < half
        BY <3>1, <3>5
      <3> QED BY <3>6 DEF half, w, q
    <2> QED BY <2>1, <2>2, <2>3, <1>0 DEF WindowFits, Accept
  <1>9. WcExact'
    <2>1. \A j \in Index : Held(j)' = Held(j)
      BY <1>0 DEF Held
    <2>2. ~(i > p_write \/ (i = p_write /\ pc # "params"))
      BY <1>0, <1>t DEF WcExact
    <2> QED BY <2>1, <2>2, <1>0, <1>u DEF WcExact
  <1>10. KernelsInOrder'
    <2>1. ASSUME NEW j \in Index, j < p_ready' PROVE wc'[j] = 0 /\ xfers'[j] = 0
      <3>1. wc[j] = 0
        BY <2>1, <1>t, <1>4 DEF KernelsInOrder
      <3> QED BY <3>1, <1>0, <1>t DEF WcExact, Held
    <2> QED BY <2>1, <1>6 DEF KernelsInOrder
  <1>11. LeaderNotForgotten'
    <2>1. CASE i = p_ready
      BY <2>1, <1>0, <1>5 DEF LeaderNotForgotten
    <2>2. CASE i # p_ready
      BY <2>2, <1>0, <1>t, <1>1, <1>u DEF LeaderNotForgotten
    <2> QED BY <2>1, <2>2
  <1>12. SlotKeptUntilFinished' /\ SlotFreed'
    <2>1. \A j \in finished : j \in Nat
      BY <1>t DEF TypeOK
    <2> QED BY <2>1, <1>0, <1>t, <1>2 DEF SlotKeptUntilFinished, SlotFreed
  <1>13. FinishIsOldest'
    BY <1>0, <1>t, <1>2 DEF FinishIsOldest, SlotFreed
  <1> QED BY <1>7, <1>8, <1>9, <1>10, <1>11, <1>12, <1>13

\* A stuttering step keeps PipelineInv.
LEMMA StutterInv == PipelineInv /\ UNCHANGED vars => PipelineInv'
  BY DEF PipelineInv, vars, indexVars, dataVars, TypeOK, WindowFits, Accept, WcExact,
         Held, KernelsInOrder, LeaderNotForgotten, SlotKeptUntilFinished,
         SlotFreed, FinishIsOldest

\* Every step keeps PipelineInv.
LEMMA PipelineStepKeeps == PipelineInv /\ [Next]_vars => PipelineInv'
  BY PrepareInv, AcquireInv, PublishInv, EndPrepareInv, EndPollInv, EpilogueInv,
     DecrWcInv, SetValidInv, StutterInv DEF Next, Device, Done

\* The positions, slots and counters of the pipeline stay consistent for every
\* buffer size, whichever threads run callback_set_valid.
THEOREM PipelineInvHolds == Spec => []PipelineInv
  BY PipelineStepKeeps, InitInv, PTL DEF Spec

\* Kernels are inserted once each, in pipeline order, with their data valid.
THEOREM KernelsInOrderHolds == Spec => []KernelsInOrder
  <1>1. PipelineInv => KernelsInOrder
    BY DEF PipelineInv
  <1> QED BY <1>1, PipelineInvHolds, PTL

\* No task with valid data is left behind by the decrement outside of the lock.
THEOREM LeaderNotForgottenHolds == Spec => []LeaderNotForgotten
  <1>1. PipelineInv => LeaderNotForgotten
    BY DEF PipelineInv
  <1> QED BY <1>1, PipelineInvHolds, PTL

\* No task loses its slot before its epilogue, MEMSYNC requests included.
THEOREM SlotKeptHolds == Spec => []SlotKeptUntilFinished
  <1>1. PipelineInv => SlotKeptUntilFinished
    BY DEF PipelineInv
  <1> QED BY <1>1, PipelineInvHolds, PTL

\* p_finish is the oldest task that has not finished.
THEOREM FinishIsOldestHolds == Spec => []FinishIsOldest
  <1>1. PipelineInv => FinishIsOldest
    BY DEF PipelineInv
  <1> QED BY <1>1, PipelineInvHolds, PTL

\* Every field of the pipeline keeps its type and its positions stay ordered,
\* whatever tasks enter and in whatever order their transfers and kernels end.
THEOREM PipelineTypeCorrect == Spec => []TypeOK
  <1>1. PipelineInv => TypeOK
    BY DEF PipelineInv
  <1> QED BY <1>1, PipelineInvHolds, PTL

-----------------------------------------------------------------------------
(* HostRegister.                                                           *)

-----------------------------------------------------------------------------
(* The slots of the ring.                                                  *)

\* Two multiples of a positive number that are not equal are at least that
\* number apart.
LEMMA RegisterMultiplesApart ==
    ASSUME NEW P \in Nat \ {0}, NEW d \in Int, NEW e \in Int,
           P * d - P * e < P, P * d - P * e > 0
    PROVE  FALSE
  <1>1. P * (d - e) < P /\ P * (d - e) > 0
    OBVIOUS
  <1>2. CASE d - e <= 0
    <2>1. P * (d - e) <= 0
      BY <1>2
    <2> QED BY <1>1, <2>1
  <1>3. CASE d - e >= 1
    <2>1. P * (d - e) >= P
      BY <1>3
    <2> QED BY <1>1, <2>1
  <1> QED BY <1>2, <1>3

\* A new request does not take the slot of one that is not done.
LEMMA RegisterNewSlotFree ==
    ASSUME RegSize \in Nat \ {0}, NEW i \in Nat, NEW j \in Nat, i < j, j - i < RegSize
    PROVE  Reg!Slot(i) # Reg!Slot(j)
  <1> SUFFICES ASSUME i % RegSize = j % RegSize PROVE FALSE
    BY DEF Reg!Slot
  <1> DEFINE d == j \div RegSize
             e == i \div RegSize
             r == i % RegSize
  <1>1. i = RegSize * e + r /\ e \in Int /\ r \in Int
    OBVIOUS
  <1>2. j = RegSize * d + r /\ d \in Int
    OBVIOUS
  <1> HIDE DEF d, e, r
  <1>3. RegSize * d - RegSize * e < RegSize /\ RegSize * d - RegSize * e > 0
    BY <1>1, <1>2
  <1> QED BY <1>1, <1>2, <1>3, RegisterMultiplesApart

\* A request has a slot of the ring.
LEMMA RegisterSlotType ==
    ASSUME RegSize \in Nat \ {0}, NEW i \in Nat
    PROVE  Reg!Slot(i) \in 0..(RegSize - 1)
  BY DEF Reg!Slot

-----------------------------------------------------------------------------
(* The history.                                                            *)

\* Everything before posr has been performed.
LEMMA RegisterBeforePosr ==
    ASSUME Reg!RegisterInv, NEW h \in 0..(posr - 1)
    PROVE  h \in Reg!Performed
  <1>1. h + 1 \in 1..Len(performed) /\ performed[h + 1] = h
    BY DEF Reg!RegisterInv, Reg!RegisterSound, Reg!TypeOK, Reg!DaemonAtOldest, Reg!PerformedInOrder
  <1> QED BY <1>1 DEF Reg!Performed

\* What the answer of a wait for requests before posr says.
LEMMA RegisterAnswerRight ==
    ASSUME Reg!RegisterInv, NEW hs, hs \subseteq 0..(posr - 1)
    PROVE  Reg!Returns("wait", hs).done
  BY RegisterBeforePosr DEF Reg!Returns

\* The positions of the ring and the history are the same after the step, and
\* each slot keeps its request.
LEMMA RegisterRingKept ==
    ASSUME RegSize \in Nat \ {0}, Reg!RegisterInv, UNCHANGED <<posw, posr, performed>>,
           \A s \in 0..(RegSize - 1) : req'[s].h = req[s].h
    PROVE  Reg!PerformedInOrder'
  <1>1. \A h \in posr..(posw - 1) : h \in Nat /\ Reg!Slot(h) \in 0..(RegSize - 1)
    BY RegisterSlotType DEF Reg!RegisterInv, Reg!TypeOK
  <1>2. \A h \in posr..(posw - 1) : req'[Reg!Slot(h)].h = h
    BY <1>1 DEF Reg!RegisterInv, Reg!RegisterSound, Reg!PerformedInOrder
  <1>3. \A i \in 1..Len(performed) : performed[i] = i - 1
    BY DEF Reg!RegisterInv, Reg!RegisterSound, Reg!PerformedInOrder
  <1> QED BY <1>2, <1>3 DEF Reg!PerformedInOrder, Reg!Slot

\* A request whose state changes keeps its handle.
LEMMA RegisterStateChange ==
    ASSUME NEW s \in 0..(RegSize - 1), NEW st \in {"INIT", "POST", "WAIT", "DONE"},
           req \in [0..(RegSize - 1) -> Reg!RequestState],
           req' = [req EXCEPT ![s].state = st]
    PROVE  /\ req' \in [0..(RegSize - 1) -> Reg!RequestState]
           /\ \A t \in 0..(RegSize - 1) : req'[t].h = req[t].h
  <1>1. [req[s] EXCEPT !.state = st] \in Reg!RequestState
        /\ [req[s] EXCEPT !.state = st].h = req[s].h
    BY DEF Reg!RequestState
  <1>2. req' = [req EXCEPT ![s] = [req[s] EXCEPT !.state = st]]
    OBVIOUS
  <1> QED BY <1>1, <1>2

\* A client that goes to a state in which it is not awake.
LEMMA RegisterClientMoves ==
    ASSUME Reg!RegisterInv, posr' = posr, NEW c \in RegClients,
           NEW s \in Reg!ClientState, s.op # "awake", client' = [client EXCEPT ![c] = s]
    PROVE  client' \in [RegClients -> Reg!ClientState] /\ Reg!AwakeIsDone'
  <1>1. client' \in [RegClients -> Reg!ClientState]
    BY DEF Reg!RegisterInv, Reg!TypeOK
  <1>2. \A d \in RegClients : client'[d] = IF d = c THEN s ELSE client[d]
    BY DEF Reg!RegisterInv, Reg!TypeOK
  <1> QED BY <1>1, <1>2 DEF Reg!RegisterInv, Reg!AwakeIsDone

-----------------------------------------------------------------------------
(* Every step keeps the invariant.                                         *)

\* At the start no request is posted.
LEMMA RegisterInitRight ==
    ASSUME RegSize \in Nat \ {0}, Reg!Init
    PROVE  Reg!RegisterInv
  <1>1. Reg!TypeOK /\ Reg!DaemonAtOldest /\ Reg!AwakeIsDone
    <2>1. Reg!Idle \in Reg!ClientState /\ Reg!Idle.op # "awake"
      BY DEF Reg!Idle, Reg!ClientState
    <2>2. client \in [RegClients -> Reg!ClientState] /\ Reg!AwakeIsDone
      BY <2>1 DEF Reg!Init, Reg!AwakeIsDone
    <2>3. req \in [0..(RegSize - 1) -> Reg!RequestState]
      BY DEF Reg!Init, Reg!RequestState
    <2>4. performed \in Seq(Nat) /\ Len(performed) = 0
      BY DEF Reg!Init
    <2> QED BY <2>2, <2>3, <2>4 DEF Reg!Init, Reg!TypeOK, Reg!DaemonAtOldest
  <1>2. Reg!PerformedInOrder
    <2>1. performed = <<>> /\ posr = 0 /\ posw = 0
      BY DEF Reg!Init
    <2>2. 1..Len(performed) = {} /\ posr..(posw - 1) = {}
      BY <2>1
    <2> QED BY <2>2 DEF Reg!PerformedInOrder
  <1>3. Reg!WaitMeansPerformed
    <2>1. answer = Reg!Returns("wait", {})
      BY DEF Reg!Init
    <2> QED BY <2>1 DEF Reg!WaitMeansPerformed, Reg!Returns, Reg!Performed
  <1> QED BY <1>1, <1>2, <1>3 DEF Reg!RegisterInv, Reg!RegisterSound

\* post_request takes a slot whose request is over.
LEMMA RegisterPostKeeps ==
    ASSUME RegSize \in Nat \ {0}, Reg!RegisterInv, NEW c \in RegClients, Reg!PostRequest(c)
    PROVE  Reg!RegisterInv'
  <1>1. CASE Reg!Full
    <2>1. UNCHANGED <<plugin_initialized, posw, posr, req, daemon, exec, performed,
                      locked, blocked, answer, final>>
      BY <1>1 DEF Reg!PostRequest
    <2>2. Reg!TypeOK' /\ Reg!AwakeIsDone'
      <3>1. client' = [client EXCEPT ![c] = [op |-> "post", h |-> Reg!NoHandle]]
        BY <1>1 DEF Reg!PostRequest
      <3>2. [op |-> "post", h |-> Reg!NoHandle] \in Reg!ClientState
        BY DEF Reg!ClientState
      <3> QED BY <2>1, <3>1, <3>2, RegisterClientMoves DEF Reg!RegisterInv, Reg!TypeOK
    <2>3. Reg!DaemonAtOldest' /\ Reg!WaitMeansPerformed'
      BY <2>1 DEF Reg!RegisterInv, Reg!RegisterSound, Reg!DaemonAtOldest, Reg!WaitMeansPerformed
    <2>4. Reg!PerformedInOrder'
      BY <2>1, RegisterRingKept
    <2> QED BY <2>2, <2>3, <2>4 DEF Reg!RegisterInv, Reg!RegisterSound
  <1>2. CASE ~Reg!Full
    <2> DEFINE s == Reg!Slot(posw)
    <2>0. posw \in Nat /\ posr \in 0..posw /\ posw - posr < RegSize
      BY <1>2 DEF Reg!RegisterInv, Reg!TypeOK, Reg!Full
    <2>1. s \in 0..(RegSize - 1)
      BY <2>0, RegisterSlotType
    <2>2. /\ req' = [req EXCEPT ![s] = [state |-> "POST", h |-> posw]]
          /\ posw' = posw + 1 /\ client' = [client EXCEPT ![c] = Reg!Idle]
          /\ daemon' = IF daemon = "waiting" THEN "loop" ELSE daemon
          /\ UNCHANGED <<plugin_initialized, posr, exec, performed, locked, blocked,
                         answer, final>>
      BY <1>2 DEF Reg!PostRequest
    <2>3. \A h \in posr..(posw - 1) : h \in Nat /\ Reg!Slot(h) \in 0..(RegSize - 1) /\ Reg!Slot(h) # s
      BY <2>0, RegisterSlotType, RegisterNewSlotFree
    <2> HIDE DEF s
    <2>4. Reg!TypeOK' /\ Reg!AwakeIsDone'
      <3>1. Reg!Idle \in Reg!ClientState /\ Reg!Idle.op # "awake"
        BY DEF Reg!ClientState, Reg!Idle
      <3>2. client' \in [RegClients -> Reg!ClientState] /\ Reg!AwakeIsDone'
        BY <2>2, <3>1, RegisterClientMoves
      <3> QED BY <2>0, <2>1, <2>2, <3>2 DEF Reg!RegisterInv, Reg!TypeOK, Reg!RequestState
    <2>5. Reg!DaemonAtOldest' /\ Reg!WaitMeansPerformed'
      BY <2>0, <2>2 DEF Reg!RegisterInv, Reg!RegisterSound, Reg!DaemonAtOldest, Reg!WaitMeansPerformed, Reg!TypeOK
    <2>6. Reg!PerformedInOrder'
      <3>1. \A h \in posr..(posw - 1) : req'[Reg!Slot(h)].h = h
        BY <2>1, <2>2, <2>3 DEF Reg!RegisterInv, Reg!RegisterSound, Reg!PerformedInOrder, Reg!TypeOK
      <3>2. req'[s].h = posw /\ s = Reg!Slot(posw)
        BY <2>1, <2>2 DEF Reg!RegisterInv, Reg!TypeOK, Reg!RequestState, s
      <3>3. \A h \in posr..posw : req'[Reg!Slot(h)].h = h
        BY <2>0, <3>1, <3>2
      <3> QED BY <2>0, <2>2, <3>3 DEF Reg!RegisterInv, Reg!RegisterSound, Reg!PerformedInOrder, Reg!Slot
    <2> QED BY <2>4, <2>5, <2>6 DEF Reg!RegisterInv, Reg!RegisterSound
  <1> QED BY <1>1, <1>2

\* Test, the end of a wait, and the calls about all requests leave the ring and
\* the daemon alone.
LEMMA RegisterClientKeeps ==
    ASSUME RegSize \in Nat \ {0}, Reg!RegisterInv, NEW c \in RegClients,
           \/ Reg!EndWait(c) \/ Reg!SpuriousWakeUp(c) \/ Reg!WaitAll(c) \/ Reg!EndWaitAll(c)
           \/ \E h \in Reg!Handles : Reg!Test(c, h) \/ Reg!WaitOver(c, h)
    PROVE  Reg!RegisterInv'
  <1>1. UNCHANGED <<plugin_initialized, posw, posr, req, daemon, exec, performed, locked,
                    blocked, final>>
    BY DEF Reg!EndWait, Reg!SpuriousWakeUp, Reg!LeaveWait, Reg!WaitAll, Reg!EndWaitAll, Reg!Test,
           Reg!WaitOver
  <1>2. Reg!TypeOK' /\ Reg!AwakeIsDone'
    <2>1. /\ Reg!Idle \in Reg!ClientState /\ Reg!Idle.op # "awake"
          /\ Reg!All(posw) \in Reg!ClientState /\ Reg!All(posw).op # "awake"
      BY DEF Reg!ClientState, Reg!Idle, Reg!All, Reg!RegisterInv, Reg!TypeOK
    <2>2. \/ client' = client
          \/ client' = [client EXCEPT ![c] = Reg!Idle]
          \/ client' = [client EXCEPT ![c] = Reg!All(posw)]
      BY DEF Reg!EndWait, Reg!SpuriousWakeUp, Reg!LeaveWait, Reg!WaitAll, Reg!EndWaitAll, Reg!Test,
             Reg!WaitOver
    <2>3. client' \in [RegClients -> Reg!ClientState] /\ Reg!AwakeIsDone'
      BY <1>1, <2>1, <2>2, RegisterClientMoves DEF Reg!RegisterInv, Reg!TypeOK, Reg!AwakeIsDone
    <2> QED BY <1>1, <2>3 DEF Reg!RegisterInv, Reg!TypeOK
  <1>3. Reg!DaemonAtOldest'
    BY <1>1 DEF Reg!RegisterInv, Reg!DaemonAtOldest
  <1>4. Reg!PerformedInOrder'
    BY <1>1, RegisterRingKept
  <1>5. Reg!WaitMeansPerformed'
    <2>1. CASE Reg!EndWait(c)
      <3>1. {client[c].h} \subseteq 0..(posr - 1)
        BY <2>1 DEF Reg!EndWait, Reg!LeaveWait, Reg!RegisterInv, Reg!AwakeIsDone
      <3> QED BY <2>1, <3>1, RegisterAnswerRight DEF Reg!EndWait, Reg!LeaveWait, Reg!WaitMeansPerformed
    <2>2. CASE Reg!EndWaitAll(c)
      <3>1. 0..(client[c].h - 1) \subseteq 0..(posr - 1)
        <4>1. client[c].h \in Nat \cup {Reg!NoHandle} /\ posr \in Nat /\ posr >= client[c].h
          BY <2>2 DEF Reg!EndWaitAll, Reg!RegisterInv, Reg!TypeOK, Reg!ClientState
        <4> QED BY <4>1 DEF Reg!NoHandle
      <3> QED BY <2>2, <3>1, RegisterAnswerRight DEF Reg!EndWaitAll, Reg!WaitMeansPerformed
    <2>3. CASE Reg!WaitAll(c)
      BY <2>3 DEF Reg!WaitAll, Reg!RegisterInv, Reg!RegisterSound, Reg!WaitMeansPerformed
    <2>4. CASE \E h \in Reg!Handles : Reg!Test(c, h)
      BY <2>4 DEF Reg!Test, Reg!WaitMeansPerformed
    <2>5. CASE \E h \in Reg!Handles : Reg!WaitOver(c, h)
      <3>1. PICK h \in Reg!Handles : Reg!WaitOver(c, h)
        BY <2>5
      <3>2. {h} \subseteq 0..(posr - 1)
        BY <3>1 DEF Reg!WaitOver, Reg!Handles, Reg!RegisterInv, Reg!TypeOK
      <3> QED BY <3>1, <3>2, RegisterAnswerRight DEF Reg!WaitOver, Reg!WaitMeansPerformed
    <2>6. CASE Reg!SpuriousWakeUp(c)
      BY <2>6 DEF Reg!SpuriousWakeUp, Reg!LeaveWait, Reg!Returns, Reg!WaitMeansPerformed
    <2> QED BY <2>1, <2>2, <2>3, <2>4, <2>5, <2>6
  <1> QED BY <1>2, <1>3, <1>4, <1>5 DEF Reg!RegisterInv, Reg!RegisterSound

\* A client that begins to wait leaves the ring and the daemon alone.
LEMMA RegisterWaitKeeps ==
    ASSUME RegSize \in Nat \ {0}, Reg!RegisterInv, NEW c \in RegClients, NEW h \in Nat, Reg!Wait(c, h)
    PROVE  Reg!RegisterInv'
  <1>0. Reg!Slot(h) \in 0..(RegSize - 1)
    BY RegisterSlotType
  <1>1. UNCHANGED <<plugin_initialized, posw, posr, daemon, exec, performed, final>>
    BY DEF Reg!Wait
  <1>2. Reg!TypeOK' /\ Reg!AwakeIsDone' /\ \A s \in 0..(RegSize - 1) : req'[s].h = req[s].h
    <2>1. Reg!Sleeping(h) \in Reg!ClientState /\ Reg!Sleeping(h).op # "awake"
      BY DEF Reg!ClientState, Reg!Sleeping
    <2>2. client' = client \/ client' = [client EXCEPT ![c] = Reg!Sleeping(h)]
      BY DEF Reg!Wait
    <2>3. client' \in [RegClients -> Reg!ClientState] /\ Reg!AwakeIsDone'
      BY <1>1, <2>1, <2>2, RegisterClientMoves DEF Reg!RegisterInv, Reg!TypeOK, Reg!AwakeIsDone
    <2>4. req' = req \/ req' = [req EXCEPT ![Reg!Slot(h)].state = "WAIT"]
      BY DEF Reg!Wait
    <2>5. /\ \A s \in 0..(RegSize - 1) : req'[s].h = req[s].h
          /\ req' \in [0..(RegSize - 1) -> Reg!RequestState]
      BY <1>0, <2>4, RegisterStateChange DEF Reg!RegisterInv, Reg!TypeOK
    <2>6. locked' \subseteq 0..(RegSize - 1)
      BY <1>0 DEF Reg!Wait, Reg!RegisterInv, Reg!TypeOK
    <2>7. blocked' \in BOOLEAN
      BY DEF Reg!Wait, Reg!RegisterInv, Reg!TypeOK
    <2> QED BY <1>1, <2>3, <2>5, <2>6, <2>7 DEF Reg!RegisterInv, Reg!TypeOK
  <1>3. Reg!DaemonAtOldest'
    BY <1>1 DEF Reg!RegisterInv, Reg!DaemonAtOldest
  <1>4. Reg!PerformedInOrder'
    BY <1>1, <1>2, RegisterRingKept
  <1>5. Reg!WaitMeansPerformed'
    <2>1. answer' = answer \/ answer' = Reg!Returns("second", {h})
      BY DEF Reg!Wait
    <2> QED BY <2>1 DEF Reg!Returns, Reg!RegisterInv, Reg!RegisterSound, Reg!WaitMeansPerformed
  <1> QED BY <1>2, <1>3, <1>4, <1>5 DEF Reg!RegisterInv, Reg!RegisterSound

\* The daemon takes the oldest request.
LEMMA RegisterDaemonTestKeeps ==
    ASSUME RegSize \in Nat \ {0}, Reg!RegisterInv, Reg!DaemonTest \/ Reg!DaemonWait
    PROVE  Reg!RegisterInv'
  <1>1. UNCHANGED <<plugin_initialized, posw, posr, req, client, performed, locked, blocked,
                    answer, final>>
    BY DEF Reg!DaemonTest, Reg!DaemonWait
  <1>2. /\ daemon' \in {"loop", "towait", "waiting", "perform", "finish", "exit"}
        /\ exec' \in Nat \cup {Reg!NoHandle} /\ Reg!DaemonAtOldest'
    <2>1. CASE Reg!DaemonTest /\ posw > posr
      <3>1. daemon' = "perform" /\ exec' = req[Reg!Slot(posr)].h /\ daemon = "loop"
        BY <2>1 DEF Reg!DaemonTest, Reg!RegisterInv, Reg!TypeOK
      <3>2. req[Reg!Slot(posr)].h = posr
        BY <2>1 DEF Reg!RegisterInv, Reg!RegisterSound, Reg!PerformedInOrder, Reg!TypeOK
      <3> QED BY <1>1, <2>1, <3>1, <3>2 DEF Reg!RegisterInv, Reg!TypeOK, Reg!DaemonAtOldest
    <2>2. CASE Reg!DaemonTest /\ ~(posw > posr)
      <3>1. daemon' \in {"towait", "exit"} /\ exec' = Reg!NoHandle /\ daemon = "loop"
        BY <2>2 DEF Reg!DaemonTest, Reg!RegisterInv, Reg!TypeOK
      <3> QED BY <1>1, <3>1 DEF Reg!RegisterInv, Reg!TypeOK, Reg!DaemonAtOldest
    <2>3. CASE Reg!DaemonWait
      BY <1>1, <2>3 DEF Reg!DaemonWait, Reg!RegisterInv, Reg!TypeOK, Reg!DaemonAtOldest
    <2> QED BY <2>1, <2>2, <2>3
  <1>3. Reg!PerformedInOrder'
    BY <1>1, RegisterRingKept
  <1> QED BY <1>1, <1>2, <1>3
          DEF Reg!RegisterInv, Reg!RegisterSound, Reg!TypeOK, Reg!AwakeIsDone, Reg!WaitMeansPerformed

\* The daemon performs the request it has taken.
LEMMA RegisterPerformKeeps ==
    ASSUME RegSize \in Nat \ {0}, Reg!RegisterInv, Reg!Perform
    PROVE  Reg!RegisterInv'
  <1>1. /\ daemon = "perform" /\ daemon' = "finish" /\ performed' = Append(performed, exec)
        /\ UNCHANGED <<plugin_initialized, posw, posr, req, exec, client, locked, blocked,
                       answer, final>>
    BY DEF Reg!Perform
  <1>2. exec = posr /\ posr < posw /\ posr \in Nat /\ performed \in Seq(Nat)
        /\ Len(performed) = posr
    BY <1>1 DEF Reg!RegisterInv, Reg!TypeOK, Reg!DaemonAtOldest
  <1>3. Reg!TypeOK' /\ Reg!DaemonAtOldest' /\ Reg!AwakeIsDone' /\ Reg!WaitMeansPerformed'
    BY <1>1, <1>2 DEF Reg!RegisterInv, Reg!RegisterSound, Reg!TypeOK, Reg!DaemonAtOldest, Reg!AwakeIsDone,
                      Reg!WaitMeansPerformed
  <1>4. Reg!PerformedInOrder'
    <2>1. \A i \in 1..Len(performed) : performed[i] = i - 1
      BY DEF Reg!RegisterInv, Reg!RegisterSound, Reg!PerformedInOrder
    <2>2. \A i \in 1..Len(performed') : performed'[i] = i - 1
      BY <1>1, <1>2, <2>1
    <2>3. \A h \in posr..(posw - 1) : req[h % RegSize].h = h
      BY DEF Reg!RegisterInv, Reg!RegisterSound, Reg!PerformedInOrder, Reg!Slot
    <2>4. (\A h \in posr..(posw - 1) : req[h % RegSize].h = h)'
      BY <1>1, <2>3
    <2> QED BY <2>2, <2>4 DEF Reg!PerformedInOrder, Reg!Slot
  <1> QED BY <1>3, <1>4 DEF Reg!RegisterInv, Reg!RegisterSound

\* The daemon frees the slot of the request it has performed.
LEMMA RegisterFinishKeeps ==
    ASSUME RegSize \in Nat \ {0}, Reg!RegisterInv, Reg!Finish
    PROVE  Reg!RegisterInv'
  <1>1. /\ daemon = "finish" /\ daemon' = "loop" /\ posr' = posr + 1
        /\ req' = [req EXCEPT ![Reg!Slot(posr)].state = "DONE"]
        /\ UNCHANGED <<plugin_initialized, posw, exec, performed, locked, blocked, answer, final>>
    BY DEF Reg!Finish
  <1>2. exec = posr /\ posr < posw /\ posr \in Nat /\ posw \in Nat /\ Len(performed) = posr + 1
    BY <1>1 DEF Reg!RegisterInv, Reg!TypeOK, Reg!DaemonAtOldest
  <1>3. /\ client' \in [RegClients -> Reg!ClientState]
        /\ Reg!AwakeIsDone'
    <2>1. \A c \in RegClients : \/ client'[c] = client[c]
                             \/ (client[c] = Reg!Sleeping(exec) /\ client'[c] = Reg!Awake(exec))
      BY DEF Reg!Finish, Reg!SignalWaiter
    <2>2. Reg!Awake(exec) \in Reg!ClientState /\ Reg!Awake(exec).h = posr
      BY <1>2 DEF Reg!Awake, Reg!ClientState
    <2>3. client' = [c \in RegClients |-> client'[c]]
      BY DEF Reg!Finish, Reg!SignalWaiter
    <2>4. \A c \in RegClients : client'[c] \in Reg!ClientState
      BY <2>1, <2>2 DEF Reg!RegisterInv, Reg!TypeOK
    <2>5. client' \in [RegClients -> Reg!ClientState]
      BY <2>3, <2>4
    <2>6. Reg!AwakeIsDone'
      <3> SUFFICES ASSUME NEW c \in RegClients, client'[c].op = "awake"
                   PROVE  client'[c].h \in 0..posr
        BY <1>1, <1>2 DEF Reg!AwakeIsDone
      <3>1. CASE client'[c] = client[c]
        BY <1>2, <3>1 DEF Reg!RegisterInv, Reg!AwakeIsDone
      <3>2. CASE client'[c] = Reg!Awake(exec)
        BY <1>2, <2>2, <3>2
      <3> QED BY <2>1, <3>1, <3>2
    <2> QED BY <2>5, <2>6
  <1>4. Reg!Slot(posr) \in 0..(RegSize - 1)
    BY <1>2, RegisterSlotType
  <1>5. Reg!TypeOK' /\ \A s \in 0..(RegSize - 1) : req'[s].h = req[s].h
    <2>1. /\ req' \in [0..(RegSize - 1) -> Reg!RequestState]
          /\ \A s \in 0..(RegSize - 1) : req'[s].h = req[s].h
      BY <1>1, <1>4, RegisterStateChange DEF Reg!RegisterInv, Reg!TypeOK
    <2> QED BY <1>1, <1>2, <1>3, <2>1 DEF Reg!RegisterInv, Reg!TypeOK
  <1>6. Reg!DaemonAtOldest' /\ Reg!WaitMeansPerformed'
    BY <1>1, <1>2 DEF Reg!RegisterInv, Reg!RegisterSound, Reg!DaemonAtOldest, Reg!WaitMeansPerformed
  <1>7. Reg!PerformedInOrder'
    <2>1. \A h \in (posr + 1)..(posw - 1) : h \in posr..(posw - 1) /\ Reg!Slot(h) \in 0..(RegSize - 1)
      BY <1>2, RegisterSlotType
    <2>2. \A h \in (posr + 1)..(posw - 1) : req'[Reg!Slot(h)].h = h
      BY <1>5, <2>1 DEF Reg!RegisterInv, Reg!RegisterSound, Reg!PerformedInOrder
    <2> QED BY <1>1, <2>2 DEF Reg!RegisterInv, Reg!RegisterSound, Reg!PerformedInOrder, Reg!Slot
  <1> QED BY <1>3, <1>5, <1>6, <1>7 DEF Reg!RegisterInv, Reg!RegisterSound

\* The daemon that waits for a request lock changes nothing of the ring.
LEMMA RegisterBlockedKeeps ==
    ASSUME RegSize \in Nat \ {0}, Reg!RegisterInv, Reg!FinishBlocked
    PROVE  Reg!RegisterInv'
  <1>1. /\ UNCHANGED <<plugin_initialized, posw, posr, req, daemon, exec, client, performed,
                       locked, answer, final>>
        /\ blocked' = TRUE
    BY DEF Reg!FinishBlocked
  <1>2. Reg!PerformedInOrder'
    BY <1>1, RegisterRingKept
  <1> QED BY <1>1, <1>2
          DEF Reg!RegisterInv, Reg!RegisterSound, Reg!TypeOK, Reg!DaemonAtOldest, Reg!AwakeIsDone,
              Reg!WaitMeansPerformed

\* Finalize changes nothing of the ring.
LEMMA RegisterFinalizeKeeps ==
    ASSUME RegSize \in Nat \ {0}, Reg!RegisterInv, Reg!Finalize
    PROVE  Reg!RegisterInv'
  <1>1. UNCHANGED <<posw, posr, req, exec, client, performed, locked, blocked, answer>>
    BY DEF Reg!Finalize, Reg!FinalizeFlag, Reg!FinalizeSignal, Reg!FinalizeJoin
  <1>2. Reg!TypeOK'
    BY <1>1 DEF Reg!Finalize, Reg!FinalizeFlag, Reg!FinalizeSignal, Reg!FinalizeJoin, Reg!RegisterInv, Reg!TypeOK
  <1>3. Reg!DaemonAtOldest'
    BY <1>1 DEF Reg!Finalize, Reg!FinalizeFlag, Reg!FinalizeSignal, Reg!FinalizeJoin, Reg!RegisterInv,
                Reg!DaemonAtOldest
  <1>4. Reg!PerformedInOrder'
    BY <1>1, RegisterRingKept
  <1> QED BY <1>1, <1>2, <1>3, <1>4
          DEF Reg!RegisterInv, Reg!RegisterSound, Reg!AwakeIsDone, Reg!WaitMeansPerformed

\* Every step of the registration keeps its invariant.
LEMMA RegisterStepKeeps ==
    ASSUME RegSize \in Nat \ {0}, Reg!RegisterInv, [Reg!Next]_(Reg!vars)
    PROVE  Reg!RegisterInv'
  <1>1. CASE \E c \in RegClients : Reg!PostRequest(c)
    BY <1>1, RegisterPostKeeps
  <1>2. CASE \E c \in RegClients :
                  \/ Reg!EndWait(c) \/ Reg!SpuriousWakeUp(c) \/ Reg!WaitAll(c) \/ Reg!EndWaitAll(c)
                  \/ \E h \in Reg!Handles : Reg!Test(c, h) \/ Reg!WaitOver(c, h)
    BY <1>2, RegisterClientKeeps
  <1>3. CASE \E c \in RegClients : \E h \in Reg!Handles : Reg!Wait(c, h)
    <2>1. PICK c \in RegClients, h \in Reg!Handles : Reg!Wait(c, h)
      BY <1>3
    <2>2. h \in Nat
      BY <2>1 DEF Reg!Wait, Reg!Handles, Reg!RegisterInv, Reg!TypeOK
    <2> QED BY <2>1, <2>2, RegisterWaitKeeps
  <1>4. CASE Reg!Daemon
    BY <1>4, RegisterDaemonTestKeeps, RegisterPerformKeeps, RegisterFinishKeeps, RegisterBlockedKeeps
       DEF Reg!Daemon
  <1>5. CASE Reg!Finalize
    BY <1>5, RegisterFinalizeKeeps
  <1>6. CASE UNCHANGED Reg!vars
    <2>1. Reg!PerformedInOrder'
      BY <1>6, RegisterRingKept DEF Reg!vars
    <2> QED BY <1>6, <2>1
            DEF Reg!vars, Reg!RegisterInv, Reg!RegisterSound, Reg!TypeOK, Reg!DaemonAtOldest, Reg!AwakeIsDone,
                Reg!WaitMeansPerformed
  <1> QED BY <1>1, <1>2, <1>3, <1>4, <1>5, <1>6 DEF Reg!Next


-----------------------------------------------------------------------------
(* The composition: a step of the services is a step of each component or  *)
(* leaves its variables alone.                                             *)

\* A step of the composition is one of the pipeline or leaves it alone.
LEMMA PipelineSteps == [ServicesNext]_allVars => [Next]_vars
<1>1. ASSUME ServicesNext PROVE [Next]_vars
  <2>1. CASE PipelineNext
    BY <2>1, Zenon DEF PipelineNext, Next, Device
  <2>2. CASE CudaNext \/ OtherPluginsNext \/ RegisterNext \/ BarrierNext \/ TraceNext \/ LifeNext
    <3>1. \E c \in {"cuda", "hip", "host", "register", "barrier", "trace", "life"} : Only(c)
      BY <2>2, Zenon DEF CudaNext, OtherPluginsNext, RegisterNext, BarrierNext, TraceNext, LifeNext
    <3>2. UNCHANGED pipelineVars
      BY <3>1 DEF Only
    <3> QED BY <3>2 DEF pipelineVars
  <2> QED BY <1>1, <2>1, <2>2 DEF ServicesNext
<1>2. ASSUME UNCHANGED allVars PROVE UNCHANGED vars
  BY <1>2 DEF allVars, pipelineVars
<1> QED BY <1>1, <1>2

\* A step of the composition is one of the registration or leaves it alone.
LEMMA RegisterSteps == [ServicesNext]_allVars => [Reg!Next]_(Reg!vars)
<1>1. ASSUME ServicesNext PROVE [Reg!Next]_(Reg!vars)
  <2>1. CASE RegisterNext
    BY <2>1, Zenon DEF RegisterNext, Reg!Next, Reg!Daemon, Reg!Finalize
  <2>2. CASE PipelineNext \/ CudaNext \/ OtherPluginsNext \/ BarrierNext \/ TraceNext \/ LifeNext
    <3>1. \E c \in {"pipeline", "cuda", "hip", "host", "barrier", "trace", "life"} : Only(c)
      BY <2>2, Zenon DEF PipelineNext, CudaNext, OtherPluginsNext, BarrierNext, TraceNext, LifeNext
    <3>2. UNCHANGED registerVars
      BY <3>1 DEF Only
    <3> QED BY <3>2 DEF registerVars, Reg!vars
  <2> QED BY <1>1, <2>1, <2>2 DEF ServicesNext
<1>2. ASSUME UNCHANGED allVars PROVE UNCHANGED Reg!vars
  BY <1>2 DEF allVars, registerVars, Reg!vars
<1> QED BY <1>1, <1>2
\* A step of the composition is one of the barrier or leaves it alone.
LEMMA BarrierSteps == [ServicesNext]_allVars => [Bar!Next]_(Bar!vars)
<1>1. ASSUME ServicesNext PROVE [Bar!Next]_(Bar!vars)
  <2>1. CASE BarrierNext
    BY <2>1, Zenon DEF BarrierNext, Bar!Next, Bar!Step
  <2>2. CASE PipelineNext \/ CudaNext \/ OtherPluginsNext \/ RegisterNext \/ TraceNext \/ LifeNext
    <3>1. \E c \in {"pipeline", "cuda", "hip", "host", "register", "trace", "life"} : Only(c)
      BY <2>2, Zenon DEF PipelineNext, CudaNext, OtherPluginsNext, RegisterNext, TraceNext, LifeNext
    <3>2. UNCHANGED barrierVars
      BY <3>1 DEF Only
    <3> QED BY <3>2 DEF barrierVars, Bar!vars
  <2> QED BY <1>1, <2>1, <2>2 DEF ServicesNext
<1>2. ASSUME UNCHANGED allVars PROVE UNCHANGED Bar!vars
  BY <1>2 DEF allVars, barrierVars, Bar!vars
<1> QED BY <1>1, <1>2

-----------------------------------------------------------------------------
(* IoStream in the three plugins, through its own proofs.                  *)

CudaP == INSTANCE IoStreamProofs WITH Plugin <- "cuda", Device <- IoDevice,
            NS <- Plugins["cuda"].NS, Kern <- Plugins["cuda"].Kern,
            Count <- Plugins["cuda"].Count, ConcKernel <- Plugins["cuda"].ConcKernel,
            MaxOps <- Plugins["cuda"].MaxOps
HipP == INSTANCE IoStreamProofs WITH Plugin <- "hip", Device <- IoDevice,
            NS <- Plugins["hip"].NS, Kern <- Plugins["hip"].Kern,
            Count <- Plugins["hip"].Count, ConcKernel <- Plugins["hip"].ConcKernel,
            MaxOps <- Plugins["hip"].MaxOps
HostP == INSTANCE IoStreamProofs WITH Plugin <- "host", Device <- IoDevice,
            NS <- Plugins["host"].NS, Kern <- Plugins["host"].Kern,
            Count <- Plugins["host"].Count, ConcKernel <- Plugins["host"].ConcKernel,
            MaxOps <- Plugins["host"].MaxOps

\* The constants and the definitions of CudaP are those of Cuda.
LEMMA CudaConstants == CudaP!Constants
  <1>1. CudaP!IsFiniteSet(Pushers)
    BY ServicesAssumption, Zenon DEF ServicesAssumption, CudaP!IsFiniteSet, IsFiniteSet
  <1> QED BY <1>1, ServicesAssumption DEF CudaP!Constants, ServicesAssumption

\* CudaP speaks of the streams of Cuda.
LEMMA SameCuda ==
    /\ CudaP!Init <=> Cuda!Init
    /\ [CudaP!Next]_(CudaP!vars) <=> [Cuda!Next]_(Cuda!vars)
    /\ CudaP!StreamSound <=> Cuda!StreamSound
  <1>1. CudaP!Init <=> Cuda!Init
    BY Zenon DEF CudaP!Init, CudaP!Streams, CudaP!Ops, CudaP!Nop, CudaP!Free,
               CudaP!None, CudaP!NotPushing, Cuda!Init, Cuda!Streams,
               Cuda!Ops, Cuda!Nop, Cuda!Free, Cuda!None, Cuda!NotPushing
  <1>2. \A S : CudaP!Cardinality(S) = Cuda!Cardinality(S)
    BY Zenon DEF CudaP!Cardinality, Cuda!Cardinality
  <1>3. CudaP!vars = Cuda!vars /\ (CudaP!vars)' = (Cuda!vars)'
    BY Zenon DEF CudaP!vars, CudaP!posVars, CudaP!pollVars, Cuda!vars,
               Cuda!posVars, Cuda!pollVars
  <1>4. CudaP!Next <=> Cuda!Next
    BY <1>2, ZenonT(60)
       DEF CudaP!Next, CudaP!PollDevice, CudaP!Push, CudaP!CallPush,
           CudaP!StreamPush, CudaP!Spin, CudaP!LeaveUnlocked, CudaP!InsertTask,
           CudaP!InsertCopy, CudaP!Insert,
           CudaP!SelectIoStream, CudaP!FullPending, CudaP!FullInstr,
           CudaP!Pushed, CudaP!OnestreamProcessInstruction,
           CudaP!ProcessInstruction, CudaP!TestStream, CudaP!SkipStream,
           CudaP!ProcessPending, CudaP!NextStream, CudaP!WaitStream,
           CudaP!EndOperation, CudaP!Decode, CudaP!CudaDecodeCopy,
           CudaP!CudaDecodeKernel, CudaP!HipDecodeCopy, CudaP!HipDecodeKernel,
           CudaP!HostDecode, CudaP!Start, CudaP!Polling, CudaP!Advance,
           CudaP!CudaAdvancePending, CudaP!HipAdvancePending,
           CudaP!OkAfterQuery, CudaP!EventDone, CudaP!Slot, CudaP!Streams,
           CudaP!Ops, CudaP!Nop, CudaP!Free, CudaP!None, CudaP!NotPushing,
           CudaP!vars, CudaP!posVars, CudaP!pollVars, Cuda!Next,
           Cuda!PollDevice, Cuda!Push, Cuda!CallPush, Cuda!StreamPush, Cuda!Spin,
           Cuda!LeaveUnlocked,
           Cuda!InsertTask, Cuda!InsertCopy, Cuda!Insert, Cuda!SelectIoStream,
           Cuda!FullPending, Cuda!FullInstr, Cuda!Pushed,
           Cuda!OnestreamProcessInstruction, Cuda!ProcessInstruction,
           Cuda!TestStream, Cuda!SkipStream, Cuda!ProcessPending,
           Cuda!NextStream, Cuda!WaitStream, Cuda!EndOperation, Cuda!Decode,
           Cuda!CudaDecodeCopy, Cuda!CudaDecodeKernel, Cuda!HipDecodeCopy,
           Cuda!HipDecodeKernel, Cuda!HostDecode, Cuda!Start, Cuda!Polling,
           Cuda!Advance, Cuda!CudaAdvancePending, Cuda!HipAdvancePending,
           Cuda!OkAfterQuery, Cuda!EventDone, Cuda!Slot, Cuda!Streams,
           Cuda!Ops, Cuda!Nop, Cuda!Free, Cuda!None, Cuda!NotPushing,
           Cuda!vars, Cuda!posVars, Cuda!pollVars
  <1>5. CudaP!StreamSound <=> Cuda!StreamSound
    BY <1>2, ZenonT(60)
       DEF CudaP!StreamSound, CudaP!StreamInv, CudaP!TypeOK,
           CudaP!CommitsNumbered, CudaP!StreamInOrder, CudaP!Nth,
           CudaP!Committed, CudaP!CallbacksInPushOrder,
           CudaP!RingsKeepInstructions, CudaP!FullInstr, CudaP!Pushed,
           CudaP!Slot, CudaP!Streams, CudaP!Ops, CudaP!Nop, CudaP!Free,
           CudaP!None, CudaP!NotPushing, Cuda!StreamSound, Cuda!StreamInv,
           Cuda!TypeOK, Cuda!CommitsNumbered, Cuda!StreamInOrder, Cuda!Nth,
           Cuda!Committed, Cuda!CallbacksInPushOrder,
           Cuda!RingsKeepInstructions, Cuda!FullInstr, Cuda!Pushed, Cuda!Slot,
           Cuda!Streams, Cuda!Ops, Cuda!Nop, Cuda!Free, Cuda!None,
           Cuda!NotPushing
  <1> QED BY <1>1, <1>3, <1>4, <1>5

\* The constants and the definitions of HipP are those of Hip.
LEMMA HipConstants == HipP!Constants
  <1>1. HipP!IsFiniteSet(Pushers)
    BY ServicesAssumption, Zenon DEF ServicesAssumption, HipP!IsFiniteSet, IsFiniteSet
  <1> QED BY <1>1, ServicesAssumption DEF HipP!Constants, ServicesAssumption

\* HipP speaks of the streams of Hip.
LEMMA SameHip ==
    /\ HipP!Init <=> Hip!Init
    /\ [HipP!Next]_(HipP!vars) <=> [Hip!Next]_(Hip!vars)
    /\ HipP!StreamSound <=> Hip!StreamSound
  <1>1. HipP!Init <=> Hip!Init
    BY Zenon DEF HipP!Init, HipP!Streams, HipP!Ops, HipP!Nop, HipP!Free,
               HipP!None, HipP!NotPushing, Hip!Init, Hip!Streams, Hip!Ops,
               Hip!Nop, Hip!Free, Hip!None, Hip!NotPushing
  <1>2. \A S : HipP!Cardinality(S) = Hip!Cardinality(S)
    BY Zenon DEF HipP!Cardinality, Hip!Cardinality
  <1>3. HipP!vars = Hip!vars /\ (HipP!vars)' = (Hip!vars)'
    BY Zenon DEF HipP!vars, HipP!posVars, HipP!pollVars, Hip!vars, Hip!posVars,
               Hip!pollVars
  <1>4. HipP!Next <=> Hip!Next
    BY <1>2, ZenonT(60)
       DEF HipP!Next, HipP!PollDevice, HipP!Push, HipP!CallPush,
           HipP!StreamPush, HipP!Spin, HipP!LeaveUnlocked, HipP!InsertTask,
           HipP!InsertCopy, HipP!Insert,
           HipP!SelectIoStream, HipP!FullPending, HipP!FullInstr, HipP!Pushed,
           HipP!OnestreamProcessInstruction, HipP!ProcessInstruction,
           HipP!TestStream, HipP!SkipStream, HipP!ProcessPending,
           HipP!NextStream, HipP!WaitStream, HipP!EndOperation, HipP!Decode,
           HipP!CudaDecodeCopy, HipP!CudaDecodeKernel, HipP!HipDecodeCopy,
           HipP!HipDecodeKernel, HipP!HostDecode, HipP!Start, HipP!Polling,
           HipP!Advance, HipP!CudaAdvancePending, HipP!HipAdvancePending,
           HipP!OkAfterQuery, HipP!EventDone, HipP!Slot, HipP!Streams,
           HipP!Ops, HipP!Nop, HipP!Free, HipP!None, HipP!NotPushing,
           HipP!vars, HipP!posVars, HipP!pollVars, Hip!Next, Hip!PollDevice,
           Hip!Push, Hip!CallPush, Hip!StreamPush, Hip!Spin, Hip!LeaveUnlocked,
           Hip!InsertTask,
           Hip!InsertCopy, Hip!Insert, Hip!SelectIoStream, Hip!FullPending,
           Hip!FullInstr, Hip!Pushed, Hip!OnestreamProcessInstruction,
           Hip!ProcessInstruction, Hip!TestStream, Hip!SkipStream,
           Hip!ProcessPending, Hip!NextStream, Hip!WaitStream,
           Hip!EndOperation, Hip!Decode, Hip!CudaDecodeCopy,
           Hip!CudaDecodeKernel, Hip!HipDecodeCopy, Hip!HipDecodeKernel,
           Hip!HostDecode, Hip!Start, Hip!Polling, Hip!Advance,
           Hip!CudaAdvancePending, Hip!HipAdvancePending, Hip!OkAfterQuery,
           Hip!EventDone, Hip!Slot, Hip!Streams, Hip!Ops, Hip!Nop, Hip!Free,
           Hip!None, Hip!NotPushing, Hip!vars, Hip!posVars, Hip!pollVars
  <1>5. HipP!StreamSound <=> Hip!StreamSound
    BY <1>2, ZenonT(60)
       DEF HipP!StreamSound, HipP!StreamInv, HipP!TypeOK,
           HipP!CommitsNumbered, HipP!StreamInOrder, HipP!Nth, HipP!Committed,
           HipP!CallbacksInPushOrder, HipP!RingsKeepInstructions,
           HipP!FullInstr, HipP!Pushed, HipP!Slot, HipP!Streams, HipP!Ops,
           HipP!Nop, HipP!Free, HipP!None, HipP!NotPushing, Hip!StreamSound,
           Hip!StreamInv, Hip!TypeOK, Hip!CommitsNumbered, Hip!StreamInOrder,
           Hip!Nth, Hip!Committed, Hip!CallbacksInPushOrder,
           Hip!RingsKeepInstructions, Hip!FullInstr, Hip!Pushed, Hip!Slot,
           Hip!Streams, Hip!Ops, Hip!Nop, Hip!Free, Hip!None, Hip!NotPushing
  <1> QED BY <1>1, <1>3, <1>4, <1>5

\* The constants and the definitions of HostP are those of Host.
LEMMA HostConstants == HostP!Constants
  <1>1. HostP!IsFiniteSet(Pushers)
    BY ServicesAssumption, Zenon DEF ServicesAssumption, HostP!IsFiniteSet, IsFiniteSet
  <1> QED BY <1>1, ServicesAssumption DEF HostP!Constants, ServicesAssumption

\* HostP speaks of the streams of Host.
LEMMA SameHost ==
    /\ HostP!Init <=> Host!Init
    /\ [HostP!Next]_(HostP!vars) <=> [Host!Next]_(Host!vars)
    /\ HostP!StreamSound <=> Host!StreamSound
  <1>1. HostP!Init <=> Host!Init
    BY Zenon DEF HostP!Init, HostP!Streams, HostP!Ops, HostP!Nop, HostP!Free,
               HostP!None, HostP!NotPushing, Host!Init, Host!Streams,
               Host!Ops, Host!Nop, Host!Free, Host!None, Host!NotPushing
  <1>2. \A S : HostP!Cardinality(S) = Host!Cardinality(S)
    BY Zenon DEF HostP!Cardinality, Host!Cardinality
  <1>3. HostP!vars = Host!vars /\ (HostP!vars)' = (Host!vars)'
    BY Zenon DEF HostP!vars, HostP!posVars, HostP!pollVars, Host!vars,
               Host!posVars, Host!pollVars
  <1>4. HostP!Next <=> Host!Next
    BY <1>2, ZenonT(60)
       DEF HostP!Next, HostP!PollDevice, HostP!Push, HostP!CallPush,
           HostP!StreamPush, HostP!Spin, HostP!LeaveUnlocked, HostP!InsertTask,
           HostP!InsertCopy, HostP!Insert,
           HostP!SelectIoStream, HostP!FullPending, HostP!FullInstr,
           HostP!Pushed, HostP!OnestreamProcessInstruction,
           HostP!ProcessInstruction, HostP!TestStream, HostP!SkipStream,
           HostP!ProcessPending, HostP!NextStream, HostP!WaitStream,
           HostP!EndOperation, HostP!Decode, HostP!CudaDecodeCopy,
           HostP!CudaDecodeKernel, HostP!HipDecodeCopy, HostP!HipDecodeKernel,
           HostP!HostDecode, HostP!Start, HostP!Polling, HostP!Advance,
           HostP!CudaAdvancePending, HostP!HipAdvancePending,
           HostP!OkAfterQuery, HostP!EventDone, HostP!Slot, HostP!Streams,
           HostP!Ops, HostP!Nop, HostP!Free, HostP!None, HostP!NotPushing,
           HostP!vars, HostP!posVars, HostP!pollVars, Host!Next,
           Host!PollDevice, Host!Push, Host!CallPush, Host!StreamPush, Host!Spin,
           Host!LeaveUnlocked,
           Host!InsertTask, Host!InsertCopy, Host!Insert, Host!SelectIoStream,
           Host!FullPending, Host!FullInstr, Host!Pushed,
           Host!OnestreamProcessInstruction, Host!ProcessInstruction,
           Host!TestStream, Host!SkipStream, Host!ProcessPending,
           Host!NextStream, Host!WaitStream, Host!EndOperation, Host!Decode,
           Host!CudaDecodeCopy, Host!CudaDecodeKernel, Host!HipDecodeCopy,
           Host!HipDecodeKernel, Host!HostDecode, Host!Start, Host!Polling,
           Host!Advance, Host!CudaAdvancePending, Host!HipAdvancePending,
           Host!OkAfterQuery, Host!EventDone, Host!Slot, Host!Streams,
           Host!Ops, Host!Nop, Host!Free, Host!None, Host!NotPushing,
           Host!vars, Host!posVars, Host!pollVars
  <1>5. HostP!StreamSound <=> Host!StreamSound
    BY <1>2, ZenonT(60)
       DEF HostP!StreamSound, HostP!StreamInv, HostP!TypeOK,
           HostP!CommitsNumbered, HostP!StreamInOrder, HostP!Nth,
           HostP!Committed, HostP!CallbacksInPushOrder,
           HostP!RingsKeepInstructions, HostP!FullInstr, HostP!Pushed,
           HostP!Slot, HostP!Streams, HostP!Ops, HostP!Nop, HostP!Free,
           HostP!None, HostP!NotPushing, Host!StreamSound, Host!StreamInv,
           Host!TypeOK, Host!CommitsNumbered, Host!StreamInOrder, Host!Nth,
           Host!Committed, Host!CallbacksInPushOrder,
           Host!RingsKeepInstructions, Host!FullInstr, Host!Pushed, Host!Slot,
           Host!Streams, Host!Ops, Host!Nop, Host!Free, Host!None,
           Host!NotPushing
  <1> QED BY <1>1, <1>3, <1>4, <1>5

\* What the promises of the streams that move rest on.
MovingStreamsInv ==
    /\ comp \in {"pipeline", "cuda", "hip", "host", "register", "barrier", "trace", "life"}
    /\ comp = "cuda" /\ ~overrun => CudaP!StreamInv
    /\ comp = "hip" /\ ~overrun => HipP!StreamInv
    /\ comp = "host" /\ ~overrun => HostP!StreamInv

\* A step moves the streams of one plugin or none, and leaves the choice alone.
LEMMA StreamSteps ==
    ASSUME [ServicesNext]_allVars
    PROVE  /\ comp' = comp
           /\ comp = "cuda" => [Cuda!Next]_(Cuda!vars)
           /\ comp = "hip" => [Hip!Next]_(Hip!vars)
           /\ comp = "host" => [Host!Next]_(Host!vars)
  <1>1. CASE PipelineNext
    BY <1>1 DEF PipelineNext, Only
  <1>2. CASE CudaNext
    BY <1>2 DEF CudaNext, Only, Cuda!Next, Cuda!Push, Cuda!PollDevice
  <1>3. CASE OtherPluginsNext
    BY <1>3 DEF OtherPluginsNext, Only
  <1>4. CASE RegisterNext
    BY <1>4 DEF RegisterNext, Only
  <1>5. CASE BarrierNext
    BY <1>5 DEF BarrierNext, Only
  <1>6. CASE TraceNext
    BY <1>6 DEF TraceNext, Only
  <1>7. CASE LifeNext
    BY <1>7 DEF LifeNext, Only
  <1>8. CASE UNCHANGED allVars
    <2>1. UNCHANGED streamVars /\ comp' = comp
      BY <1>8, Zenon DEF allVars
    <2> QED BY <2>1 DEF streamVars, Cuda!vars, Cuda!posVars, Cuda!pollVars, Hip!vars,
                        Hip!posVars, Hip!pollVars, Host!vars, Host!posVars, Host!pollVars
  <1> QED BY <1>1, <1>2, <1>3, <1>4, <1>5, <1>6, <1>7, <1>8 DEF ServicesNext

\* At the start, and after a step.
LEMMA StreamsStart == ServicesInit => MovingStreamsInv
  <1> SUFFICES ASSUME ServicesInit PROVE MovingStreamsInv
    OBVIOUS
  <1>1. \/ comp \in {"pipeline", "cuda", "register", "barrier", "trace", "life"} /\ Cuda!Init
        \/ comp = "hip" /\ Hip!Init
        \/ comp = "host" /\ Host!Init
    BY Zenon DEF ServicesInit
  <1>2. comp = "cuda" /\ ~overrun => CudaP!StreamInv
    BY <1>1, CudaP!InitRight, CudaConstants, SameCuda
  <1>3. comp = "hip" /\ ~overrun => HipP!StreamInv
    BY <1>1, HipP!InitRight, HipConstants, SameHip
  <1>4. comp = "host" /\ ~overrun => HostP!StreamInv
    BY <1>1, HostP!InitRight, HostConstants, SameHost
  <1> QED BY <1>1, <1>2, <1>3, <1>4 DEF MovingStreamsInv

\* Every step of the composition keeps the streams that move in order.
LEMMA StreamsKept == MovingStreamsInv /\ [ServicesNext]_allVars => MovingStreamsInv'
  <1> SUFFICES ASSUME MovingStreamsInv, [ServicesNext]_allVars PROVE MovingStreamsInv'
    OBVIOUS
  <1>1. comp = "cuda" /\ ~overrun' => CudaP!StreamInv'
    BY StreamSteps, CudaP!StepKeeps, CudaP!OverrunStays, CudaConstants, SameCuda DEF MovingStreamsInv
  <1>2. comp = "hip" /\ ~overrun' => HipP!StreamInv'
    BY StreamSteps, HipP!StepKeeps, HipP!OverrunStays, HipConstants, SameHip DEF MovingStreamsInv
  <1>3. comp = "host" /\ ~overrun' => HostP!StreamInv'
    BY StreamSteps, HostP!StepKeeps, HostP!OverrunStays, HostConstants, SameHost DEF MovingStreamsInv
  <1>4. comp' = comp
    BY StreamSteps
  <1> QED BY <1>1, <1>2, <1>3, <1>4 DEF MovingStreamsInv

-----------------------------------------------------------------------------
(* Theorems of the composition.                                            *)

\* The positions, slots and counters of the pipeline stay consistent for every
\* buffer size, whichever threads run callback_set_valid.
THEOREM ServicesPipelineInv == ServicesSpec => []PipelineInv
  <1>1. ServicesInit => PipelineInv
    BY InitInv DEF ServicesInit
  <1>2. PipelineInv /\ [ServicesNext]_allVars => PipelineInv'
    BY PipelineStepKeeps, PipelineSteps
  <1> QED BY <1>1, <1>2, PTL DEF ServicesSpec

\* Registration requests are performed once each, in the order of their
\* handles, although slots of the ring are used again, and a wait returns only
\* for requests that have been performed (post_request,
\* xkblas_register_memory_wait).
THEOREM RegisterInvHolds == ServicesSpec => []RegisterInv
  <1>1. ServicesInit => RegisterInv
    BY ServicesAssumption, RegisterInitRight DEF ServicesInit, RegisterInv
  <1>2. RegisterInv /\ [ServicesNext]_allVars => RegisterInv'
    BY ServicesAssumption, RegisterStepKeeps, RegisterSteps DEF RegisterInv
  <1> QED BY <1>1, <1>2, PTL DEF ServicesSpec

\* The inductive invariant of the team: the counter of the current barrier counts
\* its arrivals, the next one is clear, the third is clear before the turn, and no
\* thread is more than one barrier ahead of another (kaapi_team_barrier_wait).
THEOREM BarrierInvHolds == ServicesSpec => []Bar!BarrierInv
  <1>1. ServicesInit => Bar!BarrierInv
    BY BarrierInitRight, BarrierConstantsHold DEF ServicesInit
  <1>2. Bar!BarrierInv /\ [ServicesNext]_allVars => Bar!BarrierInv'
    BY BarrierStepKeeps, BarrierConstantsHold, BarrierSteps
  <1> QED BY <1>1, <1>2, PTL DEF ServicesSpec

\* No thread of a team passes a barrier before all have arrived, although three
\* counters serve all barriers; a worker leaves after the master's signal
\* (kaapi_team_barrier_wait).
THEOREM BarrierSoundHolds == ServicesSpec => []BarrierSound
  <1>1. Bar!BarrierInv => BarrierSound
    BY BarrierInvIsSound DEF BarrierSound
  <1> QED BY <1>1, BarrierInvHolds, PTL

\* As long as no pending ring took an instruction when it was full and no thread left
\* the loop of its push without the mutex: callbacks are called once each, in
\* the order of the pushes and after their operations, and no instruction is lost
\* between two pushers nor overwritten, with the decoding of each plugin
\* (kaapi_offload_stream_push, kaapi_offload_stream_process_pending).
THEOREM StreamsSoundHolds == ServicesSpec => []StreamsSound
  <1>1. MovingStreamsInv => StreamsSound
    BY CudaP!InvIsSound, HipP!InvIsSound, HostP!InvIsSound, CudaConstants, HipConstants,
       HostConstants, SameCuda, SameHip, SameHost
       DEF MovingStreamsInv, StreamsSound
  <1> QED BY <1>1, StreamsStart, StreamsKept, PTL DEF ServicesSpec

\* The domains, address spaces, tables and counters of the devices fit the stage
\* each of them is in and what the main thread does, over any number of starts
\* and stops (kaapi_init, kaapi_offload_device_thread, kaapi_finalize).
THEOREM LifeInvHolds == ServicesSpec => []LifeInv
  <1>1. ServicesInit => LifeInv
    BY LifeInit DEF ServicesInit, LifeInv
  <1>2. LifeInv /\ [ServicesNext]_allVars => LifeInv'
    BY LifeKept, LifeSteps
  <1> QED BY <1>1, <1>2, PTL DEF ServicesSpec

\* A processor that has committed knows the address space of every peer, an
\* address space and a domain have one number, tasks go where their hint says or
\* to each device in turn, and the end of the program leaves nothing behind
\* (kaapi_offload_device_commit, kaapi_localitydomain_attach, kaapi_thread_push).
THEOREM LifeSoundHolds == ServicesSpec => []LifeSound
  BY LifeInvHolds, LifeSoundFollows, PTL
=============================================================================
