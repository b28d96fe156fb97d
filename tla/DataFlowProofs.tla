--------------------------- MODULE DataFlowProofs ---------------------------
(***************************************************************************)
(* Proofs about DataFlow for every set of tasks, handles and devices.      *)
(*                                                                         *)
(* The invariant IndInv of DataFlowInv is shown to hold initially and to   *)
(* be preserved by each action, one lemma per part of the invariant; the   *)
(* properties of DataFlow follow from it.                                  *)
(***************************************************************************)
EXTENDS DataFlowInv, TLAPS, FiniteSetTheorems

USE DEF Threads, Index, TaskState, Started, Finished, Idle

-----------------------------------------------------------------------------
(* Finite sets of accesses and of tasks.                                   *)

\* The sets of accesses the counters are about are finite.
LEMMA AccessSetsFinite ==
    ASSUME TypeOK
    PROVE  /\ \A t : IsFiniteSet(AccessesOf(t)) /\ IsFiniteSet(AccessesOf(t) \ ready)
           /\ \A h, g : IsFiniteSet(Generation(h, g)) /\ IsFiniteSet(Generation(h, g) \ sig)
<1>1. DOMAIN acc = 1..Len(acc) /\ Len(acc) \in Nat
  BY DEF TypeOK
<1>2. IsFiniteSet(DOMAIN acc)
  BY <1>1, FS_Interval
<1>3. ASSUME NEW S \in SUBSET DOMAIN acc PROVE IsFiniteSet(S)
  BY <1>2, FS_Subset
<1> QED
  BY <1>3 DEF AccessesOf, Generation

\* Taking an element away lowers the cardinality by one.
LEMMA CardinalityDrop ==
    ASSUME NEW S, IsFiniteSet(S), NEW x \in S
    PROVE  /\ Cardinality(S) \in Nat \ {0}
           /\ Cardinality(S \ {x}) = Cardinality(S) - 1
           /\ Cardinality(S \ {x}) = 0 <=> S = {x}
<1>1. Cardinality(S) \in Nat /\ (Cardinality(S) = 0 <=> S = {})
  BY FS_CardinalityType, FS_EmptySet
<1>2. Cardinality(S \ {x}) = Cardinality(S) - 1 /\ IsFiniteSet(S \ {x})
  BY FS_RemoveElement
<1>3. Cardinality(S \ {x}) = 0 <=> S \ {x} = {}
  BY <1>2, FS_EmptySet
<1> QED
  BY <1>1, <1>2, <1>3

\* Adding a new element raises the cardinality by one.
LEMMA CardinalityGrow ==
    ASSUME NEW S, IsFiniteSet(S), NEW x, x \notin S
    PROVE  /\ Cardinality(S) \in Nat
           /\ Cardinality(S \cup {x}) = Cardinality(S) + 1
BY FS_AddElement, FS_CardinalityType

-----------------------------------------------------------------------------
(* The initial states.                                                     *)

\* The invariant holds initially.
LEMMA InitIndInv == Init => IndInv
<1> SUFFICES ASSUME Init PROVE IndInv
  OBVIOUS
<1> USE DataFlowAssumption
<1>a. DOMAIN acc = {} /\ Len(acc) = 0
  BY DEF Init
<1>1. TypeOK
  BY <1>a DEF Init, TypeOK
<1>2. GraphShape
  BY <1>a DEF Init, GraphShape
<1>3. MainShape
  BY DEF Init, MainShape
<1>4. TaskShape
  BY <1>a DEF Init, TaskShape, AccessesOf
<1>5. Released /\ WalksApart /\ DeviceShape
  BY <1>a DEF Init, Released, WalksApart, DeviceShape
<1>6. CountersExact
  <2>1. \A h, g : Generation(h, g) \ sig = {}
    BY <1>a DEF Generation
  <2>2. \A t : AccessesOf(t) \ ready = {}
    BY <1>a DEF AccessesOf
  <2>3. Cardinality({}) = 0
    BY FS_EmptySet
  <2>4. \A h, g : Cardinality(Generation(h, g) \ sig) = 0
    BY <2>1, <2>3, Zenon
  <2>5. \A t : Cardinality(AccessesOf(t) \ ready) = 0
    BY <2>2, <2>3, Zenon
  <2> QED
    BY <2>4, <2>5 DEF Init, CountersExact
<1>7. FrameShape
  <2>1. Committed = {} /\ Executed = {} /\ Writebacks = {} /\ Home = {}
    BY DEF Init, Committed, Executed, Writebacks, Home
  <2> QED
    BY <2>1, FS_EmptySet DEF Init, FrameShape
<1> QED
  BY <1>1, <1>2, <1>3, <1>4, <1>5, <1>6, <1>7 DEF IndInv

-----------------------------------------------------------------------------
(* What the actions do to the counters.                                    *)

\* The fields of an access.
LEMMA AccessTypes ==
    ASSUME TypeOK
    PROVE  /\ DOMAIN acc = 1..Len(acc) /\ Len(acc) \in 0..MaxAccesses
           /\ \A i \in DOMAIN acc :
                 /\ acc[i].task \in Tasks /\ acc[i].h \in Handles
                 /\ acc[i].mode \in Modes /\ acc[i].gen \in 1..MaxAccesses
                 /\ i \in Index
<1>1. acc \in Seq(Access) /\ DOMAIN acc = 1..Len(acc) /\ Len(acc) \in 0..MaxAccesses
  BY DataFlowAssumption DEF TypeOK
<1>2. \A i \in DOMAIN acc : acc[i] \in Access
  BY <1>1
<1> QED
  BY <1>1, <1>2, DataFlowAssumption DEF Access

\* Assigning one counter of one handle.
LEMMA CounterUpdate ==
    ASSUME NEW F \in [Handles -> [0..MaxAccesses -> Nat]], NEW h \in Handles,
           NEW g \in 0..MaxAccesses, NEW v \in Nat
    PROVE  LET G == [F EXCEPT ![h][g] = v]
           IN  /\ G \in [Handles -> [0..MaxAccesses -> Nat]]
               /\ \A hh \in Handles, gg \in 0..MaxAccesses :
                     G[hh][gg] = IF hh = h /\ gg = g THEN v ELSE F[hh][gg]
<1> DEFINE f == [F[h] EXCEPT ![g] = v]
<1>1. F[h] \in [0..MaxAccesses -> Nat]
  OBVIOUS
<1>2. f \in [0..MaxAccesses -> Nat]
      /\ \A gg \in 0..MaxAccesses : f[gg] = IF gg = g THEN v ELSE F[h][gg]
  BY <1>1
<1>3. [F EXCEPT ![h][g] = v] = [F EXCEPT ![h] = f]
  OBVIOUS
<1> HIDE DEF f
<1> QED
  BY <1>2, <1>3

\* The effect of declaring an access: one element joins the accesses of the
\* current task and one generation of the handle.
LEMMA UpdateFacts ==
    ASSUME IndInv, NEW h \in Handles, NEW m \in Modes, UpdateDependencies(h, m)
    PROVE  LET n == Len(acc) + 1
               g == NextGeneration(h, m)
           IN  /\ n \notin DOMAIN acc /\ n \in Index /\ g \in Index
               /\ DOMAIN acc' = DOMAIN acc \cup {n}
               /\ acc' \in Seq(Access) /\ Len(acc') = n
               /\ acc'[n] = [task |-> cur, h |-> h, mode |-> m, gen |-> g]
               /\ \A i \in DOMAIN acc : acc'[i] = acc[i]
               /\ cur \in Tasks /\ tstate[cur] = "alloc" /\ phase = "build"
               /\ \A t : AccessesOf(t)' = IF t = cur THEN AccessesOf(t) \cup {n}
                                                     ELSE AccessesOf(t)
               /\ \A hh, gg : Generation(hh, gg)' =
                      IF hh = h /\ gg = g THEN Generation(hh, gg) \cup {n}
                                          ELSE Generation(hh, gg)
<1> DEFINE n == Len(acc) + 1
           g == NextGeneration(h, m)
<1>1. /\ acc \in Seq(Access) /\ DOMAIN acc = 1..Len(acc) /\ Len(acc) \in 0..MaxAccesses
      /\ nsync[h] \in Nat /\ nsync[h] <= Len(acc) /\ cur \in Tasks
      /\ tstate[cur] = "alloc" /\ phase = "build"
      /\ Len(acc) < MaxAccesses
  BY DataFlowAssumption, AccessTypes
     DEF IndInv, TypeOK, GraphShape, MainShape, UpdateDependencies
<1>2. g \in Index /\ n \in Index /\ n \notin DOMAIN acc
  BY <1>1, DataFlowAssumption DEF NextGeneration
<1>3. [task |-> cur, h |-> h, mode |-> m, gen |-> g] \in Access
  BY <1>1, <1>2 DEF Access
<1>4. /\ acc' \in Seq(Access) /\ Len(acc') = n
      /\ DOMAIN acc' = DOMAIN acc \cup {n}
      /\ acc'[n] = [task |-> cur, h |-> h, mode |-> m, gen |-> g]
      /\ \A i \in DOMAIN acc : acc'[i] = acc[i]
  <2>1. acc' = Append(acc, [task |-> cur, h |-> h, mode |-> m, gen |-> g])
    BY DEF UpdateDependencies
  <2> QED
    BY <1>1, <1>3, <2>1
<1>5. \A t : AccessesOf(t)' = IF t = cur THEN AccessesOf(t) \cup {n} ELSE AccessesOf(t)
  BY <1>2, <1>4 DEF AccessesOf
<1>6. \A hh, gg : Generation(hh, gg)' =
          IF hh = h /\ gg = g THEN Generation(hh, gg) \cup {n} ELSE Generation(hh, gg)
  BY <1>2, <1>4 DEF Generation
<1> QED
  BY <1>1, <1>2, <1>4, <1>5, <1>6

\* The effect of notifying an access: its task waits for it, and is pushed
\* exactly when it was the last access not ready.
LEMMA NotifyFacts ==
    ASSUME IndInv, NEW th \in Threads, NEW i \in Index, Notify(th, i)
    PROVE  LET t == acc[i].task
           IN  /\ i \in DOMAIN acc /\ i \in walk[th] /\ i \notin ready
               /\ t \in Tasks /\ i \in AccessesOf(t)
               /\ tstate[t] = "waiting" /\ phase # "build"
               /\ wc[t] \in Nat \ {0} /\ wc' = [wc EXCEPT ![t] = wc[t] - 1]
               /\ wc'[t] = 0 <=> AccessesOf(t) \subseteq ready \cup {i}
               /\ tstate' = [tstate EXCEPT ![t] = IF AccessesOf(t) \subseteq ready \cup {i}
                                                    THEN "ready" ELSE "waiting"]
<1> DEFINE t == acc[i].task
<1>1. i \in walk[th] /\ i \in DOMAIN acc /\ i \notin ready
  BY DEF Notify, IndInv, TypeOK, WalksApart
<1>2. t \in Tasks /\ i \in AccessesOf(t) /\ acc[i].h \in Handles
  BY <1>1, AccessTypes DEF IndInv, AccessesOf
<1>3. phase # "build"
  BY <1>1, <1>2 DEF IndInv, Released, MainShape
<1>4. tstate[t] = "waiting"
  <2>1. tstate[t] \in TaskState
    BY <1>2 DEF IndInv, TypeOK
  <2>2. tstate[t] # "free" /\ tstate[t] \notin Started \cup {"ready"}
    BY <1>1, <1>2 DEF IndInv, TaskShape
  <2>3. tstate[t] # "alloc"
    BY <1>2, <1>3, DataFlowAssumption DEF IndInv, MainShape
  <2> QED
    BY <2>1, <2>2, <2>3
<1>5. wc[t] = Cardinality(AccessesOf(t) \ ready)
  <2>1. wc[t] = Cardinality(AccessesOf(t) \ ready) + 0
    BY <1>2, <1>4 DEF IndInv, CountersExact
  <2>2. Cardinality(AccessesOf(t) \ ready) \in Nat
    BY AccessSetsFinite, FS_CardinalityType DEF IndInv
  <2> QED
    BY <2>1, <2>2
<1>6. /\ Cardinality(AccessesOf(t) \ ready) \in Nat \ {0}
      /\ Cardinality((AccessesOf(t) \ ready) \ {i}) = Cardinality(AccessesOf(t) \ ready) - 1
      /\ Cardinality((AccessesOf(t) \ ready) \ {i}) = 0 <=> AccessesOf(t) \ ready = {i}
  <2>1. i \in AccessesOf(t) \ ready
    BY <1>1, <1>2
  <2>2. IsFiniteSet(AccessesOf(t) \ ready)
    BY AccessSetsFinite DEF IndInv
  <2> QED
    BY <2>1, <2>2, CardinalityDrop
<1>7. wc' = [wc EXCEPT ![t] = wc[t] - 1] /\ wc'[t] = wc[t] - 1
  BY <1>2 DEF Notify, IndInv, TypeOK
<1>8. AccessesOf(t) \ ready = {i} <=> AccessesOf(t) \subseteq ready \cup {i}
  BY <1>1, <1>2
<1>9. wc'[t] = 0 <=> AccessesOf(t) \subseteq ready \cup {i}
  BY <1>5, <1>6, <1>7, <1>8
<1>10. tstate' = [tstate EXCEPT ![t] = IF AccessesOf(t) \subseteq ready \cup {i}
                                       THEN "ready" ELSE "waiting"]
  BY <1>4, <1>9 DEF Notify
<1> QED
  BY <1>1, <1>2, <1>3, <1>4, <1>5, <1>6, <1>7, <1>9, <1>10

\* The effect of signalling a completed access: the next generation is taken
\* over exactly when the access was the last one of its generation.
LEMMA SignalFacts ==
    ASSUME IndInv, NEW d \in Devices, NEW i \in Index, SignalSuccessors(d, i)
    PROVE  LET h == acc[i].h
               g == acc[i].gen
           IN  /\ i \in DOMAIN acc /\ i \in ready /\ i \notin sig
               /\ h \in Handles /\ g \in 1..MaxAccesses /\ acc[i].task = epi[d]
               /\ epi[d] \in Tasks /\ tstate[epi[d]] = "epilogue"
               /\ sig' = sig \cup {i} /\ walk[d] = {} /\ phase # "build"
               /\ swc[h][g] \in Nat \ {0}
               /\ swc' = [swc EXCEPT ![h][g] = swc[h][g] - 1]
               /\ walk' = [walk EXCEPT ![d] =
                              IF Generation(h, g) \subseteq sig \cup {i}
                              THEN Generation(h, g + 1) ELSE {}]
<1> DEFINE h == acc[i].h
           g == acc[i].gen
<1>1. /\ epi[d] # NoTask /\ epi[d] \in Tasks /\ tstate[epi[d]] = "epilogue"
      /\ i \in AccessesOf(epi[d]) /\ i \notin sig /\ sig' = sig \cup {i}
      /\ i \in DOMAIN acc /\ acc[i].task = epi[d] /\ walk[d] = {}
  BY DEF SignalSuccessors, IndInv, TypeOK, DeviceShape, AccessesOf
<1>2. i \in ready
  BY <1>1 DEF IndInv, TaskShape
<1>3. phase # "build"
  BY <1>2 DEF IndInv, MainShape
<1>4. h \in Handles /\ g \in 1..MaxAccesses
  BY <1>1, AccessTypes DEF IndInv
<1>5. swc[h][g] = Cardinality(Generation(h, g) \ sig)
  BY <1>4 DEF IndInv, CountersExact
<1>6. /\ Cardinality(Generation(h, g) \ sig) \in Nat \ {0}
      /\ Cardinality((Generation(h, g) \ sig) \ {i}) = Cardinality(Generation(h, g) \ sig) - 1
      /\ Cardinality((Generation(h, g) \ sig) \ {i}) = 0 <=> Generation(h, g) \ sig = {i}
  <2>1. i \in Generation(h, g) \ sig
    BY <1>1 DEF Generation
  <2>2. IsFiniteSet(Generation(h, g) \ sig)
    BY AccessSetsFinite DEF IndInv
  <2> QED
    BY <2>1, <2>2, CardinalityDrop
<1>7. swc' = [swc EXCEPT ![h][g] = swc[h][g] - 1]
  BY DEF SignalSuccessors, SignalSyncPoint
<1>8. swc'[h][g] = swc[h][g] - 1
  BY <1>4, <1>7, DataFlowAssumption DEF IndInv, TypeOK
<1>9. swc'[h][g] = 0 <=> Generation(h, g) \subseteq sig \cup {i}
  <2>1. Generation(h, g) \ sig = {i} <=> Generation(h, g) \subseteq sig \cup {i}
    BY <1>1 DEF Generation
  <2> QED
    BY <1>5, <1>6, <1>8, <2>1
<1>10. walk' = [walk EXCEPT ![d] = IF Generation(h, g) \subseteq sig \cup {i}
                                   THEN Generation(h, g + 1) ELSE {}]
  BY <1>9 DEF SignalSuccessors, SignalSyncPoint
<1> QED
  BY <1>1, <1>2, <1>3, <1>4, <1>5, <1>6, <1>7, <1>10

\* The effect of activating a handle: its first generation is taken over.
LEMMA ActivateFacts ==
    ASSUME IndInv, NEW h \in Handles, ActivateHandle(h)
    PROVE  /\ phase = "activate" /\ h \in pend /\ walk[Main] = {}
           /\ pend' = pend \ {h} /\ swc[h][0] = 1
           /\ swc' = [swc EXCEPT ![h][0] = 0]
           /\ walk' = [walk EXCEPT ![Main] = Generation(h, 1)]
<1>1. phase = "activate" /\ h \in pend /\ walk[Main] = {} /\ pend' = pend \ {h}
  BY DEF ActivateHandle
<1>2. swc[h][0] = 1
  BY <1>1 DEF IndInv, MainShape
<1>3. swc' = [swc EXCEPT ![h][0] = 0]
  BY <1>2 DEF ActivateHandle, SignalSyncPoint
<1>4. swc'[h][0] = 0
  BY <1>3, DataFlowAssumption DEF IndInv, TypeOK
<1>5. walk' = [walk EXCEPT ![Main] = Generation(h, 0 + 1)]
  BY <1>4 DEF ActivateHandle, SignalSyncPoint
<1> QED
  BY <1>1, <1>2, <1>3, <1>5

-----------------------------------------------------------------------------
(* The shape of the graph.                                                 *)

\* An action preserves the shape of the graph: only a new access extends it.
LEMMA GraphShapeStep == IndInv /\ [Next]_vars => GraphShape'
<1> SUFFICES ASSUME IndInv, [Next]_vars PROVE GraphShape'
  OBVIOUS
<1> USE DataFlowAssumption
<1>1. ASSUME NEW h \in Handles, NEW m \in Modes, UpdateDependencies(h, m)
      PROVE  GraphShape'
  <2> DEFINE g == NextGeneration(h, m)
             n == Len(acc) + 1
  <2>1. /\ acc \in Seq(Access) /\ Len(acc) \in Nat /\ DOMAIN acc = 1..Len(acc)
        /\ nsync \in [Handles -> 0..MaxAccesses] /\ nsync[h] \in Nat
        /\ lastmode \in [Handles -> Modes \cup {"SYNC"}]
    BY <1>1 DEF IndInv, TypeOK
  <2>2. g \in Nat \ {0} /\ nsync[h] <= g /\ g <= nsync[h] + 1
        /\ (g = nsync[h] => Concurrent(m, lastmode[h]))
    BY <2>1 DEF NextGeneration
  <2>3. /\ DOMAIN acc' = DOMAIN acc \cup {n} /\ Len(acc') = n
        /\ acc'[n] = [task |-> cur, h |-> h, mode |-> m, gen |-> g]
        /\ \A i \in DOMAIN acc : acc'[i] = acc[i] /\ i < n
    BY <1>1, <2>1 DEF UpdateDependencies
  <2>4. /\ nsync' = [nsync EXCEPT ![h] = g]
        /\ lastmode' = [lastmode EXCEPT ![h] = m]
    BY <1>1 DEF UpdateDependencies
  <2>5. \A i \in DOMAIN acc : /\ acc[i].gen \in Nat \ {0} /\ acc[i].h \in Handles
                              /\ acc[i].gen <= nsync[acc[i].h]
                              /\ acc[i].mode \in Modes
                              /\ nsync[acc[i].h] \in Nat
    <3>1. \A i \in DOMAIN acc : acc[i] \in Access
      BY <2>1
    <3> QED
      BY <2>1, <3>1 DEF IndInv, GraphShape, Access
  <2>6. \A i \in DOMAIN acc : acc[i].h = h /\ acc[i].gen = g =>
            acc[i].mode = lastmode[h] /\ m = lastmode[h] /\ Concurrent(m, m)
    <3> SUFFICES ASSUME NEW i \in DOMAIN acc, acc[i].h = h, acc[i].gen = g
                 PROVE  acc[i].mode = lastmode[h] /\ m = lastmode[h] /\ Concurrent(m, m)
      OBVIOUS
    <3>1. g = nsync[h]
      BY <2>1, <2>2, <2>5
    <3>2. acc[i].mode = lastmode[h]
      BY <3>1 DEF IndInv, GraphShape
    <3> QED
      BY <3>1, <3>2, <2>2, <2>5 DEF Concurrent
  <2>7. \A hh \in Handles :
          /\ nsync'[hh] <= Len(acc')
          /\ nsync'[hh] # 0 => \E i \in DOMAIN acc' : acc'[i].h = hh
          /\ nsync'[hh] # 0 => lastmode'[hh] \in Modes
    <3> SUFFICES ASSUME NEW hh \in Handles
                 PROVE  /\ nsync'[hh] <= Len(acc')
                        /\ nsync'[hh] # 0 => \E i \in DOMAIN acc' : acc'[i].h = hh
                        /\ nsync'[hh] # 0 => lastmode'[hh] \in Modes
      OBVIOUS
    <3>1. /\ nsync[hh] <= Len(acc) /\ nsync[hh] \in Nat
          /\ nsync[hh] # 0 => \E i \in DOMAIN acc : acc[i].h = hh
          /\ nsync[hh] # 0 => lastmode[hh] \in Modes
      BY <2>1 DEF IndInv, GraphShape
    <3>2. CASE hh = h
      BY <3>1, <3>2, <2>1, <2>2, <2>3, <2>4
    <3>3. CASE hh # h
      BY <3>1, <3>3, <2>1, <2>2, <2>3, <2>4
    <3> QED
      BY <3>2, <3>3
  <2>8. \A i \in DOMAIN acc' :
          /\ acc'[i].gen <= nsync'[acc'[i].h]
          /\ acc'[i].gen = nsync'[acc'[i].h] => acc'[i].mode = lastmode'[acc'[i].h]
    <3> SUFFICES ASSUME NEW i \in DOMAIN acc'
                 PROVE /\ acc'[i].gen <= nsync'[acc'[i].h]
                       /\ acc'[i].gen = nsync'[acc'[i].h] => acc'[i].mode = lastmode'[acc'[i].h]
      OBVIOUS
    <3>1. CASE i = n
      BY <3>1, <2>1, <2>2, <2>3, <2>4
    <3>2. CASE i # n
      <4>1. i \in DOMAIN acc /\ acc'[i] = acc[i]
        BY <3>2, <2>3
      <4>2. acc[i].gen = nsync[acc[i].h] => acc[i].mode = lastmode[acc[i].h]
        BY <4>1 DEF IndInv, GraphShape
      <4> QED
        BY <4>1, <4>2, <2>1, <2>2, <2>4, <2>5, <2>6
    <3> QED
      BY <3>1, <3>2
  <2>9. ASSUME NEW i \in DOMAIN acc', NEW j \in DOMAIN acc', acc'[i].h = acc'[j].h
        PROVE  /\ i < j => acc'[i].gen <= acc'[j].gen
               /\ i # j /\ acc'[i].gen = acc'[j].gen
                    => Concurrent(acc'[i].mode, acc'[j].mode)
    <3>1. CASE i \in DOMAIN acc /\ j \in DOMAIN acc
      BY <3>1, <2>3, <2>9 DEF IndInv, GraphShape
    <3>2. CASE i = n /\ j \in DOMAIN acc
      BY <3>2, <2>1, <2>3, <2>5, <2>6, <2>9
    <3>3. CASE i \in DOMAIN acc /\ j = n
      BY <3>3, <2>1, <2>2, <2>3, <2>5, <2>6, <2>9
    <3>4. CASE i = n /\ j = n
      BY <3>4, <2>1, <2>2, <2>3
    <3> QED
      BY <3>1, <3>2, <3>3, <3>4, <2>3
  <2> QED
    BY <2>7, <2>8, <2>9 DEF GraphShape
<1>2. CASE SyncReturn
  BY <1>2 DEF SyncReturn, GraphShape
<1>3. CASE UNCHANGED graphVars
  BY <1>3 DEF graphVars, IndInv, GraphShape
<1>4. UNCHANGED graphVars \/ SyncReturn
      \/ \E h \in Handles, m \in Modes : UpdateDependencies(h, m)
  BY DEF Next, Build, Sync, Device, Terminated, vars, AllocTask, Commit, BeginSync,
         ActivateHandle, EndDfg, Notify, Pop, Launch, KernelEnd, SignalSuccessors,
         FinishEpilogue, MarkExec, WritebackArrived
<1> QED
  BY <1>1, <1>2, <1>3, <1>4

-----------------------------------------------------------------------------
(* Quiescence.                                                             *)

\* When the counters of the frame agree, nothing is left to do: the executed
\* tasks are all the committed ones, and the arrivals all the write-backs.
LEMMA QuiescentAtCompletion == IndInv => SyncQuiescent
<1> SUFFICES ASSUME IndInv, phase = "wait", FrameCompleted
             PROVE  /\ \A t \in Tasks : tstate[t] \in {"free", "done"}
                    /\ flight = {}
                    /\ \A d \in Devices : epi[d] = NoTask
                    /\ \A th \in Threads : walk[th] = {}
  BY DEF SyncQuiescent
<1> USE DataFlowAssumption
<1>1. /\ Executed \subseteq Committed /\ Home \subseteq Writebacks
      /\ Committed \subseteq Tasks /\ Writebacks \subseteq Tasks
  BY DEF Executed, Committed, Home, Writebacks
<1>2. IsFiniteSet(Committed) /\ IsFiniteSet(Writebacks)
      /\ IsFiniteSet(Executed) /\ IsFiniteSet(Home)
  <2>1. IsFiniteSet(Committed) /\ IsFiniteSet(Writebacks)
    BY <1>1, FS_Subset
  <2> QED
    BY <1>1, <2>1, FS_Subset
<1>3. /\ Cardinality(Executed) <= Cardinality(Committed)
      /\ Cardinality(Home) <= Cardinality(Writebacks)
      /\ Cardinality(Committed) = Cardinality(Executed) => Committed = Executed
      /\ Cardinality(Writebacks) = Cardinality(Home) => Writebacks = Home
  BY <1>1, <1>2, FS_Subset
<1>4. /\ Cardinality(Executed) \in Nat /\ Cardinality(Committed) \in Nat
      /\ Cardinality(Home) \in Nat /\ Cardinality(Writebacks) \in Nat
  BY <1>2, FS_CardinalityType
<1>5. Cardinality(Executed) + Cardinality(Home)
        = Cardinality(Committed) + Cardinality(Writebacks)
  <2>1. spawn + 0 = Cardinality(Committed) + Cardinality(Writebacks)
        /\ exec = Cardinality(Executed) + Cardinality(Home) /\ spawn \in Nat
    BY DEF IndInv, FrameShape, TypeOK
  <2> QED
    BY <2>1 DEF FrameCompleted
<1>6. Committed = Executed /\ Writebacks = Home
  BY <1>3, <1>4, <1>5
<1>7. \A t \in Tasks : tstate[t] \in {"free", "done"}
  <2> SUFFICES ASSUME NEW t \in Tasks PROVE tstate[t] \in {"free", "done"}
    OBVIOUS
  <2>1. tstate[t] # "alloc"
    BY DEF IndInv, MainShape
  <2> QED
    BY <1>6, <2>1 DEF Committed, Executed
<1>8. flight = {}
  BY <1>6 DEF IndInv, FrameShape, Home
<1>9. ASSUME NEW d \in Devices PROVE epi[d] = NoTask
  <2>1. epi[d] \in Tasks \cup {NoTask}
    BY DEF IndInv, TypeOK
  <2>2. epi[d] # NoTask => tstate[epi[d]] = "epilogue"
    BY DEF IndInv, DeviceShape
  <2> QED
    BY <1>7, <2>1, <2>2
<1>10. \A th \in Threads : walk[th] = {}
  BY <1>9 DEF IndInv, DeviceShape, MainShape
<1> QED
  BY <1>7, <1>8, <1>9, <1>10

-----------------------------------------------------------------------------
(* Types.                                                                  *)

\* An action preserves the types; the counters stay natural numbers because
\* they are exact.
LEMMA TypeStep == IndInv /\ [Next]_vars => TypeOK'
<1> SUFFICES ASSUME IndInv, [Next]_vars PROVE TypeOK'
  OBVIOUS
<1> USE DataFlowAssumption
<1>0. TypeOK /\ acc \in Seq(Access) /\ DOMAIN acc = 1..Len(acc)
  BY DEF IndInv, TypeOK
<1>1. ASSUME NEW t \in Tasks, NEW k \in {"kernel", "writeback"}, AllocTask(t, k)
      PROVE  TypeOK'
  BY <1>0, <1>1 DEF AllocTask, TypeOK, graphVars, syncVars, deviceVars
<1>2. ASSUME NEW h \in Handles, NEW m \in Modes, UpdateDependencies(h, m)
      PROVE  TypeOK'
  <2> DEFINE g == NextGeneration(h, m)
  <2>1. /\ g \in Index /\ acc' \in Seq(Access) /\ Len(acc') \in Index
        /\ DOMAIN acc \subseteq DOMAIN acc' /\ cur \in Tasks
    BY <1>2, UpdateFacts
  <2>2. /\ nsync' = [nsync EXCEPT ![h] = g]
        /\ lastmode' = [lastmode EXCEPT ![h] = m]
        /\ swc' = [swc EXCEPT ![h][g] = @ + 1]
        /\ wc' = [wc EXCEPT ![cur] = @ + 1]
    BY <1>2 DEF UpdateDependencies
  <2> HIDE DEF g
  <2>3. /\ nsync' \in [Handles -> 0..MaxAccesses] /\ wc' \in [Tasks -> Nat]
        /\ lastmode' \in [Handles -> Modes \cup {"SYNC"}]
    <3>1. /\ nsync \in [Handles -> 0..MaxAccesses] /\ wc \in [Tasks -> Nat]
          /\ lastmode \in [Handles -> Modes \cup {"SYNC"}]
      BY <1>0 DEF TypeOK
    <3> QED
      BY <2>1, <2>2, <3>1
  <2>4. swc' \in [Handles -> [0..MaxAccesses -> Nat]]
    <3>1. swc \in [Handles -> [0..MaxAccesses -> Nat]] /\ g \in 0..MaxAccesses
      <4>1. swc \in [Handles -> [0..MaxAccesses -> Nat]]
        BY <1>0 DEF TypeOK
      <4> QED
        BY <2>1, <4>1
    <3>2. swc[h][g] + 1 \in Nat
      BY <3>1
    <3>3. swc' = [swc EXCEPT ![h][g] = swc[h][g] + 1]
      BY <2>2
    <3> QED
      BY <3>1, <3>2, <3>3, CounterUpdate
  <2>5. walk' \in [Threads -> SUBSET DOMAIN acc']
    <3>1. walk \in [Threads -> SUBSET DOMAIN acc] /\ walk' = walk
      BY <1>0, <1>2 DEF TypeOK, UpdateDependencies
    <3> QED
      BY <2>1, <3>1
  <2>6. ready' \subseteq DOMAIN acc' /\ sig' \subseteq DOMAIN acc'
    BY <1>0, <1>2, <2>1 DEF TypeOK, UpdateDependencies
  <2>7. UNCHANGED <<phase, cur, kind, tstate, dev, pend, epi, late, flagged, cnt,
                    spawn, exec, flight, round>>
    BY <1>2 DEF UpdateDependencies, deviceVars
  <2>8. acc' \in Seq(Access) /\ Len(acc') <= MaxAccesses
    BY <2>1
  <2> QED
    BY <1>0, <2>3, <2>4, <2>5, <2>6, <2>7, <2>8 DEF TypeOK
<1>3. CASE Commit
  <2>1. cur \in Tasks /\ tstate[cur] = "alloc"
    BY <1>3 DEF Commit, IndInv, TypeOK, MainShape
  <2>2. wc[cur] \in Nat \ {0}
    <3>1. Cardinality(AccessesOf(cur) \ ready) \in Nat
      BY <1>0, AccessSetsFinite, FS_CardinalityType
    <3>2. wc[cur] = Cardinality(AccessesOf(cur) \ ready) + 1
      BY <2>1 DEF IndInv, CountersExact
    <3> QED
      BY <3>1, <3>2
  <2>3. wc' \in [Tasks -> Nat] /\ tstate' \in [Tasks -> TaskState]
    BY <1>0, <1>3, <2>1, <2>2 DEF Commit, TypeOK
  <2> QED
    BY <1>0, <1>3, <2>3 DEF Commit, TypeOK, graphVars, syncVars, deviceVars
<1>4. CASE BeginSync
  BY <1>0, <1>4 DEF BeginSync, TypeOK, graphVars, syncVars, deviceVars
<1>5. ASSUME NEW h \in Handles, ActivateHandle(h)
      PROVE  TypeOK'
  <2>1. swc' \in [Handles -> [0..MaxAccesses -> Nat]]
    <3>1. swc \in [Handles -> [0..MaxAccesses -> Nat]] /\ 0 \in 0..MaxAccesses
      BY <1>0 DEF TypeOK
    <3>2. swc' = [swc EXCEPT ![h][0] = 0] /\ 0 \in Nat
      BY <1>5, ActivateFacts
    <3> QED
      BY <3>1, <3>2, CounterUpdate
  <2>2. walk' \in [Threads -> SUBSET DOMAIN acc]
    <3>1. walk' = [walk EXCEPT ![Main] = Generation(h, 1)]
      BY <1>5, ActivateFacts
    <3>2. Generation(h, 1) \in SUBSET DOMAIN acc
      BY DEF Generation
    <3>3. walk \in [Threads -> SUBSET DOMAIN acc]
      BY <1>0 DEF TypeOK
    <3> QED
      BY <3>1, <3>2, <3>3
  <2> QED
    BY <1>0, <1>5, <2>1, <2>2 DEF ActivateHandle, TypeOK, graphVars, deviceVars
<1>6. ASSUME NEW th \in Threads, NEW i \in Index, Notify(th, i)
      PROVE  TypeOK'
  <2>1. wc' \in [Tasks -> Nat] /\ tstate' \in [Tasks -> TaskState]
        /\ i \in DOMAIN acc
    <3> DEFINE t == acc[i].task
    <3>1. /\ t \in Tasks /\ i \in DOMAIN acc /\ wc[t] - 1 \in Nat
          /\ wc' = [wc EXCEPT ![t] = wc[t] - 1]
          /\ tstate' = [tstate EXCEPT ![t] = IF AccessesOf(t) \subseteq ready \cup {i}
                                               THEN "ready" ELSE "waiting"]
      BY <1>6, NotifyFacts
    <3>2. wc \in [Tasks -> Nat] /\ tstate \in [Tasks -> TaskState]
      BY <1>0 DEF TypeOK
    <3> HIDE DEF t
    <3> QED
      BY <3>1, <3>2
  <2> QED
    BY <1>0, <1>6, <2>1 DEF Notify, TypeOK, graphVars, deviceVars
<1>7. CASE EndDfg
  <2>1. round < MaxRounds
    BY <1>7 DEF EndDfg, IndInv, MainShape
  <2> QED
    BY <1>0, <1>7, <2>1 DEF EndDfg, TypeOK, graphVars, syncVars, deviceVars
<1>8. CASE SyncReturn
  <2>1. round < MaxRounds
    BY <1>8 DEF SyncReturn, IndInv, MainShape
  <2>2. \A th \in Threads : walk'[th] = {}
    BY <1>8, QuiescentAtCompletion DEF SyncReturn, SyncQuiescent
  <2>3. walk' \in [Threads -> SUBSET DOMAIN acc']
    BY <1>0, <1>8, <2>2 DEF SyncReturn, TypeOK
  <2>4. acc' \in Seq(Access) /\ Len(acc') = 0
    BY <1>8 DEF SyncReturn
  <2>5. swc' \in [Handles -> [0..MaxAccesses -> Nat]]
    BY <1>8 DEF SyncReturn
  <2> QED
    BY <1>0, <1>8, <2>1, <2>3, <2>4, <2>5 DEF SyncReturn, TypeOK
<1>9. ASSUME NEW d \in Devices, NEW t \in Tasks, Pop(d, t)
      PROVE  TypeOK'
  BY <1>0, <1>9 DEF Pop, TypeOK, graphVars, syncVars
<1>10. ASSUME NEW d \in Devices, NEW t \in Tasks, Launch(d, t)
      PROVE  TypeOK'
  BY <1>0, <1>10 DEF Launch, TypeOK, graphVars, syncVars, deviceVars
<1>11. ASSUME NEW d \in Devices, NEW t \in Tasks, KernelEnd(d, t)
      PROVE  TypeOK'
  BY <1>0, <1>11 DEF KernelEnd, TypeOK, graphVars, syncVars
<1>12. ASSUME NEW d \in Devices, NEW i \in Index, SignalSuccessors(d, i)
      PROVE  TypeOK'
  <2>1. swc' \in [Handles -> [0..MaxAccesses -> Nat]] /\ sig' \subseteq DOMAIN acc
    <3> DEFINE h == acc[i].h
               g == acc[i].gen
    <3>0. /\ h \in Handles /\ g \in 1..MaxAccesses /\ i \in DOMAIN acc
          /\ sig' = sig \cup {i}
      BY <1>12, SignalFacts
    <3>1. swc' = [swc EXCEPT ![h][g] = swc[h][g] - 1] /\ swc[h][g] - 1 \in Nat
      BY <1>12, SignalFacts
    <3> HIDE DEF h, g
    <3>2. /\ swc \in [Handles -> [0..MaxAccesses -> Nat]] /\ sig' \subseteq DOMAIN acc
          /\ h \in Handles /\ g \in 0..MaxAccesses
      <4>1. swc \in [Handles -> [0..MaxAccesses -> Nat]] /\ sig \subseteq DOMAIN acc
        BY <1>0 DEF TypeOK
      <4> QED
        BY <3>0, <4>1
    <3>3. swc' \in [Handles -> [0..MaxAccesses -> Nat]]
      BY <3>1, <3>2, CounterUpdate
    <3> QED
      BY <3>2, <3>3
  <2>2. walk' \in [Threads -> SUBSET DOMAIN acc]
    <3> DEFINE W == IF Generation(acc[i].h, acc[i].gen) \subseteq sig \cup {i}
                    THEN Generation(acc[i].h, acc[i].gen + 1) ELSE {}
    <3>1. walk' = [walk EXCEPT ![d] = W]
      BY <1>12, SignalFacts
    <3>2. W \in SUBSET DOMAIN acc
      BY DEF Generation
    <3>3. walk \in [Threads -> SUBSET DOMAIN acc]
      BY <1>0 DEF TypeOK
    <3> HIDE DEF W
    <3> QED
      BY <3>1, <3>2, <3>3
  <2> QED
    BY <1>0, <1>12, <2>1, <2>2 DEF SignalSuccessors, TypeOK, graphVars, deviceVars
<1>13. ASSUME NEW d \in Devices, FinishEpilogue(d)
      PROVE  TypeOK'
  BY <1>0, <1>13 DEF FinishEpilogue, TypeOK, graphVars, syncVars
<1>14. ASSUME NEW d \in Devices, MarkExec(d)
      PROVE  TypeOK'
  BY <1>0, <1>14 DEF MarkExec, TypeOK, graphVars, syncVars
<1>15. ASSUME NEW t \in Tasks, WritebackArrived(t)
      PROVE  TypeOK'
  BY <1>0, <1>15 DEF WritebackArrived, TypeOK, graphVars, syncVars, deviceVars
<1>16. CASE UNCHANGED vars
  BY <1>0, <1>16 DEF vars, TypeOK, graphVars, syncVars, deviceVars
<1> QED
  BY <1>1, <1>2, <1>3, <1>4, <1>5, <1>6, <1>7, <1>8, <1>9, <1>10, <1>11, <1>12,
     <1>13, <1>14, <1>15, <1>16
     DEF Next, Build, Sync, Device, Terminated

-----------------------------------------------------------------------------
(* The main thread.                                                        *)

\* The counters of the synchronisation points after the actions that change
\* them, point by point.
LEMMA CounterValues ==
    ASSUME IndInv
    PROVE  /\ \A h \in Handles, m \in Modes : UpdateDependencies(h, m) =>
                 \A hh \in Handles, gg \in 0..MaxAccesses :
                    swc'[hh][gg] = IF hh = h /\ gg = NextGeneration(h, m)
                                   THEN swc[hh][gg] + 1 ELSE swc[hh][gg]
           /\ \A h \in Handles : ActivateHandle(h) =>
                 \A hh \in Handles, gg \in 0..MaxAccesses :
                    swc'[hh][gg] = IF hh = h /\ gg = 0 THEN 0 ELSE swc[hh][gg]
           /\ \A d \in Devices, i \in Index : SignalSuccessors(d, i) =>
                 \A hh \in Handles, gg \in 0..MaxAccesses :
                    swc'[hh][gg] = IF hh = acc[i].h /\ gg = acc[i].gen
                                   THEN swc[hh][gg] - 1 ELSE swc[hh][gg]
<1> USE DataFlowAssumption
<1>0. swc \in [Handles -> [0..MaxAccesses -> Nat]]
  BY DEF IndInv, TypeOK
<1>1. ASSUME NEW h \in Handles, NEW m \in Modes, UpdateDependencies(h, m),
             NEW hh \in Handles, NEW gg \in 0..MaxAccesses
      PROVE  swc'[hh][gg] = IF hh = h /\ gg = NextGeneration(h, m)
                            THEN swc[hh][gg] + 1 ELSE swc[hh][gg]
  <2> DEFINE g == NextGeneration(h, m)
  <2>1. swc' = [swc EXCEPT ![h][g] = swc[h][g] + 1]
    BY <1>1 DEF UpdateDependencies
  <2>2. g \in Index
    BY <1>1, UpdateFacts
  <2> HIDE DEF g
  <2>3. g \in 0..MaxAccesses /\ swc[h][g] + 1 \in Nat
    BY <1>0, <2>2
  <2>4. swc'[hh][gg] = IF hh = h /\ gg = g THEN swc[h][g] + 1 ELSE swc[hh][gg]
    BY <1>0, <2>1, <2>3, CounterUpdate
  <2> QED
    BY <2>4 DEF g
<1>2. ASSUME NEW h \in Handles, ActivateHandle(h),
             NEW hh \in Handles, NEW gg \in 0..MaxAccesses
      PROVE  swc'[hh][gg] = IF hh = h /\ gg = 0 THEN 0 ELSE swc[hh][gg]
  <2>1. swc' = [swc EXCEPT ![h][0] = 0] /\ 0 \in Nat /\ 0 \in 0..MaxAccesses
    BY <1>2, ActivateFacts
  <2> QED
    BY <1>0, <2>1, CounterUpdate
<1>3. ASSUME NEW d \in Devices, NEW i \in Index, SignalSuccessors(d, i),
             NEW hh \in Handles, NEW gg \in 0..MaxAccesses
      PROVE  swc'[hh][gg] = IF hh = acc[i].h /\ gg = acc[i].gen
                            THEN swc[hh][gg] - 1 ELSE swc[hh][gg]
  <2> DEFINE h == acc[i].h
             g == acc[i].gen
  <2>1. /\ swc' = [swc EXCEPT ![h][g] = swc[h][g] - 1]
        /\ h \in Handles /\ g \in 1..MaxAccesses /\ swc[h][g] - 1 \in Nat
    BY <1>3, SignalFacts
  <2> HIDE DEF h, g
  <2>2. g \in 0..MaxAccesses
    BY <2>1
  <2>3. swc'[hh][gg] = IF hh = h /\ gg = g THEN swc[h][g] - 1 ELSE swc[hh][gg]
    BY <1>0, <2>1, <2>2, CounterUpdate
  <2> QED
    BY <2>3 DEF h, g
<1> QED
  BY <1>1, <1>2, <1>3

\* Without a committed task the graph is empty.
LEMMA NoTaskNoGraph ==
    ASSUME IndInv, cur = NoTask, phase # "wait", cnt = 0
    PROVE  acc = <<>> /\ \A h \in Handles : nsync[h] = 0
<1> USE DataFlowAssumption
<1>1. Cardinality(Committed) = 0
  BY DEF IndInv, FrameShape
<1>2. Committed = {}
  <2>1. IsFiniteSet(Committed)
    BY FS_Subset DEF Committed
  <2> QED
    BY <1>1, <2>1, FS_EmptySet
<1>3. ASSUME NEW t \in Tasks PROVE AccessesOf(t) = {}
  <2>1. tstate[t] \in {"free", "alloc"}
    BY <1>2 DEF Committed
  <2>2. tstate[t] # "alloc"
    BY DEF IndInv, MainShape
  <2> QED
    BY <2>1, <2>2 DEF IndInv, TaskShape
<1>4. DOMAIN acc = {}
  BY <1>3, AccessTypes DEF IndInv, AccessesOf
<1>5. acc = <<>>
  BY <1>4, AccessTypes DEF IndInv, TypeOK
<1>6. \A h \in Handles : nsync[h] = 0
  BY <1>4 DEF IndInv, GraphShape
<1> QED
  BY <1>5, <1>6

\* An action keeps the main thread and the released handles in step.
LEMMA MainShapeStep == IndInv /\ [Next]_vars => MainShape'
<1> SUFFICES ASSUME IndInv, [Next]_vars PROVE MainShape'
  OBVIOUS
<1> USE DataFlowAssumption
<1>0. TypeOK /\ MainShape
  BY DEF IndInv
<1>1. ASSUME NEW t \in Tasks, NEW k \in {"kernel", "writeback"}, AllocTask(t, k)
      PROVE  MainShape'
  BY <1>0, <1>1 DEF AllocTask, TypeOK, MainShape, graphVars, syncVars, deviceVars
<1>2. ASSUME NEW h \in Handles, NEW m \in Modes, UpdateDependencies(h, m)
      PROVE  MainShape'
  <2>1. /\ NextGeneration(h, m) \in Index /\ phase = "build"
    BY <1>2, UpdateFacts
  <2>2. \A hh \in Handles : swc'[hh][0] = swc[hh][0]
    BY <1>2, <2>1, CounterValues
  <2>3. UNCHANGED <<phase, cur, tstate, ready, sig, walk, pend, round>>
    BY <1>2 DEF UpdateDependencies
  <2> QED
    BY <1>0, <2>1, <2>2, <2>3 DEF MainShape
<1>3. CASE Commit
  BY <1>0, <1>3 DEF Commit, TypeOK, MainShape, graphVars, syncVars, deviceVars
<1>4. CASE BeginSync
  BY <1>0, <1>4 DEF BeginSync, TypeOK, MainShape, graphVars, syncVars, deviceVars
<1>5. ASSUME NEW h \in Handles, ActivateHandle(h)
      PROVE  MainShape'
  <2>1. \A hh \in Handles : swc'[hh][0] = IF hh = h THEN 0 ELSE swc[hh][0]
    BY <1>5, CounterValues
  <2>2. /\ phase = "activate" /\ h \in pend /\ pend' = pend \ {h}
        /\ UNCHANGED <<phase, cur, tstate, ready, sig, nsync, round>>
    BY <1>5 DEF ActivateHandle, graphVars
  <2> QED
    BY <1>0, <2>1, <2>2 DEF MainShape
<1>6. ASSUME NEW th \in Threads, NEW i \in Index, Notify(th, i)
      PROVE  MainShape'
  <2> DEFINE t == acc[i].task
  <2>1. /\ phase # "build" /\ tstate[t] = "waiting" /\ t \in Tasks
        /\ tstate' = [tstate EXCEPT ![t] = IF AccessesOf(t) \subseteq ready \cup {i}
                                             THEN "ready" ELSE "waiting"]
    BY <1>6, NotifyFacts
  <2> HIDE DEF t
  <2>2. /\ walk' = [walk EXCEPT ![th] = walk[th] \ {i}]
        /\ UNCHANGED <<phase, cur, sig, swc, pend, nsync, round>>
    BY <1>6 DEF Notify, graphVars
  <2>3. walk[Main] = {} => walk'[Main] = {}
    BY <1>0, <2>2 DEF TypeOK
  <2>4. \A u \in Tasks : tstate'[u] = "alloc" => tstate[u] = "alloc"
    BY <1>0, <2>1 DEF TypeOK
  <2>5. cur = NoTask
    BY <1>0, <2>1 DEF MainShape
  <2> QED
    BY <1>0, <2>1, <2>2, <2>3, <2>4, <2>5 DEF MainShape
<1>7. CASE EndDfg
  <2>1. cur = NoTask
    BY <1>0, <1>7 DEF EndDfg, MainShape
  <2>2. cnt = 0 => acc = <<>> /\ \A h \in Handles : nsync[h] = 0
    BY <1>7, <2>1, NoTaskNoGraph DEF EndDfg
  <2>3. cnt = 0 => ready = {} /\ sig = {}
    BY <1>0, <2>2 DEF TypeOK
  <2> QED
    BY <1>0, <1>7, <2>1, <2>2, <2>3
       DEF EndDfg, MainShape, graphVars, syncVars, deviceVars
<1>8. CASE SyncReturn
  <2>1. cur = NoTask /\ pend = {} /\ walk[Main] = {}
    BY <1>0, <1>8 DEF SyncReturn, MainShape
  <2> QED
    BY <1>8, <2>1 DEF SyncReturn, MainShape
<1>9. ASSUME NEW d \in Devices, NEW t \in Tasks, Pop(d, t)
      PROVE  MainShape'
  BY <1>0, <1>9 DEF Pop, TypeOK, MainShape, graphVars, syncVars
<1>10. ASSUME NEW d \in Devices, NEW t \in Tasks, Launch(d, t)
      PROVE  MainShape'
  BY <1>0, <1>10 DEF Launch, TypeOK, MainShape, graphVars, syncVars, deviceVars
<1>11. ASSUME NEW d \in Devices, NEW t \in Tasks, KernelEnd(d, t)
      PROVE  MainShape'
  BY <1>0, <1>11 DEF KernelEnd, TypeOK, MainShape, graphVars, syncVars
<1>12. ASSUME NEW d \in Devices, NEW i \in Index, SignalSuccessors(d, i)
      PROVE  MainShape'
  <2>1. phase # "build" /\ acc[i].gen \in 1..MaxAccesses
    BY <1>12, SignalFacts
  <2>2. \A hh \in Handles : swc'[hh][0] = swc[hh][0]
    BY <1>12, <2>1, CounterValues
  <2>3. walk'[Main] = walk[Main]
    BY <1>0, <1>12 DEF SignalSuccessors, SignalSyncPoint, TypeOK
  <2>4. UNCHANGED <<phase, cur, tstate, ready, pend, nsync, round>>
    BY <1>12 DEF SignalSuccessors, graphVars
  <2> QED
    BY <1>0, <2>1, <2>2, <2>3, <2>4 DEF MainShape
<1>13. ASSUME NEW d \in Devices, FinishEpilogue(d)
      PROVE  MainShape'
  <2>1. tstate[epi[d]] = "epilogue" /\ epi[d] \in Tasks
    BY <1>0, <1>13 DEF FinishEpilogue, IndInv, DeviceShape, TypeOK
  <2> QED
    BY <1>0, <1>13, <2>1 DEF FinishEpilogue, TypeOK, MainShape, graphVars, syncVars
<1>14. ASSUME NEW d \in Devices, MarkExec(d)
      PROVE  MainShape'
  BY <1>0, <1>14 DEF MarkExec, MainShape, graphVars, syncVars
<1>15. ASSUME NEW t \in Tasks, WritebackArrived(t)
      PROVE  MainShape'
  BY <1>0, <1>15 DEF WritebackArrived, MainShape, graphVars, syncVars, deviceVars
<1>16. CASE UNCHANGED vars
  BY <1>0, <1>16 DEF vars, MainShape, graphVars, syncVars, deviceVars
<1> QED
  BY <1>1, <1>2, <1>3, <1>4, <1>5, <1>6, <1>7, <1>8, <1>9, <1>10, <1>11, <1>12,
     <1>13, <1>14, <1>15, <1>16
     DEF Next, Build, Sync, Device, Terminated

-----------------------------------------------------------------------------
(* The life cycle of tasks.                                                *)

\* The effect of a commit: the task is pushed at once exactly when all of its
\* accesses are ready.
LEMMA CommitFacts ==
    ASSUME IndInv, Commit
    PROVE  /\ cur \in Tasks /\ tstate[cur] = "alloc" /\ phase = "build"
           /\ wc[cur] = Cardinality(AccessesOf(cur) \ ready) + 1
           /\ wc' = [wc EXCEPT ![cur] = Cardinality(AccessesOf(cur) \ ready)]
           /\ tstate' = [tstate EXCEPT ![cur] = IF AccessesOf(cur) \subseteq ready
                                                  THEN "ready" ELSE "waiting"]
<1> USE DataFlowAssumption
<1>1. cur \in Tasks /\ tstate[cur] = "alloc" /\ phase = "build"
  BY DEF Commit, IndInv, TypeOK, MainShape
<1>2. wc[cur] = Cardinality(AccessesOf(cur) \ ready) + 1
  BY <1>1 DEF IndInv, CountersExact
<1>3. /\ IsFiniteSet(AccessesOf(cur) \ ready)
      /\ Cardinality(AccessesOf(cur) \ ready) \in Nat
  BY AccessSetsFinite, FS_CardinalityType DEF IndInv
<1>4. Cardinality(AccessesOf(cur) \ ready) = 0 <=> AccessesOf(cur) \subseteq ready
  <2>1. Cardinality(AccessesOf(cur) \ ready) = 0 <=> AccessesOf(cur) \ ready = {}
    BY <1>3, FS_EmptySet
  <2> QED
    BY <2>1
<1>5. wc' = [wc EXCEPT ![cur] = wc[cur] - 1] /\ wc'[cur] = wc[cur] - 1
  BY <1>1 DEF Commit, IndInv, TypeOK
<1>6. wc[cur] - 1 = Cardinality(AccessesOf(cur) \ ready)
  BY <1>2, <1>3
<1>7. tstate' = [tstate EXCEPT ![cur] = IF wc'[cur] = 0 THEN "ready" ELSE "waiting"]
  BY DEF Commit
<1> QED
  BY <1>1, <1>2, <1>4, <1>5, <1>6, <1>7

\* An action keeps the state of every task in step with its accesses.
LEMMA TaskShapeStep == IndInv /\ [Next]_vars => TaskShape'
<1> SUFFICES ASSUME IndInv, [Next]_vars PROVE TaskShape'
  OBVIOUS
<1> USE DataFlowAssumption
<1>0. TypeOK /\ TaskShape
  BY DEF IndInv
<1>a. ASSUME UNCHANGED acc PROVE \A t : AccessesOf(t)' = AccessesOf(t)
  BY <1>a DEF AccessesOf
<1>1. ASSUME NEW t \in Tasks, NEW k \in {"kernel", "writeback"}, AllocTask(t, k)
      PROVE  TaskShape'
  BY <1>0, <1>1, <1>a DEF AllocTask, TypeOK, TaskShape, graphVars, syncVars
<1>2. ASSUME NEW h \in Handles, NEW m \in Modes, UpdateDependencies(h, m)
      PROVE  TaskShape'
  <2> DEFINE n == Len(acc) + 1
  <2>1. /\ tstate[cur] = "alloc" /\ phase = "build"
        /\ \A t : AccessesOf(t)' = IF t = cur THEN AccessesOf(t) \cup {n} ELSE AccessesOf(t)
    BY <1>2, UpdateFacts
  <2>2. ready = {} /\ sig = {} /\ UNCHANGED <<tstate, ready, sig>>
    BY <1>2, <2>1 DEF UpdateDependencies, IndInv, MainShape
  <2> QED
    BY <1>0, <2>1, <2>2 DEF TaskShape
<1>3. CASE Commit
  <2>1. UNCHANGED <<acc, ready, sig>>
    BY <1>3 DEF Commit, graphVars, syncVars
  <2>2. ready = {} /\ sig = {}
    BY <1>3, CommitFacts DEF IndInv, MainShape
  <2>3. /\ cur \in Tasks
        /\ tstate' = [tstate EXCEPT ![cur] = IF AccessesOf(cur) \subseteq ready
                                               THEN "ready" ELSE "waiting"]
    BY <1>3, CommitFacts
  <2>4. \A t : AccessesOf(t)' = AccessesOf(t)
    BY <1>a, <2>1
  <2>5. ASSUME NEW t \in Tasks
        PROVE  /\ tstate'[t] = "free" => AccessesOf(t) = {}
               /\ tstate'[t] = "waiting" => AccessesOf(t) \ ready # {}
               /\ tstate'[t] \in Started \cup {"ready"} => AccessesOf(t) \subseteq ready
               /\ tstate'[t] = "done" => AccessesOf(t) \subseteq sig
    <3>1. CASE t = cur
      BY <1>0, <2>3, <3>1 DEF TypeOK
    <3>2. CASE t # cur
      BY <1>0, <2>3, <3>2 DEF TypeOK, TaskShape
    <3> QED
      BY <3>1, <3>2
  <2> QED
    BY <2>1, <2>2, <2>4, <2>5 DEF TaskShape
<1>4. CASE BeginSync
  BY <1>0, <1>4, <1>a DEF BeginSync, TaskShape, graphVars, syncVars
<1>5. ASSUME NEW h \in Handles, ActivateHandle(h)
      PROVE  TaskShape'
  BY <1>0, <1>5, <1>a DEF ActivateHandle, TaskShape, graphVars
<1>6. ASSUME NEW th \in Threads, NEW i \in Index, Notify(th, i)
      PROVE  TaskShape'
  <2> DEFINE t == acc[i].task
  <2>1. /\ tstate[t] = "waiting" /\ t \in Tasks /\ i \in AccessesOf(t)
        /\ tstate' = [tstate EXCEPT ![t] = IF AccessesOf(t) \subseteq ready \cup {i}
                                             THEN "ready" ELSE "waiting"]
    BY <1>6, NotifyFacts
  <2>2. ready' = ready \cup {i} /\ UNCHANGED <<acc, sig>>
    BY <1>6 DEF Notify, graphVars
  <2>3. \A u : AccessesOf(u)' = AccessesOf(u)
    BY <2>2, <1>a
  <2>4. \A u \in Tasks : u # t => i \notin AccessesOf(u)
    BY DEF AccessesOf
  <2> HIDE DEF t
  <2>5. \A u \in Tasks : u # t => tstate'[u] = tstate[u]
    BY <1>0, <2>1 DEF TypeOK
  <2>6. tstate'[t] = IF AccessesOf(t) \subseteq ready' THEN "ready" ELSE "waiting"
    BY <1>0, <2>1, <2>2 DEF TypeOK
  <2>7. ASSUME NEW u \in Tasks
        PROVE  /\ tstate'[u] = "free" => AccessesOf(u)' = {}
               /\ tstate'[u] = "waiting" => AccessesOf(u)' \ ready' # {}
               /\ tstate'[u] \in Started \cup {"ready"} => AccessesOf(u)' \subseteq ready'
               /\ tstate'[u] = "done" => AccessesOf(u)' \subseteq sig'
    <3>1. CASE u = t
      BY <3>1, <2>3, <2>6
    <3>2. CASE u # t
      BY <1>0, <3>2, <2>2, <2>3, <2>4, <2>5 DEF TaskShape
    <3> QED
      BY <3>1, <3>2
  <2>8. \A j \in sig' : tstate'[acc'[j].task] \in Finished
    <3> SUFFICES ASSUME NEW j \in sig PROVE tstate'[acc[j].task] \in Finished
      BY <2>2
    <3>1. acc[j].task \in Tasks /\ tstate[acc[j].task] \in Finished
      BY <1>0, AccessTypes DEF TaskShape, TypeOK
    <3> QED
      BY <3>1, <2>1, <2>5
  <2> QED
    BY <2>7, <2>8 DEF TaskShape
<1>7. CASE EndDfg
  BY <1>0, <1>7, <1>a DEF EndDfg, TaskShape, graphVars, syncVars
<1>8. CASE SyncReturn
  <2>1. \A t : AccessesOf(t)' = {}
    BY <1>8 DEF SyncReturn, AccessesOf
  <2> QED
    BY <1>8, <2>1 DEF SyncReturn, TaskShape
<1>b. \A i \in sig : acc[i].task \in Tasks /\ tstate[acc[i].task] \in Finished
  BY <1>0, AccessTypes DEF TaskShape, TypeOK
<1>9. ASSUME NEW d \in Devices, NEW t \in Tasks, Pop(d, t)
      PROVE  TaskShape'
  BY <1>0, <1>9, <1>a, <1>b DEF Pop, TypeOK, TaskShape, graphVars, syncVars
<1>10. ASSUME NEW d \in Devices, NEW t \in Tasks, Launch(d, t)
      PROVE  TaskShape'
  BY <1>0, <1>10, <1>a, <1>b DEF Launch, TypeOK, TaskShape, graphVars, syncVars
<1>11. ASSUME NEW d \in Devices, NEW t \in Tasks, KernelEnd(d, t)
      PROVE  TaskShape'
  BY <1>0, <1>11, <1>a, <1>b DEF KernelEnd, TypeOK, TaskShape, graphVars, syncVars
<1>12. ASSUME NEW d \in Devices, NEW i \in Index, SignalSuccessors(d, i)
      PROVE  TaskShape'
  <2>1. /\ sig' = sig \cup {i} /\ acc[i].task = epi[d] /\ tstate[epi[d]] = "epilogue"
    BY <1>12, SignalFacts
  <2>2. UNCHANGED <<acc, ready, tstate>>
    BY <1>12 DEF SignalSuccessors, graphVars
  <2> QED
    BY <1>0, <1>a, <2>1, <2>2 DEF TaskShape
<1>13. ASSUME NEW d \in Devices, FinishEpilogue(d)
      PROVE  TaskShape'
  <2>1. tstate[epi[d]] = "epilogue" /\ epi[d] \in Tasks
    BY <1>0, <1>13 DEF FinishEpilogue, IndInv, DeviceShape, TypeOK
  <2> QED
    BY <1>0, <1>13, <1>a, <1>b, <2>1
       DEF FinishEpilogue, TypeOK, TaskShape, graphVars, syncVars
<1>14. ASSUME NEW d \in Devices, MarkExec(d)
      PROVE  TaskShape'
  BY <1>0, <1>14, <1>a DEF MarkExec, TaskShape, graphVars, syncVars
<1>15. ASSUME NEW t \in Tasks, WritebackArrived(t)
      PROVE  TaskShape'
  BY <1>0, <1>15, <1>a DEF WritebackArrived, TaskShape, graphVars, syncVars
<1>16. CASE UNCHANGED vars
  BY <1>0, <1>16, <1>a DEF vars, TaskShape, graphVars, syncVars
<1> QED
  BY <1>1, <1>2, <1>3, <1>4, <1>5, <1>6, <1>7, <1>8, <1>9, <1>10, <1>11, <1>12,
     <1>13, <1>14, <1>15, <1>16
     DEF Next, Build, Sync, Device, Terminated

-----------------------------------------------------------------------------
(* The release of generations.                                             *)

\* While the graph is built nobody traverses a list.
LEMMA NoWalkInBuild ==
    ASSUME IndInv, phase = "build"
    PROVE  ready = {} /\ sig = {} /\ \A th \in Threads : walk[th] = {}
<1>1. ready = {} /\ sig = {}
  BY DEF IndInv, MainShape
<1>2. ASSUME NEW th \in Threads, NEW i \in walk[th] PROVE FALSE
  <2>1. i \in DOMAIN acc /\ acc[i].h \in Handles
    BY <1>2, AccessTypes DEF IndInv, TypeOK
  <2>2. swc[acc[i].h][0] = 0
    BY <1>2, <2>1 DEF IndInv, Released
  <2> QED
    BY <2>1, <2>2 DEF IndInv, MainShape
<1> QED
  BY <1>1, <1>2

\* The actions that leave the graph, the marks and the lists alone.
LEMMA QuietActions ==
    ASSUME [Next]_vars
    PROVE  \/ UNCHANGED <<acc, ready, sig, swc, walk>>
           \/ \E h \in Handles, m \in Modes : UpdateDependencies(h, m)
           \/ \E h \in Handles : ActivateHandle(h)
           \/ \E th \in Threads, i \in Index : Notify(th, i)
           \/ SyncReturn
           \/ \E d \in Devices, i \in Index : SignalSuccessors(d, i)
BY DEF Next, Build, Sync, Device, Terminated, vars, AllocTask, Commit, BeginSync,
       EndDfg, Pop, Launch, KernelEnd, FinishEpilogue, MarkExec, WritebackArrived,
       graphVars, syncVars

\* An action makes an access ready, or puts it on a list to traverse, only
\* after every access of the earlier generations was signalled.
LEMMA ReleasedStep == IndInv /\ [Next]_vars => Released'
<1> SUFFICES ASSUME IndInv, [Next]_vars PROVE Released'
  OBVIOUS
<1> USE DataFlowAssumption
<1>0. TypeOK /\ Released
  BY DEF IndInv
<1>1. CASE UNCHANGED <<acc, ready, sig, swc, walk>>
  BY <1>0, <1>1 DEF Released
<1>2. ASSUME NEW h \in Handles, NEW m \in Modes, UpdateDependencies(h, m)
      PROVE  Released'
  <2>1. phase = "build" /\ UNCHANGED <<ready, walk>>
    BY <1>2 DEF UpdateDependencies
  <2> QED
    BY <2>1, NoWalkInBuild DEF Released
<1>3. ASSUME NEW h \in Handles, ActivateHandle(h)
      PROVE  Released'
  <2>1. /\ walk' = [walk EXCEPT ![Main] = Generation(h, 1)]
        /\ UNCHANGED <<acc, ready, sig>>
    BY <1>3, ActivateFacts DEF ActivateHandle, graphVars
  <2>2. \A hh \in Handles : swc'[hh][0] = IF hh = h THEN 0 ELSE swc[hh][0]
    BY <1>3, CounterValues
  <2> SUFFICES ASSUME NEW i \in DOMAIN acc,
                      i \in ready \/ \E th \in Threads : i \in walk'[th]
               PROVE  /\ swc'[acc[i].h][0] = 0
                      /\ \A j \in DOMAIN acc :
                           acc[j].h = acc[i].h /\ acc[j].gen < acc[i].gen => j \in sig
    BY <2>1 DEF Released
  <2>3. CASE i \in Generation(h, 1)
    <3>1. acc[i].h = h /\ acc[i].gen = 1
      BY <2>3 DEF Generation
    <3>2. \A j \in DOMAIN acc : acc[j].gen \in 1..MaxAccesses
      BY <1>0, AccessTypes
    <3> QED
      BY <2>2, <3>1, <3>2
  <2>4. CASE i \in ready \/ \E th \in Threads : i \in walk[th]
    <3>1. acc[i].h \in Handles
      BY <1>0, AccessTypes
    <3> QED
      BY <1>0, <2>2, <2>4, <3>1 DEF Released
  <2> QED
    BY <1>0, <2>1, <2>3, <2>4 DEF TypeOK
<1>4. ASSUME NEW th \in Threads, NEW i \in Index, Notify(th, i)
      PROVE  Released'
  <2>1. /\ walk' = [walk EXCEPT ![th] = walk[th] \ {i}] /\ i \in walk[th]
        /\ ready' = ready \cup {i}
        /\ UNCHANGED <<acc, sig, swc>>
    BY <1>4 DEF Notify, graphVars
  <2>2. \A u \in Threads : walk'[u] \subseteq walk[u]
    BY <1>0, <2>1 DEF TypeOK
  <2> QED
    BY <1>0, <2>1, <2>2 DEF Released
<1>5. CASE SyncReturn
  BY <1>5 DEF SyncReturn, Released
<1>6. ASSUME NEW d \in Devices, NEW i \in Index, SignalSuccessors(d, i)
      PROVE  Released'
  <2> DEFINE h == acc[i].h
             g == acc[i].gen
  <2>1. /\ i \in DOMAIN acc /\ i \in ready /\ h \in Handles /\ g \in 1..MaxAccesses
        /\ sig' = sig \cup {i}
        /\ walk' = [walk EXCEPT ![d] = IF Generation(h, g) \subseteq sig \cup {i}
                                        THEN Generation(h, g + 1) ELSE {}]
    BY <1>6, SignalFacts
  <2>2. UNCHANGED <<acc, ready>>
    BY <1>6 DEF SignalSuccessors, graphVars
  <2>3. \A hh \in Handles : swc'[hh][0] = swc[hh][0]
    BY <1>6, <2>1, CounterValues
  <2> SUFFICES ASSUME NEW k \in DOMAIN acc,
                      k \in ready \/ \E th \in Threads : k \in walk'[th]
               PROVE  /\ swc'[acc[k].h][0] = 0
                      /\ \A j \in DOMAIN acc :
                           acc[j].h = acc[k].h /\ acc[j].gen < acc[k].gen => j \in sig'
    BY <2>2 DEF Released
  <2>4. CASE k \in ready \/ \E th \in Threads : k \in walk[th]
    <3>1. acc[k].h \in Handles
      BY <1>0, AccessTypes
    <3> QED
      BY <1>0, <2>1, <2>3, <2>4, <3>1 DEF Released
  <2>5. CASE k \in Generation(h, g + 1) /\ Generation(h, g) \subseteq sig \cup {i}
    <3>1. acc[k].h = h /\ acc[k].gen = g + 1
      BY <2>5 DEF Generation
    <3>2. /\ swc[h][0] = 0
          /\ \A j \in DOMAIN acc : acc[j].h = h /\ acc[j].gen < g => j \in sig
      BY <1>0, <2>1 DEF Released
    <3>3. ASSUME NEW j \in DOMAIN acc, acc[j].h = h, acc[j].gen < g + 1
          PROVE  j \in sig'
      <4>1. acc[j].gen \in Nat /\ g \in Nat
        BY <1>0, AccessTypes, <2>1
      <4>2. CASE acc[j].gen = g
        BY <2>1, <2>5, <3>3, <4>2 DEF Generation
      <4>3. CASE acc[j].gen < g
        BY <2>1, <3>2, <3>3, <4>3
      <4> QED
        BY <3>3, <4>1, <4>2, <4>3
    <3> QED
      BY <2>1, <2>3, <3>1, <3>2, <3>3
  <2> HIDE DEF h, g
  <2> QED
    BY <1>0, <2>1, <2>4, <2>5 DEF TypeOK
<1> QED
  BY <1>1, <1>2, <1>3, <1>4, <1>5, <1>6, QuietActions

\* An action gives a list to at most one thread.
LEMMA WalksApartStep == IndInv /\ [Next]_vars => WalksApart'
<1> SUFFICES ASSUME IndInv, [Next]_vars PROVE WalksApart'
  OBVIOUS
<1> USE DataFlowAssumption
<1>0. TypeOK /\ WalksApart
  BY DEF IndInv
<1>a. ASSUME NEW d \in Threads, NEW W, walk' = [walk EXCEPT ![d] = W],
             UNCHANGED ready, W \cap ready = {},
             \A th \in Threads : W \cap walk[th] = {}
      PROVE  WalksApart'
  <2>1. \A th \in Threads : walk'[th] = IF th = d THEN W ELSE walk[th]
    BY <1>0, <1>a DEF TypeOK
  <2> QED
    BY <1>0, <1>a, <2>1 DEF WalksApart
<1>1. CASE UNCHANGED <<acc, ready, sig, swc, walk>>
  BY <1>0, <1>1 DEF WalksApart
<1>2. ASSUME NEW h \in Handles, NEW m \in Modes, UpdateDependencies(h, m)
      PROVE  WalksApart'
  BY <1>0, <1>2 DEF UpdateDependencies, WalksApart
<1>3. ASSUME NEW h \in Handles, ActivateHandle(h)
      PROVE  WalksApart'
  <2>1. walk' = [walk EXCEPT ![Main] = Generation(h, 1)] /\ swc[h][0] = 1
        /\ UNCHANGED ready
    BY <1>3, ActivateFacts DEF ActivateHandle
  <2>2. ASSUME NEW k \in Generation(h, 1),
               k \in ready \/ \E th \in Threads : k \in walk[th]
        PROVE  FALSE
    <3>1. k \in DOMAIN acc /\ acc[k].h = h
      BY <2>2 DEF Generation
    <3>2. swc[h][0] = 0
      BY <2>2, <3>1 DEF IndInv, Released
    <3> QED
      BY <2>1, <3>2
  <2>3. Generation(h, 1) \cap ready = {}
        /\ \A th \in Threads : Generation(h, 1) \cap walk[th] = {}
    BY <2>2
  <2> QED
    BY <1>a, <2>1, <2>3
<1>4. ASSUME NEW th \in Threads, NEW i \in Index, Notify(th, i)
      PROVE  WalksApart'
  <2>1. /\ walk' = [walk EXCEPT ![th] = walk[th] \ {i}] /\ i \in walk[th]
        /\ ready' = ready \cup {i}
    BY <1>4 DEF Notify
  <2>2. \A u \in Threads : walk'[u] = IF u = th THEN walk[th] \ {i} ELSE walk[u]
    BY <1>0, <2>1 DEF TypeOK
  <2> QED
    BY <1>0, <2>1, <2>2 DEF WalksApart
<1>5. CASE SyncReturn
  BY <1>0, <1>5 DEF SyncReturn, WalksApart
<1>6. ASSUME NEW d \in Devices, NEW i \in Index, SignalSuccessors(d, i)
      PROVE  WalksApart'
  <2> DEFINE h == acc[i].h
             g == acc[i].gen
             W == IF Generation(h, g) \subseteq sig \cup {i}
                  THEN Generation(h, g + 1) ELSE {}
  <2>1. /\ i \in DOMAIN acc /\ i \notin sig /\ g \in 1..MaxAccesses
        /\ walk' = [walk EXCEPT ![d] = W]
    BY <1>6, SignalFacts
  <2>2. UNCHANGED ready
    BY <1>6 DEF SignalSuccessors
  <2>3. ASSUME NEW k \in W,
               k \in ready \/ \E th \in Threads : k \in walk[th]
        PROVE  FALSE
    <3>1. k \in DOMAIN acc /\ acc[k].h = h /\ acc[k].gen = g + 1
      BY <2>3 DEF Generation
    <3>2. g < g + 1
      BY <2>1
    <3> QED
      BY <2>1, <2>3, <3>1, <3>2 DEF IndInv, Released
  <2>4. W \cap ready = {} /\ \A th \in Threads : W \cap walk[th] = {}
    BY <2>3
  <2> HIDE DEF W
  <2> QED
    BY <1>a, <2>1, <2>2, <2>4
<1> QED
  BY <1>1, <1>2, <1>3, <1>4, <1>5, <1>6, QuietActions

-----------------------------------------------------------------------------
(* The device threads.                                                     *)

\* An action keeps the device threads in step with the tasks they execute.
LEMMA DeviceShapeStep == IndInv /\ [Next]_vars => DeviceShape'
<1> SUFFICES ASSUME IndInv, [Next]_vars PROVE DeviceShape'
  OBVIOUS
<1> USE DataFlowAssumption
<1>0. TypeOK /\ DeviceShape
  BY DEF IndInv
<1>1. ASSUME NEW t \in Tasks, NEW k \in {"kernel", "writeback"}, AllocTask(t, k)
      PROVE  DeviceShape'
  BY <1>0, <1>1 DEF AllocTask, TypeOK, DeviceShape, syncVars, deviceVars
<1>2. ASSUME NEW h \in Handles, NEW m \in Modes, UpdateDependencies(h, m)
      PROVE  DeviceShape'
  BY <1>0, <1>2 DEF UpdateDependencies, DeviceShape, deviceVars
<1>3. CASE Commit
  <2>1. cur \in Tasks /\ tstate[cur] = "alloc"
    BY <1>3, CommitFacts
  <2> QED
    BY <1>0, <1>3, <2>1 DEF Commit, TypeOK, DeviceShape, syncVars, deviceVars
<1>4. CASE BeginSync
  BY <1>0, <1>4 DEF BeginSync, DeviceShape, syncVars, deviceVars
<1>5. ASSUME NEW h \in Handles, ActivateHandle(h)
      PROVE  DeviceShape'
  <2>1. \A d \in Devices : walk'[d] = walk[d]
    BY <1>0, <1>5, ActivateFacts DEF TypeOK
  <2> QED
    BY <1>0, <1>5, <2>1 DEF ActivateHandle, DeviceShape, deviceVars
<1>6. ASSUME NEW th \in Threads, NEW i \in Index, Notify(th, i)
      PROVE  DeviceShape'
  <2> DEFINE t == acc[i].task
  <2>1. /\ tstate[t] = "waiting" /\ t \in Tasks
        /\ tstate' = [tstate EXCEPT ![t] = IF AccessesOf(t) \subseteq ready \cup {i}
                                             THEN "ready" ELSE "waiting"]
    BY <1>6, NotifyFacts
  <2> HIDE DEF t
  <2>2. /\ walk' = [walk EXCEPT ![th] = walk[th] \ {i}]
        /\ UNCHANGED <<dev, epi>>
    BY <1>6 DEF Notify, deviceVars
  <2>3. \A d \in Devices : walk'[d] # {} => walk[d] # {}
    BY <1>0, <2>2 DEF TypeOK
  <2> QED
    BY <1>0, <2>1, <2>2, <2>3 DEF TypeOK, DeviceShape
<1>7. CASE EndDfg
  BY <1>0, <1>7 DEF EndDfg, DeviceShape, syncVars, deviceVars
<1>8. CASE SyncReturn
  <2>1. /\ \A d \in Devices : epi[d] = NoTask
        /\ \A th \in Threads : walk[th] = {}
    BY <1>8, QuiescentAtCompletion DEF SyncReturn, SyncQuiescent
  <2> QED
    BY <1>8, <2>1 DEF SyncReturn, DeviceShape
<1>9. ASSUME NEW d \in Devices, NEW t \in Tasks, Pop(d, t)
      PROVE  DeviceShape'
  BY <1>0, <1>9 DEF Pop, TypeOK, DeviceShape, syncVars
<1>10. ASSUME NEW d \in Devices, NEW t \in Tasks, Launch(d, t)
      PROVE  DeviceShape'
  BY <1>0, <1>10 DEF Launch, TypeOK, DeviceShape, syncVars, deviceVars
<1>11. ASSUME NEW d \in Devices, NEW t \in Tasks, KernelEnd(d, t)
      PROVE  DeviceShape'
  BY <1>0, <1>11 DEF KernelEnd, TypeOK, DeviceShape, syncVars
<1>12. ASSUME NEW d \in Devices, NEW i \in Index, SignalSuccessors(d, i)
      PROVE  DeviceShape'
  <2>1. \A e \in Devices : e # d => walk'[e] = walk[e]
    BY <1>0, <1>12 DEF SignalSuccessors, SignalSyncPoint, TypeOK
  <2> QED
    BY <1>0, <1>12, <2>1 DEF SignalSuccessors, DeviceShape, deviceVars
<1>13. ASSUME NEW d \in Devices, FinishEpilogue(d)
      PROVE  DeviceShape'
  <2>1. tstate[epi[d]] = "epilogue" /\ epi[d] \in Tasks
    BY <1>0, <1>13 DEF FinishEpilogue, DeviceShape, TypeOK
  <2> QED
    BY <1>0, <1>13, <2>1 DEF FinishEpilogue, TypeOK, DeviceShape, syncVars
<1>14. ASSUME NEW d \in Devices, MarkExec(d)
      PROVE  DeviceShape'
  BY <1>0, <1>14 DEF MarkExec, DeviceShape, syncVars
<1>15. ASSUME NEW t \in Tasks, WritebackArrived(t)
      PROVE  DeviceShape'
  BY <1>0, <1>15 DEF WritebackArrived, DeviceShape, syncVars, deviceVars
<1>16. CASE UNCHANGED vars
  BY <1>0, <1>16 DEF vars, DeviceShape, syncVars, deviceVars
<1> QED
  BY <1>1, <1>2, <1>3, <1>4, <1>5, <1>6, <1>7, <1>8, <1>9, <1>10, <1>11, <1>12,
     <1>13, <1>14, <1>15, <1>16
     DEF Next, Build, Sync, Device, Terminated

-----------------------------------------------------------------------------
(* The counters of the graph.                                              *)

\* An action keeps the counters of the synchronisation points exact.
LEMMA SyncCountersStep ==
    IndInv /\ [Next]_vars =>
        \A h \in Handles, g \in 1..MaxAccesses :
            swc'[h][g] = Cardinality(Generation(h, g)' \ sig')
<1> SUFFICES ASSUME IndInv, [Next]_vars, NEW h \in Handles, NEW g \in 1..MaxAccesses
             PROVE  swc'[h][g] = Cardinality(Generation(h, g)' \ sig')
  OBVIOUS
<1> USE DataFlowAssumption
<1>0. /\ TypeOK /\ swc[h][g] = Cardinality(Generation(h, g) \ sig)
      /\ IsFiniteSet(Generation(h, g) \ sig) /\ g \in 0..MaxAccesses
  BY AccessSetsFinite DEF IndInv, CountersExact
<1>a. ASSUME UNCHANGED acc PROVE \A hh, gg : Generation(hh, gg)' = Generation(hh, gg)
  BY <1>a DEF Generation
<1>1. CASE UNCHANGED <<acc, ready, sig, swc, walk>>
  BY <1>0, <1>1, <1>a
<1>2. ASSUME NEW hh \in Handles, NEW m \in Modes, UpdateDependencies(hh, m)
      PROVE  swc'[h][g] = Cardinality(Generation(h, g)' \ sig')
  <2> DEFINE n == Len(acc) + 1
  <2>0. /\ n \notin DOMAIN acc
        /\ \A a, b : Generation(a, b)' = IF a = hh /\ b = NextGeneration(hh, m)
                                         THEN Generation(a, b) \cup {n} ELSE Generation(a, b)
    BY <1>2, UpdateFacts
  <2>1. /\ n \notin DOMAIN acc
        /\ Generation(h, g)' = IF h = hh /\ g = NextGeneration(hh, m)
                               THEN Generation(h, g) \cup {n} ELSE Generation(h, g)
    BY <2>0, Zenon
  <2>2. swc'[h][g] = IF h = hh /\ g = NextGeneration(hh, m)
                     THEN swc[h][g] + 1 ELSE swc[h][g]
    BY <1>0, <1>2, CounterValues
  <2>3. sig' = sig /\ n \notin sig /\ n \notin Generation(h, g)
    BY <1>0, <1>2, <2>1 DEF UpdateDependencies, TypeOK, Generation
  <2> HIDE DEF n
  <2>4. CASE h = hh /\ g = NextGeneration(hh, m)
    <3>1. Generation(h, g)' \ sig' = (Generation(h, g) \ sig) \cup {n}
      BY <2>1, <2>3, <2>4
    <3>2. Cardinality((Generation(h, g) \ sig) \cup {n}) = swc[h][g] + 1
      BY <1>0, <2>3, CardinalityGrow
    <3> QED
      BY <2>2, <2>4, <3>1, <3>2
  <2>5. CASE ~(h = hh /\ g = NextGeneration(hh, m))
    <3>1. Generation(h, g)' \ sig' = Generation(h, g) \ sig
      BY <2>1, <2>3, <2>5
    <3>2. swc'[h][g] = swc[h][g]
      BY <2>2, <2>5
    <3> QED
      BY <1>0, <3>1, <3>2, Zenon
  <2> QED
    BY <2>4, <2>5
<1>3. ASSUME NEW hh \in Handles, ActivateHandle(hh)
      PROVE  swc'[h][g] = Cardinality(Generation(h, g)' \ sig')
  <2>1. UNCHANGED <<acc, sig>>
    BY <1>3 DEF ActivateHandle, graphVars
  <2>2. swc'[h][g] = swc[h][g]
    BY <1>0, <1>3, CounterValues
  <2> QED
    BY <1>0, <1>a, <2>1, <2>2
<1>4. ASSUME NEW th \in Threads, NEW i \in Index, Notify(th, i)
      PROVE  swc'[h][g] = Cardinality(Generation(h, g)' \ sig')
  BY <1>0, <1>4, <1>a DEF Notify, graphVars
<1>5. CASE SyncReturn
  <2>1. Generation(h, g)' \ sig' = {}
    BY <1>5 DEF SyncReturn, Generation
  <2>2. Cardinality(Generation(h, g)' \ sig') = 0
    BY <2>1, FS_EmptySet, Zenon
  <2> QED
    BY <1>5, <2>2 DEF SyncReturn
<1>6. ASSUME NEW d \in Devices, NEW i \in Index, SignalSuccessors(d, i)
      PROVE  swc'[h][g] = Cardinality(Generation(h, g)' \ sig')
  <2>1. i \in DOMAIN acc /\ i \notin sig /\ sig' = sig \cup {i}
    BY <1>6, SignalFacts
  <2>2. swc'[h][g] = IF h = acc[i].h /\ g = acc[i].gen THEN swc[h][g] - 1 ELSE swc[h][g]
    BY <1>0, <1>6, CounterValues
  <2>3. Generation(h, g)' = Generation(h, g)
    BY <1>6, <1>a DEF SignalSuccessors, graphVars
  <2>4. CASE h = acc[i].h /\ g = acc[i].gen
    <3>1. i \in Generation(h, g) \ sig
      BY <2>1, <2>4 DEF Generation
    <3>2. Generation(h, g)' \ sig' = (Generation(h, g) \ sig) \ {i}
      BY <2>1, <2>3
    <3>3. Cardinality((Generation(h, g) \ sig) \ {i}) = swc[h][g] - 1
      <4>1. Cardinality((Generation(h, g) \ sig) \ {i})
              = Cardinality(Generation(h, g) \ sig) - 1
        BY <1>0, <3>1, CardinalityDrop
      <4> QED
        BY <1>0, <4>1, Zenon
    <3>4. swc'[h][g] = swc[h][g] - 1
      BY <2>2, <2>4
    <3> QED
      BY <3>2, <3>3, <3>4, Zenon
  <2>5. CASE ~(h = acc[i].h /\ g = acc[i].gen)
    <3>1. i \notin Generation(h, g)
      BY <2>5 DEF Generation
    <3>2. Generation(h, g)' \ sig' = Generation(h, g) \ sig
      BY <2>1, <2>3, <3>1
    <3>3. swc'[h][g] = swc[h][g]
      BY <2>2, <2>5
    <3> QED
      BY <1>0, <3>2, <3>3, Zenon
  <2> QED
    BY <2>4, <2>5
<1> QED
  BY <1>1, <1>2, <1>3, <1>4, <1>5, <1>6, QuietActions

\* The actions that leave the counters of the tasks alone.
LEMMA QuietTasks ==
    ASSUME IndInv, [Next]_vars
    PROVE  \/ /\ UNCHANGED <<acc, ready, wc>>
              /\ \A t \in Tasks : tstate'[t] = "alloc" <=> tstate[t] = "alloc"
           \/ \E t \in Tasks, k \in {"kernel", "writeback"} : AllocTask(t, k)
           \/ \E h \in Handles, m \in Modes : UpdateDependencies(h, m)
           \/ Commit
           \/ \E th \in Threads, i \in Index : Notify(th, i)
           \/ SyncReturn
<1>0. TypeOK /\ DeviceShape
  BY DEF IndInv
<1> DEFINE Quiet == /\ UNCHANGED <<acc, ready, wc>>
                    /\ \A t \in Tasks : tstate'[t] = "alloc" <=> tstate[t] = "alloc"
<1>1. ASSUME NEW h \in Handles, ActivateHandle(h) PROVE Quiet
  BY <1>1 DEF ActivateHandle, graphVars
<1>2. BeginSync \/ EndDfg \/ UNCHANGED vars => Quiet
  BY DEF BeginSync, EndDfg, vars, graphVars, syncVars
<1>3. ASSUME NEW d \in Devices, NEW t \in Tasks, Pop(d, t) \/ Launch(d, t) \/ KernelEnd(d, t)
      PROVE  Quiet
  BY <1>0, <1>3 DEF Pop, Launch, KernelEnd, TypeOK, graphVars, syncVars
<1>4. ASSUME NEW d \in Devices, NEW i \in Index, SignalSuccessors(d, i) PROVE Quiet
  BY <1>4 DEF SignalSuccessors, graphVars
<1>5. ASSUME NEW d \in Devices, FinishEpilogue(d) PROVE Quiet
  <2>1. tstate[epi[d]] = "epilogue" /\ epi[d] \in Tasks
    BY <1>0, <1>5, DataFlowAssumption DEF FinishEpilogue, DeviceShape, TypeOK
  <2> QED
    BY <1>0, <1>5, <2>1 DEF FinishEpilogue, TypeOK, graphVars, syncVars
<1>6. ASSUME NEW d \in Devices, MarkExec(d) PROVE Quiet
  BY <1>6 DEF MarkExec, graphVars, syncVars
<1>7. ASSUME NEW t \in Tasks, WritebackArrived(t) PROVE Quiet
  BY <1>7 DEF WritebackArrived, graphVars, syncVars
<1> HIDE DEF Quiet
<1>8. \/ Quiet
      \/ \E t \in Tasks, k \in {"kernel", "writeback"} : AllocTask(t, k)
      \/ \E h \in Handles, m \in Modes : UpdateDependencies(h, m)
      \/ Commit
      \/ \E th \in Threads, i \in Index : Notify(th, i)
      \/ SyncReturn
  BY <1>1, <1>2, <1>3, <1>4, <1>5, <1>6, <1>7 DEF Next, Build, Sync, Device, Terminated
<1> QED
  BY <1>8 DEF Quiet

\* An action keeps the counters of the tasks exact.
LEMMA TaskCountersStep ==
    IndInv /\ [Next]_vars =>
        \A t \in Tasks :
            wc'[t] = Cardinality(AccessesOf(t)' \ ready')
                     + (IF tstate'[t] = "alloc" THEN 1 ELSE 0)
<1> SUFFICES ASSUME IndInv, [Next]_vars, NEW t \in Tasks
             PROVE  wc'[t] = Cardinality(AccessesOf(t)' \ ready')
                             + (IF tstate'[t] = "alloc" THEN 1 ELSE 0)
  OBVIOUS
<1> USE DataFlowAssumption
<1> DEFINE S == AccessesOf(t) \ ready
           one == IF tstate[t] = "alloc" THEN 1 ELSE 0
<1>0. TypeOK /\ wc \in [Tasks -> Nat] /\ tstate \in [Tasks -> TaskState]
  BY DEF IndInv, TypeOK
<1>b. IsFiniteSet(S) /\ Cardinality(S) \in Nat
  BY <1>0, AccessSetsFinite, FS_CardinalityType
<1>c. wc[t] = Cardinality(S) + one
  BY DEF IndInv, CountersExact
<1>a. ASSUME UNCHANGED acc PROVE \A u : AccessesOf(u)' = AccessesOf(u)
  BY <1>a DEF AccessesOf
<1>d. ASSUME AccessesOf(t)' \ ready' = S, wc'[t] = wc[t],
             tstate'[t] = "alloc" <=> tstate[t] = "alloc"
      PROVE  wc'[t] = Cardinality(AccessesOf(t)' \ ready')
                      + (IF tstate'[t] = "alloc" THEN 1 ELSE 0)
  <2>1. Cardinality(AccessesOf(t)' \ ready') = Cardinality(S)
    BY <1>d, Zenon
  <2> QED
    BY <1>c, <1>d, <2>1
<1>1. CASE /\ UNCHANGED <<acc, ready, wc>>
           /\ \A u \in Tasks : tstate'[u] = "alloc" <=> tstate[u] = "alloc"
  <2>1. AccessesOf(t)' \ ready' = S
    BY <1>1, <1>a
  <2> QED
    BY <1>1, <1>d, <2>1
<1>2. ASSUME NEW u \in Tasks, NEW k \in {"kernel", "writeback"}, AllocTask(u, k)
      PROVE  wc'[t] = Cardinality(AccessesOf(t)' \ ready')
                      + (IF tstate'[t] = "alloc" THEN 1 ELSE 0)
  <2>1. /\ UNCHANGED <<acc, ready>> /\ tstate[u] = "free"
        /\ wc' = [wc EXCEPT ![u] = 1] /\ tstate' = [tstate EXCEPT ![u] = "alloc"]
    BY <1>2 DEF AllocTask, graphVars, syncVars
  <2>2. AccessesOf(t)' \ ready' = S
    BY <2>1, <1>a
  <2>3. CASE t = u
    <3>1. S = {}
      BY <2>1, <2>3 DEF IndInv, TaskShape
    <3>2. Cardinality(AccessesOf(t)' \ ready') = 0
      BY <2>2, <3>1, FS_EmptySet, Zenon
    <3>3. wc'[t] = 1 /\ tstate'[t] = "alloc"
      BY <1>0, <2>1, <2>3
    <3> QED
      BY <3>2, <3>3
  <2>4. CASE t # u
    <3>1. wc'[t] = wc[t] /\ tstate'[t] = tstate[t]
      BY <1>0, <2>1, <2>4
    <3> QED
      BY <1>d, <2>2, <3>1
  <2> QED
    BY <2>3, <2>4
<1>3. ASSUME NEW h \in Handles, NEW m \in Modes, UpdateDependencies(h, m)
      PROVE  wc'[t] = Cardinality(AccessesOf(t)' \ ready')
                      + (IF tstate'[t] = "alloc" THEN 1 ELSE 0)
  <2> DEFINE n == Len(acc) + 1
  <2>0. \A u : AccessesOf(u)' = IF u = cur THEN AccessesOf(u) \cup {n} ELSE AccessesOf(u)
    BY <1>3, UpdateFacts
  <2>1. /\ cur \in Tasks /\ tstate[cur] = "alloc" /\ n \notin DOMAIN acc
    BY <1>3, UpdateFacts
  <2>2. ready' = ready /\ tstate' = tstate /\ wc' = [wc EXCEPT ![cur] = wc[cur] + 1]
    BY <1>3 DEF UpdateDependencies
  <2>3. n \notin ready /\ n \notin S
    BY <1>0, <2>1 DEF TypeOK, AccessesOf
  <2> HIDE DEF n
  <2>4. CASE t = cur
    <3>1. AccessesOf(t)' = AccessesOf(t) \cup {n}
      BY <2>0, <2>4, Zenon
    <3>2. AccessesOf(t)' \ ready' = S \cup {n}
      BY <2>2, <2>3, <3>1
    <3> HIDE DEF S
    <3>3. Cardinality(S \cup {n}) = Cardinality(S) + 1
      BY <1>b, <2>3, CardinalityGrow
    <3>4. Cardinality(AccessesOf(t)' \ ready') = Cardinality(S) + 1
      BY <3>2, <3>3, Zenon
    <3>5. wc'[t] = wc[t] + 1 /\ wc[t] = Cardinality(S) + 1 /\ tstate'[t] = "alloc"
      BY <1>0, <1>c, <2>1, <2>2, <2>4
    <3> QED
      BY <1>b, <3>4, <3>5
  <2>5. CASE t # cur
    <3>1. AccessesOf(t)' = AccessesOf(t)
      BY <2>0, <2>5, Zenon
    <3>2. AccessesOf(t)' \ ready' = S
      BY <2>2, <3>1
    <3>3. wc'[t] = wc[t]
      BY <1>0, <2>2, <2>5
    <3> QED
      BY <1>d, <2>2, <3>2, <3>3
  <2> QED
    BY <2>4, <2>5
<1>4. CASE Commit
  <2>1. UNCHANGED <<acc, ready>>
    BY <1>4 DEF Commit, graphVars, syncVars
  <2>2. AccessesOf(t)' \ ready' = S
    BY <2>1, <1>a
  <2>3. /\ cur \in Tasks
        /\ wc' = [wc EXCEPT ![cur] = Cardinality(AccessesOf(cur) \ ready)]
        /\ tstate' = [tstate EXCEPT ![cur] = IF AccessesOf(cur) \subseteq ready
                                               THEN "ready" ELSE "waiting"]
    BY <1>4, CommitFacts
  <2>4. CASE t = cur
    <3>1. wc'[t] = Cardinality(S)
      BY <1>0, <2>3, <2>4
    <3>2. tstate'[t] # "alloc"
      BY <1>0, <2>3, <2>4
    <3>3. Cardinality(AccessesOf(t)' \ ready') = Cardinality(S)
      BY <2>2, Zenon
    <3> HIDE DEF S
    <3> QED
      BY <1>b, <3>1, <3>2, <3>3
  <2>5. CASE t # cur
    <3>1. wc'[t] = wc[t] /\ tstate'[t] = tstate[t]
      BY <1>0, <2>3, <2>5
    <3> QED
      BY <1>d, <2>2, <3>1
  <2> QED
    BY <2>4, <2>5
<1>5. ASSUME NEW th \in Threads, NEW i \in Index, Notify(th, i)
      PROVE  wc'[t] = Cardinality(AccessesOf(t)' \ ready')
                      + (IF tstate'[t] = "alloc" THEN 1 ELSE 0)
  <2> DEFINE u == acc[i].task
  <2>1. /\ u \in Tasks /\ i \in AccessesOf(u) /\ i \notin ready /\ tstate[u] = "waiting"
        /\ wc' = [wc EXCEPT ![u] = wc[u] - 1]
        /\ tstate' = [tstate EXCEPT ![u] = IF AccessesOf(u) \subseteq ready \cup {i}
                                             THEN "ready" ELSE "waiting"]
    BY <1>5, NotifyFacts
  <2>2. ready' = ready \cup {i} /\ UNCHANGED acc
    BY <1>5 DEF Notify, graphVars
  <2>3. AccessesOf(t)' = AccessesOf(t)
    BY <1>a, <2>2
  <2>4. t # u => i \notin AccessesOf(t)
    BY DEF AccessesOf
  <2> HIDE DEF u
  <2>5. CASE t = u
    <3>1. AccessesOf(t)' \ ready' = S \ {i} /\ i \in S
      BY <2>1, <2>2, <2>3, <2>5
    <3> HIDE DEF S
    <3>2. Cardinality(S \ {i}) = Cardinality(S) - 1
      BY <1>b, <3>1, CardinalityDrop
    <3>3. Cardinality(AccessesOf(t)' \ ready') = Cardinality(S) - 1
      BY <3>1, <3>2, Zenon
    <3>4. wc'[t] = wc[t] - 1 /\ wc[t] = Cardinality(S) + 0 /\ tstate'[t] # "alloc"
      BY <1>0, <1>c, <2>1, <2>5
    <3> QED
      BY <1>b, <3>3, <3>4
  <2>6. CASE t # u
    <3>1. AccessesOf(t)' \ ready' = S
      BY <2>2, <2>3, <2>4, <2>6
    <3>2. wc'[t] = wc[t] /\ tstate'[t] = tstate[t]
      BY <1>0, <2>1, <2>6
    <3> QED
      BY <1>d, <3>1, <3>2
  <2> QED
    BY <2>5, <2>6
<1>6. CASE SyncReturn
  <2>1. AccessesOf(t)' \ ready' = {}
    BY <1>6 DEF SyncReturn, AccessesOf
  <2>2. Cardinality(AccessesOf(t)' \ ready') = 0
    BY <2>1, FS_EmptySet, Zenon
  <2> QED
    BY <1>6, <2>2 DEF SyncReturn
<1> QED
  BY <1>1, <1>2, <1>3, <1>4, <1>5, <1>6, QuietTasks

-----------------------------------------------------------------------------
(* The counters of the frame.                                              *)

\* The sets of tasks the frame counters are about are finite.
LEMMA TaskSetsFinite ==
    /\ IsFiniteSet(Committed) /\ IsFiniteSet(Writebacks)
    /\ IsFiniteSet(Executed) /\ IsFiniteSet(Home)
    /\ Cardinality(Committed) \in Nat /\ Cardinality(Writebacks) \in Nat
    /\ Cardinality(Executed) \in Nat /\ Cardinality(Home) \in Nat
<1>1. /\ Committed \in SUBSET Tasks /\ Writebacks \in SUBSET Tasks
      /\ Executed \in SUBSET Tasks /\ Home \in SUBSET Tasks
  BY DEF Committed, Writebacks, Executed, Home
<1>2. /\ IsFiniteSet(Committed) /\ IsFiniteSet(Writebacks)
      /\ IsFiniteSet(Executed) /\ IsFiniteSet(Home)
  BY <1>1, FS_Subset, DataFlowAssumption
<1> QED
  BY <1>2, FS_CardinalityType

\* An action keeps the counters of the frame in step with the tasks.
LEMMA FrameShapeStep == IndInv /\ [Next]_vars => FrameShape'
<1> SUFFICES ASSUME IndInv, [Next]_vars PROVE FrameShape'
  OBVIOUS
<1> USE DataFlowAssumption
<1> DEFINE Launched == {"launched", "epilogue", "done"}
<1>0. /\ kind \in [Tasks -> {"kernel", "writeback"}]
      /\ tstate \in [Tasks -> TaskState] /\ flight \subseteq Tasks
      /\ cnt \in Nat /\ spawn \in Nat /\ exec \in Nat
      /\ phase \in {"build", "activate", "wait"}
  BY DEF IndInv, TypeOK
<1>f. FrameShape
  BY DEF IndInv
<1>s. ASSUME UNCHANGED <<kind, tstate>>
      PROVE  /\ Committed' = Committed /\ Writebacks' = Writebacks /\ Executed' = Executed
             /\ (UNCHANGED flight => Home' = Home)
  BY <1>s DEF Committed, Writebacks, Executed, Home
<1>t. ASSUME UNCHANGED <<kind, tstate, flight, cnt, spawn, exec, phase>>
      PROVE  FrameShape'
  BY <1>f, <1>s, <1>t DEF FrameShape
\* A step that changes no set, no counter and no phase.
<1>u. ASSUME Committed' = Committed, Writebacks' = Writebacks, Executed' = Executed,
             Home' = Home, UNCHANGED <<flight, cnt, spawn, exec, phase>>,
             \A t \in flight : tstate'[t] \in Launched
      PROVE  FrameShape'
  BY <1>f, <1>u DEF FrameShape
<1>1. ASSUME NEW t \in Tasks, NEW k \in {"kernel", "writeback"}, AllocTask(t, k)
      PROVE  FrameShape'
  <2>1. /\ tstate[t] = "free" /\ kind' = [kind EXCEPT ![t] = k]
        /\ tstate' = [tstate EXCEPT ![t] = "alloc"]
        /\ UNCHANGED <<flight, cnt, spawn, exec, phase>>
    BY <1>1 DEF AllocTask
  <2>2. /\ Committed' = Committed /\ Writebacks' = Writebacks /\ Executed' = Executed
        /\ Home' = Home
    BY <1>0, <2>1 DEF Committed, Writebacks, Executed, Home
  <2>3. \A u \in flight : tstate'[u] \in Launched
    BY <1>0, <1>f, <2>1 DEF FrameShape
  <2> QED
    BY <1>u, <2>1, <2>2, <2>3
<1>2. ASSUME NEW h \in Handles, NEW m \in Modes, UpdateDependencies(h, m)
      PROVE  FrameShape'
  BY <1>t, <1>2 DEF UpdateDependencies
<1>3. CASE Commit
  <2>1. /\ cur \in Tasks /\ tstate[cur] = "alloc" /\ phase = "build"
        /\ tstate' = [tstate EXCEPT ![cur] = IF AccessesOf(cur) \subseteq ready
                                               THEN "ready" ELSE "waiting"]
    BY <1>3, CommitFacts
  <2>2. /\ cnt' = cnt + 1 /\ UNCHANGED <<kind, flight, exec, phase>>
        /\ spawn' = IF kind[cur] = "writeback" THEN spawn + 1 ELSE spawn
    BY <1>3 DEF Commit
  <2>3. tstate'[cur] \in {"ready", "waiting"} /\ \A t \in Tasks : t # cur => tstate'[t] = tstate[t]
    BY <1>0, <2>1
  <2>4. /\ Committed' = Committed \cup {cur} /\ cur \notin Committed
        /\ Executed' = Executed /\ Home' = Home /\ cur \notin Writebacks
        /\ Writebacks' = IF kind[cur] = "writeback" THEN Writebacks \cup {cur} ELSE Writebacks
    BY <1>0, <2>1, <2>2, <2>3 DEF Committed, Executed, Home, Writebacks
  <2>5. /\ Cardinality(Committed') = Cardinality(Committed) + 1
        /\ Cardinality(Writebacks') = IF kind[cur] = "writeback"
              THEN Cardinality(Writebacks) + 1 ELSE Cardinality(Writebacks)
    BY <2>4, TaskSetsFinite, CardinalityGrow
  <2>6. \A t \in flight : t \in Writebacks' /\ tstate'[t] \in Launched
    BY <1>0, <1>f, <2>1, <2>3, <2>4 DEF FrameShape
  <2> QED
    BY <1>0, <1>f, <2>1, <2>2, <2>4, <2>5, <2>6, TaskSetsFinite DEF FrameShape
<1>4. CASE BeginSync
  <2>1. UNCHANGED <<kind, tstate, flight, cnt, spawn, exec>>
        /\ phase = "build" /\ phase' = "activate"
    BY <1>4 DEF BeginSync
  <2> QED
    BY <1>f, <1>s, <2>1 DEF FrameShape
<1>5. ASSUME NEW h \in Handles, ActivateHandle(h)
      PROVE  FrameShape'
  BY <1>t, <1>5 DEF ActivateHandle
<1>6. ASSUME NEW th \in Threads, NEW i \in Index, Notify(th, i)
      PROVE  FrameShape'
  <2> DEFINE t == acc[i].task
  <2>1. /\ tstate[t] = "waiting" /\ t \in Tasks
        /\ tstate' = [tstate EXCEPT ![t] = IF AccessesOf(t) \subseteq ready \cup {i}
                                             THEN "ready" ELSE "waiting"]
    BY <1>6, NotifyFacts
  <2> HIDE DEF t
  <2>2. UNCHANGED <<kind, flight, cnt, spawn, exec, phase>>
    BY <1>6 DEF Notify
  <2>3. tstate'[t] \in {"ready", "waiting"} /\ \A u \in Tasks : u # t => tstate'[u] = tstate[u]
    BY <1>0, <2>1
  <2>4. /\ Committed' = Committed /\ Writebacks' = Writebacks /\ Executed' = Executed
        /\ Home' = Home
    BY <1>0, <2>1, <2>2, <2>3 DEF Committed, Writebacks, Executed, Home
  <2>5. \A u \in flight : tstate'[u] \in Launched
    BY <1>0, <1>f, <2>1, <2>3 DEF FrameShape
  <2> QED
    BY <1>u, <2>2, <2>4, <2>5
<1>7. CASE EndDfg
  <2>1. /\ UNCHANGED <<kind, tstate, flight, exec>>
        /\ spawn' = spawn + cnt /\ cnt' = 0 /\ phase = "activate"
        /\ (cnt = 0 /\ phase' = "build") \/ (cnt # 0 /\ phase' = "wait")
    BY <1>7 DEF EndDfg
  <2> QED
    BY <1>0, <1>f, <1>s, <2>1 DEF FrameShape
<1>8. CASE SyncReturn
  <2>1. flight = {} /\ cnt = 0
    BY <1>8, QuiescentAtCompletion, <1>f DEF SyncReturn, SyncQuiescent, FrameShape
  <2>2. /\ Committed' = {} /\ Writebacks' = {} /\ Executed' = {} /\ Home' = {}
    BY <1>8 DEF SyncReturn, Committed, Writebacks, Executed, Home
  <2>3. /\ Cardinality(Committed') = 0 /\ Cardinality(Writebacks') = 0
        /\ Cardinality(Executed') = 0 /\ Cardinality(Home') = 0
    BY <2>2, FS_EmptySet, Zenon
  <2> QED
    BY <1>8, <2>1, <2>3 DEF SyncReturn, FrameShape
<1>9. ASSUME NEW d \in Devices, NEW t \in Tasks, Pop(d, t)
      PROVE  FrameShape'
  <2>1. /\ tstate[t] = "ready" /\ tstate' = [tstate EXCEPT ![t] = "popped"]
        /\ UNCHANGED <<kind, flight, cnt, spawn, exec, phase>>
    BY <1>9 DEF Pop
  <2>2. /\ Committed' = Committed /\ Writebacks' = Writebacks /\ Executed' = Executed
        /\ Home' = Home
    BY <1>0, <2>1 DEF Committed, Writebacks, Executed, Home
  <2>3. \A u \in flight : tstate'[u] \in Launched
    BY <1>0, <1>f, <2>1 DEF FrameShape
  <2> QED
    BY <1>u, <2>1, <2>2, <2>3
<1>10. ASSUME NEW d \in Devices, NEW t \in Tasks, Launch(d, t)
      PROVE  FrameShape'
  <2>1. /\ tstate[t] = "popped" /\ tstate' = [tstate EXCEPT ![t] = "launched"]
        /\ UNCHANGED <<kind, cnt, spawn, phase>>
    BY <1>10 DEF Launch
  <2>2. t \notin flight /\ t \notin Home
    BY <1>f, <2>1 DEF FrameShape, Home
  <2>3. /\ Committed' = Committed /\ Writebacks' = Writebacks /\ Executed' = Executed
    BY <1>0, <2>1 DEF Committed, Writebacks, Executed
  <2>4. \A u \in flight : tstate'[u] \in Launched /\ u \in Writebacks
    BY <1>0, <1>f, <2>1 DEF FrameShape
  <2>5. CASE kind[t] = "kernel" /\ UNCHANGED <<exec, flight>>
    <3>1. Home' = Home
      BY <1>0, <2>1, <2>5 DEF Committed, Writebacks, Home
    <3> QED
      BY <1>u, <2>1, <2>3, <2>4, <2>5, <3>1
  <2>6. CASE kind[t] = "writeback" /\ exec' = exec + 1 /\ UNCHANGED flight
    <3>1. Home' = Home \cup {t}
      BY <1>0, <2>1, <2>2, <2>6 DEF Committed, Writebacks, Home
    <3>2. Cardinality(Home') = Cardinality(Home) + 1
      BY <2>2, <3>1, TaskSetsFinite, CardinalityGrow
    <3> QED
      BY <1>0, <1>f, <2>1, <2>3, <2>4, <2>6, <3>2, TaskSetsFinite DEF FrameShape
  <2>7. CASE kind[t] = "writeback" /\ flight' = flight \cup {t} /\ UNCHANGED exec
    <3>1. Home' = Home
      BY <1>0, <2>1, <2>2, <2>7 DEF Committed, Writebacks, Home
    <3>2. t \in Writebacks' /\ tstate'[t] \in Launched
      BY <1>0, <2>1, <2>7 DEF Committed, Writebacks
    <3> QED
      BY <1>0, <1>f, <2>1, <2>3, <2>4, <2>7, <3>1, <3>2 DEF FrameShape
  <2> QED
    BY <1>10, <2>5, <2>6, <2>7 DEF Launch
<1>11. ASSUME NEW d \in Devices, NEW t \in Tasks, KernelEnd(d, t)
      PROVE  FrameShape'
  <2>1. /\ tstate[t] = "launched" /\ tstate' = [tstate EXCEPT ![t] = "epilogue"]
        /\ UNCHANGED <<kind, flight, cnt, spawn, exec, phase>>
    BY <1>11 DEF KernelEnd
  <2>2. /\ Committed' = Committed /\ Writebacks' = Writebacks /\ Executed' = Executed
        /\ Home' = Home
    BY <1>0, <2>1 DEF Committed, Writebacks, Executed, Home
  <2>3. \A u \in flight : tstate'[u] \in Launched
    BY <1>0, <1>f, <2>1 DEF FrameShape
  <2> QED
    BY <1>u, <2>1, <2>2, <2>3
<1>12. ASSUME NEW d \in Devices, NEW i \in Index, SignalSuccessors(d, i)
      PROVE  FrameShape'
  BY <1>t, <1>12 DEF SignalSuccessors
<1>13. ASSUME NEW d \in Devices, FinishEpilogue(d)
      PROVE  FrameShape'
  <2> DEFINE t == epi[d]
  <2>1. tstate[t] = "epilogue" /\ t \in Tasks
    BY <1>0, <1>13 DEF FinishEpilogue, IndInv, DeviceShape, TypeOK
  <2>2. /\ tstate' = [tstate EXCEPT ![t] = "done"] /\ exec' = exec + 1
        /\ UNCHANGED <<kind, flight, cnt, spawn, phase>>
    BY <1>13 DEF FinishEpilogue
  <2> HIDE DEF t
  <2>3. /\ Committed' = Committed /\ Writebacks' = Writebacks /\ Home' = Home
        /\ Executed' = Executed \cup {t} /\ t \notin Executed
    BY <1>0, <2>1, <2>2 DEF Committed, Writebacks, Executed, Home
  <2>4. Cardinality(Executed') = Cardinality(Executed) + 1
    BY <2>3, TaskSetsFinite, CardinalityGrow
  <2>5. \A u \in flight : tstate'[u] \in Launched /\ u \in Writebacks
    BY <1>0, <1>f, <2>1, <2>2 DEF FrameShape
  <2> QED
    BY <1>0, <1>f, <2>2, <2>3, <2>4, <2>5, TaskSetsFinite DEF FrameShape
<1>14. ASSUME NEW d \in Devices, MarkExec(d)
      PROVE  FrameShape'
  BY <1>t, <1>14 DEF MarkExec
<1>15. ASSUME NEW t \in Tasks, WritebackArrived(t)
      PROVE  FrameShape'
  <2>1. /\ t \in flight /\ flight' = flight \ {t} /\ exec' = exec + 1
        /\ UNCHANGED <<kind, tstate, cnt, spawn, phase>>
    BY <1>15 DEF WritebackArrived
  <2>2. Home' = Home \cup {t} /\ t \notin Home
    BY <1>f, <2>1 DEF FrameShape, Home, Writebacks, Committed
  <2>3. Cardinality(Home') = Cardinality(Home) + 1
    BY <2>2, TaskSetsFinite, CardinalityGrow
  <2> QED
    BY <1>0, <1>f, <1>s, <2>1, <2>3, TaskSetsFinite DEF FrameShape
<1>16. CASE UNCHANGED vars
  BY <1>t, <1>16 DEF vars
<1> QED
  BY <1>1, <1>2, <1>3, <1>4, <1>5, <1>6, <1>7, <1>8, <1>9, <1>10, <1>11, <1>12,
     <1>13, <1>14, <1>15, <1>16
     DEF Next, Build, Sync, Device, Terminated

-----------------------------------------------------------------------------
(* The theorems.                                                           *)

\* The invariant is inductive: every behaviour of the engine, for any number
\* of tasks, tiles and devices, keeps its counters exact and releases the
\* generations of a tile in order.
THEOREM IndInvHolds == Spec => []IndInv
<1>1. Init => IndInv
  BY InitIndInv
<1>2. IndInv /\ [Next]_vars => IndInv'
  <2> SUFFICES ASSUME IndInv, [Next]_vars PROVE IndInv'
    OBVIOUS
  <2>1. TypeOK' /\ GraphShape' /\ MainShape' /\ TaskShape'
    BY TypeStep, GraphShapeStep, MainShapeStep, TaskShapeStep
  <2>2. Released' /\ WalksApart' /\ DeviceShape' /\ FrameShape'
    BY ReleasedStep, WalksApartStep, DeviceShapeStep, FrameShapeStep
  <2>3. CountersExact'
    BY SyncCountersStep, TaskCountersStep DEF CountersExact
  <2> QED
    BY <2>1, <2>2, <2>3 DEF IndInv
<1> QED
  BY <1>1, <1>2, PTL DEF Spec

\* Every variable keeps its type; in particular no counter becomes negative.
THEOREM TypeCorrect == Spec => []TypeOK
<1>1. IndInv => TypeOK
  BY DEF IndInv
<1> QED
  BY <1>1, IndInvHolds, PTL

\* Two conflicting accesses to a tile are executed in program order.
THEOREM ConflictOrderHolds == Spec => []ConflictOrder
<1>1. IndInv => ConflictOrder
  <2> SUFFICES ASSUME IndInv, NEW i \in DOMAIN acc, NEW j \in DOMAIN acc,
                      i < j, acc[i].h = acc[j].h,
                      ~Concurrent(acc[i].mode, acc[j].mode),
                      tstate[acc[j].task] \in Started
               PROVE  tstate[acc[i].task] \in Finished
    BY DEF ConflictOrder
  <2>0. /\ acc[j].task \in Tasks /\ acc[i].gen \in Nat /\ acc[j].gen \in Nat
        /\ i \in Nat /\ j \in Nat
    BY AccessTypes DEF IndInv
  <2>1. acc[i].gen < acc[j].gen
    BY <2>0 DEF IndInv, GraphShape
  <2>2. j \in ready
    BY <2>0 DEF IndInv, TaskShape, AccessesOf
  <2>3. i \in sig
    BY <2>1, <2>2 DEF IndInv, Released
  <2> QED
    BY <2>3 DEF IndInv, TaskShape
<1> QED
  BY <1>1, IndInvHolds, PTL

\* The counters of the tasks and of the synchronisation points are exact.
THEOREM CountersExactHolds == Spec => []CountersExact
<1>1. IndInv => CountersExact
  BY DEF IndInv
<1> QED
  BY <1>1, IndInvHolds, PTL

\* When xkblas_sync sees the frame completed, nothing is left to do and no
\* thread still uses the memory it is about to recycle.
THEOREM SyncQuiescentHolds == Spec => []SyncQuiescent
BY QuiescentAtCompletion, IndInvHolds, PTL

\* A list of accesses is traversed by one thread, once, and only meets tasks
\* that wait.
THEOREM WalksMeetWaitingTasksHolds == Spec => []WalksMeetWaitingTasks
<1>1. IndInv => WalksMeetWaitingTasks
  <2> SUFFICES ASSUME IndInv PROVE WalksMeetWaitingTasks
    OBVIOUS
  <2>1. ASSUME NEW th \in Threads, NEW i \in walk[th]
        PROVE  i \notin ready /\ tstate[acc[i].task] = "waiting"
    <3>1. i \in DOMAIN acc /\ i \notin ready
      BY <2>1 DEF IndInv, TypeOK, WalksApart
    <3>2. acc[i].task \in Tasks /\ i \in AccessesOf(acc[i].task)
      BY <3>1, AccessTypes DEF IndInv, AccessesOf
    <3>3. phase # "build"
      BY <2>1, NoWalkInBuild
    <3>4. tstate[acc[i].task] \in TaskState
      BY <3>2 DEF IndInv, TypeOK
    <3>5. tstate[acc[i].task] # "free" /\ tstate[acc[i].task] \notin Started \cup {"ready"}
      BY <3>1, <3>2 DEF IndInv, TaskShape
    <3>6. tstate[acc[i].task] # "alloc"
      BY <3>2, <3>3, DataFlowAssumption DEF IndInv, MainShape
    <3> QED
      BY <3>1, <3>4, <3>5, <3>6
  <2> QED
    BY <2>1 DEF WalksMeetWaitingTasks, IndInv, WalksApart
<1> QED
  BY <1>1, IndInvHolds, PTL

\* A task is pushed once, and recycled only after its execution was counted.
THEOREM PushedOnceThenRecycledHolds == Spec => PushedOnceThenRecycled
<1> DEFINE Step == \A t \in Tasks :
             /\ tstate'[t] = "ready" => tstate[t] \in {"alloc", "waiting", "ready"}
             /\ tstate'[t] = "free"  => tstate[t] \in {"done", "free"}
<1>1. IndInv /\ [Next]_vars => [Step]_vars
  <2> SUFFICES ASSUME IndInv, Next PROVE Step
    OBVIOUS
  <2> USE DataFlowAssumption
  <2>0. tstate \in [Tasks -> TaskState]
    BY DEF IndInv, TypeOK
  <2>1. ASSUME NEW t \in Tasks, NEW k \in {"kernel", "writeback"}, AllocTask(t, k)
        PROVE  Step
    BY <2>0, <2>1 DEF AllocTask
  <2>2. CASE Commit
    BY <2>0, <2>2, CommitFacts
  <2>3. ASSUME NEW th \in Threads, NEW i \in Index, Notify(th, i)
        PROVE  Step
    BY <2>0, <2>3, NotifyFacts
  <2>4. CASE SyncReturn
    BY <2>4, QuiescentAtCompletion DEF SyncReturn, SyncQuiescent
  <2>5. ASSUME NEW d \in Devices, NEW t \in Tasks,
               Pop(d, t) \/ Launch(d, t) \/ KernelEnd(d, t)
        PROVE  Step
    BY <2>0, <2>5 DEF Pop, Launch, KernelEnd
  <2>6. ASSUME NEW d \in Devices, FinishEpilogue(d)
        PROVE  Step
    <3>1. tstate' = [tstate EXCEPT ![epi[d]] = "done"]
      BY <2>6 DEF FinishEpilogue
    <3> QED
      BY <2>0, <3>1
  <2>7. CASE UNCHANGED tstate
    BY <2>0, <2>7
  <2> HIDE DEF Step
  <2> QED
    BY <2>1, <2>2, <2>3, <2>4, <2>5, <2>6, <2>7
       DEF Next, Build, Sync, Device, Terminated, UpdateDependencies, BeginSync,
           ActivateHandle, EndDfg, SignalSuccessors, MarkExec, WritebackArrived, vars
<1> QED
  BY <1>1, IndInvHolds, PTL DEF Spec, PushedOnceThenRecycled

-----------------------------------------------------------------------------
(* The engine implements TaskOrder: the caller sees its program, the       *)
(* progress of the tasks and the data under way, and no counter.           *)

\* The progress of the tasks, as TaskOrder sees it.
Seen == [t \in Tasks |-> Progress(tstate[t])]

\* The entries of the program are the accesses.
LEMMA ProgramEntries ==
    ASSUME TypeOK
    PROVE  /\ DOMAIN Program = DOMAIN acc
           /\ \A i \in DOMAIN acc :
                 /\ Program[i].task = acc[i].task /\ Program[i].h = acc[i].h
                 /\ Program[i].mode = acc[i].mode
BY DEF Program

\* A step that moves one task moves its progress only.
LEMMA OneTaskMoves ==
    ASSUME TypeOK, NEW t \in Tasks, NEW s, tstate' = [tstate EXCEPT ![t] = s]
    PROVE  Seen' = [Seen EXCEPT ![t] = Progress(s)] /\ Seen[t] = Progress(tstate[t])
<1>1. tstate \in [Tasks -> TaskState]
  BY DEF TypeOK
<1>2. \A u \in Tasks : tstate'[u] = IF u = t THEN s ELSE tstate[u]
  BY <1>1
<1>3. \A u \in Tasks : Seen'[u] = IF u = t THEN Progress(s) ELSE Seen[u]
  BY <1>2 DEF Seen
<1>4. Seen' = [u \in Tasks |-> Seen'[u]] /\ Seen = [u \in Tasks |-> Seen[u]]
  BY DEF Seen
<1>5. Seen[t] = Progress(tstate[t])
  BY DEF Seen
<1> QED
  BY <1>3, <1>4, <1>5

\* A step that moves no task as TaskOrder sees it is a stutter.
LEMMA Unseen ==
    ASSUME acc' = acc, flight' = flight,
           \A t \in Tasks : Progress(tstate'[t]) = Progress(tstate[t])
    PROVE  UNCHANGED Order!orderVars
<1>1. Program' = Program
  BY DEF Program
<1>2. Seen' = Seen
  BY DEF Seen
<1> QED
  BY <1>1, <1>2 DEF Order!orderVars, Seen

\* The progress that each state shows.
LEMMA ProgressValues ==
    /\ Progress("free") = "free" /\ Progress("alloc") = "declared"
    /\ Progress("waiting") = "submitted" /\ Progress("ready") = "submitted"
    /\ Progress("popped") = "running" /\ Progress("launched") = "running"
    /\ Progress("epilogue") = "finished" /\ Progress("done") = "finished"
BY DEF Progress

\* Initially there is no program.
LEMMA InitSeen == Init => Order!OInit
<1> SUFFICES ASSUME Init PROVE Order!OInit
  OBVIOUS
<1>1. acc = <<>> /\ DOMAIN acc = {} /\ flight = {}
  BY DEF Init
<1>2. Program = <<>>
  BY <1>1 DEF Program
<1>3. Seen = [t \in Tasks |-> "free"]
  BY ProgressValues DEF Init, Seen
<1> QED
  BY <1>1, <1>2, <1>3 DEF Order!OInit, Seen

\* A task that is ready conflicts with no unfinished task before it: its
\* accesses are released, so those of the earlier generations were signalled.
LEMMA ReadyMayStart ==
    ASSUME IndInv, NEW t \in Tasks, tstate[t] = "ready"
    PROVE  Order!MayStart(t)
<1> SUFFICES ASSUME NEW j \in DOMAIN acc, acc[j].task = t, NEW i \in 1..(j - 1),
                    acc[i].h = acc[j].h, ~Concurrent(acc[i].mode, acc[j].mode)
             PROVE  Seen[acc[i].task] = "finished"
  <2>1. \A j \in DOMAIN acc : 1..(j - 1) \subseteq DOMAIN acc
    BY AccessTypes DEF IndInv
  <2> QED
    BY <2>1, ProgramEntries DEF IndInv, Order!MayStart, Conflicting, Seen
<1>1. /\ i \in DOMAIN acc /\ i < j /\ acc[i].task \in Tasks
      /\ acc[i].gen \in Nat /\ acc[j].gen \in Nat
  BY AccessTypes DEF IndInv
<1>2. acc[i].gen < acc[j].gen
  BY <1>1 DEF IndInv, GraphShape
<1>3. j \in ready
  BY DEF IndInv, TaskShape, AccessesOf
<1>4. i \in sig
  BY <1>1, <1>2, <1>3 DEF IndInv, Released
<1>5. tstate[acc[i].task] \in {"epilogue", "done"}
  BY <1>4 DEF IndInv, TaskShape
<1> QED
  BY <1>1, <1>5, ProgressValues DEF Seen

\* The declaration of an access appends it to the program.
LEMMA AccessSeen ==
    ASSUME IndInv, NEW h \in Handles, NEW m \in Modes, UpdateDependencies(h, m)
    PROVE  Order!AddAccess(cur, h, m)
<1> DEFINE n == Len(acc) + 1
           e == [task |-> cur, h |-> h, mode |-> m]
<1>1. /\ acc \in Seq(Access) /\ Len(acc) \in Nat
  BY DataFlowAssumption DEF IndInv, TypeOK
<1>2. /\ acc' \in Seq(Access) /\ Len(acc') = n
      /\ \A i \in DOMAIN acc : acc'[i] = acc[i]
      /\ cur \in Tasks /\ tstate[cur] = "alloc"
      /\ acc'[n] = [task |-> cur, h |-> h, mode |-> m, gen |-> NextGeneration(h, m)]
  BY UpdateFacts
<1>3. DOMAIN acc = 1..Len(acc) /\ DOMAIN acc' = 1..n
  BY <1>1, <1>2
<1>4. acc'[n].task = cur /\ acc'[n].h = h /\ acc'[n].mode = m
  BY <1>2
<1>5. Program' = Append(Program, e)
  <2>1. Program = [i \in 1..Len(acc) |->
                     [task |-> acc[i].task, h |-> acc[i].h, mode |-> acc[i].mode]]
    BY <1>3 DEF Program
  <2>2. Program' = [i \in 1..n |->
                     [task |-> acc'[i].task, h |-> acc'[i].h, mode |-> acc'[i].mode]]
    BY <1>3 DEF Program
  <2>3. ASSUME NEW i \in 1..n
        PROVE  Program'[i] = IF i = n THEN e ELSE Program[i]
    <3>1. CASE i = n
      BY <1>4, <2>2, <3>1
    <3>2. CASE i # n
      <4>1. i \in 1..Len(acc) /\ acc'[i] = acc[i]
        BY <1>1, <1>2, <1>3, <3>2
      <4> QED
        BY <2>1, <2>2, <3>2, <4>1
    <3> QED
      BY <3>1, <3>2
  <2>4. /\ Len(Program) = Len(acc)
        /\ Append(Program, e) = [i \in 1..n |-> IF i = n THEN e ELSE Program[i]]
    BY <1>1, <2>1
  <2>5. Program' = [i \in 1..n |-> Program'[i]]
    BY <2>2
  <2> QED
    BY <2>3, <2>4, <2>5
<1>6. Seen[cur] = "declared"
  BY <1>2, ProgressValues DEF Seen
<1>7. UNCHANGED <<tstate, flight>>
  BY DEF UpdateDependencies
<1> QED
  BY <1>5, <1>6, <1>7 DEF Order!AddAccess, Seen

\* Every step of the engine is a step of TaskOrder, or is not seen.
LEMMA StepSeen == IndInv /\ [Next]_vars => [Order!ONext]_(Order!orderVars)
<1> SUFFICES ASSUME IndInv, [Next]_vars PROVE Order!ONext \/ UNCHANGED Order!orderVars
  OBVIOUS
<1> USE DataFlowAssumption
<1>0. TypeOK /\ tstate \in [Tasks -> TaskState]
  BY DEF IndInv, TypeOK
<1>1. ASSUME NEW t \in Tasks, NEW k \in {"kernel", "writeback"}, AllocTask(t, k)
      PROVE  Order!Declare(t)
  <2>1. tstate[t] = "free" /\ tstate' = [tstate EXCEPT ![t] = "alloc"]
    BY <1>1 DEF AllocTask
  <2>2. Seen' = [Seen EXCEPT ![t] = "declared"] /\ Seen[t] = "free"
    <3>1. Seen' = [Seen EXCEPT ![t] = Progress("alloc")] /\ Seen[t] = Progress("free")
      BY <1>0, <2>1, OneTaskMoves, Zenon
    <3> QED
      BY <3>1, ProgressValues, Zenon
  <2>3. Program' = Program /\ flight' = flight
    BY <1>1 DEF AllocTask, graphVars, Program
  <2> QED
    BY <2>2, <2>3 DEF Order!Declare, Seen
<1>2. ASSUME NEW h \in Handles, NEW m \in Modes, UpdateDependencies(h, m)
      PROVE  Order!AddAccess(cur, h, m) /\ cur \in Tasks
  BY <1>2, AccessSeen, UpdateFacts
<1>3. CASE Commit
  <2>1. PICK s \in {"ready", "waiting"} : tstate' = [tstate EXCEPT ![cur] = s]
    BY <1>3, CommitFacts
  <2>2. cur \in Tasks /\ tstate[cur] = "alloc"
    BY <1>3, CommitFacts
  <2>3. Seen' = [Seen EXCEPT ![cur] = "submitted"] /\ Seen[cur] = "declared"
    <3>1. Seen' = [Seen EXCEPT ![cur] = Progress(s)] /\ Seen[cur] = Progress("alloc")
      BY <1>0, <2>1, <2>2, OneTaskMoves, Zenon
    <3>2. Progress(s) = "submitted" /\ Progress("alloc") = "declared"
      BY ProgressValues
    <3> QED
      BY <3>1, <3>2, Zenon
  <2>4. Program' = Program /\ flight' = flight
    BY <1>3 DEF Commit, graphVars, Program
  <2>5. Order!Submit(cur)
    BY <2>3, <2>4 DEF Order!Submit, Seen
  <2> QED
    BY <2>2, <2>5 DEF Order!ONext
<1>4. ASSUME NEW d \in Devices, NEW t \in Tasks, Pop(d, t)
      PROVE  Order!Start(t)
  <2>1. tstate[t] = "ready" /\ tstate' = [tstate EXCEPT ![t] = "popped"]
    BY <1>4 DEF Pop
  <2>2. Seen' = [Seen EXCEPT ![t] = "running"] /\ Seen[t] = "submitted"
    <3>1. Seen' = [Seen EXCEPT ![t] = Progress("popped")] /\ Seen[t] = Progress("ready")
      BY <1>0, <2>1, OneTaskMoves, Zenon
    <3> QED
      BY <3>1, ProgressValues, Zenon
  <2>3. Program' = Program /\ flight' = flight
    BY <1>4 DEF Pop, graphVars, Program
  <2> QED
    BY <2>1, <2>2, <2>3, ReadyMayStart DEF Order!Start, Seen
<1>5. ASSUME NEW d \in Devices, NEW t \in Tasks, Launch(d, t)
      PROVE  Order!SendHome(t) \/ UNCHANGED Order!orderVars
  <2>1. tstate[t] = "popped" /\ tstate' = [tstate EXCEPT ![t] = "launched"]
    BY <1>5 DEF Launch
  <2>2. Seen' = Seen /\ Seen[t] = "running"
    BY <1>0, <2>1, OneTaskMoves, ProgressValues DEF Seen
  <2>3. Program' = Program
    BY <1>5 DEF Launch, graphVars, Program
  <2>4. flight' = flight \cup {t} \/ flight' = flight
    BY <1>5 DEF Launch
  <2> QED
    BY <2>2, <2>3, <2>4 DEF Order!SendHome, Order!orderVars, Seen
<1>6. ASSUME NEW t \in Tasks, WritebackArrived(t)
      PROVE  Order!ArriveHome(t)
  <2>1. Program' = Program /\ Seen' = Seen
    BY <1>6 DEF WritebackArrived, graphVars, Program, Seen
  <2> QED
    BY <1>6, <2>1 DEF WritebackArrived, Order!ArriveHome, Seen
<1>7. ASSUME NEW d \in Devices, NEW t \in Tasks, KernelEnd(d, t)
      PROVE  Order!Finish(t)
  <2>1. tstate[t] = "launched" /\ tstate' = [tstate EXCEPT ![t] = "epilogue"]
    BY <1>7 DEF KernelEnd
  <2>2. Seen' = [Seen EXCEPT ![t] = "finished"] /\ Seen[t] = "running"
    <3>1. Seen' = [Seen EXCEPT ![t] = Progress("epilogue")] /\ Seen[t] = Progress("launched")
      BY <1>0, <2>1, OneTaskMoves, Zenon
    <3> QED
      BY <3>1, ProgressValues, Zenon
  <2>3. Program' = Program /\ flight' = flight
    BY <1>7 DEF KernelEnd, graphVars, Program
  <2> QED
    BY <2>2, <2>3 DEF Order!Finish, Seen
<1>8. CASE SyncReturn
  <2>1. (\A t \in Tasks : tstate[t] \in {"free", "done"}) /\ flight = {}
    BY <1>8, QuiescentAtCompletion DEF SyncReturn, SyncQuiescent
  <2>2. \A t \in Tasks : Seen[t] \in {"free", "finished"}
    BY <2>1, ProgressValues DEF Seen
  <2>3. /\ acc' = <<>> /\ flight' = flight
        /\ tstate' = [t \in Tasks |-> "free"]
    BY <1>8 DEF SyncReturn
  <2>4. Seen' = [t \in Tasks |-> "free"]
    BY <2>3, ProgressValues DEF Seen
  <2>5. Program' = <<>>
    BY <2>3 DEF Program
  <2>6. Order!Forget
    BY <2>1, <2>2, <2>3, <2>4, <2>5 DEF Order!Forget, Seen
  <2> QED
    BY <2>6 DEF Order!ONext
<1>9. ASSUME NEW th \in Threads, NEW i \in Index, Notify(th, i)
      PROVE  UNCHANGED Order!orderVars
  <2>1. PICK t \in Tasks : t = acc[i].task /\ tstate[t] = "waiting"
    BY <1>9, NotifyFacts
  <2>2. PICK s \in {"ready", "waiting"} : tstate' = [tstate EXCEPT ![t] = s]
    BY <1>9, <2>1, NotifyFacts
  <2>3. \A u \in Tasks : Progress(tstate'[u]) = Progress(tstate[u])
    BY <1>0, <2>1, <2>2, ProgressValues
  <2>4. acc' = acc /\ flight' = flight
    BY <1>9 DEF Notify, graphVars
  <2> QED
    BY <2>3, <2>4, Unseen
<1>10. ASSUME NEW d \in Devices, FinishEpilogue(d)
       PROVE  UNCHANGED Order!orderVars
  <2>1. epi[d] \in Tasks /\ tstate[epi[d]] = "epilogue"
    BY <1>10 DEF FinishEpilogue, IndInv, TypeOK, DeviceShape
  <2>2. tstate' = [tstate EXCEPT ![epi[d]] = "done"] /\ acc' = acc /\ flight' = flight
    BY <1>10 DEF FinishEpilogue, graphVars
  <2>3. \A u \in Tasks : Progress(tstate'[u]) = Progress(tstate[u])
    BY <1>0, <2>1, <2>2, ProgressValues
  <2> QED
    BY <2>2, <2>3, Unseen
<1>11. CASE UNCHANGED <<acc, tstate, flight>>
  BY <1>11, Unseen
<1>12. ASSUME BeginSync \/ EndDfg \/ (\E h \in Handles : ActivateHandle(h))
              \/ (\E d \in Devices : MarkExec(d) \/ \E i \in Index : SignalSuccessors(d, i))
              \/ Terminated \/ UNCHANGED vars
       PROVE  UNCHANGED <<acc, tstate, flight>>
  BY <1>12 DEF BeginSync, EndDfg, ActivateHandle, MarkExec, SignalSuccessors, Terminated,
               vars, graphVars
<1> QED
  BY <1>1, <1>2, <1>3, <1>4, <1>5, <1>6, <1>7, <1>8, <1>9, <1>10, <1>11, <1>12
     DEF Next, Build, Sync, Device, Order!ONext

\* The engine implements TaskOrder: no task starts before the tasks it
\* conflicts with have finished, and xkblas_sync forgets the graph only when
\* every task is finished and every write-back is home.
THEOREM ImplementsTaskOrderHolds == Spec => ImplementsTaskOrder
<1> QED
  BY InitSeen, StepSeen, IndInvHolds, PTL DEF Spec, ImplementsTaskOrder, Order!OSpec

=============================================================================
