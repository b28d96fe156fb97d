--------------------------- MODULE MemSyncProofs ----------------------------
(***************************************************************************)
(* SyncInv is an invariant of MemSync for any number of devices, any       *)
(* finite set of tiles and any number of tasks and calls.                  *)
(***************************************************************************)
EXTENDS MemSyncInv, FiniteSetTheorems, TLAPS

-----------------------------------------------------------------------------
(* The sets that are counted.                                              *)

\* The devices and the pairs of a tile or a thread and a device are finite sets.
LEMMA FiniteSets ==
    /\ IsFiniteSet(Devices) /\ Cardinality(Devices) = N
    /\ IsFiniteSet(Tiles \X Devices) /\ IsFiniteSet(Devices \X Devices)
    /\ IsFiniteSet(Devices \X (1..Cardinality(Tiles)))
    /\ Cardinality(Devices \X (1..Cardinality(Tiles))) = N * Cardinality(Tiles)
    /\ Cardinality(Tiles) \in Nat
  <1>1. IsFiniteSet(Devices) /\ Cardinality(Devices) = N
    BY MemSyncAssumption, FS_Interval DEF Devices
  <1>2. IsFiniteSet(Tiles) /\ Cardinality(Tiles) \in Nat
    BY MemSyncAssumption, FS_CardinalityType
  <1>3. IsFiniteSet(1..Cardinality(Tiles)) /\ Cardinality(1..Cardinality(Tiles)) = Cardinality(Tiles)
    BY <1>2, FS_Interval
  <1>4. IsFiniteSet(Tiles \X Devices) /\ IsFiniteSet(Devices \X Devices)
    BY <1>1, <1>2, FS_Product
  <1>5. /\ IsFiniteSet(Devices \X (1..Cardinality(Tiles)))
        /\ Cardinality(Devices \X (1..Cardinality(Tiles)))
               = Cardinality(Devices) * Cardinality(1..Cardinality(Tiles))
    BY <1>1, <1>3, FS_Product
  <1>6. Cardinality(Devices \X (1..Cardinality(Tiles))) = N * Cardinality(Tiles)
    BY <1>1, <1>3, <1>5, Zenon
  <1> QED BY <1>1, <1>2, <1>4, <1>5, <1>6

\* A set with the elements of a finite set has at most as many.
LEMMA CardType ==
    ASSUME NEW T, IsFiniteSet(T), NEW S \in SUBSET T
    PROVE  IsFiniteSet(S) /\ Cardinality(S) \in Nat /\ Cardinality(S) <= Cardinality(T)
  BY FS_Subset, FS_CardinalityType

\* A counter that holds Big for each device of O is a natural number, and it is zero
\* only when nothing is left: what has not been added yet is less than Big.
LEMMA CounterBounds ==
    ASSUME NEW O \in SUBSET Devices,
           NEW U \in SUBSET (Devices \X (1..Cardinality(Tiles))),
           \A p \in U : p[1] \in O,
           NEW P \in SUBSET (Tiles \X Devices), NEW Q \in SUBSET (Devices \X Devices),
           NEW c \in Int,
           c + Cardinality(U) = Big * Cardinality(O) + Cardinality(P) + Cardinality(Q)
    PROVE  /\ c \in Nat
           /\ c = 0 => O = {} /\ U = {} /\ P = {} /\ Q = {}
  <1>1. IsFiniteSet(O) /\ Cardinality(O) \in Nat
    BY FiniteSets, CardType
  <1>2. /\ IsFiniteSet(U) /\ Cardinality(U) \in Nat
        /\ Cardinality(U) <= N * Cardinality(Tiles)
    BY FiniteSets, CardType
  <1>3. /\ IsFiniteSet(P) /\ Cardinality(P) \in Nat
        /\ IsFiniteSet(Q) /\ Cardinality(Q) \in Nat
    BY FiniteSets, CardType
  <1>4. Big \in Nat /\ Cardinality(U) < Big
    <2>1. N * Cardinality(Tiles) \in Nat
      BY FiniteSets, MemSyncAssumption
    <2> QED BY <1>2, <2>1, MemSyncAssumption
  <1>5. CASE O = {}
    <2>1. Cardinality(O) = 0
      BY <1>5, FS_EmptySet
    <2>2. U = {}
      BY <1>5
    <2>3. Cardinality(U) = 0
      BY <2>2, FS_EmptySet
    <2>4. c = Cardinality(P) + Cardinality(Q)
      BY <2>1, <2>3, <1>3, <1>4
    <2>5. c = 0 => Cardinality(P) = 0 /\ Cardinality(Q) = 0
      BY <2>4, <1>3
    <2> QED BY <2>2, <2>4, <2>5, <1>3, <1>5, FS_EmptySet
  <1>6. CASE O # {}
    <2>1. Cardinality(O) # 0
      BY <1>1, <1>6, FS_EmptySet
    <2>2. Big * Cardinality(O) \in Nat /\ Big * Cardinality(O) >= Big
      BY <1>1, <1>4, <2>1
    <2> QED BY <1>2, <1>3, <1>4, <2>2
  <1> QED BY <1>5, <1>6

\* A product with one factor more, or one less.
LEMMA OneMore ==
    ASSUME NEW a \in Nat, NEW n \in Nat
    PROVE  /\ a * n \in Nat /\ a * (n + 1) = a * n + a /\ a * (n - 1) = a * n - a
           /\ n # 0 => a * n >= a
  <1>1. a * n \in Nat
    OBVIOUS
  <1>2. a * (n + 1) = a * n + a
    OBVIOUS
  <1>3. a * (n - 1) = a * n - a
    OBVIOUS
  <1>4. n # 0 => a * n >= a
    <2> SUFFICES ASSUME n # 0 PROVE a * n >= a
      OBVIOUS
    <2>1. PICK m \in Nat : n = m + 1
      <3>1. n - 1 \in Nat /\ n = (n - 1) + 1
        OBVIOUS
      <3> QED BY <3>1
    <2>2. a * n = a * m + a /\ a * m \in Nat
      BY <2>1
    <2> QED BY <2>2
  <1> QED BY <1>1, <1>2, <1>3, <1>4

\* One element more, or one less, counts for Big.
LEMMA BigTimes ==
    ASSUME NEW O \in SUBSET Devices, NEW d \in Devices
    PROVE  /\ Big * Cardinality(O) \in Nat
           /\ d \notin O => Big * Cardinality(O \cup {d}) = Big * Cardinality(O) + Big
           /\ d \in O => Big * Cardinality(O \ {d}) = Big * Cardinality(O) - Big
  <1>1. IsFiniteSet(O) /\ Cardinality(O) \in Nat /\ Big \in Nat
    BY FiniteSets, CardType, MemSyncAssumption
  <1>2. d \notin O => Cardinality(O \cup {d}) = Cardinality(O) + 1
    BY <1>1, FS_AddElement
  <1>3. d \in O => Cardinality(O \ {d}) = Cardinality(O) - 1
    BY <1>1, FS_RemoveElement
  <1>4. PICK n \in Nat : n = Cardinality(O)
    BY <1>1, Zenon
  <1>5. PICK b \in Nat : b = Big
    BY <1>1, Zenon
  <1>6. b * n \in Nat /\ b * (n + 1) = b * n + b /\ b * (n - 1) = b * n - b
    BY OneMore
  <1>7. Big * Cardinality(O) = b * n
    BY <1>4, <1>5, Zenon
  <1>8. ASSUME d \notin O
        PROVE  Big * Cardinality(O \cup {d}) = b * (n + 1)
    BY <1>2, <1>4, <1>5, <1>8, Zenon
  <1>9. ASSUME d \in O
        PROVE  Big * Cardinality(O \ {d}) = b * (n - 1)
    BY <1>3, <1>4, <1>5, <1>9, Zenon
  <1>10. d \notin O => Big * Cardinality(O \cup {d}) = b * n + b
    BY <1>6, <1>8, Zenon
  <1>11. d \in O => Big * Cardinality(O \ {d}) = b * n - b
    BY <1>6, <1>9, Zenon
  <1> QED BY <1>5, <1>6, <1>7, <1>10, <1>11, Zenon

\* Two sets with a one-to-one correspondence have as many elements.
LEMMA SameSize ==
    ASSUME NEW S, IsFiniteSet(S), NEW T, NEW f \in [S -> T],
           \A x, y \in S : f[x] = f[y] => x = y,
           \A z \in T : \E x \in S : f[x] = z
    PROVE  IsFiniteSet(T) /\ Cardinality(T) = Cardinality(S)
  <1>1. f \in Bijection(S, T)
    BY DEF Bijection, Injection, Surjection, IsInjective
  <1> QED BY <1>1, FS_Bijection DEF ExistsBijection

\* A disjoint union has the elements of both sets.
LEMMA DisjointUnion ==
    ASSUME NEW S, IsFiniteSet(S), NEW T, IsFiniteSet(T), \A x \in S : x \notin T
    PROVE  IsFiniteSet(S \cup T) /\ Cardinality(S \cup T) = Cardinality(S) + Cardinality(T)
  <1>1. S \cap T = {}
    OBVIOUS
  <1>2. Cardinality(S \cap T) = 0
    BY <1>1, FS_EmptySet
  <1>3. Cardinality(S) \in Nat /\ Cardinality(T) \in Nat
    BY FS_CardinalityType
  <1>4. Cardinality(S \cup T) = Cardinality(S) + Cardinality(T) - Cardinality(S \cap T)
    BY FS_Union
  <1> QED BY <1>2, <1>3, <1>4, FS_Union

-----------------------------------------------------------------------------
(* What the invariant says of a state.                                     *)

\* The sets that are counted are sets of pairs.
LEMMA Pairs ==
    /\ OnTile \in SUBSET (Tiles \X Devices)
    /\ InCalls \in SUBSET (Devices \X Devices)
    /\ Unsent \in SUBSET (Devices \X (1..Cardinality(Tiles)))
  BY DEF OnTile, InCalls, Unsent

\* Outside a call no device has a request or a callback.
LEMMA NothingOutside ==
    ASSUME SyncInv, ~ InCall
    PROVE  /\ \A d \in Devices : Free(d) /\ calls[d] = <<>> /\ ~ Working(d)
           /\ \A d \in Devices : op[d] # "MEMSYNC" /\ dpc[d] \notin {"writeback", "add", "sub"}
           /\ \A d \in Devices : ~ Posted(d) /\ ~ Counted(d) /\ ~ Engaged(d)
           /\ due = {} /\ OnTile = {} /\ InCalls = {} /\ Unsent = {}
           /\ \A t \in Tiles : cbk[t] = <<>>
  <1>1. \A d \in Devices : ~ Posted(d) /\ ~ Counted(d) /\ ~ Working(d)
    BY DEF InCall, Posted, Counted, Working
  <1>2. \A d \in Devices : Free(d)
    BY <1>1 DEF SyncInv, Owners
  <1>3. \A d \in Devices : calls[d] = <<>>
    BY <1>1 DEF SyncInv, Runners
  <1>4. \A d \in Devices : op[d] # "MEMSYNC" /\ dpc[d] \notin {"writeback", "add", "sub"}
    BY <1>1 DEF SyncInv, Requests
  <1>5. \A d \in Devices : ~ Engaged(d)
    BY <1>1 DEF SyncInv, Pointers, Engaged
  <1>6. due = {}
    BY <1>1 DEF SyncInv, TypeOK, Dues
  <1>7. OnTile = {} /\ InCalls = {}
    BY <1>2, Pairs DEF Free
  <1>8. Unsent = {}
    BY <1>4 DEF Unsent
  <1>9. \A t \in Tiles : cbk[t] = <<>>
    <2> SUFFICES ASSUME NEW t \in Tiles, cbk[t] # <<>> PROVE FALSE
      OBVIOUS
    <2>1. 1 \in DOMAIN cbk[t] /\ cbk[t][1] \in Devices
      BY DEF SyncInv, TypeOK
    <2>2. <<t, cbk[t][1]>> \in OnTile
      BY <2>1 DEF OnTile
    <2> QED BY <2>2, <1>7
  <1> QED BY <1>1, <1>2, <1>3, <1>4, <1>5, <1>6, <1>7, <1>8, <1>9

\* The devices of Balance, picked in a call.
LEMMA CounterZero ==
    ASSUME SyncInv, InCall, counter = 0
    PROVE  /\ OnTile = {} /\ InCalls = {} /\ Unsent = {}
           /\ \A d \in Devices : ~ Engaged(d) /\ Free(d)
  <1>1. PICK O \in SUBSET {d \in Devices : Counted(d)} :
            /\ {d \in Devices : Engaged(d)} \subseteq O
            /\ counter + Cardinality(Unsent) =
                   Big * Cardinality(O) + Cardinality(OnTile) + Cardinality(InCalls)
    BY DEF SyncInv, Balance
  <1>2. \A p \in Unsent : p[1] \in O
    <2> TAKE p \in Unsent
    <2>1. p[1] \in Devices /\ dpc[p[1]] = "add"
      BY DEF Unsent
    <2>2. Working(p[1])
      BY <2>1 DEF SyncInv, Requests
    <2>3. ptr[p[1]]
      BY <2>1, <2>2 DEF SyncInv, Pointers, Working, Counted
    <2> QED BY <1>1, <2>1, <2>3 DEF Engaged
  <1>3. O \in SUBSET Devices /\ counter \in Int
    BY DEF SyncInv, TypeOK
  <1>4. O = {} /\ Unsent = {} /\ OnTile = {} /\ InCalls = {}
    BY <1>1, <1>2, <1>3, Pairs, CounterBounds
  <1> QED BY <1>1, <1>4 DEF Free

-----------------------------------------------------------------------------
(* What steps leave alone.                                                 *)

\* A step that leaves the callbacks alone leaves their sets alone.
LEMMA SameCallbacks ==
    ASSUME UNCHANGED <<cbk, calls, due>>
    PROVE  /\ OnTile' = OnTile /\ InCalls' = InCalls
           /\ \A d \in Devices : Free(d)' <=> Free(d)
  <1>1. OnTile' = OnTile /\ InCalls' = InCalls
    BY DEF OnTile, InCalls
  <1> QED BY <1>1 DEF Free

\* A step that leaves the memory alone leaves what must be written back alone.
LEMMA SameTiles ==
    ASSUME UNCHANGED <<valid, rw, cbk>>
    PROVE  \A d \in Devices : Modified(d)' = Modified(d) /\ (Written(d)' <=> Written(d))
  <1>1. OnTile' = OnTile
    BY DEF OnTile
  <1>2. \A d \in Devices : Modified(d)' = Modified(d)
    BY DEF Modified
  <1> QED BY <1>1, <1>2 DEF Written

\* A step of a call that leaves the callbacks and the counter alone, in the first
\* call the engaged devices too, keeps Balance.
LEMMA SameBalance ==
    ASSUME Balance, InCall, OnTile' = OnTile, InCalls' = InCalls, Unsent' = Unsent,
           counter' = counter,
           \A d \in Devices : Engaged(d)' => Engaged(d),
           \A d \in Devices : Counted(d) => Counted(d)',
           syncs' = syncs,
           syncs = 0 => \A d \in Devices : Engaged(d) => Engaged(d)'
    PROVE  Balance'
  <1>1. PICK O \in SUBSET {d \in Devices : Counted(d)} :
            /\ {d \in Devices : Engaged(d)} \subseteq O
            /\ syncs = 0 => O = {d \in Devices : Engaged(d)}
            /\ counter + Cardinality(Unsent) =
                   Big * Cardinality(O) + Cardinality(OnTile) + Cardinality(InCalls)
    BY DEF Balance
  <1>2. counter' + Cardinality(Unsent') =
            Big * Cardinality(O) + Cardinality(OnTile') + Cardinality(InCalls')
    BY <1>1
  <1>3. O \in SUBSET {d \in Devices : Counted(d)'}
    BY <1>1
  <1>4. {d \in Devices : Engaged(d)'} \subseteq O
    BY <1>1
  <1>5. syncs' = 0 => O = {d \in Devices : Engaged(d)'}
    BY <1>1
  <1> QED BY <1>2, <1>3, <1>4, <1>5 DEF Balance

-----------------------------------------------------------------------------
(* The steps of the caller.                                                *)

\* A task is pushed, or a call starts.
LEMMA OutsideKeeps ==
    ASSUME SyncInv, (\E d \in Devices : Push(d)) \/ SyncAll
    PROVE  SyncInv'
  <1>1. /\ UNCHANGED <<ci, blocked, syncs, mailVars, memVars, cbVars, dpc, sent>>
        /\ cpc = "idle" /\ cpc' \in {"idle", "drain"} /\ syncs < MaxSyncs
    BY DEF Push, SyncAll, mailVars, memVars, cbVars
  <1>2. TypeOK'
    <2>1. CASE SyncAll
      BY <2>1 DEF SyncInv, TypeOK, SyncAll, mailVars, memVars, cbVars
    <2>2. CASE \E d \in Devices : Push(d)
      <3>1. PICK d \in Devices : Push(d)
        BY <2>2
      <3>2. queue' \in [Devices -> Nat] /\ issleeping' \in [Devices -> BOOLEAN]
        BY <3>1 DEF SyncInv, TypeOK, Push, Wakeup
      <3>3. pushed' \in 0..MaxTasks
        BY <3>1, MemSyncAssumption DEF SyncInv, TypeOK, Push
      <3>4. cpc' = cpc
        BY <3>1 DEF Push
      <3> QED BY <1>1, <3>2, <3>3, <3>4 DEF SyncInv, TypeOK, mailVars, memVars, cbVars
    <2> QED BY <2>1, <2>2
  <1>3. ~ InCall /\ ~ InCall'
    BY <1>1 DEF InCall
  <1>4. /\ \A d \in Devices : Free(d) /\ calls[d] = <<>>
        /\ \A d \in Devices : op[d] # "MEMSYNC" /\ dpc[d] \notin {"writeback", "add", "sub"}
        /\ due = {}
    BY <1>3, NothingOutside
  <1>5. \A d \in Devices : Free(d)' /\ (Written(d)' <=> Written(d)) /\ ~ Posted(d)' /\ ~ Posted(d)
                           /\ ~ Counted(d)' /\ ~ Counted(d)
    <2>1. \A d \in Devices : Free(d)' /\ (Written(d)' <=> Written(d))
      BY <1>1, <1>4, SameCallbacks, SameTiles DEF mailVars, memVars, cbVars
    <2> QED BY <2>1, <1>1 DEF Posted, Counted
  <1>6. Quiet' /\ Bounded' /\ Pointers' /\ Requests' /\ Owners' /\ Runners'
    BY <1>1, <1>3, <1>4, <1>5
    DEF SyncInv, Quiet, Bounded, Pointers, Requests, Owners, Runners, mailVars, memVars, cbVars
  <1>7. Distinct' /\ Dues' /\ Late' /\ WrittenBack' /\ DirtyKnown'
    BY <1>1, <1>4, <1>5
    DEF SyncInv, Distinct, Dues, Late, WrittenBack, DirtyKnown, mailVars, memVars, cbVars
  <1>8. Balance' /\ FirstCall'
    BY <1>1, <1>3, <1>5 DEF SyncInv, Balance, FirstCall, mailVars, memVars, cbVars
  <1> QED BY <1>2, <1>6, <1>7, <1>8 DEF SyncInv

\* The tasks are executed, and the first loop starts.
LEMMA DrainedKeeps ==
    ASSUME SyncInv, Drained
    PROVE  SyncInv'
  <1>1. /\ UNCHANGED <<blocked, syncs, op, ptr, memVars, cbVars, dpc, sent, queue>>
        /\ cpc = "drain" /\ cpc' = "count" /\ ci' = 1 /\ counter' = 0
    BY DEF Drained
  <1>2. TypeOK'
    BY MemSyncAssumption DEF SyncInv, TypeOK, Drained, memVars, cbVars, Devices
  <1>3. ~ InCall
    BY <1>1 DEF InCall
  <1>4. /\ \A d \in Devices : Free(d) /\ calls[d] = <<>> /\ ~ Counted(d)
        /\ \A d \in Devices : op[d] # "MEMSYNC" /\ dpc[d] \notin {"writeback", "add", "sub"}
        /\ due = {} /\ OnTile = {} /\ InCalls = {} /\ Unsent = {}
    BY <1>3, NothingOutside
  <1>5. /\ \A d \in Devices : Free(d)' /\ (Written(d)' <=> Written(d))
        /\ OnTile' = {} /\ InCalls' = {} /\ Unsent' = {}
    <2>1. \A d \in Devices : Free(d)' /\ (Written(d)' <=> Written(d))
      BY <1>1, <1>4, SameCallbacks, SameTiles DEF memVars, cbVars
    <2>2. Unsent' = Unsent
      BY <1>1 DEF Unsent
    <2> QED BY <2>1, <2>2, <1>1, <1>4, SameCallbacks DEF memVars, cbVars
  <1>6. \A d \in Devices : ~ Posted(d)' /\ ~ Posted(d) /\ ~ Counted(d)' /\ ~ Engaged(d)'
    <2>1. \A d \in Devices : ~ Posted(d)' /\ ~ Posted(d) /\ ~ Counted(d)'
      BY <1>1 DEF Posted, Counted, Devices
    <2>2. \A d \in Devices : ~ ptr[d]
      BY <1>4 DEF SyncInv, Pointers
    <2> QED BY <2>1, <2>2, <1>1 DEF Engaged
  <1>7. Quiet' /\ Bounded' /\ Pointers' /\ Requests' /\ Owners' /\ Runners'
    BY <1>1, <1>4, <1>5, <1>6
    DEF SyncInv, Quiet, Bounded, Pointers, Requests, Owners, Runners, memVars, cbVars, Drained
  <1>8. Distinct' /\ Dues' /\ Late' /\ WrittenBack' /\ DirtyKnown'
    BY <1>1, <1>4, <1>5, <1>6
    DEF SyncInv, Distinct, Dues, Late, WrittenBack, DirtyKnown, memVars, cbVars
  <1>9. Balance'
    <2>1. Cardinality({}) = 0
      BY FS_EmptySet
    <2>2. counter' + Cardinality(Unsent') =
              Big * Cardinality({}) + Cardinality(OnTile') + Cardinality(InCalls')
      BY <2>1, <1>1, <1>5, MemSyncAssumption
    <2>3. {d \in Devices : Engaged(d)'} = {} /\ {} \in SUBSET {d \in Devices : Counted(d)'}
      BY <1>6
    <2> QED BY <2>2, <2>3 DEF Balance
  <1>10. FirstCall'
    BY <1>1, <1>4, <1>6 DEF SyncInv, FirstCall
  <1> QED BY <1>2, <1>7, <1>8, <1>9, <1>10 DEF SyncInv

\* The callback of e that is about to reply, and the device it is for.
LEMMA DuesHead ==
    ASSUME SyncInv, NEW e \in due
    PROVE  /\ e \in Devices /\ calls[e] # <<>> /\ dpc[e] = "loop" /\ Free(e)
           /\ \E d \in Devices : /\ calls[e] = <<d>>
                                 /\ Posted(d) /\ ~ Engaged(d) /\ Free(d)
                                 /\ calls[d] = <<>> \/ d = e
  <1>1. e \in Devices /\ dpc[e] = "loop" /\ Free(e)
    BY DEF SyncInv, TypeOK, Dues
  <1>2. \E d \in Devices : /\ calls[e] = <<d>>
                           /\ Posted(d) /\ ~ Engaged(d) /\ Free(d)
                           /\ calls[d] = <<>> \/ d = e
    BY DEF SyncInv, Dues
  <1> QED BY <1>1, <1>2

\* A step that leaves the lists of callbacks alone keeps Dues when no device that a
\* callback is about to reply for is engaged or gets a callback.
LEMMA SameDues ==
    ASSUME SyncInv, UNCHANGED <<calls, due>>,
           \A e \in due : dpc'[e] = dpc[e],
           \A d \in Devices : Posted(d) /\ ~ Engaged(d) => Posted(d)' /\ ~ Engaged(d)',
           \A d \in Devices : Free(d) /\ (~ Engaged(d) \/ d \in due) => Free(d)'
    PROVE  Dues'
  <1> SUFFICES ASSUME NEW e \in due
               PROVE  /\ dpc'[e] = "loop" /\ Free(e)'
                      /\ \E d \in Devices : /\ calls[e] = <<d>>
                                            /\ Posted(d)' /\ ~ Engaged(d)' /\ Free(d)'
                                            /\ calls[d] = <<>> \/ d = e
    BY DEF Dues
  <1>1. e \in Devices /\ dpc[e] = "loop" /\ Free(e)
    BY DuesHead
  <1>2. PICK d \in Devices : /\ calls[e] = <<d>>
                             /\ Posted(d) /\ ~ Engaged(d) /\ Free(d)
                             /\ calls[d] = <<>> \/ d = e
    BY DuesHead
  <1> QED BY <1>1, <1>2

\* A step that changes nothing but the sleep of a device or the caller keeps SyncInv.
LEMMA SleepingKeeps ==
    ASSUME SyncInv,
           UNCHANGED <<cpc, ci, pushed, syncs, mailVars, memVars, cbVars, dpc, queue, sent>>,
           blocked' \in BOOLEAN, issleeping' \in [Devices -> BOOLEAN]
    PROVE  SyncInv'
  <1>1. /\ OnTile' = OnTile /\ InCalls' = InCalls /\ Unsent' = Unsent
        /\ \A d \in Devices : (Free(d)' <=> Free(d)) /\ (Written(d)' <=> Written(d))
    BY SameCallbacks, SameTiles DEF memVars, cbVars, Unsent
  <1>2. \A d \in Devices : /\ Posted(d)' <=> Posted(d)
                           /\ Consumed(d)' <=> Consumed(d)
                           /\ Counted(d)' <=> Counted(d)
                           /\ Working(d)' <=> Working(d)
                           /\ Engaged(d)' <=> Engaged(d)
    BY DEF Posted, Consumed, Counted, Working, Engaged, mailVars
  <1>3. TypeOK'
    BY DEF SyncInv, TypeOK, mailVars, memVars, cbVars
  <1>4. Quiet' /\ Bounded' /\ Pointers' /\ Requests' /\ Owners' /\ Runners'
    BY <1>1, <1>2
    DEF SyncInv, Quiet, InCall, Bounded, Pointers, Requests, Owners, Runners, mailVars, cbVars
  <1>5. Distinct' /\ DirtyKnown' /\ FirstCall' /\ Late' /\ WrittenBack'
    BY <1>1, <1>2
    DEF SyncInv, Distinct, DirtyKnown, FirstCall, Late, WrittenBack, mailVars, memVars, cbVars
  <1>6. Dues'
    BY <1>2, SameCallbacks, SameDues DEF cbVars, memVars
  <1>7. Balance'
    <2>1. CASE InCall
      BY <2>1, <1>1, <1>2, SameBalance DEF SyncInv, mailVars
    <2>2. CASE ~ InCall
      BY <2>2 DEF InCall, Balance
    <2> QED BY <2>1, <2>2
  <1> QED BY <1>3, <1>4, <1>5, <1>6, <1>7 DEF SyncInv

\* The counter is incremented for the next device.
LEMMA CountKeeps ==
    ASSUME SyncInv, Count
    PROVE  SyncInv'
  <1>1. /\ UNCHANGED <<ci, blocked, pushed, syncs, op, memVars, cbVars, dpc, issleeping, queue, sent>>
        /\ cpc = "count" /\ cpc' = "post" /\ counter' = counter + Big
        /\ ptr' = [ptr EXCEPT ![ci] = TRUE]
    BY DEF Count
  <1>2. ci \in Devices /\ counter \in Nat /\ Big \in Nat /\ ptr \in [Devices -> BOOLEAN]
    BY MemSyncAssumption DEF SyncInv, TypeOK
  <1>3. TypeOK'
    BY <1>1, <1>2 DEF SyncInv, TypeOK, memVars, cbVars
  <1>4. /\ OnTile' = OnTile /\ InCalls' = InCalls /\ Unsent' = Unsent
        /\ \A d \in Devices : (Free(d)' <=> Free(d)) /\ (Written(d)' <=> Written(d))
    BY <1>1, SameCallbacks, SameTiles DEF memVars, cbVars, Unsent
  <1>5. \A d \in Devices : /\ Posted(d)' <=> Posted(d)
                           /\ Working(d)' <=> Working(d)
                           /\ Counted(d)' <=> Counted(d) \/ d = ci
                           /\ ~ Consumed(d)' /\ ~ Consumed(d)
    BY <1>1 DEF Posted, Working, Counted, Consumed
  <1>6. ~ Counted(ci) /\ ~ ptr[ci] /\ ~ Engaged(ci)
    BY <1>1, <1>2 DEF SyncInv, Pointers, Counted, Posted, Engaged, Devices
  <1>7. Pointers'
    BY <1>1, <1>2, <1>5 DEF SyncInv, Pointers
  <1>8. \A d \in Devices : Engaged(d)' <=> Engaged(d) \/ d = ci
    BY <1>1, <1>2 DEF Engaged
  <1>9. Quiet' /\ Bounded' /\ Requests' /\ Owners' /\ Runners'
    BY <1>1, <1>4, <1>5
    DEF SyncInv, Quiet, InCall, Bounded, Requests, Owners, Runners, memVars, cbVars
  <1>10. Distinct' /\ DirtyKnown' /\ FirstCall'
    BY <1>1, <1>5 DEF SyncInv, Distinct, DirtyKnown, FirstCall, memVars, cbVars
  <1>11. Late' /\ WrittenBack'
    BY <1>1, <1>4, <1>5, <1>8 DEF SyncInv, Late, WrittenBack
  <1>12. Dues'
    <2>1. \A d \in Devices : Posted(d) => d # ci
      BY <1>6 DEF Counted
    <2> QED BY <1>1, <1>5, <1>8, <2>1, SameCallbacks, SameDues DEF memVars, cbVars
  <1>13. Balance'
    <2>1. PICK O \in SUBSET {d \in Devices : Counted(d)} :
              /\ {d \in Devices : Engaged(d)} \subseteq O
              /\ syncs = 0 => O = {d \in Devices : Engaged(d)}
              /\ counter + Cardinality(Unsent) =
                     Big * Cardinality(O) + Cardinality(OnTile) + Cardinality(InCalls)
      BY <1>1 DEF SyncInv, Balance, InCall
    <2>2. ci \notin O /\ O \in SUBSET Devices
      BY <2>1, <1>6
    <2>3. /\ Big * Cardinality(O \cup {ci}) = Big * Cardinality(O) + Big
          /\ Big * Cardinality(O) \in Nat
      BY <2>2, <1>2, BigTimes
    <2>4. /\ Cardinality(Unsent) \in Nat /\ Cardinality(OnTile) \in Nat
          /\ Cardinality(InCalls) \in Nat
      BY Pairs, FiniteSets, CardType
    <2>5. counter' + Cardinality(Unsent') =
              Big * Cardinality(O \cup {ci}) + Cardinality(OnTile') + Cardinality(InCalls')
      <3>1. PICK x : x = Big * Cardinality(O)
        OBVIOUS
      <3>2. counter + Big + Cardinality(Unsent)
                = (x + Big) + Cardinality(OnTile) + Cardinality(InCalls)
        BY <1>2, <2>1, <2>3, <2>4, <3>1
      <3> QED BY <1>1, <1>4, <2>3, <3>1, <3>2
    <2>6. O \cup {ci} \in SUBSET {d \in Devices : Counted(d)'}
      BY <2>1, <1>2, <1>5
    <2>7. /\ {d \in Devices : Engaged(d)'} \subseteq O \cup {ci}
          /\ syncs' = 0 => O \cup {ci} = {d \in Devices : Engaged(d)'}
      BY <2>1, <1>1, <1>2, <1>8
    <2> QED BY <2>5, <2>6, <2>7 DEF Balance
  <1> QED BY <1>3, <1>7, <1>9, <1>10, <1>11, <1>12, <1>13 DEF SyncInv

\* A request is posted, or the caller waits for the mail box.
LEMMA Request2DeviceKeeps ==
    ASSUME SyncInv, Request2Device
    PROVE  SyncInv'
  <1>1. /\ UNCHANGED <<ptr, counter, pushed, syncs, memVars, cbVars, dpc, queue, sent>>
        /\ cpc = "post" /\ issleeping' = [issleeping EXCEPT ![ci] = FALSE]
    BY DEF Request2Device, Wakeup
  <1>2. ci \in Devices /\ op \in [Devices -> Ops] /\ counter \in Nat
    BY DEF SyncInv, TypeOK
  <1>3. /\ OnTile' = OnTile /\ InCalls' = InCalls /\ Unsent' = Unsent
        /\ \A d \in Devices : (Free(d)' <=> Free(d)) /\ (Written(d)' <=> Written(d))
    BY <1>1, SameCallbacks, SameTiles DEF memVars, cbVars, Unsent
  <1>4. CASE op[ci] = "NOP"
    <2>1. /\ op' = [op EXCEPT ![ci] = "MEMSYNC"] /\ blocked' = blocked
          /\ cpc' = IF ci = N THEN "wait" ELSE "count"
          /\ ci'  = IF ci = N THEN 1 ELSE ci + 1
      BY <1>4 DEF Request2Device
    <2>2. ci' \in Devices /\ cpc' \in {"wait", "count"}
      BY <2>1, <1>2, MemSyncAssumption DEF Devices
    <2>3. TypeOK'
      BY <1>1, <1>2, <2>1, <2>2 DEF SyncInv, TypeOK, Ops, memVars, cbVars
    <2>4. \A d \in Devices : /\ Posted(d)' <=> Posted(d) \/ d = ci
                             /\ ~ Consumed(d)' /\ ~ Consumed(d)
                             /\ Counted(d)' <=> Counted(d)
                             /\ ~ (cpc' = "post" /\ ci' = d)
                             /\ d = ci => ~ Posted(d) /\ Counted(d)
      BY <1>1, <1>2, <2>1, MemSyncAssumption DEF Posted, Consumed, Counted, Devices
    <2>5. \A d \in Devices : Working(d)' <=> Working(d) \/ d = ci
      BY <2>4 DEF Working
    <2>6. ~ Working(ci) /\ Free(ci) /\ calls[ci] = <<>> /\ ptr[ci]
          /\ dpc[ci] \notin {"writeback", "add", "sub"}
      <3>1. ~ Working(ci) /\ ptr[ci]
        BY <1>2, <2>4 DEF Working, SyncInv, Pointers
      <3> QED BY <3>1, <1>2, <1>4 DEF SyncInv, Owners, Runners, Requests
    <2>7. \A d \in Devices : (Engaged(d)' <=> Engaged(d)) /\ (d = ci => Engaged(d))
      <3>1. \A d \in Devices : d = ci => Engaged(d)' /\ Engaged(d)
        BY <1>1, <1>2, <2>1, <2>6 DEF Engaged
      <3> QED BY <3>1, <1>1, <1>2, <2>1, <2>4 DEF Engaged
    <2>8. Quiet' /\ Bounded' /\ Pointers'
      BY <1>1, <2>2, <2>4 DEF SyncInv, Quiet, InCall, Bounded, Pointers
    <2>9. Requests' /\ Owners' /\ Runners'
      BY <1>1, <1>2, <1>3, <2>1, <2>5, <2>6
      DEF SyncInv, Requests, Owners, Runners, memVars, cbVars
    <2>10. Distinct' /\ DirtyKnown'
      BY <1>1 DEF SyncInv, Distinct, DirtyKnown, memVars, cbVars
    <2>11. Late' /\ WrittenBack'
      BY <1>1, <1>3, <1>4, <2>4, <2>6, <2>7 DEF SyncInv, Late, WrittenBack
    <2>12. FirstCall'
      BY <1>1, <1>2, <2>1, <2>4 DEF SyncInv, FirstCall
    <2>13. Dues'
      BY <1>1, <2>4, <2>7, SameCallbacks, SameDues DEF memVars, cbVars
    <2>14. Balance'
      <3>1. InCall
        BY <1>1 DEF InCall
      <3> QED BY <1>1, <1>3, <2>4, <2>7, <3>1, SameBalance DEF SyncInv
    <2> QED BY <2>3, <2>8, <2>9, <2>10, <2>11, <2>12, <2>13, <2>14 DEF SyncInv
  <1>5. CASE op[ci] # "NOP"
    <2>1. UNCHANGED <<op, cpc, ci>> /\ blocked' = TRUE
      BY <1>5 DEF Request2Device
    <2>2. blocked' \in BOOLEAN /\ issleeping' \in [Devices -> BOOLEAN]
      BY <1>1, <1>2, <2>1 DEF SyncInv, TypeOK
    <2> QED BY <1>1, <2>1, <2>2, SleepingKeeps DEF mailVars
  <1> QED BY <1>4, <1>5

\* A device whose mail box holds the reply has nothing left to send; only the wait
\* for the mail box may still count it.
LEMMA ReplySent ==
    ASSUME SyncInv, NEW d \in Devices, op[d] = "REPLY"
    PROVE  /\ Free(d) /\ calls[d] = <<>> /\ dpc[d] \notin {"writeback", "add", "sub"}
           /\ cpc = "wait" => ~ Engaged(d)
  <1>1. Free(d)
    BY DEF SyncInv, Owners
  <1>2. dpc[d] \notin {"writeback", "add", "sub"}
    BY DEF SyncInv, Requests
  <1>3. calls[d] = <<>>
    BY <1>2 DEF SyncInv, Runners
  <1> QED BY <1>1, <1>2, <1>3 DEF Engaged

\* The caller consumes a reply, and returns after the last, or waits.
LEMMA RequestWaitKeeps ==
    ASSUME SyncInv, RequestWait
    PROVE  SyncInv'
  <1>1. UNCHANGED <<counter, pushed, memVars, cbVars, dpc, queue, sent>> /\ cpc = "wait"
    BY DEF RequestWait
  <1>2. ci \in Devices /\ op \in [Devices -> Ops] /\ ptr \in [Devices -> BOOLEAN]
    BY DEF SyncInv, TypeOK
  <1>3. /\ OnTile' = OnTile /\ InCalls' = InCalls /\ Unsent' = Unsent
        /\ \A d \in Devices : (Free(d)' <=> Free(d)) /\ (Written(d)' <=> Written(d))
    BY <1>1, SameCallbacks, SameTiles DEF memVars, cbVars, Unsent
  <1>4. CASE op[ci] = "REPLY"
    <2>1. /\ op' = [op EXCEPT ![ci] = "NOP"] /\ ptr' = [ptr EXCEPT ![ci] = FALSE]
          /\ cpc' = IF ci = N THEN "idle" ELSE "wait"
          /\ ci'  = IF ci = N THEN 1 ELSE ci + 1
          /\ syncs' = IF ci = N THEN syncs + 1 ELSE syncs
          /\ UNCHANGED <<blocked, issleeping>>
      BY <1>4 DEF RequestWait
    <2>2. ci' \in Devices /\ cpc' \in {"idle", "wait"}
      BY <2>1, <1>2, MemSyncAssumption DEF Devices
    <2>3. syncs' \in 0..MaxSyncs /\ syncs \in Nat
      BY <1>1, <2>1, MemSyncAssumption DEF SyncInv, TypeOK, Bounded
    <2>4. TypeOK'
      BY <1>1, <1>2, <2>1, <2>2, <2>3 DEF SyncInv, TypeOK, Ops, memVars, cbVars
    <2>5. /\ Free(ci) /\ calls[ci] = <<>> /\ dpc[ci] \notin {"writeback", "add", "sub"}
          /\ ~ Engaged(ci)
      BY <1>1, <1>2, <1>4, ReplySent
    <2>6. \A d \in Devices : /\ Posted(d) /\ Counted(d)
                             /\ Consumed(d) <=> d < ci
                             /\ ~ (cpc' = "post" /\ ci' = d)
      BY <1>1, <2>1 DEF Posted, Counted, Consumed
    <2>7. \A d \in Devices : Engaged(d)' <=> Engaged(d)
      <3>1. \A d \in Devices : d = ci => ~ Engaged(d)' /\ ~ Engaged(d)
        BY <1>2, <2>1, <2>5 DEF Engaged
      <3> QED BY <3>1, <1>1, <1>2, <2>1, <2>6 DEF Engaged
    <2>8. Distinct' /\ DirtyKnown'
      BY <1>1 DEF SyncInv, Distinct, DirtyKnown, memVars, cbVars
    <2>9. CASE ci = N
      <3>1. cpc' = "idle" /\ syncs' # 0
        BY <2>1, <2>3, <2>9
      <3>2. \A d \in Devices : /\ ~ Posted(d)' /\ ~ Counted(d)' /\ ~ Working(d)'
                               /\ Working(d) => d = ci
        BY <1>2, <2>6, <2>9, <3>1 DEF Posted, Counted, Working, Devices
      <3>3. due = {}
        <4>1. \A e \in due : e \in Devices /\ calls[e] # <<>>
          BY DuesHead
        <4> QED BY <4>1, <2>5, <3>2 DEF SyncInv, Runners
      <3>4. Quiet' /\ Bounded' /\ Balance' /\ FirstCall'
        BY <3>1 DEF Quiet, InCall, Bounded, Balance, FirstCall
      <3>5. Pointers'
        BY <1>2, <2>1, <2>6, <2>9, <3>2 DEF SyncInv, Pointers, Devices
      <3>6. Requests' /\ Owners' /\ Runners'
        BY <1>1, <1>2, <1>3, <2>1, <2>5, <3>2
        DEF SyncInv, Requests, Owners, Runners, memVars, cbVars
      <3>7. Dues' /\ Late' /\ WrittenBack'
        BY <1>1, <1>3, <3>2, <3>3 DEF SyncInv, Dues, Late, WrittenBack, cbVars
      <3> QED BY <2>4, <2>8, <3>4, <3>5, <3>6, <3>7 DEF SyncInv
    <2>10. CASE ci # N
      <3>1. cpc' = "wait" /\ ci' = ci + 1 /\ syncs' = syncs
        BY <2>1, <2>10
      <3>2. \A d \in Devices : /\ Posted(d)' /\ Counted(d)'
                               /\ Consumed(d)' <=> Consumed(d) \/ d = ci
                               /\ Working(d)' <=> Working(d) /\ d # ci
        BY <1>2, <2>6, <3>1 DEF Posted, Counted, Consumed, Working, Devices
      <3>3. Quiet' /\ Bounded' /\ Pointers'
        BY <1>1, <1>2, <2>1, <2>6, <3>1, <3>2
        DEF SyncInv, Quiet, InCall, Bounded, Pointers, Devices
      <3>4. Requests' /\ Owners' /\ Runners'
        BY <1>1, <1>2, <1>3, <2>1, <2>5, <3>2
        DEF SyncInv, Requests, Owners, Runners, memVars, cbVars
      <3>5. Late' /\ WrittenBack' /\ FirstCall'
        BY <1>1, <1>2, <1>3, <2>1, <2>6, <2>7, <3>1, <3>2
        DEF SyncInv, Late, WrittenBack, FirstCall
      <3>6. Dues'
        BY <1>1, <2>7, <3>2, SameCallbacks, SameDues DEF memVars, cbVars
      <3>7. Balance'
        BY <1>1, <1>3, <2>7, <3>1, <3>2, SameBalance DEF SyncInv, InCall
      <3> QED BY <2>4, <2>8, <3>3, <3>4, <3>5, <3>6, <3>7 DEF SyncInv
    <2> QED BY <2>9, <2>10
  <1>5. CASE op[ci] # "REPLY"
    <2>1. UNCHANGED <<op, ptr, cpc, ci, syncs>> /\ blocked' = TRUE
      BY <1>5 DEF RequestWait
    <2>2. blocked' \in BOOLEAN /\ issleeping' \in [Devices -> BOOLEAN]
      BY <1>5, <2>1 DEF SyncInv, TypeOK, RequestWait, Wakeup
    <2> QED BY <1>1, <2>1, <2>2, SleepingKeeps DEF mailVars
  <1> QED BY <1>4, <1>5

\* When the caller returns, every tile is valid on the host.
LEMMA ReturnsCoherent ==
    ASSUME SyncInv, RequestWait, cpc' = "idle"
    PROVE  \A t \in Tiles : Host \in valid'[t]
  <1>1. /\ cpc = "wait" /\ op[ci] = "REPLY" /\ ci = N /\ ci \in Devices
        /\ valid' = valid
    BY DEF RequestWait, SyncInv, TypeOK, memVars
  <1>2. \A d \in Devices : Posted(d) /\ ~ Engaged(d) /\ Free(d)
    <2> TAKE d \in Devices
    <2>1. Posted(d)
      BY <1>1 DEF Posted
    <2>2. CASE d = ci
      BY <1>1, <2>1, <2>2, ReplySent
    <2>3. CASE d # ci
      <3>1. Consumed(d) /\ ~ Working(d)
        BY <1>1, <2>3 DEF Consumed, Working, Devices
      <3> QED BY <2>1, <3>1 DEF SyncInv, Pointers, Owners, Engaged
    <2> QED BY <2>2, <2>3
  <1>3. \A d \in Devices : Modified(d) = {}
    <2> TAKE d \in Devices
    <2>1. Written(d)
      BY <1>2 DEF SyncInv, WrittenBack
    <2> QED BY <2>1, <1>2 DEF Written, Free, Modified
  <1>4. \A t \in Tiles : Host \in valid[t]
    BY <1>3 DEF SyncInv, DirtyKnown, Modified
  <1> QED BY <1>1, <1>4

-----------------------------------------------------------------------------
(* The steps of a device thread.                                           *)

Points == {"loop", "sleep", "asleep", "writeback", "add", "sub", "setwait", "deref", "reply"}

\* A step of d, not in a callback, that changes its program point, its mail box and
\* the sleep only, keeps SyncInv when the parts about d still hold.
LEMMA ThreadKeeps ==
    ASSUME SyncInv, NEW d \in Devices, NEW l \in Points \ {"add"}, NEW o \in Ops,
           UNCHANGED <<cpc, ci, pushed, syncs, ptr, counter, memVars, cbVars, queue, sent>>,
           blocked' \in BOOLEAN, issleeping' \in [Devices -> BOOLEAN],
           calls[d] = <<>>, dpc[d] # "add",
           dpc' = [dpc EXCEPT ![d] = l], op' = [op EXCEPT ![d] = o],
           o = "MEMSYNC" => op[d] = "MEMSYNC",
           l \in {"writeback", "sub"} => o = "WRITEBACK" /\ Working(d),
           o = "WRITEBACK" => l \in {"writeback", "sub", "setwait"},
           l = "writeback" => Free(d),
           ~ Free(d) => \/ l \in {"sub", "setwait"} /\ o = "WRITEBACK"
                        \/ l \in {"loop", "deref"} /\ o = "WRITEBACK_WAIT",
           l \in {"sub", "setwait", "reply"} => Written(d),
           l = "deref" => Written(d) \/ (cpc = "post" /\ ci = d),
           l = "deref" => o # "NOP",
           Engaged(d)' => Engaged(d),
           syncs = 0 /\ Engaged(d) => Engaged(d)',
           Posted(d) /\ ~ Engaged(d)' => Written(d),
           syncs = 0 /\ ~ Posted(d) => o = "NOP" /\ l \in {"loop", "sleep", "asleep"},
           syncs = 0 /\ o = "MEMSYNC" => l \in {"loop", "sleep", "asleep"}
    PROVE  SyncInv'
  <1>1. op \in [Devices -> Ops] /\ dpc \in [Devices -> Points] /\ ci \in Devices
    BY DEF SyncInv, TypeOK, Points
  <1>2. /\ OnTile' = OnTile /\ InCalls' = InCalls
        /\ \A c \in Devices : (Free(c)' <=> Free(c)) /\ (Written(c)' <=> Written(c))
    BY SameCallbacks, SameTiles DEF memVars, cbVars
  <1>3. Unsent' = Unsent
    <2>1. \A c \in Devices : dpc'[c] = "add" <=> dpc[c] = "add"
      BY <1>1
    <2> QED BY <2>1 DEF Unsent
  <1>4. \A c \in Devices : /\ Posted(c)' <=> Posted(c)
                           /\ Consumed(c)' <=> Consumed(c)
                           /\ Counted(c)' <=> Counted(c)
                           /\ Working(c)' <=> Working(c)
    BY DEF Posted, Consumed, Counted, Working
  <1>5. \A c \in Devices : c # d => (Engaged(c)' <=> Engaged(c))
    BY <1>1 DEF Engaged
  <1>6. TypeOK'
    BY <1>1 DEF SyncInv, TypeOK, Points, memVars, cbVars
  <1>7. Quiet' /\ Bounded' /\ Pointers'
    BY <1>4 DEF SyncInv, Quiet, InCall, Bounded, Pointers
  <1>8. Distinct' /\ DirtyKnown'
    BY DEF SyncInv, Distinct, DirtyKnown, memVars, cbVars
  <1>9. Requests'
    BY <1>1, <1>2, <1>4 DEF SyncInv, Requests, Points, cbVars
  <1>10. Owners'
    BY <1>1, <1>2, <1>4 DEF SyncInv, Owners
  <1>11. Runners'
    BY <1>1, <1>4 DEF SyncInv, Runners, cbVars
  <1>12. Late'
    <2> SUFFICES ASSUME NEW c \in Devices
                 PROVE  /\ dpc'[c] \in {"add", "sub", "setwait", "reply"} => Written(c)
                        /\ dpc'[c] = "deref" => \/ Written(c)
                                                \/ cpc = "post" /\ ci = c /\ op'[c] # "NOP"
      BY <1>2 DEF Late
    <2>1. CASE c = d
      BY <1>1, <2>1
    <2>2. CASE c # d
      BY <1>1, <2>2 DEF SyncInv, Late
    <2> QED BY <2>1, <2>2
  <1>13. WrittenBack'
    BY <1>2, <1>4, <1>5 DEF SyncInv, WrittenBack
  <1>14. FirstCall'
    BY <1>1, <1>4 DEF SyncInv, FirstCall
  <1>15. Dues'
    <2>1. \A e \in due : e \in Devices /\ calls[e] # <<>>
      BY DuesHead
    <2>2. \A e \in due : dpc'[e] = dpc[e]
      BY <1>1, <2>1
    <2> QED BY <1>4, <1>5, <2>2, SameCallbacks, SameDues DEF memVars, cbVars
  <1>16. Balance'
    <2>1. CASE InCall
      BY <2>1, <1>2, <1>3, <1>4, <1>5, SameBalance DEF SyncInv
    <2>2. CASE ~ InCall
      BY <2>2 DEF InCall, Balance
    <2> QED BY <2>1, <2>2
  <1> QED BY <1>6, <1>7, <1>8, <1>9, <1>10, <1>11, <1>12, <1>13, <1>14, <1>15, <1>16 DEF SyncInv

\* An idle device goes to sleep and wakes up.
LEMMA IdleKeeps ==
    ASSUME SyncInv, NEW d \in Devices, TestIdle(d) \/ Sleep(d) \/ WokenUp(d)
    PROVE  SyncInv'
  <1>1. PICK l \in {"loop", "sleep", "asleep"} : dpc' = [dpc EXCEPT ![d] = l]
    BY DEF TestIdle, Sleep, WokenUp, Goto
  <1>2. /\ UNCHANGED <<cpc, ci, blocked, pushed, syncs, op, ptr, counter, memVars, cbVars, queue, sent>>
        /\ calls[d] = <<>> /\ dpc[d] \in {"loop", "sleep", "asleep"}
        /\ dpc[d] = "loop" => op[d] = "NOP"
    BY DEF TestIdle, Sleep, WokenUp, Goto, clientVars, mailVars
  <1>3. issleeping' \in [Devices -> BOOLEAN] /\ blocked' \in BOOLEAN
        /\ op[d] \in Ops /\ op \in [Devices -> Ops] /\ dpc \in [Devices -> Points]
    BY <1>2 DEF SyncInv, TypeOK, TestIdle, Sleep, WokenUp, Points
  <1>4. op' = [op EXCEPT ![d] = op[d]]
    BY <1>2, <1>3
  <1>5. Free(d)
    BY <1>2 DEF SyncInv, Owners
  <1>6. op[d] # "WRITEBACK"
    BY <1>2 DEF SyncInv, Requests
  <1>7. Engaged(d)' <=> Engaged(d)
    BY <1>1, <1>2, <1>3 DEF Engaged
  <1>8. /\ Posted(d) /\ ~ Engaged(d) => Written(d)
        /\ syncs = 0 /\ ~ Posted(d) => op[d] = "NOP"
    BY DEF SyncInv, WrittenBack, FirstCall
  <1>9. l \in Points \ {"add"}
    BY <1>1 DEF Points
  <1> QED BY <1>1, <1>2, <1>3, <1>4, <1>5, <1>6, <1>7, <1>8, <1>9, ThreadKeeps

\* A request is taken.
LEMMA MemsyncKeeps ==
    ASSUME SyncInv, NEW d \in Devices, Memsync(d)
    PROVE  SyncInv'
  <1>1. /\ UNCHANGED <<cpc, ci, blocked, pushed, syncs, ptr, counter, memVars, cbVars, issleeping, queue, sent>>
        /\ calls[d] = <<>> /\ dpc[d] = "loop" /\ dpc' = [dpc EXCEPT ![d] = "writeback"]
        /\ op[d] = "MEMSYNC" /\ op' = [op EXCEPT ![d] = "WRITEBACK"]
    BY DEF Memsync, Goto, clientVars
  <1>2. issleeping' \in [Devices -> BOOLEAN] /\ blocked' \in BOOLEAN
        /\ op \in [Devices -> Ops] /\ dpc \in [Devices -> Points]
    BY <1>1 DEF SyncInv, TypeOK, Points
  <1>3. Working(d) /\ Free(d)
    BY <1>1 DEF SyncInv, Requests
  <1>4. Posted(d) /\ ptr[d]
    BY <1>3 DEF SyncInv, Pointers, Working, Counted
  <1>5. Engaged(d)' /\ Engaged(d)
    BY <1>1, <1>2, <1>4 DEF Engaged
  <1>6. "writeback" \in Points \ {"add"} /\ "WRITEBACK" \in Ops
    BY DEF Points, Ops
  <1> QED BY <1>1, <1>2, <1>3, <1>4, <1>5, <1>6, ThreadKeeps

\* The operation is overwritten.
LEMMA SetWaitKeeps ==
    ASSUME SyncInv, NEW d \in Devices, SetWait(d)
    PROVE  SyncInv'
  <1>1. /\ UNCHANGED <<cpc, ci, blocked, pushed, syncs, ptr, counter, memVars, cbVars, issleeping, queue, sent>>
        /\ calls[d] = <<>> /\ dpc[d] = "setwait" /\ dpc' = [dpc EXCEPT ![d] = "loop"]
        /\ op' = [op EXCEPT ![d] = "WRITEBACK_WAIT"]
    BY DEF SetWait, Goto, clientVars
  <1>2. issleeping' \in [Devices -> BOOLEAN] /\ blocked' \in BOOLEAN
        /\ op \in [Devices -> Ops] /\ dpc \in [Devices -> Points]
    BY <1>1 DEF SyncInv, TypeOK, Points
  <1>3. Written(d) /\ (syncs = 0 => Posted(d) /\ op[d] # "MEMSYNC")
    BY <1>1 DEF SyncInv, Late, FirstCall
  <1>4. /\ Engaged(d)' => Engaged(d)
        /\ syncs = 0 /\ Engaged(d) => Engaged(d)'
    BY <1>1, <1>2, <1>3 DEF Engaged
  <1>5. "loop" \in Points \ {"add"} /\ "WRITEBACK_WAIT" \in Ops
    BY DEF Points, Ops
  <1> QED BY <1>1, <1>2, <1>3, <1>4, <1>5, ThreadKeeps

\* The pointer to the counter is tested.
LEMMA TestPointerKeeps ==
    ASSUME SyncInv, NEW d \in Devices, TestPointer(d)
    PROVE  SyncInv'
  <1>1. /\ UNCHANGED <<cpc, ci, blocked, pushed, syncs, op, ptr, counter, memVars, cbVars, issleeping, queue, sent>>
        /\ calls[d] = <<>> /\ dpc[d] = "loop" /\ dpc' = [dpc EXCEPT ![d] = "deref"]
        /\ op[d] = "WRITEBACK_WAIT" /\ ptr[d]
    BY DEF TestPointer, Goto, clientVars, mailVars
  <1>2. issleeping' \in [Devices -> BOOLEAN] /\ blocked' \in BOOLEAN
        /\ op \in [Devices -> Ops] /\ dpc \in [Devices -> Points]
    BY <1>1 DEF SyncInv, TypeOK, Points
  <1>3. op' = [op EXCEPT ![d] = "WRITEBACK_WAIT"]
    BY <1>1, <1>2
  <1>4. Counted(d) /\ (syncs = 0 => Posted(d))
    BY <1>1 DEF SyncInv, Pointers, FirstCall
  <1>5. Engaged(d)' <=> Engaged(d)
    BY <1>1, <1>2 DEF Engaged
  <1>6. /\ Posted(d) /\ ~ Engaged(d) => Written(d)
        /\ Posted(d) /\ Engaged(d) => cpc = "post" /\ ci = d
    BY <1>1 DEF SyncInv, WrittenBack, Engaged
  <1>7. Written(d) \/ (cpc = "post" /\ ci = d)
    BY <1>4, <1>6 DEF Counted
  <1>8. "deref" \in Points \ {"add"} /\ "WRITEBACK_WAIT" \in Ops
    BY DEF Points, Ops
  <1> QED BY <1>1, <1>2, <1>3, <1>4, <1>5, <1>6, <1>7, <1>8, ThreadKeeps

\* The counter is tested.
LEMMA TestCounterKeeps ==
    ASSUME SyncInv, NEW d \in Devices, TestCounter(d)
    PROVE  SyncInv'
  <1>1. /\ UNCHANGED <<cpc, ci, blocked, pushed, syncs, op, ptr, counter, memVars, cbVars, issleeping, queue, sent>>
        /\ calls[d] = <<>> /\ dpc[d] = "deref"
    BY DEF TestCounter, Goto, clientVars, mailVars
  <1>2. issleeping' \in [Devices -> BOOLEAN] /\ blocked' \in BOOLEAN /\ op[d] \in Ops
        /\ op \in [Devices -> Ops] /\ dpc \in [Devices -> Points] /\ cpc \in {"idle", "drain", "count", "post", "wait"}
    BY <1>1 DEF SyncInv, TypeOK, Points
  <1>3. op' = [op EXCEPT ![d] = op[d]]
    BY <1>1, <1>2
  <1>4. PICK v \in IF cpc \in {"idle", "drain"} THEN {0, 1} ELSE {counter} :
            dpc' = [dpc EXCEPT ![d] = IF v = 0 THEN "reply" ELSE "loop"]
    BY DEF TestCounter, Goto
  <1>5. op[d] # "WRITEBACK" /\ (syncs = 0 => Posted(d)) /\ (syncs = 0 => op[d] # "MEMSYNC")
    BY <1>1 DEF SyncInv, Requests, FirstCall
  <1>6. Engaged(d)' <=> Engaged(d)
    BY <1>1, <1>2, <1>4 DEF Engaged
  <1>7. Posted(d) /\ ~ Engaged(d) => Written(d)
    BY DEF SyncInv, WrittenBack
  <1>8. /\ Written(d) \/ (cpc = "post" /\ ci = d /\ op[d] # "NOP")
        /\ ~ Free(d) => op[d] = "WRITEBACK_WAIT"
    BY <1>1 DEF SyncInv, Late, Owners
  <1>9. CASE v = 0
    <2>1. Free(d) /\ Written(d)
      <3>1. CASE ~ InCall
        BY <3>1, <1>8, NothingOutside DEF InCall
      <3>2. CASE InCall
        <4>1. counter = 0
          BY <1>4, <1>9, <3>2 DEF InCall
        <4>2. ~ Engaged(d) /\ Free(d)
          BY <3>2, <4>1, CounterZero
        <4>3. ~ (cpc = "post" /\ ci = d)
          BY <4>2 DEF SyncInv, Pointers, Counted, Consumed, Engaged
        <4> QED BY <4>2, <4>3, <1>8
      <3> QED BY <3>1, <3>2
    <2>2. "reply" \in Points \ {"add"} /\ dpc' = [dpc EXCEPT ![d] = "reply"]
      BY <1>4, <1>9 DEF Points
    <2> QED BY <1>1, <1>2, <1>3, <1>5, <1>6, <1>7, <2>1, <2>2, ThreadKeeps
  <1>10. CASE v # 0
    <2>1. "loop" \in Points \ {"add"} /\ dpc' = [dpc EXCEPT ![d] = "loop"]
      BY <1>4, <1>10 DEF Points
    <2> QED BY <1>1, <1>2, <1>3, <1>5, <1>6, <1>7, <1>8, <2>1, ThreadKeeps
  <1> QED BY <1>9, <1>10

\* The reply to a device that has found the counter at zero.
LEMMA ReplyKeeps ==
    ASSUME SyncInv, NEW d \in Devices, Reply(d)
    PROVE  SyncInv'
  <1>1. /\ UNCHANGED <<cpc, ci, pushed, syncs, ptr, counter, memVars, cbVars, issleeping, queue, sent>>
        /\ calls[d] = <<>> /\ dpc[d] = "reply" /\ dpc' = [dpc EXCEPT ![d] = "loop"]
        /\ op' = [op EXCEPT ![d] = "REPLY"] /\ blocked' \in BOOLEAN
    BY DEF Reply, RequestReply, Goto
  <1>2. issleeping' \in [Devices -> BOOLEAN]
        /\ op \in [Devices -> Ops] /\ dpc \in [Devices -> Points]
    BY <1>1 DEF SyncInv, TypeOK, Points
  <1>3. Free(d) /\ Written(d) /\ (syncs = 0 => Posted(d) /\ op[d] # "MEMSYNC")
    BY <1>1 DEF SyncInv, Owners, Late, FirstCall
  <1>4. /\ Engaged(d)' => Engaged(d)
        /\ syncs = 0 /\ Engaged(d) => Engaged(d)'
    BY <1>1, <1>2, <1>3 DEF Engaged
  <1>5. "loop" \in Points \ {"add"} /\ "REPLY" \in Ops
    BY DEF Points, Ops
  <1> QED BY <1>1, <1>2, <1>3, <1>4, <1>5, ThreadKeeps

\* The pairs of the tiles of S and one device are as many as the tiles.
LEMMA ColumnSize ==
    ASSUME NEW S \in SUBSET Tiles, NEW d \in Devices
    PROVE  /\ IsFiniteSet({<<t, d>> : t \in S})
           /\ Cardinality({<<t, d>> : t \in S}) = Cardinality(S)
           /\ Cardinality(S) \in 0..Cardinality(Tiles)
  <1>1. IsFiniteSet(S) /\ Cardinality(S) \in 0..Cardinality(Tiles)
    BY MemSyncAssumption, CardType, FiniteSets
  <1> DEFINE T == {<<t, d>> : t \in S}
             f == [t \in S |-> <<t, d>>]
  <1>2. f \in [S -> T] /\ \A t \in S : f[t] = <<t, d>>
    OBVIOUS
  <1>3. /\ \A x, y \in S : f[x] = f[y] => x = y
        /\ \A z \in T : \E x \in S : f[x] = z
    BY <1>2
  <1> HIDE DEF T, f
  <1>4. IsFiniteSet(T) /\ Cardinality(T) = Cardinality(S)
    BY <1>1, <1>2, <1>3, SameSize
  <1> QED BY <1>1, <1>4 DEF T

\* What a device has not added yet is counted one by one.
LEMMA RowSize ==
    ASSUME NEW n \in Nat, NEW d
    PROVE  IsFiniteSet({d} \X (1..n)) /\ Cardinality({d} \X (1..n)) = n
  <1>1. IsFiniteSet({d}) /\ Cardinality({d}) = 1
    BY FS_Singleton
  <1>2. IsFiniteSet(1..n) /\ Cardinality(1..n) = n
    BY FS_Interval
  <1>3. /\ IsFiniteSet({d} \X (1..n))
        /\ Cardinality({d} \X (1..n)) = Cardinality({d}) * Cardinality(1..n)
    BY <1>1, <1>2, FS_Product
  <1> QED BY <1>1, <1>2, <1>3

\* AddCallback adds the device to the list, and keeps the entries distinct.
LEMMA AddCallbackAdds ==
    ASSUME NEW list \in Seq(Devices), NEW d \in Devices, NEW new, new = AddCallback(list, d)
    PROVE  /\ new \in Seq(Devices)
           /\ Range(new) = {d} \cup Range(list)
           /\ (\A k \in DOMAIN list : list[k] # d)
                  /\ (\A j, k \in DOMAIN list : list[j] = list[k] => j = k)
              => \A j, k \in DOMAIN new : new[j] = new[k] => j = k
  <1>1. CASE list = <<>>
    <2>1. new = <<d>>
      BY <1>1 DEF AddCallback
    <2>2. new \in Seq(Devices) /\ DOMAIN new = {1} /\ new[1] = d /\ DOMAIN list = {}
      <3>1. <<d>> \in Seq(Devices) /\ Len(<<d>>) = 1 /\ <<d>>[1] = d
        OBVIOUS
      <3>2. DOMAIN <<d>> = {1}
        OBVIOUS
      <3>3. DOMAIN <<>> = {}
        OBVIOUS
      <3> QED BY <1>1, <2>1, <3>1, <3>2, <3>3
    <2>3. Range(new) = {d} \cup Range(list)
      BY <2>2 DEF Range
    <2>4. \A j, k \in DOMAIN new : j = k
      BY <2>2
    <2> QED BY <2>2, <2>3, <2>4
  <1>2. CASE list # <<>>
    <2>1. /\ Head(list) \in Devices /\ Head(list) = list[1]
          /\ Tail(list) \in Seq(Devices) /\ Len(Tail(list)) = Len(list) - 1
          /\ \A k \in 1..(Len(list) - 1) : Tail(list)[k] = list[k + 1]
          /\ Len(list) \in Nat /\ Len(list) >= 1
      BY <1>2
    <2>2. new = <<Head(list), d>> \o Tail(list)
      BY <1>2 DEF AddCallback
    <2>3. /\ new \in Seq(Devices) /\ Len(new) = Len(list) + 1
          /\ DOMAIN new = 1..(Len(list) + 1) /\ DOMAIN list = 1..Len(list)
          /\ new[1] = list[1] /\ new[2] = d
          /\ \A k \in 3..(Len(list) + 1) : new[k] = list[k - 1]
      BY <2>1, <2>2
    <2>4. ASSUME NEW e
          PROVE  (\E k \in DOMAIN new : new[k] = e)
                     <=> (e = d \/ \E k \in DOMAIN list : list[k] = e)
      <3>1. ASSUME NEW k \in DOMAIN list, list[k] = e PROVE \E j \in DOMAIN new : new[j] = e
        <4>1. CASE k = 1
          BY <4>1, <3>1, <2>1, <2>3
        <4>2. CASE k # 1
          <5>1. k + 1 \in 3..(Len(list) + 1)
            BY <4>2, <2>1, <2>3
          <5>2. new[k + 1] = list[(k + 1) - 1] /\ (k + 1) - 1 = k /\ k + 1 \in DOMAIN new
            BY <5>1, <2>1, <2>3
          <5> QED BY <5>2, <3>1
        <4> QED BY <4>1, <4>2
      <3>2. ASSUME NEW k \in DOMAIN new, new[k] = e, e # d
            PROVE  \E j \in DOMAIN list : list[j] = e
        <4>1. CASE k = 1
          BY <4>1, <3>2, <2>1, <2>3
        <4>2. CASE k # 1
          <5>1. k \in 3..(Len(list) + 1)
            BY <4>2, <3>2, <2>1, <2>3
          <5>2. new[k] = list[k - 1] /\ k - 1 \in DOMAIN list
            BY <5>1, <2>1, <2>3
          <5> QED BY <5>2, <3>2
        <4> QED BY <4>1, <4>2
      <3>3. 2 \in DOMAIN new
        BY <2>1, <2>3
      <3> QED BY <3>1, <3>2, <3>3, <2>3
    <2>5. ASSUME \A k \in DOMAIN list : list[k] # d,
                 \A j, k \in DOMAIN list : list[j] = list[k] => j = k,
                 NEW j \in DOMAIN new, NEW k \in DOMAIN new, new[j] = new[k]
          PROVE  j = k
      <3> DEFINE old(i) == IF i = 1 THEN 1 ELSE i - 1
      <3>1. \A i \in DOMAIN new : i # 2 => old(i) \in DOMAIN list /\ new[i] = list[old(i)]
        BY <2>1, <2>3
      <3>2. CASE j = 2 \/ k = 2
        BY <3>1, <3>2, <2>3, <2>5
      <3>3. CASE j # 2 /\ k # 2
        <4>1. old(j) = old(k)
          BY <3>1, <3>3, <2>5
        <4> QED BY <4>1, <3>3, <2>3
      <3> QED BY <3>2, <3>3
    <2>6. Range(new) = {d} \cup Range(list)
      BY <2>4 DEF Range
    <2> QED BY <2>3, <2>5, <2>6
  <1> QED BY <1>1, <1>2

\* The transfers of the modified tiles are started.
LEMMA WritebackAllKeeps ==
    ASSUME SyncInv, NEW d \in Devices, WritebackAll(d)
    PROVE  SyncInv'
  <1>1. /\ UNCHANGED <<cpc, ci, blocked, pushed, syncs, op, ptr, counter, valid, rw, calls, due, issleeping, queue>>
        /\ calls[d] = <<>> /\ dpc[d] = "writeback" /\ dpc' = [dpc EXCEPT ![d] = "add"]
        /\ sent' = [sent EXCEPT ![d] = Cardinality(Modified(d))]
        /\ cbk' = [t \in Tiles |-> IF t \in Modified(d) THEN AddCallback(cbk[t], d) ELSE cbk[t]]
    BY DEF WritebackAll, Goto, clientVars, mailVars, cbVars
  <1>2. /\ dpc \in [Devices -> Points] /\ sent \in [Devices -> Nat] /\ cbk \in [Tiles -> Seq(Devices)]
        /\ op[d] = "WRITEBACK" /\ Working(d) /\ Free(d) /\ ptr[d] /\ Posted(d)
    <2>1. /\ dpc \in [Devices -> Points] /\ sent \in [Devices -> Nat] /\ cbk \in [Tiles -> Seq(Devices)]
          /\ op[d] = "WRITEBACK" /\ Working(d) /\ Free(d)
      BY <1>1 DEF SyncInv, TypeOK, Points, Requests
    <2> QED BY <2>1 DEF SyncInv, Pointers, Working, Counted
  <1>3. PICK M \in SUBSET Tiles : M = Modified(d)
    BY DEF Modified
  <1>0. /\ IsFiniteSet(M) /\ Cardinality(M) \in 0..Cardinality(Tiles)
        /\ Cardinality(M) \in Nat /\ Cardinality(M) <= Cardinality(Tiles)
    <2>1. IsFiniteSet(M) /\ Cardinality(M) \in 0..Cardinality(Tiles)
      BY <1>3, MemSyncAssumption, CardType, ColumnSize
    <2> QED BY <2>1, FiniteSets
  <1>4. PICK P : P = {<<t, d>> : t \in M}
    OBVIOUS
  <1>5. \A t \in M : \A k \in DOMAIN cbk[t] : cbk[t][k] # d
    <2>1. \A t \in M : <<t, d>> \notin OnTile
      BY <1>2 DEF Free
    <2> QED BY <2>1 DEF OnTile
  <1>6. /\ cbk' \in [Tiles -> Seq(Devices)]
        /\ \A t \in Tiles : \A j, k \in DOMAIN cbk'[t] : cbk'[t][j] = cbk'[t][k] => j = k
        /\ \A t \in Tiles, c \in Devices :
              (\E k \in DOMAIN cbk'[t] : cbk'[t][k] = c)
                  <=> (t \in M /\ c = d) \/ \E k \in DOMAIN cbk[t] : cbk[t][k] = c
    <2>1. \A t \in M : /\ cbk'[t] \in Seq(Devices)
                       /\ \A j, k \in DOMAIN cbk'[t] : cbk'[t][j] = cbk'[t][k] => j = k
                       /\ \A c \in Devices :
                             (\E k \in DOMAIN cbk'[t] : cbk'[t][k] = c)
                                 <=> (c = d \/ \E k \in DOMAIN cbk[t] : cbk[t][k] = c)
      <3> TAKE t \in M
      <3>1. cbk'[t] = AddCallback(cbk[t], d) /\ cbk[t] \in Seq(Devices)
        BY <1>1, <1>2, <1>3
      <3>2. \A j, k \in DOMAIN cbk[t] : cbk[t][j] = cbk[t][k] => j = k
        BY DEF SyncInv, Distinct
      <3>3. \A k \in DOMAIN cbk[t] : cbk[t][k] # d
        BY <1>5
      <3>4. PICK list, new : list = cbk[t] /\ new = cbk'[t]
        OBVIOUS
      <3>5. new = AddCallback(list, d) /\ list \in Seq(Devices)
        BY <3>1, <3>4
      <3>6. new \in Seq(Devices)
        BY <3>5, AddCallbackAdds
      <3>7. Range(new) = {d} \cup Range(list)
        BY <3>5, AddCallbackAdds
      <3>8. \A c \in Devices :
                (\E k \in DOMAIN new : new[k] = c) <=> (c = d \/ \E k \in DOMAIN list : list[k] = c)
        BY <3>7 DEF Range
      <3>9. \A j, k \in DOMAIN new : new[j] = new[k] => j = k
        <4>1. /\ \A k \in DOMAIN list : list[k] # d
              /\ \A j, k \in DOMAIN list : list[j] = list[k] => j = k
          BY <3>2, <3>3, <3>4
        <4> QED BY <4>1, <3>5, AddCallbackAdds
      <3> QED BY <3>4, <3>6, <3>8, <3>9
    <2>2. \A t \in Tiles \ M : cbk'[t] = cbk[t]
      BY <1>1, <1>3
    <2>3. \A t \in Tiles \ M : \A j, k \in DOMAIN cbk[t] : cbk[t][j] = cbk[t][k] => j = k
      BY DEF SyncInv, Distinct
    <2>4. ASSUME NEW t \in Tiles
          PROVE  /\ cbk'[t] \in Seq(Devices)
                 /\ \A j, k \in DOMAIN cbk'[t] : cbk'[t][j] = cbk'[t][k] => j = k
                 /\ \A c \in Devices :
                       (\E k \in DOMAIN cbk'[t] : cbk'[t][k] = c)
                           <=> (t \in M /\ c = d) \/ \E k \in DOMAIN cbk[t] : cbk[t][k] = c
      <3>1. CASE t \in M
        BY <2>1, <3>1
      <3>2. CASE t \notin M
        <4>1. cbk'[t] = cbk[t] /\ cbk[t] \in Seq(Devices)
          BY <1>2, <2>2, <3>2
        <4>2. \A j, k \in DOMAIN cbk[t] : cbk[t][j] = cbk[t][k] => j = k
          BY <2>3, <3>2
        <4> QED BY <4>1, <4>2, <3>2
      <3> QED BY <3>1, <3>2
    <2>5. cbk' \in [Tiles -> Seq(Devices)]
      BY <2>4, <1>1
    <2> QED BY <2>4, <2>5
  <1>7. OnTile' = OnTile \cup P /\ OnTile \cap P = {} /\ P \in SUBSET (Tiles \X Devices)
    <2>1. P \in SUBSET (Tiles \X Devices)
      BY <1>4
    <2>2. OnTile' \in SUBSET (Tiles \X Devices) /\ OnTile \in SUBSET (Tiles \X Devices)
      BY DEF OnTile
    <2>3. \A t \in Tiles, c \in Devices : <<t, c>> \in P <=> t \in M /\ c = d
      BY <1>4
    <2>4. \A t \in Tiles, c \in Devices : <<t, c>> \in OnTile' <=> <<t, c>> \in OnTile \/ <<t, c>> \in P
      <3>1. \A t \in Tiles, c \in Devices :
                /\ <<t, c>> \in OnTile <=> \E k \in DOMAIN cbk[t] : cbk[t][k] = c
                /\ <<t, c>> \in OnTile' <=> \E k \in DOMAIN cbk'[t] : cbk'[t][k] = c
        BY DEF OnTile
      <3>2. \A t \in Tiles, c \in Devices :
                (\E k \in DOMAIN cbk'[t] : cbk'[t][k] = c)
                    <=> (t \in M /\ c = d) \/ \E k \in DOMAIN cbk[t] : cbk[t][k] = c
        BY <1>6
      <3> TAKE t \in Tiles, c \in Devices
      <3>3. <<t, c>> \in P <=> t \in M /\ c = d
        BY <2>3
      <3> QED BY <3>1, <3>2, <3>3
    <2>5. \A t \in Tiles, c \in Devices : <<t, c>> \in P => <<t, c>> \notin OnTile
      BY <2>3, <1>2 DEF Free
    <2> QED BY <2>1, <2>2, <2>4, <2>5
  <1>8. InCalls' = InCalls
    BY <1>1 DEF InCalls
  <1>9. PICK R : R = {d} \X (1..Cardinality(M))
    OBVIOUS
  <1>10. Unsent' = Unsent \cup R /\ Unsent \cap R = {}
    <2>1. Cardinality(M) \in 0..Cardinality(Tiles) /\ Cardinality(Tiles) \in Nat
      BY ColumnSize, FiniteSets
    <2>2. \A c \in Devices, n \in 1..Cardinality(Tiles) :
              <<c, n>> \in R <=> c = d /\ n <= Cardinality(M)
      BY <1>9, <2>1
    <2>3. R \in SUBSET (Devices \X (1..Cardinality(Tiles)))
      BY <1>9, <2>1
    <2>4. \A c \in Devices, n \in 1..Cardinality(Tiles) :
              <<c, n>> \in Unsent' <=> <<c, n>> \in Unsent \/ <<c, n>> \in R
      BY <1>1, <1>2, <1>3, <2>2 DEF Unsent
    <2>5. \A c \in Devices, n \in 1..Cardinality(Tiles) : <<c, n>> \in Unsent => c # d
      BY <1>1 DEF Unsent
    <2>6. /\ Unsent' \in SUBSET (Devices \X (1..Cardinality(Tiles)))
          /\ Unsent \in SUBSET (Devices \X (1..Cardinality(Tiles)))
      BY DEF Unsent
    <2> QED BY <2>2, <2>3, <2>4, <2>5, <2>6
  <1>11. \A c \in Devices : /\ c # d => (Free(c)' <=> Free(c))
                            /\ Posted(c)' <=> Posted(c)
                            /\ Consumed(c)' <=> Consumed(c)
                            /\ Counted(c)' <=> Counted(c)
                            /\ Working(c)' <=> Working(c)
                            /\ Engaged(c)' <=> Engaged(c)
                            /\ c = d => Engaged(c)
                            /\ Modified(c)' = Modified(c)
                            /\ c = d \/ Written(c) => Written(c)'
    <2>1. \A c \in Devices : c # d => (Free(c)' <=> Free(c))
      <3>1. \A t \in Tiles, c \in Devices : c # d => (<<t, c>> \in OnTile' <=> <<t, c>> \in OnTile)
        BY <1>4, <1>7
      <3> QED BY <3>1, <1>8 DEF Free
    <2>2. \A c \in Devices : /\ Posted(c)' <=> Posted(c)
                             /\ Consumed(c)' <=> Consumed(c)
                             /\ Counted(c)' <=> Counted(c)
                             /\ Working(c)' <=> Working(c)
      BY <1>1 DEF Posted, Consumed, Counted, Working
    <2>3. \A c \in Devices : (Engaged(c)' <=> Engaged(c)) /\ (c = d => Engaged(c))
      BY <1>1, <1>2 DEF Engaged
    <2>4. \A c \in Devices : Modified(c)' = Modified(c)
      BY <1>1 DEF Modified
    <2>5. \A c \in Devices : c = d \/ Written(c) => Written(c)'
      <3>1. \A t \in Tiles, c \in Devices : t \in M /\ c = d => <<t, c>> \in OnTile'
        BY <1>4, <1>7
      <3>2. \A c \in Devices : Modified(c) \in SUBSET Tiles
        BY DEF Modified
      <3> QED BY <3>1, <3>2, <1>3, <1>7, <2>4 DEF Written
    <2> QED BY <2>1, <2>2, <2>3, <2>4, <2>5
  <1>12. TypeOK'
    <2>1. dpc' \in [Devices -> Points]
      BY <1>1, <1>2 DEF Points
    <2>2. sent' \in [Devices -> Nat]
      <3>1. Cardinality(Modified(d)) \in Nat
        BY <1>0, <1>3
      <3> QED BY <3>1, <1>1, <1>2
    <2> QED BY <1>1, <1>6, <2>1, <2>2 DEF SyncInv, TypeOK, Points
  <1>13. Quiet' /\ Bounded' /\ Pointers' /\ FirstCall'
    BY <1>1, <1>2, <1>11 DEF SyncInv, Quiet, InCall, Bounded, Pointers, FirstCall
  <1>14. Requests'
    <2>1. sent'[d] <= Cardinality(Tiles)
      BY <1>0, <1>1, <1>2, <1>3
    <2> QED BY <2>1, <1>1, <1>2, <1>11 DEF SyncInv, Requests
  <1>15. Owners' /\ Runners'
    BY <1>1, <1>2, <1>11 DEF SyncInv, Owners, Runners
  <1>16. Distinct' /\ DirtyKnown'
    BY <1>1, <1>6 DEF SyncInv, Distinct, DirtyKnown
  <1>17. Late' /\ WrittenBack'
    BY <1>1, <1>2, <1>11 DEF SyncInv, Late, WrittenBack
  <1>18. Dues'
    <2>1. \A e \in due : e # d
      BY <1>1, DuesHead
    <2>2. \A e \in due : dpc'[e] = dpc[e]
      BY <1>1, <1>2, <2>1
    <2> QED BY <1>1, <1>11, <2>1, <2>2, SameDues
  <1>19. Balance'
    <2> SUFFICES ASSUME InCall PROVE Balance'
      BY <1>1 DEF Balance, InCall
    <2>1. PICK O \in SUBSET {c \in Devices : Counted(c)} :
              /\ {c \in Devices : Engaged(c)} \subseteq O
              /\ syncs = 0 => O = {c \in Devices : Engaged(c)}
              /\ counter + Cardinality(Unsent) =
                     Big * Cardinality(O) + Cardinality(OnTile) + Cardinality(InCalls)
      BY DEF SyncInv, Balance
    <2>2. /\ Cardinality(Unsent') = Cardinality(Unsent) + Cardinality(M)
          /\ Cardinality(OnTile') = Cardinality(OnTile) + Cardinality(M)
      <3>1. IsFiniteSet(Unsent) /\ IsFiniteSet(OnTile)
        BY Pairs, FiniteSets, CardType
      <3>2. /\ IsFiniteSet(P) /\ Cardinality(P) = Cardinality(M)
            /\ IsFiniteSet(R) /\ Cardinality(R) = Cardinality(M)
        BY <1>0, <1>3, <1>4, <1>9, ColumnSize, RowSize
      <3>3. \A x \in Unsent : x \notin R
        BY <1>10
      <3>4. \A x \in OnTile : x \notin P
        BY <1>7
      <3> QED BY <1>7, <1>10, <3>1, <3>2, <3>3, <3>4, DisjointUnion
    <2>3. /\ counter \in Nat /\ Cardinality(Unsent) \in Nat /\ Cardinality(OnTile) \in Nat
          /\ Cardinality(InCalls) \in Nat /\ Cardinality(M) \in Nat /\ Big * Cardinality(O) \in Nat
      <3>1. O \in SUBSET Devices /\ counter \in Nat
        BY <2>1 DEF SyncInv, TypeOK
      <3>2. Big * Cardinality(O) \in Nat
        BY <3>1, BigTimes
      <3> QED BY <3>1, <3>2, <1>0, Pairs, FiniteSets, CardType
    <2>4. counter' + Cardinality(Unsent') =
              Big * Cardinality(O) + Cardinality(OnTile') + Cardinality(InCalls')
      <3>1. PICK x \in Nat : x = Big * Cardinality(O)
        BY <2>3
      <3>2. counter + (Cardinality(Unsent) + Cardinality(M))
                = x + (Cardinality(OnTile) + Cardinality(M)) + Cardinality(InCalls)
        BY <2>1, <2>3, <3>1
      <3> QED BY <1>1, <1>8, <2>2, <3>1, <3>2
    <2>5. /\ O \in SUBSET {c \in Devices : Counted(c)'}
          /\ {c \in Devices : Engaged(c)'} \subseteq O
          /\ syncs' = 0 => O = {c \in Devices : Engaged(c)'}
      BY <1>1, <1>11, <2>1
    <2> QED BY <2>4, <2>5 DEF Balance
  <1> QED BY <1>12, <1>13, <1>14, <1>15, <1>16, <1>17, <1>18, <1>19 DEF SyncInv

\* The number of transfers is added to the counter.
LEMMA AddSentKeeps ==
    ASSUME SyncInv, NEW d \in Devices, AddSent(d)
    PROVE  SyncInv'
  <1>1. /\ UNCHANGED <<cpc, ci, blocked, pushed, syncs, op, ptr, memVars, cbVars, issleeping, queue, sent>>
        /\ calls[d] = <<>> /\ dpc[d] = "add" /\ dpc' = [dpc EXCEPT ![d] = "sub"]
        /\ counter' = counter + sent[d]
    BY DEF AddSent, Goto, clientVars
  <1>2. /\ dpc \in [Devices -> Points] /\ sent[d] \in Nat /\ counter \in Nat
        /\ op[d] = "WRITEBACK" /\ Working(d) /\ Written(d) /\ sent[d] <= Cardinality(Tiles)
    BY <1>1 DEF SyncInv, TypeOK, Points, Requests, Late
  <1>3. Posted(d) /\ ptr[d]
    BY <1>2 DEF SyncInv, Pointers, Working, Counted
  <1>4. /\ OnTile' = OnTile /\ InCalls' = InCalls
        /\ \A c \in Devices : (Free(c)' <=> Free(c)) /\ (Written(c)' <=> Written(c))
    BY <1>1, SameCallbacks, SameTiles DEF memVars, cbVars
  <1>5. PICK R : R = {d} \X (1..sent[d])
    OBVIOUS
  <1>6. Unsent = Unsent' \cup R /\ Unsent' \cap R = {}
    <2>1. Cardinality(Tiles) \in Nat
      BY FiniteSets
    <2>2. /\ R \in SUBSET (Devices \X (1..Cardinality(Tiles)))
          /\ \A c \in Devices, n \in 1..Cardinality(Tiles) :
                 <<c, n>> \in R <=> c = d /\ n <= sent[d]
      BY <1>2, <1>5, <2>1
    <2>3. \A c \in Devices, n \in 1..Cardinality(Tiles) :
              /\ <<c, n>> \in Unsent' <=> dpc'[c] = "add" /\ n <= sent[c]
              /\ <<c, n>> \in Unsent <=> dpc[c] = "add" /\ n <= sent[c]
      BY <1>1 DEF Unsent
    <2>4. \A c \in Devices : dpc'[c] = "add" <=> dpc[c] = "add" /\ c # d
      BY <1>1, <1>2
    <2>5. \A c \in Devices, n \in 1..Cardinality(Tiles) :
              /\ <<c, n>> \in Unsent <=> <<c, n>> \in Unsent' \/ <<c, n>> \in R
              /\ <<c, n>> \in Unsent' => <<c, n>> \notin R
      BY <1>1, <2>2, <2>3, <2>4
    <2>6. /\ Unsent' \in SUBSET (Devices \X (1..Cardinality(Tiles)))
          /\ Unsent \in SUBSET (Devices \X (1..Cardinality(Tiles)))
      BY DEF Unsent
    <2> QED BY <2>2, <2>5, <2>6
  <1>7. \A c \in Devices : /\ Posted(c)' <=> Posted(c)
                           /\ Consumed(c)' <=> Consumed(c)
                           /\ Counted(c)' <=> Counted(c)
                           /\ Working(c)' <=> Working(c)
    BY <1>1 DEF Posted, Consumed, Counted, Working
  <1>8. \A c \in Devices : Engaged(c)' <=> Engaged(c)
    BY <1>1, <1>2, <1>3 DEF Engaged
  <1>9. TypeOK'
    <2>1. counter' \in Nat /\ dpc' \in [Devices -> Points]
      BY <1>1, <1>2 DEF Points
    <2> QED BY <1>1, <2>1 DEF SyncInv, TypeOK, Points, memVars, cbVars
  <1>10. Quiet' /\ Bounded' /\ Pointers' /\ FirstCall'
    BY <1>1, <1>2, <1>3, <1>7 DEF SyncInv, Quiet, InCall, Bounded, Pointers, FirstCall
  <1>11. Requests' /\ Owners' /\ Runners'
    BY <1>1, <1>2, <1>4, <1>7 DEF SyncInv, Requests, Owners, Runners, cbVars
  <1>12. Distinct' /\ DirtyKnown'
    BY <1>1 DEF SyncInv, Distinct, DirtyKnown, memVars, cbVars
  <1>13. Late' /\ WrittenBack'
    BY <1>1, <1>2, <1>4, <1>7, <1>8 DEF SyncInv, Late, WrittenBack
  <1>14. Dues'
    <2>1. \A e \in due : e \in Devices /\ dpc[e] = "loop"
      BY DuesHead
    <2>2. \A e \in due : dpc'[e] = dpc[e]
      BY <1>1, <1>2, <2>1
    <2> QED BY <1>1, <1>7, <1>8, <2>2, SameCallbacks, SameDues DEF memVars, cbVars
  <1>15. Balance'
    <2> SUFFICES ASSUME InCall PROVE Balance'
      BY <1>1 DEF Balance, InCall
    <2>1. PICK O \in SUBSET {c \in Devices : Counted(c)} :
              /\ {c \in Devices : Engaged(c)} \subseteq O
              /\ syncs = 0 => O = {c \in Devices : Engaged(c)}
              /\ counter + Cardinality(Unsent) =
                     Big * Cardinality(O) + Cardinality(OnTile) + Cardinality(InCalls)
      BY DEF SyncInv, Balance
    <2>2. /\ Cardinality(Unsent) = Cardinality(Unsent') + sent[d]
          /\ Cardinality(Unsent') \in Nat
      <3>1. IsFiniteSet(Unsent') /\ Cardinality(Unsent') \in Nat
        <4>1. Unsent' \in SUBSET (Devices \X (1..Cardinality(Tiles)))
          BY DEF Unsent
        <4> QED BY <4>1, FiniteSets, CardType
      <3>2. IsFiniteSet(R) /\ Cardinality(R) = sent[d]
        BY <1>2, <1>5, RowSize
      <3>3. \A x \in Unsent' : x \notin R
        BY <1>6
      <3>4. Cardinality(Unsent' \cup R) = Cardinality(Unsent') + Cardinality(R)
        BY <3>1, <3>2, <3>3, DisjointUnion
      <3> QED BY <1>6, <3>1, <3>2, <3>4
    <2>3. counter + sent[d] + Cardinality(Unsent') = counter + Cardinality(Unsent)
      BY <1>2, <2>2
    <2>4. counter' + Cardinality(Unsent') =
              Big * Cardinality(O) + Cardinality(OnTile') + Cardinality(InCalls')
      BY <1>1, <1>4, <2>1, <2>3
    <2>5. /\ O \in SUBSET {c \in Devices : Counted(c)'}
          /\ {c \in Devices : Engaged(c)'} \subseteq O
          /\ syncs' = 0 => O = {c \in Devices : Engaged(c)'}
      BY <1>1, <1>7, <1>8, <2>1
    <2> QED BY <2>4, <2>5 DEF Balance
  <1> QED BY <1>9, <1>10, <1>11, <1>12, <1>13, <1>14, <1>15 DEF SyncInv

\* The contribution of a device is withdrawn.
LEMMA SubBigKeeps ==
    ASSUME SyncInv, NEW d \in Devices, SubBig(d)
    PROVE  SyncInv'
  <1>1. /\ UNCHANGED <<cpc, ci, pushed, syncs, ptr, memVars, cbVars, issleeping, queue, sent>>
        /\ calls[d] = <<>> /\ dpc[d] = "sub" /\ dpc' = [dpc EXCEPT ![d] = "setwait"]
        /\ counter' = counter - Big
        /\ IF counter' = 0 THEN RequestReply(d) ELSE UNCHANGED <<op, blocked>>
    BY DEF SubBig, Goto
  <1>2. /\ dpc \in [Devices -> Points] /\ counter \in Nat /\ Big \in Nat
        /\ op \in [Devices -> Ops] /\ op[d] = "WRITEBACK" /\ Working(d) /\ Written(d)
    BY <1>1, MemSyncAssumption DEF SyncInv, TypeOK, Points, Requests, Late
  <1>3. Posted(d) /\ ptr[d] /\ InCall /\ InCall'
    BY <1>1, <1>2 DEF SyncInv, Pointers, Working, Counted, Posted, InCall
  <1>4. PICK o \in {"WRITEBACK", "REPLY"} :
            /\ op' = [op EXCEPT ![d] = o]
            /\ o = "REPLY" => counter' = 0
    BY <1>1, <1>2 DEF RequestReply
  <1>5. /\ OnTile' = OnTile /\ InCalls' = InCalls
        /\ \A c \in Devices : (Free(c)' <=> Free(c)) /\ (Written(c)' <=> Written(c))
    BY <1>1, SameCallbacks, SameTiles DEF memVars, cbVars
  <1>6. Unsent' = Unsent
    <2>1. \A c \in Devices : dpc'[c] = "add" <=> dpc[c] = "add"
      BY <1>1, <1>2
    <2> QED BY <1>1, <2>1 DEF Unsent
  <1>7. \A c \in Devices : /\ Posted(c)' <=> Posted(c)
                           /\ Consumed(c)' <=> Consumed(c)
                           /\ Counted(c)' <=> Counted(c)
                           /\ Working(c)' <=> Working(c)
    BY <1>1 DEF Posted, Consumed, Counted, Working
  <1>8. \A c \in Devices : /\ Engaged(c)' <=> Engaged(c) /\ c # d
                           /\ c = d => Engaged(c)
    <2>1. ~ (cpc = "post" /\ ci = d)
      BY <1>3, MemSyncAssumption DEF Posted, Devices, SyncInv, TypeOK
    <2> QED BY <1>1, <1>2, <1>3, <1>4, <2>1 DEF Engaged
  <1>9. PICK O \in SUBSET {c \in Devices : Counted(c)} :
            /\ {c \in Devices : Engaged(c)} \subseteq O
            /\ syncs = 0 => O = {c \in Devices : Engaged(c)}
            /\ counter + Cardinality(Unsent) =
                   Big * Cardinality(O) + Cardinality(OnTile) + Cardinality(InCalls)
    BY <1>3 DEF SyncInv, Balance
  <1>10. PICK V \in SUBSET Devices : V = O \ {d}
    BY <1>9
  <1>11. counter' + Cardinality(Unsent') =
             Big * Cardinality(V) + Cardinality(OnTile') + Cardinality(InCalls')
    <2>1. d \in O /\ O \in SUBSET Devices
      BY <1>8, <1>9
    <2>2. Big * Cardinality(V) = Big * Cardinality(O) - Big /\ Big * Cardinality(O) \in Nat
      BY <1>10, <2>1, BigTimes
    <2>3. PICK x, y : x = Big * Cardinality(O) /\ y = Big * Cardinality(V)
      OBVIOUS
    <2>4. /\ Cardinality(Unsent) \in Nat /\ Cardinality(OnTile) \in Nat
          /\ Cardinality(InCalls) \in Nat
      BY Pairs, FiniteSets, CardType
    <2>5. (counter - Big) + Cardinality(Unsent) = y + Cardinality(OnTile) + Cardinality(InCalls)
      BY <1>2, <1>9, <2>2, <2>3, <2>4
    <2> QED BY <1>1, <1>5, <1>6, <2>3, <2>5
  <1>12. counter' \in Nat /\ (counter' = 0 => OnTile' = {} /\ InCalls' = {})
    <2>1. \A p \in Unsent' : p[1] \in V
      <3> TAKE p \in Unsent'
      <3>1. p[1] \in Devices /\ dpc[p[1]] = "add"
        BY <1>6 DEF Unsent
      <3>2. Working(p[1])
        BY <3>1 DEF SyncInv, Requests
      <3>3. ptr[p[1]]
        BY <3>1, <3>2 DEF SyncInv, Pointers, Working, Counted
      <3>4. Engaged(p[1]) /\ p[1] # d
        BY <1>1, <3>1, <3>3 DEF Engaged
      <3> QED BY <1>9, <1>10, <3>1, <3>4
    <2>2. /\ OnTile' \in SUBSET (Tiles \X Devices) /\ InCalls' \in SUBSET (Devices \X Devices)
          /\ Unsent' \in SUBSET (Devices \X (1..Cardinality(Tiles)))
      BY <1>5, <1>6, Pairs
    <2>3. PICK u, p, q, c : u = Unsent' /\ p = OnTile' /\ q = InCalls' /\ c = counter'
      OBVIOUS
    <2>4. c \in Int
      BY <1>1, <1>2, <2>3
    <2>5. c \in Nat /\ (c = 0 => p = {} /\ q = {})
      BY <1>10, <1>11, <2>1, <2>2, <2>3, <2>4, CounterBounds
    <2> QED BY <2>3, <2>5
  <1>13. o = "REPLY" => \A c \in Devices : Free(c)
    BY <1>4, <1>5, <1>12 DEF Free
  <1>14. TypeOK'
    <2>1. dpc' \in [Devices -> Points] /\ op' \in [Devices -> Ops] /\ blocked' \in BOOLEAN
      BY <1>1, <1>2, <1>4 DEF Points, Ops, RequestReply, SyncInv, TypeOK
    <2> QED BY <1>1, <1>12, <2>1 DEF SyncInv, TypeOK, Points, memVars, cbVars
  <1>15. Quiet' /\ Bounded' /\ Pointers' /\ FirstCall'
    BY <1>1, <1>2, <1>3, <1>4, <1>7
    DEF SyncInv, Quiet, InCall, Bounded, Pointers, FirstCall
  <1>16. Requests' /\ Owners' /\ Runners'
    BY <1>1, <1>2, <1>4, <1>5, <1>7, <1>13 DEF SyncInv, Requests, Owners, Runners, cbVars
  <1>17. Distinct' /\ DirtyKnown'
    BY <1>1 DEF SyncInv, Distinct, DirtyKnown, memVars, cbVars
  <1>18. Late' /\ WrittenBack'
    BY <1>1, <1>2, <1>4, <1>5, <1>7, <1>8 DEF SyncInv, Late, WrittenBack
  <1>19. Dues'
    <2>1. \A e \in due : e \in Devices /\ dpc[e] = "loop"
      BY DuesHead
    <2>2. \A e \in due : dpc'[e] = dpc[e]
      BY <1>1, <1>2, <2>1
    <2> QED BY <1>1, <1>7, <1>8, <2>2, SameCallbacks, SameDues DEF memVars, cbVars
  <1>20. Balance'
    <2>1. /\ V \in SUBSET {c \in Devices : Counted(c)'}
          /\ {c \in Devices : Engaged(c)'} \subseteq V
          /\ syncs' = 0 => V = {c \in Devices : Engaged(c)'}
      BY <1>1, <1>7, <1>8, <1>9, <1>10
    <2> QED BY <1>11, <2>1 DEF Balance
  <1> QED BY <1>14, <1>15, <1>16, <1>17, <1>18, <1>19, <1>20 DEF SyncInv

\* A task reads or writes a tile: no call is under way, and a device that has
\* answered one runs no task before its last step for it.
LEMMA RunTaskKeeps ==
    ASSUME SyncInv, NEW d \in Devices, RunTask(d)
    PROVE  SyncInv'
  <1>1. /\ UNCHANGED <<cpc, ci, blocked, pushed, syncs, op, ptr, counter, cbk, cbVars, dpc, issleeping, sent>>
        /\ calls[d] = <<>> /\ dpc[d] = "loop" /\ queue[d] > 0
        /\ queue' = [queue EXCEPT ![d] = @ - 1]
    BY DEF RunTask, clientVars, mailVars
  <1>2. PICK t \in Tiles :
            \/ /\ valid' = [valid EXCEPT ![t] = {d}]
               /\ rw' = [rw EXCEPT ![t] = @ \cup {d}]
            \/ /\ valid' = [valid EXCEPT ![t] = @ \cup {d}]
               /\ rw' = IF Host \in valid[t] THEN [rw EXCEPT ![t] = @ \ {d}] ELSE rw
    BY DEF RunTask
  <1>3. /\ queue \in [Devices -> Nat] /\ valid \in [Tiles -> SUBSET (Devices \cup {Host})]
        /\ rw \in [Tiles -> SUBSET Devices]
    BY DEF SyncInv, TypeOK
  <1>4. ~ InCall /\ ~ InCall'
    BY <1>1, <1>3 DEF SyncInv, Quiet, InCall
  <1>5. /\ OnTile = {} /\ OnTile' = {} /\ due = {}
        /\ \A c \in Devices : /\ Free(c)' /\ Free(c)
                              /\ ~ Posted(c)' /\ ~ Posted(c) /\ ~ Counted(c)' /\ ~ Counted(c)
                              /\ ~ Working(c)' /\ ~ Working(c)
    <2>1. \A c \in Devices : ~ Posted(c)' /\ ~ Counted(c)' /\ ~ Working(c)'
      BY <1>4 DEF InCall, Posted, Counted, Working
    <2> QED BY <2>1, <1>1, <1>4, NothingOutside, SameCallbacks DEF cbVars
  <1>6. /\ valid' \in [Tiles -> SUBSET (Devices \cup {Host})] /\ rw' \in [Tiles -> SUBSET Devices]
        /\ queue' \in [Devices -> Nat]
    <2>1. queue' \in [Devices -> Nat]
      BY <1>1, <1>3
    <2>2. valid' \in [Tiles -> SUBSET (Devices \cup {Host})]
      BY <1>2, <1>3
    <2>3. rw' \in [Tiles -> SUBSET Devices]
      BY <1>2, <1>3
    <2> QED BY <2>1, <2>2, <2>3
  <1>7. \A c \in Devices : c # d /\ Written(c) => Written(c)'
    <2> SUFFICES ASSUME NEW c \in Devices, c # d, Modified(c) = {}, NEW u \in Modified(c)' PROVE FALSE
      BY <1>5 DEF Written
    <2>1. u \in Tiles /\ c \in rw'[u] /\ c \in valid'[u] /\ Host \notin valid'[u]
      BY DEF Modified
    <2>2. c \in rw[u] /\ c \in valid[u] /\ Host \notin valid[u]
      <3>1. CASE u = t
        <4>1. \/ c \in {d}
              \/ c \in valid[u] \cup {d} /\ Host \notin valid[u] \cup {d} /\ c \in rw[u]
          BY <1>2, <1>3, <2>1, <3>1
        <4> QED BY <4>1
      <3>2. CASE u # t
        BY <1>2, <1>3, <2>1, <3>2
      <3> QED BY <3>1, <3>2
    <2> QED BY <2>1, <2>2 DEF Modified
  <1>8. TypeOK'
    BY <1>1, <1>6 DEF SyncInv, TypeOK, cbVars
  <1>9. Quiet' /\ Bounded' /\ Pointers' /\ FirstCall' /\ Balance'
    BY <1>1, <1>4, <1>5 DEF SyncInv, Quiet, Bounded, Pointers, FirstCall, Balance
  <1>10. Requests' /\ Owners' /\ Runners'
    BY <1>1, <1>5 DEF SyncInv, Requests, Owners, Runners, cbVars
  <1>11. Distinct' /\ Dues' /\ WrittenBack'
    BY <1>1, <1>5 DEF SyncInv, Distinct, Dues, WrittenBack, cbVars
  <1>12. Late'
    <2>1. \A c \in Devices : dpc[c] \in {"add", "sub", "setwait", "reply", "deref"} => Written(c)
      BY <1>4 DEF SyncInv, Late, InCall
    <2> QED BY <2>1, <1>1, <1>7 DEF Late
  <1>13. DirtyKnown'
    <2> SUFFICES ASSUME NEW u \in Tiles, Host \notin valid'[u]
                 PROVE  \E c \in Devices : c \in valid'[u] /\ c \in rw'[u]
      BY DEF DirtyKnown
    <2>1. CASE u = t
      <3>1. CASE valid' = [valid EXCEPT ![t] = {d}] /\ rw' = [rw EXCEPT ![t] = @ \cup {d}]
        BY <1>3, <2>1, <3>1
      <3>2. CASE /\ valid' = [valid EXCEPT ![t] = @ \cup {d}]
                 /\ rw' = IF Host \in valid[t] THEN [rw EXCEPT ![t] = @ \ {d}] ELSE rw
        <4>1. valid'[u] = valid[u] \cup {d}
          BY <1>3, <2>1, <3>2
        <4>2. Host \notin valid[u] /\ rw' = rw
          BY <2>1, <3>2, <4>1
        <4> QED BY <4>1, <4>2 DEF SyncInv, DirtyKnown
      <3> QED BY <1>2, <3>1, <3>2
    <2>2. CASE u # t
      <3>1. valid'[u] = valid[u] /\ rw'[u] = rw[u]
        BY <1>2, <1>3, <2>2
      <3> QED BY <3>1 DEF SyncInv, DirtyKnown
    <2> QED BY <2>1, <2>2
  <1> QED BY <1>8, <1>9, <1>10, <1>11, <1>12, <1>13 DEF SyncInv

-----------------------------------------------------------------------------
(* The transfers and their callbacks.                                      *)

\* The pairs of one element and those of a set are as many as the set.
LEMMA RowOf ==
    ASSUME NEW S, IsFiniteSet(S), NEW x
    PROVE  IsFiniteSet({x} \X S) /\ Cardinality({x} \X S) = Cardinality(S)
  <1>1. IsFiniteSet({x}) /\ Cardinality({x}) = 1 /\ Cardinality(S) \in Nat
    BY FS_Singleton, FS_CardinalityType
  <1>2. IsFiniteSet({x} \X S) /\ Cardinality({x} \X S) = Cardinality({x}) * Cardinality(S)
    BY <1>1, FS_Product
  <1> QED BY <1>1, <1>2

\* A transfer ends: its callbacks pass to the thread that runs them.
LEMMA TransferEndsKeeps ==
    ASSUME SyncInv, NEW e \in Devices, TransferEnds(e)
    PROVE  SyncInv'
  <1>1. /\ UNCHANGED <<cpc, ci, blocked, pushed, syncs, op, ptr, counter, rw, due, dpc, issleeping, queue, sent>>
        /\ dpc[e] \in {"loop", "sub"} /\ calls[e] = <<>>
    BY DEF TransferEnds, clientVars, mailVars
  <1>2. PICK t \in Tiles :
            /\ cbk[t] # <<>> /\ Head(cbk[t]) = e
            /\ valid' = [valid EXCEPT ![t] = @ \cup {Host}]
            /\ calls' = [calls EXCEPT ![e] = cbk[t]]
            /\ cbk' = [cbk EXCEPT ![t] = <<>>]
    BY DEF TransferEnds
  <1>3. /\ valid \in [Tiles -> SUBSET (Devices \cup {Host})]
        /\ cbk \in [Tiles -> Seq(Devices)] /\ calls \in [Devices -> Seq(Devices)]
    BY DEF SyncInv, TypeOK
  <1>4. PICK list \in Seq(Devices) : list = cbk[t] /\ list # <<>> /\ list[1] = e
    BY <1>2, <1>3
  <1>5. /\ \A c \in Devices : calls'[c] = IF c = e THEN list ELSE calls[c]
        /\ \A u \in Tiles : cbk'[u] = IF u = t THEN <<>> ELSE cbk[u]
        /\ \A u \in Tiles : valid'[u] = IF u = t THEN valid[u] \cup {Host} ELSE valid[u]
    BY <1>2, <1>3, <1>4
  <1>6. e \notin due
    BY <1>1, DuesHead
  <1>7. PICK C \in SUBSET Devices : \A c \in Devices : c \in C <=> \E k \in DOMAIN list : list[k] = c
    <2>1. \A c \in Devices : c \in {x \in Devices : \E k \in DOMAIN list : list[k] = x}
              <=> \E k \in DOMAIN list : list[k] = c
      OBVIOUS
    <2> QED BY <2>1
  <1>8. PICK P, Q : P = {t} \X C /\ Q = {e} \X C
    OBVIOUS
  <1>9. \A u \in Tiles, c \in Devices :
            /\ <<u, c>> \in OnTile => <<u, c>> \in OnTile' \/ (u = t /\ c \in C)
            /\ <<u, c>> \in OnTile' <=> <<u, c>> \in OnTile /\ u # t
            /\ u = t => (<<u, c>> \in OnTile <=> c \in C)
    <2>1. \A u \in Tiles, c \in Devices :
              /\ <<u, c>> \in OnTile <=> \E k \in DOMAIN cbk[u] : cbk[u][k] = c
              /\ <<u, c>> \in OnTile' <=> \E k \in DOMAIN cbk'[u] : cbk'[u][k] = c
      BY DEF OnTile
    <2> TAKE u \in Tiles, c \in Devices
    <2>2. CASE u = t
      <3>1. DOMAIN <<>> = {}
        OBVIOUS
      <3>2. <<u, c>> \in OnTile <=> c \in C
        BY <2>1, <2>2, <1>4, <1>7
      <3>3. <<u, c>> \notin OnTile'
        BY <2>1, <2>2, <1>5, <3>1
      <3> QED BY <2>2, <3>2, <3>3
    <2>3. CASE u # t
      <3>1. cbk'[u] = cbk[u]
        BY <1>5, <2>3
      <3> QED BY <2>1, <2>3, <3>1
    <2> QED BY <2>2, <2>3
  <1>10. \A x, c \in Devices :
            /\ <<x, c>> \in InCalls' <=> <<x, c>> \in InCalls \/ (x = e /\ c \in C)
            /\ x = e => <<x, c>> \notin InCalls
    <2>1. \A x, c \in Devices :
              /\ <<x, c>> \in InCalls
                    <=> \E k \in DOMAIN calls[x] : calls[x][k] = c /\ (k = 1 => x \notin due)
              /\ <<x, c>> \in InCalls'
                    <=> \E k \in DOMAIN calls'[x] : calls'[x][k] = c /\ (k = 1 => x \notin due)
      BY <1>1 DEF InCalls
    <2> TAKE x, c \in Devices
    <2>2. CASE x = e
      <3>1. DOMAIN <<>> = {}
        OBVIOUS
      <3>2. <<x, c>> \in InCalls' <=> c \in C
        BY <2>1, <2>2, <1>5, <1>6, <1>7
      <3>3. <<x, c>> \notin InCalls
        BY <2>1, <2>2, <1>1, <3>1
      <3> QED BY <2>2, <3>2, <3>3
    <2>3. CASE x # e
      <3>1. calls'[x] = calls[x]
        BY <1>5, <2>3
      <3> QED BY <2>1, <2>3, <3>1
    <2> QED BY <2>2, <2>3
  <1>11. OnTile = OnTile' \cup P /\ (\A x \in OnTile' : x \notin P)
    <2>1. /\ OnTile \in SUBSET (Tiles \X Devices) /\ OnTile' \in SUBSET (Tiles \X Devices)
          /\ P \in SUBSET (Tiles \X Devices)
      BY <1>8 DEF OnTile
    <2>2. \A u \in Tiles, c \in Devices : <<u, c>> \in P <=> u = t /\ c \in C
      BY <1>8
    <2>3. \A u \in Tiles, c \in Devices :
              /\ <<u, c>> \in OnTile <=> <<u, c>> \in OnTile' \/ <<u, c>> \in P
              /\ <<u, c>> \in OnTile' => <<u, c>> \notin P
      BY <1>9, <2>2
    <2> QED BY <2>1, <2>3
  <1>12. InCalls' = InCalls \cup Q /\ (\A x \in InCalls : x \notin Q)
    <2>1. /\ InCalls \in SUBSET (Devices \X Devices) /\ InCalls' \in SUBSET (Devices \X Devices)
          /\ Q \in SUBSET (Devices \X Devices)
      BY <1>8 DEF InCalls
    <2>2. \A x, c \in Devices : <<x, c>> \in Q <=> x = e /\ c \in C
      BY <1>8
    <2>3. \A x, c \in Devices :
              /\ <<x, c>> \in InCalls' <=> <<x, c>> \in InCalls \/ <<x, c>> \in Q
              /\ <<x, c>> \in InCalls => <<x, c>> \notin Q
      BY <1>10, <2>2
    <2> QED BY <2>1, <2>3
  <1>13. \A c \in Devices : Free(c)' <=> Free(c)
    <2> TAKE c \in Devices
    <2>1. CASE c \in C
      <3>1. <<t, c>> \in OnTile /\ <<e, c>> \in InCalls'
        BY <1>9, <1>10, <2>1
      <3> QED BY <3>1 DEF Free
    <2>2. CASE c \notin C
      <3>1. \A u \in Tiles : <<u, c>> \in OnTile' <=> <<u, c>> \in OnTile
        BY <1>9, <2>2
      <3>2. \A x \in Devices : <<x, c>> \in InCalls' <=> <<x, c>> \in InCalls
        BY <1>10, <2>2
      <3> QED BY <3>1, <3>2 DEF Free
    <2> QED BY <2>1, <2>2
  <1>14. \A c \in Devices : Written(c) => Written(c)'
    <2>1. \A c \in Devices : \A u \in Modified(c)' : u \in Modified(c) /\ u # t /\ u \in Tiles
      <3> SUFFICES ASSUME NEW c \in Devices, NEW u \in Modified(c)'
                   PROVE  u \in Modified(c) /\ u # t /\ u \in Tiles
        OBVIOUS
      <3>1. u \in Tiles /\ c \in rw'[u] /\ c \in valid'[u] /\ Host \notin valid'[u]
        BY DEF Modified
      <3>2. u # t
        BY <3>1, <1>5
      <3>3. valid'[u] = valid[u] /\ rw'[u] = rw[u]
        BY <3>1, <3>2, <1>1, <1>5
      <3> QED BY <3>1, <3>2, <3>3 DEF Modified
    <2> QED BY <2>1, <1>9 DEF Written
  <1>15. \A c \in Devices : /\ Posted(c)' <=> Posted(c)
                            /\ Consumed(c)' <=> Consumed(c)
                            /\ Counted(c)' <=> Counted(c)
                            /\ Working(c)' <=> Working(c)
                            /\ Engaged(c)' <=> Engaged(c)
    BY <1>1 DEF Posted, Consumed, Counted, Working, Engaged
  <1>16. /\ ~ Free(e) /\ Working(e)
         /\ \/ dpc[e] = "loop" /\ op[e] = "WRITEBACK_WAIT"
            \/ dpc[e] = "sub" /\ op[e] = "WRITEBACK"
    <2>1. e \in C
      BY <1>4, <1>7
    <2>2. ~ Free(e)
      BY <2>1, <1>9 DEF Free
    <2> QED BY <2>2, <1>1 DEF SyncInv, Owners
  <1>17. TypeOK'
    <2>1. /\ valid' \in [Tiles -> SUBSET (Devices \cup {Host})]
          /\ cbk' \in [Tiles -> Seq(Devices)] /\ calls' \in [Devices -> Seq(Devices)]
      BY <1>2, <1>3, <1>4
    <2> QED BY <1>1, <2>1 DEF SyncInv, TypeOK
  <1>18. Quiet' /\ Bounded' /\ Pointers' /\ FirstCall'
    BY <1>1, <1>15 DEF SyncInv, Quiet, InCall, Bounded, Pointers, FirstCall
  <1>19. Requests' /\ Owners'
    BY <1>1, <1>5, <1>13, <1>15, <1>16 DEF SyncInv, Requests, Owners
  <1>20. Runners'
    BY <1>1, <1>5, <1>15, <1>16 DEF SyncInv, Runners
  <1>21. Distinct'
    <2>1. \A j, k \in DOMAIN list : list[j] = list[k] => j = k
      BY <1>4 DEF SyncInv, Distinct
    <2>2. DOMAIN <<>> = {}
      OBVIOUS
    <2> QED BY <1>5, <2>1, <2>2 DEF SyncInv, Distinct
  <1>22. Late' /\ WrittenBack'
    BY <1>1, <1>14, <1>15 DEF SyncInv, Late, WrittenBack
  <1>23. DirtyKnown'
    BY <1>1, <1>5 DEF SyncInv, DirtyKnown
  <1>24. Dues'
    <2> SUFFICES ASSUME NEW f \in due
                 PROVE  /\ dpc'[f] = "loop" /\ Free(f)'
                        /\ \E c \in Devices : /\ calls'[f] = <<c>>
                                              /\ Posted(c)' /\ ~ Engaged(c)' /\ Free(c)'
                                              /\ calls'[c] = <<>> \/ c = f
      BY <1>1 DEF Dues
    <2>1. f \in Devices /\ dpc[f] = "loop" /\ Free(f) /\ f # e
      BY <1>6, DuesHead
    <2>2. PICK c \in Devices : /\ calls[f] = <<c>> /\ Posted(c) /\ ~ Engaged(c) /\ Free(c)
                               /\ calls[c] = <<>> \/ c = f
      BY DuesHead
    <2>3. calls'[f] = calls[f] /\ calls'[c] = calls[c]
      BY <1>5, <1>16, <2>1, <2>2
    <2>4. Posted(c)' /\ ~ Engaged(c)' /\ Free(c)' /\ Free(f)'
      BY <1>13, <1>15, <2>1, <2>2
    <2> QED BY <1>1, <2>1, <2>2, <2>3, <2>4
  <1>25. Balance'
    <2> SUFFICES ASSUME InCall PROVE Balance'
      BY <1>1 DEF Balance, InCall
    <2>1. PICK O \in SUBSET {c \in Devices : Counted(c)} :
              /\ {c \in Devices : Engaged(c)} \subseteq O
              /\ syncs = 0 => O = {c \in Devices : Engaged(c)}
              /\ counter + Cardinality(Unsent) =
                     Big * Cardinality(O) + Cardinality(OnTile) + Cardinality(InCalls)
      BY DEF SyncInv, Balance
    <2>2. IsFiniteSet(C) /\ IsFiniteSet(InCalls) /\ IsFiniteSet(OnTile')
      <3>1. OnTile' \in SUBSET (Tiles \X Devices)
        BY DEF OnTile
      <3> QED BY <3>1, Pairs, FiniteSets, CardType
    <2>3. /\ Cardinality(OnTile) = Cardinality(OnTile') + Cardinality(C)
          /\ Cardinality(InCalls') = Cardinality(InCalls) + Cardinality(C)
      <3>1. /\ IsFiniteSet(P) /\ Cardinality(P) = Cardinality(C)
            /\ IsFiniteSet(Q) /\ Cardinality(Q) = Cardinality(C)
        BY <1>8, <2>2, RowOf
      <3>2. Cardinality(OnTile' \cup P) = Cardinality(OnTile') + Cardinality(P)
        BY <1>11, <2>2, <3>1, DisjointUnion
      <3>3. Cardinality(InCalls \cup Q) = Cardinality(InCalls) + Cardinality(Q)
        BY <1>12, <2>2, <3>1, DisjointUnion
      <3> QED BY <1>11, <1>12, <3>1, <3>2, <3>3
    <2>4. /\ Cardinality(OnTile') \in Nat /\ Cardinality(InCalls) \in Nat /\ Cardinality(C) \in Nat
          /\ Big * Cardinality(O) \in Nat
      <3>1. O \in SUBSET Devices
        BY <2>1
      <3>2. Big * Cardinality(O) \in Nat
        BY <3>1, BigTimes
      <3> QED BY <3>2, <2>2, FS_CardinalityType
    <2>5. Unsent' = Unsent
      BY <1>1 DEF Unsent
    <2>6. counter' + Cardinality(Unsent') =
              Big * Cardinality(O) + Cardinality(OnTile') + Cardinality(InCalls')
      <3>1. PICK x \in Nat : x = Big * Cardinality(O)
        BY <2>4
      <3>2. counter + Cardinality(Unsent) = x + Cardinality(OnTile') + Cardinality(InCalls')
        BY <2>1, <2>3, <2>4, <3>1
      <3> QED BY <1>1, <2>5, <3>1, <3>2
    <2>7. /\ O \in SUBSET {c \in Devices : Counted(c)'}
          /\ {c \in Devices : Engaged(c)'} \subseteq O
          /\ syncs' = 0 => O = {c \in Devices : Engaged(c)'}
      BY <1>1, <1>15, <2>1
    <2> QED BY <2>6, <2>7 DEF Balance
  <1> QED BY <1>17, <1>18, <1>19, <1>20, <1>21, <1>22, <1>23, <1>24, <1>25 DEF SyncInv

\* A callback decrements the counter.
LEMMA CallbackDecrKeeps ==
    ASSUME SyncInv, NEW e \in Devices, CallbackDecr(e)
    PROVE  SyncInv'
  <1>1. /\ UNCHANGED <<cpc, ci, blocked, pushed, syncs, op, ptr, memVars, dpc, issleeping, queue, sent>>
        /\ calls[e] # <<>> /\ e \notin due
    BY DEF CallbackDecr, clientVars
  <1>2. /\ calls \in [Devices -> Seq(Devices)] /\ due \in SUBSET Devices /\ counter \in Nat
        /\ calls[e] \in Seq(Devices)
    BY DEF SyncInv, TypeOK
  <1>3. PICK d \in Devices, list \in Seq(Devices) :
            list = calls[e] /\ list # <<>> /\ d = Head(list) /\ d = list[1]
    BY <1>1, <1>2
  <1>4. <<e, d>> \in InCalls
    <2>1. 1 \in DOMAIN calls[e] /\ calls[e][1] = d
      BY <1>3
    <2> QED BY <1>1, <2>1 DEF InCalls
  <1>5. ~ Free(d) /\ Working(d) /\ Posted(d) /\ ptr[d] /\ InCall
    <2>1. ~ Free(d)
      BY <1>4 DEF Free
    <2>2. Working(d)
      BY <2>1 DEF SyncInv, Owners
    <2> QED BY <2>1, <2>2 DEF SyncInv, Pointers, Working, Counted, Posted, InCall
  <1>6. /\ counter' = counter - 1
        /\ \/ /\ counter' # 0 /\ due' = due
              /\ calls' = [calls EXCEPT ![e] = Tail(list)]
           \/ /\ counter' = 0 /\ due' = due \cup {e}
              /\ calls' = calls
    BY <1>2, <1>3, <1>5 DEF CallbackDecr
  <1>7. \A x, c \in Devices : <<x, c>> \in InCalls' <=> <<x, c>> \in InCalls /\ <<x, c>> # <<e, d>>
    <2>1. \A x, c \in Devices :
              /\ <<x, c>> \in InCalls
                    <=> \E k \in DOMAIN calls[x] : calls[x][k] = c /\ (k = 1 => x \notin due)
              /\ <<x, c>> \in InCalls'
                    <=> \E k \in DOMAIN calls'[x] : calls'[x][k] = c /\ (k = 1 => x \notin due')
      BY DEF InCalls
    <2> TAKE x, c \in Devices
    <2>2. CASE x # e
      <3>1. calls'[x] = calls[x] /\ (x \in due' <=> x \in due)
        BY <1>2, <1>6, <2>2
      <3> QED BY <2>1, <2>2, <3>1
    <2>3. CASE x = e
      <3>1. /\ DOMAIN list = 1..Len(list) /\ Len(list) \in Nat /\ Len(list) >= 1
            /\ Tail(list) \in Seq(Devices) /\ DOMAIN Tail(list) = 1..(Len(list) - 1)
            /\ \A k \in 1..(Len(list) - 1) : Tail(list)[k] = list[k + 1]
        BY <1>3
      <3>2. <<x, c>> \in InCalls <=> \E k \in DOMAIN list : list[k] = c
        BY <1>1, <1>3, <2>1, <2>3
      <3>3. (\E k \in DOMAIN list : list[k] = c /\ k # 1)
                <=> (\E k \in DOMAIN list : list[k] = c) /\ c # d
        <4>1. \A j, k \in DOMAIN list : list[j] = list[k] => j = k
          BY <1>3 DEF SyncInv, Distinct
        <4>2. 1 \in DOMAIN list
          BY <3>1
        <4> QED BY <1>3, <4>1, <4>2
      <3>4. <<x, c>> \in InCalls' <=> \E k \in DOMAIN list : list[k] = c /\ k # 1
        <4>1. CASE calls' = calls /\ due' = due \cup {e}
          BY <1>3, <2>1, <2>3, <4>1
        <4>2. CASE calls' = [calls EXCEPT ![e] = Tail(list)] /\ due' = due
          <5>1. calls'[x] = Tail(list) /\ x \notin due'
            BY <1>1, <1>2, <2>3, <4>2
          <5>2. <<x, c>> \in InCalls' <=> \E k \in 1..(Len(list) - 1) : list[k + 1] = c
            <6>1. DOMAIN calls'[x] = 1..(Len(list) - 1) /\ calls'[x] = Tail(list)
              BY <3>1, <5>1
            <6>2. <<x, c>> \in InCalls'
                    <=> \E k \in DOMAIN calls'[x] : calls'[x][k] = c /\ (k = 1 => x \notin due')
              BY <2>1, Zenon
            <6>3. <<x, c>> \in InCalls' <=> \E k \in DOMAIN calls'[x] : calls'[x][k] = c
              BY <5>1, <6>2, Zenon
            <6> QED BY <3>1, <6>1, <6>3
          <5>3. ASSUME NEW k \in 1..(Len(list) - 1), list[k + 1] = c
                PROVE  \E j \in DOMAIN list : list[j] = c /\ j # 1
            <6>1. k + 1 \in DOMAIN list /\ k + 1 # 1
              BY <3>1
            <6> QED BY <5>3, <6>1
          <5>4. ASSUME NEW j \in DOMAIN list, list[j] = c, j # 1
                PROVE  \E k \in 1..(Len(list) - 1) : list[k + 1] = c
            <6>1. j - 1 \in 1..(Len(list) - 1) /\ (j - 1) + 1 = j
              BY <3>1, <5>4
            <6> QED BY <5>4, <6>1
          <5> QED BY <5>2, <5>3, <5>4
        <4> QED BY <1>6, <4>1, <4>2
      <3>5. <<x, c>> = <<e, d>> <=> c = d
        BY <2>3
      <3> QED BY <3>2, <3>3, <3>4, <3>5
    <2> QED BY <2>2, <2>3
  <1>8. InCalls' = InCalls \ {<<e, d>>} /\ OnTile' = OnTile /\ Unsent' = Unsent
    <2>1. InCalls \in SUBSET (Devices \X Devices) /\ InCalls' \in SUBSET (Devices \X Devices)
      BY DEF InCalls
    <2>2. InCalls' = InCalls \ {<<e, d>>}
      BY <1>7, <2>1
    <2>3. OnTile' = OnTile /\ Unsent' = Unsent
      BY <1>1 DEF OnTile, Unsent, memVars
    <2> QED BY <2>2, <2>3
  <1>9. \A c \in Devices : /\ Free(c) => Free(c)'
                           /\ Written(c)' <=> Written(c)
                           /\ Posted(c)' <=> Posted(c)
                           /\ Consumed(c)' <=> Consumed(c)
                           /\ Counted(c)' <=> Counted(c)
                           /\ Working(c)' <=> Working(c)
                           /\ Engaged(c)' <=> Engaged(c)
    <2>1. \A c \in Devices : Free(c) => Free(c)'
      BY <1>8 DEF Free
    <2>2. \A c \in Devices : Written(c)' <=> Written(c)
      BY <1>1, SameTiles DEF memVars
    <2>3. \A c \in Devices : /\ Posted(c)' <=> Posted(c)
                             /\ Consumed(c)' <=> Consumed(c)
                             /\ Counted(c)' <=> Counted(c)
                             /\ Working(c)' <=> Working(c)
                             /\ Engaged(c)' <=> Engaged(c)
      BY <1>1 DEF Posted, Consumed, Counted, Working, Engaged
    <2> QED BY <2>1, <2>2, <2>3
  <1>10. PICK O \in SUBSET {c \in Devices : Counted(c)} :
            /\ {c \in Devices : Engaged(c)} \subseteq O
            /\ syncs = 0 => O = {c \in Devices : Engaged(c)}
            /\ counter + Cardinality(Unsent) =
                   Big * Cardinality(O) + Cardinality(OnTile) + Cardinality(InCalls)
    BY <1>5 DEF SyncInv, Balance
  <1>11. counter' + Cardinality(Unsent') =
             Big * Cardinality(O) + Cardinality(OnTile') + Cardinality(InCalls')
    <2>1. /\ IsFiniteSet(InCalls) /\ Cardinality(InCalls) \in Nat /\ Cardinality(OnTile) \in Nat
          /\ Cardinality(Unsent) \in Nat
      BY Pairs, FiniteSets, CardType
    <2>2. Cardinality(InCalls') = Cardinality(InCalls) - 1
      BY <1>4, <1>8, <2>1, FS_RemoveElement
    <2>3. O \in SUBSET Devices
      BY <1>10
    <2>4. PICK x \in Nat : x = Big * Cardinality(O)
      BY <1>5, <2>3, BigTimes
    <2>5. (counter - 1) + Cardinality(Unsent)
              = x + Cardinality(OnTile) + (Cardinality(InCalls) - 1)
      <3>1. counter + Cardinality(Unsent) = x + Cardinality(OnTile) + Cardinality(InCalls)
        BY <1>10, <2>4
      <3>2. PICK u, p, q : u = Cardinality(Unsent) /\ p = Cardinality(OnTile) /\ q = Cardinality(InCalls)
        OBVIOUS
      <3>3. PICK c \in Nat : c = counter
        BY <1>2
      <3>4. u \in Nat /\ p \in Nat /\ q \in Nat /\ x \in Nat /\ c + u = x + p + q
        BY <2>1, <2>4, <3>1, <3>2, <3>3
      <3>5. (c - 1) + u = x + p + (q - 1)
        BY <3>3, <3>4
      <3> QED BY <3>2, <3>3, <3>5
    <2> QED BY <1>6, <1>8, <2>2, <2>4, <2>5
  <1>12. counter' \in Nat /\ (counter' = 0 => O = {} /\ OnTile' = {} /\ InCalls' = {})
    <2>1. \A p \in Unsent' : p[1] \in O
      <3> TAKE p \in Unsent'
      <3>1. p[1] \in Devices /\ dpc[p[1]] = "add"
        BY <1>8 DEF Unsent
      <3>2. Working(p[1])
        BY <3>1 DEF SyncInv, Requests
      <3>3. ptr[p[1]]
        BY <3>1, <3>2 DEF SyncInv, Pointers, Working, Counted
      <3>4. Engaged(p[1])
        BY <3>1, <3>3 DEF Engaged
      <3> QED BY <1>10, <3>1, <3>4
    <2>2. /\ OnTile' \in SUBSET (Tiles \X Devices) /\ InCalls' \in SUBSET (Devices \X Devices)
          /\ Unsent' \in SUBSET (Devices \X (1..Cardinality(Tiles)))
      BY <1>8, Pairs
    <2>3. PICK u, p, q, c : u = Unsent' /\ p = OnTile' /\ q = InCalls' /\ c = counter'
      OBVIOUS
    <2>4. c \in Int /\ O \in SUBSET Devices
      BY <1>2, <1>6, <1>10, <2>3
    <2>5. c \in Nat /\ (c = 0 => O = {} /\ p = {} /\ q = {})
      BY <1>11, <2>1, <2>2, <2>3, <2>4, CounterBounds
    <2> QED BY <2>3, <2>5
  <1>13. Tail(list) \in Seq(Devices)
    BY <1>3
  <1>14. TypeOK'
    <2>1. calls' \in [Devices -> Seq(Devices)] /\ due' \in SUBSET Devices
      BY <1>2, <1>6, <1>13
    <2> QED BY <1>1, <1>12, <2>1 DEF SyncInv, TypeOK, memVars
  <1>15. Quiet' /\ Bounded' /\ Pointers' /\ FirstCall'
    BY <1>1, <1>9 DEF SyncInv, Quiet, InCall, Bounded, Pointers, FirstCall
  <1>16. \A c \in Devices : calls'[c] # <<>> => calls[c] # <<>>
    BY <1>1, <1>2, <1>6
  <1>17. Requests' /\ Owners' /\ Runners'
    BY <1>1, <1>9, <1>16 DEF SyncInv, Requests, Owners, Runners
  <1>18. Distinct'
    <2>1. ASSUME NEW j \in DOMAIN Tail(list), NEW k \in DOMAIN Tail(list),
                 Tail(list)[j] = Tail(list)[k]
          PROVE  j = k
      <3>1. /\ j \in Nat /\ k \in Nat /\ j + 1 \in DOMAIN list /\ k + 1 \in DOMAIN list
            /\ Tail(list)[j] = list[j + 1] /\ Tail(list)[k] = list[k + 1]
        BY <1>3
      <3>2. j + 1 = k + 1
        BY <1>3, <2>1, <3>1 DEF SyncInv, Distinct
      <3> QED BY <3>1, <3>2
    <2>2. \A c \in Devices : calls'[c] = calls[c] \/ calls'[c] = Tail(list)
      BY <1>2, <1>6
    <2>3. \A c \in Devices : \A j, k \in DOMAIN calls'[c] : calls'[c][j] = calls'[c][k] => j = k
      <3> TAKE c \in Devices
      <3>1. CASE calls'[c] = calls[c]
        BY <3>1 DEF SyncInv, Distinct
      <3>2. CASE calls'[c] = Tail(list)
        BY <2>1, <3>2
      <3> QED BY <2>2, <3>1, <3>2
    <2> QED BY <1>1, <2>3 DEF SyncInv, Distinct, memVars
  <1>19. DirtyKnown' /\ Late' /\ WrittenBack'
    BY <1>1, <1>9 DEF SyncInv, DirtyKnown, Late, WrittenBack, memVars
  <1>20. Dues'
    <2>1. \A f \in due : f \in Devices /\ f # e
      BY <1>1, DuesHead
    <2>2. ASSUME NEW f \in due
          PROVE  /\ dpc'[f] = "loop" /\ Free(f)'
                 /\ \E c \in Devices : /\ calls'[f] = <<c>>
                                       /\ Posted(c)' /\ ~ Engaged(c)' /\ Free(c)'
                                       /\ calls'[c] = <<>> \/ c = f
      <3>1. f \in Devices /\ dpc[f] = "loop" /\ Free(f) /\ f # e
        BY <2>1, DuesHead
      <3>2. PICK c \in Devices : /\ calls[f] = <<c>> /\ Posted(c) /\ ~ Engaged(c) /\ Free(c)
                                 /\ calls[c] = <<>> \/ c = f
        BY DuesHead
      <3>3. calls'[f] = calls[f] /\ (calls'[c] = <<>> \/ c = f)
        BY <1>2, <1>6, <1>16, <3>1, <3>2
      <3>4. Posted(c)' /\ ~ Engaged(c)' /\ Free(c)' /\ Free(f)'
        BY <1>9, <3>1, <3>2
      <3> QED BY <1>1, <3>1, <3>2, <3>3, <3>4
    <2>3. CASE counter' # 0
      BY <1>6, <2>2, <2>3 DEF Dues
    <2>4. CASE counter' = 0
      <3>1. /\ \A c \in Devices : ~ Engaged(c) /\ Free(c)'
            /\ calls' = calls /\ due' = due \cup {e}
        <4>1. \A c \in Devices : ~ Engaged(c)
          BY <1>10, <1>12, <2>4
        <4>2. \A c \in Devices : Free(c)'
          BY <1>12, <2>4 DEF Free
        <4> QED BY <1>6, <2>4, <4>1, <4>2
      <3>2. list = <<d>>
        <4>1. ASSUME Len(list) # 1 PROVE FALSE
          <5>1. 2 \in DOMAIN list /\ list[2] \in Devices
            <6>1. Len(list) \in Nat /\ Len(list) # 0 /\ DOMAIN list = 1..Len(list)
              BY <1>3
            <6>2. 2 \in 1..Len(list)
              BY <4>1, <6>1
            <6> QED BY <1>3, <6>1, <6>2
          <5>2. <<e, list[2]>> \in InCalls'
            BY <1>3, <3>1, <5>1 DEF InCalls
          <5> QED BY <1>12, <2>4, <5>2
        <4> QED BY <1>3, <4>1
      <3>3. dpc[e] = "loop"
        <4>1. Working(e) /\ dpc[e] \in {"loop", "sub"}
          BY <1>1 DEF SyncInv, Runners
        <4>2. ptr[e]
          BY <4>1 DEF SyncInv, Pointers, Working, Counted
        <4> QED BY <3>1, <4>1, <4>2 DEF Engaged
      <3>4. calls[d] = <<>> \/ d = e
        <4> SUFFICES ASSUME calls[d] # <<>>, d # e PROVE FALSE
          OBVIOUS
        <4>1. d \notin due
          BY <1>5, DuesHead
        <4>2. 1 \in DOMAIN calls[d] /\ calls[d][1] \in Devices
          BY <1>2
        <4>3. <<d, calls[d][1]>> \in InCalls'
          BY <3>1, <4>1, <4>2 DEF InCalls
        <4> QED BY <1>12, <2>4, <4>3
      <3>5. /\ dpc'[e] = "loop" /\ Free(e)'
            /\ calls'[e] = <<d>> /\ Posted(d)' /\ ~ Engaged(d)' /\ Free(d)'
            /\ calls'[d] = <<>> \/ d = e
        BY <1>1, <1>3, <1>5, <1>9, <3>1, <3>2, <3>3, <3>4
      <3> QED BY <2>2, <3>1, <3>5 DEF Dues
    <2> QED BY <2>3, <2>4
  <1>21. Balance'
    <2>1. /\ O \in SUBSET {c \in Devices : Counted(c)'}
          /\ {c \in Devices : Engaged(c)'} \subseteq O
          /\ syncs' = 0 => O = {c \in Devices : Engaged(c)'}
      BY <1>1, <1>9, <1>10
    <2> QED BY <1>11, <2>1 DEF Balance
  <1> QED BY <1>14, <1>15, <1>17, <1>18, <1>19, <1>20, <1>21 DEF SyncInv

\* The last callback replies.
LEMMA CallbackReplyKeeps ==
    ASSUME SyncInv, NEW e \in Devices, CallbackReply(e)
    PROVE  SyncInv'
  <1>1. /\ UNCHANGED <<cpc, ci, pushed, syncs, ptr, counter, memVars, dpc, issleeping, queue, sent>>
        /\ e \in due /\ due' = due \ {e}
        /\ calls' = [calls EXCEPT ![e] = Tail(@)]
        /\ RequestReply(Head(calls[e]))
    BY DEF CallbackReply
  <1>2. /\ calls \in [Devices -> Seq(Devices)] /\ due \in SUBSET Devices
        /\ op \in [Devices -> Ops] /\ blocked \in BOOLEAN
    BY DEF SyncInv, TypeOK
  <1>3. PICK d \in Devices : /\ calls[e] = <<d>>
                             /\ Posted(d) /\ ~ Engaged(d) /\ Free(d)
                             /\ calls[d] = <<>> \/ d = e
    BY <1>1, DuesHead
  <1>4. /\ calls' = [calls EXCEPT ![e] = <<>>]
        /\ op' = [op EXCEPT ![d] = "REPLY"] /\ blocked' \in BOOLEAN
    BY <1>1, <1>2, <1>3 DEF RequestReply
  <1>5. InCalls' = InCalls /\ OnTile' = OnTile /\ Unsent' = Unsent
    <2>1. \A x \in Devices : x # e => calls'[x] = calls[x] /\ (x \in due' <=> x \in due)
      BY <1>1, <1>2, <1>4
    <2>2. DOMAIN calls[e] = {1} /\ DOMAIN calls'[e] = {}
      <3>1. DOMAIN <<d>> = {1} /\ DOMAIN <<>> = {}
        OBVIOUS
      <3>2. calls'[e] = <<>>
        BY <1>2, <1>4
      <3> QED BY <1>3, <3>1, <3>2
    <2>3. \A x, c \in Devices :
              /\ <<x, c>> \in InCalls
                    <=> \E k \in DOMAIN calls[x] : calls[x][k] = c /\ (k = 1 => x \notin due)
              /\ <<x, c>> \in InCalls'
                    <=> \E k \in DOMAIN calls'[x] : calls'[x][k] = c /\ (k = 1 => x \notin due')
      BY DEF InCalls
    <2>4. \A x, c \in Devices : <<x, c>> \in InCalls' <=> <<x, c>> \in InCalls
      <3> TAKE x, c \in Devices
      <3>1. CASE x = e
        BY <1>1, <2>2, <2>3, <3>1
      <3>2. CASE x # e
        BY <2>1, <2>3, <3>2
      <3> QED BY <3>1, <3>2
    <2>5. InCalls \in SUBSET (Devices \X Devices) /\ InCalls' \in SUBSET (Devices \X Devices)
      BY DEF InCalls
    <2>6. InCalls' = InCalls
      <3>1. InCalls' \subseteq InCalls
        BY <2>4, <2>5
      <3>2. InCalls \subseteq InCalls'
        BY <2>4, <2>5
      <3> QED BY <3>1, <3>2
    <2> QED BY <1>1, <2>6 DEF OnTile, Unsent, memVars
  <1>6. /\ op[d] # "MEMSYNC" /\ dpc[d] \notin {"writeback", "add", "sub"}
    <2>1. Working(d) => ptr[d]
      BY DEF SyncInv, Pointers, Working, Counted
    <2>2. ~ Working(d) \/ (op[d] # "MEMSYNC" /\ dpc[d] \notin {"writeback", "add", "sub"})
      BY <1>3, <2>1 DEF Engaged
    <2> QED BY <2>2 DEF SyncInv, Requests
  <1>7. \A c \in Devices : /\ Free(c)' <=> Free(c)
                           /\ Written(c)' <=> Written(c)
                           /\ Posted(c)' <=> Posted(c)
                           /\ Consumed(c)' <=> Consumed(c)
                           /\ Counted(c)' <=> Counted(c)
                           /\ Working(c)' <=> Working(c)
                           /\ Engaged(c)' <=> Engaged(c)
    <2>1. \A c \in Devices : Free(c)' <=> Free(c)
      BY <1>5 DEF Free
    <2>2. \A c \in Devices : Written(c)' <=> Written(c)
      BY <1>1, SameTiles DEF memVars
    <2>3. \A c \in Devices : /\ Posted(c)' <=> Posted(c)
                             /\ Consumed(c)' <=> Consumed(c)
                             /\ Counted(c)' <=> Counted(c)
                             /\ Working(c)' <=> Working(c)
      BY <1>1 DEF Posted, Consumed, Counted, Working
    <2>4. \A c \in Devices : (op'[c] = "MEMSYNC") <=> (op[c] = "MEMSYNC")
      BY <1>2, <1>4, <1>6
    <2>5. \A c \in Devices : Engaged(c)' <=> Engaged(c)
      BY <1>1, <2>4 DEF Engaged
    <2> QED BY <2>1, <2>2, <2>3, <2>5
  <1>8. \A c \in Devices : calls'[c] # <<>> => calls'[c] = calls[c] /\ c # d
    BY <1>2, <1>3, <1>4
  <1>9. TypeOK'
    <2>1. /\ calls' \in [Devices -> Seq(Devices)] /\ due' \in SUBSET Devices
          /\ op' \in [Devices -> Ops]
      <3>1. <<>> \in Seq(Devices) /\ "REPLY" \in Ops
        BY DEF Ops
      <3>2. calls' \in [Devices -> Seq(Devices)]
        BY <1>2, <1>4, <3>1
      <3>3. due' \in SUBSET Devices
        BY <1>1, <1>2
      <3>4. op' \in [Devices -> Ops]
        BY <1>2, <1>4, <3>1
      <3> QED BY <3>2, <3>3, <3>4
    <2> QED BY <1>1, <1>4, <2>1 DEF SyncInv, TypeOK, memVars
  <1>10. Quiet' /\ Bounded' /\ Pointers' /\ FirstCall'
    BY <1>1, <1>2, <1>3, <1>4, <1>6, <1>7
    DEF SyncInv, Quiet, InCall, Bounded, Pointers, FirstCall
  <1>11. Requests' /\ Owners'
    BY <1>1, <1>2, <1>3, <1>4, <1>6, <1>7, <1>8 DEF SyncInv, Requests, Owners
  <1>12. Runners'
    BY <1>1, <1>2, <1>4, <1>7, <1>8 DEF SyncInv, Runners
  <1>13. Distinct'
    <2>1. DOMAIN <<>> = {}
      OBVIOUS
    <2>2. \A c \in Devices : calls'[c] = calls[c] \/ calls'[c] = <<>>
      BY <1>8
    <2>3. \A c \in Devices : \A j, k \in DOMAIN calls'[c] : calls'[c][j] = calls'[c][k] => j = k
      BY <2>1, <2>2 DEF SyncInv, Distinct
    <2> QED BY <1>1, <2>3 DEF SyncInv, Distinct, memVars
  <1>14. DirtyKnown' /\ Late' /\ WrittenBack'
    BY <1>1, <1>2, <1>4, <1>7 DEF SyncInv, DirtyKnown, Late, WrittenBack, memVars
  <1>15. Dues'
    <2> SUFFICES ASSUME NEW f \in due, f # e
                 PROVE  /\ dpc'[f] = "loop" /\ Free(f)'
                        /\ \E c \in Devices : /\ calls'[f] = <<c>>
                                              /\ Posted(c)' /\ ~ Engaged(c)' /\ Free(c)'
                                              /\ calls'[c] = <<>> \/ c = f
      BY <1>1 DEF Dues
    <2>1. f \in Devices /\ dpc[f] = "loop" /\ Free(f)
      BY DuesHead
    <2>2. PICK c \in Devices : /\ calls[f] = <<c>> /\ Posted(c) /\ ~ Engaged(c) /\ Free(c)
                               /\ calls[c] = <<>> \/ c = f
      BY DuesHead
    <2>3. calls'[f] = calls[f] /\ (calls'[c] = <<>> \/ c = f)
      BY <1>2, <1>4, <2>1, <2>2
    <2> QED BY <1>1, <1>7, <2>1, <2>2, <2>3
  <1>16. Balance'
    <2>1. CASE InCall
      BY <2>1, <1>1, <1>5, <1>7, SameBalance DEF SyncInv
    <2>2. CASE ~ InCall
      BY <2>2, <1>1 DEF InCall, Balance
    <2> QED BY <2>1, <2>2
  <1> QED BY <1>9, <1>10, <1>11, <1>12, <1>13, <1>14, <1>15, <1>16 DEF SyncInv

-----------------------------------------------------------------------------
(* The invariant and what follows from it.                                 *)

\* The initial state satisfies the invariant.
LEMMA InitSync ==
    ASSUME Init
    PROVE  SyncInv
  <1>1. DOMAIN <<>> = {}
    OBVIOUS
  <1>2. OnTile = {} /\ InCalls = {} /\ due = {}
    BY <1>1 DEF Init, OnTile, InCalls
  <1>3. \A d \in Devices : /\ Free(d) /\ ~ Posted(d) /\ ~ Counted(d) /\ ~ Working(d)
                           /\ op[d] = "NOP" /\ dpc[d] = "loop" /\ calls[d] = <<>> /\ ~ ptr[d]
    BY <1>2 DEF Init, Free, Posted, Counted, Working
  <1>4. TypeOK
    <2>1. 1 \in Devices /\ <<>> \in Seq(Devices) /\ Host \in Devices \cup {Host}
      BY MemSyncAssumption DEF Devices
    <2>2. 0 \in 0..MaxTasks /\ 0 \in 0..MaxSyncs
      BY MemSyncAssumption
    <2>3. /\ cbk \in [Tiles -> Seq(Devices)] /\ calls \in [Devices -> Seq(Devices)]
          /\ valid \in [Tiles -> SUBSET (Devices \cup {Host})] /\ rw \in [Tiles -> SUBSET Devices]
      BY <2>1 DEF Init
    <2>4. /\ op \in [Devices -> Ops] /\ ptr \in [Devices -> BOOLEAN]
          /\ issleeping \in [Devices -> BOOLEAN]
          /\ queue \in [Devices -> Nat] /\ sent \in [Devices -> Nat]
      BY DEF Init, Ops
    <2> QED BY <2>1, <2>2, <2>3, <2>4 DEF Init, TypeOK
  <1>5. Quiet /\ Bounded /\ Pointers /\ FirstCall /\ Balance
    BY <1>3 DEF Init, Quiet, Bounded, InCall, Pointers, FirstCall, Balance
  <1>6. Requests /\ Owners /\ Runners /\ Dues
    BY <1>2, <1>3 DEF Requests, Owners, Runners, Dues
  <1>7. Distinct /\ Late /\ WrittenBack /\ DirtyKnown
    BY <1>1, <1>3 DEF Init, Distinct, Late, WrittenBack, DirtyKnown
  <1> QED BY <1>4, <1>5, <1>6, <1>7 DEF SyncInv

\* A step that changes nothing keeps the invariant.
LEMMA StutterKeeps ==
    ASSUME SyncInv, UNCHANGED vars
    PROVE  SyncInv'
  <1>1. UNCHANGED <<cpc, ci, pushed, syncs, mailVars, memVars, cbVars, dpc, queue, sent>>
    BY DEF vars, clientVars
  <1>2. blocked' \in BOOLEAN /\ issleeping' \in [Devices -> BOOLEAN]
    BY DEF vars, clientVars, SyncInv, TypeOK
  <1> QED BY <1>1, <1>2, SleepingKeeps

\* Every step of the caller, of a device thread and of a transfer keeps the invariant.
LEMMA NextKeeps ==
    ASSUME SyncInv, [Next]_vars
    PROVE  SyncInv'
  <1>1. CASE Client
    BY <1>1, OutsideKeeps, DrainedKeeps, CountKeeps, Request2DeviceKeeps, RequestWaitKeeps
    DEF Client
  <1>2. ASSUME NEW d \in Devices, DeviceThread(d) PROVE SyncInv'
    BY <1>2, IdleKeeps, RunTaskKeeps, MemsyncKeeps, WritebackAllKeeps, AddSentKeeps,
       SubBigKeeps, SetWaitKeeps, TestPointerKeeps, TestCounterKeeps, ReplyKeeps,
       CallbackDecrKeeps, CallbackReplyKeeps
    DEF DeviceThread
  <1>3. ASSUME NEW d \in Devices, TransferEnds(d) PROVE SyncInv'
    BY <1>3, TransferEndsKeeps
  <1>4. CASE UNCHANGED vars
    BY <1>4, StutterKeeps
  <1> QED BY <1>1, <1>2, <1>3, <1>4 DEF Next

\* The invariant of the request protocol, for any number of devices, tiles, tasks and
\* calls: who may hold a request, a callback or a reply, and what the counter holds
\* (kaapi_offload_synchronize, kaapi_memory_writeback_all and its callbacks).
THEOREM SyncInvHolds == Spec => []SyncInv
  <1>1. Init => SyncInv
    BY InitSync
  <1>2. SyncInv /\ [Next]_vars => SyncInv'
    BY NextKeeps
  <1> QED BY <1>1, <1>2, PTL DEF Spec

\* sync_counter is always the number of transfers and devices that must still end, in
\* the first call, and never wraps below zero in any (kaapi_offload_synchronize).
THEOREM CounterSoundHolds == Spec => []CounterSound
  <1>1. SyncInv => CounterSound
    <2>1. SyncInv => CounterExact
      BY DEF SyncInv, Balance, CounterExact, InCall
    <2> QED BY <2>1 DEF CounterSound, SyncInv
  <1> QED BY <1>1, SyncInvHolds, PTL

\* No callback signals the caller of a first call prematurely ("callback will not
\* prematurely signal the client", kaapi_offload_synchronize).
THEOREM NoEarlyReplyHolds == Spec => []NoEarlyReply
  <1>1. SyncInv => NoEarlyReply
    <2> SUFFICES ASSUME SyncInv, syncs = 0, NEW d \in Devices, op[d] = "REPLY"
                 PROVE  ~ Engaged(d) /\ Free(d)
      BY DEF NoEarlyReply
    <2>1. Free(d) /\ dpc[d] \notin {"writeback", "add", "sub"}
      BY ReplySent
    <2>2. Posted(d)
      BY DEF SyncInv, FirstCall
    <2>3. ~ (cpc = "post" /\ ci = d)
      BY <2>2, MemSyncAssumption DEF Posted, Devices
    <2> QED BY <2>1, <2>3 DEF Engaged
  <1> QED BY <1>1, SyncInvHolds, PTL

\* When xkblas_memory_syncall returns, in any call, the memory of the host is coherent
\* (xkblas.h: "memory on the host is coherent with copies on different devices").
THEOREM HostCoherentHolds == Spec => HostCoherent
  <1>1. SyncInv /\ [Next]_vars
            => [(cpc = "wait" /\ cpc' = "idle") => \A t \in Tiles : Host \in valid'[t]]_vars
    <2> SUFFICES ASSUME SyncInv, Next, cpc = "wait", cpc' = "idle"
                 PROVE  \A t \in Tiles : Host \in valid'[t]
      OBVIOUS
    <2>1. ASSUME NEW d \in Devices, DeviceThread(d) \/ TransferEnds(d) PROVE cpc' = cpc
      BY <2>1 DEF DeviceThread, TransferEnds, TestIdle, Sleep, WokenUp, RunTask, Memsync,
         WritebackAll, AddSent, SubBig, SetWait, TestPointer, TestCounter, Reply,
         CallbackDecr, CallbackReply, clientVars
    <2>2. RequestWait
      BY <2>1 DEF Next, Client, Push, SyncAll, Drained, Count, Request2Device
    <2> QED BY <2>2, ReturnsCoherent
  <1> QED BY <1>1, SyncInvHolds, PTL DEF Spec, HostCoherent

=============================================================================
