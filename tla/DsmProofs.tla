----------------------------- MODULE DsmProofs ------------------------------
(***************************************************************************)
(* DsmInv is an invariant of Dsm for any devices, tiles, capacities and    *)
(* tasks, as long as no step has taken away what another device counts on  *)
(* (Unharmed): only the steps Begin and Unset can.                         *)
(***************************************************************************)
EXTENDS DsmInv, FiniteSetTheorems, SequenceTheorems, TLAPS

-----------------------------------------------------------------------------
(* Numbers, sets and lists.                                                *)

\* A set of natural numbers that is not empty has a least element.
LEMMA LeastExists ==
    ASSUME NEW S \in SUBSET Nat, S # {}
    PROVE  \E m \in S : \A n \in S : m <= n
  <1>1. \A m, n \in Nat : n < m => <<n, m>> \in OpToRel(<, Nat)
    BY Zenon DEF OpToRel
  <1>2. PICK R : IsWellFoundedOn(R, Nat) /\ \A m, n \in Nat : n < m => <<n, m>> \in R
    BY <1>1, NatLessThanWellFounded, Zenon
  <1>3. PICK m \in S : \A n \in S : ~ (<<n, m>> \in R)
    BY <1>2, WFMin
  <1>4. \A n \in S : ~ (n < m)
    BY <1>2, <1>3
  <1>5. \A n \in S : n \in Nat /\ m \in Nat
    OBVIOUS
  <1> QED BY <1>4, <1>5

\* Min and Max choose an element of the set.
LEMMA MinIn ==
    ASSUME NEW S \in SUBSET Nat, S # {}
    PROVE  Min(S) \in S /\ \A n \in S : Min(S) <= n
  BY LeastExists DEF Min

\* A set of positions has its Max in it.
LEMMA MaxIn ==
    ASSUME NEW j \in Nat, NEW S \in SUBSET (1..j), S # {}
    PROVE  Max(S) \in S
  <1> DEFINE D == {j - n : n \in S}
  <1>1. D \in SUBSET Nat /\ D # {}
    <2>1. \A n \in S : n \in 1..j
      OBVIOUS
    <2>2. \A n \in 1..j : j - n \in Nat
      OBVIOUS
    <2> QED BY <2>1, <2>2
  <1>2. PICK m \in D : \A n \in D : m <= n
    BY <1>1, LeastExists
  <1>3. PICK x \in S : m = j - x
    OBVIOUS
  <1>4. \A n \in S : n <= x
    BY <1>2, <1>3
  <1> QED BY <1>3, <1>4 DEF Max

\* RemoveAt keeps the entries before j, and all entries but that of j.
LEMMA RemoveAtKeeps ==
    ASSUME NEW T, NEW s \in Seq(T), NEW j \in 1..Len(s)
    PROVE  /\ RemoveAt(s, j) \in Seq(T)
           /\ Len(RemoveAt(s, j)) = Len(s) - 1
           /\ \A k \in 1..(j - 1) : RemoveAt(s, j)[k] = s[k]
           /\ \A t : t \in Range(s) /\ t # s[j] => t \in Range(RemoveAt(s, j))
  <1> DEFINE a == SubSeq(s, 1, j - 1)
             b == SubSeq(s, j + 1, Len(s))
             r == RemoveAt(s, j)
  <1>1. a \in Seq(T) /\ Len(a) = j - 1 /\ \A k \in 1..(j - 1) : a[k] = s[k]
    <2>1. \A k \in 1..(j - 1) : s[k] \in T
      BY ElementOfSeq
    <2> QED BY <2>1, SubSeqProperties
  <1>2. b \in Seq(T) /\ Len(b) = Len(s) - j /\ \A k \in 1..(Len(s) - j) : b[k] = s[j + k]
    <2>1. \A k \in (j + 1)..Len(s) : s[k] \in T
      BY ElementOfSeq
    <2> QED BY <2>1, SubSeqProperties
  <1>3. r = a \o b
    BY DEF RemoveAt
  <1> HIDE DEF a, b, r
  <1>4. r \in Seq(T) /\ Len(r) = Len(s) - 1
    BY <1>1, <1>2, <1>3, ConcatProperties
  <1>5. \A k \in 1..(j - 1) : r[k] = s[k]
    BY <1>1, <1>2, <1>3, ConcatProperties
  <1>6. \A k \in (j + 1)..Len(s) : r[k - 1] = s[k]
    <2> TAKE k \in (j + 1)..Len(s)
    <2>1. k - 1 \in 1..(Len(a) + Len(b)) /\ ~ (k - 1 <= Len(a)) /\ k - 1 - Len(a) = k - j
      BY <1>1, <1>2
    <2>2. r[k - 1] = b[k - j]
      <3>1. \A n \in 1..(Len(a) + Len(b)) :
                r[n] = IF n <= Len(a) THEN a[n] ELSE b[n - Len(a)]
        BY <1>1, <1>2, <1>3, ConcatProperties, Zenon
      <3> QED BY <2>1, <3>1, Zenon
    <2>3. k - j \in 1..(Len(s) - j) /\ j + (k - j) = k
      OBVIOUS
    <2> QED BY <1>2, <2>2, <2>3
  <1>7. ASSUME NEW t, t \in Range(s), t # s[j]
        PROVE  t \in Range(r)
    <2>1. PICK k \in 1..Len(s) : s[k] = t
      BY <1>7 DEF Range
    <2>2. CASE k < j
      BY <1>4, <1>5, <2>1, <2>2 DEF Range
    <2>3. CASE k > j
      BY <1>4, <1>6, <2>1, <2>3 DEF Range
    <2> QED BY <1>7, <2>1, <2>2, <2>3
  <1> QED BY <1>4, <1>5, <1>7 DEF r

\* RemoveFirst keeps every other element.
LEMMA RemoveFirstKeeps ==
    ASSUME NEW T, NEW s \in Seq(T), NEW e
    PROVE  /\ RemoveFirst(s, e) \in Seq(T)
           /\ \A t : t \in Range(s) /\ t # e => t \in Range(RemoveFirst(s, e))
  <1>1. CASE \E i \in 1..Len(s) : s[i] = e
    <2> DEFINE I == {i \in 1..Len(s) : s[i] = e}
    <2>1. I \in SUBSET Nat /\ I # {}
      BY <1>1
    <2>3. Min(I) \in I
      BY <2>1, MinIn
    <2>2. RemoveFirst(s, e) = RemoveAt(s, Min(I))
      BY <1>1 DEF RemoveFirst, SelectInSeq
    <2> QED BY <2>2, <2>3, RemoveAtKeeps
  <1>2. CASE ~ \E i \in 1..Len(s) : s[i] = e
    BY <1>2 DEF RemoveFirst
  <1> QED BY <1>1, <1>2

-----------------------------------------------------------------------------
(* Tasks and uses.                                                         *)

\* Tasks keep their device and their parameters.
Kept ==
    \A i \in DOMAIN tasks :
        /\ i \in DOMAIN tasks' /\ tasks'[i].dev = tasks[i].dev
        /\ tasks'[i].shape = tasks[i].shape

\* A node is the host or a device.
LEMMA Places ==
    /\ Host \in Nodes /\ Devices \subseteq Nodes /\ Host \notin Devices
    /\ \A n \in Nodes : n = Host \/ n \in Devices
  BY DsmAssumption DEF Host, Nodes, Devices

\* Tasks are numbered from 1, and the live ones are tasks.
LEMMA TaskTypes ==
    ASSUME Types
    PROVE  /\ DOMAIN tasks = 1..Len(tasks) /\ Len(tasks) \in Nat
           /\ \A i \in DOMAIN tasks : i \in Nat /\ tasks[i] \in Task
           /\ Live \subseteq DOMAIN tasks
  BY DEF Types, Live

\* A task of which the counter or the state changes.
LEMMA TaskChange ==
    ASSUME NEW r \in Task
    PROVE  /\ \A w \in Int : LET s == [r EXCEPT !.wc = w]
                             IN s \in Task /\ s.dev = r.dev /\ s.shape = r.shape /\ s.st = r.st /\ s.wc = w
           /\ \A v \in States : LET s == [r EXCEPT !.st = v]
                                IN s \in Task /\ s.dev = r.dev /\ s.shape = r.shape /\ s.st = v /\ s.wc = r.wc
           /\ \A w \in Int : \A v \in States :
                LET s == [r EXCEPT !.wc = w, !.st = v]
                IN s \in Task /\ s.dev = r.dev /\ s.shape = r.shape /\ s.st = v /\ s.wc = w
           /\ r.wc \in Int /\ r.st \in States /\ r.dev \in Devices
  BY DEF Task

\* The uses are the parameters of the live tasks.
LEMMA UsePairs ==
    /\ \A i \in Live : \A k \in DOMAIN Params(i) : <<i, k>> \in Uses
    /\ \A x \in Uses : x = <<x[1], x[2]>> /\ x[1] \in Live /\ x[2] \in DOMAIN Params(x[1])
  BY DEF Uses

\* The same after a step.
LEMMA UsePairsNext ==
    /\ \A i \in Live' : \A k \in DOMAIN Params(i)' : <<i, k>> \in Uses'
    /\ \A x \in Uses' : x = <<x[1], x[2]>> /\ x[1] \in Live' /\ x[2] \in DOMAIN Params(x[1])'
  BY DEF Uses

\* What a use is: a parameter of a live task that fits in its device.
LEMMA UseTypes ==
    ASSUME Types, Apart, NEW x \in Uses
    PROVE  /\ x[1] \in DOMAIN tasks /\ x[1] \in Live /\ x[1] \in Nat
           /\ x[2] \in DOMAIN Params(x[1]) /\ x[2] \in 1..Len(Params(x[1])) /\ x[2] \in Nat
           /\ TileOf(x) \in Tiles /\ ModeOf(x) \in Modes /\ DevOf(x) \in Devices
           /\ x = <<x[1], x[2]>> /\ Params(x[1]) \in Shapes
           /\ cap[DevOf(x)] > 0 /\ cap[DevOf(x)] \in Nat
  <1>1. x = <<x[1], x[2]>> /\ x[1] \in Live /\ x[2] \in DOMAIN Params(x[1])
    BY UsePairs
  <1>2. x[1] \in DOMAIN tasks /\ x[1] \in Nat /\ tasks[x[1]] \in Task
    BY <1>1, TaskTypes
  <1>3. Params(x[1]) \in Shapes /\ cap[DevOf(x)] > 0
    BY <1>1 DEF Apart, DevOf
  <1>4. Params(x[1]) \in Seq(Tiles \X Modes)
    BY <1>3, DsmAssumption
  <1>5. x[2] \in 1..Len(Params(x[1])) /\ Params(x[1])[x[2]] \in Tiles \X Modes
    BY <1>1, <1>4, ElementOfSeq
  <1>6. DevOf(x) \in Devices
    BY <1>2 DEF DevOf, Task
  <1>7. cap[DevOf(x)] \in Nat
    BY <1>6, DsmAssumption DEF Types
  <1> QED BY <1>1, <1>2, <1>3, <1>5, <1>6, <1>7 DEF TileOf, ModeOf

\* The parts of a use that a step keeps.
LEMMA UseKept ==
    ASSUME Types, Kept, NEW x \in Uses
    PROVE  DevOf(x)' = DevOf(x) /\ TileOf(x)' = TileOf(x) /\ ModeOf(x)' = ModeOf(x)
           /\ Params(x[1])' = Params(x[1])
  BY UsePairs, TaskTypes DEF Kept, DevOf, TileOf, ModeOf, Params

\* The sets shrink in one way.
LEMMA Subsets ==
    /\ Pinned \subseteq Uses /\ Allocated \subseteq Pinned
    /\ Asked \subseteq Uses /\ Listed \subseteq Uses
    /\ Asked \subseteq Allocated
  BY DEF Pinned, Allocated, Asked, Listed, Behind

\* What a device thread prepares is a use of a task of its device.
LEMMA PrepTypes ==
    ASSUME Types, ThreadsAtTasks, NEW d \in Devices, Prep(d).pc # "idle"
    PROVE  /\ Prep(d) \in Steps \cup Evictions
           /\ Prep(d).i \in DOMAIN tasks /\ Prep(d).i \in Live /\ Prep(d).i \in Nat
           /\ Prep(d).k \in DOMAIN Params(Prep(d).i) /\ Prep(d).k \in Nat
           /\ tasks[Prep(d).i].st = "prep" /\ tasks[Prep(d).i].dev = d
           /\ At(d) \in Uses /\ DevOf(At(d)) = d
           /\ At(d)[1] = Prep(d).i /\ At(d)[2] = Prep(d).k
  <1>1. thr[d] \in {Idle} \cup Steps \cup Evictions \cup Posts
    BY DEF Types
  <1>2. Prep(d) \in Steps \cup Evictions
    <2>1. CASE thr[d].pc = "post"
      <3>1. thr[d] \in Posts
        BY <1>1, <2>1 DEF Idle, Steps, Evictions
      <3>2. thr[d].ret \in {Idle} \cup Steps
        BY <3>1 DEF Posts
      <3> QED BY <2>1, <3>2 DEF Prep, Idle
    <2>2. CASE thr[d].pc # "post"
      <3>1. thr[d] \notin Posts /\ thr[d] # Idle
        BY <2>2 DEF Posts, Prep, Idle
      <3> QED BY <1>1, <2>2, <3>1 DEF Prep
    <2> QED BY <2>1, <2>2
  <1>3. Prep(d).i \in Nat /\ Prep(d).k \in Nat
    <2>1. \A r \in Steps : r.i \in Nat /\ r.k \in Nat
      BY DEF Steps
    <2>2. \A r \in Evictions : r.i \in Nat /\ r.k \in Nat
      BY DEF Evictions
    <2> QED BY <1>2, <2>1, <2>2
  <1>4. /\ Prep(d).i \in DOMAIN tasks /\ tasks[Prep(d).i].dev = d
        /\ tasks[Prep(d).i].st = "prep" /\ Prep(d).k \in DOMAIN Params(Prep(d).i)
    BY DEF ThreadsAtTasks
  <1>5. Prep(d).i \in Live
    BY <1>4 DEF Live
  <1>6. At(d) \in Uses
    BY <1>4, <1>5, UsePairs DEF At
  <1> QED BY <1>2, <1>3, <1>4, <1>5, <1>6 DEF At, DevOf

-----------------------------------------------------------------------------
(* How the actions move uses.                                              *)

\* The uses of a preparation that stays with its use <<i, k>>: those of other
\* tasks and other parameters stay where they are.
LEMMA StayBehind ==
    ASSUME Types, ThreadsAtTasks, Apart, Kept, NEW d \in Devices, NEW pcs,
           \A i \in DOMAIN tasks : tasks'[i].st = tasks[i].st,
           \A e \in Devices : e # d => Prep(e)' = Prep(e),
           Prep(d)'.i = Prep(d).i, Prep(d)'.k = Prep(d).k,
           NEW x \in Uses, Prep(d).pc # "idle"
    PROVE  Behind(x, pcs)' <=> IF x = At(d) THEN Prep(d)'.pc \in pcs
                               ELSE Behind(x, pcs)
  <1>1. x[1] \in DOMAIN tasks /\ x = <<x[1], x[2]>> /\ DevOf(x) \in Devices
    BY UsePairs, TaskTypes DEF DevOf, Task
  <1>2. DevOf(x)' = DevOf(x) /\ tasks'[x[1]].st = tasks[x[1]].st
    BY <1>1 DEF Kept, DevOf
  <1>3. tasks[x[1]].st = "prep" => Prep(DevOf(x)).i = x[1]
    BY <1>1 DEF ThreadsAtTasks, DevOf
  <1>4. CASE DevOf(x) = d /\ tasks[x[1]].st = "prep"
    <2> DEFINE K == Prep(d).k
    <2>1. x = At(d) <=> x[2] = K
      BY <1>1, <1>3, <1>4 DEF At
    <2>2. x[2] \in Nat /\ K \in Nat
      BY <1>4, PrepTypes, UseTypes
    <2>3. Behind(x, pcs)' <=> x[2] < K \/ (x[2] = K /\ Prep(d)'.pc \in pcs)
      BY <1>2, <1>4 DEF Behind
    <2>4. Behind(x, pcs) <=> x[2] < K \/ (x[2] = K /\ Prep(d).pc \in pcs)
      BY <1>4 DEF Behind
    <2> HIDE DEF K
    <2> QED BY <2>1, <2>2, <2>3, <2>4
  <1>5. CASE DevOf(x) # d
    <2>1. x # At(d)
      BY <1>1, <1>5, PrepTypes
    <2> QED BY <1>1, <1>2, <1>5, <2>1 DEF Behind
  <1>6. CASE tasks[x[1]].st # "prep"
    <2>1. x # At(d)
      BY <1>1, <1>6, PrepTypes
    <2> QED BY <1>2, <1>6, <2>1 DEF Behind
  <1> QED BY <1>4, <1>5, <1>6

\* A device thread that works on a use.
LEMMA Here ==
    ASSUME Types, ThreadsAtTasks, NEW d \in Devices,
           thr[d].pc \in {"acquire", "alloc", "unset", "fetch", "touch"}
    PROVE  /\ Prep(d) = thr[d] /\ Prep(d).pc # "idle"
           /\ At(d) \in Uses /\ At(d) = <<thr[d].i, thr[d].k>>
           /\ Tile(d) = TileOf(At(d)) /\ Mode(d) = ModeOf(At(d)) /\ DevOf(At(d)) = d
           /\ (thr[d].pc # "unset" => thr[d] \in Steps)
           /\ (thr[d].pc = "unset" => thr[d] \in Evictions)
  <1>1. Prep(d) = thr[d] /\ Prep(d).pc # "idle"
    BY DEF Prep
  <1>2. At(d) \in Uses /\ DevOf(At(d)) = d /\ thr[d] \in Steps \cup Evictions
    BY <1>1, PrepTypes
  <1>3. At(d) = <<thr[d].i, thr[d].k>>
    BY <1>1 DEF At
  <1>4. Tile(d) = TileOf(At(d)) /\ Mode(d) = ModeOf(At(d))
    BY <1>3 DEF Tile, Mode, Param, TileOf, ModeOf
  <1>5. \A r \in Steps : r.pc # "unset"
    BY DEF Steps
  <1>6. \A r \in Evictions : r.pc = "unset"
    BY DEF Evictions
  <1> QED BY <1>1, <1>2, <1>3, <1>4, <1>5, <1>6

\* A device thread that goes to another point of its preparation.
LEMMA GotoStep ==
    ASSUME Types, NEW d \in Devices, thr[d] \in Steps, NEW pc,
           pc \in {"acquire", "alloc", "fetch", "touch"}, Goto(d, pc)
    PROVE  /\ thr'[d] \in Steps /\ thr'[d].pc = pc
           /\ thr'[d].i = thr[d].i /\ thr'[d].k = thr[d].k
           /\ \A e \in Devices : e # d => thr'[e] = thr[e] /\ Prep(e)' = Prep(e)
           /\ Prep(d)' = thr'[d]
           /\ thr' \in [Devices -> {Idle} \cup Steps \cup Evictions \cup Posts]
  <1>1. thr \in [Devices -> {Idle} \cup Steps \cup Evictions \cup Posts]
    BY DEF Types
  <1>2. thr' = [thr EXCEPT ![d] = [thr[d] EXCEPT !.pc = pc]]
    BY DEF Goto
  <1>3. [thr[d] EXCEPT !.pc = pc] \in Steps /\ [thr[d] EXCEPT !.pc = pc].pc = pc
        /\ [thr[d] EXCEPT !.pc = pc].i = thr[d].i /\ [thr[d] EXCEPT !.pc = pc].k = thr[d].k
    BY DEF Steps
  <1>4. thr'[d] = [thr[d] EXCEPT !.pc = pc] /\ \A e \in Devices : e # d => thr'[e] = thr[e]
    BY <1>1, <1>2
  <1>5. thr' \in [Devices -> {Idle} \cup Steps \cup Evictions \cup Posts]
    BY <1>1, <1>2, <1>3
  <1> QED BY <1>3, <1>4, <1>5 DEF Prep

\* A tile is written when a use writes it.
LEMMA WrittenUses ==
    \A t : Written(t) <=> \E x \in Uses : TileOf(x) = t /\ Writes(ModeOf(x))
  <1>1. \A i, k : <<i, k>>[1] = i /\ <<i, k>>[2] = k
    OBVIOUS
  <1>2. ASSUME NEW t, Written(t)
        PROVE  \E x \in Uses : TileOf(x) = t /\ Writes(ModeOf(x))
    <2>0. PICK i \in Live :
              \E k \in DOMAIN Params(i) : Params(i)[k][1] = t /\ Writes(Params(i)[k][2])
      BY <1>2 DEF Written
    <2>1. PICK k \in DOMAIN Params(i) : Params(i)[k][1] = t /\ Writes(Params(i)[k][2])
      BY <2>0
    <2>2. <<i, k>> \in Uses
      BY UsePairs
    <2>3. TileOf(<<i, k>>) = t /\ Writes(ModeOf(<<i, k>>))
      BY <1>1, <2>1 DEF TileOf, ModeOf
    <2> QED BY <2>2, <2>3
  <1>3. ASSUME NEW t, NEW x \in Uses, TileOf(x) = t /\ Writes(ModeOf(x))
        PROVE  Written(t)
    BY <1>3, UsePairs DEF Written, TileOf, ModeOf
  <1> QED BY <1>2, <1>3

\* A step that ends no task keeps the uses.
LEMMA SameUses ==
    ASSUME Types, Kept, DOMAIN tasks' = DOMAIN tasks,
           \A i \in DOMAIN tasks : tasks'[i].st = "done" <=> tasks[i].st = "done"
    PROVE  Live' = Live /\ Uses' = Uses /\ \A t : Written(t)' <=> Written(t)
  <1>1. Live' = Live
    BY DEF Live
  <1>2. \A i \in Live : Params(i)' = Params(i)
    BY DEF Live, Kept, Params
  <1>3. Uses' = Uses
    BY <1>1, <1>2 DEF Uses
  <1>4. \A t : Written(t)' <=> Written(t)
    BY <1>1, <1>2 DEF Written
  <1> QED BY <1>1, <1>3, <1>4

\* The sets of uses after a step of the preparation of d that stays with its use.
LEMMA StayViews ==
    ASSUME Types, ThreadsAtTasks, Apart, Kept, NEW d \in Devices, Prep(d).pc # "idle",
           DOMAIN tasks' = DOMAIN tasks,
           \A i \in DOMAIN tasks : tasks'[i].st = tasks[i].st,
           \A e \in Devices : e # d => Prep(e)' = Prep(e),
           Prep(d)'.i = Prep(d).i, Prep(d)'.k = Prep(d).k
    PROVE  /\ Live' = Live /\ Uses' = Uses /\ \A t : Written(t)' <=> Written(t)
           /\ Pinned' = {x \in Uses : IF x = At(d) THEN Prep(d)'.pc \in {"alloc", "unset", "fetch", "touch"}
                                      ELSE x \in Pinned}
           /\ Allocated' = {x \in Uses : IF x = At(d) THEN Prep(d)'.pc \in {"fetch", "touch"}
                                         ELSE x \in Allocated}
           /\ Asked' = {x \in Uses : (IF x = At(d) THEN Prep(d)'.pc = "touch"
                                      ELSE Behind(x, {"touch"})) /\ ~ Posting(x)'}
           /\ Listed' = Listed
  <1>1. Live' = Live /\ Uses' = Uses /\ \A t : Written(t)' <=> Written(t)
    BY SameUses
  <1>2. ASSUME NEW pcs
        PROVE  \A x \in Uses : Behind(x, pcs)' <=> IF x = At(d) THEN Prep(d)'.pc \in pcs
                                                   ELSE Behind(x, pcs)
    BY StayBehind
  <1>3. Pinned' = {x \in Uses : IF x = At(d) THEN Prep(d)'.pc \in {"alloc", "unset", "fetch", "touch"}
                                ELSE x \in Pinned}
    <2>1. Pinned' = {x \in Uses : Behind(x, {"alloc", "unset", "fetch", "touch"})'}
      BY <1>1 DEF Pinned
    <2> QED BY <1>2, <2>1 DEF Pinned
  <1>4. Allocated' = {x \in Uses : IF x = At(d) THEN Prep(d)'.pc \in {"fetch", "touch"}
                                   ELSE x \in Allocated}
    <2>1. Allocated' = {x \in Uses : Behind(x, {"fetch", "touch"})'}
      BY <1>1 DEF Allocated
    <2> QED BY <1>2, <2>1 DEF Allocated
  <1>5. Asked' = {x \in Uses : (IF x = At(d) THEN Prep(d)'.pc = "touch"
                                ELSE Behind(x, {"touch"})) /\ ~ Posting(x)'}
    <2>1. Asked' = {x \in Uses : Behind(x, {"touch"})' /\ ~ Posting(x)'}
      BY <1>1 DEF Asked
    <2>2. \A x \in Uses : Behind(x, {"touch"})' <=> IF x = At(d) THEN Prep(d)'.pc \in {"touch"}
                                                    ELSE Behind(x, {"touch"})
      BY <1>2
    <2> QED BY <2>1, <2>2
  <1>6. Listed' = Listed
    <2>1. Listed' = {x \in Uses : Behind(x, {})'}
      BY <1>1 DEF Listed
    <2>2. At(d) \notin Listed
      <3>1. At(d)[1] = Prep(d).i /\ At(d)[2] = Prep(d).k /\ DevOf(At(d)) = d
            /\ tasks[Prep(d).i].st = "prep" /\ Prep(d).k \in Nat
        BY PrepTypes
      <3> QED BY <3>1 DEF Listed, Behind
    <2>3. \A x \in Uses : Behind(x, {})' <=> (x # At(d) /\ Behind(x, {}))
      BY <1>2
    <2> QED BY <2>1, <2>2, <2>3 DEF Listed
  <1> QED BY <1>1, <1>3, <1>4, <1>5, <1>6

-----------------------------------------------------------------------------
(* What each part of the invariant depends on.                             *)

\* No new use, no new conflict.
LEMMA FrameApart ==
    ASSUME Types, Kept, Apart, cap' = cap, Live' \subseteq Live, Uses' \subseteq Uses
    PROVE  Apart'
  <1>1. \A i \in Live : Params(i)' = Params(i) /\ tasks'[i].dev = tasks[i].dev
    BY TaskTypes DEF Kept, Params
  <1>2. \A x \in Uses : TileOf(x)' = TileOf(x) /\ ModeOf(x)' = ModeOf(x)
    BY UseKept
  <1>3. \A i \in Live' : Params(i)' \in Shapes /\ cap'[tasks'[i].dev] > 0
    BY <1>1 DEF Apart
  <1>4. \A x, y \in Uses' : x[1] # y[1] /\ TileOf(x)' = TileOf(y)' => ~ Writes(ModeOf(x)')
    BY <1>2 DEF Apart
  <1> QED BY <1>3, <1>4 DEF Apart

\* The pins of the same uses.
LEMMA FramePins ==
    ASSUME Types, Kept, PinsExact, Pinned' = Pinned, pin' = pin
    PROVE  PinsExact'
  <1>1. \A x \in Pinned : TileOf(x)' = TileOf(x) /\ DevOf(x)' = DevOf(x)
    BY UseKept, Subsets
  <1>2. \A t \in Tiles, d \in Devices : Holders(t, d)' = Holders(t, d)
    BY <1>1 DEF Holders
  <1> QED BY <1>2 DEF PinsExact

\* The preparations that look for a block are the same.
SameSearch(d) ==
    Prep(d)'.pc \in {"alloc", "unset"} =>
        /\ Prep(d).pc \in {"alloc", "unset"}
        /\ Prep(d)'.i = Prep(d).i /\ Prep(d)'.k = Prep(d).k

\* Such a preparation looks for a block of the same tile.
LEMMA SameSearchTile ==
    ASSUME Types, ThreadsAtTasks, Kept, NEW d \in Devices, SameSearch(d),
           Prep(d)'.pc \in {"alloc", "unset"}
    PROVE  Prep(d).pc \in {"alloc", "unset"} /\ TileOf(At(d))' = TileOf(At(d))
  <1>1. Prep(d).pc \in {"alloc", "unset"}
        /\ Prep(d)'.i = Prep(d).i /\ Prep(d)'.k = Prep(d).k
    BY DEF SameSearch
  <1>2. Prep(d).i \in DOMAIN tasks
    BY <1>1, PrepTypes
  <1>3. tasks'[Prep(d).i].shape = tasks[Prep(d).i].shape
    BY <1>2 DEF Kept
  <1> QED BY <1>1, <1>3 DEF TileOf, At, Params

\* The same blocks, for no more uses.
LEMMA FrameBlocks ==
    ASSUME Types, ThreadsAtTasks, Kept, BlocksExact, Allocated' \subseteq Allocated,
           cap' = cap, blk' = blk, valid' = valid, \A d \in Devices : SameSearch(d)
    PROVE  BlocksExact'
  <1>1. \A x \in Allocated : TileOf(x)' = TileOf(x) /\ DevOf(x)' = DevOf(x)
    BY UseKept, Subsets
  <1>2. \A x \in Allocated' : blk'[TileOf(x)'][DevOf(x)'] # 0
    BY <1>1 DEF BlocksExact
  <1>3. \A d \in Devices : Prep(d)'.pc \in {"alloc", "unset"} => blk'[TileOf(At(d))'][d] = 0
    BY SameSearchTile DEF BlocksExact
  <1> QED BY <1>2, <1>3 DEF BlocksExact

\* The same counters, callbacks and posts.
LEMMA FrameCounters ==
    ASSUME Types, Kept, CountersExact, Live' \subseteq Live, cbk' = cbk,
           \A i \in Live' : tasks'[i].wc = tasks[i].wc,
           \A i \in Live' : tasks'[i].st = "prep" <=> tasks[i].st = "prep",
           \A i \in Live' : \A k \in DOMAIN Params(i) : Posting(<<i, k>>)' <=> Posting(<<i, k>>)
    PROVE  CountersExact'
  <1>1. \A i \in Live : Params(i)' = Params(i) /\ tasks'[i].dev = tasks[i].dev
    BY TaskTypes DEF Kept, Params
  <1>2. \A i \in Live' : Waiting(i)' = Waiting(i)
    BY <1>1 DEF Waiting
  <1>3. \A i \in Live' : (\E k \in DOMAIN Params(i)' : Posting(<<i, k>>)')
                         <=> \E k \in DOMAIN Params(i) : Posting(<<i, k>>)
    BY <1>1
  <1>4. \A i \in Live' : i \in Live
    OBVIOUS
  <1>5. ASSUME NEW i \in Live'
        PROVE  tasks'[i].wc = Cardinality(Waiting(i)') + (IF tasks'[i].st = "prep" THEN 1 ELSE 0)
                      + (IF \E k \in DOMAIN Params(i)' : Posting(<<i, k>>)' THEN 1 ELSE 0)
    BY <1>2, <1>3, <1>4 DEF CountersExact
  <1> QED BY <1>5 DEF CountersExact

\* The same callbacks and transfers, for no fewer uses.
LEMMA FrameCallbacks ==
    ASSUME Types, Kept, CallbacksOwned, Asked \subseteq Asked', Uses' = Uses,
           cbk' = cbk, xfer' = xfer
    PROVE  CallbacksOwned'
  <1>1. \A x \in Asked : TileOf(x)' = TileOf(x) /\ DevOf(x)' = DevOf(x) /\ ModeOf(x)' = ModeOf(x)
    BY UseKept, Subsets
  <1>2. \A t \in Tiles, n \in Nodes : \A c \in cbk[t][n] : c[1] = "task" =>
          /\ c[2] \in Asked' /\ Reads(ModeOf(c[2])')
          /\ TileOf(c[2])' = t /\ DevOf(c[2])' = n
    BY <1>1 DEF CallbacksOwned
  <1> QED BY <1>2 DEF CallbacksOwned

\* The same transfers to the host, and no new writer.
LEMMA FrameHost ==
    ASSUME HostUnwritten, xfer' = xfer, \A t : Written(t)' => Written(t)
    PROVE  HostUnwritten'
  BY DEF HostUnwritten

\* The same copies and the same requests to forward.
LEMMA FrameFed ==
    ASSUME FedOnce, copies' = copies, cbk' = cbk, xfer' = xfer
    PROVE  FedOnce'
  BY DEF FedOnce, Fed1, Fed2, Fed3, Fed4, Fed5, Fed, Sends

\* The same copies, blocks and contents.
LEMMA FrameCopies ==
    ASSUME CopiesCurrent, copies' = copies, cap' = cap, blk' = blk, mem' = mem, cur' = cur
    PROVE  CopiesCurrent'
  BY DEF CopiesCurrent

\* The writers that have made the other replicas invalid.
LEMMA SameDirtying ==
    ASSUME Types, Kept, Listed' = Listed
    PROVE  \A t : Dirtying(t)' = Dirtying(t) /\ \A x \in Dirtying(t) : DevOf(x)' = DevOf(x)
  <1>1. \A x \in Listed : TileOf(x)' = TileOf(x) /\ ModeOf(x)' = ModeOf(x) /\ DevOf(x)' = DevOf(x)
    BY UseKept, Subsets
  <1> QED BY <1>1 DEF Dirtying

\* The same valid replicas, with the same contents.
LEMMA FrameValid ==
    ASSUME Types, Kept, ValidExact, Listed' = Listed, valid' = valid, xfer' = xfer,
           mem' = mem, blk' = blk, cur' = cur
    PROVE  ValidExact'
  <1>1. \A t : Dirtying(t)' = Dirtying(t) /\ \A x \in Dirtying(t) : DevOf(x)' = DevOf(x)
    BY SameDirtying
  <1> QED BY <1>1 DEF ValidExact

\* The same contents, for no more uses that have been asked for.
LEMMA FrameInputs ==
    ASSUME Types, Kept, InputsServed, Asked' \subseteq Asked, cbk' = cbk,
           mem' = mem, blk' = blk, cur' = cur
    PROVE  InputsServed'
  <1>1. \A x \in Asked : TileOf(x)' = TileOf(x) /\ DevOf(x)' = DevOf(x) /\ ModeOf(x)' = ModeOf(x)
    BY UseKept, Subsets
  <1> QED BY <1>1 DEF InputsServed

\* The tile that a thread posts a transfer for.
LEMMA PostTile ==
    ASSUME Types, ThreadsAtTasks, Apart, NEW d \in Devices, thr[d].pc = "post"
    PROVE  /\ thr[d] \in Posts /\ thr[d].i \in DOMAIN tasks /\ thr[d].i \in Live
           /\ thr[d].k \in DOMAIN Params(thr[d].i) /\ <<thr[d].i, thr[d].k>> \in Uses
           /\ Tile(d) = TileOf(<<thr[d].i, thr[d].k>>) /\ Tile(d) \in Tiles
           /\ Mode(d) = ModeOf(<<thr[d].i, thr[d].k>>) /\ DevOf(<<thr[d].i, thr[d].k>>) = d
  <1>1. thr[d] \in Posts
    <2>1. \A r \in {Idle} \cup Steps \cup Evictions : r.pc # "post"
      BY DEF Idle, Steps, Evictions
    <2> QED BY <2>1 DEF Types
  <1>2. /\ thr[d].i \in DOMAIN tasks /\ tasks[thr[d].i].st # "done"
        /\ tasks[thr[d].i].dev = d
    <2>1. CASE thr[d].dst = Host
      <3>1. Host # d
        BY DsmAssumption DEF Host, Devices
      <3> QED BY <2>1, <3>1 DEF ThreadsAtTasks
    <2>2. CASE thr[d].dst = d
      <3>1. Host # d
        BY DsmAssumption DEF Host, Devices
      <3>2. Prep(d).pc = "touch" /\ Prep(d).i = thr[d].i
        BY <2>2, <3>1 DEF ThreadsAtTasks
      <3> QED BY <3>2, PrepTypes
    <2> QED BY <2>1, <2>2 DEF ThreadsAtTasks
  <1>3. thr[d].i \in Live
    BY <1>2 DEF Live
  <1>4. thr[d].k \in DOMAIN Params(thr[d].i)
    <2>1. CASE thr[d].dst = Host
      <3>1. Host # d
        BY DsmAssumption DEF Host, Devices
      <3>2. thr[d].k = 1
        BY <2>1, <3>1 DEF ThreadsAtTasks
      <3>3. Params(thr[d].i) \in Shapes
        BY <1>3 DEF Apart
      <3>4. Params(thr[d].i) \in Seq(Tiles \X Modes) /\ Params(thr[d].i) # <<>>
        BY <3>3, DsmAssumption
      <3> QED BY <3>2, <3>4
    <2>2. CASE thr[d].dst = d
      <3>1. Host # d
        BY DsmAssumption DEF Host, Devices
      <3>2. Prep(d).pc = "touch" /\ Prep(d).i = thr[d].i /\ Prep(d).k = thr[d].k
        BY <2>2, <3>1 DEF ThreadsAtTasks
      <3> QED BY <3>2, PrepTypes
    <2> QED BY <2>1, <2>2 DEF ThreadsAtTasks
  <1>5. <<thr[d].i, thr[d].k>> \in Uses
    BY <1>3, <1>4, UsePairs
  <1>6. TileOf(<<thr[d].i, thr[d].k>>) \in Tiles
    BY <1>5, UseTypes
  <1> QED BY <1>1, <1>2, <1>3, <1>4, <1>5, <1>6 DEF Tile, Mode, Param, TileOf, ModeOf, DevOf

\* The same sources, for the same posts.
LEMMA FrameSource ==
    ASSUME Types, ThreadsAtTasks, Apart, Kept, SourceStays,
           \A d \in Devices : thr'[d].pc = "post" => thr'[d] = thr[d],
           valid' = valid, xfer' = xfer
    PROVE  SourceStays'
  <1>1. ASSUME NEW d \in Devices, thr'[d].pc = "post"
        PROVE  thr'[d].src \in valid'[Tile(d)'] \cup xfer'[Tile(d)']
    <2>1. thr[d].pc = "post" /\ thr[d].i \in DOMAIN tasks
      BY <1>1, PostTile
    <2>2. Tile(d)' = Tile(d)
      BY <1>1, <2>1 DEF Tile, Param, Params, Kept
    <2> QED BY <1>1, <2>1, <2>2 DEF SourceStays
  <1> QED BY <1>1 DEF SourceStays

\* The same victims, in the same lists.
LEMMA FrameVictim ==
    ASSUME Types, VictimStays,
           \A e \in Devices : thr'[e].pc = "unset" =>
               /\ thr'[e] = thr[e] /\ ro'[e] = ro[e] /\ rw'[e] = rw[e]
               /\ \A u \in Tiles : pin'[u][e] = pin[u][e]
    PROVE  VictimStays'
  <1> SUFFICES ASSUME NEW e \in Devices, thr'[e].pc = "unset"
               PROVE  LET list == IF thr[e].readonly THEN ro[e] ELSE rw[e]
                      IN  thr[e].victim \in 1..Len(list) /\ pin'[list[thr[e].victim]][e] = 0
    BY DEF VictimStays
  <1>1. PICK list : list = IF thr[e].readonly THEN ro[e] ELSE rw[e]
    BY Zenon
  <1>2. thr[e].victim \in 1..Len(list) /\ pin[list[thr[e].victim]][e] = 0
    BY <1>1 DEF VictimStays
  <1>3. list[thr[e].victim] \in Tiles
    <2>1. list \in Seq(Tiles)
      BY <1>1 DEF Types
    <2> QED BY <1>2, <2>1, ElementOfSeq
  <1> QED BY <1>1, <1>2, <1>3

\* The same rw lists and the same valid replicas.
LEMMA FrameDirty ==
    ASSUME Types, Kept, DirtyListed, Listed' = Listed, rw' = rw, valid' = valid,
           mishaps' = mishaps
    PROVE  DirtyListed'
  <1>1. \A t : Dirtying(t)' = Dirtying(t) /\ \A x \in Dirtying(t) : DevOf(x)' = DevOf(x)
    BY SameDirtying
  <1> QED BY <1>1 DEF DirtyListed

-----------------------------------------------------------------------------
(* Steps of the preparation.                                               *)

\* Where the use in preparation is.
LEMMA AtBehind ==
    ASSUME Types, ThreadsAtTasks, NEW d \in Devices, Prep(d).pc # "idle"
    PROVE  /\ \A pcs : Behind(At(d), pcs) <=> Prep(d).pc \in pcs
           /\ At(d) \in Pinned <=> Prep(d).pc \in {"alloc", "unset", "fetch", "touch"}
           /\ At(d) \in Allocated <=> Prep(d).pc \in {"fetch", "touch"}
           /\ At(d) \notin Listed
  <1>1. At(d)[1] = Prep(d).i /\ At(d)[2] = Prep(d).k /\ DevOf(At(d)) = d /\ At(d) \in Uses
        /\ tasks[Prep(d).i].st = "prep" /\ Prep(d).k \in Nat
    BY PrepTypes
  <1>2. ~ (Prep(d).k < Prep(d).k)
    BY <1>1
  <1>3. \A pcs : Behind(At(d), pcs) <=> Prep(d).pc \in pcs
    BY <1>1, <1>2 DEF Behind
  <1> QED BY <1>1, <1>3 DEF Pinned, Allocated, Listed

\* A thread that posts no transfer, before and after a step of its own.
LEMMA SamePosting ==
    ASSUME Types, Kept, NEW d \in Devices,
           \A e \in Devices : e # d => thr'[e] = thr[e],
           thr[d].pc # "post", thr'[d].pc # "post"
    PROVE  \A x \in Uses : Posting(x)' <=> Posting(x)
  <1> TAKE x \in Uses
  <1>1. DevOf(x)' = DevOf(x) /\ DevOf(x) \in Devices
    BY UseKept, UsePairs, TaskTypes DEF DevOf, Task
  <1> QED BY <1>1 DEF Posting

\* The threads after a step of a preparation that stays with its use.
LEMMA ThreadsKept ==
    ASSUME Types, ThreadsAtTasks, Kept, NEW d \in Devices, DOMAIN tasks' = DOMAIN tasks,
           \A i \in DOMAIN tasks : tasks'[i].st = tasks[i].st,
           \A e \in Devices : e # d => thr'[e] = thr[e],
           Prep(d).pc # "idle", Prep(d)'.pc # "idle",
           Prep(d)'.i = Prep(d).i, Prep(d)'.k = Prep(d).k,
           \A i \in DOMAIN tasks : tasks[i].dev = d => tasks[i].st # "running",
           \A i \in DOMAIN tasks : tasks[i].st = "running" => tasks'[i].wc = tasks[i].wc,
           thr'[d].pc = "post" =>
               /\ thr'[d].dst = d
               /\ Prep(d)'.pc = "touch" /\ Prep(d)'.i = thr'[d].i /\ Prep(d)'.k = thr'[d].k
               /\ Reads(Mode(d)')
    PROVE  ThreadsAtTasks'
  <1>1. \A e \in Devices : e # d => Prep(e)' = Prep(e)
    BY DEF Prep
  <1>2. \A i \in DOMAIN tasks : tasks'[i].dev = tasks[i].dev /\ tasks'[i].shape = tasks[i].shape
    BY DEF Kept
  <1>3. ASSUME NEW e \in Devices, Prep(e)'.pc # "idle"
        PROVE  /\ Prep(e)'.i \in DOMAIN tasks' /\ tasks'[Prep(e)'.i].dev = e
               /\ tasks'[Prep(e)'.i].st = "prep"
               /\ Prep(e)'.k \in DOMAIN tasks'[Prep(e)'.i].shape
    <2>1. Prep(e).pc # "idle" /\ Prep(e)'.i = Prep(e).i /\ Prep(e)'.k = Prep(e).k
      BY <1>1, <1>3
    <2> QED BY <1>2, <2>1, PrepTypes DEF Params
  <1>4. ASSUME NEW e \in Devices, thr'[e].pc = "post"
        PROVE  \/ /\ thr'[e].dst = e
                  /\ Prep(e)'.pc = "touch" /\ Prep(e)'.i = thr'[e].i /\ Prep(e)'.k = thr'[e].k
                  /\ Reads(Mode(e)')
               \/ /\ thr'[e].dst = Host /\ thr'[e].k = 1 /\ Prep(e)'.pc \in {"idle", "alloc"}
                  /\ thr'[e].i \in DOMAIN tasks' /\ tasks'[thr'[e].i].dev = e
                  /\ tasks'[thr'[e].i].st = "running"
    <2>1. CASE e = d
      BY <1>4, <2>1
    <2>2. CASE e # d
      <3>1. thr'[e] = thr[e] /\ Prep(e)' = Prep(e)
        BY <1>1, <2>2
      <3>2. CASE thr[e].dst = Host
        <4>1. /\ thr[e].k = 1 /\ Prep(e).pc \in {"idle", "alloc"}
              /\ thr[e].i \in DOMAIN tasks /\ tasks[thr[e].i].dev = e
              /\ tasks[thr[e].i].st = "running"
          BY <1>4, <3>1, <3>2, Places DEF ThreadsAtTasks
        <4> QED BY <1>2, <3>1, <3>2, <4>1
      <3>3. CASE thr[e].dst # Host
        <4>1. /\ thr[e].dst = e /\ Prep(e).pc = "touch" /\ Prep(e).i = thr[e].i
              /\ Prep(e).k = thr[e].k /\ Reads(Mode(e))
          BY <1>4, <3>1, <3>3 DEF ThreadsAtTasks
        <4>2. thr[e].i \in DOMAIN tasks
          BY <4>1, PrepTypes
        <4>3. Mode(e)' = Mode(e)
          BY <1>2, <3>1, <4>2 DEF Mode, Param, Params
        <4> QED BY <3>1, <4>1, <4>3
      <3> QED BY <3>2, <3>3
    <2> QED BY <2>1, <2>2
  <1>5. ASSUME NEW i \in DOMAIN tasks', tasks'[i].st = "prep"
        PROVE  \E e \in Devices : tasks'[i].dev = e /\ Prep(e)'.pc # "idle" /\ Prep(e)'.i = i
    <2>1. i \in DOMAIN tasks /\ tasks[i].st = "prep" /\ tasks[i].dev \in Devices
      BY <1>5, TaskTypes DEF Task
    <2>2. Prep(tasks[i].dev).pc # "idle" /\ Prep(tasks[i].dev).i = i
      BY <2>1 DEF ThreadsAtTasks
    <2>3. CASE tasks[i].dev = d
      BY <1>2, <2>1, <2>2, <2>3
    <2>4. CASE tasks[i].dev # d
      BY <1>1, <1>2, <2>1, <2>2, <2>4
    <2> QED BY <2>3, <2>4
  <1>6. ASSUME NEW i \in DOMAIN tasks', tasks'[i].st = "running"
        PROVE  /\ thr'[tasks'[i].dev].pc = "post" /\ thr'[tasks'[i].dev].dst = Host
               /\ thr'[tasks'[i].dev].i = i
               /\ tasks'[i].wc = 0 /\ IsWriteBack(i)'
    <2>1. i \in DOMAIN tasks /\ tasks[i].st = "running" /\ tasks[i].dev \in Devices
      BY <1>6, TaskTypes DEF Task
    <2>2. /\ thr[tasks[i].dev].pc = "post" /\ thr[tasks[i].dev].dst = Host
          /\ thr[tasks[i].dev].i = i /\ tasks[i].wc = 0 /\ IsWriteBack(i)
      BY <2>1 DEF ThreadsAtTasks
    <2>3. tasks'[i].dev = tasks[i].dev /\ thr'[tasks[i].dev] = thr[tasks[i].dev]
      BY <1>2, <2>1
    <2>4. IsWriteBack(i)' <=> IsWriteBack(i)
      BY <1>2, <2>1 DEF IsWriteBack, Params
    <2> QED BY <2>1, <2>2, <2>3, <2>4
  <1>7. \A e \in Devices : Prep(e)'.pc # "idle" =>
            /\ Prep(e)'.i \in DOMAIN tasks' /\ tasks'[Prep(e)'.i].dev = e
            /\ tasks'[Prep(e)'.i].st = "prep"
            /\ Prep(e)'.k \in DOMAIN Params(Prep(e).i)'
    BY <1>3 DEF Params
  <1>8. \A i \in DOMAIN tasks' : tasks'[i].st = "prep" =>
            Prep(tasks[i].dev)'.pc # "idle" /\ Prep(tasks[i].dev)'.i = i
    BY <1>5 DEF Prep
  <1> QED BY <1>4, <1>6, <1>7, <1>8 DEF ThreadsAtTasks

\* A step within the preparation of one use.
WithinUse(d) ==
    /\ tasks' = tasks
    /\ thr[d].pc \in {"acquire", "alloc", "unset", "fetch", "touch"}
    /\ thr'[d].pc \in {"acquire", "alloc", "unset", "fetch", "touch"}
    /\ thr'[d].i = thr[d].i /\ thr'[d].k = thr[d].k
    /\ \A e \in Devices : e # d => thr'[e] = thr[e]

\* How such a step moves the use of the thread between the sets, and no other use.
LEMMA WithinUseKeeps ==
    ASSUME Types, ThreadsAtTasks, Apart, NEW d \in Devices, WithinUse(d)
    PROVE  /\ Kept /\ ThreadsAtTasks'
           /\ Live' = Live /\ Uses' = Uses /\ \A t : Written(t)' <=> Written(t)
           /\ Pinned' = IF thr'[d].pc = "acquire" THEN Pinned \ {At(d)}
                        ELSE Pinned \cup {At(d)}
           /\ Allocated' = IF thr'[d].pc \in {"fetch", "touch"} THEN Allocated \cup {At(d)}
                           ELSE Allocated \ {At(d)}
           /\ Asked' = IF thr'[d].pc = "touch" THEN Asked \cup {At(d)} ELSE Asked \ {At(d)}
           /\ Listed' = Listed
           /\ \A x \in Uses : Posting(x)' <=> Posting(x)
  <1>1. Kept
    BY DEF Kept, WithinUse
  <1>2. \A e \in Devices : e # d => Prep(e)' = Prep(e)
    BY DEF Prep, WithinUse
  <1>3. Prep(d) = thr[d] /\ Prep(d)' = thr'[d] /\ Prep(d).pc # "idle" /\ At(d) \in Uses
        /\ At(d) = <<thr[d].i, thr[d].k>>
    BY Here DEF Prep, WithinUse
  <1>4. Prep(d)'.i = Prep(d).i /\ Prep(d)'.k = Prep(d).k /\ Prep(d)'.pc = thr'[d].pc
    BY <1>3 DEF WithinUse
  <1>5. \A x \in Uses : Posting(x)' <=> Posting(x)
    BY <1>1, SamePosting DEF WithinUse
  <1>6. DOMAIN tasks' = DOMAIN tasks /\ \A i \in DOMAIN tasks : tasks'[i].st = tasks[i].st
    BY DEF WithinUse
  <1>7. /\ Live' = Live /\ Uses' = Uses /\ \A t : Written(t)' <=> Written(t)
        /\ Pinned' = {x \in Uses : IF x = At(d) THEN Prep(d)'.pc \in {"alloc", "unset", "fetch", "touch"}
                                   ELSE x \in Pinned}
        /\ Allocated' = {x \in Uses : IF x = At(d) THEN Prep(d)'.pc \in {"fetch", "touch"}
                                      ELSE x \in Allocated}
        /\ Asked' = {x \in Uses : (IF x = At(d) THEN Prep(d)'.pc = "touch"
                                   ELSE Behind(x, {"touch"})) /\ ~ Posting(x)'}
        /\ Listed' = Listed
    BY <1>1, <1>2, <1>3, <1>4, <1>6, StayViews
  <1>8. Pinned' = IF thr'[d].pc = "acquire" THEN Pinned \ {At(d)} ELSE Pinned \cup {At(d)}
    BY <1>3, <1>4, <1>7, Subsets DEF WithinUse
  <1>9. Allocated' = IF thr'[d].pc \in {"fetch", "touch"} THEN Allocated \cup {At(d)}
                     ELSE Allocated \ {At(d)}
    BY <1>3, <1>4, <1>7, Subsets
  <1>10. Asked' = IF thr'[d].pc = "touch" THEN Asked \cup {At(d)} ELSE Asked \ {At(d)}
    <2>1. ~ Posting(At(d))
      <3>1. DevOf(At(d)) = d
        BY Here DEF WithinUse
      <3> QED BY <3>1 DEF Posting, WithinUse
    <2>2. Asked' = {x \in Uses : (IF x = At(d) THEN thr'[d].pc = "touch"
                                  ELSE Behind(x, {"touch"})) /\ ~ Posting(x)}
      BY <1>4, <1>5, <1>7
    <2>3. Asked = {x \in Uses : Behind(x, {"touch"}) /\ ~ Posting(x)}
      BY DEF Asked
    <2> HIDE DEF Asked
    <2> QED BY <1>3, <2>1, <2>2, <2>3
  <1>11. ThreadsAtTasks'
    <2>1. \A i \in DOMAIN tasks : tasks[i].dev = d => tasks[i].st # "running"
      BY DEF ThreadsAtTasks, WithinUse
    <2>2. \A e \in Devices : e # d => thr'[e] = thr[e]
      BY DEF WithinUse
    <2>3. \A i \in DOMAIN tasks : tasks'[i].wc = tasks[i].wc
      BY DEF WithinUse
    <2>4. Prep(d)'.pc # "idle" /\ thr'[d].pc # "post"
      BY <1>4 DEF WithinUse
    <2> QED BY <1>1, <1>3, <1>4, <1>6, <2>1, <2>2, <2>3, <2>4, ThreadsKept
  <1> QED BY <1>1, <1>5, <1>7, <1>8, <1>9, <1>10, <1>11

\* Acquire: one use more is pinned, and its replica has one pin more.
LEMMA AcquireKeeps ==
    ASSUME DsmInv, NEW d \in Devices, Acquire(d)
    PROVE  DsmInv'
  <1>a. PICK t : t = Tile(d)
    BY Zenon
  <1>b. PICK x : x = At(d)
    BY Zenon
  <1>0. /\ Types /\ ThreadsAtTasks /\ Apart /\ PinsExact /\ BlocksExact /\ CountersExact
        /\ CallbacksOwned /\ HostUnwritten /\ FedOnce /\ CopiesCurrent /\ ValidExact
        /\ InputsServed /\ SourceStays /\ VictimStays /\ DirtyListed
    BY DEF DsmInv
  <1>1. thr[d].pc = "acquire"
    BY DEF Acquire
  <1>2. /\ Prep(d) = thr[d] /\ Prep(d).pc # "idle" /\ x \in Uses
        /\ t = TileOf(x) /\ DevOf(x) = d /\ thr[d] \in Steps
    BY <1>0, <1>1, <1>a, <1>b, Here
  <1>3. t \in Tiles
    BY <1>0, <1>2, UseTypes
  <1>4. PICK pc \in {"alloc", "fetch"} :
            /\ thr'[d] \in Steps /\ thr'[d].pc = pc
            /\ thr'[d].i = thr[d].i /\ thr'[d].k = thr[d].k
            /\ \A e \in Devices : e # d => thr'[e] = thr[e] /\ Prep(e)' = Prep(e)
            /\ thr' \in [Devices -> {Idle} \cup Steps \cup Evictions \cup Posts]
            /\ (IF pc = "fetch" THEN blk[t][d] # 0 ELSE blk[t][d] = 0)
    <2>1. CASE blk[t][d] = 0
      <3>1. Goto(d, "alloc")
        BY <1>a, <2>1 DEF Acquire
      <3> QED BY <1>0, <1>2, <2>1, <3>1, GotoStep
    <2>2. CASE blk[t][d] # 0
      <3>1. Goto(d, "fetch")
        BY <1>a, <2>2 DEF Acquire
      <3> QED BY <1>0, <1>2, <2>2, <3>1, GotoStep
    <2> QED BY <2>1, <2>2
  <1>5. WithinUse(d)
    BY <1>1, <1>4 DEF WithinUse, Acquire
  <1>6. /\ x \notin Pinned /\ x \notin Allocated
        /\ ~ Behind(x, {"touch"})
    BY <1>0, <1>1, <1>2, <1>b, AtBehind
  <1>7. /\ Kept /\ ThreadsAtTasks'
        /\ Live' = Live /\ Uses' = Uses /\ \A u : Written(u)' <=> Written(u)
        /\ Pinned' = Pinned \cup {x}
        /\ Allocated' = IF thr'[d].pc = "fetch" THEN Allocated \cup {x} ELSE Allocated
        /\ Asked' = Asked
        /\ Listed' = Listed
        /\ \A y \in Uses : Posting(y)' <=> Posting(y)
    <2>1. /\ Kept /\ ThreadsAtTasks'
          /\ Live' = Live /\ Uses' = Uses /\ \A u : Written(u)' <=> Written(u)
          /\ Listed' = Listed
          /\ \A y \in Uses : Posting(y)' <=> Posting(y)
      BY <1>0, <1>5, WithinUseKeeps, Zenon
    <2>2. /\ Pinned' = IF thr'[d].pc = "acquire" THEN Pinned \ {x} ELSE Pinned \cup {x}
          /\ Allocated' = IF thr'[d].pc \in {"fetch", "touch"} THEN Allocated \cup {x}
                          ELSE Allocated \ {x}
          /\ Asked' = IF thr'[d].pc = "touch" THEN Asked \cup {x} ELSE Asked \ {x}
      BY <1>0, <1>5, <1>b, WithinUseKeeps, Zenon
    <2>3. x \notin Asked
      BY <1>6 DEF Asked
    <2>4. thr'[d].pc \in {"alloc", "fetch"}
      BY <1>4
    <2>5. /\ Pinned' = Pinned \cup {x}
          /\ Allocated' = IF thr'[d].pc = "fetch" THEN Allocated \cup {x} ELSE Allocated
          /\ Asked' = Asked
      BY <1>6, <2>2, <2>3, <2>4
    <2> QED BY <2>1, <2>5, Zenon
  <1>8. /\ cap' = cap /\ blk' = blk /\ mem' = mem /\ valid' = valid /\ xfer' = xfer
        /\ cbk' = cbk /\ copies' = copies /\ ro' = ro /\ rw' = rw /\ cur' = cur
        /\ tasks' = tasks /\ mishaps' = mishaps /\ pin' = [pin EXCEPT ![t][d] = @ + 1]
    BY <1>a DEF Acquire, memVars, listVars
  <1>9. pin' \in [Tiles -> [Devices -> Int]] /\ pin'[t][d] = pin[t][d] + 1
        /\ \A u \in Tiles, e \in Devices : <<u, e>> # <<t, d>> => pin'[u][e] = pin[u][e]
    BY <1>0, <1>3, <1>8 DEF Types
  <1>10. Types'
    BY <1>0, <1>4, <1>8, <1>9 DEF Types
  <1>11. Apart'
    BY <1>0, <1>7, <1>8, FrameApart
  <1>12. PinsExact'
    <2>1. \A y \in Pinned' : TileOf(y)' = TileOf(y) /\ DevOf(y)' = DevOf(y)
      BY <1>0, <1>2, <1>7, UseKept, Subsets
    <2>2. Holders(t, d)' = Holders(t, d) \cup {x} /\ x \notin Holders(t, d)
      BY <1>2, <1>6, <1>7, <2>1 DEF Holders
    <2>3. \A u \in Tiles, e \in Devices : <<u, e>> # <<t, d>> => Holders(u, e)' = Holders(u, e)
      BY <1>2, <1>7, <2>1 DEF Holders
    <2>4. IsFiniteSet(Holders(t, d)) /\ pin[t][d] = Cardinality(Holders(t, d))
      BY <1>0, <1>3 DEF PinsExact
    <2>5. IsFiniteSet(Holders(t, d)') /\ pin'[t][d] = Cardinality(Holders(t, d)')
      BY <1>9, <2>2, <2>4, FS_AddElement
    <2> QED BY <1>0, <1>9, <2>3, <2>5 DEF PinsExact
  <1>13. BlocksExact'
    <2>2. \A e \in Devices : Prep(e)'.pc \in {"alloc", "unset"} => blk'[TileOf(At(e))'][e] = 0
      <3> SUFFICES ASSUME NEW e \in Devices, Prep(e)'.pc \in {"alloc", "unset"}
                   PROVE  blk'[TileOf(At(e))'][e] = 0
        OBVIOUS
      <3>1. CASE e = d
        <4>1. Prep(d)' = thr'[d] /\ thr'[d].pc = "alloc" /\ blk[t][d] = 0
          BY <1>4, <3>1 DEF Prep
        <4>2. TileOf(At(d))' = t
          <5>1. At(d)' = x
            BY <1>2, <1>4, <1>b, <4>1 DEF At
          <5>2. TileOf(x)' = t
            BY <1>0, <1>2, <1>7, UseKept, Zenon
          <5> QED BY <5>1, <5>2 DEF TileOf
        <4> QED BY <1>8, <3>1, <4>1, <4>2
      <3>2. CASE e # d
        <4>1. SameSearch(e)
          BY <1>4, <3>2 DEF SameSearch
        <4> QED BY <1>0, <1>7, <1>8, <4>1, SameSearchTile DEF BlocksExact
      <3> QED BY <3>1, <3>2
    <2>1. \A y \in Allocated' : blk'[TileOf(y)'][DevOf(y)'] # 0
      <3> TAKE y \in Allocated'
      <3>1. y \in Uses /\ TileOf(y)' = TileOf(y) /\ DevOf(y)' = DevOf(y)
        BY <1>0, <1>2, <1>7, UseKept, Subsets
      <3> QED BY <1>0, <1>2, <1>4, <1>7, <1>8, <3>1 DEF BlocksExact
    <2> QED BY <1>0, <1>8, <2>1, <2>2 DEF BlocksExact
  <1>14. CountersExact'
    <2>1. \A i \in Live : \A k \in DOMAIN Params(i) : Posting(<<i, k>>)' <=> Posting(<<i, k>>)
      BY <1>7, UsePairs
    <2> QED BY <1>0, <1>7, <1>8, <2>1, FrameCounters
  <1>15. CallbacksOwned'
    BY <1>0, <1>7, <1>8, FrameCallbacks
  <1>16. HostUnwritten'
    BY <1>0, <1>7, <1>8, FrameHost
  <1>17. FedOnce'
    BY <1>0, <1>8, FrameFed
  <1>18. CopiesCurrent'
    BY <1>0, <1>8, FrameCopies
  <1>19. ValidExact'
    BY <1>0, <1>7, <1>8, FrameValid
  <1>20. InputsServed'
    BY <1>0, <1>7, <1>8, FrameInputs
  <1>21. SourceStays'
    BY <1>0, <1>4, <1>7, <1>8, FrameSource
  <1>22. VictimStays'
    BY <1>0, <1>4, <1>8, <1>9, FrameVictim
  <1>23. DirtyListed'
    BY <1>0, <1>7, <1>8, FrameDirty
  <1> QED BY <1>7, <1>10, <1>11, <1>12, <1>13, <1>14, <1>15, <1>16, <1>17, <1>18, <1>19,
             <1>20, <1>21, <1>22, <1>23 DEF DsmInv

\* A replica without a block takes no part in anything.
LEMMA NoBlock ==
    ASSUME Types, BlocksExact, CallbacksOwned, CopiesCurrent,
           NEW d \in Devices, NEW t \in Tiles, blk[t][d] = 0
    PROVE  /\ d \notin valid[t] /\ d \notin xfer[t]
           /\ \A c \in copies : c.t = t => c.src # d /\ c.dst # d
           /\ \A x \in Allocated : ~ (TileOf(x) = t /\ DevOf(x) = d)
  <1>1. d \notin valid[t] /\ \A x \in Allocated : ~ (TileOf(x) = t /\ DevOf(x) = d)
    BY DEF BlocksExact
  <1>2. d \notin xfer[t]
    <2> SUFFICES ASSUME d \in xfer[t]
                 PROVE  FALSE
      OBVIOUS
    <2>1. PICK x \in Uses : <<"task", x>> \in cbk[t][d]
      BY DEF CallbacksOwned
    <2>2. d \in Nodes
      BY DsmAssumption DEF Devices, Nodes
    <2>3. x \in Asked /\ TileOf(x) = t /\ DevOf(x) = d
      BY <2>1, <2>2 DEF CallbacksOwned
    <2> QED BY <1>1, <2>3, Subsets
  <1>3. d # Host
    BY DsmAssumption DEF Host, Devices
  <1>4. \A c \in copies : c.t = t => c.src # d /\ c.dst # d
    BY <1>3 DEF CopiesCurrent
  <1> QED BY <1>1, <1>2, <1>4

\* Alloc: the replica gets a block that nobody has, and no content is touched.
LEMMA AllocKeeps ==
    ASSUME DsmInv, NEW d \in Devices, Alloc(d)
    PROVE  DsmInv'
  <1>a. PICK t : t = Tile(d)
    BY Zenon
  <1>b. PICK x : x = At(d)
    BY Zenon
  <1>c. PICK b : b = Min(FreeBlocks(d))
    BY Zenon
  <1>0. /\ Types /\ ThreadsAtTasks /\ Apart /\ PinsExact /\ BlocksExact /\ CountersExact
        /\ CallbacksOwned /\ HostUnwritten /\ FedOnce /\ CopiesCurrent /\ ValidExact
        /\ InputsServed /\ SourceStays /\ VictimStays /\ DirtyListed
    BY DEF DsmInv
  <1>1. thr[d].pc = "alloc"
    BY DEF Alloc
  <1>2. /\ Prep(d) = thr[d] /\ Prep(d).pc # "idle" /\ x \in Uses
        /\ t = TileOf(x) /\ DevOf(x) = d /\ thr[d] \in Steps
    BY <1>0, <1>1, <1>a, <1>b, Here
  <1>3. t \in Tiles /\ cap[d] > 0 /\ d # Host
    BY <1>0, <1>2, UseTypes, DsmAssumption DEF Devices, Host
  <1>4. /\ thr'[d] \in Steps /\ thr'[d].pc = "fetch"
        /\ thr'[d].i = thr[d].i /\ thr'[d].k = thr[d].k
        /\ \A e \in Devices : e # d => thr'[e] = thr[e] /\ Prep(e)' = Prep(e)
        /\ thr' \in [Devices -> {Idle} \cup Steps \cup Evictions \cup Posts]
        /\ Prep(d)' = thr'[d]
    <2>1. Goto(d, "fetch")
      BY DEF Alloc
    <2> QED BY <1>0, <1>2, <2>1, GotoStep
  <1>5. WithinUse(d)
    BY <1>1, <1>4 DEF WithinUse, Alloc
  <1>6. /\ x \in Pinned /\ x \notin Allocated /\ ~ Behind(x, {"touch"})
    BY <1>0, <1>1, <1>2, <1>b, AtBehind
  <1>7. /\ Kept /\ ThreadsAtTasks'
        /\ Live' = Live /\ Uses' = Uses /\ \A u : Written(u)' <=> Written(u)
        /\ Pinned' = Pinned
        /\ Allocated' = Allocated \cup {x}
        /\ Asked' = Asked
        /\ Listed' = Listed
        /\ \A y \in Uses : Posting(y)' <=> Posting(y)
    <2>1. x \notin Asked
      BY <1>6 DEF Asked
    <2>2. /\ Kept /\ ThreadsAtTasks'
          /\ Live' = Live /\ Uses' = Uses /\ \A u : Written(u)' <=> Written(u)
          /\ Listed' = Listed
          /\ \A y \in Uses : Posting(y)' <=> Posting(y)
      BY <1>0, <1>5, WithinUseKeeps, Zenon
    <2>3. Pinned' = Pinned \cup {x} /\ Allocated' = Allocated \cup {x} /\ Asked' = Asked \ {x}
      BY <1>0, <1>4, <1>5, <1>b, WithinUseKeeps
    <2> QED BY <1>6, <2>1, <2>2, <2>3
  <1>8. /\ cap' = cap /\ mishaps' = mishaps /\ mem' = mem /\ valid' = valid /\ xfer' = xfer /\ pin' = pin
        /\ cbk' = cbk /\ copies' = copies /\ ro' = ro /\ rw' = rw /\ cur' = cur
        /\ tasks' = tasks /\ blk' = [blk EXCEPT ![t][d] = b]
    BY <1>a, <1>c DEF Alloc, stateVars, listVars
  <1>9. b \in 1..cap[d] /\ \A u \in Tiles : blk[u][d] # b
    <2>1. FreeBlocks(d) \in SUBSET Nat /\ FreeBlocks(d) # {}
      BY DEF FreeBlocks, Alloc
    <2>2. b \in FreeBlocks(d)
      BY <1>c, <2>1, MinIn
    <2> QED BY <2>2 DEF FreeBlocks
  <1>10. blk[t][d] = 0
    BY <1>0, <1>1, <1>2, <1>b DEF BlocksExact
  <1>11. /\ d \notin valid[t] /\ d \notin xfer[t]
         /\ \A c \in copies : c.t = t => c.src # d /\ c.dst # d
         /\ \A y \in Allocated : ~ (TileOf(y) = t /\ DevOf(y) = d)
    BY <1>0, <1>3, <1>10, NoBlock
  <1>12. /\ blk' \in [Tiles -> [Nodes -> Blocks]] /\ blk'[t][d] = b
         /\ \A u \in Tiles, n \in Nodes : ~ (u = t /\ n = d) => blk'[u][n] = blk[u][n]
    <2>1. d \in Nodes /\ b \in Blocks /\ cap[d] \in Nat
      BY <1>0, <1>9, DsmAssumption DEF Types, Devices, Nodes, Blocks
    <2> QED BY <1>0, <1>3, <1>8, <2>1 DEF Types
  <1>13. Types'
    BY <1>0, <1>4, <1>8, <1>12 DEF Types
  <1>14. Apart'
    BY <1>0, <1>7, <1>8, FrameApart
  <1>15. PinsExact'
    BY <1>0, <1>7, <1>8, FramePins
  <1>16. BlocksExact'
    <2>1. \A u \in Tiles : blk'[u][Host] = u
      BY <1>0, <1>3, <1>12, Places DEF BlocksExact
    <2>2. \A e \in Devices : e \in Nodes
      BY DsmAssumption DEF Devices, Nodes
    <2>3. \A u \in Tiles, e \in Devices : blk'[u][e] \in 0..cap'[e]
      BY <1>0, <1>8, <1>9, <1>12, <2>2 DEF BlocksExact
    <2>4. \A u, v \in Tiles, e \in Devices : blk'[u][e] = blk'[v][e] /\ blk'[u][e] # 0 => u = v
      <3> TAKE u, v \in Tiles, e \in Devices
      <3>1. CASE e # d
        BY <1>0, <1>12, <2>2, <3>1 DEF BlocksExact
      <3>2. CASE e = d
        BY <1>0, <1>9, <1>12, <2>2, <3>2 DEF BlocksExact
      <3> QED BY <3>1, <3>2
    <2>5. \A y \in Allocated' : blk'[TileOf(y)'][DevOf(y)'] # 0
      <3> TAKE y \in Allocated'
      <3>1. y \in Uses /\ TileOf(y)' = TileOf(y) /\ DevOf(y)' = DevOf(y)
        BY <1>0, <1>2, <1>7, UseKept, Subsets
      <3>2. TileOf(y) \in Tiles /\ DevOf(y) \in Devices
        BY <1>0, <3>1, UseTypes
      <3> QED BY <1>0, <1>2, <1>7, <1>9, <1>12, <2>2, <3>1, <3>2 DEF BlocksExact
    <2>6. \A u \in Tiles, e \in Devices : e \in valid'[u] => blk'[u][e] # 0
      BY <1>0, <1>8, <1>11, <1>12, <2>2 DEF BlocksExact
    <2>7. ASSUME NEW e \in Devices, Prep(e)'.pc \in {"alloc", "unset"}
          PROVE  blk'[TileOf(At(e))'][e] = 0
      <3>1. e # d
        BY <1>4, <2>7
      <3>2. SameSearch(e)
        BY <1>4, <3>1 DEF SameSearch
      <3>3. Prep(e).pc \in {"alloc", "unset"} /\ TileOf(At(e))' = TileOf(At(e))
        BY <1>0, <1>7, <2>7, <3>2, SameSearchTile
      <3>4. TileOf(At(e)) \in Tiles
        BY <1>0, <3>3, PrepTypes, UseTypes
      <3> QED BY <1>0, <1>12, <2>2, <3>1, <3>3, <3>4 DEF BlocksExact
    <2> QED BY <2>1, <2>3, <2>4, <2>5, <2>6, <2>7 DEF BlocksExact
  <1>17. CountersExact'
    <2>1. \A i \in Live : \A k \in DOMAIN Params(i) : Posting(<<i, k>>)' <=> Posting(<<i, k>>)
      BY <1>7, UsePairs
    <2> QED BY <1>0, <1>7, <1>8, <2>1, FrameCounters
  <1>18. CallbacksOwned'
    BY <1>0, <1>7, <1>8, FrameCallbacks
  <1>19. HostUnwritten'
    BY <1>0, <1>7, <1>8, FrameHost
  <1>20. FedOnce'
    BY <1>0, <1>8, FrameFed
  <1>21. CopiesCurrent'
    <2>1. \A c \in copies : c.t \in Tiles /\ c.src \in Nodes /\ c.dst \in Nodes
      BY <1>0 DEF Types, Transfers
    <2>2. \A c \in copies : blk'[c.t][c.src] = blk[c.t][c.src] /\ blk'[c.t][c.dst] = blk[c.t][c.dst]
      BY <1>11, <1>12, <2>1
    <2> QED BY <1>0, <1>8, <2>2 DEF CopiesCurrent
  <1>22. ValidExact'
    <2>1. \A u : Dirtying(u)' = Dirtying(u) /\ \A y \in Dirtying(u) : DevOf(y)' = DevOf(y)
      BY <1>0, <1>7, SameDirtying
    <2>2. \A u \in Tiles : \A n \in valid[u] : blk'[u][n] = blk[u][n]
      BY <1>0, <1>11, <1>12 DEF Types
    <2>3. \A u \in Tiles : \A y \in Dirtying(u)' : valid'[u] = {DevOf(y)'}
      BY <1>0, <1>8, <2>1 DEF ValidExact
    <2>4. \A u \in Tiles : Dirtying(u)' = {} =>
              valid'[u] # {} /\ valid'[u] \cap xfer'[u] = {}
      BY <1>0, <1>8, <2>1 DEF ValidExact
    <2>5. ASSUME NEW u \in Tiles, Dirtying(u)' = {}, NEW n \in valid'[u]
          PROVE  mem'[n][blk'[u][n]] = <<u, cur'[u]>>
      <3>1. Dirtying(u) = {} /\ n \in valid[u] /\ blk'[u][n] = blk[u][n]
        BY <1>8, <2>1, <2>2, <2>5
      <3>2. mem[n][blk[u][n]] = <<u, cur[u]>>
        BY <1>0, <3>1 DEF ValidExact
      <3> QED BY <1>8, <3>1, <3>2
    <2> QED BY <2>3, <2>4, <2>5 DEF ValidExact
  <1>23. InputsServed'
    <2>1. ASSUME NEW y \in Asked
          PROVE  /\ TileOf(y)' = TileOf(y) /\ DevOf(y)' = DevOf(y) /\ ModeOf(y)' = ModeOf(y)
                 /\ blk'[TileOf(y)][DevOf(y)] = blk[TileOf(y)][DevOf(y)]
      <3>1. y \in Uses /\ y \in Allocated
        BY Subsets
      <3>2. TileOf(y) \in Tiles /\ DevOf(y) \in Devices /\ DevOf(y) \in Nodes
        BY <1>0, <3>1, UseTypes, DsmAssumption DEF Devices, Nodes
      <3> QED BY <1>0, <1>7, <1>11, <1>12, <3>1, <3>2, UseKept
    <2> QED BY <1>0, <1>7, <1>8, <2>1 DEF InputsServed
  <1>24. SourceStays'
    BY <1>0, <1>4, <1>7, <1>8, FrameSource
  <1>25. VictimStays'
    BY <1>0, <1>4, <1>8, FrameVictim
  <1>26. DirtyListed'
    BY <1>0, <1>7, <1>8, FrameDirty
  <1> QED BY <1>7, <1>13, <1>14, <1>15, <1>16, <1>17, <1>18, <1>19, <1>20, <1>21, <1>22,
             <1>23, <1>24, <1>25, <1>26 DEF DsmInv

\* A step that changes nothing but the point of a preparation.
ThreadOnly ==
    /\ mishaps' = mishaps
    /\ cap' = cap /\ blk' = blk /\ mem' = mem /\ valid' = valid /\ xfer' = xfer /\ pin' = pin
    /\ cbk' = cbk /\ copies' = copies /\ ro' = ro /\ rw' = rw /\ cur' = cur
    /\ tasks' = tasks

\* Evict: a victim is chosen that can be evicted.
LEMMA EvictKeeps ==
    ASSUME DsmInv, NEW d \in Devices, Evict(d)
    PROVE  DsmInv'
  <1>a. PICK t : t = Tile(d)
    BY Zenon
  <1>b. PICK x : x = At(d)
    BY Zenon
  <1>0. /\ Types /\ ThreadsAtTasks /\ Apart /\ PinsExact /\ BlocksExact /\ CountersExact
        /\ CallbacksOwned /\ HostUnwritten /\ FedOnce /\ CopiesCurrent /\ ValidExact
        /\ InputsServed /\ SourceStays /\ VictimStays /\ DirtyListed
    BY DEF DsmInv
  <1>1. thr[d].pc = "alloc" /\ FreeBlocks(d) = {}
    BY DEF Evict
  <1>2. /\ Prep(d) = thr[d] /\ Prep(d).pc # "idle" /\ x \in Uses
        /\ t = TileOf(x) /\ DevOf(x) = d /\ thr[d] \in Steps
    BY <1>0, <1>1, <1>a, <1>b, Here
  <1>3. t \in Tiles /\ cap[d] > 0
    BY <1>0, <1>2, UseTypes
  <1>4. PICK j \in Nat, r \in BOOLEAN :
            /\ thr' = [thr EXCEPT ![d] = [pc |-> "unset", i |-> thr[d].i, k |-> thr[d].k,
                                          left |-> 1, readonly |-> r, victim |-> j]]
            /\ (IF r THEN j \in Victims(d, ro[d], Len(ro[d]))
                     ELSE j \in Victims(d, rw[d], Len(rw[d])))
    <2> DEFINE inRo == Victims(d, ro[d], Len(ro[d]))
               inRw == Victims(d, rw[d], Len(rw[d]))
               r    == inRo # {}
               j    == Max(IF inRo # {} THEN inRo ELSE inRw)
    <2>1. inRo \cup inRw # {}
          /\ thr' = [thr EXCEPT ![d] =
                [pc |-> "unset", i |-> thr[d].i, k |-> thr[d].k, left |-> 1, readonly |-> r,
                 victim |-> j]]
      BY DEF Evict
    <2>2. Len(ro[d]) \in Nat /\ Len(rw[d]) \in Nat
      BY <1>0 DEF Types
    <2>3. inRo \in SUBSET (1..Len(ro[d])) /\ inRw \in SUBSET (1..Len(rw[d]))
      BY DEF Victims
    <2> HIDE DEF inRo, inRw
    <2>4. IF r THEN j \in inRo ELSE j \in inRw
      BY <2>1, <2>2, <2>3, MaxIn
    <2>5. j \in Nat /\ r \in BOOLEAN
      <3>1. r \in BOOLEAN
        OBVIOUS
      <3> HIDE DEF r, j
      <3>2. \A k \in inRo \cup inRw : k \in Nat
        BY <2>2, <2>3
      <3> QED BY <2>4, <3>1, <3>2
    <2> HIDE DEF r, j
    <2> QED BY <2>1, <2>4, <2>5 DEF inRo, inRw
  <1>5. /\ thr'[d] \in Evictions /\ thr'[d].pc = "unset" /\ thr'[d].readonly = r
        /\ thr'[d].victim = j /\ thr'[d].i = thr[d].i /\ thr'[d].k = thr[d].k
        /\ \A e \in Devices : e # d => thr'[e] = thr[e] /\ Prep(e)' = Prep(e)
        /\ thr' \in [Devices -> {Idle} \cup Steps \cup Evictions \cup Posts]
        /\ Prep(d)' = thr'[d]
    <2> DEFINE rec == [pc |-> "unset", i |-> thr[d].i, k |-> thr[d].k,
                       left |-> 1, readonly |-> r, victim |-> j]
    <2>1. rec \in Evictions /\ rec.pc = "unset" /\ rec.readonly = r /\ rec.victim = j
          /\ rec.i = thr[d].i /\ rec.k = thr[d].k
      BY <1>2 DEF Evictions, Steps
    <2>2. thr \in [Devices -> {Idle} \cup Steps \cup Evictions \cup Posts]
      BY <1>0 DEF Types
    <2> HIDE DEF rec
    <2>3. thr' = [thr EXCEPT ![d] = rec]
      BY <1>4 DEF rec
    <2>4. thr'[d] = rec /\ \A e \in Devices : e # d => thr'[e] = thr[e]
      BY <2>2, <2>3
    <2>5. thr' \in [Devices -> {Idle} \cup Steps \cup Evictions \cup Posts]
      BY <2>1, <2>2, <2>3
    <2> QED BY <2>1, <2>4, <2>5 DEF Prep
  <1>6. WithinUse(d)
    BY <1>1, <1>5 DEF WithinUse, Evict
  <1>7. /\ x \in Pinned /\ x \notin Allocated /\ ~ Behind(x, {"touch"})
    BY <1>0, <1>1, <1>2, <1>b, AtBehind
  <1>8. /\ Kept /\ ThreadsAtTasks'
        /\ Live' = Live /\ Uses' = Uses /\ \A u : Written(u)' <=> Written(u)
        /\ Pinned' = Pinned /\ Allocated' = Allocated /\ Asked' = Asked /\ Listed' = Listed
        /\ \A y \in Uses : Posting(y)' <=> Posting(y)
    <2>1. x \notin Asked
      BY <1>7 DEF Asked
    <2>2. /\ Pinned' = Pinned \cup {x} /\ Allocated' = Allocated \ {x}
          /\ Asked' = Asked \ {x} /\ Listed' = Listed
      BY <1>0, <1>5, <1>6, <1>b, WithinUseKeeps
    <2> QED BY <1>0, <1>6, <1>7, <2>1, <2>2, WithinUseKeeps
  <1>9. ThreadOnly
    BY DEF Evict, ThreadOnly, memVars, stateVars, listVars
  <1>10. Types'
    BY <1>0, <1>5, <1>9 DEF Types, ThreadOnly
  <1>11. BlocksExact'
    <2>1. \A e \in Devices : SameSearch(e)
      BY <1>1, <1>2, <1>5 DEF SameSearch
    <2> QED BY <1>0, <1>8, <1>9, <2>1, FrameBlocks DEF ThreadOnly
  <1>12. CountersExact'
    <2>1. \A i \in Live : \A k \in DOMAIN Params(i) : Posting(<<i, k>>)' <=> Posting(<<i, k>>)
      BY <1>8, UsePairs
    <2> QED BY <1>0, <1>8, <1>9, <2>1, FrameCounters DEF ThreadOnly
  <1>13. SourceStays'
    BY <1>0, <1>5, <1>8, <1>9, FrameSource DEF ThreadOnly
  <1>14. VictimStays'
    <2> SUFFICES ASSUME NEW e \in Devices, thr'[e].pc = "unset"
                 PROVE  LET list == IF thr'[e].readonly THEN ro'[e] ELSE rw'[e]
                        IN  thr'[e].victim \in 1..Len(list) /\ pin'[list[thr'[e].victim]][e] = 0
      BY DEF VictimStays
    <2>1. CASE e = d
      <3>1. PICK list : list = IF r THEN ro[d] ELSE rw[d]
        BY Zenon
      <3>2. j \in 1..Len(list) /\ Evictable(d, list[j])
        BY <1>4, <3>1 DEF Victims
      <3> QED BY <1>5, <1>9, <2>1, <3>1, <3>2 DEF Evictable, ThreadOnly
    <2>2. CASE e # d
      <3>1. thr'[e] = thr[e] /\ thr[e].pc = "unset"
        BY <1>5, <2>2
      <3> QED BY <1>0, <1>9, <3>1 DEF VictimStays, ThreadOnly
    <2> QED BY <2>1, <2>2
  <1>15. Apart' /\ PinsExact' /\ CallbacksOwned' /\ HostUnwritten' /\ FedOnce'
    BY <1>0, <1>8, <1>9, FrameApart, FramePins, FrameCallbacks, FrameHost, FrameFed
       DEF ThreadOnly
  <1>16. CopiesCurrent' /\ ValidExact' /\ InputsServed' /\ DirtyListed'
    BY <1>0, <1>8, <1>9, FrameCopies, FrameValid, FrameInputs, FrameDirty DEF ThreadOnly
  <1> QED BY <1>8, <1>10, <1>11, <1>12, <1>13, <1>14, <1>15, <1>16 DEF DsmInv

\* A replica that is not pinned has no use and no transfer.
LEMMA Unpinned ==
    ASSUME Types, PinsExact, CallbacksOwned, NEW d \in Devices, NEW t \in Tiles, pin[t][d] = 0
    PROVE  /\ \A x \in Pinned : ~ (TileOf(x) = t /\ DevOf(x) = d)
           /\ d \notin xfer[t]
  <1>1. Holders(t, d) = {}
    <2>1. IsFiniteSet(Holders(t, d)) /\ Cardinality(Holders(t, d)) = 0
      BY DEF PinsExact
    <2> QED BY <2>1, FS_EmptySet
  <1>2. \A x \in Pinned : ~ (TileOf(x) = t /\ DevOf(x) = d)
    BY <1>1 DEF Holders
  <1>3. d \notin xfer[t]
    <2> SUFFICES ASSUME d \in xfer[t]
                 PROVE  FALSE
      OBVIOUS
    <2>1. PICK x \in Uses : <<"task", x>> \in cbk[t][d]
      BY DEF CallbacksOwned
    <2>2. x \in Asked /\ TileOf(x) = t /\ DevOf(x) = d
      BY <2>1, Places DEF CallbacksOwned
    <2> QED BY <1>2, <2>2, Subsets
  <1> QED BY <1>2, <1>3

\* Unset: the victim, which can still be evicted, loses its block; others still have the tile.
LEMMA UnsetKeeps ==
    ASSUME DsmInv, NEW d \in Devices, Unset(d), Unharmed'
    PROVE  DsmInv'
  <1>b. PICK x : x = At(d)
    BY Zenon
  <1>c. PICK j : j = thr[d].victim
    BY Zenon
  <1>d. PICK r : r = thr[d].readonly
    BY Zenon
  <1>e. PICK list : list = IF r THEN ro[d] ELSE rw[d]
    BY Zenon
  <1>a. PICK t : t = list[j]
    BY Zenon
  <1>f. PICK next : next = Victims(d, list, j - 1)
    BY Zenon
  <1>0. /\ Types /\ ThreadsAtTasks /\ Apart /\ PinsExact /\ BlocksExact /\ CountersExact
        /\ CallbacksOwned /\ HostUnwritten /\ FedOnce /\ CopiesCurrent /\ ValidExact
        /\ InputsServed /\ SourceStays /\ VictimStays /\ DirtyListed
    BY DEF DsmInv
  <1>1. thr[d].pc = "unset"
    BY DEF Unset
  <1>2. /\ Prep(d) = thr[d] /\ Prep(d).pc # "idle" /\ x \in Uses
        /\ DevOf(x) = d /\ thr[d] \in Evictions /\ x = <<thr[d].i, thr[d].k>>
    BY <1>0, <1>1, <1>b, Here
  <1>3. /\ j \in 1..Len(list) /\ list \in Seq(Tiles) /\ t \in Tiles
        /\ pin[t][d] = 0 /\ r \in BOOLEAN
    <2>1. list \in Seq(Tiles) /\ r \in BOOLEAN
      BY <1>0, <1>2, <1>d, <1>e DEF Types, Evictions
    <2>2. j \in 1..Len(list) /\ pin[list[j]][d] = 0
      BY <1>0, <1>1, <1>c, <1>d, <1>e DEF VictimStays
    <2>3. t \in Tiles
      BY <1>a, <2>1, <2>2, ElementOfSeq, Zenon
    <2> QED BY <1>a, <2>1, <2>2, <2>3
  <1>4. /\ valid' = [valid EXCEPT ![t] = @ \ {d}]
        /\ blk' = [blk EXCEPT ![t][d] = 0]
        /\ IF r THEN ro' = [ro EXCEPT ![d] = RemoveAt(@, j)] /\ rw' = rw
                ELSE rw' = [rw EXCEPT ![d] = RemoveAt(@, j)] /\ ro' = ro
        /\ thr' = [thr EXCEPT ![d] =
              IF thr[d].left > 0 /\ next # {}
                 THEN [thr[d] EXCEPT !.left = 0, !.victim = Max(next)]
                 ELSE [pc |-> "alloc", i |-> thr[d].i, k |-> thr[d].k]]
        /\ cap' = cap /\ mem' = mem /\ xfer' = xfer /\ pin' = pin /\ cbk' = cbk
        /\ copies' = copies /\ cur' = cur /\ tasks' = tasks
    BY <1>a, <1>c, <1>d, <1>e, <1>f DEF Unset
  <1>5. next \subseteq 1..(j - 1) /\ j - 1 \in Nat /\ (next # {} => Max(next) \in next)
    <2>1. next \subseteq 1..(j - 1) /\ j - 1 \in Nat
      BY <1>3, <1>f DEF Victims
    <2> QED BY <2>1, MaxIn
  <1>6. /\ thr'[d] \in Steps \cup Evictions
        /\ thr'[d].pc \in {"alloc", "unset"}
        /\ thr'[d].pc = "unset" => /\ thr'[d].readonly = r /\ thr'[d].victim \in next
        /\ thr'[d].i = thr[d].i /\ thr'[d].k = thr[d].k
        /\ \A e \in Devices : e # d => thr'[e] = thr[e] /\ Prep(e)' = Prep(e)
        /\ thr' \in [Devices -> {Idle} \cup Steps \cup Evictions \cup Posts]
        /\ Prep(d)' = thr'[d]
    <2>a. PICK rec : rec = IF thr[d].left > 0 /\ next # {}
                           THEN [thr[d] EXCEPT !.left = 0, !.victim = Max(next)]
                           ELSE [pc |-> "alloc", i |-> thr[d].i, k |-> thr[d].k]
      OBVIOUS
    <2>1. /\ rec \in Steps \cup Evictions /\ rec.pc \in {"alloc", "unset"}
          /\ rec.i = thr[d].i /\ rec.k = thr[d].k
          /\ rec.pc = "unset" => rec.readonly = r /\ rec.victim \in next
      <3>1. CASE thr[d].left > 0 /\ next # {}
        <4>1. PICK m : m = Max(next)
          BY Zenon
        <4>2. m \in next /\ m \in Nat
          <5>1. m \in next
            BY <1>5, <3>1, <4>1
          <5>2. \A n \in 1..(j - 1) : n \in Nat
            BY <1>5
          <5> QED BY <1>5, <5>1, <5>2
        <4>3. rec = [thr[d] EXCEPT !.left = 0, !.victim = m]
          BY <2>a, <3>1, <4>1
        <4> QED BY <1>1, <1>2, <1>d, <4>2, <4>3 DEF Evictions
      <3>2. CASE ~ (thr[d].left > 0 /\ next # {})
        <4>1. rec = [pc |-> "alloc", i |-> thr[d].i, k |-> thr[d].k]
          BY <2>a, <3>2
        <4>2. thr[d].i \in Nat /\ thr[d].k \in Nat
          BY <1>2 DEF Evictions
        <4> QED BY <4>1, <4>2 DEF Steps
      <3> QED BY <3>1, <3>2
    <2>2. thr \in [Devices -> {Idle} \cup Steps \cup Evictions \cup Posts]
      BY <1>0 DEF Types
    <2>3. thr' = [thr EXCEPT ![d] = rec]
      BY <1>4, <2>a
    <2>4. thr'[d] = rec /\ \A e \in Devices : e # d => thr'[e] = thr[e]
      BY <2>2, <2>3
    <2>5. thr' \in [Devices -> {Idle} \cup Steps \cup Evictions \cup Posts]
      BY <2>1, <2>2, <2>3
    <2> QED BY <2>1, <2>4, <2>5 DEF Prep
  <1>7. WithinUse(d)
    BY <1>1, <1>4, <1>6 DEF WithinUse
  <1>8. /\ x \in Pinned /\ x \notin Allocated /\ x \notin Asked
    <2>1. x \in Pinned /\ x \notin Allocated /\ ~ Behind(x, {"touch"})
      BY <1>0, <1>1, <1>2, <1>b, AtBehind
    <2> QED BY <2>1 DEF Asked
  <1>9. /\ Kept /\ ThreadsAtTasks'
        /\ Live' = Live /\ Uses' = Uses /\ \A u : Written(u)' <=> Written(u)
        /\ Pinned' = Pinned /\ Allocated' = Allocated /\ Asked' = Asked /\ Listed' = Listed
        /\ \A y \in Uses : Posting(y)' <=> Posting(y)
    <2>1. /\ Pinned' = Pinned \cup {x} /\ Allocated' = Allocated \ {x}
          /\ Asked' = Asked \ {x} /\ Listed' = Listed
      BY <1>0, <1>6, <1>7, <1>b, WithinUseKeeps
    <2> QED BY <1>0, <1>7, <1>8, <2>1, WithinUseKeeps
  <1>10. /\ ~ DropsSource(d, t) /\ valid[t] \ {d} # {}
         /\ "unlisted" \notin mishaps' => ~ DropsDirty(d, t) /\ "unlisted" \notin mishaps
    <2>1. mishaps' = mishaps \cup (IF DropsSource(d, t) THEN {"source"} ELSE {})
                             \cup (IF DropsLast(d, t) THEN {"last"} ELSE {})
                             \cup (IF DropsDirty(d, t) THEN {"unlisted"} ELSE {})
      BY <1>a, <1>c, <1>d, <1>e DEF Unset
    <2>2. mishaps' \subseteq {"unlisted"}
      BY DEF Unharmed
    <2>3. ~ DropsSource(d, t) /\ ~ DropsLast(d, t)
      BY <2>1, <2>2
    <2>4. "unlisted" \notin mishaps' => ~ DropsDirty(d, t) /\ "unlisted" \notin mishaps
      BY <2>1
    <2> QED BY <2>3, <2>4 DEF DropsLast
  <1>11. /\ \A c \in copies : c.t = t => c.src # d
         /\ \A e \in Devices : e # d /\ thr[e].pc = "post" /\ Tile(e) = t => thr[e].src # d
    BY <1>10 DEF DropsSource
  <1>12. /\ \A y \in Pinned : ~ (TileOf(y) = t /\ DevOf(y) = d)
         /\ d \notin xfer[t] /\ \A y \in Dirtying(t) : DevOf(y) # d
    <2>1. /\ \A y \in Pinned : ~ (TileOf(y) = t /\ DevOf(y) = d)
          /\ d \notin xfer[t]
      BY <1>0, <1>3, Unpinned
    <2>2. \A y \in Dirtying(t) : y \in Pinned /\ TileOf(y) = t
      BY DEF Dirtying, Listed, Pinned, Behind
    <2>3. \A y \in Dirtying(t) : DevOf(y) # d
      BY <2>1, <2>2
    <2> QED BY <2>1, <2>3
  <1>13. \A c \in copies : c.t = t => c.src # d /\ c.dst # d
    BY <1>0, <1>11, <1>12 DEF FedOnce, Fed1
  <1>14. /\ blk' \in [Tiles -> [Nodes -> Blocks]] /\ blk'[t][d] = 0
         /\ \A u \in Tiles, n \in Nodes : ~ (u = t /\ n = d) => blk'[u][n] = blk[u][n]
    <2>1. d \in Nodes /\ 0 \in Blocks
      BY Places DEF Blocks
    <2> QED BY <1>0, <1>3, <1>4, <2>1 DEF Types
  <1>15. /\ valid' \in [Tiles -> SUBSET Nodes] /\ valid'[t] = valid[t] \ {d}
         /\ \A u \in Tiles : u # t => valid'[u] = valid[u]
    BY <1>0, <1>3, <1>4 DEF Types
  <1>16. /\ ro' \in [Devices -> Seq(Tiles)] /\ rw' \in [Devices -> Seq(Tiles)]
         /\ \A e \in Devices, u \in Tiles : u # t /\ u \in Range(rw[e]) => u \in Range(rw'[e])
         /\ \A e \in Devices : e # d => ro'[e] = ro[e] /\ rw'[e] = rw[e]
         /\ LET new == IF r THEN ro'[d] ELSE rw'[d]
            IN  Len(new) = Len(list) - 1 /\ \A k \in 1..(j - 1) : new[k] = list[k]
    <2>a. PICK new : new = RemoveAt(list, j)
      BY Zenon
    <2>1. /\ new \in Seq(Tiles) /\ Len(new) = Len(list) - 1
          /\ \A k \in 1..(j - 1) : new[k] = list[k]
          /\ \A u : u \in Range(list) /\ u # t => u \in Range(new)
      BY <1>3, <1>a, <2>a, RemoveAtKeeps
    <2>2. ro \in [Devices -> Seq(Tiles)] /\ rw \in [Devices -> Seq(Tiles)]
      BY <1>0 DEF Types
    <2>3. CASE r
      <3>1. ro' = [ro EXCEPT ![d] = new] /\ rw' = rw
        BY <1>4, <1>e, <2>a, <2>3
      <3> QED BY <2>1, <2>2, <2>3, <3>1
    <2>4. CASE ~ r
      <3>1. rw' = [rw EXCEPT ![d] = new] /\ ro' = ro /\ list = rw[d]
        BY <1>4, <1>e, <2>a, <2>4
      <3>2. \A e \in Devices : e # d => rw'[e] = rw[e]
        BY <2>2, <3>1
      <3>3. rw'[d] = new /\ rw' \in [Devices -> Seq(Tiles)]
        BY <2>1, <2>2, <3>1
      <3>4. \A e \in Devices, u \in Tiles : u # t /\ u \in Range(rw[e]) => u \in Range(rw'[e])
        BY <2>1, <3>1, <3>2, <3>3
      <3> QED BY <2>1, <2>2, <2>4, <3>1, <3>3, <3>4
    <2> QED BY <2>3, <2>4
  <1>17. Types'
    BY <1>0, <1>4, <1>6, <1>14, <1>15, <1>16 DEF Types
  <1>18. Apart' /\ PinsExact' /\ CallbacksOwned' /\ HostUnwritten' /\ FedOnce'
    BY <1>0, <1>4, <1>9, FrameApart, FramePins, FrameCallbacks, FrameHost, FrameFed
  <1>19. BlocksExact'
    <2>1. \A u \in Tiles : blk'[u][Host] = u
      BY <1>0, <1>3, <1>14, Places DEF BlocksExact
    <2>2. \A e \in Devices : e \in Nodes
      BY Places
    <2>3. \A u \in Tiles, e \in Devices : blk'[u][e] \in 0..cap'[e]
      <3> TAKE u \in Tiles, e \in Devices
      <3>1. blk[u][e] \in 0..cap[e] /\ 0 \in 0..cap[e]
        BY <1>0, DsmAssumption DEF BlocksExact, Types
      <3> QED BY <1>4, <1>14, <2>2, <3>1
    <2>4. \A u, v \in Tiles, e \in Devices : blk'[u][e] = blk'[v][e] /\ blk'[u][e] # 0 => u = v
      <3> TAKE u, v \in Tiles, e \in Devices
      <3>1. CASE e # d
        BY <1>0, <1>14, <2>2, <3>1 DEF BlocksExact
      <3>2. CASE e = d
        BY <1>0, <1>14, <2>2, <3>2 DEF BlocksExact
      <3> QED BY <3>1, <3>2
    <2>5. \A y \in Allocated' : blk'[TileOf(y)'][DevOf(y)'] # 0
      <3> TAKE y \in Allocated'
      <3>1. y \in Allocated /\ y \in Pinned /\ y \in Uses
        BY <1>9, Subsets
      <3>2. TileOf(y)' = TileOf(y) /\ DevOf(y)' = DevOf(y)
        BY <1>0, <1>9, <3>1, UseKept
      <3>3. TileOf(y) \in Tiles /\ DevOf(y) \in Devices /\ ~ (TileOf(y) = t /\ DevOf(y) = d)
        BY <1>0, <1>12, <3>1, UseTypes
      <3> QED BY <1>0, <1>14, <2>2, <3>1, <3>2, <3>3 DEF BlocksExact
    <2>6. \A u \in Tiles, e \in Devices : e \in valid'[u] => blk'[u][e] # 0
      <3> TAKE u \in Tiles, e \in Devices
      <3>1. CASE u = t /\ e = d
        BY <1>15, <3>1
      <3>2. CASE ~ (u = t /\ e = d)
        BY <1>0, <1>14, <1>15, <2>2, <3>2 DEF BlocksExact
      <3> QED BY <3>1, <3>2
    <2>7. ASSUME NEW e \in Devices, Prep(e)'.pc \in {"alloc", "unset"}
          PROVE  blk'[TileOf(At(e))'][e] = 0
      <3>1. SameSearch(e)
        BY <1>1, <1>2, <1>6 DEF SameSearch
      <3>2. Prep(e).pc \in {"alloc", "unset"} /\ TileOf(At(e))' = TileOf(At(e))
        BY <1>0, <1>9, <2>7, <3>1, SameSearchTile
      <3>3. TileOf(At(e)) \in Tiles
        BY <1>0, <3>2, PrepTypes, UseTypes
      <3>4. blk[TileOf(At(e))][e] = 0
        BY <1>0, <3>2 DEF BlocksExact
      <3> QED BY <1>14, <2>2, <3>2, <3>3, <3>4
    <2> QED BY <2>1, <2>3, <2>4, <2>5, <2>6, <2>7 DEF BlocksExact
  <1>20. CountersExact'
    <2>1. \A i \in Live : \A k \in DOMAIN Params(i) : Posting(<<i, k>>)' <=> Posting(<<i, k>>)
      BY <1>9, UsePairs
    <2> QED BY <1>0, <1>4, <1>9, <2>1, FrameCounters
  <1>21. CopiesCurrent'
    <2>1. \A c \in copies : c.t \in Tiles /\ c.src \in Nodes /\ c.dst \in Nodes
      BY <1>0 DEF Types, Transfers
    <2>2. \A c \in copies : blk'[c.t][c.src] = blk[c.t][c.src] /\ blk'[c.t][c.dst] = blk[c.t][c.dst]
      BY <1>13, <1>14, <2>1
    <2> QED BY <1>0, <1>4, <2>2 DEF CopiesCurrent
  <1>22. ValidExact'
    <2>1. \A u : Dirtying(u)' = Dirtying(u) /\ \A y \in Dirtying(u) : DevOf(y)' = DevOf(y)
      BY <1>0, <1>9, SameDirtying
    <2>2. \A u \in Tiles : valid'[u] \subseteq valid[u] /\ \A n \in valid'[u] : blk'[u][n] = blk[u][n]
      BY <1>14, <1>15
    <2>3. \A u \in Tiles : \A y \in Dirtying(u)' : valid'[u] = {DevOf(y)'}
      BY <1>0, <1>12, <1>15, <2>1 DEF ValidExact
    <2>4. \A u \in Tiles : Dirtying(u)' = {} => valid'[u] # {} /\ valid'[u] \cap xfer'[u] = {}
      <3> SUFFICES ASSUME NEW u \in Tiles, Dirtying(u)' = {}
                   PROVE  valid'[u] # {} /\ valid'[u] \cap xfer'[u] = {}
        OBVIOUS
      <3>1. valid[u] # {} /\ valid[u] \cap xfer[u] = {}
        BY <1>0, <2>1 DEF ValidExact
      <3> QED BY <1>4, <1>10, <1>15, <2>2, <3>1
    <2>5. ASSUME NEW u \in Tiles, Dirtying(u)' = {}, NEW n \in valid'[u]
          PROVE  mem'[n][blk'[u][n]] = <<u, cur'[u]>>
      <3>1. Dirtying(u) = {} /\ n \in valid[u] /\ blk'[u][n] = blk[u][n]
        BY <2>1, <2>2, <2>5
      <3>2. mem[n][blk[u][n]] = <<u, cur[u]>>
        BY <1>0, <3>1 DEF ValidExact
      <3> QED BY <1>4, <3>1, <3>2
    <2> QED BY <2>3, <2>4, <2>5 DEF ValidExact
  <1>23. InputsServed'
    <2>1. ASSUME NEW y \in Asked
          PROVE  /\ TileOf(y)' = TileOf(y) /\ DevOf(y)' = DevOf(y) /\ ModeOf(y)' = ModeOf(y)
                 /\ blk'[TileOf(y)][DevOf(y)] = blk[TileOf(y)][DevOf(y)]
      <3>1. y \in Uses /\ y \in Pinned
        BY Subsets
      <3>2. TileOf(y) \in Tiles /\ DevOf(y) \in Nodes
        BY <1>0, <3>1, UseTypes, Places
      <3> QED BY <1>0, <1>9, <1>12, <1>14, <3>1, <3>2, UseKept
    <2> QED BY <1>0, <1>4, <1>9, <2>1 DEF InputsServed
  <1>24. SourceStays'
    <2> SUFFICES ASSUME NEW e \in Devices, thr'[e].pc = "post"
                 PROVE  thr'[e].src \in valid'[Tile(e)'] \cup xfer'[Tile(e)']
      BY DEF SourceStays
    <2>1. e # d /\ thr'[e] = thr[e] /\ thr[e].pc = "post"
      BY <1>6
    <2>2. thr[e].i \in DOMAIN tasks /\ Tile(e) \in Tiles
      BY <1>0, <2>1, PostTile
    <2>3. Tile(e)' = Tile(e)
      BY <1>4, <2>1 DEF Tile, Param, Params
    <2>4. thr[e].src \in valid[Tile(e)] \cup xfer[Tile(e)]
      BY <1>0, <2>1 DEF SourceStays
    <2>5. Tile(e) = t => thr[e].src # d
      BY <1>11, <2>1
    <2> QED BY <1>4, <1>15, <2>1, <2>2, <2>3, <2>4, <2>5
  <1>25. VictimStays'
    <2> SUFFICES ASSUME NEW e \in Devices, thr'[e].pc = "unset"
                 PROVE  LET new == IF thr'[e].readonly THEN ro'[e] ELSE rw'[e]
                        IN  /\ thr'[e].victim \in 1..Len(new)
                            /\ pin'[new[thr'[e].victim]][e] = 0
      BY DEF VictimStays
    <2>1. CASE e # d
      <3>1. thr'[e] = thr[e] /\ ro'[e] = ro[e] /\ rw'[e] = rw[e] /\ pin' = pin
        BY <1>4, <1>6, <1>16, <2>1
      <3> QED BY <1>0, <3>1 DEF VictimStays
    <2>2. CASE e = d
      <3>1. thr'[d].readonly = r /\ thr'[d].victim \in next
        BY <1>6, <2>2
      <3>2. PICK k : k = thr'[d].victim
        BY Zenon
      <3>3. k \in 1..(j - 1) /\ pin[list[k]][d] = 0
        BY <1>5, <1>f, <3>1, <3>2 DEF Victims, Evictable
      <3>4. PICK new : new = IF r THEN ro'[d] ELSE rw'[d]
        BY Zenon
      <3>5. Len(new) = Len(list) - 1 /\ new[k] = list[k]
        BY <1>16, <3>3, <3>4
      <3>6. k \in 1..Len(new)
        BY <1>3, <3>3, <3>5
      <3> QED BY <1>4, <2>2, <3>1, <3>2, <3>3, <3>4, <3>5, <3>6
    <2> QED BY <2>1, <2>2
  <1>26. DirtyListed'
    <2> SUFFICES ASSUME "unlisted" \notin mishaps'
                 PROVE  \A u \in Tiles :
                           /\ \A y \in Dirtying(u)' : u \in Range(rw'[DevOf(y)'])
                           /\ Dirtying(u)' = {} /\ Host \notin valid'[u] =>
                                 \E e \in valid'[u] : u \in Range(rw'[e])
      BY DEF DirtyListed
    <2>0. /\ ~ DropsDirty(d, t)
          /\ \A u \in Tiles :
                /\ \A y \in Dirtying(u) : u \in Range(rw[DevOf(y)])
                /\ Dirtying(u) = {} /\ Host \notin valid[u] => \E e \in valid[u] : u \in Range(rw[e])
      BY <1>0, <1>10 DEF DirtyListed
    <2>1. \A u : Dirtying(u)' = Dirtying(u) /\ \A y \in Dirtying(u) : DevOf(y)' = DevOf(y)
      BY <1>0, <1>9, SameDirtying
    <2>2. ASSUME NEW u \in Tiles, NEW y \in Dirtying(u)
          PROVE  u \in Range(rw'[DevOf(y)])
      <3>1. DevOf(y) \in Devices /\ (u = t => DevOf(y) # d)
        <4>1. y \in Uses
          BY <2>2, Subsets DEF Dirtying
        <4> QED BY <1>0, <1>12, <2>2, <4>1, UseTypes
      <3> QED BY <1>16, <2>0, <2>2, <3>1
    <2>3. ASSUME NEW u \in Tiles, Dirtying(u) = {}, Host \notin valid'[u]
          PROVE  \E e \in valid'[u] : u \in Range(rw'[e])
      <3>1. Host \notin valid[u]
        BY <1>15, <2>3, Places
      <3>2. PICK e \in valid[u] : u \in Range(rw[e])
        BY <2>0, <2>3, <3>1
      <3>3. \A m \in valid[u] : m \in Devices
        BY <1>0, <3>1, Places DEF Types
      <3>4. CASE u # t
        BY <1>15, <1>16, <3>2, <3>3, <3>4
      <3>5. CASE u = t
        <4>1. PICK m \in valid[t] \ {d} : t \in Range(rw[m])
          BY <2>0, <3>1, <3>2, <3>5 DEF DropsDirty
        <4>2. m \in Devices /\ rw'[m] = rw[m] /\ m \in valid'[t]
          BY <1>15, <1>16, <3>3, <3>5, <4>1
        <4> QED BY <3>5, <4>1, <4>2
      <3> QED BY <3>4, <3>5
    <2> QED BY <2>1, <2>2, <2>3
  <1> QED BY <1>9, <1>17, <1>18, <1>19, <1>20, <1>21, <1>22, <1>23, <1>24, <1>25, <1>26
          DEF DsmInv

\* A tile that a use writes has no other use.
LEMMA OneUse ==
    ASSUME Types, Apart, NEW x \in Uses, NEW y \in Uses, TileOf(x) = TileOf(y), Writes(ModeOf(x))
    PROVE  y = x
  <1>1. x[1] = y[1]
    BY DEF Apart
  <1>2. /\ x = <<x[1], x[2]>> /\ y = <<y[1], y[2]>> /\ Params(x[1]) \in Shapes
        /\ x[2] \in DOMAIN Params(x[1]) /\ y[2] \in DOMAIN Params(x[1])
    BY <1>1, UseTypes
  <1>3. x[2] # y[2] => ~ Writes(Params(x[1])[x[2]][2])
    BY <1>1, <1>2, DsmAssumption DEF TileOf
  <1> QED BY <1>1, <1>2, <1>3 DEF ModeOf

\* No writer has made invalid the tile of a use in preparation.
LEMMA NotDirtied ==
    ASSUME Types, Apart, NEW x \in Uses, x \notin Listed
    PROVE  Dirtying(TileOf(x)) = {}
  BY OneUse, Subsets DEF Dirtying

\* Fetch of a tile that is valid here or not read.
LEMMA FetchStays ==
    ASSUME DsmInv, NEW d \in Devices, Fetch(d),
           ~ (Reads(Mode(d)) /\ d \notin valid[Tile(d)])
    PROVE  DsmInv'
  <1>a. PICK t : t = Tile(d)
    BY Zenon
  <1>b. PICK x : x = At(d)
    BY Zenon
  <1>0. /\ Types /\ ThreadsAtTasks /\ Apart /\ PinsExact /\ BlocksExact /\ CountersExact
        /\ CallbacksOwned /\ HostUnwritten /\ FedOnce /\ CopiesCurrent /\ ValidExact
        /\ InputsServed /\ SourceStays /\ VictimStays /\ DirtyListed
    BY DEF DsmInv
  <1>1. thr[d].pc = "fetch"
    BY DEF Fetch
  <1>2. /\ Prep(d) = thr[d] /\ Prep(d).pc # "idle" /\ x \in Uses
        /\ t = TileOf(x) /\ Mode(d) = ModeOf(x) /\ DevOf(x) = d /\ thr[d] \in Steps
    BY <1>0, <1>1, <1>a, <1>b, Here
  <1>3. t \in Tiles /\ cap[d] > 0
    BY <1>0, <1>2, UseTypes
  <1>4. Goto(d, "touch") /\ tasks' = tasks
    BY DEF Fetch
  <1>5. /\ thr'[d] \in Steps /\ thr'[d].pc = "touch"
        /\ thr'[d].i = thr[d].i /\ thr'[d].k = thr[d].k
        /\ \A e \in Devices : e # d => thr'[e] = thr[e] /\ Prep(e)' = Prep(e)
        /\ thr' \in [Devices -> {Idle} \cup Steps \cup Evictions \cup Posts]
        /\ Prep(d)' = thr'[d]
    BY <1>0, <1>2, <1>4, GotoStep
  <1>6. WithinUse(d)
    BY <1>1, <1>4, <1>5 DEF WithinUse
  <1>7. x \in Pinned /\ x \in Allocated /\ x \notin Listed
    BY <1>0, <1>1, <1>2, <1>b, AtBehind
  <1>8. /\ Kept /\ ThreadsAtTasks'
        /\ Live' = Live /\ Uses' = Uses /\ \A u : Written(u)' <=> Written(u)
        /\ Pinned' = Pinned /\ Allocated' = Allocated /\ Asked' = Asked \cup {x}
        /\ Listed' = Listed
        /\ \A y \in Uses : Posting(y)' <=> Posting(y)
    <2>1. /\ Pinned' = Pinned \cup {x} /\ Allocated' = Allocated \cup {x}
          /\ Asked' = Asked \cup {x} /\ Listed' = Listed
      BY <1>0, <1>5, <1>6, <1>b, WithinUseKeeps
    <2> QED BY <1>0, <1>6, <1>7, <2>1, WithinUseKeeps
  <1>9. ThreadOnly
    BY <1>4 DEF Fetch, ThreadOnly, memVars, stateVars, listVars
  <1>10. Types'
    BY <1>0, <1>5, <1>9 DEF Types, ThreadOnly
  <1>11. BlocksExact'
    <2>1. \A e \in Devices : SameSearch(e)
      BY <1>5 DEF SameSearch
    <2> QED BY <1>0, <1>8, <1>9, <2>1, FrameBlocks DEF ThreadOnly
  <1>12. CountersExact'
    <2>1. \A i \in Live : \A k \in DOMAIN Params(i) : Posting(<<i, k>>)' <=> Posting(<<i, k>>)
      BY <1>8, UsePairs
    <2> QED BY <1>0, <1>8, <1>9, <2>1, FrameCounters DEF ThreadOnly
  <1>13. SourceStays'
    BY <1>0, <1>5, <1>8, <1>9, FrameSource DEF ThreadOnly
  <1>14. VictimStays'
    BY <1>0, <1>5, <1>9, FrameVictim DEF ThreadOnly
  <1>15. Apart' /\ PinsExact' /\ CallbacksOwned' /\ HostUnwritten' /\ FedOnce'
    BY <1>0, <1>8, <1>9, FrameApart, FramePins, FrameCallbacks, FrameHost, FrameFed
       DEF ThreadOnly
  <1>16. CopiesCurrent' /\ ValidExact' /\ DirtyListed'
    BY <1>0, <1>8, <1>9, FrameCopies, FrameValid, FrameDirty DEF ThreadOnly
  <1>17. InputsServed'
    <2>1. \A y \in Asked \cup {x} :
              TileOf(y)' = TileOf(y) /\ DevOf(y)' = DevOf(y) /\ ModeOf(y)' = ModeOf(y)
      BY <1>0, <1>2, <1>8, UseKept, Subsets
    <2>2. Reads(ModeOf(x)) => mem[d][blk[t][d]] = <<t, cur[t]>>
      <3>1. Dirtying(t) = {}
        BY <1>0, <1>2, <1>7, NotDirtied
      <3>2. Reads(ModeOf(x)) => d \in valid[t]
        BY <1>2, <1>a
      <3> QED BY <1>0, <1>3, <3>1, <3>2 DEF ValidExact
    <2>3. \A y \in Asked \cup {x} : Reads(ModeOf(y)) =>
              \/ <<"task", y>> \in cbk[TileOf(y)][DevOf(y)]
              \/ mem[DevOf(y)][blk[TileOf(y)][DevOf(y)]] = <<TileOf(y), cur[TileOf(y)]>>
      BY <1>0, <1>2, <2>2 DEF InputsServed
    <2> QED BY <1>8, <1>9, <2>1, <2>3 DEF InputsServed, ThreadOnly
  <1> QED BY <1>8, <1>10, <1>11, <1>12, <1>13, <1>14, <1>15, <1>16, <1>17 DEF DsmInv

\* A task has finitely many callbacks.
LEMMA WaitingFinite ==
    ASSUME Types, Apart, NEW i \in Live
    PROVE  IsFiniteSet(Waiting(i)) /\ Cardinality(Waiting(i)) \in Nat
  <1>1. Params(i) \in Seq(Tiles \X Modes)
    BY DsmAssumption DEF Apart
  <1>2. DOMAIN Params(i) = 1..Len(Params(i)) /\ Len(Params(i)) \in Nat
    BY <1>1
  <1>3. IsFiniteSet(DOMAIN Params(i))
    BY <1>2, FS_Interval
  <1>4. Waiting(i) \in SUBSET DOMAIN Params(i)
    BY DEF Waiting
  <1> QED BY <1>3, <1>4, FS_Subset, FS_CardinalityType

\* Fetch of a tile that needs a transfer: the counter counts it, and a source is chosen.
LEMMA FetchAsks ==
    ASSUME DsmInv, NEW d \in Devices, Fetch(d),
           Reads(Mode(d)) /\ d \notin valid[Tile(d)]
    PROVE  DsmInv'
  <1>a. PICK t : t = Tile(d)
    BY Zenon
  <1>b. PICK x : x = At(d)
    BY Zenon
  <1>c. PICK i : i = thr[d].i
    BY Zenon
  <1>0. /\ Types /\ ThreadsAtTasks /\ Apart /\ PinsExact /\ BlocksExact /\ CountersExact
        /\ CallbacksOwned /\ HostUnwritten /\ FedOnce /\ CopiesCurrent /\ ValidExact
        /\ InputsServed /\ SourceStays /\ VictimStays /\ DirtyListed
    BY DEF DsmInv
  <1>1. thr[d].pc = "fetch"
    BY DEF Fetch
  <1>2. /\ Prep(d) = thr[d] /\ Prep(d).pc # "idle" /\ x \in Uses /\ x = <<i, thr[d].k>>
        /\ t = TileOf(x) /\ Mode(d) = ModeOf(x) /\ DevOf(x) = d /\ thr[d] \in Steps
    BY <1>0, <1>1, <1>a, <1>b, <1>c, Here
  <1>3. t \in Tiles /\ cap[d] > 0 /\ i \in Live /\ i \in DOMAIN tasks /\ x[1] = i
    BY <1>0, <1>2, UseTypes
  <1>4. PICK src \in Sources(t) :
            thr' = [thr EXCEPT ![d] = [pc |-> "post", i |-> thr[d].i, k |-> thr[d].k, src |-> src,
                                       dst |-> d, ret |-> [thr[d] EXCEPT !.pc = "touch"]]]
    BY <1>a DEF Fetch
  <1>5. tasks' = [tasks EXCEPT ![i].wc = @ + 1]
    BY <1>a, <1>c DEF Fetch
  <1>6. /\ mishaps' = mishaps
        /\ cap' = cap /\ blk' = blk /\ mem' = mem /\ valid' = valid /\ xfer' = xfer
        /\ pin' = pin /\ cbk' = cbk /\ copies' = copies /\ ro' = ro /\ rw' = rw /\ cur' = cur
    BY DEF Fetch, memVars, stateVars, listVars
  <1>7. src \in valid[t] \cup xfer[t] /\ src \in Nodes
    <2>1. x \notin Listed
      BY <1>0, <1>1, <1>2, <1>b, AtBehind
    <2>2. Dirtying(t) = {}
      BY <1>0, <1>2, <2>1, NotDirtied
    <2>3. valid[t] # {} /\ valid[t] \subseteq Nodes /\ xfer[t] \subseteq Nodes
      BY <1>0, <1>3, <2>2 DEF ValidExact, Types
    <2> QED BY <2>3 DEF Sources
  <1>8. /\ thr'[d] \in Posts /\ thr'[d].pc = "post" /\ thr'[d].dst = d /\ thr'[d].src = src
        /\ thr'[d].i = thr[d].i /\ thr'[d].k = thr[d].k
        /\ thr'[d].ret.pc = "touch" /\ thr'[d].ret.i = thr[d].i /\ thr'[d].ret.k = thr[d].k
        /\ \A e \in Devices : e # d => thr'[e] = thr[e] /\ Prep(e)' = Prep(e)
        /\ thr' \in [Devices -> {Idle} \cup Steps \cup Evictions \cup Posts]
        /\ Prep(d)' = thr'[d].ret
    <2>a. PICK ret : ret = [thr[d] EXCEPT !.pc = "touch"]
      BY Zenon
    <2>b. PICK rec : rec = [pc |-> "post", i |-> thr[d].i, k |-> thr[d].k, src |-> src,
                            dst |-> d, ret |-> ret]
      OBVIOUS
    <2>1. ret \in Steps /\ ret.pc = "touch" /\ ret.i = thr[d].i /\ ret.k = thr[d].k
      BY <1>2, <2>a DEF Steps
    <2>2. d \in Nodes
      BY Places
    <2>3. rec \in Posts
      BY <1>2, <1>7, <2>b, <2>1, <2>2 DEF Posts, Steps
    <2>4. thr \in [Devices -> {Idle} \cup Steps \cup Evictions \cup Posts]
      BY <1>0 DEF Types
    <2>5. thr' = [thr EXCEPT ![d] = rec]
      BY <1>4, <2>a, <2>b
    <2>6. thr'[d] = rec /\ \A e \in Devices : e # d => thr'[e] = thr[e]
      BY <2>4, <2>5
    <2>7. thr' \in [Devices -> {Idle} \cup Steps \cup Evictions \cup Posts]
      BY <2>3, <2>4, <2>5
    <2>8. rec.pc = "post" /\ rec.dst = d /\ rec.src = src /\ rec.i = thr[d].i
          /\ rec.k = thr[d].k /\ rec.ret = ret
      BY <2>b
    <2> QED BY <2>1, <2>3, <2>6, <2>7, <2>8 DEF Prep
  <1>9. /\ DOMAIN tasks' = DOMAIN tasks /\ tasks' \in Seq(Task)
        /\ \A j \in DOMAIN tasks : /\ tasks'[j].dev = tasks[j].dev
                                   /\ tasks'[j].shape = tasks[j].shape
                                   /\ tasks'[j].st = tasks[j].st
                                   /\ (j # i => tasks'[j].wc = tasks[j].wc)
        /\ tasks'[i].wc = tasks[i].wc + 1
    <2>1. tasks \in Seq(Task) /\ \A j \in DOMAIN tasks : tasks[j] \in Task
      BY <1>0, TaskTypes DEF Types
    <2>2. [tasks[i] EXCEPT !.wc = @ + 1] \in Task
      <3>1. tasks[i] \in Task /\ tasks[i].wc + 1 \in Int
        <4>1. tasks[i] \in Task
          BY <1>3, <2>1
        <4>2. tasks[i].wc \in Int
          BY <4>1 DEF Task
        <4> QED BY <4>1, <4>2
      <3>2. [tasks[i] EXCEPT !.wc = tasks[i].wc + 1] \in Task
        BY <3>1, TaskChange
      <3> QED BY <3>2
    <2>3. tasks' = [tasks EXCEPT ![i] = [tasks[i] EXCEPT !.wc = @ + 1]]
      BY <1>5
    <2>4. tasks' \in Seq(Task) /\ DOMAIN tasks' = DOMAIN tasks
      BY <1>3, <2>1, <2>2, <2>3
    <2>5. tasks'[i] = [tasks[i] EXCEPT !.wc = @ + 1]
          /\ \A j \in DOMAIN tasks : j # i => tasks'[j] = tasks[j]
      BY <1>3, <2>3
    <2> QED BY <1>3, <2>1, <2>4, <2>5 DEF Task
  <1>10. Kept
    BY <1>9 DEF Kept
  <1>11. ThreadsAtTasks'
    <2>1. \A j \in DOMAIN tasks : tasks[j].dev = d => tasks[j].st # "running"
      BY <1>0, <1>1 DEF ThreadsAtTasks
    <2>2. tasks[i].st # "running"
      BY <1>0, <1>2, <1>c, PrepTypes
    <2>3. Reads(Mode(d)')
      <3>1. Mode(d)' = Mode(d)
        BY <1>3, <1>8, <1>9, <1>c DEF Mode, Param, Params
      <3> QED BY <3>1
    <2>4. /\ Prep(d)'.pc # "idle" /\ Prep(d)'.i = Prep(d).i /\ Prep(d)'.k = Prep(d).k
          /\ thr'[d].dst = d
          /\ Prep(d)'.pc = "touch" /\ Prep(d)'.i = thr'[d].i /\ Prep(d)'.k = thr'[d].k
      BY <1>2, <1>8
    <2>5. \A j \in DOMAIN tasks : tasks[j].st = "running" => tasks'[j].wc = tasks[j].wc
      BY <1>9, <2>2
    <2> QED BY <1>0, <1>2, <1>8, <1>9, <1>10, <2>1, <2>3, <2>4, <2>5, ThreadsKept
  <1>12. /\ x \in Pinned /\ x \in Allocated /\ x \notin Listed
         /\ ~ Behind(x, {"touch"})
    BY <1>0, <1>1, <1>2, <1>b, AtBehind
  <1>13. \A y \in Uses : IF y = x THEN ~ Posting(y) /\ Posting(y)' ELSE Posting(y)' <=> Posting(y)
    <2> TAKE y \in Uses
    <2>1. DevOf(y)' = DevOf(y) /\ DevOf(y) \in Devices
      BY <1>0, <1>10, UseKept, UseTypes
    <2>2. CASE DevOf(y) # d
      BY <1>2, <1>8, <2>1, <2>2 DEF Posting
    <2>3. CASE DevOf(y) = d
      <3>1. ~ Posting(y)
        BY <1>1, <2>3 DEF Posting
      <3>2. Posting(y)' <=> y[1] = thr[d].i /\ y[2] = thr[d].k
        BY <1>8, <2>1, <2>3, Places DEF Posting
      <3>3. y[1] = thr[d].i /\ y[2] = thr[d].k <=> y = x
        BY <1>2, <1>c, UsePairs
      <3> QED BY <3>1, <3>2, <3>3
    <2> QED BY <2>2, <2>3
  <1>14. /\ Live' = Live /\ Uses' = Uses /\ \A u : Written(u)' <=> Written(u)
         /\ Pinned' = Pinned /\ Allocated' = Allocated /\ Asked' = Asked /\ Listed' = Listed
    <2>1. /\ Live' = Live /\ Uses' = Uses /\ \A u : Written(u)' <=> Written(u)
          /\ Pinned' = {y \in Uses : IF y = x THEN Prep(d)'.pc \in {"alloc", "unset", "fetch", "touch"}
                                     ELSE y \in Pinned}
          /\ Allocated' = {y \in Uses : IF y = x THEN Prep(d)'.pc \in {"fetch", "touch"}
                                        ELSE y \in Allocated}
          /\ Asked' = {y \in Uses : (IF y = x THEN Prep(d)'.pc = "touch"
                                     ELSE Behind(y, {"touch"})) /\ ~ Posting(y)'}
          /\ Listed' = Listed
      <3>1. Prep(d)'.i = Prep(d).i /\ Prep(d)'.k = Prep(d).k
        BY <1>2, <1>8
      <3> QED BY <1>0, <1>2, <1>8, <1>9, <1>10, <1>b, <3>1, StayViews
    <2>2. Prep(d)'.pc = "touch"
      BY <1>8
    <2>3. Pinned' = Pinned /\ Allocated' = Allocated
      BY <1>12, <2>1, <2>2, Subsets
    <2>4. Asked' = Asked
      BY <1>12, <1>13, <2>1 DEF Asked
    <2> QED BY <2>1, <2>3, <2>4
  <1>15. Types'
    BY <1>0, <1>6, <1>8, <1>9 DEF Types
  <1>16. Apart' /\ PinsExact' /\ CallbacksOwned' /\ HostUnwritten' /\ FedOnce'
    BY <1>0, <1>6, <1>10, <1>14, FrameApart, FramePins, FrameCallbacks, FrameHost, FrameFed
  <1>17. CopiesCurrent' /\ ValidExact' /\ InputsServed' /\ DirtyListed'
    BY <1>0, <1>6, <1>10, <1>14, FrameCopies, FrameValid, FrameInputs, FrameDirty
  <1>18. BlocksExact'
    <2>1. \A e \in Devices : SameSearch(e)
      BY <1>8 DEF SameSearch
    <2> QED BY <1>0, <1>6, <1>10, <1>14, <2>1, FrameBlocks
  <1>19. CountersExact'
    <2> SUFFICES ASSUME NEW j \in Live
                 PROVE  tasks'[j].wc = Cardinality(Waiting(j)') + (IF tasks'[j].st = "prep" THEN 1 ELSE 0)
                            + (IF \E k \in DOMAIN Params(j)' : Posting(<<j, k>>)' THEN 1 ELSE 0)
      BY <1>14 DEF CountersExact
    <2>1. Params(j)' = Params(j) /\ tasks'[j].dev = tasks[j].dev /\ j \in DOMAIN tasks
          /\ tasks'[j].st = tasks[j].st
      BY <1>0, <1>9, TaskTypes DEF Params
    <2>2. Waiting(j)' = Waiting(j)
      BY <1>6, <2>1 DEF Waiting
    <2>3. \A k \in DOMAIN Params(j) : <<j, k>> \in Uses
      BY UsePairs
    <2>4. tasks[j].wc = Cardinality(Waiting(j)) + (IF tasks[j].st = "prep" THEN 1 ELSE 0)
                        + (IF \E k \in DOMAIN Params(j) : Posting(<<j, k>>) THEN 1 ELSE 0)
      BY <1>0 DEF CountersExact
    <2>5. CASE j # i
      <3>1. \A k \in DOMAIN Params(j) : Posting(<<j, k>>)' <=> Posting(<<j, k>>)
        BY <1>2, <1>13, <2>3, <2>5
      <3> QED BY <1>9, <2>1, <2>2, <2>4, <2>5, <3>1
    <2>6. CASE j = i
      <3>1. thr[d].k \in DOMAIN Params(i)
        BY <1>0, <1>2, <1>c, PrepTypes
      <3>2. \E k \in DOMAIN Params(j)' : Posting(<<j, k>>)'
        BY <1>2, <1>13, <2>1, <2>6, <3>1
      <3>3. ~ \E k \in DOMAIN Params(j) : Posting(<<j, k>>)
        <4> SUFFICES ASSUME NEW k \in DOMAIN Params(j), Posting(<<j, k>>)
                     PROVE  FALSE
          OBVIOUS
        <4>1. DevOf(<<j, k>>) = d
          BY <1>2, <1>3, <2>6 DEF DevOf
        <4> QED BY <1>1, <4>1 DEF Posting
      <3>4. Cardinality(Waiting(j)) + (IF tasks[j].st = "prep" THEN 1 ELSE 0) = tasks[j].wc
            /\ tasks[j].wc \in Int
        <4>1. tasks[j].wc \in Int
          BY <1>0, <2>1, TaskTypes DEF Task
        <4>2. tasks[j].st = "prep"
          BY <1>0, <1>2, <1>c, <2>6, PrepTypes
        <4>3. IsFiniteSet(Waiting(j))
          BY <1>0, WaitingFinite
        <4>4. Cardinality(Waiting(j)) \in Nat
          BY <4>3, FS_CardinalityType
        <4> QED BY <2>4, <3>3, <4>1, <4>2, <4>4
      <3> QED BY <1>9, <2>1, <2>2, <2>6, <3>2, <3>4
    <2> QED BY <2>5, <2>6
  <1>20. SourceStays'
    <2> SUFFICES ASSUME NEW e \in Devices, thr'[e].pc = "post"
                 PROVE  thr'[e].src \in valid'[Tile(e)'] \cup xfer'[Tile(e)']
      BY DEF SourceStays
    <2>1. CASE e = d
      <3>1. Tile(d)' = t
        BY <1>3, <1>8, <1>9, <1>a, <1>c DEF Tile, Param, Params
      <3> QED BY <1>6, <1>7, <1>8, <2>1, <3>1
    <2>2. CASE e # d
      <3>1. thr[e].pc = "post" /\ thr'[e] = thr[e] /\ thr[e].i \in DOMAIN tasks
        BY <1>0, <1>8, <2>2, PostTile
      <3>2. Tile(e)' = Tile(e)
        BY <1>9, <3>1 DEF Tile, Param, Params
      <3> QED BY <1>0, <1>6, <3>1, <3>2 DEF SourceStays
    <2> QED BY <2>1, <2>2
  <1>21. VictimStays'
    BY <1>0, <1>6, <1>8, FrameVictim
  <1> QED BY <1>11, <1>15, <1>16, <1>17, <1>18, <1>19, <1>20, <1>21 DEF DsmInv

-----------------------------------------------------------------------------
(* The post of a transfer.                                                 *)

\* The callbacks after the post of a transfer from src to dst.
LEMMA CallbacksPosted ==
    ASSUME Types, NEW t \in Tiles, NEW src \in Nodes, NEW dst \in Nodes, NEW c \in Actions,
           cbk' = Callbacks(t, src, dst, c)
    PROVE  /\ cbk' \in [Tiles -> [Nodes -> SUBSET Actions]]
           /\ \A u \in Tiles, n \in Nodes : \A a :
                a \in cbk'[u][n] <=>
                    \/ a \in cbk[u][n]
                    \/ u = t /\ n = dst /\ a = c
                    \/ u = t /\ n = src /\ src \in xfer[t] /\ dst \notin xfer[t] /\ a = <<"send", dst>>
  <1>a. PICK s : s = <<"send", dst>>
    BY Zenon
  <1>1. s \in Actions
    BY <1>a DEF Actions
  <1>2. cbk \in [Tiles -> [Nodes -> SUBSET Actions]]
    BY DEF Types
  <1>3. CASE src \in xfer[t] /\ dst \notin xfer[t]
    <2>1. cbk' = [cbk EXCEPT ![t][dst] = @ \cup {c}, ![t][src] = @ \cup {s}]
      BY <1>3, <1>a DEF Callbacks
    <2>2. src # dst
      BY <1>3
    <2>3. /\ cbk' \in [Tiles -> [Nodes -> SUBSET Actions]]
          /\ cbk'[t][dst] = cbk[t][dst] \cup {c}
          /\ cbk'[t][src] = cbk[t][src] \cup {s}
          /\ \A u \in Tiles, n \in Nodes :
                ~ (u = t /\ n \in {src, dst}) => cbk'[u][n] = cbk[u][n]
      BY <1>1, <1>2, <2>1, <2>2
    <2> QED BY <1>3, <1>a, <2>2, <2>3
  <1>4. CASE ~ (src \in xfer[t] /\ dst \notin xfer[t])
    <2>1. cbk' = [cbk EXCEPT ![t][dst] = @ \cup {c}]
      BY <1>4 DEF Callbacks
    <2>2. /\ cbk' \in [Tiles -> [Nodes -> SUBSET Actions]]
          /\ cbk'[t][dst] = cbk[t][dst] \cup {c}
          /\ \A u \in Tiles, n \in Nodes : ~ (u = t /\ n = dst) => cbk'[u][n] = cbk[u][n]
      BY <1>2, <2>1
    <2> QED BY <1>4, <2>2
  <1> QED BY <1>3, <1>4

\* A transfer is posted: it is served once, and a copy reads the last version.
LEMMA TransferPosted ==
    ASSUME Types, FedOnce, CopiesCurrent, BlocksExact, ValidExact, CallbacksOwned,
           NEW d \in Devices, cap[d] > 0, NEW t \in Tiles, Dirtying(t) = {},
           NEW src \in Nodes, src \in valid[t] \cup xfer[t],
           NEW dst \in Nodes, dst \notin valid[t], dst # Host => blk[t][dst] # 0,
           NEW c \in Actions, c[1] # "send",
           xfer' = Marked(t, dst), cbk' = Callbacks(t, src, dst, c),
           copies' = IF dst \in xfer[t] \/ src \in xfer[t] THEN copies
                     ELSE copies \cup {Copy(t, src, dst, d)},
           cap' = cap, blk' = blk, mem' = mem, cur' = cur
    PROVE  /\ FedOnce' /\ CopiesCurrent' /\ copies' \subseteq Transfers
           /\ xfer' \in [Tiles -> SUBSET Nodes] /\ xfer'[t] = xfer[t] \cup {dst}
           /\ \A u \in Tiles : u # t => xfer'[u] = xfer[u]
           /\ \A u \in Tiles, n \in Nodes : cbk'[u][n] # {} =>
                  cbk[u][n] # {} \/ n \in xfer'[u]
  <1>1. /\ xfer' \in [Tiles -> SUBSET Nodes] /\ xfer'[t] = xfer[t] \cup {dst}
        /\ \A u \in Tiles : u # t => xfer'[u] = xfer[u]
    BY DEF Types, Marked
  <1>2. \A u \in Tiles, n \in Nodes : \A a :
            a \in cbk'[u][n] <=>
                \/ a \in cbk[u][n]
                \/ u = t /\ n = dst /\ a = c
                \/ u = t /\ n = src /\ src \in xfer[t] /\ dst \notin xfer[t] /\ a = <<"send", dst>>
    BY CallbacksPosted
  <1>3. \A u \in Tiles, n \in Nodes : cbk'[u][n] # {} => cbk[u][n] # {} \/ n \in xfer'[u]
    BY <1>1, <1>2
  <1>4. \A u \in Tiles, m, n \in Nodes :
            Sends(u, m, n)' <=> \/ Sends(u, m, n)
                                \/ /\ u = t /\ m = src /\ n = dst
                                   /\ src \in xfer[t] /\ dst \notin xfer[t]
    <2> TAKE u \in Tiles, m, n \in Nodes
    <2>a. PICK a : a = <<"send", n>>
      BY Zenon
    <2>1. a # c /\ (a = <<"send", dst>> <=> n = dst)
      BY <2>a
    <2>2. a \in cbk'[u][m] <=>
              \/ a \in cbk[u][m]
              \/ u = t /\ m = src /\ src \in xfer[t] /\ dst \notin xfer[t] /\ n = dst
      BY <1>2, <2>1
    <2> QED BY <2>2, <2>a DEF Sends
  <1>5. CASE dst \in xfer[t] \/ src \in xfer[t]
    <2>1. copies' = copies /\ \A u, n : Fed(u, n)' <=> Fed(u, n)
      BY <1>5 DEF Fed
    <2>2. \A e \in copies : e.t \in Tiles
      BY DEF Types, Transfers
    <2>3. Fed1'
      BY <1>1, <2>1, <2>2 DEF FedOnce, Fed1
    <2>4. Fed2'
      <3> SUFFICES ASSUME NEW u \in Tiles, NEW m \in Nodes, NEW n \in Nodes, Sends(u, m, n)'
                   PROVE  n \in xfer'[u] \ {m} /\ ~ Fed(u, n)'
        BY DEF Fed2
      <3>1. CASE Sends(u, m, n)
        BY <1>1, <2>1, <3>1 DEF FedOnce, Fed2
      <3>2. CASE ~ Sends(u, m, n)
        <4>1. u = t /\ m = src /\ n = dst /\ src \in xfer[t] /\ dst \notin xfer[t]
          BY <1>4, <3>2
        <4>2. ~ Fed(t, dst)
          BY <4>1 DEF FedOnce, Fed1, Fed
        <4> QED BY <1>1, <2>1, <4>1, <4>2
      <3> QED BY <3>1, <3>2
    <2>5. Fed3'
      <3> SUFFICES ASSUME NEW u \in Tiles, NEW n \in xfer'[u]
                   PROVE  Fed(u, n)' \/ \E m \in Nodes : Sends(u, m, n)'
        BY DEF Fed3
      <3>1. n \in Nodes
        BY <1>1
      <3>2. CASE n \in xfer[u]
        <4>1. Fed(u, n) \/ \E m \in Nodes : Sends(u, m, n)
          BY <3>2 DEF FedOnce, Fed3
        <4> QED BY <1>4, <2>1, <3>1, <4>1
      <3>3. CASE n \notin xfer[u]
        <4>1. u = t /\ n = dst /\ dst \notin xfer[t] /\ src \in xfer[t]
          BY <1>1, <1>5, <3>3
        <4> QED BY <1>4, <4>1
      <3> QED BY <3>2, <3>3
    <2>6. Fed4'
      BY <2>1 DEF FedOnce, Fed4
    <2>7. Fed5'
      <3> SUFFICES ASSUME NEW u \in Tiles, NEW l \in Nodes, NEW m \in Nodes, NEW n \in Nodes,
                          Sends(u, l, n)', Sends(u, m, n)'
                   PROVE  l = m
        BY DEF Fed5
      <3>1. CASE u = t /\ n = dst /\ dst \notin xfer[t]
        <4>1. ~ Sends(u, l, n) /\ ~ Sends(u, m, n)
          BY <3>1 DEF FedOnce, Fed2
        <4> QED BY <1>4, <4>1
      <3>2. CASE ~ (u = t /\ n = dst /\ dst \notin xfer[t])
        <4>1. Sends(u, l, n) /\ Sends(u, m, n)
          BY <1>4, <3>2
        <4> QED BY <4>1 DEF FedOnce, Fed5
      <3> QED BY <3>1, <3>2
    <2>8. FedOnce'
      BY <2>3, <2>4, <2>5, <2>6, <2>7 DEF FedOnce
    <2>9. CopiesCurrent' /\ copies' \subseteq Transfers
      BY <2>1, FrameCopies DEF Types
    <2> QED BY <1>1, <1>3, <2>8, <2>9
  <1>6. CASE ~ (dst \in xfer[t] \/ src \in xfer[t])
    <2>a. PICK e : e = Copy(t, src, dst, d)
      BY Zenon
    <2>1. copies' = copies \cup {e}
      BY <1>6, <2>a
    <2>2. /\ e.t = t /\ e.src = src /\ e.dst = dst /\ e.by = d
          /\ e.from = blk[t][src] /\ e.to = blk[t][dst]
      BY <2>a DEF Copy
    <2>3. e \in Transfers
      <3>1. blk[t][src] \in Blocks /\ blk[t][dst] \in Blocks
        BY DEF Types
      <3> QED BY <2>a, <3>1 DEF Copy, Transfers
    <2>4. src \in valid[t] /\ src # dst
      BY <1>6
    <2>5. \A u, n : Fed(u, n)' <=> Fed(u, n) \/ (u = t /\ n = dst)
      BY <2>1, <2>2 DEF Fed
    <2>6. \A u \in Tiles, m, n \in Nodes : Sends(u, m, n)' <=> Sends(u, m, n)
      BY <1>4, <1>6
    <2>7. \A g \in copies : g.t \in Tiles /\ g.dst \in xfer[g.t]
      BY DEF Types, Transfers, FedOnce, Fed1
    <2>8. Fed1'
      BY <1>1, <2>1, <2>2, <2>7 DEF Fed1
    <2>9. Fed2'
      <3> SUFFICES ASSUME NEW u \in Tiles, NEW m \in Nodes, NEW n \in Nodes, Sends(u, m, n)'
                   PROVE  n \in xfer'[u] \ {m} /\ ~ Fed(u, n)'
        BY DEF Fed2
      <3>1. n \in xfer[u] \ {m} /\ ~ Fed(u, n)
        BY <2>6 DEF FedOnce, Fed2
      <3> QED BY <1>1, <1>6, <2>5, <3>1
    <2>10. Fed3'
      <3> SUFFICES ASSUME NEW u \in Tiles, NEW n \in xfer'[u]
                   PROVE  Fed(u, n)' \/ \E m \in Nodes : Sends(u, m, n)'
        BY DEF Fed3
      <3>1. CASE u = t /\ n = dst
        BY <2>5, <3>1
      <3>2. CASE ~ (u = t /\ n = dst)
        <4>1. n \in xfer[u] /\ n \in Nodes
          BY <1>1, <3>2
        <4> QED BY <2>5, <2>6, <4>1 DEF FedOnce, Fed3
      <3> QED BY <3>1, <3>2
    <2>11. Fed4'
      BY <1>6, <2>1, <2>2, <2>7 DEF FedOnce, Fed4
    <2>12. Fed5'
      BY <2>6 DEF FedOnce, Fed5
    <2>13. FedOnce'
      BY <2>8, <2>9, <2>10, <2>11, <2>12 DEF FedOnce
    <2>14. mem[src][blk[t][src]] = <<t, cur[t]>> /\ (src # Host => blk[t][src] # 0)
      BY <2>4, Places DEF ValidExact, BlocksExact
    <2>15. CopiesCurrent'
      BY <2>1, <2>2, <2>4, <2>14 DEF CopiesCurrent
    <2>16. copies' \subseteq Transfers
      BY <2>1, <2>3 DEF Types
    <2> QED BY <1>1, <1>3, <2>13, <2>15, <2>16
  <1> QED BY <1>5, <1>6

\* A device thread that posts the transfer of its use x, for task i.
LEMMA PostDeviceViews ==
    ASSUME DsmInv, NEW d \in Devices, Post(d), thr[d].dst # Host, NEW x, x = At(d)
    PROVE  /\ thr[d].pc = "post" /\ thr[d].dst = d /\ thr[d].src \in Nodes
           /\ x \in Uses /\ x = <<thr[d].i, thr[d].k>> /\ DevOf(x) = d
           /\ Tile(d) = TileOf(x) /\ Mode(d) = ModeOf(x) /\ Reads(ModeOf(x))
           /\ TileOf(x) \in Tiles /\ cap[d] > 0 /\ thr[d].i \in Live /\ thr[d].i \in DOMAIN tasks
           /\ x \in Allocated /\ x \notin Asked /\ x \notin Listed /\ Posting(x)
           /\ tasks[thr[d].i].st = "prep"
           /\ Kept /\ ThreadsAtTasks' /\ tasks' \in Seq(Task) /\ DOMAIN tasks' = DOMAIN tasks
           /\ \A j \in DOMAIN tasks :
                /\ tasks'[j].st = tasks[j].st
                /\ tasks'[j].wc = IF j = thr[d].i /\ d \in valid[TileOf(x)]
                                  THEN tasks[j].wc - 1 ELSE tasks[j].wc
           /\ Live' = Live /\ Uses' = Uses /\ \A u : Written(u)' <=> Written(u)
           /\ Pinned' = Pinned /\ Allocated' = Allocated /\ Asked' = Asked \cup {x}
           /\ Listed' = Listed
           /\ \A y \in Uses : Posting(y)' <=> Posting(y) /\ y # x
           /\ thr'[d].pc # "post" /\ thr'[d].pc # "unset"
           /\ \A e \in Devices : e # d => thr'[e] = thr[e]
           /\ \A e \in Devices : SameSearch(e)
           /\ thr' \in [Devices -> {Idle} \cup Steps \cup Evictions \cup Posts]
           /\ mishaps' = mishaps
           /\ cap' = cap /\ blk' = blk /\ mem' = mem /\ valid' = valid /\ pin' = pin
           /\ ro' = ro /\ rw' = rw /\ cur' = cur
  <1>c. PICK i : i = thr[d].i
    BY Zenon
  <1>0. Types /\ ThreadsAtTasks /\ Apart
    BY DEF DsmInv
  <1>1. thr[d].pc = "post"
    BY DEF Post
  <1>2. /\ thr[d] \in Posts /\ i \in DOMAIN tasks /\ i \in Live
        /\ Tile(d) = TileOf(<<i, thr[d].k>>) /\ Mode(d) = ModeOf(<<i, thr[d].k>>)
    BY <1>0, <1>1, <1>c, PostTile
  <1>3. /\ thr[d].dst = d /\ Prep(d).pc = "touch" /\ Prep(d).i = i
        /\ Prep(d).k = thr[d].k /\ Reads(Mode(d))
    BY <1>0, <1>1, <1>c DEF ThreadsAtTasks
  <1>4. /\ x \in Uses /\ x = <<i, thr[d].k>> /\ DevOf(x) = d /\ tasks[i].st = "prep"
    BY <1>0, <1>3, PrepTypes DEF At
  <1>5. TileOf(x) \in Tiles /\ cap[d] > 0
    BY <1>0, <1>4, UseTypes
  <1>6. /\ Prep(d) = thr[d].ret /\ thr[d].ret \in Steps /\ thr[d].src \in Nodes
    <2>1. Prep(d) = thr[d].ret /\ thr[d].ret \in {Idle} \cup Steps /\ thr[d].src \in Nodes
      BY <1>1, <1>2 DEF Prep, Posts
    <2> QED BY <1>3, <2>1 DEF Idle
  <1>7. thr' = [thr EXCEPT ![d] = thr[d].ret]
    BY DEF Post
  <1>8. /\ thr'[d] = thr[d].ret /\ \A e \in Devices : e # d => thr'[e] = thr[e]
        /\ thr' \in [Devices -> {Idle} \cup Steps \cup Evictions \cup Posts]
    BY <1>0, <1>6, <1>7 DEF Types
  <1>9. thr'[d].pc = "touch" /\ \A e \in Devices : Prep(e)' = Prep(e)
    BY <1>3, <1>6, <1>8 DEF Prep
  <1>10. tasks' = IF d \in valid[TileOf(x)] THEN [tasks EXCEPT ![i].wc = @ - 1] ELSE tasks
    BY <1>2, <1>3, <1>4, <1>c, Places DEF Post
  <1>11. /\ tasks' \in Seq(Task) /\ DOMAIN tasks' = DOMAIN tasks
         /\ \A j \in DOMAIN tasks :
                /\ tasks'[j].dev = tasks[j].dev /\ tasks'[j].shape = tasks[j].shape
                /\ tasks'[j].st = tasks[j].st
                /\ tasks'[j].wc = IF j = i /\ d \in valid[TileOf(x)]
                                  THEN tasks[j].wc - 1 ELSE tasks[j].wc
    <2>1. tasks \in Seq(Task) /\ \A j \in DOMAIN tasks : tasks[j] \in Task
      BY <1>0, TaskTypes DEF Types
    <2>2. CASE d \in valid[TileOf(x)]
      <3>a. PICK r : r = [tasks[i] EXCEPT !.wc = tasks[i].wc - 1]
        BY Zenon
      <3>1. tasks[i] \in Task
        BY <1>2, <2>1
      <3>2. tasks[i].wc - 1 \in Int
        BY <3>1 DEF Task
      <3>3. /\ r \in Task /\ r.dev = tasks[i].dev /\ r.shape = tasks[i].shape
            /\ r.st = tasks[i].st /\ r.wc = tasks[i].wc - 1
        BY <3>a, <3>1, <3>2 DEF Task
      <3>4. tasks' = [tasks EXCEPT ![i] = r]
        BY <1>10, <2>2, <3>a
      <3>5. tasks' \in Seq(Task) /\ DOMAIN tasks' = DOMAIN tasks
        BY <1>2, <2>1, <3>3, <3>4
      <3>6. tasks'[i] = r /\ \A j \in DOMAIN tasks : j # i => tasks'[j] = tasks[j]
        BY <1>2, <3>4
      <3> QED BY <2>2, <3>3, <3>5, <3>6
    <2>3. CASE d \notin valid[TileOf(x)]
      BY <1>10, <2>1, <2>3
    <2> QED BY <2>2, <2>3
  <1>12. Kept
    BY <1>11 DEF Kept
  <1>13. ThreadsAtTasks'
    <2>1. \A j \in DOMAIN tasks : tasks[j].dev = d => tasks[j].st # "running"
      BY <1>0, <1>3, Places DEF ThreadsAtTasks
    <2>2. \A j \in DOMAIN tasks : tasks[j].st = "running" => tasks'[j].wc = tasks[j].wc
      BY <1>4, <1>11
    <2>3. /\ Prep(d).pc # "idle" /\ Prep(d)'.pc # "idle" /\ thr'[d].pc # "post"
          /\ Prep(d)'.i = Prep(d).i /\ Prep(d)'.k = Prep(d).k
      BY <1>3, <1>9
    <2> QED BY <1>0, <1>8, <1>11, <1>12, <2>1, <2>2, <2>3, ThreadsKept
  <1>14. Posting(x) /\ \A y \in Uses : Posting(y)' <=> Posting(y) /\ y # x
    <2>1. Posting(x)
      BY <1>1, <1>3, <1>4, <1>c, Places DEF Posting
    <2> SUFFICES ASSUME NEW y \in Uses
                 PROVE  Posting(y)' <=> Posting(y) /\ y # x
      BY <2>1
    <2>2. DevOf(y)' = DevOf(y) /\ DevOf(y) \in Devices
      BY <1>0, <1>12, UseKept, UseTypes
    <2>3. CASE DevOf(y) # d
      BY <1>4, <1>8, <2>1, <2>2, <2>3 DEF Posting
    <2>4. CASE DevOf(y) = d
      <3>1. ~ Posting(y)'
        BY <1>9, <2>2, <2>4 DEF Posting
      <3>2. Posting(y) => y = x
        BY <1>4, <1>c, <2>4, UsePairs DEF Posting
      <3> QED BY <2>1, <3>1, <3>2
    <2> QED BY <2>1, <2>3, <2>4
  <1>15. /\ x \in Pinned /\ x \in Allocated /\ x \notin Listed /\ Behind(x, {"touch"})
    BY <1>0, <1>3, AtBehind
  <1>16. /\ Live' = Live /\ Uses' = Uses /\ \A u : Written(u)' <=> Written(u)
         /\ Pinned' = Pinned /\ Allocated' = Allocated /\ Asked' = Asked \cup {x}
         /\ Listed' = Listed /\ x \notin Asked
    <2>1. /\ Live' = Live /\ Uses' = Uses /\ \A u : Written(u)' <=> Written(u)
          /\ Pinned' = {y \in Uses : IF y = x THEN Prep(d)'.pc \in {"alloc", "unset", "fetch", "touch"}
                                     ELSE y \in Pinned}
          /\ Allocated' = {y \in Uses : IF y = x THEN Prep(d)'.pc \in {"fetch", "touch"}
                                        ELSE y \in Allocated}
          /\ Asked' = {y \in Uses : (IF y = x THEN Prep(d)'.pc = "touch"
                                     ELSE Behind(y, {"touch"})) /\ ~ Posting(y)'}
          /\ Listed' = Listed
      <3>1. Prep(d).pc # "idle" /\ Prep(d)'.i = Prep(d).i /\ Prep(d)'.k = Prep(d).k
        BY <1>3, <1>9
      <3> QED BY <1>0, <1>9, <1>11, <1>12, <3>1, StayViews
    <2>2. Prep(d)'.pc = "touch"
      BY <1>3, <1>9
    <2>3. Pinned' = Pinned /\ Allocated' = Allocated
      BY <1>15, <2>1, <2>2, Subsets
    <2>4. x \notin Asked
      BY <1>14 DEF Asked
    <2>5. Asked' = Asked \cup {x}
      BY <1>4, <1>14, <1>15, <2>1, <2>2 DEF Asked
    <2> QED BY <2>1, <2>3, <2>4, <2>5
  <1>17. \A e \in Devices : SameSearch(e)
    BY <1>9 DEF SameSearch
  <1>18. /\ mishaps' = mishaps
         /\ cap' = cap /\ blk' = blk /\ mem' = mem /\ valid' = valid /\ pin' = pin
         /\ ro' = ro /\ rw' = rw /\ cur' = cur
    BY DEF Post, memVars, listVars
  <1>19. /\ Tile(d) = TileOf(x) /\ Mode(d) = ModeOf(x) /\ Reads(ModeOf(x))
    BY <1>2, <1>3, <1>4
  <1>20. thr'[d].pc # "post" /\ thr'[d].pc # "unset"
    BY <1>9
  <1> QED BY <1>1, <1>2, <1>3, <1>4, <1>5, <1>6, <1>8, <1>11, <1>12, <1>13, <1>14, <1>15, <1>16,
             <1>17, <1>18, <1>19, <1>20, <1>c

\* The tile has come meanwhile.
LEMMA PostHereKeeps ==
    ASSUME DsmInv, NEW d \in Devices, Post(d), thr[d].dst # Host,
           d \in valid[Tile(d)]
    PROVE  DsmInv'
  <1>a. PICK x : x = At(d)
    BY Zenon
  <1>b. PICK t : t = TileOf(x)
    BY Zenon
  <1>c. PICK i : i = thr[d].i
    BY Zenon
  <1>0. /\ Types /\ ThreadsAtTasks /\ Apart /\ PinsExact /\ BlocksExact /\ CountersExact
        /\ CallbacksOwned /\ HostUnwritten /\ FedOnce /\ CopiesCurrent /\ ValidExact
        /\ InputsServed /\ SourceStays /\ VictimStays /\ DirtyListed
    BY DEF DsmInv
  <1>1. /\ thr[d].pc = "post" /\ thr[d].dst = d
        /\ x \in Uses /\ x = <<i, thr[d].k>> /\ DevOf(x) = d
        /\ Tile(d) = t /\ t = TileOf(x)
        /\ t \in Tiles /\ i \in Live /\ i \in DOMAIN tasks
        /\ x \notin Asked /\ x \notin Listed /\ Posting(x) /\ tasks[i].st = "prep"
    BY <1>a, <1>b, <1>c, PostDeviceViews
  <1>2. /\ Kept /\ ThreadsAtTasks' /\ tasks' \in Seq(Task) /\ DOMAIN tasks' = DOMAIN tasks
        /\ Live' = Live /\ Uses' = Uses /\ \A u : Written(u)' <=> Written(u)
        /\ Pinned' = Pinned /\ Allocated' = Allocated /\ Asked' = Asked \cup {x}
        /\ Listed' = Listed
        /\ \A y \in Uses : Posting(y)' <=> Posting(y) /\ y # x
        /\ \A e \in Devices : SameSearch(e)
        /\ thr' \in [Devices -> {Idle} \cup Steps \cup Evictions \cup Posts]
    BY <1>a, PostDeviceViews
  <1>3. \A e \in Devices : /\ thr'[e].pc = "post" => thr'[e] = thr[e]
                           /\ thr'[e].pc = "unset" => thr'[e] = thr[e]
    BY <1>a, PostDeviceViews
  <1>4. d \in valid[t]
    BY <1>1
  <1>5. \A j \in DOMAIN tasks :
            /\ tasks'[j].st = tasks[j].st
            /\ tasks'[j].wc = IF j = i THEN tasks[j].wc - 1 ELSE tasks[j].wc
    BY <1>4, <1>a, <1>b, <1>c, PostDeviceViews
  <1>6. /\ mishaps' = mishaps
        /\ cap' = cap /\ blk' = blk /\ mem' = mem /\ valid' = valid /\ pin' = pin
        /\ ro' = ro /\ rw' = rw /\ cur' = cur
    BY <1>a, PostDeviceViews
  <1>7. xfer' = xfer /\ cbk' = cbk /\ copies' = copies
    BY <1>1, <1>4 DEF Post
  <1>8. Types'
    BY <1>0, <1>2, <1>6, <1>7 DEF Types
  <1>9. Apart' /\ PinsExact' /\ CallbacksOwned' /\ HostUnwritten' /\ FedOnce'
    BY <1>0, <1>2, <1>6, <1>7, FrameApart, FramePins, FrameCallbacks, FrameHost, FrameFed
  <1>10. BlocksExact' /\ CopiesCurrent' /\ ValidExact' /\ DirtyListed'
    BY <1>0, <1>2, <1>6, <1>7, FrameBlocks, FrameCopies, FrameValid, FrameDirty
  <1>11. SourceStays' /\ VictimStays'
    BY <1>0, <1>2, <1>3, <1>6, <1>7, FrameSource, FrameVictim
  <1>12. InputsServed'
    <2>1. \A y \in Asked \cup {x} :
              TileOf(y)' = TileOf(y) /\ DevOf(y)' = DevOf(y) /\ ModeOf(y)' = ModeOf(y)
      BY <1>0, <1>1, <1>2, UseKept, Subsets
    <2>2. mem[d][blk[t][d]] = <<t, cur[t]>>
      <3>1. Dirtying(t) = {}
        BY <1>0, <1>1, NotDirtied
      <3> QED BY <1>0, <1>1, <1>4, <3>1 DEF ValidExact
    <2>3. \A y \in Asked \cup {x} : Reads(ModeOf(y)) =>
              \/ <<"task", y>> \in cbk[TileOf(y)][DevOf(y)]
              \/ mem[DevOf(y)][blk[TileOf(y)][DevOf(y)]] = <<TileOf(y), cur[TileOf(y)]>>
      BY <1>0, <1>1, <2>2 DEF InputsServed
    <2> QED BY <1>2, <1>6, <1>7, <2>1, <2>3 DEF InputsServed
  <1>13. CountersExact'
    <2> SUFFICES ASSUME NEW j \in Live
                 PROVE  tasks'[j].wc = Cardinality(Waiting(j)') + (IF tasks'[j].st = "prep" THEN 1 ELSE 0)
                            + (IF \E k \in DOMAIN Params(j)' : Posting(<<j, k>>)' THEN 1 ELSE 0)
      BY <1>2 DEF CountersExact
    <2>1. Params(j)' = Params(j) /\ tasks'[j].dev = tasks[j].dev /\ j \in DOMAIN tasks
          /\ tasks'[j].st = tasks[j].st
      BY <1>0, <1>2, <1>5, TaskTypes DEF Params, Kept
    <2>2. Waiting(j)' = Waiting(j)
      BY <1>7, <2>1 DEF Waiting
    <2>3. \A k \in DOMAIN Params(j) : Posting(<<j, k>>)' <=> Posting(<<j, k>>) /\ <<j, k>> # x
      BY <1>2, UsePairs
    <2>4. tasks[j].wc = Cardinality(Waiting(j)) + (IF tasks[j].st = "prep" THEN 1 ELSE 0)
                        + (IF \E k \in DOMAIN Params(j) : Posting(<<j, k>>) THEN 1 ELSE 0)
      BY <1>0 DEF CountersExact
    <2>5. CASE j # i
      <3>1. \A k \in DOMAIN Params(j) : Posting(<<j, k>>)' <=> Posting(<<j, k>>)
        BY <1>1, <2>3, <2>5
      <3> QED BY <1>5, <2>1, <2>2, <2>4, <2>5, <3>1
    <2>6. CASE j = i
      <3>1. thr[d].k \in DOMAIN Params(i)
        BY <1>0, <1>1, <1>c, PostTile
      <3>2. \E k \in DOMAIN Params(j) : Posting(<<j, k>>)
        BY <1>1, <2>6, <3>1
      <3>3. ~ \E k \in DOMAIN Params(j)' : Posting(<<j, k>>)'
        <4> SUFFICES ASSUME NEW k \in DOMAIN Params(j), Posting(<<j, k>>), <<j, k>> # x
                     PROVE  FALSE
          BY <2>1, <2>3
        <4>1. DevOf(<<j, k>>) = d
          BY <1>1, <2>6 DEF DevOf
        <4> QED BY <1>1, <1>c, <2>6, <4>1 DEF Posting
      <3>4. Cardinality(Waiting(j)) \in Nat /\ tasks[j].wc \in Int
        <4>1. tasks[j] \in Task
          BY <1>0, <2>1, TaskTypes
        <4>2. tasks[j].wc \in Int
          BY <4>1 DEF Task
        <4> QED BY <1>0, <4>2, WaitingFinite
      <3> QED BY <1>5, <2>1, <2>2, <2>4, <2>6, <3>2, <3>3, <3>4
    <2> QED BY <2>5, <2>6
  <1> QED BY <1>2, <1>8, <1>9, <1>10, <1>11, <1>12, <1>13 DEF DsmInv

\* The transfer begins, or is under way.
LEMMA PostThereKeeps ==
    ASSUME DsmInv, NEW d \in Devices, Post(d), thr[d].dst # Host,
           d \notin valid[Tile(d)]
    PROVE  DsmInv'
  <1>a. PICK x : x = At(d)
    BY Zenon
  <1>b. PICK t : t = TileOf(x)
    BY Zenon
  <1>c. PICK i : i = thr[d].i
    BY Zenon
  <1>d. PICK src : src = thr[d].src
    BY Zenon
  <1>e. PICK k : k = thr[d].k
    BY Zenon
  <1>f. PICK c : c = <<"task", <<i, k>>>>
    BY Zenon
  <1>0. /\ Types /\ ThreadsAtTasks /\ Apart /\ PinsExact /\ BlocksExact /\ CountersExact
        /\ CallbacksOwned /\ HostUnwritten /\ FedOnce /\ CopiesCurrent /\ ValidExact
        /\ InputsServed /\ SourceStays /\ VictimStays /\ DirtyListed
    BY DEF DsmInv
  <1>1. /\ thr[d].pc = "post" /\ thr[d].dst = d /\ src \in Nodes
        /\ x \in Uses /\ x = <<i, k>> /\ DevOf(x) = d
        /\ Tile(d) = t /\ t = TileOf(x) /\ Reads(ModeOf(x))
        /\ t \in Tiles /\ cap[d] > 0 /\ i \in Live /\ i \in DOMAIN tasks
        /\ x \in Allocated /\ x \notin Asked /\ x \notin Listed /\ Posting(x)
        /\ tasks[i].st = "prep"
    BY <1>a, <1>b, <1>c, <1>d, <1>e, PostDeviceViews
  <1>2. /\ Kept /\ ThreadsAtTasks' /\ tasks' \in Seq(Task) /\ DOMAIN tasks' = DOMAIN tasks
        /\ Live' = Live /\ Uses' = Uses /\ \A u : Written(u)' <=> Written(u)
        /\ Pinned' = Pinned /\ Allocated' = Allocated /\ Asked' = Asked \cup {x}
        /\ Listed' = Listed
        /\ \A y \in Uses : Posting(y)' <=> Posting(y) /\ y # x
        /\ \A e \in Devices : SameSearch(e)
        /\ thr' \in [Devices -> {Idle} \cup Steps \cup Evictions \cup Posts]
    BY <1>a, PostDeviceViews
  <1>3. \A e \in Devices : /\ thr'[e].pc = "post" => thr'[e] = thr[e]
                           /\ thr'[e].pc = "unset" => thr'[e] = thr[e]
    BY <1>a, PostDeviceViews
  <1>4. d \notin valid[t] /\ d \in Nodes /\ d # Host
    BY <1>1, Places
  <1>5. \A j \in DOMAIN tasks : tasks'[j].st = tasks[j].st /\ tasks'[j].wc = tasks[j].wc
    BY <1>4, <1>a, <1>b, PostDeviceViews
  <1>6. /\ mishaps' = mishaps
        /\ cap' = cap /\ blk' = blk /\ mem' = mem /\ valid' = valid /\ pin' = pin
        /\ ro' = ro /\ rw' = rw /\ cur' = cur
    BY <1>a, PostDeviceViews
  <1>7. /\ xfer' = Marked(t, d) /\ cbk' = Callbacks(t, src, d, c)
        /\ copies' = IF d \in xfer[t] \/ src \in xfer[t] THEN copies
                     ELSE copies \cup {Copy(t, src, d, d)}
    BY <1>1, <1>4, <1>c, <1>d, <1>e, <1>f DEF Post
  <1>8. Dirtying(t) = {}
    BY <1>0, <1>1, NotDirtied
  <1>9. src \in valid[t] \cup xfer[t]
    BY <1>0, <1>1, <1>d DEF SourceStays
  <1>10. c \in Actions /\ c[1] = "task" /\ c[2] = x
    <2>1. i \in Nat /\ k \in Nat
      BY <1>0, <1>1, UseTypes
    <2> QED BY <1>1, <1>f, <2>1 DEF Actions
  <1>11. blk[t][d] # 0
    BY <1>0, <1>1 DEF BlocksExact
  <1>12. /\ FedOnce' /\ CopiesCurrent' /\ copies' \subseteq Transfers
         /\ xfer' \in [Tiles -> SUBSET Nodes] /\ xfer'[t] = xfer[t] \cup {d}
         /\ \A u \in Tiles : u # t => xfer'[u] = xfer[u]
         /\ \A u \in Tiles, n \in Nodes : cbk'[u][n] # {} => cbk[u][n] # {} \/ n \in xfer'[u]
    <2>1. c[1] # "send"
      BY <1>10
    <2>2. /\ Types /\ FedOnce /\ CopiesCurrent /\ BlocksExact /\ ValidExact /\ CallbacksOwned
          /\ cap[d] > 0 /\ t \in Tiles /\ Dirtying(t) = {} /\ src \in Nodes
          /\ src \in valid[t] \cup xfer[t] /\ d \in Nodes /\ d \notin valid[t]
          /\ (d # Host => blk[t][d] # 0) /\ c \in Actions
      BY <1>0, <1>1, <1>4, <1>8, <1>9, <1>10, <1>11
    <2>3. /\ xfer' = Marked(t, d) /\ cbk' = Callbacks(t, src, d, c)
          /\ copies' = IF d \in xfer[t] \/ src \in xfer[t] THEN copies
                       ELSE copies \cup {Copy(t, src, d, d)}
          /\ cap' = cap /\ blk' = blk /\ mem' = mem /\ cur' = cur
      BY <1>6, <1>7
    <2> QED BY <2>1, <2>2, <2>3, TransferPosted
  <1>13. /\ cbk' \in [Tiles -> [Nodes -> SUBSET Actions]]
         /\ \A u \in Tiles, n \in Nodes : \A a :
              a \in cbk'[u][n] <=>
                  \/ a \in cbk[u][n]
                  \/ u = t /\ n = d /\ a = c
                  \/ u = t /\ n = src /\ src \in xfer[t] /\ d \notin xfer[t] /\ a = <<"send", d>>
    <2>1. Types /\ t \in Tiles /\ src \in Nodes /\ d \in Nodes /\ c \in Actions
      BY <1>0, <1>1, <1>4, <1>10
    <2>2. cbk' = Callbacks(t, src, d, c)
      BY <1>7
    <2> QED BY <2>1, <2>2, CallbacksPosted
  <1>14. \A u \in Tiles, n \in Nodes : \A y :
              <<"task", y>> \in cbk'[u][n] <=> <<"task", y>> \in cbk[u][n] \/ (u = t /\ n = d /\ y = x)
    <2> TAKE u \in Tiles, n \in Nodes
    <2> TAKE y
    <2>a. PICK a : a = <<"task", y>>
      BY Zenon
    <2>1. a # <<"send", d>> /\ (a = c <=> y = x)
      BY <1>1, <1>f, <2>a
    <2> QED BY <1>13, <2>1, <2>a
  <1>15. Types'
    BY <1>0, <1>2, <1>6, <1>12, <1>13 DEF Types
  <1>16. Apart' /\ PinsExact' /\ BlocksExact' /\ DirtyListed' /\ VictimStays'
    BY <1>0, <1>2, <1>3, <1>6, FrameApart, FramePins, FrameBlocks, FrameDirty, FrameVictim
  <1>17. HostUnwritten'
    BY <1>0, <1>2, <1>4, <1>12 DEF HostUnwritten
  <1>18. \A y \in Asked \cup {x} :
             TileOf(y)' = TileOf(y) /\ DevOf(y)' = DevOf(y) /\ ModeOf(y)' = ModeOf(y)
    BY <1>0, <1>1, <1>2, UseKept, Subsets
  <1>19. CallbacksOwned'
    <2>1. \A u \in Tiles, n \in Nodes : cbk'[u][n] # {} => n \in xfer'[u]
      BY <1>0, <1>12 DEF CallbacksOwned
    <2>2. ASSUME NEW u \in Tiles, NEW n \in Nodes, NEW a \in cbk'[u][n], a[1] = "task"
          PROVE  /\ a[2] \in Asked \cup {x} /\ Reads(ModeOf(a[2]))
                 /\ TileOf(a[2]) = u /\ DevOf(a[2]) = n
      <3>1. a \in cbk[u][n] \/ (u = t /\ n = d /\ a = c)
        BY <1>13, <2>2
      <3> QED BY <1>0, <1>1, <1>10, <2>2, <3>1 DEF CallbacksOwned
    <2>3. \A u \in Tiles, n \in Nodes : \A a \in cbk'[u][n] : a[1] = "task" =>
              /\ a[2] \in Asked' /\ Reads(ModeOf(a[2])')
              /\ TileOf(a[2])' = u /\ DevOf(a[2])' = n
      BY <1>2, <1>18, <2>2
    <2>4. ASSUME NEW u \in Tiles, NEW e \in Devices, e \in xfer'[u]
          PROVE  \E y \in Uses' : <<"task", y>> \in cbk'[u][e]
      <3>1. CASE e \in xfer[u]
        <4>1. PICK y \in Uses : <<"task", y>> \in cbk[u][e]
          BY <1>0, <3>1 DEF CallbacksOwned
        <4> QED BY <1>2, <1>14, <4>1, Places
      <3>2. CASE e \notin xfer[u]
        <4>1. u = t /\ e = d
          BY <1>12, <2>4, <3>2
        <4> QED BY <1>1, <1>2, <1>14, <4>1, Places
      <3> QED BY <3>1, <3>2
    <2> QED BY <2>1, <2>3, <2>4 DEF CallbacksOwned
  <1>20. ValidExact'
    <2>1. \A u : Dirtying(u)' = Dirtying(u) /\ \A y \in Dirtying(u) : DevOf(y)' = DevOf(y)
      BY <1>0, <1>2, SameDirtying
    <2>2. \A u \in Tiles : valid[u] \cap xfer[u] = {} => valid'[u] \cap xfer'[u] = {}
      BY <1>4, <1>6, <1>12
    <2> QED BY <1>0, <1>6, <2>1, <2>2 DEF ValidExact
  <1>21. InputsServed'
    <2>1. ASSUME NEW y \in Asked \cup {x}, Reads(ModeOf(y))
          PROVE  \/ <<"task", y>> \in cbk'[TileOf(y)][DevOf(y)]
                 \/ mem[DevOf(y)][blk[TileOf(y)][DevOf(y)]] = <<TileOf(y), cur[TileOf(y)]>>
      <3>1. TileOf(y) \in Tiles /\ DevOf(y) \in Nodes
        BY <1>0, <1>1, Subsets, UseTypes, Places
      <3>2. CASE y = x
        BY <1>1, <1>14, <3>1, <3>2
      <3>3. CASE y # x
        BY <1>0, <1>14, <2>1, <3>1, <3>3 DEF InputsServed
      <3> QED BY <3>2, <3>3
    <2> QED BY <1>2, <1>6, <1>18, <2>1 DEF InputsServed
  <1>22. SourceStays'
    <2> SUFFICES ASSUME NEW e \in Devices, thr'[e].pc = "post"
                 PROVE  thr'[e].src \in valid'[Tile(e)'] \cup xfer'[Tile(e)']
      BY DEF SourceStays
    <2>1. thr[e].pc = "post" /\ thr'[e] = thr[e]
      BY <1>3
    <2>2. thr[e].i \in DOMAIN tasks /\ Tile(e) \in Tiles
      BY <1>0, <2>1, PostTile
    <2>3. Tile(e)' = Tile(e)
      BY <1>2, <2>1, <2>2 DEF Tile, Param, Params, Kept
    <2>4. thr[e].src \in valid[Tile(e)] \cup xfer[Tile(e)]
      BY <1>0, <2>1 DEF SourceStays
    <2>5. \A u \in Tiles : xfer[u] \subseteq xfer'[u]
      BY <1>12
    <2> QED BY <1>6, <2>1, <2>2, <2>3, <2>4, <2>5
  <1>23. CountersExact'
    <2> SUFFICES ASSUME NEW j \in Live
                 PROVE  tasks'[j].wc = Cardinality(Waiting(j)') + (IF tasks'[j].st = "prep" THEN 1 ELSE 0)
                            + (IF \E m \in DOMAIN Params(j)' : Posting(<<j, m>>)' THEN 1 ELSE 0)
      BY <1>2 DEF CountersExact
    <2>1. Params(j)' = Params(j) /\ tasks'[j].dev = tasks[j].dev /\ j \in DOMAIN tasks
          /\ tasks'[j].st = tasks[j].st /\ tasks'[j].wc = tasks[j].wc /\ tasks[j] \in Task
      BY <1>0, <1>2, <1>5, TaskTypes DEF Params, Kept
    <2>2. \A m \in DOMAIN Params(j) :
              /\ <<j, m>> \in Uses /\ Params(j)[m][1] \in Tiles
              /\ Params(j)[m][1] = TileOf(<<j, m>>) /\ tasks[j].dev = DevOf(<<j, m>>)
              /\ tasks[j].dev \in Nodes
      <3> TAKE m \in DOMAIN Params(j)
      <3>1. <<j, m>> \in Uses
        BY UsePairs
      <3>2. Params(j)[m][1] = TileOf(<<j, m>>) /\ tasks[j].dev = DevOf(<<j, m>>)
        BY DEF TileOf, DevOf
      <3> QED BY <1>0, <3>1, <3>2, UseTypes, Places
    <2>3. Waiting(j)' = IF j = i THEN Waiting(j) \cup {k} ELSE Waiting(j)
      <3>1. Waiting(j)' = {m \in DOMAIN Params(j) :
                              <<"task", <<j, m>>>> \in cbk'[Params(j)[m][1]][tasks[j].dev]}
        BY <2>1 DEF Waiting
      <3>2. \A m \in DOMAIN Params(j) :
                <<"task", <<j, m>>>> \in cbk'[Params(j)[m][1]][tasks[j].dev]
                <=> \/ <<"task", <<j, m>>>> \in cbk[Params(j)[m][1]][tasks[j].dev]
                    \/ j = i /\ m = k
        <4> TAKE m \in DOMAIN Params(j)
        <4>1. <<j, m>> = x <=> j = i /\ m = k
          BY <1>1
        <4>2. <<j, m>> = x => Params(j)[m][1] = t /\ tasks[j].dev = d
          BY <1>1, <2>2
        <4> QED BY <1>14, <2>2, <4>1, <4>2
      <3>3. j = i => k \in DOMAIN Params(j)
        BY <1>0, <1>1, <1>c, <1>e, PostTile
      <3> QED BY <3>1, <3>2, <3>3 DEF Waiting
    <2>4. \A m \in DOMAIN Params(j) : Posting(<<j, m>>)' <=> Posting(<<j, m>>) /\ <<j, m>> # x
      BY <1>2, <2>2
    <2>5. tasks[j].wc = Cardinality(Waiting(j)) + (IF tasks[j].st = "prep" THEN 1 ELSE 0)
                        + (IF \E m \in DOMAIN Params(j) : Posting(<<j, m>>) THEN 1 ELSE 0)
      BY <1>0 DEF CountersExact
    <2>6. CASE j # i
      <3>1. \A m \in DOMAIN Params(j) : Posting(<<j, m>>)' <=> Posting(<<j, m>>)
        BY <1>1, <2>4, <2>6
      <3> QED BY <2>1, <2>3, <2>5, <2>6, <3>1
    <2>7. CASE j = i
      <3>1. k \in DOMAIN Params(i)
        BY <1>0, <1>1, <1>c, <1>e, PostTile
      <3>2. \E m \in DOMAIN Params(j) : Posting(<<j, m>>)
        BY <1>1, <2>7, <3>1
      <3>3. ~ \E m \in DOMAIN Params(j)' : Posting(<<j, m>>)'
        <4> SUFFICES ASSUME NEW m \in DOMAIN Params(j), Posting(<<j, m>>), <<j, m>> # x
                     PROVE  FALSE
          BY <2>1, <2>4
        <4>1. DevOf(<<j, m>>) = d
          BY <1>1, <2>7 DEF DevOf
        <4> QED BY <1>1, <1>c, <1>e, <2>7, <4>1 DEF Posting
      <3>4. IsFiniteSet(Waiting(j)) /\ Cardinality(Waiting(j)) \in Nat
        BY <1>0, WaitingFinite
      <3>5. k \notin Waiting(j)
        <4> SUFFICES ASSUME k \in Waiting(j)
                     PROVE  FALSE
          OBVIOUS
        <4>1. c \in cbk[t][d]
          BY <1>1, <1>f, <2>2, <2>7 DEF Waiting
        <4> QED BY <1>0, <1>1, <1>4, <1>10, <4>1 DEF CallbacksOwned
      <3>6. Cardinality(Waiting(j) \cup {k}) = Cardinality(Waiting(j)) + 1
        BY <3>4, <3>5, FS_AddElement
      <3> QED BY <2>1, <2>3, <2>5, <2>7, <3>2, <3>3, <3>4, <3>6
    <2> QED BY <2>6, <2>7
  <1> QED BY <1>2, <1>12, <1>15, <1>16, <1>17, <1>19, <1>20, <1>21, <1>22, <1>23 DEF DsmInv

-----------------------------------------------------------------------------
(* The end of a task.                                                      *)

\* The preparations are untouched.
SamePreps ==
    /\ DOMAIN tasks' = DOMAIN tasks
    /\ \A i \in DOMAIN tasks : tasks'[i].st = "prep" <=> tasks[i].st = "prep"
    /\ \A e \in Devices : Prep(e)' = Prep(e)

\* With the preparations as they were, no use moves.
LEMMA SameBehind ==
    ASSUME Types, Kept, SamePreps, NEW x \in Uses, NEW pcs
    PROVE  Behind(x, pcs)' <=> Behind(x, pcs)
  <1>1. x[1] \in DOMAIN tasks /\ DevOf(x) \in Devices
    BY UsePairs, TaskTypes DEF DevOf, Task
  <1>2. DevOf(x)' = DevOf(x) /\ (tasks'[x[1]].st = "prep" <=> tasks[x[1]].st = "prep")
        /\ Prep(DevOf(x))' = Prep(DevOf(x))
    BY <1>1, UseKept DEF SamePreps, Prep
  <1> QED BY <1>2 DEF Behind

\* The uses that remain stay where they are.
LEMMA SameViews ==
    ASSUME Types, Kept, SamePreps, Uses' \subseteq Uses,
           \A x \in Uses' : Posting(x)' <=> Posting(x)
    PROVE  /\ Pinned' = Pinned \cap Uses' /\ Allocated' = Allocated \cap Uses'
           /\ Asked' = Asked \cap Uses' /\ Listed' = Listed \cap Uses'
           /\ \A e \in Devices : SameSearch(e)
  <1>1. ASSUME NEW pcs
        PROVE  \A x \in Uses' : Behind(x, pcs)' <=> Behind(x, pcs)
    BY SameBehind
  <1>2. Pinned' = Pinned \cap Uses'
    <2>1. Pinned' = {x \in Uses' : Behind(x, {"alloc", "unset", "fetch", "touch"})'}
      BY DEF Pinned
    <2> QED BY <1>1, <2>1 DEF Pinned
  <1>3. Allocated' = Allocated \cap Uses'
    <2>1. Allocated' = {x \in Uses' : Behind(x, {"fetch", "touch"})'}
      BY DEF Allocated
    <2> QED BY <1>1, <2>1 DEF Allocated
  <1>4. Asked' = Asked \cap Uses'
    <2>1. Asked' = {x \in Uses' : Behind(x, {"touch"})' /\ ~ Posting(x)'}
      BY DEF Asked
    <2> QED BY <1>1, <2>1 DEF Asked
  <1>5. Listed' = Listed \cap Uses'
    <2>1. Listed' = {x \in Uses' : Behind(x, {})'}
      BY DEF Listed
    <2> QED BY <1>1, <2>1 DEF Listed
  <1>6. \A e \in Devices : SameSearch(e)
    BY DEF SameSearch, SamePreps
  <1> QED BY <1>2, <1>3, <1>4, <1>5, <1>6

\* Task i ends.
Ends(i) ==
    /\ i \in DOMAIN tasks /\ tasks[i].st \in {"pending", "running"}
    /\ DOMAIN tasks' = DOMAIN tasks /\ tasks' = [tasks EXCEPT ![i].st = "done"]
    /\ \A e \in Devices : Prep(e)' = Prep(e)
    /\ \A e \in Devices : thr'[e] # thr[e] =>
          e = tasks[i].dev /\ thr'[e].pc # "post" /\ thr[e].dst = Host

\* The end of a task takes its uses away and nothing else.
LEMMA EndsKeeps ==
    ASSUME Types, ThreadsAtTasks, Apart, NEW i, Ends(i),
           tasks[i].st = "running" => thr'[tasks[i].dev].pc # "post",
           tasks[i].st = "pending" => thr' = thr
    PROVE  /\ Kept /\ ThreadsAtTasks' /\ tasks' \in Seq(Task)
           /\ i \in Live /\ Live' = Live \ {i} /\ Uses' = {x \in Uses : x[1] # i}
           /\ \A t : Written(t)' => Written(t)
           /\ \A j \in DOMAIN tasks : j # i => tasks'[j] = tasks[j]
           /\ tasks'[i].wc = tasks[i].wc
           /\ \A x \in Uses : Posting(x)' <=> Posting(x)
           /\ \A x \in Uses : x[1] = i => x \in Pinned /\ x \in Allocated /\ x \in Listed
           /\ Pinned' = {x \in Pinned : x[1] # i} /\ Allocated' = {x \in Allocated : x[1] # i}
           /\ Asked' = {x \in Asked : x[1] # i} /\ Listed' = {x \in Listed : x[1] # i}
           /\ \A e \in Devices : SameSearch(e)
           /\ \A e \in Devices : thr'[e].pc = "post" => thr'[e] = thr[e]
  <1>1. /\ i \in DOMAIN tasks /\ tasks[i].st \in {"pending", "running"}
        /\ DOMAIN tasks' = DOMAIN tasks /\ tasks' = [tasks EXCEPT ![i].st = "done"]
        /\ \A e \in Devices : Prep(e)' = Prep(e)
    BY DEF Ends
  <1>2. /\ tasks' \in Seq(Task)
        /\ \A j \in DOMAIN tasks : /\ tasks'[j].dev = tasks[j].dev
                                   /\ tasks'[j].shape = tasks[j].shape
                                   /\ tasks'[j].wc = tasks[j].wc
        /\ tasks'[i].st = "done" /\ \A j \in DOMAIN tasks : j # i => tasks'[j] = tasks[j]
    <2>a. PICK r : r = [tasks[i] EXCEPT !.st = "done"]
      BY Zenon
    <2>1. tasks \in Seq(Task) /\ tasks[i] \in Task
      BY <1>1, TaskTypes DEF Types
    <2>2. /\ r \in Task /\ r.dev = tasks[i].dev /\ r.shape = tasks[i].shape
          /\ r.wc = tasks[i].wc /\ r.st = "done"
      BY <2>a, <2>1 DEF Task, States
    <2>3. tasks' = [tasks EXCEPT ![i] = r]
      BY <1>1, <2>a
    <2>4. tasks' \in Seq(Task)
      BY <1>1, <2>1, <2>2, <2>3
    <2>5. tasks'[i] = r /\ \A j \in DOMAIN tasks : j # i => tasks'[j] = tasks[j]
      BY <1>1, <2>3
    <2> QED BY <2>2, <2>4, <2>5
  <1>3. Kept
    BY <1>1, <1>2 DEF Kept
  <1>4. SamePreps
    <2>1. \A j \in DOMAIN tasks : tasks'[j].st = "prep" <=> tasks[j].st = "prep"
      BY <1>1, <1>2
    <2> QED BY <1>1, <2>1 DEF SamePreps
  <1>5. i \in Live /\ Live' = Live \ {i}
    BY <1>1, <1>2 DEF Live
  <1>6. Uses' = {x \in Uses : x[1] # i}
    <2>1. \A j \in Live : Params(j)' = Params(j)
      BY <1>2 DEF Live, Params
    <2>2. ASSUME NEW x \in Uses'
          PROVE  x \in Uses /\ x[1] # i
      <3>1. x = <<x[1], x[2]>> /\ x[1] \in Live' /\ x[2] \in DOMAIN Params(x[1])'
        BY UsePairsNext
      <3> QED BY <1>5, <2>1, <3>1, UsePairs
    <2>3. ASSUME NEW x \in Uses, x[1] # i
          PROVE  x \in Uses'
      <3>1. x = <<x[1], x[2]>> /\ x[1] \in Live /\ x[2] \in DOMAIN Params(x[1])
        BY UsePairs
      <3> QED BY <1>5, <2>1, <2>3, <3>1, UsePairsNext
    <2> QED BY <2>2, <2>3
  <1>7. \A t : Written(t)' => Written(t)
    <2>1. \A j \in Live : Params(j)' = Params(j)
      BY <1>2 DEF Live, Params
    <2> QED BY <1>5, <2>1 DEF Written
  <1>8. tasks[i].dev \in Devices
    BY <1>1, TaskTypes DEF Task
  <1>9. \A e \in Devices : thr'[e] # thr[e] =>
            /\ e = tasks[i].dev /\ thr'[e].pc # "post" /\ thr[e].dst = Host
            /\ tasks[i].st = "running"
    BY <1>1 DEF Ends
  <1>10. \A x \in Uses : Posting(x)' <=> Posting(x)
    <2> TAKE x \in Uses
    <2>1. DevOf(x)' = DevOf(x) /\ DevOf(x) \in Devices
      BY <1>3, UseKept, UseTypes
    <2>2. CASE thr'[DevOf(x)] = thr[DevOf(x)]
      BY <2>1, <2>2 DEF Posting
    <2>3. CASE thr'[DevOf(x)] # thr[DevOf(x)]
      <3>1. thr'[DevOf(x)].pc # "post" /\ thr[DevOf(x)].dst = Host
        BY <1>9, <2>1, <2>3
      <3> QED BY <2>1, <3>1 DEF Posting
    <2> QED BY <2>2, <2>3
  <1>11. \A x \in Uses : x[1] = i => x \in Pinned /\ x \in Allocated /\ x \in Listed
    BY <1>1 DEF Pinned, Allocated, Listed, Behind
  <1>12. /\ Pinned' = Pinned \cap Uses' /\ Allocated' = Allocated \cap Uses'
         /\ Asked' = Asked \cap Uses' /\ Listed' = Listed \cap Uses'
         /\ \A e \in Devices : SameSearch(e)
    BY <1>3, <1>4, <1>6, <1>10, SameViews
  <1>13. /\ Pinned' = {x \in Pinned : x[1] # i} /\ Allocated' = {x \in Allocated : x[1] # i}
         /\ Asked' = {x \in Asked : x[1] # i} /\ Listed' = {x \in Listed : x[1] # i}
    BY <1>6, <1>12, Subsets
  <1>14. \A e \in Devices : thr'[e].pc = "post" => thr'[e] = thr[e]
    BY <1>9
  <1>15. ThreadsAtTasks'
    <2>1. ASSUME NEW e \in Devices, Prep(e)'.pc # "idle"
          PROVE  /\ Prep(e)'.i \in DOMAIN tasks' /\ tasks'[Prep(e)'.i].dev = e
                 /\ tasks'[Prep(e)'.i].st = "prep"
                 /\ Prep(e)'.k \in DOMAIN tasks'[Prep(e)'.i].shape
      <3>1. Prep(e).pc # "idle" /\ Prep(e)' = Prep(e)
        BY <1>1, <2>1
      <3>2. /\ Prep(e).i \in DOMAIN tasks /\ tasks[Prep(e).i].dev = e
            /\ tasks[Prep(e).i].st = "prep" /\ Prep(e).k \in DOMAIN tasks[Prep(e).i].shape
        BY <3>1, PrepTypes DEF Params
      <3>3. Prep(e).i # i
        BY <1>1, <3>2
      <3> QED BY <1>1, <1>2, <3>1, <3>2, <3>3
    <2>2. ASSUME NEW e \in Devices, thr'[e].pc = "post"
          PROVE  \/ /\ thr'[e].dst = e
                    /\ Prep(e)'.pc = "touch" /\ Prep(e)'.i = thr'[e].i /\ Prep(e)'.k = thr'[e].k
                    /\ Reads(Mode(e)')
                 \/ /\ thr'[e].dst = Host /\ thr'[e].k = 1 /\ Prep(e)'.pc \in {"idle", "alloc"}
                    /\ thr'[e].i \in DOMAIN tasks' /\ tasks'[thr'[e].i].dev = e
                    /\ tasks'[thr'[e].i].st = "running"
      <3>1. thr'[e] = thr[e] /\ Prep(e)' = Prep(e)
        BY <1>1, <1>14, <2>2
      <3>2. CASE thr[e].dst = Host
        <4>1. /\ thr[e].k = 1 /\ Prep(e).pc \in {"idle", "alloc"}
              /\ thr[e].i \in DOMAIN tasks /\ tasks[thr[e].i].dev = e
              /\ tasks[thr[e].i].st = "running"
          BY <2>2, <3>1, <3>2, Places DEF ThreadsAtTasks
        <4>2. thr[e].i # i
          BY <2>2, <4>1
        <4> QED BY <1>1, <1>2, <3>1, <3>2, <4>1, <4>2
      <3>3. CASE thr[e].dst # Host
        <4>1. /\ thr[e].dst = e /\ Prep(e).pc = "touch" /\ Prep(e).i = thr[e].i
              /\ Prep(e).k = thr[e].k /\ Reads(Mode(e))
          BY <2>2, <3>1, <3>3 DEF ThreadsAtTasks
        <4>2. thr[e].i \in DOMAIN tasks
          BY <4>1, PrepTypes
        <4>3. Mode(e)' = Mode(e)
          BY <1>2, <3>1, <4>2 DEF Mode, Param, Params
        <4> QED BY <3>1, <4>1, <4>3
      <3> QED BY <3>2, <3>3
    <2>3. ASSUME NEW j \in DOMAIN tasks', tasks'[j].st = "prep"
          PROVE  \E e \in Devices : tasks'[j].dev = e /\ Prep(e)'.pc # "idle" /\ Prep(e)'.i = j
      <3>1. j \in DOMAIN tasks /\ j # i /\ tasks[j].st = "prep"
        BY <1>1, <1>2, <2>3
      <3>2. tasks[j].dev \in Devices
        BY <3>1, TaskTypes DEF Task
      <3>3. Prep(tasks[j].dev).pc # "idle" /\ Prep(tasks[j].dev).i = j
        BY <3>1 DEF ThreadsAtTasks
      <3> QED BY <1>1, <1>2, <3>1, <3>2, <3>3
    <2>4. ASSUME NEW j \in DOMAIN tasks', tasks'[j].st = "running"
          PROVE  /\ thr'[tasks'[j].dev].pc = "post" /\ thr'[tasks'[j].dev].dst = Host
                 /\ thr'[tasks'[j].dev].i = j
                 /\ tasks'[j].wc = 0 /\ IsWriteBack(j)'
      <3>1. j \in DOMAIN tasks /\ j # i /\ tasks[j].st = "running" /\ tasks'[j] = tasks[j]
        BY <1>1, <1>2, <2>4
      <3>2. tasks[j].dev \in Devices
        BY <3>1, TaskTypes DEF Task
      <3>3. /\ thr[tasks[j].dev].pc = "post" /\ thr[tasks[j].dev].dst = Host
            /\ thr[tasks[j].dev].i = j /\ tasks[j].wc = 0 /\ IsWriteBack(j)
        BY <3>1 DEF ThreadsAtTasks
      <3>4. thr'[tasks[j].dev] = thr[tasks[j].dev]
        <4> SUFFICES ASSUME thr'[tasks[j].dev] # thr[tasks[j].dev]
                     PROVE  FALSE
          OBVIOUS
        <4>1. tasks[i].st = "running" /\ tasks[j].dev = tasks[i].dev
          BY <1>9, <3>2
        <4>2. thr[tasks[i].dev].i = i
          BY <1>1, <4>1 DEF ThreadsAtTasks
        <4> QED BY <3>1, <3>3, <4>1, <4>2
      <3>5. IsWriteBack(j)' <=> IsWriteBack(j)
        BY <3>1 DEF IsWriteBack, Params
      <3> QED BY <3>1, <3>3, <3>4, <3>5
    <2> QED BY <2>1, <2>2, <2>3, <2>4 DEF ThreadsAtTasks, Params, Prep
  <1> QED BY <1>2, <1>3, <1>5, <1>6, <1>7, <1>10, <1>11, <1>13, <1>12, <1>14, <1>15, <1>1

\* The parameters of task i that are tile t.
On(i, t) == {k \in DOMAIN Params(i) : Params(i)[k][1] = t}

\* A task that ends releases what it pinned.
LEMMA EndsPins ==
    ASSUME Types, Apart, PinsExact, NEW i \in Live, Kept,
           \A x \in Uses : x[1] = i => x \in Pinned,
           Pinned' = {x \in Pinned : x[1] # i},
           \A t \in Tiles, d \in Devices :
               pin'[t][d] = pin[t][d] - (IF d = tasks[i].dev THEN Cardinality(On(i, t)) ELSE 0)
    PROVE  PinsExact'
  <1> SUFFICES ASSUME NEW t \in Tiles, NEW d \in Devices
               PROVE  IsFiniteSet(Holders(t, d)') /\ pin'[t][d] = Cardinality(Holders(t, d)')
    BY DEF PinsExact
  <1>a. PICK H : H = Holders(t, d)
    BY Zenon
  <1>b. PICK G : G = {x \in H : x[1] = i}
    BY Zenon
  <1>1. IsFiniteSet(H) /\ pin[t][d] = Cardinality(H) /\ Cardinality(H) \in Nat
    BY <1>a, FS_CardinalityType DEF PinsExact
  <1>2. Holders(t, d)' = H \ G
    <2>1. \A x \in Pinned' : TileOf(x)' = TileOf(x) /\ DevOf(x)' = DevOf(x)
      BY UseKept, Subsets
    <2> QED BY <1>a, <1>b, <2>1 DEF Holders
  <1>3. IsFiniteSet(H \ G) /\ Cardinality(H \ G) = Cardinality(H) - Cardinality(H \cap G)
    BY <1>1, FS_Difference
  <1>4. H \cap G = G
    BY <1>b
  <1>5. Cardinality(G) = IF d = tasks[i].dev THEN Cardinality(On(i, t)) ELSE 0
    <2>1. CASE d = tasks[i].dev
      <3>1. G = {i} \X On(i, t)
        <4>1. ASSUME NEW x \in G
              PROVE  x \in {i} \X On(i, t)
          <5>1. x \in Uses /\ x[1] = i /\ TileOf(x) = t
            BY <1>a, <1>b, Subsets DEF Holders
          <5> QED BY <5>1, UsePairs DEF TileOf, On
        <4>2. ASSUME NEW k \in On(i, t)
              PROVE  <<i, k>> \in G
          <5>1. <<i, k>> \in Uses
            BY UsePairs DEF On
          <5>2. TileOf(<<i, k>>) = t /\ DevOf(<<i, k>>) = d
            BY <2>1 DEF TileOf, DevOf, On
          <5>3. <<i, k>> \in Pinned
            BY <5>1
          <5> QED BY <1>a, <1>b, <5>2, <5>3 DEF Holders
        <4> QED BY <4>1, <4>2
      <3>2. IsFiniteSet(On(i, t)) /\ Cardinality(On(i, t)) \in Nat
        <4>1. Params(i) \in Seq(Tiles \X Modes)
          BY DsmAssumption DEF Apart
        <4>2. DOMAIN Params(i) = 1..Len(Params(i)) /\ Len(Params(i)) \in Nat
          BY <4>1
        <4>3. IsFiniteSet(DOMAIN Params(i))
          BY <4>2, FS_Interval
        <4>4. On(i, t) \in SUBSET DOMAIN Params(i)
          BY DEF On
        <4> QED BY <4>3, <4>4, FS_Subset, FS_CardinalityType
      <3>3. IsFiniteSet({i}) /\ Cardinality({i}) = 1
        BY FS_Singleton
      <3>4. Cardinality({i} \X On(i, t)) = Cardinality({i}) * Cardinality(On(i, t))
        BY <3>2, <3>3, FS_Product
      <3>5. 1 * Cardinality(On(i, t)) = Cardinality(On(i, t))
        BY <3>2
      <3> QED BY <2>1, <3>1, <3>3, <3>4, <3>5
    <2>2. CASE d # tasks[i].dev
      <3>1. G = {}
        BY <1>a, <1>b, <2>2 DEF Holders, DevOf
      <3> QED BY <2>2, <3>1, FS_EmptySet
    <2> QED BY <2>1, <2>2
  <1>6. /\ IsFiniteSet(Holders(t, d)')
        /\ Cardinality(Holders(t, d)') = Cardinality(H) - Cardinality(G)
    BY <1>2, <1>3, <1>4, Zenon
  <1>7. pin'[t][d] = Cardinality(H) - Cardinality(G)
    <2>1. pin'[t][d] = pin[t][d] - (IF d = tasks[i].dev THEN Cardinality(On(i, t)) ELSE 0)
      BY Zenon
    <2> QED BY <1>1, <1>5, <2>1, Zenon
  <1> QED BY <1>6, <1>7, Zenon

\* A task whose counter is zero has no callback.
LEMMA NoCallbacks ==
    ASSUME Types, Apart, CountersExact, CallbacksOwned, NEW i \in Live,
           tasks[i].st # "prep", tasks[i].wc = 0
    PROVE  \A t \in Tiles, n \in Nodes : \A k : <<"task", <<i, k>>>> \notin cbk[t][n]
  <1>1. Waiting(i) = {}
    <2>1. IsFiniteSet(Waiting(i)) /\ Cardinality(Waiting(i)) \in Nat
      BY WaitingFinite
    <2>2. 0 = Cardinality(Waiting(i)) + 0
              + (IF \E k \in DOMAIN Params(i) : Posting(<<i, k>>) THEN 1 ELSE 0)
      BY DEF CountersExact
    <2>3. Cardinality(Waiting(i)) = 0
      BY <2>1, <2>2
    <2> QED BY <2>1, <2>3, FS_EmptySet
  <1> SUFFICES ASSUME NEW t \in Tiles, NEW n \in Nodes, NEW k, <<"task", <<i, k>>>> \in cbk[t][n]
               PROVE  FALSE
    OBVIOUS
  <1>a. PICK x : x = <<i, k>>
    BY Zenon
  <1>2. x \in Asked /\ TileOf(x) = t /\ DevOf(x) = n
    BY <1>a DEF CallbacksOwned
  <1>3. x[1] = i /\ x[2] = k /\ k \in DOMAIN Params(i)
    BY <1>2, <1>a, UsePairs, Subsets
  <1>4. Params(i)[k][1] = t /\ tasks[i].dev = n
    BY <1>2, <1>3 DEF TileOf, DevOf
  <1> QED BY <1>1, <1>3, <1>4 DEF Waiting

\* The task of a write-back has one parameter, and nobody writes its tile.
LEMMA WriteBackTask ==
    ASSUME Types, Apart, NEW i \in Live, IsWriteBack(i)
    PROVE  /\ DOMAIN Params(i) = {1} /\ <<i, 1>> \in Uses /\ ModeOf(<<i, 1>>) = "WB"
           /\ \A x \in Uses : x[1] = i => x = <<i, 1>>
           /\ TileOf(<<i, 1>>) = Params(i)[1][1] /\ TileOf(<<i, 1>>) \in Tiles
           /\ DevOf(<<i, 1>>) = tasks[i].dev /\ tasks[i].dev \in Devices /\ cap[tasks[i].dev] > 0
           /\ \A t : Cardinality(On(i, t)) = IF t = Params(i)[1][1] THEN 1 ELSE 0
           /\ Dirtying(TileOf(<<i, 1>>)) = {} /\ ~ Written(TileOf(<<i, 1>>))
  <1>a. PICK x : x = <<i, 1>>
    BY Zenon
  <1>1. Params(i) \in Shapes
    BY DEF Apart
  <1>2. Params(i) \in Seq(Tiles \X Modes) /\ Len(Params(i)) = 1
    BY <1>1, DsmAssumption DEF IsWriteBack
  <1>3. DOMAIN Params(i) = {1}
    BY <1>2
  <1>4. Params(i)[1][2] = "WB"
    BY <1>3 DEF IsWriteBack
  <1>5. x \in Uses
    BY <1>3, <1>a, UsePairs
  <1>6. /\ ModeOf(x) = "WB" /\ TileOf(x) = Params(i)[1][1] /\ DevOf(x) = tasks[i].dev
    BY <1>4, <1>a DEF ModeOf, TileOf, DevOf
  <1>7. TileOf(x) \in Tiles /\ tasks[i].dev \in Devices /\ cap[tasks[i].dev] > 0
    BY <1>5, <1>6, UseTypes
  <1>8. \A y \in Uses : y[1] = i => y = x
    BY <1>3, <1>a, UsePairs
  <1>9. \A t : Cardinality(On(i, t)) = IF t = Params(i)[1][1] THEN 1 ELSE 0
    <2> TAKE t
    <2>1. CASE t = Params(i)[1][1]
      <3>1. On(i, t) = {1}
        BY <1>3, <2>1 DEF On
      <3> QED BY <2>1, <3>1, FS_Singleton
    <2>2. CASE t # Params(i)[1][1]
      <3>1. On(i, t) = {}
        BY <1>3, <2>2 DEF On
      <3> QED BY <2>2, <3>1, FS_EmptySet
    <2> QED BY <2>1, <2>2
  <1>10. \A y \in Uses : TileOf(y) = TileOf(x) => ~ Writes(ModeOf(y))
    <2> SUFFICES ASSUME NEW y \in Uses, TileOf(y) = TileOf(x), Writes(ModeOf(y))
                 PROVE  FALSE
      OBVIOUS
    <2>1. x = y
      BY <1>5, OneUse
    <2> QED BY <1>6, <2>1 DEF Writes
  <1>11. Dirtying(TileOf(x)) = {}
    BY <1>10, Subsets DEF Dirtying
  <1>12. ~ Written(TileOf(x))
    BY <1>10, WrittenUses
  <1> QED BY <1>3, <1>5, <1>6, <1>7, <1>8, <1>9, <1>11, <1>12, <1>a

\* Post of the transfer of a write-back, which ends its task.
LEMMA PostHostKeeps ==
    ASSUME DsmInv, NEW d \in Devices, Post(d), thr[d].dst = Host
    PROVE  DsmInv'
  <1>c. PICK i : i = thr[d].i
    BY Zenon
  <1>a. PICK x : x = <<i, 1>>
    BY Zenon
  <1>b. PICK t : t = TileOf(x)
    BY Zenon
  <1>d. PICK src : src = thr[d].src
    BY Zenon
  <1>f. PICK c : c = <<"host", 0>>
    BY Zenon
  <1>0. /\ Types /\ ThreadsAtTasks /\ Apart /\ PinsExact /\ BlocksExact /\ CountersExact
        /\ CallbacksOwned /\ HostUnwritten /\ FedOnce /\ CopiesCurrent /\ ValidExact
        /\ InputsServed /\ SourceStays /\ VictimStays /\ DirtyListed
    BY DEF DsmInv
  <1>1. thr[d].pc = "post"
    BY DEF Post
  <1>2. /\ thr[d] \in Posts /\ i \in DOMAIN tasks /\ i \in Live /\ thr[d].k = 1
        /\ tasks[i].st = "running" /\ tasks[i].dev = d /\ Prep(d).pc \in {"idle", "alloc"}
        /\ Tile(d) = t /\ src \in Nodes
    <2>1. /\ thr[d] \in Posts /\ i \in DOMAIN tasks /\ i \in Live
          /\ Tile(d) = TileOf(<<i, thr[d].k>>)
      BY <1>0, <1>1, <1>c, PostTile
    <2>2. /\ thr[d].k = 1 /\ Prep(d).pc \in {"idle", "alloc"}
          /\ tasks[i].st = "running" /\ tasks[i].dev = d
      BY <1>0, <1>1, <1>c, Places DEF ThreadsAtTasks
    <2> QED BY <1>a, <1>b, <1>d, <2>1, <2>2 DEF Posts
  <1>3. tasks[i].wc = 0 /\ IsWriteBack(i)
    BY <1>0, <1>2 DEF ThreadsAtTasks
  <1>4. /\ x \in Uses /\ \A y \in Uses : y[1] = i => y = x
        /\ t \in Tiles /\ t = Params(i)[1][1] /\ cap[d] > 0 /\ DevOf(x) = d
        /\ \A u : Cardinality(On(i, u)) = IF u = t THEN 1 ELSE 0
        /\ Dirtying(t) = {} /\ ~ Written(t) /\ DOMAIN Params(i) = {1} /\ x[1] = i
    BY <1>0, <1>2, <1>3, <1>a, <1>b, WriteBackTask
  <1>5. /\ Prep(d) = thr[d].ret /\ thr[d].ret \in {Idle} \cup Steps
        /\ thr' = [thr EXCEPT ![d] = thr[d].ret]
    BY <1>1, <1>2 DEF Prep, Posts, Post
  <1>6. /\ thr'[d] = thr[d].ret /\ \A e \in Devices : e # d => thr'[e] = thr[e]
        /\ thr' \in [Devices -> {Idle} \cup Steps \cup Evictions \cup Posts]
    BY <1>0, <1>5 DEF Types
  <1>7. thr'[d].pc \in {"idle", "alloc"} /\ \A e \in Devices : Prep(e)' = Prep(e)
    BY <1>2, <1>5, <1>6 DEF Prep
  <1>8. tasks' = [tasks EXCEPT ![i].st = "done"] /\ pin' = [pin EXCEPT ![t][d] = @ - 1]
    BY <1>2, <1>c DEF Post
  <1>9. Ends(i)
    <2>1. DOMAIN tasks' = DOMAIN tasks
      BY <1>0, <1>8 DEF Types
    <2> QED BY <1>2, <1>6, <1>7, <1>8, <2>1 DEF Ends
  <1>10. /\ Kept /\ ThreadsAtTasks' /\ tasks' \in Seq(Task)
         /\ Live' = Live \ {i} /\ Uses' = {y \in Uses : y[1] # i}
         /\ \A u : Written(u)' => Written(u)
         /\ \A j \in DOMAIN tasks : j # i => tasks'[j] = tasks[j]
         /\ \A y \in Uses : Posting(y)' <=> Posting(y)
         /\ \A y \in Uses : y[1] = i => y \in Pinned /\ y \in Allocated /\ y \in Listed
         /\ Pinned' = {y \in Pinned : y[1] # i} /\ Allocated' = {y \in Allocated : y[1] # i}
         /\ Asked' = {y \in Asked : y[1] # i} /\ Listed' = {y \in Listed : y[1] # i}
         /\ \A e \in Devices : SameSearch(e)
         /\ \A e \in Devices : thr'[e].pc = "post" => thr'[e] = thr[e]
    <2>1. tasks[i].st = "running" => thr'[tasks[i].dev].pc # "post"
      BY <1>2, <1>7
    <2>2. tasks[i].st = "pending" => thr' = thr
      BY <1>2
    <2> QED BY <1>0, <1>9, <2>1, <2>2, EndsKeeps
  <1>11. /\ mishaps' = mishaps
         /\ cap' = cap /\ blk' = blk /\ mem' = mem /\ valid' = valid
         /\ ro' = ro /\ rw' = rw /\ cur' = cur
    BY DEF Post, memVars, listVars
  <1>12. /\ pin' \in [Tiles -> [Devices -> Int]]
         /\ \A u \in Tiles, e \in Devices :
               pin'[u][e] = pin[u][e] - (IF e = tasks[i].dev THEN Cardinality(On(i, u)) ELSE 0)
    <2>1. /\ pin' \in [Tiles -> [Devices -> Int]] /\ pin'[t][d] = pin[t][d] - 1
          /\ \A u \in Tiles, e \in Devices : ~ (u = t /\ e = d) => pin'[u][e] = pin[u][e]
      BY <1>0, <1>4, <1>8 DEF Types
    <2>2. \A u \in Tiles, e \in Devices : pin[u][e] \in Int
      BY <1>0 DEF Types
    <2> QED BY <1>2, <1>4, <2>1, <2>2
  <1>13. PinsExact'
    BY <1>0, <1>2, <1>10, <1>12, EndsPins
  <1>14. Apart' /\ BlocksExact'
    BY <1>0, <1>10, <1>11, FrameApart, FrameBlocks
  <1>15. \A u \in Tiles, n \in Nodes : \A k : <<"task", <<i, k>>>> \notin cbk[u][n]
    BY <1>0, <1>2, <1>3, NoCallbacks
  <1>16. \A y \in Uses : TileOf(y)' = TileOf(y) /\ DevOf(y)' = DevOf(y) /\ ModeOf(y)' = ModeOf(y)
    BY <1>0, <1>10, UseKept
  <1>17. \A u \in Tiles : Dirtying(u)' = Dirtying(u)
    <2> TAKE u \in Tiles
    <2>1. Dirtying(u)' = {y \in Listed' : TileOf(y)' = u /\ Writes(ModeOf(y)')}
      BY DEF Dirtying
    <2>2. x \notin Dirtying(u)
      BY <1>4, <1>b DEF Dirtying
    <2>3. \A y \in Listed : TileOf(y)' = TileOf(y) /\ ModeOf(y)' = ModeOf(y)
      BY <1>16, Subsets
    <2>4. \A y \in Listed : y[1] # i \/ y = x
      BY <1>4, Subsets
    <2>5. \A y \in Listed : y \in Listed' <=> y[1] # i
      BY <1>10
    <2> QED BY <1>4, <1>10, <2>1, <2>2, <2>3, <2>4, <2>5 DEF Dirtying
  <1>18. /\ xfer' \in [Tiles -> SUBSET Nodes]
         /\ \A u \in Tiles : xfer[u] \subseteq xfer'[u] /\ xfer'[u] \subseteq xfer[u] \cup {Host}
         /\ \A u \in Tiles : xfer'[u] # xfer[u] => u = t /\ Host \notin valid[t]
         /\ cbk' \in [Tiles -> [Nodes -> SUBSET Actions]]
         /\ \A u \in Tiles, n \in Nodes : \A y :
               <<"task", y>> \in cbk'[u][n] <=> <<"task", y>> \in cbk[u][n]
         /\ \A u \in Tiles, n \in Nodes : \A a \in cbk'[u][n] : a[1] = "task" => a \in cbk[u][n]
         /\ \A u \in Tiles, n \in Nodes : cbk'[u][n] # {} => n \in xfer'[u]
         /\ FedOnce' /\ CopiesCurrent' /\ copies' \subseteq Transfers
    <2>1. CASE Host \in valid[t]
      <3>1. xfer' = xfer /\ cbk' = cbk /\ copies' = copies
        BY <1>2, <2>1 DEF Post
      <3>2. FedOnce' /\ CopiesCurrent'
        BY <1>0, <1>11, <3>1, FrameFed, FrameCopies
      <3>3. /\ xfer \in [Tiles -> SUBSET Nodes] /\ cbk \in [Tiles -> [Nodes -> SUBSET Actions]]
            /\ copies \subseteq Transfers
        BY <1>0 DEF Types
      <3>4. \A u \in Tiles, n \in Nodes : cbk[u][n] # {} => n \in xfer[u]
        BY <1>0 DEF CallbacksOwned
      <3> QED BY <3>1, <3>2, <3>3, <3>4
    <2>2. CASE Host \notin valid[t]
      <3>1. /\ xfer' = Marked(t, Host) /\ cbk' = Callbacks(t, src, Host, c)
            /\ copies' = IF Host \in xfer[t] \/ src \in xfer[t] THEN copies
                         ELSE copies \cup {Copy(t, src, Host, d)}
        BY <1>2, <1>d, <1>f, <2>2 DEF Post
      <3>2. c \in Actions /\ c[1] = "host"
        BY <1>f DEF Actions
      <3>3. src \in valid[t] \cup xfer[t]
        BY <1>0, <1>1, <1>2, <1>d DEF SourceStays
      <3>4. /\ FedOnce' /\ CopiesCurrent' /\ copies' \subseteq Transfers
            /\ xfer' \in [Tiles -> SUBSET Nodes] /\ xfer'[t] = xfer[t] \cup {Host}
            /\ \A u \in Tiles : u # t => xfer'[u] = xfer[u]
            /\ \A u \in Tiles, n \in Nodes : cbk'[u][n] # {} => cbk[u][n] # {} \/ n \in xfer'[u]
        <4>1. /\ Types /\ FedOnce /\ CopiesCurrent /\ BlocksExact /\ ValidExact /\ CallbacksOwned
              /\ cap[d] > 0 /\ t \in Tiles /\ Dirtying(t) = {} /\ src \in Nodes
              /\ src \in valid[t] \cup xfer[t] /\ Host \in Nodes /\ Host \notin valid[t]
              /\ c \in Actions /\ c[1] # "send"
          BY <1>0, <1>2, <1>4, <2>2, <3>2, <3>3, Places
        <4>2. cap' = cap /\ blk' = blk /\ mem' = mem /\ cur' = cur
          BY <1>11
        <4> QED BY <3>1, <4>1, <4>2, TransferPosted
      <3>5. /\ cbk' \in [Tiles -> [Nodes -> SUBSET Actions]]
            /\ \A u \in Tiles, n \in Nodes : \A a :
                 a \in cbk'[u][n] <=>
                     \/ a \in cbk[u][n]
                     \/ u = t /\ n = Host /\ a = c
                     \/ u = t /\ n = src /\ src \in xfer[t] /\ Host \notin xfer[t]
                        /\ a = <<"send", Host>>
        <4>1. Types /\ t \in Tiles /\ src \in Nodes /\ Host \in Nodes /\ c \in Actions
          BY <1>0, <1>2, <1>4, <3>2, Places
        <4> QED BY <3>1, <4>1, CallbacksPosted
      <3>6. \A u \in Tiles, n \in Nodes : \A a \in cbk'[u][n] : a[1] = "task" => a \in cbk[u][n]
        <4> SUFFICES ASSUME NEW u \in Tiles, NEW n \in Nodes, NEW a \in cbk'[u][n], a[1] = "task"
                     PROVE  a \in cbk[u][n]
          OBVIOUS
        <4>1. a # c /\ a # <<"send", Host>>
          BY <3>2
        <4> QED BY <3>5, <4>1
      <3>7. \A u \in Tiles, n \in Nodes : \A y :
                <<"task", y>> \in cbk'[u][n] <=> <<"task", y>> \in cbk[u][n]
        BY <3>5, <3>6
      <3>8. \A u \in Tiles, n \in Nodes : cbk'[u][n] # {} => n \in xfer'[u]
        <4>1. \A u \in Tiles, n \in Nodes : cbk[u][n] # {} => n \in xfer[u]
          BY <1>0 DEF CallbacksOwned
        <4>2. \A u \in Tiles : xfer[u] \subseteq xfer'[u]
          BY <3>4
        <4> QED BY <3>4, <4>1, <4>2
      <3>9. /\ \A u \in Tiles : xfer[u] \subseteq xfer'[u] /\ xfer'[u] \subseteq xfer[u] \cup {Host}
            /\ \A u \in Tiles : xfer'[u] # xfer[u] => u = t /\ Host \notin valid[t]
        BY <2>2, <3>4
      <3> QED BY <3>4, <3>5, <3>6, <3>7, <3>8, <3>9
    <2> QED BY <2>1, <2>2
  <1>19. Types'
    BY <1>0, <1>6, <1>10, <1>11, <1>12, <1>18 DEF Types
  <1>20. CountersExact'
    <2> SUFFICES ASSUME NEW j \in Live'
                 PROVE  tasks'[j].wc = Cardinality(Waiting(j)') + (IF tasks'[j].st = "prep" THEN 1 ELSE 0)
                            + (IF \E m \in DOMAIN Params(j)' : Posting(<<j, m>>)' THEN 1 ELSE 0)
      BY DEF CountersExact
    <2>1. /\ j \in Live /\ tasks'[j] = tasks[j] /\ Params(j)' = Params(j)
      BY <1>0, <1>10, TaskTypes DEF Params
    <2>2. \A m \in DOMAIN Params(j) : /\ <<j, m>> \in Uses /\ Params(j)[m][1] \in Tiles
                                      /\ tasks[j].dev \in Nodes
      <3> TAKE m \in DOMAIN Params(j)
      <3>1. <<j, m>> \in Uses
        BY <2>1, UsePairs
      <3>2. TileOf(<<j, m>>) \in Tiles /\ DevOf(<<j, m>>) \in Nodes
        BY <1>0, <3>1, UseTypes, Places
      <3> QED BY <3>1, <3>2 DEF TileOf, DevOf
    <2>3. Waiting(j)' = Waiting(j)
      BY <1>18, <2>1, <2>2 DEF Waiting
    <2>4. \A m \in DOMAIN Params(j) : Posting(<<j, m>>)' <=> Posting(<<j, m>>)
      BY <1>10, <2>2
    <2>5. tasks[j].wc = Cardinality(Waiting(j)) + (IF tasks[j].st = "prep" THEN 1 ELSE 0)
                        + (IF \E m \in DOMAIN Params(j) : Posting(<<j, m>>) THEN 1 ELSE 0)
      BY <1>0, <2>1 DEF CountersExact
    <2>6. (\E m \in DOMAIN Params(j)' : Posting(<<j, m>>)')
          <=> \E m \in DOMAIN Params(j) : Posting(<<j, m>>)
      BY <2>1, <2>4
    <2> QED BY <2>1, <2>3, <2>5, <2>6
  <1>21. CallbacksOwned'
    <2>1. \A u \in Tiles, n \in Nodes : cbk'[u][n] # {} => n \in xfer'[u]
      BY <1>18
    <2>2. ASSUME NEW u \in Tiles, NEW n \in Nodes, NEW a \in cbk'[u][n], a[1] = "task"
          PROVE  /\ a[2] \in Asked' /\ Reads(ModeOf(a[2])')
                 /\ TileOf(a[2])' = u /\ DevOf(a[2])' = n
      <3>a. PICK y : y = a[2]
        BY Zenon
      <3>1. a \in cbk[u][n]
        BY <1>18, <2>2
      <3>2. y \in Asked /\ Reads(ModeOf(y)) /\ TileOf(y) = u /\ DevOf(y) = n
        BY <1>0, <2>2, <3>1, <3>a DEF CallbacksOwned
      <3>3. y = <<y[1], y[2]>> /\ a = <<"task", y>>
        <4>1. a \in Actions
          BY <1>0, <3>1 DEF Types
        <4>2. a = <<a[1], a[2]>>
          BY <4>1 DEF Actions
        <4> QED BY <2>2, <3>2, <3>a, <4>2, UsePairs, Subsets
      <3>4. y[1] # i
        BY <1>15, <3>1, <3>3
      <3> QED BY <1>10, <1>16, <3>2, <3>4, <3>a, Subsets
    <2>3. ASSUME NEW u \in Tiles, NEW e \in Devices, e \in xfer'[u]
          PROVE  \E y \in Uses' : <<"task", y>> \in cbk'[u][e]
      <3>1. e \in xfer[u] /\ e \in Nodes
        BY <1>18, <2>3, Places
      <3>2. PICK y \in Uses : <<"task", y>> \in cbk[u][e]
        BY <1>0, <3>1 DEF CallbacksOwned
      <3>3. y[1] # i
        BY <1>15, <3>1, <3>2, UsePairs
      <3> QED BY <1>10, <1>18, <3>1, <3>2, <3>3
    <2> QED BY <2>1, <2>2, <2>3 DEF CallbacksOwned
  <1>22. HostUnwritten'
    BY <1>0, <1>4, <1>10, <1>18 DEF HostUnwritten
  <1>23. ValidExact'
    <2>1. \A u \in Tiles : \A y \in Dirtying(u) : DevOf(y)' = DevOf(y)
      BY <1>16, Subsets DEF Dirtying
    <2>2. \A u \in Tiles : valid[u] \cap xfer[u] = {} => valid'[u] \cap xfer'[u] = {}
      BY <1>11, <1>18
    <2> QED BY <1>0, <1>11, <1>17, <2>1, <2>2 DEF ValidExact
  <1>24. InputsServed'
    <2>1. ASSUME NEW y \in Asked', Reads(ModeOf(y)')
          PROVE  \/ <<"task", y>> \in cbk'[TileOf(y)'][DevOf(y)']
                 \/ mem'[DevOf(y)'][blk'[TileOf(y)'][DevOf(y)']] = <<TileOf(y)', cur'[TileOf(y)']>>
      <3>1. y \in Asked /\ y \in Uses
        BY <1>10, Subsets
      <3>2. TileOf(y)' = TileOf(y) /\ DevOf(y)' = DevOf(y) /\ ModeOf(y)' = ModeOf(y)
        BY <1>16, <3>1
      <3>3. TileOf(y) \in Tiles /\ DevOf(y) \in Nodes
        BY <1>0, <3>1, UseTypes, Places
      <3>4. \/ <<"task", y>> \in cbk[TileOf(y)][DevOf(y)]
            \/ mem[DevOf(y)][blk[TileOf(y)][DevOf(y)]] = <<TileOf(y), cur[TileOf(y)]>>
        BY <1>0, <2>1, <3>1, <3>2 DEF InputsServed
      <3>5. <<"task", y>> \in cbk'[TileOf(y)][DevOf(y)] <=> <<"task", y>> \in cbk[TileOf(y)][DevOf(y)]
        BY <1>18, <3>3
      <3> QED BY <1>11, <3>2, <3>4, <3>5
    <2> QED BY <2>1 DEF InputsServed
  <1>25. SourceStays'
    <2> SUFFICES ASSUME NEW e \in Devices, thr'[e].pc = "post"
                 PROVE  thr'[e].src \in valid'[Tile(e)'] \cup xfer'[Tile(e)']
      BY DEF SourceStays
    <2>1. thr[e].pc = "post" /\ thr'[e] = thr[e]
      BY <1>10
    <2>2. thr[e].i \in DOMAIN tasks /\ Tile(e) \in Tiles
      BY <1>0, <2>1, PostTile
    <2>3. Tile(e)' = Tile(e)
      BY <1>10, <2>1, <2>2 DEF Tile, Param, Params, Kept
    <2>4. thr[e].src \in valid[Tile(e)] \cup xfer[Tile(e)]
      BY <1>0, <2>1 DEF SourceStays
    <2> QED BY <1>11, <1>18, <2>1, <2>2, <2>3, <2>4
  <1>26. VictimStays'
    <2>1. \A e \in Devices : thr'[e].pc = "unset" => e # d /\ thr'[e] = thr[e]
      BY <1>6, <1>7
    <2>2. \A u \in Tiles, e \in Devices : e # d => pin'[u][e] = pin[u][e]
      BY <1>0, <1>4, <1>8 DEF Types
    <2> QED BY <1>0, <1>11, <2>1, <2>2, FrameVictim
  <1>27. DirtyListed'
    <2>1. \A u \in Tiles : \A y \in Dirtying(u) : DevOf(y)' = DevOf(y)
      BY <1>16, Subsets DEF Dirtying
    <2> QED BY <1>0, <1>11, <1>17, <2>1 DEF DirtyListed
  <1> QED BY <1>10, <1>13, <1>14, <1>18, <1>19, <1>20, <1>21, <1>22, <1>23, <1>24, <1>25,
             <1>26, <1>27 DEF DsmInv

-----------------------------------------------------------------------------
(* The end of a fetch.                                                     *)

\* The tile moves to the front of a list, or leaves it; the others stay.
Moved(s, e, yes) == (IF yes THEN <<e>> ELSE <<>>) \o RemoveFirst(s, e)

\* The list keeps its other entries, and has the tile when it was put there.
LEMMA MovedKeeps ==
    ASSUME NEW T, NEW s \in Seq(T), NEW e \in T, NEW yes \in BOOLEAN
    PROVE  /\ Moved(s, e, yes) \in Seq(T)
           /\ \A t : t \in Range(s) /\ t # e => t \in Range(Moved(s, e, yes))
           /\ yes => e \in Range(Moved(s, e, yes))
  <1>a. PICK a : a = IF yes THEN <<e>> ELSE <<>>
    BY Zenon
  <1>b. PICK b : b = RemoveFirst(s, e)
    BY Zenon
  <1>1. a \in Seq(T) /\ Len(a) \in Nat /\ (yes => Len(a) = 1 /\ a[1] = e)
    BY <1>a
  <1>2. b \in Seq(T) /\ \A t : t \in Range(s) /\ t # e => t \in Range(b)
    BY <1>b, RemoveFirstKeeps
  <1>3. Moved(s, e, yes) = a \o b
    BY <1>a, <1>b DEF Moved
  <1>4. /\ a \o b \in Seq(T) /\ Len(a \o b) = Len(a) + Len(b) /\ Len(b) \in Nat
        /\ \A j \in 1..(Len(a) + Len(b)) : (a \o b)[j] = IF j <= Len(a) THEN a[j] ELSE b[j - Len(a)]
    BY <1>1, <1>2, ConcatProperties
  <1>5. ASSUME NEW t, t \in Range(b)
        PROVE  t \in Range(a \o b)
    <2>1. PICK j \in 1..Len(b) : b[j] = t
      BY <1>2, <1>5 DEF Range
    <2>2. j + Len(a) \in 1..(Len(a) + Len(b)) /\ (a \o b)[j + Len(a)] = t
      BY <1>1, <1>4, <2>1
    <2> QED BY <1>4, <2>2 DEF Range
  <1>6. ASSUME yes
        PROVE  e \in Range(a \o b)
    <2>0. Len(a) = 1 /\ a[1] = e /\ Len(b) \in Nat
      BY <1>1, <1>4, <1>6
    <2>1. 1 \in 1..(Len(a) + Len(b)) /\ (a \o b)[1] = e
      BY <1>4, <2>0
    <2> QED BY <1>4, <2>1 DEF Range
  <1> QED BY <1>2, <1>3, <1>4, <1>5, <1>6

\* How Touch moves a preparation: to its next parameter, or to the end.
LEMMA TouchViews ==
    ASSUME Types, ThreadsAtTasks, Apart, NEW d \in Devices, Touch(d), NEW x, x = At(d),
           NEW i, i = thr[d].i
    PROVE  /\ thr[d].pc = "touch" /\ x \in Uses /\ x[1] = i /\ DevOf(x) = d
           /\ Tile(d) = TileOf(x) /\ Mode(d) = ModeOf(x) /\ TileOf(x) \in Tiles /\ cap[d] > 0
           /\ i \in Live /\ i \in DOMAIN tasks /\ tasks[i].st = "prep"
           /\ x \in Allocated /\ x \in Asked /\ x \notin Listed
           /\ Kept /\ ThreadsAtTasks' /\ tasks' \in Seq(Task) /\ DOMAIN tasks' = DOMAIN tasks
           /\ \A j \in DOMAIN tasks : j # i => tasks'[j] = tasks[j]
           /\ \/ tasks' = tasks
              \/ tasks'[i].st = "pending" /\ tasks'[i].wc = tasks[i].wc - 1
           /\ Live' = Live /\ Uses' = Uses /\ \A u : Written(u)' <=> Written(u)
           /\ Pinned' = Pinned /\ Allocated' = Allocated /\ Asked' = Asked
           /\ Listed' = Listed \cup {x}
           /\ \A y \in Uses : Posting(y)' <=> Posting(y)
           /\ thr'[d].pc \notin {"post", "unset"}
           /\ \A e \in Devices : e # d => thr'[e] = thr[e]
           /\ \A e \in Devices : SameSearch(e)
           /\ thr' \in [Devices -> {Idle} \cup Steps \cup Evictions \cup Posts]
           /\ mishaps' = mishaps
           /\ cap' = cap /\ blk' = blk /\ mem' = mem /\ xfer' = xfer /\ pin' = pin
           /\ cbk' = cbk /\ copies' = copies /\ cur' = cur
  <1>k. PICK k : k = thr[d].k
    BY Zenon
  <1>1. thr[d].pc = "touch"
    BY DEF Touch
  <1>2. /\ Prep(d) = thr[d] /\ Prep(d).pc # "idle" /\ x \in Uses /\ x = <<i, k>>
        /\ DevOf(x) = d /\ thr[d] \in Steps /\ Tile(d) = TileOf(x) /\ Mode(d) = ModeOf(x)
    BY <1>1, <1>k, Here
  <1>3. /\ i \in DOMAIN tasks /\ i \in Live /\ i \in Nat /\ k \in Nat
        /\ k \in DOMAIN Params(i) /\ tasks[i].st = "prep" /\ tasks[i].dev = d
    BY <1>2, <1>k, PrepTypes
  <1>4. TileOf(x) \in Tiles /\ cap[d] > 0 /\ k \in 1..Len(Params(i)) /\ Len(Params(i)) \in Nat
    <2>1. Params(i) \in Seq(Tiles \X Modes)
      BY <1>3, DsmAssumption DEF Apart
    <2> QED BY <1>2, <1>3, <2>1, UseTypes
  <1>5. tasks[i] \in Task /\ tasks \in Seq(Task) /\ tasks[i].wc \in Int
    BY <1>3, TaskTypes, TaskChange DEF Types
  <1>6. \/ /\ k < Len(Params(i))
           /\ thr' = [thr EXCEPT ![d] = [pc |-> "acquire", i |-> i, k |-> k + 1]]
           /\ tasks' = tasks
        \/ /\ ~ (k < Len(Params(i)))
           /\ thr' = [thr EXCEPT ![d] = Idle]
           /\ tasks' = [tasks EXCEPT ![i].wc = @ - 1, ![i].st = "pending"]
    BY <1>k DEF Touch
  <1>7. thr \in [Devices -> {Idle} \cup Steps \cup Evictions \cup Posts]
    BY DEF Types
  <1>8. /\ thr'[d] = IF k < Len(Params(i)) THEN [pc |-> "acquire", i |-> i, k |-> k + 1] ELSE Idle
        /\ \A e \in Devices : e # d => thr'[e] = thr[e]
        /\ thr' \in [Devices -> {Idle} \cup Steps \cup Evictions \cup Posts]
    <2>1. [pc |-> "acquire", i |-> i, k |-> k + 1] \in Steps
      BY <1>3 DEF Steps
    <2>2. CASE k < Len(Params(i))
      BY <1>6, <1>7, <2>1, <2>2
    <2>3. CASE ~ (k < Len(Params(i)))
      BY <1>6, <1>7, <2>3
    <2> QED BY <2>2, <2>3
  <1>9. thr'[d].pc = IF k < Len(Params(i)) THEN "acquire" ELSE "idle"
    BY <1>8 DEF Idle
  <1>10. Prep(d)' = thr'[d] /\ \A e \in Devices : e # d => Prep(e)' = Prep(e)
    BY <1>8, <1>9 DEF Prep
  <1>11. /\ tasks' \in Seq(Task) /\ DOMAIN tasks' = DOMAIN tasks
         /\ \A j \in DOMAIN tasks : j # i => tasks'[j] = tasks[j]
         /\ tasks'[i].dev = tasks[i].dev /\ tasks'[i].shape = tasks[i].shape
         /\ IF k < Len(Params(i)) THEN tasks' = tasks
            ELSE tasks'[i].st = "pending" /\ tasks'[i].wc = tasks[i].wc - 1
    <2>1. CASE k < Len(Params(i))
      BY <1>5, <1>6, <2>1
    <2>2. CASE ~ (k < Len(Params(i)))
      <3>a. PICK r : r = [tasks[i] EXCEPT !.wc = tasks[i].wc - 1, !.st = "pending"]
        BY Zenon
      <3>b. PICK o : o = tasks[i]
        BY Zenon
      <3>c. PICK w : w = o.wc - 1
        BY Zenon
      <3>d. o \in Task /\ w \in Int /\ r = [o EXCEPT !.wc = w, !.st = "pending"]
        BY <1>5, <3>a, <3>b, <3>c
      <3>e. r \in Task /\ r.dev = o.dev /\ r.shape = o.shape /\ r.wc = w /\ r.st = "pending"
        BY <3>d DEF Task, States
      <3>1. /\ r \in Task /\ r.dev = tasks[i].dev /\ r.shape = tasks[i].shape
            /\ r.wc = tasks[i].wc - 1 /\ r.st = "pending"
        BY <3>b, <3>c, <3>e
      <3>2. tasks' = [tasks EXCEPT ![i] = r]
        BY <1>5, <1>6, <2>2, <3>a DEF Task
      <3>3. tasks' \in Seq(Task) /\ DOMAIN tasks' = DOMAIN tasks
        BY <1>3, <1>5, <3>1, <3>2
      <3>4. tasks'[i] = r /\ \A j \in DOMAIN tasks : j # i => tasks'[j] = tasks[j]
        BY <1>3, <3>2
      <3> QED BY <2>2, <3>1, <3>3, <3>4
    <2> QED BY <2>1, <2>2
  <1>12. Kept
    BY <1>3, <1>11 DEF Kept
  <1>13. /\ Live' = Live /\ Uses' = Uses /\ \A u : Written(u)' <=> Written(u)
    <2>1. \A j \in DOMAIN tasks : tasks'[j].st = "done" <=> tasks[j].st = "done"
      BY <1>3, <1>11
    <2> QED BY <1>11, <1>12, <2>1, SameUses
  <1>14. \A y \in Uses : Posting(y)' <=> Posting(y)
    BY <1>1, <1>8, <1>9, <1>12, SamePosting
  <1>15. ASSUME NEW pcs, "acquire" \notin pcs, NEW y \in Uses
         PROVE  Behind(y, pcs)' <=> y = x \/ Behind(y, pcs)
    <2>1. /\ y = <<y[1], y[2]>> /\ y[1] \in DOMAIN tasks /\ y[2] \in Nat
          /\ y[2] \in 1..Len(Params(y[1])) /\ DevOf(y) \in Devices /\ DevOf(y)' = DevOf(y)
      BY <1>12, UseTypes, UseKept
    <2>2. CASE y[1] = i
      <3>1. DevOf(y) = d /\ (y = x <=> y[2] = k)
        BY <1>2, <1>3, <2>1, <2>2 DEF DevOf
      <3>2. Behind(y, pcs) <=> y[2] < k \/ (y[2] = k /\ "touch" \in pcs)
        BY <1>1, <1>2, <1>3, <1>k, <2>2, <3>1 DEF Behind
      <3>3. CASE k < Len(Params(i))
        <4>1. Prep(d)'.k = k + 1 /\ Prep(d)'.pc = "acquire"
          BY <1>8, <1>10, <3>3
        <4>2. tasks'[y[1]].st = "prep"
          BY <1>3, <1>11, <2>2, <3>3
        <4>3. Behind(y, pcs)' <=> y[2] < k + 1 \/ (y[2] = k + 1 /\ "acquire" \in pcs)
          BY <2>1, <3>1, <4>1, <4>2 DEF Behind
        <4> QED BY <1>3, <1>15, <2>1, <3>1, <3>2, <3>3, <4>3
      <3>4. CASE ~ (k < Len(Params(i)))
        <4>1. tasks'[y[1]].st # "prep"
          BY <1>11, <2>2, <3>4
        <4>2. Behind(y, pcs)'
          BY <4>1 DEF Behind
        <4> QED BY <1>4, <2>1, <2>2, <3>1, <3>2, <3>4, <4>2
      <3> QED BY <3>3, <3>4
    <2>3. CASE y[1] # i
      <3>1. tasks'[y[1]] = tasks[y[1]] /\ y # x
        BY <1>2, <1>11, <2>1, <2>3
      <3>2. CASE DevOf(y) # d
        BY <1>10, <2>1, <3>1, <3>2 DEF Behind
      <3>3. CASE DevOf(y) = d
        <4>1. tasks[y[1]].st # "prep"
          BY <1>2, <2>1, <2>3, <3>3 DEF ThreadsAtTasks, DevOf
        <4> QED BY <3>1, <4>1 DEF Behind
      <3> QED BY <3>2, <3>3
    <2> QED BY <2>2, <2>3
  <1>16. /\ x \in Allocated /\ x \in Pinned /\ x \notin Listed /\ Behind(x, {"touch"})
    BY <1>1, <1>2, AtBehind
  <1>17. x \in Asked
    BY <1>1, <1>2, <1>16 DEF Asked, Posting
  <1>18. /\ Pinned' = Pinned /\ Allocated' = Allocated /\ Asked' = Asked
         /\ Listed' = Listed \cup {x}
    <2>1. Pinned' = Pinned
      <3>1. Pinned' = {y \in Uses : Behind(y, {"alloc", "unset", "fetch", "touch"})'}
        BY <1>13 DEF Pinned
      <3> QED BY <1>15, <1>16, <3>1 DEF Pinned
    <2>2. Allocated' = Allocated
      <3>1. Allocated' = {y \in Uses : Behind(y, {"fetch", "touch"})'}
        BY <1>13 DEF Allocated
      <3> QED BY <1>15, <1>16, <3>1 DEF Allocated
    <2>3. Asked' = Asked
      <3>1. Asked' = {y \in Uses : Behind(y, {"touch"})' /\ ~ Posting(y)'}
        BY <1>13 DEF Asked
      <3> QED BY <1>14, <1>15, <1>16, <3>1 DEF Asked
    <2>4. Listed' = Listed \cup {x}
      <3>1. Listed' = {y \in Uses : Behind(y, {})'}
        BY <1>13 DEF Listed
      <3> QED BY <1>2, <1>15, <3>1 DEF Listed
    <2> QED BY <2>1, <2>2, <2>3, <2>4
  <1>19. \A e \in Devices : SameSearch(e)
    <2> TAKE e \in Devices
    <2>1. CASE e = d
      BY <1>9, <1>10, <2>1 DEF SameSearch
    <2>2. CASE e # d
      BY <1>10, <2>2 DEF SameSearch
    <2> QED BY <2>1, <2>2
  <1>20. ThreadsAtTasks'
    <2>1. ASSUME NEW e \in Devices, Prep(e)'.pc # "idle"
          PROVE  /\ Prep(e)'.i \in DOMAIN tasks' /\ tasks'[Prep(e)'.i].dev = e
                 /\ tasks'[Prep(e)'.i].st = "prep"
                 /\ Prep(e)'.k \in DOMAIN tasks'[Prep(e)'.i].shape
      <3>1. CASE e = d
        <4>1. k < Len(Params(i)) /\ Prep(d)'.i = i /\ Prep(d)'.k = k + 1
          BY <1>8, <1>9, <1>10, <2>1, <3>1
        <4>2. k + 1 \in DOMAIN Params(i)
          <5>1. Params(i) \in Seq(Tiles \X Modes)
            BY <1>3, DsmAssumption DEF Apart
          <5> QED BY <1>3, <1>4, <4>1, <5>1
        <4> QED BY <1>3, <1>11, <3>1, <4>1, <4>2 DEF Params
      <3>2. CASE e # d
        <4>1. Prep(e).pc # "idle" /\ Prep(e)' = Prep(e)
          BY <1>10, <2>1, <3>2
        <4>2. /\ Prep(e).i \in DOMAIN tasks /\ tasks[Prep(e).i].dev = e
              /\ tasks[Prep(e).i].st = "prep" /\ Prep(e).k \in DOMAIN tasks[Prep(e).i].shape
          BY <4>1, PrepTypes DEF Params
        <4>3. Prep(e).i # i
          BY <1>3, <3>2, <4>2
        <4> QED BY <1>11, <4>1, <4>2, <4>3
      <3> QED BY <3>1, <3>2
    <2>2. ASSUME NEW e \in Devices, thr'[e].pc = "post"
          PROVE  \/ /\ thr'[e].dst = e
                    /\ Prep(e)'.pc = "touch" /\ Prep(e)'.i = thr'[e].i /\ Prep(e)'.k = thr'[e].k
                    /\ Reads(Mode(e)')
                 \/ /\ thr'[e].dst = Host /\ thr'[e].k = 1 /\ Prep(e)'.pc \in {"idle", "alloc"}
                    /\ thr'[e].i \in DOMAIN tasks' /\ tasks'[thr'[e].i].dev = e
                    /\ tasks'[thr'[e].i].st = "running"
      <3>1. e # d /\ thr'[e] = thr[e] /\ Prep(e)' = Prep(e)
        BY <1>8, <1>9, <1>10, <2>2
      <3>2. CASE thr[e].dst = Host
        <4>1. /\ thr[e].k = 1 /\ Prep(e).pc \in {"idle", "alloc"}
              /\ thr[e].i \in DOMAIN tasks /\ tasks[thr[e].i].dev = e
              /\ tasks[thr[e].i].st = "running"
          BY <2>2, <3>1, <3>2, Places DEF ThreadsAtTasks
        <4>2. thr[e].i # i
          BY <1>3, <4>1
        <4> QED BY <1>11, <3>1, <3>2, <4>1, <4>2
      <3>3. CASE thr[e].dst # Host
        <4>1. /\ thr[e].dst = e /\ Prep(e).pc = "touch" /\ Prep(e).i = thr[e].i
              /\ Prep(e).k = thr[e].k /\ Reads(Mode(e))
          BY <2>2, <3>1, <3>3 DEF ThreadsAtTasks
        <4>2. thr[e].i \in DOMAIN tasks
          BY <4>1, PrepTypes
        <4>3. Mode(e)' = Mode(e)
          BY <1>12, <3>1, <4>2 DEF Mode, Param, Params, Kept
        <4> QED BY <3>1, <4>1, <4>3
      <3> QED BY <3>2, <3>3
    <2>3. ASSUME NEW j \in DOMAIN tasks', tasks'[j].st = "prep"
          PROVE  \E e \in Devices : tasks'[j].dev = e /\ Prep(e)'.pc # "idle" /\ Prep(e)'.i = j
      <3>1. CASE j = i
        <4>1. k < Len(Params(i))
          BY <1>11, <2>3, <3>1
        <4>2. Prep(d)'.pc # "idle" /\ Prep(d)'.i = i
          BY <1>8, <1>9, <1>10, <4>1
        <4> QED BY <1>3, <1>11, <3>1, <4>2
      <3>2. CASE j # i
        <4>1. j \in DOMAIN tasks /\ tasks'[j] = tasks[j] /\ tasks[j].st = "prep"
          BY <1>11, <2>3, <3>2
        <4>2. tasks[j].dev \in Devices
          BY <4>1, TaskTypes DEF Task
        <4>3. Prep(tasks[j].dev).pc # "idle" /\ Prep(tasks[j].dev).i = j
          BY <4>1 DEF ThreadsAtTasks
        <4>4. tasks[j].dev # d
          BY <1>2, <3>2, <4>3
        <4> QED BY <1>10, <4>1, <4>2, <4>3, <4>4
      <3> QED BY <3>1, <3>2
    <2>4. ASSUME NEW j \in DOMAIN tasks', tasks'[j].st = "running"
          PROVE  /\ thr'[tasks'[j].dev].pc = "post" /\ thr'[tasks'[j].dev].dst = Host
                 /\ thr'[tasks'[j].dev].i = j
                 /\ tasks'[j].wc = 0 /\ IsWriteBack(j)'
      <3>1. j \in DOMAIN tasks /\ j # i /\ tasks[j].st = "running" /\ tasks'[j] = tasks[j]
        BY <1>3, <1>11, <2>4
      <3>2. tasks[j].dev \in Devices
        BY <3>1, TaskTypes DEF Task
      <3>3. /\ thr[tasks[j].dev].pc = "post" /\ thr[tasks[j].dev].dst = Host
            /\ thr[tasks[j].dev].i = j /\ tasks[j].wc = 0 /\ IsWriteBack(j)
        BY <3>1 DEF ThreadsAtTasks
      <3>4. thr'[tasks[j].dev] = thr[tasks[j].dev]
        BY <1>1, <1>8, <3>2, <3>3
      <3>5. IsWriteBack(j)' <=> IsWriteBack(j)
        BY <3>1 DEF IsWriteBack, Params
      <3> QED BY <3>1, <3>3, <3>4, <3>5
    <2> QED BY <2>1, <2>2, <2>3, <2>4 DEF ThreadsAtTasks, Params, Prep
  <1>21. /\ mishaps' = mishaps
         /\ cap' = cap /\ blk' = blk /\ mem' = mem /\ xfer' = xfer /\ pin' = pin
         /\ cbk' = cbk /\ copies' = copies /\ cur' = cur
    BY DEF Touch, memVars
  <1>22. thr'[d].pc \notin {"post", "unset"} /\ x[1] = i
    BY <1>2, <1>9
  <1>23. \/ tasks' = tasks
         \/ tasks'[i].st = "pending" /\ tasks'[i].wc = tasks[i].wc - 1
    BY <1>11
  <1> QED BY <1>1, <1>2, <1>3, <1>4, <1>8, <1>11, <1>12, <1>13, <1>14, <1>16, <1>17, <1>18,
             <1>19, <1>20, <1>21, <1>22, <1>23

\* Touch: a writer is the only valid replica, and its tile is in the rw list.
LEMMA TouchKeeps ==
    ASSUME DsmInv, NEW d \in Devices, Touch(d)
    PROVE  DsmInv'
  <1>a. PICK x : x = At(d)
    BY Zenon
  <1>b. PICK i : i = thr[d].i
    BY Zenon
  <1>c. PICK t : t = TileOf(x)
    BY Zenon
  <1>d. PICK m : m = ModeOf(x)
    BY Zenon
  <1>e. PICK yes : yes = TouchRw(d, t, m)
    BY Zenon
  <1>0. /\ Types /\ ThreadsAtTasks /\ Apart /\ PinsExact /\ BlocksExact /\ CountersExact
        /\ CallbacksOwned /\ HostUnwritten /\ FedOnce /\ CopiesCurrent /\ ValidExact
        /\ InputsServed /\ SourceStays /\ VictimStays /\ DirtyListed
    BY DEF DsmInv
  <1>1. /\ thr[d].pc = "touch" /\ x \in Uses /\ x[1] = i /\ DevOf(x) = d
        /\ Tile(d) = t /\ Mode(d) = m /\ t \in Tiles /\ cap[d] > 0
        /\ i \in Live /\ i \in DOMAIN tasks /\ tasks[i].st = "prep"
        /\ x \in Allocated /\ x \in Asked /\ x \notin Listed
    BY <1>0, <1>a, <1>b, <1>c, <1>d, TouchViews
  <1>2. /\ Kept /\ ThreadsAtTasks' /\ tasks' \in Seq(Task) /\ DOMAIN tasks' = DOMAIN tasks
        /\ \A j \in DOMAIN tasks : j # i => tasks'[j] = tasks[j]
        /\ \/ tasks' = tasks
           \/ tasks'[i].st = "pending" /\ tasks'[i].wc = tasks[i].wc - 1
        /\ Live' = Live /\ Uses' = Uses /\ \A u : Written(u)' <=> Written(u)
        /\ Pinned' = Pinned /\ Allocated' = Allocated /\ Asked' = Asked
        /\ Listed' = Listed \cup {x}
        /\ \A y \in Uses : Posting(y)' <=> Posting(y)
        /\ \A e \in Devices : SameSearch(e)
        /\ thr' \in [Devices -> {Idle} \cup Steps \cup Evictions \cup Posts]
    BY <1>0, <1>a, <1>b, TouchViews
  <1>3. /\ thr'[d].pc \notin {"post", "unset"}
        /\ \A e \in Devices : e # d => thr'[e] = thr[e]
        /\ mishaps' = mishaps
        /\ cap' = cap /\ blk' = blk /\ mem' = mem /\ xfer' = xfer /\ pin' = pin
        /\ cbk' = cbk /\ copies' = copies /\ cur' = cur
    BY <1>0, <1>a, <1>b, TouchViews
  <1>4. /\ valid' = IF Writes(m) THEN [valid EXCEPT ![t] = {d}] ELSE valid
        /\ rw' = [rw EXCEPT ![d] = Moved(rw[d], t, yes)]
        /\ ro' = [ro EXCEPT ![d] = Moved(ro[d], t, ~ yes)]
    <2>1. Tile(d) = t /\ Mode(d) = m
      BY <1>1
    <2> QED BY <2>1, <1>e DEF Touch, Moved, Dirtied
  <1>5. /\ yes \in BOOLEAN /\ (Writes(m) => yes)
        /\ Host \notin valid[t] /\ t \in Range(rw[d]) => yes
    <2>1. t \in Range(rw[d]) => \E k \in DOMAIN rw[d] : rw[d][k] = t
      BY DEF Range
    <2> QED BY <1>e, <2>1 DEF TouchRw, Writes
  <1>6. /\ valid' \in [Tiles -> SUBSET Nodes]
        /\ Writes(m) => valid'[t] = {d}
        /\ ~ Writes(m) => valid' = valid
        /\ \A u \in Tiles : u # t => valid'[u] = valid[u]
    <2>1. d \in Nodes /\ valid \in [Tiles -> SUBSET Nodes]
      BY <1>0, Places DEF Types
    <2> QED BY <1>1, <1>4, <2>1
  <1>7. /\ ro' \in [Devices -> Seq(Tiles)] /\ rw' \in [Devices -> Seq(Tiles)]
        /\ \A u \in Tiles, e \in Devices : u \in Range(rw[e]) /\ (e = d /\ u = t => yes)
                                           => u \in Range(rw'[e])
        /\ yes => t \in Range(rw'[d])
    <2>1. ro \in [Devices -> Seq(Tiles)] /\ rw \in [Devices -> Seq(Tiles)]
      BY <1>0 DEF Types
    <2>2. /\ Moved(rw[d], t, yes) \in Seq(Tiles)
          /\ \A u : u \in Range(rw[d]) /\ u # t => u \in Range(Moved(rw[d], t, yes))
          /\ yes => t \in Range(Moved(rw[d], t, yes))
      BY <1>1, <1>5, <2>1, MovedKeeps
    <2>3. Moved(ro[d], t, ~ yes) \in Seq(Tiles)
      BY <1>1, <1>5, <2>1, MovedKeeps
    <2>4. /\ rw'[d] = Moved(rw[d], t, yes) /\ \A e \in Devices : e # d => rw'[e] = rw[e]
          /\ ro' \in [Devices -> Seq(Tiles)] /\ rw' \in [Devices -> Seq(Tiles)]
      BY <1>4, <2>1, <2>2, <2>3
    <2> QED BY <2>2, <2>4
  <1>8. Types'
    BY <1>0, <1>2, <1>3, <1>6, <1>7 DEF Types
  <1>9. Apart' /\ PinsExact' /\ CallbacksOwned' /\ HostUnwritten' /\ FedOnce' /\ CopiesCurrent'
        /\ InputsServed'
    BY <1>0, <1>2, <1>3, FrameApart, FramePins, FrameCallbacks, FrameHost, FrameFed,
       FrameCopies, FrameInputs
  <1>10. BlocksExact'
    <2>1. \A y \in Allocated' : blk'[TileOf(y)'][DevOf(y)'] # 0
      <3> TAKE y \in Allocated'
      <3>1. y \in Allocated /\ y \in Uses
        BY <1>2, Subsets
      <3>2. TileOf(y)' = TileOf(y) /\ DevOf(y)' = DevOf(y)
        BY <1>0, <1>2, <3>1, UseKept
      <3> QED BY <1>0, <1>3, <3>1, <3>2 DEF BlocksExact
    <2>2. \A u \in Tiles, e \in Devices : e \in valid'[u] => blk'[u][e] # 0
      <3> SUFFICES ASSUME NEW u \in Tiles, NEW e \in Devices, e \in valid'[u]
                   PROVE  blk[u][e] # 0
        BY <1>3
      <3>1. CASE e \in valid[u]
        BY <1>0, <3>1 DEF BlocksExact
      <3>2. CASE e \notin valid[u]
        <4>1. u = t /\ e = d
          BY <1>6, <3>2
        <4>2. blk[TileOf(x)][DevOf(x)] # 0
          BY <1>0, <1>1 DEF BlocksExact
        <4> QED BY <1>1, <1>c, <4>1, <4>2
      <3> QED BY <3>1, <3>2
    <2>3. ASSUME NEW e \in Devices, Prep(e)'.pc \in {"alloc", "unset"}
          PROVE  blk'[TileOf(At(e))'][e] = 0
      <3>1. Prep(e).pc \in {"alloc", "unset"} /\ TileOf(At(e))' = TileOf(At(e))
        BY <1>0, <1>2, <2>3, SameSearchTile
      <3> QED BY <1>0, <1>3, <3>1 DEF BlocksExact
    <2> QED BY <1>0, <1>3, <2>1, <2>2, <2>3 DEF BlocksExact
  <1>11. CountersExact'
    <2> SUFFICES ASSUME NEW j \in Live
                 PROVE  tasks'[j].wc = Cardinality(Waiting(j)') + (IF tasks'[j].st = "prep" THEN 1 ELSE 0)
                            + (IF \E n \in DOMAIN Params(j)' : Posting(<<j, n>>)' THEN 1 ELSE 0)
      BY <1>2 DEF CountersExact
    <2>1. Params(j)' = Params(j) /\ tasks'[j].dev = tasks[j].dev /\ j \in DOMAIN tasks
      BY <1>0, <1>2, TaskTypes DEF Params, Kept
    <2>2. Waiting(j)' = Waiting(j)
      BY <1>3, <2>1 DEF Waiting
    <2>3. \A n \in DOMAIN Params(j) : Posting(<<j, n>>)' <=> Posting(<<j, n>>)
      BY <1>2, UsePairs
    <2>4. (\E n \in DOMAIN Params(j)' : Posting(<<j, n>>)')
          <=> \E n \in DOMAIN Params(j) : Posting(<<j, n>>)
      BY <2>1, <2>3
    <2>5. tasks[j].wc = Cardinality(Waiting(j)) + (IF tasks[j].st = "prep" THEN 1 ELSE 0)
                        + (IF \E n \in DOMAIN Params(j) : Posting(<<j, n>>) THEN 1 ELSE 0)
      BY <1>0 DEF CountersExact
    <2>6. CASE tasks'[j] = tasks[j]
      BY <2>2, <2>4, <2>5, <2>6
    <2>7. CASE tasks'[j] # tasks[j]
      <3>1. j = i /\ tasks'[j].st = "pending" /\ tasks'[j].wc = tasks[j].wc - 1
        BY <1>2, <2>1, <2>7
      <3>2. Cardinality(Waiting(j)) \in Nat
        BY <1>0, WaitingFinite
      <3>3. tasks[j].st = "prep" /\ tasks'[j].st # "prep" /\ tasks'[j].wc = tasks[j].wc - 1
        BY <1>1, <3>1
      <3>a. PICK p : p = IF \E n \in DOMAIN Params(j) : Posting(<<j, n>>) THEN 1 ELSE 0
        BY Zenon
      <3>b. PICK w : w = Cardinality(Waiting(j))
        BY Zenon
      <3>4. tasks[j].wc = w + 1 + p /\ w \in Nat /\ p \in Nat
        BY <2>5, <3>2, <3>3, <3>a, <3>b
      <3>5. tasks'[j].wc = w + 0 + p
        BY <3>3, <3>4
      <3> QED BY <2>2, <2>4, <3>3, <3>5, <3>a, <3>b
    <2> QED BY <2>6, <2>7
  <1>12. \A u : Dirtying(u)' = IF u = t /\ Writes(m) THEN Dirtying(u) \cup {x} ELSE Dirtying(u)
    <2> TAKE u
    <2>1. \A y \in Listed \cup {x} : TileOf(y)' = TileOf(y) /\ ModeOf(y)' = ModeOf(y)
      BY <1>0, <1>1, <1>2, UseKept, Subsets
    <2>2. Dirtying(u)' = {y \in Listed \cup {x} : TileOf(y)' = u /\ Writes(ModeOf(y)')}
      BY <1>2 DEF Dirtying
    <2> QED BY <1>1, <1>c, <1>d, <2>1, <2>2 DEF Dirtying
  <1>13. Dirtying(t) = {}
    BY <1>0, <1>1, <1>c, NotDirtied
  <1>14. \A u : \A y \in Dirtying(u)' : DevOf(y)' = DevOf(y)
    BY <1>0, <1>1, <1>2, <1>12, UseKept, Subsets DEF Dirtying
  <1>15. ValidExact'
    <2>1. ASSUME NEW u \in Tiles, NEW y \in Dirtying(u)'
          PROVE  valid'[u] = {DevOf(y)'}
      <3>1. CASE u = t /\ Writes(m)
        <4>1. y = x
          BY <1>12, <1>13, <2>1, <3>1
        <4> QED BY <1>1, <1>6, <1>14, <2>1, <3>1, <4>1
      <3>2. CASE ~ (u = t /\ Writes(m))
        BY <1>0, <1>6, <1>12, <1>14, <2>1, <3>2 DEF ValidExact
      <3> QED BY <3>1, <3>2
    <2>2. ASSUME NEW u \in Tiles, Dirtying(u)' = {}
          PROVE  /\ valid'[u] # {} /\ valid'[u] \cap xfer'[u] = {}
                 /\ \A n \in valid'[u] : mem'[n][blk'[u][n]] = <<u, cur'[u]>>
      <3>1. Dirtying(u) = {} /\ valid'[u] = valid[u]
        BY <1>6, <1>12, <2>2
      <3> QED BY <1>0, <1>3, <3>1 DEF ValidExact
    <2> QED BY <2>1, <2>2 DEF ValidExact
  <1>16. SourceStays'
    <2> SUFFICES ASSUME NEW e \in Devices, thr'[e].pc = "post"
                 PROVE  thr'[e].src \in valid'[Tile(e)'] \cup xfer'[Tile(e)']
      BY DEF SourceStays
    <2>1. e # d /\ thr'[e] = thr[e] /\ thr[e].pc = "post"
      BY <1>3
    <2>a. PICK y : y = <<thr[e].i, thr[e].k>>
      BY Zenon
    <2>2. /\ thr[e].i \in DOMAIN tasks /\ y \in Uses /\ Tile(e) = TileOf(y) /\ DevOf(y) = e
          /\ Tile(e) \in Tiles
      BY <1>0, <2>1, <2>a, PostTile
    <2>3. Tile(e)' = Tile(e)
      BY <1>2, <2>1, <2>2 DEF Tile, Param, Params, Kept
    <2>4. thr[e].src \in valid[Tile(e)] \cup xfer[Tile(e)]
      BY <1>0, <2>1 DEF SourceStays
    <2>5. valid'[Tile(e)] = valid[Tile(e)]
      <3>1. CASE Writes(m)
        <4>1. Tile(e) # t
          <5> SUFFICES ASSUME Tile(e) = t
                       PROVE  FALSE
            OBVIOUS
          <5>1. y = x
            BY <1>0, <1>1, <1>c, <1>d, <2>2, <3>1, OneUse
          <5> QED BY <1>1, <2>1, <2>2, <5>1
        <4> QED BY <1>6, <2>2, <4>1
      <3>2. CASE ~ Writes(m)
        BY <1>6, <3>2
      <3> QED BY <3>1, <3>2
    <2> QED BY <1>3, <2>1, <2>3, <2>4, <2>5
  <1>17. VictimStays'
    <2>1. \A e \in Devices : thr'[e].pc = "unset" => e # d /\ thr'[e] = thr[e]
      BY <1>3
    <2>2. \A e \in Devices : e # d => ro'[e] = ro[e] /\ rw'[e] = rw[e]
      BY <1>0, <1>4 DEF Types
    <2> QED BY <1>0, <1>3, <2>1, <2>2, FrameVictim
  <1>18. DirtyListed'
    <2>1. ASSUME "unlisted" \notin mishaps', NEW u \in Tiles, NEW y \in Dirtying(u)'
          PROVE  u \in Range(rw'[DevOf(y)'])
      <3>1. CASE u = t /\ Writes(m)
        <4>1. y = x /\ yes
          BY <1>5, <1>12, <1>13, <2>1, <3>1
        <4> QED BY <1>1, <1>7, <1>14, <2>1, <3>1, <4>1
      <3>2. CASE ~ (u = t /\ Writes(m))
        <4>1. y \in Dirtying(u) /\ u # t
          BY <1>12, <1>13, <2>1, <3>2
        <4>2. u \in Range(rw[DevOf(y)]) /\ DevOf(y) \in Devices
          <5>1. y \in Uses
            BY <4>1, Subsets DEF Dirtying
          <5> QED BY <1>0, <1>3, <2>1, <4>1, <5>1, UseTypes DEF DirtyListed
        <4> QED BY <1>7, <1>14, <2>1, <4>1, <4>2
      <3> QED BY <3>1, <3>2
    <2>2. ASSUME "unlisted" \notin mishaps', NEW u \in Tiles, Dirtying(u)' = {},
                 Host \notin valid'[u]
          PROVE  \E e \in Devices : e \in valid'[u] /\ u \in Range(rw'[e])
      <3>1. Dirtying(u) = {} /\ valid'[u] = valid[u]
        BY <1>6, <1>12, <2>2
      <3>2. PICK e \in valid[u] : u \in Range(rw[e])
        BY <1>0, <1>3, <2>2, <3>1 DEF DirtyListed
      <3>3. e \in Devices
        <4>1. e \in Nodes /\ e # Host
          BY <1>0, <2>2, <3>1 DEF Types
        <4> QED BY <4>1, Places
      <3>4. e = d /\ u = t => yes
        BY <1>5, <2>2, <3>1, <3>2
      <3> QED BY <1>7, <3>1, <3>2, <3>3, <3>4
    <2> QED BY <2>1, <2>2 DEF DirtyListed
  <1> QED BY <1>2, <1>8, <1>9, <1>10, <1>11, <1>15, <1>16, <1>17, <1>18 DEF DsmInv

-----------------------------------------------------------------------------
(* The end of a copy.                                                      *)

\* The threads after a step that moves no task and no thread.
LEMMA SameThreads ==
    ASSUME Types, ThreadsAtTasks, Kept, DOMAIN tasks' = DOMAIN tasks, thr' = thr,
           \A i \in DOMAIN tasks : tasks'[i].st = tasks[i].st,
           \A i \in DOMAIN tasks : tasks[i].st = "running" => tasks'[i].wc = tasks[i].wc
    PROVE  ThreadsAtTasks' /\ SamePreps
  <1>1. \A d \in Devices : Prep(d)' = Prep(d)
    BY DEF Prep
  <1>2. \A i \in DOMAIN tasks : tasks'[i].dev = tasks[i].dev /\ tasks'[i].shape = tasks[i].shape
    BY DEF Kept
  <1>3. ASSUME NEW e \in Devices, Prep(e)'.pc # "idle"
        PROVE  /\ Prep(e)'.i \in DOMAIN tasks' /\ tasks'[Prep(e)'.i].dev = e
               /\ tasks'[Prep(e)'.i].st = "prep"
               /\ Prep(e)'.k \in DOMAIN tasks'[Prep(e)'.i].shape
    <2>1. Prep(e).pc # "idle" /\ Prep(e)' = Prep(e)
      BY <1>1, <1>3
    <2>2. /\ Prep(e).i \in DOMAIN tasks /\ tasks[Prep(e).i].dev = e
          /\ tasks[Prep(e).i].st = "prep" /\ Prep(e).k \in DOMAIN tasks[Prep(e).i].shape
      BY <2>1, PrepTypes DEF Params
    <2> QED BY <1>2, <2>1, <2>2
  <1>4. ASSUME NEW e \in Devices, thr'[e].pc = "post"
        PROVE  \/ /\ thr'[e].dst = e
                  /\ Prep(e)'.pc = "touch" /\ Prep(e)'.i = thr'[e].i /\ Prep(e)'.k = thr'[e].k
                  /\ Reads(Mode(e)')
               \/ /\ thr'[e].dst = Host /\ thr'[e].k = 1 /\ Prep(e)'.pc \in {"idle", "alloc"}
                  /\ thr'[e].i \in DOMAIN tasks' /\ tasks'[thr'[e].i].dev = e
                  /\ tasks'[thr'[e].i].st = "running"
    <2>1. thr'[e] = thr[e] /\ Prep(e)' = Prep(e)
      BY <1>1
    <2>2. CASE thr[e].dst = Host
      <3>1. /\ thr[e].k = 1 /\ Prep(e).pc \in {"idle", "alloc"}
            /\ thr[e].i \in DOMAIN tasks /\ tasks[thr[e].i].dev = e
            /\ tasks[thr[e].i].st = "running"
        BY <1>4, <2>1, <2>2, Places DEF ThreadsAtTasks
      <3> QED BY <1>2, <2>1, <2>2, <3>1
    <2>3. CASE thr[e].dst # Host
      <3>1. /\ thr[e].dst = e /\ Prep(e).pc = "touch" /\ Prep(e).i = thr[e].i
            /\ Prep(e).k = thr[e].k /\ Reads(Mode(e))
        BY <1>4, <2>1, <2>3 DEF ThreadsAtTasks
      <3>2. thr[e].i \in DOMAIN tasks
        BY <3>1, PrepTypes
      <3>3. Mode(e)' = Mode(e)
        BY <1>2, <2>1, <3>2 DEF Mode, Param, Params
      <3> QED BY <2>1, <3>1, <3>3
    <2> QED BY <2>2, <2>3
  <1>5. ASSUME NEW j \in DOMAIN tasks', tasks'[j].st = "prep"
        PROVE  \E e \in Devices : tasks'[j].dev = e /\ Prep(e)'.pc # "idle" /\ Prep(e)'.i = j
    <2>1. j \in DOMAIN tasks /\ tasks[j].st = "prep" /\ tasks[j].dev \in Devices
      BY <1>5, TaskTypes DEF Task
    <2>2. Prep(tasks[j].dev).pc # "idle" /\ Prep(tasks[j].dev).i = j
      BY <2>1 DEF ThreadsAtTasks
    <2> QED BY <1>1, <1>2, <2>1, <2>2
  <1>6. ASSUME NEW j \in DOMAIN tasks', tasks'[j].st = "running"
        PROVE  /\ thr'[tasks'[j].dev].pc = "post" /\ thr'[tasks'[j].dev].dst = Host
               /\ thr'[tasks'[j].dev].i = j
               /\ tasks'[j].wc = 0 /\ IsWriteBack(j)'
    <2>1. j \in DOMAIN tasks /\ tasks[j].st = "running"
      BY <1>6
    <2>2. /\ thr[tasks[j].dev].pc = "post" /\ thr[tasks[j].dev].dst = Host
          /\ thr[tasks[j].dev].i = j /\ tasks[j].wc = 0 /\ IsWriteBack(j)
      BY <2>1 DEF ThreadsAtTasks
    <2>3. IsWriteBack(j)' <=> IsWriteBack(j)
      BY <1>2, <2>1 DEF IsWriteBack, Params
    <2> QED BY <1>2, <2>1, <2>2, <2>3
  <1>7. ThreadsAtTasks'
    BY <1>3, <1>4, <1>5, <1>6 DEF ThreadsAtTasks, Params, Prep
  <1>8. SamePreps
    BY <1>1 DEF SamePreps
  <1> QED BY <1>7, <1>8

\* A replica under transfer has a block.
LEMMA UnderTransfer ==
    ASSUME Types, BlocksExact, CallbacksOwned, NEW t \in Tiles, NEW n \in xfer[t]
    PROVE  n \in Nodes /\ (n # Host => blk[t][n] # 0 /\ blk[t][n] \in 1..cap[n])
  <1>1. n \in Nodes
    BY DEF Types
  <1>2. ASSUME n # Host
        PROVE  blk[t][n] # 0 /\ blk[t][n] \in 1..cap[n]
    <2>1. n \in Devices
      BY <1>1, <1>2, Places
    <2>2. PICK x \in Uses : <<"task", x>> \in cbk[t][n]
      BY <2>1 DEF CallbacksOwned
    <2>3. x \in Allocated /\ TileOf(x) = t /\ DevOf(x) = n
      BY <1>1, <2>2, Subsets DEF CallbacksOwned
    <2>4. blk[t][n] # 0 /\ blk[t][n] \in 0..cap[n] /\ cap[n] \in Nat
      BY <2>1, <2>3, DsmAssumption DEF BlocksExact, Types
    <2> QED BY <2>4
  <1> QED BY <1>1, <1>2

\* The copy c: what the invariant says of it.
LEMMA TheCopy ==
    ASSUME DsmInv, NEW c \in copies
    PROVE  /\ c \in Transfers /\ c.t \in Tiles /\ c.src \in Nodes /\ c.dst \in Nodes
           /\ c.by \in Devices /\ cap[c.by] > 0 /\ c.dst \in xfer[c.t]
           /\ c.to = blk[c.t][c.dst] /\ Content(c) = <<c.t, cur[c.t]>>
           /\ c.to \in DOMAIN mem[c.dst] /\ (c.dst # Host => c.to # 0)
           /\ cur[c.t] \in Nat
  <1>0. Types /\ FedOnce /\ CopiesCurrent /\ BlocksExact /\ CallbacksOwned
    BY DEF DsmInv
  <1>1. /\ c \in Transfers /\ c.t \in Tiles /\ c.src \in Nodes /\ c.dst \in Nodes
        /\ c.by \in Devices
    BY <1>0 DEF Types, Transfers
  <1>2. /\ cap[c.by] > 0 /\ c.to = blk[c.t][c.dst] /\ (c.dst # Host => c.to # 0)
        /\ (c.src # Host => c.from # 0) /\ mem[c.src][c.from] = <<c.t, cur[c.t]>>
    BY <1>0 DEF CopiesCurrent
  <1>3. Content(c) = <<c.t, cur[c.t]>>
    BY <1>2 DEF Content
  <1>4. c.dst \in xfer[c.t]
    BY <1>0 DEF FedOnce, Fed1
  <1>5. c.to \in DOMAIN mem[c.dst]
    <2>1. CASE c.dst = Host
      <3>1. c.to = c.t /\ DOMAIN mem[Host] = Tiles
        BY <1>0, <1>1, <1>2, <2>1 DEF BlocksExact, Types
      <3> QED BY <1>1, <2>1, <3>1
    <2>2. CASE c.dst # Host
      <3>1. c.to \in 1..cap[c.dst] /\ c.dst \in Devices
        BY <1>0, <1>1, <1>2, <1>4, <2>2, UnderTransfer, Places
      <3>2. DOMAIN mem[c.dst] = 1..cap[c.dst]
        BY <1>0, <3>1 DEF Types
      <3> QED BY <3>1, <3>2
    <2> QED BY <2>1, <2>2
  <1>6. cur[c.t] \in Nat
    <2>1. cur \in [Tiles -> Nat]
      BY <1>0 DEF Types
    <2> QED BY <1>1, <2>1
  <1> QED BY <1>1, <1>2, <1>3, <1>4, <1>5, <1>6

\* The data arrives in the block of the replica and in no other.
LEMMA ReceiveMemory ==
    ASSUME DsmInv, NEW c \in copies, Receive(c)
    PROVE  /\ DOMAIN mem' = Nodes /\ mem'[Host] \in [Tiles -> Contents]
           /\ \A d \in Devices : mem'[d] \in [1..cap[d] -> Contents]
           /\ mem'[c.dst][blk[c.t][c.dst]] = <<c.t, cur[c.t]>>
           /\ \A u \in Tiles, n \in Nodes :
                 /\ n # Host => blk[u][n] # 0
                 /\ mem[n][blk[u][n]] = <<u, cur[u]>>
                 => mem'[n][blk[u][n]] = <<u, cur[u]>>
  <1>a. PICK v : v = <<c.t, cur[c.t]>>
    BY Zenon
  <1>b. PICK n : n = c.dst
    BY Zenon
  <1>c. PICK b : b = c.to
    BY Zenon
  <1>d. PICK t : t = c.t
    BY Zenon
  <1>0. Types /\ BlocksExact
    BY DEF DsmInv
  <1>1. /\ t \in Tiles /\ n \in Nodes /\ b = blk[t][n] /\ Content(c) = v
        /\ b \in DOMAIN mem[n] /\ (n # Host => b # 0) /\ cur[t] \in Nat
    BY <1>a, <1>b, <1>c, <1>d, TheCopy
  <1>2. v \in Contents
    BY <1>1, <1>a, <1>d DEF Contents
  <1>3. mem' = [mem EXCEPT ![n][b] = v]
    BY <1>1, <1>b, <1>c DEF Receive
  <1>4. /\ DOMAIN mem = Nodes /\ mem[Host] \in [Tiles -> Contents]
        /\ \A d \in Devices : mem[d] \in [1..cap[d] -> Contents]
    BY <1>0 DEF Types
  <1>5. /\ DOMAIN mem' = Nodes /\ mem'[n] = [mem[n] EXCEPT ![b] = v]
        /\ \A m \in Nodes : m # n => mem'[m] = mem[m]
    BY <1>1, <1>3, <1>4
  <1>6. /\ DOMAIN mem'[n] = DOMAIN mem[n] /\ mem'[n][b] = v
        /\ \A a \in DOMAIN mem[n] : a # b => mem'[n][a] = mem[n][a]
    <2>1. n = Host \/ n \in Devices
      BY <1>1, Places
    <2>2. \E S : mem[n] \in [S -> Contents]
      BY <1>4, <2>1
    <2> QED BY <1>1, <1>5, <2>2
  <1>7. mem'[Host] \in [Tiles -> Contents]
    BY <1>1, <1>2, <1>4, <1>5, Places
  <1>8. ASSUME NEW d \in Devices
        PROVE  mem'[d] \in [1..cap[d] -> Contents]
    <2>1. mem[d] \in [1..cap[d] -> Contents] /\ d \in Nodes
      BY <1>4, Places
    <2>2. CASE d = n
      <3>1. mem'[d] = [mem[d] EXCEPT ![b] = v]
        BY <1>5, <2>2
      <3> QED BY <1>2, <2>1, <3>1
    <2>3. CASE d # n
      BY <1>5, <2>1, <2>3
    <2> QED BY <2>2, <2>3
  <1>9. ASSUME NEW u \in Tiles, NEW m \in Nodes, m # Host => blk[u][m] # 0,
               mem[m][blk[u][m]] = <<u, cur[u]>>
        PROVE  mem'[m][blk[u][m]] = <<u, cur[u]>>
    <2>1. CASE m # n
      BY <1>5, <1>9, <2>1
    <2>2. CASE m = n /\ u = t
      BY <1>1, <1>6, <1>a, <1>d, <2>2
    <2>3. CASE m = n /\ u # t
      <3>1. blk[u][m] # b /\ blk[u][m] \in DOMAIN mem[m]
        <4>1. CASE m = Host
          <5>1. blk[u][m] = u /\ b = t /\ DOMAIN mem[m] = Tiles
            BY <1>0, <1>1, <1>4, <2>3, <4>1 DEF BlocksExact
          <5> QED BY <2>3, <5>1
        <4>2. CASE m # Host
          <5>1. m \in Devices /\ blk[u][m] \in 0..cap[m] /\ cap[m] \in Nat
            BY <1>0, <4>2, Places, DsmAssumption DEF BlocksExact, Types
          <5>2. blk[u][m] # blk[t][m]
            BY <1>0, <1>1, <1>9, <2>3, <4>2, <5>1 DEF BlocksExact
          <5>3. DOMAIN mem[m] = 1..cap[m]
            BY <1>4, <5>1
          <5> QED BY <1>1, <1>9, <2>3, <4>2, <5>1, <5>2, <5>3
        <4> QED BY <4>1, <4>2
      <3> QED BY <1>6, <1>9, <2>3, <3>1
    <2> QED BY <2>1, <2>2, <2>3
  <1> QED BY <1>1, <1>5, <1>6, <1>7, <1>8, <1>9, <1>a, <1>b, <1>c, <1>d

\* The callbacks of the tasks run: each takes one from the counter of its task.
LEMMA ReceiveTasks ==
    ASSUME DsmInv, NEW c \in copies, Receive(c)
    PROVE  /\ Kept /\ ThreadsAtTasks' /\ SamePreps /\ tasks' \in Seq(Task)
           /\ DOMAIN tasks' = DOMAIN tasks /\ CountersExact'
           /\ Live' = Live /\ Uses' = Uses /\ \A u : Written(u)' <=> Written(u)
           /\ Pinned' = Pinned /\ Allocated' = Allocated /\ Asked' = Asked /\ Listed' = Listed
           /\ \A y \in Uses : Posting(y)' <=> Posting(y)
           /\ \A e \in Devices : SameSearch(e)
  <1>b. PICK n : n = c.dst
    BY Zenon
  <1>d. PICK t : t = c.t
    BY Zenon
  <1> DEFINE K(i) == {k \in DOMAIN Params(i) : <<"task", <<i, k>>>> \in cbk[t][n]}
  <1>0. Types /\ ThreadsAtTasks /\ Apart /\ CountersExact /\ CallbacksOwned
    BY DEF DsmInv
  <1>1. t \in Tiles /\ n \in Nodes /\ n \in xfer[t]
    BY <1>b, <1>d, TheCopy
  <1>2. tasks' = [i \in DOMAIN tasks |-> [tasks[i] EXCEPT !.wc = tasks[i].wc - Cardinality(K(i))]]
        /\ cbk' = [cbk EXCEPT ![t][n] = {}] /\ thr' = thr
    BY <1>b, <1>d DEF Receive
  <1>3. \A i \in DOMAIN tasks : IsFiniteSet(K(i)) /\ Cardinality(K(i)) \in Nat
    <2> TAKE i \in DOMAIN tasks
    <2>1. tasks[i] \in Task
      BY <1>0, TaskTypes
    <2>2. Params(i) \in Shapes \cup {<<>>}
      BY <2>1 DEF Task, Params
    <2>3. DOMAIN Params(i) = 1..Len(Params(i)) /\ Len(Params(i)) \in Nat
      BY <2>2, DsmAssumption
    <2>4. IsFiniteSet(DOMAIN Params(i))
      BY <2>3, FS_Interval
    <2>5. K(i) \in SUBSET DOMAIN Params(i)
      OBVIOUS
    <2> HIDE DEF K
    <2> QED BY <2>4, <2>5, FS_Subset, FS_CardinalityType
  <1> HIDE DEF K
  <1>4. /\ tasks' \in Seq(Task) /\ DOMAIN tasks' = DOMAIN tasks
        /\ \A i \in DOMAIN tasks :
               /\ tasks'[i].dev = tasks[i].dev /\ tasks'[i].shape = tasks[i].shape
               /\ tasks'[i].st = tasks[i].st /\ tasks'[i].wc = tasks[i].wc - Cardinality(K(i))
    <2>1. DOMAIN tasks = 1..Len(tasks) /\ Len(tasks) \in Nat
      BY <1>0, TaskTypes
    <2>2. ASSUME NEW i \in DOMAIN tasks
          PROVE  /\ tasks'[i] \in Task /\ tasks'[i].dev = tasks[i].dev
                 /\ tasks'[i].shape = tasks[i].shape
                 /\ tasks'[i].st = tasks[i].st /\ tasks'[i].wc = tasks[i].wc - Cardinality(K(i))
      <3>a. PICK o : o = tasks[i]
        BY Zenon
      <3>b. PICK w : w = o.wc - Cardinality(K(i))
        BY Zenon
      <3>1. o \in Task
        BY <1>0, <3>a, TaskTypes
      <3>2. w \in Int
        <4>1. o.wc \in Int
          BY <3>1 DEF Task
        <4> QED BY <1>3, <3>b, <4>1
      <3>c. PICK r : r = [o EXCEPT !.wc = w]
        BY Zenon
      <3>3. tasks'[i] = r
        BY <1>2, <3>a, <3>b, <3>c
      <3>4. r \in Task /\ r.dev = o.dev /\ r.shape = o.shape /\ r.st = o.st /\ r.wc = w
        BY <3>1, <3>2, <3>c DEF Task
      <3> QED BY <3>3, <3>4, <3>a, <3>b
    <2>3. tasks' = [i \in 1..Len(tasks) |-> tasks'[i]]
      BY <1>2, <2>1
    <2>4. tasks' \in Seq(Task)
      BY <2>1, <2>2, <2>3
    <2> QED BY <1>2, <2>2, <2>4
  <1>5. Kept
    BY <1>4 DEF Kept
  <1>6. \A i \in DOMAIN tasks : tasks[i].st = "running" => tasks'[i].wc = tasks[i].wc
    <2> SUFFICES ASSUME NEW i \in DOMAIN tasks, tasks[i].st = "running"
                 PROVE  tasks'[i].wc = tasks[i].wc
      OBVIOUS
    <2>1. i \in Live /\ tasks[i].wc = 0
      BY <1>0 DEF Live, ThreadsAtTasks
    <2>2. \A k : <<"task", <<i, k>>>> \notin cbk[t][n]
      BY <1>0, <1>1, <2>1, NoCallbacks
    <2>3. K(i) = {}
      BY <2>2 DEF K
    <2>4. Cardinality(K(i)) = 0
      BY <2>3, FS_EmptySet
    <2>5. tasks'[i].wc = tasks[i].wc - 0
      BY <1>4, <2>4
    <2> QED BY <2>1, <2>5
  <1>7. ThreadsAtTasks' /\ SamePreps
    BY <1>0, <1>2, <1>4, <1>5, <1>6, SameThreads
  <1>8. /\ Live' = Live /\ Uses' = Uses /\ \A u : Written(u)' <=> Written(u)
    BY <1>0, <1>4, <1>5, SameUses
  <1>9. \A y \in Uses : Posting(y)' <=> Posting(y)
    <2> TAKE y \in Uses
    <2>1. DevOf(y)' = DevOf(y)
      BY <1>0, <1>5, UseKept
    <2> QED BY <1>2, <2>1 DEF Posting
  <1>10. /\ Pinned' = Pinned /\ Allocated' = Allocated /\ Asked' = Asked /\ Listed' = Listed
         /\ \A e \in Devices : SameSearch(e)
    <2>1. /\ Pinned' = Pinned \cap Uses' /\ Allocated' = Allocated \cap Uses'
          /\ Asked' = Asked \cap Uses' /\ Listed' = Listed \cap Uses'
          /\ \A e \in Devices : SameSearch(e)
      BY <1>0, <1>5, <1>7, <1>8, <1>9, SameViews
    <2> QED BY <1>8, <2>1, Subsets
  <1>11. CountersExact'
    <2> SUFFICES ASSUME NEW j \in Live
                 PROVE  tasks'[j].wc = Cardinality(Waiting(j)') + (IF tasks'[j].st = "prep" THEN 1 ELSE 0)
                            + (IF \E m \in DOMAIN Params(j)' : Posting(<<j, m>>)' THEN 1 ELSE 0)
      BY <1>8 DEF CountersExact
    <2>1. Params(j)' = Params(j) /\ tasks'[j].dev = tasks[j].dev /\ j \in DOMAIN tasks
          /\ tasks'[j].st = tasks[j].st /\ tasks'[j].wc = tasks[j].wc - Cardinality(K(j))
      BY <1>0, <1>4, TaskTypes DEF Params
    <2>2. \A m \in DOMAIN Params(j) : Params(j)[m][1] \in Tiles /\ tasks[j].dev \in Nodes
      <3> TAKE m \in DOMAIN Params(j)
      <3>1. <<j, m>> \in Uses
        BY UsePairs
      <3>2. TileOf(<<j, m>>) \in Tiles /\ DevOf(<<j, m>>) \in Nodes
        BY <1>0, <3>1, UseTypes, Places
      <3> QED BY <3>2 DEF TileOf, DevOf
    <2>3. \A m \in K(j) : Params(j)[m][1] = t /\ tasks[j].dev = n
      <3> TAKE m \in K(j)
      <3>a. PICK a : a = <<"task", <<j, m>>>>
        BY Zenon
      <3>1. a \in cbk[t][n] /\ a[1] = "task" /\ a[2] = <<j, m>>
        BY <3>a DEF K
      <3>2. TileOf(<<j, m>>) = t /\ DevOf(<<j, m>>) = n
        BY <1>0, <1>1, <3>1 DEF CallbacksOwned
      <3> QED BY <3>2 DEF TileOf, DevOf
    <2>4. \A u \in Tiles, m \in Nodes : cbk'[u][m] = IF u = t /\ m = n THEN {} ELSE cbk[u][m]
      BY <1>0, <1>1, <1>2 DEF Types
    <2>5. Waiting(j)' = Waiting(j) \ K(j) /\ K(j) \subseteq Waiting(j)
      <3>1. \A m \in DOMAIN Params(j) : m \in K(j) <=> <<"task", <<j, m>>>> \in cbk[t][n]
        BY DEF K
      <3>2. \A m \in K(j) : m \in DOMAIN Params(j)
        BY DEF K
      <3>3. Waiting(j)' = {m \in DOMAIN Params(j) :
                              <<"task", <<j, m>>>> \in cbk'[Params(j)[m][1]][tasks[j].dev]}
        BY <2>1 DEF Waiting
      <3> QED BY <2>2, <2>3, <2>4, <3>1, <3>2, <3>3 DEF Waiting
    <2>6. IsFiniteSet(Waiting(j)) /\ Cardinality(Waiting(j)) \in Nat
      BY <1>0, WaitingFinite
    <2>7. Cardinality(Waiting(j)') = Cardinality(Waiting(j)) - Cardinality(K(j))
      <3>1. Cardinality(Waiting(j) \ K(j)) = Cardinality(Waiting(j)) - Cardinality(Waiting(j) \cap K(j))
        BY <2>6, FS_Difference
      <3>2. Waiting(j) \cap K(j) = K(j)
        BY <2>5
      <3> QED BY <2>5, <3>1, <3>2
    <2>8. \A m \in DOMAIN Params(j) : Posting(<<j, m>>)' <=> Posting(<<j, m>>)
      BY <1>9, UsePairs
    <2>a. PICK p : p = (IF tasks[j].st = "prep" THEN 1 ELSE 0)
                       + (IF \E m \in DOMAIN Params(j) : Posting(<<j, m>>) THEN 1 ELSE 0)
      OBVIOUS
    <2>9. (IF tasks'[j].st = "prep" THEN 1 ELSE 0)
          + (IF \E m \in DOMAIN Params(j)' : Posting(<<j, m>>)' THEN 1 ELSE 0) = p
      BY <2>1, <2>8, <2>a
    <2>10. tasks[j].wc = Cardinality(Waiting(j)) + p /\ p \in Nat
      <3>1. tasks[j].wc = Cardinality(Waiting(j)) + (IF tasks[j].st = "prep" THEN 1 ELSE 0)
                          + (IF \E m \in DOMAIN Params(j) : Posting(<<j, m>>) THEN 1 ELSE 0)
        BY <1>0 DEF CountersExact
      <3> QED BY <2>6, <2>a, <3>1
    <2>b. PICK w : w = Cardinality(Waiting(j))
      BY Zenon
    <2>c. PICK h : h = Cardinality(K(j))
      BY Zenon
    <2>11. h \in Nat /\ w \in Nat /\ tasks'[j].wc = (w - h) + p
      BY <1>3, <2>1, <2>6, <2>10, <2>b, <2>c
    <2>12. Cardinality(Waiting(j)') = w - h
      BY <2>7, <2>b, <2>c
    <2>d. PICK q : q = Cardinality(Waiting(j)')
      BY Zenon
    <2>e. PICK p1 : p1 = IF tasks'[j].st = "prep" THEN 1 ELSE 0
      BY Zenon
    <2>f. PICK p2 : p2 = IF \E m \in DOMAIN Params(j)' : Posting(<<j, m>>)' THEN 1 ELSE 0
      BY Zenon
    <2>13. p1 + p2 = p /\ p1 \in Nat /\ p2 \in Nat /\ q = w - h
      BY <2>9, <2>12, <2>d, <2>e, <2>f
    <2>14. tasks'[j].wc = q + p1 + p2
      BY <2>11, <2>13
    <2> QED BY <2>14, <2>d, <2>e, <2>f
  <1> QED BY <1>4, <1>5, <1>7, <1>8, <1>9, <1>10, <1>11

\* One copy ends, and every request to forward at its destination becomes a copy.
LEMMA ReceiveServes ==
    ASSUME DsmInv, NEW c \in copies, Receive(c)
    PROVE  /\ FedOnce' /\ CopiesCurrent' /\ copies' \subseteq Transfers
           /\ xfer' \in [Tiles -> SUBSET Nodes] /\ cbk' \in [Tiles -> [Nodes -> SUBSET Actions]]
           /\ \A u \in Tiles : xfer'[u] = IF u = c.t THEN xfer[u] \ {c.dst} ELSE xfer[u]
           /\ \A u \in Tiles, n \in Nodes :
                 cbk'[u][n] = IF u = c.t /\ n = c.dst THEN {} ELSE cbk[u][n]
  <1>b. PICK n : n = c.dst
    BY Zenon
  <1>d. PICK t : t = c.t
    BY Zenon
  <1>e. PICK d : d = c.by
    BY Zenon
  <1>0. /\ Types /\ BlocksExact /\ CallbacksOwned /\ FedOnce /\ CopiesCurrent
    BY DEF DsmInv
  <1>1. /\ t \in Tiles /\ n \in Nodes /\ d \in Devices /\ cap[d] > 0 /\ n \in xfer[t]
        /\ c.to = blk[t][n] /\ (n # Host => blk[t][n] # 0) /\ Fed(t, n)
    BY <1>b, <1>d, <1>e, TheCopy DEF Fed
  <1>2. /\ xfer' = [xfer EXCEPT ![t] = @ \ {n}] /\ cbk' = [cbk EXCEPT ![t][n] = {}]
        /\ copies' = (copies \ {c}) \cup Forwards(c)
        /\ cap' = cap /\ blk' = blk /\ cur' = cur
    BY <1>b, <1>d DEF Receive
  <1>3. /\ xfer' \in [Tiles -> SUBSET Nodes]
        /\ \A u \in Tiles : xfer'[u] = IF u = t THEN xfer[u] \ {n} ELSE xfer[u]
    BY <1>0, <1>1, <1>2 DEF Types
  <1>4. /\ cbk' \in [Tiles -> [Nodes -> SUBSET Actions]]
        /\ \A u \in Tiles, m \in Nodes : cbk'[u][m] = IF u = t /\ m = n THEN {} ELSE cbk[u][m]
    BY <1>0, <1>1, <1>2 DEF Types
  <1>5. \A g : g \in Forwards(c) <=> \E q \in Nodes : Sends(t, n, q) /\ g = Copy(t, n, q, d)
    <2>1. ASSUME NEW f \in cbk[t][n], f[1] = "send"
          PROVE  f[2] \in Nodes /\ f = <<"send", f[2]>>
      <3>1. f \in Actions
        BY <1>0, <1>1 DEF Types
      <3> QED BY <2>1, <3>1 DEF Actions
    <2>2. Forwards(c) = {Copy(t, n, f[2], d) : f \in {g \in cbk[t][n] : g[1] = "send"}}
      BY <1>b, <1>d, <1>e DEF Forwards
    <2>3. ASSUME NEW g \in Forwards(c)
          PROVE  \E q \in Nodes : Sends(t, n, q) /\ g = Copy(t, n, q, d)
      <3>1. PICK f \in cbk[t][n] : f[1] = "send" /\ g = Copy(t, n, f[2], d)
        BY <2>2, <2>3
      <3> QED BY <2>1, <3>1 DEF Sends
    <2>4. ASSUME NEW q \in Nodes, Sends(t, n, q)
          PROVE  Copy(t, n, q, d) \in Forwards(c)
      <3>a. PICK f : f = <<"send", q>>
        BY Zenon
      <3>1. f \in cbk[t][n] /\ f[1] = "send" /\ f[2] = q
        BY <2>4, <3>a DEF Sends
      <3> QED BY <2>2, <3>1
    <2> QED BY <2>3, <2>4
  <1>6. \A q \in Nodes : LET g == Copy(t, n, q, d)
                         IN  /\ g.t = t /\ g.src = n /\ g.dst = q /\ g.by = d
                             /\ g.from = blk[t][n] /\ g.to = blk[t][q]
    BY DEF Copy
  <1>7. \A q \in Nodes : Sends(t, n, q) => q \in xfer[t] /\ q # n /\ ~ Fed(t, q)
    BY <1>0, <1>1 DEF FedOnce, Fed2
  <1>8. \A e \in copies : e.t \in Tiles /\ e.dst \in xfer[e.t] /\ e.dst \in Nodes
    BY <1>0 DEF FedOnce, Fed1, Types, Transfers
  <1>9. \A e \in copies : e.t = t /\ e.dst = n => e = c
    BY <1>0, <1>b, <1>d DEF FedOnce, Fed4
  <1>10. \A u \in Tiles, m \in Nodes :
            Fed(u, m)' <=> (Fed(u, m) /\ ~ (u = t /\ m = n)) \/ (u = t /\ Sends(t, n, m))
    <2> SUFFICES ASSUME NEW u \in Tiles, NEW m \in Nodes
                 PROVE  (\E e \in copies' : e.t = u /\ e.dst = m)
                        <=> (Fed(u, m) /\ ~ (u = t /\ m = n)) \/ (u = t /\ Sends(t, n, m))
      BY DEF Fed
    <2>1. ASSUME NEW e \in copies', e.t = u, e.dst = m
          PROVE  (Fed(u, m) /\ ~ (u = t /\ m = n)) \/ (u = t /\ Sends(t, n, m))
      <3>1. CASE e \in copies /\ e # c
        BY <1>9, <2>1, <3>1 DEF Fed
      <3>2. CASE e \in Forwards(c)
        BY <1>5, <1>6, <2>1, <3>2
      <3> QED BY <1>2, <3>1, <3>2
    <2>2. ASSUME Fed(u, m), ~ (u = t /\ m = n)
          PROVE  \E e \in copies' : e.t = u /\ e.dst = m
      <3>1. PICK e \in copies : e.t = u /\ e.dst = m
        BY <2>2 DEF Fed
      <3>2. e # c
        BY <1>b, <1>d, <2>2, <3>1
      <3> QED BY <1>2, <3>1, <3>2
    <2>3. ASSUME u = t, Sends(t, n, m)
          PROVE  \E e \in copies' : e.t = u /\ e.dst = m
      BY <1>2, <1>5, <1>6, <2>3
    <2> QED BY <2>1, <2>2, <2>3
  <1>11. \A u \in Tiles, l, m \in Nodes : Sends(u, l, m)' <=> Sends(u, l, m) /\ ~ (u = t /\ l = n)
    BY <1>4 DEF Sends
  <1>12. Fed1'
    <2> SUFFICES ASSUME NEW e \in copies'
                 PROVE  e.dst \in xfer'[e.t]
      BY DEF Fed1
    <2>1. CASE e \in copies /\ e # c
      BY <1>3, <1>8, <1>9, <2>1
    <2>2. CASE e \in Forwards(c)
      BY <1>1, <1>3, <1>5, <1>6, <1>7, <2>2
    <2> QED BY <1>2, <2>1, <2>2
  <1>13. Fed2'
    <2> SUFFICES ASSUME NEW u \in Tiles, NEW l \in Nodes, NEW m \in Nodes, Sends(u, l, m)'
                 PROVE  m \in xfer'[u] \ {l} /\ ~ Fed(u, m)'
      BY DEF Fed2
    <2>1. Sends(u, l, m) /\ ~ (u = t /\ l = n)
      BY <1>11
    <2>2. m \in xfer[u] \ {l} /\ ~ Fed(u, m)
      BY <1>0, <2>1 DEF FedOnce, Fed2
    <2>3. ~ (u = t /\ m = n)
      BY <1>1, <2>2
    <2>4. ~ (u = t /\ Sends(t, n, m))
      BY <1>0, <1>1, <2>1 DEF FedOnce, Fed5
    <2> QED BY <1>3, <1>10, <2>2, <2>3, <2>4
  <1>14. Fed3'
    <2> SUFFICES ASSUME NEW u \in Tiles, NEW m \in xfer'[u]
                 PROVE  Fed(u, m)' \/ \E l \in Nodes : Sends(u, l, m)'
      BY DEF Fed3
    <2>1. m \in xfer[u] /\ ~ (u = t /\ m = n) /\ m \in Nodes
      BY <1>3
    <2>2. CASE Fed(u, m)
      BY <1>10, <2>1, <2>2
    <2>3. CASE ~ Fed(u, m)
      <3>1. PICK l \in Nodes : Sends(u, l, m)
        BY <1>0, <2>1, <2>3 DEF FedOnce, Fed3
      <3> QED BY <1>10, <1>11, <2>1, <3>1
    <2> QED BY <2>2, <2>3
  <1>15. Fed4'
    <2> SUFFICES ASSUME NEW g \in copies', NEW e \in copies', g.t = e.t, g.dst = e.dst
                 PROVE  g = e
      BY DEF Fed4
    <2>1. CASE g \in copies /\ e \in copies
      BY <1>0, <2>1 DEF FedOnce, Fed4
    <2>2. CASE g \in Forwards(c) /\ e \in Forwards(c)
      BY <1>5, <1>6, <2>2
    <2>3. \A a \in copies, f \in Forwards(c) : ~ (a.t = f.t /\ a.dst = f.dst)
      <3> TAKE a \in copies, f \in Forwards(c)
      <3>1. PICK q \in Nodes : Sends(t, n, q) /\ f = Copy(t, n, q, d)
        BY <1>5
      <3>2. ~ Fed(t, q)
        BY <1>7, <3>1
      <3> QED BY <1>6, <3>1, <3>2 DEF Fed
    <2> QED BY <1>2, <2>1, <2>2, <2>3
  <1>16. Fed5'
    <2>1. \A u \in Tiles, l, m, q \in Nodes : Sends(u, l, q) /\ Sends(u, m, q) => l = m
      BY <1>0 DEF FedOnce, Fed5
    <2> QED BY <1>11, <2>1 DEF Fed5
  <1>17. FedOnce'
    BY <1>12, <1>13, <1>14, <1>15, <1>16 DEF FedOnce
  <1>18. /\ mem'[n][blk[t][n]] = <<t, cur[t]>>
         /\ \A u \in Tiles, m \in Nodes :
               /\ m # Host => blk[u][m] # 0
               /\ mem[m][blk[u][m]] = <<u, cur[u]>>
               => mem'[m][blk[u][m]] = <<u, cur[u]>>
    BY <1>b, <1>d, ReceiveMemory
  <1>19. CopiesCurrent'
    <2> SUFFICES ASSUME NEW g \in copies'
                 PROVE  /\ g.src # g.dst /\ cap'[g.by] > 0
                        /\ g.from = blk'[g.t][g.src] /\ (g.src # Host => g.from # 0)
                        /\ g.to = blk'[g.t][g.dst] /\ (g.dst # Host => g.to # 0)
                        /\ mem'[g.src][g.from] = <<g.t, cur'[g.t]>>
      BY DEF CopiesCurrent
    <2>1. CASE g \in copies
      <3>1. /\ g.src # g.dst /\ cap[g.by] > 0
            /\ g.from = blk[g.t][g.src] /\ (g.src # Host => g.from # 0)
            /\ g.to = blk[g.t][g.dst] /\ (g.dst # Host => g.to # 0)
            /\ mem[g.src][g.from] = <<g.t, cur[g.t]>>
        BY <1>0, <2>1 DEF CopiesCurrent
      <3>2. g.t \in Tiles /\ g.src \in Nodes
        BY <1>0, <2>1 DEF Types, Transfers
      <3>3. PICK a : a = g.from
        BY Zenon
      <3>4. /\ a = blk[g.t][g.src] /\ (g.src # Host => a # 0)
            /\ mem[g.src][a] = <<g.t, cur[g.t]>>
        BY <3>1, <3>3, Zenon
      <3>5. /\ g.src # Host => blk[g.t][g.src] # 0
            /\ mem[g.src][blk[g.t][g.src]] = <<g.t, cur[g.t]>>
        BY <3>4, Zenon
      <3>6. mem'[g.src][blk[g.t][g.src]] = <<g.t, cur[g.t]>>
        BY <1>18, <3>2, <3>5, Zenon
      <3>7. cap' = cap /\ blk' = blk /\ cur' = cur
        BY <1>2
      <3>8. mem'[g.src][g.from] = <<g.t, cur'[g.t]>>
        BY <3>3, <3>4, <3>6, <3>7, Zenon
      <3> QED BY <3>1, <3>7, <3>8, Zenon
    <2>2. CASE g \in Forwards(c)
      <3>1. PICK q \in Nodes : Sends(t, n, q) /\ g = Copy(t, n, q, d)
        BY <1>5, <2>2
      <3>2. q \in xfer[t] /\ q # n
        BY <1>7, <3>1
      <3>3. q # Host => blk[t][q] # 0
        BY <1>0, <1>1, <3>2, UnderTransfer
      <3> QED BY <1>1, <1>2, <1>6, <1>18, <3>1, <3>2, <3>3
    <2> QED BY <1>2, <2>1, <2>2
  <1>20. copies' \subseteq Transfers
    <2>1. \A q \in Nodes : Copy(t, n, q, d) \in Transfers
      <3> TAKE q \in Nodes
      <3>1. blk[t][n] \in Blocks /\ blk[t][q] \in Blocks
        BY <1>0, <1>1 DEF Types
      <3> QED BY <1>1, <3>1 DEF Copy, Transfers
    <2>2. copies \subseteq Transfers
      BY <1>0 DEF Types
    <2> QED BY <1>2, <1>5, <2>1, <2>2
  <1> QED BY <1>3, <1>4, <1>17, <1>19, <1>20, <1>b, <1>d

\* Receive: the destination of the copy is valid and nobody waits there.
LEMMA ReceiveKeeps ==
    ASSUME DsmInv, NEW c \in copies, Receive(c)
    PROVE  DsmInv'
  <1>b. PICK n : n = c.dst
    BY Zenon
  <1>d. PICK t : t = c.t
    BY Zenon
  <1>0. /\ Types /\ ThreadsAtTasks /\ Apart /\ PinsExact /\ BlocksExact /\ CountersExact
        /\ CallbacksOwned /\ HostUnwritten /\ FedOnce /\ CopiesCurrent /\ ValidExact
        /\ InputsServed /\ SourceStays /\ VictimStays /\ DirtyListed
    BY DEF DsmInv
  <1>1. /\ t \in Tiles /\ n \in Nodes /\ n \in xfer[t] /\ (n # Host => blk[t][n] # 0)
        /\ c.by \in Devices /\ cap[c.by] > 0
    BY <1>b, <1>d, TheCopy
  <1>2. /\ Kept /\ ThreadsAtTasks' /\ tasks' \in Seq(Task) /\ CountersExact'
        /\ Live' = Live /\ Uses' = Uses /\ \A u : Written(u)' <=> Written(u)
        /\ Pinned' = Pinned /\ Allocated' = Allocated /\ Asked' = Asked /\ Listed' = Listed
        /\ \A e \in Devices : SameSearch(e)
    BY ReceiveTasks
  <1>3. /\ DOMAIN mem' = Nodes /\ mem'[Host] \in [Tiles -> Contents]
        /\ \A e \in Devices : mem'[e] \in [1..cap[e] -> Contents]
        /\ mem'[n][blk[t][n]] = <<t, cur[t]>>
        /\ \A u \in Tiles, m \in Nodes :
               /\ m # Host => blk[u][m] # 0
               /\ mem[m][blk[u][m]] = <<u, cur[u]>>
               => mem'[m][blk[u][m]] = <<u, cur[u]>>
    BY <1>b, <1>d, ReceiveMemory
  <1>4. /\ FedOnce' /\ CopiesCurrent' /\ copies' \subseteq Transfers
        /\ xfer' \in [Tiles -> SUBSET Nodes] /\ cbk' \in [Tiles -> [Nodes -> SUBSET Actions]]
        /\ \A u \in Tiles : xfer'[u] = IF u = t THEN xfer[u] \ {n} ELSE xfer[u]
        /\ \A u \in Tiles, m \in Nodes :
               cbk'[u][m] = IF u = t /\ m = n THEN {} ELSE cbk[u][m]
    <2>1. /\ FedOnce' /\ CopiesCurrent' /\ copies' \subseteq Transfers
          /\ xfer' \in [Tiles -> SUBSET Nodes] /\ cbk' \in [Tiles -> [Nodes -> SUBSET Actions]]
      BY ReceiveServes
    <2>2. \A u \in Tiles : xfer'[u] = IF u = c.t THEN xfer[u] \ {c.dst} ELSE xfer[u]
      BY ReceiveServes
    <2>3. \A u \in Tiles, m \in Nodes :
               cbk'[u][m] = IF u = c.t /\ m = c.dst THEN {} ELSE cbk[u][m]
      BY ReceiveServes
    <2> QED BY <1>b, <1>d, <2>1, <2>2, <2>3
  <1>5. /\ valid' = [valid EXCEPT ![t] = @ \cup {n}]
        /\ mishaps' = mishaps
        /\ cap' = cap /\ blk' = blk /\ pin' = pin /\ ro' = ro /\ rw' = rw /\ cur' = cur
        /\ thr' = thr
    BY <1>b, <1>d DEF Receive, listVars
  <1>6. /\ valid' \in [Tiles -> SUBSET Nodes]
        /\ \A u \in Tiles : valid'[u] = IF u = t THEN valid[u] \cup {n} ELSE valid[u]
    BY <1>0, <1>1, <1>5 DEF Types
  <1>7. Types'
    BY <1>0, <1>2, <1>3, <1>4, <1>5, <1>6 DEF Types
  <1>8. Apart' /\ PinsExact'
    BY <1>0, <1>2, <1>5, FrameApart, FramePins
  <1>9. BlocksExact'
    <2>1. ASSUME NEW y \in Allocated'
          PROVE  blk'[TileOf(y)'][DevOf(y)'] # 0
      <3>1. y \in Allocated /\ y \in Uses
        BY <1>2, Subsets
      <3>2. TileOf(y)' = TileOf(y) /\ DevOf(y)' = DevOf(y)
        BY <1>0, <1>2, <3>1, UseKept
      <3> QED BY <1>0, <1>5, <3>1, <3>2 DEF BlocksExact
    <2>2. \A u \in Tiles, e \in Devices : e \in valid'[u] => blk'[u][e] # 0
      BY <1>0, <1>1, <1>5, <1>6, Places DEF BlocksExact
    <2>3. ASSUME NEW e \in Devices, Prep(e)'.pc \in {"alloc", "unset"}
          PROVE  blk'[TileOf(At(e))'][e] = 0
      <3>1. Prep(e).pc \in {"alloc", "unset"} /\ TileOf(At(e))' = TileOf(At(e))
        BY <1>0, <1>2, <2>3, SameSearchTile
      <3> QED BY <1>0, <1>5, <3>1 DEF BlocksExact
    <2> QED BY <1>0, <1>5, <2>1, <2>2, <2>3 DEF BlocksExact
  <1>10. \A y \in Uses : TileOf(y)' = TileOf(y) /\ DevOf(y)' = DevOf(y) /\ ModeOf(y)' = ModeOf(y)
    BY <1>0, <1>2, UseKept
  <1>11. CallbacksOwned'
    <2>1. \A u \in Tiles, m \in Nodes : cbk'[u][m] # {} => m \in xfer'[u]
      <3> TAKE u \in Tiles, m \in Nodes
      <3>1. cbk[u][m] # {} => m \in xfer[u]
        BY <1>0 DEF CallbacksOwned
      <3> QED BY <1>4, <3>1
    <2>2. ASSUME NEW u \in Tiles, NEW m \in Nodes, NEW a \in cbk'[u][m], a[1] = "task"
          PROVE  /\ a[2] \in Asked' /\ Reads(ModeOf(a[2])')
                 /\ TileOf(a[2])' = u /\ DevOf(a[2])' = m
      <3>a. PICK y : y = a[2]
        BY Zenon
      <3>1. a \in cbk[u][m]
        BY <1>4, <2>2
      <3>2. y \in Asked /\ Reads(ModeOf(y)) /\ TileOf(y) = u /\ DevOf(y) = m
        BY <1>0, <2>2, <3>1, <3>a DEF CallbacksOwned
      <3> QED BY <1>2, <1>10, <3>2, <3>a, Subsets
    <2>3. ASSUME NEW u \in Tiles, NEW e \in Devices, e \in xfer'[u]
          PROVE  \E y \in Uses' : <<"task", y>> \in cbk'[u][e]
      <3>1. e \in xfer[u] /\ e \in Nodes /\ ~ (u = t /\ e = n)
        BY <1>4, <2>3, Places
      <3>2. PICK y \in Uses : <<"task", y>> \in cbk[u][e]
        BY <1>0, <3>1 DEF CallbacksOwned
      <3> QED BY <1>2, <1>4, <3>1, <3>2
    <2> QED BY <2>1, <2>2, <2>3 DEF CallbacksOwned
  <1>12. HostUnwritten'
    BY <1>0, <1>2, <1>4 DEF HostUnwritten
  <1>13. \A u : Dirtying(u)' = Dirtying(u) /\ \A y \in Dirtying(u) : DevOf(y)' = DevOf(y)
    BY <1>0, <1>2, SameDirtying
  <1>14. ValidExact'
    <2>1. ASSUME NEW u \in Tiles, NEW y \in Dirtying(u)
          PROVE  valid'[u] = {DevOf(y)}
      <3>1. valid[u] = {DevOf(y)}
        BY <1>0 DEF ValidExact
      <3>2. CASE u = t
        <4>1. y \in Uses /\ TileOf(y) = t /\ Writes(ModeOf(y))
          BY <3>2, Subsets DEF Dirtying
        <4>2. n # Host
          BY <1>0, <1>1, <4>1, WrittenUses DEF HostUnwritten
        <4>3. n \in Devices
          BY <1>1, <4>2, Places
        <4>4. PICK z \in Uses : <<"task", z>> \in cbk[t][n]
          BY <1>0, <1>1, <4>3 DEF CallbacksOwned
        <4>5. TileOf(z) = t /\ DevOf(z) = n
          BY <1>0, <1>1, <4>4 DEF CallbacksOwned
        <4>6. z = y
          BY <1>0, <4>1, <4>5, OneUse
        <4> QED BY <1>6, <3>1, <3>2, <4>5, <4>6
      <3>3. CASE u # t
        BY <1>6, <3>1, <3>3
      <3> QED BY <3>2, <3>3
    <2>2. ASSUME NEW u \in Tiles, Dirtying(u) = {}
          PROVE  /\ valid'[u] # {} /\ valid'[u] \cap xfer'[u] = {}
                 /\ \A m \in valid'[u] : mem'[m][blk'[u][m]] = <<u, cur'[u]>>
      <3>1. /\ valid[u] # {} /\ valid[u] \cap xfer[u] = {}
            /\ \A m \in valid[u] : mem[m][blk[u][m]] = <<u, cur[u]>>
        BY <1>0, <2>2 DEF ValidExact
      <3>2. \A m \in valid[u] : m \in Nodes /\ (m # Host => blk[u][m] # 0)
        BY <1>0, Places DEF BlocksExact, Types
      <3>3. ASSUME NEW m \in valid'[u]
            PROVE  mem'[m][blk[u][m]] = <<u, cur[u]>>
        <4>1. CASE m \in valid[u]
          BY <1>3, <3>1, <3>2, <4>1
        <4>2. CASE m \notin valid[u]
          <5>1. u = t /\ m = n
            BY <1>6, <4>2
          <5> QED BY <1>3, <5>1
        <4> QED BY <4>1, <4>2
      <3> QED BY <1>4, <1>5, <1>6, <3>1, <3>3
    <2> QED BY <1>13, <2>1, <2>2 DEF ValidExact
  <1>15. InputsServed'
    <2>1. ASSUME NEW y \in Asked, Reads(ModeOf(y))
          PROVE  \/ <<"task", y>> \in cbk'[TileOf(y)][DevOf(y)]
                 \/ mem'[DevOf(y)][blk[TileOf(y)][DevOf(y)]] = <<TileOf(y), cur[TileOf(y)]>>
      <3>1. /\ TileOf(y) \in Tiles /\ DevOf(y) \in Nodes /\ DevOf(y) # Host
            /\ blk[TileOf(y)][DevOf(y)] # 0
        BY <1>0, UseTypes, Places, Subsets DEF BlocksExact
      <3>2. CASE <<"task", y>> \in cbk[TileOf(y)][DevOf(y)]
        <4>1. CASE TileOf(y) = t /\ DevOf(y) = n
          BY <1>3, <4>1
        <4>2. CASE ~ (TileOf(y) = t /\ DevOf(y) = n)
          BY <1>4, <3>1, <3>2, <4>2
        <4> QED BY <4>1, <4>2
      <3>3. CASE mem[DevOf(y)][blk[TileOf(y)][DevOf(y)]] = <<TileOf(y), cur[TileOf(y)]>>
        BY <1>3, <3>1, <3>3
      <3> QED BY <1>0, <2>1, <3>2, <3>3 DEF InputsServed
    <2>2. \A y \in Asked : TileOf(y)' = TileOf(y) /\ DevOf(y)' = DevOf(y) /\ ModeOf(y)' = ModeOf(y)
      BY <1>10, Subsets
    <2> QED BY <1>2, <1>5, <2>1, <2>2 DEF InputsServed
  <1>16. SourceStays'
    <2> SUFFICES ASSUME NEW e \in Devices, thr'[e].pc = "post"
                 PROVE  thr'[e].src \in valid'[Tile(e)'] \cup xfer'[Tile(e)']
      BY DEF SourceStays
    <2>1. thr[e].pc = "post" /\ thr'[e] = thr[e]
      BY <1>5
    <2>2. thr[e].i \in DOMAIN tasks /\ Tile(e) \in Tiles
      BY <1>0, <2>1, PostTile
    <2>3. Tile(e)' = Tile(e)
      BY <1>2, <2>1, <2>2 DEF Tile, Param, Params, Kept
    <2>4. thr[e].src \in valid[Tile(e)] \cup xfer[Tile(e)]
      BY <1>0, <2>1 DEF SourceStays
    <2> QED BY <1>4, <1>6, <2>1, <2>2, <2>3, <2>4
  <1>17. VictimStays'
    BY <1>0, <1>5, FrameVictim
  <1>18. DirtyListed'
    <2>1. \A u \in Tiles : valid[u] \subseteq valid'[u]
      BY <1>6
    <2>2. ASSUME "unlisted" \notin mishaps, NEW u \in Tiles, Dirtying(u) = {},
                 Host \notin valid'[u]
          PROVE  \E e \in valid'[u] : u \in Range(rw'[e])
      BY <1>0, <1>5, <2>1, <2>2 DEF DirtyListed
    <2> QED BY <1>0, <1>5, <1>13, <2>2 DEF DirtyListed
  <1> QED BY <1>2, <1>4, <1>7, <1>8, <1>9, <1>11, <1>12, <1>14, <1>15, <1>16, <1>17, <1>18
       DEF DsmInv

-----------------------------------------------------------------------------
(* The kernels.                                                            *)

\* A task that the pipeline has inserted waits for nothing.
LEMMA InsertedWaits ==
    ASSUME Types, NEW i \in DOMAIN tasks, tasks[i].st = "pending", Inserted(i)
    PROVE  i \in Live /\ tasks[i].wc = 0
  <1>1. i \in Live /\ i \in Nat
    BY TaskTypes DEF Live
  <1> QED BY <1>1 DEF Inserted

\* The parameters of a task that are one tile are finitely many.
LEMMA OnFinite ==
    ASSUME Types, Apart, NEW i \in Live
    PROVE  /\ \A t : IsFiniteSet(On(i, t)) /\ Cardinality(On(i, t)) \in Nat
           /\ tasks[i].dev \in Devices /\ cap[tasks[i].dev] > 0
  <1>1. Params(i) \in Seq(Tiles \X Modes) /\ Params(i) # <<>> /\ cap[tasks[i].dev] > 0
    BY DsmAssumption DEF Apart
  <1>2. DOMAIN Params(i) = 1..Len(Params(i)) /\ Len(Params(i)) \in Nat /\ Len(Params(i)) > 0
    BY <1>1
  <1>3. IsFiniteSet(DOMAIN Params(i))
    BY <1>2, FS_Interval
  <1>4. \A t : On(i, t) \in SUBSET DOMAIN Params(i)
    BY DEF On
  <1>5. \A t : IsFiniteSet(On(i, t)) /\ Cardinality(On(i, t)) \in Nat
    BY <1>3, <1>4, FS_Subset, FS_CardinalityType
  <1>6. tasks[i].dev \in Devices
    BY TaskTypes DEF Task
  <1>7. cap[tasks[i].dev] \in Nat
    BY <1>6, DsmAssumption DEF Types
  <1> QED BY <1>1, <1>2, <1>5, <1>6, <1>7

\* What the end of a task on its stream keeps.
LEMMA EndsFrames ==
    ASSUME DsmInv, NEW i \in Live, Ends(i), tasks[i].st = "pending", tasks[i].wc = 0,
           thr' = thr, cap' = cap, blk' = blk, valid' = valid, xfer' = xfer, cbk' = cbk,
           copies' = copies,
           \A t \in Tiles, d \in Devices :
               pin'[t][d] = pin[t][d] - (IF d = tasks[i].dev THEN Cardinality(On(i, t)) ELSE 0)
    PROVE  /\ Kept /\ ThreadsAtTasks' /\ Apart' /\ PinsExact' /\ BlocksExact' /\ CountersExact'
           /\ CallbacksOwned' /\ HostUnwritten' /\ FedOnce' /\ SourceStays'
           /\ tasks' \in Seq(Task)
           /\ Uses' = {y \in Uses : y[1] # i}
           /\ \A y \in Uses : y[1] = i => y \in Pinned /\ y \in Allocated /\ y \in Listed
           /\ Asked' = {y \in Asked : y[1] # i} /\ Listed' = {y \in Listed : y[1] # i}
           /\ \A y \in Uses : TileOf(y)' = TileOf(y) /\ DevOf(y)' = DevOf(y) /\ ModeOf(y)' = ModeOf(y)
           /\ \A u \in Tiles, n \in Nodes : \A k : <<"task", <<i, k>>>> \notin cbk[u][n]
  <1>0. /\ Types /\ ThreadsAtTasks /\ Apart /\ PinsExact /\ BlocksExact /\ CountersExact
        /\ CallbacksOwned /\ HostUnwritten /\ FedOnce /\ SourceStays
    BY DEF DsmInv
  <1>1. /\ Kept /\ ThreadsAtTasks' /\ tasks' \in Seq(Task)
        /\ Live' = Live \ {i} /\ Uses' = {x \in Uses : x[1] # i}
        /\ \A t : Written(t)' => Written(t)
        /\ \A j \in DOMAIN tasks : j # i => tasks'[j] = tasks[j]
        /\ \A x \in Uses : Posting(x)' <=> Posting(x)
        /\ \A x \in Uses : x[1] = i => x \in Pinned /\ x \in Allocated /\ x \in Listed
        /\ Pinned' = {x \in Pinned : x[1] # i} /\ Allocated' = {x \in Allocated : x[1] # i}
        /\ Asked' = {x \in Asked : x[1] # i} /\ Listed' = {x \in Listed : x[1] # i}
        /\ \A e \in Devices : SameSearch(e)
        /\ \A e \in Devices : thr'[e].pc = "post" => thr'[e] = thr[e]
    BY <1>0, EndsKeeps
  <1>2. PinsExact'
    BY <1>0, <1>1, EndsPins
  <1>3. Apart' /\ BlocksExact' /\ HostUnwritten' /\ FedOnce'
    BY <1>0, <1>1, FrameApart, FrameBlocks, FrameHost, FrameFed
  <1>4. \A u \in Tiles, n \in Nodes : \A k : <<"task", <<i, k>>>> \notin cbk[u][n]
    BY <1>0, NoCallbacks
  <1>5. \A y \in Uses : TileOf(y)' = TileOf(y) /\ DevOf(y)' = DevOf(y) /\ ModeOf(y)' = ModeOf(y)
    BY <1>0, <1>1, UseKept
  <1>6. CountersExact'
    <2>1. \A j \in Live' : j \in DOMAIN tasks /\ j \in Live /\ tasks'[j] = tasks[j]
      BY <1>0, <1>1, TaskTypes
    <2>2. \A j \in Live' : \A k \in DOMAIN Params(j) : Posting(<<j, k>>)' <=> Posting(<<j, k>>)
      BY <1>1, <2>1, UsePairs
    <2>3. \A j \in Live' : /\ tasks'[j].wc = tasks[j].wc
                           /\ tasks'[j].st = "prep" <=> tasks[j].st = "prep"
      BY <2>1
    <2> QED BY <1>0, <1>1, <2>2, <2>3, FrameCounters
  <1>7. CallbacksOwned'
    <2>1. \A u \in Tiles, n \in Nodes : cbk'[u][n] # {} => n \in xfer'[u]
      BY <1>0 DEF CallbacksOwned
    <2>2. ASSUME NEW u \in Tiles, NEW n \in Nodes, NEW a \in cbk'[u][n], a[1] = "task"
          PROVE  /\ a[2] \in Asked' /\ Reads(ModeOf(a[2])')
                 /\ TileOf(a[2])' = u /\ DevOf(a[2])' = n
      <3>a. PICK y : y = a[2]
        BY Zenon
      <3>1. a \in cbk[u][n]
        BY <2>2
      <3>2. y \in Asked /\ Reads(ModeOf(y)) /\ TileOf(y) = u /\ DevOf(y) = n
        BY <1>0, <2>2, <3>1, <3>a DEF CallbacksOwned
      <3>3. y = <<y[1], y[2]>> /\ a = <<"task", y>>
        <4>1. a \in Actions
          BY <1>0, <3>1 DEF Types
        <4>2. a = <<a[1], a[2]>>
          BY <4>1 DEF Actions
        <4> QED BY <2>2, <3>2, <3>a, <4>2, UsePairs, Subsets
      <3>4. y[1] # i
        BY <1>4, <3>1, <3>3
      <3> QED BY <1>1, <1>5, <3>2, <3>4, <3>a, Subsets
    <2>3. ASSUME NEW u \in Tiles, NEW e \in Devices, e \in xfer'[u]
          PROVE  \E y \in Uses' : <<"task", y>> \in cbk'[u][e]
      <3>1. e \in xfer[u] /\ e \in Nodes
        BY <2>3, Places
      <3>2. PICK y \in Uses : <<"task", y>> \in cbk[u][e]
        BY <1>0, <3>1 DEF CallbacksOwned
      <3>3. y[1] # i
        BY <1>4, <3>1, <3>2, UsePairs
      <3> QED BY <1>1, <3>2, <3>3
    <2> QED BY <2>1, <2>2, <2>3 DEF CallbacksOwned
  <1>8. SourceStays'
    BY <1>0, <1>1, FrameSource
  <1> QED BY <1>1, <1>2, <1>3, <1>4, <1>5, <1>6, <1>7, <1>8

\* The tiles that task i writes.
Out(i) == {t \in Tiles : \E k \in On(i, t) : Writes(Params(i)[k][2])}

\* While the kernel of i runs, a tile it writes is nowhere else.
LEMMA OutAlone ==
    ASSUME DsmInv, NEW i \in Live, tasks[i].st = "pending", tasks[i].wc = 0, NEW t \in Out(i)
    PROVE  /\ \A y \in Uses : TileOf(y) = t => y[1] = i /\ y \in Allocated
           /\ \E x \in Dirtying(t) : x[1] = i /\ DevOf(x) = tasks[i].dev
           /\ valid[t] = {tasks[i].dev} /\ xfer[t] = {} /\ \A c \in copies : c.t # t
           /\ blk[t][tasks[i].dev] # 0
  <1>0. /\ Types /\ Apart /\ BlocksExact /\ CountersExact /\ CallbacksOwned /\ HostUnwritten
        /\ FedOnce /\ ValidExact
    BY DEF DsmInv
  <1>1. PICK k \in On(i, t) : Writes(Params(i)[k][2])
    BY DEF Out
  <1>2. PICK x : x = <<i, k>>
    BY Zenon
  <1>3. t \in Tiles /\ x \in Uses /\ TileOf(x) = t /\ Writes(ModeOf(x)) /\ DevOf(x) = tasks[i].dev
        /\ x[1] = i /\ tasks[i].dev \in Devices
    <2>1. x \in Uses
      BY <1>1, <1>2, UsePairs DEF On
    <2>2. TileOf(x) = t /\ Writes(ModeOf(x)) /\ DevOf(x) = tasks[i].dev /\ x[1] = i
      BY <1>1, <1>2 DEF On, TileOf, ModeOf, DevOf
    <2> QED BY <1>0, <2>1, <2>2, UseTypes
  <1>4. \A y \in Uses : TileOf(y) = t => y = x
    BY <1>0, <1>3, OneUse
  <1>5. x \in Allocated /\ x \in Listed
    BY <1>3 DEF Allocated, Listed, Behind
  <1>6. x \in Dirtying(t)
    BY <1>3, <1>5 DEF Dirtying
  <1>7. valid[t] = {tasks[i].dev} /\ blk[t][tasks[i].dev] # 0
    BY <1>0, <1>3, <1>5, <1>6 DEF ValidExact, BlocksExact
  <1>8. xfer[t] = {}
    <2>1. Host \notin xfer[t]
      BY <1>0, <1>3, WrittenUses DEF HostUnwritten
    <2>2. ASSUME NEW e \in Devices, e \in xfer[t]
          PROVE  FALSE
      <3>1. PICK y \in Uses : <<"task", y>> \in cbk[t][e]
        BY <1>0, <1>3, <2>2 DEF CallbacksOwned
      <3>2. e \in Nodes
        BY Places
      <3>3. TileOf(y) = t
        BY <1>0, <1>3, <3>1, <3>2 DEF CallbacksOwned
      <3>4. y = <<i, k>>
        BY <1>2, <1>4, <3>3
      <3>5. <<"task", <<i, k>>>> \notin cbk[t][e]
        BY <1>0, <1>3, <3>2, NoCallbacks
      <3> QED BY <3>1, <3>4, <3>5
    <2>3. xfer[t] \subseteq Nodes
      BY <1>0, <1>3 DEF Types
    <2> QED BY <2>1, <2>2, <2>3, Places
  <1>9. \A c \in copies : c.t # t
    BY <1>0, <1>8 DEF FedOnce, Fed1
  <1> QED BY <1>3, <1>4, <1>5, <1>6, <1>7, <1>8, <1>9


\* A kernel writes the blocks of its output tiles and no other.
LEMMA RunMemory ==
    ASSUME DsmInv, NEW i \in Live, tasks[i].st = "pending", tasks[i].wc = 0, Run(i)
    PROVE  /\ DOMAIN mem' = Nodes /\ mem'[Host] \in [Tiles -> Contents]
           /\ \A d \in Devices : mem'[d] \in [1..cap[d] -> Contents]
           /\ cur' \in [Tiles -> Nat]
           /\ \A u \in Out(i) : mem'[tasks[i].dev][blk[u][tasks[i].dev]] = <<u, cur'[u]>>
           /\ \A u \in Tiles, n \in Nodes :
                 u \notin Out(i) /\ (n # Host => blk[u][n] # 0)
                 => mem'[n][blk[u][n]] = mem[n][blk[u][n]] /\ cur'[u] = cur[u]
  <1>a. PICK d : d = tasks[i].dev
    BY Zenon
  <1>b. PICK out : out = Out(i)
    BY Zenon
  <1>0. Types /\ Apart /\ BlocksExact
    BY DEF DsmInv
  <1>1. d \in Devices /\ d \in Nodes /\ d # Host
    BY <1>0, <1>a, OnFinite, Places
  <1>2. /\ cur' = [t \in Tiles |-> IF t \in out THEN cur[t] + 1 ELSE cur[t]]
        /\ mem' = [mem EXCEPT ![d] = [b \in DOMAIN mem[d] |->
              IF \E t \in out : blk[t][d] = b
                 THEN LET t == CHOOSE u \in out : blk[u][d] = b IN <<t, cur[t] + 1>>
                 ELSE mem[d][b]]]
    <2>1. out = {t \in Tiles : \E k \in {k \in DOMAIN Params(i) : Params(i)[k][1] = t} :
                                   Writes(Params(i)[k][2])}
      BY <1>b DEF Out, On
    <2> QED BY <1>a, <2>1 DEF Run
  <1>3. /\ DOMAIN mem = Nodes /\ mem[Host] \in [Tiles -> Contents]
        /\ \A e \in Devices : mem[e] \in [1..cap[e] -> Contents]
        /\ cur \in [Tiles -> Nat]
    BY <1>0 DEF Types
  <1>4. cur' \in [Tiles -> Nat] /\ \A u \in Tiles : cur'[u] = IF u \in out THEN cur[u] + 1 ELSE cur[u]
    BY <1>2, <1>3
  <1>5. /\ \A u \in out : u \in Tiles /\ blk[u][d] # 0 /\ blk[u][d] \in 1..cap[d]
        /\ \A u \in out, v \in Tiles : blk[u][d] = blk[v][d] => u = v
    <2>1. \A u \in out : u \in Tiles /\ blk[u][d] # 0
      BY <1>a, <1>b, OutAlone DEF Out
    <2>2. \A u \in Tiles : blk[u][d] \in 0..cap[d]
      BY <1>0, <1>1 DEF BlocksExact
    <2>3. cap[d] \in Nat
      BY <1>0, <1>1, DsmAssumption DEF Types
    <2>4. \A u \in out : blk[u][d] \in 1..cap[d]
      BY <2>1, <2>2, <2>3
    <2> QED BY <1>0, <1>1, <2>1, <2>4 DEF BlocksExact
  <1>6. /\ DOMAIN mem' = Nodes /\ \A e \in Nodes : e # d => mem'[e] = mem[e]
        /\ mem'[d] = [b \in 1..cap[d] |->
              IF \E t \in out : blk[t][d] = b
                 THEN LET t == CHOOSE u \in out : blk[u][d] = b IN <<t, cur[t] + 1>>
                 ELSE mem[d][b]]
    <2>1. DOMAIN mem[d] = 1..cap[d]
      BY <1>1, <1>3
    <2> QED BY <1>1, <1>2, <1>3, <2>1
  <1>7. \A u \in out : mem'[d][blk[u][d]] = <<u, cur'[u]>>
    <2> TAKE u \in out
    <2>1. PICK b : b = blk[u][d]
      BY Zenon
    <2>2. (CHOOSE v \in out : blk[v][d] = b) = u
      BY <1>5, <2>1
    <2>3. b \in 1..cap[d] /\ \E v \in out : blk[v][d] = b
      BY <1>5, <2>1
    <2>4. mem'[d][b] = <<u, cur[u] + 1>>
      BY <1>6, <2>2, <2>3
    <2> QED BY <1>4, <1>5, <2>1, <2>4
  <1>8. \A b \in 1..cap[d] : (\A u \in out : blk[u][d] # b) => mem'[d][b] = mem[d][b]
    BY <1>6
  <1>9. mem'[d] \in [1..cap[d] -> Contents]
    <2>1. ASSUME NEW b \in 1..cap[d]
          PROVE  mem'[d][b] \in Contents
      <3>1. CASE \E u \in out : blk[u][d] = b
        <4>1. PICK u \in out : blk[u][d] = b
          BY <3>1
        <4>2. mem'[d][b] = <<u, cur'[u]>> /\ u \in Tiles /\ cur'[u] \in Nat
          BY <1>4, <1>5, <1>7, <4>1
        <4> QED BY <4>2 DEF Contents
      <3>2. CASE ~ \E u \in out : blk[u][d] = b
        <4>1. mem'[d][b] = mem[d][b]
          BY <1>8, <3>2
        <4> QED BY <1>1, <1>3, <4>1
      <3> QED BY <3>1, <3>2
    <2>2. mem'[d] = [b \in 1..cap[d] |-> mem'[d][b]]
      BY <1>6
    <2> QED BY <2>1, <2>2
  <1>10. ASSUME NEW u \in Tiles, NEW n \in Nodes, u \notin out, n # Host => blk[u][n] # 0
         PROVE  mem'[n][blk[u][n]] = mem[n][blk[u][n]] /\ cur'[u] = cur[u]
    <2>1. cur'[u] = cur[u]
      BY <1>4, <1>10
    <2>2. CASE n # d
      BY <1>6, <2>1, <2>2
    <2>3. CASE n = d
      <3>1. \A v \in out : blk[v][d] # blk[u][d]
        BY <1>5, <1>10
      <3>2. blk[u][d] \in 1..cap[d]
        <4>1. blk[u][d] \in 0..cap[d] /\ cap[d] \in Nat
          BY <1>0, <1>1, DsmAssumption DEF BlocksExact, Types
        <4> QED BY <1>1, <1>10, <2>3, <4>1
      <3> QED BY <1>8, <2>1, <2>3, <3>1, <3>2
    <2> QED BY <2>2, <2>3
  <1>11. mem'[Host] \in [Tiles -> Contents]
         /\ \A e \in Devices : mem'[e] \in [1..cap[e] -> Contents]
    <2>1. mem'[Host] \in [Tiles -> Contents]
      BY <1>1, <1>3, <1>6, Places
    <2>2. ASSUME NEW e \in Devices
          PROVE  mem'[e] \in [1..cap[e] -> Contents]
      <3>1. CASE e = d
        BY <1>9, <3>1
      <3>2. CASE e # d
        BY <1>3, <1>6, <3>2, Places
      <3> QED BY <3>1, <3>2
    <2> QED BY <2>1, <2>2
  <1>12. DOMAIN mem' = Nodes
    BY <1>6
  <1>13. \A u \in Out(i) : mem'[tasks[i].dev][blk[u][tasks[i].dev]] = <<u, cur'[u]>>
    BY <1>7, <1>a, <1>b, Zenon
  <1>14. \A u \in Tiles, n \in Nodes :
            u \notin Out(i) /\ (n # Host => blk[u][n] # 0)
            => mem'[n][blk[u][n]] = mem[n][blk[u][n]] /\ cur'[u] = cur[u]
    BY <1>10, <1>b, Zenon
  <1>15. cur' \in [Tiles -> Nat]
    BY <1>4
  <1> QED BY <1>11, <1>12, <1>13, <1>14, <1>15, Zenon

\* Run: the outputs have a new version, where the kernel wrote them and nowhere else.
LEMMA RunKeeps ==
    ASSUME DsmInv, NEW i \in DOMAIN tasks, Run(i)
    PROVE  DsmInv'
  <1>a. PICK d : d = tasks[i].dev
    BY Zenon
  <1>b. PICK out : out = Out(i)
    BY Zenon
  <1>0. /\ Types /\ ThreadsAtTasks /\ Apart /\ PinsExact /\ BlocksExact /\ CountersExact
        /\ CallbacksOwned /\ HostUnwritten /\ FedOnce /\ CopiesCurrent /\ ValidExact
        /\ InputsServed /\ SourceStays /\ VictimStays /\ DirtyListed
    BY DEF DsmInv
  <1>1. tasks[i].st = "pending" /\ Inserted(i) /\ Polls(d)
    BY <1>a DEF Run
  <1>2. i \in Live /\ tasks[i].wc = 0
    BY <1>0, <1>1, InsertedWaits
  <1>3. d \in Devices /\ cap[d] > 0 /\ \A t : Cardinality(On(i, t)) \in Nat
    BY <1>0, <1>2, <1>a, OnFinite
  <1>4. /\ mishaps' = mishaps
        /\ cap' = cap /\ blk' = blk /\ valid' = valid /\ xfer' = xfer /\ cbk' = cbk
        /\ copies' = copies /\ ro' = ro /\ rw' = rw /\ thr' = thr
        /\ tasks' = [tasks EXCEPT ![i].st = "done"]
        /\ pin' = [t \in Tiles |-> [pin[t] EXCEPT ![d] = @ - Cardinality(On(i, t))]]
    BY <1>a DEF Run, On, listVars
  <1>5. /\ pin' \in [Tiles -> [Devices -> Int]]
        /\ \A t \in Tiles, e \in Devices :
               pin'[t][e] = pin[t][e] - (IF e = tasks[i].dev THEN Cardinality(On(i, t)) ELSE 0)
    <2>1. \A t \in Tiles : pin[t] \in [Devices -> Int]
      BY <1>0 DEF Types
    <2>2. \A t \in Tiles : pin'[t] = [pin[t] EXCEPT ![d] = @ - Cardinality(On(i, t))]
      BY <1>4
    <2>3. \A t \in Tiles, e \in Devices :
              pin'[t][e] = IF e = d THEN pin[t][e] - Cardinality(On(i, t)) ELSE pin[t][e]
      BY <1>3, <2>1, <2>2
    <2>4. \A t \in Tiles : pin'[t] \in [Devices -> Int]
      <3> TAKE t \in Tiles
      <3>1. PICK p : p = pin[t]
        BY Zenon
      <3>2. PICK w : w = pin[t][d] - Cardinality(On(i, t))
        BY Zenon
      <3>3. p \in [Devices -> Int]
        BY <2>1, <3>1
      <3>4. p[d] \in Int /\ Cardinality(On(i, t)) \in Int
        BY <1>3, <3>3
      <3>5. w \in Int
        BY <3>1, <3>2, <3>4
      <3>6. pin'[t] = [p EXCEPT ![d] = w]
        BY <2>2, <3>1, <3>2
      <3> QED BY <3>3, <3>5, <3>6
    <2>5. pin' \in [Tiles -> [Devices -> Int]]
      BY <1>4, <2>4
    <2>6. \A t \in Tiles, e \in Devices : pin[t][e] \in Int
      BY <2>1
    <2> QED BY <1>a, <2>3, <2>5, <2>6
  <1>6. Ends(i)
    <2>1. DOMAIN tasks' = DOMAIN tasks
      BY <1>0, <1>4 DEF Types
    <2> QED BY <1>1, <1>4, <2>1 DEF Ends, Prep
  <1>7. /\ Kept /\ ThreadsAtTasks' /\ Apart' /\ PinsExact' /\ BlocksExact' /\ CountersExact'
        /\ CallbacksOwned' /\ HostUnwritten' /\ FedOnce' /\ SourceStays'
        /\ tasks' \in Seq(Task)
        /\ Uses' = {y \in Uses : y[1] # i}
        /\ Asked' = {y \in Asked : y[1] # i} /\ Listed' = {y \in Listed : y[1] # i}
        /\ \A y \in Uses : TileOf(y)' = TileOf(y) /\ DevOf(y)' = DevOf(y) /\ ModeOf(y)' = ModeOf(y)
    <2>1. \A t \in Tiles, e \in Devices :
              pin'[t][e] = pin[t][e] - (IF e = tasks[i].dev THEN Cardinality(On(i, t)) ELSE 0)
      BY <1>5
    <2>2. /\ thr' = thr /\ cap' = cap /\ blk' = blk /\ valid' = valid /\ xfer' = xfer
          /\ cbk' = cbk /\ copies' = copies
      BY <1>4
    <2> QED BY <1>1, <1>2, <1>6, <2>1, <2>2, EndsFrames
  <1>8. /\ DOMAIN mem' = Nodes /\ mem'[Host] \in [Tiles -> Contents]
        /\ \A e \in Devices : mem'[e] \in [1..cap[e] -> Contents]
        /\ cur' \in [Tiles -> Nat]
        /\ \A u \in out : mem'[d][blk[u][d]] = <<u, cur'[u]>>
        /\ \A u \in Tiles, n \in Nodes :
              u \notin out /\ (n # Host => blk[u][n] # 0)
              => mem'[n][blk[u][n]] = mem[n][blk[u][n]] /\ cur'[u] = cur[u]
    BY <1>1, <1>2, <1>a, <1>b, RunMemory
  <1>9. \A u \in out :
            /\ \A y \in Uses : TileOf(y) = u => y[1] = i
            /\ valid[u] = {d} /\ xfer[u] = {} /\ (\A c \in copies : c.t # u)
            /\ "unlisted" \notin mishaps => u \in Range(rw[d])
    <2> SUFFICES ASSUME NEW u \in out
                 PROVE  /\ \A y \in Uses : TileOf(y) = u => y[1] = i
                        /\ valid[u] = {d} /\ xfer[u] = {} /\ (\A c \in copies : c.t # u)
                        /\ "unlisted" \notin mishaps => u \in Range(rw[d])
      OBVIOUS
    <2>1. /\ \A y \in Uses : TileOf(y) = u => y[1] = i
          /\ \E x \in Dirtying(u) : DevOf(x) = d
          /\ valid[u] = {d} /\ xfer[u] = {} /\ \A c \in copies : c.t # u
      BY <1>1, <1>2, <1>a, <1>b, OutAlone
    <2>2. u \in Tiles
      BY <1>b DEF Out
    <2>3. "unlisted" \notin mishaps => u \in Range(rw[d])
      BY <1>0, <2>1, <2>2 DEF DirtyListed
    <2> QED BY <2>1, <2>3
  <1>10. Types'
    BY <1>0, <1>4, <1>5, <1>7, <1>8 DEF Types
  <1>11. CopiesCurrent'
    <2> SUFFICES ASSUME NEW g \in copies
                 PROVE  mem'[g.src][g.from] = <<g.t, cur'[g.t]>>
      BY <1>0, <1>4 DEF CopiesCurrent
    <2>1. /\ g.from = blk[g.t][g.src] /\ (g.src # Host => g.from # 0)
          /\ mem[g.src][g.from] = <<g.t, cur[g.t]>>
      BY <1>0 DEF CopiesCurrent
    <2>2. g.t \in Tiles /\ g.src \in Nodes /\ g.t \notin out
      BY <1>0, <1>9 DEF Types, Transfers
    <2>3. \A u \in Tiles, n \in Nodes :
              u \notin out /\ (n # Host => blk[u][n] # 0)
              => mem'[n][blk[u][n]] = mem[n][blk[u][n]] /\ cur'[u] = cur[u]
      BY <1>8, Zenon
    <2>4. PICK a : a = g.from
      BY Zenon
    <2>5. a = blk[g.t][g.src] /\ mem[g.src][a] = <<g.t, cur[g.t]>> /\ (g.src # Host => a # 0)
      BY <2>1, <2>4, Zenon
    <2>6. g.src # Host => blk[g.t][g.src] # 0
      BY <2>5, Zenon
    <2>7. /\ mem'[g.src][blk[g.t][g.src]] = mem[g.src][blk[g.t][g.src]]
          /\ cur'[g.t] = cur[g.t]
      BY <2>2, <2>3, <2>6, Zenon
    <2>8. mem'[g.src][a] = <<g.t, cur'[g.t]>>
      BY <2>5, <2>7, Zenon
    <2> QED BY <2>4, <2>8
  <1>12. \A u \in Tiles : Dirtying(u)' = IF u \in out THEN {} ELSE Dirtying(u)
    <2> TAKE u \in Tiles
    <2>1. \A y \in Listed : TileOf(y)' = TileOf(y) /\ ModeOf(y)' = ModeOf(y)
      BY <1>7, Subsets
    <2>2. Dirtying(u)' = {y \in Listed' : TileOf(y)' = u /\ Writes(ModeOf(y)')}
      BY DEF Dirtying
    <2>3. Dirtying(u)' = {y \in Dirtying(u) : y[1] # i}
      BY <1>7, <2>1, <2>2 DEF Dirtying
    <2>4. ASSUME u \notin out, NEW y \in Dirtying(u)
          PROVE  y[1] # i
      <3>1. y \in Uses /\ TileOf(y) = u /\ Writes(ModeOf(y))
        BY Subsets DEF Dirtying
      <3>2. y[2] \in DOMAIN Params(y[1])
        BY <3>1, UsePairs
      <3> QED BY <1>b, <2>4, <3>1, <3>2 DEF Out, On, TileOf, ModeOf
    <2>5. ASSUME u \in out, NEW y \in Dirtying(u)
          PROVE  y[1] = i
      BY <1>9, <2>5, Subsets DEF Dirtying
    <2> QED BY <2>3, <2>4, <2>5
  <1>13. \A u \in Tiles : \A y \in Dirtying(u) : DevOf(y)' = DevOf(y)
    BY <1>7, Subsets DEF Dirtying
  <1>14. ValidExact'
    <2>1. ASSUME NEW u \in Tiles, NEW y \in Dirtying(u)'
          PROVE  valid'[u] = {DevOf(y)'}
      BY <1>0, <1>4, <1>12, <1>13, <2>1 DEF ValidExact
    <2>2. ASSUME NEW u \in Tiles, Dirtying(u)' = {}
          PROVE  /\ valid'[u] # {} /\ valid'[u] \cap xfer'[u] = {}
                 /\ \A n \in valid'[u] : mem'[n][blk'[u][n]] = <<u, cur'[u]>>
      <3>1. CASE u \in out
        <4>1. valid'[u] = {d} /\ xfer'[u] = {}
          BY <1>4, <1>9, <3>1
        <4>2. mem'[d][blk[u][d]] = <<u, cur'[u]>>
          BY <1>8, <3>1
        <4>3. mem'[d][blk'[u][d]] = <<u, cur'[u]>>
          BY <1>4, <4>2
        <4> QED BY <4>1, <4>3
      <3>2. CASE u \notin out
        <4>1. /\ valid[u] # {} /\ valid[u] \cap xfer[u] = {}
              /\ \A n \in valid[u] : mem[n][blk[u][n]] = <<u, cur[u]>>
          BY <1>0, <1>12, <2>2, <3>2 DEF ValidExact
        <4>2. \A n \in valid[u] : n \in Nodes /\ (n # Host => blk[u][n] # 0)
          BY <1>0, Places DEF BlocksExact, Types
        <4>3. \A n \in valid[u] : mem'[n][blk[u][n]] = <<u, cur'[u]>>
          BY <1>8, <3>2, <4>1, <4>2
        <4> QED BY <1>4, <4>1, <4>3
      <3> QED BY <3>1, <3>2
    <2> QED BY <2>1, <2>2 DEF ValidExact
  <1>15. InputsServed'
    <2>1. ASSUME NEW y \in Asked', Reads(ModeOf(y)')
          PROVE  \/ <<"task", y>> \in cbk'[TileOf(y)'][DevOf(y)']
                 \/ mem'[DevOf(y)'][blk'[TileOf(y)'][DevOf(y)']] = <<TileOf(y)', cur'[TileOf(y)']>>
      <3>1. y \in Asked /\ y \in Uses /\ y \in Allocated /\ y[1] # i
        BY <1>7, Subsets
      <3>2. TileOf(y)' = TileOf(y) /\ DevOf(y)' = DevOf(y) /\ ModeOf(y)' = ModeOf(y)
        BY <1>7, <3>1
      <3>3. TileOf(y) \in Tiles /\ DevOf(y) \in Nodes /\ blk[TileOf(y)][DevOf(y)] # 0
        BY <1>0, <3>1, UseTypes, Places DEF BlocksExact
      <3>4. TileOf(y) \notin out
        BY <1>9, <3>1
      <3>5. \/ <<"task", y>> \in cbk[TileOf(y)][DevOf(y)]
            \/ mem[DevOf(y)][blk[TileOf(y)][DevOf(y)]] = <<TileOf(y), cur[TileOf(y)]>>
        BY <1>0, <2>1, <3>1, <3>2 DEF InputsServed
      <3>6. /\ mem'[DevOf(y)][blk[TileOf(y)][DevOf(y)]] = mem[DevOf(y)][blk[TileOf(y)][DevOf(y)]]
            /\ cur'[TileOf(y)] = cur[TileOf(y)]
        BY <1>8, <3>3, <3>4
      <3> QED BY <1>4, <3>2, <3>5, <3>6
    <2> QED BY <2>1 DEF InputsServed
  <1>16. VictimStays'
    <2>1. \A e \in Devices : thr'[e].pc = "unset" => e # d
      BY <1>1, <1>4 DEF Polls
    <2>2. \A u \in Tiles, e \in Devices : e # d => pin'[u][e] = pin[u][e]
      <3>1. \A u \in Tiles, e \in Devices : pin[u][e] \in Int
        BY <1>0 DEF Types
      <3> QED BY <1>5, <1>a, <3>1
    <2> QED BY <1>0, <1>4, <2>1, <2>2, FrameVictim
  <1>17. DirtyListed'
    <2>1. ASSUME "unlisted" \notin mishaps', NEW u \in Tiles, NEW y \in Dirtying(u)'
          PROVE  u \in Range(rw'[DevOf(y)'])
      BY <1>0, <1>4, <1>12, <1>13, <2>1 DEF DirtyListed
    <2>2. ASSUME "unlisted" \notin mishaps', NEW u \in Tiles, Dirtying(u)' = {},
                 Host \notin valid'[u]
          PROVE  \E e \in valid'[u] : u \in Range(rw'[e])
      <3>1. CASE u \in out
        BY <1>4, <1>9, <2>2, <3>1
      <3>2. CASE u \notin out
        BY <1>0, <1>4, <1>12, <2>2, <3>2 DEF DirtyListed
      <3> QED BY <3>1, <3>2
    <2> QED BY <2>1, <2>2 DEF DirtyListed
  <1> QED BY <1>7, <1>10, <1>11, <1>14, <1>15, <1>16, <1>17 DEF DsmInv

\* A write-back of a tile that the host already has ends at once.
LEMMA WriteBackThereKeeps ==
    ASSUME DsmInv, NEW i \in DOMAIN tasks, RunWriteBack(i),
           Host \in valid[Params(i)[1][1]]
    PROVE  DsmInv'
  <1>a. PICK d : d = tasks[i].dev
    BY Zenon
  <1>b. PICK t : t = Params(i)[1][1]
    BY Zenon
  <1>0. /\ Types /\ ThreadsAtTasks /\ Apart /\ PinsExact /\ BlocksExact /\ CountersExact
        /\ CallbacksOwned /\ HostUnwritten /\ FedOnce /\ CopiesCurrent /\ ValidExact
        /\ InputsServed /\ SourceStays /\ VictimStays /\ DirtyListed
    BY DEF DsmInv
  <1>1. tasks[i].st = "pending" /\ Inserted(i) /\ Polls(d) /\ IsWriteBack(i)
    BY <1>a DEF RunWriteBack
  <1>2. i \in Live /\ tasks[i].wc = 0
    BY <1>0, <1>1, InsertedWaits
  <1>3. /\ t \in Tiles /\ d \in Devices /\ cap[d] > 0
        /\ \A u : Cardinality(On(i, u)) = IF u = t THEN 1 ELSE 0
        /\ \A y \in Uses : y[1] = i => TileOf(y) = t
        /\ Dirtying(t) = {}
    BY <1>0, <1>1, <1>2, <1>a, <1>b, WriteBackTask
  <1>4. /\ mishaps' = mishaps
        /\ cap' = cap /\ blk' = blk /\ mem' = mem /\ valid' = valid /\ xfer' = xfer
        /\ cbk' = cbk /\ copies' = copies /\ ro' = ro /\ rw' = rw /\ cur' = cur
    BY DEF RunWriteBack, memVars, listVars
  <1>5. /\ tasks' = [tasks EXCEPT ![i].st = "done"] /\ thr' = thr
        /\ pin' = [pin EXCEPT ![t][d] = @ - 1]
    BY <1>a, <1>b DEF RunWriteBack
  <1>6. Ends(i)
    <2>1. DOMAIN tasks' = DOMAIN tasks
      BY <1>0, <1>5 DEF Types
    <2> QED BY <1>1, <1>5, <2>1 DEF Ends, Prep
  <1>7. /\ pin' \in [Tiles -> [Devices -> Int]]
        /\ \A u \in Tiles, e \in Devices :
               pin'[u][e] = pin[u][e] - (IF e = tasks[i].dev THEN Cardinality(On(i, u)) ELSE 0)
    <2>1. /\ pin' \in [Tiles -> [Devices -> Int]] /\ pin'[t][d] = pin[t][d] - 1
          /\ \A u \in Tiles, e \in Devices : ~ (u = t /\ e = d) => pin'[u][e] = pin[u][e]
      BY <1>0, <1>3, <1>5 DEF Types
    <2>2. \A u \in Tiles, e \in Devices : pin[u][e] \in Int
      BY <1>0 DEF Types
    <2> QED BY <1>3, <1>a, <2>1, <2>2
  <1>8. /\ Kept /\ ThreadsAtTasks' /\ Apart' /\ PinsExact' /\ BlocksExact' /\ CountersExact'
        /\ CallbacksOwned' /\ HostUnwritten' /\ FedOnce' /\ SourceStays'
        /\ tasks' \in Seq(Task)
        /\ Asked' = {y \in Asked : y[1] # i} /\ Listed' = {y \in Listed : y[1] # i}
        /\ \A y \in Uses : TileOf(y)' = TileOf(y) /\ DevOf(y)' = DevOf(y) /\ ModeOf(y)' = ModeOf(y)
    <2>1. \A u \in Tiles, e \in Devices :
              pin'[u][e] = pin[u][e] - (IF e = tasks[i].dev THEN Cardinality(On(i, u)) ELSE 0)
      BY <1>7
    <2> QED BY <1>1, <1>2, <1>4, <1>5, <1>6, <2>1, EndsFrames
  <1>9. Types'
    BY <1>0, <1>4, <1>5, <1>7, <1>8 DEF Types
  <1>10. CopiesCurrent'
    BY <1>0, <1>4, FrameCopies
  <1>11. InputsServed'
    BY <1>0, <1>4, <1>8, FrameInputs
  <1>12. \A u : Dirtying(u)' = Dirtying(u) /\ \A y \in Dirtying(u) : DevOf(y)' = DevOf(y)
    <2> TAKE u
    <2>1. \A y \in Listed : TileOf(y)' = TileOf(y) /\ ModeOf(y)' = ModeOf(y) /\ DevOf(y)' = DevOf(y)
      BY <1>8, Subsets
    <2>2. Dirtying(u)' = {y \in Listed' : TileOf(y)' = u /\ Writes(ModeOf(y)')}
      BY DEF Dirtying
    <2>3. Dirtying(u)' = {y \in Dirtying(u) : y[1] # i}
      BY <1>8, <2>1, <2>2 DEF Dirtying
    <2>4. ASSUME NEW y \in Dirtying(u), y[1] = i
          PROVE  FALSE
      <3>1. y \in Uses /\ TileOf(y) = u
        BY Subsets DEF Dirtying
      <3>2. u = t
        BY <1>3, <2>4, <3>1
      <3> QED BY <1>3, <3>2
    <2>5. \A y \in Dirtying(u) : DevOf(y)' = DevOf(y)
      BY <2>1 DEF Dirtying
    <2> QED BY <2>3, <2>4, <2>5
  <1>13. ValidExact'
    <2>1. ASSUME NEW u \in Tiles, NEW y \in Dirtying(u)'
          PROVE  valid'[u] = {DevOf(y)'}
      BY <1>0, <1>4, <1>12, <2>1 DEF ValidExact
    <2>2. ASSUME NEW u \in Tiles, Dirtying(u)' = {}
          PROVE  /\ valid'[u] # {} /\ valid'[u] \cap xfer'[u] = {}
                 /\ \A n \in valid'[u] : mem'[n][blk'[u][n]] = <<u, cur'[u]>>
      BY <1>0, <1>4, <1>12, <2>2 DEF ValidExact
    <2> QED BY <2>1, <2>2 DEF ValidExact
  <1>14. VictimStays'
    <2>1. \A e \in Devices : thr'[e].pc = "unset" => e # d
      BY <1>1, <1>5 DEF Polls
    <2>2. \A u \in Tiles, e \in Devices : e # d => pin'[u][e] = pin[u][e]
      BY <1>0, <1>3, <1>5 DEF Types
    <2> QED BY <1>0, <1>4, <1>5, <2>1, <2>2, FrameVictim
  <1>15. DirtyListed'
    <2>1. ASSUME "unlisted" \notin mishaps', NEW u \in Tiles, NEW y \in Dirtying(u)'
          PROVE  u \in Range(rw'[DevOf(y)'])
      BY <1>0, <1>4, <1>12, <2>1 DEF DirtyListed
    <2>2. ASSUME "unlisted" \notin mishaps', NEW u \in Tiles, Dirtying(u)' = {},
                 Host \notin valid'[u]
          PROVE  \E e \in valid'[u] : u \in Range(rw'[e])
      BY <1>0, <1>4, <1>12, <2>2 DEF DirtyListed
    <2> QED BY <2>1, <2>2 DEF DirtyListed
  <1> QED BY <1>8, <1>9, <1>10, <1>11, <1>13, <1>14, <1>15 DEF DsmInv

\* A write-back that needs a transfer chooses its source and is about to post it.
LEMMA WriteBackAsksKeeps ==
    ASSUME DsmInv, NEW i \in DOMAIN tasks, RunWriteBack(i),
           Host \notin valid[Params(i)[1][1]]
    PROVE  DsmInv'
  <1>a. PICK d : d = tasks[i].dev
    BY Zenon
  <1>b. PICK t : t = Params(i)[1][1]
    BY Zenon
  <1>c. PICK p : p = thr[d]
    BY Zenon
  <1>0. /\ Types /\ ThreadsAtTasks /\ Apart /\ PinsExact /\ BlocksExact /\ CountersExact
        /\ CallbacksOwned /\ HostUnwritten /\ FedOnce /\ CopiesCurrent /\ ValidExact
        /\ InputsServed /\ SourceStays /\ VictimStays /\ DirtyListed
    BY DEF DsmInv
  <1>1. tasks[i].st = "pending" /\ Inserted(i) /\ p.pc \in {"idle", "alloc"} /\ IsWriteBack(i)
    BY <1>a, <1>c DEF RunWriteBack, Polls
  <1>2. i \in Live /\ tasks[i].wc = 0 /\ i \in Nat
    BY <1>0, <1>1, InsertedWaits, TaskTypes
  <1>3. /\ t \in Tiles /\ d \in Devices /\ cap[d] > 0 /\ d \in Nodes /\ d # Host
        /\ Dirtying(t) = {} /\ DOMAIN Params(i) = {1}
    BY <1>0, <1>1, <1>2, <1>a, <1>b, WriteBackTask, Places
  <1>4. /\ mishaps' = mishaps
        /\ cap' = cap /\ blk' = blk /\ mem' = mem /\ valid' = valid /\ xfer' = xfer /\ pin' = pin
        /\ cbk' = cbk /\ copies' = copies /\ ro' = ro /\ rw' = rw /\ cur' = cur
    BY DEF RunWriteBack, memVars, listVars
  <1>5. PICK src \in Sources(t) :
            thr' = [thr EXCEPT ![d] = [pc |-> "post", i |-> i, k |-> 1, src |-> src,
                                       dst |-> Host, ret |-> p]]
    BY <1>a, <1>b, <1>c DEF RunWriteBack
  <1>6. tasks' = [tasks EXCEPT ![i].st = "running"]
    BY <1>a, <1>b DEF RunWriteBack
  <1>7. src \in Nodes /\ src \in valid[t] \cup xfer[t]
    <2>1. valid[t] # {} /\ valid[t] \subseteq Nodes /\ xfer[t] \subseteq Nodes
      BY <1>0, <1>3 DEF ValidExact, Types
    <2> QED BY <1>5, <2>1, Places DEF Sources
  <1>8. p \in {Idle} \cup Steps
    <2>1. p \in {Idle} \cup Steps \cup Evictions \cup Posts
      BY <1>0, <1>3, <1>c DEF Types
    <2> QED BY <1>1, <2>1 DEF Evictions, Posts
  <1>9. /\ thr'[d] = [pc |-> "post", i |-> i, k |-> 1, src |-> src, dst |-> Host, ret |-> p]
        /\ \A e \in Devices : e # d => thr'[e] = thr[e]
        /\ thr' \in [Devices -> {Idle} \cup Steps \cup Evictions \cup Posts]
    <2>1. [pc |-> "post", i |-> i, k |-> 1, src |-> src, dst |-> Host, ret |-> p] \in Posts
      BY <1>2, <1>7, <1>8, Places DEF Posts
    <2> QED BY <1>0, <1>3, <1>5, <2>1 DEF Types
  <1>10. /\ thr'[d].pc = "post" /\ thr'[d].i = i /\ thr'[d].k = 1 /\ thr'[d].src = src
         /\ thr'[d].dst = Host /\ thr'[d].ret = p
    BY <1>9
  <1>11. \A e \in Devices : Prep(e)' = Prep(e)
    <2>1. Prep(d)' = p
      BY <1>10 DEF Prep
    <2>2. Prep(d) = p
      BY <1>1, <1>c DEF Prep
    <2>3. \A e \in Devices : e # d => Prep(e)' = Prep(e)
      BY <1>9 DEF Prep
    <2> QED BY <2>1, <2>2, <2>3
  <1>12. /\ tasks' \in Seq(Task) /\ DOMAIN tasks' = DOMAIN tasks
         /\ \A j \in DOMAIN tasks : j # i => tasks'[j] = tasks[j]
         /\ tasks'[i].st = "running" /\ tasks'[i].wc = 0
         /\ tasks'[i].dev = d /\ tasks'[i].shape = tasks[i].shape
    <2>1. PICK r : r = tasks[i]
      BY Zenon
    <2>2. r \in Task
      BY <1>0, <2>1, TaskTypes
    <2>3. PICK s : s = [r EXCEPT !.st = "running"]
      BY Zenon
    <2>4. /\ s \in Task /\ s.dev = r.dev /\ s.shape = r.shape /\ s.st = "running" /\ s.wc = r.wc
      BY <2>2, <2>3 DEF Task, States
    <2>5. tasks' = [tasks EXCEPT ![i] = s]
      BY <1>6, <2>1, <2>3
    <2>6. tasks \in Seq(Task)
      BY <1>0 DEF Types
    <2>7. tasks' \in Seq(Task) /\ DOMAIN tasks' = DOMAIN tasks
      BY <2>4, <2>5, <2>6
    <2>8. tasks'[i] = s /\ \A j \in DOMAIN tasks : j # i => tasks'[j] = tasks[j]
      BY <2>5
    <2> QED BY <1>2, <1>a, <2>1, <2>4, <2>7, <2>8
  <1>13. Kept
    BY <1>12, <1>a DEF Kept
  <1>14. SamePreps
    BY <1>1, <1>11, <1>12 DEF SamePreps
  <1>15. Live' = Live /\ Uses' = Uses /\ \A u : Written(u)' <=> Written(u)
    <2>1. \A j \in DOMAIN tasks : tasks'[j].st = "done" <=> tasks[j].st = "done"
      BY <1>1, <1>12
    <2> QED BY <1>0, <1>12, <1>13, <2>1, SameUses
  <1>16. \A y \in Uses : TileOf(y)' = TileOf(y) /\ DevOf(y)' = DevOf(y) /\ ModeOf(y)' = ModeOf(y)
    BY <1>0, <1>13, UseKept
  <1>17. \A y \in Uses : Posting(y)' <=> Posting(y)
    <2> TAKE y \in Uses
    <2>1. DevOf(y)' = DevOf(y) /\ DevOf(y) \in Devices
      BY <1>0, <1>16, UseTypes
    <2>2. CASE DevOf(y) = d
      <3>1. thr[d].pc # "post"
        BY <1>1, <1>c
      <3> QED BY <1>10, <2>1, <2>2, <3>1 DEF Posting
    <2>3. CASE DevOf(y) # d
      <3>1. thr'[DevOf(y)] = thr[DevOf(y)]
        BY <1>9, <2>1, <2>3
      <3> QED BY <2>1, <3>1 DEF Posting
    <2> QED BY <2>2, <2>3
  <1>18. /\ Pinned' = Pinned /\ Allocated' = Allocated /\ Asked' = Asked /\ Listed' = Listed
         /\ \A e \in Devices : SameSearch(e)
    <2>1. Uses' \subseteq Uses /\ \A y \in Uses' : Posting(y)' <=> Posting(y)
      BY <1>15, <1>17
    <2>2. /\ Pinned' = Pinned \cap Uses' /\ Allocated' = Allocated \cap Uses'
          /\ Asked' = Asked \cap Uses' /\ Listed' = Listed \cap Uses'
          /\ \A e \in Devices : SameSearch(e)
      BY <1>0, <1>13, <1>14, <2>1, SameViews
    <2> QED BY <1>15, <2>2, Subsets
  <1>19. ThreadsAtTasks'
    <2>1. ASSUME NEW e \in Devices, Prep(e)'.pc # "idle"
          PROVE  /\ Prep(e)'.i \in DOMAIN tasks' /\ tasks'[Prep(e)'.i].dev = e
                 /\ tasks'[Prep(e)'.i].st = "prep"
                 /\ Prep(e)'.k \in DOMAIN tasks'[Prep(e)'.i].shape
      <3>1. Prep(e)' = Prep(e) /\ Prep(e).pc # "idle"
        BY <1>11, <2>1
      <3>2. /\ Prep(e).i \in DOMAIN tasks /\ tasks[Prep(e).i].dev = e
            /\ tasks[Prep(e).i].st = "prep" /\ Prep(e).k \in DOMAIN tasks[Prep(e).i].shape
        BY <1>0, <3>1, PrepTypes DEF Params
      <3>3. Prep(e).i # i
        BY <1>1, <3>2
      <3> QED BY <1>12, <3>1, <3>2, <3>3
    <2>2. ASSUME NEW e \in Devices, thr'[e].pc = "post"
          PROVE  \/ /\ thr'[e].dst = e
                    /\ Prep(e)'.pc = "touch" /\ Prep(e)'.i = thr'[e].i /\ Prep(e)'.k = thr'[e].k
                    /\ Reads(Mode(e)')
                 \/ /\ thr'[e].dst = Host /\ thr'[e].k = 1 /\ Prep(e)'.pc \in {"idle", "alloc"}
                    /\ thr'[e].i \in DOMAIN tasks' /\ tasks'[thr'[e].i].dev = e
                    /\ tasks'[thr'[e].i].st = "running"
      <3>1. CASE e = d
        <4>1. Prep(d)'.pc \in {"idle", "alloc"}
          BY <1>1, <1>10 DEF Prep
        <4> QED BY <1>10, <1>12, <3>1, <4>1
      <3>2. CASE e # d
        <4>1. thr'[e] = thr[e] /\ Prep(e)' = Prep(e) /\ thr[e].pc = "post"
          BY <1>9, <1>11, <2>2, <3>2
        <4>2. thr[e].i \in DOMAIN tasks /\ Tile(e) \in Tiles
          BY <1>0, <4>1, PostTile
        <4>3. Mode(e)' = Mode(e)
          BY <1>13, <4>1, <4>2 DEF Mode, Param, Params, Kept
        <4>4. tasks[thr[e].i].dev = e /\ tasks[thr[e].i].st = "running"
              => thr[e].i # i /\ tasks'[thr[e].i] = tasks[thr[e].i]
          BY <1>1, <1>12, <4>2
        <4> QED BY <1>0, <1>12, <4>1, <4>2, <4>3, <4>4 DEF ThreadsAtTasks
      <3> QED BY <3>1, <3>2
    <2>3. ASSUME NEW j \in DOMAIN tasks', tasks'[j].st = "prep"
          PROVE  \E e \in Devices : tasks'[j].dev = e /\ Prep(e)'.pc # "idle" /\ Prep(e)'.i = j
      <3>1. j \in DOMAIN tasks /\ j # i /\ tasks'[j] = tasks[j]
        BY <1>12, <2>3
      <3>2. tasks[j].dev \in Devices
        BY <1>0, <3>1, TaskTypes DEF Task
      <3>3. Prep(tasks[j].dev).pc # "idle" /\ Prep(tasks[j].dev).i = j
        BY <1>0, <2>3, <3>1 DEF ThreadsAtTasks
      <3> QED BY <1>11, <3>1, <3>2, <3>3
    <2>4. ASSUME NEW j \in DOMAIN tasks', tasks'[j].st = "running"
          PROVE  /\ thr'[tasks'[j].dev].pc = "post" /\ thr'[tasks'[j].dev].dst = Host
                 /\ thr'[tasks'[j].dev].i = j
                 /\ tasks'[j].wc = 0 /\ IsWriteBack(j)'
      <3>0. IsWriteBack(j)' <=> IsWriteBack(j)
        BY <1>12, <1>13, <2>4 DEF IsWriteBack, Params, Kept
      <3>1. CASE j = i
        BY <1>1, <1>10, <1>12, <3>0, <3>1
      <3>2. CASE j # i
        <4>1. tasks'[j] = tasks[j] /\ j \in DOMAIN tasks
          BY <1>12, <2>4, <3>2
        <4>2. /\ thr[tasks[j].dev].pc = "post" /\ thr[tasks[j].dev].dst = Host
              /\ thr[tasks[j].dev].i = j /\ tasks[j].wc = 0 /\ IsWriteBack(j)
          BY <1>0, <2>4, <4>1 DEF ThreadsAtTasks
        <4>3. tasks[j].dev # d /\ tasks[j].dev \in Devices
          BY <1>0, <1>1, <1>c, <4>1, <4>2, TaskTypes DEF Task
        <4>4. thr'[tasks[j].dev] = thr[tasks[j].dev]
          BY <1>9, <4>3
        <4> QED BY <3>0, <4>1, <4>2, <4>4
      <3> QED BY <3>1, <3>2
    <2> QED BY <2>1, <2>2, <2>3, <2>4 DEF ThreadsAtTasks, Params, Prep
  <1>20. Types'
    BY <1>0, <1>4, <1>9, <1>12 DEF Types
  <1>21. Apart' /\ PinsExact' /\ BlocksExact'
    BY <1>0, <1>4, <1>13, <1>15, <1>18, FrameApart, FramePins, FrameBlocks
  <1>22. CountersExact'
    <2>1. \A j \in Live' : tasks'[j].wc = tasks[j].wc /\ (tasks'[j].st = "prep" <=> tasks[j].st = "prep")
      BY <1>0, <1>1, <1>2, <1>12, <1>15, TaskTypes
    <2>2. \A j \in Live' : \A k \in DOMAIN Params(j) : Posting(<<j, k>>)' <=> Posting(<<j, k>>)
      BY <1>15, <1>17, UsePairs
    <2> QED BY <1>0, <1>4, <1>13, <1>15, <2>1, <2>2, FrameCounters
  <1>23. CallbacksOwned' /\ HostUnwritten' /\ FedOnce' /\ CopiesCurrent'
    BY <1>0, <1>4, <1>13, <1>15, <1>18, FrameCallbacks, FrameHost, FrameFed, FrameCopies
  <1>24. ValidExact' /\ InputsServed' /\ DirtyListed'
    BY <1>0, <1>4, <1>13, <1>18, FrameValid, FrameInputs, FrameDirty
  <1>25. SourceStays'
    <2> SUFFICES ASSUME NEW e \in Devices, thr'[e].pc = "post"
                 PROVE  thr'[e].src \in valid'[Tile(e)'] \cup xfer'[Tile(e)']
      BY DEF SourceStays
    <2>1. CASE e = d
      <3>1. Tile(d)' = t
        BY <1>10, <1>12, <1>b DEF Tile, Param, Params
      <3> QED BY <1>4, <1>7, <1>10, <2>1, <3>1
    <2>2. CASE e # d
      <3>1. thr[e].pc = "post" /\ thr'[e] = thr[e]
        BY <1>9, <2>2
      <3>2. thr[e].i \in DOMAIN tasks /\ Tile(e) \in Tiles
        BY <1>0, <3>1, PostTile
      <3>3. Tile(e)' = Tile(e)
        BY <1>13, <3>1, <3>2 DEF Tile, Param, Params, Kept
      <3>4. thr[e].src \in valid[Tile(e)] \cup xfer[Tile(e)]
        BY <1>0, <3>1 DEF SourceStays
      <3> QED BY <1>4, <3>1, <3>3, <3>4
    <2> QED BY <2>1, <2>2
  <1>26. VictimStays'
    <2>1. \A e \in Devices : thr'[e].pc = "unset" => thr'[e] = thr[e]
      BY <1>9, <1>10
    <2> QED BY <1>0, <1>4, <2>1, FrameVictim
  <1> QED BY <1>19, <1>20, <1>21, <1>22, <1>23, <1>24, <1>25, <1>26 DEF DsmInv

\* The body of a write-back task.
LEMMA RunWriteBackKeeps ==
    ASSUME DsmInv, NEW i \in DOMAIN tasks, RunWriteBack(i)
    PROVE  DsmInv'
  BY WriteBackThereKeeps, WriteBackAsksKeeps

-----------------------------------------------------------------------------
(* The application between two batches of tasks.                           *)

\* When no task is live and no copy is under way, nothing is under transfer.
LEMMA QuietEmpty ==
    ASSUME Types, ThreadsAtTasks, Apart, CallbacksOwned, FedOnce, Live = {}, copies = {}
    PROVE  /\ Uses = {} /\ \A d \in Devices : thr[d].pc = "idle"
           /\ \A t \in Tiles : xfer[t] = {} /\ \A n \in Nodes : cbk[t][n] = {}
  <1>1. Uses = {}
    BY UsePairs
  <1>2. \A t \in Tiles, d \in Devices : d \notin xfer[t]
    BY <1>1 DEF CallbacksOwned
  <1>3. \A t \in Tiles : Host \notin xfer[t]
    <2> SUFFICES ASSUME NEW t \in Tiles, Host \in xfer[t]
                 PROVE  FALSE
      OBVIOUS
    <2>1. PICK m \in Nodes : Sends(t, m, Host)
      BY DEF FedOnce, Fed3, Fed
    <2>2. m # Host
      BY <2>1, Places DEF FedOnce, Fed2
    <2>3. m \in xfer[t]
      BY <2>1 DEF CallbacksOwned, Sends
    <2> QED BY <1>2, <2>2, <2>3, Places
  <1>4. \A t \in Tiles : xfer[t] = {}
    <2> TAKE t \in Tiles
    <2>1. xfer[t] \subseteq Nodes
      BY DEF Types
    <2> QED BY <1>2, <1>3, <2>1, Places
  <1>5. \A t \in Tiles : \A n \in Nodes : cbk[t][n] = {}
    BY <1>4 DEF CallbacksOwned
  <1>6. \A d \in Devices : thr[d].pc = "idle"
    <2> TAKE d \in Devices
    <2>1. Prep(d).pc = "idle"
      BY PrepTypes
    <2>2. thr[d].pc # "post"
      BY PostTile
    <2> QED BY <2>1, <2>2 DEF Prep
  <1> QED BY <1>1, <1>4, <1>5, <1>6

\* The replicas are dropped and the application writes its matrix anew.
LEMMA InvalidateKeeps ==
    ASSUME DsmInv, Invalidate
    PROVE  DsmInv'
  <1>0. /\ Types /\ ThreadsAtTasks /\ Apart /\ PinsExact /\ BlocksExact /\ CountersExact
        /\ CallbacksOwned /\ HostUnwritten /\ FedOnce /\ CopiesCurrent /\ ValidExact
        /\ InputsServed /\ SourceStays /\ VictimStays /\ DirtyListed
    BY DEF DsmInv
  <1>1. Live = {} /\ copies = {}
    BY DEF Invalidate
  <1>2. /\ Uses = {} /\ \A d \in Devices : thr[d].pc = "idle"
        /\ \A t \in Tiles : xfer[t] = {} /\ \A n \in Nodes : cbk[t][n] = {}
    BY <1>0, <1>1, QuietEmpty
  <1>3. /\ cur' = [t \in Tiles |-> cur[t] + 1]
        /\ mem' = [mem EXCEPT ![Host] = [t \in Tiles |-> <<t, cur[t] + 1>>]]
        /\ blk' = [t \in Tiles |-> [n \in Nodes |-> IF n = Host THEN t ELSE 0]]
        /\ valid' = [t \in Tiles |-> {Host}]
        /\ ro' = [d \in Devices |-> <<>>] /\ rw' = [d \in Devices |-> <<>>]
        /\ tasks' = Append(tasks, [dev |-> 1, shape |-> <<>>, wc |-> 0, st |-> "done"])
        /\ cap' = cap /\ xfer' = xfer /\ pin' = pin /\ cbk' = cbk /\ copies' = copies
        /\ thr' = thr
    BY DEF Invalidate
  <1>4. /\ tasks' \in Seq(Task) /\ DOMAIN tasks' = 1..(Len(tasks) + 1)
        /\ \A i \in DOMAIN tasks : i \in DOMAIN tasks' /\ tasks'[i] = tasks[i]
        /\ \A i \in DOMAIN tasks' : i \in DOMAIN tasks \/ tasks'[i].st = "done"
    <2>1. PICK r : r = [dev |-> 1, shape |-> <<>>, wc |-> 0, st |-> "done"]
      BY Zenon
    <2>2. 1 \in Devices
      BY DsmAssumption DEF Devices
    <2>3. r \in Task /\ r.st = "done"
      BY <2>1, <2>2 DEF Task, States
    <2>4. tasks \in Seq(Task) /\ tasks' = Append(tasks, r)
      BY <1>0, <1>3, <2>1 DEF Types
    <2> QED BY <2>3, <2>4
  <1>5. Kept
    BY <1>4 DEF Kept
  <1>6. Live' = {}
    <2> SUFFICES ASSUME NEW i \in DOMAIN tasks'
                 PROVE  tasks'[i].st = "done"
      BY DEF Live
    <2>1. CASE i \in DOMAIN tasks
      BY <1>1, <1>4, <2>1 DEF Live
    <2>2. CASE i \notin DOMAIN tasks
      BY <1>4, <2>2
    <2> QED BY <2>1, <2>2
  <1>7. Uses' = {}
    BY <1>6, UsePairsNext
  <1>8. /\ Pinned = {} /\ Pinned' = {} /\ Allocated = {} /\ Allocated' = {}
        /\ Asked = {} /\ Asked' = {} /\ Listed = {} /\ Listed' = {}
    BY <1>2, <1>7 DEF Pinned, Allocated, Asked, Listed
  <1>9. \A t : Dirtying(t)' = {}
    BY <1>8 DEF Dirtying
  <1>10. Types'
    <2>1. blk' \in [Tiles -> [Nodes -> Blocks]]
      BY <1>3 DEF Blocks
    <2>2. cur' \in [Tiles -> Nat] /\ [t \in Tiles |-> <<t, cur[t] + 1>>] \in [Tiles -> Contents]
      BY <1>0, <1>3 DEF Types, Contents
    <2>3. DOMAIN mem' = Nodes /\ mem'[Host] \in [Tiles -> Contents]
      BY <1>0, <1>3, <2>2, Places DEF Types
    <2>4. \A d \in Devices : mem'[d] \in [1..cap'[d] -> Contents]
      BY <1>0, <1>3, Places DEF Types
    <2>5. /\ valid' \in [Tiles -> SUBSET Nodes]
          /\ ro' \in [Devices -> Seq(Tiles)] /\ rw' \in [Devices -> Seq(Tiles)]
      BY <1>3, Places
    <2> QED BY <1>0, <1>3, <1>4, <2>1, <2>2, <2>3, <2>4, <2>5 DEF Types
  <1>11. ThreadsAtTasks'
    <2>1. \A d \in Devices : thr'[d].pc = "idle" /\ Prep(d)'.pc = "idle"
      BY <1>2, <1>3 DEF Prep
    <2>2. \A i \in DOMAIN tasks' : tasks'[i].st = "done"
      BY <1>6 DEF Live
    <2> QED BY <2>1, <2>2 DEF ThreadsAtTasks
  <1>12. Apart' /\ PinsExact'
    BY <1>0, <1>1, <1>2, <1>3, <1>5, <1>6, <1>7, <1>8, FrameApart, FramePins
  <1>13. BlocksExact'
    <2>1. /\ \A t \in Tiles : blk'[t][Host] = t
          /\ \A t \in Tiles, d \in Devices : blk'[t][d] = 0 /\ d \notin valid'[t]
      BY <1>3, Places
    <2>2. \A d \in Devices : 0 \in 0..cap'[d]
      BY <1>0, <1>3, DsmAssumption DEF Types
    <2>3. \A d \in Devices : Prep(d)'.pc = "idle"
      BY <1>2, <1>3 DEF Prep
    <2> QED BY <1>8, <2>1, <2>2, <2>3 DEF BlocksExact
  <1>14. CountersExact'
    BY <1>6 DEF CountersExact
  <1>15. CallbacksOwned' /\ HostUnwritten' /\ FedOnce' /\ CopiesCurrent'
    <2>1. CallbacksOwned' /\ FedOnce'
      BY <1>0, <1>2, <1>3, <1>5, <1>7, <1>8, FrameCallbacks, FrameFed
    <2>2. HostUnwritten'
      BY <1>2, <1>3 DEF HostUnwritten
    <2>3. CopiesCurrent'
      BY <1>1, <1>3 DEF CopiesCurrent
    <2> QED BY <2>1, <2>2, <2>3
  <1>16. ValidExact' /\ DirtyListed'
    <2>1. ASSUME NEW t \in Tiles
          PROVE  /\ valid'[t] = {Host} /\ xfer'[t] = {} /\ blk'[t][Host] = t
                 /\ mem'[Host][t] = <<t, cur'[t]>>
      <3>1. mem'[Host] = [u \in Tiles |-> <<u, cur[u] + 1>>]
        BY <1>0, <1>3, Places DEF Types
      <3> QED BY <1>2, <1>3, <3>1, Places
    <2> QED BY <1>9, <2>1 DEF ValidExact, DirtyListed
  <1>17. InputsServed' /\ SourceStays' /\ VictimStays'
    BY <1>2, <1>3, <1>8 DEF InputsServed, SourceStays, VictimStays
  <1> QED BY <1>10, <1>11, <1>12, <1>13, <1>14, <1>15, <1>16, <1>17 DEF DsmInv

-----------------------------------------------------------------------------
(* The initial states.                                                     *)

\* The tiles are on the host and no task is there.
LEMMA InitKeeps ==
    ASSUME Init
    PROVE  DsmInv
  <1>1. tasks = <<>> /\ copies = {} /\ DOMAIN tasks = {} /\ \A d \in Devices : thr[d] = Idle
    BY DEF Init
  <1>2. \A d \in Devices : thr[d].pc = "idle" /\ Prep(d).pc = "idle"
    BY <1>1 DEF Idle, Prep
  <1>3. Live = {} /\ Uses = {}
    BY <1>1, UsePairs DEF Live
  <1>4. Pinned = {} /\ Allocated = {} /\ Asked = {} /\ Listed = {} /\ \A t : Dirtying(t) = {}
    BY <1>3 DEF Pinned, Allocated, Asked, Listed, Dirtying
  <1>5. cap \in [Devices -> Nat] /\ cap \in Capacities
    BY DsmAssumption DEF Init
  <1>6. Types
    <2>1. blk \in [Tiles -> [Nodes -> Blocks]]
      BY DEF Init, Blocks
    <2>2. /\ mem[Host] = [t \in Tiles |-> <<t, 0>>] /\ DOMAIN mem = Nodes
          /\ \A d \in Devices : mem[d] = [b \in 1..cap[d] |-> Garbage]
      BY Places DEF Init
    <2>3. mem[Host] \in [Tiles -> Contents] /\ \A d \in Devices : mem[d] \in [1..cap[d] -> Contents]
      <3>1. Garbage \in Contents /\ \A t \in Tiles : <<t, 0>> \in Contents
        BY DEF Contents
      <3>2. mem[Host] \in [Tiles -> Contents]
        BY <2>2, <3>1
      <3>3. ASSUME NEW d \in Devices
            PROVE  mem[d] \in [1..cap[d] -> Contents]
        BY <2>2, <3>1
      <3> QED BY <3>2, <3>3
    <2>4. /\ valid \in [Tiles -> SUBSET Nodes] /\ xfer \in [Tiles -> SUBSET Nodes]
          /\ pin \in [Tiles -> [Devices -> Int]]
          /\ cbk \in [Tiles -> [Nodes -> SUBSET Actions]]
          /\ cur \in [Tiles -> Nat]
      BY Places DEF Init
    <2>5. /\ ro \in [Devices -> Seq(Tiles)] /\ rw \in [Devices -> Seq(Tiles)]
          /\ thr \in [Devices -> {Idle} \cup Steps \cup Evictions \cup Posts]
          /\ tasks \in Seq(Task)
      BY DEF Init
    <2> QED BY <1>1, <1>5, <2>1, <2>2, <2>3, <2>4, <2>5 DEF Types
  <1>7. ThreadsAtTasks /\ Apart /\ CountersExact
    BY <1>1, <1>2, <1>3 DEF ThreadsAtTasks, Apart, CountersExact
  <1>8. PinsExact
    <2> SUFFICES ASSUME NEW t \in Tiles, NEW d \in Devices
                 PROVE  IsFiniteSet(Holders(t, d)) /\ pin[t][d] = Cardinality(Holders(t, d))
      BY DEF PinsExact
    <2>1. Holders(t, d) = {} /\ pin[t][d] = 0
      BY <1>4 DEF Holders, Init
    <2>2. Cardinality({}) = 0 /\ IsFiniteSet({})
      BY FS_EmptySet
    <2> QED BY <2>1, <2>2
  <1>9. BlocksExact
    <2>1. /\ \A t \in Tiles : blk[t][Host] = t
          /\ \A t \in Tiles, d \in Devices : blk[t][d] = 0 /\ d \notin valid[t]
      BY Places DEF Init
    <2>2. \A d \in Devices : 0 \in 0..cap[d]
      BY <1>5
    <2> QED BY <1>2, <1>4, <2>1, <2>2 DEF BlocksExact
  <1>10. \A t \in Tiles : xfer[t] = {} /\ \A n \in Nodes : cbk[t][n] = {}
    BY DEF Init
  <1>11. CallbacksOwned /\ HostUnwritten
    BY <1>10, Places DEF CallbacksOwned, HostUnwritten
  <1>12. FedOnce /\ CopiesCurrent
    BY <1>1, <1>10 DEF FedOnce, Fed1, Fed2, Fed3, Fed4, Fed5, Fed, Sends, CopiesCurrent
  <1>13. ValidExact /\ DirtyListed
    <2>1. \A t \in Tiles : valid[t] = {Host} /\ blk[t][Host] = t /\ cur[t] = 0
                           /\ mem[Host][t] = <<t, 0>>
      BY Places DEF Init
    <2> QED BY <1>4, <1>10, <2>1 DEF ValidExact, DirtyListed
  <1>14. InputsServed /\ SourceStays /\ VictimStays
    BY <1>2, <1>4 DEF InputsServed, SourceStays, VictimStays
  <1> QED BY <1>6, <1>7, <1>8, <1>9, <1>11, <1>12, <1>13, <1>14 DEF DsmInv

-----------------------------------------------------------------------------
(* The beginning of a task.                                                *)

\* The new task n has no use that is pinned yet, and the others keep theirs.
LEMMA BeginViews ==
    ASSUME Types, ThreadsAtTasks, Apart, NEW d \in Devices, NEW s \in Shapes, Begin(d, s),
           NEW n, n = Len(tasks) + 1
    PROVE  /\ Kept /\ ThreadsAtTasks' /\ tasks' \in Seq(Task)
           /\ n \in Nat /\ n \notin DOMAIN tasks /\ Live' = Live \cup {n}
           /\ \A j \in DOMAIN tasks : tasks'[j] = tasks[j]
           /\ tasks'[n] = [dev |-> d, shape |-> s, wc |-> 1, st |-> "prep"]
           /\ Uses \subseteq Uses'
           /\ \A y \in Uses' : y \in Uses \/ (y = <<n, y[2]>> /\ y[1] = n /\ y[2] \in DOMAIN s)
           /\ Pinned' = Pinned /\ Allocated' = Allocated /\ Asked' = Asked /\ Listed' = Listed
           /\ \A y \in Uses : Posting(y)' <=> Posting(y)
           /\ \A y \in Uses' : y \notin Uses => ~ Posting(y)'
           /\ \A e \in Devices : SameSearch(e)
           /\ thr'[d] = [pc |-> "acquire", i |-> n, k |-> 1]
           /\ \A e \in Devices : e # d => thr'[e] = thr[e]
           /\ thr' \in [Devices -> {Idle} \cup Steps \cup Evictions \cup Posts]
  <1>1. /\ thr[d] = Idle /\ thr[d].pc = "idle" /\ Prep(d).pc = "idle"
        /\ thr' = [thr EXCEPT ![d] = [pc |-> "acquire", i |-> n, k |-> 1]]
    BY DEF Begin, Idle, Prep
  <1>2. /\ tasks' \in Seq(Task) /\ DOMAIN tasks' = 1..n /\ DOMAIN tasks = 1..(n - 1) /\ n \in Nat
        /\ \A j \in DOMAIN tasks : tasks'[j] = tasks[j]
        /\ tasks'[n] = [dev |-> d, shape |-> s, wc |-> 1, st |-> "prep"]
    <2>1. PICK r : r = [dev |-> d, shape |-> s, wc |-> 1, st |-> "prep"]
      BY Zenon
    <2>2. r \in Task
      BY <2>1 DEF Task, States
    <2>3. tasks \in Seq(Task) /\ tasks' = Append(tasks, r)
      BY <2>1 DEF Types, Begin
    <2> QED BY <2>1, <2>2, <2>3
  <1>3. n \notin DOMAIN tasks /\ DOMAIN tasks \subseteq DOMAIN tasks' /\ n \in DOMAIN tasks'
        /\ DOMAIN tasks' = DOMAIN tasks \cup {n} /\ n > 0
    BY <1>2
  <1>4. Kept
    BY <1>2, <1>3 DEF Kept
  <1>5. Live' = Live \cup {n}
    BY <1>2, <1>3 DEF Live
  <1>6. \A j \in Live : j \in DOMAIN tasks /\ j # n /\ Params(j)' = Params(j)
    BY <1>2, <1>3 DEF Live, Params
  <1>7. Params(n)' = s
    BY <1>2 DEF Params
  <1>8. Uses \subseteq Uses'
    <2>1. ASSUME NEW y \in Uses
          PROVE  y \in Uses'
      <3>1. y = <<y[1], y[2]>> /\ y[1] \in Live /\ y[2] \in DOMAIN Params(y[1])
        BY UsePairs
      <3> QED BY <1>5, <1>6, <3>1, UsePairsNext
    <2> QED BY <2>1
  <1>9. \A y \in Uses' : y \in Uses \/ (y = <<n, y[2]>> /\ y[1] = n /\ y[2] \in DOMAIN s)
    <2> TAKE y \in Uses'
    <2>1. y = <<y[1], y[2]>> /\ y[1] \in Live' /\ y[2] \in DOMAIN Params(y[1])'
      BY UsePairsNext
    <2>2. CASE y[1] = n
      BY <1>7, <2>1, <2>2
    <2>3. CASE y[1] # n
      BY <1>5, <1>6, <2>1, <2>3, UsePairs
    <2> QED BY <2>2, <2>3
  <1>10. /\ thr'[d] = [pc |-> "acquire", i |-> n, k |-> 1]
         /\ \A e \in Devices : e # d => thr'[e] = thr[e]
         /\ thr' \in [Devices -> {Idle} \cup Steps \cup Evictions \cup Posts]
    <2>1. [pc |-> "acquire", i |-> n, k |-> 1] \in Steps
      BY <1>2 DEF Steps
    <2> QED BY <1>1, <2>1 DEF Types
  <1>11. Prep(d)' = thr'[d] /\ \A e \in Devices : e # d => Prep(e)' = Prep(e)
    BY <1>10 DEF Prep
  <1>12. \A j \in DOMAIN tasks : tasks[j].st = "prep" => tasks[j].dev \in Devices \ {d}
    BY <1>1, TaskTypes DEF ThreadsAtTasks, Task
  <1>13. ASSUME NEW y \in Uses, NEW pcs
         PROVE  Behind(y, pcs)' <=> Behind(y, pcs)
    <2>1. y[1] \in DOMAIN tasks /\ tasks'[y[1]] = tasks[y[1]] /\ DevOf(y)' = DevOf(y)
      BY <1>2, <1>4, UseTypes, UseKept
    <2>2. tasks[y[1]].st = "prep" => Prep(DevOf(y))' = Prep(DevOf(y))
      BY <1>11, <1>12, <2>1 DEF DevOf
    <2> QED BY <2>1, <2>2 DEF Behind
  <1>14. \A k \in DOMAIN s : k \in Nat /\ k >= 1
    BY DsmAssumption
  <1>15. ASSUME NEW y \in Uses', y \notin Uses
         PROVE  /\ \A pcs : "acquire" \notin pcs => ~ Behind(y, pcs)'
                /\ ~ Posting(y)'
    <2>1. y[1] = n /\ y[2] \in Nat /\ y[2] >= 1
      BY <1>9, <1>14, <1>15
    <2>2. DevOf(y)' = d /\ tasks'[y[1]].st = "prep"
      BY <1>2, <2>1 DEF DevOf
    <2>3. thr'[d].pc = "acquire" /\ Prep(d)'.pc = "acquire" /\ Prep(d)'.k = 1
      BY <1>10, <1>11
    <2> QED BY <2>1, <2>2, <2>3 DEF Behind, Posting
  <1>16. \A y \in Uses : Posting(y)' <=> Posting(y)
    <2> TAKE y \in Uses
    <2>1. DevOf(y)' = DevOf(y) /\ DevOf(y) \in Devices
      BY <1>4, UseTypes, UseKept
    <2>2. CASE DevOf(y) = d
      <3>1. thr'[d].pc = "acquire" /\ thr[d].pc = "idle"
        BY <1>1, <1>10
      <3> QED BY <2>1, <2>2, <3>1 DEF Posting
    <2>3. CASE DevOf(y) # d
      <3>1. thr'[DevOf(y)] = thr[DevOf(y)]
        BY <1>10, <2>1, <2>3
      <3> QED BY <2>1, <3>1 DEF Posting
    <2> QED BY <2>2, <2>3
  <1>17. /\ Pinned' = Pinned /\ Allocated' = Allocated /\ Asked' = Asked /\ Listed' = Listed
    <2>1. Pinned' = {y \in Uses' : Behind(y, {"alloc", "unset", "fetch", "touch"})'}
      BY DEF Pinned
    <2>2. Allocated' = {y \in Uses' : Behind(y, {"fetch", "touch"})'}
      BY DEF Allocated
    <2>3. Asked' = {y \in Uses' : Behind(y, {"touch"})' /\ ~ Posting(y)'}
      BY DEF Asked
    <2>4. Listed' = {y \in Uses' : Behind(y, {})'}
      BY DEF Listed
    <2>5. /\ "acquire" \notin {"alloc", "unset", "fetch", "touch"}
          /\ "acquire" \notin {"fetch", "touch"} /\ "acquire" \notin {"touch"} /\ "acquire" \notin {}
      OBVIOUS
    <2>6. Pinned' = Pinned
      BY <1>8, <1>13, <1>15, <2>1, <2>5 DEF Pinned
    <2>7. Allocated' = Allocated
      BY <1>8, <1>13, <1>15, <2>2, <2>5 DEF Allocated
    <2>8. Asked' = Asked
      BY <1>8, <1>13, <1>15, <1>16, <2>3, <2>5 DEF Asked
    <2>9. Listed' = Listed
      BY <1>8, <1>13, <1>15, <2>4, <2>5 DEF Listed
    <2> QED BY <2>6, <2>7, <2>8, <2>9
  <1>18. \A e \in Devices : SameSearch(e)
    <2>1. Prep(d)'.pc = "acquire"
      BY <1>10, <1>11
    <2> QED BY <1>11, <2>1 DEF SameSearch
  <1>19. ThreadsAtTasks'
    <2>1. ASSUME NEW e \in Devices, Prep(e)'.pc # "idle"
          PROVE  /\ Prep(e)'.i \in DOMAIN tasks' /\ tasks'[Prep(e)'.i].dev = e
                 /\ tasks'[Prep(e)'.i].st = "prep"
                 /\ Prep(e)'.k \in DOMAIN tasks'[Prep(e)'.i].shape
      <3>1. CASE e = d
        <4>1. Prep(d)'.i = n /\ Prep(d)'.k = 1
          BY <1>10, <1>11
        <4>2. 1 \in DOMAIN s
          BY DsmAssumption
        <4> QED BY <1>2, <1>3, <3>1, <4>1, <4>2
      <3>2. CASE e # d
        <4>1. Prep(e)' = Prep(e) /\ Prep(e).pc # "idle"
          BY <1>11, <2>1, <3>2
        <4>2. /\ Prep(e).i \in DOMAIN tasks /\ tasks[Prep(e).i].dev = e
              /\ tasks[Prep(e).i].st = "prep" /\ Prep(e).k \in DOMAIN tasks[Prep(e).i].shape
          BY <4>1, PrepTypes DEF Params
        <4> QED BY <1>2, <1>3, <4>1, <4>2
      <3> QED BY <3>1, <3>2
    <2>2. ASSUME NEW e \in Devices, thr'[e].pc = "post"
          PROVE  \/ /\ thr'[e].dst = e
                    /\ Prep(e)'.pc = "touch" /\ Prep(e)'.i = thr'[e].i /\ Prep(e)'.k = thr'[e].k
                    /\ Reads(Mode(e)')
                 \/ /\ thr'[e].dst = Host /\ thr'[e].k = 1 /\ Prep(e)'.pc \in {"idle", "alloc"}
                    /\ thr'[e].i \in DOMAIN tasks' /\ tasks'[thr'[e].i].dev = e
                    /\ tasks'[thr'[e].i].st = "running"
      <3>1. e # d
        BY <1>10, <2>2
      <3>2. thr'[e] = thr[e] /\ Prep(e)' = Prep(e) /\ thr[e].pc = "post"
        BY <1>10, <1>11, <2>2, <3>1
      <3>3. thr[e].i \in DOMAIN tasks
        BY <3>2, PostTile
      <3>4. Mode(e)' = Mode(e)
        BY <1>2, <3>2, <3>3 DEF Mode, Param, Params
      <3>5. thr[e].i \in DOMAIN tasks' /\ tasks'[thr[e].i] = tasks[thr[e].i]
        BY <1>2, <1>3, <3>3
      <3> QED BY <3>2, <3>4, <3>5 DEF ThreadsAtTasks
    <2>3. ASSUME NEW j \in DOMAIN tasks', tasks'[j].st = "prep"
          PROVE  \E e \in Devices : tasks'[j].dev = e /\ Prep(e)'.pc # "idle" /\ Prep(e)'.i = j
      <3>1. CASE j = n
        <4>1. Prep(d)'.i = n /\ Prep(d)'.pc # "idle"
          BY <1>10, <1>11
        <4> QED BY <1>2, <3>1, <4>1
      <3>2. CASE j # n
        <4>1. j \in DOMAIN tasks /\ tasks'[j] = tasks[j]
          BY <1>2, <1>3, <3>2
        <4>2. tasks[j].dev \in Devices \ {d}
          BY <1>12, <2>3, <4>1
        <4>3. Prep(tasks[j].dev).pc # "idle" /\ Prep(tasks[j].dev).i = j
          BY <2>3, <4>1 DEF ThreadsAtTasks
        <4> QED BY <1>11, <4>1, <4>2, <4>3
      <3> QED BY <3>1, <3>2
    <2>4. ASSUME NEW j \in DOMAIN tasks', tasks'[j].st = "running"
          PROVE  /\ thr'[tasks'[j].dev].pc = "post" /\ thr'[tasks'[j].dev].dst = Host
                 /\ thr'[tasks'[j].dev].i = j
                 /\ tasks'[j].wc = 0 /\ IsWriteBack(j)'
      <3>1. j \in DOMAIN tasks /\ tasks'[j] = tasks[j]
        BY <1>2, <1>3, <2>4
      <3>2. /\ thr[tasks[j].dev].pc = "post" /\ thr[tasks[j].dev].dst = Host
            /\ thr[tasks[j].dev].i = j /\ tasks[j].wc = 0 /\ IsWriteBack(j)
        BY <2>4, <3>1 DEF ThreadsAtTasks
      <3>3. tasks[j].dev # d /\ tasks[j].dev \in Devices
        BY <1>1, <3>1, <3>2, TaskTypes DEF Task
      <3>4. thr'[tasks[j].dev] = thr[tasks[j].dev]
        BY <1>10, <3>3
      <3>5. IsWriteBack(j)' <=> IsWriteBack(j)
        BY <3>1 DEF IsWriteBack, Params
      <3> QED BY <3>1, <3>2, <3>4, <3>5
    <2> QED BY <2>1, <2>2, <2>3, <2>4 DEF ThreadsAtTasks, Params, Prep
  <1> QED BY <1>2, <1>3, <1>4, <1>5, <1>8, <1>9, <1>10, <1>15, <1>16, <1>17, <1>18, <1>19

\* A task begins when no live task conflicts with it.
LEMMA BeginKeeps ==
    ASSUME DsmInv, NEW d \in Devices, NEW s \in Shapes, Begin(d, s), Unharmed'
    PROVE  DsmInv'
  <1>a. PICK n : n = Len(tasks) + 1
    BY Zenon
  <1>0. /\ Types /\ ThreadsAtTasks /\ Apart /\ PinsExact /\ BlocksExact /\ CountersExact
        /\ CallbacksOwned /\ HostUnwritten /\ FedOnce /\ CopiesCurrent /\ ValidExact
        /\ InputsServed /\ SourceStays /\ VictimStays /\ DirtyListed
    BY DEF DsmInv
  <1>1. /\ Kept /\ ThreadsAtTasks' /\ tasks' \in Seq(Task)
        /\ n \in Nat /\ n \notin DOMAIN tasks /\ Live' = Live \cup {n}
        /\ \A j \in DOMAIN tasks : tasks'[j] = tasks[j]
        /\ tasks'[n] = [dev |-> d, shape |-> s, wc |-> 1, st |-> "prep"]
        /\ Uses \subseteq Uses'
        /\ \A y \in Uses' : y \in Uses \/ (y = <<n, y[2]>> /\ y[1] = n /\ y[2] \in DOMAIN s)
        /\ Pinned' = Pinned /\ Allocated' = Allocated /\ Asked' = Asked /\ Listed' = Listed
        /\ \A y \in Uses : Posting(y)' <=> Posting(y)
        /\ \A y \in Uses' : y \notin Uses => ~ Posting(y)'
        /\ \A e \in Devices : SameSearch(e)
        /\ thr'[d] = [pc |-> "acquire", i |-> n, k |-> 1]
        /\ \A e \in Devices : e # d => thr'[e] = thr[e]
        /\ thr' \in [Devices -> {Idle} \cup Steps \cup Evictions \cup Posts]
    BY <1>0, <1>a, BeginViews
  <1>2. /\ cap' = cap /\ blk' = blk /\ mem' = mem /\ valid' = valid /\ xfer' = xfer /\ pin' = pin
        /\ cbk' = cbk /\ copies' = copies /\ ro' = ro /\ rw' = rw /\ cur' = cur
        /\ mishaps' = IF Overtakes(s) THEN mishaps \cup {"overtaken"} ELSE mishaps
    BY DEF Begin, memVars, stateVars, listVars
  <1>3. cap[d] > 0 /\ NoConflict(s) /\ ~ Overtakes(s) /\ mishaps' = mishaps
    <2>1. ~ Overtakes(s)
      BY <1>2 DEF Unharmed
    <2> QED BY <1>2, <2>1 DEF Begin
  <1>4. /\ Params(n)' = s /\ tasks'[n].dev = d /\ tasks'[n].wc = 1 /\ tasks'[n].st = "prep"
        /\ \A j \in Live : /\ j \in DOMAIN tasks /\ j # n /\ Params(j)' = Params(j)
                           /\ tasks'[j] = tasks[j]
    BY <1>1 DEF Live, Params
  <1>5. \A y \in Uses : /\ TileOf(y)' = TileOf(y) /\ DevOf(y)' = DevOf(y)
                        /\ ModeOf(y)' = ModeOf(y) /\ y[1] # n
    BY <1>0, <1>1, UseKept, UseTypes
  <1>6. ASSUME NEW y \in Uses', y \notin Uses
        PROVE  /\ y[1] = n /\ y[2] \in DOMAIN s
               /\ TileOf(y)' = s[y[2]][1] /\ ModeOf(y)' = s[y[2]][2]
    BY <1>1, <1>4, <1>6 DEF TileOf, ModeOf
  <1>7. /\ \A k \in DOMAIN s : \A y \in Uses : TileOf(y) = s[k][1] =>
               ~ Writes(ModeOf(y)) /\ ~ Writes(s[k][2])
        /\ \A k \in DOMAIN s : Writes(s[k][2]) => Host \notin xfer[s[k][1]]
    <2>1. ASSUME NEW k \in DOMAIN s
          PROVE  ~ Written(s[k][1]) /\ (Writes(s[k][2]) => ~ Used(s[k][1]) /\ Host \notin xfer[s[k][1]])
      BY <1>3 DEF NoConflict, Overtakes
    <2>2. ASSUME NEW y \in Uses
          PROVE  Used(TileOf(y)) /\ (Writes(ModeOf(y)) => Written(TileOf(y)))
      BY UsePairs DEF Used, Written, TileOf, ModeOf
    <2> QED BY <2>1, <2>2
  <1>8. Types'
    BY <1>0, <1>1, <1>2 DEF Types
  <1>9. Apart'
    <2>1. ASSUME NEW j \in Live'
          PROVE  Params(j)' \in Shapes /\ cap'[tasks'[j].dev] > 0
      <3>1. CASE j = n
        BY <1>2, <1>3, <1>4, <3>1
      <3>2. CASE j \in Live
        BY <1>0, <1>2, <1>4, <3>2 DEF Apart
      <3> QED BY <1>1, <3>1, <3>2
    <2>2. ASSUME NEW x \in Uses', NEW y \in Uses', x[1] # y[1], TileOf(x)' = TileOf(y)'
          PROVE  ~ Writes(ModeOf(x)')
      <3>1. CASE x \in Uses /\ y \in Uses
        BY <1>0, <1>5, <2>2, <3>1 DEF Apart
      <3>2. CASE x \in Uses /\ y \notin Uses
        <4>1. y[2] \in DOMAIN s /\ TileOf(y)' = s[y[2]][1]
          BY <1>6, <3>2
        <4> QED BY <1>5, <1>7, <2>2, <3>2, <4>1
      <3>3. CASE x \notin Uses /\ y \in Uses
        <4>1. x[2] \in DOMAIN s /\ TileOf(x)' = s[x[2]][1] /\ ModeOf(x)' = s[x[2]][2]
          BY <1>6, <3>3
        <4> QED BY <1>5, <1>7, <2>2, <3>3, <4>1
      <3>4. CASE x \notin Uses /\ y \notin Uses
        BY <1>6, <2>2, <3>4
      <3> QED BY <3>1, <3>2, <3>3, <3>4
    <2>3. \A x, y \in Uses' : x[1] # y[1] /\ TileOf(x)' = TileOf(y)' => ~ Writes(ModeOf(x)')
      BY <2>2
    <2> QED BY <2>1, <2>3 DEF Apart
  <1>10. PinsExact' /\ BlocksExact'
    BY <1>0, <1>1, <1>2, FramePins, FrameBlocks
  <1>11. CountersExact'
    <2>1. ASSUME NEW j \in Live'
          PROVE  tasks'[j].wc = Cardinality(Waiting(j)') + (IF tasks'[j].st = "prep" THEN 1 ELSE 0)
                      + (IF \E k \in DOMAIN Params(j)' : Posting(<<j, k>>)' THEN 1 ELSE 0)
      <3>1. CASE j \in Live
        <4>1. Waiting(j)' = Waiting(j)
          BY <1>2, <1>4, <3>1 DEF Waiting
        <4>2. (\E k \in DOMAIN Params(j)' : Posting(<<j, k>>)') <=> \E k \in DOMAIN Params(j) : Posting(<<j, k>>)
          BY <1>1, <1>4, <3>1, UsePairs
        <4>3. tasks'[j] = tasks[j]
          BY <1>4, <3>1
        <4> QED BY <1>0, <3>1, <4>1, <4>2, <4>3 DEF CountersExact
      <3>2. CASE j = n
        <4>1. \A k \in DOMAIN s : <<n, k>> \in Uses' /\ <<n, k>> \notin Uses
          BY <1>1, <1>4, <1>5, UsePairsNext
        <4>2. \A k \in DOMAIN s : ~ Posting(<<n, k>>)'
          BY <1>1, <4>1
        <4>3. Waiting(n)' = {}
          <5> SUFFICES ASSUME NEW k \in DOMAIN s, <<"task", <<n, k>>>> \in cbk[s[k][1]][d]
                       PROVE  FALSE
            BY <1>2, <1>4 DEF Waiting
          <5>1. s[k][1] \in Tiles /\ d \in Nodes
            BY DsmAssumption, Places
          <5>2. <<n, k>> \in Asked
            BY <1>0, <5>1 DEF CallbacksOwned
          <5> QED BY <4>1, <5>2, Subsets
        <4>4. Cardinality({}) = 0
          BY FS_EmptySet
        <4>5. Cardinality(Waiting(n)') = 0
          BY <4>3, <4>4
        <4>6. ~ \E k \in DOMAIN Params(n)' : Posting(<<n, k>>)'
          BY <1>4, <4>2
        <4> QED BY <1>4, <3>2, <4>5, <4>6
      <3> QED BY <1>1, <3>1, <3>2
    <2> QED BY <2>1 DEF CountersExact
  <1>12. CallbacksOwned'
    <2>1. \A y \in Asked : TileOf(y)' = TileOf(y) /\ DevOf(y)' = DevOf(y) /\ ModeOf(y)' = ModeOf(y)
      BY <1>5, Subsets
    <2>2. \A t \in Tiles, m \in Nodes : \A c \in cbk[t][m] : c[1] = "task" =>
            /\ c[2] \in Asked' /\ Reads(ModeOf(c[2])')
            /\ TileOf(c[2])' = t /\ DevOf(c[2])' = m
      BY <1>0, <1>1, <2>1 DEF CallbacksOwned
    <2>3. \A t \in Tiles, e \in Devices : e \in xfer[t] => \E y \in Uses' : <<"task", y>> \in cbk[t][e]
      BY <1>0, <1>1 DEF CallbacksOwned
    <2> QED BY <1>0, <1>2, <2>2, <2>3 DEF CallbacksOwned
  <1>13. HostUnwritten'
    <2> SUFFICES ASSUME NEW t \in Tiles, Host \in xfer[t], Written(t)'
                 PROVE  FALSE
      BY <1>2 DEF HostUnwritten
    <2>0. PICK j \in Live' : \E k \in DOMAIN Params(j)' :
              Params(j)'[k][1] = t /\ Writes(Params(j)'[k][2])
      BY DEF Written
    <2>1. PICK k \in DOMAIN Params(j)' : Params(j)'[k][1] = t /\ Writes(Params(j)'[k][2])
      BY <2>0
    <2>2. CASE j = n
      BY <1>4, <1>7, <2>1, <2>2
    <2>3. CASE j \in Live
      <3>1. Written(t)
        BY <1>4, <2>1, <2>3 DEF Written
      <3> QED BY <1>0, <3>1 DEF HostUnwritten
    <2> QED BY <1>1, <2>2, <2>3
  <1>14. FedOnce' /\ CopiesCurrent' /\ ValidExact' /\ InputsServed' /\ DirtyListed'
    BY <1>0, <1>1, <1>2, <1>3, FrameFed, FrameCopies, FrameValid, FrameInputs, FrameDirty
  <1>15. SourceStays' /\ VictimStays'
    <2>1. \A e \in Devices : thr'[e].pc \in {"post", "unset"} => thr'[e] = thr[e]
      BY <1>1
    <2> QED BY <1>0, <1>1, <1>2, <2>1, FrameSource, FrameVictim
  <1> QED BY <1>1, <1>8, <1>9, <1>10, <1>11, <1>12, <1>13, <1>14, <1>15 DEF DsmInv

-----------------------------------------------------------------------------
(* The invariant.                                                          *)

\* A step that changes nothing.
LEMMA StutterKeeps ==
    ASSUME DsmInv, UNCHANGED vars
    PROVE  DsmInv'
  <1>0. /\ Types /\ ThreadsAtTasks /\ Apart /\ PinsExact /\ BlocksExact /\ CountersExact
        /\ CallbacksOwned /\ HostUnwritten /\ FedOnce /\ CopiesCurrent /\ ValidExact
        /\ InputsServed /\ SourceStays /\ VictimStays /\ DirtyListed
    BY DEF DsmInv
  <1>1. /\ cap' = cap /\ blk' = blk /\ mem' = mem /\ valid' = valid /\ xfer' = xfer /\ pin' = pin
        /\ cbk' = cbk /\ copies' = copies /\ ro' = ro /\ rw' = rw /\ cur' = cur
        /\ tasks' = tasks /\ thr' = thr /\ mishaps' = mishaps
    BY DEF vars, memVars, stateVars, listVars
  <1>2. Kept /\ SamePreps
    BY <1>1 DEF Kept, SamePreps, Prep
  <1>3. Live' = Live /\ Uses' = Uses /\ \A t : Written(t)' <=> Written(t)
    BY <1>0, <1>1, <1>2, SameUses
  <1>4. \A y \in Uses : Posting(y)' <=> Posting(y)
    BY <1>1 DEF Posting, DevOf
  <1>5. /\ Pinned' = Pinned /\ Allocated' = Allocated /\ Asked' = Asked /\ Listed' = Listed
        /\ \A e \in Devices : SameSearch(e)
    <2>1. Uses' \subseteq Uses /\ \A y \in Uses' : Posting(y)' <=> Posting(y)
      BY <1>3, <1>4
    <2>2. /\ Pinned' = Pinned \cap Uses' /\ Allocated' = Allocated \cap Uses'
          /\ Asked' = Asked \cap Uses' /\ Listed' = Listed \cap Uses'
          /\ \A e \in Devices : SameSearch(e)
      BY <1>0, <1>2, <2>1, SameViews
    <2> QED BY <1>3, <2>2, Subsets
  <1>6. ThreadsAtTasks' /\ Types'
    <2>1. ThreadsAtTasks'
      BY <1>0, <1>1, <1>2, SameThreads
    <2> QED BY <1>0, <1>1, <2>1 DEF Types
  <1>7. Apart' /\ PinsExact' /\ BlocksExact'
    BY <1>0, <1>1, <1>2, <1>3, <1>5, FrameApart, FramePins, FrameBlocks
  <1>8. CountersExact'
    <2>1. \A j \in Live' : \A k \in DOMAIN Params(j) : Posting(<<j, k>>)' <=> Posting(<<j, k>>)
      BY <1>3, <1>4, UsePairs
    <2> QED BY <1>0, <1>1, <1>2, <1>3, <2>1, FrameCounters
  <1>9. CallbacksOwned' /\ HostUnwritten' /\ FedOnce' /\ CopiesCurrent'
    BY <1>0, <1>1, <1>2, <1>3, <1>5, FrameCallbacks, FrameHost, FrameFed, FrameCopies
  <1>10. ValidExact' /\ InputsServed' /\ DirtyListed'
    BY <1>0, <1>1, <1>2, <1>5, FrameValid, FrameInputs, FrameDirty
  <1>11. SourceStays' /\ VictimStays'
    BY <1>0, <1>1, <1>2, FrameSource, FrameVictim
  <1> QED BY <1>6, <1>7, <1>8, <1>9, <1>10, <1>11 DEF DsmInv

\* Every step keeps the invariant.
LEMMA NextKeeps ==
    ASSUME DsmInv, [Next]_vars, Unharmed'
    PROVE  DsmInv'
  <1>1. ASSUME NEW d \in Devices, NEW s \in Shapes, Begin(d, s)
        PROVE  DsmInv'
    BY <1>1, BeginKeeps
  <1>2. ASSUME NEW d \in Devices, Acquire(d)
        PROVE  DsmInv'
    BY <1>2, AcquireKeeps
  <1>3. ASSUME NEW d \in Devices, Alloc(d)
        PROVE  DsmInv'
    BY <1>3, AllocKeeps
  <1>4. ASSUME NEW d \in Devices, Evict(d)
        PROVE  DsmInv'
    BY <1>4, EvictKeeps
  <1>5. ASSUME NEW d \in Devices, Unset(d)
        PROVE  DsmInv'
    BY <1>5, UnsetKeeps
  <1>6. ASSUME NEW d \in Devices, Fetch(d)
        PROVE  DsmInv'
    BY <1>6, FetchStays, FetchAsks
  <1>7. ASSUME NEW d \in Devices, Post(d)
        PROVE  DsmInv'
    BY <1>7, PostHereKeeps, PostThereKeeps, PostHostKeeps
  <1>8. ASSUME NEW d \in Devices, Touch(d)
        PROVE  DsmInv'
    BY <1>8, TouchKeeps
  <1>9. ASSUME NEW c \in copies, Receive(c)
        PROVE  DsmInv'
    BY <1>9, ReceiveKeeps
  <1>10. ASSUME NEW i \in DOMAIN tasks, Run(i)
         PROVE  DsmInv'
    BY <1>10, RunKeeps
  <1>11. ASSUME NEW i \in DOMAIN tasks, RunWriteBack(i)
         PROVE  DsmInv'
    BY <1>11, RunWriteBackKeeps
  <1>12. ASSUME Invalidate
         PROVE  DsmInv'
    BY <1>12, InvalidateKeeps
  <1>13. ASSUME UNCHANGED vars
         PROVE  DsmInv'
    BY <1>13, StutterKeeps
  <1> QED BY <1>1, <1>2, <1>3, <1>4, <1>5, <1>6, <1>7, <1>8, <1>9, <1>10, <1>11, <1>12, <1>13
       DEF Next

\* No step forgets a mishap.
LEMMA MishapsStay ==
    ASSUME [Next]_vars
    PROVE  Unharmed' => Unharmed
  <1>1. ASSUME NEW d \in Devices, NEW s \in Shapes, Begin(d, s)
        PROVE  mishaps \subseteq mishaps'
    BY <1>1 DEF Begin
  <1>2. ASSUME NEW d \in Devices, Acquire(d) \/ Alloc(d) \/ Evict(d) \/ Fetch(d) \/ Touch(d)
        PROVE  mishaps \subseteq mishaps'
    BY <1>2 DEF Acquire, Alloc, Evict, Fetch, Touch
  <1>3. ASSUME NEW d \in Devices, Unset(d)
        PROVE  mishaps \subseteq mishaps'
    <2>1. PICK t : mishaps' = mishaps \cup (IF DropsSource(d, t) THEN {"source"} ELSE {})
                                      \cup (IF DropsLast(d, t) THEN {"last"} ELSE {})
                                      \cup (IF DropsDirty(d, t) THEN {"unlisted"} ELSE {})
      BY <1>3 DEF Unset
    <2> QED BY <2>1
  <1>4. ASSUME NEW d \in Devices, Post(d)
        PROVE  mishaps \subseteq mishaps'
    BY <1>4 DEF Post
  <1>5. ASSUME NEW c \in copies, Receive(c)
        PROVE  mishaps \subseteq mishaps'
    BY <1>5 DEF Receive
  <1>6. ASSUME NEW i \in DOMAIN tasks, Run(i) \/ RunWriteBack(i)
        PROVE  mishaps \subseteq mishaps'
    BY <1>6 DEF Run, RunWriteBack
  <1>7. CASE Invalidate \/ UNCHANGED vars
    BY <1>7 DEF Invalidate, vars, Unharmed
  <1> QED BY <1>1, <1>2, <1>3, <1>4, <1>5, <1>6, <1>7 DEF Next, Unharmed

\* In every reachable state the replicas, the transfers, the pins and the counters
\* of kaapi_memory.c agree with the uses of the live tasks, as long as no eviction has
\* taken a replica that another device counts on and no writer has overtaken a
\* write-back.
THEOREM DsmInvHolds ==
    Spec => [](Unharmed => DsmInv)
  <1>1. Init => (Unharmed => DsmInv)
    BY InitKeeps
  <1>2. (Unharmed => DsmInv) /\ [Next]_vars => (Unharmed => DsmInv)'
    <2> SUFFICES ASSUME Unharmed => DsmInv, [Next]_vars, Unharmed'
                 PROVE  DsmInv'
      OBVIOUS
    <2> QED BY MishapsStay, NextKeeps
  <1> QED BY <1>1, <1>2, PTL DEF Spec

-----------------------------------------------------------------------------
(* What it says of the kernels, of the copies and of the lists.            *)

\* A task that has been prepared has asked for its inputs, and they have come.
LEMMA InputsThere ==
    ASSUME DsmInv
    PROVE  KernelReadsCurrent
  <1> SUFFICES ASSUME NEW i \in Live, tasks[i].st = "pending", Inserted(i), NEW p \in Inputs(i)
               PROVE  /\ blk[p[1]][tasks[i].dev] # 0
                      /\ mem[tasks[i].dev][blk[p[1]][tasks[i].dev]] = <<p[1], cur[p[1]]>>
    BY DEF KernelReadsCurrent
  <1>a. PICK t, d : t = p[1] /\ d = tasks[i].dev
    BY Zenon
  <1>b. PICK k \in DOMAIN Params(i) : p = Params(i)[k] /\ Reads(Params(i)[k][2])
    BY DEF Inputs, Range
  <1>0. /\ Types /\ ThreadsAtTasks /\ Apart /\ BlocksExact /\ CountersExact /\ CallbacksOwned
        /\ InputsServed
    BY DEF DsmInv
  <1>1. i \in DOMAIN tasks
    BY DEF Live
  <1>2. tasks[i].wc = 0
    BY <1>0, <1>1, InsertedWaits
  <1>3. PICK x : x = <<i, k>>
    BY Zenon
  <1>4. /\ x \in Uses /\ x[1] = i /\ TileOf(x) = t /\ DevOf(x) = d /\ Reads(ModeOf(x))
        /\ t \in Tiles /\ d \in Devices /\ d \in Nodes
    <2>1. x \in Uses /\ x[1] = i
      BY <1>3, UsePairs
    <2>2. TileOf(x) = t /\ DevOf(x) = d /\ Reads(ModeOf(x))
      BY <1>3, <1>a, <1>b DEF TileOf, DevOf, ModeOf
    <2> QED BY <1>0, <2>1, <2>2, UseTypes, Places
  <1>5. ~ Posting(x)
    <2>1. ASSUME thr[d].pc = "post", thr[d].dst # Host, thr[d].i = i
          PROVE  FALSE
      <3>1. Prep(d).i = i /\ Prep(d).pc # "idle"
        BY <1>0, <1>4, <2>1 DEF ThreadsAtTasks
      <3>2. tasks[i].st = "prep"
        BY <1>0, <1>4, <3>1, PrepTypes
      <3> QED BY <3>2
    <2> QED BY <1>4, <2>1 DEF Posting
  <1>6. x \in Asked /\ x \in Allocated
    BY <1>4, <1>5 DEF Asked, Allocated, Behind
  <1>7. <<"task", x>> \notin cbk[t][d]
    BY <1>0, <1>2, <1>3, <1>4, NoCallbacks
  <1>8. blk[t][d] # 0
    BY <1>0, <1>4, <1>6 DEF BlocksExact
  <1>9. mem[d][blk[t][d]] = <<t, cur[t]>>
    BY <1>0, <1>4, <1>6, <1>7 DEF InputsServed
  <1> QED BY <1>8, <1>9, <1>a, Zenon

\* A tile that no task writes has no writer that has made replicas invalid.
LEMMA Undirtied ==
    ASSUME NEW t, ~ Written(t)
    PROVE  Dirtying(t) = {}
  BY WrittenUses, Subsets DEF Dirtying

\* The destination of a copy is pinned by the use that waits for it.
LEMMA CopiesPinned ==
    ASSUME DsmInv
    PROVE  CopyKeepsBlocks
  <1> SUFFICES ASSUME NEW c \in copies
               PROVE  /\ blk[c.t][c.src] = c.from /\ Content(c) = <<c.t, cur[c.t]>>
                      /\ blk[c.t][c.dst] = c.to /\ (c.dst # Host => pin[c.t][c.dst] > 0)
    BY DEF CopyKeepsBlocks
  <1>0. /\ Types /\ PinsExact /\ CallbacksOwned /\ CopiesCurrent
    BY DEF DsmInv
  <1>1. /\ c.t \in Tiles /\ c.dst \in Nodes /\ c.dst \in xfer[c.t] /\ Content(c) = <<c.t, cur[c.t]>>
    BY TheCopy
  <1>2. ASSUME c.dst # Host
        PROVE  pin[c.t][c.dst] > 0
    <2>a. PICK t, d : t = c.t /\ d = c.dst
      OBVIOUS
    <2>1. t \in Tiles /\ d \in Devices /\ d \in Nodes /\ d \in xfer[t]
      BY <1>1, <1>2, <2>a, Places
    <2>2. PICK x \in Uses : <<"task", x>> \in cbk[t][d]
      BY <1>0, <2>1 DEF CallbacksOwned
    <2>3. x \in Asked /\ TileOf(x) = t /\ DevOf(x) = d
      BY <1>0, <2>1, <2>2 DEF CallbacksOwned
    <2>4. x \in Holders(t, d)
      BY <2>3, Subsets DEF Holders
    <2>5. IsFiniteSet(Holders(t, d)) /\ pin[t][d] = Cardinality(Holders(t, d))
      BY <1>0, <2>1 DEF PinsExact
    <2>6. Cardinality(Holders(t, d)) \in Nat /\ Cardinality(Holders(t, d)) # 0
      BY <2>4, <2>5, FS_CardinalityType, FS_EmptySet
    <2> QED BY <2>a, <2>5, <2>6
  <1> QED BY <1>0, <1>1, <1>2 DEF CopiesCurrent

\* Nothing is forwarded to a replica that is valid.
LEMMA ForwardsNeeded ==
    ASSUME DsmInv
    PROVE  ForwardIsNeeded
  <1> SUFFICES ASSUME NEW t \in Tiles, NEW n \in Nodes, NEW d \in Devices,
                      <<"send", d>> \in cbk[t][n], d \in valid[t]
               PROVE  FALSE
    BY DEF ForwardIsNeeded
  <1>0. /\ Types /\ Apart /\ CallbacksOwned /\ HostUnwritten /\ FedOnce /\ ValidExact
    BY DEF DsmInv
  <1>1. d \in Nodes /\ d \in xfer[t] /\ d # n /\ n \in xfer[t]
    BY <1>0, Places DEF FedOnce, Fed2, Sends, CallbacksOwned
  <1>2. PICK x : x \in Dirtying(t)
    BY <1>0, <1>1 DEF ValidExact
  <1>3. x \in Uses /\ TileOf(x) = t /\ Writes(ModeOf(x))
    BY <1>2, Subsets DEF Dirtying
  <1>4. n \in Devices
    BY <1>0, <1>1, <1>3, WrittenUses, Places DEF HostUnwritten
  <1>5. ASSUME NEW e \in Devices, e \in xfer[t]
        PROVE  DevOf(x) = e
    <2>1. PICK y \in Uses : <<"task", y>> \in cbk[t][e]
      BY <1>0, <1>5 DEF CallbacksOwned
    <2>2. TileOf(y) = t /\ DevOf(y) = e
      BY <1>0, <1>5, <2>1, Places DEF CallbacksOwned
    <2> QED BY <1>0, <1>3, <2>2, OneUse
  <1> QED BY <1>1, <1>4, <1>5

\* A kernel that can run finds the last version of its inputs in the blocks of its
\* device (kaapi_dsm_acquire_data, callback_activate_replica_on_receive_cbk), as long
\* as no eviction has hurt another device.
THEOREM KernelReadsCurrentHolds ==
    Spec => []KernelReadsCurrent
  <1>1. (Unharmed => DsmInv) => KernelReadsCurrent
    <2>1. CASE Unharmed
      BY <2>1, InputsThere
    <2>2. CASE ~ Unharmed
      BY <2>2 DEF KernelReadsCurrent
    <2> QED BY <2>1, <2>2
  <1> QED BY <1>1, DsmInvHolds, PTL

\* Valid replicas hold the last version, and there is one, as long as no eviction has
\* hurt another device and no writer has overtaken a write-back.
THEOREM ValidIsCurrentHolds ==
    Spec => []ValidIsCurrent
  <1>1. (Unharmed => DsmInv) => ValidIsCurrent
    BY Undirtied DEF DsmInv, ValidExact, ValidIsCurrent
  <1> QED BY <1>1, DsmInvHolds, PTL

\* A copy keeps the blocks of its source and of its destination until it ends, and
\* it reads the last version (kaapi_dsm_fetch_on), unless an eviction took its source.
THEOREM CopyKeepsBlocksHolds ==
    Spec => []CopyKeepsBlocks
  <1>1. (Unharmed => DsmInv) => CopyKeepsBlocks
    <2>1. CASE Unharmed
      BY <2>1, CopiesPinned
    <2>2. CASE ~ Unharmed
      BY <2>2 DEF CopyKeepsBlocks
    <2> QED BY <2>1, <2>2
  <1> QED BY <1>1, DsmInvHolds, PTL

\* The lists that kaapi_memory_writeback_all walks name every tile that the host
\* misses, until an eviction drops the one replica that is listed so.
THEOREM DirtyIsInRwHolds ==
    Spec => []DirtyIsInRw
  <1>1. (Unharmed => DsmInv) => DirtyIsInRw
    <2> SUFFICES ASSUME Unharmed => DsmInv, mishaps = {}
                 PROVE  \A t \in Tiles : ~ Written(t) /\ Host \notin valid[t] =>
                            \E d \in valid[t] : t \in Range(rw[d])
      BY DEF DirtyIsInRw
    <2>1. DirtyListed /\ "unlisted" \notin mishaps
      BY DEF Unharmed, DsmInv
    <2> QED BY <2>1, Undirtied DEF DirtyListed
  <1> QED BY <1>1, DsmInvHolds, PTL

-----------------------------------------------------------------------------
(* ChainInv: frames.                                                       *)

\* The lists stay and no replica in them loses its block.
LEMMA FrameLists ==
    ASSUME Types, ListsApart, ro' = ro, rw' = rw,
           \A t \in Tiles, d \in Devices : blk[t][d] # 0 => blk'[t][d] # 0
    PROVE  ListsApart'
  <1>1. \A d \in Devices : Range(ro[d]) \cup Range(rw[d]) \subseteq Tiles
    BY ElementOfSeq DEF Types, Range
  <1> QED BY <1>1 DEF ListsApart

\* The versions and the number of tasks stay, and no task begins to write.
LEMMA FrameVersions ==
    ASSUME Types, VersionsBounded, cap' = cap, Len(tasks') = Len(tasks), cur' = cur, mem' = mem,
           \A t : Written(t)' => Written(t)
    PROVE  VersionsBounded'
  BY DEF VersionsBounded

\* No task ends, and those that are over keep their counter.
LEMMA FrameDone ==
    ASSUME DoneCounted, DOMAIN tasks' = DOMAIN tasks,
           \A i \in DOMAIN tasks : tasks'[i].st = "done" =>
               tasks[i].st = "done" /\ tasks'[i].wc = tasks[i].wc
    PROVE  DoneCounted'
  BY DEF DoneCounted

\* No thread asks for a transfer to the host, no replica is made invalid.
LEMMA FrameReadsBack ==
    ASSUME Types, ThreadsAtTasks, Apart, Kept, ReadsBackValid, cbk' = cbk,
           \A d \in Devices : thr'[d].pc = "post" /\ thr'[d].dst = Host => thr'[d] = thr[d],
           \A t \in Tiles : valid[t] \subseteq valid'[t]
    PROVE  ReadsBackValid'
  <1>1. ASSUME NEW d \in Devices, thr'[d].pc = "post", thr'[d].dst = Host
        PROVE  thr'[d].src \in valid'[Tile(d)']
    <2>1. thr'[d] = thr[d] /\ thr[d].pc = "post" /\ thr[d].dst = Host
      BY <1>1
    <2>2. Tile(d) \in Tiles /\ thr[d].i \in DOMAIN tasks /\ thr[d].k \in DOMAIN Params(thr[d].i)
      BY <2>1, PostTile
    <2>3. Tile(d)' = Tile(d)
      BY <2>1, <2>2 DEF Tile, Param, Params, Kept
    <2> QED BY <2>1, <2>2, <2>3 DEF ReadsBackValid
  <1> QED BY <1>1 DEF ReadsBackValid, Sends

\* The same requests to forward.
LEMMA FrameChains ==
    ASSUME ChainsEnd, cbk' = cbk
    PROVE  ChainsEnd'
  BY DEF ChainsEnd, Ranked, Sends

\* A thread that goes on within a use, changes at most blocks.
LEMMA WithinUseChains ==
    ASSUME DsmInv, ChainInv, NEW d \in Devices, WithinUse(d),
           cap' = cap, cur' = cur, mem' = mem, cbk' = cbk, valid' = valid, ro' = ro, rw' = rw,
           \A t \in Tiles, e \in Devices : blk[t][e] # 0 => blk'[t][e] # 0
    PROVE  ChainInv'
  <1>0. Types /\ ThreadsAtTasks /\ Apart
    BY DEF DsmInv
  <1>1. Kept /\ \A t : Written(t)' <=> Written(t)
    BY <1>0, WithinUseKeeps
  <1>2. ListsApart'
    BY <1>0, FrameLists DEF ChainInv
  <1>3. VersionsBounded'
    BY <1>0, <1>1, FrameVersions DEF ChainInv, WithinUse
  <1>4. DoneCounted'
    BY FrameDone DEF ChainInv, WithinUse
  <1>5. ReadsBackValid'
    BY <1>0, <1>1, FrameReadsBack DEF ChainInv, WithinUse
  <1>6. ChainsEnd'
    BY FrameChains DEF ChainInv
  <1> QED BY <1>2, <1>3, <1>4, <1>5, <1>6 DEF ChainInv

\* Acquire changes the pin and the step of its thread.
LEMMA AcquireChains ==
    ASSUME DsmInv, ChainInv, NEW d \in Devices, Acquire(d)
    PROVE  ChainInv'
  <1>0. Types /\ ThreadsAtTasks
    BY DEF DsmInv
  <1>1. thr[d].pc = "acquire" /\ thr[d] \in Steps
    BY <1>0, Here DEF Acquire
  <1>2. PICK pc \in {"alloc", "fetch"} : Goto(d, pc)
    <2>1. CASE blk[Tile(d)][d] = 0
      BY <2>1 DEF Acquire
    <2>2. CASE blk[Tile(d)][d] # 0
      BY <2>2 DEF Acquire
    <2> QED BY <2>1, <2>2
  <1>3. /\ thr'[d].pc = pc /\ thr'[d].i = thr[d].i /\ thr'[d].k = thr[d].k
        /\ \A e \in Devices : e # d => thr'[e] = thr[e]
    BY <1>0, <1>1, <1>2, GotoStep
  <1>4. WithinUse(d)
    BY <1>1, <1>3 DEF WithinUse, Acquire
  <1>5. /\ cap' = cap /\ cur' = cur /\ mem' = mem /\ blk' = blk /\ cbk' = cbk /\ valid' = valid
        /\ ro' = ro /\ rw' = rw
    BY DEF Acquire, memVars, listVars
  <1> QED BY <1>4, <1>5, WithinUseChains

\* Alloc gives a block to a replica that had none.
LEMMA AllocChains ==
    ASSUME DsmInv, ChainInv, NEW d \in Devices, Alloc(d)
    PROVE  ChainInv'
  <1>0. Types /\ ThreadsAtTasks /\ BlocksExact
    BY DEF DsmInv
  <1>1. thr[d].pc = "alloc" /\ thr[d] \in Steps /\ Goto(d, "fetch")
    BY <1>0, Here DEF Alloc
  <1>2. /\ thr'[d].pc = "fetch" /\ thr'[d].i = thr[d].i /\ thr'[d].k = thr[d].k
        /\ \A e \in Devices : e # d => thr'[e] = thr[e]
    BY <1>0, <1>1, GotoStep
  <1>3. WithinUse(d)
    BY <1>1, <1>2 DEF WithinUse, Alloc
  <1>4. /\ cap' = cap /\ cur' = cur /\ mem' = mem /\ cbk' = cbk /\ valid' = valid
        /\ ro' = ro /\ rw' = rw
    BY DEF Alloc, stateVars, listVars
  <1>5. ASSUME NEW u \in Tiles, NEW e \in Devices, blk[u][e] # 0
        PROVE  blk'[u][e] # 0
    <2>1. FreeBlocks(d) \in SUBSET Nat /\ 0 \notin FreeBlocks(d) /\ FreeBlocks(d) # {}
      BY DEF FreeBlocks, Alloc
    <2>2. Min(FreeBlocks(d)) # 0
      BY <2>1, MinIn
    <2>3. blk' = [blk EXCEPT ![Tile(d)][d] = Min(FreeBlocks(d))]
      BY DEF Alloc
    <2> QED BY <1>0, <1>5, <2>2, <2>3, Places DEF Types
  <1> QED BY <1>3, <1>4, <1>5, WithinUseChains

\* Evict chooses a victim.
LEMMA EvictChains ==
    ASSUME DsmInv, ChainInv, NEW d \in Devices, Evict(d)
    PROVE  ChainInv'
  <1>0. Types /\ ThreadsAtTasks
    BY DEF DsmInv
  <1>1. thr[d].pc = "alloc"
    BY DEF Evict
  <1>2. PICK v : thr' = [thr EXCEPT ![d] =
                [pc |-> "unset", i |-> @.i, k |-> @.k, left |-> 1, readonly |-> v[1], victim |-> v[2]]]
    <2>1. PICK a, b : thr' = [thr EXCEPT ![d] =
                [pc |-> "unset", i |-> @.i, k |-> @.k, left |-> 1, readonly |-> a, victim |-> b]]
      BY DEF Evict
    <2> WITNESS <<a, b>>
    <2> QED BY <2>1
  <1>3. /\ thr'[d].pc = "unset" /\ thr'[d].i = thr[d].i /\ thr'[d].k = thr[d].k
        /\ \A e \in Devices : e # d => thr'[e] = thr[e]
    BY <1>0, <1>2 DEF Types
  <1>4. WithinUse(d)
    BY <1>1, <1>3 DEF WithinUse, Evict
  <1>5. /\ cap' = cap /\ cur' = cur /\ mem' = mem /\ blk' = blk /\ cbk' = cbk /\ valid' = valid
        /\ ro' = ro /\ rw' = rw
    BY DEF Evict, memVars, stateVars, listVars
  <1> QED BY <1>4, <1>5, WithinUseChains

\* Fetch asks for a transfer to the device at most.
LEMMA FetchChains ==
    ASSUME DsmInv, ChainInv, NEW d \in Devices, Fetch(d)
    PROVE  ChainInv'
  <1>0. Types /\ ThreadsAtTasks /\ Apart
    BY DEF DsmInv
  <1>1. thr[d].pc = "fetch" /\ thr[d] \in Steps /\ thr[d].i \in DOMAIN tasks
    BY <1>0, Here, PrepTypes DEF Fetch
  <1>2. /\ cap' = cap /\ cur' = cur /\ mem' = mem /\ blk' = blk /\ cbk' = cbk /\ valid' = valid
        /\ ro' = ro /\ rw' = rw
    BY DEF Fetch, memVars, stateVars, listVars
  <1>3. CASE ~ (Reads(Mode(d)) /\ d \notin valid[Tile(d)])
    <2>1. Goto(d, "touch") /\ tasks' = tasks
      BY <1>3 DEF Fetch
    <2>2. /\ thr'[d].pc = "touch" /\ thr'[d].i = thr[d].i /\ thr'[d].k = thr[d].k
          /\ \A e \in Devices : e # d => thr'[e] = thr[e]
      BY <1>0, <1>1, <2>1, GotoStep
    <2>3. WithinUse(d)
      BY <1>1, <2>1, <2>2 DEF WithinUse
    <2> QED BY <1>2, <2>3, WithinUseChains
  <1>4. CASE Reads(Mode(d)) /\ d \notin valid[Tile(d)]
    <2>1. PICK i \in DOMAIN tasks : i = thr[d].i
      BY <1>1
    <2>2. tasks' = [tasks EXCEPT ![i].wc = @ + 1]
      BY <1>4, <2>1 DEF Fetch
    <2>3. /\ DOMAIN tasks' = DOMAIN tasks /\ Len(tasks') = Len(tasks)
          /\ \A j \in DOMAIN tasks : /\ tasks'[j].st = tasks[j].st /\ tasks'[j].dev = tasks[j].dev
                                     /\ tasks'[j].shape = tasks[j].shape
                                     /\ j # i => tasks'[j].wc = tasks[j].wc
      <3>1. tasks \in Seq(Task)
        BY <1>0 DEF Types
      <3> QED BY <2>2, <3>1 DEF Task
    <2>4. Kept /\ \A t : Written(t)' <=> Written(t)
      <3>1. Kept
        BY <2>3 DEF Kept
      <3> QED BY <1>0, <2>3, <3>1, SameUses
    <2>5. tasks[i].st = "prep"
      BY <1>0, <1>1, <2>1, Here, PrepTypes
    <2>6. \A e \in Devices : thr'[e].pc = "post" /\ thr'[e].dst = Host => thr'[e] = thr[e]
      <3>1. PICK src : thr' = [thr EXCEPT ![d] = [pc |-> "post", i |-> @.i, k |-> @.k, src |-> src,
                                             dst |-> d, ret |-> [@ EXCEPT !.pc = "touch"]]]
        BY <1>4 DEF Fetch
      <3>2. thr'[d].dst = d /\ \A e \in Devices : e # d => thr'[e] = thr[e]
        BY <1>0, <3>1 DEF Types
      <3> QED BY <3>2, Places
    <2>7. ListsApart' /\ ChainsEnd'
      BY <1>0, <1>2, FrameLists, FrameChains DEF ChainInv
    <2>8. VersionsBounded'
      BY <1>0, <1>2, <2>3, <2>4, FrameVersions DEF ChainInv
    <2>9. DoneCounted'
      BY <2>3, <2>5, FrameDone DEF ChainInv
    <2>10. ReadsBackValid'
      BY <1>0, <1>2, <2>4, <2>6, FrameReadsBack DEF ChainInv
    <2> QED BY <2>7, <2>8, <2>9, <2>10 DEF ChainInv
  <1> QED BY <1>3, <1>4


-----------------------------------------------------------------------------
(* ChainInv: lists.                                                        *)

\* RemoveAt shifts the entries after j.
LEMMA RemoveAtValues ==
    ASSUME NEW T, NEW s \in Seq(T), NEW j \in 1..Len(s)
    PROVE  \A k \in 1..(Len(s) - 1) : RemoveAt(s, j)[k] = IF k < j THEN s[k] ELSE s[k + 1]
  <1>1. PICK a : a = SubSeq(s, 1, j - 1)
    OBVIOUS
  <1>2. PICK b : b = SubSeq(s, j + 1, Len(s))
    OBVIOUS
  <1>3. a \in Seq(T) /\ Len(a) = j - 1 /\ \A k \in 1..(j - 1) : a[k] = s[k]
    <2>1. \A k \in 1..(j - 1) : s[k] \in T
      BY ElementOfSeq
    <2> QED BY <1>1, <2>1, SubSeqProperties
  <1>4. b \in Seq(T) /\ Len(b) = Len(s) - j /\ \A k \in 1..(Len(s) - j) : b[k] = s[j + k]
    <2>1. \A k \in (j + 1)..Len(s) : s[k] \in T
      BY ElementOfSeq
    <2> QED BY <1>2, <2>1, SubSeqProperties
  <1>5. RemoveAt(s, j) = a \o b
    BY <1>1, <1>2 DEF RemoveAt
  <1>6. \A n \in 1..(Len(a) + Len(b)) : (a \o b)[n] = IF n <= Len(a) THEN a[n] ELSE b[n - Len(a)]
    BY <1>3, <1>4, ConcatProperties, Zenon
  <1> TAKE k \in 1..(Len(s) - 1)
  <1>7. k \in 1..(Len(a) + Len(b))
    BY <1>3, <1>4
  <1>8. CASE k < j
    <2>1. k <= Len(a) /\ k \in 1..(j - 1)
      BY <1>3, <1>8
    <2> QED BY <1>3, <1>5, <1>6, <1>7, <1>8, <2>1
  <1>9. CASE ~ (k < j)
    <2>1. ~ (k <= Len(a)) /\ k - Len(a) \in 1..(Len(s) - j) /\ j + (k - Len(a)) = k + 1
      BY <1>3, <1>9
    <2> QED BY <1>4, <1>5, <1>6, <1>7, <1>9, <2>1
  <1> QED BY <1>8, <1>9

\* An entry of a list without duplicates is gone once it is removed.
LEMMA RemoveAtDrops ==
    ASSUME NEW T, NEW s \in Seq(T), NEW j \in 1..Len(s), IsInjective(s)
    PROVE  /\ IsInjective(RemoveAt(s, j)) /\ s[j] \notin Range(RemoveAt(s, j))
           /\ Range(RemoveAt(s, j)) \subseteq Range(s)
  <1>1. PICK r : r = RemoveAt(s, j)
    OBVIOUS
  <1>2. r \in Seq(T) /\ Len(r) = Len(s) - 1
    BY <1>1, RemoveAtKeeps
  <1>3. \A k \in 1..(Len(s) - 1) : r[k] = IF k < j THEN s[k] ELSE s[k + 1]
    BY <1>1, RemoveAtValues
  <1>4. DOMAIN r = 1..(Len(s) - 1) /\ DOMAIN s = 1..Len(s) /\ Len(s) \in Nat
    BY <1>2
  <1>5. \A a, b \in 1..Len(s) : s[a] = s[b] => a = b
    BY <1>4 DEF IsInjective
  <1>6. ASSUME NEW a \in DOMAIN r, NEW b \in DOMAIN r, r[a] = r[b]
        PROVE  a = b
    <2>1. PICK x \in 1..Len(s) : x = IF a < j THEN a ELSE a + 1
      BY <1>4
    <2>2. PICK y \in 1..Len(s) : y = IF b < j THEN b ELSE b + 1
      BY <1>4
    <2>3. r[a] = s[x] /\ r[b] = s[y]
      BY <1>3, <1>4, <2>1, <2>2
    <2>4. x = y
      BY <1>5, <1>6, <2>3
    <2> QED BY <1>4, <2>1, <2>2, <2>4
  <1>7. ASSUME NEW a \in DOMAIN r
        PROVE  r[a] # s[j] /\ r[a] \in Range(s)
    <2>1. PICK x \in 1..Len(s) : x = IF a < j THEN a ELSE a + 1
      BY <1>4
    <2>2. r[a] = s[x] /\ x # j
      BY <1>3, <1>4, <2>1
    <2> QED BY <1>4, <1>5, <2>2 DEF Range
  <1> QED BY <1>1, <1>6, <1>7 DEF IsInjective, Range

\* A tile that moves is in no other place of a list without duplicates.
LEMMA MovedApart ==
    ASSUME NEW T, NEW s \in Seq(T), NEW e \in T, NEW yes \in BOOLEAN, IsInjective(s)
    PROVE  /\ IsInjective(Moved(s, e, yes)) /\ Range(Moved(s, e, yes)) \subseteq Range(s) \cup {e}
           /\ ~ yes => e \notin Range(Moved(s, e, yes))
  <1>1. PICK r : r = RemoveFirst(s, e)
    OBVIOUS
  <1>2. r \in Seq(T)
    BY <1>1, RemoveFirstKeeps
  <1>3. IsInjective(r) /\ e \notin Range(r) /\ Range(r) \subseteq Range(s)
    <2>1. CASE \E i \in 1..Len(s) : s[i] = e
      <3>0. {i \in 1..Len(s) : s[i] = e} \in SUBSET Nat
        OBVIOUS
      <3>1. PICK I \in SUBSET Nat : I = {i \in 1..Len(s) : s[i] = e}
        BY <3>0, Zenon
      <3>2. I # {}
        BY <2>1, <3>1
      <3>3. Min(I) \in I
        BY <3>2, MinIn
      <3>4. r = RemoveAt(s, Min(I))
        BY <1>1, <2>1, <3>1 DEF RemoveFirst, SelectInSeq
      <3>5. Min(I) \in 1..Len(s) /\ s[Min(I)] = e
        BY <3>1, <3>3
      <3> QED BY <3>4, <3>5, RemoveAtDrops
    <2>2. CASE ~ \E i \in 1..Len(s) : s[i] = e
      <3>1. r = s
        BY <1>1, <2>2 DEF RemoveFirst
      <3> QED BY <2>2, <3>1 DEF Range
    <2> QED BY <2>1, <2>2
  <1>4. CASE ~ yes
    <2>1. Moved(s, e, yes) = r
      BY <1>1, <1>2, <1>4, ConcatEmptySeq DEF Moved
    <2> QED BY <1>3, <2>1
  <1>5. CASE yes
    <2>1. PICK m : m = Moved(s, e, yes)
      OBVIOUS
    <2>2. m = <<e>> \o r
      BY <1>1, <1>5, <2>1 DEF Moved
    <2>3. <<e>> \in Seq(T) /\ Len(<<e>>) = 1 /\ <<e>>[1] = e
      OBVIOUS
    <2>4. m \in Seq(T) /\ Len(m) = Len(r) + 1
      BY <1>2, <2>2, <2>3, ConcatProperties
    <2>5. \A k \in 1..(Len(r) + 1) : m[k] = IF k = 1 THEN e ELSE r[k - 1]
      <3> TAKE k \in 1..(Len(r) + 1)
      <3>1. m[k] = IF k <= 1 THEN <<e>>[k] ELSE r[k - 1]
        BY <1>2, <2>2, <2>3, ConcatProperties
      <3>2. k <= 1 <=> k = 1
        OBVIOUS
      <3> QED BY <2>3, <3>1, <3>2
    <2>6. DOMAIN m = 1..(Len(r) + 1) /\ DOMAIN r = 1..Len(r) /\ Len(r) \in Nat
      BY <1>2, <2>4
    <2>7. \A k \in 1..Len(r) : r[k] \in Range(r)
      BY <2>6 DEF Range
    <2>8. \A k \in 2..(Len(r) + 1) : m[k] = r[k - 1] /\ m[k] \in Range(r) /\ m[k] # e
      <3> TAKE k \in 2..(Len(r) + 1)
      <3>1. k - 1 \in 1..Len(r) /\ k # 1 /\ k \in 1..(Len(r) + 1)
        BY <2>6
      <3> QED BY <1>3, <2>5, <2>7, <3>1
    <2>9. ASSUME NEW a \in DOMAIN m, NEW b \in DOMAIN m, m[a] = m[b]
          PROVE  a = b
      <3>1. CASE a = 1
        BY <2>5, <2>6, <2>8, <2>9, <3>1
      <3>2. CASE b = 1
        BY <2>5, <2>6, <2>8, <2>9, <3>2
      <3>3. CASE a # 1 /\ b # 1
        <4>1. a \in 2..(Len(r) + 1) /\ b \in 2..(Len(r) + 1)
          BY <2>6, <3>3
        <4>2. r[a - 1] = r[b - 1] /\ a - 1 \in DOMAIN r /\ b - 1 \in DOMAIN r
          BY <2>6, <2>8, <2>9, <4>1
        <4>3. a - 1 = b - 1
          BY <1>3, <4>2 DEF IsInjective
        <4> QED BY <4>1, <4>3
      <3> QED BY <3>1, <3>2, <3>3
    <2>10. ASSUME NEW a \in DOMAIN m
           PROVE  m[a] \in Range(s) \cup {e}
      BY <1>3, <2>5, <2>6, <2>8
    <2> QED BY <1>5, <2>1, <2>9, <2>10 DEF IsInjective, Range
  <1> QED BY <1>4, <1>5

\* The contents of a node.
LEMMA MemContents ==
    ASSUME Types, NEW n \in Nodes
    PROVE  \A c \in Range(mem[n]) : c \in Contents /\ (c # Garbage => c[1] \in Tiles /\ c[2] \in Nat)
  <1>1. Range(mem[n]) \subseteq Contents
    <2>1. CASE n = Host
      BY <2>1 DEF Types, Range
    <2>2. CASE n # Host
      <3>1. n \in Devices /\ mem[n] \in [1..cap[n] -> Contents]
        BY <2>2, Places DEF Types
      <3> QED BY <3>1 DEF Range
    <2> QED BY <2>1, <2>2
  <1> QED BY <1>1 DEF Contents

\* The number of tasks is bounded by a number.
LEMMA BoundNat ==
    ASSUME Types
    PROVE  MaxTasks[cap] \in Nat /\ Len(tasks) \in Nat /\ \A t \in Tiles : cur[t] \in Nat
  BY DsmAssumption DEF Types

\* Begin adds a task in preparation.
LEMMA BeginChains ==
    ASSUME DsmInv, ChainInv, NEW d \in Devices, NEW s \in Shapes, Begin(d, s)
    PROVE  ChainInv'
  <1>0. Types /\ ThreadsAtTasks /\ Apart
    BY DEF DsmInv
  <1>1. PICK n : n = Len(tasks) + 1
    OBVIOUS
  <1>2. /\ Kept /\ \A j \in DOMAIN tasks : tasks'[j] = tasks[j]
        /\ tasks'[n] = [dev |-> d, shape |-> s, wc |-> 1, st |-> "prep"]
        /\ thr'[d] = [pc |-> "acquire", i |-> n, k |-> 1]
        /\ \A e \in Devices : e # d => thr'[e] = thr[e]
    BY <1>0, <1>1, BeginViews
  <1>3. /\ cap' = cap /\ cur' = cur /\ mem' = mem /\ blk' = blk /\ cbk' = cbk /\ valid' = valid
        /\ ro' = ro /\ rw' = rw /\ Len(tasks) < MaxTasks[cap]
    BY DEF Begin, memVars, stateVars, listVars
  <1>4. Len(tasks') = n /\ DOMAIN tasks' = DOMAIN tasks \cup {n}
    <2>1. tasks' = Append(tasks, [dev |-> d, shape |-> s, wc |-> 1, st |-> "prep"])
      BY DEF Begin
    <2>2. tasks \in Seq(Task) /\ Len(tasks) \in Nat
      BY <1>0 DEF Types
    <2>3. Len(tasks') = n /\ DOMAIN tasks' = 1..n /\ DOMAIN tasks = 1..Len(tasks)
      BY <1>1, <2>1, <2>2
    <2> QED BY <1>1, <2>2, <2>3
  <1>5. ListsApart' /\ ChainsEnd'
    BY <1>0, <1>3, FrameLists, FrameChains DEF ChainInv
  <1>6. VersionsBounded'
    <2>1. Len(tasks') = Len(tasks) + 1 /\ Len(tasks') <= MaxTasks[cap']
      BY <1>0, <1>1, <1>3, <1>4, BoundNat
    <2>2. \A t \in Tiles : cur'[t] < Len(tasks')
      BY <1>0, <1>3, <2>1, BoundNat DEF ChainInv, VersionsBounded
    <2>3. \A t \in Tiles : cur'[t] <= Len(tasks')
      BY <1>0, <1>3, <2>1, BoundNat DEF ChainInv, VersionsBounded
    <2>4. ASSUME NEW m \in Nodes, NEW c \in Range(mem'[m]), c # Garbage
          PROVE  c[2] <= Len(tasks')
      <3>1. c[2] \in Nat /\ c[2] <= Len(tasks)
        BY <1>0, <1>3, <2>4, MemContents DEF ChainInv, VersionsBounded
      <3> QED BY <1>0, <2>1, <3>1, BoundNat
    <2> QED BY <2>1, <2>2, <2>3, <2>4 DEF VersionsBounded
  <1>7. DoneCounted'
    <2> SUFFICES ASSUME NEW j \in DOMAIN tasks', tasks'[j].st = "done"
                 PROVE  tasks'[j].wc = 0
      BY DEF DoneCounted
    <2>1. j # n
      BY <1>2
    <2> QED BY <1>2, <1>4, <2>1 DEF ChainInv, DoneCounted
  <1>8. ReadsBackValid'
    <2>1. \A e \in Devices : thr'[e].pc = "post" /\ thr'[e].dst = Host => thr'[e] = thr[e]
      BY <1>2
    <2> QED BY <1>0, <1>2, <1>3, <2>1, FrameReadsBack DEF ChainInv
  <1> QED BY <1>5, <1>6, <1>7, <1>8 DEF ChainInv

\* Unset takes a replica out of the only list that has it.
LEMMA UnsetChains ==
    ASSUME DsmInv, ChainInv, NEW d \in Devices, Unset(d), Unharmed'
    PROVE  ChainInv'
  <1>0. Types /\ ThreadsAtTasks /\ Apart /\ VictimStays
    BY DEF DsmInv
  <1>1. thr[d].pc = "unset"
    BY DEF Unset
  <1>2. PICK list : list = IF thr[d].readonly THEN ro[d] ELSE rw[d]
    OBVIOUS
  <1>3. PICK j : j = thr[d].victim
    OBVIOUS
  <1>4. j \in 1..Len(list) /\ list \in Seq(Tiles) /\ list[j] \in Tiles
    <2>1. j \in 1..Len(list)
      BY <1>0, <1>1, <1>2, <1>3 DEF VictimStays
    <2>2. list \in Seq(Tiles)
      BY <1>0, <1>2 DEF Types
    <2> QED BY <2>1, <2>2, ElementOfSeq
  <1>5. PICK t \in Tiles : t = list[j]
    BY <1>4
  <1>6. /\ cap' = cap /\ cur' = cur /\ mem' = mem /\ cbk' = cbk /\ tasks' = tasks
        /\ blk' = [blk EXCEPT ![t][d] = 0]
    BY <1>2, <1>3, <1>5 DEF Unset
  <1>7. /\ \A e \in Devices : e # d => ro'[e] = ro[e] /\ rw'[e] = rw[e] /\ thr'[e] = thr[e]
        /\ ro'[d] = IF thr[d].readonly THEN RemoveAt(list, j) ELSE ro[d]
        /\ rw'[d] = IF thr[d].readonly THEN rw[d] ELSE RemoveAt(list, j)
        /\ thr'[d].pc \in {"unset", "alloc"}
    <2>1. CASE thr[d].readonly
      <3>1. ro' = [ro EXCEPT ![d] = RemoveAt(ro[d], j)] /\ rw' = rw
        BY <1>3, <2>1 DEF Unset
      <3>2. \A e \in Devices : e # d => ro'[e] = ro[e] /\ rw'[e] = rw[e]
        BY <1>0, <3>1 DEF Types
      <3>3. ro'[d] = RemoveAt(list, j) /\ rw'[d] = rw[d]
        BY <1>0, <1>2, <2>1, <3>1 DEF Types
      <3>4. \A e \in Devices : e # d => thr'[e] = thr[e]
        BY <1>0 DEF Unset, Types
      <3>5. thr'[d].pc \in {"unset", "alloc"}
        BY <1>0, <1>1, Here DEF Unset, Types, Evictions
      <3> QED BY <2>1, <3>2, <3>3, <3>4, <3>5
    <2>2. CASE ~ thr[d].readonly
      <3>1. rw' = [rw EXCEPT ![d] = RemoveAt(rw[d], j)] /\ ro' = ro
        BY <1>3, <2>2 DEF Unset
      <3>2. \A e \in Devices : e # d => ro'[e] = ro[e] /\ rw'[e] = rw[e]
        BY <1>0, <3>1 DEF Types
      <3>3. rw'[d] = RemoveAt(list, j) /\ ro'[d] = ro[d]
        BY <1>0, <1>2, <2>2, <3>1 DEF Types
      <3>4. \A e \in Devices : e # d => thr'[e] = thr[e]
        BY <1>0 DEF Unset, Types
      <3>5. thr'[d].pc \in {"unset", "alloc"}
        BY <1>0, <1>1, Here DEF Unset, Types, Evictions
      <3> QED BY <2>2, <3>2, <3>3, <3>4, <3>5
    <2> QED BY <2>1, <2>2
  <1>8. IsInjective(list)
    BY <1>2 DEF ChainInv, ListsApart
  <1>9. IsInjective(RemoveAt(list, j)) /\ t \notin Range(RemoveAt(list, j))
        /\ Range(RemoveAt(list, j)) \subseteq Range(list)
    BY <1>4, <1>5, <1>8, RemoveAtDrops
  <1>10. t \in Range(list)
    BY <1>4, <1>5 DEF Range
  <1>11. \A u \in Tiles, e \in Devices : blk'[u][e] = IF u = t /\ e = d THEN 0 ELSE blk[u][e]
    BY <1>0, <1>6, Places DEF Types
  <1>12. \A e \in Devices : Range(ro[e]) \cup Range(rw[e]) \subseteq Tiles
    BY <1>0, ElementOfSeq DEF Types, Range
  <1>13. ListsApart'
    <2> SUFFICES ASSUME NEW e \in Devices
                 PROVE  /\ IsInjective(ro'[e]) /\ IsInjective(rw'[e]) /\ Range(ro'[e]) \cap Range(rw'[e]) = {}
                        /\ \A u \in Range(ro'[e]) \cup Range(rw'[e]) : blk'[u][e] # 0
      BY DEF ListsApart
    <2>0. /\ IsInjective(ro[e]) /\ IsInjective(rw[e]) /\ Range(ro[e]) \cap Range(rw[e]) = {}
          /\ \A u \in Range(ro[e]) \cup Range(rw[e]) : blk[u][e] # 0
      BY DEF ChainInv, ListsApart
    <2>1. CASE e # d
      <3>1. ro'[e] = ro[e] /\ rw'[e] = rw[e]
        BY <1>7, <2>1
      <3>2. \A u \in Tiles : blk'[u][e] = blk[u][e]
        BY <1>11, <2>1
      <3> QED BY <1>12, <2>0, <3>1, <3>2
    <2>2. CASE e = d
      <3>1. CASE thr[d].readonly
        <4>1. list = ro[d] /\ ro'[d] = RemoveAt(list, j) /\ rw'[d] = rw[d]
          BY <1>2, <1>7, <3>1
        <4>2. t \notin Range(rw[d])
          BY <1>10, <2>0, <2>2, <4>1
        <4>3. \A u \in Range(ro'[d]) \cup Range(rw'[d]) :
                  u # t /\ u \in Tiles /\ u \in Range(ro[d]) \cup Range(rw[d])
          BY <1>9, <1>12, <4>1, <4>2
        <4> QED BY <1>9, <1>11, <2>0, <2>2, <4>1, <4>3
      <3>2. CASE ~ thr[d].readonly
        <4>1. list = rw[d] /\ rw'[d] = RemoveAt(list, j) /\ ro'[d] = ro[d]
          BY <1>2, <1>7, <3>2
        <4>2. t \notin Range(ro[d])
          BY <1>10, <2>0, <2>2, <4>1
        <4>3. \A u \in Range(ro'[d]) \cup Range(rw'[d]) :
                  u # t /\ u \in Tiles /\ u \in Range(ro[d]) \cup Range(rw[d])
          BY <1>9, <1>12, <4>1, <4>2
        <4> QED BY <1>9, <1>11, <2>0, <2>2, <4>1, <4>3
      <3> QED BY <3>1, <3>2
    <2> QED BY <2>1, <2>2
  <1>14. VersionsBounded' /\ DoneCounted' /\ ChainsEnd'
    <2>1. \A u : Written(u)' <=> Written(u)
      BY <1>6 DEF Written, Live, Params
    <2>2. VersionsBounded'
      BY <1>0, <1>6, <2>1, FrameVersions DEF ChainInv
    <2>3. DoneCounted'
      BY <1>6, FrameDone DEF ChainInv
    <2> QED BY <1>6, <2>2, <2>3, FrameChains DEF ChainInv
  <1>15. ReadsBackValid'
    <2>1. ASSUME NEW e \in Devices, thr'[e].pc = "post", thr'[e].dst = Host
          PROVE  thr'[e].src \in valid'[Tile(e)']
      <3>1. e # d /\ thr'[e] = thr[e]
        BY <1>7, <2>1
      <3>2. thr[e].src \in valid[Tile(e)] /\ Tile(e)' = Tile(e)
        BY <1>6, <2>1, <3>1 DEF ChainInv, ReadsBackValid, Tile, Param, Params
      <3>3. mishaps' = mishaps \cup (IF DropsSource(d, t) THEN {"source"} ELSE {})
                               \cup (IF DropsLast(d, t) THEN {"last"} ELSE {})
                               \cup (IF DropsDirty(d, t) THEN {"unlisted"} ELSE {})
        BY <1>2, <1>3, <1>5 DEF Unset
      <3>4. ~ DropsSource(d, t)
        BY <3>3 DEF Unharmed
      <3>5. Tile(e) = t => thr[e].src # d
        BY <2>1, <3>1, <3>4 DEF DropsSource
      <3>6. valid' = [valid EXCEPT ![t] = @ \ {d}]
        BY <1>2, <1>3, <1>5 DEF Unset
      <3>7. Tile(e) \in Tiles
        BY <1>0, <2>1, <3>1, PostTile
      <3> QED BY <1>0, <3>1, <3>2, <3>5, <3>6, <3>7 DEF Types
    <2>2. \A u \in Tiles, n \in Nodes : ~ Sends(u, n, Host)'
      BY <1>6 DEF ChainInv, ReadsBackValid, Sends
    <2> QED BY <2>1, <2>2 DEF ReadsBackValid
  <1> QED BY <1>13, <1>14, <1>15 DEF ChainInv

-----------------------------------------------------------------------------
(* ChainInv: the other actions.                                            *)

\* A thread that goes on asking the host for a tile keeps its source, and no request
\* to forward is made.
LEMMA ReadsBackKept ==
    ASSUME Types, ThreadsAtTasks, Apart, Kept, ReadsBackValid,
           \A t \in Tiles, m, n \in Nodes : Sends(t, m, n)' => Sends(t, m, n),
           \A d \in Devices : thr'[d].pc = "post" /\ thr'[d].dst = Host =>
               thr'[d] = thr[d] /\ valid[Tile(d)] \subseteq valid'[Tile(d)]
    PROVE  ReadsBackValid'
  <1>1. ASSUME NEW d \in Devices, thr'[d].pc = "post", thr'[d].dst = Host
        PROVE  thr'[d].src \in valid'[Tile(d)']
    <2>1. thr'[d] = thr[d] /\ thr[d].pc = "post" /\ thr[d].dst = Host
      BY <1>1
    <2>2. Tile(d) \in Tiles /\ thr[d].i \in DOMAIN tasks /\ thr[d].k \in DOMAIN Params(thr[d].i)
      BY <2>1, PostTile
    <2>3. Tile(d)' = Tile(d)
      BY <2>1, <2>2 DEF Tile, Param, Params, Kept
    <2>4. thr[d].src \in valid[Tile(d)]
      BY <2>1 DEF ReadsBackValid
    <2> QED BY <1>1, <2>1, <2>3, <2>4
  <1>2. \A t \in Tiles, n \in Nodes : ~ Sends(t, n, Host)'
    BY Places DEF ReadsBackValid
  <1> QED BY <1>1, <1>2 DEF ReadsBackValid

\* Fewer requests to forward.
LEMMA FewerChains ==
    ASSUME ChainsEnd, \A t \in Tiles, m, n \in Nodes : Sends(t, m, n)' => Sends(t, m, n)
    PROVE  ChainsEnd'
  BY DEF ChainsEnd, Ranked

\* Touch moves the tile to the front of one list, and out of the other.
LEMMA TouchChains ==
    ASSUME DsmInv, ChainInv, NEW d \in Devices, Touch(d)
    PROVE  ChainInv'
  <1>a. PICK x : x = At(d)
    OBVIOUS
  <1>b. PICK i : i = thr[d].i
    OBVIOUS
  <1>c. PICK t : t = TileOf(x)
    OBVIOUS
  <1>d. PICK m : m = ModeOf(x)
    OBVIOUS
  <1>e. PICK yes : yes = TouchRw(d, t, m)
    OBVIOUS
  <1>0. Types /\ ThreadsAtTasks /\ Apart /\ BlocksExact
    BY DEF DsmInv
  <1>1. /\ x \in Uses /\ x[1] = i /\ DevOf(x) = d /\ Tile(d) = t /\ Mode(d) = m /\ t \in Tiles
        /\ i \in DOMAIN tasks /\ tasks[i].st = "prep" /\ x \in Allocated
    BY <1>0, <1>a, <1>b, <1>c, <1>d, TouchViews
  <1>2. /\ Kept /\ tasks' \in Seq(Task) /\ DOMAIN tasks' = DOMAIN tasks
        /\ \A j \in DOMAIN tasks : j # i => tasks'[j] = tasks[j]
        /\ tasks' = tasks \/ tasks'[i].st = "pending"
        /\ \A u : Written(u)' <=> Written(u)
        /\ thr'[d].pc # "post"
        /\ \A e \in Devices : e # d => thr'[e] = thr[e]
    BY <1>0, <1>a, <1>b, TouchViews
  <1>3. cap' = cap /\ blk' = blk /\ mem' = mem /\ cbk' = cbk /\ cur' = cur
    BY DEF Touch, memVars
  <1>4. /\ valid' = IF Writes(m) THEN [valid EXCEPT ![t] = {d}] ELSE valid
        /\ rw' = [rw EXCEPT ![d] = Moved(rw[d], t, yes)]
        /\ ro' = [ro EXCEPT ![d] = Moved(ro[d], t, ~ yes)]
    <2>1. Tile(d) = t /\ Mode(d) = m
      BY <1>1
    <2> QED BY <2>1, <1>e DEF Touch, Moved, Dirtied
  <1>5. yes \in BOOLEAN /\ (~ yes) \in BOOLEAN
    BY <1>e DEF TouchRw, Writes
  <1>6. ro \in [Devices -> Seq(Tiles)] /\ rw \in [Devices -> Seq(Tiles)]
    BY <1>0 DEF Types
  <1>7. /\ rw'[d] = Moved(rw[d], t, yes) /\ ro'[d] = Moved(ro[d], t, ~ yes)
        /\ \A e \in Devices : e # d => rw'[e] = rw[e] /\ ro'[e] = ro[e]
    BY <1>4, <1>6
  <1>8. /\ IsInjective(ro[d]) /\ IsInjective(rw[d]) /\ Range(ro[d]) \cap Range(rw[d]) = {}
        /\ \A u \in Range(ro[d]) \cup Range(rw[d]) : blk[u][d] # 0
    BY DEF ChainInv, ListsApart
  <1>9. /\ IsInjective(rw'[d]) /\ Range(rw'[d]) \subseteq Range(rw[d]) \cup {t}
        /\ ~ yes => t \notin Range(rw'[d])
    <2>1. rw[d] \in Seq(Tiles)
      BY <1>6
    <2> QED BY <1>1, <1>5, <1>7, <1>8, <2>1, MovedApart
  <1>10. /\ IsInjective(ro'[d]) /\ Range(ro'[d]) \subseteq Range(ro[d]) \cup {t}
         /\ yes => t \notin Range(ro'[d])
    <2>1. ro[d] \in Seq(Tiles)
      BY <1>6
    <2>2. PICK no \in BOOLEAN : no = ~ yes
      BY <1>5
    <2>3. ro'[d] = Moved(ro[d], t, no) /\ (yes => ~ no)
      BY <1>7, <2>2
    <2> QED BY <1>1, <1>8, <2>1, <2>3, MovedApart
  <1>11. blk[t][d] # 0
    BY <1>0, <1>1, <1>c DEF BlocksExact
  <1>12. ListsApart'
    <2> SUFFICES ASSUME NEW e \in Devices
                 PROVE  /\ IsInjective(ro'[e]) /\ IsInjective(rw'[e]) /\ Range(ro'[e]) \cap Range(rw'[e]) = {}
                        /\ \A u \in Range(ro'[e]) \cup Range(rw'[e]) : blk'[u][e] # 0
      BY DEF ListsApart
    <2>1. CASE e # d
      <3>1. ro'[e] = ro[e] /\ rw'[e] = rw[e]
        BY <1>7, <2>1
      <3> QED BY <1>3, <3>1 DEF ChainInv, ListsApart
    <2>2. CASE e = d
      <3>1. Range(ro'[d]) \cap Range(rw'[d]) = {}
        BY <1>5, <1>8, <1>9, <1>10
      <3>2. \A u \in Range(ro'[d]) \cup Range(rw'[d]) : blk[u][d] # 0
        BY <1>8, <1>9, <1>10, <1>11
      <3> QED BY <1>3, <1>9, <1>10, <2>2, <3>1, <3>2
    <2> QED BY <2>1, <2>2
  <1>13. VersionsBounded'
    <2>1. Len(tasks') = Len(tasks)
      <3>1. tasks \in Seq(Task)
        BY <1>0 DEF Types
      <3> QED BY <1>2, <3>1
    <2> QED BY <1>0, <1>2, <1>3, <2>1, FrameVersions DEF ChainInv
  <1>14. DoneCounted'
    <2>1. \A j \in DOMAIN tasks : tasks'[j].st = "done" =>
               tasks[j].st = "done" /\ tasks'[j].wc = tasks[j].wc
      BY <1>2
    <2> QED BY <1>2, <2>1, FrameDone DEF ChainInv
  <1>15. ReadsBackValid'
    <2>1. ASSUME NEW e \in Devices, thr'[e].pc = "post", thr'[e].dst = Host
          PROVE  thr'[e] = thr[e] /\ valid[Tile(e)] \subseteq valid'[Tile(e)]
      <3>1. e # d /\ thr'[e] = thr[e]
        BY <1>2, <2>1
      <3>2. PICK y : y = <<thr[e].i, thr[e].k>>
        OBVIOUS
      <3>3. y \in Uses /\ Tile(e) = TileOf(y) /\ Tile(e) \in Tiles /\ DevOf(y) = e
        BY <1>0, <2>1, <3>1, <3>2, PostTile
      <3>4. CASE Writes(m)
        <4>1. Tile(e) # t
          <5>1. ASSUME TileOf(y) = t PROVE FALSE
            <6>1. y = x
              BY <1>0, <1>1, <1>c, <1>d, <3>3, <3>4, <5>1, OneUse
            <6> QED BY <1>1, <3>1, <3>3, <6>1
          <5> QED BY <3>3, <5>1
        <4>2. valid \in [Tiles -> SUBSET Nodes]
          BY <1>0 DEF Types
        <4>3. valid'[Tile(e)] = valid[Tile(e)]
          BY <1>4, <3>3, <3>4, <4>1, <4>2
        <4> QED BY <3>1, <4>3
      <3>5. CASE ~ Writes(m)
        BY <1>4, <3>1, <3>5
      <3> QED BY <3>4, <3>5
    <2>2. \A u \in Tiles, l, n \in Nodes : Sends(u, l, n)' => Sends(u, l, n)
      BY <1>3 DEF Sends
    <2> QED BY <1>0, <1>2, <2>1, <2>2, ReadsBackKept DEF ChainInv
  <1>16. ChainsEnd'
    BY <1>3, FrameChains DEF ChainInv
  <1> QED BY <1>12, <1>13, <1>14, <1>15, <1>16 DEF ChainInv

\* Receive writes the last version of a tile and takes callbacks away.
LEMMA ReceiveChains ==
    ASSUME DsmInv, ChainInv, NEW c \in copies, Receive(c)
    PROVE  ChainInv'
  <1>a. PICK t : t = c.t
    OBVIOUS
  <1>b. PICK n : n = c.dst
    OBVIOUS
  <1>c. PICK b : b = c.to
    OBVIOUS
  <1>d. PICK v : v = <<t, cur[t]>>
    OBVIOUS
  <1>0. Types /\ ThreadsAtTasks /\ Apart /\ CallbacksOwned
    BY DEF DsmInv
  <1>1. t \in Tiles /\ n \in Nodes /\ Content(c) = v /\ b \in DOMAIN mem[n]
    BY <1>a, <1>b, <1>c, <1>d, TheCopy
  <1>2. /\ cap' = cap /\ blk' = blk /\ ro' = ro /\ rw' = rw /\ cur' = cur /\ thr' = thr
        /\ mem' = [mem EXCEPT ![n][b] = v]
        /\ valid' = [valid EXCEPT ![t] = @ \cup {n}]
        /\ cbk' = [cbk EXCEPT ![t][n] = {}]
    BY <1>1, <1>a, <1>b, <1>c DEF Receive, listVars
  <1>3. /\ Kept /\ DOMAIN tasks' = DOMAIN tasks /\ tasks' \in Seq(Task)
        /\ \A u : Written(u)' <=> Written(u)
    BY ReceiveTasks
  <1>4. \A u \in Tiles, l, m \in Nodes : Sends(u, l, m)' => Sends(u, l, m)
    <2>1. cbk \in [Tiles -> [Nodes -> SUBSET Actions]]
      BY <1>0 DEF Types
    <2>2. \A u \in Tiles, l \in Nodes : cbk'[u][l] \subseteq cbk[u][l]
      BY <1>1, <1>2, <2>1
    <2> QED BY <2>2 DEF Sends
  <1>5. ListsApart' /\ ChainsEnd'
    BY <1>0, <1>2, <1>4, FrameLists, FewerChains DEF ChainInv
  <1>6. ReadsBackValid'
    <2>1. \A u \in Tiles : valid[u] \subseteq valid'[u]
      BY <1>0, <1>2 DEF Types
    <2>2. ASSUME NEW e \in Devices, thr'[e].pc = "post"
          PROVE  Tile(e) \in Tiles
      BY <1>0, <1>2, <2>2, PostTile
    <2> QED BY <1>0, <1>2, <1>3, <1>4, <2>1, <2>2, ReadsBackKept DEF ChainInv
  <1>7. VersionsBounded'
    <2>1. Len(tasks') = Len(tasks)
      <3>1. tasks \in Seq(Task)
        BY <1>0 DEF Types
      <3> QED BY <1>3, <3>1
    <2>2. cur[t] <= Len(tasks)
      BY <1>1 DEF ChainInv, VersionsBounded
    <2>3. ASSUME NEW m \in Nodes, NEW e \in Range(mem'[m])
          PROVE  e = v \/ e \in Range(mem[m])
      <3>1. DOMAIN mem = Nodes
        BY <1>0 DEF Types
      <3>2. CASE m # n
        BY <1>2, <2>3, <3>1, <3>2
      <3>3. CASE m = n
        <4>1. mem'[n] = [mem[n] EXCEPT ![b] = v]
          BY <1>1, <1>2, <3>1
        <4>2. DOMAIN mem'[n] = DOMAIN mem[n]
          BY <4>1
        <4>3. PICK a \in DOMAIN mem[n] : e = mem'[n][a]
          BY <2>3, <3>3, <4>2 DEF Range
        <4>4. mem'[n][a] = IF a = b THEN v ELSE mem[n][a]
          BY <4>1
        <4> QED BY <3>3, <4>3, <4>4 DEF Range
      <3> QED BY <3>2, <3>3
    <2>4. ASSUME NEW m \in Nodes, NEW e \in Range(mem'[m]), e # Garbage
          PROVE  e[2] <= Len(tasks')
      <3>1. CASE e = v
        BY <1>d, <2>1, <2>2, <3>1
      <3>2. CASE e # v
        BY <2>1, <2>3, <2>4, <3>2 DEF ChainInv, VersionsBounded
      <3> QED BY <3>1, <3>2
    <2> QED BY <1>2, <1>3, <2>1, <2>4 DEF ChainInv, VersionsBounded
  <1>8. DoneCounted'
    <2> SUFFICES ASSUME NEW i \in DOMAIN tasks, tasks'[i].st = "done"
                 PROVE  tasks'[i].wc = 0
      BY <1>3 DEF DoneCounted
    <2>1. PICK K : K = {k \in DOMAIN Params(i) : <<"task", <<i, k>>>> \in cbk[t][n]}
      OBVIOUS
    <2>2. tasks'[i] = [tasks[i] EXCEPT !.wc = @ - Cardinality(K)]
      BY <1>a, <1>b, <2>1 DEF Receive
    <2>3. tasks[i] \in Task
      BY <1>0, TaskTypes
    <2>4. tasks'[i].st = tasks[i].st /\ tasks'[i].wc = tasks[i].wc - Cardinality(K)
      BY <2>2, <2>3 DEF Task
    <2>5. i \notin Live
      BY <2>4 DEF Live
    <2>6. \A k : <<"task", <<i, k>>>> \notin cbk[t][n]
      <3>1. ASSUME NEW k, <<"task", <<i, k>>>> \in cbk[t][n]
            PROVE  FALSE
        <4>1. <<i, k>> \in Uses
          <5>1. <<"task", <<i, k>>>>[1] = "task" /\ <<"task", <<i, k>>>>[2] = <<i, k>>
            OBVIOUS
          <5>2. <<i, k>> \in Asked
            BY <1>0, <1>1, <3>1, <5>1 DEF CallbacksOwned
          <5> QED BY <5>2, Subsets
        <4> QED BY <2>5, <4>1, UsePairs
      <3> QED BY <3>1
    <2>7. Cardinality(K) = 0
      BY <2>1, <2>6, FS_EmptySet
    <2>8. tasks[i].wc = 0
      BY <2>4 DEF ChainInv, DoneCounted
    <2> QED BY <2>4, <2>7, <2>8
  <1> QED BY <1>5, <1>6, <1>7, <1>8 DEF ChainInv

\* The end of a task that waits for nothing.
LEMMA EndedCounts ==
    ASSUME Types, DoneCounted, NEW i \in DOMAIN tasks, tasks[i].wc = 0,
           tasks' = [tasks EXCEPT ![i].st = "done"]
    PROVE  /\ DoneCounted' /\ Len(tasks') = Len(tasks)
           /\ DOMAIN tasks' = DOMAIN tasks /\ Kept /\ Live' = Live \ {i}
           /\ \A u : Written(u)' => Written(u)
  <1>1. PICK r : r = [tasks[i] EXCEPT !.st = "done"]
    OBVIOUS
  <1>2. r.st = "done" /\ r.wc = 0 /\ r.dev = tasks[i].dev /\ r.shape = tasks[i].shape
    BY <1>1, TaskTypes DEF Task
  <1>3. tasks' = [tasks EXCEPT ![i] = r] /\ tasks \in Seq(Task)
    BY <1>1 DEF Types
  <1>4. Len(tasks') = Len(tasks) /\ DOMAIN tasks' = DOMAIN tasks /\ tasks'[i] = r
        /\ \A j \in DOMAIN tasks : j # i => tasks'[j] = tasks[j]
    BY <1>3
  <1>5. DoneCounted'
    <2> SUFFICES ASSUME NEW j \in DOMAIN tasks, tasks'[j].st = "done"
                 PROVE  tasks'[j].wc = 0
      BY <1>4 DEF DoneCounted
    <2> QED BY <1>2, <1>4 DEF DoneCounted
  <1>6. Kept
    BY <1>2, <1>4 DEF Kept
  <1>7. Live' = Live \ {i}
    BY <1>2, <1>4 DEF Live
  <1>8. ASSUME NEW u, Written(u)'
        PROVE  Written(u)
    <2>1. PICK j \in Live' : \E k \in DOMAIN Params(j)' : Params(j)'[k][1] = u /\ Writes(Params(j)'[k][2])
      BY <1>8 DEF Written
    <2>2. j \in Live /\ j \in DOMAIN tasks
      BY <1>7, <2>1 DEF Live
    <2>3. Params(j)' = Params(j)
      BY <1>6, <2>2 DEF Kept, Params
    <2> QED BY <2>1, <2>2, <2>3 DEF Written
  <1> QED BY <1>4, <1>5, <1>6, <1>7, <1>8

\* A kernel makes a new version of each tile it writes: its task has made room for it.
LEMMA RunChains ==
    ASSUME DsmInv, ChainInv, NEW i \in DOMAIN tasks, Run(i)
    PROVE  ChainInv'
  <1>a. PICK d : d = tasks[i].dev
    OBVIOUS
  <1>b. PICK out : out = Out(i)
    OBVIOUS
  <1>0. Types /\ ThreadsAtTasks /\ Apart
    BY DEF DsmInv
  <1>1. tasks[i].st = "pending" /\ Inserted(i)
    BY DEF Run
  <1>2. i \in Live /\ tasks[i].wc = 0
    BY <1>0, <1>1, InsertedWaits
  <1>3. /\ cap' = cap /\ blk' = blk /\ valid' = valid /\ cbk' = cbk
        /\ ro' = ro /\ rw' = rw /\ thr' = thr
        /\ tasks' = [tasks EXCEPT ![i].st = "done"]
    BY DEF Run, listVars
  <1>4. /\ DoneCounted' /\ Len(tasks') = Len(tasks) /\ Kept /\ Live' = Live \ {i}
        /\ \A u : Written(u)' => Written(u)
    BY <1>0, <1>2, <1>3, EndedCounts DEF ChainInv
  <1>5. /\ cur' = [t \in Tiles |-> IF t \in out THEN cur[t] + 1 ELSE cur[t]]
        /\ mem' = [mem EXCEPT ![d] = [b \in DOMAIN mem[d] |->
              IF \E t \in out : blk[t][d] = b
                 THEN LET t == CHOOSE u \in out : blk[u][d] = b IN <<t, cur[t] + 1>>
                 ELSE mem[d][b]]]
    <2>1. out = {t \in Tiles : \E k \in {k \in DOMAIN Params(i) : Params(i)[k][1] = t} :
                                   Writes(Params(i)[k][2])}
      BY <1>b DEF Out, On
    <2> QED BY <1>a, <2>1 DEF Run
  <1>6. \A t \in out : t \in Tiles /\ Written(t) /\ ~ Written(t)'
    <2> TAKE t \in out
    <2>1. t \in Tiles /\ \E k \in On(i, t) : Writes(Params(i)[k][2])
      BY <1>b DEF Out
    <2>2. Written(t)
      BY <1>2, <2>1 DEF Written, On
    <2>3. \A y \in Uses : TileOf(y) = t => y[1] = i
      BY <1>1, <1>2, <1>b, OutAlone
    <2>4. ASSUME Written(t)'
          PROVE  FALSE
      <3>1. PICK j \in Live' : \E k \in DOMAIN Params(j)' : Params(j)'[k][1] = t
        BY <2>4 DEF Written
      <3>2. j \in Live /\ j \in DOMAIN tasks /\ j # i
        BY <1>4, <3>1 DEF Live
      <3>3. Params(j)' = Params(j)
        BY <1>4, <3>2 DEF Kept, Params
      <3>4. PICK k \in DOMAIN Params(j) : Params(j)[k][1] = t
        BY <3>1, <3>3
      <3>5. <<j, k>> \in Uses
        BY <3>2, UsePairs
      <3>6. TileOf(<<j, k>>) = t
        BY <3>4 DEF TileOf
      <3>7. <<j, k>>[1] = i
        BY <2>3, <3>5, <3>6
      <3> QED BY <3>2, <3>7
    <2> QED BY <2>1, <2>2, <2>4
  <1>7. \A t \in out : cur[t] + 1 <= Len(tasks)
    <2> TAKE t \in out
    <2>1. t \in Tiles /\ cur[t] < Len(tasks)
      BY <1>6 DEF ChainInv, VersionsBounded
    <2> QED BY <1>0, <2>1, BoundNat
  <1>8. VersionsBounded'
    <2>1. \A t \in Tiles : cur'[t] <= Len(tasks') /\ (Written(t)' => cur'[t] < Len(tasks'))
      <3> TAKE t \in Tiles
      <3>1. CASE t \in out
        BY <1>4, <1>5, <1>6, <1>7, <3>1
      <3>2. CASE t \notin out
        BY <1>4, <1>5, <3>2 DEF ChainInv, VersionsBounded
      <3> QED BY <3>1, <3>2
    <2>2. ASSUME NEW m \in Nodes, NEW e \in Range(mem'[m]), e # Garbage
          PROVE  e[2] <= Len(tasks')
      <3>1. CASE e \in Range(mem[m])
        BY <1>4, <2>2, <3>1 DEF ChainInv, VersionsBounded
      <3>2. CASE e \notin Range(mem[m])
        <4>0. DOMAIN mem = Nodes
          BY <1>0 DEF Types
        <4>1. m = d
          BY <1>5, <2>2, <3>2, <4>0
        <4>2. mem'[d] = [b \in DOMAIN mem[d] |->
              IF \E t \in out : blk[t][d] = b
                 THEN LET t == CHOOSE u \in out : blk[u][d] = b IN <<t, cur[t] + 1>>
                 ELSE mem[d][b]]
          BY <1>5, <4>0, <4>1
        <4>3. PICK b \in DOMAIN mem[d] : e = mem'[d][b]
          BY <2>2, <4>1, <4>2 DEF Range
        <4>4. CASE \E t \in out : blk[t][d] = b
          <5>1. PICK t : t = CHOOSE u \in out : blk[u][d] = b
            OBVIOUS
          <5>2. t \in out
            BY <4>4, <5>1
          <5>3. e = <<t, cur[t] + 1>>
            BY <4>2, <4>3, <4>4, <5>1
          <5> QED BY <1>4, <1>7, <5>2, <5>3
        <4>5. CASE ~ \E t \in out : blk[t][d] = b
          <5>1. e = mem[d][b]
            BY <4>2, <4>3, <4>5
          <5> QED BY <3>2, <4>1, <4>3, <5>1 DEF Range
        <4> QED BY <4>4, <4>5
      <3> QED BY <3>1, <3>2
    <2>3. Len(tasks') <= MaxTasks[cap']
      BY <1>3, <1>4 DEF ChainInv, VersionsBounded
    <2> QED BY <2>1, <2>2, <2>3 DEF VersionsBounded
  <1>9. ListsApart' /\ ChainsEnd'
    BY <1>0, <1>3, FrameLists, FrameChains DEF ChainInv
  <1>10. ReadsBackValid'
    BY <1>0, <1>3, <1>4, FrameReadsBack DEF ChainInv
  <1> QED BY <1>4, <1>8, <1>9, <1>10 DEF ChainInv

\* A write-back whose tile is on the host ends, another asks a valid replica.
LEMMA RunWriteBackChains ==
    ASSUME DsmInv, ChainInv, NEW i \in DOMAIN tasks, RunWriteBack(i)
    PROVE  ChainInv'
  <1>a. PICK d : d = tasks[i].dev
    OBVIOUS
  <1>b. PICK t : t = Params(i)[1][1]
    OBVIOUS
  <1>0. Types /\ ThreadsAtTasks /\ Apart /\ ValidExact
    BY DEF DsmInv
  <1>1. tasks[i].st = "pending" /\ Inserted(i) /\ IsWriteBack(i)
    BY DEF RunWriteBack
  <1>2. i \in Live /\ tasks[i].wc = 0
    BY <1>0, <1>1, InsertedWaits
  <1>3. t \in Tiles /\ d \in Devices /\ Dirtying(t) = {}
    BY <1>0, <1>1, <1>2, <1>a, <1>b, WriteBackTask
  <1>4. /\ cap' = cap /\ blk' = blk /\ mem' = mem /\ valid' = valid
        /\ cbk' = cbk /\ ro' = ro /\ rw' = rw /\ cur' = cur
    BY DEF RunWriteBack, memVars, listVars
  <1>5. ListsApart' /\ ChainsEnd'
    BY <1>0, <1>4, FrameLists, FrameChains DEF ChainInv
  <1>6. CASE Host \in valid[t]
    <2>1. tasks' = [tasks EXCEPT ![i].st = "done"] /\ thr' = thr
      BY <1>6, <1>b DEF RunWriteBack
    <2>2. /\ DoneCounted' /\ Len(tasks') = Len(tasks) /\ Kept
          /\ \A u : Written(u)' => Written(u)
      BY <1>0, <1>2, <2>1, EndedCounts DEF ChainInv
    <2>3. VersionsBounded' /\ ReadsBackValid'
      BY <1>0, <1>4, <2>1, <2>2, FrameVersions, FrameReadsBack DEF ChainInv
    <2> QED BY <1>5, <2>2, <2>3 DEF ChainInv
  <1>7. CASE Host \notin valid[t]
    <2>1. PICK p : p = thr[d]
      OBVIOUS
    <2>2. PICK src \in Sources(t) :
            thr' = [thr EXCEPT ![d] = [pc |-> "post", i |-> i, k |-> 1, src |-> src,
                                       dst |-> Host, ret |-> p]]
      BY <1>7, <1>a, <1>b, <2>1 DEF RunWriteBack
    <2>3. tasks' = [tasks EXCEPT ![i].st = "running"]
      BY <1>7, <1>a, <1>b DEF RunWriteBack
    <2>4. /\ Len(tasks') = Len(tasks) /\ DOMAIN tasks' = DOMAIN tasks /\ tasks'[i].st = "running"
          /\ tasks'[i].dev = tasks[i].dev /\ tasks'[i].shape = tasks[i].shape
          /\ \A j \in DOMAIN tasks : j # i => tasks'[j] = tasks[j]
      <3>1. PICK r : r = [tasks[i] EXCEPT !.st = "running"]
        OBVIOUS
      <3>2. r.st = "running" /\ r.dev = tasks[i].dev /\ r.shape = tasks[i].shape
        BY <1>0, <3>1, TaskTypes DEF Task
      <3>3. tasks' = [tasks EXCEPT ![i] = r] /\ tasks \in Seq(Task)
        BY <1>0, <2>3, <3>1 DEF Types
      <3>4. Len(tasks') = Len(tasks) /\ DOMAIN tasks' = DOMAIN tasks /\ tasks'[i] = r
            /\ \A j \in DOMAIN tasks : j # i => tasks'[j] = tasks[j]
        BY <3>3
      <3> QED BY <3>2, <3>4
    <2>5. Kept
      BY <2>4 DEF Kept
    <2>6. \A u : Written(u)' <=> Written(u)
      <3>1. \A j \in DOMAIN tasks : tasks'[j].st = "done" <=> tasks[j].st = "done"
        BY <1>1, <2>4
      <3> QED BY <1>0, <2>4, <2>5, <3>1, SameUses
    <2>7. VersionsBounded'
      BY <1>0, <1>4, <2>4, <2>6, FrameVersions DEF ChainInv
    <2>8. DoneCounted'
      BY <2>4, FrameDone DEF ChainInv
    <2>9. src \in valid[t]
      <3>1. valid[t] # {} /\ valid[t] \ {Host} # {}
        BY <1>0, <1>3, <1>7 DEF ValidExact
      <3> QED BY <2>2, <3>1 DEF Sources
    <2>10. /\ thr'[d].src = src /\ thr'[d].i = i /\ thr'[d].k = 1
           /\ \A e \in Devices : e # d => thr'[e] = thr[e]
      BY <1>0, <1>3, <2>2 DEF Types
    <2>11. ASSUME NEW e \in Devices, thr'[e].pc = "post", thr'[e].dst = Host
           PROVE  thr'[e].src \in valid'[Tile(e)']
      <3>1. CASE e = d
        <4>1. Tile(d)' = t
          BY <2>10, <2>4, <1>b DEF Tile, Param, Params
        <4> QED BY <1>4, <2>9, <2>10, <3>1, <4>1
      <3>2. CASE e # d
        <4>1. thr'[e] = thr[e] /\ thr[e].pc = "post" /\ thr[e].dst = Host
          BY <2>10, <2>11, <3>2
        <4>2. thr[e].i \in DOMAIN tasks
          BY <1>0, <4>1, PostTile
        <4>3. Tile(e)' = Tile(e)
          BY <2>5, <4>1, <4>2 DEF Tile, Param, Params, Kept
        <4> QED BY <1>4, <4>1, <4>3 DEF ChainInv, ReadsBackValid
      <3> QED BY <3>1, <3>2
    <2>12. ReadsBackValid'
      BY <1>4, <2>11 DEF ChainInv, ReadsBackValid, Sends
    <2> QED BY <1>5, <2>7, <2>8, <2>12 DEF ChainInv
  <1> QED BY <1>6, <1>7

\* A quiescent system starts again from the host.
LEMMA InvalidateChains ==
    ASSUME DsmInv, ChainInv, Invalidate
    PROVE  ChainInv'
  <1>0. Types /\ ThreadsAtTasks /\ Apart /\ CallbacksOwned /\ FedOnce
    BY DEF DsmInv
  <1>1. Live = {} /\ copies = {} /\ Len(tasks) < MaxTasks[cap]
    BY DEF Invalidate
  <1>2. (\A d \in Devices : thr[d].pc = "idle") /\ \A t \in Tiles, n \in Nodes : cbk[t][n] = {}
    BY <1>0, <1>1, QuietEmpty
  <1>3. /\ cur' = [t \in Tiles |-> cur[t] + 1]
        /\ mem' = [mem EXCEPT ![Host] = [t \in Tiles |-> <<t, cur[t] + 1>>]]
        /\ ro' = [d \in Devices |-> <<>>] /\ rw' = [d \in Devices |-> <<>>]
        /\ tasks' = Append(tasks, [dev |-> 1, shape |-> <<>>, wc |-> 0, st |-> "done"])
        /\ cap' = cap /\ cbk' = cbk /\ thr' = thr
    BY DEF Invalidate
  <1>4. PICK r : r = [dev |-> 1, shape |-> <<>>, wc |-> 0, st |-> "done"]
    OBVIOUS
  <1>5. /\ Len(tasks') = Len(tasks) + 1 /\ Len(tasks) \in Nat
        /\ \A i \in DOMAIN tasks' : tasks'[i] = r \/ (i \in DOMAIN tasks /\ tasks'[i] = tasks[i])
    <2>1. tasks \in Seq(Task) /\ tasks' = Append(tasks, r)
      BY <1>0, <1>3, <1>4 DEF Types
    <2> QED BY <2>1
  <1>6. r.st = "done" /\ r.wc = 0
    BY <1>4
  <1>7. Live' = {}
    <2>1. \A i \in DOMAIN tasks' : tasks'[i].st = "done"
      BY <1>1, <1>5, <1>6 DEF Live
    <2> QED BY <2>1 DEF Live
  <1>8. ListsApart'
    <2>1. \A d \in Devices : ro'[d] = <<>> /\ rw'[d] = <<>>
      BY <1>3
    <2>2. IsInjective(<<>>) /\ Range(<<>>) = {}
      BY DEF IsInjective, Range
    <2> QED BY <2>1, <2>2 DEF ListsApart
  <1>9. VersionsBounded'
    <2>1. \A t \in Tiles : cur[t] \in Nat /\ cur[t] <= Len(tasks) /\ cur'[t] = cur[t] + 1
      BY <1>0, <1>3, BoundNat DEF ChainInv, VersionsBounded
    <2>2. \A t : ~ Written(t)'
      BY <1>7 DEF Written
    <2>3. Len(tasks') <= MaxTasks[cap']
      BY <1>0, <1>1, <1>3, <1>5, BoundNat
    <2>4. \A t \in Tiles : cur'[t] <= Len(tasks')
      BY <1>5, <2>1
    <2>5. ASSUME NEW m \in Nodes, NEW e \in Range(mem'[m]), e # Garbage
          PROVE  e[2] <= Len(tasks')
      <3>0. DOMAIN mem = Nodes
        BY <1>0 DEF Types
      <3>1. CASE m = Host
        <4>1. mem'[m] = [t \in Tiles |-> <<t, cur[t] + 1>>]
          BY <1>3, <3>0, <3>1
        <4>2. PICK t \in Tiles : e = <<t, cur[t] + 1>>
          BY <2>5, <4>1 DEF Range
        <4> QED BY <1>5, <2>1, <4>2
      <3>2. CASE m # Host
        <4>1. mem'[m] = mem[m]
          BY <1>3, <3>0, <3>2
        <4>2. e[2] \in Nat /\ e[2] <= Len(tasks)
          BY <1>0, <2>5, <4>1, MemContents DEF ChainInv, VersionsBounded
        <4> QED BY <1>5, <4>2
      <3> QED BY <3>1, <3>2
    <2> QED BY <2>2, <2>3, <2>4, <2>5 DEF VersionsBounded
  <1>10. DoneCounted'
    <2> SUFFICES ASSUME NEW i \in DOMAIN tasks', tasks'[i].st = "done"
                 PROVE  tasks'[i].wc = 0
      BY DEF DoneCounted
    <2> QED BY <1>5, <1>6 DEF ChainInv, DoneCounted
  <1>11. ReadsBackValid'
    <2>1. \A d \in Devices : thr'[d].pc # "post"
      BY <1>2, <1>3
    <2> QED BY <1>3, <2>1 DEF ChainInv, ReadsBackValid, Sends
  <1>12. ChainsEnd'
    BY <1>3, FrameChains DEF ChainInv
  <1> QED BY <1>8, <1>9, <1>10, <1>11, <1>12 DEF ChainInv

\* At the start there are no tasks, no lists and no callbacks.
LEMMA InitChains ==
    ASSUME Init
    PROVE  ChainInv
  <1>1. Types
    BY InitKeeps DEF DsmInv
  <1>2. Len(tasks) = 0 /\ tasks = <<>>
    BY DEF Init
  <1>3. ListsApart
    <2>1. \A d \in Devices : ro[d] = <<>> /\ rw[d] = <<>>
      BY DEF Init
    <2>2. IsInjective(<<>>) /\ Range(<<>>) = {}
      BY DEF IsInjective, Range
    <2> QED BY <2>1, <2>2 DEF ListsApart
  <1>4. VersionsBounded
    <2>1. \A t \in Tiles : cur[t] = 0
      BY DEF Init
    <2>2. \A t : ~ Written(t)
      BY <1>2 DEF Written, Live
    <2>3. MaxTasks[cap] \in Nat
      BY <1>1, BoundNat
    <2>4. ASSUME NEW m \in Nodes, NEW e \in Range(mem[m]), e # Garbage
          PROVE  e[2] = 0
      <3>1. CASE m = Host
        <4>1. mem[m] = [t \in Tiles |-> <<t, 0>>]
          BY <3>1 DEF Init
        <4> QED BY <2>4, <4>1 DEF Range
      <3>2. CASE m # Host
        <4>1. mem[m] = [b \in 1..cap[m] |-> Garbage]
          BY <3>2 DEF Init
        <4> QED BY <2>4, <4>1 DEF Range
      <3> QED BY <3>1, <3>2
    <2> QED BY <1>2, <2>1, <2>2, <2>3, <2>4 DEF VersionsBounded
  <1>5. DoneCounted
    BY <1>2 DEF DoneCounted
  <1>6. \A t \in Tiles, m, n \in Nodes : ~ Sends(t, m, n)
    BY DEF Init, Sends
  <1>7. ReadsBackValid
    <2>1. \A d \in Devices : thr[d].pc = "idle"
      BY DEF Init, Idle
    <2> QED BY <1>6, <2>1, Places DEF ReadsBackValid
  <1>8. ChainsEnd
    <2> SUFFICES ASSUME NEW t \in Tiles
                 PROVE  \E r \in [Nodes -> 0..N] : Ranked(t, r)
      BY DEF ChainsEnd
    <2>1. [n \in Nodes |-> 0] \in [Nodes -> 0..N]
      BY DsmAssumption
    <2>2. Ranked(t, [n \in Nodes |-> 0])
      BY <1>6 DEF Ranked
    <2> QED BY <2>1, <2>2
  <1> QED BY <1>3, <1>4, <1>5, <1>7, <1>8 DEF ChainInv

-----------------------------------------------------------------------------
(* ChainInv: the posting of a transfer.                                    *)

\* Any numbering of the replicas is as good as one with as many numbers as there
\* are replicas.
LEMMA RankBounded ==
    ASSUME NEW r \in [Nodes -> Nat]
    PROVE  \E p \in [Nodes -> 0..N] : \A m, n \in Nodes : r[m] < r[n] => p[m] < p[n]
  <1>1. PICK B : B = [n \in Nodes |-> {l \in Nodes : r[l] < r[n]}]
    OBVIOUS
  <1>2. PICK p : p = [n \in Nodes |-> Cardinality(B[n])]
    OBVIOUS
  <1>3. IsFiniteSet(Nodes) /\ Cardinality(Nodes) = N + 1 /\ N \in Nat
    <2>1. N \in Nat /\ ~ (0 > N) /\ N - 0 + 1 = N + 1
      BY DsmAssumption
    <2> QED BY <2>1, FS_Interval DEF Nodes
  <1>4. ASSUME NEW n \in Nodes
        PROVE  IsFiniteSet(B[n]) /\ Cardinality(B[n]) \in 0..N
    <2>1. B[n] \in SUBSET Nodes /\ n \notin B[n]
      BY <1>1
    <2>2. IsFiniteSet(B[n]) /\ Cardinality(B[n]) <= N + 1 /\ Cardinality(B[n]) # N + 1
      BY <1>3, <2>1, FS_Subset
    <2>3. Cardinality(B[n]) \in Nat
      BY <2>2, FS_CardinalityType
    <2> QED BY <1>3, <2>2, <2>3
  <1>5. p \in [Nodes -> 0..N]
    BY <1>2, <1>4
  <1>6. ASSUME NEW m \in Nodes, NEW n \in Nodes, r[m] < r[n]
        PROVE  p[m] < p[n]
    <2>1. B[m] \in SUBSET B[n]
      BY <1>1, <1>6
    <2>2. m \in B[n] /\ m \notin B[m]
      BY <1>1, <1>6
    <2>3. Cardinality(B[m]) <= Cardinality(B[n]) /\ Cardinality(B[m]) # Cardinality(B[n])
      BY <1>4, <2>1, <2>2, FS_Subset
    <2>4. Cardinality(B[m]) \in 0..N /\ Cardinality(B[n]) \in 0..N
      BY <1>4
    <2> QED BY <1>2, <1>3, <2>3, <2>4
  <1> QED BY <1>5, <1>6

\* A request to forward at a replica under transfer, to one that nobody asked for,
\* makes a chain longer.
LEMMA LongerChain ==
    ASSUME Types, FedOnce, CallbacksOwned, ChainsEnd,
           NEW t \in Tiles, NEW src \in Nodes, NEW dst \in Nodes, src \in xfer[t], dst \notin xfer[t],
           \A u \in Tiles, m, n \in Nodes :
               Sends(u, m, n)' => Sends(u, m, n) \/ (u = t /\ m = src /\ n = dst)
    PROVE  ChainsEnd'
  <1> SUFFICES ASSUME NEW u \in Tiles
               PROVE  \E r \in [Nodes -> 0..N] : Ranked(u, r)'
    BY DEF ChainsEnd
  <1>1. PICK r \in [Nodes -> 0..N] : Ranked(u, r)
    BY DEF ChainsEnd
  <1>2. CASE u # t
    BY <1>1, <1>2 DEF Ranked
  <1>3. CASE u = t
    <2>1. PICK q : q = [r EXCEPT ![dst] = r[src] + 1]
      OBVIOUS
    <2>2. q \in [Nodes -> Nat]
      <3>1. N \in Nat
        BY DsmAssumption
      <3>2. \A n \in Nodes : r[n] \in Nat
        BY <3>1
      <3> QED BY <2>1, <3>2
    <2>3. src # dst
      OBVIOUS
    <2>4. \A m \in Nodes : ~ Sends(t, m, dst) /\ ~ Sends(t, dst, m)
      <3>1. cbk[t][dst] = {}
        BY DEF CallbacksOwned
      <3> QED BY <3>1 DEF Sends, FedOnce, Fed2
    <2>5. ASSUME NEW m \in Nodes, NEW n \in Nodes, Sends(t, m, n)'
          PROVE  q[m] < q[n]
      <3>1. CASE Sends(t, m, n)
        <4>1. m # dst /\ n # dst
          BY <2>4, <3>1
        <4>2. r[m] < r[n]
          BY <1>1, <1>3, <3>1 DEF Ranked
        <4> QED BY <2>1, <4>1, <4>2
      <3>2. CASE ~ Sends(t, m, n)
        <4>1. m = src /\ n = dst
          BY <2>5, <3>2
        <4>2. q[src] = r[src] /\ q[dst] = r[src] + 1 /\ q[src] \in Nat
          BY <2>1, <2>2, <2>3
        <4> QED BY <4>1, <4>2
      <3> QED BY <3>1, <3>2
    <2>6. PICK p \in [Nodes -> 0..N] : \A m, n \in Nodes : q[m] < q[n] => p[m] < p[n]
      BY <2>2, RankBounded
    <2>7. Ranked(u, p)'
      BY <1>3, <2>5, <2>6 DEF Ranked
    <2> QED BY <2>7
  <1> QED BY <1>2, <1>3

\* Post to a device.
LEMMA PostDeviceChains ==
    ASSUME DsmInv, ChainInv, NEW d \in Devices, Post(d), thr[d].dst # Host
    PROVE  ChainInv'
  <1>a. PICK x : x = At(d)
    OBVIOUS
  <1>b. PICK t : t = Tile(d)
    OBVIOUS
  <1>c. PICK src : src = thr[d].src
    OBVIOUS
  <1>0. Types /\ ThreadsAtTasks /\ Apart /\ FedOnce /\ CallbacksOwned
    BY DEF DsmInv
  <1>1. /\ thr[d].dst = d /\ src \in Nodes /\ x = <<thr[d].i, thr[d].k>> /\ x \in Uses
        /\ t = TileOf(x) /\ t \in Tiles /\ thr[d].i \in DOMAIN tasks
        /\ tasks[thr[d].i].st = "prep"
    BY <1>a, <1>b, <1>c, PostDeviceViews
  <1>2. /\ Kept /\ tasks' \in Seq(Task) /\ DOMAIN tasks' = DOMAIN tasks
        /\ \A j \in DOMAIN tasks : /\ tasks'[j].st = tasks[j].st
                                   /\ j # thr[d].i => tasks'[j].wc = tasks[j].wc
        /\ \A u : Written(u)' <=> Written(u)
        /\ thr'[d].pc # "post"
        /\ \A e \in Devices : e # d => thr'[e] = thr[e]
    BY <1>a, PostDeviceViews
  <1>3. /\ cap' = cap /\ blk' = blk /\ mem' = mem /\ valid' = valid
        /\ ro' = ro /\ rw' = rw /\ cur' = cur
    BY DEF Post, memVars, listVars
  <1>4. PICK c : c = <<"task", <<thr[d].i, thr[d].k>>>>
    OBVIOUS
  <1>5. /\ cbk' = IF d \in valid[t] THEN cbk ELSE Callbacks(t, src, d, c)
    BY <1>1, <1>b, <1>c, <1>4, Places DEF Post
  <1>6. c \in Actions /\ \A n : c # <<"send", n>>
    <2>1. x[1] \in Nat /\ x[2] \in Nat
      BY <1>0, <1>1, UseTypes
    <2>2. <<thr[d].i, thr[d].k>> \in Nat \X Nat
      BY <1>1, <2>1
    <2>3. \A n : c # <<"send", n>>
      <3>1. c[1] = "task" /\ \A n : <<"send", n>>[1] = "send"
        BY <1>4
      <3> QED BY <3>1
    <2> QED BY <1>4, <2>2, <2>3 DEF Actions
  <1>7. \/ \A u \in Tiles, m, n \in Nodes : Sends(u, m, n)' => Sends(u, m, n)
        \/ /\ src \in xfer[t] /\ d \notin xfer[t]
           /\ \A u \in Tiles, m, n \in Nodes :
                  Sends(u, m, n)' => Sends(u, m, n) \/ (u = t /\ m = src /\ n = d)
    <2>1. CASE d \in valid[t]
      BY <1>5, <2>1 DEF Sends
    <2>2. CASE d \notin valid[t]
      <3>1. cbk' = Callbacks(t, src, d, c)
        BY <1>5, <2>2
      <3>2. \A u \in Tiles, m \in Nodes : \A a :
                a \in cbk'[u][m] <=>
                    \/ a \in cbk[u][m]
                    \/ u = t /\ m = d /\ a = c
                    \/ u = t /\ m = src /\ src \in xfer[t] /\ d \notin xfer[t] /\ a = <<"send", d>>
        <4>1. d \in Nodes /\ t \in Tiles /\ src \in Nodes /\ c \in Actions
          BY <1>1, <1>6, Places
        <4>2. Types
          BY <1>0
        <4> QED BY <3>1, <4>1, <4>2, CallbacksPosted
      <3>3. ASSUME NEW u \in Tiles, NEW m \in Nodes, NEW n \in Nodes, Sends(u, m, n)', ~ Sends(u, m, n)
            PROVE  src \in xfer[t] /\ d \notin xfer[t] /\ u = t /\ m = src /\ n = d
        <4>1. <<"send", n>> \in cbk'[u][m] /\ <<"send", n>> \notin cbk[u][m]
          BY <3>3 DEF Sends
        <4>2. u = t /\ m = src /\ src \in xfer[t] /\ d \notin xfer[t] /\ <<"send", n>> = <<"send", d>>
          BY <1>6, <3>2, <4>1
        <4>3. <<"send", n>>[2] = n /\ <<"send", d>>[2] = d
          OBVIOUS
        <4> QED BY <4>2, <4>3
      <3> QED BY <3>3
    <2> QED BY <2>1, <2>2
  <1>8. ChainsEnd'
    <2>1. d \in Nodes
      BY Places
    <2>2. CASE \A u \in Tiles, m, n \in Nodes : Sends(u, m, n)' => Sends(u, m, n)
      BY <2>2, FewerChains DEF ChainInv
    <2>3. CASE ~ \A u \in Tiles, m, n \in Nodes : Sends(u, m, n)' => Sends(u, m, n)
      BY <1>0, <1>1, <1>7, <2>1, <2>3, LongerChain DEF ChainInv
    <2> QED BY <2>2, <2>3
  <1>9. ReadsBackValid'
    <2>1. \A u \in Tiles, m \in Nodes : ~ Sends(u, m, Host)'
      <3>1. \A u \in Tiles, m \in Nodes : ~ Sends(u, m, Host)
        BY DEF ChainInv, ReadsBackValid
      <3> QED BY <1>7, <3>1, Places
    <2>2. ASSUME NEW e \in Devices, thr'[e].pc = "post", thr'[e].dst = Host
          PROVE  thr'[e].src \in valid'[Tile(e)']
      <3>1. thr'[e] = thr[e] /\ thr[e].pc = "post" /\ thr[e].dst = Host
        BY <1>2, <2>2
      <3>2. thr[e].i \in DOMAIN tasks
        BY <1>0, <3>1, PostTile
      <3>3. Tile(e)' = Tile(e)
        BY <1>2, <3>1, <3>2 DEF Tile, Param, Params, Kept
      <3> QED BY <1>3, <3>1, <3>3 DEF ChainInv, ReadsBackValid
    <2> QED BY <2>1, <2>2 DEF ReadsBackValid
  <1>10. ListsApart'
    BY <1>0, <1>3, FrameLists DEF ChainInv
  <1>11. VersionsBounded'
    <2>1. Len(tasks') = Len(tasks)
      <3>1. tasks \in Seq(Task)
        BY <1>0 DEF Types
      <3> QED BY <1>2, <3>1
    <2> QED BY <1>0, <1>2, <1>3, <2>1, FrameVersions DEF ChainInv
  <1>12. DoneCounted'
    <2>1. \A j \in DOMAIN tasks : tasks'[j].st = "done" =>
               tasks[j].st = "done" /\ tasks'[j].wc = tasks[j].wc
      BY <1>1, <1>2
    <2> QED BY <1>2, <2>1, FrameDone DEF ChainInv
  <1> QED BY <1>8, <1>9, <1>10, <1>11, <1>12 DEF ChainInv

\* Post to the host: the source is valid, so that it is not under transfer.
LEMMA PostHostChains ==
    ASSUME DsmInv, ChainInv, NEW d \in Devices, Post(d), thr[d].dst = Host
    PROVE  ChainInv'
  <1>a. PICK i : i = thr[d].i
    OBVIOUS
  <1>b. PICK t : t = Tile(d)
    OBVIOUS
  <1>c. PICK src : src = thr[d].src
    OBVIOUS
  <1>d. PICK c : c = <<"host", 0>>
    OBVIOUS
  <1>0. Types /\ ThreadsAtTasks /\ Apart /\ ValidExact
    BY DEF DsmInv
  <1>1. thr[d].pc = "post"
    BY DEF Post
  <1>2. /\ thr[d] \in Posts /\ i \in DOMAIN tasks /\ i \in Live /\ t \in Tiles /\ src \in Nodes
        /\ tasks[i].wc = 0 /\ t = TileOf(<<i, 1>>) /\ IsWriteBack(i)
    <2>1. thr[d] \in Posts /\ i \in DOMAIN tasks /\ i \in Live /\ t \in Tiles
          /\ t = TileOf(<<i, thr[d].k>>)
      BY <1>0, <1>1, <1>a, <1>b, PostTile
    <2>2. thr[d].k = 1 /\ tasks[i].st = "running"
      BY <1>0, <1>1, <1>a, Places DEF ThreadsAtTasks
    <2>3. tasks[i].wc = 0 /\ IsWriteBack(i)
      BY <1>0, <2>1, <2>2 DEF ThreadsAtTasks
    <2> QED BY <1>c, <2>1, <2>2, <2>3 DEF Posts
  <1>3. /\ cap' = cap /\ blk' = blk /\ mem' = mem /\ valid' = valid
        /\ ro' = ro /\ rw' = rw /\ cur' = cur
        /\ tasks' = [tasks EXCEPT ![i].st = "done"]
        /\ cbk' = IF Host \in valid[t] THEN cbk ELSE Callbacks(t, src, Host, c)
        /\ thr' = [thr EXCEPT ![d] = thr[d].ret]
    BY <1>a, <1>b, <1>c, <1>d DEF Post, memVars, listVars
  <1>4. /\ thr'[d].pc # "post" /\ \A e \in Devices : e # d => thr'[e] = thr[e]
    <2>1. thr[d].ret \in {Idle} \cup Steps
      BY <1>2 DEF Posts
    <2>2. thr[d].ret.pc # "post"
      BY <2>1 DEF Idle, Steps
    <2> QED BY <1>0, <1>3, <2>2 DEF Types
  <1>5. src \notin xfer[t]
    <2>1. src \in valid[t]
      BY <1>1, <1>b, <1>c DEF ChainInv, ReadsBackValid
    <2>2. Dirtying(t) = {}
      BY <1>0, <1>2, WriteBackTask
    <2> QED BY <1>0, <1>2, <2>1, <2>2 DEF ValidExact
  <1>6. /\ DoneCounted' /\ Len(tasks') = Len(tasks) /\ DOMAIN tasks' = DOMAIN tasks /\ Kept
        /\ \A u : Written(u)' => Written(u)
    BY <1>0, <1>2, <1>3, EndedCounts DEF ChainInv
  <1>7. \A u \in Tiles, m, n \in Nodes : Sends(u, m, n)' => Sends(u, m, n)
    <2>1. CASE Host \in valid[t]
      BY <1>3, <2>1 DEF Sends
    <2>2. CASE Host \notin valid[t]
      <3>1. c \in Actions /\ \A n : c # <<"send", n>>
        <4>1. \A n : c # <<"send", n>>
          <5>1. c[1] = "host" /\ \A n : <<"send", n>>[1] = "send"
            BY <1>d
          <5> QED BY <5>1
        <4> QED BY <1>d, <4>1 DEF Actions
      <3>2. cbk' = Callbacks(t, src, Host, c)
        BY <1>3, <2>2
      <3>3. \A u \in Tiles, m \in Nodes : \A a :
                a \in cbk'[u][m] <=>
                    \/ a \in cbk[u][m]
                    \/ u = t /\ m = Host /\ a = c
                    \/ u = t /\ m = src /\ src \in xfer[t] /\ Host \notin xfer[t] /\ a = <<"send", Host>>
        BY <1>0, <1>2, <3>1, <3>2, Places, CallbacksPosted
      <3> QED BY <1>5, <3>1, <3>3 DEF Sends
    <2> QED BY <2>1, <2>2
  <1>8. ListsApart' /\ ChainsEnd'
    BY <1>0, <1>3, <1>7, FrameLists, FewerChains DEF ChainInv
  <1>9. VersionsBounded'
    BY <1>0, <1>3, <1>6, FrameVersions DEF ChainInv
  <1>10. ReadsBackValid'
    <2>1. \A e \in Devices : thr'[e].pc = "post" /\ thr'[e].dst = Host =>
               thr'[e] = thr[e] /\ valid[Tile(e)] \subseteq valid'[Tile(e)]
      BY <1>3, <1>4
    <2> QED BY <1>0, <1>6, <1>7, <2>1, ReadsBackKept DEF ChainInv
  <1> QED BY <1>6, <1>8, <1>9, <1>10 DEF ChainInv

\* A transfer to the host brings its callback, and ends with it.
LEMMA HostAnswers ==
    ASSUME DsmInv, HostAnswered, [Next]_vars
    PROVE  HostAnswered'
  <1>0. Types /\ ThreadsAtTasks /\ Apart
    BY DEF DsmInv
  <1>1. CASE xfer' = xfer /\ cbk' = cbk
    BY <1>1 DEF HostAnswered
  <1>2. ASSUME NEW d \in Devices, Post(d)
        PROVE  HostAnswered'
    <2>a. PICK t : t = Tile(d)
      OBVIOUS
    <2>b. PICK dst : dst = thr[d].dst
      OBVIOUS
    <2>c. PICK src : src = thr[d].src
      OBVIOUS
    <2>d. PICK c : c = IF dst = Host THEN <<"host", 0>> ELSE <<"task", <<thr[d].i, thr[d].k>>>>
      OBVIOUS
    <2>1. /\ xfer' = IF dst \in valid[t] THEN xfer ELSE Marked(t, dst)
          /\ cbk' = IF dst \in valid[t] THEN cbk ELSE Callbacks(t, src, dst, c)
      BY <1>2, <2>a, <2>b, <2>c, <2>d DEF Post
    <2>2. thr[d] \in Posts /\ t \in Tiles /\ dst \in Nodes /\ src \in Nodes
      <3>1. thr[d] \in Posts /\ t \in Tiles
        BY <1>0, <1>2, <2>a, PostTile DEF Post
      <3> QED BY <2>b, <2>c, <3>1 DEF Posts
    <2>3. c \in Actions
      <3>1. <<thr[d].i, thr[d].k>> \in Nat \X Nat
        BY <2>2 DEF Posts
      <3> QED BY <2>d, <3>1 DEF Actions
    <2>4. CASE dst \in valid[t]
      BY <2>1, <2>4 DEF HostAnswered
    <2>5. CASE dst \notin valid[t]
      <3>1. cbk' = Callbacks(t, src, dst, c) /\ xfer' = Marked(t, dst)
        BY <2>1, <2>5
      <3>2. \A u \in Tiles, m \in Nodes : \A a :
                a \in cbk'[u][m] <=>
                    \/ a \in cbk[u][m]
                    \/ u = t /\ m = dst /\ a = c
                    \/ u = t /\ m = src /\ src \in xfer[t] /\ dst \notin xfer[t] /\ a = <<"send", dst>>
        BY <1>0, <2>2, <2>3, <3>1, CallbacksPosted
      <3>3. \A u \in Tiles : Host \in xfer'[u] => Host \in xfer[u] \/ (u = t /\ dst = Host)
        BY <1>0, <2>2, <3>1 DEF Types, Marked
      <3>4. ASSUME NEW u \in Tiles, Host \in xfer'[u]
            PROVE  cbk'[u][Host] # {}
        <4>1. CASE Host \in xfer[u]
          <5>1. PICK a : a \in cbk[u][Host]
            BY <4>1 DEF HostAnswered
          <5>2. a \in cbk'[u][Host]
            BY <3>2, <5>1, Places
          <5> QED BY <5>2
        <4>2. CASE Host \notin xfer[u]
          <5>1. u = t /\ dst = Host
            BY <3>3, <3>4, <4>2
          <5>2. c \in cbk'[u][Host]
            BY <3>2, <5>1, Places
          <5> QED BY <5>2
        <4> QED BY <4>1, <4>2
      <3> QED BY <3>4 DEF HostAnswered
    <2> QED BY <2>4, <2>5
  <1>3. ASSUME NEW e \in copies, Receive(e)
        PROVE  HostAnswered'
    <2>1. /\ \A u \in Tiles : xfer'[u] = IF u = e.t THEN xfer[u] \ {e.dst} ELSE xfer[u]
          /\ \A u \in Tiles, n \in Nodes :
                 cbk'[u][n] = IF u = e.t /\ n = e.dst THEN {} ELSE cbk[u][n]
      BY <1>3, ReceiveServes
    <2>2. ASSUME NEW u \in Tiles, Host \in xfer'[u]
          PROVE  cbk'[u][Host] # {}
      <3>1. Host \in xfer[u] /\ ~ (u = e.t /\ Host = e.dst)
        BY <2>1, <2>2
      <3>2. cbk'[u][Host] = cbk[u][Host]
        BY <2>1, <3>1, Places
      <3> QED BY <3>1, <3>2 DEF HostAnswered
    <2> QED BY <2>2 DEF HostAnswered
  <1>4. ASSUME NEW d \in Devices,
               (\E s \in Shapes : Begin(d, s)) \/ Acquire(d) \/ Alloc(d) \/ Evict(d) \/ Unset(d)
               \/ Fetch(d) \/ Touch(d)
        PROVE  xfer' = xfer /\ cbk' = cbk
    <2>1. ASSUME NEW s \in Shapes, Begin(d, s)
          PROVE  xfer' = xfer /\ cbk' = cbk
      BY <2>1 DEF Begin, stateVars
    <2>2. CASE Acquire(d) \/ Alloc(d) \/ Evict(d)
      BY <2>2 DEF Acquire, Alloc, Evict, stateVars
    <2>3. CASE Unset(d)
      BY <2>3 DEF Unset
    <2>4. CASE Fetch(d)
      BY <2>4 DEF Fetch, stateVars
    <2>5. CASE Touch(d)
      BY <2>5 DEF Touch
    <2> QED BY <1>4, <2>1, <2>2, <2>3, <2>4, <2>5
  <1>5. ASSUME NEW i \in DOMAIN tasks, Run(i) \/ RunWriteBack(i)
        PROVE  xfer' = xfer /\ cbk' = cbk
    BY <1>5 DEF Run, RunWriteBack
  <1>6. ASSUME Invalidate \/ UNCHANGED vars
        PROVE  xfer' = xfer /\ cbk' = cbk
    BY <1>6 DEF Invalidate, vars, stateVars
  <1> QED BY <1>1, <1>2, <1>3, <1>4, <1>5, <1>6 DEF Next

\* ChainInv is inductive together with DsmInv.
LEMMA NextChains ==
    ASSUME DsmInv, ChainInv, [Next]_vars, Unharmed'
    PROVE  ChainInv'
  <1>1. ASSUME NEW d \in Devices, NEW s \in Shapes, Begin(d, s)
        PROVE  ChainInv'
    BY <1>1, BeginChains
  <1>2. ASSUME NEW d \in Devices, Acquire(d) \/ Alloc(d) \/ Evict(d) \/ Unset(d) \/ Fetch(d) \/ Touch(d)
        PROVE  ChainInv'
    BY <1>2, AcquireChains, AllocChains, EvictChains, UnsetChains, FetchChains, TouchChains
  <1>3. ASSUME NEW d \in Devices, Post(d)
        PROVE  ChainInv'
    BY <1>3, PostDeviceChains, PostHostChains
  <1>4. ASSUME NEW c \in copies, Receive(c)
        PROVE  ChainInv'
    BY <1>4, ReceiveChains
  <1>5. ASSUME NEW i \in DOMAIN tasks, Run(i) \/ RunWriteBack(i)
        PROVE  ChainInv'
    BY <1>5, RunChains, RunWriteBackChains
  <1>6. CASE Invalidate
    BY <1>6, InvalidateChains
  <1>7. CASE UNCHANGED vars
    <2>1. /\ cap' = cap /\ blk' = blk /\ mem' = mem /\ valid' = valid /\ xfer' = xfer /\ pin' = pin
          /\ cbk' = cbk /\ copies' = copies /\ ro' = ro /\ rw' = rw /\ cur' = cur
          /\ tasks' = tasks /\ thr' = thr
      BY <1>7 DEF vars, memVars, stateVars, listVars
    <2>2. \A u : Written(u)' <=> Written(u)
      BY <2>1 DEF Written, Live, Params
    <2>3. ListsApart' /\ ChainsEnd'
      BY <2>1, FrameLists, FrameChains DEF ChainInv, DsmInv
    <2>4. VersionsBounded' /\ DoneCounted'
      BY <2>1, <2>2, FrameVersions, FrameDone DEF ChainInv, DsmInv
    <2>5. ReadsBackValid'
      BY <2>1 DEF ChainInv, ReadsBackValid, Sends, Tile, Param, Params
    <2> QED BY <2>3, <2>4, <2>5 DEF ChainInv
  <1> QED BY <1>1, <1>2, <1>3, <1>4, <1>5, <1>6, <1>7 DEF Next

-----------------------------------------------------------------------------
(* What the two invariants say of transfers.                               *)

\* The elements of two lists, one after the other.
LEMMA RangeJoined ==
    ASSUME NEW T, NEW s \in Seq(T), NEW u \in Seq(T)
    PROVE  /\ Range(s \o u) = Range(s) \cup Range(u)
           /\ IsInjective(s) /\ IsInjective(u) /\ Range(s) \cap Range(u) = {} => IsInjective(s \o u)
  <1>1. PICK j : j = s \o u
    OBVIOUS
  <1>2. j \in Seq(T) /\ Len(j) = Len(s) + Len(u)
    BY <1>1, ConcatProperties
  <1>3. \A k \in 1..(Len(s) + Len(u)) : j[k] = IF k <= Len(s) THEN s[k] ELSE u[k - Len(s)]
    BY <1>1, ConcatProperties, Zenon
  <1>4. /\ DOMAIN j = 1..(Len(s) + Len(u)) /\ DOMAIN s = 1..Len(s) /\ DOMAIN u = 1..Len(u)
        /\ Len(s) \in Nat /\ Len(u) \in Nat
    BY <1>2
  <1>5. \A k \in 1..Len(s) : k \in DOMAIN j /\ j[k] = s[k]
    BY <1>3, <1>4
  <1>6. \A k \in 1..Len(u) : k + Len(s) \in DOMAIN j /\ j[k + Len(s)] = u[k]
    <2> TAKE k \in 1..Len(u)
    <2>1. k + Len(s) \in 1..(Len(s) + Len(u)) /\ ~ (k + Len(s) <= Len(s)) /\ k + Len(s) - Len(s) = k
      BY <1>4
    <2> QED BY <1>3, <1>4, <2>1
  <1>7. \A k \in DOMAIN j : \/ k \in 1..Len(s) /\ j[k] = s[k]
                            \/ k - Len(s) \in 1..Len(u) /\ j[k] = u[k - Len(s)]
    <2> TAKE k \in DOMAIN j
    <2>1. CASE k <= Len(s)
      BY <1>3, <1>4, <2>1
    <2>2. CASE ~ (k <= Len(s))
      <3>1. k \in 1..(Len(s) + Len(u)) /\ k - Len(s) \in 1..Len(u)
        BY <1>4, <2>2
      <3> QED BY <1>3, <2>2, <3>1
    <2> QED BY <2>1, <2>2
  <1>8. Range(j) = Range(s) \cup Range(u)
    <2>1. Range(j) \subseteq Range(s) \cup Range(u)
      BY <1>4, <1>7 DEF Range
    <2>2. Range(s) \cup Range(u) \subseteq Range(j)
      BY <1>4, <1>5, <1>6 DEF Range
    <2> QED BY <2>1, <2>2
  <1>9. ASSUME IsInjective(s), IsInjective(u), Range(s) \cap Range(u) = {}
        PROVE  IsInjective(j)
    <2> SUFFICES ASSUME NEW a \in DOMAIN j, NEW b \in DOMAIN j, j[a] = j[b]
                 PROVE  a = b
      BY DEF IsInjective
    <2>0. a \in Nat /\ b \in Nat
      BY <1>4
    <2>1. \A k \in 1..Len(s) : s[k] \in Range(s)
      BY <1>4 DEF Range
    <2>2. \A k \in 1..Len(u) : u[k] \in Range(u)
      BY <1>4 DEF Range
    <2>3. CASE a \in 1..Len(s) /\ j[a] = s[a]
      <3>1. b \in 1..Len(s) /\ j[b] = s[b]
        BY <1>7, <1>9, <2>1, <2>2, <2>3
      <3> QED BY <1>4, <1>9, <2>3, <3>1 DEF IsInjective
    <2>4. CASE a - Len(s) \in 1..Len(u) /\ j[a] = u[a - Len(s)]
      <3>1. b - Len(s) \in 1..Len(u) /\ j[b] = u[b - Len(s)]
        BY <1>7, <1>9, <2>1, <2>2, <2>4
      <3>2. a - Len(s) = b - Len(s)
        BY <1>4, <1>9, <2>4, <3>1 DEF IsInjective
      <3> QED BY <1>4, <2>0, <3>2
    <2> QED BY <1>7, <2>3, <2>4
  <1> QED BY <1>1, <1>8, <1>9

\* The counter of a live task counts each parameter once, and its preparation.
LEMMA CounterBound ==
    ASSUME DsmInv, NEW i \in Live
    PROVE  tasks[i].wc \in 0..(Len(Params(i)) + 1)
  <1>0. Types /\ Apart /\ CountersExact /\ CallbacksOwned
    BY DEF DsmInv
  <1>1. PICK w : w = Cardinality(Waiting(i))
    OBVIOUS
  <1>2. Params(i) \in Seq(Tiles \X Modes)
    BY <1>0, DsmAssumption DEF Apart
  <1>3. DOMAIN Params(i) = 1..Len(Params(i)) /\ Len(Params(i)) \in Nat
    BY <1>2
  <1>4. IsFiniteSet(DOMAIN Params(i)) /\ Cardinality(DOMAIN Params(i)) = Len(Params(i))
    <2>1. PICK n \in Nat : n = Len(Params(i))
      BY <1>3
    <2>2. IsFiniteSet(1..n) /\ Cardinality(1..n) = IF 1 > n THEN 0 ELSE n - 1 + 1
      BY FS_Interval
    <2>3. Cardinality(1..n) = n
      BY <2>2
    <2> QED BY <1>3, <2>1, <2>2, <2>3
  <1>5. Waiting(i) \in SUBSET DOMAIN Params(i)
    BY DEF Waiting
  <1>6. w \in Nat /\ w <= Len(Params(i))
        /\ ((\E k \in DOMAIN Params(i) : k \notin Waiting(i)) => w # Len(Params(i)))
    BY <1>1, <1>4, <1>5, FS_Subset, FS_CardinalityType
  <1>7. ASSUME NEW k \in DOMAIN Params(i), Posting(<<i, k>>)
        PROVE  k \notin Waiting(i)
    <2>1. <<i, k>> \notin Asked
      BY <1>7 DEF Asked
    <2>2. ASSUME k \in Waiting(i)
          PROVE  FALSE
      <3>1. PICK c : c = <<"task", <<i, k>>>>
        OBVIOUS
      <3>2. c \in cbk[Params(i)[k][1]][tasks[i].dev] /\ c[1] = "task" /\ c[2] = <<i, k>>
        BY <2>2, <3>1 DEF Waiting
      <3>3. Params(i)[k][1] \in Tiles
        BY <1>2, ElementOfSeq, <1>3, <1>7
      <3>4. tasks[i].dev \in Nodes
        BY <1>0, TaskTypes, Places DEF Task
      <3>5. c[2] \in Asked
        BY <1>0, <3>2, <3>3, <3>4 DEF CallbacksOwned
      <3> QED BY <2>1, <3>2, <3>5
    <2> QED BY <2>2
  <1>8. tasks[i].wc = w + (IF tasks[i].st = "prep" THEN 1 ELSE 0)
                      + (IF \E k \in DOMAIN Params(i) : Posting(<<i, k>>) THEN 1 ELSE 0)
    BY <1>0, <1>1 DEF CountersExact
  <1>9. PICK n \in Nat : n = Len(Params(i))
    BY <1>3
  <1>10. PICK p \in {0, 1} : p = IF tasks[i].st = "prep" THEN 1 ELSE 0
    OBVIOUS
  <1>11. CASE \E k \in DOMAIN Params(i) : Posting(<<i, k>>)
    <2>1. PICK k \in DOMAIN Params(i) : Posting(<<i, k>>)
      BY <1>11
    <2>2. k \notin Waiting(i)
      BY <1>7, <2>1
    <2>3. w # n
      BY <1>6, <1>9, <2>2
    <2>4. tasks[i].wc = w + p + 1
      BY <1>8, <1>10, <1>11
    <2> QED BY <1>6, <1>9, <2>3, <2>4
  <1>12. CASE ~ \E k \in DOMAIN Params(i) : Posting(<<i, k>>)
    <2>1. tasks[i].wc = w + p + 0
      BY <1>8, <1>10, <1>12
    <2> QED BY <1>6, <1>9, <2>1
  <1> QED BY <1>11, <1>12

\* The shape of the state.
LEMMA ShapeHolds ==
    ASSUME DsmInv, ChainInv
    PROVE  TypeOK
  <1>0. Types /\ ThreadsAtTasks /\ Apart /\ PinsExact /\ BlocksExact /\ CallbacksOwned /\ CopiesCurrent
    BY DEF DsmInv
  <1>1. ASSUME NEW d \in Devices
        PROVE  /\ Range(ro[d] \o rw[d]) = Range(ro[d]) \cup Range(rw[d])
               /\ IsInjective(ro[d] \o rw[d])
    <2>1. ro[d] \in Seq(Tiles) /\ rw[d] \in Seq(Tiles)
      BY <1>0 DEF Types
    <2>2. IsInjective(ro[d]) /\ IsInjective(rw[d]) /\ Range(ro[d]) \cap Range(rw[d]) = {}
      BY DEF ChainInv, ListsApart
    <2> QED BY <2>1, <2>2, RangeJoined
  <1>2. ASSUME NEW t \in Tiles, NEW d \in Devices
        PROVE  /\ blk[t][d] \in 0..cap[d] /\ pin[t][d] \in Nat
               /\ t \in Range(ro[d] \o rw[d]) => blk[t][d] # 0
    <2>1. blk[t][d] \in 0..cap[d]
      BY <1>0 DEF BlocksExact
    <2>2. pin[t][d] \in Nat
      BY <1>0, FS_CardinalityType DEF PinsExact
    <2>3. t \in Range(ro[d] \o rw[d]) => blk[t][d] # 0
      BY <1>1 DEF ChainInv, ListsApart
    <2> QED BY <2>1, <2>2, <2>3
  <1>3. ASSUME NEW n \in Nodes
        PROVE  Range(mem[n]) \subseteq Version
    <2> SUFFICES ASSUME NEW c \in Range(mem[n]), c # Garbage
                 PROVE  c \in Tiles \X (0..MaxTasks[cap])
      BY DEF Version
    <2>1. c[1] \in Tiles /\ c[2] \in Nat /\ c \in Contents
      BY <1>0, MemContents
    <2>2. c[2] <= Len(tasks) /\ Len(tasks) <= MaxTasks[cap]
      BY DEF ChainInv, VersionsBounded
    <2>3. c \in Tiles \X Nat
      BY <2>1 DEF Contents
    <2>4. c[2] \in 0..MaxTasks[cap]
      BY <1>0, <2>1, <2>2, BoundNat
    <2> QED BY <2>1, <2>3, <2>4
  <1>4. ASSUME NEW t \in Tiles, NEW n \in Nodes
        PROVE  cbk[t][n] \subseteq Callback
    <2> SUFFICES ASSUME NEW c \in cbk[t][n]
                 PROVE  c \in Callback
      OBVIOUS
    <2>1. c \in Actions
      BY <1>0 DEF Types
    <2>2. CASE c \in {"task"} \X (Nat \X Nat)
      <3>1. c[1] = "task" /\ c = <<"task", c[2]>> /\ c[2] \in Nat \X Nat
        BY <2>2
      <3>2. c[2] \in Uses
        <4>1. c[2] \in Asked
          BY <1>0, <3>1 DEF CallbacksOwned
        <4> QED BY <4>1, Subsets
      <3>3. c[2][1] \in 1..Len(tasks) /\ c[2] = <<c[2][1], c[2][2]>> /\ c[2][2] \in Nat
        BY <1>0, <3>2, UseTypes, TaskTypes
      <3>4. c[2][1] \in 1..MaxTasks[cap]
        BY <1>0, <3>3, BoundNat DEF ChainInv, VersionsBounded
      <3>5. c[2] \in (1..MaxTasks[cap]) \X Nat
        BY <3>3, <3>4
      <3> QED BY <3>1, <3>5 DEF Callback
    <2>3. CASE c \in {"send"} \X Nodes
      <3>1. c = <<"send", c[2]>> /\ c[2] \in Nodes
        BY <2>3
      <3>2. c[2] # Host
        BY <3>1 DEF ChainInv, ReadsBackValid, Sends
      <3> QED BY <3>1, <3>2, Places DEF Callback
    <2>4. CASE c = <<"host", 0>>
      BY <2>4 DEF Callback
    <2> QED BY <2>1, <2>2, <2>3, <2>4 DEF Actions
  <1>5. \A c \in copies : c.t \in Tiles /\ c.src \in Nodes /\ c.dst \in Nodes \ {c.src}
    BY <1>0 DEF Types, Transfers, CopiesCurrent
  <1>6. cur \in [Tiles -> 0..MaxTasks[cap]]
    <2>1. \A t \in Tiles : cur[t] \in 0..MaxTasks[cap]
      BY <1>0, BoundNat DEF ChainInv, VersionsBounded
    <2> QED BY <1>0, <2>1 DEF Types
  <1>7. ASSUME NEW i \in DOMAIN tasks
        PROVE  tasks[i].wc \in 0..(Len(Params(i)) + 1)
    <2>1. CASE i \in Live
      BY <2>1, CounterBound
    <2>2. CASE i \notin Live
      <3>1. tasks[i].wc = 0
        BY <2>2 DEF Live, ChainInv, DoneCounted
      <3>2. Params(i) \in Shapes \cup {<<>>}
        BY <1>0, TaskTypes DEF Task, Params
      <3>3. Len(Params(i)) \in Nat
        BY <3>2, DsmAssumption
      <3> QED BY <3>1, <3>3
    <2> QED BY <2>1, <2>2
  <1>8. cap \in Capacities /\ valid \in [Tiles -> SUBSET Nodes] /\ xfer \in [Tiles -> SUBSET Nodes]
    BY <1>0 DEF Types
  <1> QED BY <1>1, <1>2, <1>3, <1>4, <1>5, <1>6, <1>7, <1>8 DEF TypeOK

\* Reach is what its definition says.
LEMMA ReachStep ==
    /\ \A t \in Tiles : Reach[0][t] = Direct(t)
    /\ \A k \in 1..N, t \in Tiles : Reach[k][t] = After(t, Reach[k - 1][t])
  <1> DEFINE F(g, k) == [t \in Tiles |-> IF k = 0 THEN Direct(t) ELSE After(t, g[k - 1][t])]
             Def(g, K) == g = [k \in 0..K |-> F(g, k)]
             Missing == {K \in Nat : ~ \E g : Def(g, K)}
  <1>1. Missing = {}
    <2> SUFFICES ASSUME Missing # {}
                 PROVE  FALSE
      OBVIOUS
    <2>1. PICK K \in Missing : \A n \in Missing : K <= n
      <3>1. Missing \in SUBSET Nat
        OBVIOUS
      <3> HIDE DEF Missing
      <3> QED BY <3>1, LeastExists
    <2>2. K \in Nat /\ ~ \E g : Def(g, K)
      OBVIOUS
    <2>3. CASE K = 0
      <3>1. PICK g : g = [k \in 0..K |-> [t \in Tiles |-> Direct(t)]]
        OBVIOUS
      <3>2. \A k \in 0..K : F(g, k) = [t \in Tiles |-> Direct(t)]
        BY <2>3
      <3>3. Def(g, K)
        BY <3>1, <3>2
      <3> QED BY <2>2, <3>3
    <2>4. CASE K # 0
      <3>1. K - 1 \in Nat /\ K - 1 \notin Missing
        BY <2>1, <2>2, <2>4
      <3>2. PICK h : Def(h, K - 1)
        BY <3>1
      <3>3. PICK g : g = [k \in 0..K |-> IF k = K THEN F(h, K) ELSE h[k]]
        OBVIOUS
      <3>4. \A k \in 0..(K - 1) : g[k] = h[k] /\ h[k] = F(h, k)
        <4>1. \A k \in 0..(K - 1) : h[k] = F(h, k)
          BY <3>2
        <4>2. \A k \in 0..(K - 1) : k \in 0..K /\ k # K
          BY <2>2
        <4> QED BY <3>3, <4>1, <4>2
      <3>5. \A k \in 0..K : F(g, k) = F(h, k)
        <4> TAKE k \in 0..K
        <4>1. CASE k = 0
          BY <4>1
        <4>2. CASE k # 0
          <5>1. k - 1 \in 0..(K - 1)
            BY <2>2, <4>2
          <5>2. g[k - 1] = h[k - 1]
            BY <3>4, <5>1
          <5> QED BY <5>2
        <4> QED BY <4>1, <4>2
      <3>6. \A k \in 0..K : g[k] = F(g, k)
        <4> TAKE k \in 0..K
        <4>1. CASE k = K
          <5>1. g[k] = F(h, K)
            BY <3>3, <4>1
          <5> QED BY <3>5, <4>1, <5>1
        <4>2. CASE k # K
          <5>1. k \in 0..(K - 1)
            BY <2>2, <4>2
          <5> QED BY <3>4, <3>5, <5>1
        <4> QED BY <4>1, <4>2
      <3>7. g = [k \in 0..K |-> g[k]]
        BY <3>3
      <3>8. Def(g, K)
        BY <3>6, <3>7
      <3> QED BY <2>2, <3>8
    <2> QED BY <2>3, <2>4
  <1>2. N \in Nat
    BY DsmAssumption
  <1>3. \E g : Def(g, N)
    BY <1>1, <1>2
  <1>4. Reach = [k \in 0..N |-> [t \in Tiles |-> IF k = 0 THEN Direct(t) ELSE After(t, Reach[k - 1][t])]]
    BY <1>3, Zenon DEF Reach
  <1>5. \A k \in 0..N, t \in Tiles :
            Reach[k][t] = IF k = 0 THEN Direct(t) ELSE After(t, Reach[k - 1][t])
    <2>1. PICK R : R = Reach
      OBVIOUS
    <2>2. R = [k \in 0..N |-> F(R, k)]
      BY <1>4, <2>1, Zenon
    <2>3. \A k \in 0..N : R[k] = F(R, k)
      BY <2>2, Zenon
    <2>4. \A k \in 0..N, t \in Tiles : R[k][t] = IF k = 0 THEN Direct(t) ELSE After(t, R[k - 1][t])
      BY <2>3
    <2> QED BY <2>1, <2>4
  <1>6. 0 \in 0..N /\ \A k \in 1..N : k \in 0..N /\ k # 0
    BY <1>2
  <1> QED BY <1>5, <1>6

\* What is reached stays reached.
LEMMA ReachGrows ==
    \A t \in Tiles, k \in 0..N : Direct(t) \subseteq Reach[k][t]
  <1> SUFFICES ASSUME NEW t \in Tiles
               PROVE  \A k \in 0..N : Direct(t) \subseteq Reach[k][t]
    OBVIOUS
  <1> DEFINE B == {k \in 0..N : ~ (Direct(t) \subseteq Reach[k][t])}
  <1>0. N \in Nat
    BY DsmAssumption
  <1> SUFFICES ASSUME B # {}
               PROVE  FALSE
    OBVIOUS
  <1>1. PICK k \in B : \A n \in B : k <= n
    <2>1. B \in SUBSET Nat
      BY <1>0
    <2> HIDE DEF B
    <2> QED BY <2>1, LeastExists
  <1>2. k \in 0..N /\ ~ (Direct(t) \subseteq Reach[k][t])
    OBVIOUS
  <1>3. k # 0
    BY <1>2, ReachStep
  <1>4. k \in 1..N /\ k - 1 \in 0..N /\ k - 1 < k /\ k \in Nat /\ k - 1 \in Nat
    BY <1>0, <1>2, <1>3
  <1>5. k - 1 \notin B
    BY <1>1, <1>4
  <1>6. Direct(t) \subseteq Reach[k - 1][t]
    BY <1>4, <1>5
  <1>7. Reach[k][t] = After(t, Reach[k - 1][t])
    BY <1>4, ReachStep
  <1> QED BY <1>2, <1>6, <1>7 DEF After

\* Every transfer is at the end of a chain that starts at a copy: the rank of a
\* replica bounds the length of its chain.
LEMMA TransferReached ==
    ASSUME DsmInv, ChainInv, NEW t \in Tiles
    PROVE  xfer[t] \subseteq Reach[N][t]
  <1>0. Types /\ CallbacksOwned /\ FedOnce
    BY DEF DsmInv
  <1>1. PICK r \in [Nodes -> 0..N] : Ranked(t, r)
    BY DEF ChainInv, ChainsEnd
  <1>2. N \in Nat
    BY DsmAssumption
  <1> DEFINE B == {j \in 0..N : \E n \in xfer[t] : r[n] = j /\ \E k \in j..N : n \notin Reach[k][t]}
  <1>3. B = {}
    <2> SUFFICES ASSUME B # {}
                 PROVE  FALSE
      OBVIOUS
    <2>1. PICK j \in B : \A i \in B : j <= i
      <3>1. B \in SUBSET Nat
        BY <1>2
      <3> HIDE DEF B
      <3> QED BY <3>1, LeastExists
    <2>2. PICK n \in xfer[t] : r[n] = j /\ \E k \in j..N : n \notin Reach[k][t]
      OBVIOUS
    <2>3. PICK k \in j..N : n \notin Reach[k][t]
      BY <2>2
    <2>4. j \in 0..N /\ k \in 0..N /\ j \in Nat /\ k \in Nat /\ j <= k
      BY <1>2, <2>3
    <2>5. n \in Nodes
      BY <1>0, <2>2 DEF Types
    <2>6. CASE Fed(t, n)
      <3>1. n \in Direct(t)
        BY <2>6 DEF Fed, Direct
      <3> QED BY <2>3, <2>4, <3>1, ReachGrows
    <2>7. CASE \E m \in Nodes : Sends(t, m, n)
      <3>1. PICK m \in Nodes : Sends(t, m, n)
        BY <2>7
      <3>2. r[m] < j /\ r[m] \in 0..N
        BY <1>1, <2>2, <2>5, <3>1 DEF Ranked
      <3>3. m \in xfer[t]
        BY <1>0, <3>1 DEF CallbacksOwned, Sends
      <3>4. r[m] \notin B
        BY <2>1, <2>4, <3>2
      <3>5. k - 1 \in r[m]..N /\ k \in 1..N
        BY <1>2, <2>4, <3>2
      <3>6. m \in Reach[k - 1][t]
        BY <3>2, <3>3, <3>4, <3>5
      <3>7. Reach[k][t] = After(t, Reach[k - 1][t])
        BY <3>5, ReachStep
      <3>8. n \in After(t, Reach[k - 1][t])
        BY <2>5, <3>1, <3>6 DEF After, Sends
      <3> QED BY <2>3, <3>7, <3>8
    <2>8. Fed(t, n) \/ \E m \in Nodes : Sends(t, m, n)
      BY <1>0, <2>2 DEF FedOnce, Fed3
    <2> QED BY <2>6, <2>7, <2>8
  <1>4. ASSUME NEW n \in xfer[t]
        PROVE  n \in Reach[N][t]
    <2>1. n \in Nodes
      BY <1>0 DEF Types
    <2>2. r[n] \in 0..N /\ r[n] \notin B
      BY <1>1, <1>3, <2>1
    <2>3. N \in r[n]..N
      BY <1>2, <2>2
    <2> QED BY <2>2, <2>3
  <1> QED BY <1>4

\* What is reached is under transfer.
LEMMA ReachedTransfer ==
    ASSUME DsmInv, NEW t \in Tiles
    PROVE  Reach[N][t] \subseteq xfer[t]
  <1>0. Types /\ FedOnce
    BY DEF DsmInv
  <1>1. N \in Nat
    BY DsmAssumption
  <1> DEFINE B == {k \in 0..N : ~ (Reach[k][t] \subseteq xfer[t])}
  <1>2. B = {}
    <2> SUFFICES ASSUME B # {}
                 PROVE  FALSE
      OBVIOUS
    <2>1. PICK k \in B : \A n \in B : k <= n
      <3>1. B \in SUBSET Nat
        BY <1>1
      <3> HIDE DEF B
      <3> QED BY <3>1, LeastExists
    <2>2. k \in 0..N /\ ~ (Reach[k][t] \subseteq xfer[t])
      OBVIOUS
    <2>3. Direct(t) \subseteq xfer[t]
      BY <1>0 DEF Direct, FedOnce, Fed1
    <2>4. k # 0
      BY <2>2, <2>3, ReachStep
    <2>5. k \in 1..N /\ k - 1 \in 0..N /\ k - 1 < k /\ k \in Nat /\ k - 1 \in Nat
      BY <1>1, <2>2, <2>4
    <2>6. k - 1 \notin B
      BY <2>1, <2>5
    <2>7. Reach[k - 1][t] \subseteq xfer[t]
      BY <2>5, <2>6
    <2>8. Reach[k][t] = After(t, Reach[k - 1][t])
      BY <2>5, ReachStep
    <2>9. xfer[t] \subseteq Nodes
      BY <1>0 DEF Types
    <2>10. After(t, Reach[k - 1][t]) \subseteq xfer[t]
      BY <1>0, <2>7, <2>9 DEF After, FedOnce, Fed2, Sends
    <2> QED BY <2>2, <2>8, <2>10
  <1>3. N \in 0..N
    BY <1>1
  <1> QED BY <1>2, <1>3

\* As many copies as destinations.
LEMMA CopiesCounted ==
    ASSUME DsmInv, NEW t \in Tiles
    PROVE  Cardinality({c \in copies : c.t = t}) = Cardinality(Direct(t))
  <1>0. Types /\ FedOnce
    BY DEF DsmInv
  <1>1. PICK C : C = {c \in copies : c.t = t}
    OBVIOUS
  <1>2. PICK D : D = Direct(t)
    OBVIOUS
  <1>3. D = {c.dst : c \in C}
    BY <1>1, <1>2 DEF Direct
  <1>4. IsFiniteSet(D)
    <2>1. D \in SUBSET Nodes
      BY <1>0, <1>1, <1>3 DEF Types, Transfers
    <2>2. IsFiniteSet(Nodes)
      <3>1. 0 \in Int /\ N \in Int
        BY DsmAssumption
      <3> QED BY <3>1, FS_Interval DEF Nodes
    <2> QED BY <2>1, <2>2, FS_Subset
  <1>5. \A c, e \in C : c.dst = e.dst => c = e
    BY <1>0, <1>1 DEF FedOnce, Fed4
  <1>6. PICK f : f = [n \in D |-> CHOOSE c \in C : c.dst = n]
    OBVIOUS
  <1>7. \A n \in D : f[n] \in C /\ f[n].dst = n
    BY <1>3, <1>6
  <1>8. f \in [D -> C]
    BY <1>6, <1>7
  <1>9. \A a, b \in D : f[a] = f[b] => a = b
    BY <1>7
  <1>10. \A c \in C : \E n \in D : f[n] = c
    <2> TAKE c \in C
    <2>1. c.dst \in D
      BY <1>3
    <2>2. f[c.dst] = c
      BY <1>5, <1>7, <2>1
    <2> QED BY <2>1, <2>2
  <1>11. f \in Bijection(D, C)
    <2>1. f \in Injection(D, C)
      BY <1>8, <1>9 DEF Injection, IsInjective
    <2>2. f \in Surjection(D, C)
      BY <1>8, <1>10 DEF Surjection
    <2> QED BY <2>1, <2>2 DEF Bijection
  <1>12. ExistsBijection(D, C)
    BY <1>11 DEF ExistsBijection
  <1>13. Cardinality(C) = Cardinality(D)
    BY <1>4, <1>12, FS_Bijection
  <1> QED BY <1>1, <1>2, <1>13

\* Every transfer is served.
LEMMA ServedHolds ==
    ASSUME DsmInv, ChainInv, HostAnswered
    PROVE  EveryTransferServed
  <1>0. Types /\ CallbacksOwned
    BY DEF DsmInv
  <1> SUFFICES ASSUME NEW t \in Tiles
               PROVE  /\ xfer[t] = Reach[N][t]
                      /\ {n \in Nodes : cbk[t][n] # {}} = xfer[t]
                      /\ Cardinality({c \in copies : c.t = t}) = Cardinality(Direct(t))
    BY DEF EveryTransferServed
  <1>1. xfer[t] = Reach[N][t]
    BY TransferReached, ReachedTransfer
  <1>2. {n \in Nodes : cbk[t][n] # {}} = xfer[t]
    <2>1. \A n \in Nodes : cbk[t][n] # {} => n \in xfer[t]
      BY <1>0 DEF CallbacksOwned
    <2>2. ASSUME NEW n \in xfer[t]
          PROVE  n \in Nodes /\ cbk[t][n] # {}
      <3>1. n \in Nodes
        BY <1>0 DEF Types
      <3>2. CASE n = Host
        BY <3>1, <3>2 DEF HostAnswered
      <3>3. CASE n # Host
        BY <1>0, <3>1, <3>3, Places DEF CallbacksOwned
      <3> QED BY <3>1, <3>2, <3>3
    <2> QED BY <2>1, <2>2
  <1> QED BY <1>1, <1>2, CopiesCounted

\* Every transfer is served once, by a copy or by a chain of requests to forward that
\* ends at one, no list has a tile twice, and the counters are those of the uses
\* (kaapi_dsm_fetch_on, callback_activate_replica_on_receive_cbk), as long as no
\* eviction has hurt another device and no writer has overtaken a write-back.
THEOREM TransfersSoundHolds ==
    Spec => []TransfersSound
  <1> DEFINE Inv == DsmInv /\ ChainInv /\ HostAnswered
  <1>1. Init => Inv
    <2>1. Init => HostAnswered
      BY DEF Init, HostAnswered
    <2> QED BY <2>1, InitKeeps, InitChains
  <1>2. (Unharmed => Inv) /\ [Next]_vars => (Unharmed => Inv)'
    <2> SUFFICES ASSUME Unharmed => Inv, [Next]_vars, Unharmed'
                 PROVE  Inv'
      OBVIOUS
    <2>1. Inv
      BY MishapsStay
    <2> QED BY <2>1, NextKeeps, NextChains, HostAnswers
  <1>3. (Unharmed => Inv) => TransfersSound
    BY ShapeHolds, ServedHolds, ForwardsNeeded DEF TransfersSound
  <1>4. Spec => [](Unharmed => Inv)
    <2> HIDE DEF Inv
    <2>1. Init => (Unharmed => Inv)
      BY <1>1
    <2> QED BY <1>2, <2>1, PTL DEF Spec
  <1> QED BY <1>3, <1>4, PTL

=============================================================================
