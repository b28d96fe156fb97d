-------------------------- MODULE StructuresProofs --------------------------
(***************************************************************************)
(* The data structures keep their promises, under the specification that   *)
(* composes them and for every value of its constants.                     *)
(*                                                                         *)
(* TheQueue: QueueInv is inductive; however the owner and the thieves      *)
(* interleave, no task is taken twice and none is lost.  ChunkHeap:        *)
(* HeapInv says that prev and next are the neighbours by address and link  *)
(* the first free chunk after.  HashMap: MapInv gives the list of each     *)
(* bucket as a function of the places.  WorkBuffer: WorkInv says that the   *)
(* segments cut the buffer and each link of the free list goes to the next *)
(* free segment by address; the walk of the list then meets all of them.   *)
(***************************************************************************)
EXTENDS Structures, FiniteSetTheorems, NaturalsInduction, TLAPS

\* A set of natural numbers with an element has a least one.
LEMMA LeastExists ==
    ASSUME NEW S \in SUBSET Nat, S # {}
    PROVE  \E m \in S : \A n \in S : m <= n
  <1>1. \A m, n \in Nat : n < m => <<n, m>> \in OpToRel(<, Nat)
    BY Zenon DEF OpToRel
  <1>2. PICK R : IsWellFoundedOn(R, Nat) /\ \A m, n \in Nat : n < m => <<n, m>> \in R
    BY <1>1, NatLessThanWellFounded, Zenon
  <1>3. PICK m \in S : \A n \in S : ~ (<<n, m>> \in R)
    BY <1>2, WFMin
  <1>4. \A n \in S : ~ (n < m)
    BY <1>2, <1>3
  <1>5. \A n \in S : n \in Nat /\ m \in Nat
    OBVIOUS
  <1> QED BY <1>4, <1>5

-----------------------------------------------------------------------------
(* TheQueue.                                                               *)

\* What the proofs need of the constants.
Constants == 0 \in Prios /\ Free \notin Thieves /\ Size0 \in Nat \ {0} /\ MaxTasks \in Nat

-----------------------------------------------------------------------------
(* Places.                                                                 *)

\* The queues have numbers as heads and tails.
LEMMA HeadTail ==
    ASSUME TypeOK, NEW p \in Prios
    PROVE  FirstPlace(p) \in Int /\ EndPlace(p) \in Int
  BY DEF TypeOK, FirstPlace, EndPlace

\* The arrays change outside the queues at most, and the heads and tails that
\* count do not move.
LEMMA SamePlaces ==
    ASSUME TypeOK, PlacesInArray, OnePlaceEach, NoneLost,
           \A p \in Prios : FirstPlace(p)' = FirstPlace(p) /\ EndPlace(p)' = EndPlace(p),
           \A p \in Prios : \A k \in Places(p) : data'[p][k] = data[p][k],
           \A p \in Prios : size'[p] \in Nat /\ size'[p] >= size[p],
           \A p \in Prios : FirstPlace(p) < EndPlace(p) => p \in bitmap',
           taken' = taken, pushed' \in {pushed, pushed + 1}, Published' = Published
    PROVE  PlacesInArray' /\ OnePlaceEach' /\ NoneLost'
  <1>1. \A p \in Prios : Places(p)' = Places(p)
    BY DEF Places
  <1>2. PlacesInArray'
    <2> SUFFICES ASSUME NEW p \in Prios
                 PROVE  /\ FirstPlace(p)' <= EndPlace(p)' /\ EndPlace(p)' <= size'[p]
                        /\ FirstPlace(p)' < EndPlace(p)' => p \in bitmap'
      BY DEF PlacesInArray
    <2>1. FirstPlace(p) \in Int /\ EndPlace(p) \in Int
      BY HeadTail
    <2>2. size[p] \in Nat /\ size'[p] \in Nat /\ size'[p] >= size[p]
      BY DEF TypeOK
    <2> QED BY <2>1, <2>2 DEF PlacesInArray
  <1>3. OnePlaceEach'
    BY <1>1 DEF OnePlaceEach
  <1>4. NoneLost'
    <2>1. \A t \in 1..Published' : \/ taken'[t] = 1
                                  \/ \E p \in Prios : \E k \in Places(p)' : data'[p][k] = t
      BY <1>1 DEF NoneLost
    <2>2. \A t \in (pushed' + 1)..MaxTasks : taken'[t] = 0
      BY DEF NoneLost, TypeOK
    <2> QED BY <2>1, <2>2 DEF NoneLost
  <1> QED BY <1>2, <1>3, <1>4

\* The task of one place is taken.
LEMMA OneTaken ==
    ASSUME Constants, TypeOK, PlacesInArray, OnePlaceEach, NoneLost, NEW p \in Prios, NEW k \in Places(p),
           \A q \in Prios : Places(q)' = IF q = p THEN Places(p) \ {k} ELSE Places(q),
           PlacesInArray', data' = data, pushed' = pushed, Published' = Published,
           Published \in 0..pushed,
           taken' = [taken EXCEPT ![data[p][k]] = @ + 1]
    PROVE  taken' \in [Tasks -> {0, 1}] /\ OnePlaceEach' /\ NoneLost'
  <1> DEFINE t == data[p][k]
  <1>0. \A u \in 1..Published : u \in Tasks
    BY DEF TypeOK, Tasks, Constants
  <1>1. t \in 1..Published /\ t \in Tasks /\ taken[t] = 0
    BY <1>0 DEF OnePlaceEach
  <1>2. taken' \in [Tasks -> {0, 1}] /\ taken'[t] = 1 /\ \A u \in Tasks \ {t} : taken'[u] = taken[u]
    BY <1>1 DEF TypeOK
  <1>3. \A q \in Prios : \A l \in Places(q)' : l \in Places(q) /\ data[q][l] # t
    BY DEF OnePlaceEach
  <1>4. \A q \in Prios : \A l \in Places(q) : data[q][l] \in Tasks
    BY <1>0 DEF OnePlaceEach
  <1>5. OnePlaceEach'
    <2>1. \A q \in Prios : \A l \in Places(q)' :
             data'[q][l] \in 1..Published' /\ taken'[data'[q][l]] = 0
      BY <1>2, <1>3, <1>4 DEF OnePlaceEach
    <2>2. \A q \in Prios : \A r \in Prios : \A l \in Places(q)' : \A m \in Places(r)' :
             data'[q][l] = data'[r][m] => q = r /\ l = m
      BY <1>3 DEF OnePlaceEach
    <2> QED BY <2>1, <2>2 DEF OnePlaceEach
  <1>6. NoneLost'
    <2>1. ASSUME NEW u \in 1..Published
          PROVE  taken'[u] = 1 \/ \E q \in Prios : \E l \in Places(q)' : data'[q][l] = u
      <3>1. u \in Tasks
        BY <1>0
      <3>2. CASE taken[u] = 1 \/ u = t
        BY <1>1, <1>2, <3>1, <3>2
      <3>3. CASE taken[u] # 1 /\ u # t
        <4>1. PICK q \in Prios : \E l \in Places(q) : data[q][l] = u
          BY <3>3 DEF NoneLost
        <4>2. PICK l \in Places(q) : data[q][l] = u
          BY <4>1
        <4>3. l \in Places(q)'
          BY <3>3, <4>2
        <4> QED BY <4>2, <4>3
      <3> QED BY <3>2, <3>3
    <2>2. \A u \in (pushed + 1)..MaxTasks : taken'[u] = 0
      BY <1>1, <1>2 DEF NoneLost, Tasks, TypeOK
    <2> QED BY <2>1, <2>2 DEF NoneLost
  <1> QED BY <1>2, <1>5, <1>6

\* A place is a place of the array.
LEMMA PlaceInArray ==
    ASSUME TypeOK, ThiefHasLock, PlacesInArray, NEW p \in Prios, NEW k \in Places(p)
    PROVE  k \in 0..(size[p] - 1)
  <1>1. FirstPlace(p) \in Nat
    BY DEF FirstPlace, TypeOK, ThiefHasLock
  <1>2. EndPlace(p) \in Int /\ size[p] \in Nat /\ EndPlace(p) <= size[p]
    BY HeadTail DEF PlacesInArray, TypeOK
  <1>3. k \in FirstPlace(p)..(EndPlace(p) - 1)
    BY DEF Places
  <1> QED BY <1>1, <1>2, <1>3

\* Published counts pushed tasks.
LEMMA PublishedType ==
    ASSUME TypeOK, OwnerAtTail
    PROVE  Published \in 0..pushed
  BY DEF TypeOK, OwnerAtTail, Published

-----------------------------------------------------------------------------
(* The owner.                                                              *)

\* The thieves and the lock do not change: nor does what ThiefHasLock says.
LEMMA ThiefKept ==
    ASSUME TypeOK, ThiefHasLock, UNCHANGED <<H, lock, thief>>,
           \A p \in Prios : size'[p] \in Nat /\ size'[p] >= size[p]
    PROVE  ThiefHasLock' /\ \A p \in Prios : FirstPlace(p)' = FirstPlace(p)
  <1>1. \A p \in Prios : FirstPlace(p)' = FirstPlace(p)
    BY DEF FirstPlace
  <1>2. ASSUME NEW i \in Thieves, thief[i].pc \in {"execute", "mark"}
        PROVE  thief[i].h < FirstPlace(thief[i].p)' /\ thief[i].h < size'[thief[i].p]
    <2>1. thief[i].p \in Prios /\ thief[i].h \in Nat
      BY DEF TypeOK
    <2>2. thief[i].h < FirstPlace(thief[i].p) /\ thief[i].h < size[thief[i].p]
      BY <1>2 DEF ThiefHasLock
    <2>3. size[thief[i].p] \in Nat /\ size'[thief[i].p] \in Nat /\ size'[thief[i].p] >= size[thief[i].p]
      BY <2>1 DEF TypeOK
    <2> QED BY <1>1, <2>1, <2>2, <2>3
  <1> QED BY <1>1, <1>2 DEF ThiefHasLock

\* The owner begins a push.
LEMMA BeginPushKeeps ==
    ASSUME Constants, QueueInv, BeginPush, ~regrown'
    PROVE  QueueInv'
  <1>1. /\ owner.pc = "idle" /\ pushed < MaxTasks
        /\ UNCHANGED <<T, H, size, data, data0, grown, bitmap, lock, thief, taken, pushed>>
    BY DEF BeginPush
  <1>2. PICK p \in Prios, junk \in 0..MaxTasks :
          IF T[p] < size[p]
          THEN owner' = [IdleOwner EXCEPT !.pc = "write", !.p = p, !.t = T[p]]
          ELSE /\ ~grown[p]
               /\ owner' = [IdleOwner EXCEPT !.pc = "swap", !.p = p, !.t = T[p],
                                             !.copy = Copy(p, junk)]
    <2>1. 0 \in 0..MaxTasks
      BY DEF Constants
    <2> QED BY <2>1 DEF BeginPush
  <1>3. /\ owner' = [pc |-> owner'.pc, p |-> owner'.p, t |-> owner'.t, copy |-> owner'.copy]
        /\ owner'.pc \in {"write", "swap"} /\ owner'.p = p /\ owner'.t = T[p]
    BY <1>2 DEF IdleOwner
  <1>4. T[p] \in Nat /\ size[p] \in Nat
    BY DEF QueueInv, TypeOK
  <1>5. TypeOK'
    BY <1>1, <1>3, <1>4 DEF QueueInv, TypeOK
  <1>6. ThiefHasLock' /\ \A q \in Prios : FirstPlace(q)' = FirstPlace(q)
    BY <1>1, ThiefKept DEF QueueInv, TypeOK
  <1>7. \A q \in Prios : EndPlace(q)' = EndPlace(q) /\ EndPlace(q) = T[q]
    BY <1>1, <1>3 DEF EndPlace
  <1>8. Published' = Published
    BY <1>1, <1>3 DEF Published
  <1>9. PlacesInArray' /\ OnePlaceEach' /\ NoneLost'
    BY <1>1, <1>6, <1>7, <1>8, SamePlaces DEF QueueInv, PlacesInArray, TypeOK
  <1>10. OwnerAtTail'
    <2>1. CASE T[p] < size[p]
      <3>1. owner'.pc = "write"
        BY <1>2, <2>1 DEF IdleOwner
      <3> QED BY <1>1, <1>3, <2>1, <3>1 DEF OwnerAtTail
    <2>2. CASE ~(T[p] < size[p])
      <3> DEFINE new == NewSize(p)
                 c == Copy(p, junk)
      <3>1. owner'.pc = "swap" /\ owner'.copy = c /\ ~grown[p]
        BY <1>2, <2>2 DEF IdleOwner
      <3>2. T[p] = size[p]
        BY <1>4, <1>7, <2>2 DEF QueueInv, PlacesInArray
      <3>3. new \in Nat /\ new > size[p]
        BY <1>4 DEF NewSize, Constants
      <3>4. data[p] \in [0..(size[p] - 1) -> 0..MaxTasks] /\ First(p) = data[p]
        BY <3>1 DEF QueueInv, TypeOK, First
      <3>5. /\ c \in [0..(new - 1) -> 0..MaxTasks]
            /\ \A k \in 0..(size[p] - 1) : k \in 0..(new - 1) => c[k] = data[p][k]
        <4>1. 0 \in 0..MaxTasks /\ DOMAIN First(p) = 0..(size[p] - 1)
          BY <3>4 DEF Constants
        <4> QED BY <1>4, <3>4, <4>1 DEF NoTask, Copy
      <3>6. \A k \in Places(p)' : c[k] = data'[p][k]
        <4>1. \A k \in Places(p)' : k \in 0..(size[p] - 1)
          BY <1>6, <1>7, PlaceInArray DEF QueueInv, Places
        <4> HIDE DEF c
        <4> QED BY <1>1, <1>4, <3>3, <3>5, <4>1
      <3>7. NewSize(p)' = new
        BY <1>1 DEF NewSize
      <3> QED BY <1>1, <1>3, <3>1, <3>2, <3>3, <3>5, <3>6, <3>7 DEF OwnerAtTail
    <2> QED BY <2>1, <2>2
  <1> QED BY <1>5, <1>6, <1>9, <1>10 DEF QueueInv

\* The new array of a full queue is installed.
LEMMA SwapKeeps ==
    ASSUME Constants, QueueInv, Swap
    PROVE  QueueInv'
  <1> DEFINE p == owner.p
             n == NewSize(owner.p)
  <1>1. /\ owner.pc = "swap" /\ lock = Free
        /\ data' = [data EXCEPT ![p] = owner.copy]
        /\ size' = [size EXCEPT ![p] = Cardinality(DOMAIN owner.copy)]
        /\ owner' = [owner EXCEPT !.pc = "write", !.copy = NoArray]
        /\ UNCHANGED <<T, H, bitmap, lock, thief, taken, pushed>>
    BY DEF Swap
  <1>2. /\ p \in Prios /\ T[p] = owner.t /\ owner.t \in Nat /\ pushed < MaxTasks
        /\ owner.copy \in [0..(n - 1) -> 0..MaxTasks] /\ n > owner.t
        /\ \A k \in Places(p) : owner.copy[k] = data[p][k]
    BY <1>1 DEF QueueInv, TypeOK, OwnerAtTail
  <1>3. n \in Nat /\ n >= size[p] /\ size[p] \in Nat
    <2>1. size[p] \in Nat /\ Size0 \in Nat
      BY <1>2 DEF Constants, QueueInv, TypeOK
    <2>2. n = IF size[p] = 0 THEN Size0 ELSE 2 * size[p]
      BY DEF NewSize
    <2> HIDE DEF n, p
    <2> QED BY <2>1, <2>2
  <1>4. Cardinality(DOMAIN owner.copy) = n
    <2>1. DOMAIN owner.copy = 0..(n - 1)
      BY <1>2
    <2>2. 0 \in Int /\ n - 1 \in Int
      BY <1>3
    <2>3. Cardinality(0..(n - 1)) = IF 0 > n - 1 THEN 0 ELSE n - 1 - 0 + 1
      BY <2>2, FS_Interval
    <2> QED BY <1>3, <2>1, <2>3
  <1>5. size' = [size EXCEPT ![p] = n]
    BY <1>1, <1>4
  <1>6. /\ owner' = [pc |-> owner'.pc, p |-> owner'.p, t |-> owner'.t, copy |-> owner'.copy]
        /\ owner'.pc = "write" /\ owner'.p = p /\ owner'.t = owner.t
    BY <1>1 DEF QueueInv, TypeOK
  <1> HIDE DEF p, n
  <1>7. \A q \in Prios : size'[q] \in Nat /\ size'[q] >= size[q]
    <2>1. size \in [Prios -> Nat]
      BY DEF QueueInv, TypeOK
    <2> QED BY <1>2, <1>3, <1>5, <2>1
  <1>8. TypeOK'
    <2>1. DOMAIN data' = Prios
      BY <1>1 DEF QueueInv, TypeOK
    <2>2. ASSUME NEW q \in Prios PROVE data'[q] \in [0..(size'[q] - 1) -> 0..MaxTasks]
      <3>1. CASE q = p
        BY <1>1, <1>2, <1>5, <3>1 DEF QueueInv, TypeOK
      <3>2. CASE q # p
        BY <1>1, <1>5, <3>2 DEF QueueInv, TypeOK
      <3> QED BY <3>1, <3>2
    <2>3. size' \in [Prios -> Nat]
      BY <1>2, <1>3, <1>5 DEF QueueInv, TypeOK
    <2> QED BY <1>1, <1>2, <1>6, <2>1, <2>2, <2>3 DEF QueueInv, TypeOK
  <1>9. ThiefHasLock' /\ \A q \in Prios : FirstPlace(q)' = FirstPlace(q)
    BY <1>1, <1>7, ThiefKept DEF QueueInv
  <1>10. \A q \in Prios : EndPlace(q)' = EndPlace(q)
    BY <1>1, <1>6 DEF EndPlace
  <1>11. Published' = Published
    BY <1>1, <1>6 DEF Published
  <1>12. \A q \in Prios : \A k \in Places(q) : data'[q][k] = data[q][k]
    BY <1>1, <1>2 DEF QueueInv, TypeOK
  <1>13. PlacesInArray' /\ OnePlaceEach' /\ NoneLost'
    BY <1>1, <1>7, <1>9, <1>10, <1>11, <1>12, SamePlaces DEF QueueInv, PlacesInArray
  <1>14. OwnerAtTail'
    BY <1>1, <1>2, <1>3, <1>5, <1>6 DEF OwnerAtTail, QueueInv, TypeOK
  <1> QED BY <1>8, <1>9, <1>13, <1>14 DEF QueueInv

\* The push writes its task.
LEMMA WriteTaskKeeps ==
    ASSUME Constants, QueueInv, WriteTask
    PROVE  QueueInv'
  <1> DEFINE p == owner.p
             t == owner.t
  <1>1. /\ owner.pc = "write"
        /\ data' = [data EXCEPT ![p][t] = pushed + 1]
        /\ bitmap' = bitmap \cup {p} /\ pushed' = pushed + 1
        /\ owner' = [owner EXCEPT !.pc = "publish"]
        /\ UNCHANGED <<T, H, size, lock, thief, taken>>
    BY DEF WriteTask
  <1>2. /\ p \in Prios /\ T[p] = t /\ t \in 0..(size[p] - 1) /\ pushed < MaxTasks
        /\ pushed \in Nat /\ size[p] \in Nat
    BY <1>1 DEF QueueInv, TypeOK, OwnerAtTail
  <1>3. /\ owner' = [pc |-> owner'.pc, p |-> owner'.p, t |-> owner'.t, copy |-> owner'.copy]
        /\ owner'.pc = "publish" /\ owner'.p = p /\ owner'.t = t
    BY <1>1 DEF QueueInv, TypeOK
  <1>4. /\ DOMAIN data' = Prios /\ data'[p][t] = pushed + 1
        /\ \A q \in Prios : data'[q] \in [0..(size[q] - 1) -> 0..MaxTasks]
        /\ \A q \in Prios : \A k \in 0..(size[q] - 1) : q # p \/ k # t => data'[q][k] = data[q][k]
    <2> HIDE DEF p, t
    <2>1. DOMAIN data = Prios /\ \A q \in Prios : data[q] \in [0..(size[q] - 1) -> 0..MaxTasks]
      BY DEF QueueInv, TypeOK
    <2>2. pushed + 1 \in 0..MaxTasks
      BY <1>2 DEF Constants
    <2> QED BY <1>1, <1>2, <2>1, <2>2
  <1> HIDE DEF p, t
  <1>5. TypeOK'
    <2>0. bitmap' \in SUBSET Prios
      BY <1>1, <1>2 DEF QueueInv, TypeOK
    <2>1. pushed' \in 0..MaxTasks
      BY <1>1, <1>2 DEF Constants
    <2>2. owner'.p \in Prios /\ owner'.t \in Nat
      BY <1>2, <1>3
    <2> QED BY <1>1, <1>3, <1>4, <2>0, <2>1, <2>2 DEF QueueInv, TypeOK
  <1>6. ThiefHasLock' /\ \A q \in Prios : FirstPlace(q)' = FirstPlace(q)
    BY <1>1, ThiefKept DEF QueueInv, TypeOK
  <1>7. \A q \in Prios : EndPlace(q)' = EndPlace(q) /\ EndPlace(q) = T[q]
    BY <1>1, <1>3 DEF EndPlace
  <1>8. Published' = Published
    BY <1>1, <1>2, <1>3 DEF Published
  <1>9. \A q \in Prios : \A k \in Places(q) : data'[q][k] = data[q][k]
    <2> SUFFICES ASSUME NEW q \in Prios, NEW k \in Places(q) PROVE data'[q][k] = data[q][k]
      OBVIOUS
    <2>1. k \in 0..(size[q] - 1)
      BY PlaceInArray DEF QueueInv
    <2>2. q = p => k # t
      BY <1>2, <1>7, <2>1 DEF Places, QueueInv, TypeOK
    <2> QED BY <1>4, <2>1, <2>2
  <1>10. PlacesInArray' /\ OnePlaceEach' /\ NoneLost'
    <2>1. \A q \in Prios : FirstPlace(q) < EndPlace(q) => q \in bitmap'
      BY <1>1 DEF QueueInv, PlacesInArray
    <2> QED BY <1>1, <1>6, <1>7, <1>8, <1>9, <2>1, SamePlaces DEF QueueInv, TypeOK
  <1>11. OwnerAtTail'
    <2>1. taken[pushed + 1] = 0
      BY <1>2 DEF QueueInv, NoneLost, Constants
    <2> QED BY <1>1, <1>2, <1>3, <1>4, <2>1 DEF OwnerAtTail
  <1> QED BY <1>5, <1>6, <1>10, <1>11 DEF QueueInv

\* The task written before becomes a place of the queue.
LEMMA PublishKeeps ==
    ASSUME Constants, QueueInv, Publish
    PROVE  QueueInv'
  <1>0. PICK p \in Prios, t \in Nat : p = owner.p /\ t = owner.t
    BY DEF QueueInv, TypeOK
  <1>1. /\ owner.pc = "publish" /\ T' = [T EXCEPT ![p] = t + 1] /\ owner' = IdleOwner
        /\ UNCHANGED <<H, size, data, bitmap, lock, thief, taken, pushed>>
    BY <1>0 DEF Publish
  <1>2. /\ T[p] = t /\ t < size[p] /\ size[p] \in Nat
        /\ pushed \in 1..MaxTasks /\ data[p][t] = pushed /\ taken[pushed] = 0
    BY <1>0, <1>1 DEF QueueInv, TypeOK, OwnerAtTail
  <1>3. /\ owner' = [pc |-> owner'.pc, p |-> owner'.p, t |-> owner'.t, copy |-> owner'.copy]
        /\ owner'.pc = "idle" /\ owner'.p = 0 /\ owner'.t = 0
    BY <1>1 DEF IdleOwner
  <1>4. TypeOK'
    <2>1. T' \in [Prios -> Nat]
      <3>1. T \in [Prios -> Nat] /\ t + 1 \in Nat
        BY DEF QueueInv, TypeOK
      <3> QED BY <1>1, <3>1
    <2>2. owner'.p \in Prios /\ owner'.t \in Nat
      BY <1>3 DEF Constants
    <2> QED BY <1>1, <1>3, <2>1, <2>2 DEF QueueInv, TypeOK
  <1>5. ThiefHasLock' /\ \A q \in Prios : FirstPlace(q)' = FirstPlace(q)
    BY <1>1, ThiefKept DEF QueueInv, TypeOK
  <1>6. \A q \in Prios : EndPlace(q) = T[q] /\ EndPlace(q)' = IF q = p THEN t + 1 ELSE T[q]
    BY <1>1, <1>2, <1>3 DEF EndPlace, QueueInv, TypeOK
  <1>7. OwnerAtTail'
    BY <1>3 DEF OwnerAtTail
  <1>8. PlacesInArray'
    <2>1. p \in bitmap
      BY <1>0, <1>1 DEF QueueInv, OwnerAtTail
    <2> SUFFICES ASSUME NEW q \in Prios
                 PROVE  /\ FirstPlace(q)' <= EndPlace(q)' /\ EndPlace(q)' <= size[q]
                        /\ FirstPlace(q)' < EndPlace(q)' => q \in bitmap
      BY <1>1 DEF PlacesInArray
    <2>2. /\ FirstPlace(q) <= EndPlace(q) /\ EndPlace(q) <= size[q]
          /\ FirstPlace(q) < EndPlace(q) => q \in bitmap
          /\ FirstPlace(q) \in Int /\ EndPlace(q) \in Int
      BY HeadTail DEF QueueInv, PlacesInArray
    <2> QED BY <1>2, <1>5, <1>6, <2>1, <2>2
  <1>9. \A q \in Prios : Places(q)' = IF q = p THEN Places(q) \cup {t} ELSE Places(q)
    <2> SUFFICES ASSUME NEW q \in Prios
                 PROVE  Places(q)' = IF q = p THEN Places(q) \cup {t} ELSE Places(q)
      OBVIOUS
    <2>1. CASE q = p
      <3>1. FirstPlace(p) \in Int /\ FirstPlace(p) <= t /\ EndPlace(p) = t /\ EndPlace(p)' = t + 1
        BY <1>2, <1>6, HeadTail DEF QueueInv, PlacesInArray
      <3>2. FirstPlace(p)..(t + 1 - 1) = (FirstPlace(p)..(t - 1)) \cup {t}
        BY <1>2, <3>1
      <3> QED BY <1>5, <2>1, <3>1, <3>2 DEF Places
    <2>2. CASE q # p
      BY <1>5, <1>6, <2>2 DEF Places
    <2> QED BY <2>1, <2>2
  <1>10. Published = pushed - 1 /\ Published' = pushed
    BY <1>1, <1>3 DEF Published
  <1>11. \A q \in Prios : \A k \in Places(q) :
            data[q][k] \in 1..(pushed - 1) /\ taken[data[q][k]] = 0
    BY <1>10 DEF QueueInv, OnePlaceEach
  <1>12. \A q \in Prios : \A k \in Places(q)' :
            \/ k \in Places(q)
            \/ q = p /\ k = t
    BY <1>9
  <1>13. OnePlaceEach'
    <2>1. \A q \in Prios : \A k \in Places(q)' :
             data'[q][k] \in 1..Published' /\ taken'[data'[q][k]] = 0
      BY <1>1, <1>2, <1>10, <1>11, <1>12
    <2>2. ASSUME NEW q \in Prios, NEW r \in Prios, NEW k \in Places(q)', NEW l \in Places(r)',
                 data[q][k] = data[r][l]
          PROVE  q = r /\ k = l
      <3>1. CASE k \in Places(q) /\ l \in Places(r)
        BY <2>2, <3>1 DEF QueueInv, OnePlaceEach
      <3>2. CASE k \notin Places(q)
        <4>1. q = p /\ k = t
          BY <1>12, <2>2, <3>2
        <4>2. data[r][l] = pushed /\ pushed \notin 1..(pushed - 1)
          BY <1>2, <2>2, <4>1
        <4>3. l \notin Places(r)
          BY <1>11, <4>2
        <4> QED BY <1>12, <4>1, <4>3
      <3>3. CASE l \notin Places(r)
        <4>1. r = p /\ l = t
          BY <1>12, <2>2, <3>3
        <4>2. data[q][k] = pushed /\ pushed \notin 1..(pushed - 1)
          BY <1>2, <2>2, <4>1
        <4>3. k \notin Places(q)
          BY <1>11, <4>2
        <4> QED BY <1>12, <4>1, <4>3
      <3> QED BY <3>1, <3>2, <3>3
    <2> QED BY <1>1, <2>1, <2>2 DEF OnePlaceEach
  <1>14. NoneLost'
    <2>1. ASSUME NEW u \in 1..pushed
          PROVE  taken[u] = 1 \/ \E q \in Prios : \E k \in Places(q)' : data[q][k] = u
      <3>1. CASE u = pushed
        <4>1. t \in Places(p)' /\ data[p][t] = u
          BY <1>2, <1>9, <3>1
        <4> QED BY <1>2, <4>1
      <3>2. CASE u # pushed
        <4>1. u \in 1..Published
          BY <1>2, <1>10, <3>2
        <4> QED BY <1>9, <4>1 DEF QueueInv, NoneLost
      <3> QED BY <3>1, <3>2
    <2> QED BY <1>1, <1>10, <2>1 DEF QueueInv, NoneLost
  <1> QED BY <1>4, <1>5, <1>7, <1>8, <1>13, <1>14 DEF QueueInv

\* The owner begins a pop.
LEMMA BeginPopKeeps ==
    ASSUME Constants, QueueInv, BeginPop
    PROVE  QueueInv'
  <1>1. /\ owner.pc = "idle"
        /\ UNCHANGED <<H, size, data, bitmap, lock, thief, taken, pushed>>
    BY DEF BeginPop
  <1>2. PICK p \in bitmap :
          /\ T[p] # 0 /\ T' = [T EXCEPT ![p] = @ - 1]
          /\ owner' = [IdleOwner EXCEPT !.pc = "check", !.p = p, !.t = T[p] - 1]
    BY DEF BeginPop
  <1>3. /\ p \in Prios /\ T[p] \in Nat \ {0} /\ T[p] - 1 \in Nat
        /\ T' \in [Prios -> Nat]
        /\ \A q \in Prios : T'[q] = IF q = p THEN T[p] - 1 ELSE T[q]
    <2>1. p \in Prios /\ T \in [Prios -> Nat]
      BY DEF QueueInv, TypeOK
    <2>2. T[p] \in Nat \ {0} /\ T[p] - 1 \in Nat
      BY <1>2, <2>1
    <2> QED BY <1>2, <2>1, <2>2
  <1>4. /\ owner' = [pc |-> owner'.pc, p |-> owner'.p, t |-> owner'.t, copy |-> owner'.copy]
        /\ owner'.pc = "check" /\ owner'.p = p /\ owner'.t = T[p] - 1
    BY <1>2 DEF IdleOwner
  <1>5. TypeOK'
    BY <1>1, <1>3, <1>4 DEF QueueInv, TypeOK
  <1>6. ThiefHasLock' /\ \A q \in Prios : FirstPlace(q)' = FirstPlace(q)
    BY <1>1, ThiefKept DEF QueueInv, TypeOK
  <1>7. \A q \in Prios : EndPlace(q)' = EndPlace(q)
    BY <1>1, <1>3, <1>4 DEF EndPlace
  <1>8. Published' = Published
    BY <1>1, <1>4 DEF Published
  <1>9. PlacesInArray' /\ OnePlaceEach' /\ NoneLost'
    BY <1>1, <1>6, <1>7, <1>8, SamePlaces DEF QueueInv, PlacesInArray, TypeOK
  <1>10. OwnerAtTail'
    BY <1>3, <1>4 DEF OwnerAtTail
  <1> QED BY <1>5, <1>6, <1>9, <1>10 DEF QueueInv

\* A place holds a task.
LEMMA PlaceHasTask ==
    ASSUME Constants, QueueInv, NEW p \in Prios, NEW k \in Places(p)
    PROVE  data[p][k] # NoTask
  <1>1. data[p][k] \in 1..Published /\ Published \in 0..pushed
    BY PublishedType DEF QueueInv, OnePlaceEach
  <1>2. pushed \in 0..MaxTasks
    BY DEF QueueInv, TypeOK
  <1> QED BY <1>1, <1>2 DEF NoTask, Constants

\* The owner takes the task at its tail: without a lock when no thief can be at
\* it, or under the lock.
LEMMA OwnerTakes ==
    ASSUME Constants, QueueInv, NEW p \in Prios, NEW t \in Nat,
           owner.pc \in {"check", "lock"}, p = owner.p,
           EndPlace(p) = t + 1, t >= H[p], T' = [T EXCEPT ![p] = t], Take(data[p][t]),
           UNCHANGED <<H, size, data, bitmap, lock, thief, pushed>>
    PROVE  QueueInv'
  <1>1. FirstPlace(p) \in Int /\ FirstPlace(p) <= t
    BY HeadTail DEF FirstPlace, QueueInv, TypeOK
  <1>2. t \in Places(p)
    BY <1>1 DEF Places
  <1>3. Count(data[p][t]) /\ owner' = IdleOwner
    BY <1>2, PlaceHasTask DEF Take
  <1>4. /\ owner' = [pc |-> owner'.pc, p |-> owner'.p, t |-> owner'.t, copy |-> owner'.copy]
        /\ owner'.pc = "idle" /\ owner'.p = 0 /\ owner'.t = 0
    BY <1>3 DEF IdleOwner
  <1>5. ThiefHasLock' /\ \A q \in Prios : FirstPlace(q)' = FirstPlace(q)
    BY ThiefKept DEF QueueInv, TypeOK
  <1>6. /\ T' \in [Prios -> Nat]
        /\ \A q \in Prios : EndPlace(q)' = IF q = p THEN t ELSE EndPlace(q)
    BY <1>4 DEF EndPlace, QueueInv, TypeOK
  <1>7. \A q \in Prios : Places(q)' = IF q = p THEN Places(p) \ {t} ELSE Places(q)
    <2> SUFFICES ASSUME NEW q \in Prios
                 PROVE  Places(q)' = IF q = p THEN Places(p) \ {t} ELSE Places(q)
      OBVIOUS
    <2>1. CASE q = p
      <3>1. FirstPlace(p)..(t - 1) = (FirstPlace(p)..(t + 1 - 1)) \ {t}
        BY <1>1
      <3> QED BY <1>5, <1>6, <2>1, <3>1 DEF Places
    <2>2. CASE q # p
      BY <1>5, <1>6, <2>2 DEF Places
    <2> QED BY <2>1, <2>2
  <1>8. PlacesInArray'
    <2> SUFFICES ASSUME NEW q \in Prios
                 PROVE  /\ FirstPlace(q)' <= EndPlace(q)' /\ EndPlace(q)' <= size[q]
                        /\ FirstPlace(q)' < EndPlace(q)' => q \in bitmap
      BY DEF PlacesInArray
    <2>1. /\ FirstPlace(q) <= EndPlace(q) /\ EndPlace(q) <= size[q] /\ size[q] \in Nat
          /\ FirstPlace(q) < EndPlace(q) => q \in bitmap
          /\ FirstPlace(q) \in Int /\ EndPlace(q) \in Int
      BY HeadTail DEF QueueInv, PlacesInArray, TypeOK
    <2> QED BY <1>1, <1>5, <1>6, <2>1
  <1>9. Published' = Published
    BY <1>4 DEF Published
  <1>10. taken' \in [Tasks -> {0, 1}] /\ OnePlaceEach' /\ NoneLost'
    BY <1>3, <1>2, <1>7, <1>8, <1>9, OneTaken, PublishedType DEF Count, QueueInv
  <1>11. TypeOK'
    <2>1. owner'.p \in Prios /\ owner'.t \in Nat
      BY <1>4 DEF Constants
    <2> QED BY <1>4, <1>6, <1>10, <2>1 DEF QueueInv, TypeOK
  <1>12. OwnerAtTail'
    BY <1>4 DEF OwnerAtTail
  <1> QED BY <1>5, <1>8, <1>10, <1>11, <1>12 DEF QueueInv

\* The owner moves on: neither the tail that counts nor an array changes.
LEMMA OwnerMoves ==
    ASSUME Constants, QueueInv,
           owner.pc \in {"check", "rollback", "lock", "empty"},
           owner' = [owner EXCEPT !.pc = owner'.pc] \/ owner' = IdleOwner,
           owner'.pc \in {"rollback", "lock", "empty", "idle"},
           T' \in [Prios -> Nat], \A q \in Prios : EndPlace(q)' = EndPlace(q),
           bitmap' \in SUBSET Prios, \A q \in Prios : FirstPlace(q) < EndPlace(q) => q \in bitmap',
           UNCHANGED <<H, size, data, lock, thief, taken, pushed>>, OwnerAtTail'
    PROVE  QueueInv'
  <1>1. /\ owner' = [pc |-> owner'.pc, p |-> owner'.p, t |-> owner'.t, copy |-> owner'.copy]
        /\ owner'.p \in Prios /\ owner'.t \in Nat
    <2>1. CASE owner' = IdleOwner
      BY <2>1 DEF IdleOwner, Constants
    <2>2. CASE owner' = [owner EXCEPT !.pc = owner'.pc]
      <3>1. PICK o : o = owner'.pc
        OBVIOUS
      <3>2. owner' = [owner EXCEPT !.pc = o]
        BY <2>2, <3>1
      <3> QED BY <3>2 DEF QueueInv, TypeOK
    <2> QED BY <2>1, <2>2
  <1>2. TypeOK'
    BY <1>1 DEF QueueInv, TypeOK
  <1>3. ThiefHasLock' /\ \A q \in Prios : FirstPlace(q)' = FirstPlace(q)
    BY ThiefKept DEF QueueInv, TypeOK
  <1>4. Published' = Published
    BY DEF Published
  <1>5. PlacesInArray' /\ OnePlaceEach' /\ NoneLost'
    BY <1>3, <1>4, SamePlaces DEF QueueInv, TypeOK
  <1> QED BY <1>2, <1>3, <1>5 DEF QueueInv

\* The pop compares the two ends.
LEMMA CheckKeeps ==
    ASSUME Constants, QueueInv, Check
    PROVE  QueueInv'
  <1>0. PICK p \in Prios, t \in Nat : p = owner.p /\ t = owner.t
    BY DEF QueueInv, TypeOK
  <1>1. /\ owner.pc = "check" /\ UNCHANGED <<T, H, size, data, bitmap, lock, thief, pushed>>
        /\ T[p] = t /\ T \in [Prios -> Nat] /\ EndPlace(p) = t + 1
    BY <1>0 DEF Check, QueueInv, TypeOK, OwnerAtTail, EndPlace
  <1>2. CASE NoConflict
    <2>1. t >= H[p] /\ Take(data[p][t])
      BY <1>0, <1>2 DEF Check, NoConflict
    <2>2. T' = [T EXCEPT ![p] = t]
      BY <1>1
    <2> QED BY <1>0, <1>1, <2>1, <2>2, OwnerTakes
  <1>3. CASE ~NoConflict
    <2>1. owner' = [owner EXCEPT !.pc = "rollback"] /\ taken' = taken
      BY <1>3 DEF Check
    <2>2. owner'.pc = "rollback" /\ owner'.p = p /\ owner'.t = t
      BY <1>0, <2>1 DEF QueueInv, TypeOK
    <2>3. \A q \in Prios : EndPlace(q)' = EndPlace(q)
      BY <1>0, <1>1, <2>2 DEF EndPlace
    <2>4. OwnerAtTail'
      BY <1>1, <2>2 DEF OwnerAtTail
    <2> QED BY <1>1, <2>1, <2>2, <2>3, <2>4, OwnerMoves DEF QueueInv, TypeOK, PlacesInArray
  <1> QED BY <1>2, <1>3

\* The pop that met a thief moves the tail back.
LEMMA RollBackKeeps ==
    ASSUME Constants, QueueInv, RollBack
    PROVE  QueueInv'
  <1>0. PICK p \in Prios, t \in Nat : p = owner.p /\ t = owner.t
    BY DEF QueueInv, TypeOK
  <1>1. /\ owner.pc = "rollback" /\ T' = [T EXCEPT ![p] = t + 1]
        /\ owner' = [owner EXCEPT !.pc = "lock"]
        /\ UNCHANGED <<H, size, data, bitmap, lock, thief, taken, pushed>>
    BY <1>0 DEF RollBack
  <1>2. owner'.pc = "lock" /\ owner'.p = p
    BY <1>0, <1>1 DEF QueueInv, TypeOK
  <1>3. T' \in [Prios -> Nat] /\ T'[p] = t + 1
    BY <1>1 DEF QueueInv, TypeOK
  <1>4. \A q \in Prios : EndPlace(q)' = EndPlace(q)
    BY <1>0, <1>1, <1>2 DEF EndPlace, QueueInv, TypeOK
  <1>5. OwnerAtTail'
    BY <1>2, <1>3 DEF OwnerAtTail
  <1> QED BY <1>1, <1>2, <1>3, <1>4, <1>5, OwnerMoves DEF QueueInv, TypeOK, PlacesInArray

\* The pop that met a thief tries again under the lock.
LEMMA LockedPopKeeps ==
    ASSUME Constants, QueueInv, LockedPop
    PROVE  QueueInv'
  <1>0. PICK p \in Prios : p = owner.p
    BY DEF QueueInv, TypeOK
  <1>1. /\ owner.pc = "lock" /\ lock = Free
        /\ UNCHANGED <<H, size, data, bitmap, lock, thief, pushed>>
        /\ T \in [Prios -> Nat] /\ H \in [Prios -> Nat] /\ T[p] > 0
    BY <1>0 DEF LockedPop, QueueInv, TypeOK, OwnerAtTail
  <1>2. /\ T[p] - 1 \in Nat /\ FirstPlace(p) = H[p]
        /\ \A q \in Prios : EndPlace(q) = T[q]
    BY <1>1 DEF EndPlace, FirstPlace
  <1>3. CASE T[p] - 1 >= H[p]
    <2>1. T' = [T EXCEPT ![p] = T[p] - 1] /\ Take(data[p][T[p] - 1])
      BY <1>0, <1>3 DEF LockedPop
    <2>2. PICK t \in Nat : t = T[p] - 1
      BY <1>2
    <2>3. EndPlace(p) = t + 1
      BY <1>1, <1>2, <2>2
    <2> QED BY <1>0, <1>1, <1>3, <2>1, <2>2, <2>3, OwnerTakes
  <1>4. CASE ~(T[p] - 1 >= H[p])
    <2>1. owner' = [owner EXCEPT !.pc = "empty"] /\ T' = T /\ taken' = taken
      BY <1>0, <1>4 DEF LockedPop
    <2>2. owner'.pc = "empty" /\ owner'.p = p
      BY <1>0, <2>1 DEF QueueInv, TypeOK
    <2>3. \A q \in Prios : EndPlace(q)' = EndPlace(q) /\ FirstPlace(q)' = FirstPlace(q)
      BY <1>1, <1>2, <2>1, <2>2 DEF EndPlace, FirstPlace
    <2>4. FirstPlace(p) >= EndPlace(p)
      <3>1. T[p] \in Nat /\ H[p] \in Nat
        BY <1>1
      <3> QED BY <1>2, <1>4, <3>1
    <2>5. (FirstPlace(owner.p) >= EndPlace(owner.p))'
      BY <2>2, <2>3, <2>4
    <2>6. OwnerAtTail'
      BY <2>2, <2>5 DEF OwnerAtTail
    <2> QED BY <1>1, <2>1, <2>2, <2>3, <2>6, OwnerMoves DEF QueueInv, TypeOK, PlacesInArray
  <1> QED BY <1>3, <1>4

\* The pop clears the bit of an empty priority.
LEMMA ClearBitKeeps ==
    ASSUME Constants, QueueInv, ClearBit
    PROVE  QueueInv'
  <1>1. /\ owner.pc = "empty" /\ bitmap' = bitmap \ {owner.p} /\ owner' = IdleOwner
        /\ UNCHANGED <<T, H, size, data, lock, thief, taken, pushed>>
    BY DEF ClearBit
  <1>2. owner'.pc = "idle"
    BY <1>1 DEF IdleOwner
  <1>3. \A q \in Prios : EndPlace(q)' = EndPlace(q)
    BY <1>1, <1>2 DEF EndPlace
  <1>4. \A q \in Prios : FirstPlace(q) < EndPlace(q) => q \in bitmap'
    <2>1. owner.p \in Prios /\ FirstPlace(owner.p) >= EndPlace(owner.p)
      BY <1>1 DEF QueueInv, TypeOK, OwnerAtTail
    <2>2. FirstPlace(owner.p) \in Int /\ EndPlace(owner.p) \in Int
      BY <2>1, HeadTail DEF QueueInv
    <2> QED BY <1>1, <2>1, <2>2 DEF QueueInv, PlacesInArray
  <1>5. OwnerAtTail'
    BY <1>2 DEF OwnerAtTail
  <1> QED BY <1>1, <1>2, <1>3, <1>4, <1>5, OwnerMoves DEF QueueInv, TypeOK

-----------------------------------------------------------------------------
(* The thieves.                                                            *)

\* A step of a thief that takes nothing: the heads that count do not move, nor
\* do the places of the queues.
LEMMA ThiefMoves ==
    ASSUME Constants, QueueInv, UNCHANGED <<T, size, bitmap, owner, taken, pushed>>,
           TypeOK', ThiefHasLock', \A q \in Prios : FirstPlace(q)' = FirstPlace(q),
           \A q \in Prios : \A k \in FirstPlace(q)..T[q] : k \in 0..(size[q] - 1) => data'[q][k] = data[q][k]
    PROVE  QueueInv'
  <1>1. \A q \in Prios : EndPlace(q)' = EndPlace(q)
    BY DEF EndPlace
  <1>2. Published' = Published
    BY DEF Published
  <1>3. \A q \in Prios : \A k \in Places(q) : data'[q][k] = data[q][k]
    <2> SUFFICES ASSUME NEW q \in Prios, NEW k \in Places(q) PROVE data'[q][k] = data[q][k]
      OBVIOUS
    <2>1. k \in 0..(size[q] - 1)
      BY PlaceInArray DEF QueueInv
    <2>2. k \in FirstPlace(q)..T[q]
      <3>1. T[q] \in Nat /\ (EndPlace(q) = T[q] \/ EndPlace(q) = T[q] + 1) /\ FirstPlace(q) \in Int
        BY HeadTail DEF EndPlace, QueueInv, TypeOK, OwnerAtTail
      <3> QED BY <3>1 DEF Places
    <2> QED BY <2>1, <2>2
  <1>4. PlacesInArray' /\ OnePlaceEach' /\ NoneLost'
    BY <1>1, <1>2, <1>3, SamePlaces DEF QueueInv, TypeOK, PlacesInArray
  <1>5. OwnerAtTail'
    <2> PICK p \in Prios, t \in Nat : p = owner.p /\ t = owner.t
      BY DEF QueueInv, TypeOK
    <2>1. owner.pc = "publish" => data'[p][t] = pushed
      <3>1. CASE owner.pc = "publish"
        <4>1. T[p] = t /\ t \in 0..(size[p] - 1) /\ EndPlace(p) = t /\ data[p][t] = pushed
          BY <3>1 DEF QueueInv, OwnerAtTail, EndPlace, TypeOK
        <4>2. t \in FirstPlace(p)..T[p]
          BY <4>1, HeadTail DEF QueueInv, PlacesInArray
        <4> QED BY <4>1, <4>2
      <3> QED BY <3>1
    <2>2. Places(p)' = Places(p)
      BY <1>1 DEF Places
    <2>3. owner.pc = "swap" => \A k \in Places(p)' : owner.copy[k] = data'[p][k]
      BY <1>3, <2>2 DEF QueueInv, OwnerAtTail
    <2>4. NewSize(p)' = NewSize(p)
      BY DEF NewSize
    <2>5. owner.pc = "empty" => FirstPlace(p)' >= EndPlace(p)'
      BY <1>1 DEF QueueInv, OwnerAtTail
    <2> QED BY <2>1, <2>3, <2>4, <2>5 DEF OwnerAtTail, QueueInv
  <1> QED BY <1>4, <1>5 DEF QueueInv

\* One thief moves: the others do not hold the lock, or nothing changes for
\* them; what is asked of the thief itself is left to the step.
LEMMA ThiefStep ==
    ASSUME Constants, QueueInv, NEW i \in Thieves,
           \A j \in Thieves \ {i} : thief'[j] = thief[j] /\ (lock' = j <=> lock = j),
           lock \in {Free, i} \/ H' = H, size' = size,
           \A q \in Prios : FirstPlace(q)' \in Int /\ FirstPlace(q)' >= FirstPlace(q),
           (/\ thief[i].pc \in {"claim", "look", "undo"} <=> lock = i
            /\ thief[i].pc \in {"look", "undo"} => H[thief[i].p] = thief[i].h + 1
            /\ thief[i].pc \in {"execute", "mark"} => thief[i].h < FirstPlace(thief[i].p)
                                          /\ thief[i].h < size[thief[i].p])'
    PROVE  ThiefHasLock'
  <1>1. ASSUME NEW j \in Thieves \ {i}
        PROVE  /\ thief[j].pc \in {"claim", "look", "undo"} <=> lock' = j
               /\ thief[j].pc \in {"look", "undo"} => H'[thief[j].p] = thief[j].h + 1
               /\ thief[j].pc \in {"execute", "mark"} => thief[j].h < FirstPlace(thief[j].p)'
                                             /\ thief[j].h < size[thief[j].p]
    <2>1. /\ thief[j].pc \in {"claim", "look", "undo"} <=> lock = j
          /\ thief[j].pc \in {"look", "undo"} => H[thief[j].p] = thief[j].h + 1
          /\ thief[j].pc \in {"execute", "mark"} => thief[j].h < FirstPlace(thief[j].p)
                                        /\ thief[j].h < size[thief[j].p]
      BY DEF QueueInv, ThiefHasLock
    <2>2. thief[j].p \in Prios /\ thief[j].h \in Nat /\ lock = j => lock # Free
      BY DEF QueueInv, TypeOK, Constants
    <2>3. FirstPlace(thief[j].p) \in Int
      BY <2>2, HeadTail DEF QueueInv, TypeOK
    <2>4. thief[j].p \in Prios /\ thief[j].h \in Nat
      BY DEF QueueInv, TypeOK
    <2>5. thief[j].pc \in {"execute", "mark"} => thief[j].h < FirstPlace(thief[j].p)'
      BY <2>1, <2>3, <2>4
    <2>6. thief[j].pc \in {"look", "undo"} => H' = H
      BY <2>1 DEF Constants
    <2> QED BY <2>1, <2>5, <2>6
  <1> QED BY <1>1 DEF ThiefHasLock

\* A thief begins a steal.
LEMMA BeginStealKeeps ==
    ASSUME Constants, QueueInv, NEW i \in Thieves, BeginSteal(i)
    PROVE  QueueInv'
  <1>1. /\ thief[i].pc = "idle" /\ lock = Free /\ lock' = i
        /\ thief' = [thief EXCEPT ![i] = [IdleThief EXCEPT !.pc = "claim", !.bits = bitmap]]
        /\ UNCHANGED <<T, H, size, data, bitmap, owner, taken, pushed>>
    BY DEF BeginSteal
  <1>2. /\ thief'[i].pc = "claim" /\ \A j \in Thieves \ {i} : thief'[j] = thief[j]
        /\ thief' \in [Thieves -> [pc : {"idle", "claim", "look", "undo", "execute", "mark"},
                                   p : Prios, h : Nat, bits : SUBSET Prios, n : Nat]]
    BY <1>1 DEF QueueInv, TypeOK, IdleThief, Constants
  <1>3. TypeOK'
    BY <1>1, <1>2 DEF QueueInv, TypeOK
  <1>4. \A q \in Prios : FirstPlace(q)' = FirstPlace(q)
    BY <1>1, <1>2 DEF FirstPlace
  <1>5. ThiefHasLock'
    <2>1. (/\ thief[i].pc \in {"claim", "look", "undo"} <=> lock = i
           /\ thief[i].pc \in {"look", "undo"} => H[thief[i].p] = thief[i].h + 1
           /\ thief[i].pc \in {"execute", "mark"} => thief[i].h < FirstPlace(thief[i].p)
                                         /\ thief[i].h < size[thief[i].p])'
      BY <1>1, <1>2
    <2>2. \A j \in Thieves \ {i} : thief'[j] = thief[j] /\ (lock' = j <=> lock = j)
      BY <1>1, <1>2 DEF Constants
    <2>3. \A q \in Prios : FirstPlace(q)' \in Int /\ FirstPlace(q)' >= FirstPlace(q)
      BY <1>4, HeadTail DEF QueueInv
    <2> QED BY <1>1, <2>1, <2>2, <2>3, ThiefStep
  <1> QED BY <1>1, <1>3, <1>4, <1>5, ThiefMoves

\* The thief moves the head of the queue.
LEMMA ClaimKeeps ==
    ASSUME Constants, QueueInv, NEW i \in Thieves, Claim(i)
    PROVE  QueueInv'
  <1>1. PICK p \in Prios :
          /\ H' = [H EXCEPT ![p] = @ + 1]
          /\ thief' = [thief EXCEPT ![i].pc = "look", ![i].p = p, ![i].h = H[p]]
    BY DEF Claim, QueueInv, TypeOK
  <1>2. /\ thief[i].pc = "claim" /\ lock = i /\ i # Free
        /\ UNCHANGED <<T, size, data, bitmap, lock, owner, taken, pushed>>
    BY DEF Claim, QueueInv, ThiefHasLock, Constants
  <1>3. /\ H[p] \in Nat /\ H' \in [Prios -> Nat]
        /\ \A q \in Prios : H'[q] = IF q = p THEN H[p] + 1 ELSE H[q]
    <2>1. H \in [Prios -> Nat]
      BY DEF QueueInv, TypeOK
    <2> QED BY <1>1, <2>1
  <1>4. /\ thief'[i].pc = "look" /\ thief'[i].p = p /\ thief'[i].h = H[p]
        /\ \A j \in Thieves \ {i} : thief'[j] = thief[j]
        /\ thief' \in [Thieves -> [pc : {"idle", "claim", "look", "undo", "execute", "mark"},
                                   p : Prios, h : Nat, bits : SUBSET Prios, n : Nat]]
    <2> DEFINE r == [thief[i] EXCEPT !.pc = "look", !.p = p, !.h = H[p]]
    <2>1. /\ r \in [pc : {"idle", "claim", "look", "undo", "execute", "mark"},
                   p : Prios, h : Nat, bits : SUBSET Prios, n : Nat]
          /\ r.pc = "look" /\ r.p = p /\ r.h = H[p]
      <3>1. thief[i] \in [pc : {"idle", "claim", "look", "undo", "execute", "mark"},
                         p : Prios, h : Nat, bits : SUBSET Prios, n : Nat]
        BY DEF QueueInv, TypeOK
      <3> QED BY <1>3, <3>1
    <2>2. thief' = [thief EXCEPT ![i] = r]
      BY <1>1
    <2> HIDE DEF r
    <2> QED BY <2>1, <2>2 DEF QueueInv, TypeOK
  <1>5. TypeOK'
    BY <1>2, <1>3, <1>4 DEF QueueInv, TypeOK
  <1>6. \A q \in Prios : FirstPlace(q)' = FirstPlace(q)
    BY <1>2, <1>3, <1>4 DEF FirstPlace
  <1>7. ThiefHasLock'
    <2>1. (/\ thief[i].pc \in {"claim", "look", "undo"} <=> lock = i
           /\ thief[i].pc \in {"look", "undo"} => H[thief[i].p] = thief[i].h + 1
           /\ thief[i].pc \in {"execute", "mark"} => thief[i].h < FirstPlace(thief[i].p)
                                         /\ thief[i].h < size[thief[i].p])'
      BY <1>2, <1>3, <1>4
    <2>2. \A j \in Thieves \ {i} : thief'[j] = thief[j] /\ (lock' = j <=> lock = j)
      BY <1>2, <1>4
    <2>3. \A q \in Prios : FirstPlace(q)' \in Int /\ FirstPlace(q)' >= FirstPlace(q)
      BY <1>6, HeadTail DEF QueueInv
    <2> QED BY <1>2, <2>1, <2>2, <2>3, ThiefStep
  <1> QED BY <1>2, <1>5, <1>6, <1>7, ThiefMoves

\* The thief that met the owner moves the head back.
LEMMA UndoKeeps ==
    ASSUME Constants, QueueInv, NEW i \in Thieves, Undo(i)
    PROVE  QueueInv'
  <1>1. PICK p \in Prios : p = thief[i].p
    BY DEF QueueInv, TypeOK
  <1>2. /\ thief[i].pc = "undo" /\ lock = i /\ i # Free /\ H' = [H EXCEPT ![p] = thief[i].h]
        /\ H[p] = thief[i].h + 1 /\ thief[i].h \in Nat
        /\ UNCHANGED <<T, size, data, bitmap, owner, taken, pushed>>
    BY <1>1 DEF Undo, QueueInv, TypeOK, ThiefHasLock, Constants
  <1>3. /\ H' \in [Prios -> Nat]
        /\ \A q \in Prios : H'[q] = IF q = p THEN H[p] - 1 ELSE H[q]
    <2>1. H \in [Prios -> Nat] /\ thief[i].h = H[p] - 1
      <3>1. H \in [Prios -> Nat]
        BY DEF QueueInv, TypeOK
      <3>2. H[p] \in Nat
        BY <3>1
      <3> QED BY <1>2, <3>1, <3>2
    <2> QED BY <1>2, <2>1
  <1>4. /\ \/ thief'[i].pc = "idle" /\ lock' = Free
           \/ thief'[i].pc = "claim" /\ lock' = lock
        /\ \A j \in Thieves \ {i} : thief'[j] = thief[j]
        /\ thief' \in [Thieves -> [pc : {"idle", "claim", "look", "undo", "execute", "mark"},
                                   p : Prios, h : Nat, bits : SUBSET Prios, n : Nat]]
    <2>1. thief[i].bits \ {thief[i].p} \in SUBSET Prios
      BY DEF QueueInv, TypeOK
    <2>2. CASE thief[i].bits \ {thief[i].p} = {}
      <3>1. thief' = [thief EXCEPT ![i] = IdleThief] /\ lock' = Free
        BY <2>2 DEF Undo, NextBit
      <3> QED BY <3>1 DEF QueueInv, TypeOK, IdleThief, Constants
    <2>3. CASE thief[i].bits \ {thief[i].p} # {}
      <3>1. /\ thief' = [thief EXCEPT ![i] = [IdleThief EXCEPT !.pc = "claim",
                                                !.bits = thief[i].bits \ {thief[i].p}]]
            /\ lock' = lock
        BY <2>3 DEF Undo, NextBit
      <3> QED BY <2>1, <3>1 DEF QueueInv, TypeOK, IdleThief, Constants
    <2> QED BY <2>2, <2>3
  <1>5. TypeOK'
    BY <1>2, <1>3, <1>4 DEF QueueInv, TypeOK
  <1>6. \A q \in Prios : FirstPlace(q)' = FirstPlace(q)
    BY <1>1, <1>2, <1>3, <1>4 DEF FirstPlace
  <1>7. ThiefHasLock'
    <2>1. (/\ thief[i].pc \in {"claim", "look", "undo"} <=> lock = i
           /\ thief[i].pc \in {"look", "undo"} => H[thief[i].p] = thief[i].h + 1
           /\ thief[i].pc \in {"execute", "mark"} => thief[i].h < FirstPlace(thief[i].p)
                                         /\ thief[i].h < size[thief[i].p])'
      BY <1>2, <1>3, <1>4 DEF Constants
    <2>2. \A j \in Thieves \ {i} : thief'[j] = thief[j] /\ (lock' = j <=> lock = j)
      BY <1>2, <1>4 DEF Constants
    <2>3. \A q \in Prios : FirstPlace(q)' \in Int /\ FirstPlace(q)' >= FirstPlace(q)
      BY <1>6, HeadTail DEF QueueInv
    <2> QED BY <1>2, <2>1, <2>2, <2>3, ThiefStep
  <1> QED BY <1>2, <1>5, <1>6, <1>7, ThiefMoves

\* The thief has executed the task and reads the address of the array.
LEMMA LoadArrayKeeps ==
    ASSUME Constants, QueueInv, NEW i \in Thieves, LoadArray(i)
    PROVE  QueueInv'
  <1>1. PICK p \in Prios, h \in Nat, n \in Nat : p = thief[i].p /\ h = thief[i].h /\ n = size[p]
    <2>1. thief[i].p \in Prios /\ thief[i].h \in Nat
      <3>1. thief[i] \in [pc : {"idle", "claim", "look", "undo", "execute", "mark"},
                         p : Prios, h : Nat, bits : SUBSET Prios, n : Nat]
        BY DEF QueueInv, TypeOK
      <3> QED BY <3>1
    <2>2. \A q \in Prios : size[q] \in Nat
      BY DEF QueueInv, TypeOK
    <2> QED BY <2>1, <2>2
  <1>2. /\ thief[i].pc = "execute" /\ thief' = [thief EXCEPT ![i].pc = "mark", ![i].n = n]
        /\ UNCHANGED <<T, H, size, data, bitmap, lock, owner, taken, pushed>>
        /\ h < FirstPlace(p) /\ h < size[p] /\ size[p] \in Nat
    BY <1>1 DEF LoadArray, QueueInv, TypeOK, ThiefHasLock
  <1>3. /\ thief'[i].pc = "mark" /\ thief'[i].p = p /\ thief'[i].h = h
        /\ \A j \in Thieves \ {i} : thief'[j] = thief[j]
        /\ thief' \in [Thieves -> [pc : {"idle", "claim", "look", "undo", "execute", "mark"},
                                   p : Prios, h : Nat, bits : SUBSET Prios, n : Nat]]
    <2> DEFINE r == [thief[i] EXCEPT !.pc = "mark", !.n = n]
    <2>1. /\ r \in [pc : {"idle", "claim", "look", "undo", "execute", "mark"},
                   p : Prios, h : Nat, bits : SUBSET Prios, n : Nat]
          /\ r.pc = "mark" /\ r.p = p /\ r.h = h
      <3>1. thief[i] \in [pc : {"idle", "claim", "look", "undo", "execute", "mark"},
                         p : Prios, h : Nat, bits : SUBSET Prios, n : Nat]
        BY DEF QueueInv, TypeOK
      <3> QED BY <1>1, <3>1
    <2>2. thief' = [thief EXCEPT ![i] = r]
      BY <1>2
    <2> HIDE DEF r
    <2> QED BY <2>1, <2>2 DEF QueueInv, TypeOK
  <1>4. TypeOK'
    BY <1>2, <1>3 DEF QueueInv, TypeOK
  <1>5. lock # i
    BY <1>2 DEF QueueInv, ThiefHasLock
  <1>6. \A q \in Prios : FirstPlace(q)' = FirstPlace(q)
    BY <1>2, <1>3, <1>5 DEF FirstPlace, QueueInv, TypeOK
  <1>7. ThiefHasLock'
    <2>1. (/\ thief[i].pc \in {"claim", "look", "undo"} <=> lock = i
           /\ thief[i].pc \in {"look", "undo"} => H[thief[i].p] = thief[i].h + 1
           /\ thief[i].pc \in {"execute", "mark"} => thief[i].h < FirstPlace(thief[i].p)
                                         /\ thief[i].h < size[thief[i].p])'
      BY <1>2, <1>3, <1>5, <1>6
    <2>2. \A j \in Thieves \ {i} : thief'[j] = thief[j] /\ (lock' = j <=> lock = j)
      BY <1>2, <1>3
    <2>3. \A q \in Prios : FirstPlace(q)' \in Int /\ FirstPlace(q)' >= FirstPlace(q)
      BY <1>6, HeadTail DEF QueueInv
    <2> QED BY <1>2, <2>1, <2>2, <2>3, ThiefStep
  <1> QED BY <1>2, <1>4, <1>6, <1>7, ThiefMoves

\* The thief clears the entry of the task, in the current array or in another.
LEMMA MarkExecutedKeeps ==
    ASSUME Constants, QueueInv, NEW i \in Thieves, MarkExecuted(i)
    PROVE  QueueInv'
  <1>1. PICK p \in Prios, h \in Nat : p = thief[i].p /\ h = thief[i].h
    BY DEF QueueInv, TypeOK
  <1>2. /\ thief[i].pc = "mark" /\ data' \in {data, [data EXCEPT ![p][h] = NoTask]}
        /\ thief' = [thief EXCEPT ![i] = IdleThief]
        /\ UNCHANGED <<T, H, size, bitmap, lock, owner, taken, pushed>>
        /\ h < FirstPlace(p) /\ h < size[p] /\ size[p] \in Nat
    BY <1>1 DEF MarkExecuted, QueueInv, TypeOK, ThiefHasLock
  <1>3. /\ thief'[i].pc = "idle" /\ \A j \in Thieves \ {i} : thief'[j] = thief[j]
        /\ thief' \in [Thieves -> [pc : {"idle", "claim", "look", "undo", "execute", "mark"},
                                   p : Prios, h : Nat, bits : SUBSET Prios, n : Nat]]
    BY <1>2 DEF QueueInv, TypeOK, IdleThief, Constants
  <1>4. /\ DOMAIN data' = Prios
        /\ \A q \in Prios : data'[q] \in [0..(size[q] - 1) -> 0..MaxTasks]
        /\ \A q \in Prios : \A k \in 0..(size[q] - 1) : q # p \/ k # h => data'[q][k] = data[q][k]
    <2>1. DOMAIN data = Prios /\ \A q \in Prios : data[q] \in [0..(size[q] - 1) -> 0..MaxTasks]
      BY DEF QueueInv, TypeOK
    <2>2. NoTask \in 0..MaxTasks
      BY DEF Constants, NoTask
    <2> QED BY <1>2, <2>1, <2>2
  <1>5. TypeOK'
    BY <1>2, <1>3, <1>4 DEF QueueInv, TypeOK
  <1>6. lock # i
    BY <1>2 DEF QueueInv, ThiefHasLock
  <1>7. \A q \in Prios : FirstPlace(q)' = FirstPlace(q)
    BY <1>2, <1>3, <1>6 DEF FirstPlace, QueueInv, TypeOK
  <1>8. ThiefHasLock'
    <2>1. (/\ thief[i].pc \in {"claim", "look", "undo"} <=> lock = i
           /\ thief[i].pc \in {"look", "undo"} => H[thief[i].p] = thief[i].h + 1
           /\ thief[i].pc \in {"execute", "mark"} => thief[i].h < FirstPlace(thief[i].p)
                                         /\ thief[i].h < size[thief[i].p])'
      BY <1>2, <1>3, <1>6
    <2>2. \A j \in Thieves \ {i} : thief'[j] = thief[j] /\ (lock' = j <=> lock = j)
      BY <1>2, <1>3
    <2>3. \A q \in Prios : FirstPlace(q)' \in Int /\ FirstPlace(q)' >= FirstPlace(q)
      BY <1>7, HeadTail DEF QueueInv
    <2> QED BY <1>2, <2>1, <2>2, <2>3, ThiefStep
  <1>9. \A q \in Prios : \A k \in FirstPlace(q)..T[q] : k \in 0..(size[q] - 1) => data'[q][k] = data[q][k]
    BY <1>2, <1>4, HeadTail DEF QueueInv
  <1> QED BY <1>2, <1>5, <1>7, <1>8, <1>9, ThiefMoves

\* The thief compares the two ends.
LEMMA LookKeeps ==
    ASSUME Constants, QueueInv, NEW i \in Thieves, Look(i)
    PROVE  QueueInv'
  <1>1. PICK p \in Prios, h \in Nat : p = thief[i].p /\ h = thief[i].h
    BY DEF QueueInv, TypeOK
  <1>2. /\ thief[i].pc = "look" /\ lock = i /\ i # Free /\ H[p] = h + 1
        /\ UNCHANGED <<T, H, size, data, bitmap, owner, pushed>>
        /\ T[p] \in Nat /\ size[p] \in Nat
    BY <1>1 DEF Look, QueueInv, TypeOK, ThiefHasLock, Constants
  <1>3. FirstPlace(p) = h
    BY <1>1, <1>2 DEF FirstPlace
  <1>4. thief[i] \in [pc : {"idle", "claim", "look", "undo", "execute", "mark"},
                      p : Prios, h : Nat, bits : SUBSET Prios, n : Nat]
    BY DEF QueueInv, TypeOK
  <1>5. CASE T[p] <= h + 1
    <2> DEFINE r == [thief[i] EXCEPT !.pc = "undo"]
    <2>1. thief' = [thief EXCEPT ![i] = r] /\ UNCHANGED <<lock, taken>>
      BY <1>1, <1>5 DEF Look
    <2>2. /\ r \in [pc : {"idle", "claim", "look", "undo", "execute", "mark"},
                    p : Prios, h : Nat, bits : SUBSET Prios, n : Nat]
          /\ r.pc = "undo" /\ r.p = p /\ r.h = h
      BY <1>1, <1>4
    <2> HIDE DEF r
    <2>3. /\ thief' \in [Thieves -> [pc : {"idle", "claim", "look", "undo", "execute", "mark"},
                                     p : Prios, h : Nat, bits : SUBSET Prios, n : Nat]]
          /\ thief'[i].pc = "undo" /\ thief'[i].p = p /\ thief'[i].h = h
          /\ \A j \in Thieves \ {i} : thief'[j] = thief[j]
      BY <2>1, <2>2 DEF QueueInv, TypeOK
    <2>4. TypeOK'
      BY <1>2, <2>1, <2>3 DEF QueueInv, TypeOK
    <2>5. \A q \in Prios : FirstPlace(q)' = FirstPlace(q)
      BY <1>1, <1>2, <2>1, <2>3 DEF FirstPlace
    <2>6. ThiefHasLock'
      <3>1. (/\ thief[i].pc \in {"claim", "look", "undo"} <=> lock = i
             /\ thief[i].pc \in {"look", "undo"} => H[thief[i].p] = thief[i].h + 1
             /\ thief[i].pc \in {"execute", "mark"} => thief[i].h < FirstPlace(thief[i].p)
                                           /\ thief[i].h < size[thief[i].p])'
        BY <1>2, <2>1, <2>3
      <3>2. \A q \in Prios : FirstPlace(q)' \in Int /\ FirstPlace(q)' >= FirstPlace(q)
        BY <2>5, HeadTail DEF QueueInv
      <3> QED BY <1>2, <2>1, <2>3, <3>1, <3>2, ThiefStep
    <2> QED BY <1>2, <2>1, <2>4, <2>5, <2>6, ThiefMoves
  <1>6. CASE ~(T[p] <= h + 1)
    <2> DEFINE r == [thief[i] EXCEPT !.pc = "execute", !.bits = {}]
    <2>1. thief' = [thief EXCEPT ![i] = r] /\ lock' = Free /\ Count(data[p][h])
      <3>1. h \in Places(p)
        <4>1. EndPlace(p) = T[p] \/ EndPlace(p) = T[p] + 1
          BY <1>1 DEF EndPlace, QueueInv, OwnerAtTail, TypeOK
        <4> QED BY <1>2, <1>3, <1>6, <4>1 DEF Places
      <3> QED BY <1>1, <1>6, <3>1, PlaceHasTask DEF Look
    <2>2. /\ r \in [pc : {"idle", "claim", "look", "undo", "execute", "mark"},
                    p : Prios, h : Nat, bits : SUBSET Prios, n : Nat]
          /\ r.pc = "execute" /\ r.p = p /\ r.h = h
      BY <1>1, <1>4
    <2> HIDE DEF r
    <2>3. /\ thief' \in [Thieves -> [pc : {"idle", "claim", "look", "undo", "execute", "mark"},
                                     p : Prios, h : Nat, bits : SUBSET Prios, n : Nat]]
          /\ thief'[i].pc = "execute" /\ thief'[i].p = p /\ thief'[i].h = h
          /\ \A j \in Thieves \ {i} : thief'[j] = thief[j]
      BY <2>1, <2>2 DEF QueueInv, TypeOK
    <2>4. \A q \in Prios : EndPlace(q)' = EndPlace(q)
      BY <1>2 DEF EndPlace
    <2>5. /\ EndPlace(p) \in Int /\ EndPlace(p) >= T[p] /\ EndPlace(p) <= size[p] /\ h + 1 <= T[p] - 1
          /\ EndPlace(p) > h + 1
      <3>1. EndPlace(p) = T[p] \/ EndPlace(p) = T[p] + 1
        BY <1>1 DEF EndPlace, QueueInv, OwnerAtTail, TypeOK
      <3>2. EndPlace(p) <= size[p]
        BY DEF QueueInv, PlacesInArray
      <3> QED BY <1>2, <1>6, <3>1, <3>2
    <2>6. \A q \in Prios : FirstPlace(q) \in Int /\ FirstPlace(q)' = IF q = p THEN h + 1 ELSE FirstPlace(q)
      <3>1. \A q \in Prios : FirstPlace(q) \in Int
        BY HeadTail DEF QueueInv
      <3>2. \A q \in Prios : FirstPlace(q)' = H[q]
        BY <1>2, <2>1 DEF FirstPlace
      <3>3. \A q \in Prios \ {p} : FirstPlace(q) = H[q]
        BY <1>1, <1>2 DEF FirstPlace
      <3> QED BY <1>2, <3>1, <3>2, <3>3
    <2>7. h \in Places(p)
      BY <1>3, <2>5 DEF Places
    <2>8. \A q \in Prios : Places(q)' = IF q = p THEN Places(p) \ {h} ELSE Places(q)
      <3> SUFFICES ASSUME NEW q \in Prios
                   PROVE  Places(q)' = IF q = p THEN Places(p) \ {h} ELSE Places(q)
        OBVIOUS
      <3>1. CASE q = p
        <4>1. (h + 1)..(EndPlace(p) - 1) = (h..(EndPlace(p) - 1)) \ {h}
          BY <2>5
        <4> QED BY <1>3, <2>4, <2>6, <3>1, <4>1 DEF Places
      <3>2. CASE q # p
        BY <2>4, <2>6, <3>2 DEF Places
      <3> QED BY <3>1, <3>2
    <2>9. PlacesInArray'
      <3> SUFFICES ASSUME NEW q \in Prios
                   PROVE  /\ FirstPlace(q)' <= EndPlace(q)' /\ EndPlace(q)' <= size[q]
                          /\ FirstPlace(q)' < EndPlace(q)' => q \in bitmap
        BY <1>2 DEF PlacesInArray
      <3>1. /\ FirstPlace(q) <= EndPlace(q) /\ EndPlace(q) <= size[q]
            /\ FirstPlace(q) < EndPlace(q) => q \in bitmap
        BY DEF QueueInv, PlacesInArray
      <3> QED BY <1>3, <2>4, <2>5, <2>6, <3>1
    <2>10. Published' = Published
      BY <1>2 DEF Published
    <2>11. taken' \in [Tasks -> {0, 1}] /\ OnePlaceEach' /\ NoneLost'
      BY <1>2, <2>1, <2>7, <2>8, <2>9, <2>10, OneTaken, PublishedType DEF Count, QueueInv
    <2>12. TypeOK'
      BY <1>2, <2>1, <2>3, <2>11 DEF QueueInv, TypeOK
    <2>13. ThiefHasLock'
      <3>1. (/\ thief[i].pc \in {"claim", "look", "undo"} <=> lock = i
             /\ thief[i].pc \in {"look", "undo"} => H[thief[i].p] = thief[i].h + 1
             /\ thief[i].pc \in {"execute", "mark"} => thief[i].h < FirstPlace(thief[i].p)
                                           /\ thief[i].h < size[thief[i].p])'
        <4>1. h < h + 1 /\ h < size[p]
          BY <1>2, <2>5
        <4> QED BY <1>2, <2>1, <2>3, <2>6, <4>1
      <3>2. \A q \in Prios : FirstPlace(q)' \in Int /\ FirstPlace(q)' >= FirstPlace(q)
        BY <1>3, <2>6
      <3>3. \A j \in Thieves \ {i} : lock' = j <=> lock = j
        BY <1>2, <2>1 DEF Constants
      <3> QED BY <1>2, <2>3, <3>1, <3>2, <3>3, ThiefStep
    <2>14. OwnerAtTail'
      <3> PICK o \in Prios, t \in Nat : o = owner.p /\ t = owner.t
        BY DEF QueueInv, TypeOK
      <3>1. owner.pc = "publish" => taken'[pushed] = 0
        <4>1. CASE owner.pc = "publish"
          <5>0. pushed \in 0..MaxTasks /\ pushed > 0 /\ taken[pushed] = 0
            BY <4>1 DEF QueueInv, OwnerAtTail, TypeOK
          <5>1. /\ Published = pushed - 1 /\ pushed \in Tasks /\ taken[pushed] = 0
                /\ data[p][h] \in 1..Published
            BY <2>7, <4>1, <5>0 DEF Published, QueueInv, OnePlaceEach, Tasks, Constants
          <5>2. pushed # data[p][h]
            BY <5>1 DEF Tasks
          <5> QED BY <2>1, <5>1, <5>2 DEF Count, QueueInv, TypeOK
        <4> QED BY <4>1
      <3>2. owner.pc = "swap" => \A k \in Places(o)' : owner.copy[k] = data[o][k]
        BY <2>8 DEF QueueInv, OwnerAtTail
      <3>3. NewSize(o)' = NewSize(o)
        BY <1>2 DEF NewSize
      <3>4. owner.pc = "empty" => FirstPlace(o)' >= EndPlace(o)'
        BY <1>3, <2>4, <2>5, <2>6 DEF QueueInv, OwnerAtTail
      <3> QED BY <1>2, <3>1, <3>2, <3>3, <3>4 DEF OwnerAtTail, QueueInv
    <2> QED BY <2>9, <2>11, <2>12, <2>13, <2>14 DEF QueueInv
  <1> QED BY <1>5, <1>6

-----------------------------------------------------------------------------
(* Theorems.                                                               *)

\* The invariant holds at the start.
LEMMA InitRight ==
    ASSUME Constants, Init
    PROVE  QueueInv
  <1>1. TypeOK
    <2>1. \A p \in Prios : data[p] \in [0..(size[p] - 1) -> 0..MaxTasks]
      <3> SUFFICES ASSUME NEW p \in Prios
                   PROVE  data[p] \in [0..(size[p] - 1) -> 0..MaxTasks]
        OBVIOUS
      <3>1. CASE p = 0
        <4>1. data[p] = Array(Size0) /\ size[p] = Size0
          BY <3>1 DEF Init
        <4> QED BY <4>1 DEF Array, NoTask, Constants
      <3>2. CASE p # 0
        <4>1. data[p] = NoArray /\ size[p] = 0
          BY <3>2 DEF Init
        <4>2. NoArray \in [0..(0 - 1) -> 0..MaxTasks]
          BY DEF NoArray
        <4> QED BY <4>1, <4>2
      <3> QED BY <3>1, <3>2
    <2>2. /\ owner = [pc |-> owner.pc, p |-> owner.p, t |-> owner.t, copy |-> owner.copy]
          /\ owner.pc = "idle" /\ owner.p \in Prios /\ owner.t \in Nat
      BY DEF Init, IdleOwner, Constants
    <2>3. thief \in [Thieves -> [pc : {"idle", "claim", "look", "undo", "execute", "mark"},
                                 p : Prios, h : Nat, bits : SUBSET Prios, n : Nat]]
      BY DEF Init, IdleThief, Constants
    <2>4. size \in [Prios -> Nat]
      BY DEF Init, Constants
    <2> QED BY <2>1, <2>2, <2>3, <2>4 DEF Init, TypeOK, Constants
  <1>2. owner.pc = "idle" /\ lock = Free /\ \A i \in Thieves : thief[i].pc = "idle"
    BY DEF Init, IdleOwner, IdleThief
  <1>3. ThiefHasLock /\ OwnerAtTail
    BY <1>2 DEF ThiefHasLock, OwnerAtTail, Constants
  <1>4. \A p \in Prios : FirstPlace(p) = 0 /\ EndPlace(p) = 0 /\ size[p] \in Nat
    BY <1>1, <1>2 DEF FirstPlace, EndPlace, Init, TypeOK
  <1>5. PlacesInArray /\ OnePlaceEach
    <2>1. \A p \in Prios : Places(p) = {}
      BY <1>4 DEF Places
    <2> QED BY <1>4, <2>1 DEF PlacesInArray, OnePlaceEach
  <1>6. NoneLost
    BY <1>2 DEF NoneLost, Published, Init, Tasks
  <1> QED BY <1>1, <1>3, <1>5, <1>6 DEF QueueInv

\* Every step keeps the invariant.
LEMMA StepKeeps ==
    ASSUME Constants, QueueInv, [Next]_vars, ~regrown'
    PROVE  QueueInv'
  <1>1. CASE Push
    BY <1>1, BeginPushKeeps, SwapKeeps, WriteTaskKeeps, PublishKeeps DEF Push
  <1>2. CASE Pop
    BY <1>2, BeginPopKeeps, CheckKeeps, RollBackKeeps, LockedPopKeeps, ClearBitKeeps DEF Pop
  <1>3. ASSUME NEW i \in Thieves, Steal(i)
        PROVE  QueueInv'
    BY <1>3, BeginStealKeeps, ClaimKeeps, LookKeeps, UndoKeeps, LoadArrayKeeps,
       MarkExecutedKeeps DEF Steal
  <1>4. CASE UNCHANGED vars
    BY <1>4 DEF vars, QueueInv, TypeOK, ThiefHasLock, OwnerAtTail, PlacesInArray, OnePlaceEach,
                NoneLost, Places, FirstPlace, EndPlace, Published, NewSize
  <1> QED BY <1>1, <1>2, <1>3, <1>4 DEF Next

\* A priority that has grown twice has done so for good.
LEMMA RegrownStays ==
    ASSUME [Next]_vars, regrown
    PROVE  regrown'
  <1>1. CASE Push
    BY <1>1 DEF Push, BeginPush, Swap, WriteTask, Publish
  <1>2. CASE Pop
    BY <1>2 DEF Pop, BeginPop, Check, RollBack, LockedPop, ClearBit
  <1>3. ASSUME NEW i \in Thieves, Steal(i)
        PROVE  regrown'
    BY <1>3 DEF Steal, BeginSteal, Claim, Look, Undo, LoadArray, MarkExecuted
  <1>4. CASE UNCHANGED vars
    BY <1>4 DEF vars
  <1> QED BY <1>1, <1>2, <1>3, <1>4 DEF Next

\* What the invariant says of the tasks.
LEMMA QueueInvIsSound ==
    ASSUME QueueInv
    PROVE  TakenOnce /\ NoTaskLost /\ QueueSound
  <1>1. TakenOnce
    <2>1. taken \in [Tasks -> {0, 1}]
      BY DEF QueueInv, TypeOK
    <2> SUFFICES ASSUME NEW t \in Tasks PROVE taken[t] <= 1
      BY DEF TakenOnce
    <2>2. taken[t] \in {0, 1}
      BY <2>1
    <2> QED BY <2>2
  <1>2. NoTaskLost
    <2> SUFFICES ASSUME owner.pc = "idle", lock = Free, NEW t \in 1..pushed
                 PROVE  taken[t] = 1 \/ Waiting(t)
      BY DEF NoTaskLost
    <2>1. Published = pushed /\ \A p \in Prios : Places(p) = H[p]..(T[p] - 1)
      BY DEF Published, Places, FirstPlace, EndPlace
    <2> QED BY <2>1 DEF QueueInv, NoneLost, Waiting
  <1> QED BY <1>1, <1>2 DEF QueueSound


-----------------------------------------------------------------------------
(* ChunkHeap.                                                              *)

\* What the proofs need of the constants: a descriptor for each unit of memory.
HeapConstants ==
    /\ HeapTotal \in Nat \ {0} /\ HeapSizes \subseteq Nat \ {0}
    /\ IsFiniteSet(HeapIds) /\ HeapIds \subseteq Nat \ {0} /\ 1 \in HeapIds
    /\ HeapTotal <= Cardinality(HeapIds)

-----------------------------------------------------------------------------
(* The inductive invariant, as a predicate on the fields ch of the chunks, *)
(* the live chunks lv and the head hd of the free list: a call goes        *)
(* through states between its updates.                                     *)

HeapChunks == [addr : Nat, size : Nat, free : BOOLEAN, prev : HeapIds \cup {Heap!Null},
           next : HeapIds \cup {Heap!Null}, link : HeapIds \cup {Heap!Null}]

\* The chunks are disjoint intervals and cover the memory.
HeapCut(ch, lv) ==
    /\ \A c \in lv : ch[c].size > 0 /\ ch[c].addr + ch[c].size <= HeapTotal
    /\ \A c, d \in lv :
          c # d => \/ ch[c].addr + ch[c].size <= ch[d].addr
                   \/ ch[d].addr + ch[d].size <= ch[c].addr
    /\ \A x \in 0..(HeapTotal - 1) : \E c \in lv : ch[c].addr <= x /\ x < ch[c].addr + ch[c].size

\* next and prev name the neighbours.
HeapNexts(ch, lv) ==
    \A c \in lv : IF ch[c].addr + ch[c].size = HeapTotal THEN ch[c].next = Heap!Null
                  ELSE ch[c].next \in lv /\ ch[ch[c].next].addr = ch[c].addr + ch[c].size
HeapPrevs(ch, lv) ==
    \A c \in lv : IF ch[c].addr = 0 THEN ch[c].prev = Heap!Null
                  ELSE /\ ch[c].prev \in lv
                       /\ ch[ch[c].prev].addr + ch[ch[c].prev].size = ch[c].addr

\* d is the first free chunk after address a.
HeapNextFree(ch, lv, a, d) ==
    IF d = Heap!Null THEN \A e \in lv : ch[e].free => ch[e].addr <= a
    ELSE /\ d \in lv /\ ch[d].free /\ a < ch[d].addr
         /\ \A e \in lv : ch[e].free => ch[e].addr <= a \/ ch[d].addr <= ch[e].addr

\* The free list goes from each free chunk to the first one after it.
HeapFreeLinks(ch, lv, hd) ==
    /\ HeapNextFree(ch, lv, -1, hd)
    /\ \A c \in lv : ch[c].free => HeapNextFree(ch, lv, ch[c].addr, ch[c].link)

HeapGood(ch, lv, hd) ==
    /\ ch \in [HeapIds -> HeapChunks] /\ lv \subseteq HeapIds /\ hd \in HeapIds \cup {Heap!Null}
    /\ HeapCut(ch, lv) /\ HeapNexts(ch, lv) /\ HeapPrevs(ch, lv) /\ HeapFreeLinks(ch, lv, hd)

\* Requests are satisfied by chunks in use.
HeapAskedInUse ==
    \A c \in HeapIds : asked[c] # 0 =>
        c \in live /\ ~chunk[c].free /\ asked[c] <= chunk[c].size

HeapInv ==
    /\ chunk \in [HeapIds -> HeapChunks] /\ live \subseteq HeapIds
    /\ free_chunk_list \in HeapIds \cup {Heap!Null}
    /\ main_chunk \in BOOLEAN /\ asked \in [HeapIds -> Nat]
    /\ IF main_chunk THEN HeapGood(chunk, live, free_chunk_list)
       ELSE live = {} /\ free_chunk_list = Heap!Null
    /\ Heap!Coalesced /\ HeapAskedInUse

-----------------------------------------------------------------------------
(* HeapChunks.                                                                 *)

\* The fields of a chunk.
LEMMA HeapFields ==
    ASSUME NEW ch \in [HeapIds -> HeapChunks], NEW c \in HeapIds
    PROVE  /\ ch[c].addr \in Nat /\ ch[c].size \in Nat /\ ch[c].free \in BOOLEAN
           /\ ch[c].prev \in HeapIds \cup {Heap!Null} /\ ch[c].next \in HeapIds \cup {Heap!Null}
           /\ ch[c].link \in HeapIds \cup {Heap!Null} /\ ch[c] \in HeapChunks
  BY DEF HeapChunks

\* A record with the fields of a chunk is one.
LEMMA HeapIsChunk ==
    ASSUME NEW a \in Nat, NEW s \in Nat, NEW f \in BOOLEAN, NEW p \in HeapIds \cup {Heap!Null},
           NEW n \in HeapIds \cup {Heap!Null}, NEW l \in HeapIds \cup {Heap!Null}
    PROVE  [addr |-> a, size |-> s, free |-> f, prev |-> p, next |-> n, link |-> l] \in HeapChunks
  BY DEF HeapChunks

\* A chunk holds its first address, and no other does.
LEMMA HeapApart ==
    ASSUME HeapConstants, NEW ch \in [HeapIds -> HeapChunks], NEW lv \in SUBSET HeapIds, HeapCut(ch, lv),
           NEW c \in lv, NEW d \in lv, c # d
    PROVE  \/ ch[c].addr + ch[c].size <= ch[d].addr /\ ch[c].addr < ch[d].addr
           \/ ch[d].addr + ch[d].size <= ch[c].addr /\ ch[d].addr < ch[c].addr
  BY HeapFields DEF HeapCut

\* The chunk after the chunk before.
LEMMA HeapNextOfPrev ==
    ASSUME HeapConstants, NEW ch \in [HeapIds -> HeapChunks], NEW lv \in SUBSET HeapIds, HeapCut(ch, lv),
           HeapNexts(ch, lv), HeapPrevs(ch, lv), NEW c \in lv
    PROVE  /\ ch[c].prev # Heap!Null => ch[c].prev \in lv /\ ch[ch[c].prev].next = c
           /\ ch[c].next # Heap!Null => ch[c].next \in lv /\ ch[ch[c].next].prev = c
           /\ Heap!Null \notin HeapIds
  <1>0. Heap!Null \notin HeapIds
    BY DEF HeapConstants, Heap!Null
  <1>1. ASSUME ch[c].prev # Heap!Null
        PROVE  ch[c].prev \in lv /\ ch[ch[c].prev].next = c
    <2>1. PICK p \in lv : p = ch[c].prev /\ ch[p].addr + ch[p].size = ch[c].addr
      BY <1>1 DEF HeapPrevs
    <2>2. ch[c].size > 0 /\ ch[c].addr + ch[c].size <= HeapTotal
      BY DEF HeapCut
    <2>3. ch[p].addr + ch[p].size # HeapTotal
      BY <2>1, <2>2, HeapFields DEF HeapConstants
    <2>4. PICK d \in lv : d = ch[p].next /\ ch[d].addr = ch[p].addr + ch[p].size
      BY <2>3 DEF HeapNexts
    <2>5. ch[d].addr = ch[c].addr /\ ch[c].addr \in Nat
      BY <2>1, <2>4, HeapFields
    <2>6. d = c
      BY <2>5, HeapApart
    <2> QED BY <2>1, <2>4, <2>6
  <1>2. ASSUME ch[c].next # Heap!Null
        PROVE  ch[c].next \in lv /\ ch[ch[c].next].prev = c
    <2>1. PICK n \in lv : n = ch[c].next /\ ch[n].addr = ch[c].addr + ch[c].size
      BY <1>2 DEF HeapNexts
    <2>2. ch[n].addr # 0 /\ ch[c].size > 0
      BY <2>1, HeapFields DEF HeapCut
    <2>3. PICK d \in lv : d = ch[n].prev /\ ch[d].addr + ch[d].size = ch[n].addr
      BY <2>2 DEF HeapPrevs
    <2>4. ch[d].addr + ch[d].size = ch[c].addr + ch[c].size /\ ch[d].size > 0
      BY <2>1, <2>3 DEF HeapCut
    <2>5. /\ ch[c].addr \in Nat /\ ch[c].size \in Nat
          /\ ch[d].addr \in Nat /\ ch[d].size \in Nat
      BY HeapFields
    <2>6. d = c
      BY <2>2, <2>4, <2>5, HeapApart
    <2> QED BY <2>1, <2>3, <2>6
  <1> QED BY <1>0, <1>1, <1>2

\* A descriptor that is not live says nothing.
LEMMA HeapOnlyLive ==
    ASSUME NEW ch, NEW ch2 \in [HeapIds -> HeapChunks], NEW lv, NEW hd, HeapGood(ch, lv, hd),
           \A x \in lv : ch2[x] = ch[x]
    PROVE  HeapGood(ch2, lv, hd)
  <1>1. HeapCut(ch2, lv)
    BY DEF HeapGood, HeapCut
  <1>2. HeapNexts(ch2, lv) /\ HeapPrevs(ch2, lv)
    BY DEF HeapGood, HeapNexts, HeapPrevs
  <1>3. HeapFreeLinks(ch2, lv, hd)
    BY DEF HeapGood, HeapFreeLinks, HeapNextFree
  <1> QED BY <1>1, <1>2, <1>3 DEF HeapGood

-----------------------------------------------------------------------------
(* Cutting a chunk.                                                        *)

\* SplitChunk(c, size, r) in the chunks ch.
HeapSplitFields(ch, c, sz, r, out) ==
    /\ out \in [HeapIds -> HeapChunks]
    /\ \A x \in HeapIds \ {r} :
          /\ out[x].addr = ch[x].addr /\ out[x].free = ch[x].free
          /\ out[x].size = IF x = c THEN sz ELSE ch[x].size
          /\ out[x].next = IF x = c THEN r ELSE ch[x].next
          /\ out[x].link = IF x = c THEN r ELSE ch[x].link
          /\ out[x].prev = IF x = ch[c].next THEN r ELSE ch[x].prev
    /\ out[r].addr = ch[c].addr + sz /\ out[r].size = ch[c].size - sz
    /\ out[r].free /\ out[r].prev = c /\ out[r].next = ch[c].next
    /\ out[r].link = ch[c].link

\* The remainder is a free chunk after the one that was cut.
LEMMA HeapSplitGood ==
    ASSUME HeapConstants, NEW ch, NEW lv, NEW hd, HeapGood(ch, lv, hd), NEW c \in lv, ch[c].free,
           NEW sz \in Nat \ {0}, sz < ch[c].size, NEW r \in HeapIds \ lv,
           NEW out, HeapSplitFields(ch, c, sz, r, out)
    PROVE  HeapGood(out, lv \cup {r}, hd)
  <1>0. /\ ch \in [HeapIds -> HeapChunks] /\ lv \in SUBSET HeapIds /\ hd \in HeapIds \cup {Heap!Null} /\ c \in HeapIds
        /\ c # r /\ HeapCut(ch, lv) /\ HeapNexts(ch, lv) /\ HeapPrevs(ch, lv) /\ HeapFreeLinks(ch, lv, hd)
        /\ HeapTotal \in Nat
    BY DEF HeapGood, HeapConstants
  <1>a. /\ out \in [HeapIds -> HeapChunks]
        /\ \A x \in lv : /\ x # r /\ out[x].addr = ch[x].addr /\ out[x].free = ch[x].free
                         /\ ch[x].addr \in Nat /\ ch[x].size \in Nat
        /\ \A x \in lv : x # c => out[x].size = ch[x].size /\ out[x].next = ch[x].next
                                  /\ out[x].link = ch[x].link
        /\ \A x \in lv : out[x].prev = IF x = ch[c].next THEN r ELSE ch[x].prev
        /\ out[c].size = sz /\ out[c].next = r /\ out[c].link = r
        /\ out[r].addr = ch[c].addr + sz /\ out[r].size = ch[c].size - sz
        /\ out[r].free /\ out[r].prev = c /\ out[r].next = ch[c].next
        /\ out[r].link = ch[c].link
    BY <1>0, HeapFields DEF HeapSplitFields
  <1>b. \A x \in lv : x # c =>
            \/ ch[c].addr + ch[c].size <= ch[x].addr /\ ch[c].addr < ch[x].addr
            \/ ch[x].addr + ch[x].size <= ch[c].addr /\ ch[x].addr < ch[c].addr
    BY <1>0, HeapApart
  <1>c. \A x \in lv : ch[x].size > 0 /\ ch[x].addr + ch[x].size <= HeapTotal
    BY <1>0 DEF HeapCut
  <1>d. out[r].addr \in Nat /\ out[r].size \in Nat /\ out[r].size > 0
        /\ out[r].addr + out[r].size = ch[c].addr + ch[c].size
        /\ out[c].addr + out[c].size = out[r].addr
    BY <1>0, <1>a
  <1>1. HeapCut(out, lv \cup {r})
    <2>1. \A x \in lv \cup {r} : out[x].size > 0 /\ out[x].addr + out[x].size <= HeapTotal
      BY <1>0, <1>a, <1>c, <1>d
    <2>2. ASSUME NEW x \in lv, NEW y \in lv, x # y
          PROVE  \/ out[x].addr + out[x].size <= out[y].addr
                 \/ out[y].addr + out[y].size <= out[x].addr
      BY <1>0, <1>a, <1>b, <1>c, <2>2 DEF HeapCut
    <2>3. ASSUME NEW x \in lv
          PROVE  \/ out[x].addr + out[x].size <= out[r].addr
                 \/ out[r].addr + out[r].size <= out[x].addr
      BY <1>0, <1>a, <1>b, <1>c, <1>d
    <2>4. ASSUME NEW x \in 0..(HeapTotal - 1)
          PROVE  \E e \in lv \cup {r} : out[e].addr <= x /\ x < out[e].addr + out[e].size
      <3>1. PICK e \in lv : ch[e].addr <= x /\ x < ch[e].addr + ch[e].size
        BY <1>0 DEF HeapCut
      <3>2. CASE e # c
        BY <1>a, <3>1, <3>2
      <3>3. CASE e = c
        <4>1. CASE x < out[r].addr
          BY <1>a, <1>d, <3>1, <3>3, <4>1
        <4>2. CASE ~(x < out[r].addr)
          BY <1>a, <1>d, <3>1, <3>3, <4>2
        <4> QED BY <4>1, <4>2
      <3> QED BY <3>2, <3>3
    <2> QED BY <2>1, <2>2, <2>3, <2>4 DEF HeapCut
  <1>2. HeapNexts(out, lv \cup {r})
    <2>1. ASSUME NEW x \in lv, x # c
          PROVE  IF out[x].addr + out[x].size = HeapTotal THEN out[x].next = Heap!Null
                 ELSE /\ out[x].next \in lv \cup {r}
                      /\ out[out[x].next].addr = out[x].addr + out[x].size
      BY <1>0, <1>a, <2>1 DEF HeapNexts
    <2>2. out[c].addr + out[c].size # HeapTotal
      BY <1>0, <1>a, <1>c, <1>d
    <2>3. IF out[r].addr + out[r].size = HeapTotal THEN out[r].next = Heap!Null
          ELSE /\ out[r].next \in lv \cup {r}
               /\ out[out[r].next].addr = out[r].addr + out[r].size
      BY <1>0, <1>a, <1>d DEF HeapNexts
    <2> QED BY <1>a, <1>d, <2>1, <2>2, <2>3 DEF HeapNexts
  <1>3. HeapPrevs(out, lv \cup {r})
    <2>1. ASSUME NEW x \in lv
          PROVE  IF out[x].addr = 0 THEN out[x].prev = Heap!Null
                 ELSE /\ out[x].prev \in lv \cup {r}
                      /\ out[out[x].prev].addr + out[out[x].prev].size = out[x].addr
      <3>1. CASE x = ch[c].next
        <4>1. ch[x].addr = ch[c].addr + ch[c].size /\ ch[x].addr # 0
          BY <1>0, <1>a, <1>c, <3>1, HeapNextOfPrev DEF HeapNexts
        <4> QED BY <1>a, <1>d, <3>1, <4>1
      <3>2. CASE x # ch[c].next /\ ch[x].addr # 0
        <4>1. ch[x].prev \in lv /\ ch[ch[x].prev].addr + ch[ch[x].prev].size = ch[x].addr
          BY <1>0, <3>2 DEF HeapPrevs
        <4>2. ch[x].prev # Heap!Null
          BY <1>0, <4>1 DEF HeapConstants, Heap!Null
        <4>3. ch[x].prev # c
          BY <1>0, <3>2, <4>2, HeapNextOfPrev
        <4> QED BY <1>a, <3>2, <4>1, <4>3
      <3>3. CASE x # ch[c].next /\ ch[x].addr = 0
        BY <1>0, <1>a, <3>3 DEF HeapPrevs
      <3> QED BY <3>1, <3>2, <3>3
    <2>2. out[r].addr # 0
      BY <1>a, <1>d
    <2> QED BY <1>a, <1>d, <2>1, <2>2 DEF HeapPrevs
  <1>4. HeapFreeLinks(out, lv \cup {r}, hd)
    <2>0. Heap!Null \notin HeapIds /\ r # Heap!Null
      BY DEF HeapConstants, Heap!Null
    <2>1. HeapNextFree(out, lv \cup {r}, -1, hd)
      <3>1. hd # Heap!Null /\ hd \in lv /\ ch[hd].free
        BY <1>0, <1>a DEF HeapFreeLinks, HeapNextFree
      <3>2. \A e \in lv : ch[e].free => ch[hd].addr <= ch[e].addr
        BY <1>0, <1>a, <3>1 DEF HeapFreeLinks, HeapNextFree
      <3>3. ch[hd].addr <= out[r].addr
        BY <1>a, <3>1, <3>2
      <3> QED BY <1>a, <3>1, <3>2, <3>3 DEF HeapNextFree
    <2>2. ASSUME NEW x \in lv, x # c, ch[x].free
          PROVE  HeapNextFree(out, lv \cup {r}, out[x].addr, out[x].link)
      <3>1. HeapNextFree(ch, lv, ch[x].addr, ch[x].link)
        BY <1>0, <2>2 DEF HeapFreeLinks
      <3>2. out[x].addr = ch[x].addr /\ out[x].link = ch[x].link
        BY <1>a, <2>2
      <3>3. CASE ch[x].link = Heap!Null
        <4>1. ch[c].addr <= ch[x].addr
          BY <3>1, <3>3 DEF HeapNextFree
        <4>2. ch[x].addr + ch[x].size # ch[c].addr /\ ch[c].addr + ch[c].size <= ch[x].addr
          BY <1>a, <1>b, <1>c, <2>2, <4>1
        <4>3. out[r].addr <= ch[x].addr
          BY <1>a, <1>c, <1>d, <4>2
        <4> QED BY <1>a, <3>1, <3>2, <3>3, <4>3 DEF HeapNextFree
      <3>4. CASE ch[x].link # Heap!Null
        <4>1. PICK d \in lv : d = ch[x].link /\ ch[d].free /\ ch[x].addr < ch[d].addr
                /\ \A e \in lv : ch[e].free => ch[e].addr <= ch[x].addr \/ ch[d].addr <= ch[e].addr
          BY <3>1, <3>4 DEF HeapNextFree
        <4>2. ch[c].addr <= ch[x].addr \/ ch[d].addr <= ch[c].addr
          BY <4>1
        <4>3. out[r].addr <= ch[x].addr \/ ch[d].addr <= out[r].addr
          BY <1>a, <1>b, <1>c, <1>d, <2>2, <4>2
        <4> QED BY <1>a, <3>2, <3>4, <4>1, <4>3 DEF HeapNextFree
      <3> QED BY <3>3, <3>4
    <2>3. HeapNextFree(out, lv \cup {r}, out[c].addr, r)
      <3>1. ASSUME NEW e \in lv, e # c
            PROVE  ch[e].addr <= ch[c].addr \/ out[r].addr <= ch[e].addr
        BY <1>a, <1>b, <1>d, <3>1
      <3> QED BY <1>a, <1>d, <2>0, <3>1 DEF HeapNextFree
    <2>4. HeapNextFree(out, lv \cup {r}, out[r].addr, ch[c].link)
      <3>1. HeapNextFree(ch, lv, ch[c].addr, ch[c].link)
        BY <1>0 DEF HeapFreeLinks
      <3>2. \A e \in lv : ch[e].addr <= ch[c].addr => ch[e].addr <= out[r].addr
        BY <1>a, <1>d
      <3>3. \A e \in lv : ch[c].addr < ch[e].addr => out[r].addr < ch[e].addr
        BY <1>a, <1>b, <1>d
      <3>4. CASE ch[c].link = Heap!Null
        BY <1>a, <3>1, <3>2, <3>4 DEF HeapNextFree
      <3>5. CASE ch[c].link # Heap!Null
        BY <1>a, <3>1, <3>2, <3>3, <3>5 DEF HeapNextFree
      <3> QED BY <3>4, <3>5
    <2>5. ASSUME NEW x \in lv \cup {r}, out[x].free
          PROVE  HeapNextFree(out, lv \cup {r}, out[x].addr, out[x].link)
      <3>1. CASE x = r
        BY <1>a, <2>4, <3>1
      <3>2. CASE x = c
        BY <1>a, <2>3, <3>2
      <3>3. CASE x # r /\ x # c
        BY <1>a, <2>2, <2>5, <3>3
      <3> QED BY <3>1, <3>2, <3>3
    <2> QED BY <2>1, <2>5 DEF HeapFreeLinks
  <1> QED BY <1>0, <1>1, <1>2, <1>3, <1>4, <1>a DEF HeapGood

\* A chunk that leaves the free list, p being before it.
HeapUnlinkFields(ch, c, p, out) ==
    /\ out \in [HeapIds -> HeapChunks]
    /\ \A x \in HeapIds :
          /\ out[x].addr = ch[x].addr /\ out[x].size = ch[x].size
          /\ out[x].next = ch[x].next /\ out[x].prev = ch[x].prev
          /\ out[x].free = (x # c /\ ch[x].free)
          /\ x # c => out[x].link = IF x = p THEN ch[c].link ELSE ch[x].link

\* The other free chunks stay in the list.
LEMMA HeapUnlinkGood ==
    ASSUME HeapConstants, NEW ch, NEW lv, NEW hd, HeapGood(ch, lv, hd), NEW c \in lv, ch[c].free,
           NEW p, p = Heap!Null => hd = c,
           p # Heap!Null => p \in lv /\ ch[p].free /\ ch[p].link = c,
           NEW out, HeapUnlinkFields(ch, c, p, out)
    PROVE  HeapGood(out, lv, IF p = Heap!Null THEN ch[c].link ELSE hd)
  <1>0. /\ ch \in [HeapIds -> HeapChunks] /\ lv \in SUBSET HeapIds /\ hd \in HeapIds \cup {Heap!Null} /\ c \in HeapIds
        /\ HeapCut(ch, lv) /\ HeapNexts(ch, lv) /\ HeapPrevs(ch, lv) /\ HeapFreeLinks(ch, lv, hd)
        /\ Heap!Null \notin HeapIds
    BY DEF HeapGood, HeapConstants, Heap!Null
  <1>a. /\ out \in [HeapIds -> HeapChunks] /\ ch[c].link \in HeapIds \cup {Heap!Null}
        /\ \A x \in lv :
          /\ out[x].addr = ch[x].addr /\ out[x].size = ch[x].size
          /\ out[x].next = ch[x].next /\ out[x].prev = ch[x].prev
          /\ out[x].free = (x # c /\ ch[x].free)
          /\ x # c => out[x].link = IF x = p THEN ch[c].link ELSE ch[x].link
          /\ ch[x].addr \in Nat
    BY <1>0, HeapFields DEF HeapUnlinkFields
  <1>b. \A x, y \in lv : ch[x].addr = ch[y].addr => x = y
    BY <1>0, <1>a, HeapApart
  <1>1. HeapCut(out, lv)
    BY <1>0, <1>a DEF HeapCut
  <1>2. HeapNexts(out, lv)
    BY <1>0, <1>a DEF HeapNexts
  <1>3. HeapPrevs(out, lv)
    BY <1>0, <1>a DEF HeapPrevs
  <1>4. HeapNextFree(ch, lv, ch[c].addr, ch[c].link)
    BY <1>0 DEF HeapFreeLinks
  \* What comes after a comes after c when c came after a.
  <1>5. ASSUME NEW a \in Int, HeapNextFree(ch, lv, a, c)
        PROVE  HeapNextFree(out, lv, a, ch[c].link)
    <2>0. c # Heap!Null
      BY <1>0
    <2>1. a < ch[c].addr
          /\ \A e \in lv : ch[e].free => ch[e].addr <= a \/ ch[c].addr <= ch[e].addr
      BY <1>5, <2>0 DEF HeapNextFree
    <2>2. CASE ch[c].link = Heap!Null
      <3>1. ASSUME NEW e \in lv, e # c, ch[e].free PROVE ch[e].addr <= a
        <4>1. ch[e].addr <= ch[c].addr
          BY <1>4, <2>2, <3>1 DEF HeapNextFree
        <4> QED BY <1>a, <1>b, <2>1, <3>1, <4>1
      <3> QED BY <1>a, <2>2, <3>1 DEF HeapNextFree
    <2>3. CASE ch[c].link # Heap!Null
      <3>1. PICK d \in lv : d = ch[c].link /\ ch[d].free /\ ch[c].addr < ch[d].addr
              /\ \A e \in lv : ch[e].free => ch[e].addr <= ch[c].addr \/ ch[d].addr <= ch[e].addr
        BY <1>4, <2>3 DEF HeapNextFree
      <3>2. ASSUME NEW e \in lv, e # c, ch[e].free
            PROVE  ch[e].addr <= a \/ ch[d].addr <= ch[e].addr
        BY <1>a, <1>b, <2>1, <3>1, <3>2
      <3>3. d # c /\ a < ch[d].addr
        BY <1>a, <2>1, <3>1
      <3> QED BY <1>a, <2>3, <3>1, <3>2, <3>3 DEF HeapNextFree
    <2> QED BY <2>2, <2>3
  \* What comes after a otherwise is not c.
  <1>6. ASSUME NEW a \in Int, NEW d, HeapNextFree(ch, lv, a, d), d # c
        PROVE  HeapNextFree(out, lv, a, d)
    BY <1>a, <1>6 DEF HeapNextFree
  <1>7. HeapNextFree(out, lv, -1, IF p = Heap!Null THEN ch[c].link ELSE hd)
    <2>1. HeapNextFree(ch, lv, -1, hd)
      BY <1>0 DEF HeapFreeLinks
    <2>2. CASE p = Heap!Null
      BY <1>5, <2>1, <2>2
    <2>3. CASE p # Heap!Null
      <3>1. hd # c
        <4>1. ch[p].addr < ch[c].addr
          BY <1>0, <2>3 DEF HeapFreeLinks, HeapNextFree
        <4>2. hd = c => ch[c].addr <= ch[p].addr
          BY <1>0, <1>a, <2>1, <2>3 DEF HeapNextFree
        <4> QED BY <1>a, <2>3, <4>1, <4>2
      <3> QED BY <1>6, <2>1, <2>3, <3>1
    <2> QED BY <2>2, <2>3
  <1>8. ASSUME NEW x \in lv, x # c, ch[x].free
        PROVE  HeapNextFree(out, lv, out[x].addr, out[x].link)
    <2>1. HeapNextFree(ch, lv, ch[x].addr, ch[x].link) /\ ch[x].addr \in Int
      BY <1>0, <1>a, <1>8 DEF HeapFreeLinks
    <2>2. CASE x = p
      <3>1. p # Heap!Null
        BY <1>0, <2>2
      <3> QED BY <1>5, <1>8, <1>a, <2>1, <2>2, <3>1
    <2>3. CASE x # p
      <3>1. ch[x].link # c
        <4>1. SUFFICES ASSUME ch[x].link = c PROVE FALSE
          OBVIOUS
        <4>2. /\ ch[x].addr < ch[c].addr
              /\ \A e \in lv : ch[e].free => ch[e].addr <= ch[x].addr \/ ch[c].addr <= ch[e].addr
          BY <1>0, <2>1, <4>1 DEF HeapNextFree
        <4>3. CASE p = Heap!Null
          <5>1. HeapNextFree(ch, lv, -1, c)
            BY <1>0, <4>3 DEF HeapFreeLinks
          <5>2. ch[c].addr <= ch[x].addr
            BY <1>0, <1>8, <1>a, <5>1 DEF HeapNextFree
          <5> QED BY <1>8, <1>a, <4>2, <5>2
        <4>4. CASE p # Heap!Null
          <5>1. HeapNextFree(ch, lv, ch[p].addr, c)
            BY <1>0, <4>4 DEF HeapFreeLinks
          <5>2. /\ ch[p].addr < ch[c].addr
                /\ \A e \in lv : ch[e].free => ch[e].addr <= ch[p].addr \/ ch[c].addr <= ch[e].addr
            BY <1>0, <5>1 DEF HeapNextFree
          <5>3. ch[p].addr = ch[x].addr
            BY <1>8, <1>a, <4>2, <4>4, <5>2
          <5> QED BY <1>b, <2>3, <4>4, <5>3
        <4> QED BY <4>3, <4>4
      <3>2. out[x].addr = ch[x].addr /\ out[x].link = ch[x].link
        BY <1>8, <1>a, <2>3
      <3> QED BY <1>6, <2>1, <3>1, <3>2
    <2> QED BY <2>2, <2>3
  <1>9. HeapFreeLinks(out, lv, IF p = Heap!Null THEN ch[c].link ELSE hd)
    BY <1>7, <1>8, <1>a DEF HeapFreeLinks
  <1> QED BY <1>0, <1>1, <1>2, <1>3, <1>9, <1>a DEF HeapGood

-----------------------------------------------------------------------------
(* Merging two chunks.                                                     *)

\* b, the chunk after a, is merged into a: MergeInto(ch, a, b, link).
HeapIntoFields(ch, a, b, link, out) ==
    /\ out \in [HeapIds -> HeapChunks]
    /\ \A x \in HeapIds :
          /\ out[x].addr = ch[x].addr /\ out[x].free = ch[x].free
          /\ out[x].size = IF x = a THEN ch[a].size + ch[b].size ELSE ch[x].size
          /\ out[x].next = IF x = a THEN ch[b].next ELSE ch[x].next
          /\ out[x].link = IF x = a THEN link ELSE ch[x].link
          /\ out[x].prev = IF x = ch[b].next THEN a ELSE ch[x].prev

\* The free chunk a takes the place of both.
LEMMA HeapIntoGood ==
    ASSUME HeapConstants, NEW ch, NEW lv, NEW hd, HeapGood(ch, lv, hd), NEW a \in lv, NEW b \in lv,
           ch[a].free, ch[a].next = b, NEW link,
           link = IF ch[b].free THEN ch[b].link ELSE ch[a].link,
           NEW out, HeapIntoFields(ch, a, b, link, out)
    PROVE  HeapGood(out, lv \ {b}, hd)
  <1>0. /\ ch \in [HeapIds -> HeapChunks] /\ lv \in SUBSET HeapIds /\ hd \in HeapIds \cup {Heap!Null}
        /\ HeapCut(ch, lv) /\ HeapNexts(ch, lv) /\ HeapPrevs(ch, lv) /\ HeapFreeLinks(ch, lv, hd)
        /\ HeapTotal \in Nat /\ Heap!Null \notin HeapIds
    BY DEF HeapGood, HeapConstants, Heap!Null
  <1>a. /\ out \in [HeapIds -> HeapChunks]
        /\ \A x \in lv : /\ out[x].addr = ch[x].addr /\ out[x].free = ch[x].free
                         /\ ch[x].addr \in Nat /\ ch[x].size \in Nat /\ ch[x].size > 0
                         /\ ch[x].addr + ch[x].size <= HeapTotal
        /\ \A x \in lv : x # a => out[x].size = ch[x].size /\ out[x].next = ch[x].next
                                  /\ out[x].link = ch[x].link
        /\ \A x \in lv : out[x].prev = IF x = ch[b].next THEN a ELSE ch[x].prev
        /\ out[a].size = ch[a].size + ch[b].size /\ out[a].next = ch[b].next
        /\ out[a].link = link
    BY <1>0, HeapFields DEF HeapIntoFields, HeapCut
  <1>b. \A x, y \in lv : x # y =>
            \/ ch[x].addr + ch[x].size <= ch[y].addr /\ ch[x].addr < ch[y].addr
            \/ ch[y].addr + ch[y].size <= ch[x].addr /\ ch[y].addr < ch[x].addr
    BY <1>0, HeapApart
  <1>c. ch[b].addr = ch[a].addr + ch[a].size /\ a # b
    BY <1>0, <1>a DEF HeapNexts
  <1>d. out[a].addr + out[a].size = ch[b].addr + ch[b].size
    BY <1>a, <1>c
  <1>1. HeapCut(out, lv \ {b})
    <2>1. \A x \in lv \ {b} : out[x].size > 0 /\ out[x].addr + out[x].size <= HeapTotal
      BY <1>0, <1>a, <1>c, <1>d
    <2>2. ASSUME NEW x \in lv \ {b}, x # a
          PROVE  \/ out[x].addr + out[x].size <= out[a].addr
                 \/ out[a].addr + out[a].size <= out[x].addr
      BY <1>a, <1>b, <1>c, <1>d, <2>2
    <2>3. ASSUME NEW x \in lv \ {b}, NEW y \in lv \ {b}, x # y
          PROVE  \/ out[x].addr + out[x].size <= out[y].addr
                 \/ out[y].addr + out[y].size <= out[x].addr
      <3>1. CASE x = a \/ y = a
        BY <2>2, <2>3, <3>1
      <3>2. CASE x # a /\ y # a
        BY <1>a, <1>b, <2>3, <3>2
      <3> QED BY <3>1, <3>2
    <2>4. ASSUME NEW x \in 0..(HeapTotal - 1)
          PROVE  \E e \in lv \ {b} : out[e].addr <= x /\ x < out[e].addr + out[e].size
      <3>1. PICK e \in lv : ch[e].addr <= x /\ x < ch[e].addr + ch[e].size
        BY <1>0 DEF HeapCut
      <3>2. CASE e \notin {a, b}
        BY <1>a, <3>1, <3>2
      <3>3. CASE e \in {a, b}
        <4>1. out[a].addr <= x /\ x < out[a].addr + out[a].size
          BY <1>a, <1>c, <1>d, <3>1, <3>3
        <4> QED BY <1>c, <4>1
      <3> QED BY <3>2, <3>3
    <2> QED BY <2>1, <2>3, <2>4 DEF HeapCut
  <1>2. HeapNexts(out, lv \ {b})
    <2>1. ASSUME NEW x \in lv \ {b}, x # a
          PROVE  IF out[x].addr + out[x].size = HeapTotal THEN out[x].next = Heap!Null
                 ELSE /\ out[x].next \in lv \ {b}
                      /\ out[out[x].next].addr = out[x].addr + out[x].size
      <3>1. IF ch[x].addr + ch[x].size = HeapTotal THEN ch[x].next = Heap!Null
            ELSE ch[x].next \in lv /\ ch[ch[x].next].addr = ch[x].addr + ch[x].size
        BY <1>0 DEF HeapNexts
      <3>2. ch[x].next # b
        <4>1. b # Heap!Null
          BY <1>0
        <4> QED BY <1>a, <1>b, <1>c, <2>1, <3>1, <4>1
      <3> QED BY <1>a, <2>1, <3>1, <3>2
    <2>2. IF out[a].addr + out[a].size = HeapTotal THEN out[a].next = Heap!Null
          ELSE /\ out[a].next \in lv \ {b}
               /\ out[out[a].next].addr = out[a].addr + out[a].size
      <3>1. IF ch[b].addr + ch[b].size = HeapTotal THEN ch[b].next = Heap!Null
            ELSE ch[b].next \in lv /\ ch[ch[b].next].addr = ch[b].addr + ch[b].size
        BY <1>0 DEF HeapNexts
      <3>2. ch[b].next # b
        <4>1. b # Heap!Null
          BY <1>0
        <4> QED BY <1>a, <3>1, <4>1
      <3> QED BY <1>a, <1>d, <3>1, <3>2
    <2> QED BY <2>1, <2>2 DEF HeapNexts
  <1>3. HeapPrevs(out, lv \ {b})
    <2> SUFFICES ASSUME NEW x \in lv \ {b}
                 PROVE  IF out[x].addr = 0 THEN out[x].prev = Heap!Null
                        ELSE /\ out[x].prev \in lv \ {b}
                             /\ out[out[x].prev].addr + out[out[x].prev].size = out[x].addr
      BY DEF HeapPrevs
    <2>1. CASE x = ch[b].next
      <3>1. ch[x].addr = ch[b].addr + ch[b].size /\ ch[x].addr # 0
        BY <1>0, <1>a, <2>1, HeapNextOfPrev DEF HeapNexts
      <3> QED BY <1>a, <1>c, <1>d, <2>1, <3>1
    <2>2. CASE x # ch[b].next /\ ch[x].addr # 0
      <3>1. ch[x].prev \in lv /\ ch[ch[x].prev].addr + ch[ch[x].prev].size = ch[x].addr
        BY <1>0, <2>2 DEF HeapPrevs
      <3>2. ch[x].prev # Heap!Null
        BY <1>0, <3>1
      <3>3. ch[x].prev # b
        BY <1>0, <2>2, <3>2, HeapNextOfPrev
      <3>4. ch[x].prev # a
        <4>1. ch[x].prev = a => ch[a].next = x
          BY <1>0, <3>2, HeapNextOfPrev
        <4> QED BY <4>1
      <3> QED BY <1>a, <2>2, <3>1, <3>3, <3>4
    <2>3. CASE x # ch[b].next /\ ch[x].addr = 0
      BY <1>0, <1>a, <2>3 DEF HeapPrevs
    <2> QED BY <2>1, <2>2, <2>3
  <1>4. HeapFreeLinks(out, lv \ {b}, hd)
    \* A link that does not name b keeps its meaning.
    <2>1. ASSUME NEW i \in Int, NEW d, HeapNextFree(ch, lv, i, d), d # b
          PROVE  HeapNextFree(out, lv \ {b}, i, d)
      BY <1>a, <2>1 DEF HeapNextFree
    <2>2. HeapNextFree(out, lv \ {b}, -1, hd)
      <3>1. HeapNextFree(ch, lv, -1, hd)
        BY <1>0 DEF HeapFreeLinks
      <3>2. hd # b
        BY <1>0, <1>a, <1>c, <3>1 DEF HeapNextFree
      <3> QED BY <2>1, <3>1, <3>2
    <2>3. ASSUME NEW x \in lv \ {b}, x # a, ch[x].free
          PROVE  HeapNextFree(out, lv \ {b}, out[x].addr, out[x].link)
      <3>1. HeapNextFree(ch, lv, ch[x].addr, ch[x].link)
        BY <1>0, <2>3 DEF HeapFreeLinks
      <3>2. ch[x].link # b
        <4>1. SUFFICES ASSUME ch[x].link = b PROVE FALSE
          OBVIOUS
        <4>2. ch[x].addr < ch[b].addr /\ (ch[a].addr <= ch[x].addr \/ ch[b].addr <= ch[a].addr)
          BY <1>0, <3>1, <4>1 DEF HeapNextFree
        <4> QED BY <1>a, <1>b, <1>c, <2>3, <4>2
      <3>3. out[x].addr = ch[x].addr /\ out[x].link = ch[x].link /\ ch[x].addr \in Int
        BY <1>a, <2>3
      <3>4. HeapNextFree(out, lv \ {b}, ch[x].addr, ch[x].link)
        BY <2>1, <3>1, <3>2, <3>3
      <3> QED BY <3>3, <3>4
    <2>4. HeapNextFree(out, lv \ {b}, out[a].addr, link)
      <3>1. CASE ~ch[b].free
        <4>1. HeapNextFree(ch, lv, ch[a].addr, link)
          BY <1>0, <3>1 DEF HeapFreeLinks
        <4>2. link # b
          BY <1>0, <3>1, <4>1 DEF HeapNextFree
        <4>3. out[a].addr = ch[a].addr /\ ch[a].addr \in Int
          BY <1>a
        <4>4. HeapNextFree(out, lv \ {b}, ch[a].addr, link)
          BY <2>1, <4>1, <4>2, <4>3
        <4> QED BY <4>3, <4>4
      <3>2. CASE ch[b].free
        <4>1. HeapNextFree(ch, lv, ch[b].addr, link)
          BY <1>0, <3>2 DEF HeapFreeLinks
        <4>2. \A e \in lv \ {b} : ch[e].addr <= ch[b].addr => ch[e].addr <= ch[a].addr
          BY <1>a, <1>b, <1>c
        <4>3. ch[a].addr < ch[b].addr
          BY <1>a, <1>c
        <4>4. CASE link = Heap!Null
          BY <1>a, <4>1, <4>2, <4>4 DEF HeapNextFree
        <4>5. CASE link # Heap!Null
          <5>1. link \in lv /\ ch[link].free /\ ch[b].addr < ch[link].addr
                /\ \A e \in lv : ch[e].free => ch[e].addr <= ch[b].addr \/ ch[link].addr <= ch[e].addr
            BY <4>1, <4>5 DEF HeapNextFree
          <5>2. link # b /\ ch[a].addr < ch[link].addr
            BY <1>a, <4>3, <5>1
          <5> QED BY <1>a, <4>2, <4>5, <5>1, <5>2 DEF HeapNextFree
        <4> QED BY <4>4, <4>5
      <3> QED BY <3>1, <3>2
    <2>5. ASSUME NEW x \in lv \ {b}, out[x].free
          PROVE  HeapNextFree(out, lv \ {b}, out[x].addr, out[x].link)
      <3>1. CASE x = a
        BY <1>a, <2>4, <3>1
      <3>2. CASE x # a
        BY <1>a, <2>3, <2>5, <3>2
      <3> QED BY <3>1, <3>2
    <2> QED BY <2>2, <2>5 DEF HeapFreeLinks
  <1> QED BY <1>0, <1>1, <1>2, <1>3, <1>4, <1>a DEF HeapGood

\* c is merged into the free chunk n after it: MergeNext(c).
HeapNextFields(ch, c, n, out) ==
    /\ out \in [HeapIds -> HeapChunks]
    /\ \A x \in HeapIds :
          /\ out[x].addr = IF x = n THEN ch[c].addr ELSE ch[x].addr
          /\ out[x].size = IF x = n THEN ch[n].size + ch[c].size ELSE ch[x].size
          /\ out[x].free = ch[x].free /\ out[x].link = ch[x].link
          /\ out[x].next = IF x = ch[c].prev THEN n ELSE ch[x].next
          /\ out[x].prev = IF x = n THEN ch[c].prev ELSE ch[x].prev

\* The free chunk n takes the place of both.
LEMMA HeapNextGood ==
    ASSUME HeapConstants, NEW ch, NEW lv, NEW hd, HeapGood(ch, lv, hd), NEW c \in lv, NEW n \in lv,
           ~ch[c].free, ch[n].free, ch[c].next = n,
           NEW out, HeapNextFields(ch, c, n, out)
    PROVE  HeapGood(out, lv \ {c}, hd)
  <1>0. /\ ch \in [HeapIds -> HeapChunks] /\ lv \in SUBSET HeapIds /\ hd \in HeapIds \cup {Heap!Null}
        /\ HeapCut(ch, lv) /\ HeapNexts(ch, lv) /\ HeapPrevs(ch, lv) /\ HeapFreeLinks(ch, lv, hd)
        /\ HeapTotal \in Nat /\ Heap!Null \notin HeapIds
    BY DEF HeapGood, HeapConstants, Heap!Null
  <1>a. /\ out \in [HeapIds -> HeapChunks]
        /\ \A x \in lv : /\ out[x].free = ch[x].free /\ out[x].link = ch[x].link
                         /\ ch[x].addr \in Nat /\ ch[x].size \in Nat /\ ch[x].size > 0
                         /\ ch[x].addr + ch[x].size <= HeapTotal
        /\ \A x \in lv : x # n => out[x].addr = ch[x].addr /\ out[x].size = ch[x].size
                                  /\ out[x].prev = ch[x].prev
        /\ \A x \in lv : out[x].next = IF x = ch[c].prev THEN n ELSE ch[x].next
        /\ out[n].size = ch[n].size + ch[c].size /\ out[n].addr = ch[c].addr
        /\ out[n].prev = ch[c].prev
    BY <1>0, HeapFields DEF HeapNextFields, HeapCut
  <1>b. \A x, y \in lv : x # y =>
            \/ ch[x].addr + ch[x].size <= ch[y].addr /\ ch[x].addr < ch[y].addr
            \/ ch[y].addr + ch[y].size <= ch[x].addr /\ ch[y].addr < ch[x].addr
    BY <1>0, HeapApart
  <1>c. ch[n].addr = ch[c].addr + ch[c].size /\ n # c
    BY <1>0, <1>a DEF HeapNexts
  <1>d. out[n].addr + out[n].size = ch[n].addr + ch[n].size
    BY <1>a, <1>c
  <1>1. HeapCut(out, lv \ {c})
    <2>1. \A x \in lv \ {c} : out[x].size > 0 /\ out[x].addr + out[x].size <= HeapTotal
      BY <1>0, <1>a, <1>c, <1>d
    <2>2. ASSUME NEW x \in lv \ {c}, x # n
          PROVE  \/ out[x].addr + out[x].size <= out[n].addr
                 \/ out[n].addr + out[n].size <= out[x].addr
      BY <1>a, <1>b, <1>c, <1>d, <2>2
    <2>3. ASSUME NEW x \in lv \ {c}, NEW y \in lv \ {c}, x # y
          PROVE  \/ out[x].addr + out[x].size <= out[y].addr
                 \/ out[y].addr + out[y].size <= out[x].addr
      <3>1. CASE x = n \/ y = n
        BY <2>2, <2>3, <3>1
      <3>2. CASE x # n /\ y # n
        BY <1>a, <1>b, <2>3, <3>2
      <3> QED BY <3>1, <3>2
    <2>4. ASSUME NEW x \in 0..(HeapTotal - 1)
          PROVE  \E e \in lv \ {c} : out[e].addr <= x /\ x < out[e].addr + out[e].size
      <3>1. PICK e \in lv : ch[e].addr <= x /\ x < ch[e].addr + ch[e].size
        BY <1>0 DEF HeapCut
      <3>2. CASE e \notin {n, c}
        BY <1>a, <3>1, <3>2
      <3>3. CASE e \in {n, c}
        <4>1. out[n].addr <= x /\ x < out[n].addr + out[n].size
          BY <1>a, <1>c, <1>d, <3>1, <3>3
        <4> QED BY <1>c, <4>1
      <3> QED BY <3>2, <3>3
    <2> QED BY <2>1, <2>3, <2>4 DEF HeapCut
  <1>2. HeapNexts(out, lv \ {c})
    <2> SUFFICES ASSUME NEW x \in lv \ {c}
                 PROVE  IF out[x].addr + out[x].size = HeapTotal THEN out[x].next = Heap!Null
                        ELSE /\ out[x].next \in lv \ {c}
                             /\ out[out[x].next].addr = out[x].addr + out[x].size
      BY DEF HeapNexts
    <2>1. IF ch[x].addr + ch[x].size = HeapTotal THEN ch[x].next = Heap!Null
          ELSE ch[x].next \in lv /\ ch[ch[x].next].addr = ch[x].addr + ch[x].size
      BY <1>0 DEF HeapNexts
    <2>2. CASE x = ch[c].prev
      <3>1. ch[x].addr + ch[x].size = ch[c].addr
        BY <1>0, <1>a, <2>2 DEF HeapPrevs
      <3>2. x # n /\ ch[c].addr # HeapTotal
        BY <1>0, <1>a, <1>c, <3>1
      <3> QED BY <1>a, <1>c, <2>2, <3>1, <3>2
    <2>3. CASE x # ch[c].prev
      <3>1. ch[x].next # c
        BY <1>0, <2>3, HeapNextOfPrev
      <3>2. ch[x].next # n
        <4>1. ch[x].next = n => x = c
          BY <1>0, HeapNextOfPrev
        <4> QED BY <4>1
      <3>3. out[x].addr + out[x].size = ch[x].addr + ch[x].size
        BY <1>a, <1>d
      <3> QED BY <1>a, <2>1, <2>3, <3>1, <3>2, <3>3
    <2> QED BY <2>2, <2>3
  <1>3. HeapPrevs(out, lv \ {c})
    <2> SUFFICES ASSUME NEW x \in lv \ {c}
                 PROVE  IF out[x].addr = 0 THEN out[x].prev = Heap!Null
                        ELSE /\ out[x].prev \in lv \ {c}
                             /\ out[out[x].prev].addr + out[out[x].prev].size = out[x].addr
      BY DEF HeapPrevs
    <2>1. CASE x = n
      <3>1. CASE ch[c].addr = 0
        BY <1>0, <1>a, <2>1, <3>1 DEF HeapPrevs
      <3>2. CASE ch[c].addr # 0
        <4>1. ch[c].prev \in lv /\ ch[ch[c].prev].addr + ch[ch[c].prev].size = ch[c].addr
          BY <1>0, <3>2 DEF HeapPrevs
        <4>2. ch[c].prev # c /\ ch[c].prev # n
          BY <1>a, <1>c, <4>1
        <4> QED BY <1>a, <2>1, <3>2, <4>1, <4>2
      <3> QED BY <3>1, <3>2
    <2>2. CASE x # n /\ ch[x].addr # 0
      <3>1. ch[x].prev \in lv /\ ch[ch[x].prev].addr + ch[ch[x].prev].size = ch[x].addr
        BY <1>0, <2>2 DEF HeapPrevs
      <3>2. ch[x].prev # Heap!Null
        BY <1>0, <3>1
      <3>3. ch[x].prev # c
        <4>1. ch[x].prev = c => ch[c].next = x
          BY <1>0, <3>2, HeapNextOfPrev
        <4> QED BY <2>2, <4>1
      <3>4. out[ch[x].prev].addr + out[ch[x].prev].size = ch[x].addr
        BY <1>a, <1>d, <3>1
      <3> QED BY <1>a, <2>2, <3>1, <3>3, <3>4
    <2>3. CASE x # n /\ ch[x].addr = 0
      BY <1>0, <1>a, <2>3 DEF HeapPrevs
    <2> QED BY <2>1, <2>2, <2>3
  <1>4. HeapFreeLinks(out, lv \ {c}, hd)
    \* The free chunks keep their order.
    <2>0. \A x, y \in lv : ch[x].free /\ ch[y].free =>
              /\ ch[x].addr < ch[y].addr <=> out[x].addr < out[y].addr
              /\ ch[x].addr <= ch[y].addr <=> out[x].addr <= out[y].addr
      BY <1>a, <1>b, <1>c
    <2>1. HeapNextFree(out, lv \ {c}, -1, hd)
      <3>1. HeapNextFree(ch, lv, -1, hd)
        BY <1>0 DEF HeapFreeLinks
      <3>2. \A x \in lv : ~(ch[x].addr <= -1) /\ ~(out[x].addr <= -1) /\ -1 < out[x].addr
        BY <1>a
      <3> QED BY <1>a, <2>0, <3>1, <3>2 DEF HeapNextFree
    <2>2. ASSUME NEW x \in lv \ {c}, out[x].free
          PROVE  HeapNextFree(out, lv \ {c}, out[x].addr, out[x].link)
      <3>1. HeapNextFree(ch, lv, ch[x].addr, ch[x].link) /\ ch[x].free /\ out[x].link = ch[x].link
        BY <1>0, <1>a, <2>2 DEF HeapFreeLinks
      <3>2. CASE ch[x].link = Heap!Null
        BY <1>a, <2>0, <3>1, <3>2 DEF HeapNextFree
      <3>3. CASE ch[x].link # Heap!Null
        <4>1. PICK d \in lv : d = ch[x].link /\ ch[d].free /\ ch[x].addr < ch[d].addr
                /\ \A e \in lv : ch[e].free => ch[e].addr <= ch[x].addr \/ ch[d].addr <= ch[e].addr
          BY <3>1, <3>3 DEF HeapNextFree
        <4>2. d # c
          BY <4>1
        <4> QED BY <1>a, <2>0, <3>1, <3>3, <4>1, <4>2 DEF HeapNextFree
      <3> QED BY <3>2, <3>3
    <2> QED BY <2>1, <2>2 DEF HeapFreeLinks
  <1> QED BY <1>0, <1>1, <1>2, <1>3, <1>4, <1>a DEF HeapGood

-----------------------------------------------------------------------------
(* The free list, from its head.                                           *)

\* A set of natural numbers below a bound has a greatest one.
LEMMA HeapGreatestExists ==
    ASSUME NEW N \in Nat, NEW S \in SUBSET (0..N), S # {}
    PROVE  \E m \in S : \A n \in S : n <= m
  <1> DEFINE U == {N - n : n \in S}
  <1>1. U \in SUBSET Nat /\ U # {}
    <2>1. \A n \in S : N - n \in Nat
      OBVIOUS
    <2>2. PICK n \in S : TRUE
      OBVIOUS
    <2> QED BY <2>1, <2>2
  <1>2. PICK t \in U : \A u \in U : t <= u
    <2> HIDE DEF U
    <2> QED BY <1>1, LeastExists
  <1>3. PICK m \in S : t = N - m
    OBVIOUS
  <1>4. ASSUME NEW n \in S PROVE n <= m
    <2>1. N - n \in U /\ n \in 0..N /\ m \in 0..N
      OBVIOUS
    <2> QED BY <1>2, <1>3, <2>1
  <1> QED BY <1>3, <1>4

\* The place after n in the list.
HeapAfter(c) == IF c = Heap!Null THEN Heap!Null ELSE chunk[c].link

\* g follows the free list for n places.
HeapFollows(g, n) ==
    /\ g \in [0..n -> HeapIds \cup {Heap!Null}] /\ g[0] = free_chunk_list
    /\ \A i \in 0..n : i # 0 => g[i] = HeapAfter(g[i - 1])

\* The instance has the library's Cardinality.
LEMMA HeapSameSize ==
    /\ Heap!Cardinality(HeapIds) = Cardinality(HeapIds)
    /\ Heap!FreeSeen = {n \in 0..(Cardinality(HeapIds) - 1) : Heap!FreeAt[n] # Heap!Null}
  <1>1. Heap!Cardinality(HeapIds) = Cardinality(HeapIds)
    BY Zenon DEF Heap!Cardinality, Cardinality
  <1>2. Heap!FreeSeen = {n \in 0..(Heap!Cardinality(HeapIds) - 1) : Heap!FreeAt[n] # Heap!Null}
    BY DEF Heap!FreeSeen
  <1> QED BY <1>1, <1>2, Zenon

\* Places of the free list are chunks or null.
LEMMA HeapFreeAtIs ==
    ASSUME HeapConstants, chunk \in [HeapIds -> HeapChunks], free_chunk_list \in HeapIds \cup {Heap!Null}
    PROVE  HeapFollows(Heap!FreeAt, Cardinality(HeapIds)) /\ Cardinality(HeapIds) \in Nat
  <1>0. Cardinality(HeapIds) \in Nat
    BY FS_CardinalityType DEF HeapConstants
  <1>a. \A c \in HeapIds \cup {Heap!Null} : HeapAfter(c) \in HeapIds \cup {Heap!Null}
    BY HeapFields DEF HeapAfter
  <1> DEFINE S == {n \in Nat : ~ \E g : HeapFollows(g, n)}
  <1>1. ASSUME S # {} PROVE FALSE
    <2>1. S \in SUBSET Nat
      OBVIOUS
    <2>2. PICK n \in S : \A m \in S : n <= m
      <3> HIDE DEF S
      <3> QED BY <1>1, <2>1, LeastExists
    <2>3. n \in Nat /\ ~ \E g : HeapFollows(g, n)
      OBVIOUS
    <2>4. n # 0
      <3>1. SUFFICES ASSUME n = 0 PROVE FALSE
        OBVIOUS
      <3>2. PICK g : g = [i \in 0..0 |-> free_chunk_list]
        OBVIOUS
      <3>3. HeapFollows(g, 0)
        BY <3>2 DEF HeapFollows
      <3> QED BY <2>3, <3>1, <3>3
    <2>5. PICK g : HeapFollows(g, n - 1)
      <3>1. n - 1 \in Nat /\ ~(n <= n - 1)
        BY <2>3, <2>4
      <3>2. n - 1 \notin S
        BY <2>2, <3>1
      <3> QED BY <3>1, <3>2
    <2>6. /\ g \in [0..(n - 1) -> HeapIds \cup {Heap!Null}] /\ g[0] = free_chunk_list
          /\ \A i \in 0..(n - 1) : i # 0 => g[i] = HeapAfter(g[i - 1])
      BY <2>5 DEF HeapFollows
    <2>7. PICK h : h = [i \in 0..n |-> IF i = n THEN HeapAfter(g[n - 1]) ELSE g[i]]
      OBVIOUS
    <2>8. h \in [0..n -> HeapIds \cup {Heap!Null}]
      <3>1. \A i \in 0..n : i # n => g[i] \in HeapIds \cup {Heap!Null}
        BY <2>3, <2>6
      <3>2. g[n - 1] \in HeapIds \cup {Heap!Null}
        BY <2>3, <2>4, <2>6
      <3>3. HeapAfter(g[n - 1]) \in HeapIds \cup {Heap!Null}
        BY <1>a, <3>2
      <3> QED BY <2>7, <3>1, <3>3
    <2>9. h[0] = free_chunk_list
      BY <2>3, <2>4, <2>6, <2>7
    <2>10. ASSUME NEW i \in 0..n, i # 0 PROVE h[i] = HeapAfter(h[i - 1])
      <3>1. h[i - 1] = g[i - 1]
        BY <2>3, <2>7, <2>10
      <3>2. CASE i = n
        BY <2>7, <3>1, <3>2
      <3>3. CASE i # n
        <4>1. i \in 0..(n - 1) /\ h[i] = g[i]
          BY <2>3, <2>7, <3>3
        <4> QED BY <2>6, <2>10, <3>1, <4>1
      <3> QED BY <3>2, <3>3
    <2>11. HeapFollows(h, n)
      BY <2>8, <2>9, <2>10 DEF HeapFollows
    <2> QED BY <2>3, <2>11
  <1>2. PICK g : HeapFollows(g, Cardinality(HeapIds))
    BY <1>0, <1>1
  <1>3. g = [n \in 0..Cardinality(HeapIds) |->
                IF n = 0 THEN free_chunk_list
                ELSE IF g[n - 1] = Heap!Null THEN Heap!Null ELSE chunk[g[n - 1]].link]
    <2>1. /\ g \in [0..Cardinality(HeapIds) -> HeapIds \cup {Heap!Null}]
          /\ \A i \in 0..Cardinality(HeapIds) :
                g[i] = IF i = 0 THEN free_chunk_list
                       ELSE IF g[i - 1] = Heap!Null THEN Heap!Null ELSE chunk[g[i - 1]].link
      BY <1>2, Zenon DEF HeapFollows, HeapAfter
    <2> QED BY <2>1, Zenon
  <1>4. Heap!FreeAt = [n \in 0..Cardinality(HeapIds) |->
                IF n = 0 THEN free_chunk_list
                ELSE IF Heap!FreeAt[n - 1] = Heap!Null THEN Heap!Null ELSE chunk[Heap!FreeAt[n - 1]].link]
    <2>1. g = [n \in 0..Heap!Cardinality(HeapIds) |->
                IF n = 0 THEN free_chunk_list
                ELSE IF g[n - 1] = Heap!Null THEN Heap!Null ELSE chunk[g[n - 1]].link]
      BY <1>3, HeapSameSize, Zenon
    <2>2. Heap!FreeAt = [n \in 0..Heap!Cardinality(HeapIds) |->
                IF n = 0 THEN free_chunk_list
                ELSE IF Heap!FreeAt[n - 1] = Heap!Null THEN Heap!Null ELSE chunk[Heap!FreeAt[n - 1]].link]
      BY <2>1, Zenon DEF Heap!FreeAt
    <2> QED BY <2>2, HeapSameSize, Zenon
  <1>5. \A i \in 0..Cardinality(HeapIds) :
            Heap!FreeAt[i] = IF i = 0 THEN free_chunk_list ELSE HeapAfter(Heap!FreeAt[i - 1])
    BY <1>4, Zenon DEF HeapAfter
  <1>6. Heap!FreeAt[0] = free_chunk_list
    BY <1>0, <1>5
  <1>7. \A i \in 0..Cardinality(HeapIds) : Heap!FreeAt[i] \in HeapIds \cup {Heap!Null}
    <2> DEFINE B == {i \in 0..Cardinality(HeapIds) : Heap!FreeAt[i] \notin HeapIds \cup {Heap!Null}}
    <2>1. SUFFICES ASSUME B # {} PROVE FALSE
      OBVIOUS
    <2>2. B \in SUBSET Nat
      BY <1>0
    <2>3. PICK i \in B : \A j \in B : i <= j
      <3> HIDE DEF B
      <3> QED BY <2>1, <2>2, LeastExists
    <2>4. i \in 0..Cardinality(HeapIds) /\ Heap!FreeAt[i] \notin HeapIds \cup {Heap!Null}
      OBVIOUS
    <2>5. i # 0
      BY <1>6, <2>4
    <2>6. i - 1 \in 0..Cardinality(HeapIds) /\ ~(i <= i - 1)
      BY <1>0, <2>4, <2>5
    <2>7. Heap!FreeAt[i - 1] \in HeapIds \cup {Heap!Null}
      BY <2>3, <2>6
    <2> QED BY <1>5, <1>a, <2>4, <2>5, <2>7
  <1>8. Heap!FreeAt \in [0..Cardinality(HeapIds) -> HeapIds \cup {Heap!Null}]
    BY <1>4, <1>7, Zenon
  <1> QED BY <1>0, <1>5, <1>6, <1>8 DEF HeapFollows

\* A place of the list is a free chunk, and at least as many units after the
\* start as it has places before it.
LEMMA HeapFreeAtFree ==
    ASSUME HeapConstants, HeapGood(chunk, live, free_chunk_list)
    PROVE  \A n \in 0..Cardinality(HeapIds) : Heap!FreeAt[n] # Heap!Null =>
               /\ Heap!FreeAt[n] \in live /\ chunk[Heap!FreeAt[n]].free /\ n <= chunk[Heap!FreeAt[n]].addr
  <1>0. /\ chunk \in [HeapIds -> HeapChunks] /\ live \in SUBSET HeapIds /\ free_chunk_list \in HeapIds \cup {Heap!Null}
        /\ HeapFreeLinks(chunk, live, free_chunk_list) /\ Cardinality(HeapIds) \in Nat
        /\ HeapFollows(Heap!FreeAt, Cardinality(HeapIds))
    BY HeapFreeAtIs DEF HeapGood
  <1> DEFINE Right(n) == Heap!FreeAt[n] # Heap!Null =>
                 /\ Heap!FreeAt[n] \in live /\ chunk[Heap!FreeAt[n]].free /\ n <= chunk[Heap!FreeAt[n]].addr
  <1> DEFINE B == {n \in 0..Cardinality(HeapIds) : ~Right(n)}
  <1>1. SUFFICES ASSUME B # {} PROVE FALSE
    OBVIOUS
  <1>2. B \in SUBSET Nat
    BY <1>0
  <1>3. PICK n \in B : \A m \in B : n <= m
    <2> HIDE DEF B
    <2> QED BY <1>1, <1>2, LeastExists
  <1>4. n \in 0..Cardinality(HeapIds) /\ ~Right(n)
    OBVIOUS
  <1>5. CASE n = 0
    <2>1. Heap!FreeAt[n] = free_chunk_list
      BY <1>0, <1>5 DEF HeapFollows
    <2>2. HeapNextFree(chunk, live, -1, free_chunk_list)
      BY <1>0 DEF HeapFreeLinks
    <2>3. free_chunk_list # Heap!Null => free_chunk_list \in live /\ chunk[free_chunk_list].free
                                     /\ 0 <= chunk[free_chunk_list].addr
      BY <1>0, <2>2, HeapFields DEF HeapNextFree
    <2> QED BY <1>4, <1>5, <2>1, <2>3
  <1>6. CASE n # 0
    <2>1. n - 1 \in 0..Cardinality(HeapIds) /\ ~(n <= n - 1)
      BY <1>0, <1>4, <1>6
    <2>2. Right(n - 1)
      BY <1>3, <2>1
    <2>3. Heap!FreeAt[n] = HeapAfter(Heap!FreeAt[n - 1])
      BY <1>0, <1>4, <1>6 DEF HeapFollows
    <2>4. CASE Heap!FreeAt[n] = Heap!Null
      BY <1>4, <2>4
    <2>5. CASE Heap!FreeAt[n] # Heap!Null
      <3>1. PICK p \in live : /\ p = Heap!FreeAt[n - 1] /\ chunk[p].free /\ n - 1 <= chunk[p].addr
                              /\ Heap!FreeAt[n] = chunk[p].link
        BY <2>2, <2>3, <2>5 DEF HeapAfter
      <3>2. PICK c : c = chunk[p].link
        OBVIOUS
      <3>3. HeapNextFree(chunk, live, chunk[p].addr, c)
        BY <1>0, <3>1, <3>2 DEF HeapFreeLinks
      <3>4. c \in live /\ chunk[c].free /\ chunk[p].addr < chunk[c].addr
        BY <2>5, <3>1, <3>2, <3>3 DEF HeapNextFree
      <3>5. n <= chunk[c].addr
        BY <1>0, <1>4, <3>1, <3>4, HeapFields
      <3> QED BY <1>4, <3>1, <3>2, <3>4, <3>5
    <2> QED BY <2>4, <2>5
  <1> QED BY <1>5, <1>6

\* Every free chunk has a place.
LEMMA HeapFreeHasPlace ==
    ASSUME HeapConstants, HeapGood(chunk, live, free_chunk_list), NEW c \in live, chunk[c].free
    PROVE  \E n \in Heap!FreeSeen : Heap!FreeAt[n] = c
  <1>0. /\ chunk \in [HeapIds -> HeapChunks] /\ live \in SUBSET HeapIds /\ free_chunk_list \in HeapIds \cup {Heap!Null}
        /\ HeapFreeLinks(chunk, live, free_chunk_list) /\ Cardinality(HeapIds) \in Nat
        /\ HeapFollows(Heap!FreeAt, Cardinality(HeapIds)) /\ HeapTotal \in Nat /\ HeapTotal <= Cardinality(HeapIds)
        /\ Heap!Null \notin HeapIds
    BY HeapFreeAtIs DEF HeapGood, HeapConstants, Heap!Null
  <1>b. \A x \in live : chunk[x].addr \in Nat /\ chunk[x].addr < HeapTotal
    <2>1. \A x \in live : chunk[x].size > 0 /\ chunk[x].addr + chunk[x].size <= HeapTotal
      BY DEF HeapGood, HeapCut
    <2> QED BY <1>0, <2>1, HeapFields
  \* The list has not gone past c before it names it.
  <1> DEFINE Right(n) == \/ \E k \in 0..n : Heap!FreeAt[k] = c
                         \/ Heap!FreeAt[n] # Heap!Null /\ chunk[Heap!FreeAt[n]].addr <= chunk[c].addr
  <1> DEFINE B == {n \in 0..Cardinality(HeapIds) : ~Right(n)}
  <1>1. ASSUME B # {} PROVE FALSE
    <2>2. B \in SUBSET Nat
      BY <1>0
    <2>3. PICK n \in B : \A m \in B : n <= m
      <3> HIDE DEF B
      <3> QED BY <1>1, <2>2, LeastExists
    <2>4. n \in 0..Cardinality(HeapIds) /\ ~Right(n)
      OBVIOUS
    <2>5. CASE n = 0
      <3>1. Heap!FreeAt[n] = free_chunk_list
        BY <1>0, <2>5 DEF HeapFollows
      <3>2. HeapNextFree(chunk, live, -1, free_chunk_list)
        BY <1>0 DEF HeapFreeLinks
      <3>3. free_chunk_list # Heap!Null /\ chunk[free_chunk_list].addr <= chunk[c].addr
        BY <1>0, <1>b, <3>2 DEF HeapNextFree
      <3> QED BY <2>4, <3>1, <3>3
    <2>6. CASE n # 0
      <3>1. n - 1 \in 0..Cardinality(HeapIds) /\ ~(n <= n - 1)
        BY <1>0, <2>4, <2>6
      <3>2. Right(n - 1)
        BY <2>3, <3>1
      <3>3. ~ \E k \in 0..(n - 1) : Heap!FreeAt[k] = c
        BY <1>0, <2>4
      <3>4. Heap!FreeAt[n - 1] # Heap!Null /\ chunk[Heap!FreeAt[n - 1]].addr <= chunk[c].addr
        BY <3>2, <3>3
      <3>5. PICK p \in live : /\ p = Heap!FreeAt[n - 1] /\ chunk[p].free
                              /\ chunk[p].addr <= chunk[c].addr
        BY <3>1, <3>4, HeapFreeAtFree
      <3>6. p # c
        BY <1>0, <2>4, <3>1, <3>3, <3>5
      <3>7. chunk[p].addr < chunk[c].addr
        BY <1>0, <1>b, <3>5, <3>6, HeapApart DEF HeapGood
      <3>8. PICK d : d = chunk[p].link
        OBVIOUS
      <3>9. HeapNextFree(chunk, live, chunk[p].addr, d)
        BY <1>0, <3>5, <3>8 DEF HeapFreeLinks
      <3>10. d # Heap!Null /\ chunk[d].addr <= chunk[c].addr
        BY <1>b, <3>5, <3>7, <3>9 DEF HeapNextFree
      <3>11. Heap!FreeAt[n] = d
        BY <1>0, <2>4, <2>6, <3>4, <3>5, <3>8 DEF HeapFollows, HeapAfter
      <3> QED BY <2>4, <3>10, <3>11
    <2> QED BY <2>5, <2>6
  <1>2. Right(Cardinality(HeapIds))
    <2>1. Cardinality(HeapIds) \in 0..Cardinality(HeapIds)
      BY <1>0
    <2> QED BY <1>1, <2>1
  <1>3. Heap!FreeAt[Cardinality(HeapIds)] = Heap!Null
    <2>1. Cardinality(HeapIds) \in 0..Cardinality(HeapIds)
      BY <1>0
    <2>2. Heap!FreeAt[Cardinality(HeapIds)] # Heap!Null =>
              /\ Heap!FreeAt[Cardinality(HeapIds)] \in live
              /\ Cardinality(HeapIds) <= chunk[Heap!FreeAt[Cardinality(HeapIds)]].addr
      BY <2>1, HeapFreeAtFree
    <2> QED BY <1>0, <1>b, <2>2
  <1>4. PICK k \in 0..Cardinality(HeapIds) : Heap!FreeAt[k] = c
    BY <1>2, <1>3
  <1>5. c # Heap!Null
    BY <1>0
  <1>6. k # Cardinality(HeapIds)
    BY <1>3, <1>4, <1>5
  <1>7. k \in 0..(Cardinality(HeapIds) - 1)
    BY <1>0, <1>6
  <1> QED BY <1>4, <1>5, <1>7, HeapSameSize

-----------------------------------------------------------------------------
(* The promises, from the invariant.                                       *)

\* The free list names the free chunks, in the order of their addresses.
LEMMA HeapListIsExact ==
    ASSUME HeapConstants, HeapGood(chunk, live, free_chunk_list)
    PROVE  Heap!FreeListExact
  <1>0. /\ chunk \in [HeapIds -> HeapChunks] /\ live \in SUBSET HeapIds /\ free_chunk_list \in HeapIds \cup {Heap!Null}
        /\ HeapFreeLinks(chunk, live, free_chunk_list) /\ Cardinality(HeapIds) \in Nat
        /\ HeapFollows(Heap!FreeAt, Cardinality(HeapIds))
    BY HeapFreeAtIs DEF HeapGood
  <1>1. \A n \in Heap!FreeSeen : n \in 0..Cardinality(HeapIds) /\ Heap!FreeAt[n] # Heap!Null
    BY <1>0, HeapSameSize
  <1>2. \A n \in Heap!FreeSeen : Heap!FreeAt[n] \in live /\ chunk[Heap!FreeAt[n]].free
    BY <1>1, HeapFreeAtFree
  <1>3. \A c \in live : chunk[c].free => \E n \in Heap!FreeSeen : Heap!FreeAt[n] = c
    BY HeapFreeHasPlace
  <1>4. ASSUME NEW n \in Heap!FreeSeen, n + 1 \in Heap!FreeSeen
        PROVE  chunk[Heap!FreeAt[n]].addr < chunk[Heap!FreeAt[n + 1]].addr
    <2>1. /\ n + 1 \in 0..Cardinality(HeapIds) /\ n + 1 # 0 /\ n + 1 - 1 = n
      BY <1>0, <1>1, <1>4
    <2>2. Heap!FreeAt[n + 1] = HeapAfter(Heap!FreeAt[n])
      <3>1. PICK k \in 0..Cardinality(HeapIds) : k = n + 1 /\ k # 0 /\ k - 1 = n
        BY <1>0, <1>1, <2>1
      <3>2. Heap!FreeAt[k] = HeapAfter(Heap!FreeAt[k - 1])
        BY <1>0, <3>1 DEF HeapFollows
      <3> QED BY <3>1, <3>2
    <2>3. PICK p \in live : /\ p = Heap!FreeAt[n] /\ chunk[p].free
                            /\ Heap!FreeAt[n + 1] = chunk[p].link /\ chunk[p].link # Heap!Null
      BY <1>1, <1>2, <1>4, <2>2 DEF HeapAfter
    <2>4. HeapNextFree(chunk, live, chunk[p].addr, chunk[p].link)
      BY <1>0, <2>3 DEF HeapFreeLinks
    <2> QED BY <2>3, <2>4 DEF HeapNextFree
  <1> QED BY <1>2, <1>3, <1>4 DEF Heap!FreeListExact

\* The chunks cut the memory.
LEMMA HeapPartitionHolds ==
    ASSUME HeapConstants, HeapInv
    PROVE  Heap!ChunksPartition
  <1> SUFFICES ASSUME main_chunk PROVE Heap!ChunksPartition
    BY DEF Heap!ChunksPartition
  <1>0. /\ chunk \in [HeapIds -> HeapChunks] /\ live \in SUBSET HeapIds /\ HeapCut(chunk, live)
        /\ HeapNexts(chunk, live) /\ HeapPrevs(chunk, live) /\ asked \in [HeapIds -> Nat] /\ HeapTotal \in Nat
    BY DEF HeapInv, HeapGood, HeapConstants
  <1>a. \A c \in live : chunk[c].addr \in Nat /\ chunk[c].size \in Nat
    BY <1>0, HeapFields
  <1>1. \A x \in 0..(HeapTotal - 1) : \E c \in live : Heap!Inside(x, c)
    BY <1>0 DEF HeapCut, Heap!Inside
  <1>2. ASSUME NEW c \in live, NEW d \in live, NEW x \in 0..(HeapTotal - 1), Heap!Inside(x, c), Heap!Inside(x, d)
        PROVE  c = d
    BY <1>0, <1>2, <1>a DEF HeapCut, Heap!Inside
  <1>3. ASSUME NEW c \in live PROVE chunk[c].size > 0 /\ chunk[c].size >= asked[c]
    <2>1. c \in HeapIds /\ chunk[c].size > 0
      BY <1>0 DEF HeapCut
    <2> QED BY <1>0, <1>a, <2>1 DEF HeapInv, HeapAskedInUse
  <1>4. ASSUME NEW c \in live
        PROVE  LET n == chunk[c].next
               IN  IF n = Heap!Null THEN chunk[c].addr + chunk[c].size = HeapTotal
                   ELSE /\ n \in live /\ chunk[n].prev = c
                        /\ chunk[n].addr = chunk[c].addr + chunk[c].size
    <2>1. Heap!Null \notin HeapIds
      BY <1>0, HeapNextOfPrev
    <2>2. CASE chunk[c].addr + chunk[c].size = HeapTotal
      BY <1>0, <2>2 DEF HeapNexts
    <2>3. CASE chunk[c].addr + chunk[c].size # HeapTotal
      <3>1. /\ chunk[c].next \in live
            /\ chunk[chunk[c].next].addr = chunk[c].addr + chunk[c].size
        BY <1>0, <2>3 DEF HeapNexts
      <3>2. chunk[c].next # Heap!Null
        BY <1>0, <2>1, <3>1
      <3>3. chunk[chunk[c].next].prev = c
        BY <1>0, <3>2, HeapNextOfPrev
      <3> QED BY <3>1, <3>2, <3>3
    <2> QED BY <2>2, <2>3
  <1> QED BY <1>1, <1>2, <1>3, <1>4 DEF Heap!ChunksPartition

\* A heap without its main chunk has an empty list.
LEMMA HeapInvIsSound ==
    ASSUME HeapConstants, HeapInv
    PROVE  Heap!ChunksPartition /\ Heap!FreeListExact /\ Heap!Coalesced
  <1>1. Heap!ChunksPartition
    BY HeapPartitionHolds
  <1>2. Heap!FreeListExact
    <2>1. CASE main_chunk
      BY <2>1, HeapListIsExact DEF HeapInv
    <2>2. CASE ~main_chunk
      <3>1. HeapFollows(Heap!FreeAt, Cardinality(HeapIds)) /\ Cardinality(HeapIds) \in Nat
            /\ live = {} /\ free_chunk_list = Heap!Null
        BY <2>2, HeapFreeAtIs DEF HeapInv
      <3> DEFINE B == {n \in 0..Cardinality(HeapIds) : Heap!FreeAt[n] # Heap!Null}
      <3>2. ASSUME B # {} PROVE FALSE
        <4>1. B \in SUBSET Nat
          BY <3>1
        <4>2. PICK n \in B : \A m \in B : n <= m
          <5> HIDE DEF B
          <5> QED BY <3>2, <4>1, LeastExists
        <4>3. n \in 0..Cardinality(HeapIds) /\ Heap!FreeAt[n] # Heap!Null
          OBVIOUS
        <4>4. n # 0
          BY <3>1, <4>3 DEF HeapFollows
        <4>5. n - 1 \in 0..Cardinality(HeapIds) /\ ~(n <= n - 1)
          BY <3>1, <4>3, <4>4
        <4>6. Heap!FreeAt[n - 1] = Heap!Null
          BY <4>2, <4>5
        <4> QED BY <3>1, <4>3, <4>4, <4>6 DEF HeapFollows, HeapAfter
      <3>3. \A n \in 0..Cardinality(HeapIds) : Heap!FreeAt[n] = Heap!Null
        BY <3>2
      <3>4. Heap!FreeSeen = {}
        BY <3>1, <3>3, HeapSameSize
      <3> QED BY <3>1, <3>4 DEF Heap!FreeListExact
    <2> QED BY <2>1, <2>2 DEF HeapInv
  <1> QED BY <1>1, <1>2 DEF HeapInv

-----------------------------------------------------------------------------
(* What the operations do to the fields.                                   *)

\* A descriptor is left for the remainder of a chunk that is cut.
LEMMA HeapNewIdIsNew ==
    ASSUME HeapConstants, HeapGood(chunk, live, free_chunk_list), NEW c \in live, chunk[c].size > 1
    PROVE  Heap!NewId(live) \in HeapIds \ live
  <1>0. /\ chunk \in [HeapIds -> HeapChunks] /\ live \in SUBSET HeapIds /\ IsFiniteSet(HeapIds)
        /\ HeapTotal \in Nat \ {0} /\ HeapTotal <= Cardinality(HeapIds) /\ HeapIds \in SUBSET Nat
        /\ HeapCut(chunk, live)
    BY DEF HeapGood, HeapConstants
  <1>a. \A x \in live : /\ chunk[x].addr \in Nat /\ chunk[x].size \in Nat /\ chunk[x].size > 0
                        /\ chunk[x].addr + chunk[x].size <= HeapTotal
    BY <1>0, HeapFields DEF HeapCut
  <1>1. HeapIds \ live # {}
    <2> SUFFICES ASSUME live = HeapIds PROVE FALSE
      BY <1>0
    <2>1. PICK f : f = [x \in live |-> chunk[x].addr]
      OBVIOUS
    <2>2. PICK U : U = 0..(HeapTotal - 1)
      OBVIOUS
    <2>3. f \in [live -> U]
      <3>1. \A x \in live : chunk[x].addr \in 0..(HeapTotal - 1)
        BY <1>0, <1>a
      <3> QED BY <2>1, <2>2, <3>1
    <2>4. \A x, y \in live : f[x] = f[y] => x = y
      BY <1>0, <1>a, <2>1, HeapApart
    <2>5. f \in Injection(live, U)
      BY <2>3, <2>4 DEF Injection, IsInjective
    <2>6. IsFiniteSet(U) /\ Cardinality(U) = HeapTotal
      <3>1. 0 \in Int /\ HeapTotal - 1 \in Int /\ ~(0 > HeapTotal - 1) /\ HeapTotal - 1 - 0 + 1 = HeapTotal
        BY <1>0
      <3> QED BY <2>2, <3>1, FS_Interval
    <2>7. chunk[c].addr + 1 \in U
      BY <1>0, <1>a, <2>2
    <2>8. \A x \in live : f[x] # chunk[c].addr + 1
      <3>1. ASSUME NEW x \in live, chunk[x].addr = chunk[c].addr + 1 PROVE FALSE
        BY <1>0, <1>a, <3>1 DEF HeapCut
      <3> QED BY <2>1, <3>1
    <2>9. f \notin Surjection(live, U)
      BY <2>7, <2>8 DEF Surjection
    <2>10. Cardinality(live) <= HeapTotal /\ Cardinality(live) # HeapTotal
      BY <2>5, <2>6, <2>9, FS_Injection
    <2>11. Cardinality(live) \in Nat
      BY <1>0, FS_CardinalityType
    <2> QED BY <1>0, <2>10, <2>11
  <1>2. HeapIds \ live \in SUBSET Nat
    BY <1>0
  <1>3. \E d \in HeapIds \ live : \A e \in HeapIds \ live : d <= e
    BY <1>1, <1>2, LeastExists
  <1> QED BY <1>3 DEF Heap!NewId

\* SplitChunk
LEMMA HeapSplitIs ==
    ASSUME HeapConstants, chunk \in [HeapIds -> HeapChunks], NEW c \in HeapIds, NEW r \in HeapIds, r # c,
           chunk[c].next # r, NEW sz \in Nat, sz <= chunk[c].size
    PROVE  HeapSplitFields(chunk, c, sz, r, Heap!SplitChunk(c, sz, r))
  <1>0. /\ chunk[c].addr \in Nat /\ chunk[c].size \in Nat /\ Heap!Null \notin HeapIds
        /\ chunk[c].next \in HeapIds \cup {Heap!Null} /\ chunk[c].link \in HeapIds \cup {Heap!Null}
        /\ chunk[c].addr + sz \in Nat /\ chunk[c].size - sz \in Nat
    BY HeapFields DEF HeapConstants, Heap!Null
  <1>1. PICK n : n = chunk[c].next
    OBVIOUS
  <1>2. PICK rec : rec = [addr |-> chunk[c].addr + sz, size |-> chunk[c].size - sz,
                          free |-> TRUE, prev |-> c, next |-> n, link |-> chunk[c].link]
    OBVIOUS
  <1>3. rec \in HeapChunks
    BY <1>0, <1>1, <1>2, HeapIsChunk
  <1>4. PICK cc : cc = [chunk[c] EXCEPT !.size = sz, !.next = r, !.link = r]
    OBVIOUS
  <1>5. cc \in HeapChunks
    BY <1>0, <1>4 DEF HeapChunks
  <1>6. PICK cut : cut = [chunk EXCEPT ![c].size = sz, ![c].next = r, ![c].link = r, ![r] = rec]
    OBVIOUS
  <1>7. cut = [x \in HeapIds |-> IF x = r THEN rec ELSE IF x = c THEN cc ELSE chunk[x]]
    BY <1>4, <1>6
  <1>8. cut \in [HeapIds -> HeapChunks]
    BY <1>3, <1>5, <1>7
  <1>9. PICK out : out = IF n = Heap!Null THEN cut ELSE [cut EXCEPT ![n].prev = r]
    OBVIOUS
  <1>10. out = Heap!SplitChunk(c, sz, r)
    BY <1>1, <1>2, <1>6, <1>9 DEF Heap!SplitChunk
  <1>11. out \in [HeapIds -> HeapChunks]
    <2>1. CASE n = Heap!Null
      BY <1>8, <1>9, <2>1
    <2>2. CASE n # Heap!Null
      <3>1. n \in HeapIds /\ cut[n] \in HeapChunks
        BY <1>0, <1>1, <1>8, <2>2
      <3>2. [cut[n] EXCEPT !.prev = r] \in HeapChunks
        BY <3>1 DEF HeapChunks
      <3>3. out = [x \in HeapIds |-> IF x = n THEN [cut[n] EXCEPT !.prev = r] ELSE cut[x]]
        BY <1>8, <1>9, <2>2
      <3> QED BY <1>8, <3>2, <3>3
    <2> QED BY <2>1, <2>2
  <1>12. \A x \in HeapIds :
            /\ out[x].addr = cut[x].addr /\ out[x].size = cut[x].size /\ out[x].free = cut[x].free
            /\ out[x].next = cut[x].next /\ out[x].link = cut[x].link
            /\ out[x].prev = IF x = n THEN r ELSE cut[x].prev
    <2>1. CASE n = Heap!Null
      BY <1>0, <1>9, <2>1
    <2>2. CASE n # Heap!Null
      <3>1. n \in HeapIds
        BY <1>0, <1>1, <2>2
      <3>2. \A x \in HeapIds : out[x] = IF x = n THEN [cut[n] EXCEPT !.prev = r] ELSE cut[x]
        BY <1>8, <1>9, <2>2
      <3> QED BY <1>8, <3>1, <3>2 DEF HeapChunks
    <2> QED BY <2>1, <2>2
  <1>13. /\ cut[r].addr = chunk[c].addr + sz /\ cut[r].size = chunk[c].size - sz
         /\ cut[r].free /\ cut[r].prev = c /\ cut[r].next = n /\ cut[r].link = chunk[c].link
    BY <1>2, <1>7
  <1>14. \A x \in HeapIds \ {r} :
          /\ cut[x].addr = chunk[x].addr /\ cut[x].free = chunk[x].free
          /\ cut[x].size = IF x = c THEN sz ELSE chunk[x].size
          /\ cut[x].next = IF x = c THEN r ELSE chunk[x].next
          /\ cut[x].link = IF x = c THEN r ELSE chunk[x].link
          /\ cut[x].prev = chunk[x].prev
    <2>1. /\ cc.addr = chunk[c].addr /\ cc.free = chunk[c].free /\ cc.size = sz
          /\ cc.next = r /\ cc.link = r /\ cc.prev = chunk[c].prev
      BY <1>4 DEF HeapChunks
    <2> QED BY <1>7, <2>1
  <1> HIDE DEF Heap!SplitChunk
  <1>15. HeapSplitFields(chunk, c, sz, r, out)
    BY <1>1, <1>11, <1>12, <1>13, <1>14 DEF HeapSplitFields
  <1> QED BY <1>10, <1>15

\* The link of chunk k becomes v.
HeapLinkSet(ch, k, v, out) ==
    /\ out \in [HeapIds -> HeapChunks]
    /\ \A x \in HeapIds :
          /\ out[x].addr = ch[x].addr /\ out[x].size = ch[x].size /\ out[x].free = ch[x].free
          /\ out[x].prev = ch[x].prev /\ out[x].next = ch[x].next
          /\ out[x].link = IF x = k THEN v ELSE ch[x].link

\* The update of the link.
LEMMA HeapLinkIs ==
    ASSUME NEW ch \in [HeapIds -> HeapChunks], NEW k \in HeapIds, NEW v \in HeapIds \cup {Heap!Null}
    PROVE  HeapLinkSet(ch, k, v, [ch EXCEPT ![k].link = v])
  <1>1. PICK e : e = [ch[k] EXCEPT !.link = v]
    OBVIOUS
  <1>2. e \in HeapChunks /\ e.link = v
        /\ e.addr = ch[k].addr /\ e.size = ch[k].size /\ e.free = ch[k].free
        /\ e.prev = ch[k].prev /\ e.next = ch[k].next
    BY <1>1 DEF HeapChunks
  <1>3. PICK out : out = [ch EXCEPT ![k].link = v]
    OBVIOUS
  <1>4. out = [x \in HeapIds |-> IF x = k THEN e ELSE ch[x]]
    BY <1>1, <1>3
  <1>5. out \in [HeapIds -> HeapChunks]
    BY <1>2, <1>4
  <1>6. HeapLinkSet(ch, k, v, out)
    BY <1>2, <1>4, <1>5 DEF HeapLinkSet
  <1> QED BY <1>3, <1>6

\* The prev of chunk k becomes v.
HeapPrevSet(ch, k, v, out) ==
    /\ out \in [HeapIds -> HeapChunks]
    /\ \A x \in HeapIds :
          /\ out[x].addr = ch[x].addr /\ out[x].size = ch[x].size /\ out[x].free = ch[x].free
          /\ out[x].next = ch[x].next /\ out[x].link = ch[x].link
          /\ out[x].prev = IF x = k THEN v ELSE ch[x].prev

\* The update of the prev.
LEMMA HeapPrevIs ==
    ASSUME NEW ch \in [HeapIds -> HeapChunks], NEW k \in HeapIds, NEW v \in HeapIds \cup {Heap!Null}
    PROVE  HeapPrevSet(ch, k, v, [ch EXCEPT ![k].prev = v])
  <1>1. PICK e : e = [ch[k] EXCEPT !.prev = v]
    OBVIOUS
  <1>2. e \in HeapChunks /\ e.prev = v
        /\ e.addr = ch[k].addr /\ e.size = ch[k].size /\ e.free = ch[k].free
        /\ e.next = ch[k].next /\ e.link = ch[k].link
    BY <1>1 DEF HeapChunks
  <1>3. PICK out : out = [ch EXCEPT ![k].prev = v]
    OBVIOUS
  <1>4. out = [x \in HeapIds |-> IF x = k THEN e ELSE ch[x]]
    BY <1>1, <1>3
  <1>5. out \in [HeapIds -> HeapChunks]
    BY <1>2, <1>4
  <1>6. HeapPrevSet(ch, k, v, out)
    BY <1>2, <1>4, <1>5 DEF HeapPrevSet
  <1> QED BY <1>3, <1>6

\* The next of chunk k becomes v.
HeapNextSet(ch, k, v, out) ==
    /\ out \in [HeapIds -> HeapChunks]
    /\ \A x \in HeapIds :
          /\ out[x].addr = ch[x].addr /\ out[x].size = ch[x].size /\ out[x].free = ch[x].free
          /\ out[x].prev = ch[x].prev /\ out[x].link = ch[x].link
          /\ out[x].next = IF x = k THEN v ELSE ch[x].next

\* The update of the next.
LEMMA HeapNextIs ==
    ASSUME NEW ch \in [HeapIds -> HeapChunks], NEW k \in HeapIds, NEW v \in HeapIds \cup {Heap!Null}
    PROVE  HeapNextSet(ch, k, v, [ch EXCEPT ![k].next = v])
  <1>1. PICK e : e = [ch[k] EXCEPT !.next = v]
    OBVIOUS
  <1>2. e \in HeapChunks /\ e.next = v
        /\ e.addr = ch[k].addr /\ e.size = ch[k].size /\ e.free = ch[k].free
        /\ e.prev = ch[k].prev /\ e.link = ch[k].link
    BY <1>1 DEF HeapChunks
  <1>3. PICK out : out = [ch EXCEPT ![k].next = v]
    OBVIOUS
  <1>4. out = [x \in HeapIds |-> IF x = k THEN e ELSE ch[x]]
    BY <1>1, <1>3
  <1>5. out \in [HeapIds -> HeapChunks]
    BY <1>2, <1>4
  <1>6. HeapNextSet(ch, k, v, out)
    BY <1>2, <1>4, <1>5 DEF HeapNextSet
  <1> QED BY <1>3, <1>6

\* The free of chunk k becomes v.
HeapFreeSet(ch, k, v, out) ==
    /\ out \in [HeapIds -> HeapChunks]
    /\ \A x \in HeapIds :
          /\ out[x].addr = ch[x].addr /\ out[x].size = ch[x].size /\ out[x].prev = ch[x].prev
          /\ out[x].next = ch[x].next /\ out[x].link = ch[x].link
          /\ out[x].free = IF x = k THEN v ELSE ch[x].free

\* The update of the free.
LEMMA HeapFreeIs ==
    ASSUME NEW ch \in [HeapIds -> HeapChunks], NEW k \in HeapIds, NEW v \in BOOLEAN
    PROVE  HeapFreeSet(ch, k, v, [ch EXCEPT ![k].free = v])
  <1>1. PICK e : e = [ch[k] EXCEPT !.free = v]
    OBVIOUS
  <1>2. e \in HeapChunks /\ e.free = v
        /\ e.addr = ch[k].addr /\ e.size = ch[k].size /\ e.prev = ch[k].prev
        /\ e.next = ch[k].next /\ e.link = ch[k].link
    BY <1>1 DEF HeapChunks
  <1>3. PICK out : out = [ch EXCEPT ![k].free = v]
    OBVIOUS
  <1>4. out = [x \in HeapIds |-> IF x = k THEN e ELSE ch[x]]
    BY <1>1, <1>3
  <1>5. out \in [HeapIds -> HeapChunks]
    BY <1>2, <1>4
  <1>6. HeapFreeSet(ch, k, v, out)
    BY <1>2, <1>4, <1>5 DEF HeapFreeSet
  <1> QED BY <1>3, <1>6

\* The size of chunk k becomes v.
HeapSizeSet(ch, k, v, out) ==
    /\ out \in [HeapIds -> HeapChunks]
    /\ \A x \in HeapIds :
          /\ out[x].addr = ch[x].addr /\ out[x].free = ch[x].free /\ out[x].prev = ch[x].prev
          /\ out[x].next = ch[x].next /\ out[x].link = ch[x].link
          /\ out[x].size = IF x = k THEN v ELSE ch[x].size

\* The update of the size.
LEMMA HeapSizeIs ==
    ASSUME NEW ch \in [HeapIds -> HeapChunks], NEW k \in HeapIds, NEW v \in Nat
    PROVE  HeapSizeSet(ch, k, v, [ch EXCEPT ![k].size = v])
  <1>1. PICK e : e = [ch[k] EXCEPT !.size = v]
    OBVIOUS
  <1>2. e \in HeapChunks /\ e.size = v
        /\ e.addr = ch[k].addr /\ e.free = ch[k].free /\ e.prev = ch[k].prev
        /\ e.next = ch[k].next /\ e.link = ch[k].link
    BY <1>1 DEF HeapChunks
  <1>3. PICK out : out = [ch EXCEPT ![k].size = v]
    OBVIOUS
  <1>4. out = [x \in HeapIds |-> IF x = k THEN e ELSE ch[x]]
    BY <1>1, <1>3
  <1>5. out \in [HeapIds -> HeapChunks]
    BY <1>2, <1>4
  <1>6. HeapSizeSet(ch, k, v, out)
    BY <1>2, <1>4, <1>5 DEF HeapSizeSet
  <1> QED BY <1>3, <1>6

\* The addr of chunk k becomes v.
HeapAddrSet(ch, k, v, out) ==
    /\ out \in [HeapIds -> HeapChunks]
    /\ \A x \in HeapIds :
          /\ out[x].size = ch[x].size /\ out[x].free = ch[x].free /\ out[x].prev = ch[x].prev
          /\ out[x].next = ch[x].next /\ out[x].link = ch[x].link
          /\ out[x].addr = IF x = k THEN v ELSE ch[x].addr

\* The update of the addr.
LEMMA HeapAddrIs ==
    ASSUME NEW ch \in [HeapIds -> HeapChunks], NEW k \in HeapIds, NEW v \in Nat
    PROVE  HeapAddrSet(ch, k, v, [ch EXCEPT ![k].addr = v])
  <1>1. PICK e : e = [ch[k] EXCEPT !.addr = v]
    OBVIOUS
  <1>2. e \in HeapChunks /\ e.addr = v
        /\ e.size = ch[k].size /\ e.free = ch[k].free /\ e.prev = ch[k].prev
        /\ e.next = ch[k].next /\ e.link = ch[k].link
    BY <1>1 DEF HeapChunks
  <1>3. PICK out : out = [ch EXCEPT ![k].addr = v]
    OBVIOUS
  <1>4. out = [x \in HeapIds |-> IF x = k THEN e ELSE ch[x]]
    BY <1>1, <1>3
  <1>5. out \in [HeapIds -> HeapChunks]
    BY <1>2, <1>4
  <1>6. HeapAddrSet(ch, k, v, out)
    BY <1>2, <1>4, <1>5 DEF HeapAddrSet
  <1> QED BY <1>3, <1>6

\* Unlink
LEMMA HeapUnlinkIs ==
    ASSUME HeapConstants, NEW ch \in [HeapIds -> HeapChunks], NEW c \in HeapIds, NEW p \in HeapIds \cup {Heap!Null}, p # c
    PROVE  HeapUnlinkFields(ch, c, p, Heap!Unlink(ch, c, p))
  <1>0. ch[c].link \in HeapIds \cup {Heap!Null} /\ Heap!Null \notin HeapIds /\ FALSE \in BOOLEAN
    BY HeapFields DEF HeapConstants, Heap!Null
  <1>1. PICK a : a = [ch EXCEPT ![c].free = FALSE]
    OBVIOUS
  <1>2. HeapFreeSet(ch, c, FALSE, a) /\ a \in [HeapIds -> HeapChunks]
    <2>1. HeapFreeSet(ch, c, FALSE, a)
      BY <1>0, <1>1, HeapFreeIs
    <2> QED BY <2>1 DEF HeapFreeSet
  <1>3. PICK b : b = [a EXCEPT ![c].link = Heap!Null]
    OBVIOUS
  <1>4. HeapLinkSet(a, c, Heap!Null, b) /\ b \in [HeapIds -> HeapChunks]
    <2>1. HeapLinkSet(a, c, Heap!Null, b)
      BY <1>2, <1>3, HeapLinkIs
    <2> QED BY <2>1 DEF HeapLinkSet
  <1>5. b = [ch EXCEPT ![c].free = FALSE, ![c].link = Heap!Null]
    BY <1>1, <1>3
  <1>6. PICK out : out = IF p = Heap!Null THEN b ELSE [b EXCEPT ![p].link = ch[c].link]
    OBVIOUS
  <1>7. out = Heap!Unlink(ch, c, p)
    BY <1>5, <1>6 DEF Heap!Unlink
  <1>8. HeapLinkSet(b, p, ch[c].link, out)
    <2>1. CASE p = Heap!Null
      BY <1>0, <1>4, <1>6, <2>1 DEF HeapLinkSet
    <2>2. CASE p # Heap!Null
      <3>1. p \in HeapIds /\ out = [b EXCEPT ![p].link = ch[c].link]
        BY <1>6, <2>2
      <3> QED BY <1>0, <1>4, <3>1, HeapLinkIs
    <2> QED BY <2>1, <2>2
  <1>9. ASSUME NEW x \in HeapIds PROVE out[x].free = (x # c /\ ch[x].free)
    <2>1. out[x].free = a[x].free /\ ch[x].free \in BOOLEAN
      BY <1>4, <1>8, HeapFields DEF HeapLinkSet
    <2>2. CASE x = c
      <3>1. a[x].free = FALSE
        BY <1>2, <2>2 DEF HeapFreeSet
      <3> QED BY <2>1, <2>2, <3>1
    <2>3. CASE x # c
      <3>1. a[x].free = ch[x].free
        BY <1>2, <2>3 DEF HeapFreeSet
      <3> QED BY <2>1, <2>3, <3>1
    <2> QED BY <2>2, <2>3
  <1>10. HeapUnlinkFields(ch, c, p, out)
    <2>1. out \in [HeapIds -> HeapChunks]
      BY <1>8 DEF HeapLinkSet
    <2>2. ASSUME NEW x \in HeapIds
          PROVE  /\ out[x].addr = ch[x].addr /\ out[x].size = ch[x].size
                 /\ out[x].next = ch[x].next /\ out[x].prev = ch[x].prev
      <3>1. /\ a[x].addr = ch[x].addr /\ a[x].size = ch[x].size
            /\ a[x].next = ch[x].next /\ a[x].prev = ch[x].prev
        BY <1>2 DEF HeapFreeSet
      <3>2. /\ b[x].addr = a[x].addr /\ b[x].size = a[x].size
            /\ b[x].next = a[x].next /\ b[x].prev = a[x].prev
        BY <1>4 DEF HeapLinkSet
      <3>3. /\ out[x].addr = b[x].addr /\ out[x].size = b[x].size
            /\ out[x].next = b[x].next /\ out[x].prev = b[x].prev
        BY <1>8 DEF HeapLinkSet
      <3> QED BY <3>1, <3>2, <3>3
    <2>3. ASSUME NEW x \in HeapIds, x # c
          PROVE  out[x].link = IF x = p THEN ch[c].link ELSE ch[x].link
      <3>1. b[x].link = a[x].link
        BY <1>4, <2>3 DEF HeapLinkSet
      <3>2. a[x].link = ch[x].link
        BY <1>2 DEF HeapFreeSet
      <3> QED BY <1>8, <3>1, <3>2 DEF HeapLinkSet
    <2> QED BY <1>9, <2>1, <2>2, <2>3 DEF HeapUnlinkFields
  <1> QED BY <1>7, <1>10

\* MergeNext
LEMMA HeapNextMergeIs ==
    ASSUME HeapConstants, chunk \in [HeapIds -> HeapChunks], NEW c \in HeapIds, chunk[c].next \in HeapIds
    PROVE  HeapNextFields(chunk, c, chunk[c].next, Heap!MergeNext(c))
  <1>0. /\ chunk[c].prev \in HeapIds \cup {Heap!Null} /\ chunk[c].addr \in Nat /\ chunk[c].size \in Nat
        /\ Heap!Null \notin HeapIds
    BY HeapFields DEF HeapConstants, Heap!Null
  <1>1. PICK n \in HeapIds : n = chunk[c].next
    OBVIOUS
  <1>2. PICK p \in HeapIds \cup {Heap!Null} : p = chunk[c].prev
    BY <1>0
  <1>3. PICK a : a = [chunk EXCEPT ![n].prev = p]
    OBVIOUS
  <1>4. HeapPrevSet(chunk, n, p, a) /\ a \in [HeapIds -> HeapChunks]
    <2>1. HeapPrevSet(chunk, n, p, a)
      BY <1>3, HeapPrevIs
    <2> QED BY <2>1 DEF HeapPrevSet
  <1>5. PICK s \in Nat : s = chunk[n].size + chunk[c].size
    BY <1>0, HeapFields
  <1>6. PICK b : b = [a EXCEPT ![n].size = s]
    OBVIOUS
  <1>7. HeapSizeSet(a, n, s, b) /\ b \in [HeapIds -> HeapChunks]
    <2>1. HeapSizeSet(a, n, s, b)
      BY <1>4, <1>6, HeapSizeIs
    <2> QED BY <2>1 DEF HeapSizeSet
  <1>8. PICK m : m = [b EXCEPT ![n].addr = chunk[c].addr]
    OBVIOUS
  <1>9. HeapAddrSet(b, n, chunk[c].addr, m) /\ m \in [HeapIds -> HeapChunks]
    <2>1. HeapAddrSet(b, n, chunk[c].addr, m)
      BY <1>0, <1>7, <1>8, HeapAddrIs
    <2> QED BY <2>1 DEF HeapAddrSet
  <1>10. m = [chunk EXCEPT ![n].prev = p, ![n].size = @ + chunk[c].size,
                           ![n].addr = chunk[c].addr]
    <2>1. a[n].size = chunk[n].size
      BY <1>4 DEF HeapPrevSet
    <2>2. b = [a EXCEPT ![n].size = @ + chunk[c].size]
      BY <1>5, <1>6, <2>1
    <2> QED BY <1>3, <1>8, <2>2
  <1>11. PICK out : out = IF p = Heap!Null THEN m ELSE [m EXCEPT ![p].next = n]
    OBVIOUS
  <1>12. out = Heap!MergeNext(c)
    BY <1>1, <1>2, <1>10, <1>11 DEF Heap!MergeNext
  <1>13. HeapNextSet(m, p, n, out)
    <2>1. CASE p = Heap!Null
      BY <1>0, <1>9, <1>11, <2>1 DEF HeapNextSet
    <2>2. CASE p # Heap!Null
      <3>1. p \in HeapIds /\ out = [m EXCEPT ![p].next = n] /\ n \in HeapIds \cup {Heap!Null}
        BY <1>11, <2>2
      <3> QED BY <1>9, <3>1, HeapNextIs
    <2> QED BY <2>1, <2>2
  <1>14. HeapNextFields(chunk, c, n, out)
    BY <1>1, <1>2, <1>4, <1>5, <1>7, <1>9, <1>13 DEF HeapNextFields, HeapPrevSet, HeapSizeSet, HeapAddrSet, HeapNextSet
  <1> QED BY <1>1, <1>12, <1>14

\* MergeInto
LEMMA HeapIntoIs ==
    ASSUME HeapConstants, NEW ch \in [HeapIds -> HeapChunks], NEW a \in HeapIds, NEW b \in HeapIds,
           NEW link \in HeapIds \cup {Heap!Null}
    PROVE  HeapIntoFields(ch, a, b, link, Heap!MergeInto(ch, a, b, link))
  <1>0. ch[b].next \in HeapIds \cup {Heap!Null} /\ ch[b].size \in Nat /\ ch[a].size \in Nat /\ Heap!Null \notin HeapIds
    BY HeapFields DEF HeapConstants, Heap!Null
  <1>1. PICK n \in HeapIds \cup {Heap!Null} : n = ch[b].next
    BY <1>0
  <1>2. PICK s \in Nat : s = ch[a].size + ch[b].size
    BY <1>0
  <1>3. PICK f : f = [ch EXCEPT ![a].size = s]
    OBVIOUS
  <1>4. HeapSizeSet(ch, a, s, f) /\ f \in [HeapIds -> HeapChunks]
    <2>1. HeapSizeSet(ch, a, s, f)
      BY <1>3, HeapSizeIs
    <2> QED BY <2>1 DEF HeapSizeSet
  <1>5. PICK g : g = [f EXCEPT ![a].next = n]
    OBVIOUS
  <1>6. HeapNextSet(f, a, n, g) /\ g \in [HeapIds -> HeapChunks]
    <2>1. HeapNextSet(f, a, n, g)
      BY <1>4, <1>5, HeapNextIs
    <2> QED BY <2>1 DEF HeapNextSet
  <1>7. PICK m : m = [g EXCEPT ![a].link = link]
    OBVIOUS
  <1>8. HeapLinkSet(g, a, link, m) /\ m \in [HeapIds -> HeapChunks]
    <2>1. HeapLinkSet(g, a, link, m)
      BY <1>6, <1>7, HeapLinkIs
    <2> QED BY <2>1 DEF HeapLinkSet
  <1>9. m = [ch EXCEPT ![a].size = @ + ch[b].size, ![a].next = n, ![a].link = link]
    BY <1>2, <1>3, <1>5, <1>7
  <1>10. PICK out : out = IF n = Heap!Null THEN m ELSE [m EXCEPT ![n].prev = a]
    OBVIOUS
  <1>11. out = Heap!MergeInto(ch, a, b, link)
    BY <1>1, <1>9, <1>10 DEF Heap!MergeInto
  <1>12. HeapPrevSet(m, n, a, out)
    <2>1. CASE n = Heap!Null
      BY <1>0, <1>8, <1>10, <2>1 DEF HeapPrevSet
    <2>2. CASE n # Heap!Null
      <3>1. n \in HeapIds /\ out = [m EXCEPT ![n].prev = a] /\ a \in HeapIds \cup {Heap!Null}
        BY <1>10, <2>2
      <3> QED BY <1>8, <3>1, HeapPrevIs
    <2> QED BY <2>1, <2>2
  <1>13. HeapIntoFields(ch, a, b, link, out)
    BY <1>1, <1>2, <1>4, <1>6, <1>8, <1>12 DEF HeapIntoFields, HeapSizeSet, HeapNextSet, HeapLinkSet, HeapPrevSet
  <1> QED BY <1>11, <1>13

\* free() of descriptors that are not live.
LEMMA HeapWithoutGood ==
    ASSUME HeapConstants, NEW ch, NEW lv, NEW hd, HeapGood(ch, lv, hd), NEW gone, gone \cap lv = {}
    PROVE  HeapGood(Heap!Without(ch, gone), lv, hd)
  <1>1. Heap!Dead \in HeapChunks
    <2>1. 0 \in Nat /\ FALSE \in BOOLEAN /\ Heap!Null \in HeapIds \cup {Heap!Null}
      OBVIOUS
    <2> QED BY <2>1, HeapIsChunk DEF Heap!Dead
  <1>2. ch \in [HeapIds -> HeapChunks] /\ lv \in SUBSET HeapIds
    BY DEF HeapGood
  <1>3. PICK out : out = Heap!Without(ch, gone)
    OBVIOUS
  <1>4. out \in [HeapIds -> HeapChunks]
    BY <1>1, <1>2, <1>3 DEF Heap!Without
  <1>5. \A x \in lv : out[x] = ch[x]
    BY <1>2, <1>3 DEF Heap!Without
  <1> QED BY <1>3, <1>4, <1>5, HeapOnlyLive

\* InsertFree: c enters the free list after d, or at its head.
HeapInsertFields(ch, c, d, hd, out) ==
    /\ out \in [HeapIds -> HeapChunks]
    /\ \A x \in HeapIds :
          /\ out[x].addr = ch[x].addr /\ out[x].size = ch[x].size
          /\ out[x].next = ch[x].next /\ out[x].prev = ch[x].prev
          /\ out[x].free = (x = c \/ ch[x].free)
    /\ \A x \in HeapIds \ {c} : out[x].link = IF x = d THEN c ELSE ch[x].link
    /\ out[c].link = IF d = Heap!Null THEN hd ELSE ch[d].link

\* d is the last free chunk before c.
HeapLastBefore(ch, lv, c, d) ==
    IF d = Heap!Null THEN \A e \in lv : ch[e].free => ch[c].addr <= ch[e].addr
    ELSE /\ d \in lv /\ ch[d].free /\ ch[d].addr < ch[c].addr
         /\ \A e \in lv : ch[e].free => ch[e].addr <= ch[d].addr \/ ch[c].addr <= ch[e].addr

\* The list goes through c at its address.
LEMMA HeapInsertGood ==
    ASSUME HeapConstants, NEW ch, NEW lv, NEW hd, HeapGood(ch, lv, hd), NEW c \in lv, ~ch[c].free,
           NEW d, HeapLastBefore(ch, lv, c, d), NEW out, HeapInsertFields(ch, c, d, hd, out)
    PROVE  HeapGood(out, lv, IF d = Heap!Null THEN c ELSE hd)
  <1>0. /\ ch \in [HeapIds -> HeapChunks] /\ lv \in SUBSET HeapIds /\ hd \in HeapIds \cup {Heap!Null} /\ c \in HeapIds
        /\ HeapCut(ch, lv) /\ HeapNexts(ch, lv) /\ HeapPrevs(ch, lv) /\ HeapFreeLinks(ch, lv, hd)
        /\ Heap!Null \notin HeapIds
    BY DEF HeapGood, HeapConstants, Heap!Null
  <1>a. /\ out \in [HeapIds -> HeapChunks]
        /\ \A x \in lv :
          /\ out[x].addr = ch[x].addr /\ out[x].size = ch[x].size
          /\ out[x].next = ch[x].next /\ out[x].prev = ch[x].prev
          /\ out[x].free = (x = c \/ ch[x].free)
          /\ ch[x].addr \in Nat
        /\ \A x \in lv : x # c => out[x].link = IF x = d THEN c ELSE ch[x].link
        /\ out[c].link = IF d = Heap!Null THEN hd ELSE ch[d].link
    BY <1>0, HeapFields DEF HeapInsertFields
  <1>c. ASSUME NEW x \in lv, out[x].free PROVE x = c \/ ch[x].free
    BY <1>a, <1>c, Zenon
  <1>b. \A x, y \in lv : x # y => ch[x].addr < ch[y].addr \/ ch[y].addr < ch[x].addr
    BY <1>0, HeapApart
  <1>1. HeapCut(out, lv)
    BY <1>0, <1>a DEF HeapCut
  <1>2. HeapNexts(out, lv)
    BY <1>0, <1>a DEF HeapNexts
  <1>3. HeapPrevs(out, lv)
    BY <1>0, <1>a DEF HeapPrevs
  \* What came after a, and is not before c, comes after c.
  <1>4. ASSUME NEW a \in Int, NEW e, HeapNextFree(ch, lv, a, e), a < ch[c].addr,
               e # Heap!Null => ch[c].addr < ch[e].addr
        PROVE  HeapNextFree(out, lv, a, c) /\ HeapNextFree(out, lv, ch[c].addr, e)
    <2>1. c # Heap!Null /\ out[c].free /\ out[c].addr = ch[c].addr /\ ch[c].addr \in Nat
      BY <1>0, <1>a
    <2>2. CASE e = Heap!Null
      <3>1. \A x \in lv : ch[x].free => ch[x].addr <= a
        BY <1>4, <2>2 DEF HeapNextFree
      <3>2. ASSUME NEW x \in lv, out[x].free PROVE out[x].addr <= a \/ ch[c].addr <= out[x].addr
        <4>1. x = c \/ ch[x].free
          BY <1>c, <3>2
        <4>2. out[x].addr = ch[x].addr /\ ch[x].addr \in Nat /\ ch[c].addr \in Nat
          BY <1>a
        <4> QED BY <3>1, <4>1, <4>2
      <3>3. ASSUME NEW x \in lv, out[x].free PROVE out[x].addr <= ch[c].addr
        <4>1. x = c \/ ch[x].free
          BY <1>c, <3>3
        <4>2. out[x].addr = ch[x].addr /\ ch[x].addr \in Nat /\ ch[c].addr \in Nat
          BY <1>a
        <4> QED BY <1>4, <3>1, <4>1, <4>2
      <3> QED BY <1>4, <2>1, <2>2, <3>2, <3>3 DEF HeapNextFree
    <2>3. CASE e # Heap!Null
      <3>1. /\ e \in lv /\ ch[e].free /\ a < ch[e].addr
            /\ \A x \in lv : ch[x].free => ch[x].addr <= a \/ ch[e].addr <= ch[x].addr
        BY <1>4, <2>3 DEF HeapNextFree
      <3>2. ASSUME NEW x \in lv, out[x].free PROVE out[x].addr <= a \/ ch[c].addr <= out[x].addr
        <4>1. x = c \/ ch[x].free
          BY <1>c, <3>2
        <4>2. out[x].addr = ch[x].addr /\ ch[x].addr \in Nat /\ ch[c].addr \in Nat
          BY <1>a
        <4> QED BY <1>4, <1>a, <2>3, <3>1, <4>1, <4>2
      <3>3. ASSUME NEW x \in lv, out[x].free PROVE out[x].addr <= ch[c].addr \/ out[e].addr <= out[x].addr
        <4>1. x = c \/ ch[x].free
          BY <1>c, <3>3
        <4>2. out[x].addr = ch[x].addr /\ ch[x].addr \in Nat /\ ch[c].addr \in Nat
          BY <1>a
        <4> QED BY <1>4, <1>a, <2>3, <3>1, <4>1, <4>2
      <3>4. out[e].free /\ ch[c].addr < out[e].addr
        BY <1>4, <1>a, <2>3, <3>1
      <3> QED BY <1>4, <2>1, <2>3, <3>1, <3>2, <3>3, <3>4 DEF HeapNextFree
    <2> QED BY <2>2, <2>3
  \* Elsewhere nothing comes between.
  <1>5. ASSUME NEW a \in Int, NEW e, HeapNextFree(ch, lv, a, e),
               ch[c].addr <= a \/ (e # Heap!Null /\ ch[e].addr <= ch[c].addr)
        PROVE  HeapNextFree(out, lv, a, e)
    <2>1. CASE e = Heap!Null
      BY <1>5, <1>a, <2>1 DEF HeapNextFree
    <2>2. CASE e # Heap!Null
      BY <1>5, <1>a, <2>2 DEF HeapNextFree
    <2> QED BY <2>1, <2>2
  <1>6. HeapNextFree(ch, lv, -1, hd)
    BY <1>0 DEF HeapFreeLinks
  <1>7. d # Heap!Null => d \in lv /\ d # c /\ ch[d].free /\ HeapNextFree(ch, lv, ch[d].addr, ch[d].link)
                    /\ ch[d].addr < ch[c].addr
    BY <1>0 DEF HeapFreeLinks, HeapLastBefore
  <1>8. HeapNextFree(out, lv, -1, IF d = Heap!Null THEN c ELSE hd)
        /\ (d = Heap!Null => HeapNextFree(out, lv, ch[c].addr, hd))
    <2>1. CASE d = Heap!Null
      <3>1. hd # Heap!Null => ch[c].addr < ch[hd].addr
        <4>1. hd # Heap!Null => hd \in lv /\ ch[hd].free /\ hd # c
          BY <1>6 DEF HeapNextFree
        <4>2. hd # Heap!Null => ch[c].addr <= ch[hd].addr
          BY <2>1, <4>1 DEF HeapLastBefore
        <4> QED BY <1>a, <1>b, <4>1, <4>2
      <3>2. -1 \in Int /\ -1 < ch[c].addr
        BY <1>a
      <3> QED BY <1>4, <1>6, <2>1, <3>1, <3>2
    <2>2. CASE d # Heap!Null
      <3>1. hd # Heap!Null /\ ch[hd].addr <= ch[d].addr /\ hd \in lv
        BY <1>6, <1>7, <1>a, <2>2 DEF HeapNextFree
      <3>2. ch[hd].addr <= ch[c].addr
        BY <1>7, <1>a, <2>2, <3>1
      <3>3. HeapNextFree(out, lv, -1, hd)
        BY <1>5, <1>6, <3>1, <3>2
      <3> QED BY <2>2, <3>3
    <2> QED BY <2>1, <2>2
  <1>9. HeapNextFree(out, lv, ch[c].addr, out[c].link)
    <2>1. CASE d = Heap!Null
      BY <1>8, <1>a, <2>1
    <2>2. CASE d # Heap!Null
      <3>1. PICK e : e = ch[d].link
        OBVIOUS
      <3>2. e # Heap!Null => ch[c].addr < ch[e].addr
        <4>1. e # Heap!Null => e \in lv /\ ch[e].free /\ ch[d].addr < ch[e].addr /\ e # c
          BY <1>7, <2>2, <3>1 DEF HeapNextFree
        <4>2. e # Heap!Null => ch[e].addr <= ch[d].addr \/ ch[c].addr <= ch[e].addr
          BY <2>2, <4>1 DEF HeapLastBefore
        <4> QED BY <1>7, <1>a, <1>b, <2>2, <4>1, <4>2
      <3>3. ch[d].addr \in Int /\ HeapNextFree(ch, lv, ch[d].addr, e) /\ ch[d].addr < ch[c].addr
        BY <1>7, <1>a, <2>2, <3>1
      <3>4. HeapNextFree(out, lv, ch[c].addr, e) /\ HeapNextFree(out, lv, ch[d].addr, c)
        BY <1>4, <3>2, <3>3
      <3> QED BY <1>a, <2>2, <3>1, <3>4
    <2> QED BY <2>1, <2>2
  <1>10. d # Heap!Null => HeapNextFree(out, lv, ch[d].addr, c)
    <2> SUFFICES ASSUME d # Heap!Null PROVE HeapNextFree(out, lv, ch[d].addr, c)
      OBVIOUS
    <2>1. PICK e : e = ch[d].link
      OBVIOUS
    <2>2. e # Heap!Null => ch[c].addr < ch[e].addr
      <3>1. e # Heap!Null => e \in lv /\ ch[e].free /\ ch[d].addr < ch[e].addr /\ e # c
        BY <1>7, <2>1 DEF HeapNextFree
      <3>2. e # Heap!Null => ch[e].addr <= ch[d].addr \/ ch[c].addr <= ch[e].addr
        BY <3>1 DEF HeapLastBefore
      <3> QED BY <1>7, <1>a, <1>b, <3>1, <3>2
    <2>3. ch[d].addr \in Int /\ HeapNextFree(ch, lv, ch[d].addr, e) /\ ch[d].addr < ch[c].addr
      BY <1>7, <1>a, <2>1
    <2> QED BY <1>4, <2>2, <2>3
  <1>11. ASSUME NEW x \in lv, ch[x].free, x # d
         PROVE  HeapNextFree(out, lv, ch[x].addr, ch[x].link)
    <2>1. PICK e : e = ch[x].link
      OBVIOUS
    <2>2. HeapNextFree(ch, lv, ch[x].addr, e) /\ ch[x].addr \in Int
      BY <1>0, <1>11, <1>a, <2>1 DEF HeapFreeLinks
    <2>3. ch[c].addr <= ch[x].addr \/ (e # Heap!Null /\ ch[e].addr <= ch[c].addr)
      <3>1. CASE d = Heap!Null
        BY <1>11, <3>1 DEF HeapLastBefore
      <3>2. CASE d # Heap!Null
        <4>1. ch[x].addr <= ch[d].addr \/ ch[c].addr <= ch[x].addr
          BY <1>11, <3>2 DEF HeapLastBefore
        <4>2. ch[x].addr < ch[d].addr \/ ch[c].addr <= ch[x].addr
          BY <1>11, <1>7, <1>a, <1>b, <3>2, <4>1
        <4>3. ch[x].addr < ch[d].addr => e # Heap!Null /\ ch[e].addr <= ch[d].addr /\ e \in lv
          BY <1>7, <1>a, <2>2, <3>2 DEF HeapNextFree
        <4> QED BY <1>7, <1>a, <3>2, <4>2, <4>3
      <3> QED BY <3>1, <3>2
    <2> QED BY <1>5, <2>1, <2>2, <2>3
  <1>12. ASSUME NEW x \in lv, out[x].free
         PROVE  HeapNextFree(out, lv, out[x].addr, out[x].link)
    <2>1. out[x].addr = ch[x].addr
      BY <1>a
    <2>2. CASE x = c
      BY <1>9, <2>1, <2>2
    <2>3. CASE x # c /\ x = d
      <3>1. d # Heap!Null /\ out[x].link = c
        BY <1>0, <1>a, <2>3
      <3> QED BY <1>10, <2>1, <2>3, <3>1
    <2>4. CASE x # c /\ x # d
      <3>1. ch[x].free /\ out[x].link = ch[x].link
        BY <1>12, <1>a, <2>4
      <3> QED BY <1>11, <2>1, <2>4, <3>1
    <2> QED BY <2>2, <2>3, <2>4
  <1>13. HeapFreeLinks(out, lv, IF d = Heap!Null THEN c ELSE hd)
    BY <1>8, <1>12 DEF HeapFreeLinks
  <1> QED BY <1>0, <1>1, <1>2, <1>3, <1>13, <1>a DEF HeapGood

\* InsertFree, with the free chunk before c or none.
LEMMA HeapInsertIs ==
    ASSUME HeapConstants, HeapGood(chunk, live, free_chunk_list), NEW c \in live, ~chunk[c].free,
           Heap!InsertFree(c)
    PROVE  \E d : /\ HeapLastBefore(chunk, live, c, d)
                  /\ HeapInsertFields(chunk, c, d, free_chunk_list, chunk')
                  /\ free_chunk_list' = IF d = Heap!Null THEN c ELSE free_chunk_list
  <1>0. /\ chunk \in [HeapIds -> HeapChunks] /\ live \in SUBSET HeapIds /\ free_chunk_list \in HeapIds \cup {Heap!Null}
        /\ c \in HeapIds /\ Heap!Null \notin HeapIds /\ HeapTotal \in Nat /\ TRUE \in BOOLEAN
    BY DEF HeapGood, HeapConstants, Heap!Null
  <1>a. \A x \in live : chunk[x].addr \in Nat /\ chunk[x].addr <= HeapTotal
    <2>1. \A x \in live : /\ chunk[x].addr \in Nat /\ chunk[x].size \in Nat
                          /\ chunk[x].addr + chunk[x].size <= HeapTotal
      BY <1>0, HeapFields DEF HeapGood, HeapCut
    <2> QED BY <1>0, <2>1
  <1>1. PICK f : f = Heap!Freed(c)
    OBVIOUS
  <1>2. HeapFreeSet(chunk, c, TRUE, f) /\ f \in [HeapIds -> HeapChunks]
    <2>1. HeapFreeSet(chunk, c, TRUE, f)
      BY <1>0, <1>1, HeapFreeIs DEF Heap!Freed
    <2> QED BY <2>1 DEF HeapFreeSet
  <1>3. \A x \in HeapIds : f[x].free = (x = c \/ chunk[x].free)
    <2> SUFFICES ASSUME NEW x \in HeapIds PROVE f[x].free = (x = c \/ chunk[x].free)
      OBVIOUS
    <2>1. CASE x = c
      BY <1>2, <2>1 DEF HeapFreeSet
    <2>2. CASE x # c
      <3>1. f[x].free = chunk[x].free /\ chunk[x].free \in BOOLEAN
        BY <1>0, <1>2, <2>2, HeapFields DEF HeapFreeSet
      <3> QED BY <2>2, <3>1
    <2> QED BY <2>1, <2>2
  <1>4. CASE Heap!Before(c) = {}
    <2>1. chunk' = [f EXCEPT ![c].link = free_chunk_list] /\ free_chunk_list' = c
      BY <1>1, <1>4 DEF Heap!InsertFree
    <2>2. HeapLinkSet(f, c, free_chunk_list, chunk')
      BY <1>0, <1>2, <2>1, HeapLinkIs
    <2>3. HeapInsertFields(chunk, c, Heap!Null, free_chunk_list, chunk')
      <3>1. ASSUME NEW x \in HeapIds
            PROVE  /\ chunk'[x].addr = chunk[x].addr /\ chunk'[x].size = chunk[x].size
                   /\ chunk'[x].next = chunk[x].next /\ chunk'[x].prev = chunk[x].prev
                   /\ chunk'[x].free = (x = c \/ chunk[x].free)
        <4>1. /\ f[x].addr = chunk[x].addr /\ f[x].size = chunk[x].size
              /\ f[x].next = chunk[x].next /\ f[x].prev = chunk[x].prev
          BY <1>2 DEF HeapFreeSet
        <4>2. /\ chunk'[x].addr = f[x].addr /\ chunk'[x].size = f[x].size
              /\ chunk'[x].next = f[x].next /\ chunk'[x].prev = f[x].prev
              /\ chunk'[x].free = f[x].free
          BY <2>2 DEF HeapLinkSet
        <4> QED BY <1>3, <4>1, <4>2
      <3>2. ASSUME NEW x \in HeapIds \ {c}
            PROVE  chunk'[x].link = IF x = Heap!Null THEN c ELSE chunk[x].link
        <4>1. f[x].link = chunk[x].link
          BY <1>2 DEF HeapFreeSet
        <4>2. chunk'[x].link = f[x].link
          BY <2>2 DEF HeapLinkSet
        <4> QED BY <1>0, <4>1, <4>2
      <3>3. chunk' \in [HeapIds -> HeapChunks] /\ chunk'[c].link = free_chunk_list
        BY <1>0, <2>2 DEF HeapLinkSet
      <3> QED BY <3>1, <3>2, <3>3 DEF HeapInsertFields
    <2>4. HeapLastBefore(chunk, live, c, Heap!Null)
      BY <1>4, <1>a DEF HeapLastBefore, Heap!Before
    <2> QED BY <2>1, <2>3, <2>4
  <1>5. CASE Heap!Before(c) # {}
    <2>1. PICK S : S = {chunk[d].addr : d \in Heap!Before(c)}
      OBVIOUS
    <2>2. S \in SUBSET (0..HeapTotal) /\ S # {}
      <3>1. \A d \in Heap!Before(c) : chunk[d].addr \in 0..HeapTotal
        BY <1>0, <1>a DEF Heap!Before
      <3>2. PICK d \in Heap!Before(c) : TRUE
        BY <1>5
      <3> QED BY <2>1, <3>1, <3>2
    <2>3. PICK m \in S : \A n \in S : n <= m
      BY <1>0, <2>2, HeapGreatestExists
    <2>4. \E d \in Heap!Before(c) : \A e \in Heap!Before(c) : chunk[e].addr <= chunk[d].addr
      BY <2>1, <2>3
    <2>5. PICK d : d = Heap!FreeBefore(c)
      OBVIOUS
    <2>6. d \in Heap!Before(c) /\ \A e \in Heap!Before(c) : chunk[e].addr <= chunk[d].addr
      BY <2>4, <2>5 DEF Heap!FreeBefore
    <2>7. d \in live /\ chunk[d].free /\ chunk[d].addr < chunk[c].addr /\ d \in HeapIds /\ d # c
          /\ d # Heap!Null
      BY <1>0, <2>6 DEF Heap!Before
    <2>8. HeapLastBefore(chunk, live, c, d)
      <3>1. ASSUME NEW e \in live, chunk[e].free
            PROVE  chunk[e].addr <= chunk[d].addr \/ chunk[c].addr <= chunk[e].addr
        <4>1. CASE e \in Heap!Before(c)
          BY <2>6, <4>1
        <4>2. CASE e \notin Heap!Before(c)
          BY <1>a, <3>1, <4>2 DEF Heap!Before
        <4> QED BY <4>1, <4>2
      <3> QED BY <2>7, <3>1 DEF HeapLastBefore
    <2>9. PICK v \in HeapIds \cup {Heap!Null} : v = chunk[d].link
      BY <1>0, <2>7, HeapFields
    <2>10. PICK g : g = [f EXCEPT ![c].link = v]
      OBVIOUS
    <2>11. HeapLinkSet(f, c, v, g) /\ g \in [HeapIds -> HeapChunks]
      <3>1. HeapLinkSet(f, c, v, g)
        BY <1>0, <1>2, <2>10, HeapLinkIs
      <3> QED BY <3>1 DEF HeapLinkSet
    <2>12. chunk' = [g EXCEPT ![d].link = c] /\ free_chunk_list' = free_chunk_list
      BY <1>1, <1>5, <2>5, <2>9, <2>10 DEF Heap!InsertFree
    <2>13. HeapLinkSet(g, d, c, chunk')
      <3>1. c \in HeapIds \cup {Heap!Null}
        BY <1>0
      <3> QED BY <2>7, <2>11, <2>12, <3>1, HeapLinkIs
    <2>14. HeapInsertFields(chunk, c, d, free_chunk_list, chunk')
      <3>1. ASSUME NEW x \in HeapIds
            PROVE  /\ chunk'[x].addr = chunk[x].addr /\ chunk'[x].size = chunk[x].size
                   /\ chunk'[x].next = chunk[x].next /\ chunk'[x].prev = chunk[x].prev
                   /\ chunk'[x].free = (x = c \/ chunk[x].free)
        <4>1. /\ f[x].addr = chunk[x].addr /\ f[x].size = chunk[x].size
              /\ f[x].next = chunk[x].next /\ f[x].prev = chunk[x].prev
          BY <1>2 DEF HeapFreeSet
        <4>2. /\ g[x].addr = f[x].addr /\ g[x].size = f[x].size
              /\ g[x].next = f[x].next /\ g[x].prev = f[x].prev /\ g[x].free = f[x].free
          BY <2>11 DEF HeapLinkSet
        <4>3. /\ chunk'[x].addr = g[x].addr /\ chunk'[x].size = g[x].size
              /\ chunk'[x].next = g[x].next /\ chunk'[x].prev = g[x].prev
              /\ chunk'[x].free = g[x].free
          BY <2>13 DEF HeapLinkSet
        <4> QED BY <1>3, <4>1, <4>2, <4>3
      <3>2. ASSUME NEW x \in HeapIds \ {c}
            PROVE  chunk'[x].link = IF x = d THEN c ELSE chunk[x].link
        <4>1. f[x].link = chunk[x].link
          BY <1>2 DEF HeapFreeSet
        <4>2. g[x].link = f[x].link
          BY <2>11 DEF HeapLinkSet
        <4> QED BY <2>13, <4>1, <4>2 DEF HeapLinkSet
      <3>3. chunk' \in [HeapIds -> HeapChunks] /\ chunk'[c].link = v
        <4>1. g[c].link = v
          BY <1>0, <2>11 DEF HeapLinkSet
        <4> QED BY <1>0, <2>7, <2>13, <4>1 DEF HeapLinkSet
      <3> QED BY <2>7, <2>9, <3>1, <3>2, <3>3 DEF HeapInsertFields
    <2> QED BY <2>7, <2>8, <2>12, <2>14
  <1> QED BY <1>4, <1>5

-----------------------------------------------------------------------------
(* Every operation keeps the invariant.                                    *)

\* No two neighbours are free, in the chunks ch.
HeapNoTwins(ch, lv) ==
    \A x \in lv : ch[x].free /\ ch[x].next # Heap!Null => ~ch[ch[x].next].free

\* AskedInUse, in the chunks ch.
HeapSatisfied(ch, lv, as) ==
    \A x \in HeapIds : as[x] # 0 => x \in lv /\ ~ch[x].free /\ as[x] <= ch[x].size

\* The invariant once the main chunk is there, by parts.
LEMMA HeapInvParts ==
    ASSUME main_chunk
    PROVE  HeapInv <=> /\ HeapGood(chunk, live, free_chunk_list) /\ asked \in [HeapIds -> Nat]
                           /\ HeapNoTwins(chunk, live) /\ HeapSatisfied(chunk, live, asked)
                           /\ main_chunk \in BOOLEAN
  <1>1. HeapNoTwins(chunk, live) <=> Heap!Coalesced
    BY DEF HeapNoTwins, Heap!Coalesced, Heap!IsFree
  <1>2. HeapSatisfied(chunk, live, asked) <=> HeapAskedInUse
    BY DEF HeapSatisfied, HeapAskedInUse
  <1> QED BY <1>1, <1>2 DEF HeapInv, HeapGood

\* The chunk that the search of kaapi_memory_alloc keeps, and the one before it
\* in the list.
LEMMA HeapWinnerIs ==
    ASSUME HeapConstants, HeapGood(chunk, live, free_chunk_list), NEW sz \in Nat, Heap!Fits(sz) # {},
           NEW n, n = Heap!Winner(sz), NEW c, c = Heap!FreeAt[n],
           NEW p, p = IF n = 0 THEN Heap!Null ELSE Heap!FreeAt[n - 1]
    PROVE  /\ c \in live /\ chunk[c].free /\ chunk[c].size >= sz
           /\ p = Heap!Null => free_chunk_list = c
           /\ p # Heap!Null => p \in live /\ chunk[p].free /\ chunk[p].link = c /\ p # c
           /\ p \in HeapIds \cup {Heap!Null}
  <1>0. /\ chunk \in [HeapIds -> HeapChunks] /\ live \in SUBSET HeapIds /\ free_chunk_list \in HeapIds \cup {Heap!Null}
        /\ HeapFreeLinks(chunk, live, free_chunk_list) /\ Cardinality(HeapIds) \in Nat
        /\ HeapFollows(Heap!FreeAt, Cardinality(HeapIds))
    BY HeapFreeAtIs DEF HeapGood
  <1>1. Heap!Fits(sz) \in SUBSET (0..Cardinality(HeapIds))
    BY <1>0, HeapSameSize DEF Heap!Fits
  <1>2. \E m \in Heap!Fits(sz) : \A k \in Heap!Fits(sz) : k <= m
    BY <1>0, <1>1, HeapGreatestExists
  <1>3. n \in Heap!Fits(sz)
    BY <1>2 DEF Heap!Winner
  <1>4. n \in 0..Cardinality(HeapIds) /\ Heap!FreeAt[n] # Heap!Null /\ chunk[Heap!FreeAt[n]].size >= sz
    BY <1>1, <1>3, HeapSameSize DEF Heap!Fits
  <1>5. c \in live /\ chunk[c].free /\ chunk[c].size >= sz /\ c # Heap!Null
    BY <1>4, HeapFreeAtFree
  <1>6. CASE n = 0
    BY <1>0, <1>5, <1>6 DEF HeapFollows
  <1>7. CASE n # 0
    <2>1. n - 1 \in 0..Cardinality(HeapIds) /\ c = HeapAfter(Heap!FreeAt[n - 1])
      BY <1>0, <1>4, <1>7 DEF HeapFollows
    <2>2. p = Heap!FreeAt[n - 1] /\ p # Heap!Null /\ chunk[p].link = c
      BY <1>5, <1>7, <2>1 DEF HeapAfter
    <2>3. p \in live /\ chunk[p].free
      BY <2>1, <2>2, HeapFreeAtFree
    <2>4. HeapNextFree(chunk, live, chunk[p].addr, c)
      BY <1>0, <2>2, <2>3 DEF HeapFreeLinks
    <2>5. chunk[p].addr < chunk[c].addr /\ chunk[p].addr \in Nat
      BY <1>0, <1>5, <2>3, <2>4, HeapFields DEF HeapNextFree
    <2>6. p # c
      BY <2>5
    <2> QED BY <1>0, <1>5, <2>2, <2>3, <2>6
  <1> QED BY <1>6, <1>7

\* Alloc
LEMMA HeapAllocKeeps ==
    ASSUME HeapConstants, HeapInv, NEW sz \in HeapSizes, Heap!Alloc(sz)
    PROVE  HeapInv'
  <1>0. sz \in Nat \ {0} /\ sz \in Nat /\ main_chunk /\ main_chunk \in BOOLEAN
    BY DEF HeapConstants, Heap!Alloc, HeapInv
  <1>a. /\ HeapGood(chunk, live, free_chunk_list) /\ asked \in [HeapIds -> Nat]
        /\ HeapNoTwins(chunk, live) /\ HeapSatisfied(chunk, live, asked)
    BY <1>0, HeapInvParts
  <1>b. /\ chunk \in [HeapIds -> HeapChunks] /\ live \in SUBSET HeapIds /\ free_chunk_list \in HeapIds \cup {Heap!Null}
        /\ HeapNexts(chunk, live) /\ Heap!Null \notin HeapIds
    BY <1>a DEF HeapGood, HeapConstants, Heap!Null
  <1>1. CASE Heap!Fits(sz) = {}
    <2>1. UNCHANGED Heap!vars
      BY <1>1 DEF Heap!Alloc
    <2> QED BY <2>1 DEF Heap!vars, HeapInv, Heap!Coalesced, Heap!IsFree, HeapAskedInUse
  <1>2. CASE Heap!Fits(sz) # {}
    <2>1. PICK n : n = Heap!Winner(sz)
      OBVIOUS
    <2>2. PICK c : c = Heap!FreeAt[n]
      OBVIOUS
    <2>3. PICK p : p = IF n = 0 THEN Heap!Null ELSE Heap!FreeAt[n - 1]
      OBVIOUS
    <2>4. PICK r : r = Heap!NewId(live)
      OBVIOUS
    <2>5. PICK ch : ch = IF Heap!Split(c, sz) THEN Heap!SplitChunk(c, sz, r) ELSE chunk
      OBVIOUS
    <2>6. /\ live' = IF Heap!Split(c, sz) THEN live \cup {r} ELSE live
          /\ chunk' = Heap!Unlink(ch, c, p)
          /\ free_chunk_list' = IF p = Heap!Null THEN ch[c].link ELSE free_chunk_list
          /\ asked' = [asked EXCEPT ![c] = sz]
          /\ main_chunk' = main_chunk
      BY <1>2, <2>1, <2>2, <2>3, <2>4, <2>5, Zenon DEF Heap!Alloc
    <2>7. /\ c \in live /\ chunk[c].free /\ chunk[c].size >= sz
          /\ p = Heap!Null => free_chunk_list = c
          /\ p # Heap!Null => p \in live /\ chunk[p].free /\ chunk[p].link = c /\ p # c
          /\ p \in HeapIds \cup {Heap!Null}
      BY <1>0, <1>2, <1>a, <2>1, <2>2, <2>3, HeapWinnerIs
    <2>8. c \in HeapIds /\ c # p /\ chunk[c].size \in Nat /\ chunk[c].next \in HeapIds \cup {Heap!Null}
      BY <1>b, <2>7, HeapFields
    <2>9. chunk[c].next # Heap!Null => chunk[c].next \in live /\ chunk[chunk[c].next].prev = c
                                  /\ ~chunk[chunk[c].next].free
      BY <1>a, <1>b, <2>7, HeapNextOfPrev DEF HeapGood, HeapNoTwins
    <2>10. CASE Heap!Split(c, sz)
      <3>1. sz < chunk[c].size /\ chunk[c].size > 1
        BY <1>0, <2>7, <2>8, <2>10 DEF Heap!Split
      <3>2. r \in HeapIds \ live /\ r # c
        BY <1>a, <2>4, <2>7, <3>1, HeapNewIdIsNew
      <3>3. chunk[c].next # r
        BY <1>b, <2>9, <3>2
      <3>4. ch = Heap!SplitChunk(c, sz, r)
        BY <2>5, <2>10
      <3>5. HeapSplitFields(chunk, c, sz, r, ch)
        BY <1>0, <1>b, <2>8, <3>1, <3>2, <3>3, <3>4, HeapSplitIs
      <3>6. HeapGood(ch, live \cup {r}, free_chunk_list)
        BY <1>0, <1>a, <2>7, <3>1, <3>2, <3>5, HeapSplitGood
      <3>7. ch \in [HeapIds -> HeapChunks]
        BY <3>5 DEF HeapSplitFields
      <3>8. ch[c].free /\ c \in live \cup {r} /\ ch[c].size = sz /\ ch[c].next = r
        BY <2>7, <2>8, <3>2, <3>5 DEF HeapSplitFields
      <3>9. p # Heap!Null => p \in live \cup {r} /\ ch[p].free /\ ch[p].link = c
        BY <1>b, <2>7, <3>2, <3>5 DEF HeapSplitFields
      <3>10. HeapUnlinkFields(ch, c, p, chunk')
        BY <2>6, <2>7, <2>8, <3>7, HeapUnlinkIs
      <3>11. HeapGood(chunk', live', free_chunk_list')
        BY <2>6, <2>7, <2>10, <3>6, <3>8, <3>9, <3>10, HeapUnlinkGood
      <3>12. \A x \in live : /\ chunk'[x].free <=> (x # c /\ chunk[x].free)
                             /\ x # c => chunk'[x].next = chunk[x].next
                                         /\ chunk'[x].size = chunk[x].size
        <4> SUFFICES ASSUME NEW x \in live
                     PROVE  /\ chunk'[x].free <=> (x # c /\ chunk[x].free)
                            /\ x # c => chunk'[x].next = chunk[x].next
                                        /\ chunk'[x].size = chunk[x].size
          OBVIOUS
        <4>1. x \in HeapIds \ {r} /\ x \in HeapIds
          BY <1>b, <3>2
        <4>2. /\ ch[x].free = chunk[x].free
              /\ x # c => ch[x].next = chunk[x].next /\ ch[x].size = chunk[x].size
          BY <3>5, <4>1 DEF HeapSplitFields
        <4>3. /\ chunk'[x].free = (x # c /\ ch[x].free)
              /\ chunk'[x].next = ch[x].next /\ chunk'[x].size = ch[x].size
          BY <3>10, <4>1 DEF HeapUnlinkFields
        <4> QED BY <4>2, <4>3
      <3>13. chunk'[c].size = sz /\ chunk'[r].next = chunk[c].next
        BY <2>8, <3>2, <3>5, <3>8, <3>10 DEF HeapUnlinkFields, HeapSplitFields
      <3>14. HeapNoTwins(chunk', live')
        <4>1. ASSUME NEW x \in live, chunk'[x].free, chunk'[x].next # Heap!Null
              PROVE  ~chunk'[chunk'[x].next].free
          <5>1. x # c /\ chunk[x].free /\ chunk'[x].next = chunk[x].next
            BY <3>12, <4>1
          <5>2. chunk[x].next \in live
            BY <1>a, <1>b, <4>1, <5>1, HeapNextOfPrev DEF HeapGood
          <5>3. ~chunk[chunk[x].next].free
            BY <1>a, <4>1, <5>1 DEF HeapNoTwins
          <5> QED BY <3>12, <5>1, <5>2, <5>3
        <4>2. chunk'[r].next # Heap!Null => ~chunk'[chunk'[r].next].free
          BY <2>9, <3>12, <3>13
        <4>3. live' = live \cup {r}
          BY <2>6, <2>10
        <4> QED BY <4>1, <4>2, <4>3 DEF HeapNoTwins
      <3>15. HeapSatisfied(chunk', live', asked')
        <4> SUFFICES ASSUME NEW x \in HeapIds, asked'[x] # 0
                     PROVE  x \in live' /\ ~chunk'[x].free /\ asked'[x] <= chunk'[x].size
          BY DEF HeapSatisfied
        <4>1. CASE x = c
          BY <1>0, <1>a, <2>6, <2>7, <2>8, <2>10, <3>12, <3>13, <4>1
        <4>2. CASE x # c
          <5>1. asked'[x] = asked[x]
            BY <1>a, <2>6, <4>2
          <5>2. x \in live /\ ~chunk[x].free /\ asked[x] <= chunk[x].size
            BY <1>a, <5>1 DEF HeapSatisfied
          <5> QED BY <2>6, <2>10, <3>12, <4>2, <5>1, <5>2
        <4> QED BY <4>1, <4>2
      <3>16. asked' \in [HeapIds -> Nat]
        BY <1>0, <1>a, <2>6
      <3> QED BY <1>0, <2>6, <3>11, <3>14, <3>15, <3>16 DEF HeapInv, HeapNoTwins, HeapSatisfied, Heap!Coalesced, Heap!IsFree, HeapAskedInUse, HeapGood
    <2>11. CASE ~Heap!Split(c, sz)
      <3>1. ch = chunk /\ live' = live
        BY <2>5, <2>6, <2>11
      <3>2. HeapUnlinkFields(chunk, c, p, chunk')
        BY <1>b, <2>6, <2>7, <2>8, <3>1, HeapUnlinkIs
      <3>3. HeapGood(chunk', live', free_chunk_list')
        BY <1>a, <2>6, <2>7, <3>1, <3>2, HeapUnlinkGood
      <3>4. \A x \in HeapIds : /\ chunk'[x].free <=> (x # c /\ chunk[x].free)
                               /\ chunk'[x].next = chunk[x].next /\ chunk'[x].size = chunk[x].size
        BY <3>2 DEF HeapUnlinkFields
      <3>5. HeapNoTwins(chunk', live')
        <4> SUFFICES ASSUME NEW x \in live, chunk'[x].free, chunk'[x].next # Heap!Null
                     PROVE  ~chunk'[chunk'[x].next].free
          BY <3>1 DEF HeapNoTwins
        <4>1. chunk[x].free /\ chunk'[x].next = chunk[x].next
          BY <1>b, <3>4
        <4>2. chunk[x].next \in live /\ ~chunk[chunk[x].next].free
          BY <1>a, <1>b, <4>1, HeapNextOfPrev DEF HeapGood, HeapNoTwins
        <4> QED BY <1>b, <3>4, <4>1, <4>2
      <3>6. HeapSatisfied(chunk', live', asked')
        <4> SUFFICES ASSUME NEW x \in HeapIds, asked'[x] # 0
                     PROVE  x \in live' /\ ~chunk'[x].free /\ asked'[x] <= chunk'[x].size
          BY DEF HeapSatisfied
        <4>1. CASE x = c
          <5>1. asked'[x] = sz /\ chunk'[x].size = chunk[c].size /\ ~chunk'[x].free
            BY <1>a, <2>6, <2>8, <3>4, <4>1
          <5> QED BY <1>0, <2>7, <2>8, <3>1, <4>1, <5>1
        <4>2. CASE x # c
          <5>1. asked'[x] = asked[x]
            BY <1>a, <2>6, <4>2
          <5>2. x \in live /\ ~chunk[x].free /\ asked[x] <= chunk[x].size
            BY <1>a, <5>1 DEF HeapSatisfied
          <5> QED BY <3>1, <3>4, <4>2, <5>1, <5>2
        <4> QED BY <4>1, <4>2
      <3>7. asked' \in [HeapIds -> Nat]
        BY <1>0, <1>a, <2>6
      <3> QED BY <1>0, <2>6, <3>3, <3>5, <3>6, <3>7 DEF HeapInv, HeapNoTwins, HeapSatisfied, Heap!Coalesced, Heap!IsFree, HeapAskedInUse, HeapGood
    <2> QED BY <2>10, <2>11
  <1> QED BY <1>1, <1>2

\* What the chunks are after a free, whatever was merged: the chunks gone had no
\* request but that of c, the others keep their use, and only free ones grow.
HeapFreedFields(c, gone) ==
    /\ live' = live \ gone /\ gone \subseteq HeapIds
    /\ \A x \in live' : ~chunk[x].free /\ x # c =>
          ~chunk'[x].free /\ chunk'[x].size = chunk[x].size
    /\ \A x \in gone : x = c \/ chunk[x].free

\* Then the requests stay satisfied.
LEMMA HeapFreedKeepsAsked ==
    ASSUME NEW c, NEW gone, HeapFreedFields(c, gone), asked' = [asked EXCEPT ![c] = 0],
           asked \in [HeapIds -> Nat], HeapSatisfied(chunk, live, asked), c \in HeapIds
    PROVE  HeapSatisfied(chunk', live', asked') /\ asked' \in [HeapIds -> Nat]
  <1>1. asked' \in [HeapIds -> Nat]
    OBVIOUS
  <1>2. ASSUME NEW x \in HeapIds, asked'[x] # 0
        PROVE  x \in live' /\ ~chunk'[x].free /\ asked'[x] <= chunk'[x].size
    <2>1. x # c /\ asked'[x] = asked[x]
      BY <1>2
    <2>2. x \in live /\ ~chunk[x].free /\ asked[x] <= chunk[x].size
      BY <1>2, <2>1 DEF HeapSatisfied
    <2>3. x \in live'
      BY <2>1, <2>2 DEF HeapFreedFields
    <2> QED BY <2>1, <2>2, <2>3 DEF HeapFreedFields
  <1> QED BY <1>1, <1>2 DEF HeapSatisfied

\* Free
LEMMA HeapFreeKeeps ==
    ASSUME HeapConstants, HeapInv, NEW c \in HeapIds, Heap!Free(c)
    PROVE  HeapInv'
  <1>0. c \in live /\ ~chunk[c].free /\ main_chunk
    <2>1. c \in live /\ ~chunk[c].free
      BY DEF Heap!Free
    <2> QED BY <2>1 DEF HeapInv
  <1>a. /\ HeapGood(chunk, live, free_chunk_list) /\ asked \in [HeapIds -> Nat]
        /\ HeapNoTwins(chunk, live) /\ HeapSatisfied(chunk, live, asked) /\ main_chunk \in BOOLEAN
    BY <1>0, HeapInvParts
  <1>b. /\ chunk \in [HeapIds -> HeapChunks] /\ live \in SUBSET HeapIds /\ free_chunk_list \in HeapIds \cup {Heap!Null}
        /\ HeapCut(chunk, live) /\ HeapNexts(chunk, live) /\ HeapPrevs(chunk, live) /\ Heap!Null \notin HeapIds
    BY <1>a DEF HeapGood, HeapConstants, Heap!Null
  <1>1. PICK n : n = chunk[c].next
    OBVIOUS
  <1>2. PICK p : p = chunk[c].prev
    OBVIOUS
  <1>3. /\ p # Heap!Null => p \in live /\ chunk[p].next = c /\ p # c /\ p \in HeapIds
        /\ n # Heap!Null => n \in live /\ chunk[n].prev = c /\ n # c /\ n \in HeapIds
        /\ n # Heap!Null => n # p
    <2>1. p # Heap!Null => p \in live /\ chunk[p].next = c
      BY <1>0, <1>b, <1>2, HeapNextOfPrev
    <2>2. n # Heap!Null => n \in live /\ chunk[n].prev = c
      BY <1>0, <1>b, <1>1, HeapNextOfPrev
    <2>3. \A x \in live : /\ chunk[x].addr \in Nat /\ chunk[x].size \in Nat /\ chunk[x].size > 0
                          /\ chunk[x].addr + chunk[x].size # HeapTotal =>
                                chunk[x].next \in live
                                /\ chunk[chunk[x].next].addr = chunk[x].addr + chunk[x].size
                          /\ chunk[x].addr + chunk[x].size = HeapTotal => chunk[x].next = Heap!Null
      BY <1>b, HeapFields DEF HeapCut, HeapNexts
    <2>4. n # Heap!Null => chunk[n].addr = chunk[c].addr + chunk[c].size
      BY <1>0, <1>1, <2>3
    <2>5. p # Heap!Null => chunk[c].addr = chunk[p].addr + chunk[p].size
      BY <1>0, <1>b, <2>1, <2>3
    <2>6. n # Heap!Null => n # c /\ n # p
      BY <1>0, <2>1, <2>2, <2>3, <2>4, <2>5
    <2>7. p # Heap!Null => p # c
      BY <1>0, <2>1, <2>3, <2>5
    <2> QED BY <1>b, <2>1, <2>2, <2>6, <2>7
  \* The chunk after a free one is not free.
  <1>c. \A x \in live : chunk[x].next # Heap!Null =>
            /\ chunk[x].next \in live /\ chunk[chunk[x].next].prev = x
            /\ chunk[x].free => ~chunk[chunk[x].next].free
    BY <1>a, <1>b, HeapNextOfPrev DEF HeapNoTwins
  <1>d. asked' = [asked EXCEPT ![c] = 0] /\ main_chunk' = main_chunk
    BY DEF Heap!Free
  <1>e. Heap!IsFree(n) <=> n # Heap!Null /\ chunk[n].free
    BY DEF Heap!IsFree
  <1>f. Heap!IsFree(p) <=> p # Heap!Null /\ chunk[p].free
    BY DEF Heap!IsFree
  \* It is enough to show these.
  <1>g. ASSUME HeapGood(chunk', live', free_chunk_list'), HeapNoTwins(chunk', live'),
               \E gone : HeapFreedFields(c, gone)
        PROVE  HeapInv'
    <2>1. HeapSatisfied(chunk', live', asked') /\ asked' \in [HeapIds -> Nat]
      BY <1>a, <1>d, <1>g, HeapFreedKeepsAsked
    <2> QED BY <1>0, <1>a, <1>d, <1>g, <2>1
          DEF HeapInv, HeapNoTwins, HeapSatisfied, Heap!Coalesced, Heap!IsFree, HeapAskedInUse, HeapGood
  <1>4. CASE Heap!IsFree(n)
    <2>0. n # Heap!Null /\ chunk[n].free /\ n \in HeapIds /\ n \in live /\ n # c
      BY <1>3, <1>4, <1>e
    <2>1. PICK m : m = Heap!MergeNext(c)
      OBVIOUS
    <2>2. HeapNextFields(chunk, c, n, m)
      BY <1>1, <1>b, <2>0, <2>1, HeapNextMergeIs
    <2>3. HeapGood(m, live \ {c}, free_chunk_list)
      BY <1>0, <1>1, <1>a, <2>0, <2>2, HeapNextGood
    <2>4. m \in [HeapIds -> HeapChunks]
      BY <2>2 DEF HeapNextFields
    <2>5. \A x \in HeapIds : /\ m[x].free = chunk[x].free
                             /\ m[x].next = IF x = p THEN n ELSE chunk[x].next
                             /\ x # n => m[x].size = chunk[x].size
      BY <1>2, <2>2 DEF HeapNextFields
    <2>6. CASE ~Heap!IsFree(p)
      <3>1. /\ chunk' = Heap!Without(m, {c}) /\ live' = live \ {c}
            /\ free_chunk_list' = free_chunk_list
        BY <1>1, <1>2, <1>4, <2>1, <2>6 DEF Heap!Free
      <3>2. HeapGood(chunk', live', free_chunk_list')
        BY <2>3, <3>1, HeapWithoutGood
      <3>3. \A x \in live' : chunk'[x] = m[x] /\ x \in HeapIds /\ x # c /\ x \in live
        BY <1>b, <3>1 DEF Heap!Without
      <3>f. \A y \in live' : chunk'[y].free = chunk[y].free
        BY <2>5, <3>3
      <3>4. HeapNoTwins(chunk', live')
        <4> SUFFICES ASSUME NEW x \in live', chunk'[x].free, chunk'[x].next # Heap!Null
                     PROVE  ~chunk'[chunk'[x].next].free
          BY DEF HeapNoTwins
        <4>1. chunk[x].free /\ x # c /\ x \in live /\ x \in HeapIds
          BY <2>5, <3>3
        <4>2. x # p
          BY <1>3, <1>b, <1>f, <2>6, <4>1
        <4>3. chunk'[x].next = chunk[x].next
          BY <2>5, <3>3, <4>1, <4>2
        <4>4. chunk[x].next \in live /\ chunk[x].next # c /\ ~chunk[chunk[x].next].free
          BY <1>2, <1>c, <4>1, <4>2, <4>3
        <4>5. PICK y : y = chunk[x].next
          OBVIOUS
        <4>6. y \in live' /\ ~chunk[y].free
          BY <3>1, <4>4, <4>5
        <4> QED BY <3>f, <4>3, <4>5, <4>6
      <3>5. HeapFreedFields(c, {c})
        BY <2>0, <2>5, <3>1, <3>3 DEF HeapFreedFields
      <3> QED BY <1>g, <3>2, <3>4, <3>5
    <2>7. CASE Heap!IsFree(p)
      <3>0. p # Heap!Null /\ chunk[p].free /\ p \in HeapIds /\ p \in live /\ p # c /\ n # p
        BY <1>3, <1>f, <2>0, <2>7
      <3>1. PICK lk : lk = m[n].link
        OBVIOUS
      <3>2. PICK o : o = Heap!MergeInto(m, p, n, lk)
        OBVIOUS
      <3>3. lk \in HeapIds \cup {Heap!Null} /\ m[p].free /\ m[n].free /\ m[p].next = n
        BY <2>0, <2>4, <2>5, <3>0, <3>1, HeapFields
      <3>4. HeapIntoFields(m, p, n, lk, o)
        BY <2>0, <2>4, <3>0, <3>2, <3>3, HeapIntoIs
      <3>5. HeapGood(o, (live \ {c}) \ {n}, free_chunk_list)
        BY <2>0, <2>3, <3>0, <3>1, <3>3, <3>4, HeapIntoGood
      <3>6. o = Heap!MergeBoth(c)
        BY <1>1, <1>2, <2>1, <3>1, <3>2 DEF Heap!MergeBoth
      <3>7. /\ chunk' = Heap!Without(o, {c, n}) /\ live' = live \ {c, n}
            /\ free_chunk_list' = free_chunk_list
        BY <1>1, <1>2, <1>4, <2>7, <3>6 DEF Heap!Free
      <3>8. live' = (live \ {c}) \ {n}
        BY <3>7
      <3>9. HeapGood(chunk', live', free_chunk_list')
        BY <3>5, <3>7, <3>8, HeapWithoutGood
      <3>10. \A x \in live' : chunk'[x] = o[x] /\ x \in HeapIds /\ x # c /\ x # n /\ x \in live
        BY <1>b, <3>7 DEF Heap!Without
      <3>11. \A x \in HeapIds : /\ o[x].free = m[x].free
                                /\ o[x].next = IF x = p THEN m[n].next ELSE m[x].next
                                /\ x # p => o[x].size = m[x].size
        BY <3>4 DEF HeapIntoFields
      <3>12. m[n].next = chunk[n].next
        BY <2>0, <2>5, <3>0
      <3>f. \A y \in live' : chunk'[y].free = chunk[y].free
        BY <2>5, <3>10, <3>11
      <3>13. HeapNoTwins(chunk', live')
        <4> SUFFICES ASSUME NEW x \in live', chunk'[x].free, chunk'[x].next # Heap!Null
                     PROVE  ~chunk'[chunk'[x].next].free
          BY DEF HeapNoTwins
        <4>1. chunk[x].free /\ x # c /\ x # n /\ x \in live /\ x \in HeapIds
          BY <2>5, <3>10, <3>11
        <4>2. CASE x = p
          <5>1. chunk'[x].next = chunk[n].next
            BY <3>10, <3>11, <3>12, <4>2
          <5>2. chunk[n].next \in live /\ ~chunk[chunk[n].next].free
                /\ chunk[chunk[n].next].prev = n
            BY <1>c, <2>0, <5>1
          <5>3. chunk[n].next # c /\ chunk[n].next # n
            BY <1>2, <2>0, <3>0, <5>2
          <5>4. PICK y : y = chunk[n].next
            OBVIOUS
          <5>5. y \in live' /\ ~chunk[y].free
            BY <3>7, <5>2, <5>3, <5>4
          <5> QED BY <3>f, <5>1, <5>4, <5>5
        <4>3. CASE x # p
          <5>1. chunk'[x].next = chunk[x].next
            BY <2>5, <3>10, <3>11, <4>1, <4>3
          <5>2. chunk[x].next \in live /\ ~chunk[chunk[x].next].free
                /\ chunk[chunk[x].next].prev = x
            BY <1>c, <4>1, <5>1
          <5>3. chunk[x].next # c /\ chunk[x].next # n
            BY <1>2, <2>0, <4>3, <5>2
          <5>4. PICK y : y = chunk[x].next
            OBVIOUS
          <5>5. y \in live' /\ ~chunk[y].free
            BY <3>7, <5>2, <5>3, <5>4
          <5> QED BY <3>f, <5>1, <5>4, <5>5
        <4> QED BY <4>2, <4>3
      <3>14. HeapFreedFields(c, {c, n})
        <4>1. ASSUME NEW x \in live', ~chunk[x].free
              PROVE  ~chunk'[x].free /\ chunk'[x].size = chunk[x].size
          BY <2>5, <3>0, <3>10, <3>11, <4>1
        <4> QED BY <2>0, <3>7, <4>1 DEF HeapFreedFields
      <3> QED BY <1>g, <3>9, <3>13, <3>14
    <2> QED BY <2>6, <2>7
  <1>5. CASE ~Heap!IsFree(n) /\ Heap!IsFree(p)
    <2>0. p # Heap!Null /\ chunk[p].free /\ p \in HeapIds /\ p \in live /\ p # c /\ chunk[p].next = c
      BY <1>3, <1>5, <1>f
    <2>1. PICK lk : lk = chunk[p].link
      OBVIOUS
    <2>2. PICK o : o = Heap!MergeInto(chunk, p, c, lk)
      OBVIOUS
    <2>3. lk \in HeapIds \cup {Heap!Null}
      BY <1>b, <2>0, <2>1, HeapFields
    <2>4. HeapIntoFields(chunk, p, c, lk, o)
      BY <1>b, <2>0, <2>2, <2>3, HeapIntoIs
    <2>5. HeapGood(o, live \ {c}, free_chunk_list)
      BY <1>0, <1>a, <2>0, <2>1, <2>4, HeapIntoGood
    <2>6. /\ chunk' = Heap!Without(o, {c}) /\ live' = live \ {c}
          /\ free_chunk_list' = free_chunk_list
      BY <1>1, <1>2, <1>5, <2>1, <2>2 DEF Heap!Free
    <2>7. HeapGood(chunk', live', free_chunk_list')
      BY <2>5, <2>6, HeapWithoutGood
    <2>8. \A x \in live' : chunk'[x] = o[x] /\ x \in HeapIds /\ x # c /\ x \in live
      BY <1>b, <2>6 DEF Heap!Without
    <2>9. \A x \in HeapIds : /\ o[x].free = chunk[x].free
                             /\ o[x].next = IF x = p THEN n ELSE chunk[x].next
                             /\ x # p => o[x].size = chunk[x].size
      BY <1>1, <2>4 DEF HeapIntoFields
    <2>f. \A y \in live' : chunk'[y].free = chunk[y].free
      BY <2>8, <2>9
    <2>10. HeapNoTwins(chunk', live')
      <3> SUFFICES ASSUME NEW x \in live', chunk'[x].free, chunk'[x].next # Heap!Null
                   PROVE  ~chunk'[chunk'[x].next].free
        BY DEF HeapNoTwins
      <3>1. chunk[x].free /\ x # c /\ x \in live /\ x \in HeapIds
        BY <2>8, <2>9
      <3>2. CASE x = p
        <4>1. chunk'[x].next = n /\ n # Heap!Null
          BY <2>8, <2>9, <3>2
        <4>2. n \in live /\ n # c /\ ~chunk[n].free
          BY <1>3, <1>5, <1>e, <4>1
        <4>3. n \in live'
          BY <2>6, <4>2
        <4> QED BY <2>f, <4>1, <4>2, <4>3
      <3>3. CASE x # p
        <4>1. chunk'[x].next = chunk[x].next
          BY <2>8, <2>9, <3>1, <3>3
        <4>2. chunk[x].next \in live /\ ~chunk[chunk[x].next].free
              /\ chunk[chunk[x].next].prev = x
          BY <1>c, <3>1, <4>1
        <4>3. chunk[x].next # c
          BY <1>2, <3>3, <4>2
        <4>4. PICK y : y = chunk[x].next
          OBVIOUS
        <4>5. y \in live' /\ ~chunk[y].free
          BY <2>6, <4>2, <4>3, <4>4
        <4> QED BY <2>f, <4>1, <4>4, <4>5
      <3> QED BY <3>2, <3>3
    <2>11. HeapFreedFields(c, {c})
      <3>1. ASSUME NEW x \in live', ~chunk[x].free
            PROVE  ~chunk'[x].free /\ chunk'[x].size = chunk[x].size
        BY <2>0, <2>8, <2>9, <3>1
      <3> QED BY <2>6, <3>1 DEF HeapFreedFields
    <2> QED BY <1>g, <2>7, <2>10, <2>11
  <1>6. CASE ~Heap!IsFree(n) /\ ~Heap!IsFree(p)
    <2>1. Heap!InsertFree(c) /\ live' = live
      BY <1>1, <1>2, <1>6 DEF Heap!Free
    <2>2. PICK d : /\ HeapLastBefore(chunk, live, c, d)
                   /\ HeapInsertFields(chunk, c, d, free_chunk_list, chunk')
                   /\ free_chunk_list' = IF d = Heap!Null THEN c ELSE free_chunk_list
      BY <1>0, <1>a, <2>1, HeapInsertIs
    <2>3. HeapGood(chunk', live', free_chunk_list')
      BY <1>0, <1>a, <2>1, <2>2, HeapInsertGood
    <2>4. \A x \in HeapIds : /\ chunk'[x].free = (x = c \/ chunk[x].free)
                             /\ chunk'[x].next = chunk[x].next /\ chunk'[x].size = chunk[x].size
      BY <2>2 DEF HeapInsertFields
    <2>5. HeapNoTwins(chunk', live')
      <3> SUFFICES ASSUME NEW x \in live, chunk'[x].free, chunk'[x].next # Heap!Null
                   PROVE  ~chunk'[chunk'[x].next].free
        BY <2>1 DEF HeapNoTwins
      <3>0. x \in HeapIds /\ chunk'[x].next = chunk[x].next
        BY <1>b, <2>4
      <3>1. chunk[x].next \in live /\ chunk[x].next \in HeapIds /\ chunk[chunk[x].next].prev = x
        BY <1>b, <1>c, <3>0
      <3>2. CASE x = c
        <4>1. chunk[x].next = n /\ n # c /\ ~chunk[n].free /\ n \in HeapIds
          BY <1>1, <1>3, <1>6, <1>e, <3>0, <3>1, <3>2
        <4> QED BY <2>4, <3>0, <4>1
      <3>3. CASE x # c
        <4>1. chunk[x].free
          BY <2>4, <3>0, <3>3
        <4>2. x # p /\ ~chunk[chunk[x].next].free
          BY <1>6, <1>b, <1>c, <1>f, <3>0, <4>1
        <4>3. chunk[x].next # c
          BY <1>2, <3>1, <4>2
        <4> QED BY <2>4, <3>0, <3>1, <4>2, <4>3
      <3> QED BY <3>2, <3>3
    <2>6. HeapFreedFields(c, {})
      <3>1. ASSUME NEW x \in live', ~chunk[x].free, x # c
            PROVE  ~chunk'[x].free /\ chunk'[x].size = chunk[x].size
        BY <1>b, <2>1, <2>4, <3>1
      <3> QED BY <2>1, <3>1 DEF HeapFreedFields
    <2> QED BY <1>g, <2>3, <2>5, <2>6
  <1> QED BY <1>4, <1>5, <1>6

\* MainChunk
LEMMA HeapMainChunkKeeps ==
    ASSUME HeapConstants, HeapInv, Heap!MainChunk
    PROVE  HeapInv'
  <1>0. /\ ~main_chunk /\ live = {} /\ free_chunk_list = Heap!Null /\ 1 \in HeapIds /\ HeapTotal \in Nat \ {0}
        /\ chunk \in [HeapIds -> HeapChunks] /\ asked \in [HeapIds -> Nat] /\ HeapAskedInUse /\ Heap!Null \notin HeapIds
        /\ asked' = asked /\ main_chunk' = TRUE /\ live' = {1} /\ free_chunk_list' = 1
    BY DEF HeapInv, Heap!MainChunk, HeapConstants, Heap!Null
  <1>1. PICK z : z = [Heap!Dead EXCEPT !.size = HeapTotal]
    OBVIOUS
  <1>2. z = [addr |-> 0, size |-> HeapTotal, free |-> FALSE, prev |-> Heap!Null, next |-> Heap!Null,
             link |-> Heap!Null]
    BY <1>1 DEF Heap!Dead
  <1>3. z \in HeapChunks
    <2>1. 0 \in Nat /\ HeapTotal \in Nat /\ FALSE \in BOOLEAN /\ Heap!Null \in HeapIds \cup {Heap!Null}
      BY <1>0
    <2> QED BY <1>2, <2>1, HeapIsChunk
  <1>a. PICK t \in BOOLEAN : t = TRUE
    OBVIOUS
  <1>b. PICK e : e = [z EXCEPT !.free = t]
    OBVIOUS
  <1>c. e \in HeapChunks
    BY <1>3, <1>b DEF HeapChunks
  <1>6. /\ e.addr = 0 /\ e.size = HeapTotal /\ e.free /\ e.prev = Heap!Null /\ e.next = Heap!Null
        /\ e.link = Heap!Null
    BY <1>2, <1>a, <1>b
  <1>4. chunk' = [chunk EXCEPT ![1] = e]
    <2>1. e = [Heap!Dead EXCEPT !.size = HeapTotal, !.free = TRUE]
      BY <1>1, <1>a, <1>b
    <2> QED BY <2>1 DEF Heap!MainChunk
  <1>5. chunk' \in [HeapIds -> HeapChunks] /\ chunk'[1] = e
    BY <1>0, <1>c, <1>4
  <1>7. HeapCut(chunk', live') /\ HeapNexts(chunk', live') /\ HeapPrevs(chunk', live')
    BY <1>0, <1>5, <1>6 DEF HeapCut, HeapNexts, HeapPrevs
  <1>8. HeapFreeLinks(chunk', live', free_chunk_list')
    <2>1. 1 # Heap!Null
      BY DEF Heap!Null
    <2> QED BY <1>0, <1>5, <1>6, <2>1 DEF HeapFreeLinks, HeapNextFree
  <1>9. HeapGood(chunk', live', free_chunk_list')
    BY <1>0, <1>5, <1>7, <1>8 DEF HeapGood
  <1>10. Heap!Coalesced'
    BY <1>0, <1>5, <1>6 DEF Heap!Coalesced, Heap!IsFree
  <1>11. HeapAskedInUse'
    BY <1>0 DEF HeapAskedInUse
  <1> QED BY <1>0, <1>5, <1>9, <1>10, <1>11 DEF HeapInv, HeapGood

\* At the start.
LEMMA HeapInitRight ==
    ASSUME HeapConstants, Heap!Init
    PROVE  HeapInv
  <1>1. Heap!Dead \in HeapChunks
    <2>1. 0 \in Nat /\ FALSE \in BOOLEAN /\ Heap!Null \in HeapIds \cup {Heap!Null}
      OBVIOUS
    <2> QED BY <2>1, HeapIsChunk DEF Heap!Dead
  <1>2. chunk \in [HeapIds -> HeapChunks] /\ asked \in [HeapIds -> Nat] /\ live = {}
        /\ free_chunk_list = Heap!Null /\ main_chunk = FALSE /\ \A c \in HeapIds : asked[c] = 0
    BY <1>1 DEF Heap!Init
  <1>3. Heap!Coalesced /\ HeapAskedInUse
    BY <1>2 DEF Heap!Coalesced, HeapAskedInUse
  <1> QED BY <1>2, <1>3 DEF HeapInv

\* The heap takes a step or stands still.
LEMMA HeapStepKeeps ==
    ASSUME HeapConstants, HeapInv, [Heap!Next]_(Heap!vars)
    PROVE  HeapInv'
  <1>1. CASE Heap!MainChunk
    BY <1>1, HeapMainChunkKeeps
  <1>2. ASSUME NEW sz \in HeapSizes, Heap!Alloc(sz)
        PROVE  HeapInv'
    BY <1>2, HeapAllocKeeps
  <1>3. ASSUME NEW c \in HeapIds, Heap!Free(c)
        PROVE  HeapInv'
    BY <1>3, HeapFreeKeeps
  <1>4. CASE UNCHANGED Heap!vars
    BY <1>4 DEF Heap!vars, HeapInv, Heap!Coalesced, Heap!IsFree, HeapAskedInUse
  <1> QED BY <1>1, <1>2, <1>3, <1>4 DEF Heap!Next

-----------------------------------------------------------------------------
(* HashMap.                                                                *)

\* What the proofs need of the constants.
MapConstants ==
    /\ IsFiniteSet(MapKeys) /\ Map!NoKey \notin MapKeys
    /\ MapBlocSize \in Nat \ {0} /\ MapMaxBlocs \in Nat

-----------------------------------------------------------------------------
\* A bloc of a list of blocs.
MapIn(b, s) == \E i \in 1..Len(s) : s[i] = b

MapTypeOK ==
    /\ entries \in [Map!Buckets -> Map!Entries \cup {Map!Null}]
    /\ key \in [Map!Entries -> MapKeys \cup {Map!NoKey}]
    /\ chain \in [Map!Entries -> Map!Entries \cup {Map!Null}]
    /\ pos \in [Map!Blocs -> Nat]
    /\ currentbloc \in Map!Blocs \cup {Map!NoBloc}
    /\ freebloc \in Seq(Map!Blocs) /\ allallocatedbloc \in Seq(Map!Blocs)
    /\ inserted \subseteq MapKeys

\* The entry of place n in the list of bucket b is L[b][n].
MapLists == [Map!Buckets -> [Nat -> Map!Entries \cup {Map!Null}]]

\* L is what chain links.
MapChained(L) ==
    \A b \in Map!Buckets :
        /\ entries[b] = L[b][0]
        /\ \A n \in Nat : L[b][n] = Map!Null => L[b][n + 1] = Map!Null
        /\ \A n \in Nat : L[b][n] # Map!Null => chain[L[b][n]] = L[b][n + 1]

\* The keys of L: in their buckets, once each, those that were inserted.
MapKeysOnce(L) ==
    /\ \A b \in Map!Buckets, n \in Nat :
          L[b][n] # Map!Null => key[L[b][n]] \in MapKeys /\ MapHash[key[L[b][n]]] = b
    /\ \A b \in Map!Buckets, m, n \in Nat :
          L[b][m] # Map!Null /\ L[b][n] # Map!Null /\ key[L[b][m]] = key[L[b][n]] => m = n
    /\ \A k \in MapKeys :
          k \in inserted <=> \E n \in Nat : L[MapHash[k]][n] # Map!Null /\ key[L[MapHash[k]][n]] = k

\* An entry of L is neither in a free bloc nor in the part of the current bloc
\* that is not carved yet.
MapCarved(L) ==
    \A b \in Map!Buckets, n \in Nat : L[b][n] # Map!Null =>
        /\ ~MapIn(L[b][n][1], freebloc)
        /\ L[b][n][1] = currentbloc => L[b][n][2] < pos[currentbloc]

\* The blocs of the two lists have been carved before, and each is there once.
MapBlocsOnce ==
    /\ \A b \in Map!Blocs : MapIn(b, freebloc) \/ MapIn(b, allallocatedbloc) \/ b = currentbloc
                            => b \in Map!Malloced
    /\ \A i, j \in 1..Len(freebloc) : freebloc[i] = freebloc[j] => i = j
    /\ \A i, j \in 1..Len(allallocatedbloc) :
          allallocatedbloc[i] = allallocatedbloc[j] => i = j
    /\ currentbloc # Map!NoBloc =>
          ~MapIn(currentbloc, freebloc) /\ pos[currentbloc] \in 1..(MapBlocSize - 1)
    /\ Map!ClearFindsNoFreeBloc

MapInv ==
    /\ MapTypeOK /\ MapBlocsOnce
    /\ \E L \in MapLists : MapChained(L) /\ MapKeysOnce(L) /\ MapCarved(L)

-----------------------------------------------------------------------------
\* The null pointer is no entry.
LEMMA MapNullIsNoEntry == Map!Null \notin Map!Entries
  BY DEF Map!Null, Map!Entries, Map!Blocs

\* The instance has the library's Cardinality.
LEMMA MapSameSize == Map!Cardinality(MapKeys) = Cardinality(MapKeys)
  BY Zenon DEF Map!Cardinality, Cardinality

\* The search of the code goes through L.
LEMMA MapWalkIsList ==
    ASSUME MapConstants, MapTypeOK, NEW L \in MapLists, MapChained(L)
    PROVE  \A n \in 0..Cardinality(MapKeys), b \in Map!Buckets : Map!Walk[n][b] = L[b][n]
  <1>0. Cardinality(MapKeys) \in Nat
    BY FS_CardinalityType DEF MapConstants
  <1> DEFINE W == [n \in 0..Cardinality(MapKeys) |-> [b \in Map!Buckets |-> L[b][n]]]
  <1>1. W = [n \in 0..Cardinality(MapKeys) |->
                IF n = 0 THEN entries
                ELSE [b \in Map!Buckets |-> IF W[n - 1][b] = Map!Null THEN Map!Null
                                        ELSE chain[W[n - 1][b]]]]
    <2> SUFFICES ASSUME NEW n \in 0..Cardinality(MapKeys)
                 PROVE  W[n] = IF n = 0 THEN entries
                               ELSE [b \in Map!Buckets |-> IF W[n - 1][b] = Map!Null THEN Map!Null
                                                       ELSE chain[W[n - 1][b]]]
      BY Zenon
    <2>1. CASE n = 0
      BY <2>1, <1>0 DEF MapChained, MapTypeOK
    <2>2. CASE n # 0
      <3>1. n - 1 \in Nat /\ n - 1 \in 0..Cardinality(MapKeys) /\ n - 1 + 1 = n
        BY <2>2, <1>0
      <3>2. \A b \in Map!Buckets : L[b][n] = IF L[b][n - 1] = Map!Null THEN Map!Null ELSE chain[L[b][n - 1]]
        BY <3>1 DEF MapChained
      <3> QED BY <2>2, <3>1, <3>2
    <2> QED BY <2>1, <2>2
  <1>2. Map!Walk = [n \in 0..Cardinality(MapKeys) |->
                IF n = 0 THEN entries
                ELSE [b \in Map!Buckets |-> IF Map!Walk[n - 1][b] = Map!Null THEN Map!Null
                                        ELSE chain[Map!Walk[n - 1][b]]]]
    <2> HIDE DEF W
    <2>1. W = [n \in 0..Map!Cardinality(MapKeys) |->
                IF n = 0 THEN entries
                ELSE [b \in Map!Buckets |-> IF W[n - 1][b] = Map!Null THEN Map!Null
                                        ELSE chain[W[n - 1][b]]]]
      BY <1>1, MapSameSize, Zenon
    <2>2. Map!Walk = [n \in 0..Map!Cardinality(MapKeys) |->
                IF n = 0 THEN entries
                ELSE [b \in Map!Buckets |-> IF Map!Walk[n - 1][b] = Map!Null THEN Map!Null
                                        ELSE chain[Map!Walk[n - 1][b]]]]
      BY <2>1, Zenon DEF Map!Walk
    <2> QED BY <2>2, MapSameSize, Zenon
  <1> DEFINE S == {n \in 0..Cardinality(MapKeys) : \E b \in Map!Buckets : Map!Walk[n][b] # L[b][n]}
  <1>3. ASSUME S # {} PROVE FALSE
    <2>1. S \in SUBSET Nat
      BY <1>0
    <2>2. PICK n \in S : \A m \in S : n <= m
      BY <1>3, <2>1, LeastExists, Zenon
    <2>3. PICK b \in Map!Buckets : Map!Walk[n][b] # L[b][n]
      OBVIOUS
    <2>4. n # 0
      BY <1>0, <1>2, <2>3 DEF MapChained
    <2>5. n - 1 \in Nat /\ n - 1 \in 0..Cardinality(MapKeys) /\ n - 1 + 1 = n /\ ~(n <= n - 1)
          /\ n \in 0..Cardinality(MapKeys)
      BY <2>4, <1>0
    <2>6. Map!Walk[n - 1][b] = L[b][n - 1]
      BY <2>2, <2>5
    <2>7. Map!Walk[n][b] = IF Map!Walk[n - 1][b] = Map!Null THEN Map!Null ELSE chain[Map!Walk[n - 1][b]]
      BY <1>2, <2>4, <2>5
    <2> QED BY <2>3, <2>5, <2>6, <2>7 DEF MapChained
  <1> QED BY <1>3, <1>0

\* No list is longer than the number of keys.
LEMMA MapListsAreShort ==
    ASSUME MapConstants, MapTypeOK, NEW L \in MapLists, MapChained(L), MapKeysOnce(L),
           NEW b \in Map!Buckets, NEW n \in Nat, L[b][n] # Map!Null
    PROVE  n \in 0..(Cardinality(MapKeys) - 1)
  <1>1. \A m \in 0..n : L[b][m] # Map!Null
    <2> DEFINE S == {d \in 0..n : L[b][n - d] = Map!Null}
    <2>1. ASSUME S # {} PROVE FALSE
      <3>1. S \in SUBSET Nat
        OBVIOUS
      <3>2. PICK d \in S : \A e \in S : d <= e
        BY <2>1, <3>1, LeastExists, Zenon
      <3>3. d # 0 /\ d \in 0..n
        OBVIOUS
      <3>4. n - d \in Nat /\ n - d + 1 = n - (d - 1) /\ d - 1 \in 0..n /\ ~(d <= d - 1)
        BY <3>3
      <3>5. L[b][n - (d - 1)] = Map!Null
        BY <3>2, <3>4 DEF MapChained
      <3> QED BY <3>2, <3>4, <3>5
    <2>2. \A m \in 0..n : n - m \in 0..n /\ n - (n - m) = m
      OBVIOUS
    <2> QED BY <2>1, <2>2
  <1> DEFINE f == [m \in 0..n |-> key[L[b][m]]]
             K == {key[L[b][m]] : m \in 0..n}
  <1>2. f \in Bijection(0..n, K)
    <2>1. \A x, y \in 0..n : f[x] = f[y] => x = y
      BY <1>1 DEF MapKeysOnce
    <2> QED BY <2>1 DEF Bijection, Injection, Surjection, IsInjective
  <1>3. IsFiniteSet(0..n) /\ Cardinality(0..n) = n + 1
    <2>1. 0 \in Int /\ n \in Int /\ ~(0 > n) /\ n - 0 + 1 = n + 1
      OBVIOUS
    <2>2. IsFiniteSet(0..n) /\ Cardinality(0..n) = IF 0 > n THEN 0 ELSE n - 0 + 1
      BY <2>1, FS_Interval, Zenon
    <2> QED BY <2>1, <2>2
  <1> HIDE DEF f
  <1>4. Cardinality(K) = n + 1
    BY <1>2, <1>3, FS_Bijection DEF ExistsBijection
  <1>5. K \subseteq MapKeys
    BY <1>1 DEF MapKeysOnce
  <1>6. Cardinality(K) <= Cardinality(MapKeys) /\ Cardinality(MapKeys) \in Nat
    BY <1>5, FS_Subset, FS_CardinalityType DEF MapConstants
  <1> QED BY <1>4, <1>6

\* The map finds what was inserted.
LEMMA MapFindRight ==
    ASSUME MapConstants, MapTypeOK, NEW L \in MapLists, MapChained(L), MapKeysOnce(L), NEW k \in MapKeys
    PROVE  Map!Find(k) <=> k \in inserted
  <1>0. MapHash[k] \in Map!Buckets /\ Cardinality(MapKeys) \in Nat
    BY FS_CardinalityType DEF Map!Buckets, MapConstants
  <1>1. Map!Find(k) <=> \E n \in 0..(Cardinality(MapKeys) - 1) :
                       L[MapHash[k]][n] # Map!Null /\ key[L[MapHash[k]][n]] = k
    <2>1. Map!Find(k) <=> \E n \in 0..(Cardinality(MapKeys) - 1) :
                       Map!Walk[n][MapHash[k]] # Map!Null /\ key[Map!Walk[n][MapHash[k]]] = k
      BY MapSameSize DEF Map!Find
    <2>2. \A n \in 0..(Cardinality(MapKeys) - 1) : Map!Walk[n][MapHash[k]] = L[MapHash[k]][n]
      BY <1>0, MapWalkIsList
    <2> QED BY <2>1, <2>2
  <1>2. k \in inserted <=> \E n \in Nat : L[MapHash[k]][n] # Map!Null /\ key[L[MapHash[k]][n]] = k
    BY DEF MapKeysOnce
  <1>3. \A n \in Nat : L[MapHash[k]][n] # Map!Null => n \in 0..(Cardinality(MapKeys) - 1)
    BY <1>0, MapListsAreShort
  <1> QED BY <1>0, <1>1, <1>2, <1>3

\* What the map promises follows.
LEMMA MapInvIsSound ==
    ASSUME MapConstants, MapInv
    PROVE  Map!FindsInserted /\ Map!ClearFindsNoFreeBloc
  <1>0. MapTypeOK /\ Map!ClearFindsNoFreeBloc
    BY DEF MapInv, MapBlocsOnce
  <1>1. PICK L \in MapLists : MapChained(L) /\ MapKeysOnce(L)
    BY DEF MapInv
  <1>2. \A k \in MapKeys : Map!Find(k) <=> k \in inserted
    BY <1>0, <1>1, MapFindRight
  <1>3. ASSUME NEW b \in Map!Buckets, NEW m \in 0..(Cardinality(MapKeys) - 1),
               NEW n \in 0..(Cardinality(MapKeys) - 1), m # n, Map!Walk[m][b] # Map!Null
        PROVE  Map!Walk[m][b] # Map!Walk[n][b]
    <2>1. Cardinality(MapKeys) \in Nat
      BY FS_CardinalityType DEF MapConstants
    <2>2. Map!Walk[m][b] = L[b][m] /\ Map!Walk[n][b] = L[b][n] /\ m \in Nat /\ n \in Nat
      BY <2>1, <1>0, <1>1, MapWalkIsList
    <2> QED BY <1>1, <1>3, <2>2 DEF MapKeysOnce
  <1> QED BY <1>0, <1>2, <1>3, MapSameSize DEF Map!FindsInserted

\* The map starts empty (kaapi_hashmap_init).
LEMMA MapInitRight == ASSUME MapConstants, Map!Init PROVE MapInv
  <1>1. MapTypeOK
    <2>1. 0 \in Nat /\ <<>> \in Seq(Map!Blocs)
      OBVIOUS
    <2> QED BY <2>1 DEF Map!Init, MapTypeOK
  <1>2. MapBlocsOnce
    BY DEF Map!Init, MapBlocsOnce, MapIn, Map!ClearFindsNoFreeBloc, Map!NoBloc, Map!Blocs
  <1>3. PICK L : L = [b \in Map!Buckets |-> [n \in Nat |-> Map!Null]]
    OBVIOUS
  <1>4. L \in MapLists /\ \A b \in Map!Buckets, n \in Nat : L[b][n] = Map!Null
    BY <1>3 DEF MapLists
  <1>5. MapChained(L)
    BY <1>4 DEF MapChained, Map!Init
  <1>6. \A k \in MapKeys : MapHash[k] \in Map!Buckets
    BY DEF Map!Buckets
  <1>7. MapKeysOnce(L) /\ MapCarved(L)
    BY <1>4, <1>6 DEF MapKeysOnce, MapCarved, Map!Init
  <1> QED BY <1>1, <1>2, <1>4, <1>5, <1>7 DEF MapInv

\* kaapi_hashmap_clear
LEMMA MapClearKeeps == ASSUME MapConstants, MapInv, Map!Clear PROVE MapInv'
  <1>0. MapTypeOK /\ MapBlocsOnce
    BY DEF MapInv
  <1>1. MapTypeOK'
    <2>1. 0 \in Nat /\ <<>> \in Seq(Map!Blocs)
      OBVIOUS
    <2>2. pos' \in [Map!Blocs -> Nat]
      BY <1>0, <2>1 DEF Map!Clear, MapTypeOK
    <2>3. freebloc' \in Seq(Map!Blocs) /\ allallocatedbloc' \in Seq(Map!Blocs)
      BY <1>0, <2>1 DEF Map!Clear, MapTypeOK
    <2> QED BY <1>0, <2>2, <2>3 DEF Map!Clear, MapTypeOK
  <1>2. MapBlocsOnce'
    <2>1. Map!Malloced' = Map!Malloced
      BY DEF Map!Malloced, Map!Clear
    <2>2. currentbloc' = Map!NoBloc /\ Map!NoBloc \notin Map!Blocs /\ allallocatedbloc' = <<>>
      BY DEF Map!Clear, Map!NoBloc, Map!Blocs
    <2>3. \A b : ~MapIn(b, allallocatedbloc)'
      BY <2>2 DEF MapIn
    <2>4. CASE allallocatedbloc # <<>>
      <3>1. freebloc' = allallocatedbloc
        BY <2>4 DEF Map!Clear
      <3>2. \A b : MapIn(b, freebloc)' <=> MapIn(b, allallocatedbloc)
        BY <3>1 DEF MapIn
      <3> QED BY <1>0, <2>1, <2>2, <2>3, <3>1, <3>2 DEF MapBlocsOnce, Map!ClearFindsNoFreeBloc
    <2>5. CASE allallocatedbloc = <<>>
      <3>1. freebloc' = freebloc
        BY <2>5 DEF Map!Clear
      <3>2. \A b : MapIn(b, freebloc)' <=> MapIn(b, freebloc)
        BY <3>1 DEF MapIn
      <3> QED BY <1>0, <2>1, <2>2, <2>3, <3>1, <3>2 DEF MapBlocsOnce, Map!ClearFindsNoFreeBloc
    <2> QED BY <2>4, <2>5
  <1>3. PICK L : L = [b \in Map!Buckets |-> [n \in Nat |-> Map!Null]]
    OBVIOUS
  <1>4. L \in MapLists /\ \A b \in Map!Buckets, n \in Nat : L[b][n] = Map!Null
    BY <1>3 DEF MapLists
  <1>5. MapChained(L)'
    BY <1>4 DEF MapChained, Map!Clear
  <1>6. \A k \in MapKeys : MapHash[k] \in Map!Buckets
    BY DEF Map!Buckets
  <1>7. MapKeysOnce(L)' /\ MapCarved(L)'
    BY <1>4, <1>6 DEF MapKeysOnce, MapCarved, Map!Clear
  <1> QED BY <1>1, <1>2, <1>4, <1>5, <1>7 DEF MapInv

\* No bloc stands twice in s.
MapOnceEach(s) == \A i, j \in 1..Len(s) : s[i] = s[j] => i = j

\* Sequences of blocs: the head and the rest.
LEMMA MapHeadAndTail ==
    ASSUME NEW s \in Seq(Map!Blocs), s # <<>>, NEW h, h = Head(s), NEW t, t = Tail(s),
           MapOnceEach(s)
    PROVE  /\ h \in Map!Blocs /\ t \in Seq(Map!Blocs) /\ MapIn(h, s)
           /\ \A b : MapIn(b, t) => MapIn(b, s) /\ b # h
           /\ MapOnceEach(t)
  <1>1. Len(s) \in Nat /\ Len(s) # 0 /\ h = s[1] /\ t \in Seq(Map!Blocs)
    OBVIOUS
  <1>2. Len(t) = Len(s) - 1 /\ \A i \in 1..(Len(s) - 1) : t[i] = s[i + 1]
    OBVIOUS
  <1>3. 1 \in 1..Len(s) /\ \A i \in 1..(Len(s) - 1) : i + 1 \in 1..Len(s) /\ i + 1 # 1
    BY <1>1
  <1>4. h \in Map!Blocs /\ MapIn(h, s)
    BY <1>1, <1>3 DEF MapIn
  <1>5. \A b : MapIn(b, t) => MapIn(b, s) /\ b # h
    <2> SUFFICES ASSUME NEW i \in 1..Len(t) PROVE MapIn(t[i], s) /\ t[i] # h
      BY DEF MapIn
    <2>1. i \in 1..(Len(s) - 1)
      BY <1>2
    <2>2. t[i] = s[i + 1] /\ i + 1 \in 1..Len(s) /\ i + 1 # 1 /\ 1 \in 1..Len(s)
      BY <1>2, <1>3, <2>1
    <2>3. MapIn(t[i], s)
      BY <2>2, Zenon DEF MapIn
    <2>4. t[i] # h
      BY <1>1, <2>2, Zenon DEF MapOnceEach
    <2> QED BY <2>3, <2>4
  <1>6. MapOnceEach(t)
    <2> SUFFICES ASSUME NEW i \in 1..Len(t), NEW j \in 1..Len(t), t[i] = t[j]
                 PROVE  i = j
      BY DEF MapOnceEach
    <2>1. s[i + 1] = s[j + 1] /\ i + 1 \in 1..Len(s) /\ j + 1 \in 1..Len(s)
      BY <1>2, <1>3
    <2>2. i + 1 = j + 1
      BY <2>1 DEF MapOnceEach
    <2> QED BY <2>2, <1>2
  <1> QED BY <1>1, <1>4, <1>5, <1>6

\* A new bloc before the others.
LEMMA MapNewFirst ==
    ASSUME NEW s \in Seq(Map!Blocs), NEW b \in Map!Blocs, ~MapIn(b, s),
           \A i, j \in 1..Len(s) : s[i] = s[j] => i = j
    PROVE  LET t == <<b>> \o s
           IN  /\ t \in Seq(Map!Blocs) /\ t # <<>>
               /\ \A c : MapIn(c, t) => MapIn(c, s) \/ c = b
               /\ \A i, j \in 1..Len(t) : t[i] = t[j] => i = j
  <1>1. PICK t : t = <<b>> \o s
    OBVIOUS
  <1>2. /\ t \in Seq(Map!Blocs) /\ Len(t) = Len(s) + 1 /\ t[1] = b /\ t # <<>>
        /\ \A i \in 2..Len(t) : t[i] = s[i - 1] /\ i - 1 \in 1..Len(s)
        /\ Len(s) \in Nat
    BY <1>1
  <1>3. \A c : MapIn(c, t) => MapIn(c, s) \/ c = b
    <2> SUFFICES ASSUME NEW i \in 1..Len(t), t[i] # b PROVE MapIn(t[i], s)
      BY DEF MapIn
    <2>1. i \in 2..Len(t)
      BY <1>2
    <2> QED BY <1>2, <2>1 DEF MapIn
  <1>4. \A i \in 2..Len(t) : t[i] # b
    <2> SUFFICES ASSUME NEW i \in 2..Len(t), t[i] = b PROVE MapIn(b, s)
      OBVIOUS
    <2>1. s[i - 1] = b /\ i - 1 \in 1..Len(s)
      BY <1>2
    <2> QED BY <2>1, Zenon DEF MapIn
  <1>5. \A i, j \in 1..Len(t) : t[i] = t[j] => i = j
    <2> SUFFICES ASSUME NEW i \in 1..Len(t), NEW j \in 1..Len(t), t[i] = t[j], i # j
                 PROVE  FALSE
      OBVIOUS
    <2>1. i \in 2..Len(t) /\ j \in 2..Len(t)
      BY <1>2, <1>4
    <2>2. i - 1 = j - 1
      BY <1>2, <2>1
    <2> QED BY <2>1, <2>2
  <1> QED BY <1>1, <1>2, <1>3, <1>5

\* The entry p of bloc b becomes the one of key k.
MapNewAt(k, L, b, p) ==
    /\ key' = [key EXCEPT ![<<b, p>>] = k]
    /\ chain' = [chain EXCEPT ![<<b, p>>] = entries[MapHash[k]]]
    /\ entries' = [entries EXCEPT ![MapHash[k]] = <<b, p>>]
    /\ pos' = [pos EXCEPT ![b] = p + 1]
    /\ currentbloc' = IF p + 1 = MapBlocSize THEN Map!NoBloc ELSE b
    /\ inserted' = inserted \cup {k}
    /\ freebloc' \in Seq(Map!Blocs) /\ allallocatedbloc' \in Seq(Map!Blocs)
    /\ \A c : MapIn(c, freebloc') => MapIn(c, freebloc) /\ c # b
    /\ \A c : MapIn(c, allallocatedbloc') => MapIn(c, allallocatedbloc) \/ c = b
    /\ \A i, j \in 1..Len(freebloc') : freebloc'[i] = freebloc'[j] => i = j
    /\ \A i, j \in 1..Len(allallocatedbloc') :
          allallocatedbloc'[i] = allallocatedbloc'[j] => i = j
    /\ allallocatedbloc' # <<>> => freebloc' = <<>>
    /\ \A c \in Map!Buckets, n \in Nat : L[c][n] # Map!Null /\ L[c][n][1] = b =>
          L[c][n][2] < p

\* Where the new entry is carved, and what becomes of the two lists of blocs.
LEMMA MapNewEntry ==
    ASSUME MapConstants, MapInv, NEW k \in MapKeys, Map!FindInsert(k), Map!Insert(k),
           NEW L \in MapLists, MapChained(L), MapKeysOnce(L), MapCarved(L)
    PROVE  \E b \in Map!Blocs, p \in 0..(MapBlocSize - 1) : MapNewAt(k, L, b, p)
  <1>0. MapTypeOK /\ MapBlocsOnce /\ MapBlocSize \in Nat \ {0}
    BY DEF MapInv, MapConstants
  <1>1. CASE currentbloc # Map!NoBloc
    <2>1. PICK b \in Map!Blocs, p \in 1..(MapBlocSize - 1) : b = currentbloc /\ p = pos[currentbloc]
      BY <1>0, <1>1 DEF MapTypeOK, MapBlocsOnce
    <2>2. /\ freebloc' = freebloc /\ allallocatedbloc' = allallocatedbloc
          /\ key' = [key EXCEPT ![<<b, p>>] = k]
          /\ chain' = [chain EXCEPT ![<<b, p>>] = entries[MapHash[k]]]
          /\ entries' = [entries EXCEPT ![MapHash[k]] = <<b, p>>]
          /\ pos' = [pos EXCEPT ![b] = p + 1]
          /\ currentbloc' = IF p + 1 = MapBlocSize THEN Map!NoBloc ELSE b
          /\ inserted' = inserted \cup {k}
      BY <1>1, <2>1 DEF Map!Insert
    <2>3. p \in 0..(MapBlocSize - 1)
      BY <1>0
    <2>4. ~MapIn(b, freebloc)
      BY <1>0, <1>1, <2>1 DEF MapBlocsOnce
    <2>5. \A c \in Map!Buckets, n \in Nat : L[c][n] # Map!Null /\ L[c][n][1] = b => L[c][n][2] < p
      BY <2>1 DEF MapCarved
    <2>6. MapNewAt(k, L, b, p)
      BY <1>0, <2>2, <2>4, <2>5 DEF MapNewAt, MapTypeOK, MapBlocsOnce, Map!ClearFindsNoFreeBloc
    <2> QED BY <2>3, <2>6
  <1>2. CASE currentbloc = Map!NoBloc /\ freebloc # <<>>
    <2>1. PICK b : b = Head(freebloc)
      OBVIOUS
    <2>2. /\ freebloc' = Tail(freebloc) /\ allallocatedbloc' = allallocatedbloc
          /\ key' = [key EXCEPT ![<<b, 0>>] = k]
          /\ chain' = [chain EXCEPT ![<<b, 0>>] = entries[MapHash[k]]]
          /\ entries' = [entries EXCEPT ![MapHash[k]] = <<b, 0>>]
          /\ pos' = [pos EXCEPT ![b] = 0 + 1]
          /\ currentbloc' = IF 0 + 1 = MapBlocSize THEN Map!NoBloc ELSE b
          /\ inserted' = inserted \cup {k}
      BY <1>2, <2>1 DEF Map!Insert, Map!AllocateBloc
    <2>3. /\ b \in Map!Blocs /\ freebloc' \in Seq(Map!Blocs) /\ MapIn(b, freebloc)
          /\ \A c : MapIn(c, freebloc') => MapIn(c, freebloc) /\ c # b
          /\ \A i, j \in 1..Len(freebloc') : freebloc'[i] = freebloc'[j] => i = j
      <3>1. freebloc \in Seq(Map!Blocs) /\ freebloc # <<>> /\ MapOnceEach(freebloc)
        BY <1>0, <1>2 DEF MapTypeOK, MapBlocsOnce, MapOnceEach
      <3>2. PICK t : t = Tail(freebloc)
        OBVIOUS
      <3>3. /\ b \in Map!Blocs /\ t \in Seq(Map!Blocs) /\ MapIn(b, freebloc)
            /\ \A c : MapIn(c, t) => MapIn(c, freebloc) /\ c # b
            /\ MapOnceEach(t)
        BY <2>1, <3>1, <3>2, MapHeadAndTail, Zenon
      <3>4. freebloc' = t
        BY <2>2, <3>2
      <3> QED BY <3>3, <3>4 DEF MapOnceEach
    <2>4. 0 \in 0..(MapBlocSize - 1)
      BY <1>0
    <2>5. allallocatedbloc' = <<>>
      BY <1>0, <1>2, <2>2 DEF MapBlocsOnce, Map!ClearFindsNoFreeBloc
    <2>6. \A c \in Map!Buckets, n \in Nat : L[c][n] # Map!Null => L[c][n][1] # b
      BY <2>3 DEF MapCarved
    <2>7. MapNewAt(k, L, b, 0)
      BY <1>0, <2>2, <2>3, <2>5, <2>6 DEF MapNewAt, MapTypeOK, MapBlocsOnce
    <2> QED BY <2>3, <2>4, <2>7
  <1>3. CASE currentbloc = Map!NoBloc /\ freebloc = <<>>
    <2>1. PICK b : b = CHOOSE x \in Map!Blocs \ Map!Malloced : TRUE
      OBVIOUS
    <2>2. b \in Map!Blocs /\ b \notin Map!Malloced
      <3>1. Map!Blocs \ Map!Malloced # {}
        BY <1>3 DEF Map!FindInsert
      <3> QED BY <2>1, <3>1
    <2>3. /\ freebloc' = <<>> /\ allallocatedbloc' = <<b>> \o allallocatedbloc
          /\ key' = [key EXCEPT ![<<b, 0>>] = k]
          /\ chain' = [chain EXCEPT ![<<b, 0>>] = entries[MapHash[k]]]
          /\ entries' = [entries EXCEPT ![MapHash[k]] = <<b, 0>>]
          /\ pos' = [pos EXCEPT ![b] = 0 + 1]
          /\ currentbloc' = IF 0 + 1 = MapBlocSize THEN Map!NoBloc ELSE b
          /\ inserted' = inserted \cup {k}
      BY <1>3, <2>1 DEF Map!Insert, Map!AllocateBloc
    <2>4. ~MapIn(b, allallocatedbloc)
      BY <1>0, <2>2 DEF MapBlocsOnce
    <2>5. /\ allallocatedbloc' \in Seq(Map!Blocs)
          /\ \A c : MapIn(c, allallocatedbloc') => MapIn(c, allallocatedbloc) \/ c = b
          /\ \A i, j \in 1..Len(allallocatedbloc') :
                allallocatedbloc'[i] = allallocatedbloc'[j] => i = j
      BY <1>0, <2>2, <2>3, <2>4, MapNewFirst DEF MapTypeOK, MapBlocsOnce
    <2>6. 0 \in 0..(MapBlocSize - 1) /\ freebloc' \in Seq(Map!Blocs) /\ \A c : ~MapIn(c, freebloc')
          /\ \A i, j \in 1..Len(freebloc') : freebloc'[i] = freebloc'[j] => i = j
      BY <1>0, <2>3 DEF MapIn
    <2>7. \A c \in Map!Buckets, n \in Nat : L[c][n] # Map!Null => L[c][n][1] # b
      <3> SUFFICES ASSUME NEW c \in Map!Buckets, NEW n \in Nat, L[c][n] # Map!Null, L[c][n][1] = b
                   PROVE  FALSE
        OBVIOUS
      <3>1. L[c][n] \in Map!Entries /\ key[L[c][n]] # Map!NoKey
        BY DEF MapLists, MapKeysOnce, MapConstants
      <3> QED BY <2>2, <3>1 DEF Map!Malloced
    <2>8. MapNewAt(k, L, b, 0)
      BY <2>3, <2>5, <2>6, <2>7 DEF MapNewAt
    <2> QED BY <2>2, <2>6, <2>8
  <1> QED BY <1>1, <1>2, <1>3

\* kaapi_hashmap_findinsert: the new entry comes first in its list.
LEMMA MapInsertKeeps == ASSUME MapConstants, MapInv, NEW k \in MapKeys, Map!FindInsert(k) PROVE MapInv'
  <1>0. MapTypeOK /\ MapBlocsOnce /\ MapBlocSize \in Nat \ {0} /\ Map!NoKey \notin MapKeys
    BY DEF MapInv, MapConstants
  <1>1. PICK L \in MapLists : MapChained(L) /\ MapKeysOnce(L) /\ MapCarved(L)
    BY DEF MapInv
  <1>2. CASE Map!Find(k)
    <2>1. UNCHANGED Map!vars
      BY <1>2 DEF Map!FindInsert
    <2>2. MapTypeOK' /\ MapChained(L)' /\ MapKeysOnce(L)' /\ MapCarved(L)'
      <3>1. MapTypeOK'
        BY <1>0, <2>1 DEF Map!vars, MapTypeOK
      <3>2. MapChained(L)' /\ MapKeysOnce(L)'
        BY <1>1, <2>1 DEF Map!vars, MapChained, MapKeysOnce
      <3>3. MapCarved(L)'
        BY <1>1, <2>1 DEF Map!vars, MapCarved, MapIn
      <3> QED BY <3>1, <3>2, <3>3
    <2>3. MapBlocsOnce'
      BY <1>0, <2>1 DEF Map!vars, MapBlocsOnce, MapIn, Map!Malloced, Map!ClearFindsNoFreeBloc
    <2> QED BY <2>2, <2>3 DEF MapInv
  <1>3. CASE ~Map!Find(k)
    <2>0. Map!Insert(k) /\ k \notin inserted /\ MapHash[k] \in Map!Buckets
      BY <1>0, <1>1, <1>3, MapFindRight DEF Map!FindInsert, Map!Buckets
    <2>a. PICK b \in Map!Blocs, p \in 0..(MapBlocSize - 1) : MapNewAt(k, L, b, p)
      BY <1>1, <2>0, MapNewEntry
    <2>1. /\ key' = [key EXCEPT ![<<b, p>>] = k]
          /\ chain' = [chain EXCEPT ![<<b, p>>] = entries[MapHash[k]]]
          /\ entries' = [entries EXCEPT ![MapHash[k]] = <<b, p>>]
          /\ pos' = [pos EXCEPT ![b] = p + 1]
          /\ currentbloc' = IF p + 1 = MapBlocSize THEN Map!NoBloc ELSE b
          /\ inserted' = inserted \cup {k}
          /\ freebloc' \in Seq(Map!Blocs) /\ allallocatedbloc' \in Seq(Map!Blocs)
          /\ \A c : MapIn(c, freebloc') => MapIn(c, freebloc) /\ c # b
          /\ \A c : MapIn(c, allallocatedbloc') => MapIn(c, allallocatedbloc) \/ c = b
          /\ \A i, j \in 1..Len(freebloc') : freebloc'[i] = freebloc'[j] => i = j
          /\ \A i, j \in 1..Len(allallocatedbloc') :
                allallocatedbloc'[i] = allallocatedbloc'[j] => i = j
          /\ allallocatedbloc' # <<>> => freebloc' = <<>>
          /\ \A c \in Map!Buckets, n \in Nat : L[c][n] # Map!Null /\ L[c][n][1] = b =>
                L[c][n][2] < p
      BY <2>a DEF MapNewAt
    <2>2. PICK e : e = <<b, p>>
      OBVIOUS
    <2>3. e \in Map!Entries /\ e # Map!Null /\ e[1] = b /\ e[2] = p
      BY <2>2, MapNullIsNoEntry DEF Map!Entries
    <2>4. /\ key' \in [Map!Entries -> MapKeys \cup {Map!NoKey}] /\ key'[e] = k
          /\ \A x \in Map!Entries : x # e => key'[x] = key[x]
      BY <1>0, <2>1, <2>2, <2>3 DEF MapTypeOK
    <2>5. /\ chain' \in [Map!Entries -> Map!Entries \cup {Map!Null}] /\ chain'[e] = entries[MapHash[k]]
          /\ \A x \in Map!Entries : x # e => chain'[x] = chain[x]
      BY <1>0, <2>0, <2>1, <2>2, <2>3 DEF MapTypeOK
    <2>6. /\ entries' \in [Map!Buckets -> Map!Entries \cup {Map!Null}] /\ entries'[MapHash[k]] = e
          /\ \A c \in Map!Buckets : c # MapHash[k] => entries'[c] = entries[c]
      BY <1>0, <2>0, <2>1, <2>2, <2>3 DEF MapTypeOK
    <2>7. /\ pos' \in [Map!Blocs -> Nat] /\ pos'[b] = p + 1
      BY <1>0, <2>1 DEF MapTypeOK
    <2>8. MapTypeOK'
      BY <1>0, <2>1, <2>4, <2>5, <2>6, <2>7 DEF MapTypeOK
    <2>9. MapBlocsOnce'
      <3>1. Map!Malloced \cup {b} \subseteq Map!Malloced'
        <4>1. b \in Map!Malloced'
          BY <1>0, <2>3, <2>4 DEF Map!Malloced
        <4>2. ASSUME NEW x \in Map!Entries, key[x] # Map!NoKey PROVE x[1] \in Map!Malloced'
          BY <1>0, <2>3, <2>4, <4>2 DEF Map!Malloced
        <4>3. Map!Malloced = {x[1] : x \in {y \in Map!Entries : key[y] # Map!NoKey}}
          BY Zenon DEF Map!Malloced
        <4> QED BY <4>1, <4>2, <4>3
      <3>2. \A c : MapIn(c, freebloc)' => MapIn(c, freebloc) /\ c # b
        BY <2>1 DEF MapIn
      <3>3. \A c : MapIn(c, allallocatedbloc)' => MapIn(c, allallocatedbloc) \/ c = b
        BY <2>1 DEF MapIn
      <3>4. \A c \in Map!Blocs : MapIn(c, freebloc)' \/ MapIn(c, allallocatedbloc)' \/ c = currentbloc'
                => c \in Map!Malloced'
        BY <1>0, <2>1, <3>1, <3>2, <3>3 DEF MapBlocsOnce, Map!NoBloc, Map!Blocs
      <3>5. currentbloc' # Map!NoBloc =>
                ~MapIn(currentbloc, freebloc)' /\ pos'[currentbloc'] \in 1..(MapBlocSize - 1)
        <4>1. p + 1 # MapBlocSize => p + 1 \in 1..(MapBlocSize - 1)
          BY <1>0
        <4>2. currentbloc' # Map!NoBloc => currentbloc' = b /\ p + 1 # MapBlocSize
          BY <2>1
        <4>3. ~MapIn(b, freebloc')
          BY <2>1
        <4> QED BY <2>7, <4>1, <4>2, <4>3 DEF MapIn
      <3> QED BY <2>1, <3>4, <3>5 DEF MapBlocsOnce, Map!ClearFindsNoFreeBloc
    <2>10. PICK M : M = [c \in Map!Buckets |-> [n \in Nat |->
                            IF c = MapHash[k] THEN IF n = 0 THEN e ELSE L[c][n - 1] ELSE L[c][n]]]
      OBVIOUS
    <2>11. /\ M \in MapLists
           /\ M[MapHash[k]][0] = e /\ \A n \in Nat : M[MapHash[k]][n + 1] = L[MapHash[k]][n]
           /\ \A c \in Map!Buckets, n \in Nat : c # MapHash[k] => M[c][n] = L[c][n]
      <3>1. \A n \in Nat : n # 0 => n - 1 \in Nat
        OBVIOUS
      <3>2. M \in MapLists
        BY <1>1, <2>3, <2>10, <3>1 DEF MapLists
      <3>3. \A n \in Nat : n + 1 \in Nat /\ n + 1 # 0 /\ (n + 1) - 1 = n
        OBVIOUS
      <3> QED BY <2>0, <2>10, <3>2, <3>3
    <2>12. \A n \in Nat : n = 0 \/ \E m \in Nat : n = m + 1
      <3> SUFFICES ASSUME NEW n \in Nat, n # 0 PROVE n - 1 \in Nat /\ n = (n - 1) + 1
        OBVIOUS
      <3> QED OBVIOUS
    <2>13. \A c \in Map!Buckets, n \in Nat : L[c][n] # Map!Null => L[c][n] \in Map!Entries /\ L[c][n] # e
      BY <1>1, <2>1, <2>3 DEF MapLists
    <2>14. MapChained(M)'
      <3> SUFFICES ASSUME NEW c \in Map!Buckets
                   PROVE  /\ entries'[c] = M[c][0]
                          /\ \A n \in Nat : M[c][n] = Map!Null => M[c][n + 1] = Map!Null
                          /\ \A n \in Nat : M[c][n] # Map!Null => chain'[M[c][n]] = M[c][n + 1]
        BY DEF MapChained
      <3>1. CASE c # MapHash[k]
        BY <1>1, <2>5, <2>6, <2>11, <2>13, <3>1 DEF MapChained
      <3>2. CASE c = MapHash[k]
        <4>1. entries'[c] = M[c][0] /\ M[c][0] # Map!Null /\ chain'[M[c][0]] = M[c][0 + 1]
          BY <1>1, <2>3, <2>5, <2>6, <2>11, <3>2 DEF MapChained
        <4>2. ASSUME NEW m \in Nat
              PROVE  /\ M[c][m + 1] = Map!Null => M[c][(m + 1) + 1] = Map!Null
                     /\ M[c][m + 1] # Map!Null => chain'[M[c][m + 1]] = M[c][(m + 1) + 1]
          <5>1. M[c][m + 1] = L[c][m] /\ M[c][(m + 1) + 1] = L[c][m + 1] /\ m + 1 \in Nat
            BY <2>11, <3>2
          <5>2. L[c][m] = Map!Null => L[c][m + 1] = Map!Null
            BY <1>1 DEF MapChained
          <5>3. L[c][m] # Map!Null => chain'[L[c][m]] = L[c][m + 1]
            BY <1>1, <2>5, <2>13 DEF MapChained
          <5> QED BY <5>1, <5>2, <5>3
        <4> QED BY <2>12, <4>1, <4>2
      <3> QED BY <3>1, <3>2
    <2>15. \A c \in Map!Buckets, n \in Nat : M[c][n] # Map!Null =>
              \/ M[c][n] = e /\ c = MapHash[k] /\ n = 0
              \/ M[c][n] # e /\ c # MapHash[k] /\ M[c][n] = L[c][n]
              \/ M[c][n] # e /\ c = MapHash[k] /\ \E m \in Nat : n = m + 1 /\ M[c][n] = L[c][m]
      BY <2>11, <2>12, <2>13
    <2>16. \A c \in Map!Buckets, n \in Nat : L[c][n] # Map!Null => key'[L[c][n]] = key[L[c][n]]
      BY <2>4, <2>13
    <2>17. \A n \in Nat : L[MapHash[k]][n] # Map!Null => key[L[MapHash[k]][n]] # k
      BY <1>1, <2>0 DEF MapKeysOnce
    <2>18. MapKeysOnce(M)'
      <3>1. \A c \in Map!Buckets, n \in Nat :
               M[c][n] # Map!Null => key'[M[c][n]] \in MapKeys /\ MapHash[key'[M[c][n]]] = c
        BY <1>1, <2>4, <2>15, <2>16 DEF MapKeysOnce
      <3>2. ASSUME NEW c \in Map!Buckets, NEW m \in Nat, NEW n \in Nat,
                   M[c][m] # Map!Null, M[c][n] # Map!Null, key'[M[c][m]] = key'[M[c][n]]
            PROVE  m = n
        <4>1. CASE c # MapHash[k]
          BY <1>1, <2>11, <2>16, <3>2, <4>1 DEF MapKeysOnce
        <4>2. CASE c = MapHash[k]
          <5>1. CASE m = 0 \/ n = 0
            BY <2>4, <2>15, <2>16, <2>17, <3>2, <4>2, <5>1
          <5>2. CASE m # 0 /\ n # 0
            <6>1. PICK i \in Nat, j \in Nat : m = i + 1 /\ n = j + 1
              BY <2>12, <5>2
            <6>2. M[c][m] = L[c][i] /\ M[c][n] = L[c][j]
              BY <2>11, <4>2, <6>1
            <6>3. i = j
              BY <1>1, <2>16, <3>2, <6>2 DEF MapKeysOnce
            <6> QED BY <6>1, <6>3
          <5> QED BY <5>1, <5>2
        <4> QED BY <4>1, <4>2
      <3>3. ASSUME NEW l \in MapKeys
            PROVE  l \in inserted' <=> \E n \in Nat : M[MapHash[l]][n] # Map!Null /\ key'[M[MapHash[l]][n]] = l
        <4>0. MapHash[l] \in Map!Buckets
          BY DEF Map!Buckets
        <4>1. CASE l = k
          BY <2>1, <2>3, <2>4, <2>11, <4>1
        <4>2. CASE l # k
          <5>1. l \in inserted' <=> l \in inserted
            BY <2>1, <4>2
          <5>2. l \in inserted <=> \E n \in Nat : L[MapHash[l]][n] # Map!Null /\ key[L[MapHash[l]][n]] = l
            BY <1>1 DEF MapKeysOnce
          <5>3. ASSUME NEW n \in Nat, L[MapHash[l]][n] # Map!Null, key[L[MapHash[l]][n]] = l
                PROVE  \E m \in Nat : M[MapHash[l]][m] # Map!Null /\ key'[M[MapHash[l]][m]] = l
            <6>1. n + 1 \in Nat
              OBVIOUS
            <6> QED BY <2>11, <2>16, <4>0, <5>3, <6>1
          <5>4. ASSUME NEW m \in Nat, M[MapHash[l]][m] # Map!Null, key'[M[MapHash[l]][m]] = l
                PROVE  \E n \in Nat : L[MapHash[l]][n] # Map!Null /\ key[L[MapHash[l]][n]] = l
            BY <2>4, <2>15, <2>16, <4>0, <4>2, <5>4
          <5> QED BY <5>1, <5>2, <5>3, <5>4
        <4> QED BY <4>1, <4>2
      <3> QED BY <3>1, <3>2, <3>3 DEF MapKeysOnce
    <2>19. MapCarved(M)'
      <3> SUFFICES ASSUME NEW c \in Map!Buckets, NEW n \in Nat, M[c][n] # Map!Null
                   PROVE  /\ ~MapIn(M[c][n][1], freebloc')
                          /\ M[c][n][1] = currentbloc' => M[c][n][2] < pos'[currentbloc']
        BY DEF MapCarved, MapIn
      <3>1. Map!NoBloc \notin Map!Blocs /\ p + 1 > p /\ p \in Nat
        BY DEF Map!NoBloc, Map!Blocs
      <3>2. CASE M[c][n] = e
        BY <2>1, <2>3, <2>7, <3>1, <3>2
      <3>3. CASE M[c][n] # e
        <4>1. PICK m \in Nat : M[c][n] = L[c][m]
          BY <2>15, <3>3
        <4>2. L[c][m] \in Map!Entries /\ L[c][m][1] \in Map!Blocs /\ L[c][m][2] \in Nat
          BY <1>0, <2>13, <4>1 DEF Map!Entries
        <4>3. ~MapIn(L[c][m][1], freebloc) /\ (L[c][m][1] = b => L[c][m][2] < p)
          BY <1>1, <2>1, <4>1 DEF MapCarved
        <4>4. currentbloc' \in Map!Blocs => currentbloc' = b
          BY <2>1, <3>1
        <4> QED BY <2>1, <2>7, <3>1, <4>1, <4>2, <4>3, <4>4
      <3> QED BY <3>2, <3>3
    <2> QED BY <2>8, <2>9, <2>11, <2>14, <2>18, <2>19 DEF MapInv
  <1> QED BY <1>2, <1>3

\* Every step keeps the invariant.
LEMMA MapStepKeeps == ASSUME MapConstants, MapInv, [Map!Next]_(Map!vars) PROVE MapInv'
  <1>1. CASE UNCHANGED Map!vars
    <2>0. MapTypeOK /\ MapBlocsOnce
      BY DEF MapInv
    <2>1. PICK L \in MapLists : MapChained(L) /\ MapKeysOnce(L) /\ MapCarved(L)
      BY DEF MapInv
    <2>2. MapTypeOK' /\ MapChained(L)' /\ MapKeysOnce(L)' /\ MapCarved(L)'
      BY <1>1, <2>0, <2>1 DEF Map!vars, MapTypeOK, MapChained, MapKeysOnce, MapCarved, MapIn
    <2>3. MapBlocsOnce'
      BY <1>1, <2>0 DEF Map!vars, MapBlocsOnce, MapIn, Map!Malloced, Map!ClearFindsNoFreeBloc
    <2> QED BY <2>2, <2>3 DEF MapInv
  <1> QED BY <1>1, MapInsertKeeps, MapClearKeeps DEF Map!Next

-----------------------------------------------------------------------------
(* WorkBuffer.                                                             *)

\* What the proofs need of the constants: the buffer and the parts in which it
\* is cleared are multiples of the alignment.
WorkConstants ==
    /\ WorkTotal \in Nat \ {0} /\ WorkAlign \in Nat \ {0} /\ WorkElement \in Nat \ {0}
    /\ WorkTotal % WorkAlign = 0 /\ WorkElement % WorkAlign = 0
    /\ WorkRequests \subseteq Nat \ {0}

-----------------------------------------------------------------------------
(* The inductive invariant, as a predicate on the segments s and the head  *)
(* hd of the free list: a call goes through states between its updates.    *)

WorkSegments == [size : Nat, free : BOOLEAN, prev : Int, next : Int,
                 free_prev : Int, free_next : Int]

WorkTyped(s) == s \in [DOMAIN s -> WorkSegments] /\ DOMAIN s \subseteq 0..(WorkTotal - 1)

WorkFrees(s) == {c \in DOMAIN s : s[c].free}

\* The segments are disjoint intervals and cover the buffer.
WorkCut(s) ==
    /\ 0 \in DOMAIN s
    /\ \A c \in DOMAIN s :
          /\ s[c].size > 0 /\ c + s[c].size <= WorkTotal
          /\ c + s[c].size # WorkTotal => c + s[c].size \in DOMAIN s
    /\ \A c, d \in DOMAIN s : c < d => c + s[c].size <= d

\* next and prev name the neighbours.
WorkNexts(s) ==
    \A c \in DOMAIN s :
        s[c].next = IF c + s[c].size = WorkTotal THEN Work!Null ELSE c + s[c].size
WorkPrevs(s) ==
    \A c \in DOMAIN s : IF c = 0 THEN s[c].prev = Work!Null
                        ELSE s[c].prev \in DOMAIN s /\ s[c].prev + s[s[c].prev].size = c

\* d is the first element of F after a, or the last one before it.
WorkFirst(F, a, d) ==
    IF d = Work!Null THEN \A e \in F : e <= a
    ELSE d \in F /\ a < d /\ \A e \in F : e <= a \/ d <= e
WorkLast(F, a, d) ==
    IF d = Work!Null THEN \A e \in F : a <= e
    ELSE d \in F /\ d < a /\ \A e \in F : a <= e \/ e <= d

\* The free list goes from each free segment to the first one after it and to the
\* last one before it.
WorkFreeLinks(s, hd) ==
    /\ WorkFirst(WorkFrees(s), Work!Null, hd)
    /\ \A c \in DOMAIN s :
          IF s[c].free THEN /\ WorkFirst(WorkFrees(s), c, s[c].free_next)
                            /\ WorkLast(WorkFrees(s), c, s[c].free_prev)
          ELSE s[c].free_next = Work!Null /\ s[c].free_prev = Work!Null

WorkGood(s, hd) ==
    /\ WorkTyped(s) /\ WorkCut(s) /\ WorkNexts(s) /\ WorkPrevs(s) /\ WorkFreeLinks(s, hd)

\* No two neighbours are free.
WorkNoTwins(s) == \A c \in WorkFrees(s) : c + s[c].size \notin WorkFrees(s)

-----------------------------------------------------------------------------
(* Updates of one field.                                                   *)

\* No segment is at the null pointer.
LEMMA WorkNullIsNone ==
    ASSUME NEW s, WorkTyped(s)
    PROVE  Work!Null \notin DOMAIN s /\ Work!Null \in Int
  BY DEF WorkTyped, Work!Null

\* A segment has its fields.
LEMMA WorkFields ==
    ASSUME NEW s, WorkTyped(s), NEW c \in DOMAIN s
    PROVE  /\ c \in Nat /\ s[c].size \in Nat /\ s[c].free \in BOOLEAN
           /\ s[c].prev \in Int /\ s[c].next \in Int
           /\ s[c].free_prev \in Int /\ s[c].free_next \in Int
           /\ s[c] = [size |-> s[c].size, free |-> s[c].free, prev |-> s[c].prev,
                      next |-> s[c].next, free_prev |-> s[c].free_prev,
                      free_next |-> s[c].free_next]
  <1>1. s[c] \in WorkSegments /\ c \in Nat
    BY DEF WorkTyped
  <1> QED BY <1>1 DEF WorkSegments

\* out is s where the segment at p has q for one of its links.
WorkPrevSet(s, p, q, out) ==
    /\ WorkTyped(out) /\ DOMAIN out = DOMAIN s
    /\ \A x \in DOMAIN s :
          /\ out[x].size = s[x].size /\ (out[x].free <=> s[x].free) /\ out[x].next = s[x].next
          /\ out[x].free_next = s[x].free_next /\ out[x].free_prev = s[x].free_prev
          /\ out[x].prev = IF x = p THEN q ELSE s[x].prev
WorkFreePrevSet(s, p, q, out) ==
    /\ WorkTyped(out) /\ DOMAIN out = DOMAIN s
    /\ \A x \in DOMAIN s :
          /\ out[x].size = s[x].size /\ (out[x].free <=> s[x].free) /\ out[x].next = s[x].next
          /\ out[x].free_next = s[x].free_next /\ out[x].prev = s[x].prev
          /\ out[x].free_prev = IF x = p THEN q ELSE s[x].free_prev
WorkFreeNextSet(s, p, q, out) ==
    /\ WorkTyped(out) /\ DOMAIN out = DOMAIN s
    /\ \A x \in DOMAIN s :
          /\ out[x].size = s[x].size /\ (out[x].free <=> s[x].free) /\ out[x].next = s[x].next
          /\ out[x].free_prev = s[x].free_prev /\ out[x].prev = s[x].prev
          /\ out[x].free_next = IF x = p THEN q ELSE s[x].free_next

\* The segment at p, if there is one, gets q as the one before it.
LEMMA WorkLinkPrev ==
    ASSUME NEW s, WorkTyped(s), NEW p, p \in DOMAIN s \/ p = Work!Null, NEW q \in Int
    PROVE  WorkPrevSet(s, p, q, Work!Link(s, p, "prev", q))
  <1>1. CASE p = Work!Null
    BY <1>1, WorkNullIsNone DEF Work!Link, WorkPrevSet
  <1>2. CASE p # Work!Null
    <2>1. Work!Link(s, p, "prev", q) = [s EXCEPT ![p].prev = q] /\ p \in DOMAIN s
      BY <1>2, Zenon DEF Work!Link
    <2> QED BY <2>1 DEF WorkTyped, WorkSegments, WorkPrevSet
  <1> QED BY <1>1, <1>2

\* The segment at p, if there is one, gets q as the free one before it.
LEMMA WorkLinkFreePrev ==
    ASSUME NEW s, WorkTyped(s), NEW p, p \in DOMAIN s \/ p = Work!Null, NEW q \in Int
    PROVE  WorkFreePrevSet(s, p, q, Work!Link(s, p, "free_prev", q))
  <1>1. CASE p = Work!Null
    BY <1>1, WorkNullIsNone DEF Work!Link, WorkFreePrevSet
  <1>2. CASE p # Work!Null
    <2>1. Work!Link(s, p, "free_prev", q) = [s EXCEPT ![p].free_prev = q] /\ p \in DOMAIN s
      BY <1>2, Zenon DEF Work!Link
    <2> QED BY <2>1 DEF WorkTyped, WorkSegments, WorkFreePrevSet
  <1> QED BY <1>1, <1>2

\* The segment at p, if there is one, gets q as the free one after it.
LEMMA WorkLinkFreeNext ==
    ASSUME NEW s, WorkTyped(s), NEW p, p \in DOMAIN s \/ p = Work!Null, NEW q \in Int
    PROVE  WorkFreeNextSet(s, p, q, Work!Link(s, p, "free_next", q))
  <1>1. CASE p = Work!Null
    BY <1>1, WorkNullIsNone DEF Work!Link, WorkFreeNextSet
  <1>2. CASE p # Work!Null
    <2>1. Work!Link(s, p, "free_next", q) = [s EXCEPT ![p].free_next = q] /\ p \in DOMAIN s
      BY <1>2, Zenon DEF Work!Link
    <2> QED BY <2>1 DEF WorkTyped, WorkSegments, WorkFreeNextSet
  <1> QED BY <1>1, <1>2


-----------------------------------------------------------------------------
(* Sets of addresses.                                                      *)

\* What comes after x is c exactly if x comes before c.
LEMMA WorkDual ==
    ASSUME NEW F \in SUBSET Nat, NEW c \in F, NEW x \in F, NEW y \in Int, NEW p \in Int,
           WorkFirst(F, x, y), WorkLast(F, c, p)
    PROVE  y = c <=> x = p
  <1>1. c \in Nat /\ x \in Nat
    OBVIOUS
  <1>2. ASSUME y = c PROVE x = p
    BY <1>1, <1>2 DEF WorkFirst, WorkLast, Work!Null
  <1>3. ASSUME x = p PROVE y = c
    BY <1>1, <1>3 DEF WorkFirst, WorkLast, Work!Null
  <1> QED BY <1>2, <1>3

\* The place of a new address r, between p and n.
LEMMA WorkPlace ==
    ASSUME NEW F \in SUBSET Nat, NEW r \in Nat \ F, NEW n \in Int, NEW p \in Int,
           WorkFirst(F, r, n), WorkLast(F, r, p), NEW x \in F, NEW y \in Int, NEW z \in Int,
           WorkFirst(F, x, y), WorkLast(F, x, z)
    PROVE  /\ x = p <=> x < r /\ (y = Work!Null \/ r < y)
           /\ x = n <=> r < x /\ z < r
  <1>1. x \in Nat /\ x # r
    OBVIOUS
  <1>2. ASSUME x = p PROVE x < r /\ (y = Work!Null \/ r < y)
    BY <1>1, <1>2 DEF WorkFirst, WorkLast, Work!Null
  <1>3. ASSUME x < r, y = Work!Null \/ r < y PROVE x = p
    BY <1>1, <1>3 DEF WorkFirst, WorkLast, Work!Null
  <1>4. ASSUME x = n PROVE r < x /\ z < r
    BY <1>1, <1>4 DEF WorkFirst, WorkLast, Work!Null
  <1>5. ASSUME r < x, z < r PROVE x = n
    BY <1>1, <1>5 DEF WorkFirst, WorkLast, Work!Null
  <1> QED BY <1>2, <1>3, <1>4, <1>5

\* The new address is the head if nothing is before it.
LEMMA WorkPlaceHead ==
    ASSUME NEW F \in SUBSET Nat, NEW r \in Nat \ F, NEW p \in Int, NEW y \in Int,
           WorkLast(F, r, p), WorkFirst(F, Work!Null, y)
    PROVE  p = Work!Null <=> y = Work!Null \/ r < y
  <1>2. ASSUME p = Work!Null PROVE y = Work!Null \/ r < y
    BY <1>2 DEF WorkFirst, WorkLast, Work!Null
  <1>3. ASSUME y = Work!Null \/ r < y PROVE p = Work!Null
    BY <1>3 DEF WorkFirst, WorkLast, Work!Null
  <1> QED BY <1>2, <1>3

\* r is added to F.
LEMMA WorkAdded ==
    ASSUME NEW F \in SUBSET Nat, NEW r \in Nat, NEW a \in Int, NEW y \in Int, a # r
    PROVE  /\ WorkFirst(F, a, y) =>
                 WorkFirst(F \cup {r}, a, IF a < r /\ (y = Work!Null \/ r < y) THEN r ELSE y)
           /\ WorkLast(F, a, y) =>
                 WorkLast(F \cup {r}, a, IF r < a /\ y < r THEN r ELSE y)
  BY DEF WorkFirst, WorkLast, Work!Null

\* c is removed from F.
LEMMA WorkRemoved ==
    ASSUME NEW F \in SUBSET Nat, NEW c \in F, NEW a \in Int, NEW y \in Int, NEW d \in Int
    PROVE  /\ WorkFirst(F, a, y) /\ WorkFirst(F, c, d) =>
                 WorkFirst(F \ {c}, a, IF y = c THEN d ELSE y)
           /\ WorkLast(F, a, y) /\ WorkLast(F, c, d) =>
                 WorkLast(F \ {c}, a, IF y = c THEN d ELSE y)
  BY DEF WorkFirst, WorkLast, Work!Null

\* The links of the free list when r is added after p and before n.
LEMMA WorkLinksAdd ==
    ASSUME NEW s, NEW out, NEW hd \in Int, NEW r \in Nat, NEW p \in Int, NEW n \in Int,
           WorkTyped(s), WorkTyped(out), WorkFreeLinks(s, hd),
           WorkFrees(out) = WorkFrees(s) \cup {r}, r \notin WorkFrees(s),
           WorkFirst(WorkFrees(s), r, n), WorkLast(WorkFrees(s), r, p),
           \A x \in WorkFrees(s) :
               /\ out[x].free_next = IF x = p THEN r ELSE s[x].free_next
               /\ out[x].free_prev = IF x = n THEN r ELSE s[x].free_prev,
           out[r].free_next = n, out[r].free_prev = p,
           \A x \in DOMAIN out : ~out[x].free => out[x].free_next = Work!Null
                                                 /\ out[x].free_prev = Work!Null
    PROVE  WorkFreeLinks(out, IF p = Work!Null THEN r ELSE hd)
  <1> DEFINE F == WorkFrees(s)
  <1>1. F \in SUBSET Nat /\ \A x \in F : x \in DOMAIN s /\ s[x].free /\ x \in Nat
                            /\ s[x].free_next \in Int /\ s[x].free_prev \in Int
    BY DEF WorkFrees, WorkTyped, WorkSegments
  <1>2. /\ WorkFirst(F, Work!Null, hd)
        /\ \A x \in F : WorkFirst(F, x, s[x].free_next) /\ WorkLast(F, x, s[x].free_prev)
    BY <1>1 DEF WorkFreeLinks
  <1>a. WorkFirst(F, r, n) /\ WorkLast(F, r, p) /\ r \in Nat \ F
    OBVIOUS
  <1> HIDE DEF F
  <1>3. WorkFirst(F \cup {r}, r, n) /\ WorkLast(F \cup {r}, r, p) /\ F = WorkFrees(s)
    BY <1>1 DEF WorkFirst, WorkLast, F
  <1>4. ASSUME NEW x \in F
        PROVE  /\ WorkFirst(F \cup {r}, x, out[x].free_next)
               /\ WorkLast(F \cup {r}, x, out[x].free_prev)
    <2>1. x \in Int /\ x # r /\ s[x].free_next \in Int /\ s[x].free_prev \in Int
      BY <1>1, <1>3
    <2>2. x = p <=> x < r /\ (s[x].free_next = Work!Null \/ r < s[x].free_next)
      BY <1>1, <1>2, <1>a, <2>1, <1>4, WorkPlace
    <2>3. x = n <=> r < x /\ s[x].free_prev < r
      BY <1>1, <1>2, <1>a, <2>1, <1>4, WorkPlace
    <2>4. /\ out[x].free_next = IF x = p THEN r ELSE s[x].free_next
          /\ out[x].free_prev = IF x = n THEN r ELSE s[x].free_prev
      BY <1>3, <1>4
    <2>5. /\ WorkFirst(F \cup {r}, x, IF x < r /\ (s[x].free_next = Work!Null \/ r < s[x].free_next)
                                      THEN r ELSE s[x].free_next)
          /\ WorkLast(F \cup {r}, x, IF r < x /\ s[x].free_prev < r THEN r ELSE s[x].free_prev)
      BY <1>1, <1>2, <2>1, <1>4, WorkAdded
    <2> QED BY <2>2, <2>3, <2>4, <2>5
  <1>5. WorkFirst(F \cup {r}, Work!Null, IF p = Work!Null THEN r ELSE hd)
    <2>1. p = Work!Null <=> hd = Work!Null \/ r < hd
      BY <1>1, <1>2, <1>a, WorkPlaceHead
    <2>2. Work!Null < r /\ Work!Null \in Int /\ Work!Null # r
      BY DEF Work!Null
    <2>3. WorkFirst(F \cup {r}, Work!Null, IF Work!Null < r /\ (hd = Work!Null \/ r < hd) THEN r ELSE hd)
      BY <1>1, <1>2, <2>2, WorkAdded
    <2> QED BY <2>1, <2>2, <2>3
  <1>6. \A x \in DOMAIN out : out[x].free => x \in F \cup {r}
    BY <1>3 DEF WorkFrees
  <1> QED BY <1>3, <1>4, <1>5, <1>6 DEF WorkFreeLinks

\* The links of the free list when c is removed.
LEMMA WorkLinksRemove ==
    ASSUME NEW s, NEW out, NEW hd \in Int, NEW c \in WorkFrees(s),
           WorkTyped(s), WorkTyped(out), WorkFreeLinks(s, hd),
           WorkFrees(out) = WorkFrees(s) \ {c},
           \A x \in WorkFrees(s) \ {c} :
               /\ out[x].free_next = IF x = s[c].free_prev THEN s[c].free_next ELSE s[x].free_next
               /\ out[x].free_prev = IF x = s[c].free_next THEN s[c].free_prev ELSE s[x].free_prev,
           \A x \in DOMAIN out : ~out[x].free => out[x].free_next = Work!Null
                                                 /\ out[x].free_prev = Work!Null
    PROVE  WorkFreeLinks(out, IF s[c].free_prev = Work!Null THEN s[c].free_next ELSE hd)
  <1> DEFINE F == WorkFrees(s)
  <1>1. F \in SUBSET Nat /\ \A x \in F : x \in DOMAIN s /\ s[x].free /\ x \in Nat
                            /\ s[x].free_next \in Int /\ s[x].free_prev \in Int
    BY DEF WorkFrees, WorkTyped, WorkSegments
  <1>2. /\ WorkFirst(F, Work!Null, hd)
        /\ \A x \in F : WorkFirst(F, x, s[x].free_next) /\ WorkLast(F, x, s[x].free_prev)
    BY <1>1 DEF WorkFreeLinks
  <1>3. c \in F /\ F = WorkFrees(s) /\ c \in Nat
    BY <1>1
  <1> HIDE DEF F
  <1>4. ASSUME NEW x \in F \ {c}
        PROVE  /\ WorkFirst(F \ {c}, x, out[x].free_next)
               /\ WorkLast(F \ {c}, x, out[x].free_prev)
    <2>1. x \in F /\ x \in Int /\ s[x].free_next \in Int /\ s[x].free_prev \in Int
          /\ s[c].free_next \in Int /\ s[c].free_prev \in Int
      BY <1>1, <1>3
    <2>2. x = s[c].free_prev <=> s[x].free_next = c
      BY <1>1, <1>2, <1>3, <2>1, WorkDual
    <2>3. x = s[c].free_next <=> s[x].free_prev = c
      BY <1>1, <1>2, <1>3, <2>1, WorkDual
    <2>4. /\ out[x].free_next = IF x = s[c].free_prev THEN s[c].free_next ELSE s[x].free_next
          /\ out[x].free_prev = IF x = s[c].free_next THEN s[c].free_prev ELSE s[x].free_prev
      BY <1>3, <1>4
    <2>5. /\ WorkFirst(F \ {c}, x, IF s[x].free_next = c THEN s[c].free_next ELSE s[x].free_next)
          /\ WorkLast(F \ {c}, x, IF s[x].free_prev = c THEN s[c].free_prev ELSE s[x].free_prev)
      BY <1>1, <1>2, <1>3, <2>1, WorkRemoved
    <2> QED BY <2>2, <2>3, <2>4, <2>5
  <1>5. WorkFirst(F \ {c}, Work!Null, IF s[c].free_prev = Work!Null THEN s[c].free_next ELSE hd)
    <2>0. s[c].free_next \in Int /\ s[c].free_prev \in Int
      BY <1>1, <1>3
    <2>a. WorkLast(F, c, s[c].free_prev)
      BY <1>2, <1>3
    <2>b. ASSUME hd = c PROVE s[c].free_prev = Work!Null
      BY <1>1, <1>2, <1>3, <2>0, <2>a, <2>b DEF WorkFirst, WorkLast, Work!Null
    <2>c. ASSUME s[c].free_prev = Work!Null PROVE hd = c
      BY <1>1, <1>2, <1>3, <2>a, <2>c DEF WorkFirst, WorkLast, Work!Null
    <2>1. s[c].free_prev = Work!Null <=> hd = c
      BY <2>b, <2>c
    <2>2. WorkFirst(F \ {c}, Work!Null, IF hd = c THEN s[c].free_next ELSE hd)
      <3>1. Work!Null \in Int
        BY DEF Work!Null
      <3> QED BY <3>1, <1>1, <1>2, <1>3, <2>0, WorkRemoved
    <2> QED BY <2>1, <2>2
  <1>6. \A x \in DOMAIN out : out[x].free => x \in F \ {c}
    BY <1>3 DEF WorkFrees
  <1> QED BY <1>3, <1>4, <1>5, <1>6 DEF WorkFreeLinks

-----------------------------------------------------------------------------
(* The neighbours of a segment.                                            *)

\* What next and prev say in a good state.
LEMMA WorkNeighbours ==
    ASSUME WorkConstants, NEW s, WorkTyped(s), WorkCut(s), WorkNexts(s), WorkPrevs(s)
    PROVE  /\ \A c \in DOMAIN s :
                 /\ c \in Nat /\ c < WorkTotal /\ s[c].size \in Nat /\ s[c].next \in Int
                 /\ s[c].prev \in Int
                 /\ s[c].next # Work!Null => /\ s[c].next \in DOMAIN s
                                             /\ s[c].next = c + s[c].size
                                             /\ s[s[c].next].prev = c /\ c < s[c].next
                 /\ s[c].next = Work!Null => c + s[c].size = WorkTotal
                 /\ s[c].prev # Work!Null => /\ s[c].prev \in DOMAIN s
                                             /\ s[c].prev + s[s[c].prev].size = c
                                             /\ s[s[c].prev].next = c /\ s[c].prev < c
                 /\ s[c].prev = Work!Null => c = 0
           /\ \A c, d \in DOMAIN s : d < c + s[c].size => d <= c
  <1>0. /\ WorkTotal \in Nat \ {0}
        /\ \A c \in DOMAIN s : c \in Nat /\ c < WorkTotal /\ s[c].size \in Nat /\ s[c].size > 0
                               /\ s[c].next \in Int /\ s[c].prev \in Int
    BY DEF WorkConstants, WorkTyped, WorkSegments, WorkCut
  <1>1. \A c, d \in DOMAIN s : d < c + s[c].size => d <= c
    BY <1>0 DEF WorkCut
  <1>2. ASSUME NEW c \in DOMAIN s
        PROVE  /\ s[c].next # Work!Null => /\ s[c].next \in DOMAIN s
                                           /\ s[c].next = c + s[c].size
                                           /\ s[s[c].next].prev = c /\ c < s[c].next
               /\ s[c].next = Work!Null => c + s[c].size = WorkTotal
    <2>1. s[c].next = IF c + s[c].size = WorkTotal THEN Work!Null ELSE c + s[c].size
      BY DEF WorkNexts
    <2>2. CASE c + s[c].size = WorkTotal
      BY <2>1, <2>2
    <2>3. CASE c + s[c].size # WorkTotal
      <3>1. PICK n \in DOMAIN s : n = c + s[c].size
        BY <2>3 DEF WorkCut
      <3>2. s[c].next = n /\ n # Work!Null /\ n > c /\ n # 0
        BY <1>0, <2>1, <2>3, <3>1 DEF Work!Null
      <3>3. s[n].prev \in DOMAIN s /\ s[n].prev + s[s[n].prev].size = n
        BY <3>2 DEF WorkPrevs
      <3>4. PICK m \in DOMAIN s : m = s[n].prev
        BY <3>3
      <3>5. m = c
        <4>1. m + s[m].size = c + s[c].size
          BY <3>1, <3>3, <3>4
        <4>2. ~(m < c) /\ ~(c < m)
          BY <1>0, <4>1 DEF WorkCut
        <4> QED BY <1>0, <4>2
      <3> QED BY <3>1, <3>2, <3>4, <3>5
    <2> QED BY <2>2, <2>3
  <1>3. ASSUME NEW c \in DOMAIN s
        PROVE  /\ s[c].prev # Work!Null => /\ s[c].prev \in DOMAIN s
                                           /\ s[c].prev + s[s[c].prev].size = c
                                           /\ s[s[c].prev].next = c /\ s[c].prev < c
               /\ s[c].prev = Work!Null => c = 0
    <2>1. CASE c = 0
      BY <2>1 DEF WorkPrevs
    <2>2. CASE c # 0
      <3>1. PICK m \in DOMAIN s : m = s[c].prev /\ m + s[m].size = c
        BY <2>2 DEF WorkPrevs
      <3>2. s[m].next = c /\ m < c /\ m # Work!Null
        BY <1>0, <3>1 DEF WorkNexts, Work!Null
      <3> QED BY <3>1, <3>2
    <2> QED BY <2>1, <2>2
  <1> QED BY <1>0, <1>1, <1>2, <1>3

\* A free link names a free segment.
LEMMA WorkFreeLinked ==
    ASSUME NEW s, NEW hd, WorkGood(s, hd), NEW c \in DOMAIN s
    PROVE  /\ s[c].free_next \in DOMAIN s \cup {Work!Null}
           /\ s[c].free_prev \in DOMAIN s \cup {Work!Null}
           /\ hd \in DOMAIN s \cup {Work!Null}
           /\ hd # Work!Null => s[hd].free
           /\ s[c].free_next # Work!Null => s[s[c].free_next].free /\ c < s[c].free_next
           /\ s[c].free_prev # Work!Null => s[s[c].free_prev].free /\ s[c].free_prev < c
  BY DEF WorkGood, WorkFreeLinks, WorkFirst, WorkLast, WorkFrees

-----------------------------------------------------------------------------
(* xkblas_get_work_pos                                                     *)

\* The fields after c has been cut at r.
WorkSplitFields(s, c, sz, r, out) ==
    /\ WorkTyped(out) /\ DOMAIN out = DOMAIN s \cup {r} /\ r \notin DOMAIN s
    /\ out[c].size = sz /\ out[c].free /\ out[c].next = r /\ out[c].free_next = r
    /\ out[r].size = s[c].size - sz /\ out[r].free
    /\ out[r].prev = c /\ out[r].next = s[c].next
    /\ out[r].free_prev = c /\ out[r].free_next = s[c].free_next
    /\ \A x \in DOMAIN s \ {c} :
          /\ out[x].size = s[x].size /\ (out[x].free <=> s[x].free)
          /\ out[x].next = s[x].next /\ out[x].free_next = s[x].free_next
    /\ \A x \in DOMAIN s :
          /\ out[x].prev = IF x = s[c].next THEN r ELSE s[x].prev
          /\ out[x].free_prev = IF x = s[c].free_next THEN r ELSE s[x].free_prev

\* The cut of the code.
LEMMA WorkSplitIs ==
    ASSUME WorkConstants, NEW hd, WorkGood(seg, hd), NEW c \in DOMAIN seg, seg[c].free,
           NEW sz \in Nat \ {0}, sz < seg[c].size, NEW out, out = Work!Split(c, sz)
    PROVE  WorkSplitFields(seg, c, sz, c + sz, out)
  <1>0. /\ WorkTyped(seg) /\ WorkTotal \in Nat \ {0} /\ c \in 0..(WorkTotal - 1)
        /\ seg[c].size \in Nat /\ c + seg[c].size <= WorkTotal
        /\ Work!Null \notin DOMAIN seg
    BY WorkNullIsNone DEF WorkGood, WorkTyped, WorkSegments, WorkCut, WorkConstants
  <1>1. PICK r : r = c + sz
    OBVIOUS
  <1>2. r \in 0..(WorkTotal - 1) /\ r # c /\ r # Work!Null
    BY <1>0, <1>1 DEF Work!Null
  <1>3. r \notin DOMAIN seg
    <2>1. \A d \in DOMAIN seg : c < d => c + seg[c].size <= d
      BY DEF WorkGood, WorkCut
    <2> QED BY <1>0, <1>1, <2>1
  <1>4. /\ seg[c].next \in DOMAIN seg \cup {Work!Null}
        /\ seg[c].free_next \in DOMAIN seg \cup {Work!Null}
    BY WorkNeighbours, WorkFreeLinked DEF WorkGood
  <1>5. PICK after : after = [size |-> seg[c].size - sz, free |-> TRUE, prev |-> c,
                              next |-> seg[c].next, free_prev |-> c,
                              free_next |-> seg[c].free_next]
    OBVIOUS
  <1>6. after \in WorkSegments
    <2>1. seg[c] \in WorkSegments
      BY <1>0 DEF WorkTyped
    <2>2. seg[c].size - sz \in Nat /\ TRUE \in BOOLEAN /\ c \in Int /\ seg[c].next \in Int
          /\ seg[c].free_next \in Int
      BY <1>0, <2>1 DEF WorkSegments
    <2> QED BY <1>5, <2>2 DEF WorkSegments
  <1>7. PICK a : a = [seg EXCEPT ![c].size = sz, ![c].next = r, ![c].free_next = r]
    OBVIOUS
  <1>8. /\ WorkTyped(a) /\ DOMAIN a = DOMAIN seg
        /\ \A x \in DOMAIN seg :
              /\ (a[x].free <=> seg[x].free) /\ a[x].prev = seg[x].prev
              /\ a[x].free_prev = seg[x].free_prev
              /\ a[x].size = IF x = c THEN sz ELSE seg[x].size
              /\ a[x].next = IF x = c THEN r ELSE seg[x].next
              /\ a[x].free_next = IF x = c THEN r ELSE seg[x].free_next
    <2>1. r \in Int
      BY <1>2
    <2> QED BY <1>0, <1>7, <2>1 DEF WorkTyped, WorkSegments
  <1>9. PICK cut : cut = Work!With(a, r, after)
    OBVIOUS
  <1>10. /\ WorkTyped(cut) /\ DOMAIN cut = DOMAIN seg \cup {r} /\ cut[r] = after
         /\ \A x \in DOMAIN seg : cut[x] = a[x]
    <2>1. cut = [q \in DOMAIN seg \cup {r} |-> IF q = r THEN after ELSE a[q]]
      BY <1>8, <1>9 DEF Work!With
    <2>2. \A x \in DOMAIN seg \cup {r} : cut[x] \in WorkSegments
      BY <1>3, <1>6, <1>8, <2>1 DEF WorkTyped
    <2> QED BY <1>2, <1>3, <1>0, <2>1, <2>2 DEF WorkTyped
  <1>11. PICK e : e = Work!Link(cut, after.next, "prev", r)
    OBVIOUS
  <1>12. out = Work!Link(e, after.free_next, "free_prev", r)
    <2>1. seg[c].size # sz
      BY <1>0
    <2> QED BY <1>1, <1>5, <1>7, <1>9, <1>11, <2>1 DEF Work!Split
  <1>13. after.next = seg[c].next /\ after.free_next = seg[c].free_next /\ after.prev = c
         /\ after.free_prev = c /\ after.free /\ after.size = seg[c].size - sz
         /\ r \in Int
    BY <1>2, <1>5
  <1>14. WorkPrevSet(cut, after.next, r, e)
    <2>1. after.next \in DOMAIN cut \/ after.next = Work!Null
      <3>1. after.next = seg[c].next
        BY <1>13
      <3>2. seg[c].next \in DOMAIN cut \/ seg[c].next = Work!Null
        BY <1>4, <1>10
      <3> QED BY <3>1, <3>2
    <2> QED BY <2>1, <1>10, <1>11, <1>13, WorkLinkPrev
  <1>15. WorkFreePrevSet(e, after.free_next, r, out)
    <2>1. after.free_next \in DOMAIN e \/ after.free_next = Work!Null
      <3>1. after.free_next = seg[c].free_next
        BY <1>13
      <3>2. seg[c].free_next \in DOMAIN e \/ seg[c].free_next = Work!Null
        BY <1>4, <1>10, <1>14 DEF WorkPrevSet
      <3> QED BY <3>1, <3>2
    <2>2. WorkTyped(e)
      BY <1>14 DEF WorkPrevSet
    <2> QED BY <2>1, <2>2, <1>12, <1>13, WorkLinkFreePrev
  <1>16. r # seg[c].next /\ r # seg[c].free_next
    BY <1>2, <1>3, <1>4
  <1>17. /\ out[r].size = seg[c].size - sz /\ out[r].free
         /\ out[r].prev = c /\ out[r].next = seg[c].next
         /\ out[r].free_prev = c /\ out[r].free_next = seg[c].free_next
    <2>1. r \in DOMAIN cut /\ r \in DOMAIN e /\ cut[r] = after
      BY <1>10, <1>14 DEF WorkPrevSet, WorkFreePrevSet
    <2>2. e[r].prev = c /\ e[r].size = after.size /\ e[r].free
          /\ e[r].next = seg[c].next /\ e[r].free_next = seg[c].free_next /\ e[r].free_prev = c
      BY <2>1, <1>13, <1>14, <1>16 DEF WorkPrevSet, WorkFreePrevSet
    <2> QED BY <2>1, <2>2, <1>13, <1>15, <1>16 DEF WorkPrevSet, WorkFreePrevSet
  <1>18. ASSUME NEW x \in DOMAIN seg
         PROVE  /\ out[x].size = a[x].size /\ (out[x].free <=> a[x].free)
                /\ out[x].next = a[x].next /\ out[x].free_next = a[x].free_next
                /\ out[x].prev = IF x = seg[c].next THEN r ELSE a[x].prev
                /\ out[x].free_prev = IF x = seg[c].free_next THEN r ELSE a[x].free_prev
    <2>1. x \in DOMAIN cut /\ x \in DOMAIN e /\ cut[x] = a[x]
      BY <1>10, <1>14 DEF WorkPrevSet, WorkFreePrevSet
    <2> QED BY <1>13, <1>14, <1>15, <2>1 DEF WorkPrevSet, WorkFreePrevSet
  <1>19. DOMAIN out = DOMAIN seg \cup {r} /\ WorkTyped(out)
    BY <1>10, <1>14, <1>15 DEF WorkPrevSet, WorkFreePrevSet
  <1>20. out[c].size = sz /\ out[c].free /\ out[c].next = r /\ out[c].free_next = r
    BY <1>8, <1>18
  <1>21. \A x \in DOMAIN seg \ {c} :
            /\ out[x].size = seg[x].size /\ (out[x].free <=> seg[x].free)
            /\ out[x].next = seg[x].next /\ out[x].free_next = seg[x].free_next
    BY <1>8, <1>18
  <1>22. \A x \in DOMAIN seg :
            /\ out[x].prev = IF x = seg[c].next THEN r ELSE seg[x].prev
            /\ out[x].free_prev = IF x = seg[c].free_next THEN r ELSE seg[x].free_prev
    BY <1>8, <1>18
  <1> QED BY <1>1, <1>3, <1>17, <1>19, <1>20, <1>21, <1>22 DEF WorkSplitFields

\* The two segments are as good as one, and both free.
LEMMA WorkSplitGood ==
    ASSUME WorkConstants, NEW s, NEW hd \in Int, WorkGood(s, hd), NEW c \in DOMAIN s, s[c].free,
           NEW sz \in Nat \ {0}, sz < s[c].size, NEW r, r = c + sz, NEW out,
           WorkSplitFields(s, c, sz, r, out)
    PROVE  /\ WorkGood(out, hd) /\ WorkFrees(out) = WorkFrees(s) \cup {r}
           /\ out[c].free_next = r /\ out[c].size = sz
  <1>0. /\ WorkTyped(s) /\ WorkCut(s) /\ WorkNexts(s) /\ WorkPrevs(s) /\ WorkFreeLinks(s, hd)
        /\ WorkTotal \in Nat \ {0} /\ WorkTyped(out)
    BY DEF WorkGood, WorkSplitFields, WorkConstants
  <1>1. /\ DOMAIN out = DOMAIN s \cup {r} /\ r \notin DOMAIN s /\ c < r /\ r \in Nat
        /\ c \in Nat /\ c # r /\ r # 0 /\ r < c + s[c].size /\ s[c].size \in Nat
        /\ r + (s[c].size - sz) = c + s[c].size /\ s[c].size - sz > 0
        /\ Work!Null # r /\ Work!Null # c
    <2>1. c \in Nat /\ s[c].size \in Nat
      BY <1>0, WorkNeighbours
    <2> QED BY <2>1 DEF WorkSplitFields, Work!Null
  <1>2. /\ out[c].size = sz /\ out[c].next = r /\ out[c].free_next = r
        /\ out[r].size = s[c].size - sz /\ out[r].next = s[c].next
        /\ out[r].prev = c /\ out[r].free_prev = c /\ out[r].free_next = s[c].free_next
        /\ \A x \in DOMAIN s \ {c} : out[x].size = s[x].size /\ out[x].next = s[x].next
                                      /\ out[x].free_next = s[x].free_next
    BY DEF WorkSplitFields
  <1>f. out[c].free /\ out[r].free /\ \A x \in DOMAIN s : out[x].free <=> s[x].free
    BY DEF WorkSplitFields
  <1>p. \A x \in DOMAIN s : out[x].prev = IF x = s[c].next THEN r ELSE s[x].prev
    BY DEF WorkSplitFields
  <1>q. \A x \in DOMAIN s : out[x].free_prev = IF x = s[c].free_next THEN r ELSE s[x].free_prev
    BY DEF WorkSplitFields
  <1>3. /\ \A x \in DOMAIN s : x \in Nat /\ s[x].size \in Nat /\ s[x].size > 0
                               /\ x + s[x].size <= WorkTotal
        /\ \A x \in DOMAIN s : x + s[x].size # WorkTotal => x + s[x].size \in DOMAIN s
        /\ \A x, y \in DOMAIN s : x < y => x + s[x].size <= y
    BY <1>0, WorkNeighbours DEF WorkCut
  <1>4. WorkCut(out)
    <2>1. 0 \in DOMAIN out
      BY <1>0, <1>1 DEF WorkCut
    <2>2. ASSUME NEW x \in DOMAIN out
          PROVE  /\ out[x].size > 0 /\ x + out[x].size <= WorkTotal
                 /\ x + out[x].size # WorkTotal => x + out[x].size \in DOMAIN out
      <3>1. CASE x = c
        <4>1. out[x].size = sz /\ x + sz = r /\ r \in DOMAIN out /\ sz > 0
          BY <1>1, <1>2, <3>1
        <4>2. r <= WorkTotal
          BY <1>0, <1>1, <1>3
        <4> QED BY <4>1, <4>2
      <3>2. CASE x = r
        BY <1>1, <1>2, <1>3, <3>2
      <3>3. CASE x # c /\ x # r
        BY <1>1, <1>2, <1>3, <3>3
      <3> QED BY <3>1, <3>2, <3>3
    <2>3. ASSUME NEW x \in DOMAIN out, NEW y \in DOMAIN out, x < y
          PROVE  x + out[x].size <= y
      <3>1. CASE x = c
        <4>1. CASE y = r
          BY <1>1, <1>2, <3>1, <4>1
        <4>2. CASE y # r
          BY <1>1, <1>2, <1>3, <2>3, <3>1, <4>2
        <4> QED BY <4>1, <4>2
      <3>2. CASE x = r
        <4>1. y \in DOMAIN s /\ c < y
          BY <1>1, <1>3, <2>3, <3>2
        <4> QED BY <1>1, <1>2, <1>3, <3>2, <4>1
      <3>3. CASE x # c /\ x # r
        <4>1. x \in DOMAIN s /\ out[x].size = s[x].size
          BY <1>1, <1>2, <3>3
        <4>2. CASE y = r
          <5>1. x < c
            BY <1>1, <1>3, <2>3, <3>3, <4>1, <4>2
          <5> QED BY <1>1, <1>3, <4>1, <4>2, <5>1
        <4>3. CASE y # r
          BY <1>1, <1>3, <2>3, <4>1, <4>3
        <4> QED BY <4>2, <4>3
      <3> QED BY <3>1, <3>2, <3>3
    <2> QED BY <2>1, <2>2, <2>3 DEF WorkCut
  <1>5. WorkNexts(out)
    <2> SUFFICES ASSUME NEW x \in DOMAIN out
                 PROVE  out[x].next = IF x + out[x].size = WorkTotal THEN Work!Null
                                      ELSE x + out[x].size
      BY DEF WorkNexts
    <2>0. \A y \in DOMAIN s : s[y].next = IF y + s[y].size = WorkTotal THEN Work!Null
                                          ELSE y + s[y].size
      BY <1>0 DEF WorkNexts
    <2>1. CASE x = c
      BY <1>1, <1>2, <1>3, <2>1
    <2>2. CASE x = r
      BY <1>1, <1>2, <2>0, <2>2
    <2>3. CASE x # c /\ x # r
      BY <1>1, <1>2, <2>0, <2>3
    <2> QED BY <2>1, <2>2, <2>3
  <1>6. WorkPrevs(out)
    <2> SUFFICES ASSUME NEW x \in DOMAIN out
                 PROVE  IF x = 0 THEN out[x].prev = Work!Null
                        ELSE out[x].prev \in DOMAIN out /\ out[x].prev + out[out[x].prev].size = x
      BY DEF WorkPrevs
    <2>0. s[c].next # Work!Null => s[c].next = c + s[c].size /\ s[s[c].next].prev = c
      BY <1>0, WorkNeighbours
    <2>1. CASE x = r
      BY <1>1, <1>2, <2>1
    <2>2. CASE x # r /\ x = s[c].next
      <3>0. x \in DOMAIN s /\ x # Work!Null
        BY <1>0, <1>1, <2>2, WorkNullIsNone
      <3>1. out[x].prev = r /\ x # 0 /\ x = c + s[c].size
        BY <1>1, <1>p, <2>0, <2>2, <3>0
      <3> QED BY <1>1, <1>2, <3>1
    <2>3. CASE x # r /\ x # s[c].next
      <3>1. x \in DOMAIN s /\ out[x].prev = s[x].prev
        BY <1>1, <1>p, <2>3
      <3>2. CASE x = 0
        BY <1>0, <3>1, <3>2 DEF WorkPrevs
      <3>3. CASE x # 0
        <4>1. PICK m \in DOMAIN s : m = s[x].prev /\ m + s[m].size = x /\ s[m].next = x
          BY <1>0, <3>1, <3>3, WorkNeighbours
        <4>2. m # c /\ m # r
          BY <1>1, <2>3, <4>1
        <4> QED BY <1>1, <1>2, <3>1, <3>3, <4>1, <4>2
      <3> QED BY <3>2, <3>3
    <2> QED BY <2>1, <2>2, <2>3
  <1>7. WorkFrees(out) = WorkFrees(s) \cup {r}
    BY <1>1, <1>f DEF WorkFrees
  <1>8. WorkFreeLinks(out, hd)
    <2> DEFINE F == WorkFrees(s)
    <2>1. /\ c \in F /\ F \in SUBSET Nat /\ r \notin F /\ s[c].free_next \in Int
          /\ \A x \in F : x \in DOMAIN s
          /\ \A x \in F : WorkFirst(F, x, s[x].free_next) /\ WorkLast(F, x, s[x].free_prev)
      BY <1>0, <1>1, <1>3 DEF WorkFrees, WorkFreeLinks, WorkTyped, WorkSegments
    <2>2. \A e \in F : ~(c < e /\ e < c + s[c].size)
      BY <1>1, <1>3, <2>1
    <2>3. WorkFirst(F, c, s[c].free_next)
      BY <2>1
    <2> HIDE DEF F
    <2>4. WorkFirst(F, r, s[c].free_next) /\ WorkLast(F, r, c)
      BY <1>1, <2>1, <2>2, <2>3 DEF WorkFirst, WorkLast, Work!Null
    <2>5. \A x \in F : /\ out[x].free_next = IF x = c THEN r ELSE s[x].free_next
                       /\ out[x].free_prev = IF x = s[c].free_next THEN r ELSE s[x].free_prev
      BY <1>1, <1>2, <1>q, <2>1
    <2>6. out[r].free_next = s[c].free_next /\ out[r].free_prev = c
      BY <1>1, <1>2
    <2>7. \A x \in DOMAIN out : ~out[x].free => out[x].free_next = Work!Null
                                                /\ out[x].free_prev = Work!Null
      <3> SUFFICES ASSUME NEW x \in DOMAIN out, ~out[x].free
                   PROVE  out[x].free_next = Work!Null /\ out[x].free_prev = Work!Null
        OBVIOUS
      <3>1. x # r /\ x \in DOMAIN s /\ ~s[x].free /\ x # c
        BY <1>1, <1>f
      <3>2. x # s[c].free_next
        BY <1>0, <3>1, WorkFreeLinked, WorkNullIsNone
      <3> QED BY <1>0, <1>2, <1>q, <3>1, <3>2 DEF WorkFreeLinks
    <2>8. F = WorkFrees(s)
      BY DEF F
    <2>9. WorkFreeLinks(out, IF c = Work!Null THEN r ELSE hd)
      BY <1>0, <1>1, <1>7, <2>1, <2>4, <2>5, <2>6, <2>7, <2>8, WorkLinksAdd
    <2> QED BY <1>1, <2>9
  <1>9. out[c].free_next = r /\ out[c].size = sz
    BY <1>1, <1>2
  <1> QED BY <1>0, <1>4, <1>5, <1>6, <1>7, <1>8, <1>9 DEF WorkGood

\* c leaves the free list.
LEMMA WorkTakeGood ==
    ASSUME WorkConstants, NEW s, NEW hd \in Int, WorkGood(s, hd), NEW c \in DOMAIN s, s[c].free,
           NEW out, out = Work!Take(s, c)
    PROVE  /\ WorkGood(out, IF s[c].free_prev = Work!Null THEN s[c].free_next ELSE hd)
           /\ DOMAIN out = DOMAIN s /\ WorkFrees(out) = WorkFrees(s) \ {c}
           /\ \A x \in DOMAIN s : out[x].size = s[x].size /\ (out[x].free <=> x # c /\ s[x].free)
  <1>0. /\ WorkTyped(s) /\ WorkCut(s) /\ WorkNexts(s) /\ WorkPrevs(s) /\ WorkFreeLinks(s, hd)
        /\ Work!Null \notin DOMAIN s /\ Work!Null \in Int
    BY WorkNullIsNone DEF WorkGood
  <1>1. PICK n : n = s[c].free_next
    OBVIOUS
  <1>2. PICK p : p = s[c].free_prev
    OBVIOUS
  <1>3. /\ n \in DOMAIN s \/ n = Work!Null
        /\ p \in DOMAIN s \/ p = Work!Null
        /\ n \in Int /\ p \in Int /\ n # c /\ p # c
    <2>1. n \in DOMAIN s \cup {Work!Null} /\ p \in DOMAIN s \cup {Work!Null}
      BY <1>1, <1>2, WorkFreeLinked
    <2>2. n # c /\ p # c
      BY <1>0, <1>1, <1>2, WorkFreeLinked, WorkFields
    <2>3. n \in Int /\ p \in Int
      BY <1>0, <1>1, <1>2, WorkFields
    <2> QED BY <2>1, <2>2, <2>3
  <1>a. PICK f \in BOOLEAN : f = FALSE
    OBVIOUS
  <1>4. PICK a : a = [s EXCEPT ![c].free = f, ![c].free_next = Work!Null,
                               ![c].free_prev = Work!Null]
    OBVIOUS
  <1>5. /\ WorkTyped(a) /\ DOMAIN a = DOMAIN s
        /\ \A x \in DOMAIN s :
              /\ a[x].size = s[x].size /\ a[x].prev = s[x].prev /\ a[x].next = s[x].next
              /\ (a[x].free <=> x # c /\ s[x].free)
              /\ a[x].free_next = IF x = c THEN Work!Null ELSE s[x].free_next
              /\ a[x].free_prev = IF x = c THEN Work!Null ELSE s[x].free_prev
    BY <1>0, <1>a, <1>4 DEF WorkTyped, WorkSegments
  <1>6. PICK b : b = Work!Link(a, n, "free_prev", p)
    OBVIOUS
  <1>7. out = Work!Link(b, p, "free_next", n)
    BY <1>1, <1>2, <1>a, <1>4, <1>6 DEF Work!Take
  <1>8. WorkFreePrevSet(a, n, p, b)
    BY <1>3, <1>5, <1>6, WorkLinkFreePrev
  <1>9. WorkFreeNextSet(b, p, n, out)
    BY <1>3, <1>5, <1>7, <1>8, WorkLinkFreeNext DEF WorkFreePrevSet
  <1>10. /\ WorkTyped(out) /\ DOMAIN out = DOMAIN s
         /\ \A x \in DOMAIN s :
               /\ out[x].size = s[x].size /\ out[x].prev = s[x].prev /\ out[x].next = s[x].next
               /\ (out[x].free <=> x # c /\ s[x].free)
               /\ out[x].free_next = IF x = p THEN n ELSE IF x = c THEN Work!Null
                                     ELSE s[x].free_next
               /\ out[x].free_prev = IF x = n THEN p ELSE IF x = c THEN Work!Null
                                     ELSE s[x].free_prev
    BY <1>5, <1>8, <1>9 DEF WorkFreePrevSet, WorkFreeNextSet
  <1>11. WorkFrees(out) = WorkFrees(s) \ {c}
    BY <1>10 DEF WorkFrees
  <1>12. WorkCut(out) /\ WorkNexts(out)
    BY <1>0, <1>10 DEF WorkCut, WorkNexts
  <1>13. WorkPrevs(out)
    BY <1>0, <1>10 DEF WorkPrevs
  <1>14. WorkFreeLinks(out, IF s[c].free_prev = Work!Null THEN s[c].free_next ELSE hd)
    <2>1. c \in WorkFrees(s) /\ \A x \in WorkFrees(s) : x \in DOMAIN s
      BY DEF WorkFrees
    <2>2. \A x \in WorkFrees(s) \ {c} :
              /\ out[x].free_next = IF x = s[c].free_prev THEN s[c].free_next
                                    ELSE s[x].free_next
              /\ out[x].free_prev = IF x = s[c].free_next THEN s[c].free_prev
                                    ELSE s[x].free_prev
      BY <1>1, <1>2, <1>10, <2>1
    <2>3. ASSUME NEW x \in DOMAIN out, ~out[x].free
          PROVE  out[x].free_next = Work!Null /\ out[x].free_prev = Work!Null
      <3>1. CASE x = c
        BY <1>3, <1>10, <3>1
      <3>2. CASE x # c
        <4>1. ~s[x].free /\ x \in DOMAIN s
          BY <1>10, <2>3, <3>2
        <4>2. x # n /\ x # p
          BY <1>0, <1>1, <1>2, <4>1, WorkFreeLinked
        <4> QED BY <1>0, <1>10, <3>2, <4>1, <4>2 DEF WorkFreeLinks
      <3> QED BY <3>1, <3>2
    <2> QED BY <1>0, <1>10, <1>11, <2>1, <2>2, <2>3, WorkLinksRemove
  <1> QED BY <1>10, <1>11, <1>12, <1>13, <1>14 DEF WorkGood

-----------------------------------------------------------------------------
(* The free list, followed from its head.                                  *)

\* The place after c in the list.
WorkAfter(c) == IF c = Work!Null THEN Work!Null ELSE seg[c].free_next

\* g follows the free list for n places.
WorkFollows(g, n) ==
    /\ g \in [0..n -> DOMAIN seg \cup {Work!Null}] /\ g[0] = free_segment_list
    /\ \A i \in 0..n : i # 0 => g[i] = WorkAfter(g[i - 1])

\* The instance has the library's Cardinality; there are no more segments than
\* addresses.
LEMMA WorkCount ==
    ASSUME WorkConstants, WorkTyped(seg)
    PROVE  /\ Work!Cardinality(Work!Live) = Cardinality(DOMAIN seg) /\ IsFiniteSet(DOMAIN seg)
           /\ Cardinality(DOMAIN seg) \in Nat /\ Cardinality(DOMAIN seg) <= WorkTotal
  <1>1. Work!Cardinality(DOMAIN seg) = Cardinality(DOMAIN seg)
    BY Zenon DEF Work!Cardinality, Cardinality
  <1>2. 0 \in Int /\ WorkTotal - 1 \in Int /\ ~(0 > WorkTotal - 1) /\ WorkTotal \in Nat
    BY DEF WorkConstants
  <1>3. IsFiniteSet(0..(WorkTotal - 1))
        /\ Cardinality(0..(WorkTotal - 1)) = IF 0 > WorkTotal - 1 THEN 0 ELSE WorkTotal - 1 - 0 + 1
    BY <1>2, FS_Interval, Zenon
  <1>4. Cardinality(0..(WorkTotal - 1)) = WorkTotal
    BY <1>2, <1>3
  <1>5. DOMAIN seg \in SUBSET (0..(WorkTotal - 1))
    BY DEF WorkTyped
  <1>6. IsFiniteSet(DOMAIN seg) /\ Cardinality(DOMAIN seg) <= Cardinality(0..(WorkTotal - 1))
    BY <1>3, <1>5, FS_Subset
  <1>7. Cardinality(DOMAIN seg) \in Nat
    BY <1>6, FS_CardinalityType
  <1> QED BY <1>1, <1>4, <1>6, <1>7 DEF Work!Live

\* Places of the free list are segments or null.
LEMMA WorkFreeAtIs ==
    ASSUME WorkConstants, WorkGood(seg, free_segment_list)
    PROVE  WorkFollows(Work!FreeAt, WorkTotal)
  <1>0. WorkTotal \in Nat
    BY DEF WorkConstants
  <1> DEFINE D == DOMAIN seg \cup {Work!Null}
  <1>a. /\ \A c \in D : WorkAfter(c) \in D
        /\ free_segment_list \in D
    <2>1. Work!Null \notin DOMAIN seg
      BY WorkNullIsNone DEF WorkGood
    <2>3. PICK c \in DOMAIN seg : TRUE
      BY DEF WorkGood, WorkCut
    <2>4. free_segment_list \in D
      BY <2>3, WorkFreeLinked
    <2> QED BY <2>1, <2>4, WorkFreeLinked DEF WorkAfter
  <1> HIDE DEF D
  <1> DEFINE Follow(g, n) == /\ g \in [0..n -> D] /\ g[0] = free_segment_list
                             /\ \A i \in 0..n : i # 0 => g[i] = WorkAfter(g[i - 1])
  <1> DEFINE S == {n \in Nat : ~ \E g : Follow(g, n)}
  <1>1. ASSUME S # {} PROVE FALSE
    <2>1. S \in SUBSET Nat
      OBVIOUS
    <2>2. PICK n \in S : \A m \in S : n <= m
      <3> HIDE DEF S
      <3> QED BY <1>1, <2>1, LeastExists
    <2>3. n \in Nat /\ ~ \E g : Follow(g, n)
      OBVIOUS
    <2>4. n # 0
      <3>1. SUFFICES ASSUME n = 0 PROVE FALSE
        OBVIOUS
      <3>2. PICK g : g = [i \in 0..0 |-> free_segment_list]
        OBVIOUS
      <3>3. Follow(g, 0)
        BY <1>a, <3>2
      <3> QED BY <2>3, <3>1, <3>3
    <2>5. PICK g : Follow(g, n - 1)
      <3>1. n - 1 \in Nat /\ ~(n <= n - 1)
        BY <2>3, <2>4
      <3>2. n - 1 \notin S
        BY <2>2, <3>1
      <3> QED BY <3>1, <3>2
    <2>6. /\ g \in [0..(n - 1) -> D] /\ g[0] = free_segment_list
          /\ \A i \in 0..(n - 1) : i # 0 => g[i] = WorkAfter(g[i - 1])
      BY <2>5
    <2>7. PICK h : h = [i \in 0..n |-> IF i = n THEN WorkAfter(g[n - 1]) ELSE g[i]]
      OBVIOUS
    <2>8. h \in [0..n -> D]
      <3>1. \A i \in 0..n : i # n => g[i] \in D
        BY <2>3, <2>6
      <3>2. g[n - 1] \in D
        BY <2>3, <2>4, <2>6
      <3>3. WorkAfter(g[n - 1]) \in D
        BY <1>a, <3>2
      <3> QED BY <2>7, <3>1, <3>3
    <2>9. h[0] = free_segment_list
      BY <2>3, <2>4, <2>6, <2>7
    <2>10. ASSUME NEW i \in 0..n, i # 0 PROVE h[i] = WorkAfter(h[i - 1])
      <3>1. h[i - 1] = g[i - 1]
        BY <2>3, <2>7, <2>10
      <3>2. CASE i = n
        BY <2>7, <3>1, <3>2
      <3>3. CASE i # n
        <4>1. i \in 0..(n - 1) /\ h[i] = g[i]
          BY <2>3, <2>7, <3>3
        <4> QED BY <2>6, <2>10, <3>1, <4>1
      <3> QED BY <3>2, <3>3
    <2>11. Follow(h, n)
      BY <2>8, <2>9, <2>10
    <2> QED BY <2>3, <2>11
  <1>2. PICK g : Follow(g, WorkTotal)
    BY <1>0, <1>1
  <1>3. g = [n \in 0..WorkTotal |->
                IF n = 0 THEN free_segment_list
                ELSE IF g[n - 1] = Work!Null THEN Work!Null ELSE seg[g[n - 1]].free_next]
    <2>1. /\ g \in [0..WorkTotal -> D]
          /\ \A i \in 0..WorkTotal :
                g[i] = IF i = 0 THEN free_segment_list
                       ELSE IF g[i - 1] = Work!Null THEN Work!Null ELSE seg[g[i - 1]].free_next
      BY <1>2, Zenon DEF WorkAfter
    <2> QED BY <2>1, Zenon
  <1>4. Work!FreeAt = [n \in 0..WorkTotal |->
                IF n = 0 THEN free_segment_list
                ELSE IF Work!FreeAt[n - 1] = Work!Null THEN Work!Null
                     ELSE seg[Work!FreeAt[n - 1]].free_next]
    BY <1>3, Zenon DEF Work!FreeAt
  <1>5. \A i \in 0..WorkTotal :
            Work!FreeAt[i] = IF i = 0 THEN free_segment_list ELSE WorkAfter(Work!FreeAt[i - 1])
    BY <1>4, Zenon DEF WorkAfter
  <1>6. Work!FreeAt[0] = free_segment_list
    BY <1>0, <1>5
  <1>7. \A i \in 0..WorkTotal : Work!FreeAt[i] \in D
    <2> DEFINE B == {i \in 0..WorkTotal : Work!FreeAt[i] \notin D}
    <2>1. SUFFICES ASSUME B # {} PROVE FALSE
      OBVIOUS
    <2>2. B \in SUBSET Nat
      BY <1>0
    <2>3. PICK i \in B : \A j \in B : i <= j
      <3> HIDE DEF B
      <3> QED BY <2>1, <2>2, LeastExists
    <2>4. i \in 0..WorkTotal /\ Work!FreeAt[i] \notin D
      OBVIOUS
    <2>5. i # 0
      BY <1>a, <1>6, <2>4
    <2>6. i - 1 \in 0..WorkTotal /\ ~(i <= i - 1)
      BY <1>0, <2>4, <2>5
    <2>7. Work!FreeAt[i - 1] \in D
      BY <2>3, <2>6
    <2> QED BY <1>5, <1>a, <2>4, <2>5, <2>7
  <1>8. Work!FreeAt \in [0..WorkTotal -> D]
    BY <1>4, <1>7, Zenon
  <1> QED BY <1>0, <1>5, <1>6, <1>8 DEF WorkFollows, D

\* The number of free segments before a.
WorkBefore(a) == {e \in WorkFrees(seg) : e < a}

\* A place of the list is a free segment with as many before it as the place says,
\* and the list ends after the free segments.
LEMMA WorkPlaceCounts ==
    ASSUME WorkConstants, WorkGood(seg, free_segment_list)
    PROVE  \A n \in 0..WorkTotal :
               IF Work!FreeAt[n] = Work!Null THEN Cardinality(WorkFrees(seg)) <= n
               ELSE Work!FreeAt[n] \in WorkFrees(seg)
                    /\ Cardinality(WorkBefore(Work!FreeAt[n])) = n
  <1> DEFINE F == WorkFrees(seg)
             Right(n) == IF Work!FreeAt[n] = Work!Null THEN Cardinality(F) <= n
                         ELSE Work!FreeAt[n] \in F /\ Cardinality(WorkBefore(Work!FreeAt[n])) = n
             B == {n \in 0..WorkTotal : ~Right(n)}
  <1>0. /\ WorkTotal \in Nat /\ WorkTyped(seg) /\ WorkFreeLinks(seg, free_segment_list)
        /\ WorkFollows(Work!FreeAt, WorkTotal) /\ IsFiniteSet(DOMAIN seg)
    BY WorkFreeAtIs, WorkCount DEF WorkConstants, WorkGood
  <1>1. F \in SUBSET DOMAIN seg /\ F \in SUBSET Nat /\ IsFiniteSet(F)
    <2>1. F \in SUBSET DOMAIN seg /\ F \in SUBSET Nat
      BY <1>0 DEF WorkFrees, WorkTyped
    <2> QED BY <1>0, <2>1, FS_Subset
  <1>2. /\ WorkFirst(F, Work!Null, free_segment_list)
        /\ \A c \in F : WorkFirst(F, c, seg[c].free_next)
    BY <1>0 DEF WorkFreeLinks, WorkFrees
  <1>3. \A a : WorkBefore(a) \in SUBSET F /\ IsFiniteSet(WorkBefore(a))
    <2>1. \A a : WorkBefore(a) \in SUBSET F
      BY DEF WorkBefore
    <2> QED BY <1>1, <2>1, FS_Subset
  <1>4. SUFFICES ASSUME B # {} PROVE FALSE
    OBVIOUS
  <1>5. B \in SUBSET Nat
    BY <1>0
  <1>6. PICK n \in B : \A m \in B : n <= m
    <2> HIDE DEF B
    <2> QED BY <1>4, <1>5, LeastExists
  <1>7. n \in 0..WorkTotal /\ ~Right(n)
    OBVIOUS
  <1>8. CASE n = 0
    <2>1. Work!FreeAt[n] = free_segment_list
      BY <1>0, <1>8 DEF WorkFollows
    <2>2. CASE free_segment_list = Work!Null
      <3>1. F = {}
        BY <1>1, <1>2, <2>2 DEF WorkFirst, Work!Null
      <3>2. Cardinality(F) = 0
        BY <3>1, FS_EmptySet
      <3> QED BY <1>7, <1>8, <2>1, <2>2, <3>2
    <2>3. CASE free_segment_list # Work!Null
      <3>1. free_segment_list \in F
        BY <1>2, <2>3 DEF WorkFirst
      <3>2. \A e \in F : ~(e < free_segment_list)
        BY <1>1, <1>2, <2>3, <3>1 DEF WorkFirst, Work!Null
      <3>3. WorkBefore(free_segment_list) = {}
        BY <3>2 DEF WorkBefore
      <3>4. Cardinality(WorkBefore(free_segment_list)) = 0
        BY <3>3, FS_EmptySet
      <3> QED BY <1>7, <1>8, <2>1, <2>3, <3>1, <3>4
    <2> QED BY <2>2, <2>3
  <1>9. CASE n # 0
    <2>1. n - 1 \in 0..WorkTotal /\ ~(n <= n - 1) /\ n \in Nat /\ n - 1 \in Nat
      BY <1>0, <1>7, <1>9
    <2>2. Right(n - 1)
      BY <1>6, <2>1
    <2>3. PICK p : p = Work!FreeAt[n - 1]
      OBVIOUS
    <2>4. Work!FreeAt[n] = WorkAfter(p)
      BY <1>0, <1>7, <1>9, <2>3 DEF WorkFollows
    <2>5. CASE p = Work!Null
      <3>1. Cardinality(F) <= n - 1 /\ Cardinality(F) \in Nat
        BY <1>1, <2>2, <2>3, <2>5, FS_CardinalityType
      <3>2. Work!FreeAt[n] = Work!Null
        BY <2>4, <2>5 DEF WorkAfter
      <3>3. Cardinality(F) <= n
        BY <2>1, <3>1
      <3> QED BY <1>7, <3>2, <3>3
    <2>6. CASE p # Work!Null
      <3>1. p \in F /\ Cardinality(WorkBefore(p)) = n - 1 /\ p \in Nat
        BY <1>1, <2>2, <2>3, <2>6
      <3>2. PICK d : d = seg[p].free_next
        OBVIOUS
      <3>3. Work!FreeAt[n] = d /\ WorkFirst(F, p, d)
        BY <1>2, <2>4, <2>6, <3>1, <3>2 DEF WorkAfter
      <3>4. p \notin WorkBefore(p) /\ IsFiniteSet(WorkBefore(p))
        BY <1>3, <3>1 DEF WorkBefore
      <3>5. Cardinality(WorkBefore(p) \cup {p}) = n
        <4>1. Cardinality(WorkBefore(p) \cup {p}) = Cardinality(WorkBefore(p)) + 1
          BY <3>4, FS_AddElement
        <4> QED BY <2>1, <3>1, <4>1
      <3>6. CASE d = Work!Null
        <4>1. F = WorkBefore(p) \cup {p}
          BY <1>1, <3>1, <3>3, <3>6 DEF WorkFirst, WorkBefore
        <4>2. Cardinality(F) <= n
          BY <2>1, <3>5, <4>1
        <4> QED BY <1>7, <3>3, <3>6, <4>2
      <3>7. CASE d # Work!Null
        <4>1. d \in F /\ p < d /\ \A e \in F : e <= p \/ d <= e
          BY <3>3, <3>7 DEF WorkFirst
        <4>2. WorkBefore(d) = WorkBefore(p) \cup {p}
          BY <1>1, <3>1, <4>1 DEF WorkBefore
        <4> QED BY <1>7, <3>3, <3>5, <3>7, <4>1, <4>2
      <3> QED BY <3>6, <3>7
    <2> QED BY <2>5, <2>6
  <1> QED BY <1>8, <1>9

\* The list of the code is the set of the free segments.
LEMMA WorkListIs ==
    ASSUME WorkConstants, WorkGood(seg, free_segment_list)
    PROVE  /\ \A n \in 0..Cardinality(DOMAIN seg) :
                 Work!FreeAt[n] # Work!Null => Work!FreeAt[n] \in WorkFrees(seg)
           /\ \A c \in WorkFrees(seg) : \E n \in 0..Cardinality(DOMAIN seg) :
                 Work!FreeAt[n] = c
           /\ Work!FreeList = WorkFrees(seg)
  <1>0. /\ WorkTotal \in Nat /\ WorkTyped(seg) /\ IsFiniteSet(DOMAIN seg)
        /\ Cardinality(DOMAIN seg) \in Nat /\ Cardinality(DOMAIN seg) <= WorkTotal
        /\ Work!Cardinality(Work!Live) = Cardinality(DOMAIN seg)
    BY WorkCount DEF WorkConstants, WorkGood
  <1> DEFINE F == WorkFrees(seg)
  <1>1. F \in SUBSET DOMAIN seg /\ F \in SUBSET Nat /\ IsFiniteSet(F)
    <2>1. F \in SUBSET DOMAIN seg /\ F \in SUBSET Nat
      BY <1>0 DEF WorkFrees, WorkTyped
    <2> QED BY <1>0, <2>1, FS_Subset
  <1>2. \A n \in 0..Cardinality(DOMAIN seg) : n \in 0..WorkTotal
    BY <1>0
  <1>3. \A n \in 0..Cardinality(DOMAIN seg) : Work!FreeAt[n] # Work!Null => Work!FreeAt[n] \in F
    BY <1>2, WorkPlaceCounts
  <1>4. ASSUME NEW c \in F
        PROVE  \E n \in 0..Cardinality(DOMAIN seg) : Work!FreeAt[n] = c
    <2>1. PICK n : n = Cardinality(WorkBefore(c))
      OBVIOUS
    <2>2. c \notin WorkBefore(c) /\ WorkBefore(c) \cup {c} \in SUBSET F /\ WorkBefore(c) \in SUBSET F
      BY <1>1 DEF WorkBefore
    <2>3. IsFiniteSet(WorkBefore(c)) /\ n \in Nat
      BY <1>1, <2>1, <2>2, FS_Subset, FS_CardinalityType
    <2>4. Cardinality(WorkBefore(c) \cup {c}) = n + 1
      BY <2>1, <2>2, <2>3, FS_AddElement
    <2>5. n + 1 <= Cardinality(F) /\ Cardinality(F) \in Nat
      BY <1>1, <2>2, <2>4, FS_Subset, FS_CardinalityType
    <2>6. Cardinality(F) <= Cardinality(DOMAIN seg)
      BY <1>0, <1>1, FS_Subset
    <2>7. n \in 0..Cardinality(DOMAIN seg) /\ n \in 0..WorkTotal
      BY <1>0, <2>3, <2>5, <2>6
    <2>8. PICK d : d = Work!FreeAt[n]
      OBVIOUS
    <2>9. d # Work!Null
      BY <2>3, <2>5, <2>7, <2>8, WorkPlaceCounts
    <2>10. d \in F /\ Cardinality(WorkBefore(d)) = n
      BY <2>7, <2>8, <2>9, WorkPlaceCounts
    <2>11. c \in Nat /\ d \in Nat
      BY <1>1, <2>10
    <2>12. CASE c < d
      <3>1. WorkBefore(c) \cup {c} \in SUBSET WorkBefore(d)
        BY <1>1, <2>10, <2>11, <2>12 DEF WorkBefore
      <3>2. IsFiniteSet(WorkBefore(d))
        <4>1. WorkBefore(d) \in SUBSET F
          BY DEF WorkBefore
        <4> QED BY <1>1, <4>1, FS_Subset
      <3>3. n + 1 <= n
        BY <2>4, <2>10, <3>1, <3>2, FS_Subset
      <3> QED BY <2>3, <3>3
    <2>13. CASE d < c
      <3>1. WorkBefore(d) \cup {d} \in SUBSET WorkBefore(c) /\ d \notin WorkBefore(d)
            /\ WorkBefore(d) \in SUBSET WorkBefore(c)
        BY <1>1, <2>10, <2>11, <2>13 DEF WorkBefore
      <3>2. IsFiniteSet(WorkBefore(d))
        BY <2>3, <3>1, FS_Subset
      <3>3. Cardinality(WorkBefore(d) \cup {d}) = n + 1
        BY <2>10, <3>1, <3>2, FS_AddElement
      <3>4. n + 1 <= n
        BY <2>1, <2>3, <3>1, <3>3, FS_Subset
      <3> QED BY <2>3, <3>4
    <2>14. CASE c = d
      BY <2>7, <2>8, <2>14
    <2> QED BY <2>11, <2>12, <2>13, <2>14
  <1>5. Work!FreeList = F
    <2>1. Work!FreeList = {Work!FreeAt[n] : n \in 0..Cardinality(DOMAIN seg)} \ {Work!Null}
      BY <1>0, Zenon DEF Work!FreeList
    <2>2. Work!Null \notin F
      BY <1>1 DEF Work!Null
    <2> HIDE DEF F
    <2> QED BY <1>3, <1>4, <2>1, <2>2
  <1> QED BY <1>3, <1>4, <1>5

\* What the search finds, and that it finds it.
LEMMA WorkSearch ==
    ASSUME WorkConstants, WorkGood(seg, free_segment_list), NEW sz \in Nat
    PROVE  /\ Work!Fits(sz) = {} <=> \A c \in WorkFrees(seg) : seg[c].size < sz
           /\ Work!Fits(sz) # {} => /\ Work!Winner(sz) \in WorkFrees(seg)
                                    /\ seg[Work!Winner(sz)].size >= sz
  <1>0. /\ Cardinality(DOMAIN seg) \in Nat /\ WorkTyped(seg)
        /\ Work!Cardinality(Work!Live) = Cardinality(DOMAIN seg)
    BY WorkCount DEF WorkGood
  <1>1. Work!Fits(sz) = {n \in 0..Cardinality(DOMAIN seg) :
                             Work!FreeAt[n] # Work!Null /\ seg[Work!FreeAt[n]].size >= sz}
    BY <1>0, Zenon DEF Work!Fits
  <1>2. \A c \in WorkFrees(seg) : c # Work!Null /\ c \in DOMAIN seg /\ seg[c].size \in Nat
    BY <1>0 DEF WorkFrees, WorkTyped, WorkSegments, Work!Null
  <1>3. Work!Fits(sz) = {} <=> \A c \in WorkFrees(seg) : seg[c].size < sz
    <2>1. ASSUME Work!Fits(sz) = {}, NEW c \in WorkFrees(seg)
          PROVE  seg[c].size < sz
      <3>1. PICK n \in 0..Cardinality(DOMAIN seg) : Work!FreeAt[n] = c
        BY WorkListIs
      <3>2. ~(seg[c].size >= sz)
        BY <1>1, <1>2, <2>1, <3>1
      <3> QED BY <1>2, <3>2
    <2>2. ASSUME \A c \in WorkFrees(seg) : seg[c].size < sz, NEW n \in Work!Fits(sz)
          PROVE  FALSE
      <3>1. Work!FreeAt[n] \in WorkFrees(seg) /\ seg[Work!FreeAt[n]].size >= sz
        BY <1>1, <2>2, WorkListIs
      <3>2. PICK c : c = Work!FreeAt[n]
        OBVIOUS
      <3> QED BY <1>2, <2>2, <3>1, <3>2
    <2> QED BY <2>1, <2>2
  <1>4. ASSUME Work!Fits(sz) # {}
        PROVE  Work!Winner(sz) \in WorkFrees(seg) /\ seg[Work!Winner(sz)].size >= sz
    <2>1. Work!Fits(sz) \in SUBSET Nat
      BY <1>0, <1>1
    <2>2. \E n \in Work!Fits(sz) : \A k \in Work!Fits(sz) : n <= k
      BY <1>4, <2>1, LeastExists
    <2>3. PICK n : n = CHOOSE m \in Work!Fits(sz) : \A k \in Work!Fits(sz) : m <= k
      OBVIOUS
    <2>4. n \in Work!Fits(sz)
      BY <2>2, <2>3
    <2>5. Work!Winner(sz) = Work!FreeAt[n]
      BY <2>3 DEF Work!Winner
    <2>6. Work!FreeAt[n] \in WorkFrees(seg) /\ seg[Work!FreeAt[n]].size >= sz
      BY <1>1, <2>4, WorkListIs
    <2> QED BY <2>5, <2>6
  <1> QED BY <1>3, <1>4

-----------------------------------------------------------------------------
(* A request that is served.                                               *)

\* What a request for sz leaves of the segments s, cut at c, in out.
WorkServed(s, c, sz, out) ==
    /\ DOMAIN out = IF s[c].size = sz THEN DOMAIN s ELSE DOMAIN s \cup {c + sz}
    /\ out[c].size = sz /\ ~out[c].free
    /\ \A x \in DOMAIN s \ {c} : out[x].size = s[x].size /\ (out[x].free <=> s[x].free)
    /\ s[c].size # sz => /\ c + sz \notin DOMAIN s /\ out[c + sz].free
                         /\ out[c + sz].size = s[c].size - sz

\* A served request keeps the segments in order.
LEMMA WorkAllocateRight ==
    ASSUME WorkConstants, free_segment_list \in Int, WorkGood(seg, free_segment_list),
           WorkNoTwins(seg), NEW sz \in Nat \ {0}, Work!Fits(sz) # {}, Work!Allocate(sz)
    PROVE  /\ WorkGood(seg', free_segment_list') /\ WorkNoTwins(seg')
           /\ free_segment_list' \in Int
           /\ Work!Winner(sz) \in WorkFrees(seg) /\ seg[Work!Winner(sz)].size >= sz
           /\ WorkServed(seg, Work!Winner(sz), sz, seg')
  <1>1. PICK c : c = Work!Winner(sz)
    OBVIOUS
  <1>2. c \in WorkFrees(seg) /\ seg[c].size >= sz
    BY <1>1, WorkSearch
  <1>3. c \in DOMAIN seg /\ seg[c].free /\ c \in Nat /\ seg[c].size \in Nat
    BY <1>2, WorkFields DEF WorkFrees, WorkGood
  <1>4. PICK s : s = Work!Split(c, sz)
    OBVIOUS
  <1>5. seg' = Work!Take(s, c)
        /\ free_segment_list' = IF s[c].free_prev = Work!Null THEN s[c].free_next
                                ELSE free_segment_list
    BY <1>1, <1>4, Zenon DEF Work!Allocate
  <1>6. /\ WorkGood(s, free_segment_list) /\ c \in DOMAIN s /\ s[c].free /\ s[c].size = sz
        /\ DOMAIN s = IF seg[c].size = sz THEN DOMAIN seg ELSE DOMAIN seg \cup {c + sz}
        /\ \A x \in DOMAIN seg \ {c} : s[x].size = seg[x].size /\ (s[x].free <=> seg[x].free)
        /\ seg[c].size # sz => /\ c + sz \notin DOMAIN seg /\ s[c + sz].free
                               /\ s[c + sz].size = seg[c].size - sz
    <2>1. CASE seg[c].size = sz
      <3>1. s = seg
        BY <1>4, <2>1 DEF Work!Split
      <3> QED BY <1>3, <2>1, <3>1
    <2>2. CASE seg[c].size # sz
      <3>1. sz < seg[c].size
        BY <1>2, <1>3, <2>2
      <3>2. PICK r : r = c + sz
        OBVIOUS
      <3>3. WorkSplitFields(seg, c, sz, r, s)
        BY <1>3, <1>4, <3>1, <3>2, WorkSplitIs
      <3>4. WorkGood(s, free_segment_list)
        BY <1>3, <3>1, <3>2, <3>3, WorkSplitGood
      <3>5. /\ DOMAIN s = DOMAIN seg \cup {r} /\ r \notin DOMAIN seg
            /\ s[c].size = sz /\ s[c].free /\ s[r].size = seg[c].size - sz /\ s[r].free
            /\ \A x \in DOMAIN seg \ {c} : s[x].size = seg[x].size /\ (s[x].free <=> seg[x].free)
        BY <3>3 DEF WorkSplitFields
      <3> QED BY <1>3, <2>2, <3>2, <3>4, <3>5
    <2> QED BY <2>1, <2>2
  <1>7. PICK out : out = Work!Take(s, c)
    OBVIOUS
  <1>8. /\ WorkGood(out, IF s[c].free_prev = Work!Null THEN s[c].free_next
                         ELSE free_segment_list)
        /\ DOMAIN out = DOMAIN s /\ WorkFrees(out) = WorkFrees(s) \ {c}
        /\ \A x \in DOMAIN s : out[x].size = s[x].size /\ (out[x].free <=> x # c /\ s[x].free)
    BY <1>6, <1>7, WorkTakeGood
  <1>9. s[c].free_next \in Int
    BY <1>6, WorkFields DEF WorkGood
  <1>10. seg' = out
    BY <1>5, <1>7
  <1>11. WorkServed(seg, c, sz, out)
    <2>1. DOMAIN out = IF seg[c].size = sz THEN DOMAIN seg ELSE DOMAIN seg \cup {c + sz}
      BY <1>6, <1>8
    <2>2. out[c].size = sz /\ ~out[c].free
      BY <1>6, <1>8
    <2>3. \A x \in DOMAIN seg \ {c} : out[x].size = seg[x].size /\ (out[x].free <=> seg[x].free)
      BY <1>6, <1>8
    <2>4. seg[c].size # sz => /\ c + sz \notin DOMAIN seg /\ out[c + sz].free
                              /\ out[c + sz].size = seg[c].size - sz
      <3>1. c + sz # c
        BY <1>3
      <3>2. seg[c].size # sz => c + sz \in DOMAIN s
        BY <1>6
      <3> QED BY <1>6, <1>8, <3>1, <3>2
    <2> QED BY <2>1, <2>2, <2>3, <2>4 DEF WorkServed
  <1>12. WorkNoTwins(out)
    <2> SUFFICES ASSUME NEW x \in WorkFrees(out), x + out[x].size \in WorkFrees(out)
                 PROVE  FALSE
      BY DEF WorkNoTwins
    <2>0. /\ WorkCut(seg) /\ WorkTyped(seg)
          /\ \A y \in DOMAIN seg : y \in Nat /\ seg[y].size \in Nat
      BY WorkFields DEF WorkGood
    <2>1. PICK y : y = x + out[x].size
      OBVIOUS
    <2>2. x \in DOMAIN out /\ out[x].free /\ y \in DOMAIN out /\ out[y].free /\ x # c /\ y # c
      BY <1>11, <2>1 DEF WorkFrees, WorkServed
    <2>3. x \in DOMAIN seg => x \in WorkFrees(seg) /\ y = x + seg[x].size
      BY <1>11, <2>1, <2>2 DEF WorkServed, WorkFrees
    <2>4. y \in DOMAIN seg => y \in WorkFrees(seg)
      BY <1>11, <2>2 DEF WorkServed, WorkFrees
    <2>5. CASE x \in DOMAIN seg /\ y \in DOMAIN seg
      BY <2>3, <2>4, <2>5 DEF WorkNoTwins
    <2>6. CASE x \notin DOMAIN seg
      <3>1. x = c + sz /\ out[x].size = seg[c].size - sz /\ seg[c].size # sz
        BY <1>11, <2>2, <2>6 DEF WorkServed
      <3>2. y = c + seg[c].size
        BY <1>3, <2>1, <3>1
      <3>3. y # c + sz
        BY <1>3, <3>1, <3>2
      <3>4. y \in DOMAIN seg
        BY <1>11, <2>2, <3>3 DEF WorkServed
      <3> QED BY <1>2, <2>4, <3>2, <3>4 DEF WorkNoTwins
    <2>7. CASE x \in DOMAIN seg /\ y \notin DOMAIN seg
      <3>1. y = c + sz /\ seg[c].size # sz /\ y = x + seg[x].size
        BY <1>11, <2>2, <2>3, <2>7 DEF WorkServed
      <3>2. sz < seg[c].size
        BY <1>2, <1>3, <3>1
      <3>3. x < c => x + seg[x].size <= c
        BY <1>3, <2>0, <2>7 DEF WorkCut
      <3>4. c < x => c + seg[c].size <= x
        BY <1>3, <2>0, <2>7 DEF WorkCut
      <3>5. x \in Nat /\ seg[x].size \in Nat /\ x # c
        BY <2>0, <2>2, <2>7
      <3> QED BY <1>3, <3>1, <3>2, <3>3, <3>4, <3>5
    <2> QED BY <2>5, <2>6, <2>7
  <1> QED BY <1>1, <1>2, <1>5, <1>7, <1>8, <1>9, <1>10, <1>11, <1>12

-----------------------------------------------------------------------------
(* xkblas_free_work_pos                                                    *)

\* q takes the segment r after it.
WorkAbsorbed(s, q, r, out) ==
    /\ WorkTyped(out) /\ DOMAIN out = DOMAIN s \ {r}
    /\ out[q].size = s[q].size + s[r].size /\ out[q].next = s[r].next
    /\ \A x \in DOMAIN s \ {q, r} : out[x].size = s[x].size /\ out[x].next = s[x].next
    /\ \A x \in DOMAIN s \ {r} : out[x].prev = IF x = s[r].next THEN q ELSE s[x].prev

\* The segments still cut the buffer.
LEMMA WorkAbsorbGood ==
    ASSUME WorkConstants, NEW s, WorkTyped(s), WorkCut(s), WorkNexts(s), WorkPrevs(s),
           NEW q \in DOMAIN s, NEW r \in DOMAIN s, r = q + s[q].size, NEW out,
           WorkAbsorbed(s, q, r, out)
    PROVE  WorkCut(out) /\ WorkNexts(out) /\ WorkPrevs(out)
  <1>0. /\ WorkTotal \in Nat /\ q \in Nat /\ r \in Nat /\ q < r /\ r # 0
        /\ \A x \in DOMAIN s : x \in Nat /\ s[x].size \in Nat /\ s[x].size > 0
        /\ \A x \in DOMAIN s : x + s[x].size <= WorkTotal
        /\ \A x \in DOMAIN s : x + s[x].size # WorkTotal => x + s[x].size \in DOMAIN s
        /\ \A x, y \in DOMAIN s : x < y => x + s[x].size <= y
        /\ 0 \in DOMAIN s
    <2>1. \A x \in DOMAIN s : x \in Nat /\ s[x].size \in Nat
      BY WorkFields
    <2> QED BY <2>1 DEF WorkCut, WorkConstants
  <1>1. /\ DOMAIN out = DOMAIN s \ {r}
        /\ out[q].size = s[q].size + s[r].size /\ out[q].next = s[r].next
        /\ \A x \in DOMAIN s \ {q, r} : out[x].size = s[x].size /\ out[x].next = s[x].next
    BY DEF WorkAbsorbed
  <1>p. \A x \in DOMAIN s \ {r} : out[x].prev = IF x = s[r].next THEN q ELSE s[x].prev
    BY DEF WorkAbsorbed
  <1>2. q + out[q].size = r + s[r].size
    BY <1>0, <1>1
  <1>3. \A x \in DOMAIN s : x + s[x].size = r => x = q
    <2> SUFFICES ASSUME NEW x \in DOMAIN s, x + s[x].size = r PROVE x = q
      OBVIOUS
    <2>1. ~(x < q) /\ ~(q < x)
      BY <1>0
    <2> QED BY <1>0, <2>1
  <1>4. WorkCut(out)
    <2>1. 0 \in DOMAIN out
      BY <1>0, <1>1
    <2>2. ASSUME NEW x \in DOMAIN out
          PROVE  /\ out[x].size > 0 /\ x + out[x].size <= WorkTotal
                 /\ x + out[x].size # WorkTotal => x + out[x].size \in DOMAIN out
      <3>1. CASE x = q
        BY <1>0, <1>1, <1>2, <3>1
      <3>2. CASE x # q
        <4>1. x \in DOMAIN s /\ out[x].size = s[x].size /\ x + s[x].size # r
          BY <1>1, <1>3, <3>2
        <4> QED BY <1>0, <1>1, <4>1
      <3> QED BY <3>1, <3>2
    <2>3. ASSUME NEW x \in DOMAIN out, NEW y \in DOMAIN out, x < y
          PROVE  x + out[x].size <= y
      <3>1. CASE x = q
        <4>1. r <= y /\ y # r /\ y \in DOMAIN s /\ y \in Nat
          BY <1>0, <1>1, <2>3, <3>1
        <4>2. r < y
          BY <1>0, <4>1
        <4>3. r + s[r].size <= y
          BY <1>0, <4>1, <4>2
        <4> QED BY <1>2, <3>1, <4>3
      <3>2. CASE x # q
        BY <1>0, <1>1, <2>3, <3>2
      <3> QED BY <3>1, <3>2
    <2> QED BY <2>1, <2>2, <2>3 DEF WorkCut
  <1>5. WorkNexts(out)
    <2> SUFFICES ASSUME NEW x \in DOMAIN out
                 PROVE  out[x].next = IF x + out[x].size = WorkTotal THEN Work!Null
                                      ELSE x + out[x].size
      BY DEF WorkNexts
    <2>0. \A y \in DOMAIN s : s[y].next = IF y + s[y].size = WorkTotal THEN Work!Null
                                          ELSE y + s[y].size
      BY DEF WorkNexts
    <2>1. CASE x = q
      BY <1>1, <1>2, <2>0, <2>1
    <2>2. CASE x # q
      BY <1>1, <2>0, <2>2
    <2> QED BY <2>1, <2>2
  <1>6. WorkPrevs(out)
    <2> SUFFICES ASSUME NEW x \in DOMAIN out
                 PROVE  IF x = 0 THEN out[x].prev = Work!Null
                        ELSE out[x].prev \in DOMAIN out /\ out[x].prev + out[out[x].prev].size = x
      BY DEF WorkPrevs
    <2>0. x \in DOMAIN s /\ x # r /\ x # Work!Null
      BY <1>1, WorkNullIsNone
    <2>1. CASE x = s[r].next
      <3>1. x = r + s[r].size /\ x # 0 /\ out[x].prev = q
        BY <1>0, <1>p, <2>0, <2>1, WorkNeighbours
      <3> QED BY <1>0, <1>1, <1>2, <3>1
    <2>2. CASE x # s[r].next
      <3>1. out[x].prev = s[x].prev
        BY <1>p, <2>0, <2>2
      <3>2. CASE x = 0
        BY <2>0, <3>1, <3>2 DEF WorkPrevs
      <3>3. CASE x # 0
        <4>1. PICK m \in DOMAIN s : m = s[x].prev /\ m + s[m].size = x /\ s[m].next = x
          BY <2>0, <3>3, WorkNeighbours
        <4>2. m # r
          BY <2>2, <4>1
        <4>3. m # q
          BY <1>0, <2>0, <4>1
        <4> QED BY <1>1, <3>1, <3>3, <4>1, <4>2, <4>3
      <3> QED BY <3>2, <3>3
    <2> QED BY <2>1, <2>2
  <1> QED BY <1>4, <1>5, <1>6

\* In a set of addresses c takes the place of n, with nothing between them.
LEMMA WorkReplaced ==
    ASSUME NEW F \in SUBSET Nat, NEW n \in F, NEW c \in Nat \ F, c < n,
           \A e \in F : ~(c < e /\ e < n), NEW y \in Int
    PROVE  /\ WorkFirst(F, n, y) => WorkFirst((F \ {n}) \cup {c}, c, y)
           /\ WorkLast(F, n, y) => WorkLast((F \ {n}) \cup {c}, c, y)
           /\ \A a \in (F \ {n}) \cup {Work!Null} :
                 WorkFirst(F, a, y) => WorkFirst((F \ {n}) \cup {c}, a, IF y = n THEN c ELSE y)
           /\ \A a \in F \ {n} :
                 WorkLast(F, a, y) => WorkLast((F \ {n}) \cup {c}, a, IF y = n THEN c ELSE y)
  <1>1. WorkFirst(F, n, y) => WorkFirst((F \ {n}) \cup {c}, c, y)
    BY DEF WorkFirst, Work!Null
  <1>2. WorkLast(F, n, y) => WorkLast((F \ {n}) \cup {c}, c, y)
    BY DEF WorkLast, Work!Null
  <1>3. ASSUME NEW a \in (F \ {n}) \cup {Work!Null}, WorkFirst(F, a, y)
        PROVE  WorkFirst((F \ {n}) \cup {c}, a, IF y = n THEN c ELSE y)
    <2>1. CASE y = n
      BY <1>3, <2>1 DEF WorkFirst, Work!Null
    <2>2. CASE y # n
      BY <1>3, <2>2 DEF WorkFirst, Work!Null
    <2> QED BY <2>1, <2>2
  <1>4. ASSUME NEW a \in F \ {n}, WorkLast(F, a, y)
        PROVE  WorkLast((F \ {n}) \cup {c}, a, IF y = n THEN c ELSE y)
    <2>1. CASE y = n
      BY <1>4, <2>1 DEF WorkLast, Work!Null
    <2>2. CASE y # n
      BY <1>4, <2>2 DEF WorkLast, Work!Null
    <2> QED BY <2>1, <2>2
  <1> QED BY <1>1, <1>2, <1>3, <1>4

\* s without the segment at n.
LEMMA WorkExceptIs ==
    ASSUME NEW s, WorkTyped(s), NEW n
    PROVE  /\ WorkTyped(Work!Except(s, n)) /\ DOMAIN Work!Except(s, n) = DOMAIN s \ {n}
           /\ \A x \in DOMAIN s \ {n} : Work!Except(s, n)[x] = s[x]
  <1>1. Work!Except(s, n) = [p \in DOMAIN s \ {n} |-> s[p]]
    BY DEF Work!Except
  <1> QED BY <1>1 DEF WorkTyped

\* c takes the free segment n after it and its place in the free list.
LEMMA WorkMergeNextGood ==
    ASSUME WorkConstants, NEW hd \in Int, WorkGood(seg, hd), NEW c \in DOMAIN seg, ~seg[c].free,
           seg[c].next # Work!Null, NEW n, n = seg[c].next, seg[n].free,
           NEW out, out = Work!MergeNext(c)
    PROVE  /\ n \in DOMAIN seg /\ n = c + seg[c].size
           /\ WorkGood(out, IF hd = n THEN c ELSE hd) /\ DOMAIN out = DOMAIN seg \ {n}
           /\ out[c].size = seg[c].size + seg[n].size /\ out[c].free /\ out[c].prev = seg[c].prev
           /\ \A x \in DOMAIN seg \ {n, c} :
                 out[x].size = seg[x].size /\ (out[x].free <=> seg[x].free)
  <1>0. /\ WorkTyped(seg) /\ WorkCut(seg) /\ WorkNexts(seg) /\ WorkPrevs(seg)
        /\ WorkFreeLinks(seg, hd) /\ Work!Null \notin DOMAIN seg /\ Work!Null \in Int
    BY WorkNullIsNone DEF WorkGood
  <1>1. n \in DOMAIN seg /\ n = c + seg[c].size /\ seg[n].prev = c /\ c < n /\ c \in Nat /\ n \in Nat
    BY <1>0, WorkNeighbours
  <1>2. PICK nn : nn = seg[n].next
    OBVIOUS
  <1>3. PICK fn : fn = seg[n].free_next
    OBVIOUS
  <1>4. PICK fp : fp = seg[n].free_prev
    OBVIOUS
  <1>5. /\ nn \in DOMAIN seg \/ nn = Work!Null
        /\ fn \in DOMAIN seg \/ fn = Work!Null
        /\ fp \in DOMAIN seg \/ fp = Work!Null
        /\ nn \in Int /\ fn \in Int /\ fp \in Int
        /\ nn # n /\ nn # c /\ fn # n /\ fn # c /\ fp # n /\ fp # c
    <2>1. nn \in DOMAIN seg \/ nn = Work!Null
      BY <1>0, <1>1, <1>2, WorkNeighbours
    <2>2. fn \in DOMAIN seg \cup {Work!Null} /\ fp \in DOMAIN seg \cup {Work!Null}
      BY <1>1, <1>3, <1>4, WorkFreeLinked
    <2>3. nn # n /\ nn # c
      BY <1>0, <1>1, <1>2, WorkNeighbours
    <2>4. fn # n /\ fn # c /\ fp # n /\ fp # c
      BY <1>0, <1>1, <1>3, <1>4, WorkFreeLinked
    <2>5. nn \in Int /\ fn \in Int /\ fp \in Int
      BY <1>0, <1>1, <1>2, <1>3, <1>4, WorkFields
    <2> QED BY <2>1, <2>2, <2>3, <2>4, <2>5
  <1>f. PICK f \in BOOLEAN : f = TRUE
    OBVIOUS
  <1>6. PICK sz : sz = seg[c].size + seg[n].size
    OBVIOUS
  <1>7. sz \in Nat
    BY <1>0, <1>1, <1>6, WorkFields
  <1>8. PICK m : m = [seg EXCEPT ![c].size = sz, ![c].next = nn, ![c].free = f,
                                 ![c].free_next = fn, ![c].free_prev = fp]
    OBVIOUS
  <1>9. /\ WorkTyped(m) /\ DOMAIN m = DOMAIN seg
        /\ m[c].size = sz /\ m[c].free /\ m[c].next = nn /\ m[c].free_next = fn
        /\ m[c].free_prev = fp /\ m[c].prev = seg[c].prev
        /\ \A x \in DOMAIN seg \ {c} : m[x] = seg[x]
    BY <1>0, <1>5, <1>7, <1>8, <1>f DEF WorkTyped, WorkSegments
  <1>10. PICK a : a = Work!Link(m, nn, "prev", c)
    OBVIOUS
  <1>11. PICK b : b = Work!Link(a, fn, "free_prev", c)
    OBVIOUS
  <1>12. PICK d : d = Work!Link(b, fp, "free_next", c)
    OBVIOUS
  <1>13. out = Work!Except(d, n)
    BY <1>2, <1>3, <1>4, <1>f, <1>6, <1>8, <1>10, <1>11, <1>12 DEF Work!MergeNext
  <1>14. WorkPrevSet(m, nn, c, a)
    BY <1>1, <1>5, <1>9, <1>10, WorkLinkPrev
  <1>15. WorkFreePrevSet(a, fn, c, b)
    BY <1>1, <1>5, <1>9, <1>11, <1>14, WorkLinkFreePrev DEF WorkPrevSet
  <1>16. DOMAIN b = DOMAIN seg /\ WorkTyped(b)
    BY <1>9, <1>14, <1>15 DEF WorkPrevSet, WorkFreePrevSet
  <1>17. WorkFreeNextSet(b, fp, c, d)
    BY <1>1, <1>5, <1>12, <1>16, WorkLinkFreeNext
  <1>18. /\ DOMAIN d = DOMAIN seg /\ WorkTyped(d)
         /\ \A x \in DOMAIN seg :
               /\ d[x].size = m[x].size /\ (d[x].free <=> m[x].free) /\ d[x].next = m[x].next
               /\ d[x].prev = IF x = nn THEN c ELSE m[x].prev
               /\ d[x].free_prev = IF x = fn THEN c ELSE m[x].free_prev
               /\ d[x].free_next = IF x = fp THEN c ELSE m[x].free_next
    BY <1>9, <1>14, <1>15, <1>17 DEF WorkPrevSet, WorkFreePrevSet, WorkFreeNextSet
  <1>19. /\ WorkTyped(out) /\ DOMAIN out = DOMAIN seg \ {n}
         /\ \A x \in DOMAIN seg \ {n} : out[x] = d[x]
    <2>1. PICK e : e = Work!Except(d, n)
      OBVIOUS
    <2>2. /\ WorkTyped(e) /\ DOMAIN e = DOMAIN d \ {n}
          /\ \A x \in DOMAIN d \ {n} : e[x] = d[x]
      <3>1. WorkTyped(d)
        BY <1>18
      <3> QED BY <2>1, <3>1, WorkExceptIs
    <2>3. out = e /\ DOMAIN d = DOMAIN seg
      BY <1>13, <1>18, <2>1
    <2> QED BY <2>2, <2>3
  <1>20. /\ out[c].size = sz /\ out[c].next = nn /\ out[c].prev = seg[c].prev
         /\ out[c].free_next = fn /\ out[c].free_prev = fp /\ out[c].free
    BY <1>1, <1>5, <1>9, <1>18, <1>19
  <1>21. /\ \A x \in DOMAIN seg \ {n, c} :
               /\ out[x].size = seg[x].size /\ (out[x].free <=> seg[x].free)
               /\ out[x].next = seg[x].next
               /\ out[x].free_prev = IF x = fn THEN c ELSE seg[x].free_prev
               /\ out[x].free_next = IF x = fp THEN c ELSE seg[x].free_next
         /\ \A x \in DOMAIN seg \ {n} : out[x].prev = IF x = nn THEN c ELSE seg[x].prev
    BY <1>5, <1>9, <1>18, <1>19
  <1>22. WorkCut(out) /\ WorkNexts(out) /\ WorkPrevs(out)
    <2>1. WorkAbsorbed(seg, c, n, out)
      BY <1>2, <1>6, <1>19, <1>20, <1>21 DEF WorkAbsorbed
    <2> QED BY <1>0, <1>1, <2>1, WorkAbsorbGood
  <1> DEFINE F == WorkFrees(seg)
  <1>23. /\ F \in SUBSET Nat /\ n \in F /\ c \in Nat \ F /\ \A x \in F : x \in DOMAIN seg
         /\ \A e \in F : ~(c < e /\ e < n)
         /\ \A x \in F : WorkFirst(F, x, seg[x].free_next) /\ WorkLast(F, x, seg[x].free_prev)
         /\ \A x \in F : seg[x].free_next \in Int /\ seg[x].free_prev \in Int
         /\ WorkFirst(F, Work!Null, hd)
    <2>1. F \in SUBSET Nat /\ n \in F /\ c \notin F /\ \A x \in F : x \in DOMAIN seg
      BY <1>0, <1>1 DEF WorkFrees, WorkTyped
    <2>2. \A e \in F : ~(c < e /\ e < n)
      BY <1>0, <1>1, <2>1 DEF WorkCut
    <2>3. /\ \A x \in F : WorkFirst(F, x, seg[x].free_next) /\ WorkLast(F, x, seg[x].free_prev)
          /\ WorkFirst(F, Work!Null, hd)
      BY <1>0 DEF WorkFreeLinks, WorkFrees
    <2>4. \A x \in F : seg[x].free_next \in Int /\ seg[x].free_prev \in Int
      BY <1>0, <2>1, WorkFields
    <2> QED BY <1>1, <2>1, <2>2, <2>3, <2>4
  <1>24. WorkFrees(out) = (F \ {n}) \cup {c}
    BY <1>1, <1>19, <1>20, <1>21 DEF WorkFrees
  <1>25. WorkFreeLinks(out, IF hd = n THEN c ELSE hd)
    <2> DEFINE G == (F \ {n}) \cup {c}
    <2>a. F = WorkFrees(seg) /\ G = (F \ {n}) \cup {c}
      OBVIOUS
    <2> HIDE DEF F, G
    <2>1. WorkFirst(G, Work!Null, IF hd = n THEN c ELSE hd)
      BY <1>1, <1>23, <2>a, WorkReplaced
    <2>2. WorkFirst(G, c, fn) /\ WorkLast(G, c, fp)
      <3>1. WorkFirst(F, n, fn) /\ WorkLast(F, n, fp)
        BY <1>3, <1>4, <1>23
      <3>2. fn \in Int /\ fp \in Int
        BY <1>5
      <3>3. WorkFirst(G, c, fn)
        BY <1>1, <1>23, <2>a, <3>1, <3>2, WorkReplaced
      <3>4. WorkLast(G, c, fp)
        BY <1>1, <1>23, <2>a, <3>1, <3>2, WorkReplaced
      <3> QED BY <3>3, <3>4
    <2>3. ASSUME NEW x \in F \ {n}
          PROVE  WorkFirst(G, x, out[x].free_next) /\ WorkLast(G, x, out[x].free_prev)
      <3>1. /\ WorkFirst(G, x, IF seg[x].free_next = n THEN c ELSE seg[x].free_next)
            /\ WorkLast(G, x, IF seg[x].free_prev = n THEN c ELSE seg[x].free_prev)
        BY <1>1, <1>23, <2>a, WorkReplaced
      <3>2. seg[x].free_next = n <=> x = fp
        BY <1>4, <1>5, <1>23, WorkDual
      <3>3. seg[x].free_prev = n <=> x = fn
        BY <1>3, <1>5, <1>23, WorkDual
      <3>4. x \in DOMAIN seg \ {n, c}
        BY <1>23
      <3> QED BY <1>21, <3>1, <3>2, <3>3, <3>4
    <2>4. ASSUME NEW x \in DOMAIN out, ~out[x].free
          PROVE  out[x].free_next = Work!Null /\ out[x].free_prev = Work!Null
      <3>1. x \in DOMAIN seg \ {n, c} /\ ~seg[x].free
        BY <1>19, <1>20, <1>21, <2>4
      <3>2. x # fn /\ x # fp
        BY <1>0, <1>1, <1>3, <1>4, <3>1, WorkFreeLinked
      <3> QED BY <1>0, <1>21, <3>1, <3>2 DEF WorkFreeLinks
    <2>5. WorkFrees(out) = G
      BY <1>24, <2>a
    <2>6. ASSUME NEW x \in G
          PROVE  WorkFirst(G, x, out[x].free_next) /\ WorkLast(G, x, out[x].free_prev)
      <3>1. CASE x = c
        BY <1>20, <2>2, <3>1
      <3>2. CASE x # c
        <4>1. x \in F \ {n}
          BY <2>a, <3>2
        <4> QED BY <2>3, <4>1
      <3> QED BY <3>1, <3>2
    <2>7. ASSUME NEW x \in DOMAIN out
          PROVE  IF out[x].free THEN WorkFirst(G, x, out[x].free_next)
                                     /\ WorkLast(G, x, out[x].free_prev)
                 ELSE out[x].free_next = Work!Null /\ out[x].free_prev = Work!Null
      <3>1. out[x].free => x \in G
        BY <2>5 DEF WorkFrees
      <3> QED BY <2>4, <2>6, <3>1
    <2> QED BY <2>1, <2>5, <2>7 DEF WorkFreeLinks
  <1>26. WorkGood(out, IF hd = n THEN c ELSE hd)
    BY <1>19, <1>22, <1>25 DEF WorkGood
  <1>27. \A x \in DOMAIN seg \ {n, c} :
             out[x].size = seg[x].size /\ (out[x].free <=> seg[x].free)
    BY <1>21
  <1> QED BY <1>1, <1>6, <1>19, <1>20, <1>26, <1>27

\* out is s after the merge of c in the segment before it.
WorkMergedPrev(s, c, out) == IF s[c].free THEN out = Work!MergePrev(s, c, TRUE)
                             ELSE out = Work!MergePrev(s, c, FALSE)

\* The segment p before c has taken it.
WorkPrevTook(s, c, p, hd, out) ==
    /\ p \in DOMAIN s /\ c = p + s[p].size /\ p < c
    /\ WorkGood(out, hd) /\ DOMAIN out = DOMAIN s \ {c}
    /\ out[p].size = s[p].size + s[c].size /\ out[p].free
    /\ \A x \in DOMAIN s \ {p, c} : out[x].size = s[x].size /\ (out[x].free <=> s[x].free)

\* The segment before c, which is free, takes it; c is in the free list or in use.
LEMMA WorkMergePrevGood ==
    ASSUME WorkConstants, NEW s, NEW hd \in Int, WorkGood(s, hd), NEW c \in DOMAIN s,
           s[c].prev # Work!Null, NEW p, p = s[c].prev, s[p].free,
           NEW out, WorkMergedPrev(s, c, out)
    PROVE  WorkPrevTook(s, c, p, hd, out)
  <1>0. /\ WorkTyped(s) /\ WorkCut(s) /\ WorkNexts(s) /\ WorkPrevs(s)
        /\ WorkFreeLinks(s, hd) /\ Work!Null \notin DOMAIN s /\ Work!Null \in Int
    BY WorkNullIsNone DEF WorkGood
  <1>1. p \in DOMAIN s /\ p < c /\ c \in Nat /\ p \in Nat
    BY <1>0, WorkNeighbours
  <1>s. c = p + s[p].size
    BY <1>0, WorkNeighbours
  <1>2. PICK cn : cn = s[c].next
    OBVIOUS
  <1>3. PICK fn : fn = s[c].free_next
    OBVIOUS
  <1>4. /\ cn \in DOMAIN s \/ cn = Work!Null
        /\ fn \in DOMAIN s \/ fn = Work!Null
        /\ cn \in Int /\ fn \in Int /\ cn # p /\ cn # c /\ fn # c /\ fn # p
    <2>1. cn \in DOMAIN s \/ cn = Work!Null
      BY <1>0, <1>2, WorkNeighbours
    <2>2. fn \in DOMAIN s \cup {Work!Null}
      BY <1>3, WorkFreeLinked
    <2>3. cn # p /\ cn # c
      BY <1>0, <1>1, <1>2, WorkNeighbours
    <2>4. fn # c /\ fn # p
      BY <1>0, <1>1, <1>3, WorkFreeLinked
    <2>5. cn \in Int /\ fn \in Int
      BY <1>0, <1>2, <1>3, WorkFields
    <2> QED BY <2>1, <2>2, <2>3, <2>4, <2>5
  <1>5. PICK sz : sz = s[p].size + s[c].size
    OBVIOUS
  <1>6. sz \in Nat
    BY <1>0, <1>1, <1>5, WorkFields
  <1>7. PICK a : a = [s EXCEPT ![p].size = sz, ![p].next = cn]
    OBVIOUS
  <1>8. /\ WorkTyped(a) /\ DOMAIN a = DOMAIN s
        /\ \A x \in DOMAIN s :
              /\ (a[x].free <=> s[x].free) /\ a[x].prev = s[x].prev
              /\ a[x].free_prev = s[x].free_prev /\ a[x].free_next = s[x].free_next
              /\ a[x].size = IF x = p THEN sz ELSE s[x].size
              /\ a[x].next = IF x = p THEN cn ELSE s[x].next
    BY <1>0, <1>4, <1>6, <1>7 DEF WorkTyped, WorkSegments
  <1>9. PICK m : m = Work!Link(a, cn, "prev", p)
    OBVIOUS
  <1>10. WorkPrevSet(a, cn, p, m)
    BY <1>1, <1>4, <1>8, <1>9, WorkLinkPrev
  <1>11. DOMAIN m = DOMAIN s /\ WorkTyped(m)
    BY <1>8, <1>10 DEF WorkPrevSet
  <1>12. PICK b : b = [m EXCEPT ![p].free_next = fn]
    OBVIOUS
  <1>13. /\ WorkTyped(b) /\ DOMAIN b = DOMAIN s
         /\ \A x \in DOMAIN s :
               /\ b[x].size = m[x].size /\ (b[x].free <=> m[x].free) /\ b[x].next = m[x].next
               /\ b[x].prev = m[x].prev /\ b[x].free_prev = m[x].free_prev
               /\ b[x].free_next = IF x = p THEN fn ELSE m[x].free_next
    BY <1>4, <1>11, <1>12 DEF WorkTyped, WorkSegments
  <1>14. PICK l : l = Work!Link(b, fn, "free_prev", p)
    OBVIOUS
  <1>15. WorkFreePrevSet(b, fn, p, l)
    BY <1>1, <1>4, <1>13, <1>14, WorkLinkFreePrev
  <1>16. PICK d : d = IF s[c].free THEN l ELSE m
    OBVIOUS
  <1>17. out = Work!Except(d, c)
    <2>1. CASE s[c].free
      <3>1. out = Work!MergePrev(s, c, TRUE)
        BY <2>1 DEF WorkMergedPrev
      <3> QED BY <2>1, <3>1, <1>2, <1>3, <1>5, <1>7, <1>9, <1>12, <1>14, <1>16 DEF Work!MergePrev
    <2>2. CASE ~s[c].free
      <3>1. out = Work!MergePrev(s, c, FALSE)
        BY <2>2 DEF WorkMergedPrev
      <3>2. d = m
        BY <1>16, <2>2
      <3>3. Work!MergePrev(s, c, FALSE) = Work!Except(m, c)
        BY <1>2, <1>5, <1>7, <1>9, Zenon DEF Work!MergePrev
      <3> QED BY <3>1, <3>2, <3>3
    <2> QED BY <2>1, <2>2
  <1>18. /\ DOMAIN d = DOMAIN s /\ WorkTyped(d)
         /\ \A x \in DOMAIN s :
               /\ d[x].size = m[x].size /\ (d[x].free <=> m[x].free) /\ d[x].next = m[x].next
               /\ d[x].prev = m[x].prev
               /\ d[x].free_prev = IF s[c].free /\ x = fn THEN p ELSE m[x].free_prev
               /\ d[x].free_next = IF s[c].free /\ x = p THEN fn ELSE m[x].free_next
    <2>1. CASE s[c].free
      BY <1>13, <1>15, <1>16, <2>1 DEF WorkFreePrevSet
    <2>2. CASE ~s[c].free
      BY <1>11, <1>16, <2>2
    <2> QED BY <2>1, <2>2
  <1>19. /\ WorkTyped(out) /\ DOMAIN out = DOMAIN s \ {c}
         /\ \A x \in DOMAIN s \ {c} : out[x] = d[x]
    <2>1. PICK e : e = Work!Except(d, c)
      OBVIOUS
    <2>2. /\ WorkTyped(e) /\ DOMAIN e = DOMAIN d \ {c}
          /\ \A x \in DOMAIN d \ {c} : e[x] = d[x]
      <3>1. WorkTyped(d)
        BY <1>18
      <3> QED BY <2>1, <3>1, WorkExceptIs
    <2>3. out = e /\ DOMAIN d = DOMAIN s
      BY <1>17, <1>18, <2>1
    <2> QED BY <2>2, <2>3
  <1>20. \A x \in DOMAIN s \ {c} :
               /\ out[x].size = IF x = p THEN sz ELSE s[x].size
               /\ out[x].next = IF x = p THEN cn ELSE s[x].next
               /\ (out[x].free <=> s[x].free)
               /\ out[x].prev = IF x = cn THEN p ELSE s[x].prev
               /\ out[x].free_prev = IF s[c].free /\ x = fn THEN p ELSE s[x].free_prev
               /\ out[x].free_next = IF s[c].free /\ x = p THEN fn ELSE s[x].free_next
    BY <1>8, <1>10, <1>18, <1>19 DEF WorkPrevSet
  <1>21. WorkCut(out) /\ WorkNexts(out) /\ WorkPrevs(out)
    <2>1. out[p].size = sz /\ out[p].next = cn
      BY <1>1, <1>20
    <2>2. \A x \in DOMAIN s \ {p, c} : out[x].size = s[x].size /\ out[x].next = s[x].next
      BY <1>20
    <2>3. \A x \in DOMAIN s \ {c} : out[x].prev = IF x = cn THEN p ELSE s[x].prev
      BY <1>20
    <2>4. WorkAbsorbed(s, p, c, out)
      BY <1>2, <1>5, <1>19, <2>1, <2>2, <2>3 DEF WorkAbsorbed
    <2> QED BY <1>0, <1>1, <1>s, <2>4, WorkAbsorbGood
  <1> DEFINE F == WorkFrees(s)
  <1>22. /\ p \in F /\ \A x \in F : x \in DOMAIN s /\ x \in Nat
         /\ WorkFrees(out) = F \ {c}
         /\ \A e \in F : ~(p < e /\ e < c)
    <2>1. p \in F /\ \A x \in F : x \in DOMAIN s /\ x \in Nat
      BY <1>0, <1>1 DEF WorkFrees, WorkTyped
    <2>2. WorkFrees(out) = F \ {c}
      BY <1>19, <1>20 DEF WorkFrees
    <2>3. \A e \in F : ~(p < e /\ e < c)
      BY <1>0, <1>1, <1>s, <2>1 DEF WorkCut
    <2> QED BY <2>1, <2>2, <2>3
  <1>23. WorkFreeLinks(out, hd)
    <2>1. CASE s[c].free
      <3>1. c \in F
        BY <2>1 DEF WorkFrees
      <3>2. s[c].free_prev = p
        <4>1. PICK y : y = s[c].free_prev
          OBVIOUS
        <4>2. y \in Int /\ WorkLast(F, c, y)
          BY <1>0, <2>1, <4>1, WorkFields DEF WorkFreeLinks
        <4> HIDE DEF F
        <4>3. y # Work!Null /\ y \in F /\ y < c /\ p <= y
          BY <1>1, <1>22, <4>2 DEF WorkLast
        <4>4. ~(p < y)
          BY <1>22, <4>3
        <4> QED BY <1>1, <4>1, <4>2, <4>3, <4>4
      <3>3. \A x \in WorkFrees(s) \ {c} :
               /\ out[x].free_next = IF x = s[c].free_prev THEN s[c].free_next ELSE s[x].free_next
               /\ out[x].free_prev = IF x = s[c].free_next THEN s[c].free_prev ELSE s[x].free_prev
        BY <1>3, <1>20, <1>22, <2>1, <3>2
      <3>4. ASSUME NEW x \in DOMAIN out, ~out[x].free
            PROVE  out[x].free_next = Work!Null /\ out[x].free_prev = Work!Null
        <4>1. x \in DOMAIN s \ {c} /\ ~s[x].free
          BY <1>19, <1>20, <3>4
        <4>2. x # fn /\ x # p
          BY <1>0, <1>3, <4>1, WorkFreeLinked
        <4> QED BY <1>0, <1>20, <4>1, <4>2 DEF WorkFreeLinks
      <3>5. p # Work!Null
        BY <1>0, <1>1
      <3>6. WorkFreeLinks(out, IF s[c].free_prev = Work!Null THEN s[c].free_next ELSE hd)
        BY <1>0, <1>19, <1>22, <3>1, <3>3, <3>4, WorkLinksRemove
      <3> QED BY <3>2, <3>5, <3>6
    <2>2. CASE ~s[c].free
      <3>1. WorkFrees(out) = WorkFrees(s)
        <4>1. c \notin F
          BY <2>2 DEF WorkFrees
        <4> QED BY <1>22, <4>1
      <3>2. \A x \in DOMAIN out : /\ x \in DOMAIN s /\ (out[x].free <=> s[x].free)
                                  /\ out[x].free_next = s[x].free_next
                                  /\ out[x].free_prev = s[x].free_prev
        BY <1>19, <1>20, <2>2
      <3> QED BY <1>0, <3>1, <3>2 DEF WorkFreeLinks
    <2> QED BY <2>1, <2>2
  <1>24. WorkGood(out, hd)
    BY <1>19, <1>21, <1>23 DEF WorkGood
  <1>25. \A x \in DOMAIN s \ {p, c} : out[x].size = s[x].size /\ (out[x].free <=> s[x].free)
    BY <1>20
  <1>26. out[p].size = sz /\ out[p].free
    BY <1>1, <1>20
  <1> QED BY <1>1, <1>s, <1>5, <1>19, <1>24, <1>25, <1>26 DEF WorkPrevTook

\* A set of addresses below a bound has a last element before c.
LEMMA WorkLastExists ==
    ASSUME NEW S \in SUBSET Nat, S # {}, NEW b \in Nat, \A x \in S : x < b
    PROVE  \E m \in S : \A n \in S : n <= m
  <1>1. PICK R : R = {k \in Nat : \E x \in S : k + x = b}
    OBVIOUS
  <1>2. R \in SUBSET Nat /\ R # {}
    <2>1. PICK x \in S : TRUE
      OBVIOUS
    <2>2. b - x \in R
      BY <1>1, <2>1
    <2> QED BY <1>1, <2>2
  <1>3. PICK k \in R : \A j \in R : k <= j
    BY <1>2, LeastExists
  <1>4. PICK m \in S : k + m = b
    BY <1>1
  <1>5. ASSUME NEW n \in S PROVE n <= m
    <2>1. n \in Nat /\ m \in Nat /\ k \in Nat /\ n < b
      BY <1>1
    <2>2. PICK j : j = b - n
      OBVIOUS
    <2>3. j \in Nat /\ j + n = b
      BY <2>1, <2>2
    <2>4. j \in R
      BY <1>1, <2>3
    <2>5. k <= j
      BY <1>3, <2>4
    <2> QED BY <1>4, <2>1, <2>3, <2>5
  <1> QED BY <1>5

\* c goes to its place in the free list.
LEMMA WorkInsertGood ==
    ASSUME WorkConstants, free_segment_list \in Int, WorkGood(seg, free_segment_list),
           NEW c \in DOMAIN seg, ~seg[c].free, NEW out, out = Work!Insert(c)
    PROVE  /\ WorkGood(out, IF {q \in Work!FreeList : q < c} = {} THEN c ELSE free_segment_list)
           /\ DOMAIN out = DOMAIN seg /\ out[c].free
           /\ \A x \in DOMAIN seg : out[x].size = seg[x].size
           /\ \A x \in DOMAIN seg \ {c} : out[x].free <=> seg[x].free
  <1>0. /\ WorkTyped(seg) /\ WorkCut(seg) /\ WorkNexts(seg) /\ WorkPrevs(seg)
        /\ WorkFreeLinks(seg, free_segment_list) /\ Work!Null \notin DOMAIN seg
        /\ Work!Null \in Int /\ Work!FreeList = WorkFrees(seg)
    BY WorkNullIsNone, WorkListIs DEF WorkGood
  <1>1. PICK F : F = WorkFrees(seg)
    OBVIOUS
  <1>2. F \in SUBSET Nat /\ c \in Nat /\ c \notin F /\ F \in SUBSET DOMAIN seg
    BY <1>0, <1>1 DEF WorkFrees, WorkTyped
  <1> DEFINE before == {p \in Work!FreeList : p < c}
             after == Work!FreeList \ before
             bb == IF before = {} THEN Work!Null
                   ELSE CHOOSE p \in before : \A q \in before : q <= p
             aa == IF after = {} THEN Work!Null
                   ELSE CHOOSE p \in after : \A q \in after : p <= q
             mm == [seg EXCEPT ![c].free = TRUE, ![c].free_prev = bb, ![c].free_next = aa]
  <1>i. Work!Insert(c) = Work!Link(Work!Link(mm, bb, "free_next", c), aa, "free_prev", c)
    BY Zenon DEF Work!Insert
  <1>5. PICK b : b = bb
    OBVIOUS
  <1>6. PICK a : a = aa
    OBVIOUS
  <1>f. PICK f \in BOOLEAN : f = TRUE
    OBVIOUS
  <1>10. PICK m : m = [seg EXCEPT ![c].free = f, ![c].free_prev = b, ![c].free_next = a]
    OBVIOUS
  <1>12. PICK d : d = Work!Link(m, b, "free_next", c)
    OBVIOUS
  <1>13. out = Work!Link(d, a, "free_prev", c)
    <2>1. m = mm
      BY <1>5, <1>6, <1>10, <1>f, Zenon
    <2> HIDE DEF mm, bb, aa
    <2> QED BY <2>1, <1>i, <1>5, <1>6, <1>12
  <1>3. before = {p \in F : p < c}
    BY <1>0, <1>1, Zenon
  <1>4. after = F \ before
    BY <1>0, <1>1, Zenon
  <1>b. {q \in Work!FreeList : q < c} = before
    OBVIOUS
  <1> HIDE DEF before, after
  <1>7. WorkLast(F, c, b) /\ (b = Work!Null <=> before = {}) /\ b \in F \cup {Work!Null}
    <2>1. CASE before = {}
      <3>1. b = Work!Null
        BY <1>5, <2>1, Zenon
      <3>2. \A e \in F : c <= e
        BY <1>2, <1>3, <2>1
      <3> QED BY <2>1, <3>1, <3>2 DEF WorkLast
    <2>2. CASE before # {}
      <3>1. before \in SUBSET Nat /\ \A x \in before : x < c
        BY <1>2, <1>3
      <3>2. \E p \in before : \A q \in before : q <= p
        BY <1>2, <2>2, <3>1, WorkLastExists
      <3>3. b \in before /\ \A q \in before : q <= b
        BY <1>5, <2>2, <3>2
      <3> QED BY <1>0, <1>2, <1>3, <2>2, <3>3 DEF WorkLast
    <2> QED BY <2>1, <2>2
  <1>8. WorkFirst(F, c, a) /\ a \in F \cup {Work!Null}
    <2>1. CASE after = {}
      <3>1. a = Work!Null
        BY <1>6, <2>1, Zenon
      <3>2. \A e \in F : e <= c
        BY <1>2, <1>3, <1>4, <2>1
      <3> QED BY <2>1, <3>1, <3>2 DEF WorkFirst
    <2>2. CASE after # {}
      <3>1. after \in SUBSET Nat
        BY <1>2, <1>4
      <3>2. \E p \in after : \A q \in after : p <= q
        BY <2>2, <3>1, LeastExists
      <3>3. a \in after /\ \A q \in after : a <= q
        BY <1>6, <2>2, <3>2
      <3> QED BY <1>0, <1>2, <1>3, <1>4, <2>2, <3>3 DEF WorkFirst
    <2> QED BY <2>1, <2>2
  <1>9. a \in Int /\ b \in Int /\ a # c /\ b # c /\ a \in DOMAIN seg \cup {Work!Null}
        /\ b \in DOMAIN seg \cup {Work!Null}
    BY <1>0, <1>2, <1>7, <1>8
  <1>11. /\ WorkTyped(m) /\ DOMAIN m = DOMAIN seg
         /\ m[c].size = seg[c].size /\ m[c].prev = seg[c].prev /\ m[c].next = seg[c].next
         /\ m[c].free /\ m[c].free_next = a /\ m[c].free_prev = b
         /\ \A x \in DOMAIN seg \ {c} : m[x] = seg[x]
    <2>1. a \in Int /\ b \in Int
      BY <1>9
    <2> QED BY <1>0, <1>10, <1>f, <2>1 DEF WorkTyped, WorkSegments
  <1>14. WorkFreeNextSet(m, b, c, d)
    BY <1>2, <1>9, <1>11, <1>12, WorkLinkFreeNext
  <1>15. WorkFreePrevSet(d, a, c, out)
    BY <1>2, <1>9, <1>11, <1>13, <1>14, WorkLinkFreePrev DEF WorkFreeNextSet
  <1>16. /\ WorkTyped(out) /\ DOMAIN out = DOMAIN seg
         /\ \A x \in DOMAIN seg :
               /\ out[x].size = seg[x].size /\ out[x].prev = seg[x].prev
               /\ out[x].next = seg[x].next /\ (out[x].free <=> x = c \/ seg[x].free)
               /\ out[x].free_next = IF x = b THEN c ELSE m[x].free_next
               /\ out[x].free_prev = IF x = a THEN c ELSE m[x].free_prev
    BY <1>11, <1>14, <1>15 DEF WorkFreePrevSet, WorkFreeNextSet
  <1>17. WorkCut(out) /\ WorkNexts(out)
    BY <1>0, <1>16 DEF WorkCut, WorkNexts
  <1>18. WorkPrevs(out)
    BY <1>0, <1>16 DEF WorkPrevs
  <1>19. WorkFrees(out) = WorkFrees(seg) \cup {c}
    BY <1>16 DEF WorkFrees
  <1>20. WorkFreeLinks(out, IF b = Work!Null THEN c ELSE free_segment_list)
    <2>1. \A x \in WorkFrees(seg) :
              /\ out[x].free_next = IF x = b THEN c ELSE seg[x].free_next
              /\ out[x].free_prev = IF x = a THEN c ELSE seg[x].free_prev
      BY <1>1, <1>2, <1>11, <1>16
    <2>2. out[c].free_next = a /\ out[c].free_prev = b
      BY <1>9, <1>11, <1>16
    <2>3. ASSUME NEW x \in DOMAIN out, ~out[x].free
          PROVE  out[x].free_next = Work!Null /\ out[x].free_prev = Work!Null
      <3>1. x \in DOMAIN seg /\ x # c /\ ~seg[x].free /\ x \notin F /\ x # Work!Null
        BY <1>0, <1>1, <1>16, <2>3 DEF WorkFrees
      <3>2. x # a /\ x # b
        BY <1>7, <1>8, <3>1
      <3> QED BY <1>0, <1>11, <1>16, <3>1, <3>2 DEF WorkFreeLinks
    <2> QED BY <1>0, <1>1, <1>2, <1>7, <1>8, <1>9, <1>16, <1>19, <2>1, <2>2, <2>3, WorkLinksAdd
  <1> QED BY <1>7, <1>16, <1>17, <1>18, <1>20, <1>b DEF WorkGood

\* What a call that frees c leaves of the segments s in out.
WorkFreed(s, c, out) ==
    /\ DOMAIN out \subseteq DOMAIN s
    /\ \A x \in DOMAIN s \ {c} :
          ~s[x].free => x \in DOMAIN out /\ ~out[x].free /\ out[x].size = s[x].size

\* The segments that touch c.
LEMMA WorkTouch ==
    ASSUME WorkConstants, NEW s, NEW hd, WorkGood(s, hd), NEW c \in DOMAIN s
    PROVE  /\ \A x \in DOMAIN s : x + s[x].size = c => x = s[c].prev /\ s[c].prev # Work!Null
           /\ c + s[c].size \in DOMAIN s => s[c].next = c + s[c].size /\ s[c].next # Work!Null
  <1>1. WorkTyped(s) /\ WorkCut(s) /\ WorkNexts(s) /\ WorkPrevs(s) /\ Work!Null \notin DOMAIN s
    BY WorkNullIsNone DEF WorkGood
  <1>2. ASSUME NEW x \in DOMAIN s, x + s[x].size \in DOMAIN s
        PROVE  s[x].next # Work!Null /\ s[x].next = x + s[x].size /\ s[s[x].next].prev = x
    <2>1. x + s[x].size < WorkTotal /\ WorkTotal \in Nat
      BY <1>1, <1>2, WorkNeighbours DEF WorkConstants
    <2> QED BY <1>1, <2>1, WorkNeighbours
  <1>3. ASSUME NEW x \in DOMAIN s, x + s[x].size = c
        PROVE  x = s[c].prev /\ s[c].prev # Work!Null
    <2>1. s[x].next = c /\ s[s[x].next].prev = x
      BY <1>2, <1>3
    <2> QED BY <1>1, <2>1
  <1> QED BY <1>2, <1>3

\* The segment at c is given back to the free list and merged with its free
\* neighbours.
LEMMA WorkFreeRight ==
    ASSUME WorkConstants, free_segment_list \in Int, WorkGood(seg, free_segment_list),
           WorkNoTwins(seg), NEW c \in DOMAIN seg, ~seg[c].free, Work!FreeWorkPos(c)
    PROVE  /\ WorkGood(seg', free_segment_list') /\ WorkNoTwins(seg')
           /\ free_segment_list' \in Int /\ WorkFreed(seg, c, seg')
  <1>0. /\ WorkTyped(seg) /\ WorkFreeLinks(seg, free_segment_list)
        /\ Work!Null \notin DOMAIN seg /\ Work!FreeList = WorkFrees(seg)
        /\ \A x \in DOMAIN seg : x \in Nat /\ seg[x].size \in Nat
        /\ \A x \in DOMAIN seg, y \in DOMAIN seg :
              x < y => x + seg[x].size <= y
    <2>1. \A x \in DOMAIN seg : x \in Nat /\ seg[x].size \in Nat
      BY WorkFields DEF WorkGood
    <2> QED BY <2>1, WorkNullIsNone, WorkListIs DEF WorkGood, WorkCut
  <1>1. PICK out : out = seg'
    OBVIOUS
  <1>2. PICK n : n = seg[c].next
    OBVIOUS
  <1>3. PICK p : p = seg[c].prev
    OBVIOUS
  <1>4. PICK head1 : head1 = IF {q \in Work!FreeList : q < c} = {} THEN c ELSE free_segment_list
    OBVIOUS
  <1>5. /\ \A x \in DOMAIN seg : x + seg[x].size = c => x = p /\ p # Work!Null
        /\ c + seg[c].size \in DOMAIN seg => n = c + seg[c].size /\ n # Work!Null
    BY <1>2, <1>3, WorkTouch
  <1>6. /\ \A x \in DOMAIN seg : x \in WorkFrees(seg) <=> seg[x].free
        /\ \A x \in WorkFrees(seg) : x \in DOMAIN seg
        /\ \A x \in WorkFrees(seg) : x + seg[x].size \notin WorkFrees(seg)
    BY DEF WorkFrees, WorkNoTwins
  <1>7. CASE n # Work!Null /\ seg[n].free
    <2>1. PICK s : s = Work!MergeNext(c)
      OBVIOUS
    <2>2. PICK hd : hd = IF free_segment_list = n THEN c ELSE free_segment_list
      OBVIOUS
    <2>3. /\ n \in DOMAIN seg /\ n = c + seg[c].size /\ WorkGood(s, hd)
          /\ DOMAIN s = DOMAIN seg \ {n}
          /\ s[c].size = seg[c].size + seg[n].size /\ s[c].free /\ s[c].prev = p
          /\ \A x \in DOMAIN seg \ {n, c} : s[x].size = seg[x].size /\ (s[x].free <=> seg[x].free)
      BY <1>2, <1>3, <1>7, <2>1, <2>2, WorkMergeNextGood
    <2>a. c \in Nat /\ n \in Nat /\ c < n /\ c \in DOMAIN s
      <3>1. c # n
        BY <1>7
      <3> QED BY <1>0, <2>3, <3>1
    <2>4. hd \in Int
      BY <2>2, <2>a
    <2>5. \A x \in DOMAIN s \ {c} : /\ x \in DOMAIN seg /\ x # n /\ s[x].size = seg[x].size
                                    /\ (s[x].free <=> seg[x].free)
      BY <2>3
    <2>6. n + seg[n].size \notin WorkFrees(seg) /\ n \in WorkFrees(seg)
      BY <1>6, <1>7, <2>3
    <2>7. c + s[c].size = n + seg[n].size
      BY <1>0, <2>3, <2>a
    <2>8. CASE p # Work!Null /\ seg[p].free
      <3>1. seg' = Work!MergePrev(s, c, TRUE) /\ free_segment_list' = free_segment_list
        BY <1>2, <1>3, <1>7, <2>1, <2>8 DEF Work!FreeWorkPos, Work!IsFree
      <3>2. p \in DOMAIN seg /\ p < c /\ p # n /\ p + seg[p].size = c
        BY <1>0, <1>3, <2>8, <2>a, WorkNeighbours DEF WorkGood
      <3>3. s[p].free /\ s[p].size = seg[p].size /\ p \in DOMAIN s
        BY <1>0, <2>3, <2>5, <2>8, <2>a, <3>2
      <3>4. WorkMergedPrev(s, c, out)
        BY <1>1, <2>3, <3>1 DEF WorkMergedPrev
      <3>5. /\ WorkGood(out, hd) /\ DOMAIN out = DOMAIN s \ {c}
            /\ out[p].size = s[p].size + s[c].size /\ out[p].free
            /\ \A x \in DOMAIN s \ {p, c} : out[x].size = s[x].size /\ (out[x].free <=> s[x].free)
        <4>1. WorkPrevTook(s, c, p, hd, out)
          BY <2>3, <2>4, <2>8, <2>a, <3>3, <3>4, WorkMergePrevGood
        <4> QED BY <4>1 DEF WorkPrevTook
      <3>6. hd = free_segment_list
        <4>1. free_segment_list # n
          <5>1. p \in WorkFrees(seg) /\ p \in Nat /\ p < n
            BY <1>0, <1>6, <2>8, <2>a, <3>2
          <5>2. WorkFirst(WorkFrees(seg), Work!Null, free_segment_list)
            BY <1>0 DEF WorkFreeLinks
          <5> QED BY <2>a, <5>1, <5>2 DEF WorkFirst, Work!Null
        <4> QED BY <2>2, <4>1
      <3>7. p + out[p].size = n + seg[n].size
        <4>1. out[p].size = seg[p].size + s[c].size /\ p \in Nat /\ seg[p].size \in Nat
              /\ s[c].size \in Nat /\ seg[n].size \in Nat /\ seg[c].size \in Nat
          BY <1>0, <2>3, <3>2, <3>3, <3>5
        <4> QED BY <2>7, <2>a, <3>2, <4>1
      <3>8. ASSUME NEW x \in WorkFrees(out) PROVE x + out[x].size \notin WorkFrees(out)
        <4>1. \A y \in WorkFrees(out) : y \in WorkFrees(seg)
          <5> SUFFICES ASSUME NEW y \in WorkFrees(out) PROVE y \in WorkFrees(seg)
            OBVIOUS
          <5>1. y \in DOMAIN s \ {c} /\ out[y].free
            BY <3>5 DEF WorkFrees
          <5>2. y \in DOMAIN seg /\ seg[y].free
            BY <2>5, <2>8, <3>5, <5>1
          <5> QED BY <1>6, <5>2
        <4>2. CASE x = p
          BY <2>6, <3>7, <4>1, <4>2
        <4>3. CASE x # p
          <5>1. x \in DOMAIN s \ {p, c}
            BY <3>5, <4>3 DEF WorkFrees
          <5>2. out[x].size = seg[x].size
            BY <2>5, <3>5, <5>1
          <5> QED BY <1>6, <4>1, <5>2
        <4> QED BY <4>2, <4>3
      <3>9. WorkFreed(seg, c, out)
        <4>1. DOMAIN out \subseteq DOMAIN seg
          BY <2>3, <3>5
        <4>2. ASSUME NEW x \in DOMAIN seg \ {c}, ~seg[x].free
              PROVE  x \in DOMAIN out /\ ~out[x].free /\ out[x].size = seg[x].size
          <5>1. x # n /\ x # p
            BY <1>7, <2>8, <4>2
          <5>2. x \in DOMAIN s \ {p, c} /\ x \in DOMAIN s \ {c}
            BY <2>3, <5>1
          <5> QED BY <2>5, <3>5, <4>2, <5>2
        <4> QED BY <4>1, <4>2 DEF WorkFreed
      <3> QED BY <1>1, <3>1, <3>5, <3>6, <3>8, <3>9 DEF WorkNoTwins
    <2>9. CASE ~(p # Work!Null /\ seg[p].free)
      <3>1. seg' = s /\ free_segment_list' = head1
        BY <1>2, <1>3, <1>4, <1>7, <2>1, <2>9 DEF Work!FreeWorkPos, Work!IsFree
      <3>2. head1 = hd
        <4> DEFINE F == WorkFrees(seg)
        <4>1. F \in SUBSET Nat /\ n \in F /\ WorkFirst(F, Work!Null, free_segment_list)
              /\ \A e \in F : ~(c < e /\ e < n)
          <5>1. \A e \in F : ~(c < e /\ e < n)
            BY <1>0, <1>6, <2>3
          <5> QED BY <1>0, <1>6, <2>6, <5>1 DEF WorkFreeLinks
        <4>2. c \notin F
          BY <1>6
        <4>3. Work!FreeList = F
          BY <1>0
        <4> HIDE DEF F
        <4>4. {q \in F : q < c} = {} <=> free_segment_list = n
          <5>1. free_segment_list \in F /\ \A e \in F : free_segment_list <= e
            BY <4>1 DEF WorkFirst, Work!Null
          <5>2. ASSUME free_segment_list = n PROVE {q \in F : q < c} = {}
            <6>1. \A q \in F : q \in Nat /\ ~(q < c)
              BY <2>a, <4>1, <5>1, <5>2
            <6> QED BY <6>1
          <5>3. ASSUME {q \in F : q < c} = {} PROVE free_segment_list = n
            <6>1. ~(free_segment_list < c)
              BY <5>1, <5>3
            <6>2. free_segment_list \in Nat /\ free_segment_list <= n /\ free_segment_list # c
              BY <4>1, <4>2, <5>1
            <6>3. ~(c < free_segment_list /\ free_segment_list < n)
              BY <4>1, <5>1
            <6> QED BY <2>a, <6>1, <6>2, <6>3
          <5> QED BY <5>2, <5>3
        <4> QED BY <1>4, <2>2, <4>3, <4>4
      <3>3. ASSUME NEW x \in WorkFrees(s) PROVE x + s[x].size \notin WorkFrees(s)
        <4>1. \A y \in WorkFrees(s) : y = c \/ y \in WorkFrees(seg)
          <5> SUFFICES ASSUME NEW y \in WorkFrees(s), y # c PROVE y \in WorkFrees(seg)
            OBVIOUS
          <5>1. y \in DOMAIN s \ {c} /\ s[y].free
            BY DEF WorkFrees
          <5> QED BY <1>6, <2>5, <5>1
        <4>2. CASE x = c
          <5>1. n + seg[n].size # c
            BY <1>0, <2>3, <2>a
          <5> QED BY <2>6, <2>7, <4>1, <4>2, <5>1
        <4>3. CASE x # c
          <5>1. x \in WorkFrees(seg) /\ x \in DOMAIN seg /\ s[x].size = seg[x].size
            <6>1. x \in DOMAIN s \ {c}
              BY <4>3 DEF WorkFrees
            <6> QED BY <1>6, <2>5, <4>1, <4>3, <6>1
          <5>2. x + seg[x].size # c
            BY <1>5, <1>6, <2>9, <5>1
          <5> QED BY <1>6, <4>1, <5>1, <5>2
        <4> QED BY <4>2, <4>3
      <3>4. WorkFreed(seg, c, s)
        <4>1. DOMAIN s \subseteq DOMAIN seg
          BY <2>3
        <4>2. ASSUME NEW x \in DOMAIN seg \ {c}, ~seg[x].free
              PROVE  x \in DOMAIN s /\ ~s[x].free /\ s[x].size = seg[x].size
          <5>1. x # n
            BY <1>7, <4>2
          <5>2. x \in DOMAIN s \ {c}
            BY <2>3, <5>1
          <5> QED BY <2>5, <4>2, <5>2
        <4> QED BY <4>1, <4>2 DEF WorkFreed
      <3> QED BY <2>3, <2>4, <3>1, <3>2, <3>3, <3>4 DEF WorkNoTwins
    <2> QED BY <2>8, <2>9
  <1>8. CASE ~(n # Work!Null /\ seg[n].free)
    <2>1. c + seg[c].size \notin WorkFrees(seg)
      BY <1>5, <1>6, <1>8
    <2>2. CASE p # Work!Null /\ seg[p].free
      <3>1. seg' = Work!MergePrev(seg, c, FALSE) /\ free_segment_list' = free_segment_list
        BY <1>2, <1>3, <1>8, <2>2 DEF Work!FreeWorkPos, Work!IsFree
      <3>2. WorkMergedPrev(seg, c, out)
        BY <1>1, <3>1 DEF WorkMergedPrev
      <3>3. /\ p \in DOMAIN seg /\ c = p + seg[p].size /\ p < c
            /\ WorkGood(out, free_segment_list) /\ DOMAIN out = DOMAIN seg \ {c}
            /\ out[p].size = seg[p].size + seg[c].size /\ out[p].free
            /\ \A x \in DOMAIN seg \ {p, c} :
                  out[x].size = seg[x].size /\ (out[x].free <=> seg[x].free)
        <4>1. WorkPrevTook(seg, c, p, free_segment_list, out)
          BY <1>3, <2>2, <3>2, WorkMergePrevGood
        <4> QED BY <4>1 DEF WorkPrevTook
      <3>4. p + out[p].size = c + seg[c].size
        BY <1>0, <3>3
      <3>5. ASSUME NEW x \in WorkFrees(out) PROVE x + out[x].size \notin WorkFrees(out)
        <4>1. \A y \in WorkFrees(out) : y \in WorkFrees(seg)
          <5> SUFFICES ASSUME NEW y \in WorkFrees(out) PROVE y \in WorkFrees(seg)
            OBVIOUS
          <5>1. y \in DOMAIN seg \ {c} /\ out[y].free
            BY <3>3 DEF WorkFrees
          <5> QED BY <1>6, <2>2, <3>3, <5>1
        <4>2. CASE x = p
          BY <2>1, <3>4, <4>1, <4>2
        <4>3. CASE x # p
          <5>1. x \in DOMAIN seg \ {p, c}
            BY <3>3, <4>3 DEF WorkFrees
          <5>2. out[x].size = seg[x].size
            BY <3>3, <5>1
          <5> QED BY <1>6, <4>1, <5>2
        <4> QED BY <4>2, <4>3
      <3>6. WorkFreed(seg, c, out)
        <4>1. DOMAIN out \subseteq DOMAIN seg
          BY <3>3
        <4>2. ASSUME NEW x \in DOMAIN seg \ {c}, ~seg[x].free
              PROVE  x \in DOMAIN out /\ ~out[x].free /\ out[x].size = seg[x].size
          <5>1. x \in DOMAIN seg \ {p, c}
            BY <2>2, <4>2
          <5> QED BY <3>3, <4>2, <5>1
        <4> QED BY <4>1, <4>2 DEF WorkFreed
      <3> QED BY <1>1, <3>1, <3>3, <3>5, <3>6 DEF WorkNoTwins
    <2>3. CASE ~(p # Work!Null /\ seg[p].free)
      <3>1. seg' = Work!Insert(c) /\ free_segment_list' = head1
        BY <1>2, <1>3, <1>4, <1>8, <2>3 DEF Work!FreeWorkPos, Work!IsFree
      <3>2. /\ WorkGood(out, head1) /\ DOMAIN out = DOMAIN seg /\ out[c].free
            /\ \A x \in DOMAIN seg : out[x].size = seg[x].size
            /\ \A x \in DOMAIN seg \ {c} : out[x].free <=> seg[x].free
        BY <1>1, <1>4, <3>1, WorkInsertGood
      <3>3. head1 \in Int
        BY <1>0, <1>4
      <3>4. ASSUME NEW x \in WorkFrees(out) PROVE x + out[x].size \notin WorkFrees(out)
        <4>1. \A y \in WorkFrees(out) : y \in DOMAIN seg /\ (y = c \/ y \in WorkFrees(seg))
          <5> SUFFICES ASSUME NEW y \in WorkFrees(out)
                       PROVE  y \in DOMAIN seg /\ (y = c \/ y \in WorkFrees(seg))
            OBVIOUS
          <5>1. y \in DOMAIN seg /\ out[y].free
            BY <3>2 DEF WorkFrees
          <5> QED BY <1>6, <3>2, <5>1
        <4>2. x \in DOMAIN seg /\ out[x].size = seg[x].size
          BY <3>2, <4>1
        <4>3. CASE x = c
          <5>1. c + seg[c].size # c
            <6>1. seg[c].size > 0
              BY DEF WorkGood, WorkCut
            <6> QED BY <1>0, <6>1
          <5> QED BY <2>1, <4>1, <4>2, <4>3, <5>1
        <4>4. CASE x # c
          <5>1. x \in WorkFrees(seg)
            BY <4>1, <4>4
          <5>2. x + seg[x].size # c
            BY <1>5, <1>6, <2>3, <4>2, <5>1
          <5> QED BY <1>6, <4>1, <4>2, <5>1, <5>2
        <4> QED BY <4>3, <4>4
      <3>5. WorkFreed(seg, c, out)
        BY <3>2 DEF WorkFreed
      <3> QED BY <1>1, <3>1, <3>2, <3>3, <3>4, <3>5 DEF WorkNoTwins
    <2> QED BY <2>2, <2>3
  <1> QED BY <1>7, <1>8

-----------------------------------------------------------------------------
(* The invariant.                                                          *)

\* No buffer is registered.
WorkEmpty ==
    seg = <<>> /\ free_segment_list = Work!Null /\ first_segment = Work!Null /\ total_size = 0

\* A buffer is registered and cut.
WorkCutUp ==
    /\ first_segment = 0 /\ total_size = WorkTotal /\ free_segment_list \in Int
    /\ WorkGood(seg, free_segment_list) /\ WorkNoTwins(seg)

\* The segment at c is a part to clear.
WorkIsPart(c) ==
    seg[c].size = IF WorkElement < WorkTotal - c THEN WorkElement ELSE WorkTotal - c

\* The owner takes the parts in order, the rest is free; then it frees them in order.
WorkTaking ==
    /\ \E k \in Nat : buffer_owner.pos = k * WorkAlign
    /\ buffer_owner.pos \in DOMAIN seg /\ seg[buffer_owner.pos].free
    /\ buffer_owner.pos + seg[buffer_owner.pos].size = WorkTotal
    /\ \A c \in DOMAIN seg \ {buffer_owner.pos} : ~seg[c].free /\ WorkIsPart(c)
WorkClearing ==
    /\ buffer_owner.pos \in DOMAIN seg
    /\ \A c \in DOMAIN seg : buffer_owner.pos <= c => ~seg[c].free /\ WorkIsPart(c)

WorkOwnerRight ==
    /\ buffer_owner \in [pc : {"out", "take", "clear", "done"}, pos : Nat]
    /\ buffer_owner.pc = "out" => WorkEmpty
    /\ buffer_owner.pc # "out" => WorkCutUp
    /\ buffer_owner.pc = "take" => WorkTaking
    /\ buffer_owner.pc = "clear" => WorkClearing

\* A client holds a segment in use that no other one holds; it waits only while no
\* free segment is large enough.
WorkClientRight(c) ==
    /\ client[c].pc = "idle" => client[c] = Work!Idle
    /\ client[c].pc # "idle" => buffer_owner.pc = "done" /\ client[c].size \in WorkRequests
    /\ client[c].pc # "holds" => client[c].at = Work!Null
    /\ client[c].pc = "holds" =>
          /\ client[c].at \in DOMAIN seg /\ ~seg[client[c].at].free
          /\ seg[client[c].at].size >= client[c].size
          /\ \A d \in WorkClients \ {c} : client[d].at # client[c].at
    /\ client[c].pc = "wait" =>
          \A f \in WorkFrees(seg) : seg[f].size < Work!Aligned(client[c].size)
WorkClientsTyped ==
    client \in [WorkClients -> [pc : {"idle", "wait", "woken", "holds"}, size : Nat, at : Int]]

WorkInv ==
    /\ WorkOwnerRight /\ WorkClientsTyped
    /\ \A c \in WorkClients : WorkClientRight(c)

-----------------------------------------------------------------------------
(* Sizes.                                                                  *)

\* A request is rounded up, and a multiple of the alignment is not changed.
LEMMA WorkAlignedIs ==
    ASSUME WorkConstants
    PROVE  /\ \A x \in Nat \ {0} : Work!Aligned(x) \in Nat \ {0} /\ Work!Aligned(x) >= x
           /\ \A k \in Nat : Work!Aligned(k * WorkAlign) = k * WorkAlign
           /\ \E k \in Nat : WorkTotal = k * WorkAlign
           /\ \E k \in Nat : WorkElement = k * WorkAlign
  <1>1. PICK a \in Nat \ {0} : a = WorkAlign
    BY DEF WorkConstants
  <1>2. ASSUME NEW x \in Nat \ {0}
        PROVE  Work!Aligned(x) \in Nat \ {0} /\ Work!Aligned(x) >= x
    <2>1. PICK q : q = (x + a - 1) \div a
      OBVIOUS
    <2>2. q \in Int /\ x + a - 1 \in Nat
      BY <2>1
    <2>3. q * a >= x
      BY <2>1
    <2>4. Work!Aligned(x) = q * a
      BY <1>1, <2>1 DEF Work!Aligned
    <2>5. PICK m \in Int : m = q * a
      BY <2>2
    <2> QED BY <2>3, <2>4, <2>5
  <1>3. ASSUME NEW k \in Nat
        PROVE  Work!Aligned(k * WorkAlign) = k * WorkAlign
    <2>1. ((k * a + a - 1) \div a) = k
      OBVIOUS
    <2> QED BY <1>1, <2>1 DEF Work!Aligned
  <1>4. \E k \in Nat : WorkTotal = k * WorkAlign
    <2>1. WorkTotal \in Nat /\ WorkTotal % a = 0
      BY <1>1 DEF WorkConstants
    <2>2. \E k \in Nat : WorkTotal = k * a
      BY <2>1
    <2> QED BY <1>1, <2>2
  <1>5. \E k \in Nat : WorkElement = k * WorkAlign
    <2>1. WorkElement \in Nat /\ WorkElement % a = 0
      BY <1>1 DEF WorkConstants
    <2>2. \E k \in Nat : WorkElement = k * a
      BY <2>1
    <2> QED BY <1>1, <2>2
  <1> QED BY <1>2, <1>3, <1>4, <1>5

\* The part at the owner's position needs no rounding, and the next one starts at a
\* multiple of the alignment.
LEMMA WorkPartIs ==
    ASSUME WorkConstants, buffer_owner.pos \in Nat, buffer_owner.pos < WorkTotal,
           \E k \in Nat : buffer_owner.pos = k * WorkAlign
    PROVE  /\ Work!Part = IF WorkElement < WorkTotal - buffer_owner.pos THEN WorkElement
                          ELSE WorkTotal - buffer_owner.pos
           /\ Work!Part \in Nat \ {0} /\ buffer_owner.pos + Work!Part <= WorkTotal
           /\ Work!Aligned(Work!Part) = Work!Part
           /\ \E k \in Nat : buffer_owner.pos + Work!Part = k * WorkAlign
  <1>1. PICK a \in Nat \ {0} : a = WorkAlign
    BY DEF WorkConstants
  <1>2. PICK k \in Nat : buffer_owner.pos = k * a
    BY <1>1
  <1>3. PICK e \in Nat : WorkElement = e * a
    BY <1>1, WorkAlignedIs
  <1>4. PICK t \in Nat : WorkTotal = t * a
    BY <1>1, WorkAlignedIs
  <1>5. PICK q : q = Work!Part
    OBVIOUS
  <1>6. q = IF WorkElement < WorkTotal - buffer_owner.pos THEN WorkElement
            ELSE WorkTotal - buffer_owner.pos
    BY <1>5 DEF Work!Part
  <1>7. q \in Nat \ {0} /\ buffer_owner.pos + q <= WorkTotal
    BY <1>6 DEF WorkConstants
  <1>8. \E j \in Nat : q = j * a
    <2>1. CASE WorkElement < WorkTotal - buffer_owner.pos
      BY <1>3, <1>6, <2>1
    <2>2. CASE ~(WorkElement < WorkTotal - buffer_owner.pos)
      <3>1. q = t * a - k * a
        BY <1>2, <1>4, <1>6, <2>2
      <3>2. q = (t - k) * a
        BY <3>1
      <3>3. PICK j \in Int : j = t - k
        OBVIOUS
      <3>4. q = j * a
        BY <3>2, <3>3
      <3>5. j \in Nat
        BY <1>7, <3>4
      <3> QED BY <3>4, <3>5
    <2> QED BY <2>1, <2>2
  <1>9. PICK j \in Nat : q = j * a
    BY <1>8
  <1>10. Work!Aligned(q) = q
    BY <1>1, <1>9, WorkAlignedIs
  <1>11. buffer_owner.pos + q = (k + j) * a
    BY <1>2, <1>9
  <1>12. k + j \in Nat
    OBVIOUS
  <1>13. \E i \in Nat : buffer_owner.pos + q = i * WorkAlign
    BY <1>1, <1>11, <1>12
  <1> QED BY <1>5, <1>6, <1>7, <1>10, <1>13

-----------------------------------------------------------------------------
(* Each operation keeps the invariant.                                     *)

\* While the owner is not done, no client is in a call.
LEMMA WorkAllIdle ==
    ASSUME WorkInv, buffer_owner.pc # "done"
    PROVE  \A c \in WorkClients : client[c] = Work!Idle
  BY DEF WorkInv, WorkClientRight

\* A client out of the calls is right.
LEMMA WorkIdleRight ==
    ASSUME NEW c \in WorkClients, client'[c] = Work!Idle
    PROVE  WorkClientRight(c)'
  <1>1. client[c]'.pc = "idle" /\ client[c]'.at = Work!Null
    BY DEF Work!Idle
  <1> QED BY <1>1 DEF WorkClientRight

\* A registered buffer is one free segment.
LEMMA WorkRegisterKeeps == ASSUME WorkConstants, WorkInv, Work!Register PROVE WorkInv'
  <1>0. /\ buffer_owner.pc = "out" /\ WorkClientsTyped /\ WorkTotal \in Nat \ {0}
        /\ WorkAlign \in Nat \ {0} /\ WorkElement \in Nat \ {0}
    BY DEF WorkInv, Work!Register, WorkConstants
  <1>1. PICK x : x = [size |-> WorkTotal, free |-> TRUE, prev |-> Work!Null, next |-> Work!Null,
                      free_prev |-> Work!Null, free_next |-> Work!Null]
    OBVIOUS
  <1>2. PICK s : s = Work!With(<<>>, 0, x)
    OBVIOUS
  <1>3. DOMAIN s = {0} /\ s[0] = x /\ s \in [{0} -> {x}]
    <2>1. DOMAIN <<>> \cup {0} = {0}
      OBVIOUS
    <2>2. s = [q \in DOMAIN <<>> \cup {0} |-> IF q = 0 THEN x ELSE <<>>[q]]
      BY <1>2 DEF Work!With
    <2>3. s = [q \in {0} |-> x]
      BY <2>1, <2>2
    <2> QED BY <2>3
  <1>4. /\ x.size = WorkTotal /\ x.free /\ x.prev = Work!Null /\ x.next = Work!Null
        /\ x.free_prev = Work!Null /\ x.free_next = Work!Null /\ x \in WorkSegments
    <2>1. Work!Null \in Int /\ WorkTotal \in Nat
      BY <1>0 DEF Work!Null
    <2> QED BY <1>1, <2>1 DEF WorkSegments
  <1>5. /\ seg' = s /\ free_segment_list' = 0 /\ first_segment' = 0 /\ total_size' = WorkTotal
        /\ buffer_owner' = [pc |-> "take", pos |-> 0] /\ client' = client
    BY <1>1, <1>2 DEF Work!Register
  <1>6. WorkTyped(s) /\ WorkCut(s) /\ WorkNexts(s) /\ WorkPrevs(s)
    BY <1>0, <1>3, <1>4 DEF WorkTyped, WorkCut, WorkNexts, WorkPrevs
  <1>7. WorkFrees(s) = {0}
    BY <1>3, <1>4 DEF WorkFrees
  <1>8. WorkFreeLinks(s, 0) /\ WorkNoTwins(s)
    <2>1. WorkFirst({0}, Work!Null, 0) /\ WorkFirst({0}, 0, Work!Null) /\ WorkLast({0}, 0, Work!Null)
      BY DEF WorkFirst, WorkLast, Work!Null
    <2>2. WorkFreeLinks(s, 0)
      BY <1>3, <1>4, <1>7, <2>1 DEF WorkFreeLinks
    <2>3. WorkNoTwins(s)
      BY <1>0, <1>3, <1>4, <1>7 DEF WorkNoTwins
    <2> QED BY <2>2, <2>3
  <1>9. WorkCutUp'
    BY <1>5, <1>6, <1>8 DEF WorkCutUp, WorkGood
  <1>10. WorkTaking'
    <2>1. buffer_owner'.pos = 0
      BY <1>5
    <2>2. 0 = 0 * WorkAlign
      BY <1>0
    <2>3. 0 + s[0].size = WorkTotal
      BY <1>0, <1>3, <1>4
    <2> QED BY <1>3, <1>4, <1>5, <2>1, <2>2, <2>3 DEF WorkTaking
  <1>11. WorkOwnerRight'
    BY <1>5, <1>9, <1>10 DEF WorkOwnerRight
  <1>12. WorkClientsTyped'
    BY <1>0, <1>5 DEF WorkClientsTyped
  <1>13. \A c \in WorkClients : WorkClientRight(c)'
    BY <1>0, <1>5, WorkAllIdle, WorkIdleRight
  <1> QED BY <1>11, <1>12, <1>13 DEF WorkInv

\* The owner goes to its next part.
LEMMA WorkAdvances ==
    ASSUME WorkConstants, buffer_owner.pos \in Nat, buffer_owner.pos < WorkTotal,
           NEW from, NEW then, Work!Advance(from, then)
    PROVE  LET n == buffer_owner.pos + Work!Part
           IN  buffer_owner' = IF n = WorkTotal THEN [pc |-> then, pos |-> 0]
                               ELSE [pc |-> from, pos |-> n]
  BY Zenon DEF Work!Advance

\* The owner takes the next part.
LEMMA WorkTakePartKeeps == ASSUME WorkConstants, WorkInv, Work!TakePart PROVE WorkInv'
  <1>0. /\ buffer_owner.pc = "take" /\ WorkCutUp /\ WorkTaking /\ WorkClientsTyped
        /\ buffer_owner.pos \in Nat /\ WorkTotal \in Nat /\ WorkElement \in Nat \ {0}
    BY DEF WorkInv, Work!TakePart, WorkOwnerRight, WorkConstants
  <1>1. PICK at : at = buffer_owner.pos
    OBVIOUS
  <1>2. /\ at \in Nat /\ at \in DOMAIN seg /\ seg[at].free /\ at + seg[at].size = WorkTotal
        /\ at < WorkTotal
        /\ \A c \in DOMAIN seg \ {at} : ~seg[c].free /\ WorkIsPart(c)
    <2>1. at < WorkTotal
      BY <1>0, <1>1, WorkNeighbours DEF WorkTaking, WorkCutUp, WorkGood
    <2> QED BY <1>0, <1>1, <2>1 DEF WorkTaking
  <1>3. PICK sz : sz = Work!Part
    OBVIOUS
  <1>4. /\ sz = IF WorkElement < WorkTotal - at THEN WorkElement ELSE WorkTotal - at
        /\ sz \in Nat \ {0} /\ at + sz <= WorkTotal /\ Work!Aligned(sz) = sz
        /\ \E k \in Nat : at + sz = k * WorkAlign
    BY <1>0, <1>1, <1>2, <1>3, WorkPartIs DEF WorkTaking
  <1>5. Work!Fits(sz) # {} /\ Work!Allocate(sz) /\ Work!Advance("take", "clear")
        /\ first_segment' = first_segment /\ total_size' = total_size /\ client' = client
    <2>1. /\ Work!Fits(Work!Aligned(sz)) # {} /\ Work!Allocate(Work!Aligned(sz))
          /\ Work!Advance("take", "clear")
          /\ first_segment' = first_segment /\ total_size' = total_size /\ client' = client
      BY <1>3 DEF Work!TakePart
    <2> QED BY <1>4, <2>1
  <1>6. PICK w : w = Work!Winner(sz)
    OBVIOUS
  <1>7. /\ WorkGood(seg', free_segment_list') /\ WorkNoTwins(seg')
        /\ free_segment_list' \in Int /\ w \in WorkFrees(seg)
        /\ WorkServed(seg, w, sz, seg')
    BY <1>0, <1>4, <1>5, <1>6, WorkAllocateRight DEF WorkCutUp
  <1>8. w = at
    BY <1>2, <1>7 DEF WorkFrees
  <1>9. WorkCutUp'
    BY <1>0, <1>5, <1>7 DEF WorkCutUp
  <1>10. buffer_owner' = IF at + sz = WorkTotal THEN [pc |-> "clear", pos |-> 0]
                         ELSE [pc |-> "take", pos |-> at + sz]
    BY <1>0, <1>1, <1>2, <1>3, <1>5, WorkAdvances
  <1>11. PICK s : s = seg'
    OBVIOUS
  <1>12. /\ DOMAIN s = IF seg[at].size = sz THEN DOMAIN seg ELSE DOMAIN seg \cup {at + sz}
         /\ s[at].size = sz /\ ~s[at].free
         /\ \A x \in DOMAIN seg \ {at} : s[x].size = seg[x].size /\ (s[x].free <=> seg[x].free)
         /\ seg[at].size # sz => /\ at + sz \notin DOMAIN seg /\ s[at + sz].free
                                 /\ s[at + sz].size = seg[at].size - sz
    BY <1>7, <1>8, <1>11 DEF WorkServed
  <1>13. \A x \in DOMAIN seg : ~s[x].free /\ s[x].size = IF WorkElement < WorkTotal - x
                                                         THEN WorkElement ELSE WorkTotal - x
    BY <1>2, <1>4, <1>12 DEF WorkIsPart
  <1>14. seg[at].size = sz <=> at + sz = WorkTotal
    <2>1. seg[at].size \in Nat
      BY <1>0, <1>2, WorkFields DEF WorkCutUp, WorkGood
    <2> QED BY <1>2, <1>4, <2>1
  <1>15. ASSUME at + sz = WorkTotal PROVE WorkOwnerRight'
    <2>1. buffer_owner' = [pc |-> "clear", pos |-> 0] /\ DOMAIN s = DOMAIN seg
      BY <1>10, <1>12, <1>14, <1>15
    <2>2. 0 \in DOMAIN seg
      BY <1>0 DEF WorkCutUp, WorkGood, WorkCut
    <2>3. WorkClearing'
      <3>1. buffer_owner'.pos = 0
        BY <2>1
      <3> QED BY <1>11, <1>13, <2>1, <2>2, <3>1 DEF WorkClearing, WorkIsPart
    <2> QED BY <1>9, <2>1, <2>3 DEF WorkOwnerRight
  <1>16. ASSUME at + sz # WorkTotal PROVE WorkOwnerRight'
    <2>1. buffer_owner' = [pc |-> "take", pos |-> at + sz]
      BY <1>10, <1>16
    <2>2. PICK r : r = at + sz
      OBVIOUS
    <2>3. /\ DOMAIN s = DOMAIN seg \cup {r} /\ s[r].free /\ s[r].size = seg[at].size - sz
          /\ r \notin DOMAIN seg /\ r \in Nat
      BY <1>2, <1>4, <1>12, <1>14, <1>16, <2>2
    <2>4. r + s[r].size = WorkTotal
      <3>1. seg[at].size \in Nat
        BY <1>0, <1>2, WorkFields DEF WorkCutUp, WorkGood
      <3> QED BY <1>2, <1>4, <2>2, <2>3, <3>1
    <2>5. WorkTaking'
      <3>1. buffer_owner'.pos = r
        BY <2>1, <2>2
      <3>2. \E k \in Nat : r = k * WorkAlign
        BY <1>4, <2>2
      <3>3. \A c \in DOMAIN s \ {r} : ~s[c].free
                /\ s[c].size = IF WorkElement < WorkTotal - c THEN WorkElement ELSE WorkTotal - c
        BY <1>13, <2>3
      <3> QED BY <1>11, <2>3, <2>4, <3>1, <3>2, <3>3 DEF WorkTaking, WorkIsPart
    <2> QED BY <1>9, <2>1, <2>2, <2>3, <2>5 DEF WorkOwnerRight
  <1>17. WorkOwnerRight'
    BY <1>15, <1>16
  <1>18. WorkClientsTyped'
    BY <1>0, <1>5 DEF WorkClientsTyped
  <1>19. \A c \in WorkClients : WorkClientRight(c)'
    BY <1>0, <1>5, WorkAllIdle, WorkIdleRight
  <1> QED BY <1>17, <1>18, <1>19 DEF WorkInv

\* The owner clears and frees the next part.
LEMMA WorkClearPartKeeps == ASSUME WorkConstants, WorkInv, Work!ClearPart PROVE WorkInv'
  <1>0. /\ buffer_owner.pc = "clear" /\ WorkCutUp /\ WorkClearing /\ WorkClientsTyped
        /\ buffer_owner.pos \in Nat /\ WorkTotal \in Nat /\ WorkElement \in Nat \ {0}
    BY DEF WorkInv, Work!ClearPart, WorkOwnerRight, WorkConstants
  <1>1. PICK at : at = buffer_owner.pos
    OBVIOUS
  <1>2. /\ at \in Nat /\ at \in DOMAIN seg /\ at < WorkTotal
        /\ \A c \in DOMAIN seg : at <= c => ~seg[c].free /\ WorkIsPart(c)
        /\ \A c \in DOMAIN seg : c \in Nat
    <2>1. at < WorkTotal /\ \A c \in DOMAIN seg : c \in Nat
      BY <1>0, <1>1, WorkNeighbours DEF WorkClearing, WorkCutUp, WorkGood
    <2> QED BY <1>0, <1>1, <2>1 DEF WorkClearing
  <1>3. ~seg[at].free /\ WorkIsPart(at)
    BY <1>2
  <1>4. /\ Work!FreeWorkPos(at) /\ client' = Work!WakeAll /\ Work!Advance("clear", "done")
        /\ first_segment' = first_segment /\ total_size' = total_size
    BY <1>1 DEF Work!ClearPart
  <1>5. /\ WorkGood(seg', free_segment_list') /\ WorkNoTwins(seg')
        /\ free_segment_list' \in Int /\ WorkFreed(seg, at, seg')
    BY <1>0, <1>2, <1>3, <1>4, WorkFreeRight DEF WorkCutUp
  <1>6. WorkCutUp'
    BY <1>0, <1>4, <1>5 DEF WorkCutUp
  <1>7. PICK sz : sz = Work!Part
    OBVIOUS
  <1>8. buffer_owner' = IF at + sz = WorkTotal THEN [pc |-> "done", pos |-> 0]
                        ELSE [pc |-> "clear", pos |-> at + sz]
    BY <1>0, <1>1, <1>2, <1>4, <1>7, WorkAdvances
  <1>9. sz = seg[at].size /\ seg[at].size \in Nat
    <2>1. sz = IF WorkElement < WorkTotal - at THEN WorkElement ELSE WorkTotal - at
      BY <1>1, <1>7 DEF Work!Part
    <2>2. seg[at].size \in Nat
      BY <1>0, <1>2, WorkFields DEF WorkCutUp, WorkGood
    <2> QED BY <1>3, <2>1, <2>2 DEF WorkIsPart
  <1>10. ASSUME at + sz = WorkTotal PROVE WorkOwnerRight'
    <2>1. buffer_owner' = [pc |-> "done", pos |-> 0]
      BY <1>8, <1>10
    <2> QED BY <1>6, <2>1 DEF WorkOwnerRight
  <1>11. ASSUME at + sz # WorkTotal PROVE WorkOwnerRight'
    <2>1. buffer_owner' = [pc |-> "clear", pos |-> at + sz]
      BY <1>8, <1>11
    <2>2. PICK r : r = at + sz
      OBVIOUS
    <2>3. r \in DOMAIN seg /\ r \in Nat /\ at < r
      <3>1. at + seg[at].size \in DOMAIN seg /\ seg[at].size > 0
        BY <1>0, <1>2, <1>9, <1>11 DEF WorkCutUp, WorkGood, WorkCut
      <3> QED BY <1>2, <1>9, <2>2, <3>1
    <2>4. PICK s : s = seg'
      OBVIOUS
    <2>5. /\ DOMAIN s \subseteq DOMAIN seg
          /\ \A x \in DOMAIN seg \ {at} :
                ~seg[x].free => x \in DOMAIN s /\ ~s[x].free /\ s[x].size = seg[x].size
      BY <1>5, <2>4 DEF WorkFreed
    <2>6. ASSUME NEW c \in DOMAIN seg, r <= c
          PROVE  c \in DOMAIN s /\ ~s[c].free
                 /\ s[c].size = IF WorkElement < WorkTotal - c THEN WorkElement ELSE WorkTotal - c
      <3>1. c # at /\ at <= c
        BY <1>2, <2>3, <2>6
      <3> QED BY <1>2, <2>5, <3>1 DEF WorkIsPart
    <2>7. WorkClearing'
      <3>1. buffer_owner'.pos = r
        BY <2>1, <2>2
      <3>2. r \in DOMAIN s
        BY <2>3, <2>6
      <3> QED BY <2>4, <2>5, <2>6, <3>1, <3>2 DEF WorkClearing, WorkIsPart
    <2> QED BY <1>6, <2>1, <2>2, <2>3, <2>7 DEF WorkOwnerRight
  <1>12. WorkOwnerRight'
    BY <1>10, <1>11
  <1>13. ASSUME NEW c \in WorkClients PROVE client'[c] = Work!Idle
    <2>1. client[c] = Work!Idle
      BY <1>0, WorkAllIdle
    <2>2. client[c].pc # "wait"
      BY <2>1 DEF Work!Idle
    <2>3. client'[c] = client[c]
      BY <1>4, <2>2 DEF Work!WakeAll
    <2> QED BY <2>1, <2>3
  <1>14. WorkClientsTyped'
    <2>1. client' = [c \in WorkClients |-> client'[c]]
      BY <1>4 DEF Work!WakeAll
    <2>2. \A c \in WorkClients :
              client'[c] \in [pc : {"idle", "wait", "woken", "holds"}, size : Nat, at : Int]
      BY <1>13 DEF Work!Idle, Work!Null
    <2> QED BY <2>1, <2>2, Zenon DEF WorkClientsTyped
  <1>15. \A c \in WorkClients : WorkClientRight(c)'
    BY <1>13, WorkIdleRight
  <1> QED BY <1>12, <1>14, <1>15 DEF WorkInv

\* The buffer is given back when no client uses it.
LEMMA WorkUnregisterKeeps == ASSUME WorkInv, Work!Unregister PROVE WorkInv'
  <1>1. /\ seg' = <<>> /\ free_segment_list' = Work!Null /\ first_segment' = Work!Null
        /\ total_size' = 0 /\ buffer_owner' = [pc |-> "out", pos |-> 0] /\ client' = client
        /\ \A c \in WorkClients : client[c] = Work!Idle
    BY DEF Work!Unregister
  <1>2. WorkOwnerRight'
    BY <1>1 DEF WorkOwnerRight, WorkEmpty
  <1>3. WorkClientsTyped'
    BY <1>1 DEF WorkInv, WorkClientsTyped
  <1>4. \A c \in WorkClients : WorkClientRight(c)'
    BY <1>1, WorkIdleRight
  <1> QED BY <1>2, <1>3, <1>4 DEF WorkInv

\* Before the first call no buffer is registered.
LEMMA WorkInitRight == ASSUME Work!Init PROVE WorkInv
  <1>1. WorkOwnerRight
    BY DEF Work!Init, WorkOwnerRight, WorkEmpty
  <1>2. client = [c \in WorkClients |-> Work!Idle]
    BY DEF Work!Init
  <1>3. Work!Idle \in [pc : {"idle", "wait", "woken", "holds"}, size : Nat, at : Int]
        /\ Work!Idle.pc = "idle" /\ Work!Idle.at = Work!Null
    BY DEF Work!Idle, Work!Null
  <1>4. WorkClientsTyped
    BY <1>2, <1>3 DEF WorkClientsTyped
  <1>5. \A c \in WorkClients : WorkClientRight(c)
    BY <1>2, <1>3 DEF WorkClientRight
  <1> QED BY <1>1, <1>4, <1>5 DEF WorkInv

\* What client says of a client.
LEMMA WorkClientFields ==
    ASSUME WorkClientsTyped, NEW c \in WorkClients
    PROVE  /\ client[c].pc \in {"idle", "wait", "woken", "holds"} /\ client[c].size \in Nat
           /\ client[c].at \in Int
  BY DEF WorkClientsTyped

\* A client asks for a segment and gets it or waits.
LEMMA WorkGetKeeps ==
    ASSUME WorkConstants, WorkInv, NEW c \in WorkClients, Work!Get(c) PROVE WorkInv'
  <1>0. /\ buffer_owner.pc = "done" /\ WorkCutUp /\ WorkClientsTyped /\ WorkOwnerRight
        /\ \A d \in WorkClients : WorkClientRight(d)
        /\ first_segment' = first_segment /\ total_size' = total_size
        /\ buffer_owner' = buffer_owner /\ WorkRequests \subseteq Nat \ {0}
    BY DEF WorkInv, Work!Get, WorkOwnerRight, WorkConstants
  <1>1. PICK sz \in WorkRequests : client[c].pc \in {"idle", "woken"} /\ Work!GetWorkPos(c, sz)
    <2>1. CASE client[c].pc = "idle" /\ \E x \in WorkRequests : Work!GetWorkPos(c, x)
      BY <2>1
    <2>2. CASE client[c].pc = "woken" /\ Work!GetWorkPos(c, client[c].size)
      BY <1>0, <2>2 DEF WorkClientRight
    <2> QED BY <2>1, <2>2 DEF Work!Get
  <1>2. PICK al : al = Work!Aligned(sz)
    OBVIOUS
  <1>3. sz \in Nat \ {0} /\ al \in Nat \ {0} /\ al >= sz
    BY <1>0, <1>2, WorkAlignedIs
  <1>4. \A d \in WorkClients :
            /\ client[d].pc \in {"idle", "wait", "woken", "holds"} /\ client[d].size \in Nat
            /\ client[d].at \in Int
            /\ client[d].pc # "idle" => client[d].size \in WorkRequests
            /\ client[d].pc = "idle" => client[d] = Work!Idle
            /\ client[d].pc # "holds" => client[d].at = Work!Null
            /\ client[d].pc = "holds" =>
                  /\ client[d].at \in DOMAIN seg /\ ~seg[client[d].at].free
                  /\ seg[client[d].at].size >= client[d].size
                  /\ \A e \in WorkClients \ {d} : client[e].at # client[d].at
    BY <1>0, WorkClientFields DEF WorkClientRight
  <1>5. \A d \in WorkClients : client[d].pc = "wait" =>
            \A f \in WorkFrees(seg) : seg[f].size < Work!Aligned(client[d].size)
    BY <1>0 DEF WorkClientRight
  <1>6. CASE Work!Fits(al) = {}
    <2>1. /\ client' = [client EXCEPT ![c] = [Work!Idle EXCEPT !.pc = "wait", !.size = sz]]
          /\ seg' = seg /\ free_segment_list' = free_segment_list
      BY <1>1, <1>2, <1>6 DEF Work!GetWorkPos
    <2>2. /\ client'[c] = [pc |-> "wait", size |-> sz, at |-> Work!Null]
          /\ client'[c].pc = "wait" /\ client'[c].size = sz /\ client'[c].at = Work!Null
          /\ \A d \in WorkClients \ {c} : client'[d] = client[d]
      BY <1>0, <2>1 DEF WorkClientsTyped, Work!Idle
    <2>3. WorkClientsTyped'
      <3>1. [pc |-> "wait", size |-> sz, at |-> Work!Null] \in
                [pc : {"idle", "wait", "woken", "holds"}, size : Nat, at : Int]
        BY <1>3 DEF Work!Null
      <3> QED BY <1>0, <2>1, <2>2, <3>1 DEF WorkClientsTyped
    <2>4. WorkOwnerRight'
      BY <1>0, <2>1 DEF WorkOwnerRight, WorkCutUp
    <2>5. WorkClientRight(c)'
      <3>1. \A f \in WorkFrees(seg) : seg[f].size < al
        BY <1>0, <1>3, <1>6, WorkSearch DEF WorkCutUp
      <3> QED BY <1>0, <1>2, <2>1, <2>2, <3>1 DEF WorkClientRight
    <2>6. ASSUME NEW d \in WorkClients, d # c PROVE WorkClientRight(d)'
      <3>1. client'[d] = client[d]
        BY <2>2, <2>6
      <3>2. client[d].pc = "holds" => \A e \in WorkClients \ {d} : client'[e].at # client'[d].at
        <4> SUFFICES ASSUME client[d].pc = "holds", NEW e \in WorkClients \ {d}
                     PROVE  client'[e].at # client'[d].at
          OBVIOUS
        <4>1. client[c].at = Work!Null
          BY <1>1, <1>4
        <4>2. client[e].at # client[d].at /\ client[c].at # client[d].at
          BY <1>4, <2>6
        <4> QED BY <2>2, <3>1, <4>1, <4>2
      <3> QED BY <1>0, <1>4, <1>5, <2>1, <3>1, <3>2 DEF WorkClientRight
    <2> QED BY <2>3, <2>4, <2>5, <2>6 DEF WorkInv
  <1>7. CASE Work!Fits(al) # {}
    <2>1. PICK w : w = Work!Winner(al)
      OBVIOUS
    <2>2. /\ Work!Allocate(al)
          /\ client' = [client EXCEPT ![c] = [pc |-> "holds", size |-> sz, at |-> w]]
      BY <1>1, <1>2, <1>7, <2>1 DEF Work!GetWorkPos
    <2>3. /\ WorkGood(seg', free_segment_list') /\ WorkNoTwins(seg')
          /\ free_segment_list' \in Int /\ w \in WorkFrees(seg) /\ seg[w].size >= al
          /\ WorkServed(seg, w, al, seg')
      BY <1>0, <1>3, <1>7, <2>1, <2>2, WorkAllocateRight DEF WorkCutUp
    <2>4. w \in DOMAIN seg /\ seg[w].free /\ w # Work!Null /\ w \in Nat /\ seg[w].size \in Nat
      BY <1>0, <2>3, WorkFields, WorkNullIsNone DEF WorkFrees, WorkCutUp, WorkGood
    <2>5. /\ client'[c] = [pc |-> "holds", size |-> sz, at |-> w]
          /\ client'[c].pc = "holds" /\ client'[c].size = sz /\ client'[c].at = w
          /\ \A d \in WorkClients \ {c} : client'[d] = client[d]
      BY <1>0, <2>2 DEF WorkClientsTyped
    <2>6. WorkClientsTyped'
      <3>1. [pc |-> "holds", size |-> sz, at |-> w] \in
                [pc : {"idle", "wait", "woken", "holds"}, size : Nat, at : Int]
        BY <1>3, <2>4
      <3> QED BY <1>0, <2>2, <2>5, <3>1 DEF WorkClientsTyped
    <2>7. WorkOwnerRight'
      BY <1>0, <2>3 DEF WorkOwnerRight, WorkCutUp
    <2>8. PICK s : s = seg'
      OBVIOUS
    <2>9. /\ w \in DOMAIN s /\ s[w].size = al /\ ~s[w].free
          /\ \A x \in DOMAIN seg \ {w} : /\ x \in DOMAIN s /\ s[x].size = seg[x].size
                                         /\ (s[x].free <=> seg[x].free)
          /\ \A f \in WorkFrees(s) : \/ f \in WorkFrees(seg) /\ s[f].size = seg[f].size
                                     \/ s[f].size = seg[w].size - al
      BY <2>3, <2>4, <2>8 DEF WorkServed, WorkFrees
    <2>10. \A d \in WorkClients \ {c} : client[d].at # w
      BY <1>4, <2>4
    <2>11. WorkClientRight(c)'
      <3>1. \A d \in WorkClients \ {c} : client'[d].at # w
        BY <2>5, <2>10
      <3> QED BY <1>0, <1>3, <2>5, <2>8, <2>9, <3>1 DEF WorkClientRight
    <2>12. ASSUME NEW d \in WorkClients, d # c PROVE WorkClientRight(d)'
      <3>1. client'[d] = client[d]
        BY <2>5, <2>12
      <3>2. ASSUME client[d].pc = "holds"
            PROVE  /\ client[d].at \in DOMAIN s /\ ~s[client[d].at].free
                   /\ s[client[d].at].size >= client[d].size
                   /\ \A e \in WorkClients \ {d} : client'[e].at # client[d].at
        <4>1. client[d].at \in DOMAIN seg \ {w}
          BY <1>4, <2>4, <3>2
        <4>2. \A e \in WorkClients \ {d} : client'[e].at # client[d].at
          BY <1>4, <2>5, <2>10, <2>12, <3>2
        <4> QED BY <1>4, <2>9, <3>2, <4>1, <4>2
      <3>3. ASSUME client[d].pc = "wait", NEW f \in WorkFrees(s)
            PROVE  s[f].size < Work!Aligned(client[d].size)
        <4>1. client[d].size \in Nat \ {0}
          BY <1>0, <1>4, <3>3
        <4>2. Work!Aligned(client[d].size) \in Nat
          BY <4>1, WorkAlignedIs
        <4>3. seg[w].size < Work!Aligned(client[d].size)
          BY <1>5, <2>3, <3>3
        <4>4. CASE f \in WorkFrees(seg) /\ s[f].size = seg[f].size
          BY <1>5, <3>3, <4>4
        <4>5. CASE s[f].size = seg[w].size - al
          BY <1>3, <2>4, <4>2, <4>3, <4>5
        <4> QED BY <2>9, <4>4, <4>5
      <3> QED BY <1>0, <1>4, <2>8, <3>1, <3>2, <3>3 DEF WorkClientRight
    <2> QED BY <2>6, <2>7, <2>11, <2>12 DEF WorkInv
  <1> QED BY <1>6, <1>7

\* A client frees its segment and wakes all that wait.
LEMMA WorkFreeKeeps ==
    ASSUME WorkConstants, WorkInv, NEW c \in WorkClients, Work!Free(c) PROVE WorkInv'
  <1>0. /\ WorkOwnerRight /\ WorkClientsTyped /\ \A d \in WorkClients : WorkClientRight(d)
        /\ client[c].pc = "holds" /\ Work!FreeWorkPos(client[c].at)
        /\ client' = [Work!WakeAll EXCEPT ![c] = Work!Idle]
        /\ first_segment' = first_segment /\ total_size' = total_size
        /\ buffer_owner' = buffer_owner
    BY DEF WorkInv, Work!Free
  <1>1. /\ buffer_owner.pc = "done" /\ client[c].at \in DOMAIN seg /\ ~seg[client[c].at].free
        /\ \A d \in WorkClients \ {c} : client[d].at # client[c].at
    BY <1>0 DEF WorkClientRight
  <1>2. WorkCutUp
    BY <1>0, <1>1 DEF WorkOwnerRight
  <1>3. PICK at : at = client[c].at
    OBVIOUS
  <1>4. /\ WorkGood(seg', free_segment_list') /\ WorkNoTwins(seg')
        /\ free_segment_list' \in Int /\ WorkFreed(seg, at, seg')
    BY <1>0, <1>1, <1>2, <1>3, WorkFreeRight DEF WorkCutUp
  <1>5. WorkOwnerRight'
    BY <1>0, <1>1, <1>2, <1>4 DEF WorkOwnerRight, WorkCutUp
  <1>6. /\ client'[c] = Work!Idle
        /\ \A d \in WorkClients \ {c} :
              client'[d] = IF client[d].pc = "wait" THEN [client[d] EXCEPT !.pc = "woken"]
                           ELSE client[d]
        /\ client' = [d \in WorkClients |-> client'[d]]
    BY <1>0 DEF Work!WakeAll
  <1>7. ASSUME NEW d \in WorkClients, d # c
        PROVE  /\ client'[d].pc = IF client[d].pc = "wait" THEN "woken" ELSE client[d].pc
               /\ client'[d].size = client[d].size /\ client'[d].at = client[d].at
               /\ client[d].pc # "wait" => client'[d] = client[d]
               /\ client'[d] \in [pc : {"idle", "wait", "woken", "holds"}, size : Nat, at : Int]
    <2>1. client[d] \in [pc : {"idle", "wait", "woken", "holds"}, size : Nat, at : Int]
      BY <1>0 DEF WorkClientsTyped
    <2> QED BY <1>6, <1>7, <2>1
  <1>8. client'[c].at = Work!Null /\ client'[c] \in
            [pc : {"idle", "wait", "woken", "holds"}, size : Nat, at : Int]
    BY <1>6 DEF Work!Idle, Work!Null
  <1>9. WorkClientsTyped'
    <2>1. \A d \in WorkClients :
              client'[d] \in [pc : {"idle", "wait", "woken", "holds"}, size : Nat, at : Int]
      BY <1>7, <1>8
    <2> QED BY <1>6, <2>1, Zenon DEF WorkClientsTyped
  <1>10. WorkClientRight(c)'
    BY <1>6, WorkIdleRight
  <1>11. ASSUME NEW d \in WorkClients, d # c PROVE WorkClientRight(d)'
    <2>1. /\ client[d].pc = "idle" => client[d] = Work!Idle
          /\ client[d].pc # "idle" => client[d].size \in WorkRequests
          /\ client[d].pc # "holds" => client[d].at = Work!Null
      BY <1>0 DEF WorkClientRight
    <2>2. /\ client'[d].pc = "idle" => client'[d] = Work!Idle
          /\ client'[d].pc # "idle" => buffer_owner'.pc = "done" /\ client'[d].size \in WorkRequests
          /\ client'[d].pc # "holds" => client'[d].at = Work!Null
          /\ client'[d].pc # "wait"
      BY <1>0, <1>1, <1>7, <1>11, <2>1
    <2>3. PICK s : s = seg'
      OBVIOUS
    <2>4. ASSUME client'[d].pc = "holds"
          PROVE  /\ client'[d].at \in DOMAIN s /\ ~s[client'[d].at].free
                 /\ s[client'[d].at].size >= client'[d].size
                 /\ \A e \in WorkClients \ {d} : client'[e].at # client'[d].at
      <3>1. client[d].pc = "holds"
        BY <1>7, <1>11, <2>4
      <3>2. /\ client[d].at \in DOMAIN seg /\ ~seg[client[d].at].free
            /\ seg[client[d].at].size >= client[d].size
            /\ \A e \in WorkClients \ {d} : client[e].at # client[d].at
        BY <1>0, <3>1 DEF WorkClientRight
      <3>3. client[d].at \in DOMAIN seg \ {at}
        BY <1>1, <1>3, <1>11, <3>2
      <3>4. client[d].at \in DOMAIN s /\ ~s[client[d].at].free
            /\ s[client[d].at].size = seg[client[d].at].size
        BY <1>4, <2>3, <3>2, <3>3 DEF WorkFreed
      <3>5. client'[d].at = client[d].at /\ client'[d].size = client[d].size
        BY <1>7, <1>11
      <3>6. ASSUME NEW e \in WorkClients \ {d} PROVE client'[e].at # client'[d].at
        <4>1. CASE e = c
          <5>1. client[d].at # Work!Null
            BY <1>2, <3>2, WorkNullIsNone DEF WorkCutUp, WorkGood
          <5> QED BY <1>8, <3>5, <4>1, <5>1
        <4>2. CASE e # c
          <5>1. client'[e].at = client[e].at
            BY <1>7, <4>2
          <5> QED BY <3>2, <3>5, <5>1
        <4> QED BY <4>1, <4>2
      <3> QED BY <3>2, <3>4, <3>5, <3>6
    <2> QED BY <2>2, <2>3, <2>4 DEF WorkClientRight
  <1> QED BY <1>5, <1>9, <1>10, <1>11 DEF WorkInv

\* Every step keeps the invariant.
LEMMA WorkStepKeeps == ASSUME WorkConstants, WorkInv, [Work!Next]_(Work!vars) PROVE WorkInv'
  <1>1. CASE UNCHANGED Work!vars
    <2>1. /\ seg' = seg /\ free_segment_list' = free_segment_list /\ client' = client
          /\ first_segment' = first_segment /\ total_size' = total_size
          /\ buffer_owner' = buffer_owner
      BY <1>1 DEF Work!vars
    <2>2. WorkOwnerRight' /\ WorkClientsTyped'
      BY <2>1 DEF WorkInv, WorkOwnerRight, WorkEmpty, WorkCutUp, WorkTaking, WorkClearing,
                  WorkIsPart, WorkClientsTyped
    <2>3. \A c \in WorkClients : WorkClientRight(c)'
      BY <2>1 DEF WorkInv, WorkClientRight
    <2> QED BY <2>2, <2>3 DEF WorkInv
  <1>2. CASE Work!Next
    BY <1>2, WorkRegisterKeeps, WorkTakePartKeeps, WorkClearPartKeeps, WorkUnregisterKeeps,
       WorkGetKeeps, WorkFreeKeeps DEF Work!Next
  <1> QED BY <1>1, <1>2

-----------------------------------------------------------------------------
(* The invariant says what the properties say.                             *)

\* Without a buffer the free list is empty.
LEMMA WorkEmptyList ==
    ASSUME WorkConstants, WorkEmpty
    PROVE  Work!FreeList = {} /\ Work!Live = {}
  <1>0. DOMAIN seg = {} /\ free_segment_list = Work!Null /\ WorkTotal \in Nat
    BY DEF WorkEmpty, WorkConstants
  <1>1. Work!Cardinality(DOMAIN seg) = Cardinality(DOMAIN seg)
    BY Zenon DEF Work!Cardinality, Cardinality
  <1>2. Cardinality(DOMAIN seg) = 0
    BY <1>0, FS_EmptySet
  <1>3. Work!FreeList = {Work!FreeAt[n] : n \in 0..0} \ {Work!Null}
    BY <1>1, <1>2, Zenon DEF Work!FreeList, Work!Live
  <1>4. PICK g : g = [n \in 0..WorkTotal |-> Work!Null]
    OBVIOUS
  <1>5. g = [n \in 0..WorkTotal |->
                IF n = 0 THEN free_segment_list
                ELSE IF g[n - 1] = Work!Null THEN Work!Null ELSE seg[g[n - 1]].free_next]
    <2>1. \A n \in 0..WorkTotal :
              g[n] = IF n = 0 THEN free_segment_list
                     ELSE IF g[n - 1] = Work!Null THEN Work!Null ELSE seg[g[n - 1]].free_next
      <3> SUFFICES ASSUME NEW n \in 0..WorkTotal
                   PROVE  g[n] = IF n = 0 THEN free_segment_list
                                 ELSE IF g[n - 1] = Work!Null THEN Work!Null
                                      ELSE seg[g[n - 1]].free_next
        OBVIOUS
      <3>1. n # 0 => n - 1 \in 0..WorkTotal
        BY <1>0
      <3> QED BY <1>0, <1>4, <3>1
    <2> QED BY <1>4, <2>1, Zenon
  <1>6. Work!FreeAt = [n \in 0..WorkTotal |->
                IF n = 0 THEN free_segment_list
                ELSE IF Work!FreeAt[n - 1] = Work!Null THEN Work!Null
                     ELSE seg[Work!FreeAt[n - 1]].free_next]
    BY <1>5, Zenon DEF Work!FreeAt
  <1>7. Work!FreeAt[0] = Work!Null
    <2>1. \A n \in 0..WorkTotal :
              Work!FreeAt[n] = IF n = 0 THEN free_segment_list
                ELSE IF Work!FreeAt[n - 1] = Work!Null THEN Work!Null
                     ELSE seg[Work!FreeAt[n - 1]].free_next
      BY <1>6, Zenon
    <2>2. 0 \in 0..WorkTotal
      BY <1>0
    <2> QED BY <1>0, <2>1, <2>2
  <1> QED BY <1>0, <1>3, <1>7 DEF Work!Live

\* The check of the source finds nothing.
LEMMA WorkCoherent ==
    ASSUME WorkConstants, WorkGood(seg, free_segment_list)
    PROVE  Work!CoherencyHolds
  <1>0. /\ WorkTyped(seg) /\ WorkCut(seg) /\ WorkNexts(seg) /\ WorkPrevs(seg)
        /\ WorkFreeLinks(seg, free_segment_list) /\ Work!Null \notin DOMAIN seg
        /\ WorkTotal \in Nat
    BY WorkNullIsNone DEF WorkGood, WorkConstants
  <1> SUFFICES ASSUME NEW c \in DOMAIN seg
               PROVE  /\ Work!LinkedBack(c, "prev", "next", FALSE)
                      /\ Work!LinkedBack(c, "next", "prev", TRUE)
                      /\ seg[c].prev = Work!Null => seg[c].free_prev = Work!Null
                      /\ seg[c].next = Work!Null => seg[c].free_next = Work!Null
                      /\ seg[c].free => /\ Work!LinkedBack(c, "free_prev", "free_next", FALSE)
                                        /\ Work!LinkedBack(c, "free_next", "free_prev", TRUE)
                                        /\ seg[c].free_prev = Work!Null => free_segment_list = c
                      /\ ~seg[c].free => seg[c].free_prev = Work!Null
                                         /\ seg[c].free_next = Work!Null
    BY DEF Work!CoherencyHolds, Work!coherency_check, Work!Live
  <1>1. /\ seg[c].next # Work!Null => /\ seg[c].next \in DOMAIN seg
                                      /\ seg[seg[c].next].prev = c /\ c < seg[c].next
        /\ seg[c].next = Work!Null => c + seg[c].size = WorkTotal
        /\ seg[c].prev # Work!Null => /\ seg[c].prev \in DOMAIN seg
                                      /\ seg[seg[c].prev].next = c /\ seg[c].prev < c
        /\ seg[c].prev = Work!Null => c = 0
        /\ c \in Nat /\ seg[c].next \in Int /\ seg[c].prev \in Int
    BY <1>0, WorkNeighbours
  <1>2. seg[c].next # Work!Null => seg[c].next > c
    BY <1>1
  <1>3. Work!LinkedBack(c, "prev", "next", FALSE) /\ Work!LinkedBack(c, "next", "prev", TRUE)
    BY <1>1, <1>2 DEF Work!LinkedBack, Work!Live
  <1>4. ASSUME ~seg[c].free
        PROVE  seg[c].free_prev = Work!Null /\ seg[c].free_next = Work!Null
    BY <1>0, <1>4 DEF WorkFreeLinks
  <1>5. ASSUME seg[c].free
        PROVE  /\ Work!LinkedBack(c, "free_prev", "free_next", FALSE)
               /\ Work!LinkedBack(c, "free_next", "free_prev", TRUE)
               /\ seg[c].free_prev = Work!Null => free_segment_list = c
               /\ seg[c].prev = Work!Null => seg[c].free_prev = Work!Null
               /\ seg[c].next = Work!Null => seg[c].free_next = Work!Null
    <2>1. PICK F : F = WorkFrees(seg)
      OBVIOUS
    <2>2. PICK fp : fp = seg[c].free_prev
      OBVIOUS
    <2>3. PICK fn : fn = seg[c].free_next
      OBVIOUS
    <2>4. /\ F \in SUBSET Nat /\ c \in F /\ \A x \in F : x \in DOMAIN seg /\ x < WorkTotal
          /\ \A x \in F : c < x => c + seg[c].size <= x
          /\ \A x \in F : WorkFirst(F, x, seg[x].free_next) /\ WorkLast(F, x, seg[x].free_prev)
          /\ \A x \in F : seg[x].free_next \in Int /\ seg[x].free_prev \in Int
          /\ WorkFirst(F, Work!Null, free_segment_list)
      <3>1. F \in SUBSET Nat /\ c \in F /\ \A x \in F : x \in DOMAIN seg /\ x < WorkTotal
        BY <1>0, <1>5, <2>1, WorkNeighbours DEF WorkFrees
      <3>2. \A x \in F : c < x => c + seg[c].size <= x
        BY <1>0, <3>1 DEF WorkCut
      <3>3. /\ \A x \in F : WorkFirst(F, x, seg[x].free_next) /\ WorkLast(F, x, seg[x].free_prev)
            /\ WorkFirst(F, Work!Null, free_segment_list)
        BY <1>0, <2>1 DEF WorkFreeLinks, WorkFrees
      <3>4. \A x \in F : seg[x].free_next \in Int /\ seg[x].free_prev \in Int
        BY <1>0, <3>1, WorkFields
      <3> QED BY <3>1, <3>2, <3>3, <3>4
    <2>5. WorkFirst(F, c, fn) /\ WorkLast(F, c, fp) /\ fn \in Int /\ fp \in Int
      BY <2>2, <2>3, <2>4
    <2>6. ASSUME fp # Work!Null
          PROVE  fp \in DOMAIN seg /\ seg[fp].free_next = c /\ fp < c
      <3>1. fp \in F /\ fp < c
        BY <2>5, <2>6 DEF WorkLast
      <3>2. WorkFirst(F, fp, seg[fp].free_next) /\ seg[fp].free_next \in Int
        BY <2>4, <3>1
      <3>3. PICK y \in Int : y = seg[fp].free_next
        BY <3>2
      <3>a. WorkFirst(F, fp, y)
        BY <3>2, <3>3
      <3>4. PICK x \in F : x = fp
        BY <3>1
      <3>5. y = c <=> x = fp
        <4>1. WorkFirst(F, x, y)
          BY <3>a, <3>4
        <4>2. WorkLast(F, c, fp) /\ fp \in Int /\ c \in F /\ F \in SUBSET Nat
          BY <2>4, <2>5
        <4> QED BY <4>1, <4>2, WorkDual
      <3> QED BY <2>4, <3>1, <3>3, <3>4, <3>5
    <2>7. ASSUME fn # Work!Null
          PROVE  fn \in DOMAIN seg /\ seg[fn].free_prev = c /\ fn > c
      <3>1. fn \in F /\ fn > c
        BY <1>1, <2>5, <2>7 DEF WorkFirst
      <3>2. WorkLast(F, fn, seg[fn].free_prev) /\ seg[fn].free_prev \in Int
        BY <2>4, <3>1
      <3>3. PICK z \in Int : z = seg[fn].free_prev
        BY <3>2
      <3>4. fn = fn <=> c = z
        BY <2>4, <2>5, <3>1, <3>2, <3>3, WorkDual
      <3> QED BY <2>4, <3>1, <3>3, <3>4
    <2>8. ASSUME fp = Work!Null PROVE free_segment_list = c
      <3>1. \A e \in F : c <= e
        BY <2>5, <2>8 DEF WorkLast
      <3>2. free_segment_list \in F /\ free_segment_list <= c
        BY <2>4 DEF WorkFirst, Work!Null
      <3> QED BY <2>4, <3>1, <3>2
    <2>9. ASSUME seg[c].prev = Work!Null PROVE fp = Work!Null
      BY <1>1, <2>4, <2>5, <2>9 DEF WorkLast
    <2>10. ASSUME seg[c].next = Work!Null PROVE fn = Work!Null
      <3>1. c + seg[c].size = WorkTotal
        BY <1>1, <2>10
      <3>2. SUFFICES ASSUME fn # Work!Null PROVE FALSE
        OBVIOUS
      <3>3. fn \in F /\ c < fn
        BY <2>5, <3>2 DEF WorkFirst
      <3>4. WorkTotal <= fn /\ fn < WorkTotal /\ fn \in Nat
        BY <2>4, <3>1, <3>3
      <3> QED BY <1>0, <3>4
    <2>11. Work!LinkedBack(c, "free_prev", "free_next", FALSE)
      BY <2>2, <2>6 DEF Work!LinkedBack, Work!Live
    <2>12. Work!LinkedBack(c, "free_next", "free_prev", TRUE)
      BY <2>3, <2>7 DEF Work!LinkedBack, Work!Live
    <2> QED BY <2>2, <2>3, <2>8, <2>9, <2>10, <2>11, <2>12
  <1> QED BY <1>3, <1>4, <1>5

\* The invariant implies the three properties.
LEMMA WorkInvIsSound ==
    ASSUME WorkConstants, WorkInv
    PROVE  Work!SegmentsPartition /\ Work!CoherencyHolds /\ Work!WaiterHasNoRoom
  <1>0. /\ WorkOwnerRight /\ WorkClientsTyped /\ \A c \in WorkClients : WorkClientRight(c)
        /\ buffer_owner.pc \in {"out", "take", "clear", "done"} /\ WorkRequests \subseteq Nat \ {0}
    BY DEF WorkInv, WorkOwnerRight, WorkConstants
  <1>1. ASSUME NEW c \in WorkClients, client[c].pc = "holds"
        PROVE  /\ client[c].at \in Work!Live /\ ~seg[client[c].at].free
               /\ seg[client[c].at].size >= client[c].size
               /\ \A d \in WorkClients \ {c} : client[d].at # client[c].at
    BY <1>0, <1>1 DEF WorkClientRight, Work!Live
  <1>2. CASE buffer_owner.pc = "out"
    <2>1. WorkEmpty
      BY <1>0, <1>2 DEF WorkOwnerRight
    <2>2. Work!FreeList = {} /\ Work!Live = {}
      BY <2>1, WorkEmptyList
    <2>3. Work!SegmentsPartition
      <3>1. Work!FreeList = {c \in Work!Live : seg[c].free} /\ first_segment = Work!Null
        BY <2>1, <2>2 DEF WorkEmpty
      <3> QED BY <1>1, <3>1 DEF Work!SegmentsPartition
    <2>4. Work!CoherencyHolds
      BY <2>2 DEF Work!CoherencyHolds, Work!coherency_check
    <2>5. Work!WaiterHasNoRoom
      BY <1>0, <1>2 DEF Work!WaiterHasNoRoom, WorkClientRight
    <2> QED BY <2>3, <2>4, <2>5
  <1>3. CASE buffer_owner.pc # "out"
    <2>0. /\ WorkCutUp /\ WorkGood(seg, free_segment_list) /\ WorkTyped(seg) /\ WorkCut(seg)
          /\ WorkNexts(seg) /\ WorkPrevs(seg) /\ total_size = WorkTotal /\ WorkNoTwins(seg)
      BY <1>0, <1>3 DEF WorkOwnerRight, WorkCutUp, WorkGood
    <2>1. ASSUME NEW c \in Work!Live
          PROVE  IF seg[c].next = Work!Null THEN c + seg[c].size = total_size
                 ELSE seg[c].next = c + seg[c].size /\ ~(seg[c].free /\ Work!IsFree(seg[c].next))
      <3>1. c \in DOMAIN seg
        BY DEF Work!Live
      <3>2. /\ seg[c].next # Work!Null => seg[c].next \in DOMAIN seg /\ seg[c].next = c + seg[c].size
            /\ seg[c].next = Work!Null => c + seg[c].size = WorkTotal
        BY <2>0, <3>1, WorkNeighbours
      <3>3. seg[c].free /\ seg[c].next # Work!Null => ~seg[seg[c].next].free
        BY <2>0, <3>1, <3>2 DEF WorkNoTwins, WorkFrees
      <3> QED BY <2>0, <3>2, <3>3 DEF Work!IsFree
    <2>2. Work!FreeList = {c \in Work!Live : seg[c].free}
      BY <2>0, WorkListIs DEF WorkFrees, Work!Live
    <2>3. Work!SegmentsPartition
      BY <1>1, <2>1, <2>2 DEF Work!SegmentsPartition
    <2>4. Work!CoherencyHolds
      BY <2>0, WorkCoherent
    <2>5. Work!WaiterHasNoRoom
      <3> SUFFICES ASSUME NEW c \in WorkClients, client[c].pc = "wait"
                   PROVE  Work!Fits(Work!Aligned(client[c].size)) = {}
        BY DEF Work!WaiterHasNoRoom
      <3>1. client[c].size \in Nat \ {0}
            /\ \A f \in WorkFrees(seg) : seg[f].size < Work!Aligned(client[c].size)
        BY <1>0 DEF WorkClientRight
      <3>2. PICK al \in Nat : al = Work!Aligned(client[c].size)
        BY <3>1, WorkAlignedIs
      <3>3. Work!Fits(al) = {}
        BY <2>0, <3>1, <3>2, WorkSearch
      <3> QED BY <3>2, <3>3
    <2> QED BY <2>3, <2>4, <2>5
  <1> QED BY <1>2, <1>3

-----------------------------------------------------------------------------
(* One component moves.                                                    *)

\* A step of the composition is a step of the heap or leaves its variables.
LEMMA HeapSteps ==
    ASSUME [StructuresNext]_structuresVars
    PROVE  [Heap!Next]_(Heap!vars)
  <1>1. CASE HeapNext
    BY <1>1 DEF HeapNext, Only, Heap!Next
  <1>2. CASE MapNext \/ WorkNext \/ QueueNext \/ StackNext \/ FrontNext
    <2>1. \E c \in {"map", "work", "queue", "stack", "front"} : Only(c)
      BY <1>2 DEF MapNext, WorkNext, QueueNext, StackNext, FrontNext
    <2>2. UNCHANGED heapVars
      BY <2>1 DEF Only
    <2> QED BY <2>2 DEF heapVars, Heap!vars
  <1>3. CASE UNCHANGED structuresVars
    BY <1>3 DEF structuresVars, heapVars, Heap!vars
  <1> QED BY <1>1, <1>2, <1>3 DEF StructuresNext

\* A step of the composition is a step of the map or leaves its variables.
LEMMA MapSteps ==
    ASSUME [StructuresNext]_structuresVars
    PROVE  [Map!Next]_(Map!vars)
  <1>1. CASE MapNext
    BY <1>1 DEF MapNext, Only, Map!Next
  <1>2. CASE HeapNext \/ WorkNext \/ QueueNext \/ StackNext \/ FrontNext
    <2>1. \E c \in {"heap", "work", "queue", "stack", "front"} : Only(c)
      BY <1>2 DEF HeapNext, WorkNext, QueueNext, StackNext, FrontNext
    <2>2. UNCHANGED mapVars
      BY <2>1 DEF Only
    <2> QED BY <2>2 DEF mapVars, Map!vars
  <1>3. CASE UNCHANGED structuresVars
    BY <1>3 DEF structuresVars, mapVars, Map!vars
  <1> QED BY <1>1, <1>2, <1>3 DEF StructuresNext

\* A step of the composition is a step of the work buffer or leaves its variables.
LEMMA WorkSteps ==
    ASSUME [StructuresNext]_structuresVars
    PROVE  [Work!Next]_(Work!vars)
  <1>1. CASE WorkNext
    BY <1>1 DEF WorkNext, Only, Work!Next
  <1>2. CASE HeapNext \/ MapNext \/ QueueNext \/ StackNext \/ FrontNext
    <2>1. \E c \in {"heap", "map", "queue", "stack", "front"} : Only(c)
      BY <1>2 DEF HeapNext, MapNext, QueueNext, StackNext, FrontNext
    <2>2. UNCHANGED workVars
      BY <2>1 DEF Only
    <2> QED BY <2>2 DEF workVars, Work!vars
  <1>3. CASE UNCHANGED structuresVars
    BY <1>3 DEF structuresVars, workVars, Work!vars
  <1> QED BY <1>1, <1>2, <1>3 DEF StructuresNext

\* A step of the composition is a step of the queue or leaves its variables.
LEMMA QueueSteps ==
    ASSUME [StructuresNext]_structuresVars
    PROVE  [Next]_vars
  <1>1. CASE QueueNext
    BY <1>1 DEF QueueNext, Only, Next, Push, Pop, Steal
  <1>2. CASE HeapNext \/ MapNext \/ WorkNext \/ StackNext \/ FrontNext
    <2>1. \E c \in {"heap", "map", "work", "stack", "front"} : Only(c)
      BY <1>2 DEF HeapNext, MapNext, WorkNext, StackNext, FrontNext
    <2>2. UNCHANGED queueVars
      BY <2>1 DEF Only
    <2> QED BY <2>2 DEF queueVars
  <1>3. CASE UNCHANGED structuresVars
    BY <1>3 DEF structuresVars, queueVars
  <1> QED BY <1>1, <1>2, <1>3 DEF StructuresNext

\* The inductive invariant of the heap: neighbours by address, and each link to
\* the first free chunk after (kaapi_memory_heap_alloc, _free).
THEOREM HeapInvHolds == StructuresSpec => []HeapInv
  <1>0. HeapConstants
    BY StructuresAssumption DEF HeapConstants
  <1>1. StructuresInit => HeapInv
    BY <1>0, HeapInitRight DEF StructuresInit
  <1>2. HeapInv /\ [StructuresNext]_structuresVars => HeapInv'
    BY <1>0, HeapStepKeeps, HeapSteps
  <1> QED BY <1>1, <1>2, PTL DEF StructuresSpec

\* After any calls the chunks cut the memory of the device, no chunk in use is
\* smaller than its request, the free list is exact and ordered by address, and
\* no two neighbours are free (kaapi_memory_heap_alloc, _free).
THEOREM HeapSoundHolds == StructuresSpec => []HeapSound
  <1>0. HeapConstants
    BY StructuresAssumption DEF HeapConstants
  <1>1. HeapInv => HeapSound
    BY <1>0, HeapInvIsSound DEF HeapSound
  <1> QED BY <1>1, HeapInvHolds, PTL

\* The map finds exactly the addresses inserted since it was cleared, although
\* its blocs are used again with old entries in them (kaapi_hashmap_insert,
\* kaapi_hashmap_clear).
THEOREM MapSoundHolds == StructuresSpec => []MapSound
  <1>0. MapConstants
    BY StructuresAssumption DEF MapConstants, Map!NoKey
  <1>1. StructuresInit => MapInv
    BY <1>0, MapInitRight DEF StructuresInit
  <1>2. MapInv /\ [StructuresNext]_structuresVars => MapInv'
    BY <1>0, MapStepKeeps, MapSteps
  <1>3. MapInv => MapSound
    BY <1>0, MapInvIsSound DEF MapSound
  <1> QED BY <1>1, <1>2, <1>3, PTL DEF StructuresSpec

\* The inductive invariant of the work buffer: the segments cut it, the free list is
\* in the order of addresses, and its owner takes and frees all its parts
\* (xkblas_register_work_buffer, xkblas_get_work_pos, xkblas_free_work_pos).
THEOREM WorkInvHolds == StructuresSpec => []WorkInv
  <1>0. WorkConstants
    BY StructuresAssumption DEF WorkConstants
  <1>1. StructuresInit => WorkInv
    BY WorkInitRight DEF StructuresInit
  <1>2. WorkInv /\ [StructuresNext]_structuresVars => WorkInv'
    BY <1>0, WorkStepKeeps, WorkSteps
  <1> QED BY <1>1, <1>2, PTL DEF StructuresSpec

\* After any calls of any clients the segments cut the buffer without two free
\* neighbours, no two clients hold the same segment, the source's coherency_check
\* finds nothing, and a client waits only while no free segment is large enough
\* (xkblas_get_work_pos, xkblas_free_work_pos).
THEOREM WorkSoundHolds == StructuresSpec => []WorkSound
  <1>0. WorkConstants
    BY StructuresAssumption DEF WorkConstants
  <1>1. WorkInv => WorkSound
    BY <1>0, WorkInvIsSound DEF WorkSound
  <1> QED BY <1>1, WorkInvHolds, PTL

\* The inductive invariant of a worker's queue, for any thieves, priorities,
\* first size and number of tasks, until a priority grows a second time
\* (kaapi_queue_push, kaapi_queue_pop, kaapi_queue_steal).
THEOREM TheQueueInvHolds == StructuresSpec => [](~regrown => QueueInv)
  <1>0. Constants
    BY StructuresAssumption DEF Constants
  <1>1. StructuresInit => (~regrown => QueueInv)
    BY <1>0, InitRight DEF StructuresInit
  <1>2. (~regrown => QueueInv) /\ [StructuresNext]_structuresVars => (~regrown => QueueInv)'
    BY <1>0, StepKeeps, QueueSteps, RegrownStays
  <1> QED BY <1>1, <1>2, PTL DEF StructuresSpec

\* Until a priority grows a second time, a task is taken at most once, by the owner
\* or by one thief, although the owner takes without a lock, and between two
\* calls each task pushed has been taken or waits between H and T
\* (kaapi_queue_pop, kaapi_queue_steal, kaapi_queue_realloc).
THEOREM QueueSoundHolds == StructuresSpec => []QueueSound
  <1>1. (~regrown => QueueInv) => QueueSound
    BY QueueInvIsSound DEF QueueSound
  <1> QED BY <1>1, TheQueueInvHolds, PTL
=============================================================================
