-------------------------- MODULE FifoQueueProofs --------------------------
(***************************************************************************)
(* QueueInv is an invariant of FifoQueue, and FifoQueue implements         *)
(* TaskLine, for every size of the array and any tasks and threads.        *)
(***************************************************************************)
EXTENDS DeviceWork, FiniteSetTheorems, TLAPS

\* The assumption of FifoParameters, in the names of the instance.
LEMMA QueueConstants ==
    /\ Queue!Threads = Clients \cup {Owner} /\ Owner \notin Clients
    /\ NoTask \notin Queue!Tasks /\ ClientTasks \cap OwnerTasks = {}
    /\ IsFiniteSet(Queue!Tasks)
    /\ Size \in Nat \ {0} /\ Stealing \in BOOLEAN
  BY QueueAssumption DEF Tasks, Queue!Tasks, Queue!Threads

\* Cardinality is the same operator in the queue.
LEMMA SameQueue == \A S : Queue!Cardinality(S) = Cardinality(S)
  BY Zenon DEF Queue!Cardinality, Cardinality

-----------------------------------------------------------------------------
(* The cells of a window.                                                  *)

\* A position has a cell, and before position 0 it is not in the array.
LEMMA SlotType ==
    /\ \A i \in Int : Queue!Slot(i) \in Queue!Cells
    /\ \A i \in Nat : Queue!Slot(i) \in 0..(Size - 1)
  <1>0. Size \in Nat \ {0}
    BY QueueConstants
  <1>1. \A i \in Nat : i % Size \in 0..(Size - 1)
    BY <1>0
  <1>2. \A i \in Nat : Queue!Slot(i) \in 0..(Size - 1)
    BY <1>1 DEF Queue!Slot
  <1>3. \A i \in Int : i < 0 => Queue!Slot(i) \in Queue!Cells
    <2> TAKE i \in Int
    <2> HAVE i < 0
    <2>1. -i \in Nat
      OBVIOUS
    <2>2. (-i) % Size \in 0..(Size - 1)
      BY <1>1, <2>1
    <2> QED BY <1>0, <2>2 DEF Queue!Slot, Queue!Cells
  <1>4. \A i \in Nat : Queue!Slot(i) \in Queue!Cells
    BY <1>0, <1>2 DEF Queue!Cells
  <1> QED BY <1>2, <1>3, <1>4

\* Two multiples of a positive number that are not equal are at least that
\* number apart.
LEMMA MultiplesApart ==
    ASSUME NEW P \in Nat \ {0}, NEW d \in Int, NEW e \in Int,
           P * d - P * e < P, P * d - P * e > 0
    PROVE  FALSE
  <1>1. P * (d - e) < P /\ P * (d - e) > 0
    OBVIOUS
  <1>2. CASE d - e <= 0
    <2>1. P * (d - e) <= 0
      BY <1>2
    <2> QED BY <1>1, <2>1
  <1>3. CASE d - e >= 1
    <2>1. P * (d - e) >= P
      BY <1>3
    <2> QED BY <1>1, <2>1
  <1> QED BY <1>2, <1>3

\* A position is its cell plus a multiple of the size of the array.
LEMMA SlotMultiple ==
    ASSUME NEW i \in Int
    PROVE  \E e \in Int : i = Size * e + Queue!Slot(i)
  <1>0. Size \in Nat \ {0}
    BY QueueConstants
  <1>1. \A k \in Nat : k = Size * (k \div Size) + (k % Size) /\ (k \div Size) \in Int /\ (k % Size) \in Int
    BY <1>0
  <1>2. CASE i >= 0
    BY <1>1, <1>2 DEF Queue!Slot
  <1>3. CASE i < 0
    <2> DEFINE e == (-i) \div Size
               r == (-i) % Size
    <2>1. -i = Size * e + r /\ e \in Int /\ r \in Int
      BY <1>1, <1>3
    <2>2. Queue!Slot(i) = -r
      BY <1>3 DEF Queue!Slot
    <2> HIDE DEF e, r
    <2>3. i = Size * (-e) + Queue!Slot(i) /\ -e \in Int
      BY <1>0, <2>1, <2>2
    <2> QED BY <2>3
  <1> QED BY <1>2, <1>3

\* Two positions less than Size apart have different cells.
LEMMA SlotsDiffer ==
    ASSUME NEW i \in Int, NEW j \in Int, i < j, j - i < Size
    PROVE  Queue!Slot(i) # Queue!Slot(j)
  <1> SUFFICES ASSUME Queue!Slot(i) = Queue!Slot(j) PROVE FALSE
    OBVIOUS
  <1>0. Size \in Nat \ {0} /\ Queue!Slot(i) \in Int
    BY QueueConstants, SlotType DEF Queue!Cells
  <1>1. PICK e \in Int : i = Size * e + Queue!Slot(i)
    BY SlotMultiple
  <1>2. PICK d \in Int : j = Size * d + Queue!Slot(i)
    BY SlotMultiple
  <1>3. Size * d - Size * e < Size /\ Size * d - Size * e > 0
    BY <1>0, <1>1, <1>2
  <1> QED BY <1>0, <1>3, MultiplesApart

-----------------------------------------------------------------------------
(* What a write into the window does to the line of tasks.                 *)

\* A write at one position leaves the other positions of a window alone.
LEMMA WriteEntry ==
    ASSUME Queue!TypeOK, NEW k \in Int, NEW v \in Queue!Tasks \cup {NoTask},
           data' = [data EXCEPT ![Queue!Slot(k)] = v]
    PROVE  /\ data' \in [Queue!Cells -> Queue!Tasks \cup {NoTask}]
           /\ Queue!Entry(k)' = v
           /\ \A i \in Int : i # k /\ i - k < Size /\ k - i < Size => Queue!Entry(i)' = Queue!Entry(i)
  <1>1. \A i \in Int : Queue!Slot(i) \in Queue!Cells
    BY SlotType
  <1>2. data \in [Queue!Cells -> Queue!Tasks \cup {NoTask}]
    BY DEF Queue!TypeOK
  <1>3. Queue!Entry(k)' = v
    BY <1>1, <1>2 DEF Queue!Entry
  <1>4. ASSUME NEW i \in Int, i # k, i - k < Size, k - i < Size
        PROVE  Queue!Entry(i)' = Queue!Entry(i)
    <2>1. Queue!Slot(i) # Queue!Slot(k)
      <3>1. CASE i < k
        BY <1>4, <3>1, SlotsDiffer
      <3>2. CASE k < i
        BY <1>4, <3>2, SlotsDiffer
      <3> QED BY <1>4, <3>1, <3>2
    <2> QED BY <1>1, <1>2, <2>1 DEF Queue!Entry
  <1> QED BY <1>1, <1>2, <1>3, <1>4

\* A pair is in Before when its tasks are at two positions in this order.
LEMMA BeforePairs ==
    ASSUME NEW u, NEW v
    PROVE  <<u, v>> \in Queue!Before <=>
              /\ u # NoTask /\ v # NoTask
              /\ \E i, j \in Queue!Window : i < j /\ u = Queue!Entry(i) /\ v = Queue!Entry(j)
  BY DEF Queue!Before, Queue!Queued

\* Two sets of pairs with the same pairs are equal.
LEMMA SamePairs ==
    ASSUME NEW A, NEW B, NEW S, A \subseteq S \X S, B \subseteq S \X S,
           \A u, v \in S : <<u, v>> \in A <=> <<u, v>> \in B
    PROVE  A = B
  OBVIOUS

\* A task written at the end of the window is behind all the others.
LEMMA AddLast ==
    ASSUME Queue!TypeOK, NEW t, t # NoTask, NEW k \in Int, k = T,
           T' = T + 1, H' = H, Queue!Entry(k)' = t,
           \A i \in Queue!Window : Queue!Entry(i)' = Queue!Entry(i)
    PROVE  /\ Queue!Queued' = Queue!Queued \cup {t}
           /\ Queue!Before' = Queue!Before \cup (Queue!Queued \X {t})
  <1>1. /\ Queue!Window' = Queue!Window \cup {k} /\ \A i \in Queue!Window : i \in Int /\ i < k
    BY QueueConstants DEF Queue!TypeOK, Queue!Window
  <1>2. Queue!Queued' = Queue!Queued \cup {t}
    BY <1>1 DEF Queue!Queued
  <1>3. ASSUME NEW u \in Queue!Queued', NEW v \in Queue!Queued'
        PROVE  <<u, v>> \in Queue!Before' <=> <<u, v>> \in Queue!Before \cup (Queue!Queued \X {t})
    <2>1. <<u, v>> \in Queue!Before' <=> 
              \E i, j \in Queue!Window \cup {k} : i < j /\ u = Queue!Entry(i)' /\ v = Queue!Entry(j)'
      BY <1>1, <1>3 DEF Queue!Before
    <2>2. <<u, v>> \in Queue!Before <=>
              /\ u # NoTask /\ v # NoTask
              /\ \E i, j \in Queue!Window : i < j /\ u = Queue!Entry(i) /\ v = Queue!Entry(j)
      BY BeforePairs
    <2>3. <<u, v>> \in Queue!Queued \X {t} <=> v = t /\ u # NoTask /\ \E i \in Queue!Window : u = Queue!Entry(i)
      BY DEF Queue!Queued
    <2>4. u # NoTask /\ v # NoTask
      BY <1>3 DEF Queue!Queued
    <2> QED BY <1>1, <2>1, <2>2, <2>3, <2>4
  <1>4. Queue!Before' \subseteq Queue!Queued' \X Queue!Queued' /\ Queue!Before \cup (Queue!Queued \X {t}) \subseteq Queue!Queued' \X Queue!Queued'
    BY <1>2 DEF Queue!Before
  <1> QED BY <1>2, <1>3, <1>4, SamePairs

\* A task written in front of the window is before all the others.
LEMMA AddFirst ==
    ASSUME Queue!TypeOK, NEW t, t # NoTask, NEW k \in Int, k = H - 1,
           T' = T, H' = H - 1, Queue!Entry(k)' = t,
           \A i \in Queue!Window : Queue!Entry(i)' = Queue!Entry(i)
    PROVE  /\ Queue!Queued' = Queue!Queued \cup {t}
           /\ Queue!Before' = Queue!Before \cup ({t} \X Queue!Queued)
  <1>1. /\ Queue!Window' = Queue!Window \cup {k} /\ \A i \in Queue!Window : i \in Int /\ k < i
    BY QueueConstants DEF Queue!TypeOK, Queue!Window
  <1>2. Queue!Queued' = Queue!Queued \cup {t}
    BY <1>1 DEF Queue!Queued
  <1>3. ASSUME NEW u \in Queue!Queued', NEW v \in Queue!Queued'
        PROVE  <<u, v>> \in Queue!Before' <=> <<u, v>> \in Queue!Before \cup ({t} \X Queue!Queued)
    <2>1. <<u, v>> \in Queue!Before' <=>
              \E i, j \in Queue!Window \cup {k} : i < j /\ u = Queue!Entry(i)' /\ v = Queue!Entry(j)'
      BY <1>1, <1>3 DEF Queue!Before
    <2>2. <<u, v>> \in Queue!Before <=>
              /\ u # NoTask /\ v # NoTask
              /\ \E i, j \in Queue!Window : i < j /\ u = Queue!Entry(i) /\ v = Queue!Entry(j)
      BY BeforePairs
    <2>3. <<u, v>> \in {t} \X Queue!Queued <=> u = t /\ v # NoTask /\ \E j \in Queue!Window : v = Queue!Entry(j)
      BY DEF Queue!Queued
    <2>4. u # NoTask /\ v # NoTask
      BY <1>3 DEF Queue!Queued
    <2> QED BY <1>1, <2>1, <2>2, <2>3, <2>4
  <1>4. /\ Queue!Before' \subseteq Queue!Queued' \X Queue!Queued'
        /\ Queue!Before \cup ({t} \X Queue!Queued) \subseteq Queue!Queued' \X Queue!Queued'
    BY <1>2 DEF Queue!Before
  <1> QED BY <1>2, <1>3, <1>4, SamePairs

\* The entry at k is cleared: its task leaves, the others keep their order,
\* whether or not the window shrinks by k.
LEMMA RemoveTask ==
    ASSUME Queue!OnePlace, NEW k \in Queue!Window, Queue!Entry(k)' = NoTask,
           Queue!Window' \subseteq Queue!Window, Queue!Window \ {k} \subseteq Queue!Window',
           \A i \in Queue!Window \ {k} : Queue!Entry(i)' = Queue!Entry(i)
    PROVE  /\ Queue!Queued' = Queue!Queued \ {Queue!Entry(k)}
           /\ Queue!Before' = {q \in Queue!Before : q[1] # Queue!Entry(k) /\ q[2] # Queue!Entry(k)}
  <1>1. \A i \in Queue!Window : i # k /\ Queue!Entry(i) = Queue!Entry(k) => Queue!Entry(i) = NoTask
    BY DEF Queue!OnePlace
  <1>2. Queue!Queued' = Queue!Queued \ {Queue!Entry(k)}
    BY <1>1 DEF Queue!Queued
  <1> DEFINE Kept == {q \in Queue!Before : q[1] # Queue!Entry(k) /\ q[2] # Queue!Entry(k)}
  <1>3. ASSUME NEW u \in Queue!Queued, NEW v \in Queue!Queued
        PROVE  <<u, v>> \in Queue!Before' <=> <<u, v>> \in Kept
    <2>0. u # NoTask /\ v # NoTask
      BY <1>3 DEF Queue!Queued
    <2>1. <<u, v>> \in Queue!Before' <=>
              /\ u \in Queue!Queued' /\ v \in Queue!Queued'
              /\ \E i, j \in Queue!Window' : i < j /\ u = Queue!Entry(i)' /\ v = Queue!Entry(j)'
      BY DEF Queue!Before
    <2>2. <<u, v>> \in Queue!Before <=>
              \E i, j \in Queue!Window : i < j /\ u = Queue!Entry(i) /\ v = Queue!Entry(j)
      BY <2>0, BeforePairs
    <2>3. <<u, v>> \in Kept <=> <<u, v>> \in Queue!Before /\ u # Queue!Entry(k) /\ v # Queue!Entry(k)
      OBVIOUS
    <2>4. CASE u = Queue!Entry(k) \/ v = Queue!Entry(k)
      BY <1>2, <2>1, <2>3, <2>4
    <2>5. CASE u # Queue!Entry(k) /\ v # Queue!Entry(k)
      BY <1>2, <2>0, <2>1, <2>2, <2>3, <2>5
    <2> QED BY <2>4, <2>5
  <1>4. Queue!Before' \subseteq Queue!Queued \X Queue!Queued /\ Kept \subseteq Queue!Queued \X Queue!Queued
    <2>1. Queue!Before' \subseteq Queue!Queued' \X Queue!Queued' /\ Queue!Before \subseteq Queue!Queued \X Queue!Queued
      BY DEF Queue!Before
    <2> QED BY <1>2, <2>1
  <1> QED BY <1>2, <1>3, <1>4, SamePairs

-----------------------------------------------------------------------------
(* The effect of the operations on the line of tasks.                      *)

\* What TypeOK says of the positions.
LEMMA TypeFacts ==
    ASSUME Queue!TypeOK
    PROVE  /\ H \in Int /\ T \in Int /\ H <= T /\ T - H <= Size
           /\ Size \in Nat \ {0}
           /\ \A i : i \in Queue!Window <=> i \in Int /\ H <= i /\ i < T
           /\ Owner \in Queue!Threads /\ Clients \subseteq Queue!Threads
           /\ NoTask \notin Queue!Tasks
           /\ \A i \in Int : Queue!Entry(i) \in Queue!Tasks \cup {NoTask}
  <1>1. \A i \in Int : Queue!Entry(i) \in Queue!Tasks \cup {NoTask}
    BY SlotType DEF Queue!Entry, Queue!TypeOK
  <1> QED BY <1>1, QueueConstants DEF Queue!TypeOK, Queue!Window, Queue!Threads

\* The tasks in the queue are finitely many.
LEMMA QueuedFinite ==
    ASSUME Queue!TypeOK
    PROVE  Queue!Queued \subseteq Queue!Tasks /\ IsFiniteSet(Queue!Queued)
  <1>1. Queue!Queued \subseteq Queue!Tasks
    BY TypeFacts DEF Queue!Queued
  <1> QED BY <1>1, FS_Subset, QueueConstants

\* The type of the end of a window from its size.
LEMMA EndType ==
    ASSUME NEW a \in Int, NEW b \in Int, NEW s \in Int, a <= b, b - a <= s
    PROVE  b \in a..(a + s)
  OBVIOUS

\* Entries of the window that hold a task differ.
Distinct == \A i, j \in Queue!Window : Queue!Entry(i) = Queue!Entry(j) /\ Queue!Entry(i) # NoTask => i = j

\* A push puts the task of the client behind all queued tasks.
LEMMA PushEffect ==
    ASSUME Queue!QueueInv, NEW p \in Clients, Queue!Push(p)
    PROVE  /\ arg[p] \in ClientTasks /\ arg[p] \in Queue!Held
           /\ Queue!Queued' = Queue!Queued \cup {arg[p]}
           /\ Queue!Before' = Queue!Before \cup (Queue!Queued \X {arg[p]})
           /\ Distinct' /\ data' \in [Queue!Cells -> Queue!Tasks \cup {NoTask}]
  <1>0. /\ Queue!TypeOK /\ p \in Queue!Threads /\ at[p] = "trying" /\ T - H < Size
        /\ data' = [data EXCEPT ![Queue!Slot(T)] = arg[p]] /\ T' = T + 1 /\ H' = H
    BY TypeFacts DEF Queue!QueueInv, Queue!Push, Queue!Write, Queue!Full
  <1>1. arg[p] \in ClientTasks /\ arg[p] # NoTask /\ arg[p] \in Queue!Tasks
    BY <1>0 DEF Queue!QueueInv, Queue!PushersHold, Queue!Tasks
  <1>2. arg[p] \in Queue!Held /\ arg[p] \notin Queue!Queued
    BY <1>0, <1>1 DEF Queue!Held, Queue!QueueInv, Queue!OnePlace
  <1>3. PICK k \in Int : k = T
    BY <1>0, TypeFacts
  <1>4. data' = [data EXCEPT ![Queue!Slot(k)] = arg[p]]
    BY <1>0, <1>3
  <1>5. /\ data' \in [Queue!Cells -> Queue!Tasks \cup {NoTask}] /\ Queue!Entry(k)' = arg[p]
        /\ \A i \in Int : i # k /\ i - k < Size /\ k - i < Size => Queue!Entry(i)' = Queue!Entry(i)
    BY <1>0, <1>1, <1>4, WriteEntry
  <1>6. \A i \in Queue!Window : Queue!Entry(i)' = Queue!Entry(i)
    BY <1>0, <1>3, <1>5, TypeFacts
  <1>7. Queue!Queued' = Queue!Queued \cup {arg[p]} /\ Queue!Before' = Queue!Before \cup (Queue!Queued \X {arg[p]})
    BY <1>0, <1>1, <1>3, <1>5, <1>6, AddLast
  <1>8. Distinct'
    <2>1. Queue!Window' = Queue!Window \cup {k}
      BY <1>0, <1>3, TypeFacts DEF Queue!Window
    <2>2. \A i \in Queue!Window : Queue!Entry(i) # arg[p]
      BY <1>1, <1>2 DEF Queue!Queued
    <2>3. Distinct
      BY DEF Queue!QueueInv, Queue!OnePlace, Distinct
    <2> QED BY <1>5, <1>6, <2>1, <2>2, <2>3 DEF Distinct
  <1> QED BY <1>1, <1>2, <1>5, <1>7, <1>8

\* The owner puts its task before all queued tasks.
LEMMA OwnerPushEffect ==
    ASSUME Queue!QueueInv, Queue!OwnerPush
    PROVE  /\ arg[Owner] \in OwnerTasks /\ arg[Owner] \in Queue!Held
           /\ Queue!Queued' = Queue!Queued \cup {arg[Owner]}
           /\ Queue!Before' = Queue!Before \cup ({arg[Owner]} \X Queue!Queued)
           /\ Distinct' /\ data' \in [Queue!Cells -> Queue!Tasks \cup {NoTask}]
  <1>0. /\ Queue!TypeOK /\ Owner \in Queue!Threads /\ at[Owner] = "trying" /\ T - H < Size
        /\ data' = [data EXCEPT ![Queue!Slot(H - 1)] = arg[Owner]] /\ T' = T /\ H' = H - 1
    BY TypeFacts DEF Queue!QueueInv, Queue!OwnerPush, Queue!Write, Queue!Full
  <1>1. arg[Owner] \in OwnerTasks /\ arg[Owner] # NoTask /\ arg[Owner] \in Queue!Tasks
    BY <1>0 DEF Queue!QueueInv, Queue!PushersHold, Queue!Tasks
  <1>2. arg[Owner] \in Queue!Held /\ arg[Owner] \notin Queue!Queued
    BY <1>0, <1>1 DEF Queue!Held, Queue!QueueInv, Queue!OnePlace
  <1>3. PICK k \in Int : k = H - 1
    BY <1>0, TypeFacts
  <1>4. data' = [data EXCEPT ![Queue!Slot(k)] = arg[Owner]]
    BY <1>0, <1>3
  <1>5. /\ data' \in [Queue!Cells -> Queue!Tasks \cup {NoTask}] /\ Queue!Entry(k)' = arg[Owner]
        /\ \A i \in Int : i # k /\ i - k < Size /\ k - i < Size => Queue!Entry(i)' = Queue!Entry(i)
    BY <1>0, <1>1, <1>4, WriteEntry
  <1>6. \A i \in Queue!Window : Queue!Entry(i)' = Queue!Entry(i)
    BY <1>0, <1>3, <1>5, TypeFacts
  <1>7. Queue!Queued' = Queue!Queued \cup {arg[Owner]} /\ Queue!Before' = Queue!Before \cup ({arg[Owner]} \X Queue!Queued)
    BY <1>0, <1>1, <1>3, <1>5, <1>6, AddFirst
  <1>8. Distinct'
    <2>1. Queue!Window' = Queue!Window \cup {k}
      BY <1>0, <1>3, TypeFacts DEF Queue!Window
    <2>2. \A i \in Queue!Window : Queue!Entry(i) # arg[Owner]
      BY <1>1, <1>2 DEF Queue!Queued
    <2>3. Distinct
      BY DEF Queue!QueueInv, Queue!OnePlace, Distinct
    <2> QED BY <1>5, <1>6, <2>1, <2>2, <2>3 DEF Distinct
  <1> QED BY <1>1, <1>2, <1>5, <1>7, <1>8

\* Clearing an entry of the window takes its task out of the line.
LEMMA ClearEffect ==
    ASSUME Queue!QueueInv, NEW k \in Queue!Window, data' = [data EXCEPT ![Queue!Slot(k)] = NoTask],
           \/ H' = H + 1 /\ T' = T /\ k = H
           \/ H' = H /\ T' = T - 1 /\ k + 1 = T
           \/ H' = H /\ T' = T
    PROVE  /\ Queue!Queued' = Queue!Queued \ {Queue!Entry(k)}
           /\ Queue!Before' = {q \in Queue!Before : q[1] # Queue!Entry(k) /\ q[2] # Queue!Entry(k)}
           /\ Distinct' /\ data' \in [Queue!Cells -> Queue!Tasks \cup {NoTask}]
           /\ H' \in Int /\ T' \in Int /\ H' <= T' /\ T' - H' <= Size /\ H' >= H
  <1>0. Queue!TypeOK /\ Queue!OnePlace /\ k \in Int
    BY TypeFacts DEF Queue!QueueInv
  <1>1. /\ data' \in [Queue!Cells -> Queue!Tasks \cup {NoTask}] /\ Queue!Entry(k)' = NoTask
        /\ \A i \in Int : i # k /\ i - k < Size /\ k - i < Size => Queue!Entry(i)' = Queue!Entry(i)
    BY <1>0, WriteEntry
  <1>2. \A i \in Queue!Window \ {k} : Queue!Entry(i)' = Queue!Entry(i)
    BY <1>0, <1>1, TypeFacts
  <1>3. Queue!Window' \subseteq Queue!Window /\ Queue!Window \ {k} \subseteq Queue!Window'
    BY <1>0, TypeFacts DEF Queue!Window
  <1>4. /\ Queue!Queued' = Queue!Queued \ {Queue!Entry(k)}
        /\ Queue!Before' = {q \in Queue!Before : q[1] # Queue!Entry(k) /\ q[2] # Queue!Entry(k)}
    BY <1>0, <1>1, <1>2, <1>3, RemoveTask
  <1>5. Distinct'
    BY <1>0, <1>1, <1>2, <1>3 DEF Distinct, Queue!OnePlace
  <1>6. H' \in Int /\ T' \in Int /\ H' <= T' /\ T' - H' <= Size /\ H' >= H
    BY <1>0, TypeFacts
  <1> QED BY <1>1, <1>4, <1>5, <1>6

-----------------------------------------------------------------------------
(* Queue!QueueInv holds initially and is preserved by every action.              *)

\* The empty queue satisfies QueueInv.
LEMMA InitInv == Queue!Init => Queue!QueueInv
  <1> SUFFICES ASSUME Queue!Init PROVE Queue!QueueInv
    OBVIOUS
  <1>0. Size \in Nat \ {0} /\ Size \div 2 \in Nat
    BY QueueConstants
  <1>1. Queue!Window = {} /\ Queue!Queued = {} /\ Queue!Held = {}
    BY <1>0 DEF Queue!Init, Queue!Window, Queue!Queued, Queue!Held
  <1>2. Queue!TypeOK
    <2>1. H \in Int /\ T \in H..(H + Size)
      BY <1>0 DEF Queue!Init
    <2>2. waiter_push \in BOOLEAN
      BY DEF Queue!Init
    <2>3. /\ data \in [Queue!Cells -> Queue!Tasks \cup {NoTask}] /\ push_count \in Nat /\ pop_count \in Nat
          /\ at \in [Queue!Threads -> {"idle", "trying", "waiting"}]
          /\ arg \in [Queue!Threads -> Queue!Tasks \cup {NoTask}]
          /\ todo \subseteq Queue!Tasks /\ popped \subseteq Queue!Tasks /\ stolen \subseteq Queue!Tasks
      BY DEF Queue!Init
    <2> QED BY <2>1, <2>2, <2>3 DEF Queue!TypeOK
  <1>3. Queue!OnePlace
    BY <1>1 DEF Queue!Init, Queue!OnePlace
  <1>4. Queue!PushersHold
    BY DEF Queue!Init, Queue!PushersHold, Queue!Threads
  <1>5. Queue!CountsQueued
    BY <1>1, FS_EmptySet, SameQueue DEF Queue!Init, Queue!CountsQueued
  <1> QED BY <1>2, <1>3, <1>4, <1>5 DEF Queue!QueueInv

\* The window is only a function of H, T and data.
LEMMA QueueUnchanged ==
    ASSUME UNCHANGED <<H, T, data>>
    PROVE  /\ Queue!Queued' = Queue!Queued /\ Queue!Before' = Queue!Before /\ Distinct' = Distinct
           /\ Queue!Window' = Queue!Window /\ \A i : Queue!Entry(i)' = Queue!Entry(i)
  BY DEF Queue!Queued, Queue!Before, Distinct, Queue!Window, Queue!Entry

\* A push begins: the task moves from todo to the thread.
LEMMA CallPushInv ==
    ASSUME Queue!QueueInv, NEW p \in Queue!Threads, NEW t \in Queue!Tasks, Queue!CallPush(p, t)
    PROVE  Queue!QueueInv'
  <1> USE DEF Queue!QueueInv
  <1>0. /\ UNCHANGED <<H, T, data, push_count, pop_count, waiter_push, popped, stolen>>
        /\ at' = [at EXCEPT ![p] = "trying"] /\ arg' = [arg EXCEPT ![p] = t]
        /\ todo' = todo \ {t} /\ t \in todo /\ at[p] = "idle"
    BY DEF Queue!CallPush
  <1>1. Queue!TypeOK'
    BY <1>0 DEF Queue!TypeOK
  <1>2. /\ \A q \in Queue!Threads : arg'[q] = IF q = p THEN t ELSE arg[q]
        /\ \A q \in Queue!Threads : at'[q] = IF q = p THEN "trying" ELSE at[q]
        /\ arg[p] = NoTask /\ t # NoTask
    BY <1>0, QueueConstants DEF Queue!TypeOK, Queue!PushersHold
  <1>3. Queue!Held' = Queue!Held \cup {t}
    BY <1>2 DEF Queue!Held
  <1>4. Queue!OnePlace'
    <2>1. Queue!Queued' = Queue!Queued /\ Distinct'
      BY <1>0, QueueUnchanged DEF Distinct, Queue!OnePlace
    <2>2. t \notin Queue!Queued \cup Queue!Held \cup popped \cup stolen
      BY <1>0 DEF Queue!OnePlace
    <2>3. \A q, r \in Queue!Threads : arg'[q] = arg'[r] /\ arg'[q] # NoTask => q = r
      BY <1>2, <2>2 DEF Queue!OnePlace, Queue!Held
    <2> QED BY <1>0, <1>3, <2>1, <2>2, <2>3 DEF Queue!OnePlace, Distinct
  <1>5. Queue!PushersHold'
    <2>1. t \in IF p = Owner THEN OwnerTasks ELSE ClientTasks
      BY DEF Queue!CallPush
    <2> QED BY <1>0, <1>2, <2>1, QueueConstants DEF Queue!PushersHold, Queue!Threads
  <1>6. Queue!CountsQueued'
    BY <1>0, QueueUnchanged DEF Queue!CountsQueued
  <1> QED BY <1>1, <1>4, <1>5, <1>6

\* A thread goes to wait, or comes back.
LEMMA WaitInv ==
    ASSUME Queue!QueueInv, NEW p \in Queue!Threads, Queue!WaitSpace(p) \/ Queue!WakeUp(p)
    PROVE  Queue!QueueInv'
  <1> USE DEF Queue!QueueInv
  <1>0. /\ UNCHANGED <<H, T, data, push_count, pop_count, arg, todo, popped, stolen>>
        /\ waiter_push' \in BOOLEAN
        /\ at[p] # "idle"
        /\ at' = [at EXCEPT ![p] = "waiting"] \/ at' = [at EXCEPT ![p] = "trying"]
    BY DEF Queue!WaitSpace, Queue!WakeUp, Queue!TypeOK
  <1>1. Queue!TypeOK'
    BY <1>0 DEF Queue!TypeOK
  <1>2. Queue!Queued' = Queue!Queued /\ Queue!Held' = Queue!Held /\ Queue!Window' = Queue!Window /\ \A i : Queue!Entry(i)' = Queue!Entry(i)
    BY <1>0, QueueUnchanged DEF Queue!Held
  <1>3. Queue!OnePlace'
    BY <1>0, <1>2 DEF Queue!OnePlace
  <1>4. Queue!PushersHold'
    <2>1. \A q \in Queue!Threads : at'[q] = "idle" <=> at[q] = "idle"
      BY <1>0 DEF Queue!TypeOK
    <2> QED BY <1>0, <2>1 DEF Queue!PushersHold, Queue!Threads
  <1>5. Queue!CountsQueued'
    BY <1>0, <1>2 DEF Queue!CountsQueued
  <1> QED BY <1>1, <1>3, <1>4, <1>5

\* The end of a push: the task moves from the thread to the queue.
LEMMA WriteInv ==
    ASSUME Queue!QueueInv, NEW p \in Queue!Threads, NEW c, Queue!Write(p, c),
           arg[p] \in Queue!Held, Queue!Queued' = Queue!Queued \cup {arg[p]}, Distinct',
           data' \in [Queue!Cells -> Queue!Tasks \cup {NoTask}],
           H' \in Int, T' \in Int, H' <= T', T' - H' <= Size,
           p # Owner => H' = H
    PROVE  Queue!QueueInv'
  <1> USE DEF Queue!QueueInv
  <1>0. /\ waiter_push' = FALSE /\ push_count' = push_count + 1
        /\ at' = [at EXCEPT ![p] = "idle"] /\ arg' = [arg EXCEPT ![p] = NoTask]
        /\ UNCHANGED <<pop_count, todo, popped, stolen>>
    BY DEF Queue!Write
  <1>1. Queue!TypeOK'
    <2>1. T' \in H'..(H' + Size)
      BY TypeFacts, EndType
    <2>2. waiter_push' \in BOOLEAN
      BY <1>0
    <2>3. /\ push_count' \in Nat /\ pop_count' \in Nat
          /\ at' \in [Queue!Threads -> {"idle", "trying", "waiting"}]
          /\ arg' \in [Queue!Threads -> Queue!Tasks \cup {NoTask}]
          /\ todo' \subseteq Queue!Tasks /\ popped' \subseteq Queue!Tasks /\ stolen' \subseteq Queue!Tasks
      BY <1>0 DEF Queue!TypeOK
    <2> QED BY <2>1, <2>2, <2>3 DEF Queue!TypeOK
  <1>2. /\ \A q \in Queue!Threads : arg'[q] = IF q = p THEN NoTask ELSE arg[q]
        /\ \A q \in Queue!Threads : at'[q] = IF q = p THEN "idle" ELSE at[q]
    BY <1>0 DEF Queue!TypeOK
  <1>3. Queue!Held' = Queue!Held \ {arg[p]}
    BY <1>2 DEF Queue!Held, Queue!OnePlace
  <1>4. Queue!OnePlace'
    <2>1. \A q, r \in Queue!Threads : arg'[q] = arg'[r] /\ arg'[q] # NoTask => q = r
      BY <1>2 DEF Queue!OnePlace
    <2> QED BY <1>0, <1>3, <2>1 DEF Queue!OnePlace, Distinct
  <1>5. Queue!PushersHold'
    BY <1>0, <1>2 DEF Queue!PushersHold, Queue!Threads
  <1>6. Queue!CountsQueued'
    <2>1. IsFiniteSet(Queue!Queued) /\ arg[p] \notin Queue!Queued
      BY QueuedFinite DEF Queue!OnePlace
    <2>2. Cardinality(Queue!Queued \cup {arg[p]}) = Cardinality(Queue!Queued) + 1 /\ Cardinality(Queue!Queued) \in Nat
      BY <2>1, FS_AddElement, FS_CardinalityType
    <2>3. push_count \in Nat /\ pop_count \in Nat
      BY DEF Queue!TypeOK
    <2>4. Cardinality(Queue!Queued') = Cardinality(Queue!Queued) + 1
      BY <2>2
    <2>5. push_count - pop_count = Cardinality(Queue!Queued)
      BY SameQueue DEF Queue!CountsQueued
    <2>6. push_count' - pop_count' = Cardinality(Queue!Queued')
      BY <1>0, <2>2, <2>3, <2>4, <2>5
    <2> QED BY <2>6, SameQueue DEF Queue!CountsQueued
  <1> QED BY <1>1, <1>4, <1>5, <1>6

\* kaapi_fifo_queue_push keeps QueueInv.
LEMMA PushInv ==
    ASSUME Queue!QueueInv, NEW p \in Clients, Queue!Push(p)
    PROVE  Queue!QueueInv'
  <1>1. Queue!TypeOK /\ p \in Queue!Threads /\ p # Owner
    BY TypeFacts, QueueConstants DEF Queue!QueueInv, Queue!TypeOK
  <1>2. /\ Queue!Write(p, Queue!Slot(T)) /\ T' = T + 1 /\ H' = H /\ T - H < Size
    BY <1>1, TypeFacts DEF Queue!Push, Queue!Write, Queue!Full
  <1>3. H' \in Int /\ T' \in Int /\ H' <= T' /\ T' - H' <= Size
    BY <1>1, <1>2, TypeFacts
  <1> QED BY <1>1, <1>2, <1>3, PushEffect, WriteInv

\* kaapi_fifo_queue_owner_push keeps QueueInv.
LEMMA OwnerPushInv ==
    ASSUME Queue!QueueInv, Queue!OwnerPush
    PROVE  Queue!QueueInv'
  <1>1. Queue!TypeOK /\ Owner \in Queue!Threads
    BY TypeFacts DEF Queue!QueueInv
  <1>2. /\ Queue!Write(Owner, Queue!Slot(H - 1)) /\ H' = H - 1 /\ T' = T /\ T - H < Size
        /\ at[Owner] = "trying"
    BY <1>1, TypeFacts DEF Queue!OwnerPush, Queue!Write, Queue!Full
  <1>3. H' \in Int /\ T' \in Int /\ H' <= T' /\ T' - H' <= Size
    BY <1>1, <1>2, TypeFacts
  <1> QED BY <1>1, <1>2, <1>3, OwnerPushEffect, WriteInv

\* pthread_cond_signal moves no thread out of its push.
LEMMA SignalKeeps ==
    ASSUME Queue!TypeOK, Queue!SignalPush
    PROVE  /\ at' \in [Queue!Threads -> {"idle", "trying", "waiting"}]
           /\ \A q \in Queue!Threads : at'[q] = "idle" <=> at[q] = "idle"
  BY DEF Queue!TypeOK, Queue!SignalPush

\* A pop or a steal: the task at k moves from the queue to popped or stolen.
LEMMA TakeInv ==
    ASSUME Queue!QueueInv, NEW k \in Queue!Window, data' = [data EXCEPT ![Queue!Slot(k)] = NoTask],
           \/ H' = H + 1 /\ T' = T /\ k = H
           \/ H' = H /\ T' = T - 1 /\ k + 1 = T
           \/ H' = H /\ T' = T,
           UNCHANGED <<push_count, waiter_push, arg, todo>>,
           at' \in [Queue!Threads -> {"idle", "trying", "waiting"}],
           \A q \in Queue!Threads : at'[q] = "idle" <=> at[q] = "idle",
           pop_count' = pop_count + Queue!CountTask(Queue!Entry(k)),
           \/ popped' = popped \cup ({Queue!Entry(k)} \ {NoTask}) /\ stolen' = stolen
           \/ stolen' = stolen \cup ({Queue!Entry(k)} \ {NoTask}) /\ popped' = popped
    PROVE  Queue!QueueInv'
  <1> USE DEF Queue!QueueInv
  <1>0. /\ Queue!Queued' = Queue!Queued \ {Queue!Entry(k)}
        /\ Distinct' /\ data' \in [Queue!Cells -> Queue!Tasks \cup {NoTask}]
        /\ H' \in Int /\ T' \in Int /\ H' <= T' /\ T' - H' <= Size /\ H' >= H
    BY ClearEffect
  <1>1. Queue!Entry(k) \in Queue!Tasks \cup {NoTask} /\ (Queue!Entry(k) # NoTask <=> Queue!Entry(k) \in Queue!Queued)
    BY TypeFacts DEF Queue!Queued
  <1>2. Queue!TypeOK'
    <2>0. Size \in Int /\ H \in Int
      BY TypeFacts DEF Queue!TypeOK
    <2>1a. T' \in H'..(H' + Size)
      BY <1>0, <2>0, EndType
    <2>1. H' \in Int /\ T' \in H'..(H' + Size)
      BY <1>0, <2>1a
    <2>2. pop_count' \in Nat
      BY DEF Queue!TypeOK, Queue!CountTask
    <2>3. /\ push_count' \in Nat /\ arg' \in [Queue!Threads -> Queue!Tasks \cup {NoTask}]
          /\ todo' \subseteq Queue!Tasks /\ popped' \subseteq Queue!Tasks /\ stolen' \subseteq Queue!Tasks
      BY <1>1 DEF Queue!TypeOK
    <2>4. waiter_push' \in BOOLEAN
      BY DEF Queue!TypeOK
    <2> QED BY <1>0, <2>1, <2>2, <2>3, <2>4 DEF Queue!TypeOK
  <1>3. Queue!OnePlace'
    <2>1. Queue!Held' = Queue!Held
      BY DEF Queue!Held
    <2>2. \A q, r \in Queue!Threads : arg'[q] = arg'[r] /\ arg'[q] # NoTask => q = r
      BY DEF Queue!OnePlace
    <2> QED BY <1>0, <1>1, <2>1, <2>2 DEF Queue!OnePlace, Distinct
  <1>4. Queue!PushersHold'
    BY <1>0, QueueConstants, TypeFacts DEF Queue!PushersHold
  <1>5. Queue!CountsQueued'
    <2>1. IsFiniteSet(Queue!Queued)
      BY QueuedFinite
    <2>2. /\ Cardinality(Queue!Queued \ {Queue!Entry(k)}) = Cardinality(Queue!Queued) - Queue!CountTask(Queue!Entry(k))
          /\ Cardinality(Queue!Queued) \in Nat
      BY <1>1, <2>1, FS_RemoveElement, FS_CardinalityType DEF Queue!CountTask
    <2>3. push_count \in Nat /\ pop_count \in Nat /\ Queue!CountTask(Queue!Entry(k)) \in Nat
      BY DEF Queue!TypeOK, Queue!CountTask
    <2>4. Cardinality(Queue!Queued') = Cardinality(Queue!Queued) - Queue!CountTask(Queue!Entry(k))
      BY <1>0, <2>2
    <2>5. push_count - pop_count = Cardinality(Queue!Queued)
      BY SameQueue DEF Queue!CountsQueued
    <2>6. push_count' - pop_count' = Cardinality(Queue!Queued')
      BY <2>2, <2>3, <2>4, <2>5
    <2> QED BY <2>6, SameQueue DEF Queue!CountsQueued
  <1> QED BY <1>2, <1>3, <1>4, <1>5

\* kaapi_fifo_queue_pop keeps QueueInv.
LEMMA PopInv ==
    ASSUME Queue!QueueInv, Queue!Pop
    PROVE  Queue!QueueInv'
  <1>1. Queue!TypeOK /\ H \in Queue!Window
    BY TypeFacts DEF Queue!QueueInv, Queue!Pop
  <1>2. PICK k \in Queue!Window : k = H
    BY <1>1
  <1>3. /\ data' = [data EXCEPT ![Queue!Slot(k)] = NoTask] /\ H' = H + 1 /\ T' = T
        /\ UNCHANGED <<push_count, waiter_push, arg, todo>> /\ stolen' = stolen
        /\ pop_count' = pop_count + Queue!CountTask(Queue!Entry(k))
        /\ popped' = popped \cup ({Queue!Entry(k)} \ {NoTask})
    BY <1>2 DEF Queue!Pop
  <1>4. /\ at' \in [Queue!Threads -> {"idle", "trying", "waiting"}]
        /\ \A q \in Queue!Threads : at'[q] = "idle" <=> at[q] = "idle"
    BY <1>1, SignalKeeps DEF Queue!Pop
  <1> QED BY <1>2, <1>3, <1>4, TakeInv

\* What a steal does, in the terms of TakeInv.
LEMMA StealFacts ==
    ASSUME Queue!QueueInv, Queue!StealWithAffinity
    PROVE  \E k \in Queue!Window :
             /\ Queue!Entry(k) # NoTask /\ data' = [data EXCEPT ![Queue!Slot(k)] = NoTask]
             /\ H' = H /\ (T' = T \/ (T' = T - 1 /\ k + 1 = T))
             /\ UNCHANGED <<push_count, waiter_push, arg, todo>> /\ popped' = popped
             /\ at' \in [Queue!Threads -> {"idle", "trying", "waiting"}]
             /\ \A q \in Queue!Threads : at'[q] = "idle" <=> at[q] = "idle"
             /\ pop_count' = pop_count + Queue!CountTask(Queue!Entry(k))
             /\ stolen' = stolen \cup {Queue!Entry(k)}
  <1>1. PICK k \in Queue!Window :
             /\ Queue!Entry(k) # NoTask /\ data' = [data EXCEPT ![Queue!Slot(k)] = NoTask]
             /\ H' = H /\ UNCHANGED <<push_count, waiter_push, arg, todo>> /\ popped' = popped
             /\ pop_count' = pop_count + 1
             /\ stolen' = stolen \cup {Queue!Entry(k)}
             /\ IF k + 1 = T THEN T' = T - 1 /\ Queue!SignalPush ELSE T' = T /\ at' = at
    BY DEF Queue!StealWithAffinity
  <1>2. pop_count' = pop_count + Queue!CountTask(Queue!Entry(k))
    BY <1>1 DEF Queue!CountTask
  <1>3. /\ at' \in [Queue!Threads -> {"idle", "trying", "waiting"}]
        /\ \A q \in Queue!Threads : at'[q] = "idle" <=> at[q] = "idle"
    BY <1>1, SignalKeeps DEF Queue!QueueInv, Queue!TypeOK
  <1> QED BY <1>1, <1>2, <1>3

\* kaapi_fifo_queue_steal_with_affinity keeps QueueInv.
LEMMA StealInv ==
    ASSUME Queue!QueueInv, Queue!StealWithAffinity
    PROVE  Queue!QueueInv'
  <1>1. PICK k \in Queue!Window :
             /\ Queue!Entry(k) # NoTask /\ data' = [data EXCEPT ![Queue!Slot(k)] = NoTask]
             /\ H' = H /\ (T' = T \/ (T' = T - 1 /\ k + 1 = T))
             /\ UNCHANGED <<push_count, waiter_push, arg, todo>> /\ popped' = popped
             /\ at' \in [Queue!Threads -> {"idle", "trying", "waiting"}]
             /\ \A q \in Queue!Threads : at'[q] = "idle" <=> at[q] = "idle"
             /\ pop_count' = pop_count + Queue!CountTask(Queue!Entry(k))
             /\ stolen' = stolen \cup {Queue!Entry(k)}
    BY StealFacts
  <1>2. stolen' = stolen \cup ({Queue!Entry(k)} \ {NoTask})
    BY <1>1
  <1> QED BY <1>1, <1>2, TakeInv

\* Every step keeps QueueInv.
LEMMA NextInv == Queue!QueueInv /\ [Queue!Next]_(Queue!vars) => Queue!QueueInv'
  <1> SUFFICES ASSUME Queue!QueueInv, [Queue!Next]_(Queue!vars) PROVE Queue!QueueInv'
    OBVIOUS
  <1>1. CASE \E p \in Queue!Threads, t \in Queue!Tasks : Queue!CallPush(p, t)
    BY <1>1, CallPushInv
  <1>2. CASE \E p \in Queue!Threads : Queue!WaitSpace(p) \/ Queue!WakeUp(p)
    BY <1>2, WaitInv
  <1>3. CASE \E p \in Clients : Queue!Push(p)
    BY <1>3, PushInv
  <1>4. CASE Queue!OwnerPush
    BY <1>4, OwnerPushInv
  <1>5. CASE Queue!Pop
    BY <1>5, PopInv
  <1>6. CASE Queue!StealWithAffinity
    BY <1>6, StealInv
  <1>7. CASE UNCHANGED Queue!vars
    <2>0. /\ UNCHANGED <<H, T, data>> /\ UNCHANGED <<push_count, pop_count, waiter_push>>
          /\ UNCHANGED <<at, arg, todo>> /\ UNCHANGED <<popped, stolen>>
      BY <1>7 DEF Queue!vars, Queue!threadVars
    <2>1. Queue!Queued' = Queue!Queued /\ Queue!Held' = Queue!Held /\ Queue!Window' = Queue!Window /\ \A i : Queue!Entry(i)' = Queue!Entry(i)
      BY <2>0, QueueUnchanged DEF Queue!Held
    <2>2. Queue!TypeOK'
      BY <2>0 DEF Queue!QueueInv, Queue!TypeOK
    <2>3. Queue!OnePlace'
      BY <2>0, <2>1 DEF Queue!QueueInv, Queue!OnePlace
    <2>4. Queue!PushersHold'
      BY <2>0 DEF Queue!QueueInv, Queue!PushersHold
    <2>5. Queue!CountsQueued'
      BY <2>0, <2>1 DEF Queue!QueueInv, Queue!CountsQueued
    <2> QED BY <2>2, <2>3, <2>4, <2>5 DEF Queue!QueueInv
  <1> QED BY <1>1, <1>2, <1>3, <1>4, <1>5, <1>6, <1>7 DEF Queue!Next

-----------------------------------------------------------------------------
(* Refinement, and the steps of the composition.                           *)

\* Every step of the queue is a step of the line of tasks or changes nothing.
LEMMA StepRefines == Queue!QueueInv /\ [Queue!Next]_(Queue!vars) => [Queue!Line!LNext]_(Queue!Line!lineVars)
  <1> SUFFICES ASSUME Queue!QueueInv, [Queue!Next]_(Queue!vars) PROVE [Queue!Line!LNext]_(Queue!Line!lineVars)
    OBVIOUS
  <1>1. CASE \E p \in Queue!Threads : (\E t \in Queue!Tasks : Queue!CallPush(p, t)) \/ Queue!WaitSpace(p) \/ Queue!WakeUp(p)
    <2>1. UNCHANGED <<H, T, data>> /\ UNCHANGED <<popped, stolen>>
      BY <1>1 DEF Queue!CallPush, Queue!WaitSpace, Queue!WakeUp
    <2> QED BY <2>1, QueueUnchanged DEF Queue!Line!lineVars
  <1>2. CASE \E p \in Clients : Queue!Push(p)
    <2>1. PICK p \in Clients : Queue!Push(p)
      BY <1>2
    <2>2. /\ arg[p] \in ClientTasks /\ arg[p] \in Queue!Held
          /\ Queue!Queued' = Queue!Queued \cup {arg[p]} /\ Queue!Before' = Queue!Before \cup (Queue!Queued \X {arg[p]})
      BY <2>1, PushEffect
    <2>3. UNCHANGED <<popped, stolen>>
      BY <2>1 DEF Queue!Push, Queue!Write
    <2>4. arg[p] \notin Queue!Queued \cup popped \cup stolen
      BY <2>2 DEF Queue!QueueInv, Queue!OnePlace
    <2>5. Queue!Line!Join(arg[p])
      BY <2>2, <2>3, <2>4 DEF Queue!Line!Join, Queue!Line!New
    <2> QED BY <2>2, <2>5 DEF Queue!Line!LNext
  <1>3. CASE Queue!OwnerPush
    <2>2. /\ arg[Owner] \in OwnerTasks /\ arg[Owner] \in Queue!Held
          /\ Queue!Queued' = Queue!Queued \cup {arg[Owner]} /\ Queue!Before' = Queue!Before \cup ({arg[Owner]} \X Queue!Queued)
      BY <1>3, OwnerPushEffect
    <2>3. UNCHANGED <<popped, stolen>>
      BY <1>3 DEF Queue!OwnerPush, Queue!Write
    <2>4. arg[Owner] \notin Queue!Queued \cup popped \cup stolen
      BY <2>2 DEF Queue!QueueInv, Queue!OnePlace
    <2>5. Queue!Line!LetIn(arg[Owner])
      BY <2>2, <2>3, <2>4 DEF Queue!Line!LetIn, Queue!Line!New
    <2> QED BY <2>2, <2>5 DEF Queue!Line!LNext
  <1>4. CASE Queue!Pop
    <2>1. PICK k \in Queue!Window : k = H
      BY <1>4, TypeFacts DEF Queue!QueueInv, Queue!Pop
    <2>2. /\ data' = [data EXCEPT ![Queue!Slot(k)] = NoTask] /\ H' = H + 1 /\ T' = T
          /\ stolen' = stolen /\ popped' = popped \cup ({Queue!Entry(k)} \ {NoTask})
      BY <1>4, <2>1 DEF Queue!Pop
    <2>3. /\ Queue!Queued' = Queue!Queued \ {Queue!Entry(k)}
          /\ Queue!Before' = {q \in Queue!Before : q[1] # Queue!Entry(k) /\ q[2] # Queue!Entry(k)}
      BY <2>1, <2>2, ClearEffect
    <2>4. CASE Queue!Entry(k) = NoTask
      <3>1. Queue!Queued' = Queue!Queued /\ Queue!Before' = Queue!Before
        BY <2>3, <2>4 DEF Queue!Queued, Queue!Before
      <3>2. popped' = popped
        BY <2>2, <2>4
      <3> QED BY <2>2, <3>1, <3>2 DEF Queue!Line!lineVars
    <2>5. CASE Queue!Entry(k) # NoTask
      <3>1. Queue!Entry(k) \in Queue!Queued /\ Queue!Entry(k) \in ClientTasks \cup OwnerTasks
        BY <2>1, <2>5, QueuedFinite DEF Queue!Queued, Queue!QueueInv, Queue!Tasks
      <3>2. \A u \in Queue!Queued : <<u, Queue!Entry(k)>> \notin Queue!Before
        <4> SUFFICES ASSUME NEW u \in Queue!Queued, <<u, Queue!Entry(k)>> \in Queue!Before PROVE FALSE
          OBVIOUS
        <4>1. PICK i, j \in Queue!Window : i < j /\ u = Queue!Entry(i) /\ Queue!Entry(k) = Queue!Entry(j)
          BY BeforePairs
        <4>2. j = k
          BY <2>5, <4>1 DEF Queue!QueueInv, Queue!OnePlace
        <4> QED BY <2>1, <4>1, <4>2, TypeFacts DEF Queue!QueueInv
      <3>3. Queue!Line!TakeFirst(Queue!Entry(k))
        BY <2>2, <2>3, <2>5, <3>1, <3>2 DEF Queue!Line!TakeFirst, Queue!Line!Leave
      <3> QED BY <3>1, <3>3 DEF Queue!Line!LNext
    <2> QED BY <2>4, <2>5
  <1>5. CASE Queue!StealWithAffinity
    <2>1. PICK k \in Queue!Window :
             /\ Queue!Entry(k) # NoTask /\ data' = [data EXCEPT ![Queue!Slot(k)] = NoTask]
             /\ H' = H /\ (T' = T \/ (T' = T - 1 /\ k + 1 = T))
             /\ popped' = popped /\ stolen' = stolen \cup {Queue!Entry(k)}
      BY <1>5, StealFacts
    <2>2. /\ Queue!Queued' = Queue!Queued \ {Queue!Entry(k)}
          /\ Queue!Before' = {q \in Queue!Before : q[1] # Queue!Entry(k) /\ q[2] # Queue!Entry(k)}
      BY <2>1, ClearEffect
    <2>3. Queue!Entry(k) \in Queue!Queued /\ Queue!Entry(k) \in ClientTasks \cup OwnerTasks
      BY <2>1, QueuedFinite DEF Queue!Queued, Queue!QueueInv, Queue!Tasks
    <2>4. Queue!Line!TakeAny(Queue!Entry(k))
      BY <2>1, <2>2, <2>3 DEF Queue!Line!TakeAny, Queue!Line!Leave
    <2> QED BY <2>3, <2>4 DEF Queue!Line!LNext
  <1>6. CASE UNCHANGED Queue!vars
    <2>1. UNCHANGED <<H, T, data>> /\ UNCHANGED <<popped, stolen>>
      BY <1>6 DEF Queue!vars
    <2> QED BY <2>1, QueueUnchanged DEF Queue!Line!lineVars
  <1> QED BY <1>1, <1>2, <1>3, <1>4, <1>5, <1>6 DEF Queue!Next

\* A step of the composition is a step of the queue or leaves it alone.
LEMMA QueueSteps == [WorkNext]_workVars => [Queue!Next]_(Queue!vars)
  <1> SUFFICES ASSUME [WorkNext]_workVars PROVE [Queue!Next]_(Queue!vars)
    OBVIOUS
  <1>1. CASE QueueNext
    BY <1>1 DEF QueueNext, Queue!Next, Threads, Tasks, Queue!Threads, Queue!Tasks
  <1>2. ASSUME NEW p, p # "queue", Only(p) PROVE UNCHANGED Queue!vars
    BY <1>2 DEF Only, queueVars, Queue!vars, Queue!threadVars
  <1>3. CASE DsmNext
    BY <1>2, <1>3, Zenon DEF DsmNext
  <1>4. CASE TiledNext
    BY <1>2, <1>4, Zenon DEF TiledNext
  <1>5. CASE UNCHANGED workVars
    BY <1>5 DEF workVars, queueVars, Queue!vars, Queue!threadVars
  <1> QED BY <1>1, <1>3, <1>4, <1>5 DEF WorkNext

-----------------------------------------------------------------------------
(* Theorems.                                                               *)

\* The invariant holds whichever part moves.
LEMMA QueueKept == WorkSpec => []Queue!QueueInv
  <1>1. WorkInit => Queue!QueueInv
    BY InitInv DEF WorkInit
  <1>2. Queue!QueueInv /\ [WorkNext]_workVars => Queue!QueueInv'
    BY NextInv, QueueSteps
  <1> QED BY <1>1, <1>2, PTL DEF WorkSpec

\* The inductive invariant of the queue of a device (kaapi_fifo_queue_push,
\* _owner_push, _pop, _steal_with_affinity), for every size of the array.
THEOREM QueueInvHolds == WorkSpec => []QueueInv
  <1>1. Queue!QueueInv => QueueInv
    BY DEF QueueInv
  <1> QED BY <1>1, QueueKept, PTL

\* The positions, the cells and the threads of the queue keep their types
\* through pushes at both ends, pops, steals and waits.
THEOREM QueueTypeCorrect == WorkSpec => []Queue!TypeOK
  <1>1. Queue!QueueInv => Queue!TypeOK
    BY DEF Queue!QueueInv
  <1> QED BY <1>1, QueueKept, PTL

\* push_count - pop_count, which the device thread reads before it sleeps, is
\* the number of tasks in the queue.
THEOREM CountsQueuedHolds == WorkSpec => []Queue!CountsQueued
  <1>1. Queue!QueueInv => Queue!CountsQueued
    BY DEF Queue!QueueInv
  <1> QED BY <1>1, QueueKept, PTL

\* The queue of a device implements the line of tasks.
THEOREM ImplementsTaskLineHolds == WorkSpec => ImplementsTaskLine
  <1>1. WorkInit => Queue!Line!LInit
    <2> SUFFICES ASSUME Queue!Init PROVE Queue!Line!LInit
      BY DEF WorkInit
    <2>1. Queue!Window = {}
      BY QueueConstants DEF Queue!Init, Queue!Window
    <2>2. Queue!Queued = {} /\ Queue!Before = {}
      BY <2>1 DEF Queue!Queued, Queue!Before
    <2> QED BY <2>2 DEF Queue!Init, Queue!Line!LInit
  <1>2. Queue!QueueInv /\ [WorkNext]_workVars => [Queue!Line!LNext]_(Queue!Line!lineVars)
    BY StepRefines, QueueSteps
  <1> QED BY <1>1, <1>2, QueueKept, PTL
         DEF WorkSpec, ImplementsTaskLine, Queue!ImplementsTaskLine, Queue!Line!LSpec

\* With a single client and an owner that pushes nothing, no pop or steal can
\* miss the waiting pusher: it waits only while the array is full.
THEOREM NoIdleWaitHolds ==
    ASSUME NEW c, Clients = {c}, OwnerTasks = {}
    PROVE  WorkSpec => []Queue!NoIdleWait
  <1> DEFINE Seen == \A p \in Queue!Threads : at[p] = "waiting" => Queue!Full /\ waiter_push
  <1>1. WorkInit => Seen
    BY DEF WorkInit, Queue!Init
  <1>2. Queue!QueueInv /\ Seen /\ [WorkNext]_workVars => Seen'
    <2> SUFFICES ASSUME Queue!QueueInv, Seen, [Queue!Next]_(Queue!vars) PROVE Seen'
      BY QueueSteps
    <2>0. /\ at \in [Queue!Threads -> {"idle", "trying", "waiting"}]
          /\ Queue!Threads = {c, Owner} /\ at[Owner] = "idle" /\ c # Owner
      BY QueueConstants DEF Queue!QueueInv, Queue!TypeOK, Queue!PushersHold, Queue!Threads
    <2>1. ASSUME NEW p \in Queue!Threads, NEW t \in Queue!Tasks, Queue!CallPush(p, t) PROVE Seen'
      BY <2>0, <2>1 DEF Queue!CallPush, Queue!Full
    <2>2. ASSUME NEW p \in Queue!Threads, Queue!WaitSpace(p) \/ Queue!WakeUp(p) PROVE Seen'
      BY <2>0, <2>2 DEF Queue!WaitSpace, Queue!WakeUp, Queue!Full
    <2>3. ASSUME NEW p \in Clients, Queue!Push(p) PROVE Seen'
      <3>1. at' = [at EXCEPT ![c] = "idle"]
        BY <2>3 DEF Queue!Push, Queue!Write
      <3> QED BY <2>0, <3>1
    <2>4. CASE Queue!OwnerPush
      BY <2>0, <2>4 DEF Queue!OwnerPush, Queue!Write
    <2>5. ASSUME Queue!SignalPush PROVE \A p \in Queue!Threads : at'[p] # "waiting"
      BY <2>0, <2>5 DEF Queue!SignalPush
    <2>6. CASE Queue!Pop
      BY <2>5, <2>6 DEF Queue!Pop
    <2>7. CASE Queue!StealWithAffinity
      <3>1. \/ Queue!SignalPush
            \/ UNCHANGED <<H, T, at, waiter_push>>
        BY <2>7 DEF Queue!StealWithAffinity
      <3> QED BY <2>5, <3>1 DEF Queue!Full
    <2>8. CASE UNCHANGED Queue!vars
      BY <2>8 DEF Queue!vars, Queue!threadVars, Queue!Full
    <2> QED BY <2>1, <2>2, <2>3, <2>4, <2>6, <2>7, <2>8 DEF Queue!Next
  <1>3. Seen => Queue!NoIdleWait
    BY DEF Queue!NoIdleWait
  <1> QED BY <1>1, <1>2, <1>3, QueueKept, PTL DEF WorkSpec

=============================================================================
