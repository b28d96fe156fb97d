------------------------------ MODULE TheQueue ------------------------------
(***************************************************************************)
(* The work queue of a host thread (kaapi/kaapi_task.c, kaapi_queue_push,  *)
(* kaapi_queue_pop, kaapi_queue_steal) with KAAPI_THE_ORIGINAL: the owner  *)
(* works at the tail T without a lock, a thief at the head H under the     *)
(* lock of the owner's context, and the two meet by writing their index    *)
(* before they read the other's.  One action per access to memory that the *)
(* other side can see; the barriers of the code make them sequential.      *)
(***************************************************************************)
EXTENDS Integers, FiniteSets

CONSTANTS
    Thieves,
    Prios,     \* 0..KAAPI_TASK_MAX_PRIORITY
    Size0,     \* QUEUE_DEFAULT_SIZE
    MaxTasks   \* bound: tasks pushed

NoTask == 0
Tasks == 1..MaxTasks
Free == 0        \* the thieves are positive integers

VARIABLES
    T, H, size,
    data,      \* priority -> the current array
    data0,     \* priority -> the first array, while it is not the current one
    grown,     \* priority -> data differs from data0
    bitmap,    \* priorities whose bit is set
    lock,      \* the lock of the context
    owner,     \* [pc, p, t, copy]: locals of push and pop
    thief,     \* thief -> [pc, p, h, bits, n]: locals of steal
    taken,     \* history: task -> times it was taken to be executed
    pushed,    \* number of tasks pushed
    regrown    \* history: a priority that has grown has begun to grow again

vars == <<T, H, size, data, data0, grown, bitmap, lock, owner, thief, taken, pushed, regrown>>

NoArray == <<>>
IdleOwner == [pc |-> "idle", p |-> 0, t |-> 0, copy |-> NoArray]
IdleThief == [pc |-> "idle", p |-> 0, h |-> 0, bits |-> {}, n |-> 0]
Array(n) == [k \in 0..(n - 1) |-> NoTask]

\* kaapi_queue_init: priority 0 has an array, the others get one when needed.
Init ==
    /\ T = [p \in Prios |-> 0] /\ H = [p \in Prios |-> 0]
    /\ size = [p \in Prios |-> IF p = 0 THEN Size0 ELSE 0]
    /\ data = [p \in Prios |-> IF p = 0 THEN Array(Size0) ELSE NoArray]
    /\ data0 = [p \in Prios |-> NoArray]
    /\ grown = [p \in Prios |-> FALSE]
    /\ bitmap = {}
    /\ lock = Free
    /\ owner = IdleOwner
    /\ thief = [i \in Thieves |-> IdleThief]
    /\ taken = [t \in Tasks |-> 0]
    /\ pushed = 0
    /\ regrown = FALSE

\* The first bit that is set: the highest priority.
Highest(p, bits) == p \in bits /\ \A q \in bits : q <= p

Count(t) == taken' = [taken EXCEPT ![t] = @ + 1]

-----------------------------------------------------------------------------
(* kaapi_queue_push                                                        *)

\* data0[p] as memcpy reads it: the current array until the first growth.
First(p) == IF grown[p] THEN data0[p] ELSE data[p]

NewSize(p) == IF size[p] = 0 THEN Size0 ELSE 2 * size[p]

\* kaapi_queue_realloc: the first size[p] entries are copied from data0[p], which
\* no growth changes, so that a second growth of a priority reads its first
\* array and, beyond it, whatever the memory holds.
Copy(p, junk) ==
    [k \in 0..(NewSize(p) - 1) |->
        IF k >= size[p] THEN NoTask ELSE IF k \in DOMAIN First(p) THEN First(p)[k] ELSE junk]

\* The array is full: the copy is made before the lock is taken.
BeginPush ==
    /\ owner.pc = "idle" /\ pushed < MaxTasks
    /\ \E p \in Prios :
          IF T[p] < size[p]
          THEN /\ owner' = [IdleOwner EXCEPT !.pc = "write", !.p = p, !.t = T[p]]
               /\ UNCHANGED regrown
          ELSE /\ \E junk \in 0..MaxTasks :
                     owner' = [IdleOwner EXCEPT !.pc = "swap", !.p = p, !.t = T[p],
                                                !.copy = Copy(p, junk)]
               /\ regrown' = (regrown \/ grown[p])
    /\ UNCHANGED <<T, H, size, data, data0, grown, bitmap, lock, thief, taken, pushed>>

\* The new array is installed under the lock.
Swap ==
    /\ owner.pc = "swap" /\ lock = Free
    /\ data0' = [data0 EXCEPT ![owner.p] = First(owner.p)]
    /\ data' = [data EXCEPT ![owner.p] = owner.copy]
    /\ size' = [size EXCEPT ![owner.p] = Cardinality(DOMAIN owner.copy)]
    /\ grown' = [grown EXCEPT ![owner.p] = TRUE]
    /\ owner' = [owner EXCEPT !.pc = "write", !.copy = NoArray]
    /\ UNCHANGED <<T, H, bitmap, lock, thief, taken, pushed, regrown>>

WriteTask ==
    /\ owner.pc = "write"
    /\ data' = [data EXCEPT ![owner.p][owner.t] = pushed + 1]
    /\ bitmap' = bitmap \cup {owner.p}
    /\ pushed' = pushed + 1
    /\ owner' = [owner EXCEPT !.pc = "publish"]
    /\ UNCHANGED <<T, H, size, data0, grown, lock, thief, taken, regrown>>

Publish ==
    /\ owner.pc = "publish"
    /\ T' = [T EXCEPT ![owner.p] = owner.t + 1]
    /\ owner' = IdleOwner
    /\ UNCHANGED <<H, size, data, data0, grown, bitmap, lock, thief, taken, pushed, regrown>>

Push == BeginPush \/ Swap \/ WriteTask \/ Publish

-----------------------------------------------------------------------------
(* kaapi_queue_pop, with the limits of the outermost frame: 0.             *)

BeginPop ==
    /\ owner.pc = "idle"
    /\ \E p \in bitmap :
          /\ Highest(p, bitmap) /\ T[p] # 0
          /\ T' = [T EXCEPT ![p] = @ - 1]
          /\ owner' = [IdleOwner EXCEPT !.pc = "check", !.p = p, !.t = T[p] - 1]
    /\ UNCHANGED <<H, size, data, data0, grown, bitmap, lock, thief, taken, pushed, regrown>>

\* The owner leaves with the task, or goes to clear the bit when its entry is 0.
Take(t) ==
    IF t = NoTask
    THEN owner' = [owner EXCEPT !.pc = "empty"] /\ UNCHANGED taken
    ELSE Count(t) /\ owner' = IdleOwner

\* Defect: the owner takes the task a thief is about to take.
NoConflictLate == owner.t >= H[owner.p] - 1

\* T >= rd->H[p]
NoConflict == owner.t >= H[owner.p]

Check ==
    /\ owner.pc = "check"
    /\ IF NoConflict
       THEN Take(data[owner.p][owner.t])
       ELSE owner' = [owner EXCEPT !.pc = "rollback"] /\ UNCHANGED taken
    /\ UNCHANGED <<T, H, size, data, data0, grown, bitmap, lock, thief, pushed, regrown>>

RollBack ==
    /\ owner.pc = "rollback"
    /\ T' = [T EXCEPT ![owner.p] = owner.t + 1]
    /\ owner' = [owner EXCEPT !.pc = "lock"]
    /\ UNCHANGED <<H, size, data, data0, grown, bitmap, lock, thief, taken, pushed, regrown>>

\* The second try, under the lock: no thief is at work.
LockedPop ==
    /\ owner.pc = "lock" /\ lock = Free
    /\ LET p == owner.p
           t == T[p] - 1
       IN  IF t >= H[p]
           THEN /\ T' = [T EXCEPT ![p] = t]
                /\ Take(data[p][t])
           ELSE /\ owner' = [owner EXCEPT !.pc = "empty"]
                /\ UNCHANGED <<T, taken>>
    /\ UNCHANGED <<H, size, data, data0, grown, bitmap, lock, thief, pushed, regrown>>

\* The queue of this priority is empty: the search goes on with the next one.
ClearBit ==
    /\ owner.pc = "empty"
    /\ bitmap' = bitmap \ {owner.p}
    /\ owner' = IdleOwner
    /\ UNCHANGED <<T, H, size, data, data0, grown, lock, thief, taken, pushed, regrown>>

Pop == BeginPop \/ Check \/ RollBack \/ LockedPop \/ ClearBit

-----------------------------------------------------------------------------
(* KAAPI_REQUEST_OP_STEAL: kaapi_queue_steal under the lock of the victim. *)

BeginSteal(i) ==
    /\ thief[i].pc = "idle" /\ lock = Free /\ bitmap # {}
    /\ lock' = i
    /\ thief' = [thief EXCEPT ![i] = [IdleThief EXCEPT !.pc = "claim", !.bits = bitmap]]
    /\ UNCHANGED <<T, H, size, data, data0, grown, bitmap, owner, taken, pushed, regrown>>

Claim(i) ==
    /\ thief[i].pc = "claim"
    /\ \E p \in thief[i].bits :
          /\ Highest(p, thief[i].bits)
          /\ H' = [H EXCEPT ![p] = @ + 1]
          /\ thief' = [thief EXCEPT ![i].pc = "look", ![i].p = p, ![i].h = H[p]]
    /\ UNCHANGED <<T, size, data, data0, grown, bitmap, lock, owner, taken, pushed, regrown>>

\* Nothing is found at the priority: the search goes on with the next one.
NextBit(i) ==
    LET rest == thief[i].bits \ {thief[i].p}
    IN  IF rest = {}
        THEN thief' = [thief EXCEPT ![i] = IdleThief] /\ lock' = Free
        ELSE /\ thief' = [thief EXCEPT ![i] = [IdleThief EXCEPT !.pc = "claim", !.bits = rest]]
             /\ UNCHANGED lock

Look(i) ==
    /\ thief[i].pc = "look"
    /\ IF T[thief[i].p] <= thief[i].h + 1   \* conflict, empty or the only task
       THEN /\ thief' = [thief EXCEPT ![i].pc = "undo"]
            /\ UNCHANGED <<lock, taken>>
       ELSE LET t == data[thief[i].p][thief[i].h]
            IN  IF t = NoTask   \* the head stays where it is
                THEN NextBit(i) /\ UNCHANGED taken
                ELSE /\ Count(t)
                     /\ lock' = Free
                     /\ thief' = [thief EXCEPT ![i].pc = "execute", ![i].bits = {}]
    /\ UNCHANGED <<T, H, size, data, data0, grown, bitmap, owner, pushed, regrown>>

Undo(i) ==
    /\ thief[i].pc = "undo"
    /\ H' = [H EXCEPT ![thief[i].p] = thief[i].h]
    /\ NextBit(i)
    /\ UNCHANGED <<T, size, data, data0, grown, bitmap, owner, taken, pushed, regrown>>

\* kaapi_sched_idle: the thief has executed the task and clears its entry, which
\* is how the owner learns of it. It has no lock: the array can be replaced
\* between the load of its address and the store.
LoadArray(i) ==
    /\ thief[i].pc = "execute"
    /\ thief' = [thief EXCEPT ![i].pc = "mark", ![i].n = size[thief[i].p]]
    /\ UNCHANGED <<T, H, size, data, data0, grown, bitmap, lock, owner, taken, pushed, regrown>>

\* The store goes to the current array, to the first one, or to one that a
\* second growth has freed.
MarkExecuted(i) ==
    /\ thief[i].pc = "mark"
    /\ LET p == thief[i].p
           cleared(array) == [array EXCEPT ![p][thief[i].h] = NoTask]
       IN  IF thief[i].n = size[p]
           THEN data' = cleared(data) /\ UNCHANGED data0
           ELSE /\ data0' = IF thief[i].n = Cardinality(DOMAIN data0[p])
                            THEN cleared(data0) ELSE data0
                /\ UNCHANGED data
    /\ thief' = [thief EXCEPT ![i] = IdleThief]
    /\ UNCHANGED <<T, H, size, grown, bitmap, lock, owner, taken, pushed, regrown>>

Steal(i) ==
    BeginSteal(i) \/ Claim(i) \/ Look(i) \/ Undo(i) \/ LoadArray(i) \/ MarkExecuted(i)

Next == Push \/ Pop \/ \E i \in Thieves : Steal(i)

Spec == Init /\ [][Next]_vars

-----------------------------------------------------------------------------
(* Properties.                                                             *)

\* However the owner and the thieves interleave, a task is taken at most once,
\* by one of them.
TakenOnce == \A t \in Tasks : taken[t] <= 1

Waiting(t) == \E p \in Prios : \E k \in H[p]..(T[p] - 1) : data[p][k] = t

\* No task is lost: when the owner and the thieves are between two calls, each
\* task pushed has been taken or is in its queue between H and T, also after
\* an array has grown: kaapi_queue_realloc recopies the "old array", says its
\* comment.
NoTaskLost ==
    owner.pc = "idle" /\ lock = Free =>
        \A t \in 1..pushed : taken[t] = 1 \/ Waiting(t)

-----------------------------------------------------------------------------
(* The inductive invariant.                                                *)

\* The queue of p as it is after the step that would complete a pop or undo a
\* steal: the owner has lowered T and a thief has raised H before they look.
EndPlace(p) == IF owner.pc \in {"check", "rollback"} /\ owner.p = p THEN owner.t + 1 ELSE T[p]
FirstPlace(p) == IF lock # Free /\ thief[lock].pc \in {"look", "undo"} /\ thief[lock].p = p
                 THEN H[p] - 1 ELSE H[p]
Places(p) == FirstPlace(p)..(EndPlace(p) - 1)

TypeOK ==
    /\ T \in [Prios -> Nat] /\ H \in [Prios -> Nat] /\ size \in [Prios -> Nat]
    /\ DOMAIN data = Prios
    /\ \A p \in Prios : data[p] \in [0..(size[p] - 1) -> 0..MaxTasks]
    /\ bitmap \in SUBSET Prios
    /\ lock \in Thieves \cup {Free}
    /\ owner = [pc |-> owner.pc, p |-> owner.p, t |-> owner.t, copy |-> owner.copy]
    /\ owner.pc \in {"idle", "write", "swap", "publish", "check", "rollback", "lock", "empty"}
    /\ owner.p \in Prios /\ owner.t \in Nat
    /\ thief \in [Thieves -> [pc : {"idle", "claim", "look", "undo", "execute", "mark"},
                             p : Prios, h : Nat, bits : SUBSET Prios, n : Nat]]
    /\ taken \in [Tasks -> {0, 1}]
    /\ pushed \in 0..MaxTasks

\* The thief that searches holds the lock, and has moved the head by one.
ThiefHasLock ==
    \A i \in Thieves :
       /\ thief[i].pc \in {"claim", "look", "undo"} <=> lock = i
       /\ thief[i].pc \in {"look", "undo"} => H[thief[i].p] = thief[i].h + 1
       /\ thief[i].pc \in {"execute", "mark"} => /\ thief[i].h < FirstPlace(thief[i].p)
                                                  /\ thief[i].h < size[thief[i].p]

\* What the owner has done so far.
OwnerAtTail ==
    /\ owner.pc \in {"write", "swap", "publish", "check", "rollback"} => T[owner.p] = owner.t
    /\ owner.pc \in {"write", "publish"} => owner.t < size[owner.p]
    /\ owner.pc = "write" => pushed < MaxTasks
    /\ owner.pc = "lock" => T[owner.p] > 0
    /\ owner.pc = "empty" => FirstPlace(owner.p) >= EndPlace(owner.p)
    /\ owner.pc = "swap" =>
          /\ pushed < MaxTasks
          /\ owner.copy \in [0..(NewSize(owner.p) - 1) -> 0..MaxTasks]
          /\ NewSize(owner.p) > owner.t
          /\ \A k \in Places(owner.p) : owner.copy[k] = data[owner.p][k]
    /\ owner.pc = "publish" => /\ owner.p \in bitmap /\ pushed > 0
                              /\ data[owner.p][owner.t] = pushed /\ taken[pushed] = 0

\* A place of a queue is inside its array, and the bit of its priority is set.
PlacesInArray ==
    \A p \in Prios : /\ FirstPlace(p) <= EndPlace(p) /\ EndPlace(p) <= size[p]
                     /\ FirstPlace(p) < EndPlace(p) => p \in bitmap

\* The task of pushed is written and not yet in the queue.
Published == IF owner.pc = "publish" THEN pushed - 1 ELSE pushed

\* A task in a queue has not been taken, and is in one place.
OnePlaceEach ==
    /\ \A p \in Prios : \A k \in Places(p) :
          data[p][k] \in 1..Published /\ taken[data[p][k]] = 0
    /\ \A p, q \in Prios : \A k \in Places(p), l \in Places(q) :
          data[p][k] = data[q][l] => p = q /\ k = l

\* A task is in a queue or has been taken.
NoneLost ==
    /\ \A t \in 1..Published : taken[t] = 1 \/ \E p \in Prios : \E k \in Places(p) : data[p][k] = t
    /\ \A t \in (pushed + 1)..MaxTasks : taken[t] = 0

QueueInv ==
    TypeOK /\ ThiefHasLock /\ OwnerAtTail /\ PlacesInArray /\ OnePlaceEach /\ NoneLost

\* As long as no priority has grown twice, a task is taken at most once, by the
\* owner or by one thief, and none is lost, also while an array grows and is
\* replaced under the feet of a thief (kaapi_queue_push, kaapi_queue_pop,
\* kaapi_queue_steal), with the invariant this rests on.
QueueSound == ~regrown => QueueInv /\ TakenOnce /\ NoTaskLost

\* The owner waits for the thieves by looking for an entry that is not 0 below
\* the head (_kaapi_queue_frame_ready: "means that task at possition H was
\* complete by the thief").  What it waits for must come: the entry of a task
\* that a thief took and marked executed is 0.
Underway(p, k) == \E i \in Thieves : /\ thief[i].pc \in {"look", "undo", "execute", "mark"}
                                     /\ thief[i].p = p /\ thief[i].h = k
MarkedIsCleared ==
    \A p \in Prios : \A k \in 0..(H[p] - 1) :
        k < T[p] /\ ~Underway(p, k) => data[p][k] = NoTask

=============================================================================
