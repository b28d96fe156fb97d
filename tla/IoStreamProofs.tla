--------------------------- MODULE IoStreamProofs ---------------------------
(***************************************************************************)
(* StreamInv is an invariant of IoStream for every number of streams,      *)
(* every size of the rings, every plugin and every load, as long as no     *)
(* instruction has been moved to a full pending ring: callbacks are called *)
(* once each, in the order of the commits and after their operations, and  *)
(* no instruction is lost or overwritten.                                  *)
(***************************************************************************)
EXTENDS IoStream, FiniteSetTheorems, NaturalsInduction, TLAPS

\* What the proofs need of the constants.
Constants ==
    /\ Plugin \in {"cuda", "hip", "host"}
    /\ IsFiniteSet(Pushers) /\ Pushers \subseteq Nat \ {0}
    /\ NS \in Nat \ {0} /\ Count \in Nat \ {0}
    /\ MaxOps \in Nat

-----------------------------------------------------------------------------
(* The slots of the rings.                                                 *)

\* Two multiples of a positive number that are not equal are at least that
\* number apart.
LEMMA MultiplesApart ==
    ASSUME NEW P \in Nat \ {0}, NEW d \in Int, NEW e \in Int,
           P * d - P * e < P, P * d - P * e > 0
    PROVE  FALSE
  <1>1. P * (d - e) < P /\ P * (d - e) > 0
    OBVIOUS
  <1>2. CASE d - e <= 0
    <2>1. P * (d - e) <= 0
      BY <1>2
    <2> QED BY <1>1, <2>1
  <1>3. CASE d - e >= 1
    <2>1. P * (d - e) >= P
      BY <1>3
    <2> QED BY <1>1, <2>1
  <1> QED BY <1>2, <1>3

\* A position has a slot of the ring.
LEMMA SlotType ==
    ASSUME Constants, NEW i \in Nat
    PROVE  Slot(i) \in 0..(Count - 1)
  BY DEF Slot, Constants

\* Positions less than Count apart have slots of their own.
LEMMA SlotsDiffer ==
    ASSUME Constants, NEW i \in Nat, NEW j \in Nat, i < j, j - i < Count
    PROVE  Slot(i) # Slot(j)
  <1> SUFFICES ASSUME i % Count = j % Count PROVE FALSE
    BY DEF Slot
  <1>0. Count \in Nat \ {0}
    BY DEF Constants
  <1> DEFINE d == j \div Count
             e == i \div Count
             r == i % Count
  <1>1. i = Count * e + r /\ e \in Int /\ r \in Int
    BY <1>0
  <1>2. j = Count * d + r /\ d \in Int
    BY <1>0
  <1> HIDE DEF d, e, r
  <1>3. Count * d - Count * e < Count /\ Count * d - Count * e > 0
    BY <1>0, <1>1, <1>2
  <1> QED BY <1>0, <1>1, <1>2, <1>3, MultiplesApart

\* The same in either order, for positions of one window.
LEMMA WindowSlots ==
    ASSUME Constants, NEW lo \in Nat, NEW i \in Nat, NEW j \in Nat,
           lo <= i, lo <= j, i - lo < Count, j - lo < Count, i # j
    PROVE  Slot(i) # Slot(j)
  <1>0. Count \in Nat
    BY DEF Constants
  <1>1. CASE i < j
    BY <1>0, <1>1, SlotsDiffer
  <1>2. CASE j < i
    BY <1>0, <1>2, SlotsDiffer
  <1> QED BY <1>1, <1>2

-----------------------------------------------------------------------------
(* Counting.                                                               *)

\* The threads that push.
Pushing == Cardinality({p \in Pushers : push[p] # NotPushing})

\* Pushers are finitely many.
LEMMA PushCounts ==
    ASSUME Constants, TypeOK
    PROVE  Pushing \in Nat /\ \A p \in Pushers : push[p] # NotPushing => Pushing >= 1
  <1>1. IsFiniteSet({p \in Pushers : push[p] # NotPushing})
    BY FS_Subset DEF Constants
  <1>2. Pushing \in Nat
    BY <1>1, FS_CardinalityType DEF Pushing
  <1>3. ASSUME NEW p \in Pushers, push[p] # NotPushing
        PROVE  Pushing >= 1
    <2>1. {q \in Pushers : push[q] # NotPushing} # {}
      BY <1>3
    <2>2. Pushing # 0
      BY <1>1, <2>1, FS_EmptySet DEF Pushing
    <2> QED BY <1>2, <2>2
  <1> QED BY <1>2, <1>3

\* Thread p begins to push to stream s.
LEMMA PushBegins ==
    ASSUME Constants, TypeOK, NEW p \in Pushers, NEW s \in Streams,
           push[p] = NotPushing, push' = [push EXCEPT ![p] = s]
    PROVE  Pushing' = Pushing + 1
  <1>0. IsFiniteSet({q \in Pushers : push[q] # NotPushing}) /\ s # NotPushing
    BY FS_Subset DEF Constants, Streams, NotPushing
  <1>1. {q \in Pushers : push'[q] # NotPushing} = {q \in Pushers : push[q] # NotPushing} \cup {p}
        /\ p \notin {q \in Pushers : push[q] # NotPushing}
    BY <1>0 DEF TypeOK
  <1>2. Cardinality({q \in Pushers : push'[q] # NotPushing})
          = Cardinality({q \in Pushers : push[q] # NotPushing}) + 1
    BY <1>0, <1>1, FS_AddElement
  <1> QED BY <1>2, Zenon DEF Pushing

\* Thread p ends its push to stream s.
LEMMA PushEnds ==
    ASSUME Constants, TypeOK, NEW p \in Pushers, NEW s \in Streams,
           push[p] = s, push' = [push EXCEPT ![p] = NotPushing]
    PROVE  Pushing' = Pushing - 1
  <1>0. IsFiniteSet({q \in Pushers : push[q] # NotPushing}) /\ s # NotPushing
    BY FS_Subset DEF Constants, Streams, NotPushing
  <1>1. {q \in Pushers : push'[q] # NotPushing} = {q \in Pushers : push[q] # NotPushing} \ {p}
        /\ p \in {q \in Pushers : push[q] # NotPushing}
    BY <1>0 DEF TypeOK
  <1>2. Cardinality({q \in Pushers : push'[q] # NotPushing})
          = Cardinality({q \in Pushers : push[q] # NotPushing}) - 1
    BY <1>0, <1>1, FS_RemoveElement
  <1> QED BY <1>2, Zenon DEF Pushing

\* The number of commits, when o is the next one.
LEMMA PushedNext ==
    ASSUME Constants, TypeOK, NEW o \in Ops, NEW v, v # None, where[o] = None,
           where' = [where EXCEPT ![o] = v]
    PROVE  Pushed' = Pushed + 1
  <1>1. {x \in Ops : where'[x] # None} = {x \in Ops : where[x] # None} \cup {o}
        /\ o \notin {x \in Ops : where[x] # None}
    BY DEF TypeOK
  <1>2. IsFiniteSet({x \in Ops : where[x] # None})
    <2>1. IsFiniteSet(1..MaxOps)
      BY FS_Interval DEF Constants
    <2> QED BY <2>1, FS_Subset DEF Ops
  <1> QED BY <1>1, <1>2, FS_AddElement DEF Pushed

\* The number of instructions committed.
LEMMA PushedType ==
    ASSUME Constants
    PROVE  Pushed \in Nat
  <1>1. IsFiniteSet({x \in Ops : where[x] # None})
    BY FS_Interval, FS_Subset DEF Ops, Constants
  <1> QED BY <1>1, FS_CardinalityType DEF Pushed

\* The rings hold no more than their size, and the instruction ring has room for
\* one more when a thread is about to commit.
LEMMA Room ==
    ASSUME Constants, StreamInv, NEW s \in Streams
    PROVE  /\ pos_w[s] - pos_r[s] <= Count /\ pos_wp[s] - pos_rp[s] <= Count
           /\ mutex[s] # Free => pos_w[s] - pos_r[s] < Count
  <1>1. pos_w[s] - pos_r[s] <= Count /\ pos_wp[s] - pos_rp[s] <= Count
        /\ pos_w[s] \in Nat /\ pos_r[s] \in Nat /\ Count \in Nat
    BY DEF StreamInv, TypeOK, Constants
  <1>2. mutex[s] # Free => ~(pos_w[s] - pos_r[s] >= Count)
    BY DEF StreamInv, CommitsNumbered, FullInstr
  <1> QED BY <1>1, <1>2

-----------------------------------------------------------------------------
(* What a step leaves alone.                                               *)

\* The positions of a stream, bounded by each other.
LEMMA Positions ==
    ASSUME Constants, StreamInv, NEW s \in Streams
    PROVE  /\ pos_w[s] \in Nat /\ pos_r[s] \in Nat /\ pos_wp[s] \in Nat /\ pos_rp[s] \in Nat
           /\ ok_p[s] \in Nat /\ Len(called[s]) \in Nat /\ called[s] \in Seq(Ops)
           /\ pos_rp[s] <= ok_p[s] /\ ok_p[s] <= pos_wp[s] /\ pos_wp[s] <= pos_r[s]
           /\ pos_r[s] <= pos_w[s] /\ Len(called[s]) <= pos_r[s]
           /\ pos_rp[s] <= Len(called[s])
           /\ IF Plugin = "host" THEN pos_wp[s] = 0 /\ Len(called[s]) = pos_r[s]
              ELSE pos_wp[s] = pos_r[s] /\ Len(called[s]) = pos_rp[s]
  <1>1. /\ pos_w[s] \in Nat /\ pos_r[s] \in Nat /\ pos_wp[s] \in Nat /\ pos_rp[s] \in Nat
        /\ ok_p[s] \in Nat /\ called[s] \in Seq(Ops)
    BY DEF StreamInv, TypeOK
  <1>2. /\ pos_rp[s] <= ok_p[s] /\ ok_p[s] <= pos_wp[s] /\ pos_wp[s] <= pos_r[s]
        /\ pos_r[s] <= pos_w[s]
    BY DEF StreamInv, TypeOK
  <1>3. IF Plugin = "host" THEN pos_wp[s] = 0 /\ Len(called[s]) = pos_r[s]
        ELSE pos_wp[s] = pos_r[s] /\ Len(called[s]) = pos_rp[s]
    BY DEF StreamInv, StreamInOrder
  <1>4. Len(called[s]) \in Nat
    BY <1>1
  <1> QED BY <1>1, <1>2, <1>3, <1>4

\* An instruction of a position is one that was committed.
LEMMA NthCommitted ==
    ASSUME StreamInv, NEW s \in Streams, NEW k \in 0..(pos_w[s] - 1)
    PROVE  Nth(s, k) \in Committed(s) /\ Nth(s, k) \in Ops
  BY DEF StreamInv, StreamInOrder, Committed

\* Nothing is called or moved on stream s, although operations may have ended
\* and ok_p may have passed some that have.
LEMMA StreamKept ==
    ASSUME Constants, StreamInv, NEW s \in Streams,
           pos_w'[s] = pos_w[s], pos_r'[s] = pos_r[s], pos_wp'[s] = pos_wp[s],
           pos_rp'[s] = pos_rp[s], instr'[s] = instr[s], pending'[s] = pending[s],
           end_event'[s] = end_event[s], called'[s] = called[s],
           Committed(s)' = Committed(s), ended \subseteq ended', ok_p'[s] \in Nat,
           \A k \in 0..(pos_w[s] - 1) : k < ok_p'[s] => k < ok_p[s] \/ Nth(s, k) \in ended'
    PROVE  StreamInOrder(s)'
  <1>1. \A k \in Nat : Nth(s, k)' = Nth(s, k)
    BY DEF Nth, Slot
  <1>2. pos_w[s] \in Nat /\ pos_rp[s] \in Nat /\ pos_wp[s] \in Nat /\ ok_p[s] \in Nat
    BY Positions
  <1>3. (0..(pos_w[s] - 1)) \subseteq Nat /\ (pos_rp[s]..(pos_wp[s] - 1)) \subseteq Nat
    BY <1>2
  <1>4. StreamInOrder(s)
    BY DEF StreamInv
  <1>5. Committed(s)' = {Nth(s, k)' : k \in 0..(pos_w'[s] - 1)}
    <2>1. {Nth(s, k)' : k \in 0..(pos_w'[s] - 1)} = {Nth(s, k) : k \in 0..(pos_w[s] - 1)}
      BY <1>1, <1>3
    <2> QED BY <2>1, <1>4 DEF StreamInOrder
  <1>6. \A j, k \in 0..(pos_w'[s] - 1) : j < k => Nth(s, j)' < Nth(s, k)'
    BY <1>1, <1>3, <1>4 DEF StreamInOrder
  <1>7. \A k \in 0..(pos_w'[s] - 1) :
           k < ok_p'[s] \/ k < Len(called'[s]) => Nth(s, k)' \in ended'
    BY <1>1, <1>3, <1>4 DEF StreamInOrder
  <1>8. \A k \in pos_rp'[s]..(pos_wp'[s] - 1) : end_event'[s][Slot(k)] = Nth(s, k)'
    BY <1>1, <1>3, <1>4 DEF StreamInOrder
  <1>9. /\ \A i \in 0..(Count - 1) :
              pending'[s][i] # Nop <=> \E k \in pos_rp'[s]..(pos_wp'[s] - 1) : Slot(k) = i
        /\ IF Plugin = "host" THEN pos_wp'[s] = 0 /\ Len(called'[s]) = pos_r'[s]
                              ELSE pos_wp'[s] = pos_r'[s] /\ Len(called'[s]) = pos_rp'[s]
    BY <1>4 DEF StreamInOrder
  <1> QED BY <1>5, <1>6, <1>7, <1>8, <1>9 DEF StreamInOrder, Slot

\* The same for all streams.
LEMMA StreamsKept ==
    ASSUME Constants, StreamInv,
           UNCHANGED <<pos_w, pos_r, pos_wp, pos_rp, ok_p, instr, pending, end_event, called, where>>,
           ended \subseteq ended'
    PROVE  \A s \in Streams : StreamInOrder(s)'
  <1> SUFFICES ASSUME NEW s \in Streams PROVE StreamInOrder(s)'
    OBVIOUS
  <1>1. Committed(s)' = Committed(s)
    BY DEF Committed
  <1>2. ok_p'[s] \in Nat
    BY Positions
  <1> QED BY <1>1, <1>2, StreamKept

\* No commit, and the instruction rings only lose instructions.
LEMMA NumbersKept ==
    ASSUME Constants, StreamInv, UNCHANGED <<where, push, spin, pos_w, mutex>>,
           \A s \in Streams : pos_r'[s] \in Nat /\ pos_r'[s] >= pos_r[s]
    PROVE  CommitsNumbered'
  <1>1. Pushed' = Pushed /\ Pushing' = Pushing
    BY DEF Pushed, Pushing
  <1>2. \A s \in Streams : mutex[s] # Free => ~FullInstr(s)'
    <2> SUFFICES ASSUME NEW s \in Streams, mutex[s] # Free PROVE ~FullInstr(s)'
      OBVIOUS
    <2>1. pos_w[s] - pos_r[s] < Count /\ pos_w[s] \in Nat /\ pos_r[s] \in Nat /\ Count \in Nat
      BY Room, Positions DEF Constants
    <2>2. ~(pos_w[s] - pos_r'[s] >= Count)
      BY <2>1
    <2> QED BY <2>2 DEF FullInstr
  <1> QED BY <1>1, <1>2 DEF StreamInv, CommitsNumbered, Pushing

-----------------------------------------------------------------------------
(* Pushing.                                                                *)

\* The streams start in order (_kaapi_offload_iostream_init).
LEMMA InitRight ==
    ASSUME Constants, Init
    PROVE  StreamInv
  <1>1. 0 \in Streams
    BY DEF Streams, Constants
  <1>2. TypeOK
    <2>1. instr \in [Streams -> [0..(Count - 1) -> Ops \cup {Nop}]]
      BY DEF Init
    <2>2. pos_w \in [Streams -> Nat] /\ called \in [Streams -> Seq(Ops)]
      BY DEF Init
    <2>3. \A s \in Streams : pos_w[s] = 0
      BY DEF Init
    <2>4. /\ mutex \in [Streams -> Pushers \cup {Free}]
          /\ push \in [Pushers -> Streams \cup {NotPushing}]
          /\ spin \in [Pushers -> {"top", "end", "inside"}]
          /\ where \in [Ops -> [s : Streams, low : BOOLEAN] \cup {None}]
      BY DEF Init
    <2>5. \A pos \in {pos_w, pos_r, pos_wp, pos_rp, ok_p} : pos \in [Streams -> Nat]
      BY <2>2 DEF Init
    <2>6. \A ring \in {instr, pending, end_event} :
             ring \in [Streams -> [0..(Count - 1) -> Ops \cup {Nop}]]
      BY <2>1 DEF Init
    <2>7. next = 0 /\ ended = {} /\ overrun = FALSE /\ phase = "decode" /\ cur = 0
          /\ \A s \in Streams : pos_r[s] = 0 /\ pos_wp[s] = 0 /\ pos_rp[s] = 0 /\ ok_p[s] = 0
      BY DEF Init
    <2>8. \A s \in Streams :
             /\ pos_rp[s] <= ok_p[s] /\ ok_p[s] <= pos_wp[s]
             /\ pos_wp[s] <= pos_r[s] /\ pos_r[s] <= pos_w[s]
             /\ pos_w[s] - pos_r[s] <= Count /\ pos_wp[s] - pos_rp[s] <= Count
      BY <2>3, <2>7 DEF Constants
    <2>9. /\ next \in Nat /\ (NS = 1 => next = 0) /\ ended \subseteq Ops /\ overrun \in BOOLEAN
          /\ phase \in {"decode", "test", "callback"} /\ cur \in Streams
      BY <1>1, <2>7
    <2> QED BY <2>2, <2>4, <2>5, <2>6, <2>8, <2>9, Zenon DEF TypeOK
  <1>3. CommitsNumbered
    <2>1. {o \in Ops : where[o] # None} = {} /\ {p \in Pushers : push[p] # NotPushing} = {}
      BY DEF Init
    <2>2. Pushed = 0 /\ Cardinality({p \in Pushers : push[p] # NotPushing}) = 0
      BY <2>1, FS_EmptySet DEF Pushed
    <2>3. \A s \in Streams : mutex[s] = Free /\ \A p \in Pushers : mutex[s] # p
      BY DEF Init, Constants, Free
    <2>4. \A p \in Pushers : spin[p] # "inside"
      BY DEF Init
    <2> QED BY <2>2, <2>3, <2>4 DEF CommitsNumbered, Init, Ops, Constants
  <1>4. ASSUME NEW s \in Streams PROVE StreamInOrder(s)
    <2>1. pos_w[s] = 0 /\ pos_r[s] = 0 /\ pos_wp[s] = 0 /\ pos_rp[s] = 0 /\ ok_p[s] = 0
          /\ Len(called[s]) = 0 /\ \A i \in 0..(Count - 1) : pending[s][i] = Nop
      BY DEF Init
    <2>2. Committed(s) = {}
      BY DEF Init, Committed
    <2> QED BY <2>1, <2>2 DEF StreamInOrder
  <1> QED BY <1>2, <1>3, <1>4 DEF StreamInv

\* A call of kaapi_offload_select_io_stream keeps the streams in order.
LEMMA CallPushKeeps ==
    ASSUME Constants, StreamInv, NEW p \in Pushers, CallPush(p)
    PROVE  StreamInv'
  <1>0. TypeOK /\ CommitsNumbered
    BY DEF StreamInv
  <1>1. PICK s : SelectIoStream(s) /\ push' = [push EXCEPT ![p] = s]
    BY Zenon DEF CallPush
  <1>2. s \in Streams
    <2>1. NS > 1 => next % NS \in Streams
      BY <1>0 DEF TypeOK, Streams, Constants
    <2>2. ~(NS > 1) => next = 0 /\ next \in Streams
      BY <1>0 DEF TypeOK, Streams, Constants
    <2> QED BY <1>1, <2>1, <2>2 DEF SelectIoStream
  <1>3. push[p] = NotPushing /\ Pushed + Pushing < MaxOps
        /\ UNCHANGED <<mutex, pos_w, pos_r, pos_wp, pos_rp, ok_p, instr, pending, end_event, overrun, spin,
                       where, ended, phase, cur, size, called>>
        /\ next' = IF NS > 1 THEN next + 1 ELSE next
    BY DEF CallPush, Pushing, posVars, pollVars
  <1>4. TypeOK'
    <2>1. push' \in [Pushers -> Streams \cup {NotPushing}]
      BY <1>0, <1>1, <1>2 DEF TypeOK
    <2>2. next' \in Nat /\ (NS = 1 => next' = 0)
      BY <1>0, <1>3 DEF TypeOK, Constants
    <2> QED BY <1>0, <1>3, <2>1, <2>2 DEF TypeOK
  <1>5. CommitsNumbered'
    <2>1. Pushed' = Pushed
      BY <1>3 DEF Pushed
    <2>2. Pushing' = Pushing + 1
      BY <1>0, <1>1, <1>2, <1>3, PushBegins
    <2>3. Pushed + Pushing' <= MaxOps
      BY <1>0, <1>3, <2>2, PushedType, PushCounts DEF Constants
    <2>4. \A u \in Streams : FullInstr(u)' = FullInstr(u)
      BY <1>3 DEF FullInstr
    <2>5. ASSUME NEW u \in Streams, NEW q \in Pushers, mutex[u] = q PROVE push'[q] = u
      <3>1. push[q] = u /\ u # NotPushing
        BY <1>0, <2>5 DEF CommitsNumbered, Streams, NotPushing
      <3> QED BY <3>1, <1>0, <1>1, <1>3 DEF TypeOK
    <2>6. \A q \in Pushers :
             spin'[q] = "inside" => push'[q] # NotPushing /\ mutex'[push'[q]] = q
      BY <1>0, <1>1, <1>3 DEF CommitsNumbered, TypeOK
    <2> QED BY <1>0, <1>3, <2>1, <2>3, <2>4, <2>5, <2>6 DEF CommitsNumbered, Pushing
  <1>6. \A u \in Streams : StreamInOrder(u)'
    BY <1>3, StreamsKept
  <1> QED BY <1>4, <1>5, <1>6 DEF StreamInv

\* So does taking the mutex of a stream (kaapi_offload_stream_push).
LEMMA StreamPushKeeps ==
    ASSUME Constants, StreamInv, NEW p \in Pushers, StreamPush(p)
    PROVE  StreamInv'
  <1>0. TypeOK /\ CommitsNumbered
    BY DEF StreamInv
  <1>1. push[p] # NotPushing /\ mutex' = [mutex EXCEPT ![push[p]] = p] /\ ~FullInstr(push[p])
        /\ mutex[push[p]] = Free /\ spin' = [spin EXCEPT ![p] = "inside"]
        /\ UNCHANGED <<next, push, pos_w, pos_r, pos_wp, pos_rp, ok_p, instr, pending, end_event, overrun,
                       where, ended, phase, cur, size, called>>
    BY DEF StreamPush, posVars, pollVars
  <1>2. TypeOK'
    <2>1. /\ mutex' \in [Streams -> Pushers \cup {Free}]
          /\ spin' \in [Pushers -> {"top", "end", "inside"}]
      BY <1>0, <1>1 DEF TypeOK
    <2> QED BY <1>0, <1>1, <2>1 DEF TypeOK
  <1>3. CommitsNumbered'
    <2>1. \A s \in Streams, q \in Pushers : mutex'[s] = q => push[q] = s
      BY <1>0, <1>1 DEF TypeOK, CommitsNumbered
    <2>2. Pushed' = Pushed /\ Pushing' = Pushing /\ \A s \in Streams : FullInstr(s)' = FullInstr(s)
      BY <1>1 DEF Pushed, Pushing, FullInstr
    <2>3. \A s \in Streams : mutex'[s] # Free => ~FullInstr(s)
      BY <1>0, <1>1 DEF TypeOK, CommitsNumbered
    <2>4. \A q \in Pushers :
             spin'[q] = "inside" => push'[q] # NotPushing /\ mutex'[push'[q]] = q
      <3> SUFFICES ASSUME NEW q \in Pushers, spin'[q] = "inside"
                   PROVE  push[q] # NotPushing /\ mutex'[push[q]] = q
        BY <1>1
      <3>1. CASE q = p
        BY <3>1, <1>0, <1>1 DEF TypeOK
      <3>2. CASE q # p
        <4>1. push[q] # NotPushing /\ mutex[push[q]] = q
          BY <3>2, <1>0, <1>1 DEF TypeOK, CommitsNumbered
        <4>2. push[q] # push[p]
          BY <4>1, <1>1 DEF Constants, Free
        <4> QED BY <4>1, <4>2, <1>0, <1>1 DEF TypeOK
      <3> QED BY <3>1, <3>2
    <2> QED BY <1>0, <1>1, <2>1, <2>2, <2>3, <2>4 DEF CommitsNumbered, Pushing
  <1>4. \A u \in Streams : StreamInOrder(u)'
    BY <1>1, StreamsKept
  <1> QED BY <1>2, <1>3, <1>4 DEF StreamInv

\* So does a turn of the loop of kaapi_offload_stream_push.
LEMMA SpinKeeps ==
    ASSUME Constants, StreamInv, NEW p \in Pushers, Spin(p)
    PROVE  StreamInv'
  <1>0. TypeOK /\ CommitsNumbered
    BY DEF StreamInv
  <1>1. /\ \E place \in {"top", "end"} : spin' = [spin EXCEPT ![p] = place]
        /\ UNCHANGED <<next, mutex, push, pos_w, pos_r, pos_wp, pos_rp, ok_p, instr, pending, end_event,
                       overrun, where, ended, phase, cur, size, called>>
    BY DEF Spin, posVars, pollVars
  <1>2. spin' \in [Pushers -> {"top", "end", "inside"}]
        /\ \A q \in Pushers : spin'[q] = "inside" => spin[q] = "inside"
    BY <1>0, <1>1 DEF TypeOK
  <1>3. TypeOK'
    BY <1>0, <1>1, <1>2 DEF TypeOK
  <1>4. CommitsNumbered'
    <2>1. Pushed' = Pushed /\ Pushing' = Pushing /\ \A s \in Streams : FullInstr(s)' = FullInstr(s)
      BY <1>1 DEF Pushed, Pushing, FullInstr
    <2> QED BY <1>0, <1>1, <1>2, <2>1 DEF CommitsNumbered, Pushing
  <1>5. \A u \in Streams : StreamInOrder(u)'
    BY <1>1, StreamsKept
  <1> QED BY <1>3, <1>4, <1>5 DEF StreamInv

\* A commit adds its instruction at the last position of its stream, and no
\* other position changes (kaapi_offload_stream_commit).
LEMMA InsertKeeps ==
    ASSUME Constants, StreamInv, NEW p \in Pushers, NEW low \in BOOLEAN, Insert(p, low)
    PROVE  StreamInv'
  <1>s. PICK s : s = push[p]
    BY Zenon
  <1>o. PICK o : o = Pushed + 1
    BY Zenon
  <1>p. PICK place : place = [s |-> s, low |-> low]
    BY Zenon
  <1>0. TypeOK /\ CommitsNumbered
    BY DEF StreamInv
  <1>m. mutex[s] = p
    BY <1>s, <1>0 DEF Insert, CommitsNumbered
  <1>1. /\ s # NotPushing /\ mutex[s] = p
        /\ spin' = [spin EXCEPT ![p] = "top"]
        /\ instr' = [instr EXCEPT ![s][Slot(pos_w[s])] = o]
        /\ where' = [where EXCEPT ![o] = place]
        /\ pos_w' = [pos_w EXCEPT ![s] = @ + 1]
        /\ mutex' = [mutex EXCEPT ![s] = Free]
        /\ push' = [push EXCEPT ![p] = NotPushing]
        /\ UNCHANGED <<next, pos_r, pos_wp, pos_rp, ok_p, pending, end_event, overrun, ended, phase, cur,
                       size, called>>
    BY <1>s, <1>o, <1>p, <1>m DEF Insert, pollVars
  <1>2. s \in Streams /\ pos_w[s] \in Nat /\ Slot(pos_w[s]) \in 0..(Count - 1)
    BY <1>s, <1>0, <1>1, Positions, SlotType DEF TypeOK
  <1>3. o \in Ops /\ where[o] = None
    <2>1. Pushed \in Nat /\ Pushing >= 1 /\ Pushing \in Nat /\ Pushed + Pushing <= MaxOps
      BY <1>0, <1>1, PushedType, PushCounts, <1>s DEF CommitsNumbered, Pushing
    <2>2. o \in Ops
      BY <2>1, <1>o DEF Ops, Constants
    <2>3. ~(o <= Pushed)
      BY <2>1, <1>o
    <2> QED BY <2>2, <2>3, <1>0 DEF CommitsNumbered
  <1>4. place # None /\ place \in [s : Streams, low : BOOLEAN] /\ place.s = s
    <2>1. place.s # -1
      BY <1>p, <1>2 DEF Streams
    <2> QED BY <1>p, <1>2, <2>1 DEF None
  <1>5. Pushed' = Pushed + 1 /\ Pushed \in Nat
    BY <1>0, <1>1, <1>3, <1>4, PushedNext, PushedType
  <1>6. Pushing' = Pushing - 1
    BY <1>s, <1>0, <1>1, <1>2, PushEnds
  <1>7. pos_w[s] - pos_r[s] < Count
    <2>1. p # Free
      BY DEF Constants, Free
    <2> QED BY <2>1, <1>1, <1>2, Room
  <1>8. TypeOK'
    <2>1. instr' \in [Streams -> [0..(Count - 1) -> Ops \cup {Nop}]]
      <3>1. instr \in [Streams -> [0..(Count - 1) -> Ops \cup {Nop}]]
        BY <1>0 DEF TypeOK
      <3>2. [instr[s] EXCEPT ![Slot(pos_w[s])] = o] \in [0..(Count - 1) -> Ops \cup {Nop}]
        BY <3>1, <1>2, <1>3
      <3>3. instr' = [instr EXCEPT ![s] = [instr[s] EXCEPT ![Slot(pos_w[s])] = o]]
        BY <1>1, <3>1
      <3> QED BY <3>1, <3>2, <3>3
    <2>2. where' \in [Ops -> [s : Streams, low : BOOLEAN] \cup {None}]
      BY <1>0, <1>1, <1>4 DEF TypeOK
    <2>3. pos_w' \in [Streams -> Nat] /\ mutex' \in [Streams -> Pushers \cup {Free}]
          /\ push' \in [Pushers -> Streams \cup {NotPushing}]
      <3>1. pos_w \in [Streams -> Nat] /\ mutex \in [Streams -> Pushers \cup {Free}]
            /\ push \in [Pushers -> Streams \cup {NotPushing}]
        BY <1>0 DEF TypeOK
      <3>2. pos_w[s] + 1 \in Nat
        BY <1>2
      <3> QED BY <1>1, <1>2, <3>1, <3>2
    <2>4. \A u \in Streams : pos_r'[u] <= pos_w'[u] /\ pos_w'[u] - pos_r'[u] <= Count
      <3>1. pos_r[s] <= pos_w[s] /\ pos_r[s] \in Nat /\ Len(called[s]) <= pos_r[s]
            /\ Len(called[s]) \in Nat /\ Count \in Nat
        BY <1>2, Positions DEF Constants
      <3>2. pos_r[s] <= pos_w[s] + 1 /\ pos_w[s] + 1 - pos_r[s] <= Count
        BY <3>1, <1>7, <1>2
      <3> QED BY <3>2, <1>0, <1>1 DEF TypeOK
    <2>5. \A pos \in {pos_w', pos_r', pos_wp', pos_rp', ok_p'} : pos \in [Streams -> Nat]
      BY <2>3, <1>0, <1>1 DEF TypeOK
    <2>6. \A ring \in {instr', pending', end_event'} :
             ring \in [Streams -> [0..(Count - 1) -> Ops \cup {Nop}]]
      BY <2>1, <1>0, <1>1 DEF TypeOK
    <2>7. spin' \in [Pushers -> {"top", "end", "inside"}]
      BY <1>0, <1>1 DEF TypeOK
    <2> QED BY <2>2, <2>3, <2>4, <2>5, <2>6, <2>7, <1>0, <1>1 DEF TypeOK
  <1>9. CommitsNumbered'
    <2>1. \A x \in Ops : where'[x] # None <=> x <= Pushed'
      <3>1. \A x \in Ops : x \in Nat /\ (where[x] # None <=> x <= Pushed)
        BY <1>0 DEF CommitsNumbered, Ops, Constants
      <3>2. \A x \in Ops : where'[x] = IF x = o THEN place ELSE where[x]
        BY <1>0, <1>1 DEF TypeOK
      <3> QED BY <3>1, <3>2, <1>o, <1>4, <1>5
    <2>2. Pushed' + Pushing' <= MaxOps
      BY <1>0, <1>5, <1>6, PushCounts DEF CommitsNumbered, Pushing, Constants
    <2>3. \A u \in Streams, q \in Pushers : mutex'[u] = q => push'[q] = u
      <3> SUFFICES ASSUME NEW u \in Streams, NEW q \in Pushers, mutex'[u] = q
                   PROVE  push'[q] = u
        OBVIOUS
      <3>1. u # s
        BY <1>0, <1>1, <1>2 DEF TypeOK, Constants, Free
      <3>2. push[q] = u
        BY <3>1, <1>0, <1>1 DEF TypeOK, CommitsNumbered
      <3> QED BY <3>1, <3>2, <1>s, <1>0, <1>1 DEF TypeOK
    <2>4. \A u \in Streams : mutex'[u] # Free => ~FullInstr(u)'
      <3> SUFFICES ASSUME NEW u \in Streams, mutex'[u] # Free PROVE ~FullInstr(u)'
        OBVIOUS
      <3>1. u # s /\ mutex'[u] = mutex[u] /\ pos_w'[u] = pos_w[u] /\ pos_r'[u] = pos_r[u]
        BY <1>0, <1>1, <1>2 DEF TypeOK
      <3>2. ~FullInstr(u)
        BY <3>1, <1>0 DEF CommitsNumbered
      <3> QED BY <3>1, <3>2 DEF FullInstr
    <2>5. \A q \in Pushers :
             spin'[q] = "inside" => push'[q] # NotPushing /\ mutex'[push'[q]] = q
      <3> SUFFICES ASSUME NEW q \in Pushers, spin'[q] = "inside"
                   PROVE  push'[q] # NotPushing /\ mutex'[push'[q]] = q
        OBVIOUS
      <3>1. q # p /\ push'[q] = push[q] /\ spin[q] = "inside"
        BY <1>0, <1>1 DEF TypeOK
      <3>2. push[q] # NotPushing /\ mutex[push[q]] = q /\ push[q] \in Streams
        BY <3>1, <1>0 DEF TypeOK, CommitsNumbered
      <3>3. push[q] # s
        BY <3>1, <3>2, <1>1
      <3> QED BY <3>1, <3>2, <3>3, <1>0, <1>1 DEF TypeOK
    <2> QED BY <2>1, <2>2, <2>3, <2>4, <2>5 DEF CommitsNumbered, Pushing
  <1>10. Committed(s)' = Committed(s) \cup {o} /\ \A u \in Streams \ {s} : Committed(u)' = Committed(u)
    BY <1>0, <1>1, <1>3, <1>4 DEF Committed, TypeOK
  <1>11. \A u \in Streams \ {s} : StreamInOrder(u)'
    <2> SUFFICES ASSUME NEW u \in Streams \ {s} PROVE StreamInOrder(u)'
      OBVIOUS
    <2>1. pos_w'[u] = pos_w[u] /\ instr'[u] = instr[u]
      BY <1>0, <1>1 DEF TypeOK
    <2>2. ok_p'[u] \in Nat
      BY <1>1, Positions
    <2> QED BY <1>1, <1>10, <2>1, <2>2, StreamKept
  <1>12. StreamInOrder(s)'
    <2>n. PICK n : n = pos_w[s]
      BY Zenon
    <2>0. /\ pos_r[s] \in Nat /\ pos_wp[s] \in Nat /\ pos_rp[s] \in Nat /\ ok_p[s] \in Nat
          /\ Len(called[s]) \in Nat /\ ok_p[s] <= pos_wp[s] /\ pos_wp[s] <= pos_r[s] /\ n \in Nat
          /\ pos_r[s] <= n /\ Len(called[s]) <= pos_r[s] /\ Count \in Nat
          /\ (pos_wp[s] = pos_r[s] \/ Len(called[s]) = pos_r[s])
      BY <1>2, <2>n, Positions DEF Constants
    <2>1. pos_w'[s] = n + 1
      BY <1>0, <1>1, <1>2, <2>n DEF TypeOK
    <2>2. instr'[s] = [instr[s] EXCEPT ![Slot(n)] = o] /\ instr[s] \in [0..(Count - 1) -> Ops \cup {Nop}]
      BY <1>0, <1>1, <1>2, <2>n DEF TypeOK
    <2>old. StreamInOrder(s)
      BY <1>2 DEF StreamInv
    <2>3. Nth(s, n)' = o
      <3>1. instr'[s][Slot(n)] = o
        BY <2>2, <1>2, <2>n
      <3>2. ~(n < Len(called[s])) /\ ~(n < pos_wp[s])
        BY <2>0
      <3> QED BY <3>1, <3>2, <1>1 DEF Nth, Slot
    <2>4. \A k \in 0..(n - 1) : Nth(s, k)' = Nth(s, k)
      <3> SUFFICES ASSUME NEW k \in 0..(n - 1) PROVE Nth(s, k)' = Nth(s, k)
        OBVIOUS
      <3>1. CASE k < Len(called[s]) \/ k < pos_wp[s]
        BY <3>1, <1>1 DEF Nth, Slot
      <3>2. CASE ~(k < Len(called[s])) /\ ~(k < pos_wp[s])
        <4>1. k < n /\ n - k < Count /\ k \in Nat
          BY <3>2, <2>0, <1>7, <2>n
        <4>2. Slot(k) # Slot(n)
          BY <4>1, <2>0, SlotsDiffer
        <4>3. instr'[s][Slot(k)] = instr[s][Slot(k)]
          BY <2>2, <4>1, <4>2, SlotType
        <4> QED BY <3>2, <4>3, <1>1 DEF Nth, Slot
      <3> QED BY <3>1, <3>2
    <2>5. \A k \in 0..(n - 1) : Nth(s, k) \in Committed(s) /\ Nth(s, k) \in Nat /\ Nth(s, k) < o
      <3> SUFFICES ASSUME NEW k \in 0..(n - 1)
                   PROVE  Nth(s, k) \in Committed(s) /\ Nth(s, k) \in Nat /\ Nth(s, k) < o
        OBVIOUS
      <3>1. Nth(s, k) \in Committed(s) /\ Nth(s, k) \in Ops
        BY <1>2, NthCommitted, <2>n
      <3>2. Nth(s, k) <= Pushed
        BY <3>1, <1>0 DEF Committed, CommitsNumbered
      <3> QED BY <3>1, <3>2, <1>o, <1>5 DEF Ops, Constants
    <2>6. Committed(s)' = {Nth(s, k)' : k \in 0..(pos_w'[s] - 1)}
      <3>1. 0..(pos_w'[s] - 1) = 0..(n - 1) \cup {n}
        BY <2>1, <2>0
      <3>2. {Nth(s, k)' : k \in 0..(pos_w'[s] - 1)} = {Nth(s, k) : k \in 0..(n - 1)} \cup {o}
        BY <3>1, <2>3, <2>4
      <3> QED BY <3>2, <2>old, <1>10, <2>n DEF StreamInOrder
    <2>7. \A j, k \in 0..(pos_w'[s] - 1) : j < k => Nth(s, j)' < Nth(s, k)'
      <3> SUFFICES ASSUME NEW j \in 0..n, NEW k \in 0..n, j < k PROVE Nth(s, j)' < Nth(s, k)'
        BY <2>1, <2>0
      <3>1. CASE k = n
        <4>1. j \in 0..(n - 1)
          BY <3>1, <2>0
        <4> QED BY <4>1, <3>1, <2>3, <2>4, <2>5
      <3>2. CASE k # n
        <4>1. j \in 0..(n - 1) /\ k \in 0..(n - 1)
          BY <3>2, <2>0
        <4> QED BY <4>1, <2>4, <2>old, <2>n DEF StreamInOrder
      <3> QED BY <3>1, <3>2
    <2>8. \A k \in 0..(pos_w'[s] - 1) :
             k < ok_p'[s] \/ k < Len(called'[s]) => Nth(s, k)' \in ended'
      <3> SUFFICES ASSUME NEW k \in 0..n, k < ok_p[s] \/ k < Len(called[s])
                   PROVE  Nth(s, k)' \in ended
        BY <2>1, <2>0, <1>1
      <3>1. k \in 0..(n - 1)
        BY <2>0
      <3> QED BY <3>1, <2>4, <2>old, <2>n DEF StreamInOrder
    <2>9. \A k \in pos_rp'[s]..(pos_wp'[s] - 1) : end_event'[s][Slot(k)] = Nth(s, k)'
      <3> SUFFICES ASSUME NEW k \in pos_rp[s]..(pos_wp[s] - 1)
                   PROVE  end_event[s][Slot(k)] = Nth(s, k)'
        BY <1>1
      <3>1. k \in 0..(n - 1)
        BY <2>0
      <3> QED BY <3>1, <2>4, <2>old DEF StreamInOrder
    <2>10. /\ \A i \in 0..(Count - 1) :
                 pending'[s][i] # Nop <=> \E k \in pos_rp'[s]..(pos_wp'[s] - 1) : Slot(k) = i
           /\ IF Plugin = "host" THEN pos_wp'[s] = 0 /\ Len(called'[s]) = pos_r'[s]
                                 ELSE pos_wp'[s] = pos_r'[s] /\ Len(called'[s]) = pos_rp'[s]
      BY <2>old, <1>1 DEF StreamInOrder
    <2> QED BY <2>6, <2>7, <2>8, <2>9, <2>10 DEF StreamInOrder, Slot
  <1>13. \A u \in Streams : StreamInOrder(u)'
    BY <1>11, <1>12
  <1> QED BY <1>8, <1>9, <1>13 DEF StreamInv

-----------------------------------------------------------------------------
(* Decoding.                                                               *)

\* A gpu plugin moves the oldest instruction of the ring to the pending ring.
LEMMA StartKeeps ==
    ASSUME Constants, StreamInv, Plugin # "host", NEW s \in Streams, pos_r[s] # pos_w[s],
           Start(s, instr[s][Slot(pos_r[s])]), ~overrun',
           pos_r' = [pos_r EXCEPT ![s] = @ + 1],
           UNCHANGED <<next, mutex, pos_w, pos_rp, ok_p, instr, push, spin, where, phase, cur, size>>
    PROVE  StreamInv'
  <1>0. TypeOK /\ CommitsNumbered /\ StreamInOrder(s)
    BY DEF StreamInv
  <1>o. PICK o : o = instr[s][Slot(pos_r[s])]
    BY Zenon
  <1>n. PICK n : n = pos_wp[s]
    BY Zenon
  <1>1. /\ end_event' = [end_event EXCEPT ![s][Slot(n)] = o]
        /\ pending' = [pending EXCEPT ![s][Slot(n)] = o]
        /\ pos_wp' = [pos_wp EXCEPT ![s] = @ + 1]
        /\ UNCHANGED <<ended, called>> /\ overrun' \in BOOLEAN
    BY <1>o, <1>n DEF Start
  <1>2. /\ n \in Nat /\ pos_r[s] = n /\ pos_w[s] \in Nat /\ pos_rp[s] \in Nat /\ ok_p[s] \in Nat
        /\ n < pos_w[s] /\ pos_rp[s] <= ok_p[s] /\ ok_p[s] <= n /\ Len(called[s]) = pos_rp[s]
        /\ Count \in Nat /\ pos_w[s] - n <= Count /\ n - pos_rp[s] < Count
    <2>1. ~(n - pos_rp[s] >= Count)
      BY <1>n DEF Start, FullPending
    <2>2. /\ n \in Nat /\ pos_r[s] = n /\ pos_w[s] \in Nat /\ pos_rp[s] \in Nat /\ ok_p[s] \in Nat
          /\ n <= pos_w[s] /\ pos_rp[s] <= ok_p[s] /\ ok_p[s] <= n /\ Len(called[s]) = pos_rp[s]
          /\ Count \in Nat /\ pos_w[s] - n <= Count
      BY <1>n, Positions, Room DEF Constants
    <2> QED BY <2>1, <2>2
  <1>3. Slot(n) \in 0..(Count - 1)
    BY <1>2, SlotType
  <1>4. n \in 0..(pos_w[s] - 1) /\ Nth(s, n) = o
    BY <1>2, <1>n, <1>o DEF Nth
  <1>5. o \in Ops /\ o # Nop
    BY <1>4, NthCommitted DEF Ops, Nop, Constants
  <1>6. TypeOK'
    <2>1. \A ring \in {pending, end_event} :
             /\ [ring EXCEPT ![s][Slot(n)] = o] \in [Streams -> [0..(Count - 1) -> Ops \cup {Nop}]]
             /\ ring \in [Streams -> [0..(Count - 1) -> Ops \cup {Nop}]]
      <3> SUFFICES ASSUME NEW ring \in {pending, end_event}
                   PROVE  /\ [ring EXCEPT ![s][Slot(n)] = o] \in [Streams -> [0..(Count - 1) -> Ops \cup {Nop}]]
                          /\ ring \in [Streams -> [0..(Count - 1) -> Ops \cup {Nop}]]
        OBVIOUS
      <3>1. ring \in [Streams -> [0..(Count - 1) -> Ops \cup {Nop}]]
        BY <1>0 DEF TypeOK
      <3>2. [ring[s] EXCEPT ![Slot(n)] = o] \in [0..(Count - 1) -> Ops \cup {Nop}]
        BY <3>1, <1>3, <1>5
      <3>3. [ring EXCEPT ![s][Slot(n)] = o] = [ring EXCEPT ![s] = [ring[s] EXCEPT ![Slot(n)] = o]]
        BY <3>1
      <3> QED BY <3>1, <3>2, <3>3
    <2>2. \A ring \in {instr', pending', end_event'} :
             ring \in [Streams -> [0..(Count - 1) -> Ops \cup {Nop}]]
      BY <2>1, <1>0, <1>1 DEF TypeOK
    <2>3. \A pos \in {pos_w', pos_r', pos_wp', pos_rp', ok_p'} : pos \in [Streams -> Nat]
      <3>1. \A pos \in {pos_w, pos_r, pos_wp, pos_rp, ok_p} : pos \in [Streams -> Nat]
        BY <1>0 DEF TypeOK
      <3>2. pos_wp' \in [Streams -> Nat] /\ pos_r' \in [Streams -> Nat]
        BY <3>1, <1>1
      <3> QED BY <3>1, <3>2
    <2>4. \A u \in Streams :
             /\ pos_rp'[u] <= ok_p'[u] /\ ok_p'[u] <= pos_wp'[u]
             /\ pos_wp'[u] <= pos_r'[u] /\ pos_r'[u] <= pos_w'[u]
             /\ pos_w'[u] - pos_r'[u] <= Count /\ pos_wp'[u] - pos_rp'[u] <= Count
      <3> SUFFICES ASSUME NEW u \in Streams
                   PROVE  /\ pos_rp[u] <= ok_p[u] /\ ok_p[u] <= pos_wp'[u]
                          /\ pos_wp'[u] <= pos_r'[u] /\ pos_r'[u] <= pos_w[u]
                          /\ pos_w[u] - pos_r'[u] <= Count /\ pos_wp'[u] - pos_rp[u] <= Count
        OBVIOUS
      <3>1. CASE u = s
        <4>1. pos_wp'[s] = n + 1 /\ pos_r'[s] = n + 1
          BY <1>0, <1>1, <1>2, <1>n DEF TypeOK
        <4> QED BY <3>1, <4>1, <1>2
      <3>2. CASE u # s
        <4>1. pos_wp'[u] = pos_wp[u] /\ pos_r'[u] = pos_r[u]
          BY <3>2, <1>0, <1>1 DEF TypeOK
        <4> QED BY <4>1, <1>0 DEF TypeOK
      <3> QED BY <3>1, <3>2
    <2> QED BY <1>0, <1>1, <2>2, <2>3, <2>4 DEF TypeOK
  <1>7. CommitsNumbered'
    <2>1. \A u \in Streams : pos_r'[u] \in Nat /\ pos_r'[u] >= pos_r[u]
      <3> SUFFICES ASSUME NEW u \in Streams PROVE pos_r'[u] \in Nat /\ pos_r'[u] >= pos_r[u]
        OBVIOUS
      <3>1. pos_r[u] \in Nat /\ (pos_r'[u] = pos_r[u] \/ pos_r'[u] = pos_r[u] + 1)
        BY <1>0 DEF TypeOK
      <3> QED BY <3>1
    <2> QED BY <2>1, NumbersKept
  <1>8. \A u \in Streams : Committed(u)' = Committed(u)
    BY DEF Committed
  <1>9. \A u \in Streams \ {s} : StreamInOrder(u)'
    <2> SUFFICES ASSUME NEW u \in Streams \ {s} PROVE StreamInOrder(u)'
      OBVIOUS
    <2>1. pos_wp'[u] = pos_wp[u] /\ pos_r'[u] = pos_r[u] /\ pending'[u] = pending[u]
          /\ end_event'[u] = end_event[u]
      BY <1>0, <1>1 DEF TypeOK
    <2>2. ok_p'[u] \in Nat
      BY Positions
    <2> QED BY <1>1, <1>8, <2>1, <2>2, StreamKept
  <1>10. StreamInOrder(s)'
    <2>1. pos_wp'[s] = n + 1 /\ pos_r'[s] = n + 1
      BY <1>0, <1>1, <1>2, <1>n DEF TypeOK
    <2>2. \A i \in 0..(Count - 1) :
             /\ pending'[s][i] = IF i = Slot(n) THEN o ELSE pending[s][i]
             /\ end_event'[s][i] = IF i = Slot(n) THEN o ELSE end_event[s][i]
      BY <1>0, <1>1, <1>3 DEF TypeOK
    <2>3. \A k \in pos_rp[s]..(n - 1) : Slot(k) \in 0..(Count - 1) /\ Slot(k) # Slot(n)
      <3> SUFFICES ASSUME NEW k \in pos_rp[s]..(n - 1)
                   PROVE  Slot(k) \in 0..(Count - 1) /\ Slot(k) # Slot(n)
        OBVIOUS
      <3>1. k \in Nat /\ k < n /\ n - k < Count
        BY <1>2
      <3> QED BY <3>1, <1>2, SlotType, SlotsDiffer
    <2>4. \A k \in 0..(pos_w[s] - 1) : Nth(s, k)' = Nth(s, k)
      <3> SUFFICES ASSUME NEW k \in 0..(pos_w[s] - 1) PROVE Nth(s, k)' = Nth(s, k)
        OBVIOUS
      <3>1. CASE k < Len(called[s])
        BY <3>1, <1>1 DEF Nth
      <3>2. CASE ~(k < Len(called[s])) /\ k < n
        <4>1. k \in pos_rp[s]..(n - 1)
          BY <3>2, <1>2
        <4>2. pending'[s][Slot(k)] = pending[s][Slot(k)]
          BY <4>1, <2>2, <2>3
        <4>3. k < n + 1
          BY <3>2, <1>2
        <4> QED BY <3>2, <4>2, <4>3, <2>1, <1>1, <1>n DEF Nth, Slot
      <3>3. CASE k = n
        <4>1. pending'[s][Slot(n)] = o /\ ~(n < Len(called[s])) /\ n < n + 1
          BY <2>2, <1>3, <1>2
        <4>2. Nth(s, n)' = o
          BY <4>1, <2>1, <1>1 DEF Nth, Slot
        <4> QED BY <3>3, <4>2, <1>4
      <3>4. CASE k > n
        <4>1. ~(k < Len(called[s])) /\ ~(k < n) /\ ~(k < n + 1)
          BY <3>4, <1>2
        <4> QED BY <4>1, <2>1, <1>1, <1>n DEF Nth, Slot
      <3> QED BY <3>1, <3>2, <3>3, <3>4, <1>2
    <2>5. (pos_rp[s]..n) \subseteq 0..(pos_w[s] - 1)
          /\ pos_rp[s]..(pos_wp'[s] - 1) = (pos_rp[s]..(n - 1)) \cup {n}
      BY <2>1, <1>2
    <2>6. Committed(s)' = {Nth(s, k)' : k \in 0..(pos_w'[s] - 1)}
      <3>1. {Nth(s, k)' : k \in 0..(pos_w[s] - 1)} = {Nth(s, k) : k \in 0..(pos_w[s] - 1)}
        BY <2>4
      <3> QED BY <3>1, <1>0, <1>8 DEF StreamInOrder
    <2>7. \A j, k \in 0..(pos_w'[s] - 1) : j < k => Nth(s, j)' < Nth(s, k)'
      BY <2>4, <1>0 DEF StreamInOrder
    <2>8. \A k \in 0..(pos_w'[s] - 1) :
             k < ok_p'[s] \/ k < Len(called'[s]) => Nth(s, k)' \in ended'
      BY <2>4, <1>0, <1>1 DEF StreamInOrder
    <2>9. \A k \in pos_rp'[s]..(pos_wp'[s] - 1) : end_event'[s][Slot(k)] = Nth(s, k)'
      <3> SUFFICES ASSUME NEW k \in (pos_rp[s]..(n - 1)) \cup {n}
                   PROVE  end_event'[s][Slot(k)] = Nth(s, k)'
        BY <2>5
      <3>0. Nth(s, k)' = Nth(s, k)
        BY <2>4, <2>5, <1>2
      <3>1. CASE k = n
        BY <3>0, <3>1, <2>2, <1>3, <1>4
      <3>2. CASE k \in pos_rp[s]..(n - 1)
        <4>1. end_event'[s][Slot(k)] = end_event[s][Slot(k)]
          BY <3>2, <2>2, <2>3
        <4> QED BY <3>0, <3>2, <4>1, <1>0, <1>n DEF StreamInOrder
      <3> QED BY <3>1, <3>2
    <2>10. \A i \in 0..(Count - 1) :
              pending'[s][i] # Nop <=> \E k \in pos_rp'[s]..(pos_wp'[s] - 1) : Slot(k) = i
      <3> SUFFICES ASSUME NEW i \in 0..(Count - 1)
                   PROVE  pending'[s][i] # Nop
                            <=> \E k \in (pos_rp[s]..(n - 1)) \cup {n} : Slot(k) = i
        BY <2>5
      <3>1. pending[s][i] # Nop <=> \E k \in pos_rp[s]..(n - 1) : Slot(k) = i
        BY <1>0, <1>n DEF StreamInOrder
      <3> QED BY <3>1, <2>2, <1>5
    <2>11. IF Plugin = "host" THEN pos_wp'[s] = 0 /\ Len(called'[s]) = pos_r'[s]
                              ELSE pos_wp'[s] = pos_r'[s] /\ Len(called'[s]) = pos_rp'[s]
      BY <2>1, <1>1, <1>2
    <2> QED BY <2>6, <2>7, <2>8, <2>9, <2>10, <2>11 DEF StreamInOrder, Slot
  <1>11. \A u \in Streams : StreamInOrder(u)'
    BY <1>9, <1>10
  <1> QED BY <1>6, <1>7, <1>11 DEF StreamInv

\* The host plugin executes the oldest instruction and calls its callback.
LEMMA HostDecodeKeeps ==
    ASSUME Constants, StreamInv, Plugin = "host", NEW s \in Streams, pos_r[s] # pos_w[s],
           HostDecode(s, instr[s][Slot(pos_r[s])]),
           pos_r' = [pos_r EXCEPT ![s] = @ + 1],
           UNCHANGED <<next, mutex, pos_w, pos_rp, ok_p, instr, push, spin, where, phase, cur, size>>
    PROVE  StreamInv'
  <1>0. TypeOK /\ CommitsNumbered /\ StreamInOrder(s)
    BY DEF StreamInv
  <1>o. PICK o : o = instr[s][Slot(pos_r[s])]
    BY Zenon
  <1>n. PICK n : n = pos_r[s]
    BY Zenon
  <1>1. /\ ended' = ended \cup {o} /\ called' = [called EXCEPT ![s] = Append(@, o)]
        /\ UNCHANGED <<end_event, overrun, pending, pos_wp>>
    BY <1>o DEF HostDecode
  <1>2. /\ n \in Nat /\ pos_r[s] = n /\ pos_w[s] \in Nat /\ pos_rp[s] = 0 /\ ok_p[s] = 0
        /\ n < pos_w[s] /\ Len(called[s]) = n /\ pos_wp[s] = 0 /\ called[s] \in Seq(Ops)
        /\ Count \in Nat /\ pos_w[s] - n <= Count
    BY <1>n, Positions, Room DEF Constants
  <1>3. n \in 0..(pos_w[s] - 1) /\ Nth(s, n) = o
    BY <1>2, <1>n, <1>o DEF Nth
  <1>4. o \in Ops
    BY <1>3, NthCommitted
  <1>5. called'[s] = Append(called[s], o) /\ Len(called'[s]) = n + 1 /\ called'[s][n + 1] = o
        /\ \A k \in 1..n : called'[s][k] = called[s][k]
    <2>1. called'[s] = Append(called[s], o)
      BY <1>0, <1>1 DEF TypeOK
    <2> QED BY <2>1, <1>2, <1>4
  <1>6. TypeOK'
    <2>1. called' \in [Streams -> Seq(Ops)]
      <3>1. Append(called[s], o) \in Seq(Ops)
        BY <1>2, <1>4
      <3> QED BY <3>1, <1>0, <1>1 DEF TypeOK
    <2>2. pos_r' \in [Streams -> Nat]
      BY <1>0, <1>1, <1>2 DEF TypeOK
    <2>3. \A u \in Streams : pos_wp[u] <= pos_r'[u] /\ pos_r'[u] <= pos_w[u] /\ pos_w[u] - pos_r'[u] <= Count
      <3> SUFFICES ASSUME NEW u \in Streams
                   PROVE  pos_wp[u] <= pos_r'[u] /\ pos_r'[u] <= pos_w[u] /\ pos_w[u] - pos_r'[u] <= Count
        OBVIOUS
      <3>1. CASE u = s
        <4>1. pos_r'[s] = n + 1
          BY <1>0, <1>2 DEF TypeOK
        <4> QED BY <3>1, <4>1, <1>2
      <3>2. CASE u # s
        <4>1. pos_r'[u] = pos_r[u]
          BY <3>2, <1>0 DEF TypeOK
        <4> QED BY <4>1, <1>0 DEF TypeOK
      <3> QED BY <3>1, <3>2
    <2>4. ended' \subseteq Ops
      BY <1>0, <1>1, <1>4 DEF TypeOK
    <2>5. \A pos \in {pos_w', pos_r', pos_wp', pos_rp', ok_p'} : pos \in [Streams -> Nat]
      <3>1. \A pos \in {pos_w, pos_r, pos_wp, pos_rp, ok_p} : pos \in [Streams -> Nat]
        BY <1>0 DEF TypeOK
      <3> QED BY <3>1, <2>2, <1>1
    <2> QED BY <1>0, <1>1, <2>1, <2>3, <2>4, <2>5 DEF TypeOK
  <1>7. CommitsNumbered'
    <2>1. \A u \in Streams : pos_r'[u] \in Nat /\ pos_r'[u] >= pos_r[u]
      <3> SUFFICES ASSUME NEW u \in Streams PROVE pos_r'[u] \in Nat /\ pos_r'[u] >= pos_r[u]
        OBVIOUS
      <3>1. pos_r[u] \in Nat /\ (pos_r'[u] = pos_r[u] \/ pos_r'[u] = pos_r[u] + 1)
        BY <1>0 DEF TypeOK
      <3> QED BY <3>1
    <2> QED BY <2>1, NumbersKept
  <1>8. \A u \in Streams : Committed(u)' = Committed(u)
    BY DEF Committed
  <1>9. \A u \in Streams \ {s} : StreamInOrder(u)'
    <2> SUFFICES ASSUME NEW u \in Streams \ {s} PROVE StreamInOrder(u)'
      OBVIOUS
    <2>1. pos_r'[u] = pos_r[u] /\ called'[u] = called[u]
      BY <1>0, <1>1 DEF TypeOK
    <2>2. ok_p'[u] \in Nat
      BY Positions
    <2> QED BY <1>1, <1>8, <2>1, <2>2, StreamKept
  <1>10. StreamInOrder(s)'
    <2>1. pos_r'[s] = n + 1
      BY <1>0, <1>2 DEF TypeOK
    <2>2. \A k \in 0..(pos_w[s] - 1) : Nth(s, k)' = Nth(s, k)
      <3> SUFFICES ASSUME NEW k \in 0..(pos_w[s] - 1) PROVE Nth(s, k)' = Nth(s, k)
        OBVIOUS
      <3>1. CASE k < n
        <4>1. k + 1 \in 1..n /\ k < n + 1
          BY <3>1, <1>2
        <4> QED BY <3>1, <4>1, <1>2, <1>5 DEF Nth
      <3>2. CASE k = n
        <4>1. n < n + 1
          BY <1>2
        <4>2. Nth(s, n)' = o
          BY <4>1, <1>5 DEF Nth
        <4> QED BY <3>2, <4>2, <1>3
      <3>3. CASE k > n
        <4>1. ~(k < n) /\ ~(k < n + 1) /\ ~(k < 0)
          BY <3>3, <1>2
        <4> QED BY <4>1, <1>1, <1>2, <1>5 DEF Nth, Slot
      <3> QED BY <3>1, <3>2, <3>3, <1>2
    <2>3. Committed(s)' = {Nth(s, k)' : k \in 0..(pos_w'[s] - 1)}
      <3>1. {Nth(s, k)' : k \in 0..(pos_w[s] - 1)} = {Nth(s, k) : k \in 0..(pos_w[s] - 1)}
        BY <2>2
      <3> QED BY <3>1, <1>0, <1>8 DEF StreamInOrder
    <2>4. \A j, k \in 0..(pos_w'[s] - 1) : j < k => Nth(s, j)' < Nth(s, k)'
      BY <2>2, <1>0 DEF StreamInOrder
    <2>5. \A k \in 0..(pos_w'[s] - 1) :
             k < ok_p'[s] \/ k < Len(called'[s]) => Nth(s, k)' \in ended'
      <3> SUFFICES ASSUME NEW k \in 0..(pos_w[s] - 1), k < 0 \/ k < n + 1
                   PROVE  Nth(s, k)' \in ended'
        BY <1>1, <1>2, <1>5
      <3>1. CASE k = n
        BY <3>1, <2>2, <1>1, <1>3
      <3>2. CASE k # n
        <4>1. k < Len(called[s])
          BY <3>2, <1>2
        <4> QED BY <4>1, <2>2, <1>0, <1>1 DEF StreamInOrder
      <3> QED BY <3>1, <3>2
    <2>6. /\ \A k \in pos_rp'[s]..(pos_wp'[s] - 1) : end_event'[s][Slot(k)] = Nth(s, k)'
          /\ pos_rp'[s]..(pos_wp'[s] - 1) = pos_rp[s]..(pos_wp[s] - 1)
      <3>1. \A k \in pos_rp[s]..(pos_wp[s] - 1) : FALSE
        BY <1>2
      <3> QED BY <3>1, <1>1
    <2>7. \A i \in 0..(Count - 1) :
              pending'[s][i] # Nop <=> \E k \in pos_rp'[s]..(pos_wp'[s] - 1) : Slot(k) = i
      BY <2>6, <1>0, <1>1 DEF StreamInOrder
    <2>8. IF Plugin = "host" THEN pos_wp'[s] = 0 /\ Len(called'[s]) = pos_r'[s]
                             ELSE pos_wp'[s] = pos_r'[s] /\ Len(called'[s]) = pos_rp'[s]
      BY <2>1, <1>1, <1>2, <1>5
    <2> QED BY <2>3, <2>4, <2>5, <2>6, <2>7, <2>8 DEF StreamInOrder, Slot
  <1>11. \A u \in Streams : StreamInOrder(u)'
    BY <1>9, <1>10
  <1> QED BY <1>6, <1>7, <1>11 DEF StreamInv

\* One turn of the decoding loop, with any plugin.
LEMMA OnestreamKeeps ==
    ASSUME Constants, StreamInv, OnestreamProcessInstruction, ~overrun'
    PROVE  StreamInv'
  <1>s. PICK s : s = cur
    BY Zenon
  <1>1. s \in Streams
    BY <1>s DEF StreamInv, TypeOK
  <1>2. /\ pos_r[s] # pos_w[s] /\ Decode(s, instr[s][Slot(pos_r[s])])
        /\ pos_r' = [pos_r EXCEPT ![s] = @ + 1]
        /\ UNCHANGED <<next, mutex, pos_w, pos_rp, ok_p, instr, push, spin, where, phase, cur, size>>
    BY <1>s DEF OnestreamProcessInstruction, pollVars
  <1>3. CASE Plugin = "host"
    <2>1. HostDecode(s, instr[s][Slot(pos_r[s])])
      BY <1>2, <1>3 DEF Decode
    <2> QED BY <1>1, <1>2, <1>3, <2>1, HostDecodeKeeps
  <1>4. CASE Plugin # "host"
    <2>1. Start(s, instr[s][Slot(pos_r[s])])
      BY <1>2, <1>4 DEF Decode, CudaDecodeCopy, CudaDecodeKernel, HipDecodeCopy, HipDecodeKernel
    <2> QED BY <1>1, <1>2, <1>4, <2>1, StartKeeps
  <1> QED BY <1>3, <1>4

\* The device thread goes on to another stream or another phase.
LEMMA PollKeeps ==
    ASSUME Constants, StreamInv,
           UNCHANGED <<next, mutex, pos_w, pos_r, pos_wp, pos_rp, ok_p, instr, pending, end_event, overrun,
                       push, spin, where, ended, called>>,
           phase' \in {"decode", "test", "callback"}, cur' \in Streams
    PROVE  StreamInv'
  <1>1. TypeOK'
    BY DEF StreamInv, TypeOK
  <1>2. CommitsNumbered'
    <2>1. \A u \in Streams : pos_r'[u] \in Nat /\ pos_r'[u] >= pos_r[u]
      BY Positions
    <2> QED BY <2>1, NumbersKept
  <1>3. \A u \in Streams : StreamInOrder(u)'
    BY StreamsKept
  <1> QED BY <1>1, <1>2, <1>3 DEF StreamInv

\* The loops over the streams stay among them.
LEMMA AdvanceType ==
    ASSUME Constants, StreamInv, NEW ph \in {"decode", "test", "callback"},
           NEW after \in {"decode", "test", "callback"}, Advance(ph, after)
    PROVE  phase' \in {"decode", "test", "callback"} /\ cur' \in Streams
  <1>1. cur \in Streams
    BY DEF StreamInv, TypeOK
  <1> QED BY <1>1 DEF Advance, Streams, Constants

\* The loops themselves change no ring.
LEMMA MovesKeep ==
    ASSUME Constants, StreamInv, ProcessInstruction \/ SkipStream \/ NextStream
    PROVE  StreamInv'
  <1>1. UNCHANGED <<next, mutex, pos_w, pos_r, pos_wp, pos_rp, ok_p, instr, pending, end_event, overrun,
                    push, spin, where, ended, called>>
    BY DEF ProcessInstruction, SkipStream, NextStream, posVars
  <1>2. phase' \in {"decode", "test", "callback"} /\ cur' \in Streams
    <2>1. CASE \E ph, after \in {"decode", "test", "callback"} : Advance(ph, after)
      BY <2>1, AdvanceType
    <2>2. CASE phase' = "test" /\ UNCHANGED cur
      BY <2>2 DEF StreamInv, TypeOK
    <2> QED BY <2>1, <2>2 DEF ProcessInstruction, SkipStream, NextStream
  <1> QED BY <1>1, <1>2, PollKeeps

-----------------------------------------------------------------------------
(* Completion.                                                             *)

\* The end of an operation can only help: nothing is required to be running.
LEMMA EndOperationKeeps ==
    ASSUME Constants, StreamInv, NEW o \in Ops, EndOperation(o)
    PROVE  StreamInv'
  <1>1. /\ ended' = ended \cup {o}
        /\ UNCHANGED <<next, mutex, pos_w, pos_r, pos_wp, pos_rp, ok_p, instr, pending, end_event, overrun,
                       push, spin, where, phase, cur, size, called>>
    BY DEF EndOperation, posVars, pollVars
  <1>2. TypeOK'
    BY <1>1 DEF StreamInv, TypeOK
  <1>3. CommitsNumbered'
    <2>1. \A u \in Streams : pos_r'[u] \in Nat /\ pos_r'[u] >= pos_r[u]
      BY <1>1, Positions
    <2> QED BY <1>1, <2>1, NumbersKept
  <1>4. \A u \in Streams : StreamInOrder(u)'
    BY <1>1, StreamsKept
  <1> QED BY <1>2, <1>3, <1>4 DEF StreamInv

\* ok_p moves over operations that have ended.
LEMMA OkMoves ==
    ASSUME Constants, StreamInv, NEW s \in Streams, NEW m \in ok_p[s]..pos_wp[s],
           \A i \in ok_p[s]..(m - 1) : EventDone(s, i),
           ok_p' = [ok_p EXCEPT ![s] = m], phase' = "callback",
           UNCHANGED <<next, mutex, pos_w, pos_r, pos_wp, pos_rp, instr, pending, end_event, overrun,
                       push, spin, where, ended, cur, called>>
    PROVE  StreamInv'
  <1>0. TypeOK /\ StreamInOrder(s)
    BY DEF StreamInv
  <1>1. /\ ok_p[s] \in Nat /\ pos_wp[s] \in Nat /\ m \in Nat /\ ok_p[s] <= m /\ m <= pos_wp[s]
        /\ pos_rp[s] \in Nat /\ pos_rp[s] <= ok_p[s] /\ pos_w[s] \in Nat
    BY Positions
  <1>2. ok_p' \in [Streams -> Nat] /\ \A u \in Streams : ok_p'[u] = IF u = s THEN m ELSE ok_p[u]
    BY <1>0, <1>1 DEF TypeOK
  <1>3. TypeOK'
    <2>1. \A u \in Streams : pos_rp[u] <= ok_p'[u] /\ ok_p'[u] <= pos_wp[u]
      <3> SUFFICES ASSUME NEW u \in Streams PROVE pos_rp[u] <= ok_p'[u] /\ ok_p'[u] <= pos_wp[u]
        OBVIOUS
      <3>1. CASE u = s
        BY <3>1, <1>1, <1>2
      <3>2. CASE u # s
        BY <3>2, <1>0, <1>2 DEF TypeOK
      <3> QED BY <3>1, <3>2
    <2>2. \A pos \in {pos_w', pos_r', pos_wp', pos_rp', ok_p'} : pos \in [Streams -> Nat]
      <3>1. \A pos \in {pos_w, pos_r, pos_wp, pos_rp, ok_p} : pos \in [Streams -> Nat]
        BY <1>0 DEF TypeOK
      <3> QED BY <3>1, <1>2
    <2> QED BY <1>0, <2>1, <2>2 DEF TypeOK
  <1>4. CommitsNumbered'
    <2>1. \A u \in Streams : pos_r'[u] \in Nat /\ pos_r'[u] >= pos_r[u]
      BY Positions
    <2> QED BY <2>1, NumbersKept
  <1>5. \A u \in Streams : StreamInOrder(u)'
    <2> SUFFICES ASSUME NEW u \in Streams PROVE StreamInOrder(u)'
      OBVIOUS
    <2>1. Committed(u)' = Committed(u) /\ ok_p'[u] \in Nat
      BY <1>2 DEF Committed
    <2>2. \A k \in 0..(pos_w[u] - 1) : k < ok_p'[u] => k < ok_p[u] \/ Nth(u, k) \in ended'
      <3> SUFFICES ASSUME NEW k \in 0..(pos_w[s] - 1), k < m, ~(k < ok_p[s]), u = s
                   PROVE  Nth(s, k) \in ended
        BY <1>2
      <3>1. k \in ok_p[s]..(m - 1) /\ k \in pos_rp[s]..(pos_wp[s] - 1)
        BY <1>1
      <3>2. end_event[s][Slot(k)] = Nth(s, k)
        BY <3>1, <1>0 DEF StreamInOrder
      <3> QED BY <3>1, <3>2 DEF EventDone
    <2> QED BY <2>1, <2>2, StreamKept
  <1> QED BY <1>3, <1>4, <1>5 DEF StreamInv

\* A set of natural numbers that is not empty has a least element.
LEMMA LeastExists ==
    ASSUME NEW S \in SUBSET Nat, S # {}
    PROVE  \E m \in S : \A n \in S : m <= n
  <1>1. \A m, n \in Nat : n < m => <<n, m>> \in OpToRel(<, Nat)
    BY Zenon DEF OpToRel
  <1>2. PICK R : IsWellFoundedOn(R, Nat) /\ \A m, n \in Nat : n < m => <<n, m>> \in R
    BY <1>1, NatLessThanWellFounded, Zenon
  <1>3. PICK m \in S : \A n \in S : ~ (<<n, m>> \in R)
    BY <1>2, WFMin
  <1>4. \A n \in S : ~ (n < m)
    BY <1>2, <1>3
  <1>5. \A n \in S : n \in Nat /\ m \in Nat
    OBVIOUS
  <1> QED BY <1>4, <1>5

\* The longest prefix of ended operations exists.
LEMMA OkAfterQueryRight ==
    ASSUME Constants, StreamInv, NEW s \in Streams
    PROVE  /\ OkAfterQuery(s) \in ok_p[s]..pos_wp[s]
           /\ \A i \in ok_p[s]..(OkAfterQuery(s) - 1) : EventDone(s, i)
  <1>0. ok_p[s] \in Nat /\ pos_wp[s] \in Nat /\ ok_p[s] <= pos_wp[s]
    BY Positions
  <1> DEFINE S == {k \in ok_p[s]..pos_wp[s] : k = pos_wp[s] \/ ~EventDone(s, k)}
  <1>1. S \in SUBSET Nat /\ pos_wp[s] \in S
    BY <1>0
  <1>2. PICK m \in S : \A n \in S : m <= n
    BY <1>1, LeastExists, Zenon
  <1>3. \A i \in ok_p[s]..(m - 1) : EventDone(s, i)
    <2> SUFFICES ASSUME NEW i \in ok_p[s]..(m - 1), ~EventDone(s, i) PROVE FALSE
      OBVIOUS
    <2>1. m \in Nat /\ m <= pos_wp[s]
      BY <1>0
    <2>2. i \in S /\ ~(m <= i)
      BY <1>0, <2>1
    <2> QED BY <1>2, <2>2
  <1>4. m \in ok_p[s]..pos_wp[s] /\ (m < pos_wp[s] => ~EventDone(s, m))
    BY <1>0
  <1>5. \E k \in ok_p[s]..pos_wp[s] :
            /\ \A i \in ok_p[s]..(k - 1) : EventDone(s, i)
            /\ k < pos_wp[s] => ~EventDone(s, k)
    BY <1>3, <1>4
  <1> QED BY <1>5, Zenon DEF OkAfterQuery

\* After a query or a wait, what ok_p has passed is over.
LEMMA TestKeeps ==
    ASSUME Constants, StreamInv, TestStream \/ WaitStream
    PROVE  StreamInv'
  <1>s. PICK s : s = cur
    BY Zenon
  <1>1. s \in Streams
    BY <1>s DEF StreamInv, TypeOK
  <1>2. /\ pos_rp[s] # pos_wp[s] /\ phase' = "callback"
        /\ UNCHANGED <<next, mutex, pos_w, pos_r, pos_wp, pos_rp, instr, pending, end_event, overrun,
                       push, spin, where, ended, cur, called>>
    BY <1>s DEF TestStream, WaitStream
  <1>3. Plugin \in {"cuda", "hip"} /\ ok_p[s] \in Nat /\ pos_wp[s] \in Nat /\ ok_p[s] <= pos_wp[s]
    BY <1>1, <1>2, Positions DEF Constants
  <1>4. \E m \in ok_p[s]..pos_wp[s] :
           (\A i \in ok_p[s]..(m - 1) : EventDone(s, i)) /\ ok_p' = [ok_p EXCEPT ![s] = m]
    <2>1. CASE TestStream
      <3>1. ok_p' = [ok_p EXCEPT ![s] = OkAfterQuery(s)]
        BY <1>s, <1>3, <2>1 DEF TestStream, CudaAdvancePending, HipAdvancePending
      <3> QED BY <3>1, <1>1, OkAfterQueryRight, Zenon
    <2>2. CASE WaitStream
      <3>1. (\A i \in ok_p[s]..(pos_wp[s] - 1) : EventDone(s, i))
            /\ ok_p' = [ok_p EXCEPT ![s] = pos_wp[s]]
        BY <1>s, <2>2 DEF WaitStream
      <3>2. pos_wp[s] \in ok_p[s]..pos_wp[s]
        BY <1>3
      <3> QED BY <3>1, <3>2, Zenon
    <2> QED BY <2>1, <2>2
  <1> QED BY <1>1, <1>2, <1>4, OkMoves

\* The callback of the oldest pending instruction is called.
LEMMA ProcessPendingKeeps ==
    ASSUME Constants, StreamInv, ProcessPending
    PROVE  StreamInv'
  <1>s. PICK s : s = cur
    BY Zenon
  <1>n. PICK n : n = pos_rp[s]
    BY Zenon
  <1>o. PICK o : o = pending[s][Slot(n)]
    BY Zenon
  <1>0. TypeOK /\ CommitsNumbered /\ s \in Streams
    BY <1>s DEF StreamInv, TypeOK
  <1>00. StreamInOrder(s)
    BY <1>0 DEF StreamInv
  <1>1. /\ n < ok_p[s]
        /\ called' = [called EXCEPT ![s] = IF o = Nop THEN @ ELSE Append(@, o)]
        /\ pending' = [pending EXCEPT ![s][Slot(n)] = Nop]
        /\ pos_rp' = [pos_rp EXCEPT ![s] = @ + 1]
        /\ UNCHANGED <<next, mutex, pos_w, pos_r, pos_wp, ok_p, instr, end_event, overrun, push, spin, where, ended,
                       phase, cur, size>>
    BY <1>s, <1>n, <1>o DEF ProcessPending, pollVars
  <1>2. /\ n \in Nat /\ pos_rp[s] = n /\ pos_w[s] \in Nat /\ pos_wp[s] \in Nat /\ ok_p[s] \in Nat
        /\ ok_p[s] <= pos_wp[s] /\ pos_wp[s] <= pos_w[s] /\ Len(called[s]) = n
        /\ called[s] \in Seq(Ops) /\ Plugin # "host" /\ pos_wp[s] = pos_r[s] /\ Count \in Nat
        /\ pos_wp[s] - n <= Count /\ n < pos_wp[s]
    <2>1. Plugin # "host"
      BY <1>0, <1>1, <1>n, Positions
    <2> QED BY <2>1, <1>0, <1>1, <1>n, Positions, Room DEF Constants
  <1>3. Slot(n) \in 0..(Count - 1)
    BY <1>2, SlotType
  <1>4. n \in 0..(pos_w[s] - 1) /\ Nth(s, n) = o
    <2>1. ~(n < Len(called[s])) /\ n < pos_wp[s] /\ n \in 0..(pos_w[s] - 1)
      BY <1>2
    <2> QED BY <2>1, <1>o DEF Nth
  <1>5. o \in Ops /\ o # Nop
    BY <1>0, <1>4, NthCommitted DEF Ops, Nop, Constants
  <1>6. /\ called'[s] = Append(called[s], o) /\ Len(called'[s]) = n + 1 /\ called'[s][n + 1] = o
        /\ \A k \in 1..n : called'[s][k] = called[s][k]
    <2>1. called'[s] = Append(called[s], o)
      BY <1>0, <1>1, <1>5 DEF TypeOK
    <2>2. Len(Append(called[s], o)) = Len(called[s]) + 1
          /\ \A k \in 1..(Len(called[s]) + 1) :
                Append(called[s], o)[k] = IF k = Len(called[s]) + 1 THEN o ELSE called[s][k]
      BY <1>2, <1>5
    <2>3. \A k \in 1..n : k \in 1..(n + 1) /\ k # n + 1
      BY <1>2
    <2>4. n + 1 \in 1..(n + 1)
      BY <1>2
    <2> QED BY <2>1, <2>2, <2>3, <2>4, <1>2
  <1>7. TypeOK'
    <2>1. called' \in [Streams -> Seq(Ops)]
      <3>1. Append(called[s], o) \in Seq(Ops)
        BY <1>2, <1>5
      <3>2. called \in [Streams -> Seq(Ops)] /\ called' = [called EXCEPT ![s] = Append(called[s], o)]
        BY <1>0, <1>1, <1>5 DEF TypeOK
      <3> QED BY <3>1, <3>2
    <2>2. pending' \in [Streams -> [0..(Count - 1) -> Ops \cup {Nop}]]
      <3>1. pending \in [Streams -> [0..(Count - 1) -> Ops \cup {Nop}]]
        BY <1>0 DEF TypeOK
      <3>2. [pending[s] EXCEPT ![Slot(n)] = Nop] \in [0..(Count - 1) -> Ops \cup {Nop}]
        BY <3>1, <1>0, <1>3
      <3>3. pending' = [pending EXCEPT ![s] = [pending[s] EXCEPT ![Slot(n)] = Nop]]
        BY <1>1, <3>1
      <3> QED BY <3>1, <3>2, <3>3
    <2>3. \A ring \in {instr', pending', end_event'} :
             ring \in [Streams -> [0..(Count - 1) -> Ops \cup {Nop}]]
      BY <2>2, <1>0, <1>1 DEF TypeOK
    <2>4. \A pos \in {pos_w', pos_r', pos_wp', pos_rp', ok_p'} : pos \in [Streams -> Nat]
      <3>1. \A pos \in {pos_w, pos_r, pos_wp, pos_rp, ok_p} : pos \in [Streams -> Nat]
        BY <1>0 DEF TypeOK
      <3>2. pos_rp' \in [Streams -> Nat]
        <4>1. pos_rp \in [Streams -> Nat] /\ pos_rp[s] + 1 \in Nat
          BY <3>1, <1>2
        <4> QED BY <4>1, <1>1
      <3>3. /\ pos_w' = pos_w /\ pos_r' = pos_r /\ pos_wp' = pos_wp /\ ok_p' = ok_p
        BY <1>1
      <3> QED BY <3>1, <3>2, <3>3
    <2>5. \A u \in Streams : pos_rp'[u] <= ok_p[u] /\ pos_wp[u] - pos_rp'[u] <= Count
      <3> SUFFICES ASSUME NEW u \in Streams
                   PROVE  pos_rp'[u] <= ok_p[u] /\ pos_wp[u] - pos_rp'[u] <= Count
        OBVIOUS
      <3>1. CASE u = s
        <4>1. pos_rp'[s] = n + 1
          BY <1>0, <1>1, <1>2 DEF TypeOK
        <4> QED BY <3>1, <4>1, <1>1, <1>2
      <3>2. CASE u # s
        <4>1. pos_rp'[u] = pos_rp[u]
          BY <3>2, <1>0, <1>1 DEF TypeOK
        <4> QED BY <4>1, <1>0 DEF TypeOK
      <3> QED BY <3>1, <3>2
    <2> QED BY <1>0, <1>1, <2>1, <2>3, <2>4, <2>5 DEF TypeOK
  <1>8. CommitsNumbered'
    <2>1. \A u \in Streams : pos_r'[u] \in Nat /\ pos_r'[u] >= pos_r[u]
      BY <1>1, Positions
    <2> QED BY <1>1, <2>1, NumbersKept
  <1>9. \A u \in Streams : Committed(u)' = Committed(u)
    BY <1>1 DEF Committed
  <1>10. \A u \in Streams \ {s} : StreamInOrder(u)'
    <2> SUFFICES ASSUME NEW u \in Streams \ {s} PROVE StreamInOrder(u)'
      OBVIOUS
    <2>1. pos_rp'[u] = pos_rp[u] /\ called'[u] = called[u] /\ pending'[u] = pending[u]
      BY <1>0, <1>1 DEF TypeOK
    <2>2. ok_p'[u] \in Nat
      BY <1>1, Positions
    <2> QED BY <1>1, <1>9, <2>1, <2>2, StreamKept
  <1>11. StreamInOrder(s)'
    <2>1. pos_rp'[s] = n + 1
      BY <1>0, <1>1, <1>2 DEF TypeOK
    <2>2. \A i \in 0..(Count - 1) : pending'[s][i] = IF i = Slot(n) THEN Nop ELSE pending[s][i]
      BY <1>0, <1>1, <1>3 DEF TypeOK
    <2>3. \A k \in (n + 1)..(pos_wp[s] - 1) : k \in Nat /\ Slot(k) \in 0..(Count - 1) /\ Slot(k) # Slot(n)
      <3> SUFFICES ASSUME NEW k \in (n + 1)..(pos_wp[s] - 1)
                   PROVE  k \in Nat /\ Slot(k) \in 0..(Count - 1) /\ Slot(k) # Slot(n)
        OBVIOUS
      <3>1. k \in Nat /\ n < k /\ k - n < Count
        BY <1>2
      <3> QED BY <3>1, <1>2, SlotType, SlotsDiffer
    <2>4. \A k \in 0..(pos_w[s] - 1) : Nth(s, k)' = Nth(s, k)
      <3> SUFFICES ASSUME NEW k \in 0..(pos_w[s] - 1) PROVE Nth(s, k)' = Nth(s, k)
        OBVIOUS
      <3>1. CASE k < n
        <4>1. k + 1 \in 1..n /\ k < n + 1
          BY <3>1, <1>2
        <4> QED BY <3>1, <4>1, <1>2, <1>6 DEF Nth
      <3>2. CASE k = n
        <4>1. n < n + 1
          BY <1>2
        <4>2. Nth(s, n)' = o
          BY <4>1, <1>6 DEF Nth
        <4> QED BY <3>2, <4>2, <1>4
      <3>3. CASE k > n /\ k < pos_wp[s]
        <4>1. k \in (n + 1)..(pos_wp[s] - 1) /\ ~(k < n) /\ ~(k < n + 1)
          BY <3>3, <1>2
        <4>2. pending'[s][Slot(k)] = pending[s][Slot(k)]
          BY <4>1, <2>2, <2>3
        <4> QED BY <3>3, <4>1, <4>2, <1>1, <1>2, <1>6 DEF Nth, Slot
      <3>4. CASE k > n /\ ~(k < pos_wp[s])
        <4>1. ~(k < n) /\ ~(k < n + 1)
          BY <3>4, <1>2
        <4> QED BY <3>4, <4>1, <1>1, <1>2, <1>6 DEF Nth, Slot
      <3> QED BY <3>1, <3>2, <3>3, <3>4, <1>2
    <2>5. Committed(s)' = {Nth(s, k)' : k \in 0..(pos_w'[s] - 1)}
      <3>1. {Nth(s, k)' : k \in 0..(pos_w[s] - 1)} = {Nth(s, k) : k \in 0..(pos_w[s] - 1)}
        BY <2>4
      <3>2. Committed(s) = {Nth(s, k) : k \in 0..(pos_w[s] - 1)}
        BY <1>00 DEF StreamInOrder
      <3>3. Committed(s)' = Committed(s) /\ pos_w' = pos_w
        BY <1>0, <1>1, <1>9
      <3> QED BY <3>1, <3>2, <3>3
    <2>6. \A j, k \in 0..(pos_w'[s] - 1) : j < k => Nth(s, j)' < Nth(s, k)'
      BY <2>4, <1>1, <1>00 DEF StreamInOrder
    <2>7. \A k \in 0..(pos_w'[s] - 1) :
             k < ok_p'[s] \/ k < Len(called'[s]) => Nth(s, k)' \in ended'
      <3> SUFFICES ASSUME NEW k \in 0..(pos_w[s] - 1), k < ok_p[s] \/ k < n + 1
                   PROVE  Nth(s, k)' \in ended
        BY <1>1, <1>6
      <3>1. k < ok_p[s] \/ k < Len(called[s])
        BY <1>1, <1>2
      <3> QED BY <3>1, <2>4, <1>00 DEF StreamInOrder
    <2>8. \A k \in pos_rp'[s]..(pos_wp'[s] - 1) : end_event'[s][Slot(k)] = Nth(s, k)'
      <3> SUFFICES ASSUME NEW k \in (n + 1)..(pos_wp[s] - 1)
                   PROVE  end_event[s][Slot(k)] = Nth(s, k)'
        BY <2>1, <1>1
      <3>1. k \in pos_rp[s]..(pos_wp[s] - 1) /\ k \in 0..(pos_w[s] - 1)
        BY <1>2
      <3> QED BY <3>1, <2>4, <1>00 DEF StreamInOrder
    <2>9. \A i \in 0..(Count - 1) :
              pending'[s][i] # Nop <=> \E k \in pos_rp'[s]..(pos_wp'[s] - 1) : Slot(k) = i
      <3> SUFFICES ASSUME NEW i \in 0..(Count - 1)
                   PROVE  pending'[s][i] # Nop
                            <=> \E k \in (n + 1)..(pos_wp[s] - 1) : Slot(k) = i
        BY <2>1, <1>1
      <3>1. pending[s][i] # Nop <=> \E k \in pos_rp[s]..(pos_wp[s] - 1) : Slot(k) = i
        BY <1>00 DEF StreamInOrder
      <3>2. pos_rp[s]..(pos_wp[s] - 1) = (n + 1)..(pos_wp[s] - 1) \cup {n}
        BY <1>2
      <3>3. CASE i = Slot(n)
        BY <3>3, <2>2, <2>3
      <3>4. CASE i # Slot(n)
        BY <3>1, <3>2, <3>4, <2>2
      <3> QED BY <3>3, <3>4
    <2>10. IF Plugin = "host" THEN pos_wp'[s] = 0 /\ Len(called'[s]) = pos_r'[s]
                              ELSE pos_wp'[s] = pos_r'[s] /\ Len(called'[s]) = pos_rp'[s]
      BY <2>1, <1>1, <1>2, <1>6
    <2> QED BY <2>5, <2>6, <2>7, <2>8, <2>9, <2>10 DEF StreamInOrder, Slot
  <1>12. \A u \in Streams : StreamInOrder(u)'
    BY <1>10, <1>11
  <1> QED BY <1>7, <1>8, <1>12 DEF StreamInv

-----------------------------------------------------------------------------
(* Every step, and what the invariant gives.                               *)

\* A ring that has been used beyond its tests stays so.
LEMMA OverrunStays ==
    ASSUME [Next]_vars, overrun
    PROVE  overrun'
  BY DEF Next, Push, CallPush, Spin, StreamPush, LeaveUnlocked, InsertTask, InsertCopy, Insert, PollDevice,
         OnestreamProcessInstruction, Decode, CudaDecodeCopy, CudaDecodeKernel, HipDecodeCopy,
         HipDecodeKernel, HostDecode, Start, ProcessInstruction, TestStream, SkipStream,
         ProcessPending, NextStream, WaitStream, EndOperation, vars

\* Every step that uses no ring beyond its tests keeps the invariant.
LEMMA StepKeeps ==
    ASSUME Constants, StreamInv, [Next]_vars, ~overrun'
    PROVE  StreamInv'
  <1>1. CASE \E p \in Pushers : CallPush(p)
    BY <1>1, CallPushKeeps
  <1>2. CASE \E p \in Pushers : Spin(p) \/ StreamPush(p) \/ LeaveUnlocked(p)
    BY <1>2, SpinKeeps, StreamPushKeeps DEF LeaveUnlocked
  <1>3. CASE \E p \in Pushers : InsertTask(p) \/ InsertCopy(p)
    BY <1>3, InsertKeeps DEF InsertTask, InsertCopy
  <1>4. CASE PollDevice
    BY <1>4, OnestreamKeeps, MovesKeep, TestKeeps, ProcessPendingKeeps DEF PollDevice
  <1>5. CASE WaitStream
    BY <1>5, TestKeeps
  <1>6. CASE \E o \in Ops : EndOperation(o)
    BY <1>6, EndOperationKeeps
  <1>7. CASE UNCHANGED vars
    <2>1. phase' \in {"decode", "test", "callback"} /\ cur' \in Streams
      BY <1>7 DEF vars, pollVars, StreamInv, TypeOK
    <2> QED BY <1>7, <2>1, PollKeeps DEF vars, posVars, pollVars
  <1> QED BY <1>1, <1>2, <1>3, <1>4, <1>5, <1>6, <1>7 DEF Next, Push

\* Callbacks come in the order of the pushes, once each, after the operations.
LEMMA InvGivesOrder ==
    ASSUME Constants, StreamInv
    PROVE  CallbacksInPushOrder
  <1> SUFFICES ASSUME NEW s \in Streams
               PROVE  /\ \A i, j \in 1..Len(called[s]) : i < j => called[s][i] < called[s][j]
                      /\ \A i \in 1..Len(called[s]) :
                            /\ called[s][i] \in Committed(s) \cap ended
                            /\ \A o \in Committed(s) :
                                  o < called[s][i] => \E j \in 1..i : called[s][j] = o
    BY DEF CallbacksInPushOrder
  <1> DEFINE n == Len(called[s])
  <1>0. StreamInOrder(s)
    BY DEF StreamInv
  <1>1. n \in Nat /\ pos_w[s] \in Nat /\ n <= pos_w[s]
    BY Positions
  <1>2. \A i \in 1..n : i - 1 \in 0..(pos_w[s] - 1) /\ i - 1 < n /\ Nth(s, i - 1) = called[s][i]
    <2> SUFFICES ASSUME NEW i \in 1..n
                 PROVE  i - 1 \in 0..(pos_w[s] - 1) /\ i - 1 < n /\ Nth(s, i - 1) = called[s][i]
      OBVIOUS
    <2>1. i - 1 \in 0..(pos_w[s] - 1) /\ i - 1 < n /\ (i - 1) + 1 = i
      BY <1>1
    <2> QED BY <2>1 DEF Nth
  <1> HIDE DEF n
  <1>3. \A i, j \in 1..n : i < j => called[s][i] < called[s][j]
    <2> SUFFICES ASSUME NEW i \in 1..n, NEW j \in 1..n, i < j PROVE called[s][i] < called[s][j]
      OBVIOUS
    <2>1. i - 1 < j - 1
      BY <1>1
    <2>2. Nth(s, i - 1) < Nth(s, j - 1)
      BY <2>1, <1>0, <1>2 DEF StreamInOrder
    <2> QED BY <2>2, <1>2
  <1>4. ASSUME NEW i \in 1..n PROVE called[s][i] \in Committed(s) \cap ended
    <2>1. Nth(s, i - 1) \in Committed(s)
      BY <1>2, NthCommitted
    <2>2. Nth(s, i - 1) \in ended
      BY <1>0, <1>2 DEF StreamInOrder, n
    <2> QED BY <2>1, <2>2, <1>2
  <1>5. ASSUME NEW i \in 1..n, NEW o \in Committed(s), o < called[s][i]
        PROVE  \E j \in 1..i : called[s][j] = o
    <2>1. PICK k \in 0..(pos_w[s] - 1) : Nth(s, k) = o
      BY <1>0 DEF StreamInOrder
    <2>2. Nth(s, k) \in Ops /\ Nth(s, i - 1) \in Ops /\ i - 1 \in 0..(pos_w[s] - 1)
      BY <1>2, NthCommitted
    <2>3. ~(i - 1 < k)
      <3>1. i - 1 < k => Nth(s, i - 1) < Nth(s, k)
        BY <2>2, <1>0 DEF StreamInOrder
      <3>2. Nth(s, k) < Nth(s, i - 1)
        BY <2>1, <1>2, <1>5
      <3> QED BY <3>1, <3>2, <2>2 DEF Ops, Constants
    <2>4. k + 1 \in 1..i /\ k + 1 \in 1..n /\ (k + 1) - 1 = k
      BY <2>3, <1>1
    <2>5. called[s][k + 1] = o
      BY <2>1, <2>4, <1>2
    <2> QED BY <2>4, <2>5
  <1> QED BY <1>3, <1>4, <1>5 DEF n

\* The elements of an interval and what a one-to-one function makes of them.
LEMMA IntervalImage ==
    ASSUME NEW a \in Int, NEW b \in Int, a <= b + 1, NEW T, NEW f \in [a..b -> T],
           \A j, k \in a..b : j < k => f[j] # f[k], \A t \in T : \E k \in a..b : f[k] = t
    PROVE  Cardinality(T) = b - a + 1
  <1>1. f \in Bijection(a..b, T)
    <2>1. \A j, k \in a..b : f[j] = f[k] => j = k
      <3> SUFFICES ASSUME NEW j \in a..b, NEW k \in a..b, j # k PROVE f[j] # f[k]
        OBVIOUS
      <3>1. j < k \/ k < j
        OBVIOUS
      <3> QED BY <3>1
    <2> QED BY <2>1 DEF Bijection, Injection, Surjection, IsInjective
  <1>2. IsFiniteSet(a..b) /\ Cardinality(a..b) = b - a + 1
    BY FS_Interval
  <1> QED BY <1>1, <1>2, FS_Bijection DEF ExistsBijection

\* No instruction is lost and none is overwritten.
LEMMA InvGivesRings ==
    ASSUME Constants, StreamInv
    PROVE  RingsKeepInstructions
  <1> SUFFICES ASSUME NEW s \in Streams
               PROVE  Cardinality(Committed(s)) =
                        Len(called[s]) + (pos_w[s] - pos_r[s])
                          + Cardinality({i \in 0..(Count - 1) : pending[s][i] # Nop})
    BY DEF RingsKeepInstructions
  <1>0. StreamInOrder(s)
    BY DEF StreamInv
  <1>1. /\ pos_w[s] \in Nat /\ pos_r[s] \in Nat /\ pos_wp[s] \in Nat /\ pos_rp[s] \in Nat
        /\ Len(called[s]) \in Nat /\ pos_rp[s] <= pos_wp[s] /\ Count \in Nat
        /\ pos_wp[s] - pos_rp[s] <= Count
        /\ IF Plugin = "host" THEN pos_wp[s] = 0 /\ Len(called[s]) = pos_r[s]
           ELSE pos_wp[s] = pos_r[s] /\ Len(called[s]) = pos_rp[s]
    <2>1. Count \in Nat
      BY DEF Constants
    <2>2. pos_wp[s] - pos_rp[s] <= Count
      BY DEF StreamInv, TypeOK
    <2>3. /\ pos_w[s] \in Nat /\ pos_r[s] \in Nat /\ pos_wp[s] \in Nat /\ pos_rp[s] \in Nat
          /\ pos_rp[s] <= pos_wp[s] /\ Len(called[s]) \in Nat
      BY Positions DEF StreamInv
    <2>4. IF Plugin = "host" THEN pos_wp[s] = 0 /\ Len(called[s]) = pos_r[s]
          ELSE pos_wp[s] = pos_r[s] /\ Len(called[s]) = pos_rp[s]
      BY <1>0 DEF StreamInOrder
    <2> QED BY <2>1, <2>2, <2>3, <2>4
  <1>2. Cardinality(Committed(s)) = pos_w[s]
    <2> DEFINE f == [k \in 0..(pos_w[s] - 1) |-> Nth(s, k)]
    <2>1. f \in [0..(pos_w[s] - 1) -> Committed(s)]
      BY NthCommitted
    <2>2. \A j, k \in 0..(pos_w[s] - 1) : j < k => f[j] # f[k]
      <3> SUFFICES ASSUME NEW j \in 0..(pos_w[s] - 1), NEW k \in 0..(pos_w[s] - 1), j < k
                   PROVE  Nth(s, j) # Nth(s, k)
        OBVIOUS
      <3>1. Nth(s, j) < Nth(s, k) /\ Nth(s, j) \in Ops /\ Nth(s, k) \in Ops
        BY <1>0, NthCommitted DEF StreamInOrder
      <3> QED BY <3>1 DEF Ops, Constants
    <2>3. \A o \in Committed(s) : \E k \in 0..(pos_w[s] - 1) : f[k] = o
      BY <1>0 DEF StreamInOrder
    <2> HIDE DEF f
    <2>4. 0 <= (pos_w[s] - 1) + 1 /\ pos_w[s] - 1 \in Int /\ (pos_w[s] - 1) - 0 + 1 = pos_w[s]
      BY <1>1
    <2> QED BY <2>1, <2>2, <2>3, <2>4, IntervalImage
  <1>3. Cardinality({i \in 0..(Count - 1) : pending[s][i] # Nop}) = pos_wp[s] - pos_rp[s]
    <2> DEFINE a == pos_rp[s]
               b == pos_wp[s] - 1
               T == {i \in 0..(Count - 1) : pending[s][i] # Nop}
               f == [k \in a..b |-> Slot(k)]
    <2>0. \A k \in a..b : k \in Nat /\ a <= k /\ k - a < Count
      BY <1>1
    <2>1. f \in [a..b -> T]
      <3> SUFFICES ASSUME NEW k \in a..b PROVE Slot(k) \in T
        OBVIOUS
      <3>1. Slot(k) \in 0..(Count - 1)
        BY <2>0, SlotType
      <3> QED BY <3>1, <1>0 DEF StreamInOrder
    <2>2. \A j, k \in a..b : j < k => f[j] # f[k]
      <3> SUFFICES ASSUME NEW j \in a..b, NEW k \in a..b, j < k PROVE Slot(j) # Slot(k)
        OBVIOUS
      <3>1. j \in Nat /\ k \in Nat /\ k - j < Count
        BY <1>1, <2>0
      <3> QED BY <3>1, SlotsDiffer
    <2>3. \A t \in T : \E k \in a..b : f[k] = t
      BY <1>0 DEF StreamInOrder
    <2>4. a \in Int /\ b \in Int /\ a <= b + 1 /\ b - a + 1 = pos_wp[s] - pos_rp[s]
      BY <1>1
    <2> HIDE DEF f, a, b, T
    <2>5. Cardinality(T) = b - a + 1
      BY <2>1, <2>2, <2>3, <2>4, IntervalImage
    <2> QED BY <2>4, <2>5 DEF T
  <1> QED BY <1>1, <1>2, <1>3

\* What the streams promise follows from the invariant.
LEMMA InvIsSound ==
    ASSUME Constants, ~overrun => StreamInv
    PROVE  StreamSound
  BY InvGivesOrder, InvGivesRings DEF StreamSound

-----------------------------------------------------------------------------
(* Theorem.                                                                *)

\* As long as no pending ring took an instruction when it was full and no thread
\* left the loop of its push without the mutex: callbacks are called once each,
\* in the order of the pushes and after their operations, and no instruction is
\* lost between two pushers nor overwritten in the pending ring
\* (kaapi_offload_stream_push, kaapi_offload_stream_process_pending).
THEOREM StreamSoundHolds ==
    ASSUME Constants
    PROVE  Spec => []StreamSound
  <1> DEFINE IInv == ~overrun => StreamInv
  <1>1. Init => IInv
    BY InitRight
  <1>2. IInv /\ [Next]_vars => IInv'
    BY StepKeeps, OverrunStays
  <1>3. IInv => StreamSound
    BY InvIsSound
  <1> QED BY <1>1, <1>2, <1>3, PTL DEF Spec
=============================================================================
