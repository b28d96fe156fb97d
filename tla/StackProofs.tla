----------------------------- MODULE StackProofs -----------------------------
(***************************************************************************)
(* The stack of task descriptors keeps its promises, under the             *)
(* specification that composes the data structures and for every value of  *)
(* its constants.                                                          *)
(*                                                                         *)
(* StackInv says that there are two lists of blocs, L of the stack and F   *)
(* of the allocator, that the links go through and that hold every bloc;   *)
(* that the bloc where a frame was opened is one of L, not before that of  *)
(* the frame below; and that sp is behind each descriptor of its bloc.     *)
(* What a pop gives back is then the end of L, which comes to the head of  *)
(* F in the reverse order.                                                 *)
(***************************************************************************)
EXTENDS Structures, FiniteSetTheorems, NaturalsInduction, TLAPS

\* A set of natural numbers with an element has a least one.
LEMMA LeastExists ==
    ASSUME NEW S \in SUBSET Nat, S # {}
    PROVE  \E m \in S : \A n \in S : m <= n
  <1>1. \A m, n \in Nat : n < m => <<n, m>> \in OpToRel(<, Nat)
    BY Zenon DEF OpToRel
  <1>2. PICK R : IsWellFoundedOn(R, Nat) /\ \A m, n \in Nat : n < m => <<n, m>> \in R
    BY <1>1, NatLessThanWellFounded, Zenon
  <1>3. PICK m \in S : \A n \in S : ~ (<<n, m>> \in R)
    BY <1>2, WFMin
  <1>4. \A n \in S : ~ (n < m)
    BY <1>2, <1>3
  <1>5. \A n \in S : n \in Nat /\ m \in Nat
    OBVIOUS
  <1> QED BY <1>4, <1>5

-----------------------------------------------------------------------------
(* TaskStack: the blocs of the stack are a list L of n blocs, those of the  *)
(* allocator a list F of m blocs.                                          *)

\* The links go through the n blocs of L.
StackLinked(L, n) ==
    /\ n \in Nat /\ L \in [1..n -> Stack!Blocs]
    /\ \A j, k \in 1..n : L[j] = L[k] => j = k
    /\ \A k \in 1..n : next[L[k]] = IF k = n THEN Stack!None ELSE L[k + 1]
StackLists(L, n, F, m) ==
    /\ StackLinked(L, n) /\ StackLinked(F, m)
    /\ \A j \in 1..n, k \in 1..m : L[j] # F[k]
    /\ malloced = {L[k] : k \in 1..n} \cup {F[k] : k \in 1..m}
    /\ head = IF m = 0 THEN Stack!None ELSE F[1]
    /\ bloc0 = IF n = 0 THEN Stack!None ELSE L[1]
    /\ bloc = IF n = 0 THEN Stack!None ELSE L[n]

\* A frame was opened with sp in the bloc of rank p, and the bloc then current
\* was not a later one.
StackFrame(L, f, p) ==
    /\ f.sp \in [bloc : {L[p]}, off : Nat] /\ f.sp.off >= StackHeader
    /\ \E q \in 1..p : f.save_bloc_sp = L[q]
StackFrames(L, n) ==
    /\ phase \in {"unbound", "closed", "open", "synced"}
    /\ phase = "unbound" <=> n = 0
    /\ phase = "closed" => \E f : frames = <<f>> /\ \E p \in 1..n : StackFrame(L, f, p)
    /\ phase \in {"open", "synced"} =>
          \E f, g : /\ frames = <<f, g>>
                    /\ \E q \in 1..n : \E p \in 1..q : StackFrame(L, f, p) /\ StackFrame(L, g, q)

\* sp is behind every descriptor of its bloc.
StackTasks(L, n) ==
    /\ sp \in [bloc : {bloc}, off : Nat] /\ (n # 0 => sp.off >= StackHeader)
    /\ phase # "open" => tasks = {}
    /\ \A t \in tasks :
          /\ t \in [bloc : {L[k] : k \in 1..n}, first : Nat, size : Nat]
          /\ t.first >= StackHeader /\ t.first + t.size <= StackCap
          /\ t.bloc = bloc => t.first + t.size <= sp.off
          /\ \A u \in tasks : u.bloc = t.bloc /\ u # t =>
                u.first + u.size <= t.first \/ t.first + t.size <= u.first

StackGood(L, n, F, m) ==
    /\ next \in [Stack!Blocs -> Int]
    /\ StackLists(L, n, F, m) /\ StackFrames(L, n) /\ StackTasks(L, n)
StackInv == \E n, m \in Nat : \E L \in [1..n -> Stack!Blocs], F \in [1..m -> Stack!Blocs] :
                StackGood(L, n, F, m)

\* The instance has the library's operators.
LEMMA SameStack == \A S : Stack!Cardinality(S) = Cardinality(S)
  BY Zenon DEF Stack!Cardinality, Cardinality

\* A list without repetition has no more elements than there are blocs.
LEMMA StackShort ==
    ASSUME NEW n \in Nat, NEW L \in [1..n -> Stack!Blocs],
           \A j, k \in 1..n : L[j] = L[k] => j = k
    PROVE  n <= StackMaxBlocs
  <1> SUFFICES ASSUME n > StackMaxBlocs PROVE FALSE
    BY StructuresAssumption
  <1> DEFINE one == 1
  <1>0. one \in Int /\ n \in Int /\ StackMaxBlocs \in Int /\ StackMaxBlocs \in Nat
    BY StructuresAssumption
  <1>1. IsFiniteSet(one..n) /\ Cardinality(one..n) = IF one > n THEN 0 ELSE n - one + 1
    <2> HIDE DEF one
    <2> QED BY <1>0, FS_Interval
  <1>2. /\ IsFiniteSet(one..StackMaxBlocs)
        /\ Cardinality(one..StackMaxBlocs)
             = IF one > StackMaxBlocs THEN 0 ELSE StackMaxBlocs - one + 1
    <2> HIDE DEF one
    <2> QED BY <1>0, FS_Interval
  <1>3. Cardinality(one..StackMaxBlocs) < Cardinality(one..n)
    BY <1>0, <1>1, <1>2
  <1>4. L \in [one..n -> one..StackMaxBlocs]
    BY DEF Stack!Blocs
  <1>5. \E x, y \in one..n : x # y /\ L[x] = L[y]
    <2> HIDE DEF one
    <2> QED BY <1>1, <1>2, <1>3, <1>4, FS_PigeonHole
  <1> QED BY <1>5

\* W is the walk from b.
StackWalk(W, b) ==
    W = [i \in 0..StackMaxBlocs |-> IF i = 0 THEN b
            ELSE IF W[i - 1] = Stack!None THEN Stack!None ELSE next[W[i - 1]]]

\* What After computes, when W is the walk from b and leaves the list after c
\* blocs.
LEMMA StackAfterWalk ==
    ASSUME NEW b, NEW W, NEW c \in 0..StackMaxBlocs,
           StackWalk(W, b), \A i \in 1..StackMaxBlocs : W[i] # Stack!None <=> i <= c
    PROVE  Stack!After(b) = [k \in 1..c |-> W[k]]
  <1> DEFINE V == CHOOSE g : g = [i \in 0..StackMaxBlocs |-> IF i = 0 THEN b
                    ELSE IF g[i - 1] = Stack!None THEN Stack!None ELSE next[g[i - 1]]]
             S == {i \in 0..StackMaxBlocs : V[i] # W[i]}
             D == {k \in 1..StackMaxBlocs : V[k] # Stack!None}
  <1>0. StackMaxBlocs \in Nat
    BY StructuresAssumption
  <1>1. StackWalk(V, b)
    BY Zenon DEF StackWalk
  <1>2. Stack!After(b) = [k \in 1..Stack!Cardinality(D) |-> V[k]]
    BY Zenon DEF Stack!After
  <1> HIDE DEF V
  <1>3. ASSUME S # {} PROVE FALSE
    <2>1. S \in SUBSET Nat
      BY <1>0
    <2>2. PICK i \in S : \A x \in S : i <= x
      BY <1>3, <2>1, LeastExists, Zenon
    <2>3. i \in 0..StackMaxBlocs /\ V[i] # W[i]
      OBVIOUS
    <2>4. W[0] = b /\ V[0] = b
      BY <1>0, <1>1 DEF StackWalk
    <2>5. i # 0
      BY <2>3, <2>4
    <2>6. i - 1 \in 0..StackMaxBlocs /\ ~(i <= i - 1)
      BY <1>0, <2>3, <2>5
    <2>7. V[i - 1] = W[i - 1]
      BY <2>2, <2>6
    <2>8. V[i] = IF V[i - 1] = Stack!None THEN Stack!None ELSE next[V[i - 1]]
      BY <1>1, <2>3, <2>5 DEF StackWalk
    <2>9. W[i] = IF W[i - 1] = Stack!None THEN Stack!None ELSE next[W[i - 1]]
      BY <2>3, <2>5 DEF StackWalk
    <2> QED BY <2>3, <2>7, <2>8, <2>9
  <1>4. \A i \in 0..StackMaxBlocs : V[i] = W[i]
    BY <1>3
  <1>5. D = 1..c
    BY <1>0, <1>4
  <1>6. Cardinality(1..c) = c
    <2> DEFINE one == 1
    <2>1. one \in Int /\ c \in Int
      BY <1>0
    <2>2. Cardinality(one..c) = IF one > c THEN 0 ELSE c - one + 1
      <3> HIDE DEF one
      <3> QED BY <2>1, FS_Interval
    <2> QED BY <2>2, <1>0
  <1>7. Stack!Cardinality(D) = c
    BY <1>5, <1>6, SameStack
  <1> HIDE DEF D
  <1> QED BY <1>0, <1>2, <1>4, <1>7

\* The blocs after the one of rank j.
LEMMA StackAfterIs ==
    ASSUME NEW n, NEW L, StackLinked(L, n), NEW j \in 1..n
    PROVE  Stack!After(L[j]) = [k \in 1..(n - j) |-> L[j + k]]
  <1> DEFINE W == [i \in 0..StackMaxBlocs |-> IF j + i <= n THEN L[j + i] ELSE Stack!None]
             c == n - j
  <1>0. /\ n \in Nat /\ StackMaxBlocs \in Nat /\ n <= StackMaxBlocs /\ c \in 0..StackMaxBlocs
        /\ L \in [1..n -> Stack!Blocs]
    BY StackShort, StructuresAssumption DEF StackLinked
  <1>1. \A i \in 1..n : L[i] # Stack!None
    BY <1>0 DEF Stack!Blocs, Stack!None
  <1>2. StackWalk(W, L[j])
    <2> SUFFICES ASSUME NEW i \in 0..StackMaxBlocs
                 PROVE  W[i] = IF i = 0 THEN L[j]
                    ELSE IF W[i - 1] = Stack!None THEN Stack!None ELSE next[W[i - 1]]
      BY Zenon DEF StackWalk
    <2>1. CASE i = 0
      BY <2>1, <1>0
    <2>2. CASE i # 0 /\ j + (i - 1) <= n
      <3>1. W[i - 1] = L[j + (i - 1)] /\ j + (i - 1) \in 1..n
        BY <2>2, <1>0
      <3>2. next[L[j + (i - 1)]] = IF j + (i - 1) = n THEN Stack!None ELSE L[j + (i - 1) + 1]
        BY <3>1 DEF StackLinked
      <3>3. j + (i - 1) + 1 = j + i /\ (j + (i - 1) = n <=> ~(j + i <= n))
        BY <2>2, <1>0
      <3> QED BY <2>2, <3>1, <3>2, <3>3, <1>1, <1>0
    <2>3. CASE i # 0 /\ ~(j + (i - 1) <= n)
      <3>1. W[i - 1] = Stack!None /\ W[i] = Stack!None
        BY <2>3, <1>0
      <3> QED BY <2>3, <3>1
    <2> QED BY <2>1, <2>2, <2>3
  <1>3. \A i \in 1..StackMaxBlocs : W[i] # Stack!None <=> i <= c
    BY <1>0, <1>1
  <1>4. \A k \in 1..c : W[k] = L[j + k]
    BY <1>0
  <1> HIDE DEF W, c
  <1>5. Stack!After(L[j]) = [k \in 1..c |-> W[k]]
    BY <1>0, <1>2, <1>3, StackAfterWalk
  <1>6. Stack!After(L[j]) = [k \in 1..c |-> L[j + k]]
    BY <1>4, <1>5
  <1> QED BY <1>6 DEF c

\* Nothing comes after no bloc.
LEMMA StackAfterNone == Stack!After(Stack!None) = [k \in 1..0 |-> Stack!None]
  <1> DEFINE W == [i \in 0..StackMaxBlocs |-> Stack!None]
  <1>0. StackMaxBlocs \in Nat /\ 0 \in 0..StackMaxBlocs
    BY StructuresAssumption
  <1>1. StackWalk(W, Stack!None)
    <2> SUFFICES ASSUME NEW i \in 0..StackMaxBlocs, i # 0 PROVE W[i - 1] = Stack!None
      BY Zenon DEF StackWalk
    <2> QED BY <1>0
  <1>2. \A i \in 1..StackMaxBlocs : W[i] # Stack!None <=> i <= 0
    BY <1>0
  <1> HIDE DEF W
  <1>3. Stack!After(Stack!None) = [k \in 1..0 |-> W[k]]
    BY <1>0, <1>1, <1>2, StackAfterWalk
  <1> QED BY <1>3, <1>0

\* The blocs of a list, as the properties find them.
LEMMA StackListedIs ==
    ASSUME NEW n, NEW L, StackLinked(L, n), NEW b, b = IF n = 0 THEN Stack!None ELSE L[1]
    PROVE  Stack!Listed(b) = {L[k] : k \in 1..n}
  <1>0. n \in Nat /\ L \in [1..n -> Stack!Blocs]
    BY DEF StackLinked
  <1>1. CASE n = 0
    BY <1>1 DEF Stack!Listed
  <1>2. CASE n # 0
    <2>1. 1 \in 1..n /\ b = L[1] /\ b # Stack!None
      BY <1>0, <1>2 DEF Stack!Blocs, Stack!None
    <2>2. Stack!After(b) = [k \in 1..(n - 1) |-> L[1 + k]]
      BY <2>1, StackAfterIs
    <2>3. {Stack!After(b)[k] : k \in DOMAIN Stack!After(b)} = {L[1 + k] : k \in 1..(n - 1)}
      <3> DEFINE A == Stack!After(b)
      <3>1. DOMAIN A = 1..(n - 1) /\ \A k \in 1..(n - 1) : A[k] = L[1 + k]
        BY <2>1, <2>2
      <3> HIDE DEF A
      <3>2. {A[k] : k \in DOMAIN A} = {L[1 + k] : k \in 1..(n - 1)}
        BY <3>1
      <3> QED BY <3>2 DEF A
    <2>4. Stack!Listed(b) = {L[1]} \cup {L[1 + k] : k \in 1..(n - 1)}
      BY <2>1, <2>3 DEF Stack!Listed
    <2>5. \A k \in 1..n : k = 1 \/ (k - 1 \in 1..(n - 1) /\ 1 + (k - 1) = k)
      BY <1>0
    <2>6. \A k \in 1..(n - 1) : 1 + k \in 1..n
      BY <1>0
    <2>7. {L[k] : k \in 1..n} \subseteq {L[1]} \cup {L[1 + k] : k \in 1..(n - 1)}
      <3> SUFFICES ASSUME NEW k \in 1..n, k # 1 PROVE \E i \in 1..(n - 1) : L[k] = L[1 + i]
        OBVIOUS
      <3> QED BY <2>5
    <2> QED BY <2>1, <2>4, <2>6, <2>7
  <1> QED BY <1>1, <1>2

\* The bloc N, out of the free ones, is linked behind L; G stays free.
StackLinkedBehind(L, n, G, i, N, b) ==
    /\ StackLinked(L, n) /\ StackLinked(G, i)
    /\ \A j \in 1..n, k \in 1..i : L[j] # G[k]
    /\ N \in Stack!Blocs /\ (\A k \in 1..n : L[k] # N) /\ (\A k \in 1..i : G[k] # N)
    /\ b = IF n = 0 THEN Stack!None ELSE L[n]
    /\ next \in [Stack!Blocs -> Int]
    /\ next' = [c \in Stack!Blocs |-> IF c = N THEN Stack!None ELSE IF c = b THEN N ELSE next[c]]
    /\ malloced' = {L[k] : k \in 1..n} \cup {G[k] : k \in 1..i} \cup {N}
    /\ head' = (IF i = 0 THEN Stack!None ELSE G[1]) /\ bloc' = N
    /\ bloc0' = IF n = 0 THEN N ELSE L[1]

\* The longer list is then the stack.
LEMMA StackAppended ==
    ASSUME NEW n, NEW L, NEW i, NEW G, NEW N, NEW b, StackLinkedBehind(L, n, G, i, N, b)
    PROVE  \E M \in [1..(n + 1) -> Stack!Blocs] :
               /\ \A k \in 1..n : M[k] = L[k]
               /\ M[n + 1] = N /\ StackLists(M, n + 1, G, i)' /\ next' \in [Stack!Blocs -> Int]
  <1> USE DEF StackLinkedBehind
  <1> DEFINE M == [k \in 1..(n + 1) |-> IF k = n + 1 THEN N ELSE L[k]]
  <1>0. /\ n \in Nat /\ n + 1 \in Nat /\ n + 1 # 0 /\ i \in Nat
        /\ L \in [1..n -> Stack!Blocs] /\ G \in [1..i -> Stack!Blocs]
    BY DEF StackLinked
  <1>1. M \in [1..(n + 1) -> Stack!Blocs] /\ M[n + 1] = N /\ \A k \in 1..n : M[k] = L[k]
    BY <1>0
  <1>2. \A k \in 1..n : k \in 1..(n + 1) /\ k # n + 1
    BY <1>0
  <1>3. \A k \in 1..(n + 1) : k \in 1..n \/ k = n + 1
    BY <1>0
  <1>a. n + 1 \in 1..(n + 1) /\ 1 \in 1..(n + 1) /\ (n # 0 => 1 \in 1..n /\ n \in 1..n)
    BY <1>0
  <1> HIDE DEF M
  <1>4. next' \in [Stack!Blocs -> Int] /\ next'[N] = Stack!None
    BY DEF Stack!Blocs, Stack!None
  <1>5. \A k \in 1..n : next'[L[k]] = IF k = n THEN N ELSE L[k + 1]
    <2> SUFFICES ASSUME NEW k \in 1..n PROVE next'[L[k]] = IF k = n THEN N ELSE L[k + 1]
      OBVIOUS
    <2>1. L[k] \in Stack!Blocs /\ L[k] # N /\ n # 0
      BY <1>0
    <2>2. b = L[n] /\ n \in 1..n
      BY <2>1, <1>a
    <2>3. L[k] = b <=> k = n
      BY <2>2 DEF StackLinked
    <2>4. next[L[k]] = IF k = n THEN Stack!None ELSE L[k + 1]
      BY DEF StackLinked
    <2> QED BY <2>1, <2>3, <2>4
  <1>6. \A k \in 1..i : next'[G[k]] = next[G[k]]
    <2> SUFFICES ASSUME NEW k \in 1..i PROVE next'[G[k]] = next[G[k]]
      OBVIOUS
    <2>1. G[k] \in Stack!Blocs /\ G[k] # N
      BY <1>0
    <2>2. G[k] # b
      BY <2>1, <1>a DEF Stack!Blocs, Stack!None
    <2> QED BY <2>1, <2>2
  <1>7. StackLinked(G, i)'
    BY <1>6 DEF StackLinked
  <1>8. StackLinked(M, n + 1)'
    <2>1. \A j, k \in 1..(n + 1) : M[j] = M[k] => j = k
      <3> SUFFICES ASSUME NEW j \in 1..(n + 1), NEW k \in 1..(n + 1), M[j] = M[k] PROVE j = k
        OBVIOUS
      <3>1. CASE j \in 1..n /\ k \in 1..n
        BY <3>1, <1>1 DEF StackLinked
      <3>2. CASE j = n + 1 \/ k = n + 1
        BY <3>2, <1>1, <1>3
      <3> QED BY <3>1, <3>2, <1>3
    <2>2. \A k \in 1..(n + 1) : next'[M[k]] = IF k = n + 1 THEN Stack!None ELSE M[k + 1]
      <3> SUFFICES ASSUME NEW k \in 1..n PROVE next'[M[k]] = M[k + 1]
        BY <1>1, <1>2, <1>3, <1>4
      <3>1. M[k] = L[k] /\ M[k + 1] = IF k = n THEN N ELSE L[k + 1]
        BY <1>0, <1>1
      <3> QED BY <3>1, <1>5
    <2> QED BY <1>0, <1>1, <2>1, <2>2 DEF StackLinked
  <1>9. \A j \in 1..(n + 1), k \in 1..i : M[j] # G[k]
    BY <1>1, <1>3
  <1>10. {M[k] : k \in 1..(n + 1)} = {L[k] : k \in 1..n} \cup {N}
    BY <1>1, <1>2, <1>3, <1>a
  <1>11. malloced' = {M[k] : k \in 1..(n + 1)} \cup {G[k] : k \in 1..i}
    BY <1>10
  <1>12. bloc0' = M[1] /\ bloc' = M[n + 1]
    BY <1>0, <1>1, <1>a
  <1>13. StackLists(M, n + 1, G, i)'
    BY <1>0, <1>7, <1>8, <1>9, <1>11, <1>12 DEF StackLists
  <1> QED BY <1>1, <1>4, <1>13

\* The stack goes on with a new bloc, N.
StackTaken(L, n) ==
    \E N \in Stack!Blocs : /\ N = Stack!NewBloc /\ \A k \in 1..n : L[k] # N
      /\ \E M \in [1..(n + 1) -> Stack!Blocs] :
           /\ \A k \in 1..n : M[k] = L[k]
           /\ M[n + 1] = N /\ next' \in [Stack!Blocs -> Int]
           /\ \E i \in Nat : \E G \in [1..i -> Stack!Blocs] : StackLists(M, n + 1, G, i)'

\* kaapi_stackallocator_alloc: the first bloc of the allocator, or a new one, is
\* linked behind the blocs of the stack.
LEMMA StackTake ==
    ASSUME NEW n, NEW L, NEW m, NEW F, StackLists(L, n, F, m), next \in [Stack!Blocs -> Int],
           NEW b, b = IF n = 0 THEN Stack!None ELSE L[n],
           Stack!CanAlloc, Stack!TakeBloc(b), bloc0' = IF n = 0 THEN Stack!NewBloc ELSE bloc0
    PROVE  StackTaken(L, n)
  <1>0. /\ n \in Nat /\ m \in Nat
        /\ L \in [1..n -> Stack!Blocs] /\ F \in [1..m -> Stack!Blocs]
        /\ StackLinked(L, n) /\ StackLinked(F, m)
    BY DEF StackLists, StackLinked
  <1>1. \A k \in 1..n : L[k] \in Stack!Blocs
    BY <1>0
  <1>2. \A k \in 1..m : F[k] \in Stack!Blocs /\ F[k] # Stack!None
    BY <1>0 DEF Stack!Blocs, Stack!None
  <1>3. head = Stack!None <=> m = 0
    BY <1>0, <1>2 DEF StackLists
  <1>4. PICK N : N = Stack!NewBloc
    OBVIOUS
  <1>5. next' = [c \in Stack!Blocs |-> IF c = N THEN Stack!None ELSE IF c = b THEN N ELSE next[c]]
    BY <1>4, Zenon DEF Stack!TakeBloc
  <1>6. malloced' = malloced \cup {N} /\ bloc' = N
    BY <1>4, Zenon DEF Stack!TakeBloc
  <1>7. bloc0' = IF n = 0 THEN N ELSE L[1]
    BY <1>0, <1>4 DEF StackLists
  <1>8. CASE m = 0
    <2>1. malloced = {L[k] : k \in 1..n}
      BY <1>8 DEF StackLists
    <2>2. head = Stack!None
      BY <1>3, <1>8
    <2>3. \E x : x \in Stack!Blocs \ malloced
      BY <2>1, <2>2, <1>1 DEF Stack!CanAlloc
    <2>4. N \in Stack!Blocs \ malloced
      BY <1>4, <2>2, <2>3, Zenon DEF Stack!NewBloc
    <2>5. head' = Stack!None
      BY <2>2 DEF Stack!TakeBloc
    <2>6. \A k \in 1..n : L[k] # N
      BY <2>1, <2>4
    <2> DEFINE G == [k \in 1..0 |-> N]
    <2>7. StackLinked(G, 0) /\ G \in [1..0 -> Stack!Blocs] /\ 0 \in Nat
      BY DEF StackLinked
    <2>8. malloced' = {L[k] : k \in 1..n} \cup {G[k] : k \in 1..0} \cup {N}
      BY <2>1, <1>6
    <2>9. /\ \A j \in 1..n, k \in 1..0 : L[j] # G[k]
          /\ \A k \in 1..0 : G[k] # N
      OBVIOUS
    <2> HIDE DEF G
    <2>10. \E M \in [1..(n + 1) -> Stack!Blocs] :
               /\ \A k \in 1..n : M[k] = L[k]
               /\ M[n + 1] = N /\ StackLists(M, n + 1, G, 0)' /\ next' \in [Stack!Blocs -> Int]
      <3>1. StackLinkedBehind(L, n, G, 0, N, b)
        BY <1>0, <1>5, <1>6, <1>7, <2>4, <2>5, <2>6, <2>7, <2>8, <2>9 DEF StackLinkedBehind
      <3> QED BY <3>1, StackAppended
    <2> QED BY <1>4, <2>4, <2>6, <2>7, <2>10 DEF StackTaken
  <1>9. CASE m # 0
    <2>1. head # Stack!None /\ head = F[1] /\ 1 \in 1..m
      BY <1>0, <1>3, <1>9 DEF StackLists
    <2>2. N = F[1] /\ N \in Stack!Blocs
      BY <1>2, <1>4, <2>1 DEF Stack!NewBloc
    <2> DEFINE G == [k \in 1..(m - 1) |-> F[k + 1]]
    <2>3. m - 1 \in Nat /\ \A k \in 1..(m - 1) : k + 1 \in 1..m /\ k + 1 # 1
      BY <1>0, <1>9
    <2>4. G \in [1..(m - 1) -> Stack!Blocs]
      BY <2>3, <1>2
    <2>5. \A k \in 1..(m - 1) : G[k] = F[k + 1]
      OBVIOUS
    <2> HIDE DEF G
    <2>6. StackLinked(G, m - 1)
      <3>1. \A j, k \in 1..(m - 1) : G[j] = G[k] => j = k
        <4> SUFFICES ASSUME NEW j \in 1..(m - 1), NEW k \in 1..(m - 1), G[j] = G[k] PROVE j = k
          OBVIOUS
        <4>1. j + 1 = k + 1
          BY <2>3, <2>5, <1>0 DEF StackLinked
        <4> QED BY <4>1
      <3>2. \A k \in 1..(m - 1) : next[G[k]] = IF k = m - 1 THEN Stack!None ELSE G[k + 1]
        <4> SUFFICES ASSUME NEW k \in 1..(m - 1)
                     PROVE next[G[k]] = IF k = m - 1 THEN Stack!None ELSE G[k + 1]
          OBVIOUS
        <4>1. next[F[k + 1]] = IF k + 1 = m THEN Stack!None ELSE F[k + 1 + 1]
          BY <2>3, <1>0 DEF StackLinked
        <4>2. k # m - 1 => k + 1 \in 1..(m - 1)
          BY <2>3
        <4>3. k = m - 1 <=> k + 1 = m
          BY <1>0
        <4> QED BY <4>1, <4>2, <4>3, <2>5
      <3> QED BY <2>3, <2>4, <3>1, <3>2 DEF StackLinked
    <2>7. \A k \in 1..n : L[k] # N
      BY <2>1, <2>2 DEF StackLists
    <2>8. \A k \in 1..(m - 1) : G[k] # N
      BY <2>1, <2>2, <2>3, <2>5, <1>0 DEF StackLinked
    <2>9. \A j \in 1..n, k \in 1..(m - 1) : L[j] # G[k]
      BY <2>3, <2>5 DEF StackLists
    <2>10. head' = IF m - 1 = 0 THEN Stack!None ELSE G[1]
      <3>1. head' = next[F[1]]
        BY <2>1 DEF Stack!TakeBloc
      <3>2. next[F[1]] = IF 1 = m THEN Stack!None ELSE F[1 + 1]
        BY <2>1, <1>0 DEF StackLinked
      <3>3. m - 1 # 0 => 1 \in 1..(m - 1)
        BY <1>0, <1>9
      <3>4. 1 = m <=> m - 1 = 0
        BY <1>0
      <3> QED BY <3>1, <3>2, <3>3, <3>4, <2>5
    <2>11. malloced' = {L[k] : k \in 1..n} \cup {G[k] : k \in 1..(m - 1)} \cup {N}
      <3>1. \A k \in 1..m : k = 1 \/ (k - 1 \in 1..(m - 1) /\ F[k] = G[k - 1])
        BY <1>0, <2>5
      <3>2. {F[k] : k \in 1..m} \subseteq {G[k] : k \in 1..(m - 1)} \cup {N}
        BY <3>1, <2>2
      <3>3. {G[k] : k \in 1..(m - 1)} \cup {N} \subseteq {F[k] : k \in 1..m}
        BY <2>1, <2>2, <2>3, <2>5
      <3>4. malloced = {L[k] : k \in 1..n} \cup {F[k] : k \in 1..m}
        BY DEF StackLists
      <3> QED BY <3>2, <3>3, <3>4, <1>6
    <2>12. \E M \in [1..(n + 1) -> Stack!Blocs] :
               /\ \A k \in 1..n : M[k] = L[k]
               /\ M[n + 1] = N /\ StackLists(M, n + 1, G, m - 1)' /\ next' \in [Stack!Blocs -> Int]
      <3>1. StackLinkedBehind(L, n, G, m - 1, N, b)
        BY <1>0, <1>5, <1>6, <1>7, <2>2, <2>6, <2>7, <2>8, <2>9, <2>10, <2>11 DEF StackLinkedBehind
      <3> QED BY <3>1, StackAppended
    <2> QED BY <1>4, <2>2, <2>3, <2>4, <2>7, <2>12 DEF StackTaken
  <1> QED BY <1>8, <1>9

\* The length of a sequence.
LEMMA StackLen == ASSUME NEW c \in Nat, NEW E, NEW s \in Seq(E), DOMAIN s = 1..c PROVE Len(s) = c
  <1>1. Len(s) \in Nat /\ DOMAIN s = 1..Len(s)
    OBVIOUS
  <1>2. \A k \in Int : k \in 1..Len(s) <=> k \in 1..c
    BY <1>1
  <1>3. c # 0 => c \in 1..Len(s)
    BY <1>2
  <1>4. Len(s) # 0 => Len(s) \in 1..c
    BY <1>1, <1>2
  <1> QED BY <1>1, <1>3, <1>4

\* The blocs behind rank p go to the allocator, the last one first.
StackGiven(L, n, p, F, m) ==
    [k \in 1..(m + (n - p)) |-> IF k <= n - p THEN L[n + 1 - k] ELSE F[k - (n - p)]]

\* kaapi_stackallocator_dealloc of the blocs behind rank p.
LEMMA StackGivesBack ==
    ASSUME NEW n, NEW L, NEW m, NEW F, StackLists(L, n, F, m), next \in [Stack!Blocs -> Int],
           NEW p \in 1..n, p # n,
           Stack!Dealloc(Stack!After(L[p])), bloc' = L[p], UNCHANGED <<malloced, bloc0>>
    PROVE  \E M \in [1..p -> Stack!Blocs], i \in Nat :
             /\ \A k \in 1..p : M[k] = L[k]
             /\ next' \in [Stack!Blocs -> Int]
             /\ \E G \in [1..i -> Stack!Blocs] : StackLists(M, p, G, i)'
  <1> DEFINE d == n - p
             i == m + d
             G == StackGiven(L, n, p, F, m)
             M == [k \in 1..p |-> L[k]]
             list == Stack!After(L[p])
  <1> HIDE DEF d, i, G, M, list
  <1>0. /\ n \in Nat /\ m \in Nat /\ p \in Nat /\ p # 0 /\ d \in Nat /\ d # 0 /\ i \in Nat
        /\ p + d = n /\ p <= n
        /\ L \in [1..n -> Stack!Blocs] /\ F \in [1..m -> Stack!Blocs]
        /\ StackLinked(L, n) /\ StackLinked(F, m)
    <2>1. /\ n \in Nat /\ m \in Nat /\ StackLinked(L, n) /\ StackLinked(F, m)
          /\ L \in [1..n -> Stack!Blocs] /\ F \in [1..m -> Stack!Blocs]
      BY DEF StackLists, StackLinked
    <2> QED BY <2>1 DEF d, i
  <1>1. list = [k \in 1..d |-> L[p + k]]
    <2>1. Stack!After(L[p]) = [k \in 1..(n - p) |-> L[p + k]]
      <3>1. StackLinked(L, n)
        BY <1>0
      <3>2. \A j \in 1..n : Stack!After(L[j]) = [k \in 1..(n - j) |-> L[j + k]]
        BY <3>1, StackAfterIs
      <3> QED BY <3>2
    <2> QED BY <2>1 DEF d, list
  <1>2. \A k \in 1..d : p + k \in 1..n /\ L[p + k] \in Stack!Blocs
    BY <1>0
  <1>3. Len(list) = d /\ DOMAIN list = 1..d /\ list # <<>> /\ 1 \in 1..d /\ d \in 1..d
    <2>1. list \in Seq(Stack!Blocs) /\ DOMAIN list = 1..d
      BY <1>0, <1>1, <1>2
    <2>2. Len(list) = d
      BY <1>0, <2>1, StackLen
    <2> QED BY <1>0, <2>1, <2>2
  <1>4. list[d] = L[n] /\ list[1] = L[p + 1]
    BY <1>0, <1>1, <1>3
  <1>5. head' = L[n]
    BY <1>3, <1>4 DEF Stack!Dealloc, Stack!Top, list
  <1>6. next' = [c \in Stack!Blocs |->
                    IF \E k \in DOMAIN list : list[k] = c
                    THEN LET k == CHOOSE k \in DOMAIN list : list[k] = c
                         IN  IF k = 1 THEN head ELSE list[k - 1]
                    ELSE IF list # <<>> /\ next[c] = list[1] THEN Stack!None ELSE next[c]]
    BY Zenon DEF Stack!Dealloc, list
  <1>7. \A k \in 1..d : next'[L[p + k]] = IF k = 1 THEN head ELSE L[p + k - 1]
    <2> SUFFICES ASSUME NEW k \in 1..d PROVE next'[L[p + k]] = IF k = 1 THEN head ELSE L[p + k - 1]
      OBVIOUS
    <2>1. list[k] = L[p + k] /\ k \in DOMAIN list
      BY <1>1
    <2>2. \A x \in DOMAIN list : list[x] = L[p + k] => x = k
      <3> SUFFICES ASSUME NEW x \in 1..d, L[p + x] = L[p + k] PROVE x = k
        BY <1>1
      <3>1. p + x = p + k
        BY <1>0, <1>2 DEF StackLinked
      <3> QED BY <1>0, <3>1
    <2> DEFINE y == CHOOSE y \in DOMAIN list : list[y] = L[p + k]
    <2>3. y = k
      BY <2>1, <2>2
    <2>4. next'[L[p + k]] = IF y = 1 THEN head ELSE list[y - 1]
      BY <1>2, <1>6, <2>1, Zenon
    <2>5. k # 1 => k - 1 \in 1..d /\ p + (k - 1) = p + k - 1
      BY <1>0
    <2> QED BY <2>3, <2>4, <2>5, <1>1
  <1>8. \A c \in Stack!Blocs : (\A k \in 1..d : c # L[p + k]) =>
            next'[c] = IF next[c] = L[p + 1] THEN Stack!None ELSE next[c]
    <2> SUFFICES ASSUME NEW c \in Stack!Blocs, \A k \in 1..d : c # L[p + k]
                 PROVE next'[c] = IF next[c] = L[p + 1] THEN Stack!None ELSE next[c]
      OBVIOUS
    <2>1. ~ \E k \in DOMAIN list : list[k] = c
      BY <1>1
    <2>2. next'[c] = IF list # <<>> /\ next[c] = list[1] THEN Stack!None ELSE next[c]
      BY <1>6, <2>1, Zenon
    <2> QED BY <2>2, <1>3, <1>4
  <1>9. \A k \in 1..p : next'[L[k]] = IF k = p THEN Stack!None ELSE L[k + 1]
    <2> SUFFICES ASSUME NEW k \in 1..p PROVE next'[L[k]] = IF k = p THEN Stack!None ELSE L[k + 1]
      OBVIOUS
    <2>1. k \in 1..n /\ k # n /\ k + 1 \in 1..n /\ L[k] \in Stack!Blocs /\ p + 1 \in 1..n
      BY <1>0
    <2>2. \A x \in 1..d : L[k] # L[p + x]
      <3> SUFFICES ASSUME NEW x \in 1..d, L[k] = L[p + x] PROVE FALSE
        OBVIOUS
      <3>1. k = p + x
        BY <2>1, <1>0, <1>2 DEF StackLinked
      <3> QED BY <1>0, <3>1
    <2>3. next[L[k]] = L[k + 1]
      BY <2>1, <1>0 DEF StackLinked
    <2>4. L[k + 1] = L[p + 1] => k + 1 = p + 1
      BY <2>1, <1>0 DEF StackLinked
    <2>5. k + 1 = p + 1 <=> k = p
      BY <1>0
    <2> QED BY <2>1, <2>2, <2>3, <2>4, <2>5, <1>8
  <1>10. \A k \in 1..m : next'[F[k]] = next[F[k]]
    <2> SUFFICES ASSUME NEW k \in 1..m PROVE next'[F[k]] = next[F[k]]
      OBVIOUS
    <2>1. F[k] \in Stack!Blocs /\ \A x \in 1..n : L[x] # F[k]
      BY <1>0 DEF StackLists
    <2>2. p + 1 \in 1..n /\ L[p + 1] # Stack!None
      BY <1>0 DEF Stack!Blocs, Stack!None
    <2>3. next[F[k]] = Stack!None \/ \E x \in 1..m : next[F[k]] = F[x]
      <3>1. k = m \/ k + 1 \in 1..m
        BY <1>0
      <3> QED BY <3>1, <1>0 DEF StackLinked
    <2>4. next[F[k]] # L[p + 1]
      BY <2>2, <2>3 DEF StackLists
    <2> QED BY <2>1, <2>4, <1>2, <1>8
  <1>11. G \in [1..i -> Stack!Blocs]
    <2> SUFFICES ASSUME NEW k \in 1..i
                 PROVE (IF k <= d THEN L[n + 1 - k] ELSE F[k - d]) \in Stack!Blocs
      BY DEF G, StackGiven, d, i
    <2>1. k <= d => n + 1 - k \in 1..n
      BY <1>0
    <2>2. ~(k <= d) => k - d \in 1..m
      BY <1>0 DEF i
    <2> QED BY <2>1, <2>2, <1>0
  <1>12. /\ \A k \in 1..d : k \in 1..i /\ G[k] = L[n + 1 - k] /\ n + 1 - k \in 1..n /\ p < n + 1 - k
         /\ \A k \in 1..i : ~(k <= d) => G[k] = F[k - d] /\ k - d \in 1..m
         /\ \A k \in 1..i : k <= d => k \in 1..d
         /\ \A k \in 1..m : k + d \in 1..i /\ G[k + d] = F[k]
    <2>1. \A k \in 1..i : G[k] = IF k <= d THEN L[n + 1 - k] ELSE F[k - d]
      BY DEF G, StackGiven, d, i
    <2>2. \A k \in 1..d : k \in 1..i /\ k <= d /\ n + 1 - k \in 1..n /\ p < n + 1 - k
      BY <1>0 DEF i
    <2>3. \A k \in 1..i : ~(k <= d) => k - d \in 1..m
      BY <1>0 DEF i
    <2>4. \A k \in 1..m : k + d \in 1..i /\ ~(k + d <= d) /\ k + d - d = k
      BY <1>0 DEF i
    <2>5. \A k \in 1..i : k <= d => k \in 1..d
      BY <1>0
    <2>6. \A k \in 1..d : k \in 1..i /\ G[k] = L[n + 1 - k] /\ n + 1 - k \in 1..n /\ p < n + 1 - k
      BY <2>1, <2>2
    <2>7. \A k \in 1..i : ~(k <= d) => G[k] = F[k - d] /\ k - d \in 1..m
      BY <2>1, <2>3
    <2>8. \A k \in 1..m : k + d \in 1..i /\ G[k + d] = F[k]
      <3> SUFFICES ASSUME NEW k \in 1..m PROVE k + d \in 1..i /\ G[k + d] = F[k]
        OBVIOUS
      <3>1. k + d \in 1..i /\ ~(k + d <= d) /\ k + d - d = k
        BY <2>4
      <3>2. G[k + d] = F[k + d - d]
        BY <1>0, <2>1, <3>1
      <3> QED BY <3>1, <3>2
    <2> QED BY <2>5, <2>6, <2>7, <2>8
  <1>13. \A j, k \in 1..i : G[j] = G[k] => j = k
    <2> SUFFICES ASSUME NEW j \in 1..i, NEW k \in 1..i, G[j] = G[k] PROVE j = k
      OBVIOUS
    <2>1. CASE j <= d /\ k <= d
      <3>1. n + 1 - j = n + 1 - k
        BY <2>1, <1>12, <1>0 DEF StackLinked
      <3> QED BY <3>1, <1>0
    <2>2. CASE ~(j <= d) /\ ~(k <= d)
      <3>1. j - d = k - d
        BY <2>2, <1>12, <1>0 DEF StackLinked
      <3> QED BY <3>1, <1>0
    <2>3. CASE j <= d /\ ~(k <= d)
      BY <2>3, <1>12 DEF StackLists
    <2>4. CASE ~(j <= d) /\ k <= d
      BY <2>4, <1>12 DEF StackLists
    <2> QED BY <2>1, <2>2, <2>3, <2>4
  <1>14. \A k \in 1..i : next'[G[k]] = IF k = i THEN Stack!None ELSE G[k + 1]
    <2> SUFFICES ASSUME NEW k \in 1..i PROVE next'[G[k]] = IF k = i THEN Stack!None ELSE G[k + 1]
      OBVIOUS
    <2>1. CASE k < d
      <3>1. k \in 1..d /\ k + 1 \in 1..d /\ k # i /\ d - k + 1 \in 1..d /\ d - k + 1 # 1
            /\ p + (d - k + 1) = n + 1 - k /\ p + (d - k + 1) - 1 = n + 1 - (k + 1)
        BY <2>1, <1>0 DEF i
      <3>2. next'[L[p + (d - k + 1)]] = L[p + (d - k + 1) - 1]
        BY <3>1, <1>7
      <3> QED BY <3>1, <3>2, <1>12
    <2>2. CASE k = d
      <3>1. n + 1 - k = p + 1 /\ (k = i <=> m = 0) /\ (m # 0 => 1 \in 1..m /\ 1 + d = k + 1)
        BY <2>2, <1>0 DEF i
      <3>2. next'[L[p + 1]] = head
        BY <1>3, <1>7
      <3>3. head = IF m = 0 THEN Stack!None ELSE F[1]
        BY DEF StackLists
      <3>4. m # 0 => G[k + 1] = F[1]
        BY <3>1, <1>12
      <3>5. G[k] = L[p + 1]
        BY <2>2, <3>1, <1>3, <1>12
      <3> QED BY <3>1, <3>2, <3>3, <3>4, <3>5
    <2>3. CASE k > d
      <3>1. ~(k <= d) /\ k - d \in 1..m /\ (k = i <=> k - d = m) /\ (k # i => k - d + 1 \in 1..m)
            /\ k - d + 1 + d = k + 1
        BY <2>3, <1>0 DEF i
      <3>2. next[F[k - d]] = IF k - d = m THEN Stack!None ELSE F[k - d + 1]
        BY <3>1, <1>0 DEF StackLinked
      <3>3. G[k] = F[k - d] /\ (k # i => G[k + 1] = F[k - d + 1])
        BY <3>1, <1>12
      <3>4. next'[F[k - d]] = next[F[k - d]]
        BY <3>1, <1>10
      <3> QED BY <3>1, <3>2, <3>3, <3>4
    <2> QED BY <2>1, <2>2, <2>3, <1>0
  <1>15. StackLinked(G, i)'
    BY <1>0, <1>11, <1>13, <1>14 DEF StackLinked
  <1>16. M \in [1..p -> Stack!Blocs] /\ (\A k \in 1..p : M[k] = L[k] /\ k \in 1..n)
         /\ \A k \in 1..p : k # p => k + 1 \in 1..p
    BY <1>0 DEF M
  <1>17. StackLinked(M, p)'
    <2>1. \A j, k \in 1..p : M[j] = M[k] => j = k
      BY <1>0, <1>16 DEF StackLinked
    <2>2. \A k \in 1..p : next'[M[k]] = IF k = p THEN Stack!None ELSE M[k + 1]
      BY <1>9, <1>16
    <2> QED BY <1>0, <1>16, <2>1, <2>2 DEF StackLinked
  <1>18. \A j \in 1..p, k \in 1..i : M[j] # G[k]
    <2> SUFFICES ASSUME NEW j \in 1..p, NEW k \in 1..i, L[j] = G[k] PROVE FALSE
      BY <1>16
    <2>1. CASE k <= d
      <3>1. j = n + 1 - k
        BY <2>1, <1>12, <1>16, <1>0 DEF StackLinked
      <3> QED BY <2>1, <3>1, <1>12, <1>0
    <2>2. CASE ~(k <= d)
      <3>1. \A x \in 1..n, y \in 1..m : L[x] # F[y]
        BY DEF StackLists
      <3>2. j \in 1..n /\ k - d \in 1..m /\ G[k] = F[k - d]
        BY <2>2, <1>12, <1>16
      <3> QED BY <3>1, <3>2
    <2> QED BY <2>1, <2>2
  <1>19. malloced = {M[k] : k \in 1..p} \cup {G[k] : k \in 1..i}
    <2>1. malloced = {L[k] : k \in 1..n} \cup {F[k] : k \in 1..m}
      BY DEF StackLists
    <2>2. {F[k] : k \in 1..m} \subseteq {G[k] : k \in 1..i}
      BY <1>12
    <2>3. \A k \in 1..n : k \in 1..p \/ (n + 1 - k \in 1..d /\ n + 1 - (n + 1 - k) = k)
      BY <1>0
    <2>4. \A k \in 1..n : k \in 1..p \/ L[k] \in {G[x] : x \in 1..i}
      BY <2>3, <1>12
    <2>5. {L[k] : k \in 1..n} \subseteq {M[k] : k \in 1..p} \cup {G[k] : k \in 1..i}
      BY <2>4, <1>16
    <2>6. {M[k] : k \in 1..p} \subseteq {L[k] : k \in 1..n}
      BY <1>16
    <2>7. {G[k] : k \in 1..i} \subseteq {L[k] : k \in 1..n} \cup {F[k] : k \in 1..m}
      BY <1>12
    <2> QED BY <2>1, <2>2, <2>5, <2>6, <2>7
  <1>20. head' = G[1] /\ i # 0
    <2>1. G[1] = L[n + 1 - 1] /\ n + 1 - 1 = n
      BY <1>0, <1>3, <1>12
    <2> QED BY <2>1, <1>5, <1>0 DEF i
  <1>21. bloc0' = M[1] /\ bloc' = M[p]
    <2>1. bloc0 = L[1] /\ 1 \in 1..p /\ p \in 1..p
      BY <1>0 DEF StackLists
    <2> QED BY <2>1, <1>16
  <1>22. StackLists(M, p, G, i)'
    BY <1>0, <1>15, <1>17, <1>18, <1>19, <1>20, <1>21 DEF StackLists
  <1>23. next' \in [Stack!Blocs -> Int]
    <2>1. \A c \in Stack!Blocs : next'[c] \in Int
      <3> SUFFICES ASSUME NEW c \in Stack!Blocs PROVE next'[c] \in Int
        OBVIOUS
      <3>1. CASE \E k \in 1..d : c = L[p + k]
        <4>1. PICK k \in 1..d : c = L[p + k]
          BY <3>1
        <4>2. k # 1 => p + k - 1 \in 1..n
          BY <1>0
        <4>3. head \in Int
          <5>1. m # 0 => 1 \in 1..m
            BY <1>0
          <5> QED BY <5>1, <1>0 DEF StackLists, Stack!Blocs, Stack!None
        <4> QED BY <4>1, <4>2, <4>3, <1>0, <1>7 DEF Stack!Blocs
      <3>2. CASE \A k \in 1..d : c # L[p + k]
        BY <3>2, <1>8 DEF Stack!None
      <3> QED BY <3>1, <3>2
    <2>2. DOMAIN next' = Stack!Blocs /\ next' = [c \in Stack!Blocs |-> next'[c]]
      BY <1>6, Zenon
    <2> QED BY <2>1, <2>2
  <1> QED BY <1>0, <1>11, <1>16, <1>22, <1>23

\* At the start there is no bloc.
LEMMA StackInitRight == Stack!Init => StackInv
  <1> SUFFICES ASSUME Stack!Init PROVE StackInv
    OBVIOUS
  <1> DEFINE L == [k \in 1..0 |-> 1]
  <1>1. StackLinked(L, 0) /\ L \in [1..0 -> Stack!Blocs] /\ 0 \in Nat
    BY DEF StackLinked
  <1> HIDE DEF L
  <1>2. StackLists(L, 0, L, 0)
    BY <1>1 DEF StackLists, Stack!Init
  <1>3. StackFrames(L, 0) /\ StackTasks(L, 0) /\ next \in [Stack!Blocs -> Int]
    BY DEF StackFrames, StackTasks, Stack!Init, Stack!None
  <1> QED BY <1>1, <1>2, <1>3 DEF StackInv, StackGood

\* A frame keeps its place when the blocs up to its own stay.
LEMMA StackFrameStays ==
    ASSUME NEW L, NEW M, NEW f, NEW p \in Nat, StackFrame(L, f, p), p # 0,
           \A k \in 1..p : M[k] = L[k]
    PROVE  StackFrame(M, f, p)
  <1>1. p \in 1..p
    OBVIOUS
  <1> QED BY <1>1 DEF StackFrame

\* The amount units of Push are in the current bloc, or in a new one, and sp is
\* behind them.
StackPlaced(L, n, amount, again) ==
    \E o \in {n, n + 1} : \E M \in [1..o -> Stack!Blocs] :
        /\ \A k \in 1..n : M[k] = L[k]
        /\ next' \in [Stack!Blocs -> Int]
        /\ \E i \in Nat : \E G \in [1..i -> Stack!Blocs] : StackLists(M, o, G, i)'
        /\ sp' \in [bloc : {M[o]}, off : Nat] /\ sp'.off >= StackHeader
        /\ o = n => Stack!Enough(amount) /\ Stack!At(amount) = sp /\ sp'.off = sp.off + amount
        /\ o = n + 1 => /\ \A k \in 1..n : L[k] # M[n + 1]
                        /\ Stack!At(amount) = [bloc |-> M[n + 1], off |-> StackHeader]
                        /\ sp'.off = StackHeader + amount + again

\* Push finds room for amount units.
LEMMA StackPushed ==
    ASSUME NEW n, NEW L, NEW m, NEW F, StackGood(L, n, F, m), n # 0,
           NEW amount \in Nat, NEW again \in Nat, Stack!Push(amount, again), UNCHANGED bloc0
    PROVE  StackPlaced(L, n, amount, again)
  <1>0. /\ n \in Nat /\ m \in Nat /\ n \in 1..n /\ n # n + 1
        /\ L \in [1..n -> Stack!Blocs] /\ F \in [1..m -> Stack!Blocs]
        /\ StackLists(L, n, F, m) /\ next \in [Stack!Blocs -> Int]
        /\ sp \in [bloc : {L[n]}, off : Nat] /\ sp.off >= StackHeader /\ bloc = L[n]
    <2>1. StackLists(L, n, F, m) /\ StackLinked(L, n) /\ StackLinked(F, m) /\ StackTasks(L, n)
      BY DEF StackGood, StackLists
    <2>2. n \in Nat /\ m \in Nat /\ L \in [1..n -> Stack!Blocs] /\ F \in [1..m -> Stack!Blocs]
      BY <2>1 DEF StackLinked
    <2>3. bloc = L[n]
      BY <2>1 DEF StackLists
    <2> QED BY <2>1, <2>2, <2>3 DEF StackGood, StackTasks
  <1>1. StackHeader \in Nat
    BY StructuresAssumption
  <1>2. CASE Stack!Enough(amount)
    <2>1. sp' = [sp EXCEPT !.off = @ + amount] /\ UNCHANGED <<malloced, next, head, bloc>>
      BY <1>2 DEF Stack!Push
    <2>2. StackLists(L, n, F, m)'
      BY <1>0, <2>1 DEF StackLists, StackLinked
    <2>3. sp' \in [bloc : {L[n]}, off : Nat] /\ sp'.off >= StackHeader /\ sp'.off = sp.off + amount
      BY <1>0, <1>1, <2>1
    <2>4. Stack!At(amount) = sp
      BY <1>2 DEF Stack!At
    <2>5. next' \in [Stack!Blocs -> Int]
      BY <1>0, <2>1
    <2> QED BY <1>0, <1>2, <2>2, <2>3, <2>4, <2>5 DEF StackPlaced
  <1>3. CASE ~Stack!Enough(amount)
    <2>1. /\ Stack!CanAlloc /\ Stack!TakeBloc(bloc)
          /\ sp' = [bloc |-> Stack!NewBloc, off |-> StackHeader + amount + again]
      BY <1>3 DEF Stack!Push
    <2>2. bloc = (IF n = 0 THEN Stack!None ELSE L[n])
          /\ bloc0' = IF n = 0 THEN Stack!NewBloc ELSE bloc0
      BY <1>0
    <2>3. PICK b : b = bloc
      OBVIOUS
    <2>4. Stack!TakeBloc(b) /\ b = IF n = 0 THEN Stack!None ELSE L[n]
      BY <2>1, <2>2, <2>3
    <2>10. StackTaken(L, n)
      BY <1>0, <2>1, <2>2, <2>4, StackTake
    <2>5. PICK N \in Stack!Blocs : /\ N = Stack!NewBloc /\ \A k \in 1..n : L[k] # N
             /\ \E M \in [1..(n + 1) -> Stack!Blocs] :
               /\ \A k \in 1..n : M[k] = L[k]
               /\ M[n + 1] = N /\ next' \in [Stack!Blocs -> Int]
               /\ \E i \in Nat : \E G \in [1..i -> Stack!Blocs] : StackLists(M, n + 1, G, i)'
      BY <2>10 DEF StackTaken
    <2>6. PICK M \in [1..(n + 1) -> Stack!Blocs] :
               /\ \A k \in 1..n : M[k] = L[k]
               /\ M[n + 1] = N /\ next' \in [Stack!Blocs -> Int]
               /\ \E i \in Nat : \E G \in [1..i -> Stack!Blocs] : StackLists(M, n + 1, G, i)'
      BY <2>5
    <2>7. Stack!At(amount) = [bloc |-> N, off |-> StackHeader]
      BY <1>3, <2>5 DEF Stack!At
    <2>8. sp' = [bloc |-> N, off |-> StackHeader + amount + again]
      BY <2>1, <2>5
    <2>9. sp' \in [bloc : {N}, off : Nat] /\ sp'.off >= StackHeader
          /\ sp'.off = StackHeader + amount + again
      BY <1>1, <2>8
    <2> QED BY <1>0, <2>5, <2>6, <2>7, <2>9 DEF StackPlaced
  <1> QED BY <1>2, <1>3

\* The frames keep their places when the stack grows.
LEMMA StackFramesStay ==
    ASSUME NEW n \in Nat, NEW L, NEW o \in {n, n + 1}, NEW M, \A k \in 1..n : M[k] = L[k],
           n # 0, StackFrames(L, n), UNCHANGED <<frames, phase>>
    PROVE  StackFrames(M, o)'
  <1>0. o \in Nat /\ o # 0 /\ \A k \in 1..n : k \in 1..o
    OBVIOUS
  <1>1. phase \in {"unbound", "closed", "open", "synced"} /\ phase # "unbound"
    BY DEF StackFrames
  <1>2. CASE phase = "closed"
    <2>1. PICK f : frames = <<f>> /\ \E p \in 1..n : StackFrame(L, f, p)
      BY <1>2 DEF StackFrames
    <2>2. PICK p \in 1..n : StackFrame(L, f, p)
      BY <2>1
    <2>3. StackFrame(M, f, p)
      BY <2>2, StackFrameStays
    <2>4. frames' = <<f>> /\ \E r \in 1..o : StackFrame(M, f, r)
      BY <1>0, <2>1, <2>3
    <2> QED BY <1>0, <1>2, <2>4 DEF StackFrames
  <1>3. CASE phase \in {"open", "synced"}
    <2>1. PICK f, g : /\ frames = <<f, g>>
                      /\ \E q \in 1..n : \E p \in 1..q : StackFrame(L, f, p) /\ StackFrame(L, g, q)
      BY <1>3 DEF StackFrames
    <2>2. PICK q \in 1..n : \E p \in 1..q : StackFrame(L, f, p) /\ StackFrame(L, g, q)
      BY <2>1
    <2>3. PICK p \in 1..q : StackFrame(L, f, p) /\ StackFrame(L, g, q)
      BY <2>2
    <2>4. StackFrame(M, f, p) /\ StackFrame(M, g, q)
      BY <2>3, StackFrameStays
    <2>5. frames' = <<f, g>>
          /\ \E r \in 1..o : \E s \in 1..r : StackFrame(M, f, s) /\ StackFrame(M, g, r)
      BY <1>0, <2>1, <2>4
    <2> QED BY <1>0, <1>3, <2>5 DEF StackFrames
  <1> QED BY <1>1, <1>2, <1>3

\* A frame is put on top of another.
LEMMA StackSecond == \A f, g : Append(<<f>>, g) = <<f, g>>
  <1> SUFFICES ASSUME NEW f, NEW g PROVE Append(<<f>>, g) = <<f, g>>
    OBVIOUS
  <1> DEFINE s == Append(<<f>>, g)
  <1>1. s \in Seq({f, g}) /\ Len(s) = 2 /\ s[1] = f /\ s[2] = g
    <2>1. <<f>> \in Seq({f, g}) /\ Len(<<f>>) = 1
      OBVIOUS
    <2> QED BY <2>1
  <1> HIDE DEF s
  <1>2. s = <<f, g>>
    BY <1>1
  <1> QED BY <1>2 DEF s

\* The parts of the invariant after a step.
LEMMA StackAgain ==
    ASSUME NEW o \in Nat, NEW M \in [1..o -> Stack!Blocs],
           \E i \in Nat : \E G \in [1..i -> Stack!Blocs] : StackLists(M, o, G, i)',
           StackFrames(M, o)', StackTasks(M, o)', next' \in [Stack!Blocs -> Int]
    PROVE  StackInv'
  <1>1. PICK i \in Nat : \E G \in [1..i -> Stack!Blocs] : StackLists(M, o, G, i)'
    OBVIOUS
  <1>2. PICK G \in [1..i -> Stack!Blocs] : StackLists(M, o, G, i)'
    BY <1>1
  <1>3. StackGood(M, o, G, i)'
    BY <1>2 DEF StackGood
  <1> QED BY <1>3 DEF StackInv

\* The current bloc is the last one of the stack.
LEMMA StackLast ==
    ASSUME NEW n, NEW L, NEW m, NEW F, StackGood(L, n, F, m)
    PROVE  /\ n \in Nat /\ StackLists(L, n, F, m) /\ StackLinked(L, n) /\ StackLinked(F, m)
           /\ StackFrames(L, n) /\ StackTasks(L, n) /\ next \in [Stack!Blocs -> Int]
           /\ n # 0 => bloc = L[n] /\ bloc0 = L[1] /\ n \in 1..n
  BY DEF StackGood, StackLists, StackLinked

\* kaapi_thread_bind.
LEMMA StackBindKeeps ==
    ASSUME NEW n, NEW L, NEW m, NEW F, StackGood(L, n, F, m), Stack!Bind
    PROVE  StackInv'
  <1>1. n = 0 /\ StackLists(L, n, F, m) /\ next \in [Stack!Blocs -> Int] /\ tasks = {}
    <2>1. phase = "unbound"
      BY DEF Stack!Bind
    <2> QED BY <2>1, StackLast DEF StackFrames, StackTasks
  <1>2. /\ Stack!CanAlloc /\ Stack!TakeBloc(Stack!None) /\ bloc0' = Stack!NewBloc
        /\ sp' = [bloc |-> Stack!NewBloc, off |-> StackHeader + StackBaseSize]
        /\ frames' = <<[sp |-> [bloc |-> Stack!NewBloc, off |-> StackHeader + StackBaseSize],
                        save_bloc_sp |-> Stack!NewBloc]>>
        /\ phase' = "closed" /\ tasks' = tasks
    BY DEF Stack!Bind
  <1>3. bloc0' = IF n = 0 THEN Stack!NewBloc ELSE bloc0
    BY <1>1, <1>2
  <1>4. Stack!None = IF n = 0 THEN Stack!None ELSE L[n]
    BY <1>1
  <1>14. StackTaken(L, n)
    BY <1>1, <1>2, <1>3, <1>4, StackTake
  <1>5. PICK N \in Stack!Blocs : /\ N = Stack!NewBloc /\ \A k \in 1..n : L[k] # N
             /\ \E M \in [1..(n + 1) -> Stack!Blocs] :
               /\ \A k \in 1..n : M[k] = L[k]
               /\ M[n + 1] = N /\ next' \in [Stack!Blocs -> Int]
               /\ \E i \in Nat : \E G \in [1..i -> Stack!Blocs] : StackLists(M, n + 1, G, i)'
    BY <1>14 DEF StackTaken
  <1>6. PICK M \in [1..(n + 1) -> Stack!Blocs] :
               /\ M[n + 1] = N /\ next' \in [Stack!Blocs -> Int]
               /\ \E i \in Nat : \E G \in [1..i -> Stack!Blocs] : StackLists(M, n + 1, G, i)'
    BY <1>5
  <1>7. n + 1 = 1
    BY <1>1
  <1> DEFINE s == [bloc |-> N, off |-> StackHeader + StackBaseSize]
             f == [sp |-> s, save_bloc_sp |-> N]
  <1>8. s \in [bloc : {M[1]}, off : Nat] /\ s.off >= StackHeader
    BY <1>6, <1>7, StructuresAssumption
  <1>9. sp' = s /\ frames' = <<f>>
    BY <1>2, <1>5
  <1> HIDE DEF s
  <1>10. StackFrame(M, f, 1)
    BY <1>6, <1>7, <1>8 DEF StackFrame
  <1> HIDE DEF f
  <1>11. StackFrames(M, 1)'
    BY <1>2, <1>9, <1>10 DEF StackFrames
  <1>12. bloc' = M[1]
    BY <1>6, <1>7 DEF StackLists
  <1>13. StackTasks(M, 1)'
    BY <1>1, <1>2, <1>8, <1>9, <1>12 DEF StackTasks
  <1> QED BY <1>6, <1>7, <1>11, <1>13, StackAgain

\* kaapi_begin_dfg.
LEMMA StackBeginKeeps ==
    ASSUME NEW n, NEW L, NEW m, NEW F, StackGood(L, n, F, m), Stack!BeginDfg
    PROVE  StackInv'
  <1>1. /\ phase = "closed" /\ Stack!Push(StackFrameSize, 0)
        /\ frames' = Append(frames, [sp |-> sp', save_bloc_sp |-> bloc])
        /\ phase' = "open" /\ UNCHANGED <<bloc0, tasks>>
    BY DEF Stack!BeginDfg
  <1>2. /\ n \in Nat /\ n # 0 /\ bloc = L[n] /\ n \in 1..n
        /\ StackFrames(L, n) /\ StackTasks(L, n)
    BY <1>1, StackLast DEF StackFrames
  <1>3. tasks = {}
    BY <1>1, <1>2 DEF StackTasks
  <1>a. StackPlaced(L, n, StackFrameSize, 0)
    BY <1>1, <1>2, StackPushed, StructuresAssumption
  <1>4. PICK o \in {n, n + 1} : \E M \in [1..o -> Stack!Blocs] :
             /\ \A k \in 1..n : M[k] = L[k]
             /\ next' \in [Stack!Blocs -> Int]
             /\ \E i \in Nat : \E G \in [1..i -> Stack!Blocs] : StackLists(M, o, G, i)'
             /\ sp' \in [bloc : {M[o]}, off : Nat] /\ sp'.off >= StackHeader
    BY <1>a DEF StackPlaced
  <1>5. PICK M \in [1..o -> Stack!Blocs] :
             /\ \A k \in 1..n : M[k] = L[k]
             /\ next' \in [Stack!Blocs -> Int]
             /\ \E i \in Nat : \E G \in [1..i -> Stack!Blocs] : StackLists(M, o, G, i)'
             /\ sp' \in [bloc : {M[o]}, off : Nat] /\ sp'.off >= StackHeader
    BY <1>4
  <1>6. o \in Nat /\ o # 0 /\ o \in 1..o /\ n \in 1..o /\ \A k \in 1..n : k \in 1..o
    BY <1>2, <1>4
  <1>7. PICK f : frames = <<f>> /\ \E p \in 1..n : StackFrame(L, f, p)
    BY <1>1, <1>2 DEF StackFrames
  <1>8. PICK p \in 1..n : StackFrame(L, f, p)
    BY <1>7
  <1>9. StackFrame(M, f, p)
    <2>1. p \in Nat /\ p # 0 /\ \A k \in 1..p : M[k] = L[k]
      BY <1>2, <1>5
    <2> QED BY <2>1, <1>8, StackFrameStays
  <1>10. PICK g : g = [sp |-> sp', save_bloc_sp |-> bloc]
    OBVIOUS
  <1>11. frames' = <<f, g>>
    <2>1. frames' = Append(frames, [sp |-> sp', save_bloc_sp |-> bloc])
      BY <1>1
    <2>2. frames' = Append(frames, g)
      BY <2>1, <1>10, Zenon
    <2>3. frames = <<f>>
      BY <1>7
    <2> QED BY <2>2, <2>3, StackSecond, Zenon
  <1>12. StackFrame(M, g, o)
    <2>1. g.sp = sp' /\ g.save_bloc_sp = M[n]
      BY <1>2, <1>5, <1>10
    <2> QED BY <2>1, <1>5, <1>6 DEF StackFrame
  <1>13. StackFrames(M, o)'
    <2>1. \E r \in 1..o : \E s \in 1..r : StackFrame(M, f, s) /\ StackFrame(M, g, r)
      BY <1>6, <1>9, <1>12
    <2> QED BY <1>1, <1>6, <1>11, <2>1 DEF StackFrames
  <1>14. StackTasks(M, o)'
    <2>1. bloc' = M[o]
      BY <1>5, <1>6 DEF StackLists
    <2> QED BY <2>1, <1>1, <1>3, <1>5 DEF StackTasks
  <1> QED BY <1>5, <1>6, <1>13, <1>14, StackAgain

\* kaapi_task_alloc.
LEMMA StackAllocKeeps ==
    ASSUME NEW n, NEW L, NEW m, NEW F, StackGood(L, n, F, m),
           NEW amount \in StackSizes, Stack!AllocTask(amount)
    PROVE  StackInv'
  <1>1. /\ phase = "open" /\ Stack!Push(amount, amount) /\ UNCHANGED <<bloc0, frames, phase>>
        /\ tasks' = tasks \cup {[bloc |-> Stack!At(amount).bloc, first |-> Stack!At(amount).off,
                                 size |-> amount]}
    BY DEF Stack!AllocTask
  <1>2. /\ n \in Nat /\ n # 0 /\ bloc = L[n] /\ n \in 1..n
        /\ StackFrames(L, n) /\ StackTasks(L, n)
    BY <1>1, StackLast DEF StackFrames
  <1>3. /\ amount \in Nat /\ StackHeader \in Nat /\ StackCap \in Nat
        /\ StackHeader + amount <= StackCap
    BY StructuresAssumption
  <1>a. StackPlaced(L, n, amount, amount)
    BY <1>1, <1>2, <1>3, StackPushed
  <1>4. PICK o \in {n, n + 1} : \E M \in [1..o -> Stack!Blocs] :
             /\ \A k \in 1..n : M[k] = L[k]
             /\ next' \in [Stack!Blocs -> Int]
             /\ \E i \in Nat : \E G \in [1..i -> Stack!Blocs] : StackLists(M, o, G, i)'
             /\ sp' \in [bloc : {M[o]}, off : Nat] /\ sp'.off >= StackHeader
             /\ o = n => Stack!Enough(amount) /\ Stack!At(amount) = sp /\ sp'.off = sp.off + amount
             /\ o = n + 1 => /\ \A k \in 1..n : L[k] # M[n + 1]
                             /\ Stack!At(amount) = [bloc |-> M[n + 1], off |-> StackHeader]
                             /\ sp'.off = StackHeader + amount + amount
    BY <1>a DEF StackPlaced
  <1>5. PICK M \in [1..o -> Stack!Blocs] :
             /\ \A k \in 1..n : M[k] = L[k]
             /\ next' \in [Stack!Blocs -> Int]
             /\ \E i \in Nat : \E G \in [1..i -> Stack!Blocs] : StackLists(M, o, G, i)'
             /\ sp' \in [bloc : {M[o]}, off : Nat] /\ sp'.off >= StackHeader
             /\ o = n => Stack!Enough(amount) /\ Stack!At(amount) = sp /\ sp'.off = sp.off + amount
             /\ o = n + 1 => /\ \A k \in 1..n : L[k] # M[n + 1]
                             /\ Stack!At(amount) = [bloc |-> M[n + 1], off |-> StackHeader]
                             /\ sp'.off = StackHeader + amount + amount
    BY <1>4
  <1>6. o \in Nat /\ o # 0 /\ o \in 1..o /\ n \in 1..o /\ \A k \in 1..n : k \in 1..o
    BY <1>2, <1>4
  <1>7. bloc' = M[o]
    BY <1>5, <1>6 DEF StackLists
  <1>8. StackFrames(M, o)'
    BY <1>1, <1>2, <1>5, StackFramesStay
  <1>9. PICK t : t = [bloc |-> Stack!At(amount).bloc, first |-> Stack!At(amount).off,
                      size |-> amount]
    OBVIOUS
  <1>10. /\ t \in [bloc : {M[o]}, first : Nat, size : Nat] /\ t.size = amount
         /\ t.first >= StackHeader /\ t.first + amount <= StackCap /\ t.first + amount <= sp'.off
         /\ o = n => t.first = sp.off
    <2>1. CASE o = n
      <3>1. t = [bloc |-> sp.bloc, first |-> sp.off, size |-> amount]
        BY <1>5, <1>9, <2>1
      <3>2. sp \in [bloc : {bloc}, off : Nat] /\ sp.off >= StackHeader
        BY <1>2 DEF StackTasks
      <3>3. sp.bloc = M[o] /\ sp.off \in Nat
        BY <1>2, <1>5, <2>1, <3>2
      <3>4. sp.off + amount < StackCap
        BY <1>5, <2>1 DEF Stack!Enough
      <3> QED BY <3>1, <3>2, <3>3, <3>4, <1>3, <1>5, <2>1
    <2>2. CASE o = n + 1
      <3>1. t = [bloc |-> M[o], first |-> StackHeader, size |-> amount]
        BY <1>5, <1>9, <2>2
      <3>2. o # n /\ sp'.off = StackHeader + amount + amount
        BY <1>2, <1>5, <2>2
      <3> QED BY <3>1, <3>2, <1>3
    <2> QED BY <2>1, <2>2, <1>4
  <1>11. \A u \in tasks :
            /\ u \in [bloc : {M[k] : k \in 1..o}, first : Nat, size : Nat]
            /\ u.first >= StackHeader /\ u.first + u.size <= StackCap
            /\ u.bloc = M[o] => /\ u.first + u.size <= t.first
                                /\ u.first + u.size <= sp'.off
    <2> SUFFICES ASSUME NEW u \in tasks
                 PROVE /\ u \in [bloc : {M[k] : k \in 1..o}, first : Nat, size : Nat]
                       /\ u.first >= StackHeader /\ u.first + u.size <= StackCap
                       /\ u.bloc = M[o] => /\ u.first + u.size <= t.first
                                           /\ u.first + u.size <= sp'.off
      OBVIOUS
    <2>1. /\ u \in [bloc : {L[k] : k \in 1..n}, first : Nat, size : Nat]
          /\ u.first >= StackHeader /\ u.first + u.size <= StackCap
          /\ u.bloc = bloc => u.first + u.size <= sp.off
      BY <1>2 DEF StackTasks
    <2>2. PICK k \in 1..n : u.bloc = L[k]
      BY <2>1
    <2>3. u.bloc = M[k] /\ k \in 1..o
      BY <2>2, <1>5, <1>6
    <2>4. u \in [bloc : {M[x] : x \in 1..o}, first : Nat, size : Nat]
      BY <2>1, <2>3
    <2>5. CASE o = n
      <3>1. u.bloc = M[o] => u.first + u.size <= sp.off
        BY <2>1, <2>5, <1>2, <1>5
      <3>2. t.first = sp.off /\ t.first + amount <= sp'.off /\ t.first \in Nat
        BY <1>10, <2>5
      <3>3. amount \in Nat /\ u.first \in Nat /\ u.size \in Nat /\ sp'.off \in Nat
        BY <2>1, <1>3, <1>5
      <3>4. ASSUME u.bloc = M[o]
            PROVE  u.first + u.size <= t.first /\ u.first + u.size <= sp'.off
        BY <3>1, <3>2, <3>3, <3>4
      <3> QED BY <2>1, <2>4, <3>4
    <2>6. CASE o = n + 1
      <3>1. u.bloc # M[o]
        BY <2>2, <2>6, <1>5
      <3> QED BY <2>1, <2>4, <3>1
    <2> QED BY <2>5, <2>6, <1>4
  <1>12. tasks' = tasks \cup {t}
    BY <1>1, <1>9
  <1>13. t.bloc = M[o] /\ t \in [bloc : {M[k] : k \in 1..o}, first : Nat, size : Nat]
    BY <1>6, <1>10
  <1>14. \A u, v \in tasks' : v.bloc = u.bloc /\ v # u =>
            v.first + v.size <= u.first \/ u.first + u.size <= v.first
    <2> SUFFICES ASSUME NEW u \in tasks', NEW v \in tasks', v.bloc = u.bloc, v # u
                 PROVE  v.first + v.size <= u.first \/ u.first + u.size <= v.first
      OBVIOUS
    <2>1. CASE u \in tasks /\ v \in tasks
      BY <2>1, <1>2 DEF StackTasks
    <2>2. CASE u = t
      BY <2>2, <1>11, <1>12, <1>13
    <2>3. CASE v = t
      BY <2>3, <1>11, <1>12, <1>13
    <2> QED BY <2>1, <2>2, <2>3, <1>12
  <1>15. StackTasks(M, o)'
    <2>1. \A u \in tasks' :
            /\ u \in [bloc : {M[k] : k \in 1..o}, first : Nat, size : Nat]
            /\ u.first >= StackHeader /\ u.first + u.size <= StackCap
            /\ u.bloc = M[o] => u.first + u.size <= sp'.off
      BY <1>10, <1>11, <1>12, <1>13
    <2>2. sp' \in [bloc : {bloc'}, off : Nat] /\ sp'.off >= StackHeader
      BY <1>5, <1>7
    <2> QED BY <1>1, <1>7, <1>14, <2>1, <2>2 DEF StackTasks
  <1> QED BY <1>5, <1>6, <1>8, <1>15, StackAgain

\* Of two frames the first is left.
LEMMA StackFirst == \A f, g : SubSeq(<<f, g>>, 1, 1) = <<f>>
  <1> SUFFICES ASSUME NEW f, NEW g PROVE SubSeq(<<f, g>>, 1, 1) = <<f>>
    OBVIOUS
  <1> DEFINE s == SubSeq(<<f, g>>, 1, 1)
  <1>1. s \in Seq({f, g}) /\ Len(s) = 1 /\ s[1] = f
    OBVIOUS
  <1> HIDE DEF s
  <1>2. s = <<f>>
    BY <1>1
  <1> QED BY <1>2 DEF s

\* The properties find the two lists.
LEMMA StackBothLists ==
    ASSUME NEW n, NEW L, NEW m, NEW F, StackLists(L, n, F, m)
    PROVE  Stack!Listed(bloc0) = {L[k] : k \in 1..n} /\ Stack!Listed(head) = {F[k] : k \in 1..m}
  <1>1. PICK b : b = bloc0
    OBVIOUS
  <1>2. PICK h : h = head
    OBVIOUS
  <1>3. StackLinked(L, n) /\ b = IF n = 0 THEN Stack!None ELSE L[1]
    BY <1>1 DEF StackLists
  <1>4. StackLinked(F, m) /\ h = IF m = 0 THEN Stack!None ELSE F[1]
    BY <1>2 DEF StackLists
  <1>5. Stack!Listed(b) = {L[k] : k \in 1..n}
    BY <1>3, StackListedIs
  <1>6. Stack!Listed(h) = {F[k] : k \in 1..m}
    BY <1>4, StackListedIs
  <1> QED BY <1>1, <1>2, <1>5, <1>6

\* kaapi_frame_pop: the stack ends with the bloc of the frame.
LEMMA StackPopped ==
    ASSUME NEW n, NEW L, NEW m, NEW F, StackGood(L, n, F, m), NEW p \in 1..n, NEW f,
           StackFrame(L, f, p), Stack!FramePop(f), UNCHANGED <<malloced, bloc0>>
    PROVE  \E M \in [1..p -> Stack!Blocs] :
             /\ \A k \in 1..p : M[k] = L[k]
             /\ next' \in [Stack!Blocs -> Int] /\ sp' = f.sp /\ bloc' = L[p]
             /\ \E i \in Nat : \E G \in [1..i -> Stack!Blocs] : StackLists(M, p, G, i)'
  <1>0. /\ n \in Nat /\ n # 0 /\ bloc = L[n] /\ n \in 1..n /\ StackLinked(L, n) /\ StackLinked(F, m)
        /\ StackLists(L, n, F, m) /\ next \in [Stack!Blocs -> Int] /\ f.sp.bloc = L[p]
    BY StackLast DEF StackFrame
  <1>1. sp' = f.sp
    BY DEF Stack!FramePop
  <1>2. L[p] = L[n] <=> p = n
    BY <1>0 DEF StackLinked
  <1>3. CASE p = n
    <2>1. UNCHANGED <<next, head, bloc>>
      BY <1>0, <1>3 DEF Stack!FramePop, Stack!FreeUntil
    <2>2. StackLists(L, n, F, m)'
      BY <1>0, <2>1 DEF StackLists, StackLinked
    <2>3. L \in [1..n -> Stack!Blocs] /\ F \in [1..m -> Stack!Blocs] /\ m \in Nat
      BY <1>0 DEF StackLinked
    <2> QED BY <1>0, <1>1, <1>3, <2>1, <2>2, <2>3
  <1>4. CASE p # n
    <2>1. PICK q \in 1..p : f.save_bloc_sp = L[q]
      BY DEF StackFrame
    <2>2. q \in 1..n /\ q # n
      BY <2>1, <1>0, <1>4
    <2>3. f.save_bloc_sp # bloc /\ f.sp.bloc # bloc
      BY <2>1, <2>2, <1>0, <1>2, <1>4 DEF StackLinked
    <2>4. Stack!Dealloc(Stack!After(f.sp.bloc)) /\ bloc' = f.sp.bloc
      BY <2>3, Zenon DEF Stack!FramePop, Stack!FreeUntil
    <2>5. Stack!Dealloc(Stack!After(L[p])) /\ bloc' = L[p]
      BY <2>4, <1>0
    <2>6. \E M \in [1..p -> Stack!Blocs], i \in Nat :
             /\ \A k \in 1..p : M[k] = L[k]
             /\ next' \in [Stack!Blocs -> Int]
             /\ \E G \in [1..i -> Stack!Blocs] : StackLists(M, p, G, i)'
      BY <1>0, <1>4, <2>5, StackGivesBack
    <2> QED BY <1>1, <2>5, <2>6
  <1> QED BY <1>3, <1>4

\* sp is where the frame left it, and no descriptor is behind it.
LEMMA StackNoTasks ==
    ASSUME NEW p \in Nat, p # 0, NEW L, NEW M, \A k \in 1..p : M[k] = L[k], NEW f,
           StackFrame(L, f, p), sp' = f.sp, bloc' = L[p], tasks' = {}
    PROVE  StackTasks(M, p)'
  BY DEF StackTasks, StackFrame

\* The end of the synchronisation.
LEMMA StackSyncKeeps ==
    ASSUME NEW n, NEW L, NEW m, NEW F, StackGood(L, n, F, m), Stack!SyncPop
    PROVE  StackInv'
  <1>1. /\ phase = "open" /\ Stack!FramePop(Stack!Top(frames)) /\ tasks' = {}
        /\ phase' = "synced" /\ UNCHANGED <<malloced, bloc0, frames>>
    BY DEF Stack!SyncPop
  <1>2. StackFrames(L, n)
    BY StackLast
  <1>3. PICK f, g : /\ frames = <<f, g>>
                    /\ \E q \in 1..n : \E p \in 1..q : StackFrame(L, f, p) /\ StackFrame(L, g, q)
    BY <1>1, <1>2 DEF StackFrames
  <1>4. PICK q \in 1..n : \E p \in 1..q : StackFrame(L, f, p) /\ StackFrame(L, g, q)
    BY <1>3
  <1>5. PICK p \in 1..q : StackFrame(L, f, p) /\ StackFrame(L, g, q)
    BY <1>4
  <1>6. Stack!FramePop(g)
    <2>1. Stack!Top(frames) = g
      BY <1>3 DEF Stack!Top
    <2> QED BY <2>1, <1>1
  <1>7. PICK M \in [1..q -> Stack!Blocs] :
             /\ \A k \in 1..q : M[k] = L[k]
             /\ next' \in [Stack!Blocs -> Int] /\ sp' = g.sp /\ bloc' = L[q]
             /\ \E i \in Nat : \E G \in [1..i -> Stack!Blocs] : StackLists(M, q, G, i)'
    BY <1>1, <1>5, <1>6, StackPopped
  <1>8. n \in Nat
    BY StackLast
  <1>9. q \in Nat /\ q # 0 /\ q \in 1..q /\ p \in Nat /\ p # 0 /\ \A k \in 1..p : M[k] = L[k]
    BY <1>7, <1>8
  <1>10. StackFrame(M, f, p) /\ StackFrame(M, g, q)
    BY <1>5, <1>7, <1>9, StackFrameStays
  <1>11. StackFrames(M, q)'
    <2>1. frames' = <<f, g>>
          /\ \E r \in 1..q : \E s \in 1..r : StackFrame(M, f, s) /\ StackFrame(M, g, r)
      BY <1>1, <1>3, <1>9, <1>10
    <2> QED BY <1>1, <1>9, <2>1 DEF StackFrames
  <1>12. StackTasks(M, q)'
    BY <1>1, <1>5, <1>7, <1>9, StackNoTasks
  <1> QED BY <1>7, <1>9, <1>11, <1>12, StackAgain

\* kaapi_end_dfg.
LEMMA StackEndKeeps ==
    ASSUME NEW n, NEW L, NEW m, NEW F, StackGood(L, n, F, m), Stack!EndDfg
    PROVE  StackInv'
  <1>1. /\ phase = "synced" /\ frames' = Stack!Front(frames) /\ Stack!FramePop(Stack!Top(frames'))
        /\ phase' = "closed" /\ UNCHANGED <<malloced, bloc0, tasks>>
    BY DEF Stack!EndDfg
  <1>2. StackFrames(L, n) /\ StackTasks(L, n)
    BY StackLast
  <1>3. PICK f, g : /\ frames = <<f, g>>
                    /\ \E q \in 1..n : \E p \in 1..q : StackFrame(L, f, p) /\ StackFrame(L, g, q)
    BY <1>1, <1>2 DEF StackFrames
  <1>4. PICK q \in 1..n : \E p \in 1..q : StackFrame(L, f, p) /\ StackFrame(L, g, q)
    BY <1>3
  <1>5. PICK p \in 1..q : StackFrame(L, f, p) /\ StackFrame(L, g, q)
    BY <1>4
  <1>6. frames' = <<f>> /\ Stack!FramePop(f)
    <2>1. Stack!Front(frames) = <<f>>
      <3>1. Len(<<f, g>>) - 1 = 1
        OBVIOUS
      <3>2. Stack!Front(<<f, g>>) = SubSeq(<<f, g>>, 1, 1)
        BY <3>1, Zenon DEF Stack!Front
      <3> QED BY <3>2, <1>3, StackFirst
    <2>2. frames' = <<f>>
      BY <2>1, <1>1
    <2>3. Stack!Top(frames') = f
      BY <2>2 DEF Stack!Top
    <2> QED BY <2>2, <2>3, <1>1
  <1>7. n \in Nat /\ p \in 1..n /\ p \in Nat /\ p # 0 /\ p \in 1..p
    BY StackLast
  <1>8. PICK M \in [1..p -> Stack!Blocs] :
             /\ \A k \in 1..p : M[k] = L[k]
             /\ next' \in [Stack!Blocs -> Int] /\ sp' = f.sp /\ bloc' = L[p]
             /\ \E i \in Nat : \E G \in [1..i -> Stack!Blocs] : StackLists(M, p, G, i)'
    <2>1. Stack!FramePop(f) /\ UNCHANGED <<malloced, bloc0>> /\ StackFrame(L, f, p) /\ p \in 1..n
      BY <1>1, <1>5, <1>6, <1>7
    <2> QED BY <2>1, StackPopped
  <1>9. StackFrame(M, f, p)
    BY <1>5, <1>7, <1>8, StackFrameStays
  <1>10. StackFrames(M, p)'
    BY <1>1, <1>6, <1>7, <1>9 DEF StackFrames
  <1>11. tasks' = {}
    BY <1>1, <1>2 DEF StackTasks
  <1>12. StackTasks(M, p)'
    BY <1>5, <1>7, <1>8, <1>11, StackNoTasks
  <1> QED BY <1>7, <1>8, <1>10, <1>12, StackAgain

\* kaapi_thread_unbind: every bloc is in one of the two lists.
LEMMA StackUnbindKeeps ==
    ASSUME NEW n, NEW L, NEW m, NEW F, StackGood(L, n, F, m), Stack!Unbind
    PROVE  StackInv'
  <1>1. /\ phase = "closed" /\ phase' = "unbound" /\ frames' = <<>> /\ tasks' = tasks
        /\ next' = [b \in Stack!Blocs |-> Stack!None]
        /\ head' = Stack!None /\ bloc0' = Stack!None /\ bloc' = Stack!None
        /\ sp' = [bloc |-> Stack!None, off |-> 0]
        /\ malloced' = malloced \
              ({bloc0} \cup {Stack!After(bloc0)[k] : k \in DOMAIN Stack!After(bloc0)}
                      \cup {head} \cup {Stack!After(head)[k] : k \in DOMAIN Stack!After(head)})
    BY DEF Stack!Unbind
  <1>2. StackLists(L, n, F, m) /\ StackLinked(L, n) /\ StackLinked(F, m) /\ StackTasks(L, n)
    BY StackLast
  <1>3. Stack!Listed(bloc0) = {L[k] : k \in 1..n} /\ Stack!Listed(head) = {F[k] : k \in 1..m}
    BY <1>2, StackBothLists
  <1>4. malloced = Stack!Listed(bloc0) \cup Stack!Listed(head)
    BY <1>2, <1>3 DEF StackLists
  <1>5. /\ Stack!Listed(bloc0) \subseteq
               {bloc0} \cup {Stack!After(bloc0)[k] : k \in DOMAIN Stack!After(bloc0)}
        /\ Stack!Listed(head) \subseteq
               {head} \cup {Stack!After(head)[k] : k \in DOMAIN Stack!After(head)}
    BY DEF Stack!Listed
  <1>6. malloced' = {}
    BY <1>1, <1>4, <1>5
  <1> DEFINE G == [k \in 1..0 |-> 1]
  <1>7. StackLinked(G, 0)' /\ G \in [1..0 -> Stack!Blocs] /\ 0 \in Nat
    BY DEF StackLinked
  <1> HIDE DEF G
  <1>8. StackLists(G, 0, G, 0)'
    BY <1>1, <1>6, <1>7 DEF StackLists
  <1>9. tasks' = {}
    BY <1>1, <1>2 DEF StackTasks
  <1>10. StackFrames(G, 0)' /\ StackTasks(G, 0)' /\ next' \in [Stack!Blocs -> Int]
    BY <1>1, <1>9 DEF StackFrames, StackTasks, Stack!None
  <1> QED BY <1>7, <1>8, <1>10, StackAgain

\* Every step keeps the invariant.
LEMMA StackStepKeeps == ASSUME StackInv, [Stack!Next]_(Stack!vars) PROVE StackInv'
  <1>1. PICK n, m \in Nat : \E L \in [1..n -> Stack!Blocs], F \in [1..m -> Stack!Blocs] :
                StackGood(L, n, F, m)
    BY DEF StackInv
  <1>2. PICK L \in [1..n -> Stack!Blocs], F \in [1..m -> Stack!Blocs] : StackGood(L, n, F, m)
    BY <1>1
  <1>3. CASE Stack!Bind
    BY <1>2, <1>3, StackBindKeeps
  <1>4. CASE Stack!BeginDfg
    BY <1>2, <1>4, StackBeginKeeps
  <1>5. CASE Stack!SyncPop
    BY <1>2, <1>5, StackSyncKeeps
  <1>6. CASE Stack!EndDfg
    BY <1>2, <1>6, StackEndKeeps
  <1>7. CASE Stack!Unbind
    BY <1>2, <1>7, StackUnbindKeeps
  <1>8. ASSUME NEW amount \in StackSizes, Stack!AllocTask(amount) PROVE StackInv'
    BY <1>2, <1>8, StackAllocKeeps
  <1>9. CASE UNCHANGED Stack!vars
    <2>1. UNCHANGED <<malloced, next, head, bloc0, bloc>>
      BY <1>9 DEF Stack!vars
    <2>4. StackLists(L, n, F, m)
      BY <1>2, StackLast
    <2>2. StackLists(L, n, F, m)'
      BY <2>1, <2>4 DEF StackLists, StackLinked
    <2>3. StackFrames(L, n)' /\ StackTasks(L, n)' /\ next' \in [Stack!Blocs -> Int]
      BY <1>2, <1>9, StackLast DEF Stack!vars, StackFrames, StackTasks
    <2> QED BY <2>2, <2>3, StackAgain
  <1> QED BY <1>3, <1>4, <1>5, <1>6, <1>7, <1>8, <1>9 DEF Stack!Next

\* The invariant gives the promises of the stack.
LEMMA StackInvIsSound == StackInv => StackSound
  <1> SUFFICES ASSUME StackInv PROVE StackSound
    OBVIOUS
  <1>1. PICK n, m \in Nat : \E L \in [1..n -> Stack!Blocs], F \in [1..m -> Stack!Blocs] :
                StackGood(L, n, F, m)
    BY DEF StackInv
  <1>2. PICK L \in [1..n -> Stack!Blocs], F \in [1..m -> Stack!Blocs] : StackGood(L, n, F, m)
    BY <1>1
  <1>3. /\ StackLists(L, n, F, m) /\ StackLinked(L, n) /\ StackLinked(F, m) /\ StackTasks(L, n)
        /\ n # 0 => bloc = L[n] /\ bloc0 = L[1] /\ n \in 1..n
    BY <1>2, StackLast
  <1>4. Stack!Listed(bloc0) = {L[k] : k \in 1..n} /\ Stack!Listed(head) = {F[k] : k \in 1..m}
    BY <1>3, StackBothLists
  <1>5. Stack!BlocsAccounted
    <2>1. malloced = Stack!Listed(bloc0) \cup Stack!Listed(head)
          /\ Stack!Listed(bloc0) \cap Stack!Listed(head) = {}
      BY <1>3, <1>4 DEF StackLists
    <2>2. bloc # Stack!None => n # 0
      BY <1>3 DEF StackLists
    <2>3. bloc # Stack!None => next[bloc] = Stack!None /\ bloc \in Stack!Listed(bloc0)
      BY <2>2, <1>3, <1>4 DEF StackLinked
    <2>4. sp.bloc = bloc
      BY <1>3 DEF StackTasks
    <2> QED BY <2>1, <2>3, <2>4 DEF Stack!BlocsAccounted
  <1>6. Stack!TasksDisjoint
    <2>1. \A t \in tasks :
            /\ t.first >= StackHeader /\ t.first + t.size <= StackCap
            /\ \A u \in tasks : u.bloc = t.bloc /\ u # t =>
                  u.first + u.size <= t.first \/ t.first + t.size <= u.first
      BY <1>3 DEF StackTasks
    <2>2. ASSUME NEW t \in tasks
          PROVE \/ t.bloc = bloc0
                 \/ \E k \in DOMAIN Stack!After(bloc0) : Stack!After(bloc0)[k] = t.bloc
      <3>1. t.bloc \in {L[k] : k \in 1..n}
        BY <1>3 DEF StackTasks
      <3>2. t.bloc \in Stack!Listed(bloc0)
        BY <3>1, <1>4
      <3> QED BY <3>2 DEF Stack!Listed
    <2> QED BY <2>1, <2>2 DEF Stack!TasksDisjoint
  <1> QED BY <1>5, <1>6 DEF StackSound

-----------------------------------------------------------------------------
(* The theorems.                                                           *)

\* A step of the composition is a step of the stack or leaves its variables.
LEMMA StackSteps ==
    ASSUME [StructuresNext]_structuresVars
    PROVE  [Stack!Next]_(Stack!vars)
  <1>1. CASE StackNext
    BY <1>1 DEF StackNext, Only, Stack!Next
  <1>2. CASE HeapNext \/ MapNext \/ WorkNext \/ QueueNext \/ FrontNext
    <2>1. \E c \in {"heap", "map", "work", "queue", "front"} : Only(c)
      BY <1>2 DEF HeapNext, MapNext, WorkNext, QueueNext, FrontNext
    <2>2. UNCHANGED stackVars
      BY <2>1 DEF Only
    <2> QED BY <2>2 DEF stackVars, Stack!vars
  <1>3. CASE UNCHANGED structuresVars
    BY <1>3 DEF structuresVars, stackVars, Stack!vars
  <1> QED BY <1>1, <1>2, <1>3 DEF StructuresNext

\* The inductive invariant of the stack: the lists of its blocs and of those of
\* the allocator, the blocs of the frames, and sp behind the descriptors
\* (kaapi_task_alloc, kaapi_begin_dfg, kaapi_frame_pop).
THEOREM StackInvHolds == StructuresSpec => []StackInv
  <1>1. StructuresInit => StackInv
    BY StackInitRight DEF StructuresInit
  <1>2. StackInv /\ [StructuresNext]_structuresVars => StackInv'
    BY StackStepKeeps, StackSteps
  <1> QED BY <1>1, <1>2, PTL DEF StructuresSpec

\* After any frames and allocations the live descriptors lie in blocs of the
\* stack and do not overlap, although blocs are given back and taken again, and
\* each bloc is once in the stack or once in the free list of the allocator
\* (kaapi_task_alloc, kaapi_stack_pop).
THEOREM StackSoundHolds == StructuresSpec => []StackSound
  <1>1. StackInv => StackSound
    BY StackInvIsSound
  <1> QED BY <1>1, StackInvHolds, PTL

=============================================================================
