---------------------------- MODULE TeamBarrier ----------------------------
(***************************************************************************)
(* The barrier of a team of threads (kaapi/kaapi_barrier.c).               *)
(*                                                                         *)
(* Three counters of arrivals are used in turn.  The last thread to arrive *)
(* clears the counter after the next one and moves barrier->cycle on; the  *)
(* others wait for that.  A worker passes KAAPI_BARRIER_FLAG_WAITEXIT and  *)
(* then waits until the master (kid 0) has called                          *)
(* kaapi_team_barrier_wait_signal.  Every read and write of a shared word  *)
(* is a step.                                                              *)
(***************************************************************************)
EXTENDS Integers, FiniteSets

CONSTANTS
    Threads,  \* the team: kids
    Rounds    \* bound: calls of kaapi_team_barrier_wait by each thread

Master == 0
Cycles == 3   \* KAAPI_BAR_CYCLES
Workers == Threads \ {Master}

VARIABLES
    cycle, count, wait_cycle, term,  \* fields of team->barrier
    pc,                        \* next step of each thread
    current_cycle, wcycle,     \* locals of kaapi_team_barrier_wait
    left,                      \* calls each thread has returned from
    signals,                   \* calls of wait_signal by the master
    arrived                    \* history: arrivals of each thread

vars == <<cycle, count, wait_cycle, term, pc, current_cycle, wcycle, left, signals, arrived>>

\* kaapi_barrier_init
Init ==
    /\ cycle = 0 /\ wait_cycle = 0 /\ term = 0
    /\ count = [c \in 0..(Cycles - 1) |-> 0]
    /\ pc = [t \in Threads |-> "out"]
    /\ current_cycle = [t \in Threads |-> 0]
    /\ wcycle = [t \in Threads |-> -1]
    /\ left = [t \in Threads |-> 0]
    /\ signals = 0
    /\ arrived = [t \in Threads |-> 0]

NextCycle(c) == (c + 1) % Cycles

Goto(t, l) == pc' = [pc EXCEPT ![t] = l]

\* The call begins: the cycle is read.  The master signals the workers of one
\* barrier before it enters the next.
Enter(t) ==
    /\ pc[t] = "out" /\ left[t] < Rounds
    /\ t = Master => signals = left[t]
    /\ current_cycle' = [current_cycle EXCEPT ![t] = cycle]
    /\ Goto(t, IF t \in Workers THEN "read_wait" ELSE "arrive")
    /\ UNCHANGED <<cycle, count, wait_cycle, wcycle, left, signals, arrived, term>>

\* KAAPI_BARRIER_FLAG_WAITEXIT: the exit cycle is read before the arrival.
ReadWaitCycle(t) ==
    /\ pc[t] = "read_wait"
    /\ wcycle' = [wcycle EXCEPT ![t] = wait_cycle]
    /\ Goto(t, "arrive")
    /\ UNCHANGED <<cycle, count, wait_cycle, current_cycle, left, signals, arrived, term>>

\* Defect: one arrival is not waited for.
LastArrivalEarly(n) == n = Cardinality(Threads) - 1

\* The arrival that completes the count.
LastArrival(n) == n = Cardinality(Threads)

\* KAAPI_ATOMIC_INCR(current_counter)
Arrive(t) ==
    LET n == count[current_cycle[t]] + 1
    IN  /\ pc[t] = "arrive"
        /\ count' = [count EXCEPT ![current_cycle[t]] = n]
        /\ arrived' = [arrived EXCEPT ![t] = @ + 1]
        /\ Goto(t, IF LastArrival(n) THEN "clean" ELSE "spin")
        /\ UNCHANGED <<cycle, wait_cycle, current_cycle, wcycle, left, signals, term>>

\* The last thread clears the counter of the cycle after the next.
Clean(t) ==
    /\ pc[t] = "clean"
    /\ count' = [count EXCEPT ![NextCycle(NextCycle(current_cycle[t]))] = 0]
    /\ Goto(t, "turn")
    /\ UNCHANGED <<cycle, wait_cycle, current_cycle, wcycle, left, signals, arrived, term>>

\* KAAPI_ATOMIC_WRITE(&barrier->cycle, next_cycle)
Turn(t) ==
    /\ pc[t] = "turn"
    /\ cycle' = NextCycle(current_cycle[t])
    /\ Goto(t, "exit")
    /\ UNCHANGED <<count, wait_cycle, current_cycle, wcycle, left, signals, arrived, term>>

\* The loop on barrier->cycle ends.
Spin(t) ==
    /\ pc[t] = "spin" /\ cycle = NextCycle(current_cycle[t])
    /\ Goto(t, "exit")
    /\ UNCHANGED <<cycle, count, wait_cycle, current_cycle, wcycle, left, signals, arrived, term>>

\* A worker is held until wait_cycle differs from what it read: it spins, then
\* sleeps on the futex, whose test of the value is atomic with the sleep.
MayExit(t) == t \in Workers => wcycle[t] # wait_cycle

Exit(t) ==
    /\ pc[t] = "exit" /\ MayExit(t)
    /\ left' = [left EXCEPT ![t] = @ + 1]
    /\ Goto(t, "out")
    /\ UNCHANGED <<cycle, count, wait_cycle, current_cycle, wcycle, signals, arrived, term>>

\* kaapi_team_barrier_wait_signal, by the master between two barriers.
Signal ==
    /\ pc[Master] = "out" /\ signals < left[Master]
    /\ wait_cycle' = wait_cycle + 1
    /\ signals' = signals + 1
    /\ UNCHANGED <<cycle, count, pc, current_cycle, wcycle, left, arrived, term>>

\* kaapi_team_barrier_wait_signal_term by a worker; the increment of
\* kaapi_team_barrier_wait_term by the master.
SignalTerm(t) ==
    /\ pc[t] = "out" /\ left[t] = Rounds
    /\ t = Master => signals = Rounds
    /\ term' = term + 1
    /\ Goto(t, IF t = Master THEN "wait_term" ELSE "end")
    /\ UNCHANGED <<cycle, count, wait_cycle, current_cycle, wcycle, left, signals, arrived>>

AllTerm == term = Cardinality(Threads)

\* The master's wait ends.  Its sleep on the futex tests term atomically and
\* the last signal wakes it.
EndTerm(t) ==
    /\ pc[t] = "wait_term" /\ AllTerm
    /\ Goto(t, "end")
    /\ UNCHANGED <<cycle, count, wait_cycle, current_cycle, wcycle, left, signals, arrived, term>>

Step(t) == SignalTerm(t) \/ EndTerm(t) \/ Enter(t) \/ ReadWaitCycle(t) \/ Arrive(t) \/ Clean(t) \/ Turn(t) \/ Spin(t) \/ Exit(t)

Done == (\A t \in Threads : pc[t] = "end") /\ UNCHANGED vars

Next == (\E t \in Threads : Step(t)) \/ Signal \/ Done

\* Each thread of the team is scheduled.
Fairness == WF_vars((\E t \in Threads : Step(t)) \/ Signal)

Spec == Init /\ [][Next]_vars /\ Fairness

-----------------------------------------------------------------------------
(* Properties.                                                             *)

\* No thread passes a barrier before every thread of the team has arrived at
\* it, although the counters are used again every third barrier while slow
\* threads may still be in an earlier one.
BarrierHolds ==
    \A t, u \in Threads :
       left[t] + (IF pc[t] = "exit" THEN 1 ELSE 0) <= arrived[u]

\* A worker leaves a barrier only after the master's signal for that barrier,
\* and the master ends only after every worker has announced its end.
ExitAfterSignal ==
    /\ \A t \in Workers : left[t] <= signals
    /\ pc[Master] = "end" => \A t \in Workers : pc[t] = "end"

\* Every thread passes every barrier: no arrival is lost by clearing a counter
\* that is in use, and no signal of the master is missed.
BarriersEnd == []<>(\A t \in Threads : pc[t] = "end")

-----------------------------------------------------------------------------
(* The inductive invariant.  g is the number of turns of the barrier.      *)

TypeOK ==
    /\ cycle \in 0..(Cycles - 1) /\ count \in [0..(Cycles - 1) -> Nat]
    /\ wait_cycle \in Nat /\ term \in Nat /\ signals \in Nat
    /\ pc \in [Threads -> {"out", "read_wait", "arrive", "spin", "clean", "turn", "exit",
                           "wait_term", "end"}]
    /\ current_cycle \in [Threads -> 0..(Cycles - 1)]
    /\ wcycle \in [Threads -> Int]
    /\ left \in [Threads -> Nat] /\ arrived \in [Threads -> Nat]

\* The threads that have arrived at the barrier after g turns.
Arrived(g) == {t \in Threads : arrived[t] = g + 1}

\* No thread is more than one barrier ahead of another.
ThreadAt(g, t) ==
    /\ arrived[t] \in {g, g + 1} /\ arrived[t] <= Rounds
    /\ pc[t] \in {"out", "read_wait", "arrive", "wait_term", "end"} => left[t] = g /\ arrived[t] = g
    /\ pc[t] \in {"read_wait", "arrive"} => current_cycle[t] = g % Cycles /\ g < Rounds
    /\ pc[t] = "spin" => left[t] + 1 = arrived[t] /\ current_cycle[t] = left[t] % Cycles
    /\ pc[t] \in {"clean", "turn"} => left[t] = g /\ Arrived(g) = Threads
                                      /\ current_cycle[t] = g % Cycles
    /\ pc[t] = "exit" => left[t] + 1 = g /\ arrived[t] = g

\* The counter in use counts the arrivals, the next one is clear, and the one
\* after it is cleared before the turn.
CountersAt(g) ==
    /\ cycle = g % Cycles
    /\ count[g % Cycles] = Cardinality(Arrived(g))
    /\ count[(g + 1) % Cycles] = 0
    /\ \A t \in Threads : pc[t] = "turn" => count[(g + 2) % Cycles] = 0
    /\ \A t, u \in Threads : pc[t] \in {"clean", "turn"} /\ pc[u] \in {"clean", "turn"} => t = u

\* What a worker holds of the exit cycle, and what the master has signalled.
SignalsAt(g) ==
    /\ wait_cycle = signals /\ signals <= left[Master]
    /\ \A t \in Workers :
          /\ left[t] <= signals
          /\ pc[t] \in {"arrive", "spin", "clean", "turn", "exit"} => wcycle[t] = left[t]

\* The threads that have announced their end.
EndsCounted ==
    /\ term = Cardinality({t \in Threads : pc[t] \in {"end", "wait_term"}})
    /\ \A t \in Workers : pc[t] # "wait_term"
    /\ pc[Master] = "end" => \A t \in Workers : pc[t] = "end"

RoundAt(g) == CountersAt(g) /\ SignalsAt(g) /\ \A t \in Threads : ThreadAt(g, t)

BarrierInv == TypeOK /\ EndsCounted /\ \E g \in 0..Rounds : RoundAt(g)

\* What the barrier promises, with the invariant it rests on.
BarrierSound == BarrierInv /\ BarrierHolds /\ ExitAfterSignal

=============================================================================
