------------------------------ MODULE TaskLine ------------------------------
(***************************************************************************)
(* What the queue of a device promises, without array, positions or lock:  *)
(* the tasks stand in a line; clients join at the end, the owner lets its  *)
(* own tasks in at the front and takes the first one, a thief takes any    *)
(* one.  No task is lost, none is taken twice, none overtakes another.     *)
(***************************************************************************)
CONSTANTS ClientTasks, OwnerTasks

VARIABLES
    line,    \* the tasks in the line
    before,  \* pairs <<t, u>> of tasks of the line such that t is before u
    popped,  \* the tasks the owner took
    stolen   \* the tasks thieves took

lineVars == <<line, before, popped, stolen>>

LInit ==
    /\ line = {} /\ before = {}
    /\ popped = {} /\ stolen = {}

New(t) == t \notin line \cup popped \cup stolen

Join(t) ==
    /\ New(t)
    /\ line' = line \cup {t}
    /\ before' = before \cup (line \X {t})
    /\ UNCHANGED <<popped, stolen>>

LetIn(t) ==
    /\ New(t)
    /\ line' = line \cup {t}
    /\ before' = before \cup ({t} \X line)
    /\ UNCHANGED <<popped, stolen>>

Leave(t) ==
    /\ line' = line \ {t}
    /\ before' = {p \in before : p[1] # t /\ p[2] # t}

TakeFirst(t) ==
    /\ t \in line /\ \A u \in line : <<u, t>> \notin before
    /\ Leave(t)
    /\ popped' = popped \cup {t}
    /\ UNCHANGED stolen

TakeAny(t) ==
    /\ t \in line
    /\ Leave(t)
    /\ stolen' = stolen \cup {t}
    /\ UNCHANGED popped

LNext ==
    \/ \E t \in ClientTasks : Join(t)
    \/ \E t \in OwnerTasks : LetIn(t)
    \/ \E t \in ClientTasks \cup OwnerTasks : TakeFirst(t) \/ TakeAny(t)

LSpec == LInit /\ [][LNext]_lineVars

=============================================================================
