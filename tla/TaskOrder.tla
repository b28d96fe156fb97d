----------------------------- MODULE TaskOrder -----------------------------
(***************************************************************************)
(* What the data-flow engine promises its caller, without generations,     *)
(* counters or threads: a program is a sequence of accesses; a task starts *)
(* only when every task with an earlier conflicting access has finished;   *)
(* xkblas_sync returns, and forgets the program, only when all tasks have  *)
(* finished and every write-back that was started has reached the host.    *)
(***************************************************************************)
EXTENDS Naturals, Sequences

CONSTANTS Tasks, Handles, Modes, Conflict(_, _)

VARIABLES
    prog,    \* the accesses in program order
    st,      \* progress of each task
    owed     \* tasks whose data is still on its way to the host

orderVars == <<prog, st, owed>>

OInit ==
    /\ prog = <<>>
    /\ st = [t \in Tasks |-> "free"]
    /\ owed = {}

Declare(t) ==
    /\ st[t] = "free"
    /\ st' = [st EXCEPT ![t] = "declared"]
    /\ UNCHANGED <<prog, owed>>

AddAccess(t, h, m) ==
    /\ st[t] = "declared"
    /\ prog' = Append(prog, [task |-> t, h |-> h, mode |-> m])
    /\ UNCHANGED <<st, owed>>

Submit(t) ==
    /\ st[t] = "declared"
    /\ st' = [st EXCEPT ![t] = "submitted"]
    /\ UNCHANGED <<prog, owed>>

\* Every access that precedes an access of t and conflicts with it belongs to
\* a task that has finished.
MayStart(t) ==
    \A j \in DOMAIN prog : prog[j].task = t =>
        \A i \in 1..(j - 1) :
            (prog[i].h = prog[j].h /\ Conflict(prog[i].mode, prog[j].mode))
                => st[prog[i].task] = "finished"

Start(t) ==
    /\ st[t] = "submitted" /\ MayStart(t)
    /\ st' = [st EXCEPT ![t] = "running"]
    /\ UNCHANGED <<prog, owed>>

SendHome(t) ==
    /\ st[t] = "running"
    /\ owed' = owed \cup {t}
    /\ UNCHANGED <<prog, st>>

ArriveHome(t) ==
    /\ t \in owed
    /\ owed' = owed \ {t}
    /\ UNCHANGED <<prog, st>>

Finish(t) ==
    /\ st[t] = "running"
    /\ st' = [st EXCEPT ![t] = "finished"]
    /\ UNCHANGED <<prog, owed>>

Forget ==
    /\ \A t \in Tasks : st[t] \in {"free", "finished"}
    /\ owed = {}
    /\ prog' = <<>>
    /\ st' = [t \in Tasks |-> "free"]
    /\ UNCHANGED owed

ONext ==
    \/ \E t \in Tasks :
          \/ Declare(t) \/ Submit(t) \/ Start(t) \/ Finish(t)
          \/ SendHome(t) \/ ArriveHome(t)
          \/ \E h \in Handles, m \in Modes : AddAccess(t, h, m)
    \/ Forget

OSpec == OInit /\ [][ONext]_orderVars

=============================================================================
