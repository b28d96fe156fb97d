--------------------------- MODULE DevicePipeline ---------------------------
(***************************************************************************)
(* The task pipeline of one device (kaapi/kaapi_offload_device.c).         *)
(*                                                                         *)
(* The device thread takes tasks from its queue, writes each into the slot *)
(* p_write of a circular buffer and asks for its data; it counts in        *)
(* task->wc the transfers it waits for, plus one while it is preparing.    *)
(* The end of a transfer calls callback_set_valid, on the thread of any    *)
(* device: it decrements wc first and takes pipe_lock afterwards.  The     *)
(* kernels are inserted into the kernel stream in pipeline order, by the   *)
(* device thread or by a callback, whoever finds the task at p_ready with  *)
(* wc = 0.  Kernels end in any order; callback_epilogue frees the slot and *)
(* moves p_finish over the slots already free.                             *)
(*                                                                         *)
(* A task is identified with its pipeline index.                           *)
(***************************************************************************)
EXTENDS Integers, Sequences, FiniteSets

CONSTANTS
    Conc,      \* cuda_conc_kernel, the size of the circular buffer
    MaxTasks,  \* bound: tasks that enter the pipeline
    MaxXfers   \* bound: transfers one task waits for

ASSUME PipelineAssumption ==
    /\ Conc \in Nat \ {0}
    /\ MaxTasks \in Nat
    /\ MaxXfers \in Nat

VARIABLES
    pc,        \* program point of the device thread
    p_write, p_ready, p_finish,
    pipeline,  \* slot -> index of its task
    wc,        \* task->wc
    xfers,     \* transfers of each task that have not ended
    cbk,       \* callbacks of each task between their decrement and pipe_lock
    stream,    \* kernels inserted into the kernel stream, in order
    finished,  \* tasks whose epilogue is done
    cnt_pending, cnt_ready

indexVars == <<p_write, p_ready, p_finish>>
dataVars  == <<wc, xfers, cbk>>
vars == <<pc, indexVars, pipeline, dataVars, stream, finished,
          cnt_pending, cnt_ready>>

Index == 0..(MaxTasks - 1)
Empty == -1
Slot(i) == i % Conc

Init ==
    /\ pc = "loop"
    /\ p_write = 0 /\ p_ready = 0 /\ p_finish = 0
    /\ pipeline = [s \in 0..(Conc - 1) |-> Empty]
    /\ wc = [i \in Index |-> 0]
    /\ xfers = [i \in Index |-> 0]
    /\ cbk = [i \in Index |-> 0]
    /\ stream = <<>>
    /\ finished = {}
    /\ cnt_pending = 0 /\ cnt_ready = 0

\* The kernels i, i+1, ..., k-1.
Kernels(i, k) == [n \in 1..(k - i) |-> i + n - 1]

-----------------------------------------------------------------------------
(* The device thread.                                                      *)

\* Defect: one task more than the buffer holds is accepted.
AcceptOneMore == /\ p_write - p_finish <= Conc
                 /\ p_write - p_ready < (1 + Conc) \div 2

\* kaapi_offload_device_accept_new_task
Accept == /\ p_write - p_finish < Conc
          /\ p_write - p_ready < (1 + Conc) \div 2

\* A task is taken from the queue, by the scheduling loop or, without a test
\* of Accept, to serve a MEMSYNC request; its preparation starts.
Prepare ==
    /\ pc = "loop" /\ p_write < MaxTasks
    /\ pc' = "params"
    /\ pipeline' = [pipeline EXCEPT ![Slot(p_write)] = p_write]
    /\ wc' = [wc EXCEPT ![p_write] = @ + 1]
    /\ cnt_pending' = cnt_pending + 1
    /\ UNCHANGED <<indexVars, xfers, cbk, stream, finished, cnt_ready>>

\* kaapi_dsm_acquire_data starts, or joins, a transfer for a parameter; a
\* parameter already valid on the device leaves everything as it is.
AcquireData ==
    /\ pc = "params" /\ xfers[p_write] + cbk[p_write] < MaxXfers
    /\ wc' = [wc EXCEPT ![p_write] = @ + 1]
    /\ xfers' = [xfers EXCEPT ![p_write] = @ + 1]
    /\ UNCHANGED <<pc, indexVars, pipeline, cbk, stream, finished,
                   cnt_pending, cnt_ready>>

\* ++p_write, before pipe_lock is taken.
Publish ==
    /\ pc = "params"
    /\ pc' = "publish"
    /\ p_write' = p_write + 1
    /\ UNCHANGED <<p_ready, p_finish, pipeline, dataVars, stream, finished,
                   cnt_pending, cnt_ready>>

\* Defect: a task whose data is there is inserted wherever it stands.
LeadingAnywhere(i) == wc[i] = 1

\* The task is the leading one and all its data is there.
Leading(i) == wc[i] = 1 /\ p_ready = i

\* The critical section that ends the preparation.  Without the lead the task
\* is left to the callback of a task before it, and nothing is counted.
EndPrepare ==
    LET i == p_write - 1
    IN  /\ pc = "publish"
        /\ pc' = "poll"
        /\ wc' = [wc EXCEPT ![i] = @ - 1]
        /\ IF Leading(i)
           THEN /\ stream' = Append(stream, i)
                /\ p_ready' = p_ready + 1
                /\ cnt_ready' = cnt_ready + 1
                /\ cnt_pending' = cnt_pending - 1
           ELSE UNCHANGED <<stream, p_ready, cnt_ready, cnt_pending>>
        /\ UNCHANGED <<p_write, p_finish, pipeline, xfers, cbk, finished>>

\* The loop that polls the streams ends when a new task may be accepted.
EndPoll ==
    /\ pc = "poll" /\ Accept
    /\ pc' = "loop"
    /\ UNCHANGED <<indexVars, pipeline, dataVars, stream, finished,
                   cnt_pending, cnt_ready>>

\* p_finish after the end of kernel i when the slots are those of pipe.
NextFinish(i, pipe, k) ==
    /\ k \in (i + 1)..p_ready
    /\ \A j \in (i + 1)..(k - 1) : pipe[Slot(j)] = Empty
    /\ k < p_ready => pipe[Slot(k)] # Empty

\* callback_epilogue, called when the device thread polls the streams: between
\* tasks, and while it prepares one when its memory is full.
Epilogue(i) ==
    /\ pc \in {"loop", "params", "poll"}
    /\ i < p_ready /\ i \notin finished
    /\ finished' = finished \cup {i}
    /\ cnt_ready' = cnt_ready - 1
    /\ pipeline' = [pipeline EXCEPT ![Slot(i)] = Empty]
    /\ IF i = p_finish THEN \E k \in 0..MaxTasks :
                                NextFinish(i, pipeline', k) /\ p_finish' = k
                       ELSE UNCHANGED p_finish
    /\ UNCHANGED <<pc, p_write, p_ready, dataVars, stream, cnt_pending>>

-----------------------------------------------------------------------------
(* callback_set_valid, on the thread that detects the end of a transfer.   *)

\* Before pipe_lock.
DecrWc(i) ==
    /\ xfers[i] > 0
    /\ xfers' = [xfers EXCEPT ![i] = @ - 1]
    /\ wc' = [wc EXCEPT ![i] = @ - 1]
    /\ cbk' = [cbk EXCEPT ![i] = @ + 1]
    /\ IF wc[i] = 1 THEN cnt_ready' = cnt_ready + 1 /\ cnt_pending' = cnt_pending - 1
                    ELSE UNCHANGED <<cnt_ready, cnt_pending>>
    /\ UNCHANGED <<pc, indexVars, pipeline, stream, finished>>

\* Defect: the callback inserts its own task only.
NextReadyByOne(i, k) ==
    IF wc[pipeline[Slot(i)]] = 0 THEN k = i + 1 ELSE k = i

\* The first index from i on whose task waits for data or is not published.
\* The scan is one step: wc only falls, so what it read is still true when it
\* stops.
NextReady(i, k) ==
    /\ k \in i..p_write
    /\ \A j \in i..(k - 1) : wc[pipeline[Slot(j)]] = 0
    /\ k < p_write => wc[pipeline[Slot(k)]] # 0

\* Under pipe_lock.
SetValid(i) ==
    /\ cbk[i] > 0
    /\ cbk' = [cbk EXCEPT ![i] = @ - 1]
    /\ IF i = p_ready
       THEN \E k \in 0..MaxTasks :
               /\ NextReady(i, k)
               /\ p_ready' = k
               /\ stream' = stream \o Kernels(i, k)
       ELSE UNCHANGED <<p_ready, stream>>
    /\ UNCHANGED <<pc, p_write, p_finish, pipeline, wc, xfers, finished,
                   cnt_pending, cnt_ready>>

-----------------------------------------------------------------------------
Device == Prepare \/ AcquireData \/ Publish \/ EndPrepare \/ EndPoll

\* All tasks of the bounded run are executed.
Done == pc = "loop" /\ p_finish = MaxTasks /\ UNCHANGED vars

Next ==
    \/ Device
    \/ \E i \in Index : Epilogue(i) \/ DecrWc(i) \/ SetValid(i)
    \/ Done

Spec == Init /\ [][Next]_vars

\* The device thread runs, transfers and kernels end, and a callback gets the
\* lock it waits for.
FairSpec ==
    /\ Spec
    /\ WF_vars(Prepare \/ EndPrepare \/ EndPoll) /\ WF_vars(Publish)
    /\ WF_vars(\E i \in Index : Epilogue(i) \/ DecrWc(i) \/ SetValid(i))

-----------------------------------------------------------------------------
(* Properties.                                                             *)

\* Every variable holds a value of its type, and the three positions are
\* ordered: p_finish, p_ready, p_write.
TypeOK ==
    /\ pc \in {"loop", "params", "publish", "poll"}
    /\ p_write \in 0..MaxTasks /\ p_ready \in 0..p_write /\ p_finish \in 0..p_ready
    /\ pipeline \in [0..(Conc - 1) -> Index \cup {Empty}]
    /\ wc \in [Index -> Nat]
    /\ xfers \in [Index -> Nat]
    /\ cbk \in [Index -> Nat]
    /\ stream \in Seq(Index)
    /\ finished \subseteq Index
    /\ cnt_pending \in Int /\ cnt_ready \in Int

\* "a way to enforce execution order of kernel": each kernel enters the
\* stream once and in the order of the pipeline, and only with all its data,
\* although the device thread and the callbacks of any device insert kernels.
KernelsInOrder ==
    /\ Len(stream) = p_ready
    /\ \A n \in 1..p_ready : stream[n] = n - 1
    /\ \A i \in Index : i < p_ready => wc[i] = 0 /\ xfers[i] = 0

\* A task whose data has all arrived is never forgotten: when the leading task
\* waits for nothing, one of its own callbacks is about to take pipe_lock.
LeaderNotForgotten ==
    (p_ready < p_write /\ wc[p_ready] = 0) => cbk[p_ready] > 0

\* A slot belongs to its task from Prepare until the epilogue: no task that
\* has not finished loses its slot, even to one taken for a MEMSYNC request
\* without asking Accept.
SlotKeptUntilFinished ==
    \A i \in Index :
        (i < p_write \/ (i = p_write /\ pc = "params")) /\ i \notin finished
            => pipeline[Slot(i)] = i

\* p_finish is the position of the oldest task that has not finished, in
\* whatever order the kernels end.
FinishIsOldest ==
    /\ \A i \in Index : i < p_finish => i \in finished
    /\ p_finish < p_ready => p_finish \notin finished

\* Every task taken from the queue is executed: again and again, no task is in
\* the pipeline.
AllExecuted == []<>(\A i \in Index : i < p_write => i \in finished)

-----------------------------------------------------------------------------
(* The inductive invariant.                                                *)

\* 1 while task i is under preparation: the pseudo lock of its counter.
Held(i) == IF \/ pc = "params" /\ i = p_write
              \/ pc = "publish" /\ i = p_write - 1 THEN 1 ELSE 0

\* The window of live tasks fits into the buffer.
WindowFits ==
    /\ p_write - p_finish <= Conc
    /\ pc = "loop" => Accept
    /\ pc = "params" => p_write < MaxTasks /\ p_write - p_finish < Conc
    /\ pc = "publish" => p_ready < p_write

\* task->wc counts the transfers that have not ended, and the preparation.
WcExact ==
    /\ \A i \in Index : wc[i] = xfers[i] + Held(i)
    /\ \A i \in Index : (i > p_write \/ (i = p_write /\ pc # "params"))
                         => xfers[i] = 0 /\ cbk[i] = 0

\* The slot of a finished task stays empty until p_finish has passed it.
SlotFreed ==
    /\ \A i \in finished : i < p_ready
    /\ \A i \in finished : i >= p_finish => pipeline[Slot(i)] = Empty

\* The inductive invariant: the three positions, the slots and the counters of
\* the tasks (callback_set_valid, callback_epilogue) agree.
PipelineInv ==
    /\ TypeOK
    /\ WindowFits
    /\ WcExact
    /\ KernelsInOrder
    /\ LeaderNotForgotten
    /\ SlotKeptUntilFinished
    /\ SlotFreed
    /\ FinishIsOldest

=============================================================================
