--------------------------- MODULE TraceRecorder ---------------------------
(***************************************************************************)
(* Execution traces: threads record dated events in buffers                *)
(* (kaapi/kaapi_trace.h), a collector thread writes full buffers to one    *)
(* file per thread (kaapi/kaapi_trace_recorder.c), and ukilli merges the   *)
(* files by date (bin/kaapi_trace_reader.cpp) and matches the events of a  *)
(* task, a copy or a kernel into one row (bin/ukilli.cpp).                 *)
(*                                                                         *)
(* Thread Client submits Tasks and calls xkblas_sync, Rounds times, using  *)
(* the same task descriptors each time; the device threads execute them.   *)
(***************************************************************************)
EXTENDS Integers, Sequences, FiniteSets

CONSTANTS
    Devices,  \* kids of the device threads: positive integers
    Tasks,    \* addresses of the task descriptors
    Rounds,   \* bound: calls of xkblas_sync
    Size,     \* KAAPI_EVENT_BUFFER_SIZE
    MaxBufs   \* bound: buffers that malloc returns

Client == 0
Threads == {Client} \cup Devices
NoBuf == 0
Containers == {"kproc", "exec", "cpy", "kern", "call"}

VARIABLES
    evb,          \* buffer -> [kid, data]: recorded events
    eventbuffer,  \* thread -> its buffer, NoBuf while it gets a new one
    listevt,      \* full buffers, oldest first: listevt_head
    listfree,     \* written buffers: listevtfree_head
    malloced,     \* number of buffers allocated
    collector,    \* [pc, evb, waiting] of _kaapi_event_flushimator
    finalize,     \* finalize_flushimator
    file,         \* thread -> events written to its file
    clock,        \* dates are distinct and increase
    todo,         \* thread -> events it records next
    ready,        \* tasks pushed and not yet taken by a device
    executed,     \* number of tasks executed in this round
    round,        \* rounds the client has begun
    stage,        \* thread -> "run", "stopping" (stop recorded), "closed"
    phase,        \* "run", "join", "read"
    rpos,         \* reader: position in each file
    region,       \* reader: containers of parallel_region_t, sets of open records
    rows,         \* reader: rows written
    bad           \* reader: a complaint was printed

recorder == <<evb, eventbuffer, listevt, listfree, malloced, collector, finalize, file>>
program == <<clock, todo, ready, executed, round, stage>>
reader == <<rpos, region, rows, bad>>
vars == <<recorder, program, phase, reader>>

Event(no, kind, id) == [evtno |-> no, kind |-> kind, id |-> id, date |-> 0]

\* kaapi_tracelib_thread_init and kaapi_tracelib_thread_start of each thread,
\* kaapi_eventrecorder_init
Init ==
    /\ evb = [b \in 1..MaxBufs |-> [kid |-> IF b - 1 \in Threads THEN b - 1 ELSE Client, data |-> <<>>]]
    /\ eventbuffer = [t \in Threads |-> t + 1]
    /\ malloced = Cardinality(Threads)
    /\ listevt = <<>> /\ listfree = <<>>
    /\ collector = [pc |-> "loop", evb |-> NoBuf, waiting |-> FALSE]
    /\ finalize = FALSE
    /\ file = [t \in Threads |-> <<>>]
    /\ clock = 0
    /\ todo = [t \in Threads |-> <<Event("kproc", "start", t)>>]
    /\ ready = {} /\ executed = 0 /\ round = 0
    /\ stage = [t \in Threads |-> "run"]
    /\ phase = "run"
    /\ rpos = [t \in Threads |-> 1]
    /\ region = [c \in Containers |-> {}]
    /\ rows = {} /\ bad = FALSE

-----------------------------------------------------------------------------
(* Recording.                                                              *)

\* A full or closed buffer joins the list; the collector is signalled when the
\* list was empty: kaapi_event_flushbuffer, kaapi_event_closebuffer.
Enlist(b) ==
    /\ listevt' = Append(listevt, b)
    /\ collector' = [collector EXCEPT !.waiting = @ /\ listevt # <<>>]

\* What a recorded event means for the threads: a pushed task is ready, an ended
\* one is executed.
Effect(e) ==
    CASE e.evtno = "exec" /\ e.kind = "push" -> ready' = ready \cup {e.id} /\ UNCHANGED executed
      [] e.evtno = "exec" /\ e.kind = "end" -> executed' = executed + 1 /\ UNCHANGED ready
      [] OTHER -> UNCHANGED <<ready, executed>>

\* kaapi_event_push0 and the like: the event is dated and stored; a full buffer
\* is handed over.
Record(t) ==
    LET e == Head(todo[t])
        b == eventbuffer[t]
        data == Append(evb[b].data, [e EXCEPT !.date = clock + 1])
    IN  /\ phase = "run" /\ todo[t] # <<>> /\ b # NoBuf
        /\ clock' = clock + 1
        /\ evb' = [evb EXCEPT ![b].data = data]
        /\ todo' = [todo EXCEPT ![t] = Tail(@)]
        /\ Effect(e)
        /\ IF Len(data) = Size
           THEN Enlist(b) /\ eventbuffer' = [eventbuffer EXCEPT ![t] = NoBuf]
           ELSE UNCHANGED <<listevt, collector, eventbuffer>>
        /\ UNCHANGED <<listfree, malloced, finalize, file, round, stage, phase, reader>>

\* The end of kaapi_event_flushbuffer: a written buffer is used again, or a new
\* one is allocated.
NewBuffer(t) ==
    /\ eventbuffer[t] = NoBuf /\ stage[t] # "closed"
    /\ \/ /\ listfree # <<>>
          /\ eventbuffer' = [eventbuffer EXCEPT ![t] = Head(listfree)]
          /\ evb' = [evb EXCEPT ![Head(listfree)] = [kid |-> t, data |-> <<>>]]
          /\ listfree' = Tail(listfree)
          /\ UNCHANGED malloced
       \/ /\ listfree = <<>> /\ malloced < MaxBufs
          /\ eventbuffer' = [eventbuffer EXCEPT ![t] = malloced + 1]
          /\ evb' = [evb EXCEPT ![malloced + 1] = [kid |-> t, data |-> <<>>]]
          /\ malloced' = malloced + 1
          /\ UNCHANGED listfree
    /\ UNCHANGED <<listevt, collector, finalize, file, program, phase, reader>>

\* kaapi_tracelib_thread_fini, once the thread has nothing left to record.
CloseBuffer(t) ==
    /\ stage[t] = "stopping" /\ todo[t] = <<>> /\ eventbuffer[t] # NoBuf
    /\ Enlist(eventbuffer[t])
    /\ stage' = [stage EXCEPT ![t] = "closed"]
    /\ eventbuffer' = [eventbuffer EXCEPT ![t] = NoBuf]
    /\ UNCHANGED <<evb, listfree, malloced, finalize, file, clock, todo, ready, executed, round, phase, reader>>

\* The client: a call, its tasks, and the end of xkblas_sync once the devices
\* have executed them; then the end of the thread.
Submit ==
    LET n == Cardinality(Tasks)
        task == CHOOSE s \in [1..n -> Tasks] : {s[i] : i \in 1..n} = Tasks
    IN  /\ todo[Client] = <<>> /\ stage[Client] = "run"
        /\ round > 0 => executed = n
        /\ round' = round + 1 /\ executed' = 0
        /\ todo' = [todo EXCEPT ![Client] =
              (IF round > 0 THEN <<Event("sync", "end", Client)>> ELSE <<>>) \o
              (IF round < Rounds
               THEN <<Event("call", "begin", Client)>> \o [i \in 1..n |-> Event("exec", "push", task[i])]
               ELSE <<Event("kproc", "stop", Client)>>)]
        /\ stage' = [stage EXCEPT ![Client] = IF round < Rounds THEN "run" ELSE "stopping"]
        /\ UNCHANGED <<recorder, clock, ready, phase, reader>>

\* A device takes a task: its copy, its kernel, its end.
Execute(d) ==
    \E x \in ready :
       /\ todo[d] = <<>> /\ stage[d] = "run"
       /\ ready' = ready \ {x}
       /\ todo' = [todo EXCEPT ![d] =
             << Event("exec", "async", x), Event("cpy", "push", d), Event("cpy", "begin", d), Event("cpy", "end", d),
                Event("kern", "push", d), Event("kern", "begin", d),
                Event("exec", "begin", x), Event("kern", "end", d), Event("exec", "end", x) >>]
       /\ UNCHANGED <<recorder, clock, executed, round, stage, phase, reader>>

\* The runtime stops: kaapi_tracelib_thread_stop of a device thread, after the
\* client has synchronised and ended.
StopDevice(d) ==
    /\ todo[d] = <<>> /\ stage[d] = "run" /\ stage[Client] = "closed"
    /\ todo' = [todo EXCEPT ![d] = <<Event("kproc", "stop", d)>>]
    /\ stage' = [stage EXCEPT ![d] = "stopping"]
    /\ UNCHANGED <<recorder, clock, ready, executed, round, phase, reader>>

-----------------------------------------------------------------------------
(* The collector thread and the end of the recording.                      *)

\* Loop of _kaapi_event_flushimator: take the oldest buffer, wait, or exit.
Collect ==
    /\ collector.pc = "loop" /\ ~collector.waiting
    /\ \/ /\ listevt # <<>>
          /\ collector' = [collector EXCEPT !.pc = "write", !.evb = Head(listevt)]
          /\ listevt' = Tail(listevt)
       \/ /\ listevt = <<>> /\ finalize
          /\ collector' = [collector EXCEPT !.pc = "exit"]
          /\ UNCHANGED listevt
       \/ /\ listevt = <<>> /\ ~finalize
          /\ collector' = [collector EXCEPT !.waiting = TRUE]
          /\ UNCHANGED listevt
    /\ UNCHANGED <<evb, eventbuffer, listfree, malloced, finalize, file, program, phase, reader>>

\* _kaapi_write_evb, without the lock, and the release of the buffer.
WriteEvb ==
    LET b == collector.evb
    IN  \/ /\ collector.pc = "write"
          /\ file' = [file EXCEPT ![evb[b].kid] = @ \o evb[b].data]
          /\ evb' = [evb EXCEPT ![b].data = <<>>]
          /\ collector' = [collector EXCEPT !.pc = "free"]
          /\ UNCHANGED <<eventbuffer, listevt, listfree, malloced, finalize, program, phase, reader>>
       \/ /\ collector.pc = "free"
          /\ listfree' = <<b>> \o listfree
          /\ collector' = [collector EXCEPT !.pc = "loop", !.evb = NoBuf]
          /\ UNCHANGED <<evb, eventbuffer, listevt, malloced, finalize, file, program, phase, reader>>

\* kaapi_eventrecorder_fini: ask the collector to end, ...
Fini ==
    /\ phase = "run" /\ \A t \in Threads : stage[t] = "closed"
    /\ finalize' = TRUE /\ phase' = "join"
    /\ collector' = [collector EXCEPT !.waiting = FALSE]
    /\ UNCHANGED <<evb, eventbuffer, listevt, listfree, malloced, file, program, reader>>

\* ... join it and write the headers.  Buffers in the list at this point would
\* be written first; the collector leaves none.
Join ==
    /\ phase = "join" /\ collector.pc = "exit"
    /\ phase' = "read"
    /\ UNCHANGED <<recorder, program, reader>>

-----------------------------------------------------------------------------
(* Reading.                                                                *)

Pending == {t \in Threads : rpos[t] <= Len(file[t])}
Date(t) == file[t][rpos[t]].date

\* The records of a container with the id of an event.
Found(e) == {r \in region[e.evtno] : r.id = e.id}

Row(e, r) == [class |-> e.evtno, id |-> e.id, push |-> r.push, start |-> r.start, stop |-> e.date]

Opened(e) == [id |-> e.id, push |-> e.date, start |-> 0]
Starting(e) == {[r EXCEPT !.start = e.date] : r \in Found(e)}
Replace(e, rs) == region' = [region EXCEPT ![e.evtno] = (@ \ Found(e)) \cup rs]
Flush(e, rs) == rows' = rows \cup {Row(e, r) : r \in rs}

\* The first event of a record opens it, the others find it; anything else is
\* reported as an error and skipped.
Wrong(e, first) == (e.kind = first) # (Found(e) = {})
Report(e, first) == bad' = (bad \/ Wrong(e, first))

\* KAAPI_EVT_KPROC: the record stays in its container after the row is written.
KprocEvent(e) ==
    /\ Report(e, "start")
    /\ Replace(e, IF Found(e) = {} /\ e.kind = "start" THEN {Opened(e)} ELSE Found(e))
    /\ Flush(e, IF e.kind = "stop" THEN Found(e) ELSE {})

\* KAAPI_EVT_TASK_EXEC: push, async, begin, end.
TaskEvent(e) ==
    /\ Report(e, "push")
    /\ Replace(e, IF e.kind = "push" /\ Found(e) = {} THEN {Opened(e)}
                  ELSE IF e.kind = "begin" THEN Starting(e)
                  ELSE IF e.kind = "end" THEN {} ELSE Found(e))
    /\ Flush(e, IF e.kind = "end" THEN Found(e) ELSE {})

\* KAAPI_EVT_OFFLOAD_CPY: the row of a copy needs the record of its thread.
CopyEvent(e, kid) ==
    /\ Report(e, "push")
    /\ Replace(e, IF e.kind = "push" /\ Found(e) = {} THEN {Opened(e)}
                  ELSE IF e.kind = "begin" THEN Starting(e)
                  ELSE IF e.kind = "end" THEN {} ELSE Found(e))
    /\ Flush(e, IF e.kind = "end" /\ \E k \in region["kproc"] : k.id = kid THEN Found(e) ELSE {})

\* KAAPI_EVT_OFFLOAD_KERN: only the last event needs the record.
KernelEvent(e) ==
    /\ bad' = (bad \/ (e.kind = "end" /\ Found(e) = {}))
    /\ LET rs == IF Found(e) = {} THEN {[Opened(e) EXCEPT !.push = 0]} ELSE Found(e)
       IN  Replace(e, IF e.kind = "push" THEN {[r EXCEPT !.id = e.id, !.push = e.date] : r \in rs}
                     ELSE IF e.kind = "begin" THEN {[r EXCEPT !.start = e.date] : r \in rs} ELSE {})
    /\ Flush(e, IF e.kind = "end" THEN Found(e) ELSE {})

\* KAAPI_EVT_CALL: the calls of a thread queue up
CallEvent(e) ==
    /\ region' = [region EXCEPT !["call"] = @ \cup {[Opened(e) EXCEPT !.start = e.date]}]
    /\ UNCHANGED <<rows, bad>>

\* until the end of its KAAPI_EVT_TASKSYNC.
SyncEvent(e) ==
    /\ rows' = rows \cup {[Row(e, r) EXCEPT !.class = "call"] : r \in region["call"]}
    /\ region' = [region EXCEPT !["call"] = {}]
    /\ UNCHANGED bad

callback_main(e, kid) ==
    \/ e.evtno = "kproc" /\ KprocEvent(e)
    \/ e.evtno = "exec" /\ TaskEvent(e)
    \/ e.evtno = "cpy" /\ CopyEvent(e, kid)
    \/ e.evtno = "kern" /\ KernelEvent(e)
    \/ e.evtno = "call" /\ CallEvent(e)
    \/ e.evtno = "sync" /\ SyncEvent(e)

\* Defect: the files are read one after the other.
EarliestFile(t) == \A u \in Pending : t <= u

\* The top of the priority queue.
Earliest(t) == \A u \in Pending : Date(t) <= Date(u)

\* ReadFiles
Read ==
    /\ phase = "read"
    /\ \E t \in Pending :
          /\ Earliest(t)
          /\ rpos' = [rpos EXCEPT ![t] = @ + 1]
          /\ callback_main(file[t][rpos[t]], t)
    /\ UNCHANGED <<recorder, program, phase>>

Done == phase = "read" /\ Pending = {} /\ UNCHANGED vars

Next ==
    \/ \E t \in Threads : Record(t) \/ NewBuffer(t) \/ CloseBuffer(t)
    \/ Submit
    \/ \E d \in Devices : Execute(d) \/ StopDevice(d)
    \/ Collect \/ WriteEvb \/ Fini \/ Join \/ Read \/ Done

\* Every thread is scheduled.
Fairness == WF_vars(Next)

Spec == Init /\ [][Next]_vars /\ Fairness

-----------------------------------------------------------------------------
(* Properties.                                                             *)

\* A file holds events of its thread only, in the order of their dates: buffers
\* are used again and the collector writes them without a lock, yet none is
\* overtaken, written twice or overwritten before it is written.
FilesInOrder ==
    \A t \in Threads : \A i, j \in 1..Len(file[t]) :
       i < j => file[t][i].date < file[t][j].date

\* When ukilli has read the files, no event was left without its record, every
\* execution of a task, of its copy and of its kernel has a row with dates in
\* order although task descriptors are used again, every thread has one, and
\* every other record has been closed.
RowsComplete ==
    (phase = "read" /\ Pending = {}) =>
       /\ ~bad
       /\ \A c \in Containers \ {"kproc"} : region[c] = {}
       /\ \A c \in {"exec", "cpy", "kern"} :
             Cardinality({r \in rows : r.class = c}) = Rounds * Cardinality(Tasks)
       /\ \A r \in rows : r.class # "kproc" => r.push <= r.start /\ r.start < r.stop
       /\ {r.id : r \in {x \in rows : x.class = "kproc"}} = Threads

\* The recording ends: kaapi_eventrecorder_fini joins the collector, which is
\* never left waiting with work or with the request to end.
TraceEnds == []<>(phase = "read")

=============================================================================
