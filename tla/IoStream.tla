------------------------------ MODULE IoStream ------------------------------
(***************************************************************************)
(* The io streams of one device (kaapi/kaapi_offload_stream.c) with the    *)
(* decoding and completion of the plugins (kaapi_plugin_cuda.c,            *)
(* kaapi_plugin_hip.c, kaapi_plugin_host.c).                               *)
(*                                                                         *)
(* Any thread pushes instructions into the instruction ring of a stream.   *)
(* It waits for room and takes the mutex of the stream, but the loop that  *)
(* waits is left without the mutex when room is made between its two       *)
(* tests. The device thread decodes them: a gpu plugin starts the          *)
(* operation on one of two vendor queues, records an event and moves the   *)
(* instruction to the pending ring, without a test of its capacity,        *)
(* whatever is in flight; the host plugin executes it and calls its        *)
(* callback at once. When the device thread polls, ok_p moves over the     *)
(* longest prefix of ended operations and their callbacks are called.      *)
(*                                                                         *)
(* An instruction is the number of its commit.                             *)
(***************************************************************************)
EXTENDS Integers, Sequences, FiniteSets

CONSTANTS
    Plugin,    \* "cuda", "hip" or "host"
    Device,    \* the device thread
    Pushers,   \* the threads that push, the device thread among them
    NS,        \* count[stype], the number of streams of the type
    Kern,      \* the streams are KAAPI_IO_STREAM_KERN
    Count,     \* ios->count, the size of the two rings of a stream
    ConcKernel,\* cuda_conc_kernel
    MaxOps     \* bound: instructions pushed

Streams == 0..(NS - 1)
Ops == 1..MaxOps
Nop == 0
Free == 0      \* the pushers are positive integers

VARIABLES
    next,      \* stream->next[stype]
    mutex,     \* ios->mutex: its holder
    pos_w, pos_r, pos_wp, pos_rp, ok_p,
    instr, pending,   \* the rings
    end_event, \* slot -> the operation whose end the event records
    overrun,   \* a ring has been used beyond its tests: see LeaveUnlocked, Start
    push,      \* pusher -> the stream it pushes to
    spin,      \* pusher -> its place in kaapi_offload_stream_push
    where,     \* instruction -> its stream and vendor queue
    ended,     \* operations the vendor library has completed
    phase, cur, size,  \* the device thread: phase of the poll, stream, its load
    called     \* stream -> the callbacks called, in order

posVars == <<pos_w, pos_r, pos_wp, pos_rp, ok_p>>
pollVars == <<phase, cur, size>>
vars == <<next, mutex, posVars, instr, pending, end_event, overrun, push,
          spin, where, ended, pollVars, called>>

None == [s |-> -1, low |-> FALSE]
NotPushing == -1
Slot(i) == i % Count
Pushed == Cardinality({o \in Ops : where[o] # None})

\* _kaapi_offload_iostream_init for each stream.
Init ==
    /\ next = 0
    /\ mutex = [s \in Streams |-> Free]
    /\ pos_w = [s \in Streams |-> 0] /\ pos_r = pos_w
    /\ pos_wp = pos_w /\ pos_rp = pos_w /\ ok_p = pos_w
    /\ instr = [s \in Streams |-> [i \in 0..(Count - 1) |-> Nop]]
    /\ pending = instr /\ end_event = instr /\ overrun = FALSE
    /\ push = [p \in Pushers |-> NotPushing] /\ spin = [p \in Pushers |-> "top"]
    /\ where = [o \in Ops |-> None]
    /\ ended = {}
    /\ phase = "decode" /\ cur = 0 /\ size = 0
    /\ called = [s \in Streams |-> <<>>]

-----------------------------------------------------------------------------
(* Pushing.                                                                *)

\* kaapi_offload_select_io_stream: round robin.  For kernels the load of the
\* selected stream is compared with itself; it can only look smaller when the
\* device thread calls callbacks between the two reads.
SelectIoStream(s) ==
    LET first == IF NS > 1 THEN next % NS ELSE next
    IN  \/ s = first
        \/ Kern /\ s \in Streams \ {0} /\ pos_wp[first] > pos_rp[first]

CallPush(p) ==
    /\ push[p] = NotPushing
    /\ p = Device => phase # "decode"
    /\ Pushed + Cardinality({q \in Pushers : push[q] # NotPushing}) < MaxOps
    /\ \E s \in Streams : SelectIoStream(s) /\ push' = [push EXCEPT ![p] = s]
    /\ next' = IF NS > 1 THEN next + 1 ELSE next
    /\ UNCHANGED <<mutex, posVars, instr, pending, end_event, overrun, spin, where, ended,
                   pollVars, called>>

FullInstr(s) == pos_w[s] - pos_r[s] >= Count

\* The loop of kaapi_offload_stream_push, with a test at its top, repeated under
\* the mutex, and a test at its end: the ring is full for the one test, then for
\* the other.
Spin(p) ==
    /\ push[p] # NotPushing /\ FullInstr(push[p])
    /\ \/ spin[p] = "top" /\ spin' = [spin EXCEPT ![p] = "end"]
       \/ spin[p] = "end" /\ spin' = [spin EXCEPT ![p] = "top"]
    /\ UNCHANGED <<next, mutex, posVars, instr, pending, end_event, overrun, push, where,
                   ended, pollVars, called>>

\* It has found room at the top: it returns with the mutex held.
StreamPush(p) ==
    /\ push[p] # NotPushing /\ spin[p] = "top"
    /\ mutex[push[p]] = Free /\ ~FullInstr(push[p])
    /\ mutex' = [mutex EXCEPT ![push[p]] = p]
    /\ spin' = [spin EXCEPT ![p] = "inside"]
    /\ UNCHANGED <<next, posVars, instr, pending, end_event, overrun, push, where, ended,
                   pollVars, called>>

\* It has found the ring full at the top and room at the end: it returns without
\* the mutex, and nothing is claimed of the rings from here on.
LeaveUnlocked(p) ==
    /\ push[p] # NotPushing /\ spin[p] = "end" /\ ~FullInstr(push[p])
    /\ spin' = [spin EXCEPT ![p] = "inside"]
    /\ overrun' = TRUE
    /\ UNCHANGED <<next, mutex, posVars, instr, pending, end_event, push, where, ended,
                   pollVars, called>>

\* The instruction is written and kaapi_offload_stream_commit releases the
\* mutex, whoever holds it: kaapi_stream_insert_io_task_inst on the first queue,
\* kaapi_stream_insert_io_copy_inst between two devices on the low one.
Insert(p, low) ==
    LET s == push[p]
        o == Pushed + 1
    IN  /\ s # NotPushing /\ spin[p] = "inside"
        /\ instr' = [instr EXCEPT ![s][Slot(pos_w[s])] = o]
        /\ where' = [where EXCEPT ![o] = [s |-> s, low |-> low]]
        /\ pos_w' = [pos_w EXCEPT ![s] = @ + 1]
        /\ mutex' = [mutex EXCEPT ![s] = Free]
        /\ push' = [push EXCEPT ![p] = NotPushing] /\ spin' = [spin EXCEPT ![p] = "top"]
        /\ UNCHANGED <<next, pos_r, pos_wp, pos_rp, ok_p, pending, end_event, overrun,
                       ended, pollVars, called>>

InsertTask(p) == Insert(p, FALSE)
InsertCopy(p) == ~Kern /\ \E low \in BOOLEAN : Insert(p, low)

-----------------------------------------------------------------------------
(* Decoding.                                                               *)

FullPending(s) == pos_wp[s] - pos_rp[s] >= Count

\* Started on its vendor queue, the end recorded in the event of the slot.
\* EINPROGRESS: the caller moves it to the pending ring, and does not ask
\* whether the slot is still in use.
Start(s, o) ==
    /\ end_event' = [end_event EXCEPT ![s][Slot(pos_wp[s])] = o]
    /\ pending' = [pending EXCEPT ![s][Slot(pos_wp[s])] = o]
    /\ pos_wp' = [pos_wp EXCEPT ![s] = @ + 1]
    /\ overrun' = (overrun \/ FullPending(s))
    /\ UNCHANGED <<ended, called>>

CudaDecodeCopy(s, o) == ~Kern /\ Start(s, o)
CudaDecodeKernel(s, o) == Kern /\ Start(s, o)
HipDecodeCopy(s, o) == ~Kern /\ Start(s, o)
HipDecodeKernel(s, o) == Kern /\ Start(s, o)

\* The host plugin executes the instruction, then calls the callback.
HostDecode(s, o) ==
    /\ ended' = ended \cup {o}
    /\ called' = [called EXCEPT ![s] = Append(@, o)]
    /\ UNCHANGED <<end_event, overrun, pending, pos_wp>>

Decode(s, o) ==
    \/ Plugin = "cuda" /\ (CudaDecodeCopy(s, o) \/ CudaDecodeKernel(s, o))
    \/ Plugin = "hip" /\ (HipDecodeCopy(s, o) \/ HipDecodeKernel(s, o))
    \/ Plugin = "host" /\ HostDecode(s, o)

\* The device thread is polling, not inside a push of its own.
Polling(ph) == phase = ph /\ push[Device] = NotPushing

\* _kaapi_offload_onestream_process_instruction: one turn of its loop.
OnestreamProcessInstruction ==
    /\ Polling("decode") /\ pos_r[cur] # pos_w[cur] /\ mutex[cur] = Free
    /\ Decode(cur, instr[cur][Slot(pos_r[cur])])
    /\ pos_r' = [pos_r EXCEPT ![cur] = @ + 1]
    /\ UNCHANGED <<next, mutex, pos_w, pos_rp, ok_p, instr, push, spin, where, pollVars>>

\* The stream after cur in phase ph, or the first one of the next phase.
Advance(ph, after) ==
    IF cur + 1 < NS THEN phase' = ph /\ cur' = cur + 1
                    ELSE phase' = after /\ cur' = 0

\* kaapi_offload_stream_process_instruction: the loop over the streams.
ProcessInstruction ==
    /\ Polling("decode") /\ pos_r[cur] = pos_w[cur]
    /\ Advance("decode", "test") /\ UNCHANGED size
    /\ UNCHANGED <<next, mutex, posVars, instr, pending, end_event, overrun, push, spin, where,
                   ended, called>>

-----------------------------------------------------------------------------
(* Completion.                                                             *)

\* External: each vendor queue completes in order the operations started on it.
EndOperation(o) ==
    /\ where[o] # None /\ o \notin ended
    /\ \A k \in pos_r[where[o].s]..(pos_w[where[o].s] - 1) : instr[where[o].s][Slot(k)] # o
    /\ \A q \in Ops : q < o /\ where[q] = where[o] => q \in ended
    /\ ended' = ended \cup {o}
    /\ UNCHANGED <<next, mutex, posVars, instr, pending, end_event, overrun, push, spin, where,
                   pollVars, called>>

\* cudaEventQuery of the event of position i.
EventDone(s, i) == end_event[s][Slot(i)] \in ended

\* Defect: every ended operation is counted, whatever is before it.
OkCountsEnded(s) ==
    ok_p[s] + Cardinality({i \in ok_p[s]..(pos_wp[s] - 1) : EventDone(s, i)})

\* ok_p after the events have been queried: past the longest ended prefix.
OkAfterQuery(s) ==
    CHOOSE k \in ok_p[s]..pos_wp[s] :
        /\ \A i \in ok_p[s]..(k - 1) : EventDone(s, i)
        /\ k < pos_wp[s] => ~EventDone(s, k)

CudaAdvancePending(s) == ok_p' = [ok_p EXCEPT ![s] = OkAfterQuery(s)]
HipAdvancePending(s) == ok_p' = [ok_p EXCEPT ![s] = OkAfterQuery(s)]

\* kaapi_offload_test_stream on the stream cur.
TestStream ==
    /\ Polling("test") /\ pos_rp[cur] # pos_wp[cur]
    /\ Plugin = "cuda" => CudaAdvancePending(cur)
    /\ Plugin = "hip" => HipAdvancePending(cur)
    /\ phase' = "callback" /\ size' = pos_wp[cur] - pos_rp[cur]
    /\ UNCHANGED <<next, mutex, pos_w, pos_r, pos_wp, pos_rp, instr, pending,
                   end_event, overrun, push, spin, where, ended, cur, called>>

\* kaapi_offload_wait_stream: blocks until both vendor queues are empty.
WaitStream ==
    /\ Polling("test") /\ pos_rp[cur] # pos_wp[cur]
    /\ \A i \in ok_p[cur]..(pos_wp[cur] - 1) : EventDone(cur, i)
    /\ ok_p' = [ok_p EXCEPT ![cur] = pos_wp[cur]]
    /\ phase' = "callback" /\ size' = pos_wp[cur] - pos_rp[cur]
    /\ UNCHANGED <<next, mutex, pos_w, pos_r, pos_wp, pos_rp, instr, pending,
                   end_event, overrun, push, spin, where, ended, cur, called>>

\* Nothing pending on this stream: the host plugin never has anything.
SkipStream ==
    /\ Polling("test") /\ pos_rp[cur] = pos_wp[cur]
    /\ Advance("test", "decode") /\ UNCHANGED size
    /\ UNCHANGED <<next, mutex, posVars, instr, pending, end_event, overrun, push, spin, where,
                   ended, called>>

\* cuda_stream_process_pending: one callback, which may push.
ProcessPending ==
    LET o == pending[cur][Slot(pos_rp[cur])]
    IN  /\ Polling("callback") /\ pos_rp[cur] < ok_p[cur]
        /\ called' = [called EXCEPT ![cur] = IF o = Nop THEN @ ELSE Append(@, o)]
        /\ pending' = [pending EXCEPT ![cur][Slot(pos_rp[cur])] = Nop]
        /\ pos_rp' = [pos_rp EXCEPT ![cur] = @ + 1]
        /\ UNCHANGED <<next, mutex, pos_w, pos_r, pos_wp, ok_p, instr, end_event, overrun,
                       push, spin, where, ended, pollVars>>

\* A kernel stream with too many pending kernels is tested again.
NextStream ==
    /\ Polling("callback") /\ pos_rp[cur] = ok_p[cur]
    /\ IF Kern /\ size > ConcKernel THEN phase' = "test" /\ UNCHANGED cur
                                    ELSE Advance("test", "decode")
    /\ UNCHANGED <<next, mutex, posVars, instr, pending, end_event, overrun, push, spin, where,
                   ended, size, called>>

-----------------------------------------------------------------------------
\* kaapi_offload_poll_device, by the device thread.
PollDevice ==
    \/ OnestreamProcessInstruction \/ ProcessInstruction
    \/ TestStream \/ SkipStream
    \/ ProcessPending \/ NextStream

Push(p) ==
    \/ Spin(p) \/ StreamPush(p) \/ LeaveUnlocked(p)
    \/ InsertTask(p) \/ InsertCopy(p)

Next ==
    \/ \E p \in Pushers : CallPush(p) \/ Push(p)
    \/ PollDevice \/ WaitStream
    \/ \E o \in Ops : EndOperation(o)

Spec == Init /\ [][Next]_vars

-----------------------------------------------------------------------------
(* Properties.                                                             *)

\* Every variable holds a value of its type, and the positions of a stream are
\* ordered; the rings hold no more than their size.
TypeOK ==
    /\ next \in Nat /\ (NS = 1 => next = 0)
    /\ mutex \in [Streams -> Pushers \cup {Free}]
    /\ \A pos \in {pos_w, pos_r, pos_wp, pos_rp, ok_p} : pos \in [Streams -> Nat]
    /\ \A ring \in {instr, pending, end_event} :
          ring \in [Streams -> [0..(Count - 1) -> Ops \cup {Nop}]]
    /\ push \in [Pushers -> Streams \cup {NotPushing}]
    /\ spin \in [Pushers -> {"top", "end", "inside"}]
    /\ where \in [Ops -> [s : Streams, low : BOOLEAN] \cup {None}]
    /\ ended \subseteq Ops /\ overrun \in BOOLEAN
    /\ called \in [Streams -> Seq(Ops)]
    /\ phase \in {"decode", "test", "callback"} /\ cur \in Streams
    /\ \A s \in Streams :
          /\ pos_rp[s] <= ok_p[s] /\ ok_p[s] <= pos_wp[s]
          /\ pos_wp[s] <= pos_r[s] /\ pos_r[s] <= pos_w[s]
          /\ pos_w[s] - pos_r[s] <= Count /\ pos_wp[s] - pos_rp[s] <= Count

\* The instructions committed to stream s, in the order of their commit.
Committed(s) == {o \in Ops : where[o].s = s /\ where[o] # None}

\* "the runtime invokes the callback in the same order as the requests were
\* pushed", once each and after the end of the operation, although operations
\* of the two vendor queues of a stream end in any order.
CallbacksInPushOrder ==
    \A s \in Streams :
        /\ \A i, j \in 1..Len(called[s]) : i < j => called[s][i] < called[s][j]
        /\ \A i \in 1..Len(called[s]) :
              /\ called[s][i] \in Committed(s) \cap ended
              /\ \A o \in Committed(s) :
                    o < called[s][i] => \E j \in 1..i : called[s][j] = o

\* No instruction is lost between two pushers, and none of the pending ring is
\* overwritten before its callback.
RingsKeepInstructions ==
    \A s \in Streams :
        Cardinality(Committed(s)) =
            Len(called[s]) + (pos_w[s] - pos_r[s])
                           + Cardinality({i \in 0..(Count - 1) : pending[s][i] # Nop})

\* Instructions are numbered from 1 in the order of the commits, whatever their
\* streams are, and a mutex is held by the thread that writes to its stream, which
\* has found room in its ring.
CommitsNumbered ==
    /\ \A o \in Ops : where[o] # None <=> o <= Pushed
    /\ Pushed + Cardinality({p \in Pushers : push[p] # NotPushing}) <= MaxOps
    /\ \A s \in Streams, p \in Pushers : mutex[s] = p => push[p] = s
    /\ \A p \in Pushers :
          spin[p] = "inside" => push[p] # NotPushing /\ mutex[push[p]] = p
    /\ \A s \in Streams : mutex[s] # Free => ~FullInstr(s)

\* The instruction of position k of stream s, wherever it is: its callback has
\* been called, or it is in the pending ring, or in the instruction ring.
Nth(s, k) ==
    IF k < Len(called[s]) THEN called[s][k + 1]
    ELSE IF k < pos_wp[s] THEN pending[s][Slot(k)] ELSE instr[s][Slot(k)]

\* The positions of stream s hold what was committed to it, in order; an event
\* stands for the operation of its slot, what ok_p has passed is over, and a slot
\* of the pending ring outside of the positions is empty.
StreamInOrder(s) ==
    /\ Committed(s) = {Nth(s, k) : k \in 0..(pos_w[s] - 1)}
    /\ \A j, k \in 0..(pos_w[s] - 1) : j < k => Nth(s, j) < Nth(s, k)
    /\ \A k \in 0..(pos_w[s] - 1) :
          k < ok_p[s] \/ k < Len(called[s]) => Nth(s, k) \in ended
    /\ \A k \in pos_rp[s]..(pos_wp[s] - 1) : end_event[s][Slot(k)] = Nth(s, k)
    /\ \A i \in 0..(Count - 1) :
          pending[s][i] # Nop <=> \E k \in pos_rp[s]..(pos_wp[s] - 1) : Slot(k) = i
    /\ IF Plugin = "host" THEN pos_wp[s] = 0 /\ Len(called[s]) = pos_r[s]
                          ELSE pos_wp[s] = pos_r[s] /\ Len(called[s]) = pos_rp[s]

\* What the promises rest on.
StreamInv == TypeOK /\ CommitsNumbered /\ \A s \in Streams : StreamInOrder(s)

\* As long as no instruction was moved to a full pending ring and no thread has
\* left the loop of its push without the mutex, both of which nothing prevents:
\* callbacks come once each and in order, no instruction is lost or overwritten
\* (kaapi_offload_stream_push, kaapi_offload_stream_process_pending).
StreamSound == ~overrun => StreamInv /\ CallbacksInPushOrder /\ RingsKeepInstructions

HasCallback(o) == \E s \in DOMAIN called : \E i \in 1..Len(called[s]) : called[s][i] = o

\* The device thread waits for room in a ring that only itself can empty.
SelfBlocked == push[Device] # NotPushing /\ spin[Device] # "inside" /\ FullInstr(push[Device])

\* Every push ends and every instruction gets its callback while the device
\* thread polls and operations end: again and again, nothing is left, unless a
\* ring has been used beyond its tests or the device thread blocks itself.
EveryCallback ==
    []<>(~overrun /\ ~SelfBlocked =>
            /\ \A p \in Pushers : push[p] = NotPushing
            /\ \A o \in DOMAIN where : where[o] # None => HasCallback(o))

\* The device thread polls, threads that push run, operations end.
Fairness ==
    /\ WF_vars(PollDevice)
    /\ SF_vars(\E p \in Pushers : StreamPush(p) \/ LeaveUnlocked(p))
    /\ WF_vars(\E p \in Pushers : InsertTask(p))
    /\ WF_vars(\E o \in Ops : EndOperation(o))

=============================================================================
