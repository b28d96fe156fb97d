-------------------------------- MODULE Dsm ---------------------------------
(***************************************************************************)
(* The distributed shared memory (kaapi/kaapi_memory.c): replicas of the   *)
(* tiles on the host and on the devices, the transfers between them and    *)
(* the software cache of each device.                                      *)
(*                                                                         *)
(* A device thread prepares one task at a time: for every parameter it     *)
(* pins the replica, allocates a block (evicting others when the device is *)
(* full), and fetches the tile when the task reads it.  A fetch chooses a  *)
(* source, then locks both replicas and either posts a copy, joins the     *)
(* transfer already under way, or asks the source, itself under transfer,  *)
(* to forward the tile.  The thread that posted a copy runs its callbacks  *)
(* when it polls, that is in its main loop and while it waits for memory.  *)
(* A write-back task fetches the tile on the host and ends at once.        *)
(*                                                                         *)
(* The order of conflicting tasks is the one module DataFlow establishes:  *)
(* here a task begins only when no live task conflicts with it.  Memory is *)
(* counted in blocks of one tile, and every block has a content, a tile    *)
(* and the number of its version.                                          *)
(*                                                                         *)
(* Nothing pins the source of a transfer, and an eviction acts after its   *)
(* tests: the steps that so take away what another device counts on are    *)
(* recorded in the history variable mishaps, and the properties say what   *)
(* holds as long as none of them has happened.                             *)
(***************************************************************************)
EXTENDS Integers, SequencesExt, FiniteSetsExt

CONSTANTS
    N,          \* devices are 1..N, the host is 0
    Tiles,
    Capacities, \* the sizes, in blocks, that the memories of the devices may have
    Shapes,     \* parameters of a task: sequences of <<tile, mode>>
    MaxTasks    \* bound: tasks and host writes in a behaviour, by capacities

Devices == 1..N
Host    == 0
Nodes   == 0..N
Modes   == {"R", "W", "RW", "WB"}

Reads(m)   == m \in {"R", "RW", "WB"}
Writes(m)  == m \in {"W", "RW"}

\* A task has a parameter, reads a tile through several of them or writes it
\* through one, and the task of a write-back has no other parameter.
ASSUME DsmAssumption ==
    /\ N \in Nat \ {0} /\ MaxTasks \in [Capacities -> Nat]
    /\ Capacities \subseteq [Devices -> Nat]
    /\ IsFiniteSet(Tiles)
    /\ \A s \in Shapes :
          /\ s \in Seq(Tiles \X Modes) /\ s # <<>>
          /\ \A j, k \in DOMAIN s : j # k /\ s[j][1] = s[k][1] => ~ Writes(s[j][2])
          /\ (\E k \in DOMAIN s : s[k][2] = "WB") => Len(s) = 1

VARIABLES
    cap,     \* number of blocks of a device
    blk,     \* block of a replica, 0 when it is not allocated
    mem,     \* content of a block; a tile is its own block on the host
    valid,   \* mdi->valid
    xfer,    \* mdi->xfer
    pin,     \* replica->pinned, for the devices
    cbk,     \* callbacks of a replica: a task, a forward or the end of a write-back
    ro, rw,  \* lists of the cache of a device, head first
    copies,  \* copies on the streams
    cur,     \* version that the last finished writer of a tile produced
    tasks,   \* tasks in the order in which they began
    thr,     \* a device thread: program point and what it works on
    mishaps  \* history, read by no action: the steps that hurt somebody else

memVars   == <<blk, mem>>
stateVars == <<valid, xfer, pin, cbk, copies>>
listVars  == <<ro, rw>>
vars == <<cap, memVars, stateVars, listVars, cur, tasks, thr, mishaps>>

Garbage == <<>>
Idle    == [pc |-> "idle"]

Init ==
    /\ cap \in Capacities
    /\ blk = [t \in Tiles |-> [n \in Nodes |-> IF n = Host THEN t ELSE 0]]
    /\ mem = [n \in Nodes |-> IF n = Host THEN [t \in Tiles |-> <<t, 0>>]
                              ELSE [b \in 1..cap[n] |-> Garbage]]
    /\ valid = [t \in Tiles |-> {Host}]
    /\ xfer = [t \in Tiles |-> {}]
    /\ pin = [t \in Tiles |-> [d \in Devices |-> 0]]
    /\ cbk = [t \in Tiles |-> [n \in Nodes |-> {}]]
    /\ ro = [d \in Devices |-> <<>>] /\ rw = [d \in Devices |-> <<>>]
    /\ copies = {}
    /\ cur = [t \in Tiles |-> 0]
    /\ tasks = <<>>
    /\ thr = [d \in Devices |-> Idle]
    /\ mishaps = {}

Live == {i \in DOMAIN tasks : tasks[i].st # "done"}
Params(i) == tasks[i].shape

\* A live task writes t.
Written(t) ==
    \E i \in Live : \E k \in DOMAIN Params(i) : Params(i)[k][1] = t /\ Writes(Params(i)[k][2])
Used(t) == \E i \in Live : \E k \in DOMAIN Params(i) : Params(i)[k][1] = t

\* The data flow lets a task with these parameters begin.
NoConflict(s) ==
    \A k \in DOMAIN s :
        /\ ~ Written(s[k][1])
        /\ Writes(s[k][2]) => ~ Used(s[k][1])

\* A device thread runs callbacks in its main loop and while it waits for memory.
Polls(d) == thr[d].pc \in {"idle", "alloc"}

Param(d) == Params(thr[d].i)[thr[d].k]
Tile(d)  == Param(d)[1]
Mode(d)  == Param(d)[2]
Goto(d, pc) == thr' = [thr EXCEPT ![d].pc = pc]

-----------------------------------------------------------------------------
(* Preparation of a task: kaapi_dsm_acquire_data for every parameter.      *)

\* A task with these parameters writes a tile whose write-back is still on its way
\* to the host: the task of the write-back has ended when it was asked for.
Overtakes(s) == \E k \in DOMAIN s : Writes(s[k][2]) /\ Host \in xfer[s[k][1]]

\* The device thread takes a ready task; wc counts the thread itself.
Begin(d, s) ==
    /\ thr[d] = Idle /\ Len(tasks) < MaxTasks[cap]
    /\ cap[d] > 0 /\ NoConflict(s)
    /\ tasks' = Append(tasks, [dev |-> d, shape |-> s, wc |-> 1, st |-> "prep"])
    /\ thr' = [thr EXCEPT ![d] = [pc |-> "acquire", i |-> Len(tasks) + 1, k |-> 1]]
    /\ mishaps' = IF Overtakes(s) THEN mishaps \cup {"overtaken"} ELSE mishaps
    /\ UNCHANGED <<cap, memVars, stateVars, listVars, cur>>

\* The replica is pinned first.
Acquire(d) ==
    /\ thr[d].pc = "acquire"
    /\ pin' = [pin EXCEPT ![Tile(d)][d] = @ + 1]
    /\ Goto(d, IF blk[Tile(d)][d] = 0 THEN "alloc" ELSE "fetch")
    /\ UNCHANGED <<cap, memVars, valid, xfer, cbk, copies, listVars, cur, tasks, mishaps>>

FreeBlocks(d) == {b \in 1..cap[d] : \A t \in Tiles : blk[t][d] # b}

\* _kaapi_dsm_allocate_replica, when the heap of the device has a block.
Alloc(d) ==
    /\ thr[d].pc = "alloc"
    /\ FreeBlocks(d) # {}
    /\ blk' = [blk EXCEPT ![Tile(d)][d] = Min(FreeBlocks(d))]
    /\ Goto(d, "fetch")
    /\ UNCHANGED <<cap, mem, stateVars, listVars, cur, tasks, mishaps>>

\* Defect: the pins are not looked at.
EvictablePinned(d, t) == valid[t] \ {d} # {}

\* kaapi_memory_cache_evict_fromlist drops replicas that no task uses and that
\* are valid elsewhere.
Evictable(d, t) == pin[t][d] = 0 /\ valid[t] \ {d} # {}

\* The positions, up to j, of the entries of a list that can be evicted.
Victims(d, list, j) == {k \in 1..j : Evictable(d, list[k])}

\* kaapi_memory_cache_evict: the ro list first, from its end.
Evict(d) ==
    /\ thr[d].pc = "alloc" /\ FreeBlocks(d) = {}
    /\ LET inRo == Victims(d, ro[d], Len(ro[d]))
           inRw == Victims(d, rw[d], Len(rw[d]))
       IN /\ inRo \cup inRw # {}
          /\ thr' = [thr EXCEPT ![d] =
                [pc |-> "unset", i |-> @.i, k |-> @.k, left |-> 1, readonly |-> inRo # {},
                 victim |-> Max(IF inRo # {} THEN inRo ELSE inRw)]]
    /\ UNCHANGED <<cap, memVars, stateVars, listVars, cur, tasks, mishaps>>

\* Device d drops the replica of t that a copy reads, or that another device has
\* chosen as its source: nothing pins a source.
DropsSource(d, t) ==
    \/ \E c \in copies : c.t = t /\ c.src = d
    \/ \E e \in Devices \ {d} : thr[e].pc = "post" /\ Tile(e) = t /\ thr[e].src = d

\* The replica that made it possible has been dropped since it was looked at.
DropsLast(d, t) == valid[t] \ {d} = {}

\* The host misses the tile, which is in no other rw list.
DropsDirty(d, t) ==
    /\ Host \notin valid[t] /\ t \in Range(rw[d])
    /\ \A e \in valid[t] \ {d} : t \notin Range(rw[e])

\* The replica loses its valid bit and its block after the tests; a second one
\* is evicted when the rest of the list has one.
Unset(d) ==
    /\ thr[d].pc = "unset"
    /\ LET j    == thr[d].victim
           list == IF thr[d].readonly THEN ro[d] ELSE rw[d]
           t    == list[j]
           next == Victims(d, list, j - 1)
       IN /\ valid' = [valid EXCEPT ![t] = @ \ {d}]
          /\ blk' = [blk EXCEPT ![t][d] = 0]
          /\ IF thr[d].readonly
                THEN ro' = [ro EXCEPT ![d] = RemoveAt(@, j)] /\ rw' = rw
                ELSE rw' = [rw EXCEPT ![d] = RemoveAt(@, j)] /\ ro' = ro
          /\ thr' = [thr EXCEPT ![d] =
                IF thr[d].left > 0 /\ next # {}
                   THEN [@ EXCEPT !.left = 0, !.victim = Max(next)]
                   ELSE [pc |-> "alloc", i |-> @.i, k |-> @.k]]
          /\ mishaps' = mishaps \cup (IF DropsSource(d, t) THEN {"source"} ELSE {})
                                \cup (IF DropsLast(d, t) THEN {"last"} ELSE {})
                                \cup (IF DropsDirty(d, t) THEN {"unlisted"} ELSE {})
    /\ UNCHANGED <<cap, mem, xfer, pin, cbk, copies, cur, tasks>>

-----------------------------------------------------------------------------
(* kaapi_dsm_fetch_on.                                                     *)

\* Defect: the host is a source even when it is not valid.
SourcesHost(t) == {Host}

\* _kaapi_get_source_lid: a valid device, else a device that waits for the tile,
\* else the host.
Sources(t) ==
    LET V == valid[t] \ {Host}
        X == xfer[t] \ {Host}
    IN IF V # {} THEN V ELSE IF X # {} THEN X ELSE {Host}

\* A parameter that is read and not valid here needs a transfer: wc counts it.
Fetch(d) ==
    /\ thr[d].pc = "fetch"
    /\ IF Reads(Mode(d)) /\ d \notin valid[Tile(d)]
       THEN /\ tasks' = [tasks EXCEPT ![thr[d].i].wc = @ + 1]
            /\ \E src \in Sources(Tile(d)) :
                  thr' = [thr EXCEPT ![d] = [pc |-> "post", i |-> @.i, k |-> @.k, src |-> src,
                                             dst |-> d, ret |-> [@ EXCEPT !.pc = "touch"]]]
       ELSE Goto(d, "touch") /\ UNCHANGED tasks
    /\ UNCHANGED <<cap, memVars, stateVars, listVars, cur, mishaps>>

\* The copy of t from src to dst on a stream of d, with the blocks it uses.
Copy(t, src, dst, d) ==
    [t |-> t, src |-> src, from |-> blk[t][src], dst |-> dst, to |-> blk[t][dst], by |-> d]

\* kaapi_memory_replica_set_xfer
Marked(t, dst) == [xfer EXCEPT ![t] = @ \cup {dst}]

\* Defect: only the source knows of the request to forward.
CallbacksSource(t, src, dst, c) ==
    IF src \in xfer[t] /\ dst \notin xfer[t]
       THEN [cbk EXCEPT ![t][src] = @ \cup {<<"send", dst>>}]
       ELSE [cbk EXCEPT ![t][dst] = @ \cup {c}]

\* The callback waits at the destination; a source under transfer will forward.
Callbacks(t, src, dst, c) ==
    IF src \in xfer[t] /\ dst \notin xfer[t]
       THEN [cbk EXCEPT ![t][dst] = @ \cup {c}, ![t][src] = @ \cup {<<"send", dst>>}]
       ELSE [cbk EXCEPT ![t][dst] = @ \cup {c}]

\* With both replicas locked.  A write-back task ends here.
Post(d) ==
    /\ thr[d].pc = "post"
    /\ LET t == Tile(d)  i == thr[d].i  src == thr[d].src  dst == thr[d].dst
           here == dst \in valid[t]
           c == IF dst = Host THEN <<"host", 0>> ELSE <<"task", <<i, thr[d].k>>>>
       IN /\ xfer' = IF here THEN xfer ELSE Marked(t, dst)
          /\ cbk' = IF here THEN cbk ELSE Callbacks(t, src, dst, c)
          /\ copies' = IF here \/ dst \in xfer[t] \/ src \in xfer[t]
                       THEN copies ELSE copies \cup {Copy(t, src, dst, d)}
          /\ tasks' = CASE dst = Host -> [tasks EXCEPT ![i].st = "done"]
                        [] here /\ dst # Host -> [tasks EXCEPT ![i].wc = @ - 1]
                        [] OTHER -> tasks
          /\ pin' = IF dst = Host THEN [pin EXCEPT ![t][d] = @ - 1] ELSE pin
          /\ thr' = [thr EXCEPT ![d] = @.ret]
    /\ UNCHANGED <<cap, memVars, valid, listVars, cur, mishaps>>

\* Defect: a tile read on a device goes to its ro list.
TouchListMode(d, t, m) == Writes(m)

\* kaapi_memory_cache_touch: the tile goes to the rw list.
TouchRw(d, t, m) ==
    Writes(m) \/ (Host \notin valid[t] /\ \E k \in DOMAIN rw[d] : rw[d][k] = t)

\* Defect: the replicas of the other nodes stay valid.
DirtiedNone(t, d) == valid[t] \cup {d}

\* kaapi_memory_replica_set_all_dirty_except
Dirtied(t, d) == {d}

\* A writer makes every other replica invalid; the thread goes to the next
\* parameter, or leaves the task to its transfers.
Touch(d) ==
    /\ thr[d].pc = "touch"
    /\ LET t == Tile(d)  i == thr[d].i  k == thr[d].k  m == Mode(d)
           front(list, yes) == (IF yes THEN <<t>> ELSE <<>>) \o RemoveFirst(list, t)
       IN /\ valid' = IF Writes(m) THEN [valid EXCEPT ![t] = Dirtied(t, d)] ELSE valid
          /\ rw' = [rw EXCEPT ![d] = front(@, TouchRw(d, t, m))]
          /\ ro' = [ro EXCEPT ![d] = front(@, ~ TouchRw(d, t, m))]
          /\ IF k < Len(Params(i))
             THEN /\ thr' = [thr EXCEPT ![d] = [pc |-> "acquire", i |-> i, k |-> k + 1]]
                  /\ tasks' = tasks
             ELSE /\ thr' = [thr EXCEPT ![d] = Idle]
                  /\ tasks' = [tasks EXCEPT ![i].wc = @ - 1, ![i].st = "pending"]
    /\ UNCHANGED <<cap, memVars, xfer, pin, cbk, copies, cur, mishaps>>

-----------------------------------------------------------------------------
(* Polling: the end of a copy, and the kernels.                            *)

\* The content that a copy reads.  A replica without a block has a null pointer.
Content(c) == IF c.src # Host /\ c.from = 0 THEN Garbage ELSE mem[c.src][c.from]

\* Defect: the requests to forward the tile are dropped.
ForwardsNone(c) == {}

\* callback_resend_replica_on_callback_cbk, on the stream of the polling device.
Forwards(c) ==
    {Copy(c.t, c.dst, f[2], c.by) : f \in {g \in cbk[c.t][c.dst] : g[1] = "send"}}

\* callback_activate_replica_on_receive_cbk
Receive(c) ==
    /\ c \in copies /\ Polls(c.by)
    /\ mem' = [mem EXCEPT ![c.dst][c.to] = Content(c)]
    /\ valid' = [valid EXCEPT ![c.t] = @ \cup {c.dst}]
    /\ xfer' = [xfer EXCEPT ![c.t] = @ \ {c.dst}]
    /\ cbk' = [cbk EXCEPT ![c.t][c.dst] = {}]
    /\ copies' = (copies \ {c}) \cup Forwards(c)
    /\ tasks' = [i \in DOMAIN tasks |-> [tasks[i] EXCEPT !.wc = @ - Cardinality(
          {k \in DOMAIN Params(i) : <<"task", <<i, k>>>> \in cbk[c.t][c.dst]})]]
    /\ UNCHANGED <<cap, blk, pin, listVars, cur, thr, mishaps>>

\* Kernels go to the stream in the order of the pipeline.
Inserted(i) ==
    \A j \in Live : j <= i /\ tasks[j].dev = tasks[i].dev
                    => tasks[j].st # "prep" /\ tasks[j].wc = 0

IsWriteBack(i) == \E k \in DOMAIN Params(i) : Params(i)[k][2] = "WB"

\* The kernel runs; callback_epilogue releases the parameters.
Run(i) ==
    /\ i \in DOMAIN tasks /\ tasks[i].st = "pending" /\ Inserted(i) /\ ~ IsWriteBack(i)
    /\ LET d == tasks[i].dev
           On(t) == {k \in DOMAIN Params(i) : Params(i)[k][1] = t}
           out == {t \in Tiles : \E k \in On(t) : Writes(Params(i)[k][2])}
       IN /\ Polls(d)
          /\ cur' = [t \in Tiles |-> IF t \in out THEN cur[t] + 1 ELSE cur[t]]
          /\ mem' = [mem EXCEPT ![d] = [b \in DOMAIN mem[d] |->
                IF \E t \in out : blk[t][d] = b
                   THEN LET t == CHOOSE u \in out : blk[u][d] = b IN <<t, cur[t] + 1>>
                   ELSE mem[d][b]]]
          /\ pin' = [t \in Tiles |->
                [pin[t] EXCEPT ![d] = @ - Cardinality(On(t))]]
          /\ tasks' = [tasks EXCEPT ![i].st = "done"]
    /\ UNCHANGED <<cap, blk, valid, xfer, cbk, copies, listVars, thr, mishaps>>

\* The body of a write-back task: kaapi_dsm_prefetch_on for the host.
RunWriteBack(i) ==
    /\ i \in DOMAIN tasks /\ tasks[i].st = "pending" /\ Inserted(i) /\ IsWriteBack(i)
    /\ LET d == tasks[i].dev
           t == Params(i)[1][1]
       IN /\ Polls(d)
          /\ IF Host \in valid[t]
             THEN /\ tasks' = [tasks EXCEPT ![i].st = "done"]
                  /\ pin' = [pin EXCEPT ![t][d] = @ - 1]
                  /\ thr' = thr
             ELSE /\ tasks' = [tasks EXCEPT ![i].st = "running"]
                  /\ \E src \in Sources(t) :
                        thr' = [thr EXCEPT ![d] = [pc |-> "post", i |-> i, k |-> 1, src |-> src,
                                                   dst |-> Host, ret |-> @]]
                  /\ pin' = pin
    /\ UNCHANGED <<cap, memVars, valid, xfer, cbk, copies, listVars, cur, mishaps>>

\* Quiescent: xkblas_memory_invalidate_caches drops every replica, and the
\* application writes its matrix anew before the tiles are used again.
Invalidate ==
    /\ Live = {} /\ copies = {} /\ Len(tasks) < MaxTasks[cap]
    /\ \E t \in Tiles : valid[t] # {Host}
    /\ cur' = [t \in Tiles |-> cur[t] + 1]
    /\ mem' = [mem EXCEPT ![Host] = [t \in Tiles |-> <<t, cur[t] + 1>>]]
    /\ blk' = [t \in Tiles |-> [n \in Nodes |-> IF n = Host THEN t ELSE 0]]
    /\ valid' = [t \in Tiles |-> {Host}]
    /\ ro' = [d \in Devices |-> <<>>] /\ rw' = [d \in Devices |-> <<>>]
    /\ tasks' = Append(tasks, [dev |-> 1, shape |-> <<>>, wc |-> 0, st |-> "done"])
    /\ UNCHANGED <<cap, xfer, pin, cbk, copies, thr, mishaps>>

Next ==
    \/ \E d \in Devices :
          \/ \E s \in Shapes : Begin(d, s)
          \/ Acquire(d) \/ Alloc(d) \/ Evict(d) \/ Unset(d)
          \/ Fetch(d) \/ Post(d) \/ Touch(d)
    \/ \E c \in copies : Receive(c)
    \/ \E i \in DOMAIN tasks : Run(i) \/ RunWriteBack(i)
    \/ Invalidate

Spec == Init /\ [][Next]_vars

\* A device thread that has something to do does it, and a copy ends.
Progress(d) ==
    \/ Acquire(d) \/ Alloc(d) \/ Evict(d) \/ Unset(d) \/ Fetch(d) \/ Post(d) \/ Touch(d)
    \/ \E c \in copies : c.by = d /\ Receive(c)
    \/ \E i \in DOMAIN tasks : tasks[i].dev = d /\ (Run(i) \/ RunWriteBack(i))
FairSpec == Spec /\ \A d \in Devices : WF_vars(Progress(d))

-----------------------------------------------------------------------------
(* Properties.                                                             *)

Callback == ({"task"} \X ((1..MaxTasks[cap]) \X Nat)) \cup ({"send"} \X Devices)
            \cup {<<"host", 0>>}
Version  == (Tiles \X (0..MaxTasks[cap])) \cup {Garbage}

\* The shape of the state: one list at most holds a tile, transfers are between
\* nodes, and counters stay within the number of live tasks.
TypeOK ==
    /\ cap \in Capacities
    /\ \A t \in Tiles, d \in Devices :
          /\ blk[t][d] \in 0..cap[d]
          /\ pin[t][d] \in Nat
          /\ t \in Range(ro[d] \o rw[d]) => blk[t][d] # 0
    /\ \A d \in Devices : IsInjective(ro[d] \o rw[d])
    /\ \A n \in Nodes : Range(mem[n]) \subseteq Version
    /\ valid \in [Tiles -> SUBSET Nodes] /\ xfer \in [Tiles -> SUBSET Nodes]
    /\ \A t \in Tiles, n \in Nodes : cbk[t][n] \subseteq Callback
    /\ \A c \in copies : c.t \in Tiles /\ c.src \in Nodes /\ c.dst \in Nodes \ {c.src}
    /\ cur \in [Tiles -> 0..MaxTasks[cap]]
    /\ \A i \in DOMAIN tasks : tasks[i].wc \in 0..(Len(Params(i)) + 1)

\* No eviction has taken a replica that another device counted on, and no writer has
\* overtaken a write-back.
Unharmed == mishaps \subseteq {"unlisted"}

\* The tiles that a kernel of the stream reads: the data it was started with.
Inputs(i) == {p \in Range(Params(i)) : Reads(p[2])}

\* A kernel that can run finds the last version of every tile it reads in the
\* block of its device: no transfer is counted as done before its data is there,
\* and no block is taken away from a task (kaapi_dsm_acquire_data), whatever the
\* evictions as long as none took the source or the last replica of a tile.
KernelReadsCurrent ==
    Unharmed => \A i \in Live :
        tasks[i].st = "pending" /\ Inserted(i) =>
            \A p \in Inputs(i) :
                LET b == blk[p[1]][tasks[i].dev]
                IN b # 0 /\ mem[tasks[i].dev][b] = <<p[1], cur[p[1]]>>

\* While no task writes a tile, every replica marked valid holds its last version
\* and one replica at least is valid: a late transfer revives an old version only
\* after one of the recorded mishaps.
ValidIsCurrent ==
    Unharmed => \A t \in Tiles : ~ Written(t) =>
        /\ valid[t] # {}
        /\ \A n \in valid[t] : mem[n][blk[t][n]] = <<t, cur[t]>>

\* The source of a copy keeps its block, and the last version in it, until the
\* copy ends, unless an eviction took it from under a copy or a choice of source;
\* so does the destination, which its task has pinned.
CopyKeepsBlocks ==
    Unharmed => \A c \in copies :
        /\ blk[c.t][c.src] = c.from /\ Content(c) = <<c.t, cur[c.t]>>
        /\ blk[c.t][c.dst] = c.to /\ (c.dst # Host => pin[c.t][c.dst] > 0)

\* The replicas that a copy on a stream goes to, and those that are one request to
\* forward, or k, further.
Direct(t)   == {c.dst : c \in {e \in copies : e.t = t}}
After(t, S) == S \cup {n \in Nodes : \E s \in S : <<"send", n>> \in cbk[t][s]}
Reach[k \in 0..N] ==
    [t \in Tiles |-> IF k = 0 THEN Direct(t) ELSE After(t, Reach[k - 1][t])]

\* Every replica under transfer is the end of a chain of requests to forward that
\* starts at a copy on a stream: no two devices wait for each other, no callback
\* is left behind, and two copies never go to one replica.
EveryTransferServed ==
    \A t \in Tiles :
        /\ xfer[t] = Reach[N][t]
        /\ {n \in Nodes : cbk[t][n] # {}} = xfer[t]
        /\ Cardinality({c \in copies : c.t = t}) = Cardinality(Direct(t))

\* A tile that is not valid on the host is, when no task writes it, in the rw list
\* of a device where it is valid: kaapi_memory_writeback_all, which walks these
\* lists, finds every tile that the host misses, unless an eviction has dropped
\* the one replica of the tile that was listed so.
DirtyIsInRw ==
    mishaps = {} => \A t \in Tiles : ~ Written(t) /\ Host \notin valid[t] =>
        \E d \in valid[t] : t \in Range(rw[d])

\* The assertion of callback_resend_replica_on_callback_cbk: the tile is forwarded
\* to a replica that is not valid.
ForwardIsNeeded ==
    \A t \in Tiles, n \in Nodes, d \in Devices :
        <<"send", d>> \in cbk[t][n] => d \notin valid[t]

\* A device thread that looks for memory finds all of it held by replicas that are
\* pinned, or valid nowhere else: no write-back is started for its sake.
Starved(d) ==
    /\ thr[d].pc = "alloc" /\ FreeBlocks(d) = {}
    /\ \A t \in Range(ro[d] \o rw[d]) : ~ Evictable(d, t)

Ended(i) == i \in DOMAIN tasks /\ tasks[i].st = "done"

\* Every task that a device takes ends, its memory allocated, its tiles there and its
\* kernel run, unless a device looks for memory for ever where none can be evicted
\* (kaapi_memory_cache_evict starts no write-back).
TasksEnd ==
    (\A d \in Devices : []<> ~ Starved(d)) =>
        \A i \in 1..Max(Range(MaxTasks)) : (i \in DOMAIN tasks) ~> Ended(i)

\* The comment in kaapi_dsm_fetch_on: "replicas[lid_src] is pinned ... until the call
\* back callback_activate_replica_on_receive_cbk is called", so that it keeps its block.
SourceIsPinned == \A c \in copies : blk[c.t][c.src] = c.from
=============================================================================
