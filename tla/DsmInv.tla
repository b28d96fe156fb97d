------------------------------- MODULE DsmInv -------------------------------
(***************************************************************************)
(* The inductive invariant of Dsm, in named parts.                         *)
(*                                                                         *)
(* Its subject is a use: one parameter of a live task, <<i, k>>.  While a  *)
(* device thread prepares task i it moves the uses of i, in their order,   *)
(* into four sets: the replica is pinned, has a block, has been asked for, *)
(* and is in a list of the cache.  Pins, waiting counters and callbacks    *)
(* are the numbers and the traces of these sets.                           *)
(***************************************************************************)
EXTENDS Dsm

-----------------------------------------------------------------------------
(* Types.                                                                  *)

States == {"prep", "pending", "running", "done"}
Task   == [dev : Devices, shape : Shapes \cup {<<>>}, wc : Int, st : States]

\* Where a device thread is.
Steps     == [pc : {"acquire", "alloc", "fetch", "touch"}, i : Nat, k : Nat]
Evictions == [pc : {"unset"}, i : Nat, k : Nat, left : {0, 1}, readonly : BOOLEAN,
              victim : Nat]
Posts     == [pc : {"post"}, i : Nat, k : Nat, src : Nodes, dst : Nodes,
              ret : {Idle} \cup Steps]

Actions   == ({"task"} \X (Nat \X Nat)) \cup ({"send"} \X Nodes) \cup {<<"host", 0>>}
Contents  == (Tiles \X Nat) \cup {Garbage}
Blocks    == Tiles \cup Nat
Transfers == [t : Tiles, src : Nodes, from : Blocks, dst : Nodes, to : Blocks, by : Devices]

Types ==
    /\ cap \in Capacities
    /\ blk \in [Tiles -> [Nodes -> Blocks]]
    /\ DOMAIN mem = Nodes /\ mem[Host] \in [Tiles -> Contents]
    /\ \A d \in Devices : mem[d] \in [1..cap[d] -> Contents]
    /\ valid \in [Tiles -> SUBSET Nodes] /\ xfer \in [Tiles -> SUBSET Nodes]
    /\ pin \in [Tiles -> [Devices -> Int]]
    /\ cbk \in [Tiles -> [Nodes -> SUBSET Actions]]
    /\ ro \in [Devices -> Seq(Tiles)] /\ rw \in [Devices -> Seq(Tiles)]
    /\ copies \subseteq Transfers
    /\ cur \in [Tiles -> Nat]
    /\ tasks \in Seq(Task)
    /\ thr \in [Devices -> {Idle} \cup Steps \cup Evictions \cup Posts]

-----------------------------------------------------------------------------
(* Uses.                                                                   *)

Uses == UNION {{i} \X DOMAIN Params(i) : i \in Live}

DevOf(x)  == tasks[x[1]].dev
TileOf(x) == Params(x[1])[x[2]][1]
ModeOf(x) == Params(x[1])[x[2]][2]

\* Where the preparation of a device stands.
Prep(d) == IF thr[d].pc = "post" THEN thr[d].ret ELSE thr[d]

\* The use that a device thread prepares.
At(d) == <<Prep(d).i, Prep(d).k>>

\* The preparation has gone further than use x, or is there and at one of pcs.
Behind(x, pcs) ==
    tasks[x[1]].st = "prep" =>
        \/ x[2] < Prep(DevOf(x)).k
        \/ x[2] = Prep(DevOf(x)).k /\ Prep(DevOf(x)).pc \in pcs

Pinned    == {x \in Uses : Behind(x, {"alloc", "unset", "fetch", "touch"})}
Allocated == {x \in Uses : Behind(x, {"fetch", "touch"})}
Listed    == {x \in Uses : Behind(x, {})}

\* x is the use whose transfer is about to be posted.
Posting(x) ==
    /\ thr[DevOf(x)].pc = "post" /\ thr[DevOf(x)].dst # Host
    /\ thr[DevOf(x)].i = x[1] /\ thr[DevOf(x)].k = x[2]

Asked == {x \in Uses : Behind(x, {"touch"}) /\ ~ Posting(x)}

\* The writer of t that has made the other replicas invalid.
Dirtying(t) == {x \in Listed : TileOf(x) = t /\ Writes(ModeOf(x))}

-----------------------------------------------------------------------------
(* The parts.                                                              *)

\* A task is in preparation when its device thread prepares it, and its body runs
\* when the thread posts its transfer to the host.
ThreadsAtTasks ==
    /\ \A d \in Devices : Prep(d).pc # "idle" =>
          LET i == Prep(d).i
          IN  /\ i \in DOMAIN tasks /\ tasks[i].dev = d /\ tasks[i].st = "prep"
              /\ Prep(d).k \in DOMAIN Params(i)
    /\ \A d \in Devices : thr[d].pc = "post" =>
          \/ /\ thr[d].dst = d
             /\ Prep(d).pc = "touch" /\ Prep(d).i = thr[d].i /\ Prep(d).k = thr[d].k
             /\ Reads(Mode(d))
          \/ /\ thr[d].dst = Host /\ thr[d].k = 1 /\ Prep(d).pc \in {"idle", "alloc"}
             /\ thr[d].i \in DOMAIN tasks /\ tasks[thr[d].i].dev = d
             /\ tasks[thr[d].i].st = "running"
    /\ \A i \in DOMAIN tasks : tasks[i].st = "prep" =>
          Prep(tasks[i].dev).pc # "idle" /\ Prep(tasks[i].dev).i = i
    /\ \A i \in DOMAIN tasks : tasks[i].st = "running" =>
          LET d == tasks[i].dev
          IN  /\ thr[d].pc = "post" /\ thr[d].dst = Host /\ thr[d].i = i
              /\ tasks[i].wc = 0 /\ IsWriteBack(i)

\* Two live tasks conflict on no tile, and a device that has tasks has memory.
Apart ==
    /\ \A i \in Live : Params(i) \in Shapes /\ cap[tasks[i].dev] > 0
    /\ \A x, y \in Uses : x[1] # y[1] /\ TileOf(x) = TileOf(y) => ~ Writes(ModeOf(x))

\* The pins of a replica are its uses.
Holders(t, d) == {x \in Pinned : TileOf(x) = t /\ DevOf(x) = d}
PinsExact ==
    \A t \in Tiles, d \in Devices :
        IsFiniteSet(Holders(t, d)) /\ pin[t][d] = Cardinality(Holders(t, d))

\* A block belongs to one replica; a replica in use, valid or under transfer has one,
\* and the replica that a block is looked for has none.
BlocksExact ==
    /\ \A t \in Tiles : blk[t][Host] = t
    /\ \A t \in Tiles, d \in Devices : blk[t][d] \in 0..cap[d]
    /\ \A t, u \in Tiles, d \in Devices : blk[t][d] = blk[u][d] /\ blk[t][d] # 0 => t = u
    /\ \A x \in Allocated : blk[TileOf(x)][DevOf(x)] # 0
    /\ \A t \in Tiles, d \in Devices : d \in valid[t] => blk[t][d] # 0
    /\ \A d \in Devices : Prep(d).pc \in {"alloc", "unset"} => blk[TileOf(At(d))][d] = 0

\* The counter of a task counts its callbacks, its preparation and the transfer
\* that its thread is about to post.
Waiting(i) == {k \in DOMAIN Params(i) :
                  <<"task", <<i, k>>>> \in cbk[Params(i)[k][1]][tasks[i].dev]}
CountersExact ==
    \A i \in Live :
        tasks[i].wc = Cardinality(Waiting(i)) + (IF tasks[i].st = "prep" THEN 1 ELSE 0)
                      + (IF \E k \in DOMAIN Params(i) : Posting(<<i, k>>) THEN 1 ELSE 0)

\* A callback is at a replica under transfer; that of a task is for a use that has
\* been asked for, and a device has a transfer for the sake of such a use only.
CallbacksOwned ==
    /\ \A t \in Tiles, n \in Nodes : cbk[t][n] # {} => n \in xfer[t]
    /\ \A t \in Tiles, n \in Nodes : \A c \in cbk[t][n] : c[1] = "task" =>
          /\ c[2] \in Asked /\ Reads(ModeOf(c[2]))
          /\ TileOf(c[2]) = t /\ DevOf(c[2]) = n
    /\ \A t \in Tiles, d \in Devices : d \in xfer[t] =>
          \E x \in Uses : <<"task", x>> \in cbk[t][d]

\* Nobody writes a tile that is on its way to the host.
HostUnwritten == \A t \in Tiles : Host \in xfer[t] => ~ Written(t)

\* Every transfer is served by one copy, or by one request to forward.
Fed(t, n)      == \E c \in copies : c.t = t /\ c.dst = n
Sends(t, m, n) == <<"send", n>> \in cbk[t][m]
Fed1 == \A c \in copies : c.dst \in xfer[c.t]
Fed2 == \A t \in Tiles, m, n \in Nodes : Sends(t, m, n) => n \in xfer[t] \ {m} /\ ~ Fed(t, n)
Fed3 == \A t \in Tiles : \A n \in xfer[t] : Fed(t, n) \/ \E m \in Nodes : Sends(t, m, n)
Fed4 == \A c, e \in copies : c.t = e.t /\ c.dst = e.dst => c = e
Fed5 == \A t \in Tiles, l, m, n \in Nodes : Sends(t, l, n) /\ Sends(t, m, n) => l = m
FedOnce == Fed1 /\ Fed2 /\ Fed3 /\ Fed4 /\ Fed5

\* A copy keeps its blocks, and reads the last version.
CopiesCurrent ==
    \A c \in copies :
        /\ c.src # c.dst /\ cap[c.by] > 0
        /\ c.from = blk[c.t][c.src] /\ (c.src # Host => c.from # 0)
        /\ c.to = blk[c.t][c.dst] /\ (c.dst # Host => c.to # 0)
        /\ mem[c.src][c.from] = <<c.t, cur[c.t]>>

\* The replica of a writer is the only valid one; when there is no writer the
\* valid replicas hold the last version and are not under transfer.
ValidExact ==
    \A t \in Tiles :
        /\ \A x \in Dirtying(t) : valid[t] = {DevOf(x)}
        /\ Dirtying(t) = {} =>
              /\ valid[t] # {} /\ valid[t] \cap xfer[t] = {}
              /\ \A n \in valid[t] : mem[n][blk[t][n]] = <<t, cur[t]>>

\* What has been asked for is on its way or there.
InputsServed ==
    \A x \in Asked : Reads(ModeOf(x)) =>
        LET t == TileOf(x)  d == DevOf(x)
        IN  \/ <<"task", x>> \in cbk[t][d]
            \/ mem[d][blk[t][d]] = <<t, cur[t]>>

\* The source that was chosen stays a source until the transfer is posted.
SourceStays ==
    \A d \in Devices : thr[d].pc = "post" => thr[d].src \in valid[Tile(d)] \cup xfer[Tile(d)]

\* The victim that was chosen is still in its list, and no task of its device uses it.
VictimStays ==
    \A d \in Devices : thr[d].pc = "unset" =>
        LET list == IF thr[d].readonly THEN ro[d] ELSE rw[d]
        IN  thr[d].victim \in 1..Len(list) /\ pin[list[thr[d].victim]][d] = 0

\* The tiles that the host misses are in the rw lists, until one has been dropped there.
DirtyListed ==
    "unlisted" \notin mishaps => \A t \in Tiles :
        /\ \A x \in Dirtying(t) : t \in Range(rw[DevOf(x)])
        /\ Dirtying(t) = {} /\ Host \notin valid[t] => \E d \in valid[t] : t \in Range(rw[d])

DsmInv ==
    /\ Types /\ ThreadsAtTasks /\ Apart /\ PinsExact /\ BlocksExact /\ CountersExact
    /\ CallbacksOwned /\ HostUnwritten /\ FedOnce /\ CopiesCurrent /\ ValidExact
    /\ InputsServed /\ SourceStays /\ VictimStays /\ DirtyListed

-----------------------------------------------------------------------------
(* What DsmInv does without: the lists, the versions and the chains.       *)

\* No tile is twice in the lists of a device, and a tile that is there has a block.
ListsApart ==
    \A d \in Devices :
        /\ IsInjective(ro[d]) /\ IsInjective(rw[d]) /\ Range(ro[d]) \cap Range(rw[d]) = {}
        /\ \A t \in Range(ro[d]) \cup Range(rw[d]) : blk[t][d] # 0

\* There are no more versions of a tile than tasks, and fewer while one writes it.
VersionsBounded ==
    /\ Len(tasks) <= MaxTasks[cap]
    /\ \A t \in Tiles : cur[t] <= Len(tasks) /\ (Written(t) => cur[t] < Len(tasks))
    /\ \A n \in Nodes : \A c \in Range(mem[n]) : c # Garbage => c[2] <= Len(tasks)

\* A task that is over waits for nothing.
DoneCounted == \A i \in DOMAIN tasks : tasks[i].st = "done" => tasks[i].wc = 0

\* A write-back reads a replica that is valid, so that no request is made to
\* forward a tile to the host.
ReadsBackValid ==
    /\ \A d \in Devices : thr[d].pc = "post" /\ thr[d].dst = Host => thr[d].src \in valid[Tile(d)]
    /\ \A t \in Tiles, n \in Nodes : ~ Sends(t, n, Host)

\* The requests to forward go from lower to higher ranks: no two replicas wait for
\* each other.
Ranked(t, r) == \A m, n \in Nodes : Sends(t, m, n) => r[m] < r[n]
ChainsEnd    == \A t \in Tiles : \E r \in [Nodes -> 0..N] : Ranked(t, r)

ChainInv == ListsApart /\ VersionsBounded /\ DoneCounted /\ ReadsBackValid /\ ChainsEnd

\* A transfer to the host has its callback there.
HostAnswered == \A t \in Tiles : Host \in xfer[t] => cbk[t][Host] # {}

\* Every transfer is served, once, and what is forwarded is needed
\* (callback_activate_replica_on_receive_cbk and the list of callbacks); the pins, the
\* waiting counters and the callbacks of replicas are those that the uses of tiles by
\* live tasks account for (DsmInv and ChainInv, the inductive invariants), in every
\* behaviour without a mishap other than "unlisted".
TransfersSound ==
    Unharmed =>
        /\ TypeOK /\ DsmInv /\ ChainInv /\ HostAnswered
        /\ EveryTransferServed /\ ForwardIsNeeded

=============================================================================
