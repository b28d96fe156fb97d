----------------------------- MODULE MemSyncInv -----------------------------
(***************************************************************************)
(* The inductive invariant of MemSync, in named parts.                     *)
(*                                                                         *)
(* After the first call a device may still be at setwait, deref or reply,  *)
(* and then it overwrites what the next call puts into its mail box.  The  *)
(* invariant holds in these calls too: such a device has run no task since *)
(* it answered, so that it has nothing to write back, and its contribution *)
(* to the counter, which nobody withdraws, keeps the counter above zero.   *)
(***************************************************************************)
EXTENDS MemSync

\* Where the caller is in a call: the request of d has been posted, d has been
\* counted, and the reply of d has been consumed.
InCall      == cpc \in {"count", "post", "wait"}
Posted(d)   == \/ cpc \in {"count", "post"} /\ d < ci
               \/ cpc = "wait"
Counted(d)  == Posted(d) \/ (cpc = "post" /\ d = ci)
Consumed(d) == cpc = "wait" /\ d < ci

\* The request of d is in its hands.
Working(d) == Posted(d) /\ ~ Consumed(d)

\* d has started the transfer of every tile that it must write back.
Written(d) == \A t \in Modified(d) : <<t, d>> \in OnTile

-----------------------------------------------------------------------------
\* xkblas_sync has returned.
Quiet == InCall => \A d \in Devices : queue[d] = 0

\* A call starts below the bound.
Bounded == cpc # "idle" => syncs < MaxSyncs

Pointers == \A d \in Devices : ptr[d] <=> Counted(d) /\ ~ Consumed(d)

\* A request belongs to the call, and the device that treats it holds it.
Requests ==
    \A d \in Devices :
        /\ op[d] = "MEMSYNC" => Working(d) /\ Free(d) /\ calls[d] = <<>>
        /\ dpc[d] \in {"writeback", "add", "sub"} => op[d] = "WRITEBACK" /\ Working(d)
        /\ op[d] = "WRITEBACK" => dpc[d] \in {"writeback", "add", "sub", "setwait"}
        /\ dpc[d] = "writeback" => Free(d)
        /\ dpc[d] = "add" => sent[d] <= Cardinality(Tiles)

\* The device of a callback waits for it.
Owners ==
    \A d \in Devices : ~ Free(d) =>
        /\ Working(d)
        /\ \/ dpc[d] \in {"add", "sub", "setwait"} /\ op[d] = "WRITEBACK"
           \/ dpc[d] \in {"loop", "deref"} /\ op[d] = "WRITEBACK_WAIT"

\* The device that runs callbacks waits for the end of the call.
Runners ==
    \A e \in Devices : calls[e] # <<>> =>
        /\ Working(e)
        /\ \/ dpc[e] = "loop" /\ op[e] = "WRITEBACK_WAIT"
           \/ dpc[e] = "sub"

\* A device has one callback at most in a list.
Distinct ==
    /\ \A t \in Tiles : \A j, k \in DOMAIN cbk[t] : cbk[t][j] = cbk[t][k] => j = k
    /\ \A e \in Devices : \A j, k \in DOMAIN calls[e] : calls[e][j] = calls[e][k] => j = k

\* The reply that a callback is about to send is the last thing it does, and the
\* device it is for has finished.
Dues ==
    \A e \in due :
        /\ dpc[e] = "loop" /\ Free(e)
        /\ \E d \in Devices : /\ calls[e] = <<d>>
                              /\ Posted(d) /\ ~ Engaged(d) /\ Free(d)
                              /\ calls[d] = <<>> \/ d = e

\* A device that may still reply to an earlier call has nothing to write back; the
\* caller never gets past the mail box of one that has.
Late ==
    \A d \in Devices :
        /\ dpc[d] \in {"add", "sub", "setwait", "reply"} => Written(d)
        /\ dpc[d] = "deref" => Written(d) \/ (cpc = "post" /\ ci = d /\ op[d] # "NOP")

\* What a device had to write back is on its way when it no longer counts.
WrittenBack == \A d \in Devices : Posted(d) /\ ~ Engaged(d) => Written(d)

\* A tile that the host misses is modified on a device.
DirtyKnown ==
    \A t \in Tiles : Host \notin valid[t] => \E d \in Devices : d \in valid[t] /\ d \in rw[t]

\* The counter holds Big for every device of a set that has all engaged devices in
\* it, and in the first call no other.
Balance ==
    InCall =>
        \E O \in SUBSET {d \in Devices : Counted(d)} :
            /\ {d \in Devices : Engaged(d)} \subseteq O
            /\ syncs = 0 => O = {d \in Devices : Engaged(d)}
            /\ counter + Cardinality(Unsent) =
                   Big * Cardinality(O) + Cardinality(OnTile) + Cardinality(InCalls)

\* Before the first call the mail boxes are empty, and in it no device has another
\* request to answer.
FirstCall ==
    syncs = 0 => \A d \in Devices :
        /\ ~ Posted(d) => op[d] = "NOP" /\ dpc[d] \in {"loop", "sleep", "asleep"}
        /\ op[d] = "MEMSYNC" => dpc[d] \in {"loop", "sleep", "asleep"}

SyncInv ==
    /\ TypeOK /\ Quiet /\ Bounded /\ Pointers /\ Requests /\ Owners /\ Runners
    /\ Distinct /\ Dues /\ Late /\ WrittenBack /\ DirtyKnown /\ Balance /\ FirstCall

\* The counter on the stack of the caller is the number of transfers that must
\* still end and of devices that must still answer, although devices add to it
\* after transfers have already ended (kaapi_offload_synchronize).
CounterSound == TypeOK /\ CounterExact /\ SyncInv

=============================================================================
