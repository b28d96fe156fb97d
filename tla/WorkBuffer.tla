----------------------------- MODULE WorkBuffer -----------------------------
(***************************************************************************)
(* The unified work buffer (blas/xkblas.c, xkblas_register_work_buffer,    *)
(* xkblas_get_work_pos, xkblas_free_work_pos).                             *)
(*                                                                         *)
(* A buffer of the caller is cut into segments, doubly linked by address;  *)
(* the free ones are also doubly linked in a free list ordered by address. *)
(* work_buffer_mutex makes each call one step; a request that finds no     *)
(* room waits on work_buffer_cond.  A segment is named by its position, in *)
(* bytes from the start of the buffer.                                     *)
(***************************************************************************)
EXTENDS Integers, FiniteSets

CONSTANTS
    Clients,   \* threads that call the api
    Total,     \* size of the registered buffer, a multiple of Align
    Align,     \* requests are rounded up to this size
    Element,   \* bargs->element_size: the buffer is cleared by such parts
    Requests   \* sizes the clients ask for

Null == -1
Idle == [pc |-> "idle", size |-> 0, at |-> Null]

VARIABLES
    seg,               \* position -> its segment
    free_segment_list,
    first_segment,
    total_size,
    client,            \* client -> [pc, size of its request, segment it holds]
    owner              \* the registering thread: [pc, pos]

vars == <<seg, free_segment_list, first_segment, total_size, client, owner>>

Init ==
    /\ seg = <<>>
    /\ free_segment_list = Null /\ first_segment = Null
    /\ total_size = 0
    /\ client = [c \in Clients |-> Idle]
    /\ owner = [pc |-> "out", pos |-> 0]

Live == DOMAIN seg

\* s where the segment at p, if there is one, is linked to q.
Link(s, p, link, q) == IF p = Null THEN s ELSE [s EXCEPT ![p][link] = q]

\* The free list, followed from its head.
FreeAt[n \in 0..Total] ==
    IF n = 0 THEN free_segment_list
    ELSE IF FreeAt[n - 1] = Null THEN Null ELSE seg[FreeAt[n - 1]].free_next
FreeList == {FreeAt[n] : n \in 0..Cardinality(Live)} \ {Null}

Aligned(size) == ((size + Align - 1) \div Align) * Align

-----------------------------------------------------------------------------
(* xkblas_get_work_pos                                                     *)

\* First fit: the indices of the free list whose segment is large enough.
Fits(size) == {n \in 0..Cardinality(Live) : FreeAt[n] # Null /\ seg[FreeAt[n]].size >= size}
Winner(size) == FreeAt[CHOOSE n \in Fits(size) : \A k \in Fits(size) : n <= k]

\* s with the segment x at p.
With(s, p, x) == [q \in DOMAIN s \cup {p} |-> IF q = p THEN x ELSE s[q]]

\* The remainder of c is a segment after it, in both lists.
Split(c, size) ==
    IF seg[c].size = size THEN seg
    ELSE LET r == c + size
             after == [size |-> seg[c].size - size, free |-> TRUE, prev |-> c,
                       next |-> seg[c].next, free_prev |-> c, free_next |-> seg[c].free_next]
             cut == With([seg EXCEPT ![c].size = size, ![c].next = r, ![c].free_next = r],
                         r, after)
         IN  Link(Link(cut, after.next, "prev", r), after.free_next, "free_prev", r)

\* c leaves the free list.
Take(s, c) ==
    LET n == s[c].free_next
        p == s[c].free_prev
        out == [s EXCEPT ![c].free = FALSE, ![c].free_next = Null, ![c].free_prev = Null]
    IN  Link(Link(out, n, "free_prev", p), p, "free_next", n)

Allocate(size) ==
    LET c == Winner(size)
        s == Split(c, size)
    IN  /\ seg' = Take(s, c)
        /\ free_segment_list' = IF s[c].free_prev = Null THEN s[c].free_next
                                ELSE free_segment_list

\* A request larger than the buffer ends the program: it is not made.
GetWorkPos(c, size) ==
    /\ Aligned(size) <= total_size
    /\ IF Fits(Aligned(size)) = {}
       THEN /\ client' = [client EXCEPT ![c] = [Idle EXCEPT !.pc = "wait", !.size = size]]
            /\ UNCHANGED <<seg, free_segment_list>>
       ELSE /\ Allocate(Aligned(size))
            /\ client' = [client EXCEPT ![c] = [pc |-> "holds", size |-> size,
                                                at |-> Winner(Aligned(size))]]

Get(c) ==
    /\ owner.pc = "done"
    /\ \/ client[c].pc = "idle" /\ \E size \in Requests : GetWorkPos(c, size)
       \/ client[c].pc = "woken" /\ GetWorkPos(c, client[c].size)
    /\ UNCHANGED <<first_segment, total_size, owner>>

-----------------------------------------------------------------------------
(* xkblas_free_work_pos                                                    *)

IsFree(c) == c # Null /\ seg[c].free
Except(s, gone) == [p \in DOMAIN s \ {gone} |-> s[p]]

\* c takes the free segment after it and its place in the free list.
MergeNext(c) ==
    LET n == seg[c].next
        m == [seg EXCEPT ![c].size = @ + seg[n].size, ![c].next = seg[n].next, ![c].free = TRUE,
                         ![c].free_next = seg[n].free_next, ![c].free_prev = seg[n].free_prev]
        l == Link(Link(m, seg[n].next, "prev", c), seg[n].free_next, "free_prev", c)
    IN  Except(Link(l, seg[n].free_prev, "free_next", c), n)

\* The free segment before c takes it; inserted: c has a place in the free list.
MergePrev(s, c, inserted) ==
    LET p == s[c].prev
        m == Link([s EXCEPT ![p].size = @ + s[c].size, ![p].next = s[c].next],
                  s[c].next, "prev", p)
    IN  Except(IF inserted
               THEN Link([m EXCEPT ![p].free_next = s[c].free_next], s[c].free_next, "free_prev", p)
               ELSE m, c)

\* Between two segments in use: c goes to its place in the free list.
Insert(c) ==
    LET before == {p \in FreeList : p < c}
        after == FreeList \ before
        b == IF before = {} THEN Null ELSE CHOOSE p \in before : \A q \in before : q <= p
        a == IF after = {} THEN Null ELSE CHOOSE p \in after : \A q \in after : p <= q
        m == [seg EXCEPT ![c].free = TRUE, ![c].free_prev = b, ![c].free_next = a]
    IN  Link(Link(m, b, "free_next", c), a, "free_prev", c)

\* Defect: pthread_cond_signal, one waiter tries again.
WakeOne ==
    LET waiting == {c \in Clients : client[c].pc = "wait"}
        first == CHOOSE c \in waiting : TRUE
    IN  [c \in Clients |-> IF c \in waiting /\ c = first
                           THEN [client[c] EXCEPT !.pc = "woken"] ELSE client[c]]

\* pthread_cond_broadcast
WakeAll ==
    [c \in Clients |-> IF client[c].pc = "wait" THEN [client[c] EXCEPT !.pc = "woken"]
                       ELSE client[c]]

FreeWorkPos(c) ==
    LET n == IsFree(seg[c].next)
        p == IsFree(seg[c].prev)
        s == IF n THEN MergeNext(c) ELSE seg
    IN  /\ seg' = IF p THEN MergePrev(s, c, n) ELSE IF n THEN s ELSE Insert(c)
        /\ free_segment_list' = IF ~p /\ {q \in FreeList : q < c} = {} THEN c
                                ELSE free_segment_list

Free(c) ==
    /\ client[c].pc = "holds"
    /\ FreeWorkPos(client[c].at)
    /\ client' = [WakeAll EXCEPT ![c] = Idle]
    /\ UNCHANGED <<first_segment, total_size, owner>>

-----------------------------------------------------------------------------
(* xkblas_register_work_buffer takes the buffer part by part, then a       *)
(* thread clears and frees the parts.  The clients call after it returned. *)

Register ==
    /\ owner.pc = "out" /\ first_segment = Null
    /\ seg' = With(<<>>, 0, [size |-> Total, free |-> TRUE, prev |-> Null, next |-> Null,
                             free_prev |-> Null, free_next |-> Null])
    /\ free_segment_list' = 0 /\ first_segment' = 0
    /\ total_size' = Total
    /\ owner' = [pc |-> "take", pos |-> 0]
    /\ UNCHANGED client

Part == IF Element < Total - owner.pos THEN Element ELSE Total - owner.pos
Advance(pc, then) ==
    owner' = IF owner.pos + Part = Total THEN [pc |-> then, pos |-> 0]
             ELSE [pc |-> pc, pos |-> owner.pos + Part]

TakePart ==
    /\ owner.pc = "take" /\ Fits(Aligned(Part)) # {}
    /\ Allocate(Aligned(Part))
    /\ Advance("take", "clear")
    /\ UNCHANGED <<first_segment, total_size, client>>

\* memset_init_thread_function, joined by the caller.
ClearPart ==
    /\ owner.pc = "clear"
    /\ FreeWorkPos(owner.pos)
    /\ client' = WakeAll
    /\ Advance("clear", "done")
    /\ UNCHANGED <<first_segment, total_size>>

\* xkblas_unregister_work_buffer, when no client uses the buffer.
Unregister ==
    /\ owner.pc = "done" /\ \A c \in Clients : client[c] = Idle
    /\ seg' = <<>>
    /\ free_segment_list' = Null /\ first_segment' = Null /\ total_size' = 0
    /\ owner' = [pc |-> "out", pos |-> 0]
    /\ UNCHANGED client

Next ==
    \/ Register \/ TakePart \/ ClearPart \/ Unregister
    \/ \E c \in Clients : Get(c) \/ Free(c)

Spec == Init /\ [][Next]_vars

-----------------------------------------------------------------------------
(* coherency_check, the test the source keeps for debugging: what it       *)
(* refuses of a segment.                                                   *)

LinkedBack(c, fwd, back, later) ==
    LET n == seg[c][fwd]
    IN  n # Null => /\ n \in Live /\ seg[n][back] = c
                    /\ IF later THEN n > c ELSE n < c

coherency_check ==
    \A c \in Live :
        /\ LinkedBack(c, "prev", "next", FALSE) /\ LinkedBack(c, "next", "prev", TRUE)
        /\ seg[c].prev = Null => seg[c].free_prev = Null
        /\ seg[c].next = Null => seg[c].free_next = Null
        /\ IF seg[c].free
           THEN /\ LinkedBack(c, "free_prev", "free_next", FALSE)
                /\ LinkedBack(c, "free_next", "free_prev", TRUE)
                /\ seg[c].free_prev = Null => free_segment_list = c
           ELSE seg[c].free_prev = Null /\ seg[c].free_next = Null

(* Properties.                                                             *)

\* The check the source keeps for debugging never stops the program, after
\* any sequence of requests and frees.
CoherencyHolds == coherency_check

\* The segments cut the registered buffer into disjoint intervals without two
\* free neighbours; a client holds a segment in use of at least its request,
\* that no other client holds.
SegmentsPartition ==
    /\ first_segment # Null =>
        \A c \in Live : IF seg[c].next = Null THEN c + seg[c].size = total_size
                        ELSE seg[c].next = c + seg[c].size /\ ~(seg[c].free /\ IsFree(seg[c].next))
    /\ FreeList = {c \in Live : seg[c].free}
    /\ \A c \in Clients : client[c].pc = "holds" =>
        /\ client[c].at \in Live /\ ~seg[client[c].at].free
        /\ seg[client[c].at].size >= client[c].size
        /\ \A d \in Clients \ {c} : client[d].at # client[c].at

\* A request waits on work_buffer_cond only while no free segment is large
\* enough for it: no wake-up is lost whatever the order of frees and waits.
WaiterHasNoRoom ==
    \A c \in Clients : client[c].pc = "wait" => Fits(Aligned(client[c].size)) = {}

=============================================================================
