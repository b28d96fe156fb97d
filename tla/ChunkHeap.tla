----------------------------- MODULE ChunkHeap -----------------------------
(***************************************************************************)
(* The heap of device memory (kaapi_memory_alloc and kaapi_memory_free in  *)
(* kaapi/kaapi_memory.c, with KAAPI_USE_OWN_HEAP_ALLOCATOR and best fit).  *)
(*                                                                         *)
(* Chunks live on the host: each describes an interval of device memory    *)
(* and is linked to its neighbours (prev, next) and, while free, into a    *)
(* free list ordered by address (freelink).  Every call is one critical    *)
(* section of mem_lock.  Sizes are in units of the smallest allocation.    *)
(***************************************************************************)
EXTENDS Integers, FiniteSets

CONSTANTS
    Total,     \* size of the main chunk
    Sizes,     \* sizes of the requests
    Ids        \* host descriptors: 1..n

Null == 0
Dead == [addr |-> 0, size |-> 0, free |-> FALSE, prev |-> Null, next |-> Null,
         link |-> Null]

VARIABLES
    chunk,     \* descriptor -> its fields
    live,      \* descriptors that are allocated (malloc, free)
    free_chunk_list,
    main_chunk,\* the main chunk has been taken from the device
    asked      \* descriptor in use -> size of its request

vars == <<chunk, live, free_chunk_list, main_chunk, asked>>

Init ==
    /\ chunk = [c \in Ids |-> Dead]
    /\ live = {}
    /\ free_chunk_list = Null
    /\ main_chunk = FALSE
    /\ asked = [c \in Ids |-> 0]

\* malloc of a descriptor.
NewId(used) == CHOOSE c \in Ids \ used : \A d \in Ids \ used : c <= d

\* The free list, followed from its head.
FreeAt[n \in 0..Cardinality(Ids)] ==
    IF n = 0 THEN free_chunk_list
    ELSE IF FreeAt[n - 1] = Null THEN Null ELSE chunk[FreeAt[n - 1]].link

FreeSeen == {n \in 0..(Cardinality(Ids) - 1) : FreeAt[n] # Null}

-----------------------------------------------------------------------------
\* The first allocation reserves all the memory of the device as one chunk.
MainChunk ==
    /\ ~main_chunk
    /\ main_chunk' = TRUE
    /\ chunk' = [chunk EXCEPT ![1] = [Dead EXCEPT !.size = Total, !.free = TRUE]]
    /\ live' = {1}
    /\ free_chunk_list' = 1
    /\ UNCHANGED asked

\* The search goes through the whole list and keeps the last chunk that fits.
Fits(size) == {n \in FreeSeen : chunk[FreeAt[n]].size >= size}
Winner(size) == CHOOSE n \in Fits(size) : \A k \in Fits(size) : k <= n

\* min_size - size >= 0.5 * size
Split(c, size) == 2 * (chunk[c].size - size) >= size

\* The remainder r becomes a free chunk after c, in both lists.
SplitChunk(c, size, r) ==
    LET n == chunk[c].next
        cut == [chunk EXCEPT
            ![c].size = size, ![c].next = r, ![c].link = r,
            ![r] = [addr |-> chunk[c].addr + size, size |-> chunk[c].size - size,
                    free |-> TRUE, prev |-> c, next |-> n, link |-> chunk[c].link]]
    IN  IF n = Null THEN cut ELSE [cut EXCEPT ![n].prev = r]

\* c leaves the free list, p being before it.
Unlink(ch, c, p) ==
    LET out == [ch EXCEPT ![c].free = FALSE, ![c].link = Null]
    IN  IF p = Null THEN out ELSE [out EXCEPT ![p].link = ch[c].link]

\* kaapi_memory_alloc
Alloc(size) ==
    /\ main_chunk
    /\ IF Fits(size) = {}
       THEN UNCHANGED vars
       ELSE LET n == Winner(size)
                c == FreeAt[n]
                p == IF n = 0 THEN Null ELSE FreeAt[n - 1]
                r == NewId(live)
                ch == IF Split(c, size) THEN SplitChunk(c, size, r) ELSE chunk
            IN  /\ live' = IF Split(c, size) THEN live \cup {r} ELSE live
                /\ chunk' = Unlink(ch, c, p)
                /\ free_chunk_list' = IF p = Null THEN ch[c].link ELSE free_chunk_list
                /\ asked' = [asked EXCEPT ![c] = size]
                /\ UNCHANGED main_chunk

-----------------------------------------------------------------------------
IsFree(c) == c # Null /\ chunk[c].free

\* Merge c into the free chunk after it.
MergeNext(c) ==
    LET n == chunk[c].next
        p == chunk[c].prev
        m == [chunk EXCEPT ![n].prev = p, ![n].size = @ + chunk[c].size,
                           ![n].addr = chunk[c].addr]
    IN  IF p = Null THEN m ELSE [m EXCEPT ![p].next = n]

\* ch with b, the chunk after a, merged into a.
MergeInto(ch, a, b, link) ==
    LET n == ch[b].next
        m == [ch EXCEPT ![a].size = @ + ch[b].size, ![a].next = n, ![a].link = link]
    IN  IF n = Null THEN m ELSE [m EXCEPT ![n].prev = a]

\* Defect: three free chunks in a row become two.
MergeBothOnce(c) == MergeNext(c)

\* The free chunk before c takes c and the free chunk after it.
MergeBoth(c) ==
    LET m == MergeNext(c)
    IN  MergeInto(m, chunk[c].prev, chunk[c].next, m[chunk[c].next].link)

\* The closest free chunk before c: the search follows prev.
Before(c) == {d \in live : chunk[d].free /\ chunk[d].addr < chunk[c].addr}
FreeBefore(c) == CHOOSE d \in Before(c) : \A e \in Before(c) : chunk[e].addr <= chunk[d].addr

\* free(): a descriptor that is not live holds nothing.
Without(ch, gone) == [c \in Ids |-> IF c \in gone THEN Dead ELSE ch[c]]

Freed(c) == [chunk EXCEPT ![c].free = TRUE]

\* Between two chunks in use: c is inserted into the free list, by address.
InsertFree(c) ==
    IF Before(c) = {}
    THEN /\ chunk' = [Freed(c) EXCEPT ![c].link = free_chunk_list]
         /\ free_chunk_list' = c
    ELSE /\ chunk' = [Freed(c) EXCEPT ![c].link = chunk[FreeBefore(c)].link,
                                      ![FreeBefore(c)].link = c]
         /\ UNCHANGED free_chunk_list

\* kaapi_memory_free
Free(c) ==
    /\ c \in live /\ ~chunk[c].free
    /\ LET n == chunk[c].next
           p == chunk[c].prev
       IN  \/ /\ IsFree(n) /\ ~IsFree(p)
              /\ chunk' = Without(MergeNext(c), {c}) /\ live' = live \ {c}
              /\ UNCHANGED free_chunk_list
           \/ /\ IsFree(n) /\ IsFree(p)
              /\ chunk' = Without(MergeBoth(c), {c, n}) /\ live' = live \ {c, n}
              /\ UNCHANGED free_chunk_list
           \/ /\ ~IsFree(n) /\ IsFree(p)
              /\ chunk' = Without(MergeInto(chunk, p, c, chunk[p].link), {c})
              /\ live' = live \ {c}
              /\ UNCHANGED free_chunk_list
           \/ /\ ~IsFree(n) /\ ~IsFree(p)
              /\ InsertFree(c) /\ UNCHANGED live
    /\ asked' = [asked EXCEPT ![c] = 0]
    /\ UNCHANGED main_chunk

Next ==
    \/ MainChunk
    \/ \E size \in Sizes : Alloc(size)
    \/ \E c \in Ids : Free(c)

Spec == Init /\ [][Next]_vars

-----------------------------------------------------------------------------
(* Properties.                                                             *)

Inside(x, c) == chunk[c].addr <= x /\ x < chunk[c].addr + chunk[c].size

\* After any sequence of allocations and frees the chunks cut the memory of
\* the device into disjoint intervals, prev and next link neighbours, and an
\* allocation has at least the size it asked for.
ChunksPartition ==
    main_chunk =>
        /\ \A x \in 0..(Total - 1) : \E c \in live : Inside(x, c)
        /\ \A c, d \in live, x \in 0..(Total - 1) : Inside(x, c) /\ Inside(x, d) => c = d
        /\ \A c \in live : chunk[c].size > 0 /\ chunk[c].size >= asked[c]
        /\ \A c \in live : LET n == chunk[c].next
                           IN  IF n = Null THEN chunk[c].addr + chunk[c].size = Total
                               ELSE /\ n \in live /\ chunk[n].prev = c
                                    /\ chunk[n].addr = chunk[c].addr + chunk[c].size

\* "free_chunk_list is ordered by increasing adress" and holds exactly the
\* free chunks.
FreeListExact ==
    /\ {FreeAt[n] : n \in FreeSeen} = {c \in live : chunk[c].free}
    /\ \A n \in FreeSeen : n + 1 \in FreeSeen => chunk[FreeAt[n]].addr < chunk[FreeAt[n + 1]].addr

\* No two neighbours are free: memory that is free in one piece can be
\* allocated in one piece, in whatever order its parts were freed.
Coalesced ==
    \A c \in live : ~(chunk[c].free /\ IsFree(chunk[c].next))

=============================================================================
