------------------------------ MODULE HashMap ------------------------------
(***************************************************************************)
(* The hash map from addresses to descriptors (kaapi/kaapi_hashmap.c),     *)
(* used for handles of matrices and for the data of an address space.      *)
(*                                                                         *)
(* Entries are carved out of blocs of BlocSize entries.  Clearing the map  *)
(* makes the blocs it allocated available again; entries keep their old    *)
(* contents until they are carved again.  Calls are sequential.            *)
(***************************************************************************)
EXTENDS Integers, Sequences, FiniteSets

CONSTANTS
    Keys,      \* addresses
    Hash,      \* key -> bucket: kaapi_hash_ulong and the mask
    BlocSize,  \* KAAPI_BLOCENTRIES_SIZE
    MaxBlocs   \* bound: blocs allocated by malloc

Buckets == {Hash[k] : k \in Keys}
Null == <<0, 0>>  \* the null pointer to an entry
NoKey == 0
NoBloc == 0
Blocs == 1..MaxBlocs
Entries == Blocs \X (0..(BlocSize - 1))

VARIABLES
    entries,   \* bucket -> first entry of its list
    key, chain,\* fields of the entries
    pos,       \* next free entry of each bloc
    currentbloc,
    freebloc, allallocatedbloc,  \* lists of blocs, first one first
    inserted   \* history: keys inserted since the map was cleared

vars == <<entries, key, chain, pos, currentbloc, freebloc, allallocatedbloc, inserted>>

\* kaapi_hashmap_init without an initial bloc.
Init ==
    /\ entries = [b \in Buckets |-> Null]
    /\ key = [e \in Entries |-> NoKey]
    /\ chain = [e \in Entries |-> Null]
    /\ pos = [b \in Blocs |-> 0]
    /\ currentbloc = NoBloc
    /\ freebloc = <<>> /\ allallocatedbloc = <<>>
    /\ inserted = {}

\* Blocs that malloc has returned.
Malloced == {e[1] : e \in {x \in Entries : key[x] # NoKey}}

-----------------------------------------------------------------------------
\* Defect: a bloc used again enters the list of allocated blocs at once.
AllocateBlocLists ==
    IF freebloc # <<>>
    THEN [bloc |-> Head(freebloc), free |-> Tail(freebloc),
          all |-> <<Head(freebloc)>> \o allallocatedbloc]
    ELSE LET b == CHOOSE x \in Blocs \ Malloced : TRUE
         IN  [bloc |-> b, free |-> <<>>, all |-> <<b>> \o allallocatedbloc]

\* kaapi_hashmap_allocate_bloc: from the blocs of an earlier use, or by malloc.
AllocateBloc ==
    IF freebloc # <<>>
    THEN [bloc |-> Head(freebloc), free |-> Tail(freebloc), all |-> allallocatedbloc]
    ELSE LET b == CHOOSE x \in Blocs \ Malloced : TRUE
         IN  [bloc |-> b, free |-> <<>>, all |-> <<b>> \o allallocatedbloc]

\* The entry of place n in the list of each bucket: followed from its head.
Walk[n \in 0..Cardinality(Keys)] ==
    IF n = 0 THEN entries
    ELSE [b \in Buckets |-> IF Walk[n - 1][b] = Null THEN Null ELSE chain[Walk[n - 1][b]]]

\* kaapi_hashmap_find
Find(k) == \E n \in 0..(Cardinality(Keys) - 1) :
               LET e == Walk[n][Hash[k]] IN e # Null /\ key[e] = k

\* kaapi_hashmap_insert
Insert(k) ==
    LET a == IF currentbloc = NoBloc THEN AllocateBloc
             ELSE [bloc |-> currentbloc, free |-> freebloc, all |-> allallocatedbloc]
        p == IF currentbloc = NoBloc THEN 0 ELSE pos[currentbloc]
        e == <<a.bloc, p>>
    IN  /\ freebloc' = a.free /\ allallocatedbloc' = a.all
        /\ key' = [key EXCEPT ![e] = k]
        /\ chain' = [chain EXCEPT ![e] = entries[Hash[k]]]
        /\ entries' = [entries EXCEPT ![Hash[k]] = e]
        /\ pos' = [pos EXCEPT ![a.bloc] = p + 1]
        /\ currentbloc' = IF p + 1 = BlocSize THEN NoBloc ELSE a.bloc
        /\ inserted' = inserted \cup {k}

\* kaapi_hashmap_findinsert, the way callers enter a new address.
FindInsert(k) ==
    /\ currentbloc = NoBloc /\ freebloc = <<>> => Blocs \ Malloced # {}
    /\ IF Find(k) THEN UNCHANGED vars ELSE Insert(k)

\* kaapi_hashmap_clear
Clear ==
    /\ pos' = IF currentbloc = NoBloc THEN pos ELSE [pos EXCEPT ![currentbloc] = 0]
    /\ freebloc' = IF allallocatedbloc # <<>> THEN allallocatedbloc ELSE freebloc
    /\ allallocatedbloc' = <<>>
    /\ currentbloc' = NoBloc
    /\ entries' = [b \in Buckets |-> Null]
    /\ inserted' = {}
    /\ UNCHANGED <<key, chain>>

Next == (\E k \in Keys : FindInsert(k)) \/ Clear

Spec == Init /\ [][Next]_vars

-----------------------------------------------------------------------------
(* Properties.                                                             *)

\* The map finds exactly the addresses inserted since it was cleared, although
\* the entries of the blocs it uses again still hold old addresses, and each
\* address has one entry.
FindsInserted ==
    /\ \A k \in Keys : Find(k) <=> k \in inserted
    /\ \A b \in Buckets, m, n \in 0..(Cardinality(Keys) - 1) :
          m # n /\ Walk[m][b] # Null => Walk[m][b] # Walk[n][b]

\* The assertion of kaapi_hashmap_clear: no bloc waits in the free list when
\* the list of allocated blocs replaces it.
ClearFindsNoFreeBloc == allallocatedbloc # <<>> => freebloc = <<>>

=============================================================================
