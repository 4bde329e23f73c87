------------------------------ MODULE LRUCache ------------------------------
(***************************************************************************)
(* One shard of a compute node's page cache.  The shard owns a fixed set   *)
(* of cache lines.  A line is on exactly one list: free_list_, lru_ (in    *)
(* the table, referenced by the table only), in_use_ (in the table and     *)
(* referenced by some access), or the batch the eviction thread is working *)
(* on.                                                                     *)
(*                                                                         *)
(* Lookup, LookupInsert's first attempt and Release hold table_mutex_      *)
(* shared: two of them interleave, and each changes a line's reference     *)
(* count before it takes list_mutex_ to move the line.  Everything else    *)
(* holds table_mutex_ exclusively and is one step here.                    *)
(*                                                                         *)
(* The lists are sets: any line of lru_ may be the oldest one.             *)
(***************************************************************************)
EXTENDS Naturals, FiniteSets

CONSTANTS
    Client,    \* threads that access pages: front ends and message workers
    Key,       \* page addresses that hash to this shard
    Line,      \* the LRUHandles created by init()
    Access,    \* Access[t]: the pages thread t uses
    MaxHeld,   \* how many pages a thread uses at a time
    Trigger,   \* free_list_trigger_limit_
    NoLine, NoKey

ASSUME AccessAssumption == Access \in [Client -> SUBSET Key]

ASSUME TriggerAssumption == Trigger \in Nat

ASSUME HeldAssumption == MaxHeld \in Nat

ASSUME NoneAssumption == NoLine \notin Line /\ NoKey \notin Key

VARIABLES
    refs,    \* LRUHandle::refs
    key,     \* LRUHandle::gptr
    inCache, \* LRUHandle::in_cache
    table,   \* the hash table, NoLine where it has no entry
    lru, inUse, free,
    batch,   \* what prepare_free_list has taken out of the table
    call,    \* where a thread is in a call of the cache
    want,    \* the page the call is about
    line,    \* the line whose reference count the call has changed
    held     \* the handles a thread has not released yet

lineVars == <<refs, key, inCache, table>>
listVars == <<lru, inUse, free, batch>>
callVars == <<call, want, line, held>>
shardVars == <<lineVars, listVars, callVars>>

PC == {"idle", "insert", "ref", "unref"}

\* INVARIANT: the types of the state of a shard.
ShardTypeOK ==
    /\ refs \in [Line -> Nat]
    /\ key \in [Line -> Key \cup {NoKey}]
    /\ inCache \in [Line -> BOOLEAN]
    /\ table \in [Key -> Line \cup {NoLine}]
    /\ lru \subseteq Line /\ inUse \subseteq Line
    /\ free \subseteq Line /\ batch \subseteq Line
    /\ call \in [Client -> PC]
    /\ want \in [Client -> Key \cup {NoKey}]
    /\ line \in [Client -> Line \cup {NoLine}]
    /\ held \in [Client -> SUBSET Line]

ShardInit ==
    /\ refs = [e \in Line |-> 0]
    /\ key = [e \in Line |-> NoKey]
    /\ inCache = [e \in Line |-> FALSE]
    /\ table = [k \in Key |-> NoLine]
    /\ lru = {} /\ inUse = {} /\ free = Line /\ batch = {}
    /\ call = [t \in Client |-> "idle"]
    /\ want = [t \in Client |-> NoKey]
    /\ line = [t \in Client |-> NoLine]
    /\ held = [t \in Client |-> {}]

Goto(t, label, k, e) ==
    /\ call' = [call EXCEPT ![t] = label]
    /\ want' = [want EXCEPT ![t] = k]
    /\ line' = [line EXCEPT ![t] = e]

\* Nobody holds table_mutex_ shared.
Unlatched == \A t \in Client : call[t] \notin {"ref", "unref"}

(***************************************************************************)
(* Ref and Unref.  The ticket is the count before the change; it decides   *)
(* whether the line changes lists.                                         *)
(***************************************************************************)
RefMoves(e, ticket) == ticket = 1 /\ inCache[e]


UnrefMoves(e, ticket) == ticket = 2 /\ inCache[e]

\* Mutant: the line is not unlinked from lru_.
MutToInUse(e) ==
    /\ inUse' = inUse \cup {e}
    /\ UNCHANGED lru

ToInUse(e) ==
    /\ lru' = lru \ {e}
    /\ inUse' = inUse \cup {e}

ToLru(e) ==
    /\ inUse' = inUse \ {e}
    /\ lru' = lru \cup {e}

\* Lookup and the first attempt of LookupInsert
Lookup(t, k) ==
    LET e == table[k] IN
    /\ call[t] = "idle"
    /\ k \in Access[t]
    /\ e \notin held[t]
    /\ Cardinality(held[t]) < MaxHeld
    /\ IF e = NoLine
       THEN Goto(t, "insert", k, NoLine) /\ UNCHANGED <<refs, held>>
       ELSE /\ refs' = [refs EXCEPT ![e] = @ + 1]
            /\ IF RefMoves(e, refs[e])
               THEN Goto(t, "ref", k, e) /\ UNCHANGED held
               ELSE /\ held' = [held EXCEPT ![t] = @ \cup {e}]
                    /\ UNCHANGED <<call, want, line>>
    /\ UNCHANGED <<key, inCache, table, listVars>>

\* The rest of Ref, under list_mutex_; table_mutex_ is released after it.
RefMove(t) ==
    /\ call[t] = "ref"
    /\ ToInUse(line[t])
    /\ held' = [held EXCEPT ![t] = @ \cup {line[t]}]
    /\ Goto(t, "idle", NoKey, NoLine)
    /\ UNCHANGED <<lineVars, free, batch>>

Release(t, e) ==
    /\ call[t] = "idle"
    /\ e \in held[t]
    /\ refs' = [refs EXCEPT ![e] = @ - 1]
    /\ held' = [held EXCEPT ![t] = @ \ {e}]
    /\ IF UnrefMoves(e, refs[e])
       THEN Goto(t, "unref", NoKey, e)
       ELSE UNCHANGED <<call, want, line>>
    /\ UNCHANGED <<key, inCache, table, listVars>>

UnrefMove(t) ==
    /\ call[t] = "unref"
    /\ ToLru(line[t])
    /\ Goto(t, "idle", NoKey, NoLine)
    /\ UNCHANGED <<lineVars, free, batch, held>>

(***************************************************************************)
(* LookupInsert after a miss, with table_mutex_ held exclusively.          *)
(***************************************************************************)
\* Another thread has inserted the page meanwhile.
InsertHit(t) ==
    LET e == table[want[t]] IN
    /\ call[t] = "insert"
    /\ Unlatched
    /\ e # NoLine
    /\ refs' = [refs EXCEPT ![e] = @ + 1]
    /\ IF RefMoves(e, refs[e]) THEN ToInUse(e) ELSE UNCHANGED <<lru, inUse>>
    /\ held' = [held EXCEPT ![t] = @ \cup {e}]
    /\ Goto(t, "idle", NoKey, NoLine)
    /\ UNCHANGED <<key, inCache, table, free, batch>>

\* Mutant: the evicted line stays in the table under its old page.
MutUnmapped(e) == table

\* table_.Remove of a line's page
Unmapped(e) ==
    [k \in Key |-> IF k = key[e] THEN NoLine ELSE table[k]]

\* One reference for the caller and one for the table.
Install(t, e, mapped) ==
    /\ refs' = [refs EXCEPT ![e] = 2]
    /\ key' = [key EXCEPT ![e] = want[t]]
    /\ inCache' = [inCache EXCEPT ![e] = TRUE]
    /\ table' = [mapped EXCEPT ![want[t]] = e]
    /\ inUse' = inUse \cup {e}
    /\ held' = [held EXCEPT ![t] = @ \cup {e}]
    /\ Goto(t, "idle", NoKey, NoLine)

\* Mutant: the table is not searched again under the exclusive latch.
MutInsertFree(t, e) ==
    /\ call[t] = "insert"
    /\ Unlatched
    /\ e \in free
    /\ Install(t, e, table)
    /\ free' = free \ {e}
    /\ UNCHANGED <<lru, batch>>

InsertFree(t, e) ==
    /\ call[t] = "insert"
    /\ Unlatched
    /\ table[want[t]] = NoLine
    /\ e \in free
    /\ Install(t, e, table)
    /\ free' = free \ {e}
    /\ UNCHANGED <<lru, batch>>

\* Without a free line the oldest one is evicted on the spot.
InsertEvict(t, e) ==
    /\ call[t] = "insert"
    /\ Unlatched
    /\ table[want[t]] = NoLine
    /\ free = {}
    /\ e \in lru
    /\ Install(t, e, Unmapped(e))
    /\ lru' = lru \ {e}
    /\ UNCHANGED <<free, batch>>

(***************************************************************************)
(* prepare_free_list, by the one background thread of FREELIST_THREAD_NUM. *)
(***************************************************************************)
RecycleNum(size) == IF size < Trigger THEN Trigger - size ELSE 0

\* bulk_remove_LRU_list and the removal from the table
EvictBatch(S) ==
    /\ Unlatched
    /\ batch = {}
    /\ S \subseteq lru
    /\ S # {}
    /\ Cardinality(S) = RecycleNum(Cardinality(free))
    /\ lru' = lru \ S
    /\ batch' = S
    /\ inCache' = [e \in Line |-> inCache[e] /\ e \notin S]
    /\ table' = [k \in Key |-> IF table[k] \in S THEN NoLine ELSE table[k]]
    /\ UNCHANGED <<refs, key, inUse, free, callVars>>

\* The deleter gives the page's latch back; table_mutex_ is not held.
Retire(e) ==
    /\ e \in batch
    /\ refs[e] > 0
    /\ refs' = [refs EXCEPT ![e] = @ - 1]
    /\ UNCHANGED <<key, inCache, table, listVars, callVars>>

\* Mutant: the lines are free before their pages are given back.
MutRetired == TRUE

Retired == \A e \in batch : refs[e] = 0

\* bulk_insert_free_list
Refill ==
    /\ batch # {}
    /\ Retired
    /\ free' = free \cup batch
    /\ batch' = {}
    /\ UNCHANGED <<lineVars, lru, inUse, callVars>>

ThreadStep(t) ==
    \/ \E k \in Key : Lookup(t, k)
    \/ RefMove(t)
    \/ \E e \in Line : Release(t, e)
    \/ UnrefMove(t)
    \/ InsertHit(t)
    \/ \E e \in Line : InsertFree(t, e) \/ InsertEvict(t, e)

EvictorStep ==
    \/ \E S \in SUBSET lru : EvictBatch(S)
    \/ \E e \in Line : Retire(e)
    \/ Refill

ShardNext == EvictorStep \/ \E t \in Client : ThreadStep(t)

ShardSpec == ShardInit /\ [][ShardNext]_shardVars

(***************************************************************************)
(* Safety.                                                                 *)
(***************************************************************************)
\* INVARIANT: the handle an access works on stays the table's entry for its
\* page until it is released: never evicted, never reused for another page,
\* and never one of two lines for the same page.
HeldMapped ==
    \A t \in Client : \A e \in held[t] :
        inCache[e] /\ key[e] \in Access[t] /\ table[key[e]] = e

\* INVARIANT: between two changes of the table, lru_ has just the lines whose
\* only reference is the table's, and in_use_ the ones with more.
LruUnreferenced ==
    Unlatched =>
        /\ \A e \in lru : refs[e] = 1 /\ inCache[e]
        /\ \A e \in inUse : refs[e] >= 2 /\ inCache[e]

\* INVARIANT: a line's count is the number of its users, one of them the
\* table or the eviction that has not given the page back yet.
RefsExact ==
    \A e \in Line :
        refs[e] = Cardinality({t \in Client : e \in held[t]})
                  + Cardinality({t \in Client : call[t] = "ref" /\ line[t] = e})
                  + (IF inCache[e] \/ (e \in batch /\ refs[e] > 0) THEN 1 ELSE 0)

\* INVARIANT: no line is lost and none is on two lists; a free line has no
\* reference left.
LinesAccounted ==
    /\ lru \cup inUse \cup free \cup batch = Line
    /\ lru \cap inUse = {} /\ lru \cap free = {} /\ lru \cap batch = {}
    /\ inUse \cap free = {} /\ inUse \cap batch = {} /\ free \cap batch = {}
    /\ \A e \in free : refs[e] = 0

\* INVARIANT: Ref, Unref, insertions and evictions keep the books of the shard:
\* every count and every list is what the users of the lines make of it.
ShardSound == ShardTypeOK /\ RefsExact /\ LinesAccounted

\* A shard has a line for every page in use, and enough for the eviction to
\* work on.
EnoughLines == Cardinality(Line) >= Cardinality(Client) * MaxHeld + Trigger

\* INVARIANT: with enough lines neither an insertion nor the eviction takes
\* the dummy head of a list for a line: the insertion finds a free line or
\* one to evict, and lru_ is as long as the batch to be cut from it.
ListsSuffice ==
    EnoughLines =>
        /\ \A t \in Client : call[t] = "insert" /\ Unlatched => free \cup lru # {}
        /\ batch = {} /\ Unlatched => Cardinality(lru) >= RecycleNum(Cardinality(free))
=============================================================================
