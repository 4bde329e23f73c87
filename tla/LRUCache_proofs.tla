--------------------------- MODULE LRUCache_proofs ---------------------------
(***************************************************************************)
(* The cache shard for every number of threads, pages and lines, as long   *)
(* as no two threads use the same page at a time.  Then the window between *)
(* a change of the count and the move of the line is harmless: whatever    *)
(* has the line pinned is the call itself.                                 *)
(***************************************************************************)
EXTENDS LRUCache, TLAPS

\* No two threads use the same page.
Disjoint == \A t, u \in Client : t # u => Access[t] \cap Access[u] = {}

(***************************************************************************)
(* The inductive invariant.                                                *)
(***************************************************************************)
Mapped(e) == inCache[e] /\ key[e] \in Key /\ table[key[e]] = e

\* A call that has changed a count owns the line it has still to move, and
\* the page a thread is about to insert is not in the table yet.
CallsOwn ==
    \A t \in Client :
        /\ call[t] = "insert" => want[t] \in Access[t] /\ table[want[t]] = NoLine
        /\ call[t] = "ref" => line[t] \in lru /\ refs[line[t]] = 2 /\ key[line[t]] \in Access[t]
        /\ call[t] = "unref" => line[t] \in inUse /\ refs[line[t]] = 1 /\ key[line[t]] \in Access[t]

HeldOwn ==
    \A t \in Client : \A e \in held[t] :
        e \in inUse /\ refs[e] = 2 /\ key[e] \in Access[t]

LruLines ==
    \A e \in lru :
        /\ Mapped(e)
        /\ refs[e] = 1 \/ \E t \in Client : call[t] = "ref" /\ line[t] = e

InUseLines ==
    \A e \in inUse :
        /\ Mapped(e)
        /\ \E t \in Client : e \in held[t] \/ (call[t] = "unref" /\ line[t] = e)

TableLines ==
    \A k \in Key : table[k] # NoLine => table[k] \in lru \cup inUse /\ key[table[k]] = k

LRUInv ==
    /\ ShardTypeOK
    /\ LinesAccounted
    /\ CallsOwn
    /\ HeldOwn
    /\ LruLines
    /\ InUseLines
    /\ TableLines

\* The first step: the shard that init() creates.
LEMMA ShardInitially == ShardInit => LRUInv
BY AccessAssumption, NoneAssumption
DEF ShardInit, LRUInv, ShardTypeOK, PC, LinesAccounted, CallsOwn, HeldOwn, LruLines, InUseLines,
    TableLines

\* A hit or miss of Lookup: the count changes, the line stays where it is.
LEMMA LookupPreserves ==
    ASSUME Disjoint, LRUInv, NEW t \in Client, NEW k \in Key, Lookup(t, k)
    PROVE  LRUInv'
<1> USE AccessAssumption, NoneAssumption DEF LRUInv, listVars
<1> DEFINE e == table[k]
<1>1. CASE e = NoLine
  <2>1. /\ Goto(t, "insert", k, NoLine)
        /\ k \in Access[t]
        /\ UNCHANGED <<refs, held, key, inCache, table, lru, inUse, free, batch>>
    BY <1>1 DEF Lookup
  <2>2. call[t] = "idle"
    BY DEF Lookup
  <2>3. ShardTypeOK'
    BY <2>1 DEF ShardTypeOK, PC, Goto
  <2>4. CallsOwn'
    BY <1>1, <2>1 DEF CallsOwn, Goto, ShardTypeOK
  <2>5. LruLines' /\ InUseLines'
    BY <2>1, <2>2 DEF LruLines, InUseLines, Mapped, Goto, ShardTypeOK
  <2> QED
    BY <2>1, <2>3, <2>4, <2>5 DEF LinesAccounted, HeldOwn, TableLines
<1>2. CASE e # NoLine
  <2>1. e \in Line /\ key[e] = k /\ k \in Access[t] /\ call[t] = "idle" /\ e \notin held[t]
    BY <1>2 DEF Lookup, TableLines, ShardTypeOK
  <2>2. e \in lru
    BY <1>2, <2>1 DEF TableLines, InUseLines, CallsOwn, HeldOwn, Disjoint
  <2>3. refs[e] = 1 /\ inCache[e]
    BY <2>1, <2>2 DEF LruLines, Mapped, CallsOwn, Disjoint
  <2>4. /\ refs' = [refs EXCEPT ![e] = 2]
        /\ Goto(t, "ref", k, e)
        /\ UNCHANGED <<held, key, inCache, table, lru, inUse, free, batch>>
    BY <1>2, <2>3 DEF Lookup, RefMoves
  <2>5. e \notin inUse /\ e \notin free
    BY <2>2 DEF LinesAccounted
  <2>6. ShardTypeOK'
    BY <2>1, <2>4 DEF ShardTypeOK, PC, Goto
  <2>7. LinesAccounted'
    BY <2>4, <2>5 DEF LinesAccounted, ShardTypeOK
  <2>8. CallsOwn'
    BY <2>1, <2>2, <2>3, <2>4, <2>5 DEF CallsOwn, Goto, ShardTypeOK
  <2>9. HeldOwn'
    BY <2>1, <2>4, <2>5 DEF HeldOwn, ShardTypeOK
  <2>10. LruLines' /\ InUseLines'
    BY <2>1, <2>4 DEF LruLines, InUseLines, Mapped, Goto, ShardTypeOK
  <2> QED
    BY <2>4, <2>6, <2>7, <2>8, <2>9, <2>10 DEF TableLines
<1> QED
  BY <1>1, <1>2

\* The second half of Ref moves the line its call owns to in_use_.
LEMMA RefMovePreserves ==
    ASSUME Disjoint, LRUInv, NEW t \in Client, RefMove(t)
    PROVE  LRUInv'
<1> USE AccessAssumption, NoneAssumption DEF LRUInv, RefMove, ToInUse, Goto, lineVars
<1>1. ShardTypeOK'
  BY DEF ShardTypeOK, PC, CallsOwn
<1>2. LinesAccounted'
  BY DEF LinesAccounted, ShardTypeOK, CallsOwn
<1>3. CallsOwn'
  BY DEF CallsOwn, ShardTypeOK, Disjoint
<1>4. HeldOwn'
  BY DEF HeldOwn, CallsOwn, ShardTypeOK
<1>5. LruLines' /\ InUseLines'
  BY DEF LruLines, InUseLines, Mapped, CallsOwn, ShardTypeOK
<1>6. TableLines'
  BY DEF TableLines, CallsOwn
<1> QED
  BY <1>1, <1>2, <1>3, <1>4, <1>5, <1>6

\* Release gives up the only reference besides the table's.
LEMMA ReleasePreserves ==
    ASSUME Disjoint, LRUInv, NEW t \in Client, NEW e \in Line, Release(t, e)
    PROVE  LRUInv'
<1> USE AccessAssumption, NoneAssumption DEF LRUInv, listVars
<1>1. e \in inUse /\ refs[e] = 2 /\ key[e] \in Access[t] /\ e \in held[t] /\ call[t] = "idle"
  BY DEF Release, HeldOwn
<1>2. inCache[e] /\ e \notin lru /\ e \notin free
  BY <1>1 DEF InUseLines, Mapped, LinesAccounted
<1>3. /\ refs' = [refs EXCEPT ![e] = 1]
      /\ held' = [held EXCEPT ![t] = @ \ {e}]
      /\ Goto(t, "unref", NoKey, e)
      /\ UNCHANGED <<key, inCache, table, lru, inUse, free, batch>>
  BY <1>1, <1>2 DEF Release, UnrefMoves
<1>4. \A u \in Client : u # t => e \notin held[u] /\ ~ (call[u] = "unref" /\ line[u] = e)
  BY <1>1 DEF HeldOwn, CallsOwn, Disjoint
<1>5. ShardTypeOK'
  BY <1>3 DEF ShardTypeOK, PC, Goto
<1>6. LinesAccounted'
  BY <1>2, <1>3 DEF LinesAccounted, ShardTypeOK
<1>7. CallsOwn'
  BY <1>1, <1>2, <1>3, <1>4 DEF CallsOwn, Goto, ShardTypeOK
<1>8. HeldOwn'
  BY <1>3, <1>4 DEF HeldOwn, ShardTypeOK
<1>9. LruLines'
  BY <1>1, <1>2, <1>3 DEF LruLines, Mapped, Goto, ShardTypeOK
<1>10. InUseLines'
  BY <1>1, <1>3 DEF InUseLines, Mapped, Goto, ShardTypeOK
<1> QED
  BY <1>3, <1>5, <1>6, <1>7, <1>8, <1>9, <1>10 DEF TableLines

\* The second half of Unref moves the line its call owns to lru_.
LEMMA UnrefMovePreserves ==
    ASSUME Disjoint, LRUInv, NEW t \in Client, UnrefMove(t)
    PROVE  LRUInv'
<1> USE AccessAssumption, NoneAssumption DEF LRUInv, UnrefMove, ToLru, Goto, lineVars
<1>1. ShardTypeOK'
  BY DEF ShardTypeOK, PC, CallsOwn
<1>2. LinesAccounted'
  BY DEF LinesAccounted, CallsOwn
<1>3. CallsOwn'
  BY DEF CallsOwn, ShardTypeOK, Disjoint
<1>4. HeldOwn'
  BY DEF HeldOwn, CallsOwn
<1>5. LruLines' /\ InUseLines'
  BY DEF LruLines, InUseLines, Mapped, CallsOwn, ShardTypeOK
<1>6. TableLines'
  BY DEF TableLines, CallsOwn
<1> QED
  BY <1>1, <1>2, <1>3, <1>4, <1>5, <1>6

\* An insertion that takes a free line.
LEMMA InsertFreePreserves ==
    ASSUME Disjoint, LRUInv, NEW t \in Client, NEW e \in Line, InsertFree(t, e)
    PROVE  LRUInv'
<1> USE AccessAssumption, NoneAssumption DEF LRUInv
<1>1. /\ call[t] = "insert"
      /\ want[t] \in Access[t] /\ want[t] \in Key /\ table[want[t]] = NoLine
      /\ e \in free /\ e \notin lru /\ e \notin inUse
  BY DEF InsertFree, CallsOwn, LinesAccounted
<1>2. /\ refs' = [refs EXCEPT ![e] = 2]
      /\ key' = [key EXCEPT ![e] = want[t]]
      /\ inCache' = [inCache EXCEPT ![e] = TRUE]
      /\ inUse' = inUse \cup {e}
      /\ held' = [held EXCEPT ![t] = @ \cup {e}]
      /\ Goto(t, "idle", NoKey, NoLine)
      /\ table' = [table EXCEPT ![want[t]] = e]
      /\ free' = free \ {e}
      /\ UNCHANGED <<lru, batch>>
  BY DEF InsertFree, Install
<1>3. ShardTypeOK'
  <2>1. inCache' \in [Line -> BOOLEAN]
    BY <1>2 DEF ShardTypeOK
  <2>2. table' \in [Key -> Line \cup {NoLine}]
    BY <1>1, <1>2 DEF ShardTypeOK
  <2> QED
    BY <1>1, <1>2, <2>1, <2>2 DEF ShardTypeOK, PC, Goto
<1>4. LinesAccounted'
  BY <1>1, <1>2 DEF LinesAccounted, ShardTypeOK
<1>5. \A u \in Client : u # t /\ call[u] = "insert" => want[u] # want[t]
  BY <1>1 DEF CallsOwn, Disjoint
<1>6. \A u \in Client : e \notin held[u] /\ ~ (call[u] \in {"ref", "unref"} /\ line[u] = e)
  BY <1>1 DEF HeldOwn, CallsOwn, LinesAccounted
<1>7. CallsOwn'
  BY <1>1, <1>2, <1>5, <1>6 DEF CallsOwn, Goto, ShardTypeOK
<1>8. HeldOwn'
  BY <1>1, <1>2, <1>6 DEF HeldOwn, ShardTypeOK
<1>9. \A f \in lru \cup inUse : f # e => key[f] # want[t]
  BY <1>1 DEF LruLines, InUseLines, Mapped, ShardTypeOK
<1>10. \A f \in lru \cup inUse : f # e /\ Mapped(f) => Mapped(f)'
  BY <1>1, <1>2, <1>9 DEF Mapped, ShardTypeOK
<1>11. Mapped(e)'
  BY <1>1, <1>2 DEF Mapped, ShardTypeOK
<1>12. LruLines'
  BY <1>1, <1>2, <1>10 DEF LruLines, Goto, ShardTypeOK
<1>13. InUseLines'
  <2> SUFFICES ASSUME NEW f \in inUse'
               PROVE  /\ Mapped(f)'
                      /\ \E u \in Client : f \in held'[u] \/ (call'[u] = "unref" /\ line'[u] = f)
    BY DEF InUseLines
  <2>1. CASE f = e
    BY <1>2, <1>11, <2>1 DEF ShardTypeOK
  <2>2. CASE f # e
    <3>1. f \in inUse
      BY <1>2, <2>2
    <3>2. PICK u \in Client : f \in held[u] \/ (call[u] = "unref" /\ line[u] = f)
      BY <3>1 DEF InUseLines
    <3>3. f \in held'[u] \/ (call'[u] = "unref" /\ line'[u] = f)
      BY <1>1, <1>2, <3>2 DEF Goto, ShardTypeOK
    <3> QED
      BY <1>10, <2>2, <3>1, <3>3 DEF InUseLines
  <2> QED
    BY <2>1, <2>2
<1>14. TableLines'
  BY <1>1, <1>2 DEF TableLines, ShardTypeOK
<1> QED
  BY <1>3, <1>4, <1>7, <1>8, <1>12, <1>13, <1>14

\* An insertion that evicts a line of lru_ on the spot.
LEMMA InsertEvictPreserves ==
    ASSUME Disjoint, LRUInv, NEW t \in Client, NEW e \in Line, InsertEvict(t, e)
    PROVE  LRUInv'
<1> USE AccessAssumption, NoneAssumption DEF LRUInv
<1>1. /\ call[t] = "insert" /\ Unlatched
      /\ want[t] \in Access[t] /\ want[t] \in Key /\ table[want[t]] = NoLine
      /\ e \in lru /\ e \notin inUse /\ e \notin free /\ Mapped(e)
  BY DEF InsertEvict, CallsOwn, LinesAccounted, LruLines
<1>2. /\ refs' = [refs EXCEPT ![e] = 2]
      /\ key' = [key EXCEPT ![e] = want[t]]
      /\ inCache' = [inCache EXCEPT ![e] = TRUE]
      /\ inUse' = inUse \cup {e}
      /\ held' = [held EXCEPT ![t] = @ \cup {e}]
      /\ Goto(t, "idle", NoKey, NoLine)
      /\ table' = [Unmapped(e) EXCEPT ![want[t]] = e]
      /\ lru' = lru \ {e}
      /\ UNCHANGED <<free, batch>>
  BY DEF InsertEvict, Install
<1>3. ShardTypeOK'
  <2>1. inCache' \in [Line -> BOOLEAN]
    BY <1>2 DEF ShardTypeOK
  <2>2. table' \in [Key -> Line \cup {NoLine}]
    BY <1>1, <1>2 DEF ShardTypeOK, Unmapped
  <2> QED
    BY <1>1, <1>2, <2>1, <2>2 DEF ShardTypeOK, PC, Goto
<1>4. LinesAccounted'
  BY <1>1, <1>2 DEF LinesAccounted, ShardTypeOK
<1>5. \A u \in Client : u # t /\ call[u] = "insert" => want[u] # want[t]
  BY <1>1 DEF CallsOwn, Disjoint
<1>6. \A u \in Client : e \notin held[u] /\ ~ (call[u] \in {"ref", "unref"} /\ line[u] = e)
  BY <1>1 DEF HeldOwn, CallsOwn, LinesAccounted, Unlatched
<1>7. CallsOwn'
  BY <1>1, <1>2, <1>5, <1>6 DEF CallsOwn, Goto, ShardTypeOK, Unmapped
<1>8. HeldOwn'
  BY <1>1, <1>2, <1>6 DEF HeldOwn, ShardTypeOK
<1>9. \A f \in lru \cup inUse : f # e => key[f] # want[t] /\ key[f] # key[e]
  BY <1>1 DEF LruLines, InUseLines, Mapped, ShardTypeOK
<1>10. \A f \in lru \cup inUse : f # e /\ Mapped(f) => Mapped(f)'
  BY <1>1, <1>2, <1>9 DEF Mapped, ShardTypeOK, Unmapped
<1>11. Mapped(e)'
  BY <1>1, <1>2 DEF Mapped, ShardTypeOK, Unmapped
<1>12. LruLines'
  BY <1>1, <1>2, <1>10 DEF LruLines, Goto, ShardTypeOK
<1>13. InUseLines'
  <2> SUFFICES ASSUME NEW f \in inUse'
               PROVE  /\ Mapped(f)'
                      /\ \E u \in Client : f \in held'[u] \/ (call'[u] = "unref" /\ line'[u] = f)
    BY DEF InUseLines
  <2>1. CASE f = e
    BY <1>2, <1>11, <2>1 DEF ShardTypeOK
  <2>2. CASE f # e
    <3>1. f \in inUse
      BY <1>2, <2>2
    <3>2. PICK u \in Client : f \in held[u] \/ (call[u] = "unref" /\ line[u] = f)
      BY <3>1 DEF InUseLines
    <3>3. f \in held'[u] \/ (call'[u] = "unref" /\ line'[u] = f)
      BY <1>1, <1>2, <3>2 DEF Goto, ShardTypeOK
    <3> QED
      BY <1>10, <2>2, <3>1, <3>3 DEF InUseLines
  <2> QED
    BY <2>1, <2>2
<1>14. TableLines'
  BY <1>1, <1>2 DEF TableLines, ShardTypeOK, Unmapped
<1> QED
  BY <1>3, <1>4, <1>7, <1>8, <1>12, <1>13, <1>14

\* The eviction takes its batch from lru_ and from the table.
LEMMA EvictBatchPreserves ==
    ASSUME Disjoint, LRUInv, NEW S \in SUBSET lru, EvictBatch(S)
    PROVE  LRUInv'
<1> USE AccessAssumption, NoneAssumption DEF LRUInv, EvictBatch, callVars
<1>1. ShardTypeOK'
  BY DEF ShardTypeOK
<1>2. LinesAccounted'
  BY DEF LinesAccounted
<1>3. CallsOwn'
  BY DEF CallsOwn, Unlatched, ShardTypeOK
<1>4. HeldOwn'
  BY DEF HeldOwn
<1>5. LruLines'
  BY DEF LruLines, Mapped, ShardTypeOK
<1>6. InUseLines'
  BY DEF InUseLines, Mapped, LinesAccounted, ShardTypeOK
<1>7. TableLines'
  BY DEF TableLines, ShardTypeOK
<1> QED
  BY <1>1, <1>2, <1>3, <1>4, <1>5, <1>6, <1>7

\* A page of the batch is given back.
LEMMA RetirePreserves ==
    ASSUME Disjoint, LRUInv, NEW e \in Line, Retire(e)
    PROVE  LRUInv'
<1> USE AccessAssumption, NoneAssumption DEF LRUInv, Retire, listVars, callVars
<1>1. e \notin lru /\ e \notin inUse /\ e \notin free
  BY DEF LinesAccounted
<1>2. ShardTypeOK'
  BY DEF ShardTypeOK
<1>3. LinesAccounted'
  BY <1>1 DEF LinesAccounted, ShardTypeOK
<1>4. CallsOwn' /\ HeldOwn'
  BY <1>1 DEF CallsOwn, HeldOwn, ShardTypeOK
<1>5. LruLines' /\ InUseLines'
  BY <1>1 DEF LruLines, InUseLines, Mapped, ShardTypeOK
<1> QED
  BY <1>2, <1>3, <1>4, <1>5 DEF TableLines

\* The batch becomes free.
LEMMA RefillPreserves ==
    ASSUME Disjoint, LRUInv, Refill
    PROVE  LRUInv'
<1> USE DEF LRUInv, Refill, lineVars, callVars
<1>1. ShardTypeOK' /\ LinesAccounted'
  BY DEF ShardTypeOK, LinesAccounted, Retired
<1>2. CallsOwn' /\ HeldOwn' /\ TableLines'
  BY DEF CallsOwn, HeldOwn, TableLines
<1>3. LruLines' /\ InUseLines'
  BY DEF LruLines, InUseLines, Mapped
<1> QED
  BY <1>1, <1>2, <1>3

\* Threads on pages of their own never find that another inserted their page.
LEMMA InsertHitImpossible ==
    ASSUME LRUInv, NEW t \in Client
    PROVE  ~ InsertHit(t)
BY DEF LRUInv, InsertHit, CallsOwn

\* Every step of the shard keeps the invariant.
LEMMA ShardStep ==
    ASSUME Disjoint, LRUInv, [ShardNext]_shardVars
    PROVE  LRUInv'
<1>1. CASE UNCHANGED shardVars
  BY <1>1 DEF shardVars, lineVars, listVars, callVars, LRUInv, ShardTypeOK, LinesAccounted, CallsOwn,
              HeldOwn, LruLines, InUseLines, TableLines, Mapped
<1>2. CASE EvictorStep
  BY <1>2, EvictBatchPreserves, RetirePreserves, RefillPreserves DEF EvictorStep
<1>3. ASSUME NEW t \in Client, ThreadStep(t)
      PROVE  LRUInv'
  BY <1>3, LookupPreserves, RefMovePreserves, ReleasePreserves, UnrefMovePreserves,
     InsertHitImpossible, InsertFreePreserves, InsertEvictPreserves DEF ThreadStep
<1> QED
  BY <1>1, <1>2, <1>3 DEF ShardNext

\* Whatever the numbers of threads, pages and lines: while threads use pages
\* of their own, a handle stays its page's entry until it is released, lru_
\* and in_use_ tell unreferenced lines from the others, and no line is lost.
THEOREM ShardSafe ==
    ASSUME Disjoint
    PROVE  ShardSpec => [](ShardTypeOK /\ HeldMapped /\ LruUnreferenced /\ LinesAccounted)
<1>1. LRUInv => HeldMapped
  BY DEF LRUInv, HeldMapped, HeldOwn, InUseLines, Mapped
<1>2. LRUInv => LruUnreferenced
  <2> SUFFICES ASSUME LRUInv, Unlatched
               PROVE  /\ \A e \in lru : refs[e] = 1 /\ inCache[e]
                      /\ \A e \in inUse : refs[e] >= 2 /\ inCache[e]
    BY DEF LruUnreferenced
  <2> QED
    BY DEF LRUInv, LruLines, InUseLines, HeldOwn, Mapped, Unlatched
<1>3. LRUInv => ShardTypeOK /\ LinesAccounted
  BY DEF LRUInv
<1>4. LRUInv /\ [ShardNext]_shardVars => LRUInv'
  BY ShardStep
<1> QED
  BY <1>1, <1>2, <1>3, <1>4, ShardInitially, PTL DEF ShardSpec
=============================================================================
