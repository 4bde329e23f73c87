----------------------------- MODULE BLinkTree -----------------------------
(***************************************************************************)
(* The concurrent B-link tree of btr/Btr.cpp: threads of several compute   *)
(* nodes insert, search and scan, every page access under the page's SELCC *)
(* latch, so a page access is one step; what a thread keeps across steps   *)
(* is what the code keeps across latches: its path_stack, the root pointer *)
(* it read, the split it still has to post to the parent.  Each node       *)
(* caches the root pointer under root_mtx; the index table on memory node  *)
(* 1 holds the authoritative one, and a new root is installed under the    *)
(* global tree lock.  `copy' is the page a replica holds that replays the  *)
(* redo records in order.                                                  *)
(***************************************************************************)
EXTENDS BLinkPage, FiniteSets

CONSTANTS Threads, Nodes,
          NodeOf(_),        \* the compute node a thread runs on
          WaitsFor(_),      \* the loaders that finish before the thread starts
          Scripts,          \* the calls each thread makes, in order: one of these
          RetryLimit,       \* nested_retry_counter's limit, 4 in the code
          MaxLevel          \* bound on the height, kMaxLevelOfTree in the code

VARIABLES page,       \* the pages in remote memory; an address is an index
          copy,       \* the replica's pages
          indexRoot,  \* the tree's entry of the global index table
          treeLock,   \* the tree's entry of the lock table: held by a thread, or Null
          gRoot,      \* per node: g_root_ptr, Null when invalidated
          cached,     \* per node: the page of cached_root_page_handle
          height,     \* per node: tree_height
          th,         \* per thread: the call in progress
          after,      \* per thread: how it goes on once the root is invalidated
          todo,       \* per thread: the calls to make
          done,       \* keys whose insert returned
          missed      \* keys a search or scan did not return although present before

btVars == <<page, copy, indexRoot, treeLock, gRoot, cached, height, th, after,
            todo, done, missed>>

Levels  == 0 .. MaxLevel + 1
NoPath  == [l \in Levels |-> Null]
Nobody  == "nobody"
Idle    == [pc |-> "idle", goal |-> "none", key |-> Lowest, p |-> Null, level |-> 0,
            isroot |-> FALSE, atroot |-> FALSE, root |-> Null, path |-> NoPath,
            turns |-> 0, up |-> Record(Lowest, Null), target |-> 0, logged |-> TRUE,
            hold |-> "none", known |-> {}, got |-> << >>]

(***************************************************************************)
(* Btr::Btr on node 0 creates the empty root leaf and enters it into the   *)
(* index table; the other nodes fetch it.                                  *)
(***************************************************************************)
BtInit ==
    /\ page = <<EmptyPage(0)>>
    /\ copy = page
    /\ indexRoot = 1
    /\ treeLock = Nobody
    /\ gRoot = [n \in Nodes |-> 1]
    /\ cached = [n \in Nodes |-> 1]
    /\ height = [n \in Nodes |-> 0]
    /\ th = [t \in Threads |-> Idle]
    /\ after = [t \in Threads |-> Idle]
    /\ todo \in Scripts
    /\ done = {}
    /\ missed = {}

-----------------------------------------------------------------------------
(* Who holds what: a thread keeps a page latch across a step only while it *)
(* waits for root_mtx, and root_mtx only while it reads the root page or   *)
(* installs a new root.                                                    *)

LatchedX(a) == \E t \in Threads : th[t].p = a /\ th[t].hold = "exclusive"
LatchedS(a) == \E t \in Threads : th[t].p = a /\ th[t].hold = "shared"
CanRead(a)  == ~LatchedX(a)
CanWrite(a) == ~LatchedX(a) /\ ~LatchedS(a)

RootReaders(n) == {t \in Threads : NodeOf(t) = n /\ th[t].pc = "rootpage"}
RootWriters(n) == {t \in Threads : NodeOf(t) = n /\ th[t].pc \in {"globallock", "newroot"}}
RootShared(n)    == RootWriters(n) = {}
RootExclusive(n) == RootWriters(n) = {} /\ RootReaders(n) = {}

(* get_root_ptr, refetch_rootnode: the root of node n after the call.      *)
Fetched(n) ==
    IF cached[n] = indexRoot THEN [root |-> indexRoot, height |-> height[n]]
    ELSE [root |-> indexRoot, height |-> page[indexRoot].level]

RootOf(n) == IF gRoot[n] # Null THEN [root |-> gRoot[n], height |-> height[n]]
                                ELSE Fetched(n)

Adopt(n, r, fetched) ==
    /\ gRoot'  = [gRoot EXCEPT ![n] = r.root]
    /\ cached' = IF fetched THEN [cached EXCEPT ![n] = r.root] ELSE cached
    /\ height' = [height EXCEPT ![n] = r.height]

rootVars == <<gRoot, cached, height>>

-----------------------------------------------------------------------------
(* How a call goes on: each operator gives the thread's next state.        *)

FromRoot(s)  == [s EXCEPT !.pc = "root"]
Enter(s, p, level, isroot) ==
    [s EXCEPT !.pc = "enter", !.p = p, !.level = level, !.isroot = isroot,
              !.atroot = isroot]

\* Mutant: a split whose root has meanwhile changed is not posted.
DescendNot(s, target, logged) == Idle

\* insert_internal(k, v, target): a fresh descent to the target level.
Descend(s, target, logged) ==
    FromRoot([s EXCEPT !.goal = "parent", !.target = target, !.isroot = TRUE,
                       !.logged = @ /\ logged])

\* internal_page_search returned false to its caller.
Failed(s) ==
    LET up == s.path[s.level + 1]
    IN  CASE s.goal = "refind" -> Descend(s, s.target, TRUE)
          [] s.goal # "refind" /\ (s.isroot \/ up = Null) ->
               FromRoot(IF s.goal = "insert" THEN [s EXCEPT !.isroot = TRUE] ELSE s)
          [] OTHER -> Enter(s, up, s.level + 1,
                            s.goal = "insert" /\ up = s.root)

(* The bounds of a page only ever shrink from above and no page is freed,   *)
(* so the tests of the code for a key below the lowest key do not fire.    *)

\* internal_page_search returned true with the child to go to.
Found(s, child) ==
    LET leaf == s.level = 0
        d == [s EXCEPT !.isroot = FALSE, !.atroot = FALSE, !.turns = IF leaf THEN @ ELSE 0,
                       !.p = IF leaf THEN @ ELSE child,
                       !.level = IF leaf THEN 0 ELSE @ - 1]
    IN  CASE s.goal = "refind" -> [d EXCEPT !.pc = "store", !.goal = "post"]
          [] s.goal = "parent" /\ s.level > s.target ->
               [d EXCEPT !.pc = IF d.level = s.target THEN "store" ELSE "enter"]
          [] s.goal = "parent" /\ s.level = s.target ->
               [d EXCEPT !.pc = "store", !.p = s.p, !.level = s.level]
          [] OTHER -> [d EXCEPT !.pc = IF d.level = 0 THEN "leaf" ELSE "enter"]

\* The key is not in the page's range: on to the sibling, or give up.
Unturned(s) == [s EXCEPT !.turns = 0]
TurnedOr(s, sib, pc, failed) ==
    IF s.turns <= RetryLimit
    THEN [s EXCEPT !.pc = pc, !.p = sib, !.turns = @ + 1, !.atroot = FALSE]
    ELSE failed

\* insert, search, lower_bound after the leaf function returned false.
LeafFailed(s) ==
    IF s.path[1] # Null
    THEN Enter(s, s.path[1], 1, s.isroot \/ (s.goal = "insert" /\ s.path[1] = s.root))
    ELSE FromRoot(IF s.goal = "insert" THEN [s EXCEPT !.isroot = TRUE] ELSE s)

\* internal_page_store returned false, to re_insert or to insert_internal.
StoreFailed(s) ==
    LET up == s.path[s.level + 1]
    IN  CASE s.goal = "post" /\ up = Null -> Descend(s, s.level, FALSE)
          [] s.goal = "post" /\ up # Null ->
               Enter([s EXCEPT !.goal = "refind", !.target = s.level], up, s.level + 1, FALSE)
          [] s.goal = "parent" /\ up # Null -> Enter(s, up, s.level + 1, FALSE)
          [] OTHER -> FromRoot(s)

\* After a split at s.level: post the new sibling to the parent, or make a root.
Posting(s, k, sibling) ==
    LET d == [s EXCEPT !.goal = "post", !.up = Record(k, sibling), !.turns = 0]
        up == s.path[s.level + 1]
    IN  IF up = Null THEN [d EXCEPT !.pc = "rootlock"]
        ELSE [d EXCEPT !.pc = "store", !.p = up, !.level = @ + 1]

(* invalidate_root(p): taken under root_mtx, so the thread first waits for *)
(* it, keeping whatever page latch it holds.                               *)
ForgetFirst(t, s, hold, next) ==
    /\ th' = [th EXCEPT ![t] = [s EXCEPT !.pc = "forget", !.hold = hold]]
    /\ after' = [after EXCEPT ![t] = next]

GoOn(t, next) ==
    /\ th' = [th EXCEPT ![t] = next]
    /\ UNCHANGED after

Finish(s) == [Idle EXCEPT !.path = s.path, !.turns = s.turns]

\* The key a descent looks for: re_insert searches by the key of its own call.
KeyOf(s) ==
    CASE s.goal \in {"parent", "post"} -> s.up.key
      [] s.goal = "refind" -> IF s.target = 1 THEN s.key ELSE s.up.key
      [] OTHER -> s.key

-----------------------------------------------------------------------------
(* before_operation clears the path_stack; lower_bound does not call it.   *)
Begin(t) ==
    /\ th[t].pc = "idle"
    /\ todo[t] # << >>
    /\ \A u \in WaitsFor(t) : todo[u] = << >> /\ th[u].pc = "idle"
    /\ LET call == Head(todo[t])
       IN  GoOn(t, [th[t] EXCEPT !.pc = "root", !.goal = call.goal, !.key = call.key,
                                 !.isroot = TRUE, !.known = done, !.logged = TRUE,
                                 !.path = IF call.goal = "scan" THEN @ ELSE NoPath])
    /\ todo' = [todo EXCEPT ![t] = Tail(@)]
    /\ UNCHANGED <<page, copy, indexRoot, treeLock, rootVars, done, missed>>

\* get_root_ptr_protected: only an invalidated pointer is fetched, under root_mtx.
GetRoot(t) ==
    LET n == NodeOf(t)
        r == RootOf(n)
    IN  /\ th[t].pc = "root"
        /\ gRoot[n] = Null => RootExclusive(n)
        /\ Adopt(n, r, gRoot[n] = Null)
        /\ GoOn(t, [Enter(th[t], r.root, 0, th[t].isroot) EXCEPT
                      !.root = IF @ = Null THEN r.root ELSE @])
        /\ UNCHANGED <<page, copy, indexRoot, treeLock, todo, done, missed>>

(* internal_page_search(isroot): root_mtx shared, then the latch of the    *)
(* cached root page; a handle of another page sends the caller back.       *)
EnterRoot(t) ==
    /\ th[t].pc = "enter" /\ th[t].atroot
    /\ RootShared(NodeOf(t))
    /\ GoOn(t, IF cached[NodeOf(t)] = th[t].p THEN [th[t] EXCEPT !.pc = "rootpage"]
                                              ELSE Failed(th[t]))
    /\ UNCHANGED <<page, copy, indexRoot, treeLock, rootVars, todo, done, missed>>

(* What internal_page_search does with the latched page; `root' says that  *)
(* it came through the cached root handle.                                 *)
Look(t, root) ==
    LET n  == NodeOf(t)
        pg == page[th[t].p]
        s  == [th[t] EXCEPT !.level = pg.level, !.path[pg.level] = th[t].p]
        k  == KeyOf(s)
        top == root \/ s.path[pg.level + 1] = Null
        right == TurnedOr(s, pg.sib, "enter", Failed(Unturned(s)))
    IN  /\ CASE k >= pg.high /\ pg.level = 0 ->
                  ForgetFirst(t, s, "none", Failed(s)) /\ UNCHANGED gRoot
             [] k >= pg.high /\ pg.level # 0 /\ root ->
                  GoOn(t, right) /\ gRoot' = [gRoot EXCEPT ![n] = Null]
             [] k >= pg.high /\ pg.level # 0 /\ ~root /\ top ->
                  ForgetFirst(t, s, "none", right) /\ UNCHANGED gRoot
             [] k >= pg.high /\ pg.level # 0 /\ ~top ->
                  GoOn(t, right) /\ UNCHANGED gRoot
             [] k < pg.high /\ s.goal = "parent" /\ pg.level < s.target ->
                  ForgetFirst(t, s, "all", FromRoot([s EXCEPT !.isroot = FALSE]))
                    /\ UNCHANGED gRoot
             [] OTHER ->
                  GoOn(t, Found(s, IF pg.level = 0 THEN s.p ELSE ChildOf(pg, k)))
                    /\ UNCHANGED gRoot
        /\ UNCHANGED <<page, copy, indexRoot, treeLock, cached, height, todo, done, missed>>

ReadRoot(t) ==
    /\ th[t].pc = "rootpage" /\ CanRead(th[t].p)
    /\ Look(t, TRUE)

ReadInternal(t) ==
    /\ th[t].pc = "enter" /\ ~th[t].atroot /\ CanRead(th[t].p)
    /\ Look(t, FALSE)

\* invalidate_root: only the page that is still the node's root is forgotten.
Forget(t) ==
    LET n == NodeOf(t)
        s == th[t]
    IN  /\ s.pc = "forget" /\ RootExclusive(n)
        /\ gRoot' = IF s.hold = "all" \/ gRoot[n] = s.p
                    THEN [gRoot EXCEPT ![n] = Null] ELSE gRoot
        /\ GoOn(t, after[t])
        /\ UNCHANGED <<page, copy, indexRoot, treeLock, cached, height, todo, done, missed>>

-----------------------------------------------------------------------------
(* The leaf functions, once the latch is held.                             *)

\* The leaf does not reach up to k: forget a stale root, go to the sibling.
LeafTurn(t, s, hold) ==
    LET right == TurnedOr(s, page[s.p].sib, "leaf", LeafFailed(Unturned(s)))
    IN  /\ IF s.path[1] = Null THEN ForgetFirst(t, s, hold, right) ELSE GoOn(t, right)
        /\ UNCHANGED <<page, copy, done, missed>>

\* leaf_page_store: update in place, insert, or insert and split.
LeafStore(t) ==
    LET a  == th[t].p
        pg == page[a]
        k  == th[t].key
        s  == [th[t] EXCEPT !.path[0] = a]
        full == Stored(pg, k, t)
        new  == Len(page) + 1
        rep  == Replayed(copy[a], full.ver, StoreOps(pg, k, t))
    IN  /\ s.pc = "leaf" /\ s.goal = "insert" /\ CanWrite(a)
        /\ CASE k >= pg.high -> LeafTurn(t, s, "exclusive")
             [] k < pg.high /\ FoundIn(pg, k) ->
                  /\ page' = [page EXCEPT ![a].recs[Bisect(pg.recs, k)].val = t]
                  /\ GoOn(t, Finish(s)) /\ done' = done \cup {k}
                  /\ UNCHANGED <<copy, missed>>
             [] k < pg.high /\ ~FoundIn(pg, k) /\ ~NeedSplit(full) ->
                  /\ page' = [page EXCEPT ![a] = full]
                  /\ copy' = [copy EXCEPT ![a] = rep]
                  /\ GoOn(t, Finish(s)) /\ done' = done \cup {k}
                  /\ UNCHANGED missed
             [] OTHER ->
                  /\ page' = Append([page EXCEPT ![a] = LowerHalf(full, new)], UpperHalf(full))
                  /\ copy' = SplitCopies([copy EXCEPT ![a] = rep], a, full, new, TRUE)
                  /\ GoOn(t, Posting([s EXCEPT !.level = 0], SplitKey(full), new))
                  /\ UNCHANGED <<done, missed>>
        /\ UNCHANGED <<indexRoot, treeLock, rootVars, todo>>

\* Mutant: the search does not compare with the leaf's highest key.
LeafSearchHere(t) ==
    LET s  == [th[t] EXCEPT !.path[0] = th[t].p]
        pg == page[s.p]
    IN  /\ s.pc = "leaf" /\ s.goal = "search" /\ CanRead(s.p)
        /\ GoOn(t, Finish(s))
        /\ missed' = IF FoundIn(pg, s.key) THEN missed ELSE missed \cup ({s.key} \cap s.known)
        /\ UNCHANGED <<page, copy, done, indexRoot, treeLock, rootVars, todo>>

\* leaf_page_search: what a search that found no record had to find is noted.
LeafSearch(t) ==
    LET s  == [th[t] EXCEPT !.path[0] = th[t].p]
        pg == page[s.p]
    IN  /\ s.pc = "leaf" /\ s.goal = "search" /\ CanRead(s.p)
        /\ IF s.key >= pg.high THEN LeafTurn(t, s, "shared")
           ELSE /\ GoOn(t, Finish(s))
                /\ missed' = IF FoundIn(pg, s.key) THEN missed
                             ELSE missed \cup ({s.key} \cap s.known)
                /\ UNCHANGED <<page, copy, done>>
        /\ UNCHANGED <<indexRoot, treeLock, rootVars, todo>>

KeysFrom(pg, i) == [j \in 1 .. Len(pg.recs) - i + 1 |-> pg.recs[i + j - 1].key]

\* leaf_page_find: the iterator starts on the last record not above the key ...
LeafFind(t) ==
    LET s  == [th[t] EXCEPT !.path[0] = th[t].p]
        pg == page[s.p]
    IN  /\ s.pc = "leaf" /\ s.goal = "scan" /\ CanRead(s.p)
        /\ IF s.key >= pg.high THEN LeafTurn(t, s, "shared")
           ELSE /\ GoOn(t, [s EXCEPT !.pc = "scan", !.p = pg.sib,
                                     !.got = KeysFrom(pg, PositionOf(pg, s.key))])
                /\ UNCHANGED <<page, copy, done, missed>>
        /\ UNCHANGED <<indexRoot, treeLock, rootVars, todo>>

\* ... and iterator::Next gives up one leaf before it latches the sibling.
ScanNext(t) ==
    LET s == th[t]
        pg == page[s.p]
    IN  /\ s.pc = "scan"
        /\ s.p # Null => CanRead(s.p)
        /\ IF s.p # Null
           THEN /\ GoOn(t, [s EXCEPT !.p = pg.sib, !.got = @ \o KeysFrom(pg, 1)])
                /\ UNCHANGED missed
           ELSE /\ GoOn(t, Finish(s))
                /\ missed' = missed \cup {k \in s.known : k >= s.key /\ ~Contains(s.got, k)}
        /\ UNCHANGED <<page, copy, indexRoot, treeLock, rootVars, todo, done>>

-----------------------------------------------------------------------------
(* internal_page_store: post the new child; a page that is full splits in  *)
(* turn.                                                                   *)
InternalStore(t) ==
    LET n  == NodeOf(t)
        a  == th[t].p
        pg == page[a]
        s  == [th[t] EXCEPT !.path[pg.level] = a, !.level = pg.level]
        k  == s.up.key
        full  == Stored(pg, k, s.up.val)
        new   == Len(page) + 1
        right == TurnedOr(s, pg.sib, "store", StoreFailed(Unturned(s)))
        rep   == IF s.logged THEN Replayed(copy[a], full.ver, StoreOps(pg, k, s.up.val))
                             ELSE copy[a]
    IN  /\ th[t].pc = "store" /\ CanWrite(a)
        /\ CASE k >= pg.high ->
                  /\ IF pg.level = height[n] \/ s.path[pg.level + 1] = Null
                     THEN ForgetFirst(t, s, "none", right) ELSE GoOn(t, right)
                  /\ UNCHANGED <<page, copy, done>>
             [] k < pg.high /\ ~NeedSplit(full) ->
                  /\ page' = [page EXCEPT ![a] = full]
                  /\ copy' = [copy EXCEPT ![a] = rep]
                  /\ GoOn(t, Finish(s)) /\ done' = done \cup {s.key}
             [] OTHER ->
                  /\ page' = Append([page EXCEPT ![a] = LowerHalf(full, new)], UpperHalf(full))
                  /\ copy' = SplitCopies([copy EXCEPT ![a] = rep], a, full, new, s.logged)
                  /\ GoOn(t, Posting(s, SplitKey(full), new))
                  /\ UNCHANGED done
        /\ UNCHANGED <<indexRoot, treeLock, rootVars, todo, missed>>

(* The page that split has no parent on the path: under root_mtx, is it    *)
(* still the root of this node?                                            *)
IsTop(s, r) == s.path[s.level] = r.root /\ r.height = s.level

RootLock(t) ==
    LET n == NodeOf(t)
        s == th[t]
        r == RootOf(n)
    IN  /\ s.pc = "rootlock" /\ RootExclusive(n)
        /\ Adopt(n, r, gRoot[n] = Null)
        /\ GoOn(t, IF IsTop(s, r) THEN [s EXCEPT !.pc = "globallock"]
                                  ELSE Descend(s, s.level + 1, TRUE))
        /\ UNCHANGED <<page, copy, indexRoot, treeLock, todo, done, missed>>

\* Then, under the tree's global lock, is it still the root of the tree?
GlobalLock(t) ==
    LET n == NodeOf(t)
        s == th[t]
        r == Fetched(n)
    IN  /\ s.pc = "globallock" /\ treeLock = Nobody
        /\ Adopt(n, r, TRUE)
        /\ GoOn(t, IF IsTop(s, r) THEN [s EXCEPT !.pc = "newroot"]
                                  ELSE Descend(s, s.level + 1, TRUE))
        /\ treeLock' = IF IsTop(s, r) THEN t ELSE Nobody
        /\ UNCHANGED <<page, copy, indexRoot, todo, done, missed>>

\* update_new_root, and the release of both locks.
NewRoot(t) ==
    LET n   == NodeOf(t)
        s   == th[t]
        old == s.path[s.level]
        new == Len(page) + 1
        top == RootPage(old, s.up.key, s.up.val, s.level + 1)
    IN  /\ s.pc = "newroot"
        /\ page' = Append(page, top)
        /\ copy' = Append(copy, CreatedCopy(top, s.logged))
        /\ gRoot'  = [gRoot EXCEPT ![n] = new]
        /\ cached' = [cached EXCEPT ![n] = new]
        /\ height' = [height EXCEPT ![n] = s.level + 1]
        /\ indexRoot' = IF indexRoot = old THEN new ELSE indexRoot
        /\ treeLock' = Nobody
        /\ GoOn(t, Finish(s)) /\ done' = done \cup {s.key}
        /\ UNCHANGED <<todo, missed>>

BtStep(t) ==
    \/ Begin(t) \/ GetRoot(t) \/ EnterRoot(t) \/ ReadRoot(t) \/ ReadInternal(t)
    \/ Forget(t) \/ LeafStore(t) \/ LeafSearch(t) \/ LeafFind(t) \/ ScanNext(t)
    \/ InternalStore(t) \/ RootLock(t) \/ GlobalLock(t) \/ NewRoot(t)

BtNext == \E t \in Threads : BtStep(t)

-----------------------------------------------------------------------------
(* Properties.                                                             *)

Addresses == 1 .. Len(page)

\* Every variable holds a value of its type, and no page holds more than it may.
BtTypeOK ==
    /\ Len(copy) = Len(page)
    /\ \A a \in Addresses : /\ page[a].level \in 0 .. MaxLevel
                            /\ Len(page[a].recs) < Capacity(page[a])
                            /\ page[a].low < page[a].high
    /\ indexRoot \in Addresses
    /\ \A n \in Nodes : gRoot[n] \in {Null} \cup Addresses /\ cached[n] \in Addresses

(* The shape readers rely on (internal_page_search, leaf_page_search): on  *)
(* every level the pages cover the key space without gap or overlap along  *)
(* the sibling pointers, keys are sorted and inside the bounds, and every  *)
(* child pointer leads to the page of the level below that starts at its   *)
(* key.  It holds between any two steps, splits in progress included.      *)
BLinkShape ==
    \A a \in Addresses :
      LET pg == page[a]
          Starts(c, k) == page[c].level + 1 = pg.level /\ page[c].low = k
      IN  /\ \A i \in 1 .. Len(pg.recs) :
                /\ pg.recs[i].key \in pg.low .. pg.high - 1
                /\ i > 1 => pg.recs[i - 1].key < pg.recs[i].key
                /\ pg.level > 0 => Starts(pg.recs[i].val, pg.recs[i].key)
          /\ pg.level > 0 => Starts(pg.left, pg.low)
          /\ IF pg.sib = Null THEN pg.high = Highest
             ELSE page[pg.sib].low = pg.high /\ page[pg.sib].level = pg.level
          /\ Cardinality({b \in Addresses : page[b].level = pg.level /\ page[b].sib = a})
               = (IF pg.low = Lowest THEN 0 ELSE 1)

(* No insert is lost and no reader misses a key: a key whose insert        *)
(* returned is in the leaf that covers it, and no search or scan that      *)
(* started afterwards came back without it, whatever splits and root       *)
(* changes ran meanwhile (Btr::search, iterator::Next).                    *)
NothingMissed ==
    /\ missed = {}
    /\ \A k \in done : \E a \in Addresses : page[a].level = 0 /\ FoundIn(page[a], k)

(* There is one root: the index table points to the only page of the top   *)
(* level that starts the key space, and no node believes in a taller tree  *)
(* than the table shows; update_new_root runs under the tree lock for this.*)
OneRoot ==
    /\ \A a \in Addresses : page[a].level <= page[indexRoot].level
    /\ \A a \in Addresses :
         page[a].level = page[indexRoot].level => (page[a].low = Lowest <=> a = indexRoot)
    /\ \A n \in Nodes : height[n] <= page[indexRoot].level

(* Once every call has returned, every page below the root is the child of *)
(* exactly one page of the level above: no split was left unposted and     *)
(* none was posted twice (leaf_page_store, internal_page_store,            *)
(* insert_internal).                                                       *)
SplitsPosted ==
    (\A t \in Threads : th[t].pc = "idle") =>
      \A a \in Addresses \ {indexRoot} :
        Cardinality({b \in Addresses :
                       /\ page[b].level = page[a].level + 1
                       /\ \/ page[b].left = a
                          \/ \E i \in 1 .. Len(page[b].recs) : page[b].recs[i].val = a}) = 1

(* What every traversal and every split may rely on: the shape of the      *)
(* levels (BLinkShape), a single root (OneRoot), and after the calls of    *)
(* insert no page that its parent does not know (SplitsPosted).            *)
BLinkSound == BtTypeOK /\ BLinkShape /\ OneRoot /\ SplitsPosted

(* The redo records rebuild the index: a replica that replays them in      *)
(* order holds the same keys, bounds and child pointers at the same        *)
(* version as the page itself.  (The tuple address of a key that is        *)
(* inserted again is overwritten without a record, so it is left out.)     *)
Keys(pg) == IF pg.level = 0 THEN [pg EXCEPT !.recs = [i \in DOMAIN @ |-> @[i].key]] ELSE pg


(* "this function will make sure the insert will definitely success": some *)
(* thread can always go on while a call is unfinished.                     *)
InsertGoesOn ==
    (\E t \in Threads : th[t].pc # "idle" \/ todo[t] # << >>)
      => \E t \in Threads : ENABLED BtStep(t)
=============================================================================
