-------------------------------- MODULE Mvocc --------------------------------
(***************************************************************************)
(* The MVOCC transaction manager (TransactionManagerMVOCC.cpp): a page     *)
(* holds the newest version of a tuple, older ones are chained in the      *)
(* delta sections of the nodes that wrote the newer ones.  An access rolls *)
(* the tuple back to the snapshot; a commit latches, validates, draws a    *)
(* timestamp of its node and moves the old versions to its delta section.  *)
(*                                                                         *)
(* Every tuple has a page of its own here.  The delta section of a node is *)
(* a sequence with a head; DeltaRing has its bytes.                        *)
(***************************************************************************)
EXTENDS Snapshot

CONSTANTS
    MvTuples,    \* tuples, in address order
    NewTuples,   \* those that a transaction inserts
    MvPrograms   \* thread -> what its transactions may do

VARIABLES
    isolation,   \* SNAPSHOT_ISOLATION or SERIALIZABLE
    page,        \* tuple -> its newest version
    indexed,     \* the tuples the primary index knows
    delta,       \* node -> records of its delta section, in order
    head,        \* node -> records collected
    mvLatch,     \* tuple -> thread -> mode
    mvAt, mvProg,
    mvDone,      \* accesses of the program that are over
    acc,         \* access_list_
    rolled,      \* have_rolled_back
    plain,       \* plain_occ
    pure,        \* pure_read_txn
    commitTs,
    history,     \* committed updates: what they read
    versions     \* tuple -> the versions that replaced each other

txnVars == <<isolation, page, indexed, delta, head, mvLatch, mvAt, mvProg, mvDone,
             acc, rolled, plain, pure, commitTs, history, versions>>

mvVars == <<snapVars, txnVars>>

Never == 1000  \* UINT64_MAX, the timestamp of a tuple that is being inserted

NoDelta == <<0, 0>>

\* A version of a tuple: who wrote it, when, and the delta before it.
Version(val, wts, prev) == [val |-> val, wts |-> wts, prev |-> prev]

MvInit ==
    /\ SnapInit
    /\ isolation \in {"SNAPSHOT_ISOLATION", "SERIALIZABLE"}
    /\ page = [k \in MvTuples |-> Version(0, IF k \in NewTuples THEN Never ELSE 0, NoDelta)]
    /\ indexed = MvTuples \ NewTuples
    /\ delta = [n \in Nodes |-> <<>>]
    /\ head = [n \in Nodes |-> 0]
    /\ mvLatch = [k \in MvTuples |-> [t \in Threads |-> "none"]]
    /\ mvAt = [t \in Threads |-> "idle"]
    /\ mvProg = [t \in Threads |-> <<>>]
    /\ mvDone = [t \in Threads |-> 0]
    /\ acc = [t \in Threads |-> <<>>]
    /\ rolled = [t \in Threads |-> FALSE]
    /\ plain = [t \in Threads |-> FALSE]
    /\ pure = [t \in Threads |-> TRUE]
    /\ commitTs = [t \in Threads |-> 0]
    /\ history = {}
    /\ versions = [k \in MvTuples |-> <<0>>]

Shareable(k, t) == \A u \in Threads \ {t} : mvLatch[k][u] # "exclusive"
Lockable(k, t) == \A u \in Threads \ {t} : mvLatch[k][u] = "none"

IsReadAccess(a) == a.type \in {"READ_ONLY", "SCAN_READ"}

Current(t) == mvProg[t][mvDone[t] + 1]
LastAccess(t) == acc[t][Len(acc[t])]
WithoutLast(t) == [acc EXCEPT ![t] = SubSeq(@, 1, Len(@) - 1)]

\* The latches of a thread but one.
Unlatch(t, K) == [k \in MvTuples |-> IF k \in K THEN [mvLatch[k] EXCEPT ![t] = "none"] ELSE mvLatch[k]]
HeldBy(t) == {k \in MvTuples : mvLatch[k][t] # "none"}

MvStart(t) ==
    /\ mvAt[t] = "idle"
    /\ \E p \in MvPrograms[t] : mvProg' = [mvProg EXCEPT ![t] = p]
    /\ mvAt' = [mvAt EXCEPT ![t] = "running"]
    /\ UNCHANGED <<snapVars, isolation, page, indexed, delta, head, mvLatch, mvDone, acc,
                   rolled, plain, pure, commitTs, history, versions>>

Running(t) == mvAt[t] = "running" /\ mvDone[t] < Len(mvProg[t])

\* is_first_access_: GetSnapshot, in its two steps.
MvGetSnapshot(t) ==
    /\ Running(t) /\ Current(t).type # "INSERT_ONLY" /\ Current(t).k \in indexed
    /\ ReadSnapshot(t) \/ PinSnapshot(t)
    /\ UNCHANGED txnVars

\* SearchRecord when the index does not have the key: no record, no error.
MvNotFound(t) ==
    /\ Running(t) /\ Current(t).type # "INSERT_ONLY" /\ Current(t).k \notin indexed
    /\ mvDone' = [mvDone EXCEPT ![t] = @ + 1]
    /\ UNCHANGED <<snapVars, isolation, page, indexed, delta, head, mvLatch, mvAt, mvProg,
                   acc, rolled, plain, pure, commitTs, history, versions>>

\* The early aborts of an access that finds a newer version ts.
TooNew(t, a, ts) ==
    /\ ts > pin[t]
    /\ IF isolation = "SERIALIZABLE" THEN ~pure'[t] /\ rolled[t]
       ELSE a.type = "READ_WRITE"

\* Under SERIALIZABLE a transaction that has not rolled back goes on as OCC.
FallsBack(t, ts) ==
    isolation = "SERIALIZABLE" /\ ~pure'[t] /\ ~rolled[t] /\ ts > pin[t]

(***************************************************************************)
(* SelectRecordCC up to the loop: latch the page (a scan keeps one shared  *)
(* latch from access to access), copy the tuple, decide how to go on.      *)
(***************************************************************************)
MvSelect(t) ==
    /\ Running(t) /\ Current(t).type # "INSERT_ONLY" /\ Current(t).k \in indexed
    /\ pin[t] # 0
    /\ LET a == Current(t)
           k == a.k
       IN  /\ HeldBy(t) \subseteq {k}
           /\ IF IsReadAccess(a) THEN Shareable(k, t) ELSE Lockable(k, t)
           /\ pure' = [pure EXCEPT ![t] = @ /\ IsReadAccess(a)]
           /\ mvLatch' = [mvLatch EXCEPT ![k][t] =
                             IF IsReadAccess(a) THEN "shared" ELSE "exclusive"]
           /\ acc' = [acc EXCEPT ![t] =
                         Append(@, [k |-> k, type |-> a.type, local |-> page[k], checked |-> FALSE])]
           /\ seen' = Registered(t, page[k].wts)
           /\ plain' = [plain EXCEPT ![t] = @ \/ FallsBack(t, page[k].wts)]
           /\ mvAt' = [mvAt EXCEPT ![t] = IF TooNew(t, a, page[k].wts) THEN "abort" ELSE "rollback"]
    /\ UNCHANGED <<nextTs, drawn, pin, largest, gcVars, isolation, page, indexed, delta, head,
                   mvProg, mvDone, rolled, commitTs, history, versions>>

\* A scan that goes on in another page releases the one it kept.
MvScanMoves(t) ==
    /\ Running(t) /\ Current(t).type = "SCAN_READ" /\ Current(t).k \in indexed
    /\ HeldBy(t) \ {Current(t).k} # {}
    /\ mvLatch' = Unlatch(t, HeldBy(t))
    /\ UNCHANGED <<snapVars, isolation, page, indexed, delta, head, mvAt, mvProg, mvDone, acc,
                   rolled, plain, pure, commitTs, history, versions>>

RollsBack(t) == ~plain[t] /\ LastAccess(t).local.wts > pin[t]

\* The latch after an access: a scan keeps it.
AfterAccess(t) ==
    IF Current(t).type = "SCAN_READ" THEN mvLatch ELSE Unlatch(t, {Current(t).k})

\* One turn of the loop: replace the copy by the version before it, or find
\* that the tuple did not exist.
MvRollBack(t) ==
    /\ mvAt[t] = "rollback" /\ RollsBack(t)
    /\ rolled' = [rolled EXCEPT ![t] = TRUE]
    /\ LET prev == LastAccess(t).local.prev
       IN  \/ /\ prev = NoDelta
              /\ acc' = WithoutLast(t)
              /\ mvLatch' = AfterAccess(t)
              /\ mvDone' = [mvDone EXCEPT ![t] = @ + 1]
              /\ mvAt' = [mvAt EXCEPT ![t] = "running"]
           \/ /\ prev # NoDelta
              /\ acc' = [acc EXCEPT ![t][Len(acc[t])].local = delta[prev[1]][prev[2]].old]
              /\ UNCHANGED <<mvLatch, mvDone, mvAt>>
    /\ UNCHANGED <<snapVars, isolation, page, indexed, delta, head, mvProg,
                   plain, pure, commitTs, history, versions>>

\* The end of SelectRecordCC.
MvSelected(t) ==
    /\ mvAt[t] = "rollback" /\ ~RollsBack(t)
    /\ mvLatch' = AfterAccess(t)
    /\ mvDone' = [mvDone EXCEPT ![t] = @ + 1]
    /\ mvAt' = [mvAt EXCEPT ![t] = "running"]
    /\ UNCHANGED <<snapVars, isolation, page, indexed, delta, head, mvProg, acc, rolled,
                   plain, pure, commitTs, history, versions>>

\* AllocateNewRecord and InsertRecord: a tuple nobody can find yet.
MvInsert(t) ==
    /\ Running(t) /\ Current(t).type = "INSERT_ONLY"
    /\ Lockable(Current(t).k, t)
    /\ pure' = [pure EXCEPT ![t] = FALSE]
    /\ acc' = [acc EXCEPT ![t] = Append(@, [k |-> Current(t).k, type |-> "INSERT_ONLY",
                                            local |-> page[Current(t).k], checked |-> FALSE])]
    /\ mvDone' = [mvDone EXCEPT ![t] = @ + 1]
    /\ UNCHANGED <<snapVars, isolation, page, indexed, delta, head, mvLatch, mvAt, mvProg,
                   rolled, plain, commitTs, history, versions>>

-----------------------------------------------------------------------------
(* CommitTransaction *)

Over(t) == mvAt[t] = "running" /\ mvDone[t] = Len(mvProg[t])

\* A transaction that only read has nothing to validate.
MvCommitRead(t) ==
    /\ Over(t) /\ pure[t]
    /\ mvAt' = [mvAt EXCEPT ![t] = "committed"]
    /\ acc' = [acc EXCEPT ![t] = <<>>]
    /\ UNCHANGED <<snapVars, isolation, page, indexed, delta, head, mvLatch, mvProg, mvDone,
                   rolled, plain, pure, commitTs, history, versions>>

\* Mutant of Validated: the read set is never validated.
ValidatedUpdates(a) == ~IsReadAccess(a)

\* Reads are validated under SERIALIZABLE only.
Validated(a) == ~IsReadAccess(a) \/ isolation = "SERIALIZABLE"

ToCheck(t) == {i \in DOMAIN acc[t] : ~acc[t][i].checked /\ Validated(acc[t][i])}

NextToCheck(t) == CHOOSE i \in ToCheck(t) : \A j \in ToCheck(t) : acc[t][i].k <= acc[t][j].k

\* The tuple has a newer version than the copy.
Outrun(a) == page[a.k].wts > a.local.wts

\* The validation of one access, in address order, waiting for the latch.
MvValidate(t) ==
    /\ Over(t) /\ ~pure[t] /\ ToCheck(t) # {}
    /\ LET i == NextToCheck(t)
           a == acc[t][i]
       IN  /\ IF IsReadAccess(a) THEN Shareable(a.k, t) ELSE Lockable(a.k, t)
           /\ mvLatch' = [mvLatch EXCEPT ![a.k][t] =
                             IF IsReadAccess(a) THEN "shared" ELSE "exclusive"]
           /\ acc' = [acc EXCEPT ![t][i].checked = TRUE]
           /\ seen' = IF Outrun(a) THEN Registered(t, page[a.k].wts) ELSE seen
           /\ mvAt' = [mvAt EXCEPT ![t] = IF Outrun(a) THEN "abort" ELSE "running"]
    /\ UNCHANGED <<nextTs, drawn, pin, largest, gcVars, isolation, page, indexed, delta, head,
                   mvProg, mvDone, rolled, plain, pure, commitTs, history, versions>>

\* Mutant of MvDraw: the counter need not pass what the thread has seen.
MvDrawUnfloored(t) ==
    /\ Over(t) /\ ~pure[t] /\ ToCheck(t) = {} /\ commitTs[t] = 0
    /\ commitTs' = [commitTs EXCEPT ![t] = nextTs[NodeOf[t]]]
    /\ nextTs' = [nextTs EXCEPT ![NodeOf[t]] = @ + 1]
    /\ UNCHANGED <<drawn, pin, largest, seen, gcVars, isolation, page, indexed, delta, head, mvLatch,
                   mvAt, mvProg, mvDone, acc, rolled, plain, pure, history, versions>>

\* EnsureCommitFloor, then fetch_add: above every timestamp the thread saw.
MvDraw(t) ==
    /\ Over(t) /\ ~pure[t] /\ ToCheck(t) = {} /\ commitTs[t] = 0
    /\ LET n == NodeOf[t]
           ts == FloorAt(n, SeenFloor(t))[n]
       IN  /\ commitTs' = [commitTs EXCEPT ![t] = ts]
           /\ nextTs' = [nextTs EXCEPT ![n] = ts + 1]
    /\ UNCHANGED <<drawn, pin, largest, seen, gcVars, isolation, page, indexed, delta, head, mvLatch,
                   mvAt, mvProg, mvDone, acc, rolled, plain, pure, history, versions>>

Accesses(t) == {acc[t][i] : i \in DOMAIN acc[t]}
Inserted(t) == {a.k : a \in {b \in Accesses(t) : b.type = "INSERT_ONLY"}}

\* The updates in access order: each adds a record to the delta section.
Updates(t) == SelectSeq(acc[t], LAMBDA a : a.type = "READ_WRITE")

\* The name of a transaction: its thread (each runs one).
Written(t, k) ==
    LET n == NodeOf[t]
        i == CHOOSE i \in DOMAIN Updates(t) : Updates(t)[i].k = k
    IN  IF k \in Inserted(t) THEN Version(t, commitTs[t], NoDelta)
        ELSE Version(t, commitTs[t], <<n, Len(delta[n]) + i>>)

\* The commit stage: old versions to the delta section, new ones to the
\* pages, inserted tuples to the index.  The pages are latched.
MvApply(t) ==
    /\ Over(t) /\ commitTs[t] # 0
    /\ LET updated == {a.k : a \in {b \in Accesses(t) : b.type = "READ_WRITE"}}
           changed == updated \cup Inserted(t)
           record(a) == [old |-> page[a.k], next |-> commitTs[t]]
       IN  /\ delta' = [delta EXCEPT ![NodeOf[t]] =
                           @ \o [i \in DOMAIN Updates(t) |-> record(Updates(t)[i])]]
           /\ page' = [k \in MvTuples |-> IF k \in changed THEN Written(t, k) ELSE page[k]]
           /\ indexed' = indexed \cup Inserted(t)
           /\ versions' = [k \in MvTuples |-> IF k \in changed THEN Append(versions[k], t)
                                            ELSE versions[k]]
           /\ history' = history \cup
                 {[id |-> t, reads |-> {<<a.k, a.local.val>> : a \in Accesses(t)}]}
    /\ acc' = [acc EXCEPT ![t] = <<>>]
    /\ mvAt' = [mvAt EXCEPT ![t] = "committed"]
    /\ UNCHANGED <<snapVars, isolation, head, mvLatch, mvProg, mvDone, rolled, plain, pure, commitTs>>

\* The latches go back one by one.
MvRelease(t) ==
    /\ mvAt[t] \in {"committed", "abort"}
    /\ \E k \in HeldBy(t) : mvLatch' = Unlatch(t, {k})
    /\ UNCHANGED <<snapVars, isolation, page, indexed, delta, head, mvAt, mvProg, mvDone, acc,
                   rolled, plain, pure, commitTs, history, versions>>

\* The end of CommitTransaction and of AbortTransaction: an abort raises the
\* counter, ClearStates releases the snapshot.
MvEnd(t) ==
    /\ mvAt[t] \in {"committed", "abort"} /\ HeldBy(t) = {}
    /\ nextTs' = IF mvAt[t] = "abort" THEN FloorAt(NodeOf[t], SeenFloor(t)) ELSE nextTs
    /\ seen' = [seen EXCEPT ![t] = IF commitTs[t] # 0 THEN commitTs[t] ELSE @]
    /\ pin' = [pin EXCEPT ![t] = 0]
    /\ mvAt' = [mvAt EXCEPT ![t] = "done"]
    /\ acc' = [acc EXCEPT ![t] = <<>>]
    /\ UNCHANGED <<drawn, largest, gcVars, isolation, page, indexed, delta, head, mvLatch, mvProg,
                   mvDone, rolled, plain, pure, commitTs, history, versions>>

-----------------------------------------------------------------------------
(* GarbageCollection with GarbageCollectionBySnapshot *)

\* Records leave the head of the section while they are below the horizon.
Collectable(n, i, snapshot) == \A j \in head[n] + 1 .. i : delta[n][j].next < snapshot

VersionsCollected(n, snapshot) ==
    LET reach == {i \in head[n] .. Len(delta[n]) : Collectable(n, i, snapshot)}
    IN  CHOOSE i \in reach : \A j \in reach : j <= i

MvCollect(n) ==
    /\ GcCollect(n)
    /\ head' = [head EXCEPT ![n] =
          IF LeastKnown(n) > horizon[n] THEN VersionsCollected(n, LeastKnown(n)) ELSE @]
    /\ UNCHANGED <<isolation, page, indexed, delta, mvLatch, mvAt, mvProg, mvDone, acc, rolled,
                   plain, pure, commitTs, history, versions>>

MvGc(n) ==
    \/ (GcLargest(n) \/ GcLeast(n)) /\ UNCHANGED txnVars
    \/ MvCollect(n)
    \/ \E m \in Nodes : ProcessSnapshotPush(m, n) /\ UNCHANGED txnVars

MvStep(t) ==
    \/ MvStart(t) \/ MvGetSnapshot(t) \/ MvNotFound(t) \/ MvSelect(t) \/ MvScanMoves(t)
    \/ MvRollBack(t) \/ MvSelected(t) \/ MvInsert(t) \/ MvCommitRead(t)
    \/ MvValidate(t) \/ MvDraw(t) \/ MvApply(t) \/ MvRelease(t) \/ MvEnd(t)

-----------------------------------------------------------------------------
(* Properties *)

\* The deltas that a thread rolling back from version v may still follow.
Follows(t, v) == v.wts > pin[t] /\ v.prev # NoDelta

(***************************************************************************)
(* VersionsKept: the collector never takes a version that a pinned         *)
(* snapshot can still be sent to: from the newest version of a tuple, and  *)
(* from every version kept, the delta that a transaction with an older     *)
(* snapshot goes to is still there.                                        *)
(***************************************************************************)
VersionsKept ==
    \A t \in Threads : pin[t] # 0 =>
        /\ \A k \in indexed :
              Follows(t, page[k]) => page[k].prev[2] > head[page[k].prev[1]]
        /\ \A n \in Nodes : \A i \in head[n] + 1 .. Len(delta[n]) :
              LET old == delta[n][i].old
              IN  Follows(t, old) => old.prev[2] > head[old.prev[1]]

(***************************************************************************)
(* NoLostUpdate: whoever committed an update of a tuple had read the       *)
(* version that it replaced, at both isolation levels.                     *)
(***************************************************************************)
NoLostUpdate ==
    \A c \in history : \A k \in MvTuples \ NewTuples : \A i \in 2 .. Len(versions[k]) :
        versions[k][i] = c.id => <<k, versions[k][i - 1]>> \in c.reads

Position(k, v) == CHOOSE i \in DOMAIN versions[k] : versions[k][i] = v

Precedes(a, b) ==
    /\ a # b
    /\ \E k \in MvTuples :
          LET wrote(c) == \E i \in DOMAIN versions[k] : versions[k][i] = c.id
              at(c) == Position(k, c.id)
              saw(c) == {Position(k, r[2]) : r \in {q \in c.reads : q[1] = k}}
          IN  \/ wrote(a) /\ wrote(b) /\ at(a) < at(b)
              \/ wrote(a) /\ at(a) \in saw(b)
              \/ wrote(b) /\ \E i \in saw(a) : i < at(b)

(***************************************************************************)
(* UpdatesSerializable: at the isolation level SERIALIZABLE the            *)
(* transactions that committed updates have a serial order, even though    *)
(* their first accesses may have been rolled back to a snapshot.           *)
(***************************************************************************)
UpdatesSerializable ==
    isolation = "SERIALIZABLE" =>
        \A S \in SUBSET history \ {{}} : \E b \in S : \A a \in S : ~Precedes(a, b)

(***************************************************************************)
(* MvStampsGrow: a new version of a tuple has a larger timestamp than the  *)
(* one it replaces, also when they come from nodes whose counters know     *)
(* nothing of each other.  Validation and rolling back depend on it.       *)
(***************************************************************************)
MvStampsGrow ==
    [][\A k \in MvTuples : page'[k] # page[k] /\ page[k].wts # Never
          => page'[k].wts > page[k].wts]_mvVars

=============================================================================
