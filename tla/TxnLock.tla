------------------------------- MODULE TxnLock -------------------------------
(***************************************************************************)
(* The LOCK build (TransactionManager2PL.cpp): strict two-phase locking    *)
(* with the page latches as locks, updates in place, an undo copy per      *)
(* updated tuple, and an abort instead of waiting for a latch.             *)
(***************************************************************************)
EXTENDS TxnStore

\* A transaction that changes a page has not read that page before:
\* SelectRecordCC does not upgrade a shared latch (assert(false)), so the
\* procedures ask for the update first.
ASSUME ProgramsNeverUpgrade ==
    \A t \in Txns : \A p \in Programs[t] : \A i, j \in DOMAIN p :
        i < j /\ PageOf[p[i].k] = PageOf[p[j].k] /\ IsRead(p[i]) => IsRead(p[j])

\* Undo the accesses (in place, the latches are still held).
Undone(t) ==
    LET undo(k) == {i \in DOMAIN access[t] : access[t][i].k = k /\ ~IsRead(access[t][i])}
    IN  [k \in Tuples |->
            IF undo(k) = {} THEN tuple[k]
            ELSE LET a == access[t][CHOOSE i \in undo(k) : TRUE]
                 IN  CASE a.type = "INSERT_ONLY" -> [tuple[k] EXCEPT !.visible = FALSE]
                       [] a.type = "READ_WRITE" -> a.local
                       [] a.type = "DELETE_ONLY" -> [tuple[k] EXCEPT !.visible = TRUE]]

LockAbortTransaction(t) ==
    /\ tuple' = Undone(t)
    /\ pc' = [pc EXCEPT ![t] = "aborted"]

\* The body of SelectRecordCC once the page is latched: the record is the
\* tuple in the page; the procedure then writes through it.
LockRecord(t, a) ==
    /\ access' = [access EXCEPT ![t] = Append(@, Entry(a, tuple[a.k]))]
    /\ tuple' = CASE IsRead(a) -> tuple
                  [] a.type = "DELETE_ONLY" -> [tuple EXCEPT ![a.k].visible = FALSE]
                  [] OTHER -> [tuple EXCEPT ![a.k] =
                                  [@ EXCEPT !.val = Attempt(t), !.visible = TRUE]]

(***************************************************************************)
(* SelectRecordCC.  A page the transaction has already latched is used as  *)
(* it is.  A scan waits for the latch, anything else tries: the try may    *)
(* fail although no transaction has the latch, because another node caches *)
(* the page.                                                               *)
(***************************************************************************)
LockSelect(t) ==
    /\ protocol = "LOCK" /\ pc[t] = "running" /\ ~AllAccessed(t)
    /\ LET a == Access(t)
           p == PageOf[a.k]
       IN  /\ a.type # "INSERT_ONLY"
           /\ \/ /\ p \in LockedPages(t)
                 /\ IsRead(a) \/ latch[p][t] = "exclusive"
                 /\ LockRecord(t, a)
                 /\ UNCHANGED <<latch, locked, pc>>
              \/ /\ p \notin LockedPages(t)
                 /\ Free(p, t, a)
                 /\ latch' = Latched(p, t, ModeFor(a))
                 /\ locked' = [locked EXCEPT ![t][p] = 1]
                 /\ LockRecord(t, a)
                 /\ UNCHANGED pc
              \/ /\ p \notin LockedPages(t)
                 /\ a.type # "SCAN_READ"
                 /\ LockAbortTransaction(t)
                 /\ UNCHANGED <<latch, locked, access>>
    /\ UNCHANGED <<protocol, prog, tries, ts, clock, committed, order>>

(***************************************************************************)
(* AllocateNewRecord and InsertRecord: the tuple is allocated in the open  *)
(* page of the table, which is latched exclusively (or was already), and   *)
(* made visible; when the latch is not to be had the transaction aborts.   *)
(***************************************************************************)
LockInsert(t) ==
    /\ protocol = "LOCK" /\ pc[t] = "running" /\ ~AllAccessed(t)
    /\ LET a == Access(t)
           p == PageOf[a.k]
       IN  /\ a.type = "INSERT_ONLY"
           /\ \/ /\ latch[p][t] = "exclusive"
                 /\ LockRecord(t, a)
                 /\ UNCHANGED <<latch, locked, pc>>
              \/ /\ p \notin LockedPages(t)
                 /\ ExclusiveFree(p, t)
                 /\ latch' = Latched(p, t, "exclusive")
                 /\ locked' = [locked EXCEPT ![t][p] = 1]
                 /\ LockRecord(t, a)
                 /\ UNCHANGED pc
              \/ /\ p \notin LockedPages(t)
                 /\ LockAbortTransaction(t)
                 /\ UNCHANGED <<latch, locked, access>>
    /\ UNCHANGED <<protocol, prog, tries, ts, clock, committed, order>>

\* CommitTransaction without participants: what is left is the releases.
LockCommit(t) ==
    /\ protocol = "LOCK" /\ pc[t] = "running" /\ AllAccessed(t)
    /\ Commits(t)
    /\ pc' = [pc EXCEPT ![t] = "committed"]
    /\ UNCHANGED <<protocol, tuple, latch, locked, prog, access, tries, ts, clock>>

LockStep(t) == LockSelect(t) \/ LockInsert(t) \/ LockCommit(t)

=============================================================================
