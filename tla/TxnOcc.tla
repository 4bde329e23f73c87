------------------------------- MODULE TxnOcc -------------------------------
(***************************************************************************)
(* The OCC build (TransactionManagerOCC.cpp): an access copies the tuple   *)
(* under a latch it gives back at once; CommitTransaction draws a          *)
(* timestamp, latches the pages in address order, compares the write       *)
(* timestamps with the copies, and only then writes.                       *)
(***************************************************************************)
EXTENDS TxnStore

(***************************************************************************)
(* SelectRecordCC: latch, copy, unlatch.  AllocateNewRecord does the same  *)
(* with the open page and resets the write timestamp of the new tuple.     *)
(***************************************************************************)
OccSelect(t) ==
    /\ protocol = "OCC" /\ pc[t] = "running" /\ ~AllAccessed(t)
    /\ LET a == Access(t)
       IN  /\ a.type # "INSERT_ONLY"
           /\ Free(PageOf[a.k], t, a)
           /\ access' = [access EXCEPT ![t] =
                 Append(@, Entry(a, tuple[a.k]))]
    /\ UNCHANGED <<protocol, tuple, latch, locked, pc, prog, tries, ts, clock, committed, order>>

OccInsert(t) ==
    /\ protocol = "OCC" /\ pc[t] = "running" /\ ~AllAccessed(t)
    /\ LET a == Access(t)
       IN  /\ a.type = "INSERT_ONLY"
           /\ ExclusiveFree(PageOf[a.k], t)
           /\ tuple' = [tuple EXCEPT ![a.k].wts = 0]
           /\ access' = [access EXCEPT ![t] = Append(@, Entry(a, tuple'[a.k]))]
    /\ UNCHANGED <<protocol, latch, locked, pc, prog, tries, ts, clock, committed, order>>

\* The first line of CommitTransaction: FetchAddMonotoneTimestamp.
OccDrawTimestamp(t) ==
    /\ protocol = "OCC" /\ pc[t] = "running" /\ AllAccessed(t)
    /\ ts' = [ts EXCEPT ![t] = clock]
    /\ clock' = clock + 1
    /\ pc' = [pc EXCEPT ![t] = "validate"]
    /\ UNCHANGED <<protocol, tuple, latch, locked, prog, access, tries, committed, order>>

\* sorted_access: the accesses in address order; the first that is left.
Unvalidated(t) == {i \in DOMAIN access[t] : ~access[t][i].checked}

\* Mutant of OccNextAccess: the accesses are taken as they came.
OccUnsorted(t) == CHOOSE i \in Unvalidated(t) : \A j \in Unvalidated(t) : i <= j

OccNextAccess(t) ==
    CHOOSE i \in Unvalidated(t) : \A j \in Unvalidated(t) : access[t][i].k <= access[t][j].k

\* Mutant of OccStale: only updates are validated.
OccStaleUpdate(a) == ~IsRead(a) /\ tuple[a.k].wts > a.local.wts

\* The comparison of one access with the tuple in the page.
OccStale(a) == tuple[a.k].wts > a.local.wts

(***************************************************************************)
(* One turn of the validation loop: the page is latched if it is not yet   *)
(* (waiting for it), and the copy is compared.  A newer timestamp aborts.  *)
(***************************************************************************)
OccValidate(t) ==
    /\ protocol = "OCC" /\ pc[t] = "validate" /\ Unvalidated(t) # {}
    /\ LET i == OccNextAccess(t)
           a == access[t][i]
           p == PageOf[a.k]
       IN  /\ \/ /\ p \in LockedPages(t)
                 /\ UNCHANGED <<latch, locked>>
              \/ /\ p \notin LockedPages(t)
                 /\ Free(p, t, a)
                 /\ latch' = Latched(p, t, ModeFor(a))
                 /\ locked' = [locked EXCEPT ![t][p] = 1]
           /\ access' = [access EXCEPT ![t][i].checked = TRUE]
           /\ pc' = [pc EXCEPT ![t] = IF OccStale(a) THEN "aborted" ELSE "validate"]
    /\ UNCHANGED <<protocol, tuple, prog, tries, ts, clock, committed, order>>

\* The commit stage: every page is latched; copy back, stamp, publish.
OccWritten(t) ==
    [k \in Tuples |->
        IF \E i \in DOMAIN access[t] :
              access[t][i].k = k /\ access[t][i].type \in {"READ_WRITE", "INSERT_ONLY"}
        THEN [tuple[k] EXCEPT !.val = Attempt(t), !.wts = ts[t]]
        ELSE tuple[k]]

OccCommit(t) ==
    /\ protocol = "OCC" /\ pc[t] = "validate" /\ Unvalidated(t) = {}
    /\ tuple' = OccWritten(t)
    /\ Commits(t)
    /\ pc' = [pc EXCEPT ![t] = "committed"]
    /\ UNCHANGED <<protocol, latch, locked, prog, access, tries, ts, clock>>

(***************************************************************************)
(* OccStampsGrow: a tuple that gets a new version also gets a larger write *)
(* timestamp, although the timestamp is drawn before the pages are         *)
(* latched.  The comparison of timestamps in CommitTransaction finds every *)
(* change only because of this.                                            *)
(***************************************************************************)
OccStampsGrow ==
    [][protocol = "OCC" =>
         \A k \in Tuples : tuple'[k].val # tuple[k].val => tuple'[k].wts > tuple[k].wts]_storeVars

OccStep(t) ==
    OccSelect(t) \/ OccInsert(t) \/ OccDrawTimestamp(t) \/ OccValidate(t) \/ OccCommit(t)

=============================================================================
