-------------------------------- MODULE TxnTo --------------------------------
(***************************************************************************)
(* The TO build (TxnManagerTo.cpp): a start timestamp, drawn at the first  *)
(* access, is compared with the read and write timestamps of each tuple;   *)
(* updates are in place.  Latches are exclusive and counted, and the       *)
(* procedures give each one back before their next access.                 *)
(***************************************************************************)
EXTENDS TxnStore

\* start_timestamp_ of an access: is_first_access_ draws it.
ToStart(t) == IF access[t] = <<>> THEN clock ELSE ts[t]

ToDraw(t) ==
    IF access[t] = <<>>
    THEN ts' = [ts EXCEPT ![t] = clock] /\ clock' = clock + 1
    ELSE UNCHANGED <<ts, clock>>

\* AcquireXLatchForTuple: the first latch of a page waits, others count.
ToLatch(t, p) ==
    /\ locked' = [locked EXCEPT ![t][p] = @ + 1]
    /\ \/ p \in LockedPages(t) /\ UNCHANGED latch
       \/ /\ p \notin LockedPages(t)
          /\ ExclusiveFree(p, t)
          /\ latch' = Latched(p, t, "exclusive")

\* The comparisons of SelectRecordCC.
ToTooLate(a, start) ==
    IF IsRead(a) THEN tuple[a.k].wts > start
    ELSE tuple[a.k].rts > start \/ tuple[a.k].wts > start

\* What an access leaves in the tuple: a read stamps it, a write also
\* changes it (the procedure writes through the record).
ToTouched(t, a, start) ==
    CASE IsRead(a) -> [tuple EXCEPT ![a.k].rts = start]
      [] a.type = "DELETE_ONLY" -> [tuple EXCEPT ![a.k].wts = start, ![a.k].visible = FALSE]
      [] OTHER -> [tuple EXCEPT ![a.k].wts = start, ![a.k].val = Attempt(t)]

(***************************************************************************)
(* SelectRecordCC.  Too late: all latches go back and AbortTransaction     *)
(* starts.                                                                 *)
(***************************************************************************)
ToSelect(t) ==
    /\ protocol = "TO" /\ pc[t] = "running" /\ ~AllAccessed(t)
    /\ LockedPages(t) = {}
    /\ LET a == Access(t)
           start == ToStart(t)
       IN  /\ a.type # "INSERT_ONLY"
           /\ ToLatch(t, PageOf[a.k])
           /\ access' = [access EXCEPT ![t] = Append(@, Entry(a, tuple[a.k]))]
           /\ \/ /\ ToTooLate(a, start)
                 /\ pc' = [pc EXCEPT ![t] = "giveback"]
                 /\ UNCHANGED tuple
              \/ /\ ~ToTooLate(a, start)
                 /\ tuple' = ToTouched(t, a, start)
                 /\ UNCHANGED pc
    /\ ToDraw(t)
    /\ UNCHANGED <<protocol, prog, tries, committed, order>>

\* AllocateNewRecord and InsertRecord: nothing to compare with.
ToInsert(t) ==
    /\ protocol = "TO" /\ pc[t] = "running" /\ ~AllAccessed(t)
    /\ LockedPages(t) = {}
    /\ LET a == Access(t)
       IN  /\ a.type = "INSERT_ONLY"
           /\ ToLatch(t, PageOf[a.k])
           /\ access' = [access EXCEPT ![t] = Append(@, Entry(a, tuple[a.k]))]
           /\ tuple' = ToTouched(t, a, ToStart(t))
    /\ ToDraw(t)
    /\ UNCHANGED <<protocol, pc, prog, tries, committed, order>>

\* ReleaseLatchForTuple and ReleaseLatchForGCL, called by the procedure or
\* by InsertRecord when it is done with the tuple.
ToUnlatch(t) ==
    /\ protocol = "TO" /\ pc[t] = "running"
    /\ \E p \in LockedPages(t) :
          /\ locked' = [locked EXCEPT ![t][p] = @ - 1]
          /\ latch' = IF locked[t][p] = 1 THEN Latched(p, t, "none") ELSE latch
    /\ UNCHANGED <<protocol, tuple, pc, prog, access, tries, ts, clock, committed, order>>

\* The loop before the call of AbortTransaction.
ToGiveBack(t) ==
    /\ protocol = "TO" /\ pc[t] = "giveback"
    /\ latch' = [p \in Pages |-> [latch[p] EXCEPT ![t] = "none"]]
    /\ locked' = [locked EXCEPT ![t] = [p \in Pages |-> 0]]
    /\ pc' = [pc EXCEPT ![t] = "restore"]
    /\ UNCHANGED <<protocol, tuple, prog, access, tries, ts, clock, committed, order>>

\* sorted_access of AbortTransaction, without the reads.
ToUndone(t) ==
    {i \in DOMAIN access[t] : ~access[t][i].checked /\ ~IsRead(access[t][i])}

ToNextUndo(t) ==
    CHOOSE i \in ToUndone(t) : \A j \in ToUndone(t) : access[t][i].k <= access[t][j].k

(***************************************************************************)
(* AbortTransaction latches the tuples it may have written once more, in   *)
(* address order, restores the copy it took, and keeps the latches to the  *)
(* end.                                                                    *)
(***************************************************************************)
ToRestore(t) ==
    /\ protocol = "TO" /\ pc[t] = "restore" /\ ToUndone(t) # {}
    /\ LET i == ToNextUndo(t)
           a == access[t][i]
       IN  /\ ToLatch(t, PageOf[a.k])
           /\ access' = [access EXCEPT ![t][i].checked = TRUE]
           /\ tuple' = [tuple EXCEPT ![a.k] =
                 CASE a.type = "INSERT_ONLY" -> [@ EXCEPT !.visible = FALSE]
                   [] a.type = "READ_WRITE" -> a.local
                   [] a.type = "DELETE_ONLY" -> [@ EXCEPT !.visible = TRUE]]
    /\ UNCHANGED <<protocol, pc, prog, tries, ts, clock, committed, order>>

ToAborted(t) ==
    /\ protocol = "TO" /\ pc[t] = "restore" /\ ToUndone(t) = {}
    /\ pc' = [pc EXCEPT ![t] = "aborted"]
    /\ UNCHANGED <<protocol, tuple, latch, locked, prog, access, tries, ts, clock, committed, order>>

\* CommitTransaction; it would throw if a latch were left, and the
\* procedures leave none.
ToCommit(t) ==
    /\ protocol = "TO" /\ pc[t] = "running" /\ AllAccessed(t)
    /\ LockedPages(t) = {}
    /\ Commits(t)
    /\ pc' = [pc EXCEPT ![t] = "committed"]
    /\ UNCHANGED <<protocol, tuple, latch, locked, prog, access, tries, ts, clock>>

ToStep(t) ==
    \/ ToSelect(t) \/ ToInsert(t) \/ ToUnlatch(t) \/ ToGiveBack(t)
    \/ ToRestore(t) \/ ToAborted(t) \/ ToCommit(t)

=============================================================================
