----------------------------- MODULE RWSpinMutex -----------------------------
(***************************************************************************)
(* The read/write spin latch of utils/mutexlock.h (class RWSpinMutex), the *)
(* latch of every cached page (Cache_Handle::rw_mtx) and of every cache    *)
(* shard (LRUCache::table_mutex_).  Its 64-bit word holds a writer-active  *)
(* bit, a writer-waiting bit and a reader count.  A step is one atomic     *)
(* access to that word: a load, a compare-exchange or a fetch-op.  A       *)
(* thread's `cur` is the word it loaded last; a compare-exchange succeeds  *)
(* exactly when the word still equals `cur` (on x86, the build's target,   *)
(* compare_exchange_weak does not fail spuriously either).                 *)
(***************************************************************************)
EXTENDS Naturals, FiniteSets

CONSTANTS Thread,   \* the threads that use the latch
          Calls     \* Calls[t]: the operations thread t calls

Operations == {"lock_shared", "lock", "try_shared_lock", "try_lock",
               "try_upgrade", "downgrade"}

ASSUME ThreadAssumption == IsFiniteSet(Thread)
ASSUME CallsAssumption == Calls \in [Thread -> SUBSET Operations]

VARIABLES state,   \* the latch word: [active, waiting, readers]
          cur,     \* cur[t]: the word t loaded last
          pc,      \* pc[t]: where t is
          writerPrioritized  \* the constructor's argument

vars == <<state, cur, pc, writerPrioritized>>

Word == [active : BOOLEAN, waiting : BOOLEAN, readers : Nat]

\* Positions.  A thread holds the latch shared in SharedPC and exclusively in
\* ExclPC; in WaitPC it is a writer that has seen or set the waiting bit.
SharedPC == {"shared", "upgrade_cas"}
ExclPC   == {"excl", "downgrade_cas"}
WaitPC   == {"lock_load", "lock_cas", "try_load", "try_cas", "try_clear"}
OtherPC  == {"idle", "shared_load", "shared_cas", "tshared_cas",
             "wait_load", "wait_cas", "tlock_cas", "rlock_load", "rlock_cas", "rtry_cas"}

TypeOK == /\ state \in Word
          /\ cur \in [Thread -> Word]
          /\ pc \in [Thread -> SharedPC \union ExclPC \union WaitPC \union OtherPC]
          /\ writerPrioritized \in BOOLEAN

Free == [active |-> FALSE, waiting |-> FALSE, readers |-> 0]

Init == /\ state = Free
        /\ cur = [t \in Thread |-> Free]
        /\ pc = [t \in Thread |-> "idle"]
        /\ writerPrioritized \in BOOLEAN

\* t is at position p; it loads the word and goes to position q.
Load(t, p, q) ==
  /\ pc[t] = p
  /\ cur' = [cur EXCEPT ![t] = state]
  /\ pc' = [pc EXCEPT ![t] = q]
  /\ UNCHANGED <<state, writerPrioritized>>

\* t tries to replace the word it loaded by w: on success it goes to q, else to r.
CompareExchange(t, p, w, q, r) ==
  /\ pc[t] = p
  /\ IF state = cur[t]
       THEN state' = w /\ pc' = [pc EXCEPT ![t] = q]
       ELSE pc' = [pc EXCEPT ![t] = r] /\ UNCHANGED state
  /\ cur' = [cur EXCEPT ![t] = state]
  /\ UNCHANGED writerPrioritized

\* A step that changes the word unconditionally (fetch_sub, fetch_and).
FetchOp(t, p, w, q) ==
  /\ pc[t] = p
  /\ state' = w
  /\ pc' = [pc EXCEPT ![t] = q]
  /\ UNCHANGED <<cur, writerPrioritized>>

AddReader(w)    == [w EXCEPT !.readers = @ + 1]
DropReader(w)   == [w EXCEPT !.readers = @ - 1]
\* Mutant: the waiting bit does not hold readers back.
MutBlocksReaders(w) == w.active
BlocksReaders(w) == w.active \/ (writerPrioritized /\ w.waiting)
\* Mutant: a writer does not look at the reader count.
MutUnheld(w)    == ~w.active
Unheld(w)       == w.readers = 0 /\ ~w.active

\* t, idle, calls operation op: it goes to the operation's first step.
Call(t, op, p) ==
  /\ pc[t] = "idle"
  /\ op \in Calls[t]
  /\ pc' = [pc EXCEPT ![t] = p]
  /\ UNCHANGED <<state, cur, writerPrioritized>>

-----------------------------------------------------------------------------
(* lock_shared: load, retry while blocked, else compare-exchange, retry.   *)

LockSharedCall(t) == Call(t, "lock_shared", "shared_load")

LockSharedLoad(t) ==
  Load(t, "shared_load", IF BlocksReaders(state) THEN "shared_load" ELSE "shared_cas")

LockSharedCas(t) ==
  CompareExchange(t, "shared_cas", AddReader(cur[t]), "shared", "shared_load")

UnlockShared(t) == FetchOp(t, "shared", DropReader(state), "idle")

(* try_shared_lock: one load, one compare-exchange, no retry.              *)

TrySharedLoad(t) ==
  /\ "try_shared_lock" \in Calls[t]
  /\ Load(t, "idle", IF BlocksReaders(state) THEN "idle" ELSE "tshared_cas")

TrySharedCas(t) ==
  CompareExchange(t, "tshared_cas", AddReader(cur[t]), "shared", "idle")

-----------------------------------------------------------------------------
(* lock, writer-prioritised: set_writer_waiting, then spin until the latch *)
(* is unheld and swap active for waiting.  Otherwise: spin and set active. *)

LockCall(t) == Call(t, "lock", IF writerPrioritized THEN "wait_load" ELSE "rlock_load")

SetWaitingLoad(t) == Load(t, "wait_load", IF state.waiting THEN "lock_load" ELSE "wait_cas")

SetWaitingCas(t) ==
  CompareExchange(t, "wait_cas", [cur[t] EXCEPT !.waiting = TRUE], "lock_load", "wait_load")

LockLoad(t) == Load(t, "lock_load", IF Unheld(state) THEN "lock_cas" ELSE "lock_load")

LockCas(t) ==
  CompareExchange(t, "lock_cas", [cur[t] EXCEPT !.active = TRUE, !.waiting = FALSE],
                  "excl", "lock_load")

ReaderPrioLoad(t) == Load(t, "rlock_load", IF Unheld(state) THEN "rlock_cas" ELSE "rlock_load")

ReaderPrioCas(t) ==
  CompareExchange(t, "rlock_cas", [cur[t] EXCEPT !.active = TRUE], "excl", "rlock_load")

Unlock(t) == FetchOp(t, "excl", [state EXCEPT !.active = FALSE], "idle")

-----------------------------------------------------------------------------
(* try_lock, writer-prioritised: announce with the waiting bit, look again *)
(* for readers or a writer, and either swap active for waiting or take the *)
(* waiting bit back.  Otherwise: one load, one compare-exchange.           *)

TryLockLoad(t) ==
  /\ "try_lock" \in Calls[t]
  /\ Load(t, "idle",
          IF writerPrioritized
            THEN IF state.active \/ state.waiting THEN "idle" ELSE "tlock_cas"
            ELSE IF Unheld(state) THEN "rtry_cas" ELSE "idle")

TryLockAnnounce(t) ==
  CompareExchange(t, "tlock_cas", [cur[t] EXCEPT !.waiting = TRUE], "try_load", "idle")

TryLockReload(t) == Load(t, "try_load", IF Unheld(state) THEN "try_cas" ELSE "try_clear")

TryLockCas(t) ==
  CompareExchange(t, "try_cas", [cur[t] EXCEPT !.active = TRUE, !.waiting = FALSE],
                  "excl", "try_clear")

TryLockClear(t) == FetchOp(t, "try_clear", [state EXCEPT !.waiting = FALSE], "idle")

ReaderPrioTryCas(t) ==
  CompareExchange(t, "rtry_cas", [cur[t] EXCEPT !.active = TRUE], "excl", "idle")

-----------------------------------------------------------------------------
(* try_upgrade by a reader, downgrade by a writer.                         *)

\* A failed upgrade leaves the caller a reader.
TryUpgradeLoad(t) ==
  /\ "try_upgrade" \in Calls[t]
  /\ Load(t, "shared", IF state.readers = 1 /\ ~state.active THEN "upgrade_cas" ELSE "shared")

\* Mutant: the upgraded reader stays counted.
MutTryUpgradeCas(t) ==
  CompareExchange(t, "upgrade_cas", [cur[t] EXCEPT !.active = TRUE], "excl", "shared")

TryUpgradeCas(t) ==
  CompareExchange(t, "upgrade_cas", [DropReader(cur[t]) EXCEPT !.active = TRUE],
                  "excl", "shared")

DowngradeLoad(t) ==
  /\ "downgrade" \in Calls[t]
  /\ Load(t, "excl", "downgrade_cas")

\* A failed compare-exchange leaves the current word in `cur`; retry with it.
DowngradeCas(t) ==
  CompareExchange(t, "downgrade_cas",
                  AddReader([cur[t] EXCEPT !.active = FALSE, !.waiting = FALSE]),
                  "shared", "downgrade_cas")

-----------------------------------------------------------------------------
\* The steps of a call in progress, and of a holder that lets go.
Progress(t) ==
  \/ LockSharedLoad(t) \/ LockSharedCas(t) \/ UnlockShared(t) \/ TrySharedCas(t)
  \/ SetWaitingLoad(t) \/ SetWaitingCas(t) \/ LockLoad(t) \/ LockCas(t)
  \/ ReaderPrioLoad(t) \/ ReaderPrioCas(t) \/ Unlock(t)
  \/ TryLockAnnounce(t) \/ TryLockReload(t) \/ TryLockCas(t) \/ TryLockClear(t)
  \/ ReaderPrioTryCas(t) \/ TryUpgradeCas(t) \/ DowngradeCas(t)

Next ==
  \E t \in Thread :
    \/ LockSharedCall(t) \/ LockCall(t)
    \/ TrySharedLoad(t) \/ TryLockLoad(t) \/ TryUpgradeLoad(t) \/ DowngradeLoad(t)
    \/ Progress(t)

Spec == Init /\ [][Next]_vars

\* Threads keep running and callers release the latch: every critical section
\* of src/ under this latch ends with unlock, unlock_shared or a downgrade.
FairSpec == Spec /\ \A t \in Thread : WF_vars(Progress(t))

-----------------------------------------------------------------------------
(* Correctness.                                                            *)

SharedHolders == {t \in Thread : pc[t] \in SharedPC}
ExclHolders   == {t \in Thread : pc[t] \in ExclPC}

\* MutualExclusion: a thread that got the latch by lock, try_lock or a
\* successful try_upgrade is alone with it: no second writer and no reader,
\* however the loads and compare-exchanges of the callers interleave.
MutualExclusion ==
  \A t, u \in Thread :
    pc[t] \in ExclPC /\ u # t => pc[u] \notin ExclPC \union SharedPC

\* WordCountsHolders: the reader count is the number of threads that hold the
\* latch shared and the active bit says whether a writer holds it, so that the
\* assertions in unlock_shared, unlock and downgrade never fire and the count
\* never wraps below zero.
WordCountsHolders ==
  /\ state.readers = Cardinality(SharedHolders)
  /\ state.active <=> ExclHolders # {}

\* WaitingHasWaiter: the waiting bit, which keeps readers out, is never left
\* behind: while it is set some writer is still inside lock or try_lock and
\* will clear it.
WaitingHasWaiter ==
  state.waiting => \E t \in Thread : pc[t] \in WaitPC

\* The latch seen by its callers: who holds it shared, who exclusively.
Abs == INSTANCE RWLock WITH shared <- SharedHolders, excl <- ExclHolders

\* ImplementsRWLock: every load and compare-exchange of RWSpinMutex is either
\* invisible or one atomic acquire, release, upgrade or downgrade of RWLock.
ImplementsRWLock == Abs!LockSpec

\* LatchSound: the word is what the calls of the threads make of it.  It counts
\* the holders, a writer excludes everybody else, and the waiting bit is set only
\* while a writer in lock or try_lock will clear it.
LatchSound == TypeOK /\ MutualExclusion /\ WordCountsHolders /\ WaitingHasWaiter

\* WaitingBitCleared: once a writer has announced itself with the waiting bit,
\* the bit is eventually cleared, so readers spinning in lock_shared are not
\* kept out for ever.
WaitingBitCleared == state.waiting ~> ~state.waiting

\* LoneWriterGetsIn: a writer in lock whose waiting bit is set is never starved
\* by readers: the bit holds new readers back until the writer is in.  Only
\* another writer, which may take the latch or clear the bit, can keep it out.
LoneWriterGetsIn ==
  \A t \in Thread :
    pc[t] = "lock_load" /\ state.waiting
      ~> pc[t] = "excl" \/ \E u \in Thread \ {t} : pc[u] \in WaitPC \union ExclPC

\* WritersServed: what the waiting bit of lock and try_lock is for, on both
\* sides: WaitingBitCleared for the readers, LoneWriterGetsIn for the writer.
WritersServed == WaitingBitCleared /\ LoneWriterGetsIn

\* WaitingWriterBlocksReaders: what the constructor's comment promises of a
\* writer-prioritised latch, "waiting writers will block new readers": no
\* thread becomes a reader from outside while a writer spins in lock.
WaitingWriterBlocksReaders ==
  [][writerPrioritized =>
       \A t \in Thread :
         pc[t] \in {"shared_cas", "tshared_cas"} /\ pc'[t] = "shared"
           => \A u \in Thread : pc[u] \notin {"lock_load", "lock_cas"}]_vars
=============================================================================
