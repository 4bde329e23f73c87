------------------------- MODULE RWSpinMutex_proofs -------------------------
(***************************************************************************)
(* Proofs about RWSpinMutex, for any finite set of threads, any calls and  *)
(* both priority modes.                                                    *)
(***************************************************************************)
EXTENDS RWSpinMutex, FiniteSetTheorems, TLAPS

\* What a thread may rely on about the word it loaded, between its load and
\* its compare-exchange.
CurFacts ==
  \A t \in Thread :
    /\ pc[t] \in {"shared_cas", "tshared_cas"} => ~cur[t].active
    /\ pc[t] \in {"lock_cas", "try_cas", "rlock_cas", "rtry_cas"} => Unheld(cur[t])
    /\ pc[t] = "upgrade_cas" => cur[t].readers = 1 /\ ~cur[t].active

\* The inductive invariant.
IInv == TypeOK /\ WordCountsHolders /\ MutualExclusion /\ WaitingHasWaiter /\ CurFacts

PCSet == SharedPC \union ExclPC \union WaitPC \union OtherPC

USE DEF SharedPC, ExclPC

-----------------------------------------------------------------------------
(* Cardinality facts about the two sets of holders.                        *)

\* The holder sets are finite, being sets of threads.
LEMMA HoldersFinite ==
  /\ IsFiniteSet(SharedHolders)
  /\ IsFiniteSet(ExclHolders)
<1>1. SharedHolders \subseteq Thread /\ ExclHolders \subseteq Thread
  BY DEF SharedHolders, ExclHolders
<1>2. QED  BY <1>1, ThreadAssumption, FS_Subset

\* An unheld word means that nobody holds the latch.
LEMMA UnheldEmpty ==
  ASSUME WordCountsHolders, Unheld(state)
  PROVE  SharedHolders = {} /\ ExclHolders = {}
<1>1. Cardinality(SharedHolders) = 0 /\ ~state.active
  BY DEF WordCountsHolders, Unheld
<1>2. QED  BY <1>1, HoldersFinite, FS_EmptySet DEF WordCountsHolders

\* The effect on the holder sets of thread t moving to position q.
LEMMA HoldersMove ==
  ASSUME TypeOK, NEW t \in Thread, NEW q, pc' = [pc EXCEPT ![t] = q]
  PROVE  /\ SharedHolders' = IF q \in SharedPC THEN SharedHolders \union {t}
                                               ELSE SharedHolders \ {t}
         /\ ExclHolders' = IF q \in ExclPC THEN ExclHolders \union {t}
                                           ELSE ExclHolders \ {t}
  BY DEF SharedHolders, ExclHolders, TypeOK

\* With the latch word's count right, mutual exclusion is a statement about
\* the holder sets.
LEMMA MutexSets ==
  ASSUME TypeOK
  PROVE  MutualExclusion <=>
           \A t \in ExclHolders : ExclHolders = {t} /\ SharedHolders = {}
  BY DEF MutualExclusion, ExclHolders, SharedHolders, TypeOK

-----------------------------------------------------------------------------
(* What a step does to the holders: one lemma per way of moving.           *)

\* The holders after the step are those that the word counts, they exclude
\* each other, and the step is one of the abstract lock's or invisible to it.
HolderStep ==
  /\ WordCountsHolders'
  /\ MutualExclusion'
  /\ [Abs!LockNext]_(Abs!lockVars)

\* A step after which the same threads hold the latch in the same mode.
LEMMA QuietStep ==
  ASSUME TypeOK, TypeOK', WordCountsHolders, MutualExclusion,
         NEW t \in Thread, NEW q, pc' = [pc EXCEPT ![t] = q],
         pc[t] \in SharedPC <=> q \in SharedPC,
         pc[t] \in ExclPC <=> q \in ExclPC,
         state'.readers = state.readers, state'.active = state.active
  PROVE  HolderStep
<1>1. SharedHolders' = SharedHolders /\ ExclHolders' = ExclHolders
  BY DEF SharedHolders, ExclHolders, TypeOK
<1>2. WordCountsHolders'
  BY <1>1 DEF WordCountsHolders
<1>3. MutualExclusion'
  <2>1. MutualExclusion' <=>
          \A u \in ExclHolders' : ExclHolders' = {u} /\ SharedHolders' = {}
    BY DEF MutualExclusion, ExclHolders, SharedHolders, TypeOK
  <2>2. QED  BY <1>1, <2>1, MutexSets
<1>4. QED  BY <1>1, <1>2, <1>3 DEF HolderStep, Abs!lockVars

\* A thread becomes a reader while no writer is active.
LEMMA GainSharedStep ==
  ASSUME TypeOK, TypeOK', WordCountsHolders,
         NEW t \in Thread, NEW q \in SharedPC, pc' = [pc EXCEPT ![t] = q],
         pc[t] \notin SharedPC, ~state.active, state' = AddReader(state)
  PROVE  HolderStep
<1>1. ExclHolders = {} /\ t \notin SharedHolders
  BY DEF WordCountsHolders, SharedHolders
<1>2. SharedHolders' = SharedHolders \union {t} /\ ExclHolders' = {}
  BY <1>1, HoldersMove
<1>3. Cardinality(SharedHolders') = Cardinality(SharedHolders) + 1
  BY <1>1, <1>2, HoldersFinite, FS_AddElement
<1>4. WordCountsHolders'
  BY <1>2, <1>3 DEF WordCountsHolders, AddReader, TypeOK, Word
<1>5. MutualExclusion'
  BY <1>2 DEF MutualExclusion, ExclHolders
<1>6. Abs!AcquireShared(t)
  BY <1>1, <1>2 DEF Abs!AcquireShared
<1>7. QED  BY <1>4, <1>5, <1>6 DEF HolderStep, Abs!LockNext

\* A reader leaves.
LEMMA LoseSharedStep ==
  ASSUME TypeOK, TypeOK', WordCountsHolders, MutualExclusion,
         NEW t \in Thread, NEW q, pc' = [pc EXCEPT ![t] = q],
         pc[t] \in SharedPC, q \notin SharedPC \union ExclPC, state' = DropReader(state)
  PROVE  HolderStep
<1>1. t \in SharedHolders /\ ExclHolders = {}
  BY DEF MutualExclusion, SharedHolders, ExclHolders
<1>2. SharedHolders' = SharedHolders \ {t} /\ ExclHolders' = {}
  BY <1>1, HoldersMove
<1>3. Cardinality(SharedHolders') = Cardinality(SharedHolders) - 1
  BY <1>1, <1>2, HoldersFinite, FS_RemoveElement
<1>4. WordCountsHolders'
  BY <1>1, <1>2, <1>3 DEF WordCountsHolders, DropReader, TypeOK, Word
<1>5. MutualExclusion'
  BY <1>2 DEF MutualExclusion, ExclHolders
<1>6. Abs!ReleaseShared(t)
  BY <1>1, <1>2 DEF Abs!ReleaseShared
<1>7. QED  BY <1>4, <1>5, <1>6 DEF HolderStep, Abs!LockNext

\* A thread becomes the writer of an unheld latch.
LEMMA GainExclStep ==
  ASSUME TypeOK, TypeOK', WordCountsHolders, Unheld(state),
         NEW t \in Thread, NEW q \in ExclPC, pc' = [pc EXCEPT ![t] = q],
         state'.active = TRUE, state'.readers = state.readers
  PROVE  HolderStep
<1>1. SharedHolders = {} /\ ExclHolders = {}
  BY UnheldEmpty
<1>2. SharedHolders' = {} /\ ExclHolders' = {t}
  BY <1>1, HoldersMove
<1>3. WordCountsHolders'
  BY <1>1, <1>2 DEF WordCountsHolders
<1>4. MutualExclusion'
  BY <1>2 DEF MutualExclusion, ExclHolders, SharedHolders
<1>5. Abs!AcquireExclusive(t)
  BY <1>1, <1>2 DEF Abs!AcquireExclusive
<1>6. QED  BY <1>3, <1>4, <1>5 DEF HolderStep, Abs!LockNext

\* The writer leaves.
LEMMA LoseExclStep ==
  ASSUME TypeOK, TypeOK', WordCountsHolders, MutualExclusion,
         NEW t \in Thread, NEW q, pc' = [pc EXCEPT ![t] = q],
         pc[t] \in ExclPC, q \notin SharedPC \union ExclPC,
         state'.active = FALSE, state'.readers = state.readers
  PROVE  HolderStep
<1>1. ExclHolders = {t} /\ SharedHolders = {}
  BY MutexSets DEF ExclHolders
<1>2. SharedHolders' = {} /\ ExclHolders' = {}
  BY <1>1, HoldersMove
<1>3. WordCountsHolders'
  BY <1>1, <1>2 DEF WordCountsHolders
<1>4. MutualExclusion'
  BY <1>2 DEF MutualExclusion, ExclHolders
<1>5. Abs!ReleaseExclusive(t)
  BY <1>1, <1>2 DEF Abs!ReleaseExclusive
<1>6. QED  BY <1>3, <1>4, <1>5 DEF HolderStep, Abs!LockNext

\* The only reader becomes the writer.
LEMMA UpgradeStep ==
  ASSUME TypeOK, TypeOK', WordCountsHolders, MutualExclusion,
         NEW t \in Thread, NEW q \in ExclPC, pc' = [pc EXCEPT ![t] = q],
         pc[t] \in SharedPC, state.readers = 1,
         state'.active = TRUE, state'.readers = 0
  PROVE  HolderStep
<1>1. t \in SharedHolders /\ ExclHolders = {}
  BY DEF MutualExclusion, SharedHolders, ExclHolders
<1>2. SharedHolders = {t}
  <2>1. Cardinality(SharedHolders) = 1
    BY DEF WordCountsHolders
  <2>2. PICK x : SharedHolders = {x}
    BY <2>1, HoldersFinite, FS_Singleton
  <2>3. QED  BY <1>1, <2>2
<1>3. SharedHolders' = {} /\ ExclHolders' = {t}
  BY <1>1, <1>2, HoldersMove
<1>4. WordCountsHolders'
  BY <1>3, FS_EmptySet DEF WordCountsHolders
<1>5. MutualExclusion'
  BY <1>3 DEF MutualExclusion, ExclHolders, SharedHolders
<1>6. Abs!Upgrade(t)
  BY <1>1, <1>2, <1>3 DEF Abs!Upgrade
<1>7. QED  BY <1>4, <1>5, <1>6 DEF HolderStep, Abs!LockNext

\* The writer becomes the only reader.
LEMMA DowngradeStep ==
  ASSUME TypeOK, TypeOK', WordCountsHolders, MutualExclusion,
         NEW t \in Thread, NEW q \in SharedPC, pc' = [pc EXCEPT ![t] = q],
         pc[t] \in ExclPC, state'.active = FALSE, state'.readers = state.readers + 1
  PROVE  HolderStep
<1>1. ExclHolders = {t} /\ SharedHolders = {}
  BY MutexSets DEF ExclHolders
<1>2. SharedHolders' = {t} /\ ExclHolders' = {}
  BY <1>1, HoldersMove
<1>3. WordCountsHolders'
  <2>1. state.readers = 0
    BY <1>1, FS_EmptySet DEF WordCountsHolders
  <2>2. Cardinality(SharedHolders') = 1
    BY <1>2, FS_Singleton
  <2>3. QED  BY <1>2, <2>1, <2>2 DEF WordCountsHolders
<1>4. MutualExclusion'
  BY <1>2 DEF MutualExclusion, ExclHolders
<1>5. Abs!Downgrade(t)
  BY <1>1, <1>2 DEF Abs!Downgrade
<1>6. QED  BY <1>3, <1>4, <1>5 DEF HolderStep, Abs!LockNext

-----------------------------------------------------------------------------
(* The rest of the invariant, for steps that change the word and for loads. *)

\* A step that writes a legal word and takes t to a position that relies on
\* nothing about `cur` keeps the types, the facts about `cur` and the waiter.
LEMMA WriteStep ==
  ASSUME IInv, NEW t \in Thread, NEW q \in PCSet, pc' = [pc EXCEPT ![t] = q],
         state' \in Word, UNCHANGED writerPrioritized,
         cur' = cur \/ cur' = [cur EXCEPT ![t] = state],
         q \notin {"shared_cas", "tshared_cas", "lock_cas", "try_cas", "rlock_cas",
                  "rtry_cas", "upgrade_cas"},
         state'.waiting => q \in WaitPC \/ (state.waiting /\ pc[t] \notin WaitPC)
  PROVE  TypeOK' /\ CurFacts' /\ WaitingHasWaiter'
<1>1. TypeOK'
  BY DEF IInv, TypeOK, PCSet
<1>2. CurFacts'
  BY DEF IInv, TypeOK, CurFacts
<1>3. WaitingHasWaiter'
  BY DEF IInv, TypeOK, WaitingHasWaiter
<1>4. QED  BY <1>1, <1>2, <1>3

\* A load changes neither the word nor the holders; its target position may
\* rely on what was loaded.
LEMMA LoadStep ==
  ASSUME IInv, NEW t \in Thread, NEW p, NEW q \in PCSet, Load(t, p, q),
         p \in SharedPC <=> q \in SharedPC,
         p \in ExclPC <=> q \in ExclPC,
         p \in WaitPC => q \in WaitPC,
         q \in {"shared_cas", "tshared_cas"} => ~state.active,
         q \in {"lock_cas", "try_cas", "rlock_cas", "rtry_cas"} => Unheld(state),
         q = "upgrade_cas" => state.readers = 1 /\ ~state.active
  PROVE  IInv' /\ HolderStep
<1>1. TypeOK'
  BY DEF IInv, TypeOK, PCSet, Load
<1>2. CurFacts'
  BY DEF IInv, TypeOK, CurFacts, Load, Unheld
<1>3. WaitingHasWaiter'
  BY DEF IInv, TypeOK, WaitingHasWaiter, Load
<1>4. HolderStep
  BY <1>1, QuietStep DEF IInv, Load
<1>5. QED  BY <1>1, <1>2, <1>3, <1>4 DEF IInv, HolderStep

\* A compare-exchange that fails is a load.
LEMMA CasCases ==
  ASSUME NEW t \in Thread, NEW p, NEW w, NEW q, NEW r, CompareExchange(t, p, w, q, r)
  PROVE  \/ Load(t, p, r)
         \/ /\ pc[t] = p /\ state = cur[t] /\ state' = w
            /\ pc' = [pc EXCEPT ![t] = q] /\ cur' = [cur EXCEPT ![t] = state]
            /\ UNCHANGED writerPrioritized
  BY DEF CompareExchange, Load

-----------------------------------------------------------------------------
(* Every action of a thread keeps the invariant and is a step of RWLock.   *)

\* A reader is counted.
LEMMA ReaderCounted ==
  ASSUME IInv, NEW t \in Thread, pc[t] \in SharedPC
  PROVE  state.readers \in Nat \ {0} /\ ~state.active
<1>1. t \in SharedHolders /\ ExclHolders = {}
  BY DEF IInv, MutualExclusion, SharedHolders, ExclHolders
<1>2. Cardinality(SharedHolders) # 0
  BY <1>1, HoldersFinite, FS_EmptySet
<1>3. QED  BY <1>1, <1>2 DEF IInv, WordCountsHolders, TypeOK, Word

\* The calls and the loads.
LEMMA LoadActions ==
  ASSUME IInv, NEW t \in Thread,
         \/ LockSharedCall(t) \/ LockCall(t) \/ LockSharedLoad(t) \/ TrySharedLoad(t)
         \/ SetWaitingLoad(t) \/ LockLoad(t) \/ ReaderPrioLoad(t) \/ TryLockLoad(t)
         \/ TryLockReload(t) \/ TryUpgradeLoad(t) \/ DowngradeLoad(t)
  PROVE  IInv' /\ HolderStep
<1> USE DEF PCSet, WaitPC, OtherPC
<1>1. ASSUME NEW op, NEW q \in {"shared_load", "wait_load", "rlock_load"}, Call(t, op, q)
      PROVE  IInv' /\ HolderStep
  <2>1. TypeOK' /\ CurFacts' /\ WaitingHasWaiter'
    <3>1. TypeOK'
      BY <1>1 DEF IInv, TypeOK, Call
    <3>2. CurFacts'
      BY <1>1 DEF IInv, TypeOK, CurFacts, Call
    <3>3. WaitingHasWaiter'
      BY <1>1 DEF IInv, TypeOK, WaitingHasWaiter, Call
    <3>4. QED  BY <3>1, <3>2, <3>3
  <2>2. HolderStep
    BY <1>1, <2>1, QuietStep DEF IInv, Call
  <2>3. QED  BY <2>1, <2>2 DEF IInv, HolderStep
<1>2. CASE LockSharedCall(t)
  BY <1>1, <1>2 DEF LockSharedCall
<1>3. CASE LockCall(t)
  BY <1>1, <1>3 DEF LockCall
<1>4. CASE LockSharedLoad(t)
  BY <1>4, LoadStep DEF LockSharedLoad, BlocksReaders
<1>5. CASE TrySharedLoad(t)
  BY <1>5, LoadStep DEF TrySharedLoad, BlocksReaders
<1>6. CASE SetWaitingLoad(t)
  BY <1>6, LoadStep DEF SetWaitingLoad
<1>7. CASE LockLoad(t)
  BY <1>7, LoadStep DEF LockLoad
<1>8. CASE ReaderPrioLoad(t)
  BY <1>8, LoadStep DEF ReaderPrioLoad
<1>9. CASE TryLockLoad(t)
  BY <1>9, LoadStep DEF TryLockLoad
<1>10. CASE TryLockReload(t)
  BY <1>10, LoadStep DEF TryLockReload
<1>11. CASE TryUpgradeLoad(t)
  BY <1>11, LoadStep DEF TryUpgradeLoad
<1>12. CASE DowngradeLoad(t)
  BY <1>12, LoadStep DEF DowngradeLoad
<1>13. QED
  BY <1>2, <1>3, <1>4, <1>5, <1>6, <1>7, <1>8, <1>9, <1>10, <1>11, <1>12

\* A reader comes in: the compare-exchanges of lock_shared and try_shared_lock.
LEMMA ReaderInActions ==
  ASSUME IInv, NEW t \in Thread, LockSharedCas(t) \/ TrySharedCas(t)
  PROVE  IInv' /\ HolderStep
<1> USE DEF PCSet, WaitPC, OtherPC
<1>1. ASSUME NEW p \in {"shared_cas", "tshared_cas"}, NEW r \in {"shared_load", "idle"},
             CompareExchange(t, p, AddReader(cur[t]), "shared", r)
      PROVE  IInv' /\ HolderStep
  <2>1. CASE Load(t, p, r)
    BY <2>1, LoadStep
  <2>2. CASE /\ pc[t] = p /\ state = cur[t] /\ state' = AddReader(cur[t])
             /\ pc' = [pc EXCEPT ![t] = "shared"] /\ cur' = [cur EXCEPT ![t] = state]
             /\ UNCHANGED writerPrioritized
    <3>1. ~state.active /\ state' \in Word /\ state'.waiting = state.waiting
      BY <2>2 DEF IInv, CurFacts, TypeOK, Word, AddReader
    <3>2. TypeOK' /\ CurFacts' /\ WaitingHasWaiter'
      BY <2>2, <3>1, WriteStep
    <3>3. HolderStep
      BY <2>2, <3>1, <3>2, GainSharedStep DEF IInv
    <3>4. QED  BY <3>2, <3>3 DEF IInv, HolderStep
  <2>3. QED  BY <1>1, <2>1, <2>2, CasCases
<1>2. QED  BY <1>1 DEF LockSharedCas, TrySharedCas

\* A writer comes in: the last compare-exchanges of lock and try_lock.
LEMMA WriterInActions ==
  ASSUME IInv, NEW t \in Thread,
         LockCas(t) \/ ReaderPrioCas(t) \/ TryLockCas(t) \/ ReaderPrioTryCas(t)
  PROVE  IInv' /\ HolderStep
<1> USE DEF PCSet, WaitPC, OtherPC
<1>1. ASSUME NEW p \in {"lock_cas", "try_cas", "rlock_cas", "rtry_cas"},
             NEW w \in Word, w.active = TRUE, w.readers = cur[t].readers,
             w.waiting => cur[t].waiting /\ p \in {"rlock_cas", "rtry_cas"},
             NEW r \in {"lock_load", "rlock_load", "try_clear", "idle"},
             p \in WaitPC => r \in WaitPC,
             CompareExchange(t, p, w, "excl", r)
      PROVE  IInv' /\ HolderStep
  <2>1. CASE Load(t, p, r)
    BY <1>1, <2>1, LoadStep
  <2>2. CASE /\ pc[t] = p /\ state = cur[t] /\ state' = w
             /\ pc' = [pc EXCEPT ![t] = "excl"] /\ cur' = [cur EXCEPT ![t] = state]
             /\ UNCHANGED writerPrioritized
    <3>1. /\ Unheld(state) /\ state' \in Word
          /\ state'.active = TRUE /\ state'.readers = state.readers
          /\ state'.waiting => state.waiting /\ p \in {"rlock_cas", "rtry_cas"}
      BY <1>1, <2>2 DEF IInv, CurFacts, TypeOK, Word
    <3>2. TypeOK' /\ CurFacts' /\ WaitingHasWaiter'
      BY <2>2, <3>1, WriteStep
    <3>3. HolderStep
      BY <2>2, <3>1, <3>2, GainExclStep DEF IInv
    <3>4. QED  BY <3>2, <3>3 DEF IInv, HolderStep
  <2>3. QED  BY <1>1, <2>1, <2>2, CasCases
<1>2. CASE LockCas(t)
  <2> DEFINE w == [cur[t] EXCEPT !.active = TRUE, !.waiting = FALSE]
  <2>1. w \in Word /\ w.active = TRUE /\ w.readers = cur[t].readers /\ ~w.waiting
    BY DEF IInv, TypeOK, Word
  <2>2. CompareExchange(t, "lock_cas", w, "excl", "lock_load")
    BY <1>2 DEF LockCas
  <2> HIDE DEF w
  <2>3. QED  BY <1>1, <2>1, <2>2
<1>3. CASE ReaderPrioCas(t)
  <2> DEFINE w == [cur[t] EXCEPT !.active = TRUE]
  <2>1. w \in Word /\ w.active = TRUE /\ w.readers = cur[t].readers /\ w.waiting = cur[t].waiting
    BY DEF IInv, TypeOK, Word
  <2>2. CompareExchange(t, "rlock_cas", w, "excl", "rlock_load")
    BY <1>3 DEF ReaderPrioCas
  <2> HIDE DEF w
  <2>3. QED  BY <1>1, <2>1, <2>2
<1>4. CASE TryLockCas(t)
  <2> DEFINE w == [cur[t] EXCEPT !.active = TRUE, !.waiting = FALSE]
  <2>1. w \in Word /\ w.active = TRUE /\ w.readers = cur[t].readers /\ ~w.waiting
    BY DEF IInv, TypeOK, Word
  <2>2. CompareExchange(t, "try_cas", w, "excl", "try_clear")
    BY <1>4 DEF TryLockCas
  <2> HIDE DEF w
  <2>3. QED  BY <1>1, <2>1, <2>2
<1>5. CASE ReaderPrioTryCas(t)
  <2> DEFINE w == [cur[t] EXCEPT !.active = TRUE]
  <2>1. w \in Word /\ w.active = TRUE /\ w.readers = cur[t].readers /\ w.waiting = cur[t].waiting
    BY DEF IInv, TypeOK, Word
  <2>2. CompareExchange(t, "rtry_cas", w, "excl", "idle")
    BY <1>5 DEF ReaderPrioTryCas
  <2> HIDE DEF w
  <2>3. QED  BY <1>1, <2>1, <2>2
<1>6. QED  BY <1>2, <1>3, <1>4, <1>5

\* A writer announces itself or takes its announcement back.
LEMMA WaitingActions ==
  ASSUME IInv, NEW t \in Thread,
         SetWaitingCas(t) \/ TryLockAnnounce(t) \/ TryLockClear(t)
  PROVE  IInv' /\ HolderStep
<1> USE DEF PCSet, WaitPC, OtherPC
<1>1. ASSUME NEW p \in {"wait_cas", "tlock_cas"}, NEW q \in {"lock_load", "try_load"},
             NEW r \in {"wait_load", "idle"},
             CompareExchange(t, p, [cur[t] EXCEPT !.waiting = TRUE], q, r)
      PROVE  IInv' /\ HolderStep
  <2>1. CASE Load(t, p, r)
    BY <2>1, LoadStep
  <2>2. CASE /\ pc[t] = p /\ state = cur[t] /\ state' = [cur[t] EXCEPT !.waiting = TRUE]
             /\ pc' = [pc EXCEPT ![t] = q] /\ cur' = [cur EXCEPT ![t] = state]
             /\ UNCHANGED writerPrioritized
    <3>1. state' \in Word /\ state'.active = state.active /\ state'.readers = state.readers
      BY <2>2 DEF IInv, TypeOK, Word
    <3>2. TypeOK' /\ CurFacts' /\ WaitingHasWaiter'
      BY <2>2, <3>1, WriteStep
    <3>3. HolderStep
      BY <2>2, <3>1, <3>2, QuietStep DEF IInv
    <3>4. QED  BY <3>2, <3>3 DEF IInv, HolderStep
  <2>3. QED  BY <1>1, <2>1, <2>2, CasCases
<1>2. CASE SetWaitingCas(t)
  BY <1>1, <1>2 DEF SetWaitingCas
<1>3. CASE TryLockAnnounce(t)
  BY <1>1, <1>3 DEF TryLockAnnounce
<1>4. CASE TryLockClear(t)
  <2>1. /\ pc[t] = "try_clear" /\ pc' = [pc EXCEPT ![t] = "idle"] /\ cur' = cur
        /\ UNCHANGED writerPrioritized
        /\ state' \in Word /\ state'.waiting = FALSE
        /\ state'.active = state.active /\ state'.readers = state.readers
    BY <1>4 DEF TryLockClear, FetchOp, IInv, TypeOK, Word
  <2>2. TypeOK' /\ CurFacts' /\ WaitingHasWaiter'
    BY <2>1, WriteStep
  <2>3. HolderStep
    BY <2>1, <2>2, QuietStep DEF IInv
  <2>4. QED  BY <2>2, <2>3 DEF IInv, HolderStep
<1>5. QED  BY <1>2, <1>3, <1>4

\* Adding and dropping a reader, field by field.
LEMMA ReaderArithmetic ==
  ASSUME NEW w \in Word
  PROVE  /\ AddReader(w) = [active |-> w.active, waiting |-> w.waiting, readers |-> w.readers + 1]
         /\ DropReader(w) = [active |-> w.active, waiting |-> w.waiting, readers |-> w.readers - 1]
  BY DEF Word, AddReader, DropReader

\* A holder leaves or changes its mode.
LEMMA HolderActions ==
  ASSUME IInv, NEW t \in Thread,
         UnlockShared(t) \/ Unlock(t) \/ TryUpgradeCas(t) \/ DowngradeCas(t)
  PROVE  IInv' /\ HolderStep
<1> USE DEF PCSet, WaitPC, OtherPC
<1>1. CASE UnlockShared(t)
  <2>1. /\ pc[t] = "shared" /\ pc' = [pc EXCEPT ![t] = "idle"] /\ cur' = cur
        /\ UNCHANGED writerPrioritized
        /\ state' = DropReader(state)
    BY <1>1 DEF UnlockShared, FetchOp
  <2>2. state' \in Word /\ state'.waiting = state.waiting
    <3>1. state' = [active |-> state.active, waiting |-> state.waiting,
                    readers |-> state.readers - 1]
      BY <2>1, ReaderArithmetic DEF IInv, TypeOK
    <3>2. state.readers - 1 \in Nat
      BY <2>1, ReaderCounted
    <3>3. QED  BY <3>1, <3>2 DEF IInv, TypeOK, Word
  <2>3. TypeOK' /\ CurFacts' /\ WaitingHasWaiter'
    BY <2>1, <2>2, WriteStep
  <2>4. HolderStep
    BY <2>1, <2>3, LoseSharedStep DEF IInv
  <2>5. QED  BY <2>3, <2>4 DEF IInv, HolderStep
<1>2. CASE Unlock(t)
  <2>1. /\ pc[t] = "excl" /\ pc' = [pc EXCEPT ![t] = "idle"] /\ cur' = cur
        /\ UNCHANGED writerPrioritized
        /\ state' = [state EXCEPT !.active = FALSE]
    BY <1>2 DEF Unlock, FetchOp
  <2>2. /\ state' \in Word /\ state'.waiting = state.waiting
        /\ state'.active = FALSE /\ state'.readers = state.readers
    BY <2>1 DEF IInv, TypeOK, Word
  <2>3. TypeOK' /\ CurFacts' /\ WaitingHasWaiter'
    BY <2>1, <2>2, WriteStep
  <2>4. HolderStep
    BY <2>1, <2>2, <2>3, LoseExclStep DEF IInv
  <2>5. QED  BY <2>3, <2>4 DEF IInv, HolderStep
<1>3. CASE TryUpgradeCas(t)
  <2> DEFINE w == [DropReader(cur[t]) EXCEPT !.active = TRUE]
  <2>1. CASE Load(t, "upgrade_cas", "shared")
    BY <2>1, LoadStep
  <2>2. CASE /\ pc[t] = "upgrade_cas" /\ state = cur[t] /\ state' = w
             /\ pc' = [pc EXCEPT ![t] = "excl"] /\ cur' = [cur EXCEPT ![t] = state]
             /\ UNCHANGED writerPrioritized
    <3>1. /\ state.readers = 1 /\ state' \in Word /\ state'.waiting = state.waiting
          /\ state'.active = TRUE /\ state'.readers = 0
      <4>1. state.readers = 1 /\ state \in Word
        BY <2>2 DEF IInv, CurFacts, TypeOK
      <4>2. state' = [active |-> TRUE, waiting |-> state.waiting, readers |-> state.readers - 1]
        <5> DEFINE d == DropReader(cur[t])
        <5>1. d = [active |-> state.active, waiting |-> state.waiting, readers |-> state.readers - 1]
          BY <2>2, <4>1, ReaderArithmetic
        <5>2. state' = [d EXCEPT !.active = TRUE]
          BY <2>2
        <5> HIDE DEF d
        <5>3. QED  BY <5>1, <5>2
      <4>3. QED  BY <4>1, <4>2 DEF Word
    <3>2. TypeOK' /\ CurFacts' /\ WaitingHasWaiter'
      BY <2>2, <3>1, WriteStep
    <3>3. HolderStep
      BY <2>2, <3>1, <3>2, UpgradeStep DEF IInv
    <3>4. QED  BY <3>2, <3>3 DEF IInv, HolderStep
  <2>3. CompareExchange(t, "upgrade_cas", w, "excl", "shared")
    BY <1>3 DEF TryUpgradeCas
  <2> HIDE DEF w
  <2>4. QED  BY <2>1, <2>2, <2>3, CasCases
<1>4. CASE DowngradeCas(t)
  <2> DEFINE w == AddReader([cur[t] EXCEPT !.active = FALSE, !.waiting = FALSE])
  <2>1. CASE Load(t, "downgrade_cas", "downgrade_cas")
    BY <2>1, LoadStep
  <2>2. CASE /\ pc[t] = "downgrade_cas" /\ state = cur[t] /\ state' = w
             /\ pc' = [pc EXCEPT ![t] = "shared"] /\ cur' = [cur EXCEPT ![t] = state]
             /\ UNCHANGED writerPrioritized
    <3>1. /\ state' \in Word /\ state'.waiting = FALSE
          /\ state'.active = FALSE /\ state'.readers = state.readers + 1
      <4> DEFINE v == [cur[t] EXCEPT !.active = FALSE, !.waiting = FALSE]
      <4>1. v \in Word /\ ~v.active /\ ~v.waiting /\ v.readers = state.readers
        BY <2>2 DEF IInv, TypeOK, Word
      <4>2. state' = [active |-> v.active, waiting |-> v.waiting, readers |-> v.readers + 1]
        BY <2>2, <4>1, ReaderArithmetic
      <4> HIDE DEF v
      <4>3. QED  BY <4>1, <4>2 DEF Word
    <3>2. TypeOK' /\ CurFacts' /\ WaitingHasWaiter'
      BY <2>2, <3>1, WriteStep
    <3>3. HolderStep
      BY <2>2, <3>1, <3>2, DowngradeStep DEF IInv
    <3>4. QED  BY <3>2, <3>3 DEF IInv, HolderStep
  <2>3. CompareExchange(t, "downgrade_cas", w, "shared", "downgrade_cas")
    BY <1>4 DEF DowngradeCas
  <2> HIDE DEF w
  <2>4. QED  BY <2>1, <2>2, <2>3, CasCases
<1>5. QED  BY <1>1, <1>2, <1>3, <1>4

-----------------------------------------------------------------------------
(* The theorems.                                                           *)

\* Every step of the latch keeps the invariant and is a step of RWLock or
\* invisible there.
LEMMA NextStep ==
  ASSUME IInv, [Next]_vars
  PROVE  IInv' /\ [Abs!LockNext]_(Abs!lockVars)
<1>1. CASE UNCHANGED vars
  <2>1. SharedHolders' = SharedHolders /\ ExclHolders' = ExclHolders
    BY <1>1 DEF vars, SharedHolders, ExclHolders
  <2>2. IInv'
    BY <1>1, <2>1 DEF vars, IInv, TypeOK, WordCountsHolders, MutualExclusion,
                      WaitingHasWaiter, CurFacts
  <2>3. QED  BY <2>1, <2>2 DEF Abs!lockVars
<1>2. ASSUME NEW t \in Thread,
             \/ LockSharedCall(t) \/ LockCall(t)
             \/ TrySharedLoad(t) \/ TryLockLoad(t) \/ TryUpgradeLoad(t) \/ DowngradeLoad(t)
             \/ Progress(t)
      PROVE  IInv' /\ HolderStep
  BY <1>2, LoadActions, ReaderInActions, WriterInActions, WaitingActions, HolderActions
     DEF Progress
<1>3. QED  BY <1>1, <1>2 DEF Next, HolderStep

\* The initial state satisfies the invariant.
LEMMA InitStep ==
  ASSUME Init
  PROVE  IInv /\ Abs!LockInit
<1>1. SharedHolders = {} /\ ExclHolders = {}
  BY DEF Init, SharedHolders, ExclHolders
<1>2. TypeOK
  BY DEF Init, TypeOK, Free, Word, OtherPC
<1>3. WordCountsHolders
  BY <1>1, FS_EmptySet DEF Init, Free, WordCountsHolders
<1>4. MutualExclusion /\ WaitingHasWaiter /\ CurFacts
  BY DEF Init, Free, MutualExclusion, WaitingHasWaiter, CurFacts
<1>5. QED  BY <1>1, <1>2, <1>3, <1>4 DEF IInv, Abs!LockInit

\* IInv is an invariant of the latch.
THEOREM InvariantHolds == Spec => []IInv
<1>1. Init => IInv
  BY InitStep
<1>2. IInv /\ [Next]_vars => IInv'
  BY NextStep
<1>3. QED  BY <1>1, <1>2, PTL DEF Spec

\* lock, try_lock and try_upgrade give exclusive access, for any number of
\* threads and any interleaving of their atomic accesses.
THEOREM LatchExcludes == Spec => []MutualExclusion
<1>1. IInv => MutualExclusion
  BY DEF IInv
<1>2. QED  BY <1>1, InvariantHolds, PTL

\* The word counts the holders: the assertions of unlock_shared, unlock and
\* downgrade never fire.
THEOREM WordIsExact == Spec => []WordCountsHolders
<1>1. IInv => WordCountsHolders
  BY DEF IInv
<1>2. QED  BY <1>1, InvariantHolds, PTL

\* The waiting bit is never left set without a writer that will clear it.
THEOREM WaitingBitOwned == Spec => []WaitingHasWaiter
<1>1. IInv => WaitingHasWaiter
  BY DEF IInv
<1>2. QED  BY <1>1, InvariantHolds, PTL

\* All of that together: the word and the calls of RWSpinMutex agree, whatever
\* the number of threads.
THEOREM LatchIsSound == Spec => []LatchSound
<1>1. IInv => LatchSound
  BY DEF IInv, LatchSound
<1>2. QED  BY <1>1, InvariantHolds, PTL

\* RWSpinMutex implements the atomic read/write lock RWLock.
THEOREM LatchImplementsRWLock == Spec => ImplementsRWLock
<1>1. Init => Abs!LockInit
  BY InitStep
<1>2. IInv /\ [Next]_vars => [Abs!LockNext]_(Abs!lockVars)
  BY NextStep
<1>3. QED  BY <1>1, <1>2, InvariantHolds, PTL DEF Spec, ImplementsRWLock, Abs!LockSpec
=============================================================================
