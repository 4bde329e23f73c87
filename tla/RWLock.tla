------------------------------- MODULE RWLock -------------------------------
(***************************************************************************)
(* What a read/write lock with upgrade and downgrade promises, whatever    *)
(* its implementation: at any time either one thread holds it exclusively  *)
(* or any number of threads hold it shared.  Each operation takes effect   *)
(* in one step.  RWSpinMutex is shown to implement this specification.     *)
(***************************************************************************)
CONSTANT Thread

VARIABLES shared,   \* the threads that hold the lock shared
          excl      \* the threads that hold it exclusively (at most one)

lockVars == <<shared, excl>>

LockInit == shared = {} /\ excl = {}

AcquireShared(t) ==
  /\ excl = {}
  /\ t \notin shared
  /\ shared' = shared \union {t}
  /\ UNCHANGED excl

ReleaseShared(t) ==
  /\ t \in shared
  /\ shared' = shared \ {t}
  /\ UNCHANGED excl

AcquireExclusive(t) ==
  /\ shared = {} /\ excl = {}
  /\ excl' = {t}
  /\ UNCHANGED shared

ReleaseExclusive(t) ==
  /\ excl = {t}
  /\ excl' = {}
  /\ UNCHANGED shared

\* The sole reader becomes the writer without letting anyone in between.
Upgrade(t) ==
  /\ shared = {t} /\ excl = {}
  /\ shared' = {} /\ excl' = {t}

\* The writer becomes a reader without letting another writer in between.
Downgrade(t) ==
  /\ excl = {t}
  /\ excl' = {} /\ shared' = {t}

LockNext ==
  \E t \in Thread : \/ AcquireShared(t) \/ ReleaseShared(t)
                    \/ AcquireExclusive(t) \/ ReleaseExclusive(t)
                    \/ Upgrade(t) \/ Downgrade(t)

LockSpec == LockInit /\ [][LockNext]_lockVars
=============================================================================
