------------------------------ MODULE TxnStore ------------------------------
(***************************************************************************)
(* What the alternative transaction managers (builds LOCK, OCC and TO of   *)
(* txn/) share: tuples in pages, page latches, the access list and the     *)
(* latched pages of the transaction a worker thread runs, the retry loop   *)
(* of the executor, and the history that serializability speaks of.        *)
(*                                                                         *)
(* A page latch is the promise that the SELCC modules check: readers share *)
(* it, a writer has it alone.  A thread runs one program, a sequence of    *)
(* accesses, again and again until it commits.                             *)
(***************************************************************************)
EXTENDS Integers, Sequences, FiniteSets

CONSTANTS
    Txns,      \* worker threads, each with one transaction
    Tuples,    \* tuple addresses, in address order
    PageOf,    \* TOPAGE: the page of a tuple
    Programs,  \* thread -> what its transaction may be asked to do
    MaxTries   \* thread -> bound on the attempts of its transaction

Pages == {PageOf[k] : k \in Tuples}

ASSUME TuplesAreOrdered == Tuples \subseteq Nat /\ DOMAIN PageOf = Tuples

ASSUME ProgramsAccessOnce ==
    \A t \in Txns : \A p \in Programs[t] : \A i, j \in DOMAIN p : p[i].k = p[j].k => i = j

VARIABLES
    protocol,  \* the build: LOCK, OCC or TO
    tuple,     \* contents and metadata of the tuples
    latch,     \* page -> thread -> mode
    locked,    \* locked_handles_: thread -> page -> count
    pc,
    prog,      \* the program of a thread
    access,    \* access_list_
    tries,     \* attempts made
    ts,        \* start_timestamp_ (TO) or commit_ts (OCC)
    clock,     \* the global timestamp
    committed, \* history: the committed attempts, with what they read
    order      \* history: tuple -> the versions that replaced each other

storeVars == <<protocol, tuple, latch, locked, pc, prog, access, tries, ts,
               clock, committed, order>>

NoVersion == <<0, 0>>

\* The attempt of a thread: the value its writes leave.
Attempt(t) == <<t, tries[t]>>

IsRead(a) == a.type \in {"READ_ONLY", "SCAN_READ"}

\* What a thread does next.
Access(t) == prog[t][Len(access[t]) + 1]

\* A new entry of access_list_; checked says that a commit or an abort has
\* dealt with it.
Entry(a, copy) == [k |-> a.k, type |-> a.type, local |-> copy, checked |-> FALSE]

AllAccessed(t) == Len(access[t]) = Len(prog[t])

\* The latch of p can be given to t.
SharedFree(p, t) == \A u \in Txns \ {t} : latch[p][u] # "exclusive"
ExclusiveFree(p, t) == \A u \in Txns \ {t} : latch[p][u] = "none"

Free(p, t, a) == IF IsRead(a) THEN SharedFree(p, t) ELSE ExclusiveFree(p, t)

ModeFor(a) == IF IsRead(a) THEN "shared" ELSE "exclusive"

Latched(p, t, m) == [latch EXCEPT ![p][t] = m]

\* Pages of the transaction's handle table.
LockedPages(t) == {p \in Pages : locked[t][p] > 0}

StoreInit ==
    /\ protocol \in {"LOCK", "OCC", "TO"}
    /\ tuple = [k \in Tuples |-> [val |-> NoVersion, wts |-> 0, rts |-> 0, visible |-> TRUE]]
    /\ latch = [p \in Pages |-> [t \in Txns |-> "none"]]
    /\ locked = [t \in Txns |-> [p \in Pages |-> 0]]
    /\ pc = [t \in Txns |-> "idle"]
    /\ prog = [t \in Txns |-> <<>>]
    /\ access = [t \in Txns |-> <<>>]
    /\ tries = [t \in Txns |-> 0]
    /\ ts = [t \in Txns |-> 0]
    /\ clock = 1
    /\ committed = {}
    /\ order = [k \in Tuples |-> <<>>]

(***************************************************************************)
(* ProcessQueryThread takes the next parameter and calls Execute; when     *)
(* Execute returns false it calls it again with the same parameter.  The   *)
(* bound MaxTries stands for the end of the benchmark (is_finish_).        *)
(* Deletes are for LOCK and TO; CommitTransaction of OCC asserts that      *)
(* there are none.                                                         *)
(***************************************************************************)
Execute(t) ==
    /\ pc[t] = "idle"
    /\ \/ /\ tries[t] = 0
          /\ \E p \in Programs[t] :
                /\ protocol = "OCC" => \A i \in DOMAIN p : p[i].type # "DELETE_ONLY"
                /\ prog' = [prog EXCEPT ![t] = p]
       \/ /\ tries[t] \in 1 .. MaxTries[t] - 1
          /\ UNCHANGED prog
    /\ pc' = [pc EXCEPT ![t] = "running"]
    /\ tries' = [tries EXCEPT ![t] = @ + 1]
    /\ UNCHANGED <<protocol, tuple, latch, locked, access, ts, clock, committed, order>>

GiveUp(t) ==
    /\ pc[t] = "idle"
    /\ tries[t] = MaxTries[t]
    /\ pc' = [pc EXCEPT ![t] = "done"]
    /\ UNCHANGED <<protocol, tuple, latch, locked, prog, access, tries, ts, clock, committed, order>>

\* The history entry of a transaction that commits now.
Commits(t) ==
    LET accesses == {access[t][i] : i \in DOMAIN access[t]}
        written == {a.k : a \in {b \in accesses : b.type \in {"READ_WRITE", "INSERT_ONLY"}}}
    IN  /\ committed' = committed \cup
              {[id |-> Attempt(t), reads |-> {<<a.k, a.local.val>> :
                                          a \in {b \in accesses : b.type # "INSERT_ONLY"}}]}
        /\ order' = [k \in Tuples |-> IF k \in written THEN Append(order[k], Attempt(t))
                                      ELSE order[k]]

(***************************************************************************)
(* The loop over locked_handles_ that ends a transaction: each latch goes  *)
(* back on its own, others run in between.                                 *)
(***************************************************************************)
ReleaseLatch(t) ==
    /\ pc[t] \in {"committed", "aborted"}
    /\ \E p \in LockedPages(t) :
          /\ latch' = Latched(p, t, "none")
          /\ locked' = [locked EXCEPT ![t][p] = 0]
    /\ UNCHANGED <<protocol, tuple, pc, prog, access, tries, ts, clock, committed, order>>


Finish(t) ==
    /\ pc[t] \in {"committed", "aborted"}
    /\ LockedPages(t) = {}
    /\ pc' = [pc EXCEPT ![t] = IF pc[t] = "committed" THEN "done" ELSE "idle"]
    /\ access' = [access EXCEPT ![t] = <<>>]
    /\ UNCHANGED <<protocol, tuple, latch, locked, prog, tries, ts, clock, committed, order>>

(***************************************************************************)
(* Serializability of the committed attempts: no set of them in which each *)
(* must come after another one of the set.                                 *)
(***************************************************************************)
Index(k, v) == IF v = NoVersion THEN 0 ELSE CHOOSE i \in DOMAIN order[k] : order[k][i] = v

Before(a, b) ==
    /\ a # b
    /\ \E k \in Tuples :
          LET at(c) == IF c.id \in {order[k][i] : i \in DOMAIN order[k]}
                       THEN Index(k, c.id) ELSE 0
              saw(c) == {Index(k, r[2]) : r \in {q \in c.reads : q[1] = k}}
          IN  \/ at(a) > 0 /\ at(b) > at(a)
              \/ at(a) > 0 /\ at(a) \in saw(b)
              \/ at(b) > 0 /\ \E i \in saw(a) : i < at(b)

\* Every version a committed attempt read was written by a committed one.
CommittedReads ==
    \A c \in committed : \A r \in c.reads :
        r[2] = NoVersion \/ \E i \in DOMAIN order[r[1]] : order[r[1]][i] = r[2]

Acyclic ==
    \A S \in SUBSET committed \ {{}} : \E b \in S : \A a \in S : ~Before(a, b)

(***************************************************************************)
(* Serializable: the transactions that commit under LOCK and under OCC can *)
(* be put in an order that explains what each of them read, and none has   *)
(* read what an aborted attempt wrote.  (TO promises less: an abort        *)
(* restores a copy it took before it gave the latch back.)                 *)
(***************************************************************************)
Serializable == protocol # "TO" => CommittedReads /\ Acyclic

(***************************************************************************)
(* LatchesReturned: a thread between two attempts, or at the end, holds no *)
(* page latch, and its handle table says of every page what the page says  *)
(* of the thread.                                                          *)
(***************************************************************************)
LatchesReturned ==
    \A t \in Txns, p \in Pages :
        /\ pc[t] \in {"idle", "done"} => latch[p][t] = "none"
        /\ latch[p][t] # "none" <=> p \in LockedPages(t)

StoreTypeOK ==
    /\ protocol \in {"LOCK", "OCC", "TO"}
    /\ \A k \in Tuples : tuple[k].wts \in 0 .. clock /\ tuple[k].rts \in 0 .. clock
    /\ \A p \in Pages, t \in Txns : latch[p][t] \in {"none", "shared", "exclusive"}
    /\ \A t \in Txns : tries[t] \in 0 .. MaxTries[t] /\ prog[t] \in Programs[t] \cup {<<>>}

=============================================================================
