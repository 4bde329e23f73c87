------------------------------ MODULE Executor ------------------------------
(***************************************************************************)
(* TransactionExecutor: worker threads run the stored procedures of a      *)
(* benchmark, each over its own batch of parameters, retrying a procedure  *)
(* until it commits; the first worker at the end of its batch ends all of  *)
(* them, and a recovery thread may Pause and Resume them.                  *)
(*                                                                         *)
(* A procedure is a constant: the rows it asks for, in order, given what   *)
(* it has read so far, and the rows it leaves behind.  The transaction     *)
(* manager under it is its promise, which the modules of the managers      *)
(* check: rows locked without waiting until the end ("serializable"), or   *)
(* reads from the snapshot of the begin and writes that fail when the row  *)
(* has changed since ("snapshot").                                         *)
(***************************************************************************)
EXTENDS Integers, Sequences, FiniteSets, SequencesExt

CONSTANTS
    Workers,
    Needs(_, _),    \* parameter, values read -> the accesses known so far
    Leaves(_, _),   \* parameter, values read -> row -> new contents
    GivesUp(_, _),  \* parameter, values read -> the procedure aborts itself
    Missing         \* what SearchRecord leaves for a key that has no record

VARIABLES
    rows,       \* the tables: row -> contents
    level,      \* isolation_level
    batch,      \* worker -> its parameters (redirector_ptr_)
    worker,     \* worker -> where its thread is
    held,       \* worker -> rows locked by its transaction
    is_begin,
    is_finish,
    is_paused,
    active,     \* active_transactions_
    counts,     \* total_count_ and realtime_finished_count_
    pauser,     \* where the recovery thread is
    overrun     \* history: worker -> transactions begun since is_paused_ was set

exVars == <<rows, level, batch, worker, held, is_begin, is_finish, is_paused, active, counts,
            pauser, overrun>>

Idle == [pc |-> "start", at |-> 1, view |-> <<>>, snap |-> <<>>, count |-> 0]

ExInit(loaded, levels, batches, halts) ==
    /\ rows = loaded
    /\ level \in levels
    /\ batch \in batches
    /\ worker = [w \in Workers |-> Idle]
    /\ held = [w \in Workers |-> {}]
    /\ is_begin = FALSE
    /\ is_finish = FALSE
    /\ is_paused = FALSE
    /\ active = 0
    /\ counts = [total |-> 0, finished |-> 0]
    /\ pauser = IF halts THEN "ready" ELSE "off"
    /\ overrun = [w \in Workers |-> 0]

(***************************************************************************)
(* What procedures are written with: an access of a row, a row <<table,    *)
(* key>>, and a scan in key order.                                         *)
(***************************************************************************)
Rd(r) == [row |-> r, mode |-> "READ_ONLY"]
Rw(r) == [row |-> r, mode |-> "READ_WRITE"]
ForEach(n, Op(_)) == [k \in 1 .. n |-> Op(k)]

\* The iterator over a primary index: the first n keys from a key on.
FirstFrom(r, n) ==
    LET keys == {k \in DOMAIN rows : k[1] = r[1] /\ k[2] >= r[2]}
        before(k) == Cardinality({x \in keys : x[2] < k[2]})
        last == IF n < Cardinality(keys) THEN n ELSE Cardinality(keys)
    IN  [i \in 1 .. last |-> CHOOSE k \in keys : before(k) = i - 1]

ScanRows(r, n) == LET keys == FirstFrom(r, n) IN [k \in DOMAIN keys |-> Rd(keys[k])]

Param(w) == batch[w][worker[w].at]
Accesses(w) == Needs(Param(w), worker[w].view)
Goes(w, pc) == worker' = [worker EXCEPT ![w].pc = pc]

\* A thread is done: its local count goes into the total.
Adds(w) ==
    counts' = [counts EXCEPT !.total = @ + worker[w].count]

\* is_ready_ of every worker is set before the main thread sets is_begin_.
Ready(w) ==
    /\ worker[w].pc = "start"
    /\ Goes(w, "ready")
    /\ UNCHANGED <<rows, level, batch, held, is_begin, is_finish, is_paused, active, counts,
                   pauser, overrun>>

StartAll ==
    /\ ~is_begin
    /\ \A w \in Workers : worker[w].pc = "ready"
    /\ is_begin' = TRUE
    /\ worker' = [w \in Workers |-> [worker[w] EXCEPT !.pc = "next"]]
    /\ UNCHANGED <<rows, level, batch, held, is_finish, is_paused, active, counts, pauser, overrun>>

\* Mutant of NextTuple: the pause flag is not looked at.
NextUnpaused(w) ==
    /\ worker[w].pc = "next"
    /\ worker[w].at <= Len(batch[w])
    /\ Goes(w, "begin")
    /\ UNCHANGED <<rows, level, batch, held, is_begin, is_finish, is_paused, active, counts,
                   pauser, overrun>>

\* The wait at the head of the loop over the batches.
NextTuple(w) ==
    /\ worker[w].pc = "next"
    /\ worker[w].at <= Len(batch[w])
    /\ ~is_paused \/ is_finish
    /\ Goes(w, "begin")
    /\ UNCHANGED <<rows, level, batch, held, is_begin, is_finish, is_paused, active, counts,
                   pauser, overrun>>

\* active_transactions_.fetch_add, then Execute.
BeginTxn(w) ==
    /\ worker[w].pc = "begin"
    /\ active' = active + 1
    /\ worker' = [worker EXCEPT ![w].pc = "run", ![w].view = <<>>, ![w].snap = rows]
    /\ overrun' = IF is_paused THEN [overrun EXCEPT ![w] = @ + 1] ELSE overrun
    /\ UNCHANGED <<rows, level, batch, held, is_begin, is_finish, is_paused, counts, pauser>>

Has(r, table) == r \in DOMAIN table
ValueIn(table, r) == IF Has(r, table) THEN table[r] ELSE Missing

\* The promise of the transaction manager for one access.
Conflict(w, a) ==
    CASE level = "serializable" ->
            \E u \in Workers \ {w} : \E h \in held[u] :
                h.row = a.row /\ (h.mode = "READ_WRITE" \/ a.mode = "READ_WRITE")
      [] level = "snapshot" ->
            /\ a.mode = "READ_WRITE"
            /\ \/ \E u \in Workers \ {w} : \E h \in held[u] : h = a
               \/ ValueIn(rows, a.row) # ValueIn(worker[w].snap, a.row)


Observed(w, a) ==
    IF level = "snapshot" THEN ValueIn(worker[w].snap, a.row) ELSE ValueIn(rows, a.row)

\* AbortTransaction; Execute returns false.
Fails(w) ==
    /\ held' = [held EXCEPT ![w] = {}]
    /\ worker' = [worker EXCEPT ![w].pc = "failed", ![w].view = <<>>, ![w].snap = <<>>]
    /\ UNCHANGED <<rows, level, batch, is_begin, is_finish, is_paused, active, counts, pauser, overrun>>

\* SearchRecord: the next row the procedure asks for.
SearchRow(w) ==
    /\ worker[w].pc = "run"
    /\ ~GivesUp(Param(w), worker[w].view)
    /\ Len(worker[w].view) < Len(Accesses(w))
    /\ LET a == Accesses(w)[Len(worker[w].view) + 1]
       IN  \/ /\ Conflict(w, a)
              /\ Fails(w)
           \/ /\ ~Conflict(w, a)
              /\ held' = IF level = "serializable" \/ a.mode = "READ_WRITE"
                         THEN [held EXCEPT ![w] = @ \cup {a}]
                         ELSE held
              /\ worker' = [worker EXCEPT ![w].view = Append(@, Observed(w, a))]
              /\ UNCHANGED <<rows, level, batch, is_begin, is_finish, is_paused, active, counts,
                             pauser, overrun>>

\* The procedure calls AbortTransaction itself.
AbandonTxn(w) ==
    /\ worker[w].pc = "run"
    /\ GivesUp(Param(w), worker[w].view)
    /\ Fails(w)

\* CommitTransaction of a procedure that has all its rows.
CommitTxn(w) ==
    /\ worker[w].pc = "run"
    /\ ~GivesUp(Param(w), worker[w].view)
    /\ Len(worker[w].view) = Len(Accesses(w))
    /\ LET new == Leaves(Param(w), worker[w].view)
       IN  rows' = [r \in DOMAIN new \cup DOMAIN rows |-> IF Has(r, new) THEN new[r] ELSE rows[r]]
    /\ held' = [held EXCEPT ![w] = {}]
    /\ worker' = [worker EXCEPT ![w].pc = "committed", ![w].snap = <<>>]
    /\ UNCHANGED <<level, batch, is_begin, is_finish, is_paused, active, counts, pauser, overrun>>

\* After a failure: leave when the benchmark is over, else Execute again.
RetryTxn(w) ==
    /\ worker[w].pc = "failed"
    /\ \/ /\ is_finish
          /\ active' = active - 1
          /\ Adds(w)
          /\ Goes(w, "done")
       \/ /\ ~is_finish
          /\ worker' = [worker EXCEPT ![w].pc = "run", ![w].view = <<>>, ![w].snap = rows]
          /\ UNCHANGED <<active, counts>>
    /\ UNCHANGED <<rows, level, batch, held, is_begin, is_finish, is_paused, pauser, overrun>>

LeaveTxn(w) ==
    /\ worker[w].pc = "committed"
    /\ active' = active - 1
    /\ counts' = [counts EXCEPT !.finished = @ + 1]
    /\ worker' = [worker EXCEPT ![w].pc = "left", ![w].count = @ + 1, ![w].view = <<>>]
    /\ UNCHANGED <<rows, level, batch, held, is_begin, is_finish, is_paused, pauser, overrun>>

\* The check of is_finish_ at the end of the loop.
NextOrDone(w) ==
    /\ worker[w].pc = "left"
    /\ \/ /\ is_finish
          /\ Adds(w)
          /\ Goes(w, "done")
       \/ /\ ~is_finish
          /\ worker' = [worker EXCEPT ![w].pc = "next", ![w].at = @ + 1]
          /\ UNCHANGED counts
    /\ UNCHANGED <<rows, level, batch, held, is_begin, is_finish, is_paused, active, pauser, overrun>>

\* The batches are used up: this worker ends the benchmark.
EndBatches(w) ==
    /\ worker[w].pc = "next"
    /\ worker[w].at > Len(batch[w])
    /\ is_finish' = TRUE
    /\ Adds(w)
    /\ Goes(w, "done")
    /\ UNCHANGED <<rows, level, batch, held, is_begin, is_paused, active, pauser, overrun>>

\* Pause, its two steps, and Resume.
Pause ==
    /\ pauser = "ready"
    /\ is_begin
    /\ is_paused' = TRUE
    /\ pauser' = "waiting"
    /\ overrun' = [w \in Workers |-> 0]
    /\ UNCHANGED <<rows, level, batch, worker, held, is_begin, is_finish, active, counts>>

PauseReturns ==
    /\ pauser = "waiting"
    /\ active = 0
    /\ pauser' = "paused"
    /\ UNCHANGED <<rows, level, batch, worker, held, is_begin, is_finish, is_paused, active, counts,
                   overrun>>

Resume ==
    /\ pauser = "paused"
    /\ is_paused' = FALSE
    /\ pauser' = "resumed"
    /\ UNCHANGED <<rows, level, batch, worker, held, is_begin, is_finish, active, counts, overrun>>

WorkerStep(w) ==
    \/ Ready(w)
    \/ NextTuple(w)
    \/ BeginTxn(w)
    \/ SearchRow(w)
    \/ AbandonTxn(w)
    \/ CommitTxn(w)
    \/ RetryTxn(w)
    \/ LeaveTxn(w)
    \/ NextOrDone(w)
    \/ EndBatches(w)

ExNext == StartAll \/ Pause \/ PauseReturns \/ Resume \/ \E w \in Workers : WorkerStep(w)

(***************************************************************************)
(* A worker commits the parameters of its batch in order, each once: the   *)
(* retry loop neither skips one nor runs it again, the count a thread adds *)
(* to total_count_ is the number of parameters it left behind, and         *)
(* active_transactions_ is the number of threads between its two updates.  *)
(***************************************************************************)
CountsExact ==
    /\ active = Cardinality({w \in Workers : worker[w].pc \in {"run", "failed", "committed"}})
    /\ (\A w \in Workers : worker[w].pc = "done") =>
          /\ active = 0
          /\ counts.total = counts.finished
    /\ \A w \in Workers :
          worker[w].pc \in {"next", "begin", "run", "failed", "committed"} =>
              worker[w].count = worker[w].at - 1

(***************************************************************************)
(* What Pause guarantees: from the moment it sets is_paused_ until Resume  *)
(* a worker begins at most the one transaction whose check it had already  *)
(* passed, unless the benchmark ends meanwhile.                            *)
(***************************************************************************)
OverrunBounded == is_paused /\ ~is_finish => \A w \in Workers : overrun[w] <= 1

(***************************************************************************)
(* "Pause() sets the pause flag and waits for all active transactions to   *)
(* finish": when it has returned, and until Resume, no transaction runs.   *)
(***************************************************************************)
PausedIsQuiet ==
    pauser = "paused" => \A w \in Workers : worker[w].pc \notin {"run", "failed", "committed"}
=============================================================================
