------------------------------ MODULE HotScan -------------------------------
(***************************************************************************)
(* The hot table scanner of TransactionExecutor and the scan tasks of the  *)
(* three benchmarks.  A task is a cursor that lives across calls: it reads *)
(* every row of a batch of warehouses (TPC-C) or users (SmallBank, TATP),  *)
(* table by table, in one transaction, and moves to the next batch when    *)
(* that transaction commits.  A read or the commit may fail, and the       *)
(* scanner may be stopped, between any two rows.                           *)
(***************************************************************************)
EXTENDS Integers, FiniteSets

CONSTANTS
    TpccWidth,          \* warehouses_per_scan
    UserWidth,          \* users_per_scan
    Units,              \* warehouses or users in all partitions
    FirstUnit,          \* the first one of this partition
    ScanDistricts, ScanItems, ScanCustomers, ScanTypes

VARIABLES
    task,       \* the task and its cursor
    should_run,
    reading     \* the rows read by the open transaction

hsVars == <<task, should_run, reading>>

\* Warehouses are numbered from 1, users from 0.
LowestUnit(kind) == IF kind = "tpcc" THEN 1 ELSE 0
HighestUnit(kind) == LowestUnit(kind) + Units - 1
WidthOf(kind) == IF kind = "tpcc" THEN TpccWidth ELSE UserWidth

\* The units of the batch that the cursor is in.
BatchUnits ==
    {u \in task.start .. HighestUnit(task.kind) : u < task.start + WidthOf(task.kind)}

HsInit(kinds) ==
    /\ \E k \in kinds :
          task = [kind |-> k, start |-> FirstUnit, in_scan |-> FALSE, unit |-> FirstUnit, d |-> 1,
                  x |-> 1, table |-> 0, pc |-> "call", last |-> {}]
    /\ should_run = TRUE
    /\ reading = {}

\* The head of the task: a new batch starts with the first row.
StartBatch ==
    /\ task.pc = "call" /\ should_run /\ ~task.in_scan
    /\ task' = [task EXCEPT !.in_scan = TRUE, !.unit = task.start, !.d = 1, !.x = 1, !.table = 0]
    /\ UNCHANGED <<should_run, reading>>

\* SearchRecord returned false: the transaction is gone, the batch starts
\* again.
ScanAborts ==
    /\ task' = [task EXCEPT !.in_scan = FALSE]
    /\ reading' = {}

\* The next unit of the batch, or the first unit again for the next table.
NextUnit(t) ==
    IF t.unit + 1 \in BatchUnits THEN [t EXCEPT !.unit = @ + 1]
    ELSE [t EXCEPT !.table = @ + 1, !.unit = t.start]

Reads(row) == reading' = reading \cup {row}

Scanning(kind, table) ==
    /\ task.pc = "call" /\ should_run /\ task.in_scan
    /\ task.kind = kind /\ task.table = table
    /\ UNCHANGED should_run

ScanDistrict ==
    /\ Scanning("tpcc", 0)
    /\ \/ /\ Reads(<<"DISTRICT", task.unit, task.d>>)
          /\ task' = IF task.d < ScanDistricts THEN [task EXCEPT !.d = @ + 1]
                     ELSE NextUnit([task EXCEPT !.d = 1])
       \/ ScanAborts

ScanStock ==
    /\ Scanning("tpcc", 1)
    /\ \/ /\ Reads(<<"STOCK", task.unit, task.x>>)
          /\ task' = IF task.x < ScanItems THEN [task EXCEPT !.x = @ + 1]
                     ELSE NextUnit([task EXCEPT !.x = 1])
       \/ ScanAborts

ScanWarehouse ==
    /\ Scanning("tpcc", 2)
    /\ \/ /\ Reads(<<"WAREHOUSE", task.unit, 0>>)
          /\ task' = IF task.unit + 1 \in BatchUnits THEN [task EXCEPT !.unit = @ + 1]
                     ELSE [task EXCEPT !.table = 3, !.unit = task.start, !.d = 1, !.x = 1]
       \/ ScanAborts

\* After a commit the cursor moves to the next batch of all partitions.
NextBatch(t) ==
    LET next == t.start + WidthOf(t.kind)
    IN  [t EXCEPT !.start = IF next > HighestUnit(t.kind) THEN LowestUnit(t.kind) ELSE next,
                  !.in_scan = FALSE]

\* The last row of the batch: CommitTransaction, which may fail.
CommitScan(row) ==
    \/ /\ task' = [NextBatch(task) EXCEPT !.last = reading \cup {row}]
       /\ reading' = {}
    \/ ScanAborts

\* At the end of a warehouse the district cursor is left where it is.
ScanCustomer ==
    /\ Scanning("tpcc", 3)
    /\ LET row == <<"CUSTOMER", task.unit, <<task.d, task.x>>>>
       IN  \/ /\ task.x < ScanCustomers
              /\ Reads(row)
              /\ task' = [task EXCEPT !.x = @ + 1]
           \/ /\ task.x = ScanCustomers /\ task.d < ScanDistricts
              /\ Reads(row)
              /\ task' = [task EXCEPT !.x = 1, !.d = @ + 1]
           \/ /\ task.x = ScanCustomers /\ task.d = ScanDistricts
              /\ task.unit + 1 \in BatchUnits
              /\ Reads(row)
              /\ task' = [task EXCEPT !.x = 1, !.unit = @ + 1]
           \/ /\ task.x = ScanCustomers /\ task.d = ScanDistricts
              /\ task.unit + 1 \notin BatchUnits
              /\ CommitScan(row)
           \/ ScanAborts

ScanSavings ==
    /\ Scanning("smallbank", 0)
    /\ \/ Reads(<<"SAVINGS", task.unit, 0>>) /\ task' = NextUnit(task)
       \/ ScanAborts

ScanChecking ==
    /\ Scanning("smallbank", 1)
    /\ LET row == <<"CHECKING", task.unit, 0>>
       IN  \/ /\ task.unit + 1 \in BatchUnits
              /\ Reads(row) /\ task' = [task EXCEPT !.unit = @ + 1]
           \/ task.unit + 1 \notin BatchUnits /\ CommitScan(row)
           \/ ScanAborts

ScanAccess ==
    /\ Scanning("tatp", 0)
    /\ \/ /\ Reads(<<"ACCESS_INFO", task.unit, task.x>>)
          /\ task' = IF task.x < ScanTypes THEN [task EXCEPT !.x = @ + 1]
                     ELSE NextUnit([task EXCEPT !.x = 1])
       \/ ScanAborts

ScanFacility ==
    /\ Scanning("tatp", 1)
    /\ LET row == <<"SPECIAL_FACILITY", task.unit, task.x>>
       IN  \/ /\ task.x < ScanTypes
              /\ Reads(row) /\ task' = [task EXCEPT !.x = @ + 1]
           \/ /\ task.x = ScanTypes /\ task.unit + 1 \in BatchUnits
              /\ Reads(row) /\ task' = [task EXCEPT !.x = 1, !.unit = @ + 1]
           \/ /\ task.x = ScanTypes /\ task.unit + 1 \notin BatchUnits
              /\ CommitScan(row)
           \/ ScanAborts

\* StopHotTableScanner.
StopScanner ==
    /\ should_run
    /\ should_run' = FALSE
    /\ UNCHANGED <<task, reading>>

\* The loops end; a transaction that is still open is committed.
EndScanner ==
    /\ ~should_run /\ task.pc = "call"
    /\ task' = [task EXCEPT !.pc = "over"]
    /\ reading' = {}
    /\ UNCHANGED should_run

HsNext ==
    \/ StartBatch \/ StopScanner \/ EndScanner
    \/ ScanDistrict \/ ScanStock \/ ScanWarehouse \/ ScanCustomer
    \/ ScanSavings \/ ScanChecking \/ ScanAccess \/ ScanFacility

\* Everything a batch has.
RowsOfUnits(kind, S) ==
    CASE kind = "tpcc" ->
            {<<"DISTRICT", u, d>> : u \in S, d \in 1 .. ScanDistricts}
            \cup {<<"STOCK", u, i>> : u \in S, i \in 1 .. ScanItems}
            \cup {<<"WAREHOUSE", u, 0>> : u \in S}
            \cup {<<"CUSTOMER", u, <<d, c>>>> : u \in S, d \in 1 .. ScanDistricts, c \in 1 .. ScanCustomers}
      [] kind = "smallbank" -> {<<"SAVINGS", u, 0>> : u \in S} \cup {<<"CHECKING", u, 0>> : u \in S}
      [] kind = "tatp" ->
            {<<"ACCESS_INFO", u, t>> : u \in S, t \in 1 .. ScanTypes}
            \cup {<<"SPECIAL_FACILITY", u, t>> : u \in S, t \in 1 .. ScanTypes}

(***************************************************************************)
(* A scan that commits has read every row of its batch, and only those:    *)
(* the cursors of the tables and the restart after an abort leave nothing  *)
(* out ("Create scan task that scans all data for 10% of warehouses per    *)
(* transaction").                                                          *)
(***************************************************************************)
ScanCoversBatch ==
    task.last # {} => task.last = RowsOfUnits(task.kind, {row[2] : row \in task.last})

(***************************************************************************)
(* The batches go round all partitions: the cursor stays on a unit that    *)
(* exists, and a batch is never empty.                                     *)
(***************************************************************************)
CursorInRange ==
    /\ task.start \in LowestUnit(task.kind) .. HighestUnit(task.kind)
    /\ task.in_scan => task.unit \in BatchUnits
=============================================================================
