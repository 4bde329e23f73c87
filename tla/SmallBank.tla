----------------------------- MODULE SmallBank ------------------------------
(***************************************************************************)
(* The SmallBank benchmark: the accounts each partition loads, and the     *)
(* seven procedures over a savings and a checking balance per account.     *)
(***************************************************************************)
EXTENDS Executor, FiniteSetsExt

CONSTANTS
    Accounts,       \* num_accounts
    BankPartitions

\* FillScaleParams: the last partition takes the accounts that are left over.
AccountsOf(p) ==
    LET per == Accounts \div BankPartitions
    IN  p * per .. (IF p = BankPartitions - 1 THEN Accounts ELSE (p + 1) * per) - 1

AccountRow(c) == <<"ACCOUNTS", c>>
Savings(c) == <<"SAVINGS", c>>
Checking(c) == <<"CHECKING", c>>

\* PopulateAccounts, PopulateSavings, PopulateChecking: one visible row for
\* every id, inserted into the table's primary index.
AccountRows(ids) == [r \in {AccountRow(c) : c \in ids} |-> 0]
SavingsRows(ids) == [r \in {Savings(c) : c \in ids} |-> 3]
CheckingRows(ids) == [r \in {Checking(c) : c \in ids} |-> 3]

\* StartPopulate: the three tables, for the ids of the partition.
BankLoadedBy(p) ==
    LET ids == AccountsOf(p) IN AccountRows(ids) @@ SavingsRows(ids) @@ CheckingRows(ids)

BankLoaded == FoldSet(LAMBDA p, t : BankLoadedBy(p) @@ t, <<>>, 0 .. BankPartitions - 1)

BankTypes == {"AMALGAMATE", "BALANCE", "DEPOSIT_CHECKING", "SEND_PAYMENT", "TRANSACT_SAVINGS",
              "WRITE_CHECK", "BANK_SCAN"}

\* SmallBankSource: what the parameters of a procedure can be.
IsBankParam(p) ==
    /\ p.type \in BankTypes
    /\ IF p.type = "BANK_SCAN" THEN p.n \in 1 .. Accounts /\ p.start \in 0 .. Accounts - p.n
       ELSE p.c \in 0 .. Accounts - 1
    /\ p.type \in {"AMALGAMATE", "SEND_PAYMENT"} => p.to \in (0 .. Accounts - 1) \ {p.c}
    /\ p.type \in {"DEPOSIT_CHECKING", "SEND_PAYMENT", "TRANSACT_SAVINGS", "WRITE_CHECK"} =>
          p.amount \in 1 .. 1000

AmalgamateNeeds(p) == <<Rw(Savings(p.c)), Rw(Checking(p.c)), Rw(Checking(p.to))>>
BalanceNeeds(p) == <<Rd(Savings(p.c)), Rd(Checking(p.c))>>
DepositCheckingNeeds(p) == <<Rw(Checking(p.c))>>
SendPaymentNeeds(p) == <<Rw(Checking(p.c)), Rw(Checking(p.to))>>
TransactSavingsNeeds(p) == <<Rw(Savings(p.c))>>
WriteCheckNeeds(p) == <<Rd(Savings(p.c)), Rw(Checking(p.c))>>

\* The scan follows the primary indexes over n savings rows, then n checking
\* rows, from the same account on.
BankScanNeeds(p) == ScanRows(Savings(p.start), p.n) \o ScanRows(Checking(p.start), p.n)

BankNeeds(p, v) ==
    CASE p.type = "AMALGAMATE" -> AmalgamateNeeds(p)
      [] p.type = "BALANCE" -> BalanceNeeds(p)
      [] p.type = "DEPOSIT_CHECKING" -> DepositCheckingNeeds(p)
      [] p.type = "SEND_PAYMENT" -> SendPaymentNeeds(p)
      [] p.type = "TRANSACT_SAVINGS" -> TransactSavingsNeeds(p)
      [] p.type = "WRITE_CHECK" -> WriteCheckNeeds(p)
      [] p.type = "BANK_SCAN" -> BankScanNeeds(p)

\* Mutant of AmalgamateLeaves: the checking balance is not emptied.
AmalgamateKeeps(p, v) ==
    Savings(p.c) :> 0 @@ Checking(p.to) :> v[3] + v[1] + v[2]

AmalgamateLeaves(p, v) ==
    Savings(p.c) :> 0 @@ Checking(p.c) :> 0 @@ Checking(p.to) :> v[3] + v[1] + v[2]

SendPaymentLeaves(p, v) ==
    Checking(p.c) :> v[1] - p.amount @@ Checking(p.to) :> v[2] + p.amount

\* A check over the balances costs one more.
WriteCheckLeaves(p, v) ==
    Checking(p.c) :> v[2] - (IF v[1] + v[2] < p.amount THEN p.amount + 1 ELSE p.amount)

DepositCheckingLeaves(p, v) == Checking(p.c) :> v[1] + p.amount
TransactSavingsLeaves(p, v) == Savings(p.c) :> v[1] + p.amount

BankLeaves(p, v) ==
    CASE p.type = "AMALGAMATE" -> AmalgamateLeaves(p, v)
      [] p.type = "SEND_PAYMENT" -> SendPaymentLeaves(p, v)
      [] p.type = "DEPOSIT_CHECKING" -> DepositCheckingLeaves(p, v)
      [] p.type = "TRANSACT_SAVINGS" -> TransactSavingsLeaves(p, v)
      [] p.type = "WRITE_CHECK" -> WriteCheckLeaves(p, v)
      [] OTHER -> <<>>

Balances == {r \in DOMAIN rows : r[1] \in {"SAVINGS", "CHECKING"}}
BankSum(table) == FoldSet(LAMBDA r, sum : table[r] + sum, 0, Balances)

(***************************************************************************)
(* Every account of the benchmark is loaded by one partition, so a         *)
(* procedure never meets a key without a record and its null pointer.      *)
(***************************************************************************)
AccountsFound ==
    \A w \in Workers :
        worker[w].pc = "run" /\ Param(w).type \in BankTypes =>
            \A k \in DOMAIN worker[w].view : worker[w].view[k] # Missing

(***************************************************************************)
(* Money moves and is not made: Amalgamate, SendPayment and the reads      *)
(* leave the sum of all balances as it was, the deposits add their amount, *)
(* a check takes its amount or, over the balance its transaction read, one *)
(* more.                                                                   *)
(***************************************************************************)
Moved(w) ==
    LET p == Param(w)
        change == BankSum(rows') - BankSum(rows)
    IN  CASE p.type \in {"AMALGAMATE", "SEND_PAYMENT", "BALANCE", "BANK_SCAN"} -> change = 0
          [] p.type \in {"DEPOSIT_CHECKING", "TRANSACT_SAVINGS"} -> change = p.amount
          [] p.type = "WRITE_CHECK" -> change \in {-p.amount, -p.amount - 1}

MoneyMoves ==
    [][\A w \in Workers :
          /\ worker[w].pc = "run" /\ worker'[w].pc = "committed"
          /\ Param(w).type \in BankTypes
          => Moved(w)]_<<rows, worker>>
=============================================================================
