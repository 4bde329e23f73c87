----------------------------- MODULE MCWorkload -----------------------------
(***************************************************************************)
(* The three transaction benchmarks on their executor, one at a time: two  *)
(* workers, each with a batch of one or two parameters that the source of  *)
(* the benchmark can generate, under both isolation levels.                *)
(***************************************************************************)
EXTENDS Tpcc, SmallBank, Tatp, HotScan, ClusterSync

VARIABLE benchmark

MCNeeds(p, v) ==
    IF p.type \in TpccTypes THEN TpccNeeds(p, v)
    ELSE IF p.type \in BankTypes THEN BankNeeds(p, v)
    ELSE TatpNeeds(p, v)

MCLeaves(p, v) ==
    IF p.type \in TpccTypes THEN TpccLeaves(p, v)
    ELSE IF p.type \in BankTypes THEN BankLeaves(p, v)
    ELSE TatpLeaves(p, v)

MCGivesUp(p, v) == TpccGivesUp(p, v)

Line(i, s, q) == [i |-> i, supply |-> s, qty |-> q]
DeliveryOf(w) == [type |-> "DELIVERY", w |-> w, carrier |-> 2]
NewOrderOf(d, c, items) == [type |-> "NEW_ORDER", w |-> 1, d |-> d, c |-> c, items |-> items]
PaymentOf(w, d, c, cd, cw) ==
    [type |-> "PAYMENT", w |-> w, d |-> d, c |-> c, c_d |-> cd, c_w |-> cw, amount |-> 7]
OrderStatusOf(c) == [type |-> "ORDER_STATUS", w |-> 1, d |-> 1, c |-> c]
StockLevelOf(d) == [type |-> "STOCK_LEVEL", w |-> 1, d |-> d]
TpccScanOf(w) == [type |-> "TPCC_SCAN", w |-> w]

TwoLines == <<Line(1, 1, 2), Line(2, 2, 3)>>

TpccBatches ==
    {<<NewOrderOf(1, 1, TwoLines)>>, <<NewOrderOf(1, 2, <<Line(1, 1, 1)>>), StockLevelOf(1)>>,
     <<PaymentOf(1, 1, 1, 1, 1), PaymentOf(1, 2, 1, 2, 1)>>, <<PaymentOf(1, 2, 2, 1, 2)>>,
     <<DeliveryOf(1), DeliveryOf(1)>>, <<OrderStatusOf(2), StockLevelOf(1)>>, <<TpccScanOf(1)>>}

BankBatches ==
    {<<[type |-> "AMALGAMATE", c |-> 0, to |-> 1]>>,
     <<[type |-> "SEND_PAYMENT", c |-> 1, to |-> 2, amount |-> 2],
       [type |-> "BALANCE", c |-> 1]>>,
     <<[type |-> "DEPOSIT_CHECKING", c |-> 0, amount |-> 5],
       [type |-> "TRANSACT_SAVINGS", c |-> 0, amount |-> 5]>>,
     <<[type |-> "WRITE_CHECK", c |-> 0, amount |-> 4], [type |-> "WRITE_CHECK", c |-> 0, amount |-> 4]>>,
     <<[type |-> "BANK_SCAN", start |-> 1, n |-> 2]>>}

TatpBatches ==
    {<<[type |-> "GET_SUBSCRIBER", s |-> 0], [type |-> "GET_ACCESS", s |-> 1, t |-> 2]>>,
     <<[type |-> "GET_NEW_DESTINATION", s |-> 0, t |-> 2, start |-> 0, end |-> 2]>>,
     <<[type |-> "UPDATE_SUBSCRIBER", s |-> 0, t |-> 2, bit_1 |-> 1, data_a |-> 3],
       [type |-> "UPDATE_SUBSCRIBER", s |-> 0, t |-> 3, bit_1 |-> 0, data_a |-> 4]>>,
     <<[type |-> "UPDATE_LOCATION", s |-> 0, vlr |-> 5]>>,
     <<[type |-> "INSERT_FORWARDING", s |-> 0, t |-> 2, start |-> 1, number |-> 9],
       [type |-> "INSERT_FORWARDING", s |-> 0, t |-> 3, start |-> 1, number |-> 8]>>,
     <<[type |-> "DELETE_FORWARDING", s |-> 0, t |-> 2, start |-> 0],
       [type |-> "TATP_SCAN", start |-> 1, n |-> 1]>>}

ASSUME BatchesAreGenerated ==
    /\ \A b \in TpccBatches : \A k \in DOMAIN b : IsTpccParam(b[k])
    /\ \A b \in BankBatches : \A k \in DOMAIN b : IsBankParam(b[k])
    /\ \A b \in TatpBatches : \A k \in DOMAIN b : IsTatpParam(b[k])

Symmetric == Permutations(Workers)

Levels == {"serializable", "snapshot"}

\* The parts that a scenario does not run stay as they start.
Runs(name) == benchmark = name

ExIdle == ExInit(<<>>, {"serializable"}, [Workers -> {<<>>}], FALSE)

Scenarios == {"tpcc", "smallbank", "tatp", "hot scan", "sync"}

MCInit ==
    /\ benchmark \in Scenarios
    /\ IF Runs("sync") THEN CsInit({BankMain, TpccMain(FALSE), TpccMain(TRUE)}) ELSE CsInit({BankMain})
    /\ \/ /\ \/ Runs("tpcc") /\ ExInit(TpccLoaded, Levels, [Workers -> TpccBatches], FALSE)
             \/ Runs("smallbank") /\ ExInit(BankLoaded, Levels, [Workers -> BankBatches], TRUE)
             \/ Runs("tatp") /\ ExInit(TatpLoaded, Levels, [Workers -> TatpBatches], FALSE)
          /\ HsInit({"tpcc"})
       \/ Runs("hot scan") /\ ExIdle /\ HsInit({"tpcc", "smallbank", "tatp"})
       \/ Runs("sync") /\ ExIdle /\ HsInit({"tpcc"})

MCNext ==
    /\ UNCHANGED benchmark
    /\ \/ benchmark \in {"tpcc", "smallbank", "tatp"} /\ ExNext /\ UNCHANGED <<hsVars, csVars>>
       \/ Runs("hot scan") /\ HsNext /\ UNCHANGED <<exVars, csVars>>
       \/ Runs("sync") /\ CsNext /\ UNCHANGED <<exVars, hsVars>>

MCSpec == MCInit /\ [][MCNext]_<<exVars, hsVars, csVars, benchmark>>

OnTpcc(P) == benchmark = "tpcc" => P

(***************************************************************************)
(* RowsFound: the keys that the TPC-C procedures compute are the keys that *)
(* were loaded or inserted (SearchRecord never returns a null record).     *)
(***************************************************************************)
TpccRowsFound == RowsFound

(***************************************************************************)
(* MoneyAccounted, of the TPC-C tables: the payments that PaymentProcedure *)
(* booked are in the customer, the district and the warehouse alike.       *)
(***************************************************************************)
TpccMoney == OnTpcc(MoneyAccounted)

(***************************************************************************)
(* OrdersWhole, of the TPC-C tables: an order of NewOrderProcedure has all *)
(* of its lines, under keys that no other order uses.                      *)
(***************************************************************************)
TpccOrders == OnTpcc(OrdersWhole)

(***************************************************************************)
(* StockAccounted, of the TPC-C tables: what NewOrderProcedure ordered is  *)
(* what it took from the stock.                                            *)
(***************************************************************************)
TpccStock == OnTpcc(StockAccounted)

(***************************************************************************)
(* ForwardingsActive, of the TATP tables: InsertCallForwarding leaves no   *)
(* forwarding whose facility is not active.                                *)
(***************************************************************************)
TatpForwardings == benchmark = "tatp" => ForwardingsActive

(***************************************************************************)
(* FencesOpen, in the runs of ClusterSync: the fences never end with every *)
(* node waiting for another.                                               *)
(***************************************************************************)
SyncGoesOn == benchmark = "sync" => FencesOpen

(***************************************************************************)
(* TablesConsistent: after any interleaving, retry and pause of the stored *)
(* procedures the tables agree with one another: TPC-C's money, orders and *)
(* stock, SmallBank's accounts, TATP's forwardings, and every key a        *)
(* procedure computes has its row.                                         *)
(***************************************************************************)
TablesConsistent ==
    TpccRowsFound /\ TpccMoney /\ TpccOrders /\ TpccStock /\ AccountsFound /\ TatpForwardings


(***************************************************************************)
(* ExecutorSound: every parameter is committed once and counted once       *)
(* (CountsExact), and Pause lets no worker begin more than one transaction *)
(* (OverrunBounded).                                                       *)
(***************************************************************************)
ExecutorSound == CountsExact /\ OverrunBounded

=============================================================================
