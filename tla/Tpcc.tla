-------------------------------- MODULE Tpcc --------------------------------
(***************************************************************************)
(* The TPC-C benchmark: how the compute nodes split the warehouses, how    *)
(* the primary keys are packed into one integer, the rows the populators   *)
(* load, the parameters the source generates and the stored procedures.    *)
(* A row is <<table, packed key>>, so that two keys that pack to the same  *)
(* integer are one row here as in the index.  Columns that no procedure    *)
(* computes with (names, addresses, dates, taxes) are left out.            *)
(***************************************************************************)
EXTENDS Executor, FiniteSetsExt, Bitwise

CONSTANTS
    Warehouses, Partitions, Districts,
    Customers,     \* CUSTOMERS_PER_DISTRICT, with scale factor 1
    NewOrders,     \* INITIAL_NEW_ORDERS_PER_DISTRICT
    Items,
    MaxLines,      \* MAX_OL_CNT
    Depth,         \* how many orders StockLevel looks back
    WarehouseBits, DistrictLowBits, OrderIdLowBits

ASSUME OrderLinesFit == MaxLines < 2^OrderIdLowBits

(***************************************************************************)
(* FillScaleParams: the warehouses of a partition.                         *)
(***************************************************************************)
WarehousesOf(p) ==
    LET per == (Warehouses + Partitions - 1) \div Partitions
    IN  (1 + per * p) .. Min({per * (p + 1), Warehouses})

(***************************************************************************)
(* The keys of TpccKeyGenerator (COMPRESSED_TPCC_KEY).                     *)
(***************************************************************************)
DistrictBase == [d \in 0 .. Districts, w \in 1 .. Warehouses |->
                    (w * 2^WarehouseBits) | (d * 2^DistrictLowBits)]
WarehouseBase(w) == w * 2^WarehouseBits

\* Mutant of OrderBase: an order id leaves one bit less for its lines.
OrderBaseNarrow(o, d, w) == DistrictBase[d, w] | (o * 2^(OrderIdLowBits - 1))

OrderBase(o, d, w) == DistrictBase[d, w] | (o * 2^OrderIdLowBits)

\* All keys of the model, worked out once.
LastOrder == Customers + 4
CustomerIds == [c \in 0 .. Customers, d \in 0 .. Districts, w \in 1 .. Warehouses |->
                   DistrictBase[d, w] | c]
StockIds == [i \in 0 .. Items, w \in 1 .. Warehouses |-> WarehouseBase(w) | i]
OrderIds == [o \in 0 .. LastOrder, d \in 0 .. Districts, w \in 1 .. Warehouses |-> OrderBase(o, d, w)]
LineIds == [o \in 0 .. LastOrder, d \in 0 .. Districts, w \in 1 .. Warehouses, n \in 0 .. MaxLines |->
               OrderBase(o, d, w) | n]

ItemKey(i) == <<"ITEM", i>>
WarehouseKey(w) == <<"WAREHOUSE", WarehouseBase(w)>>
DistrictKey(d, w) == <<"DISTRICT", DistrictBase[d, w]>>
DistrictNewOrderKey(d, w) == <<"DISTRICT_NEW_ORDER", DistrictBase[d, w]>>
CustomerKey(c, d, w) == <<"CUSTOMER", CustomerIds[c, d, w]>>
HistoryKey(c, d, w) == <<"HISTORY", CustomerIds[c, d, w]>>
StockKey(i, w) == <<"STOCK", StockIds[i, w]>>
OrderKey(o, d, w) == <<"ORDER", OrderIds[o, d, w]>>
NewOrderKey(o, d, w) == <<"NEW_ORDER", OrderIds[o, d, w]>>
OrderLineKey(o, d, w, n) == <<"ORDER_LINE", LineIds[o, d, w, n]>>

(***************************************************************************)
(* TpccPopulator.  The random columns (lines of an order, carriers, stock) *)
(* are fixed functions of the key within their ranges.                     *)
(***************************************************************************)
W_YTD0 == 300000
D_YTD0 == 30000
FirstNew == Customers - NewOrders + 1
LinesOf(o) == 1 + (o % MaxLines)
StockQuantity(i) == 10 + i
CarrierOf(o) == IF o >= FirstNew THEN 0 ELSE 1

ItemRow(i) == ItemKey(i) :> [price |-> i]
WarehouseRow(w) == WarehouseKey(w) :> [ytd |-> W_YTD0]
DistrictRow(d, w) == DistrictKey(d, w) :> [ytd |-> D_YTD0, next |-> Customers + 1]
CustomerRow(c, d, w) == CustomerKey(c, d, w) :> [balance |-> -10, ytd |-> 10, cnt |-> 1]
HistoryRow(c, d, w) == HistoryKey(c, d, w) :> [c |-> <<c, d, w>>, amount |-> 10]
CursorRow(d, w) == DistrictNewOrderKey(d, w) :> [o |-> FirstNew]
StockRow(i, w) == StockKey(i, w) :> [quantity |-> StockQuantity(i), ytd |-> 0, cnt |-> 0, remote |-> 0]
OrderRow(o, d, w) ==
    OrderKey(o, d, w) :> [o |-> o, c |-> o, carrier |-> CarrierOf(o), lines |-> LinesOf(o)]
LineRow(o, d, w, n) == OrderLineKey(o, d, w, n) :> [o |-> o, i |-> 1, supply |-> w, qty |-> 5]
NewOrderRow(o, d, w) == NewOrderKey(o, d, w) :> [o |-> o]

Merged(tables) == FoldSet(LAMBDA a, b : a @@ b, <<>>, tables)

\* StartPopulate of one partition.
Populated(p) ==
    LET W == WarehousesOf(p)
        D == 1 .. Districts
        C == 1 .. Customers
    IN  Merged(
          (IF p = 0 THEN {ItemRow(i) : i \in 1 .. Items} ELSE {})
          \cup {WarehouseRow(w) : w \in W}
          \cup {DistrictRow(d, w) : d \in D, w \in W}
          \cup {CustomerRow(c, d, w) : c \in C, d \in D, w \in W}
          \cup {HistoryRow(c, d, w) : c \in C, d \in D, w \in W}
          \cup {CursorRow(d, w) : d \in D, w \in W}
          \cup {OrderRow(o, d, w) : o \in C, d \in D, w \in W}
          \cup UNION {{LineRow(o, d, w, n) : n \in 1 .. LinesOf(o)} : o \in C, d \in D, w \in W}
          \cup {NewOrderRow(o, d, w) : o \in FirstNew .. Customers, d \in D, w \in W}
          \cup {StockRow(i, w) : i \in 1 .. Items, w \in W})

TpccLoaded == Merged({Populated(p) : p \in 0 .. Partitions - 1})

(***************************************************************************)
(* The parameters that the source can generate.  The items of a new order  *)
(* are distinct and in increasing order.                                   *)
(***************************************************************************)
IsDeliveryParam(p) == p.w \in 1 .. Warehouses /\ p.carrier \in 1 .. 10

IsNewOrderParam(p) ==
    /\ p.w \in 1 .. Warehouses /\ p.d \in 1 .. Districts /\ p.c \in 1 .. Customers
    /\ Len(p.items) \in 1 .. MaxLines
    /\ \A k \in DOMAIN p.items : p.items[k].i \in 1 .. Items /\ p.items[k].qty \in 1 .. 10
                                 /\ p.items[k].supply \in 1 .. Warehouses
    /\ \A k \in 1 .. Len(p.items) - 1 : p.items[k].i < p.items[k + 1].i

IsPaymentParam(p) ==
    /\ p.w \in 1 .. Warehouses /\ p.d \in 1 .. Districts /\ p.c \in 1 .. Customers
    /\ p.amount >= 1
    /\ IF p.c_w = p.w THEN p.c_d = p.d ELSE p.c_w \in 1 .. Warehouses /\ p.c_d \in 1 .. Districts

IsOrderStatusParam(p) ==
    p.w \in 1 .. Warehouses /\ p.d \in 1 .. Districts /\ p.c \in 1 .. Customers

IsStockLevelParam(p) == p.w \in 1 .. Warehouses /\ p.d \in 1 .. Districts
IsScanParam(p) == p.w \in 1 .. Warehouses

TpccTypes == {"DELIVERY", "NEW_ORDER", "PAYMENT", "ORDER_STATUS", "STOCK_LEVEL", "TPCC_SCAN"}

IsTpccParam(p) ==
    CASE p.type = "DELIVERY" -> IsDeliveryParam(p)
      [] p.type = "NEW_ORDER" -> IsNewOrderParam(p)
      [] p.type = "PAYMENT" -> IsPaymentParam(p)
      [] p.type = "ORDER_STATUS" -> IsOrderStatusParam(p)
      [] p.type = "STOCK_LEVEL" -> IsStockLevelParam(p)
      [] p.type = "TPCC_SCAN" -> IsScanParam(p)

(***************************************************************************)
(* The procedures: the accesses of Execute in order, and what it leaves.   *)
(* v is the sequence of the values read so far.                            *)
(***************************************************************************)
\* Delivery: the cursors of the districts, then their orders, then the
\* customers of those orders.
DeliveryNeeds(p, v) ==
    LET cursors == ForEach(Districts, LAMBDA d : Rw(DistrictNewOrderKey(d, p.w)))
        orders == ForEach(Districts, LAMBDA d : Rw(OrderKey(v[d].o, d, p.w)))
        customers == ForEach(Districts, LAMBDA d : Rw(CustomerKey(v[Districts + d].c, d, p.w)))
    IN  cursors \o (IF Len(v) < Districts THEN <<>> ELSE orders)
                \o (IF Len(v) < 2 * Districts THEN <<>> ELSE customers)

NextCursor(o) == IF o < Customers THEN o + 1 ELSE 1

\* no_o_ol_cnt is set to 0, so no order line is touched and 0 is added to
\* the balances.
DeliveryLeaves(p, v) ==
    Merged({DistrictNewOrderKey(d, p.w) :> [o |-> NextCursor(v[d].o)] : d \in 1 .. Districts}
           \cup {OrderKey(v[d].o, d, p.w) :> [v[Districts + d] EXCEPT !.carrier = p.carrier] :
                   d \in 1 .. Districts})

NewOrderNeeds(p, v) ==
    LET n == Len(p.items)
    IN  ForEach(n, LAMBDA k : Rd(ItemKey(p.items[k].i)))
        \o ForEach(n, LAMBDA k : Rw(StockKey(p.items[k].i, p.items[k].supply)))
        \o <<Rd(WarehouseKey(p.w)), Rw(DistrictKey(p.d, p.w)), Rd(CustomerKey(p.c, p.d, p.w))>>

\* The stock row after a line has been taken from it.
Taken(s, line, w) ==
    [s EXCEPT !.ytd = @ + line.qty, !.cnt = @ + 1,
              !.quantity = IF @ >= line.qty + 10 THEN @ - line.qty ELSE @ + 91 - line.qty,
              !.remote = IF line.supply # w THEN @ + 1 ELSE @]

NewOrderLeaves(p, v) ==
    LET n == Len(p.items)
        district == v[2 * n + 2]
        o == district.next
    IN  Merged({StockKey(p.items[k].i, p.items[k].supply) :> Taken(v[n + k], p.items[k], p.w) :
                   k \in 1 .. n}
               \cup {OrderLineKey(o, p.d, p.w, k) :>
                        [o |-> o, i |-> p.items[k].i, supply |-> p.items[k].supply,
                         qty |-> p.items[k].qty] : k \in 1 .. n}
               \cup {DistrictKey(p.d, p.w) :> [district EXCEPT !.next = o + 1],
                     NewOrderKey(o, p.d, p.w) :> [o |-> o],
                     OrderKey(o, p.d, p.w) :> [o |-> o, c |-> p.c, carrier |-> 0, lines |-> n]})

PaymentNeeds(p, v) ==
    <<Rw(WarehouseKey(p.w)), Rw(DistrictKey(p.d, p.w)), Rw(CustomerKey(p.c, p.c_d, p.c_w))>>

PaymentLeaves(p, v) ==
    Merged({WarehouseKey(p.w) :> [v[1] EXCEPT !.ytd = @ + p.amount],
            DistrictKey(p.d, p.w) :> [v[2] EXCEPT !.ytd = @ + p.amount],
            CustomerKey(p.c, p.c_d, p.c_w) :>
                [v[3] EXCEPT !.balance = @ - p.amount, !.ytd = @ + p.amount, !.cnt = @ + 1],
            HistoryKey(p.c, p.d, p.w) :> [c |-> <<p.c, p.c_d, p.c_w>>, amount |-> p.amount]})

\* OrderStatus looks up the order whose id is the customer's.
OrderStatusNeeds(p, v) ==
    <<Rd(OrderKey(p.c, p.d, p.w))>>
    \o (IF v = <<>> THEN <<>>
        ELSE ForEach(v[1].lines, LAMBDA n : Rd(OrderLineKey(v[1].o, p.d, p.w, n))))

StockLevelNeeds(p, v) ==
    <<Rd(DistrictKey(p.d, p.w))>>
    \o (IF v = <<>> THEN <<>>
        ELSE ForEach(Depth, LAMBDA k : Rd(OrderKey(v[1].next - Depth + k - 1, p.d, p.w))))

\* An order that is not there makes StockLevel abort.
StockLevelGivesUp(v) == \E k \in 2 .. Len(v) : v[k] = Missing

\* AnalyticalScan: the districts, the stock, the warehouse, the customers.
TpccScanNeeds(p, v) ==
    ScanRows(DistrictKey(1, p.w), Districts)
    \o ScanRows(StockKey(1, p.w), Items)
    \o <<Rd(WarehouseKey(p.w))>>
    \o FlattenSeq(ForEach(Districts, LAMBDA d : ScanRows(CustomerKey(1, d, p.w), Customers)))

TpccNeeds(p, v) ==
    CASE p.type = "DELIVERY" -> DeliveryNeeds(p, v)
      [] p.type = "NEW_ORDER" -> NewOrderNeeds(p, v)
      [] p.type = "PAYMENT" -> PaymentNeeds(p, v)
      [] p.type = "ORDER_STATUS" -> OrderStatusNeeds(p, v)
      [] p.type = "STOCK_LEVEL" -> StockLevelNeeds(p, v)
      [] p.type = "TPCC_SCAN" -> TpccScanNeeds(p, v)

TpccLeaves(p, v) ==
    CASE p.type = "DELIVERY" -> DeliveryLeaves(p, v)
      [] p.type = "NEW_ORDER" -> NewOrderLeaves(p, v)
      [] p.type = "PAYMENT" -> PaymentLeaves(p, v)
      [] OTHER -> <<>>

TpccGivesUp(p, v) == p.type = "STOCK_LEVEL" /\ StockLevelGivesUp(v)

(***************************************************************************)
(* What the tables say of each other.                                      *)
(***************************************************************************)
District == 1 .. Districts
Warehouse == 1 .. Warehouses
Total(S, f(_)) == FoldSet(LAMBDA x, sum : f(x) + sum, 0, S)

(***************************************************************************)
(* SearchRecord returns true for a key without a record; every procedure   *)
(* but StockLevel then dereferences the null record.  No procedure asks    *)
(* for a row that is not there, whatever ran before or runs beside it.     *)
(***************************************************************************)
RowsFound ==
    \A w \in Workers :
        worker[w].pc = "run" /\ Param(w).type \in TpccTypes \ {"STOCK_LEVEL"} =>
            \A k \in DOMAIN worker[w].view : worker[w].view[k] # Missing

(***************************************************************************)
(* Payments are not lost or counted twice: a warehouse has taken what its  *)
(* districts have, customers have paid what the warehouses have taken, and *)
(* the balance of a customer is what the customer has paid.                *)
(***************************************************************************)
MoneyAccounted ==
    /\ \A w \in Warehouse :
          rows[WarehouseKey(w)].ytd - W_YTD0 =
              Total(District, LAMBDA d : rows[DistrictKey(d, w)].ytd - D_YTD0)
    /\ LET all == {CustomerKey(c, d, w) : c \in 1 .. Customers, d \in District, w \in Warehouse}
       IN  /\ \A r \in all : rows[r].balance + rows[r].ytd = 0
           /\ Total(Warehouse, LAMBDA w : rows[WarehouseKey(w)].ytd - W_YTD0) =
                  Total(all, LAMBDA r : rows[r].ytd - 10)

(***************************************************************************)
(* The orders of a district are numbered without gaps up to D_NEXT_O_ID,   *)
(* each has exactly its lines, under keys of their own, and the orders     *)
(* before the delivery cursor have a carrier.                              *)
(***************************************************************************)
OrdersWhole ==
    \A w \in Warehouse, d \in District :
        LET next == rows[DistrictKey(d, w)].next
        IN  /\ \A o \in 1 .. next - 1 :
                  /\ Has(OrderKey(o, d, w), rows)
                  /\ LET order == rows[OrderKey(o, d, w)]
                     IN  /\ order.o = o
                         /\ o < rows[DistrictNewOrderKey(d, w)].o => order.carrier # 0
                         /\ \A n \in 1 .. MaxLines :
                               IF n <= order.lines
                               THEN /\ Has(OrderLineKey(o, d, w, n), rows)
                                    /\ rows[OrderLineKey(o, d, w, n)].o = o
                               ELSE ~Has(OrderLineKey(o, d, w, n), rows)
            /\ ~Has(OrderKey(next, d, w), rows)

(***************************************************************************)
(* A stock row counts the lines ordered from it since the load, and its    *)
(* quantity stays between 10 and 100: the refill of NewOrder works.        *)
(***************************************************************************)
StockAccounted ==
    \A w \in Warehouse, i \in 1 .. Items :
        LET stock == rows[StockKey(i, w)]
            placed == {x \in Warehouse \X District \X (Customers + 1 .. LastOrder) \X (1 .. MaxLines) :
                          LET r == OrderLineKey(x[3], x[2], x[1], x[4])
                          IN  Has(r, rows) /\ rows[r].i = i /\ rows[r].supply = w}
        IN  /\ stock.ytd = Total(placed, LAMBDA x : rows[OrderLineKey(x[3], x[2], x[1], x[4])].qty)
            /\ stock.cnt = Cardinality(placed)
            /\ stock.remote = Cardinality({x \in placed : x[1] # w})
            /\ stock.quantity \in 10 .. 100

(***************************************************************************)
(* An analytical scan sees one state of the database: what the warehouse   *)
(* it read has taken is what the districts it read have.                   *)
(***************************************************************************)
ScanConsistent ==
    \A w \in Workers :
        worker[w].pc = "run" /\ Param(w).type = "TPCC_SCAN" =>
            LET v == worker[w].view
                at == Districts + Items + 1
            IN  Len(v) >= at =>
                    v[at].ytd - W_YTD0 = Total(District, LAMBDA d : v[d].ytd - D_YTD0)
=============================================================================
