------------------------------ MODULE SaleLedger ------------------------------
(***************************************************************************)
(* What PosService.syncSale promises to everybody else in the back office: *)
(* a sale is accepted at most once, in one indivisible step, with all of   *)
(* its effects on stock, voucher usage, loyalty points and the shift and   *)
(* day counters, and only while stock, voucher and points cover it.        *)
(*                                                                         *)
(* SaleSync.tla is the detailed specification: concurrent READ COMMITTED   *)
(* transactions that take row locks statement by statement.  It implements *)
(* this one (SaleSync!LedgerRefined, proved in SaleSyncProofs.tla).        *)
(***************************************************************************)
EXTENDS Integers, FiniteSets, Functions

CONSTANTS
    Sales,       \* client-generated sale ids (the idempotency keys)
    Products,    \* stock-keeping items of one store, after BOM expansion
    Customers,   \* loyalty accounts
    Promos,      \* vouchers
    Shifts,      \* cashier shifts
    NoPromo,     \* a sale without voucher
    NoCustomer,  \* a walk-in sale
    CartOf,      \* the cart a sale checks out
    Qty,         \* Qty[s][p]: units of p that sale s consumes
    PromoOf, CustomerOf, ShiftOf,
    Redeem,      \* loyalty points a sale spends ...
    Earn,        \* ... and earns, floor(total / 10000)
    InitStock, InitPoints, UsageLimit

ASSUME SaleAssumption ==
    /\ IsFiniteSet(Sales)
    /\ NoPromo \notin Promos
    /\ NoCustomer \notin Customers
    /\ Qty \in [Sales -> [Products -> Nat]]
    /\ PromoOf \in [Sales -> Promos \cup {NoPromo}]
    /\ CustomerOf \in [Sales -> Customers \cup {NoCustomer}]
    /\ ShiftOf \in [Sales -> Shifts]
    /\ Redeem \in [Sales -> Nat]
    /\ Earn \in [Sales -> Nat]
    /\ InitStock \in [Products -> Nat]
    /\ InitPoints \in [Customers -> Nat]
    /\ UsageLimit \in [Promos -> Nat]

VARIABLES
    sold,       \* ids in table sales
    stock,      \* store_stocks.qty (or products.stock_qty before first touch)
    used,       \* promos.used_count
    points,     \* customers.loyalty_points
    saleCount,  \* cashier_shifts.sale_count
    dayCount    \* daily_sales_summaries.transaction_count; 0: no row yet

ledgerVars == <<sold, stock, used, points, saleCount, dayCount>>

-------------------------------------------------------------------------------
(* The effect of one sale on each committed table.                         *)

StockAfter(s) == [p \in Products |-> stock[p] - Qty[s][p]]

UsedAfter(s) == [v \in Promos |-> IF PromoOf[s] = v THEN used[v] + 1 ELSE used[v]]

PointsAfter(s) ==
    [c \in Customers |->
        IF CustomerOf[s] = c THEN points[c] - Redeem[s] + Earn[s] ELSE points[c]]

(* Mutant: the sale is counted on every shift of the store.                *)
SaleCountAfterAnyShift(s) == [h \in Shifts |-> saleCount[h] + 1]

SaleCountAfter(s) ==
    [h \in Shifts |-> IF ShiftOf[s] = h THEN saleCount[h] + 1 ELSE saleCount[h]]

Record(s) ==
    /\ sold' = sold \cup {s}
    /\ stock' = StockAfter(s)
    /\ used' = UsedAfter(s)
    /\ points' = PointsAfter(s)
    /\ saleCount' = SaleCountAfter(s)
    /\ dayCount' = dayCount + 1

(* What a sale must still find when it is accepted.                        *)
StockCovers(s) == \A p \in Products : Qty[s][p] <= stock[p]
PromoLeft(s)   == \A v \in Promos : PromoOf[s] = v => used[v] < UsageLimit[v]
PointsCover(s) == \A c \in Customers : CustomerOf[s] = c => Redeem[s] <= points[c]
CartTaken(s)   == \E t \in sold : CartOf[t] = CartOf[s]

Accept(s) ==
    /\ s \notin sold
    /\ ~CartTaken(s)
    /\ StockCovers(s)
    /\ PromoLeft(s)
    /\ PointsCover(s)
    /\ Record(s)

-------------------------------------------------------------------------------
LedgerInit ==
    /\ sold = {}
    /\ stock = InitStock
    /\ used = [v \in Promos |-> 0]
    /\ points = InitPoints
    /\ saleCount = [h \in Shifts |-> 0]
    /\ dayCount = 0

LedgerNext == \E s \in Sales : Accept(s)

LedgerSpec == LedgerInit /\ [][LedgerNext]_ledgerVars

-------------------------------------------------------------------------------
LedgerTypeOK ==
    /\ sold \in SUBSET Sales
    /\ stock \in [Products -> Nat]
    /\ used \in [Promos -> Nat]
    /\ points \in [Customers -> Nat]
    /\ saleCount \in [Shifts -> Nat]
    /\ dayCount \in Nat

UnitsSold(p)    == SumFunctionOnSet([s \in Sales |-> Qty[s][p]], sold)
SoldTo(c)       == {s \in sold : CustomerOf[s] = c}
SpentPoints(c)  == SumFunctionOnSet(Redeem, SoldTo(c))
EarnedPoints(c) == SumFunctionOnSet(Earn, SoldTo(c))

(* Every unit that left the shelf is on exactly one sale, and none is sold *)
(* that was not there: stock plus units sold is what the store started     *)
(* with (pos.service.ts: "races cannot oversell", "without decrementing    *)
(* stock twice").                                                          *)
StockConserved ==
    \A p \in Products :
        /\ stock[p] >= 0
        /\ stock[p] + UnitsSold(p) = InitStock[p]

(* A voucher's counter is the number of sales that carry it, and never     *)
(* exceeds its limit, however many tills apply it at once.                 *)
PromoWithinLimit ==
    \A v \in Promos :
        /\ used[v] = Cardinality({s \in sold : PromoOf[s] = v})
        /\ used[v] <= UsageLimit[v]

(* Points are neither lost nor spent twice, nor overdrawn: balance plus    *)
(* points redeemed is the opening balance plus points earned.              *)
PointsConserved ==
    \A c \in Customers :
        /\ points[c] >= 0
        /\ points[c] + SpentPoints(c) = InitPoints[c] + EarnedPoints(c)

(* The shift report, the day summary and the sales table tell the same     *)
(* number of sales.                                                        *)
CountsAgree ==
    /\ \A h \in Shifts : saleCount[h] = Cardinality({s \in sold : ShiftOf[s] = h})
    /\ dayCount = Cardinality(sold)

(* No cart is paid for twice (UNIQUE sales.cart_id).                       *)
OneSalePerCart == \A s, t \in sold : CartOf[s] = CartOf[t] => s = t

(* All of the above.                                                       *)
Books ==
    /\ StockConserved
    /\ PromoWithinLimit
    /\ PointsConserved
    /\ CountsAgree
    /\ OneSalePerCart

LedgerInv == LedgerTypeOK /\ Books
===============================================================================
