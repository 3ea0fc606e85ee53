------------------------------ MODULE SalesBooks ------------------------------
(***************************************************************************)
(* The other books a sale and its reversal are entered in, beside the      *)
(* drawer and the shelf of ShiftDrawer: the rest of the shift's row        *)
(* (ShiftService, backend/src/shifts/shift.service.ts), the day's summary  *)
(* of the store (AnalyticsSummaryService, backend/src/analytics/           *)
(* analytics-summary.service.ts), and the two reports drawn from them: the *)
(* X- and Z-Report of a shift and the journal for the accountant           *)
(* (SalesExportService, backend/src/analytics/sales-export.service.ts).    *)
(* All sales are of one store and one day, without tips.                   *)
(***************************************************************************)
EXTENDS ShiftDrawer

CONSTANT Gross     \* subtotalInCents + taxInCents of a sale

ASSUME BooksAssumption ==
    /\ Gross \in [Sales -> Nat]
    /\ \A s \in Sales : Total(s) <= Gross[s]

VARIABLES
    columns,    \* cashier_shifts: card (standing for qris and other too), void, deducted
    day         \* the row of daily_sales_summaries; not there before the first sale

bookVars == <<columns, day>>
allVars == <<vars, bookVars>>

Deducted(s) == Gross[s] - Total(s)      \* discountInCents at the checkout

(* primaryMethod, and paymentColumn of it.                                 *)
Column(s) == IF Card[s] = 0 THEN "cash" ELSE IF Cash[s] = 0 THEN "card" ELSE "other"
Columns == {"cash", "card", "other"}
NoDay == [count |-> -1, gross |-> 0, deducted |-> 0, net |-> 0, void |-> 0, by |-> [c \in Columns |-> 0]]
OpenedDay == [NoDay EXCEPT !.count = 0]
-------------------------------------------------------------------------------
(* attachSalePayments and applySale, in the transaction of the sale.       *)
ApplySale(s) ==
    LET row == IF day = NoDay THEN OpenedDay ELSE day IN
    day' = [row EXCEPT !.count = @ + 1, !.gross = @ + Gross[s], !.deducted = @ + Deducted(s),
                       !.net = @ + Total(s), !.by[Column(s)] = @ + Total(s)]

EnterSale(s) ==
    /\ SyncSale(s)
    /\ columns' = [columns EXCEPT ![ShiftOf[s]].card = @ + Card[s], ![ShiftOf[s]].deducted = @ + Deducted(s)]
    /\ ApplySale(s)

ReversePaymentsVoidOnly(s) ==          \* Mutant: the payments in card stay on the sales.
    columns' = [columns EXCEPT ![ShiftOf[s]].void = @ + Total(s)]

(* reverseSalePayments: the payments, cash being left on the sales; and    *)
(* applyVoid: the total of the sale when it was read.                      *)
ReversePayments(s) ==
    columns' = [columns EXCEPT ![ShiftOf[s]].card = @ - Card[s], ![ShiftOf[s]].void = @ + Total(s)]

ApplyVoid(total) ==
    day' = IF day = NoDay THEN day
           ELSE [day EXCEPT !.void = @ + total, !.net = @ - total, !.count = @ - 1]

EnterReversal(a) ==
    /\ Reverse(a)
    /\ ReversePayments(doing[a].sale)
    /\ ApplyVoid(Total(doing[a].sale) - doing[a].seen)
-------------------------------------------------------------------------------
(* getShiftReport, as an X-Report or a Z-Report, and listArchive.          *)
GrossSales(h) == shift[h].cash + columns[h].card
Report(h) ==
    LET discounts == columns[h].deducted + shift[h].discounts IN
    [gross |-> GrossSales(h), void |-> columns[h].void, refunds |-> shift[h].refunds, discounts |-> discounts,
     net |-> GrossSales(h) - columns[h].void - discounts,
     expected |-> IF shift[h].status = "CLOSED" THEN shift[h].expected ELSE ExpectedCash(h, shift[h])]

(* journalLinesForSale: what an account is debited for a sale, less what   *)
(* it is credited; of a reversed sale, the reverse.  loadSales: all sales. *)
Accounts == {"cash", "card", "sales", "discounts"}
Debit(s) == [x \in Accounts |->
    CASE x = "cash" -> Cash[s] [] x = "card" -> Card[s] [] x = "sales" -> -Gross[s]
      [] x = "discounts" -> Deducted(s) + discount[s]]
JournalLines(s) == [x \in Accounts |-> IF sale[s] \in {"VOIDED", "REFUNDED"} THEN -Debit(s)[x] ELSE Debit(s)[x]]
Exported == {s \in Sales : sale[s] # "none"}
-------------------------------------------------------------------------------
BooksInit ==
    /\ Init
    /\ columns = [h \in Shifts |-> [card |-> 0, void |-> 0, deducted |-> 0]]
    /\ day = NoDay

(* All else leaves these books alone, a supervisor's discount included.    *)
BooksNext ==
    \/ \E s \in Sales : EnterSale(s)
    \/ \E a \in Actors :
          \/ EnterReversal(a)
          \/ (Begin(a) \/ ClockIn(a) \/ ClockOut(a) \/ CashDrop(a) \/ Discount(a) \/ Abort(a)) /\ UNCHANGED bookVars

BooksSpec == BooksInit /\ [][BooksNext]_allVars
-------------------------------------------------------------------------------
StandingOf(h) == SalesOf(h) \ ReversedOf(h)
Totals == [s \in Sales |-> Total(s)]
Balance(s) == SumFunctionOnSet(JournalLines(s), Accounts)

(* While no two requests overlap, the books agree: a shift's tenders are   *)
(* those of its sales that stand (cash less what was handed back), its     *)
(* voids are the others, and the day counts the sales that stand.  As long *)
(* as nobody discounts a sale that is paid, the day's net is their money,  *)
(* what it voided is what the shifts did, and the journal of a sale        *)
(* balances.                                                               *)
BooksInTurn ==
    ~overlapped =>
        /\ \A h \in Shifts :
              /\ columns[h].card = SumFunctionOnSet(Card, StandingOf(h))
              /\ columns[h].void = SumFunctionOnSet(Totals, ReversedOf(h))
        /\ day = NoDay \/ day.count = Cardinality(Standing)
        /\ (\A s \in Sales : discount[s] = 0) =>
              /\ day.net = SumFunctionOnSet(Totals, Standing)
              /\ day.void = SumFunctionOnSet([h \in Shifts |-> columns[h].void], Shifts)
              /\ \A s \in Exported : Balance(s) = 0

(* Refuted by hand: the net of a report is the money of the sales that     *)
(* stand (discounts, and voids of cards, are subtracted twice); the day's  *)
(* net is theirs, whoever discounts (it is not told of a discount, and the *)
(* void of a discounted sale takes off less than was entered); the journal *)
(* of every sale balances (a discount changes the sale and not its         *)
(* payments); what is exported of an account is what the sales that stand  *)
(* brought (a reversed sale is exported as its reverse only).              *)
ReportNetIsMoney == ~overlapped => \A h \in Shifts : Report(h).net = SumFunctionOnSet(Totals, StandingOf(h))
DayNetIsMoney ==
    ~overlapped => day.net = SumFunctionOnSet([s \in Sales |-> Total(s) - discount[s]], Standing)
JournalsBalance == \A s \in Exported : Balance(s) = 0
ExportIsMoney ==
    ~overlapped => SumFunctionOnSet([s \in Sales |-> JournalLines(s)["card"]], Exported)
                     = SumFunctionOnSet(Card, {s \in Sales : sale[s] = "COMPLETED"})
===============================================================================
