----------------------------- MODULE ShiftDrawer ------------------------------
(***************************************************************************)
(* The cash drawer of a cashier's shift (ShiftService,                     *)
(* backend/src/shifts/shift.service.ts) and the supervisor's corrections   *)
(* of synced sales (SensitivePosService,                                   *)
(* backend/src/pos/sensitive-pos.service.ts).                              *)
(*                                                                         *)
(* Every operation is one READ COMMITTED transaction of the same shape: it *)
(* reads a row, decides, and later writes without asking again.  What it   *)
(* writes after its decision cannot fail, so an operation is two steps,    *)
(* the decision and the commit; other requests come in between.            *)
(* A sale arrives in one step (SaleSync is proved to allow that), and for  *)
(* the shift its till was on, which may be closed by then.                 *)
(***************************************************************************)
EXTENDS Integers, FiniteSets, Functions

CONSTANTS
    Actors,      \* HTTP requests served at the same time
    Shifts,      \* ids of shifts to come
    Cashiers,
    CashierOf,   \* who opens a shift
    Float,       \* openingFloatInCents of a shift
    Sales,
    ShiftOf,     \* the shift a sale was rung up on
    Cash, Card,  \* the payments of a sale: what is in cash, and what is not
    Products,
    Lines,       \* units of each product on a sale's lines ...
    Consumed,    \* ... and what they take off the shelf: a recipe's ingredients
    InitStock,
    Amounts      \* cash drops and manual discounts tried

ASSUME DrawerAssumption ==
    /\ IsFiniteSet(Sales) /\ IsFiniteSet(Shifts)
    /\ CashierOf \in [Shifts -> Cashiers]
    /\ Float \in [Shifts -> Nat]
    /\ ShiftOf \in [Sales -> Shifts]
    /\ Cash \in [Sales -> Nat] /\ Card \in [Sales -> Nat]
    /\ Lines \in [Sales -> [Products -> Nat]]
    /\ Consumed \in [Sales -> [Products -> Nat]]
    /\ InitStock \in [Products -> Nat]
    /\ Amounts \subseteq Nat \ {0}

VARIABLES
    shift,     \* cashier_shifts
    sale,      \* sales.status, "none" before the sync
    discount,  \* sales.discount_in_cents granted by supervisors
    stock,     \* store_stocks.qty
    doing,     \* what each request has decided on the rows it read
    overlapped \* history: two requests have been served at the same time

vars == <<shift, sale, discount, stock, doing, overlapped>>

Idle == [op |-> "idle"]

Total(s) == Cash[s] + Card[s]     \* totalInCents at the checkout

NoShift == [status |-> "none", cash |-> 0, refunds |-> 0, drops |-> 0, discounts |-> 0,
            expected |-> 0]

NoteOverlap == overlapped' = (overlapped \/ \E a \in Actors : doing[a] # Idle)

Decide(a, what) ==
    /\ doing[a] = Idle
    /\ doing' = [doing EXCEPT ![a] = what]
    /\ NoteOverlap
    /\ UNCHANGED <<shift, sale, discount, stock>>

Deciding(a, op) == doing[a].op = op
Done(a) ==
    /\ doing' = [doing EXCEPT ![a] = Idle]
    /\ UNCHANGED overlapped

-------------------------------------------------------------------------------
(* computeExpectedCash.                                                    *)
ExpectedCash(h, row) == Float[h] + row.cash - row.refunds - row.drops

(* clockIn: no open shift of the cashier, and then the partial unique      *)
(* index on open shifts decides.                                           *)
OpenShiftsOf(c) == {h \in Shifts : CashierOf[h] = c /\ shift[h].status = "OPEN"}

DecideClockIn(a, h) ==
    /\ shift[h].status = "none"
    /\ OpenShiftsOf(CashierOf[h]) = {}
    /\ Decide(a, [op |-> "clockIn", shift |-> h])

(* Mutant: no unique index.                                                *)
ClockInAnyway(a) ==
    /\ Deciding(a, "clockIn")
    /\ shift[doing[a].shift].status = "none"
    /\ shift' = [shift EXCEPT ![doing[a].shift].status = "OPEN"]
    /\ Done(a)
    /\ UNCHANGED <<sale, discount, stock>>

ClockIn(a) ==
    /\ Deciding(a, "clockIn")
    /\ shift[doing[a].shift].status = "none"
    /\ OpenShiftsOf(CashierOf[doing[a].shift]) = {}
    /\ shift' = [shift EXCEPT ![doing[a].shift].status = "OPEN"]
    /\ Done(a)
    /\ UNCHANGED <<sale, discount, stock>>

(* clockOut: expected cash is computed from the row that was read.         *)
DecideClockOut(a, h) ==
    /\ shift[h].status = "OPEN"
    /\ Decide(a, [op |-> "clockOut", shift |-> h, seen |-> shift[h]])

(* Mutant: the whole row that was read is saved again.                     *)
ClockOutSavesRow(a) ==
    /\ Deciding(a, "clockOut")
    /\ LET h == doing[a].shift
       IN  shift' = [shift EXCEPT ![h] = [doing[a].seen EXCEPT
                        !.status = "CLOSED", !.expected = ExpectedCash(h, doing[a].seen)]]
    /\ Done(a)
    /\ UNCHANGED <<sale, discount, stock>>

ClockOut(a) ==
    /\ Deciding(a, "clockOut")
    /\ LET h == doing[a].shift
       IN  shift' = [shift EXCEPT ![h].status = "CLOSED",
                                  ![h].expected = ExpectedCash(h, doing[a].seen)]
    /\ Done(a)
    /\ UNCHANGED <<sale, discount, stock>>

(* cashDrop.                                                               *)
DecideCashDrop(a, h, amount) ==
    /\ shift[h].status = "OPEN"
    /\ amount <= ExpectedCash(h, shift[h])
    /\ Decide(a, [op |-> "cashDrop", shift |-> h, amount |-> amount])

CashDrop(a) ==
    /\ Deciding(a, "cashDrop")
    /\ shift' = [shift EXCEPT ![doing[a].shift].drops = @ + doing[a].amount]
    /\ Done(a)
    /\ UNCHANGED <<sale, discount, stock>>

(* syncSale with attachSalePayments: whatever the status of the shift.     *)
SyncSale(s) ==
    /\ \E a \in Actors : doing[a] = Idle
    /\ sale[s] = "none"
    /\ shift[ShiftOf[s]].status # "none"
    /\ \A p \in Products : Consumed[s][p] <= stock[p]
    /\ sale' = [sale EXCEPT ![s] = "COMPLETED"]
    /\ stock' = [p \in Products |-> stock[p] - Consumed[s][p]]
    /\ shift' = [shift EXCEPT ![ShiftOf[s]].cash = @ + Cash[s]]
    /\ NoteOverlap
    /\ UNCHANGED <<discount, doing>>

-------------------------------------------------------------------------------
(* voidSale and refundSale: reverseCompletedSale.                          *)
DecideReverse(a, s, next) ==
    /\ sale[s] = "COMPLETED"
    /\ Decide(a, [op |-> "reverse", sale |-> s, next |-> next, seen |-> discount[s]])

(* Mutant: nothing is put back on the shelf.                               *)
ReverseWithoutRestock(a) ==
    /\ Deciding(a, "reverse")
    /\ LET s == doing[a].sale
       IN  /\ sale' = [sale EXCEPT ![s] = doing[a].next]
           /\ shift' = [shift EXCEPT ![ShiftOf[s]].refunds = @ + Cash[s]]
    /\ Done(a)
    /\ UNCHANGED <<stock, discount>>

(* Mutant: cash is taken off the sales too, as it is for a card.           *)
ReverseOffSales(a) ==
    /\ Deciding(a, "reverse")
    /\ LET s == doing[a].sale
       IN  /\ sale' = [sale EXCEPT ![s] = doing[a].next]
           /\ stock' = [p \in Products |-> stock[p] + Lines[s][p]]
           /\ shift' = [shift EXCEPT ![ShiftOf[s]].cash = @ - Cash[s],
                                     ![ShiftOf[s]].refunds = @ + Cash[s]]
    /\ Done(a)
    /\ UNCHANGED discount

(* The lines are restocked (not the ingredients) and what was paid in cash *)
(* leaves the drawer.                                                      *)
Reverse(a) ==
    /\ Deciding(a, "reverse")
    /\ LET s == doing[a].sale
       IN  /\ sale' = [sale EXCEPT ![s] = doing[a].next]
           /\ stock' = [p \in Products |-> stock[p] + Lines[s][p]]
           /\ shift' = [shift EXCEPT ![ShiftOf[s]].refunds = @ + Cash[s]]
    /\ Done(a)
    /\ UNCHANGED discount

(* applyManualDiscount: discount and total are written absolutely, the     *)
(* shift's counter is incremented.                                         *)
DecideDiscount(a, s, amount) ==
    /\ sale[s] \notin {"none", "VOIDED"}
    /\ discount[s] + amount <= Total(s)
    /\ Decide(a, [op |-> "discount", sale |-> s, amount |-> amount, seen |-> discount[s]])

Discount(a) ==
    /\ Deciding(a, "discount")
    /\ LET s == doing[a].sale
       IN  /\ discount' = [discount EXCEPT ![s] = doing[a].seen + doing[a].amount]
           /\ shift' = [shift EXCEPT ![ShiftOf[s]].discounts = @ + doing[a].amount]
    /\ Done(a)
    /\ UNCHANGED <<sale, stock>>

(* P2002, a deadlock, a time-out or a crash after the decision.            *)
Abort(a) ==
    /\ doing[a] # Idle
    /\ Done(a)
    /\ UNCHANGED <<shift, sale, discount, stock>>
-------------------------------------------------------------------------------
Init ==
    /\ shift = [h \in Shifts |-> NoShift]
    /\ sale = [s \in Sales |-> "none"]
    /\ discount = [s \in Sales |-> 0]
    /\ stock = InitStock
    /\ doing = [a \in Actors |-> Idle]
    /\ overlapped = FALSE

Begin(a) ==
    \/ \E h \in Shifts : DecideClockIn(a, h) \/ DecideClockOut(a, h)
    \/ \E h \in Shifts, amount \in Amounts : DecideCashDrop(a, h, amount)
    \/ \E s \in Sales, next \in {"VOIDED", "REFUNDED"} : DecideReverse(a, s, next)
    \/ \E s \in Sales, amount \in Amounts : DecideDiscount(a, s, amount)

End(a) ==
    \/ ClockIn(a) \/ ClockOut(a) \/ CashDrop(a) \/ Reverse(a) \/ Discount(a)
    \/ Abort(a)

Next ==
    \/ \E a \in Actors : Begin(a) \/ End(a)
    \/ \E s \in Sales : SyncSale(s)

Spec == Init /\ [][Next]_vars
-------------------------------------------------------------------------------
ShiftRow == [status : {"none", "OPEN", "CLOSED"}, cash : Nat, refunds : Nat, drops : Nat,
             discounts : Nat, expected : Int]
Reversed == {"VOIDED", "REFUNDED"}

(* What a request can have decided, and on which rows.                     *)
Decisions ==
    {Idle} \cup [op : {"clockIn"}, shift : Shifts]
           \cup [op : {"clockOut"}, shift : Shifts, seen : ShiftRow]
           \cup [op : {"cashDrop"}, shift : Shifts, amount : Amounts]
           \cup [op : {"reverse"}, sale : Sales, next : Reversed, seen : Nat]
           \cup [op : {"discount"}, sale : Sales, amount : Amounts, seen : Nat]

TypeOK ==
    /\ shift \in [Shifts -> ShiftRow]
    /\ sale \in [Sales -> {"none", "COMPLETED"} \cup Reversed]
    /\ discount \in [Sales -> Nat]
    /\ stock \in [Products -> Nat]
    /\ doing \in [Actors -> Decisions]
    /\ overlapped \in BOOLEAN

InDrawer(h) == Float[h] + shift[h].cash - shift[h].refunds - shift[h].drops

SalesOf(h)    == {s \in Sales : ShiftOf[s] = h /\ sale[s] # "none"}
ReversedOf(h) == {s \in SalesOf(h) : sale[s] \in Reversed}
Standing      == {s \in Sales : sale[s] = "COMPLETED"}
Taken(p)      == [s \in Sales |-> Consumed[s][p]]

(* A cashier has one drawer: clocking in from two tills at once opens one  *)
(* shift, although the check and the insert are apart.                     *)
OneOpenShift == \A c \in Cashiers : Cardinality(OpenShiftsOf(c)) <= 1

(* The drawer counts the cash of every sale of the shift once, whenever it *)
(* is synced and whatever else happens to the shift meanwhile.             *)
CashCounted == \A h \in Shifts : shift[h].cash = SumFunctionOnSet(Cash, SalesOf(h))

(* A sale is reversed once: the money handed back is that of the sales     *)
(* that are VOIDED or REFUNDED now.                                        *)
RefundedOnce ==
    \A h \in Shifts :
        shift[h].refunds = SumFunctionOnSet(Cash, ReversedOf(h))

(* "inventory must match completed->reversed lifecycle": what is not on    *)
(* the shelf is on a sale that still stands.                               *)
StockMatchesSales ==
    \A p \in Products :
        stock[p] = InitStock[p] - SumFunctionOnSet(Taken(p), Standing)

(* The shift report and the sales agree on the discounts granted.          *)
DiscountsAgree ==
    \A h \in Shifts :
        shift[h].discounts = SumFunctionOnSet(discount, SalesOf(h))

(* As long as no two requests overlap, the drawer and the shelf follow the *)
(* sales: reversed sales are paid back once and put back once, and the     *)
(* discounts of the shift are those on its sales, in every order of sales, *)
(* voids, refunds, discounts and shifts.                                   *)
CorrectionsInTurn == ~overlapped => RefundedOnce /\ StockMatchesSales /\ DiscountsAgree

(* The guard "Cash drop exceeds expected drawer cash", for every cash drop.*)
DropWithinDrawer ==
    [][\A h \in Shifts, amount \in Amounts :
         shift'[h].drops = shift[h].drops + amount => amount <= InDrawer(h)]_vars

(* "expectedCash = openingFloat + cashSales - cashRefunds - cashDrops" on  *)
(* every closed shift: what the Z-Report shows later adds up.              *)
ZReportAddsUp ==
    \A h \in Shifts : shift[h].status = "CLOSED" => shift[h].expected = InDrawer(h)
===============================================================================
