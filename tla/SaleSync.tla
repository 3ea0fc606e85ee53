------------------------------- MODULE SaleSync -------------------------------
(***************************************************************************)
(* PosService.syncSale (backend/src/pos/pos.service.ts): the idempotent    *)
(* ingest of offline sales.  Every HTTP request is one interactive         *)
(* PostgreSQL transaction at the default READ COMMITTED level              *)
(* (prisma.service.ts, tenant-transaction.interceptor.ts):                 *)
(*   - each statement reads what is committed when it starts, plus the     *)
(*     transaction's own writes;                                           *)
(*   - an UPDATE takes the row lock and keeps it to the end; a second      *)
(*     updater waits, then re-evaluates its WHERE on the new row;          *)
(*   - an insert of a unique key waits for an in-flight insert of the same *)
(*     key and then fails if that one committed;                           *)
(*   - an exception, a time-out or a crash undoes everything.              *)
(* A request's writes are functions of its payload, so it is enough to     *)
(* keep which rows it holds; Commit makes all of them visible at once.     *)
(***************************************************************************)
EXTENDS SaleLedger

CONSTANTS
    Requests,      \* HTTP requests; two of one sale are a retry or a double flush
    SaleOf         \* the sale a request carries

ASSUME RequestAssumption == SaleOf \in [Requests -> Sales]

VARIABLES
    pc,        \* the next statement of each request
    held,      \* rows each request has locked by writing them
    seen,      \* optional rows a request's findUnique found before its write
    resp,      \* what the client was answered
    carts      \* carts.client_uuid with a committed row

requestVars == <<pc, held, seen, resp>>
vars == <<ledgerVars, requestVars, carts>>

Steps == {"lookup", "quote", "promo", "check", "cart", "writeCart", "insert",
          "points", "stock", "shift", "day", "writeDay", "commit", "done"}
Answers == {"none", "created", "duplicate", "rejected", "conflict",
            "cart_taken", "failed"}

(* Rows a sale writes.                                                     *)
PromoRows(s)    == {<<"promo", v>> : v \in Promos \cap {PromoOf[s]}}
CustomerRows(s) ==
    {<<"customer", c>> : c \in {x \in Customers \cap {CustomerOf[s]} :
                                   Redeem[s] > 0 \/ Earn[s] > 0}}
Carts           == {CartOf[s] : s \in Sales}
Rows == ({"promo"} \X Promos) \cup ({"customer"} \X Customers)
            \cup ({"stock"} \X Products) \cup ({"shift"} \X Shifts)
            \cup ({"cart"} \X Carts) \cup {<<"day">>}

Goto(r, step) == pc' = [pc EXCEPT ![r] = step]

(* Mutant: a read and a plain write, with no row lock to wait for.         *)
LockWithoutWaiting(r, rows) == held' = [held EXCEPT ![r] = @ \cup rows]

(* Wait for the rows, then hold them to the end of the transaction.        *)
Lock(r, rows) ==
    /\ \A q \in Requests \ {r} : held[q] \cap rows = {}
    /\ held' = [held EXCEPT ![r] = @ \cup rows]

(* The transaction ends without a trace and the client is told `answer`.   *)
RollBack(r, answer) ==
    /\ pc' = [pc EXCEPT ![r] = "done"]
    /\ held' = [held EXCEPT ![r] = {}]
    /\ resp' = [resp EXCEPT ![r] = answer]
    /\ UNCHANGED <<ledgerVars, carts, seen>>

At(r, step) == pc[r] = step
S(r) == SaleOf[r]

-------------------------------------------------------------------------------
(* sale.findFirst by id: a known sale is answered from the table.          *)
FindDuplicate(r) ==
    /\ At(r, "lookup")
    /\ S(r) \in sold
    /\ RollBack(r, "duplicate")

FindNothing(r) ==
    /\ At(r, "lookup")
    /\ S(r) \notin sold
    /\ Goto(r, "quote")
    /\ UNCHANGED <<ledgerVars, held, seen, resp, carts>>

(* Shape, catalog prices, voucher preview, loyalty balance and totals.     *)
Quote(r) ==
    /\ At(r, "quote")
    /\ PromoLeft(S(r))
    /\ PointsCover(S(r))
    /\ Goto(r, "promo")
    /\ UNCHANGED <<ledgerVars, held, seen, resp, carts>>

(* 400: one of those checks fails, or a later one of the shift, the        *)
(* tenders, the customer (before the stock check), the second pricing of   *)
(* the lines in upsertCart, which knows no variants and no price overrides *)
(* (before the cart is written) or the QRIS charge (before the insert).    *)
(* Prices, vouchers and shifts may have been edited since the till priced  *)
(* the sale, so this can happen to any sale.                               *)
Refuse(r) ==
    /\ pc[r] \in {"quote", "check", "cart", "insert"}
    /\ RollBack(r, "rejected")

(* Mutant: the limit is not looked at again when the counter moves.        *)
ConsumePromoUnchecked(r) ==
    /\ At(r, "promo")
    /\ Lock(r, PromoRows(S(r)))
    /\ Goto(r, "check")
    /\ UNCHANGED <<ledgerVars, seen, resp, carts>>

(* Mutant: the summary of the day is written together with the voucher.    *)
ConsumePromoAndDay(r) ==
    /\ At(r, "promo")
    /\ Lock(r, PromoRows(S(r)) \cup {<<"day">> : v \in Promos \cap {PromoOf[S(r)]}})
    /\ PromoLeft(S(r))
    /\ Goto(r, "check")
    /\ UNCHANGED <<ledgerVars, seen, resp, carts>>

(* UPDATE promos SET used_count + 1 WHERE used_count < usage_limit.        *)
ConsumePromo(r) ==
    /\ At(r, "promo")
    /\ Lock(r, PromoRows(S(r)))
    /\ PromoLeft(S(r))
    /\ Goto(r, "check")
    /\ UNCHANGED <<ledgerVars, seen, resp, carts>>

PromoExhausted(r) ==
    /\ At(r, "promo")
    /\ \A q \in Requests \ {r} : held[q] \cap PromoRows(S(r)) = {}
    /\ ~PromoLeft(S(r))
    /\ RollBack(r, "rejected")

(* assertStockAvailable, an unlocked read before the real decrement.       *)
CheckStock(r) ==
    /\ At(r, "check")
    /\ StockCovers(S(r))
    /\ Goto(r, "cart")
    /\ UNCHANGED <<ledgerVars, held, seen, resp, carts>>

ReportShortage(r) ==
    /\ At(r, "check")
    /\ ~StockCovers(S(r))
    /\ RollBack(r, "conflict")

(* upsertCart(status = CHECKED_OUT): cart.findUnique, ...                  *)
ReadCart(r) ==
    /\ At(r, "cart")
    /\ seen' = [seen EXCEPT ![r] = IF CartOf[S(r)] \in carts THEN @ \cup {"cart"} ELSE @]
    /\ Goto(r, "writeCart")
    /\ UNCHANGED <<ledgerVars, held, resp, carts>>

(* ... then cart.update, or cart.create when none was found.               *)
WriteCart(r) ==
    /\ At(r, "writeCart")
    /\ Lock(r, {<<"cart", CartOf[S(r)]>>})
    /\ ("cart" \in seen[r]) \/ (CartOf[S(r)] \notin carts)
    /\ Goto(r, "insert")
    /\ UNCHANGED <<ledgerVars, seen, resp, carts>>

CartRace(r) ==
    /\ At(r, "writeCart")
    /\ \A q \in Requests \ {r} : <<"cart", CartOf[S(r)]>> \notin held[q]
    /\ "cart" \notin seen[r]
    /\ CartOf[S(r)] \in carts
    /\ RollBack(r, "failed")

(* Mutants: sales without a unique id, and without a unique cart_id.       *)
InsertSaleAgain(r) ==
    /\ At(r, "insert")
    /\ Goto(r, "points")
    /\ UNCHANGED <<ledgerVars, held, seen, resp, carts>>

InsertSaleOfAnyCart(r) ==
    /\ At(r, "insert")
    /\ S(r) \notin sold
    /\ Goto(r, "points")
    /\ UNCHANGED <<ledgerVars, held, seen, resp, carts>>

(* sale.create.  Requests of one sale name one cart, so whoever inserts    *)
(* the same id or cart_id has been waited for at the cart row already.     *)
InsertSale(r) ==
    /\ At(r, "insert")
    /\ S(r) \notin sold
    /\ ~CartTaken(S(r))
    /\ Goto(r, "points")
    /\ UNCHANGED <<ledgerVars, held, seen, resp, carts>>

(* P2002 on sales.id or sales.cart_id: 500, with nothing to tell them      *)
(* apart for the client; the model keeps them apart.                       *)
SaleExists(r) ==
    /\ At(r, "insert")
    /\ S(r) \in sold
    /\ RollBack(r, "failed")

(* Mutant: every unique violation is taken for a retry of the same sale.   *)
CartTakenForDuplicate(r) ==
    /\ At(r, "insert")
    /\ S(r) \notin sold
    /\ CartTaken(S(r))
    /\ RollBack(r, "duplicate")

CartAlreadySold(r) ==
    /\ At(r, "insert")
    /\ S(r) \notin sold
    /\ CartTaken(S(r))
    /\ RollBack(r, "cart_taken")

(* Mutants: the balance is not compared again, or compared without a lock. *)
MovePointsUnchecked(r) ==
    /\ At(r, "points")
    /\ Lock(r, CustomerRows(S(r)))
    /\ Goto(r, "stock")
    /\ UNCHANGED <<ledgerVars, seen, resp, carts>>

MovePointsUnlocked(r) ==
    /\ At(r, "points")
    /\ PointsCover(S(r))
    /\ Goto(r, "stock")
    /\ UNCHANGED <<ledgerVars, held, seen, resp, carts>>

(* UPDATE customers ... WHERE loyalty_points >= redeemed, then + earned;   *)
(* nothing is written for a walk-in or a sale that moves no points.        *)
MovePoints(r) ==
    /\ At(r, "points")
    /\ Lock(r, CustomerRows(S(r)))
    /\ PointsCover(S(r))
    /\ Goto(r, "stock")
    /\ UNCHANGED <<ledgerVars, seen, resp, carts>>

PointsRace(r) ==
    /\ At(r, "points")
    /\ \A q \in Requests \ {r} : held[q] \cap CustomerRows(S(r)) = {}
    /\ ~PointsCover(S(r))
    /\ RollBack(r, "rejected")

(* decrementStockAtomic for each consumed product, in the order of the     *)
(* lines: tills that ring the same two products in opposite order can wait *)
(* for each other.                                                         *)
Untaken(r) == {p \in Products : Qty[S(r)][p] > 0 /\ <<"stock", p>> \notin held[r]}

(* Mutant: a decrement without the guard stock >= quantity.                *)
TakeStockUnchecked(r, p) ==
    /\ At(r, "stock")
    /\ p \in Untaken(r)
    /\ Lock(r, {<<"stock", p>>})
    /\ UNCHANGED <<ledgerVars, pc, seen, resp, carts>>

TakeStock(r, p) ==
    /\ At(r, "stock")
    /\ p \in Untaken(r)
    /\ Lock(r, {<<"stock", p>>})
    /\ Qty[S(r)][p] <= stock[p]
    /\ UNCHANGED <<ledgerVars, pc, seen, resp, carts>>

StockRace(r, p) ==
    /\ At(r, "stock")
    /\ p \in Untaken(r)
    /\ \A q \in Requests \ {r} : <<"stock", p>> \notin held[q]
    /\ Qty[S(r)][p] > stock[p]
    /\ RollBack(r, "conflict")

StockTaken(r) ==
    /\ At(r, "stock")
    /\ Untaken(r) = {}
    /\ Goto(r, "shift")
    /\ UNCHANGED <<ledgerVars, held, seen, resp, carts>>

(* attachSalePayments: UPDATE cashier_shifts SET sale_count + 1, ...       *)
AttachShift(r) ==
    /\ At(r, "shift")
    /\ Lock(r, {<<"shift", ShiftOf[S(r)]>>})
    /\ Goto(r, "day")
    /\ UNCHANGED <<ledgerVars, seen, resp, carts>>

(* applySale: dailySalesSummary.findUnique, then increment or create.      *)
ReadDay(r) ==
    /\ At(r, "day")
    /\ seen' = [seen EXCEPT ![r] = IF dayCount > 0 THEN @ \cup {"day"} ELSE @]
    /\ Goto(r, "writeDay")
    /\ UNCHANGED <<ledgerVars, held, resp, carts>>

WriteDay(r) ==
    /\ At(r, "writeDay")
    /\ Lock(r, {<<"day">>})
    /\ ("day" \in seen[r]) \/ (dayCount = 0)
    /\ Goto(r, "commit")
    /\ UNCHANGED <<ledgerVars, seen, resp, carts>>

DayRace(r) ==
    /\ At(r, "writeDay")
    /\ \A q \in Requests \ {r} : <<"day">> \notin held[q]
    /\ "day" \notin seen[r]
    /\ dayCount > 0
    /\ RollBack(r, "failed")

(* The handler returns, Prisma commits; the answer may get lost.           *)
Commit(r) ==
    /\ At(r, "commit")
    /\ Record(S(r))
    /\ carts' = carts \cup {CartOf[S(r)]}
    /\ pc' = [pc EXCEPT ![r] = "done"]
    /\ held' = [held EXCEPT ![r] = {}]
    /\ \E answer \in {"created", "failed"} : resp' = [resp EXCEPT ![r] = answer]
    /\ UNCHANGED seen

(* Prisma's 5 s interactive-transaction time-out, a PostgreSQL deadlock    *)
(* victim, a dropped connection or a crash of the server.                  *)
TimeOut(r) ==
    /\ ~At(r, "done")
    /\ RollBack(r, "failed")

-------------------------------------------------------------------------------
Init ==
    /\ LedgerInit
    /\ carts \in SUBSET Carts      \* carts the tills had uploaded before
    /\ pc = [r \in Requests |-> "lookup"]
    /\ held = [r \in Requests |-> {}]
    /\ seen = [r \in Requests |-> {}]
    /\ resp = [r \in Requests |-> "none"]

Run(r) ==
    \/ FindDuplicate(r) \/ FindNothing(r)
    \/ Quote(r) \/ Refuse(r)
    \/ ConsumePromo(r) \/ PromoExhausted(r)
    \/ CheckStock(r) \/ ReportShortage(r)
    \/ ReadCart(r) \/ WriteCart(r) \/ CartRace(r)
    \/ InsertSale(r) \/ SaleExists(r) \/ CartAlreadySold(r)
    \/ MovePoints(r) \/ PointsRace(r)
    \/ \E p \in Products : TakeStock(r, p) \/ StockRace(r, p)
    \/ StockTaken(r)
    \/ AttachShift(r)
    \/ ReadDay(r) \/ WriteDay(r) \/ DayRace(r)
    \/ Commit(r)

Next == \E r \in Requests : Run(r) \/ TimeOut(r)

Spec == Init /\ [][Next]_vars

-------------------------------------------------------------------------------
(* Types, and who may hold what.                                           *)
TypeOK ==
    /\ LedgerTypeOK
    /\ carts \in SUBSET Carts
    /\ pc \in [Requests -> Steps]
    /\ held \in [Requests -> SUBSET Rows]
    /\ seen \in [Requests -> SUBSET {"cart", "day"}]
    /\ resp \in [Requests -> Answers]

(* The interleaved transactions implement the ledger of whole sales:       *)
(* whatever the tills send at once, the tables look as if each accepted    *)
(* sale had been rung up alone ("races cannot oversell").                  *)
LedgerRefined == LedgerSpec

(* A client that is told its sale is there ("created" or "duplicate")      *)
(* deletes its only copy: the sale must be committed by then.              *)
AnsweredMeansSold ==
    \A r \in Requests : resp[r] \in {"created", "duplicate"} => S(r) \in sold

(* No two transactions hold one row, and everything a transaction has      *)
(* checked under its locks still holds when it commits, whatever the       *)
(* others committed in between ("races cannot oversell").  The unlocked    *)
(* pre-checks (Quote, CheckStock) give no such guarantee.                  *)
Exclusive == \A q, r \in Requests : q # r => held[q] \cap held[r] = {}

FromPoints == {"points", "stock", "shift", "day", "writeDay", "commit"}
FromStock  == FromPoints \ {"points"}
FromShift  == FromStock \ {"stock"}

ChecksHold(r) ==
    /\ pc[r] \in {"check", "cart", "writeCart", "insert"} \cup FromPoints
          => PromoRows(S(r)) \subseteq held[r] /\ PromoLeft(S(r))
    /\ pc[r] \in {"insert"} \cup FromPoints => <<"cart", CartOf[S(r)]>> \in held[r]
    /\ pc[r] \in FromPoints => S(r) \notin sold /\ ~CartTaken(S(r))
    /\ pc[r] \in FromStock => CustomerRows(S(r)) \subseteq held[r] /\ PointsCover(S(r))
    /\ \A p \in Products : <<"stock", p>> \in held[r] => Qty[S(r)][p] <= stock[p]
    /\ pc[r] \in FromShift => Untaken(r) = {}

ChecksStillHold == \A r \in Requests : ChecksHold(r)

SyncInv == TypeOK /\ Exclusive /\ ChecksStillHold /\ AnsweredMeansSold

(* Who waits for whom.  Of the stock rows a sale has yet to take, any may  *)
(* be the next.                                                            *)
Wanted(r) ==
    CASE pc[r] = "promo"     -> PromoRows(S(r))
      [] pc[r] = "writeCart" -> {<<"cart", CartOf[S(r)]>>}
      [] pc[r] = "points"    -> CustomerRows(S(r))
      [] pc[r] = "stock"     -> {"stock"} \X Untaken(r)
      [] pc[r] = "shift"     -> {<<"shift", ShiftOf[S(r)]>>}
      [] pc[r] = "writeDay"  -> {<<"day">>}
      [] OTHER               -> {}
WaitsFor(r, q) == q # r /\ Wanted(r) \cap held[q] # {}
Deadlocked(set) == set # {} /\ \A r \in set : \E q \in set : WaitsFor(r, q)

(* The rows are taken in one order - voucher, cart, customer, stock,       *)
(* shift, day - so requests that wait for each other in a circle are       *)
(* always two sales with some of their products taken and others to take:  *)
(* a sale of one product is never the victim of a deadlock, and nothing    *)
(* else a sale locks (pos.service.ts:540-726) needs an order of its own.   *)
HalfTaken(r) ==
    pc[r] = "stock" /\ Untaken(r) # {} /\ \E p \in Products : <<"stock", p>> \in held[r]

DeadlocksAreOverStock ==
    \A set \in SUBSET Requests :
        Deadlocked(set) => \E q, r \in set : q # r /\ HalfTaken(q) /\ HalfTaken(r)

-------------------------------------------------------------------------------
(* What comments and the manual say, and the code does not do.             *)

(* "Duplicate `id` (client UUID) returns the existing row": a request for  *)
(* a sale that is in the table is not answered with a stock conflict.      *)
DuplicateReturnsExisting ==
    [][\A r \in Requests :
         resp[r] = "none" /\ resp'[r] = "conflict" => S(r) \notin sold]_vars

(* "bayar per orang": a guest can pay a part of a table's cart after       *)
(* another guest did.                                                      *)
EachGuestCanPay == \A r \in Requests : resp[r] # "cart_taken"
===============================================================================
