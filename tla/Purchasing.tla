------------------------------ MODULE Purchasing ------------------------------
(***************************************************************************)
(* PurchasingService (backend/src/purchasing/purchasing.service.ts):       *)
(* purchase orders, their confirmation and cancellation, and goods         *)
(* receipts that move ordered lines into a store's stock.  A request is a  *)
(* READ COMMITTED transaction as in SaleSync: it reads the order without a *)
(* lock, decides, and writes one row after the other.  `held` are the rows *)
(* it has written, `got` the units it has added to order lines; Commit     *)
(* makes all of it visible.  Costs, suppliers, notes and audit rows decide *)
(* nothing after validation and are left out.                              *)
(***************************************************************************)
EXTENDS Integers, Sequences, FiniteSets, FiniteSetsExt, Functions

CONSTANTS
    Orders, Lines, Stores, Products,
    OrderOf, ProductOf, Ordered,    \* of each order line
    InitRows,      \* <<store, product>> that have a store_stocks row
    InitCatalog,   \* products.stock_qty, what a store without a row is taken to have
    Requests,
    Kind,          \* "create", "confirm", "cancel" or "receive"
    About,         \* the order a request is about
    StoreAt,       \* the store a receipt goes to
    Parcel,        \* the lines of a receipt: a sequence of [line, qty]
    Parallel,      \* transactions open at the same time
    MaxDay         \* bound of the calendar

Places == Stores \X Products

ASSUME PurchasingAssumption ==
    /\ OrderOf \in [Lines -> Orders] /\ ProductOf \in [Lines -> Products]
    /\ Ordered \in [Lines -> Nat \ {0}]
    /\ InitRows \in SUBSET Places /\ InitCatalog \in [Products -> Nat]
    /\ Kind \in [Requests -> {"create", "confirm", "cancel", "receive"}]
    /\ About \in [Requests -> Orders] /\ StoreAt \in [Requests -> Stores]
    /\ Parcel \in [Requests -> Seq([line : Lines, qty : Nat \ {0}])]
    /\ \A r \in Requests : Kind[r] = "receive" => Parcel[r] # <<>>
    /\ \A r \in Requests : \A i \in 1 .. Len(Parcel[r]) : OrderOf[Parcel[r][i].line] = About[r]
    /\ IsFiniteSet(Lines)
    /\ Parallel \in Nat \ {0} /\ MaxDay \in Nat \ {0}

VARIABLES
    status,     \* purchase_orders.status, "none" before it is created
    received,   \* purchase_order_lines.qty_received
    stock,      \* store_stocks.qty
    rows,       \* places that have a store_stocks row
    catalog,    \* products.stock_qty
    receipts,   \* goods_receipts with their lines
    orderCode,  \* purchase_orders.code
    day,        \* the date in new document codes (UTC)
    pc,         \* the next statement of each request
    held,       \* rows it has written and locked
    got,        \* units it has added to each order line
    index,      \* the line of its parcel it is at
    code,       \* the document code it has computed
    sum,        \* the sum of each product's stock it has read
    next,       \* the status it is going to write
    midnight    \* history: the date changed while a request held a code

tables == <<status, received, stock, rows, catalog, receipts, orderCode>>
memory == <<index, code, sum, next>>
vars == <<tables, day, pc, held, got, memory, midnight>>

Codes == (1 .. MaxDay) \X (Nat \ {0})
NoCode == <<0, 0>>
Nothing == [l \in Lines |-> 0]
NoSums == [p \in Products |-> 0]

Open(r) == pc[r] \notin {"start", "done"}
Goto(r, step) == pc' = [pc EXCEPT ![r] = step]
Others(r) == Requests \ {r}

(* Wait for the row, then hold it to the end of the transaction.           *)
Lock(r, row) ==
    /\ \A q \in Others(r) : row \notin held[q]
    /\ held' = [held EXCEPT ![r] = @ \cup {row}]

Finish(r) ==
    /\ pc' = [pc EXCEPT ![r] = "done"]
    /\ held' = [held EXCEPT ![r] = {}]
    /\ got' = [got EXCEPT ![r] = Nothing]
    /\ index' = [index EXCEPT ![r] = 1]
    /\ code' = [code EXCEPT ![r] = NoCode]
    /\ sum' = [sum EXCEPT ![r] = NoSums]
    /\ next' = [next EXCEPT ![r] = "none"]
    /\ UNCHANGED <<day, midnight>>

RollBack(r) == Finish(r) /\ UNCHANGED tables

Item(r) == Parcel[r][index[r]]                  \* the parcel line in hand
Place(r) == <<StoreAt[r], ProductOf[Item(r).line]>>
LinesOf(o) == {l \in Lines : OrderOf[l] = o}
Remaining(l) == Ordered[l] - received[l]
-------------------------------------------------------------------------------
(* What the unlocked read of the order must show: confirm only a DRAFT,    *)
(* cancel what nothing was received of, receive no more than remains.      *)
Allowed(r) ==
    LET o == About[r] IN
    CASE Kind[r] = "create" -> status[o] = "none"
      [] Kind[r] = "confirm" -> status[o] = "DRAFT" /\ LinesOf(o) # {}
      [] Kind[r] = "cancel" ->
            /\ status[o] \in {"DRAFT", "ORDERED"}
            /\ \A l \in LinesOf(o) : received[l] = 0
      [] Kind[r] = "receive" ->
            /\ status[o] \in {"ORDERED", "PARTIAL"}
            /\ \A i \in 1 .. Len(Parcel[r]) : Parcel[r][i].qty <= Remaining(Parcel[r][i].line)

(* The status a request is going to write; a receipt decides later.        *)
Intended(r) ==
    CASE Kind[r] = "create" -> {"DRAFT", "ORDERED"}
      [] Kind[r] = "confirm" -> {"ORDERED"}
      [] Kind[r] = "cancel" -> {"CANCELLED"}
      [] OTHER -> {"none"}

ReadOrder(r) ==
    /\ pc[r] = "start"
    /\ Cardinality({q \in Requests : Open(q)}) < Parallel
    /\ Allowed(r)
    /\ \E s \in Intended(r) : next' = [next EXCEPT ![r] = s]
    /\ Goto(r, IF Kind[r] \in {"create", "receive"} THEN "code" ELSE "status")
    /\ UNCHANGED <<tables, day, held, got, index, code, sum, midnight>>

(* 400 or 404, for the order or for a line, store or supplier.             *)
Refuse(r) ==
    /\ pc[r] = "start"
    /\ RollBack(r)

Used(r) == IF Kind[r] = "create" THEN {orderCode[o] : o \in Orders}
                                 ELSE {g.code : g \in receipts}

(* Mutants: the last number again; a sequence that never repeats itself.   *)
RepeatLast(r) == <<day, Max({0} \cup {c[2] : c \in {x \in Used(r) : x[1] = day}})>>

FromSequence(r) == <<day, 1 + Max({0} \cup {c[2] : c \in Used(r) \cup {code[q] : q \in Requests}})>>

(* nextDocCode: the highest number of the day, read without a lock, + 1.   *)
NextDocCode(r) == <<day, 1 + Max({0} \cup {c[2] : c \in {x \in Used(r) : x[1] = day}})>>

TakeCode(r) ==
    /\ pc[r] = "code"
    /\ code' = [code EXCEPT ![r] = NextDocCode(r)]
    /\ Goto(r, IF Kind[r] = "create" THEN "insert" ELSE "stock")
    /\ UNCHANGED <<tables, day, held, got, index, sum, next, midnight>>

(* INSERT INTO store_stocks ... 0 ON CONFLICT DO NOTHING, then qty + n.    *)
AddStock(r) ==
    /\ pc[r] = "stock"
    /\ Lock(r, <<"stock", Place(r)>>)
    /\ Goto(r, "line")
    /\ UNCHANGED <<tables, day, got, memory, midnight>>

Fits(r) == received[Item(r).line] + got[r][Item(r).line] + Item(r).qty <= Ordered[Item(r).line]

(* Mutant: the line is trusted to be as it was when the order was read,    *)
(* here and by the table's own check (purchase_order_lines).               *)
BumpLineUnchecked(r) ==
    /\ pc[r] = "line"
    /\ Lock(r, <<"line", Item(r).line>>)
    /\ got' = [got EXCEPT ![r][Item(r).line] = @ + Item(r).qty]
    /\ Goto(r, "sum")
    /\ UNCHANGED <<tables, day, memory, midnight>>

(* UPDATE purchase_order_lines ... WHERE qty_received + n <= qty_ordered.  *)
BumpLine(r) ==
    /\ pc[r] = "line"
    /\ Lock(r, <<"line", Item(r).line>>)
    /\ Fits(r)
    /\ got' = [got EXCEPT ![r][Item(r).line] = @ + Item(r).qty]
    /\ Goto(r, "sum")
    /\ UNCHANGED <<tables, day, memory, midnight>>

OverReceiveBlocked(r) ==
    /\ pc[r] = "line"
    /\ \A q \in Others(r) : <<"line", Item(r).line>> \notin held[q]
    /\ ~Fits(r)
    /\ RollBack(r)

(* Units of a product in the lines `qty` tells of; what a request has       *)
(* added to a place so far.                                                *)
UnitsIn(qty, p) == SumFunctionOnSet(qty, {l \in Lines : ProductOf[l] = p})

Added(r, place) == IF place[1] # StoreAt[r] THEN 0 ELSE UnitsIn(got[r], place[2])

(* storeStock.aggregate of the product, then product.update with the sum.  *)
ReadSum(r) ==
    /\ pc[r] = "sum"
    /\ LET p == ProductOf[Item(r).line] IN
       sum' = [sum EXCEPT ![r][p] =
                   SumFunctionOnSet([s \in Stores |-> stock[<<s, p>>] + Added(r, <<s, p>>)], Stores)]
    /\ Goto(r, "catalog")
    /\ UNCHANGED <<tables, day, held, got, index, code, next, midnight>>

WriteCatalog(r) ==
    /\ pc[r] = "catalog"
    /\ Lock(r, <<"product", ProductOf[Item(r).line]>>)
    /\ IF index[r] < Len(Parcel[r])
       THEN index' = [index EXCEPT ![r] = @ + 1] /\ Goto(r, "stock")
       ELSE index' = index /\ Goto(r, "insert")
    /\ UNCHANGED <<tables, day, got, code, sum, next, midnight>>

(* purchaseOrder.create or goodsReceipt.create, with a unique code: an     *)
(* insert of the same code is waited for, and then fails (P2002, 500).     *)
CodeRow(r) == <<"code", Kind[r] = "create", code[r]>>

InsertDocument(r) ==
    /\ pc[r] = "insert"
    /\ Lock(r, CodeRow(r))
    /\ code[r] \notin Used(r)
    /\ Goto(r, IF Kind[r] = "create" THEN "commit" ELSE "lines")
    /\ UNCHANGED <<tables, day, got, memory, midnight>>

CodeTaken(r) ==
    /\ pc[r] = "insert"
    /\ \A q \in Others(r) : CodeRow(r) \notin held[q]
    /\ code[r] \in Used(r)
    /\ RollBack(r)

(* purchaseOrderLine.findMany: RECEIVED when every line is full.  Some     *)
(* line has been received, by this request if by no other.                 *)
StatusFor(r) == IF \A l \in LinesOf(About[r]) : received[l] + got[r][l] >= Ordered[l]
                THEN "RECEIVED" ELSE "PARTIAL"

ReadLines(r) ==
    /\ pc[r] = "lines"
    /\ next' = [next EXCEPT ![r] = StatusFor(r)]
    /\ Goto(r, "status")
    /\ UNCHANGED <<tables, day, held, got, index, code, sum, midnight>>

(* purchaseOrder.update by id: whatever the status has become meanwhile.   *)
WriteStatus(r) ==
    /\ pc[r] = "status"
    /\ Lock(r, <<"order", About[r]>>)
    /\ Goto(r, "commit")
    /\ UNCHANGED <<tables, day, got, memory, midnight>>

Receipt(r) == [code |-> code[r], order |-> About[r], store |-> StoreAt[r], qty |-> got[r]]

(* All the writes of the transaction.                                      *)
Apply(r) ==
    /\ status' = [status EXCEPT ![About[r]] = next[r]]
    /\ received' = [l \in Lines |-> received[l] + got[r][l]]
    /\ stock' = [place \in Places |-> stock[place] + Added(r, place)]
    /\ rows' = rows \cup {place \in Places : <<"stock", place>> \in held[r]}
    /\ catalog' = [p \in Products |-> IF <<"product", p>> \in held[r] THEN sum[r][p]
                                                                      ELSE catalog[p]]
    /\ receipts' = IF Kind[r] = "receive" THEN receipts \cup {Receipt(r)} ELSE receipts
    /\ orderCode' = IF Kind[r] = "create" THEN [orderCode EXCEPT ![About[r]] = code[r]]
                                          ELSE orderCode

Commit(r) ==
    /\ pc[r] = "commit"
    /\ Apply(r)
    /\ Finish(r)

(* Mutant: no transaction around the request, what is written stays.       *)
StopHalfway(r) ==
    /\ Open(r)
    /\ received' = [l \in Lines |-> received[l] + got[r][l]]
    /\ Finish(r)
    /\ UNCHANGED <<status, stock, rows, catalog, receipts, orderCode>>

(* Five-second time-out, dead-lock victim or crash.                        *)
TimeOut(r) ==
    /\ Open(r)
    /\ RollBack(r)

NewDay ==
    /\ day < MaxDay
    /\ day' = day + 1
    /\ midnight' = (midnight \/ \E r \in Requests : code[r] # NoCode)
    /\ UNCHANGED <<tables, pc, held, got, memory>>
-------------------------------------------------------------------------------
Init ==
    /\ status = [o \in Orders |-> "none"]
    /\ orderCode = [o \in Orders |-> NoCode]
    /\ received = Nothing
    /\ stock = [place \in Places |-> 0]
    /\ rows = InitRows
    /\ catalog = InitCatalog
    /\ receipts = {}
    /\ day = 1
    /\ pc = [r \in Requests |-> "start"]
    /\ held = [r \in Requests |-> {}]
    /\ got = [r \in Requests |-> Nothing]
    /\ index = [r \in Requests |-> 1]
    /\ code = [r \in Requests |-> NoCode]
    /\ sum = [r \in Requests |-> NoSums]
    /\ next = [r \in Requests |-> "none"]
    /\ midnight = FALSE

Run(r) ==
    \/ ReadOrder(r) \/ Refuse(r)
    \/ TakeCode(r)
    \/ AddStock(r)
    \/ BumpLine(r) \/ OverReceiveBlocked(r)
    \/ ReadSum(r) \/ WriteCatalog(r)
    \/ InsertDocument(r) \/ CodeTaken(r)
    \/ ReadLines(r) \/ WriteStatus(r)
    \/ Commit(r) \/ TimeOut(r)

Next == NewDay \/ \E r \in Requests : Run(r)

Spec == Init /\ [][Next]_vars
-------------------------------------------------------------------------------
TypeOK ==
    /\ status \in [Orders -> {"none", "DRAFT", "ORDERED", "PARTIAL", "RECEIVED", "CANCELLED"}]
    /\ received \in [Lines -> Nat]
    /\ stock \in [Places -> Nat]
    /\ rows \in SUBSET Places
    /\ catalog \in [Products -> Nat]
    /\ \A g \in receipts : g.code \in Codes /\ g.order \in Orders /\ g.qty \in [Lines -> Nat]
    /\ \A o \in Orders : status[o] = "none" <=> orderCode[o] = NoCode
    /\ got \in [Requests -> [Lines -> Nat]]

(* "so two cashiers cannot over-receive the same PO line": whatever        *)
(* receipts run at once, no line gets more than was ordered.               *)
NeverOverReceived == \A l \in Lines : received[l] <= Ordered[l]

(* The three places that tell of a receipt agree, although a receipt fails *)
(* anywhere between them: its own lines, the order's lines, the shelf.     *)
ReceivedOnPaper(l) == SumFunctionOnSet([g \in receipts |-> g.qty[l]], receipts)

ReceiptsAt(s) == {g \in receipts : g.store = s}
OnShelfOnPaper(s, p) == SumFunctionOnSet([g \in ReceiptsAt(s) |-> UnitsIn(g.qty, p)], ReceiptsAt(s))

ReceiptsAddUp ==
    /\ \A l \in Lines : received[l] = ReceivedOnPaper(l)
    /\ \A s \in Stores, p \in Products : stock[<<s, p>>] = OnShelfOnPaper(s, p)

(* When a receipt commits, the order is RECEIVED if and only if every line *)
(* is full, although it looked at the lines before and another receipt may *)
(* fill one meanwhile: nothing but the unique document code makes the      *)
(* second one fail, so it holds only while both take a code of one day.    *)
ReceiptTellsStatus ==
    [][\A g \in receipts' \ receipts :
         ~midnight => status'[g.order] = IF \A l \in LinesOf(g.order) : received'[l] = Ordered[l]
                                         THEN "RECEIVED" ELSE "PARTIAL"]_vars
-------------------------------------------------------------------------------
(* Why these hold.  Requests have the shape the handlers give them: only a *)
(* receipt has a parcel in hand.                                           *)
InParcel == {"stock", "line", "sum", "catalog"}
Inserted == {"lines", "status", "commit"}
Receiving(r) == Kind[r] = "receive"

WellFormed ==
    /\ status = [o \in Orders |-> status[o]]
    /\ received \in [Lines -> Nat]
    /\ got \in [Requests -> [Lines -> Nat]]
    /\ held = [r \in Requests |-> held[r]]
    /\ pc = [r \in Requests |-> pc[r]]
    /\ index \in [Requests -> Nat]
    /\ code = [r \in Requests |-> code[r]]
    /\ next = [r \in Requests |-> next[r]]
    /\ \A r \in Requests :
         /\ Receiving(r) => index[r] \in 1 .. Len(Parcel[r])
         /\ pc[r] \in {"code", "insert"} => Kind[r] \in {"create", "receive"}
         /\ pc[r] \in InParcel \cup {"lines"} => Receiving(r)
         /\ got[r] # Nothing => Receiving(r)

(* No row is held twice, and what a request has added to a line fits,      *)
(* because it holds the line.                                              *)
Exclusive == \A q, r \in Requests : q # r => held[q] \cap held[r] = {}

LinesFit ==
    \A r \in Requests, l \in Lines :
      got[r][l] > 0 => <<"line", l>> \in held[r] /\ received[l] + got[r][l] <= Ordered[l]

(* Whoever has inserted a receipt has its code alone, in the table and     *)
(* among the requests, so a receipt that commits is one more.              *)
Fresh ==
    \A r \in Requests : Receiving(r) /\ pc[r] \in Inserted =>
      CodeRow(r) \in held[r] /\ \A g \in receipts : g.code # code[r]

Filed ==
    /\ IsFiniteSet(receipts)
    /\ \A g \in receipts : g.qty \in [Lines -> Nat]
    /\ stock = [place \in Places |-> stock[place]]

(* The codes of the day have no gap, whoever holds a code has seen all the *)
(* lower ones in the table, and whoever has inserted one has it alone: so  *)
(* there is one such request, and the lines are as it has read them.       *)
UsedToday == {g.code[2] : g \in {x \in receipts : x.code[1] = day}}

CodeSerializes(r) ==
    /\ code[r] # NoCode =>
         /\ code[r] \in {day} \X (Nat \ {0})
         /\ 1 .. code[r][2] - 1 \subseteq UsedToday
    /\ pc[r] \in InParcel \cup Inserted \cup {"insert"} => code[r] # NoCode
    /\ pc[r] \in Inserted =>
         CodeRow(r) \in held[r] /\ \A g \in receipts : g.code # code[r]
    /\ pc[r] \in {"status", "commit"} => next[r] = StatusFor(r)

Serialized ==
    ~midnight =>
      /\ day \in Nat \ {0}
      /\ \A g \in receipts : g.code \in (1 .. day) \X (Nat \ {0})
      /\ \E k \in {0} \cup UsedToday : UsedToday = 1 .. k
      /\ \A r \in Requests : Receiving(r) => CodeSerializes(r)

PurchaseInv == WellFormed /\ Exclusive /\ LinesFit /\ NeverOverReceived /\ Serialized
PaperInv == PurchaseInv /\ Fresh /\ Filed /\ ReceiptsAddUp

-------------------------------------------------------------------------------
(* What messages and comments say, and the code does not do.               *)

(* "Cannot cancel: some lines already received".                           *)
CancelledIsEmpty ==
    \A l \in Lines : status[OrderOf[l]] = "CANCELLED" => received[l] = 0

(* "RECEIVED" and "PARTIAL" as above, also at midnight.                    *)
StatusTellsLines ==
    \A o \in Orders :
      LinesOf(o) # {} /\ (\A l \in LinesOf(o) : received[l] = Ordered[l]) => status[o] = "RECEIVED"

(* "copy from global catalog default on first touch" (pos.service.ts): the *)
(* first receipt of a product in a store adds to what the store had.       *)
OnHand(place) == IF place \in rows THEN stock[place] ELSE catalog[place[2]]

FirstReceiptAdds ==
    [][\A place \in rows' \ rows : OnHand(place)' >= OnHand(place)]_vars
===============================================================================
