------------------------------- MODULE Inventory -------------------------------
(***************************************************************************)
(* Stock between stores (backend/src/admin/admin.service.ts: transfers and *)
(* adjustments; pos.service.ts: the decrement of a sale).  A request is a  *)
(* READ COMMITTED transaction: it reads its transfer without a lock and    *)
(* then runs one statement after the other.  A statement that changes a    *)
(* row keeps it locked; `draft` holds the rows a request has changed and   *)
(* is what the others do not see yet.  products.stock_qty is the row of a  *)
(* store of its own, Catalog.  Names, prices, notes and audit rows decide  *)
(* nothing after validation and are left out.                              *)
(***************************************************************************)
EXTENDS Integers, Sequences, SequencesExt, FiniteSetsExt, TLC

CONSTANTS
    Stores, Products, Catalog, NoRow,
    Transfers, From, To, Cargo,     \* Cargo[t]: a sequence of [product, qty]
    Requests,
    Kind,       \* what a request does, see Kinds
    About,      \* its transfer, or the <<store, product>> it sells or corrects
    Amount,     \* units: negative for a sale
    Stock,      \* store_stocks and products at the start
    Scenes,     \* the sets of requests that meet
    Parallel    \* transactions open at the same time

Shelves == Stores \X Products
Rows == (Stores \cup {Catalog}) \X Products
Creates == {"draft", "send", "immediate"}           \* createTransfer, by mode
Kinds == Creates \cup {"ship", "receive", "cancel", "sell", "adjust", "set"}
Moving == {r \in Requests : About[r] \in Transfers}

ASSUME InventoryAssumption ==
    /\ Catalog \notin Stores /\ NoRow \notin Int
    /\ From \in [Transfers -> Stores] /\ To \in [Transfers -> Stores]
    /\ \A t \in Transfers : From[t] # To[t]
    /\ Cargo \in [Transfers -> Seq([product : Products, qty : Nat \ {0}])]
    /\ Kind \in [Requests -> Kinds] /\ About \in [Requests -> Transfers \cup Shelves]
    /\ Transfers \cap Shelves = {}
    /\ \A r \in Requests : r \in Moving <=> Kind[r] \notin {"sell", "adjust", "set"}
    /\ Amount \in [Requests -> Int]
    /\ \A r \in Requests : /\ Kind[r] = "sell" => Amount[r] < 0
                           /\ Kind[r] = "set" => Amount[r] >= 0
    /\ \A r, q \in Moving : Kind[r] \in Creates /\ Kind[q] \in Creates /\ About[r] = About[q] => r = q
    /\ Stock \in [Rows -> Nat \cup {NoRow}] /\ \A p \in Products : Stock[<<Catalog, p>>] # NoRow
    /\ Scenes \subseteq SUBSET Requests /\ Parallel \in Nat

VARIABLES
    qty,      \* store_stocks.qty and products.stock_qty, as committed
    status,   \* stock_transfers.status, "none" before it is created
    pc,       \* "start", "run" or "done"
    todo,     \* the statements a request has left
    draft,    \* the rows it has changed and locked
    known,    \* the quantity it has read
    clash     \* history: two requests that must not overlap were open at once

vars == <<qty, status, pc, todo, draft, known, clash>>
-------------------------------------------------------------------------------
Step(do, row, n) == [do |-> do, row |-> row, n |-> n]

(* Three statements for each line of a transfer: ensureStoreStockRows for  *)
(* either store, then the UPDATE of the one the goods leave or reach.      *)
Lines(t, do, store) ==
    [k \in 1 .. 3 * Len(Cargo[t]) |->
        LET l == Cargo[t][(k + 2) \div 3] IN
        CASE k % 3 = 1 -> Step("openFromCatalog", <<From[t], l.product>>, 0)
          [] k % 3 = 2 -> Step("open", <<To[t], l.product>>, 0)
          [] OTHER     -> Step(do, <<store, l.product>>, l.qty)]
ShipLines(t) == Lines(t, "take", From[t])
ReceiveLines(t) == Lines(t, "add", To[t])

(* cancelTransfer opens no row.                                            *)
RestoreLines(t) ==
    [i \in DOMAIN Cargo[t] |-> Step("add", <<From[t], Cargo[t][i].product>>, Cargo[t][i].qty)]

(* decrementStockAtomic                                                    *)
Decrement(shelf, n) ==
    <<Step("openFromCatalog", shelf, 0), Step("take", shelf, n), Step("sink", <<Catalog, shelf[2]>>, n)>>

(* patchStoreInventory: the row, then the sum of the stores into products. *)
Patch(shelf, do, n) ==
    <<Step("openAsRead", shelf, 0), Step("read", shelf, 0), Step(do, shelf, n),
      Step("sum", shelf, 0), Step("total", <<Catalog, shelf[2]>>, 0)>>

Statements(r) ==
    LET t == About[r] IN
    CASE Kind[r] = "draft" -> <<>>
      [] Kind[r] \in {"send", "ship"} -> ShipLines(t)
      [] Kind[r] = "immediate" -> ShipLines(t) \o ReceiveLines(t)
      [] Kind[r] = "receive" -> ReceiveLines(t)
      [] Kind[r] = "cancel" -> IF status[t] = "IN_TRANSIT" THEN RestoreLines(t) ELSE <<>>
      [] Kind[r] = "sell" -> Decrement(t, -Amount[r])
      [] OTHER -> Patch(t, Kind[r], Amount[r])

(* Mutant: a transfer that has arrived can be cancelled.                   *)
AcceptsArrived == [k \in Kinds |->
    CASE k = "ship" -> {"DRAFT"} [] k = "receive" -> {"IN_TRANSIT"}
      [] k = "cancel" -> {"DRAFT", "IN_TRANSIT", "COMPLETED"} [] OTHER -> {"none"}]

(* The statuses a request accepts, and the one it leaves.                  *)
Accepts == [k \in Kinds |->
    CASE k = "ship" -> {"DRAFT"} [] k = "receive" -> {"IN_TRANSIT"}
      [] k = "cancel" -> {"DRAFT", "IN_TRANSIT"} [] OTHER -> {"none"}]
Leaves == [k \in Kinds |->
    CASE k = "draft" -> "DRAFT" [] k \in {"ship", "send"} -> "IN_TRANSIT"
      [] k = "cancel" -> "CANCELLED" [] OTHER -> "COMPLETED"]

Allowed(r) == r \in Moving => status[About[r]] \in Accepts[Kind[r]]
-------------------------------------------------------------------------------
Open(r) == pc[r] = "run"
Held(r) == DOMAIN draft[r]
Sees(r, row) == IF row \in Held(r) THEN draft[r][row] ELSE qty[row]
Units(n) == IF n = NoRow THEN 0 ELSE n
SumSeen(r, product) == MapThenSumSet(LAMBDA s : Units(Sees(r, <<s, product>>)), Stores)

(* Two requests must not overlap on a transfer, nor may anything touch the *)
(* row of a relative adjustment, if the book is to be kept.                *)
Touches(r) == IF r \in Moving THEN {From[About[r]], To[About[r]]} \X Products ELSE {About[r]}
Competes(r, q) ==
    \/ {r, q} \subseteq Moving /\ About[r] = About[q]
    \/ "adjust" \in {Kind[r], Kind[q]} /\ Touches(r) \cap Touches(q) # {}

Begin(r) ==
    /\ pc[r] = "start" /\ Allowed(r)
    /\ Quantify(Requests, LAMBDA q : Open(q)) < Parallel
    /\ pc' = [pc EXCEPT ![r] = "run"]
    /\ todo' = [todo EXCEPT ![r] = Statements(r)]
    /\ known' = [known EXCEPT ![r] = IF r \in Moving THEN 0 ELSE qty[<<Catalog, About[r][2]>>]]
    /\ clash' = (clash \/ \E q \in Requests \ {r} : Open(q) /\ Competes(r, q))
    /\ UNCHANGED <<qty, status, draft>>

Finish(r) ==
    /\ pc' = [pc EXCEPT ![r] = "done"]
    /\ todo' = [todo EXCEPT ![r] = <<>>]
    /\ draft' = [draft EXCEPT ![r] = <<>>]
    /\ known' = [known EXCEPT ![r] = 0]
    /\ UNCHANGED clash

RollBack(r) == Finish(r) /\ UNCHANGED <<qty, status>>

Refuse(r) == pc[r] = "start" /\ ~Allowed(r) /\ RollBack(r)

Next1(r) == Head(todo[r])
Does(r, dos) == Open(r) /\ todo[r] # <<>> /\ Next1(r).do \in dos
Advance(r) ==
    /\ todo' = [todo EXCEPT ![r] = Tail(@)]
    /\ UNCHANGED <<qty, status, pc, clash>>
Lock(r, row) == \A q \in Requests \ {r} : row \notin Held(q)
Put(r, row, n) == Lock(r, row) /\ draft' = [draft EXCEPT ![r] = (row :> n) @@ @]

(* INSERT ... ON CONFLICT DO NOTHING: waits for a row that is being opened.*)
Seed(r) ==
    CASE Next1(r).do = "open" -> 0
      [] Next1(r).do = "openAsRead" -> known[r]
      [] OTHER -> qty[<<Catalog, Next1(r).row[2]>>]
OpenRow(r) ==
    /\ Does(r, {"open", "openAsRead", "openFromCatalog"})
    /\ IF Sees(r, Next1(r).row) = NoRow THEN Put(r, Next1(r).row, Seed(r)) ELSE UNCHANGED draft
    /\ Advance(r) /\ UNCHANGED known

Read(r) ==
    /\ Does(r, {"read", "sum"})
    /\ known' = [known EXCEPT ![r] = IF Next1(r).do = "sum" THEN SumSeen(r, Next1(r).row[2])
                                                          ELSE Sees(r, Next1(r).row)]
    /\ Advance(r) /\ UNCHANGED draft

(* What an UPDATE leaves in its row, and what may not become negative.     *)
Result(r) ==
    LET old == Sees(r, Next1(r).row) n == Next1(r).n IN
    CASE Next1(r).do = "take" -> old - n
      [] Next1(r).do = "add" -> old + n
      [] Next1(r).do = "adjust" -> known[r] + n
      [] Next1(r).do = "set" -> n
      [] Next1(r).do = "total" -> known[r]
      [] Next1(r).do = "sink" -> Max({0, old - n})

(* Mutant: the decrement without its AND qty >= n.                         *)
WriteUnguarded(r) ==
    /\ Does(r, {"take", "add", "adjust", "set", "total", "sink"})
    /\ Put(r, Next1(r).row, Result(r))
    /\ Advance(r) /\ UNCHANGED known

Write(r) ==
    /\ Does(r, {"take", "add", "adjust", "set", "total", "sink"})
    /\ Result(r) >= 0
    /\ Put(r, Next1(r).row, Result(r))
    /\ Advance(r) /\ UNCHANGED known

(* 400 or 409: insufficient stock, or an adjustment below zero.            *)
Insufficient(r) ==
    /\ Does(r, {"take", "adjust"})
    /\ Lock(r, Next1(r).row) /\ Result(r) < 0
    /\ RollBack(r)

(* The status is written without asking again, and the transaction ends.   *)
Commit(r) ==
    /\ Open(r) /\ todo[r] = <<>>
    /\ qty' = draft[r] @@ qty
    /\ status' = IF r \in Moving THEN [status EXCEPT ![About[r]] = Leaves[Kind[r]]] ELSE status
    /\ Finish(r)

TimeOut(r) == Open(r) /\ RollBack(r)

Init ==
    /\ qty = Stock /\ status = [t \in Transfers |-> "none"]
    /\ \E scene \in Scenes : pc = [r \in Requests |-> IF r \in scene THEN "start" ELSE "done"]
    /\ todo = [r \in Requests |-> <<>>] /\ draft = [r \in Requests |-> <<>>]
    /\ known = [r \in Requests |-> 0] /\ clash = FALSE

Next ==
    \E r \in Requests :
        \/ Begin(r) \/ Refuse(r) \/ OpenRow(r) \/ Read(r) \/ Write(r)
        \/ Insufficient(r) \/ Commit(r) \/ TimeOut(r)

Spec == Init /\ [][Next]_vars
-------------------------------------------------------------------------------
Statement == [do : {"openFromCatalog", "open", "openAsRead", "take", "add", "sink", "adjust", "set",
                    "read", "sum", "total"}, row : Rows, n : Int]

(* Every figure is a quantity, and what a request has drafted are rows.    *)
InventoryTypeOK ==
    /\ qty \in [Rows -> Nat \cup {NoRow}]
    /\ status \in [Transfers -> {"none", "DRAFT", "IN_TRANSIT", "COMPLETED", "CANCELLED"}]
    /\ pc \in [Requests -> {"start", "run", "done"}]
    /\ todo \in [Requests -> Seq(Statement)]
    /\ \A r \in Requests : draft[r] \in [Held(r) -> Nat] /\ Held(r) \subseteq Rows
    /\ known \in [Requests -> Nat \cup {NoRow}] /\ clash \in BOOLEAN

(* The transactions of the back office and the tills implement the stock   *)
(* book, transfers moving goods exactly once, as long as no two requests   *)
(* are open at once about one transfer, and nothing else touches the row   *)
(* of a relative adjustment: the code checks a status, and adds to a       *)
(* quantity, that it has read without a lock (admin.service.ts:1336, 1145).*)
Book == INSTANCE StockBook WITH
            shelf  <- [s \in Shelves |-> qty[s]],
            phase  <- status,
            Sales  <- {r \in Requests : Kind[r] \in {"sell", "adjust"}},
            Counts <- {r \in Requests : Kind[r] = "set"},
            Place  <- About
BookRefined == Book!BookInit /\ [][clash' \/ Book!BookNext]_<<qty, status>>

(* Refuted without the turns: "Cannot ship transfer in status" says that a *)
(* transfer is shipped once (admin.service.ts:1337).                       *)
MovedOnce == [][Book!BookNext]_<<[s \in Shelves |-> qty[s]], status>>
===============================================================================
