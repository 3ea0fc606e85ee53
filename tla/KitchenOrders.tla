----------------------------- MODULE KitchenOrders -----------------------------
(***************************************************************************)
(* The kitchen (backend/src/kitchen/kitchen.service.ts): tills fire cart   *)
(* items to it, its boards (frontend/src/pages/KitchenPage.vue) bump them, *)
(* and a sale clears them.  A request is a transaction that reads its      *)
(* order without a lock: Begin... reads, Commit... writes.  Requests may   *)
(* overtake one another; a fire that fails is not sent again.  A board may *)
(* show a dish as it was some time ago, so any dish fired so far may be    *)
(* bumped; the server refuses what does not follow the status it reads.    *)
(***************************************************************************)
EXTENDS Integers, FiniteSets

CONSTANTS
    Items, Cart,     \* cart items (clientLineId), each in a cart
    Guest,           \* whom an item is for
    Station,         \* products.kitchenStationId
    Cooks, Assigned, \* KITCHEN users and their stations; the others see all
    Switched,        \* stations that are taken out of use and back
    MaxOrders, MaxQuantity, MaxTaps, Parallel   \* bounds

ASSUME KitchenAssumption ==
    /\ MaxOrders \in Nat /\ MaxQuantity \in Nat /\ MaxTaps \in Nat /\ Parallel \in Nat
    /\ Guest \in [Items -> Nat] /\ DOMAIN Cart = Items /\ DOMAIN Station = Items
    /\ DOMAIN Assigned = Cooks

Orders == 1 .. MaxOrders
Lines == Orders \X Items            \* unique (order, clientLineId)
Open == {"PENDING", "PREPARING", "READY"}
Stations == {Station[i] : i \in Items}
NoTicket == 0

VARIABLES
    inCart,             \* the till: quantity of each item
    posts,              \* fires on their way, [item, quantity]
    taps,               \* how often an item was tapped, bounded
    queue, gone,        \* sales in the offline queue; carts that are paid
    owner, order,       \* kitchen_orders: the cart and the status
    lineIs, asked,        \* kitchen_order_lines: status and quantity
    active,             \* stations in use
    fires, bumps, sales,\* transactions at work
    overtaken           \* history, see Overtaken

till == <<inCart, posts, taps, queue, gone>>
tickets == <<owner, order, lineIs, asked>>
work == <<fires, bumps, sales>>
kitchenVars == <<till, tickets, active, work, overtaken>>
-------------------------------------------------------------------------------
OrdersOf(c) == {o \in Orders : order[o] = "OPEN" /\ owner[o] = c}
OpenLines == {l \in Lines : order[l[1]] = "OPEN" /\ lineIs[l] \in Open}

(* listActiveTickets: a cook sees the stations in use that are the cook's. *)
Allowed(u) == IF u \in Cooks THEN Assigned[u] \cap active ELSE Stations
Listed(u) == {l \in OpenLines : Station[l[2]] \in Allowed(u)}

(* Requests under way.                                                     *)
Busy == Cardinality(posts) + Cardinality(queue) + Cardinality(fires) + Cardinality(bumps) + Cardinality(sales)

(* What a transaction has read does not hold any more when it writes.      *)
Overtaken(yes) == overtaken' = (overtaken \/ yes)
-------------------------------------------------------------------------------
(* A tap adds one to its item and fires the item, at its whole quantity;   *)
(* changes of a quantity are not sent to the kitchen.                      *)
AddDish(i) ==
    /\ taps < MaxTaps /\ taps' = taps + 1 /\ Busy < Parallel
    /\ inCart[i] < MaxQuantity /\ Cart[i] \notin gone
    /\ inCart' = [inCart EXCEPT ![i] = @ + 1]
    /\ posts' = posts \cup {[item |-> i, quantity |-> inCart'[i]]}
    /\ UNCHANGED <<queue, gone, tickets, active, work, overtaken>>
SetDishQuantity(i, n) ==
    /\ inCart[i] > 0 /\ n # inCart[i] /\ inCart' = [inCart EXCEPT ![i] = n]
    /\ UNCHANGED <<posts, taps, queue, gone, tickets, active, work, overtaken>>
LosePost(p) ==
    /\ posts' = posts \ {p}
    /\ UNCHANGED <<inCart, taps, queue, gone, tickets, active, work, overtaken>>

(* fireToKitchen: the open order of the cart, or none yet.                 *)
BeginFire(p) ==
    /\ posts' = posts \ {p}
    /\ LET open == OrdersOf(Cart[p.item]) IN
       \E o \in IF open = {} THEN {NoTicket} ELSE open :
          fires' = fires \cup {[item |-> p.item, quantity |-> p.quantity, order |-> o]}
    /\ UNCHANGED <<inCart, taps, queue, gone, tickets, active, bumps, sales, overtaken>>

(* A line the order has is not fired again.                                *)
Fired(o, f) ==
    IF Station[f.item] \in active /\ lineIs[<<o, f.item>>] = "none"
    THEN /\ lineIs' = [lineIs EXCEPT ![<<o, f.item>>] = "PENDING"]
         /\ asked' = [asked EXCEPT ![<<o, f.item>>] = f.quantity]
    ELSE UNCHANGED <<lineIs, asked>>
Unused == {o \in Orders : order[o] = "none"}
CommitFire(f) ==
    /\ fires' = fires \ {f}
    /\ IF f.order # NoTicket
       THEN Fired(f.order, f) /\ UNCHANGED <<owner, order>>
       ELSE \E o \in Unused :
               /\ \A x \in Unused : o <= x
               /\ owner' = [owner EXCEPT ![o] = Cart[f.item]]
               /\ order' = [order EXCEPT ![o] = "OPEN"]
               /\ Fired(o, f)
    /\ Overtaken(IF f.order = NoTicket THEN OrdersOf(Cart[f.item]) # {} ELSE order[f.order] # "OPEN")
    /\ UNCHANGED <<till, active, bumps, sales>>
-------------------------------------------------------------------------------
Next1 == [PENDING |-> "PREPARING", PREPARING |-> "READY", READY |-> "DONE"]

(* bumpLine                                                                *)
BeginBump(l, to) ==
    /\ Busy < Parallel
    /\ l \in OpenLines /\ to \in {Next1[lineIs[l]], "CANCELLED"}
    /\ bumps' = bumps \cup {[line |-> l, to |-> to, from |-> lineIs[l], counted |-> FALSE, close |-> FALSE]}
    /\ UNCHANGED <<till, tickets, active, fires, sales, overtaken>>

(* The row is written and stays locked; maybeCloseOrder counts what is     *)
(* left as it is committed.                                                *)
LeftOpen(o) == {i \in Items : lineIs[<<o, i>>] \in Open}

(* Mutant: READY is not counted as open.                                   *)
WriteBumpReadyLeft(b) ==
    /\ ~b.counted /\ \A x \in bumps : x.line = b.line => ~x.counted
    /\ LET left == {i \in LeftOpen(b.line[1]) : lineIs[<<b.line[1], i>>] # "READY"} IN
       bumps' = (bumps \ {b}) \cup {[b EXCEPT !.counted = TRUE,
                    !.close = left \ {b.line[2]} = {} /\ b.to \notin Open \ {"READY"}]}
    /\ UNCHANGED <<till, tickets, active, fires, sales, overtaken>>

WriteBump(b) ==
    /\ ~b.counted /\ \A x \in bumps : x.line = b.line => ~x.counted
    /\ bumps' = (bumps \ {b}) \cup {[b EXCEPT !.counted = TRUE,
                    !.close = LeftOpen(b.line[1]) \ {b.line[2]} = {} /\ b.to \notin Open]}
    /\ UNCHANGED <<till, tickets, active, fires, sales, overtaken>>
CommitBump(b) ==
    /\ b.counted /\ bumps' = bumps \ {b}
    /\ lineIs' = [lineIs EXCEPT ![b.line] = b.to]
    /\ order' = IF b.close THEN [order EXCEPT ![b.line[1]] = "DONE"] ELSE order
    /\ Overtaken(\/ lineIs[b.line] # b.from
                 \/ IF b.close THEN LeftOpen(b.line[1]) \ {b.line[2]} # {} ELSE order[b.line[1]] # "OPEN")
    /\ UNCHANGED <<till, owner, asked, active, fires, sales>>

(* CheckoutDishes puts the sale into the offline queue.  One guest may pay, and  *)
(* the others stay in the cart.                                            *)
Seated(c) == {Guest[i] : i \in {x \in Items : Cart[x] = c /\ inCart[x] > 0}}
CheckoutDishes(c, guests) ==
    /\ Busy < Parallel /\ guests # {} /\ guests \subseteq Seated(c) /\ c \notin queue
    /\ Cardinality(guests) = 1 \/ guests = Seated(c)
    /\ inCart' = [i \in Items |-> IF Cart[i] = c /\ Guest[i] \in guests THEN 0 ELSE inCart[i]]
    /\ queue' = queue \cup {c}
    /\ gone' = IF guests = Seated(c) THEN gone \cup {c} ELSE gone
    /\ UNCHANGED <<posts, taps, tickets, active, work, overtaken>>

(* completeForSale: the transaction of the sale finds the orders of its    *)
(* cart, then updates the open lines of one order after the other.         *)
BeginSale(c) ==
    /\ c \in queue /\ queue' = queue \ {c}
    /\ sales' = sales \cup {[cart |-> c, orders |-> OrdersOf(c), cleared |-> {}, found |-> {}]}
    /\ UNCHANGED <<inCart, taps, gone, posts, tickets, active, fires, bumps, overtaken>>

(* kitchenOrderLine.updateMany knows the lines there are when it starts.   *)
ClearDishes(s, o) ==
    /\ o \in s.orders \ s.cleared
    /\ sales' = (sales \ {s}) \cup {[s EXCEPT !.cleared = @ \cup {o},
                                              !.found = @ \cup ({o} \X LeftOpen(o))]}
    /\ UNCHANGED <<till, tickets, active, fires, bumps, overtaken>>

(* It waits for bumps of those lines and looks again at their status.  The *)
(* journal, the shift and the day follow before the sale is committed; a   *)
(* fire that is committed until then leaves its line as it is.             *)
CommitSale(s) ==
    /\ s.cleared = s.orders /\ \A b \in bumps : b.counted => b.line \notin s.found
    /\ sales' = sales \ {s}
    /\ lineIs' = [l \in Lines |-> IF l \in s.found /\ lineIs[l] \in Open THEN "DONE" ELSE lineIs[l]]
    /\ order' = [o \in Orders |-> IF o \in s.orders THEN "DONE" ELSE order[o]]
    /\ Overtaken(\E o \in s.orders : ~(({o} \X LeftOpen(o)) \subseteq s.found))
    /\ UNCHANGED <<till, owner, asked, active, fires, bumps>>
-------------------------------------------------------------------------------
(* updateStation                                                           *)
SwitchStation(s) ==
    /\ active' = IF s \in active THEN active \ {s} ELSE active \cup {s}
    /\ UNCHANGED <<till, tickets, work, overtaken>>

KitchenInit ==
    /\ inCart = [i \in Items |-> 0] /\ posts = {} /\ taps = 0 /\ queue = {} /\ gone = {}
    /\ owner = [o \in Orders |-> "nobody"] /\ order = [o \in Orders |-> "none"]
    /\ lineIs = [l \in Lines |-> "none"] /\ asked = [l \in Lines |-> 0]
    /\ active = Stations /\ fires = {} /\ bumps = {} /\ sales = {}
    /\ overtaken = FALSE

KitchenNext ==
    \/ \E i \in Items : AddDish(i) \/ \E n \in 0 .. MaxQuantity : SetDishQuantity(i, n)
    \/ \E p \in posts : LosePost(p) \/ BeginFire(p)
    \/ \E f \in fires : CommitFire(f)
    \/ \E l \in Lines, to \in {"PREPARING", "READY", "DONE", "CANCELLED"} : BeginBump(l, to)
    \/ \E b \in bumps : WriteBump(b) \/ CommitBump(b)
    \/ \E c \in {Cart[i] : i \in Items} : BeginSale(c) \/ \E g \in SUBSET Seated(c) : CheckoutDishes(c, g)
    \/ \E s \in sales : CommitSale(s) \/ \E o \in Orders : ClearDishes(s, o)
    \/ \E s \in Switched : SwitchStation(s)

KitchenSpec == KitchenInit /\ [][KitchenNext]_kitchenVars
-------------------------------------------------------------------------------
(* A dish that is fired and not yet served is listed for the cooks of its  *)
(* station, and once only: its order is not closed before it, by a bump of *)
(* another dish or by a sale, as long as no two transactions overlap on    *)
(* its cart.                                                               *)
DishesListed ==
    ~overtaken => \A i \in Items :
        LET dishes == {l \in Lines : l[2] = i /\ lineIs[l] \in Open} IN
        /\ Cardinality(dishes) <= 1
        /\ \A l \in dishes, c \in Cooks : Station[i] \in Assigned[c] \cap active => l \in Listed(c)

(* Refuted: requests do overlap, and two fires find no order, a bump       *)
(* closes the order a fire has found, two bumps leave it open for ever.    *)
DishesListedAnyway ==
    \A l \in Lines, c \in Cooks :
        lineIs[l] \in Open /\ Station[l[2]] \in Assigned[c] \cap active => l \in Listed(c)

(* Refuted: the dishes of guests who have not paid leave the board with    *)
(* those of one who has.                                                   *)
ServedOrPaid ==
    [][\A l \in Lines : lineIs[l] \in Open /\ lineIs'[l] = "DONE" /\ lineIs[l] # "READY" => inCart[l[2]] = 0]_kitchenVars
===============================================================================
