----------------------------- MODULE DiningFloor -----------------------------
(***************************************************************************)
(* Tables, and the orders that tills keep on them: the floor of            *)
(* backend/src/tables/tables.service.ts as frontend/src/components/        *)
(* TableFloorPanel.vue last loaded it, the carts of a till                 *)
(* (frontend/src/stores/cart.store.ts: park, resume, openTable, ...), and  *)
(* the snapshots of them that the server takes (pos.service.ts upsertCart, *)
(* here in one step; CartSync has its steps).                              *)
(***************************************************************************)
EXTENDS Integers, FiniteSets

CONSTANTS
    Tills, Spots,       \* dining tables
    InArea,             \* those that are in the area; others are ungrouped
    MaxCarts, MaxItems, MaxDoings     \* bounds

ASSUME FloorAssumption == InArea \subseteq Spots /\ {MaxCarts, MaxItems, MaxDoings} \subseteq Nat

CartIds == 1..MaxCarts     \* carts that have an item or a table; 0 is an empty one
NoSpot == "no table"
NoOrder == [status |-> "none", table |-> NoSpot, parked |-> FALSE, items |-> {}, at |-> 0]

VARIABLES
    carts,        \* of the server
    local,        \* open carts that a till has stored, by clientUuid
    current,      \* the cart a till shows
    sending,      \* snapshots a till has queued, the newest of each cart
    floor,        \* the floor a till has loaded: the active cart of a table, or 0
    spots,        \* dining tables there are
    inactive, areaActive,
    doings,       \* bounded; the clock of what a till does
    contested     \* history, see InTheWay and Behind

floorVars == <<carts, local, current, sending, floor, spots, inactive, areaActive, doings, contested>>
cartVars == <<local, current, sending>>
adminVarsOfFloor == <<spots, inactive, areaActive>>

Doing == doings < MaxDoings /\ doings' = doings + 1
Stored(t, c) == c \in DOMAIN local[t]
Begun == {c \in CartIds : carts[c].status # "none" \/ \E t \in Tills : Stored(t, c) \/ c \in DOMAIN sending[t]}
NewOrder == CHOOSE c \in CartIds : c = 1 + Cardinality(Begun)
With(f, c, row) == [d \in DOMAIN f \cup {c} |-> IF d = c THEN row ELSE f[d]]
Less(f, c) == [d \in DOMAIN f \ {c} |-> f[d]]
-------------------------------------------------------------------------------
(* getFloor: the newest open cart of a table, parked or with items.        *)
ShownUnparked(c) == carts[c].status = "OPEN" /\ carts[c].items # {} /\ ~carts[c].parked     \* Mutant: parked carts are left out.
Shown(c) == carts[c].status = "OPEN" /\ (carts[c].items # {} \/ carts[c].parked)
ActiveCart(s) ==
    LET there == {c \in CartIds : carts[c].table = s /\ Shown(c)} IN
    IF there = {} THEN 0 ELSE CHOOSE c \in there : \A d \in there : carts[d].at <= carts[c].at
Floor == [s \in {s \in spots \ inactive : s \in InArea => areaActive} |-> ActiveCart(s)]

LoadFloor(t) ==
    /\ floor[t] # Floor
    /\ floor' = [floor EXCEPT ![t] = Floor]
    /\ UNCHANGED <<carts, cartVars, adminVarsOfFloor, doings, contested>>

(* History.  A table is tapped that something is on which the floor does   *)
(* not show; a copy of a cart is used that another till has gone on with.  *)
InTheWay(t, s) ==
    \/ floor[t] # Floor \/ \E u \in Tills : sending[u] # << >>
    \/ \E u \in Tills : \E c \in DOMAIN local[u] :
          local[u][c].table = s /\ local[u][c].items = {} /\ ~local[u][c].parked
Behind(t, c) ==
    \/ \E u \in Tills \ {t} : c \in DOMAIN sending[u]
    \/ carts[c].status = "CHECKED_OUT"
    \/ carts[c].status = "OPEN" /\ c \notin DOMAIN sending[t]
       /\ <<carts[c].items, carts[c].table>> # <<local[t][c].items, local[t][c].table>>
Contests(b) == contested' = (contested \/ b)

(* persist and queueCartSnapshot of the carts in rows, one after another.  *)
Stamped(rows) == [c \in DOMAIN rows |-> [rows[c] EXCEPT !.at = doings + 1]]
Store(t, rows) ==
    /\ local' = [local EXCEPT ![t] = [c \in DOMAIN @ \cup DOMAIN rows |-> IF c \in DOMAIN rows THEN Stamped(rows)[c] ELSE @[c]]]
    /\ sending' = [sending EXCEPT ![t] = [c \in DOMAIN @ \cup DOMAIN rows |-> IF c \in DOMAIN rows THEN Stamped(rows)[c] ELSE @[c]]]
TillOnly == UNCHANGED <<carts, floor, adminVarsOfFloor>>

(* What resume and importFromServer do with the cart that was shown.       *)
Parked(t) ==
    LET c == current[t] IN
    IF c # 0 /\ local[t][c].items # {} THEN [d \in {c} |-> [local[t][c] EXCEPT !.parked = TRUE]] ELSE << >>
-------------------------------------------------------------------------------
AddItem(t) ==
    LET c == IF current[t] = 0 THEN NewOrder ELSE current[t]
        row == IF current[t] = 0 THEN [NoOrder EXCEPT !.status = "OPEN"] ELSE local[t][c] IN
    /\ current[t] = 0 => Cardinality(Begun) < MaxCarts
    /\ Cardinality(row.items) < MaxItems /\ Doing
    /\ Store(t, [d \in {c} |-> [row EXCEPT !.items = @ \cup {doings}]])
    /\ current' = [current EXCEPT ![t] = c]
    /\ Contests(current[t] # 0 /\ Behind(t, c)) /\ TillOnly

ParkCart(t) ==
    /\ Parked(t) # << >> /\ Doing
    /\ Store(t, Parked(t)) /\ current' = [current EXCEPT ![t] = 0]
    /\ Contests(Behind(t, current[t])) /\ TillOnly

Resume(t, c) ==
    /\ Stored(t, c)
    /\ Store(t, With(Parked(t), c, [local[t][c] EXCEPT !.parked = FALSE]))
    /\ current' = [current EXCEPT ![t] = c]
ResumeHeld(t, c) ==            \* heldCarts: parked or with items
    /\ c # current[t] /\ Stored(t, c) /\ (local[t][c].parked \/ local[t][c].items # {}) /\ Doing
    /\ Resume(t, c)
    /\ Contests(Behind(t, c) \/ (current[t] # 0 /\ Behind(t, current[t]))) /\ TillOnly

ImportFromServer(t, c) ==
    /\ ~Stored(t, c) /\ carts[c].status = "OPEN"
    /\ Store(t, With(Parked(t), c, [carts[c] EXCEPT !.parked = FALSE]))
    /\ current' = [current EXCEPT ![t] = c]

StartOnTable(t, s) ==          \* startNewCart, then assignTable
    /\ Cardinality(Begun) < MaxCarts
    /\ Store(t, [d \in {NewOrder} |-> [NoOrder EXCEPT !.status = "OPEN", !.table = s]])
    /\ current' = [current EXCEPT ![t] = NewOrder]

OpenTableAnew(t, s) == StartOnTable(t, s)     \* Mutant: whatever is on it.
OpenTable(t, s) ==
    LET c == floor[t][s] IN
    IF c = 0 THEN StartOnTable(t, s) ELSE Resume(t, c) \/ ImportFromServer(t, c)
SelectTable(t, s) ==
    /\ s \in DOMAIN floor[t] /\ Doing
    /\ OpenTable(t, s)
    /\ Contests(\/ InTheWay(t, s)
                \/ \E c \in {current[t], floor[t][s]} \ {0} : Stored(t, c) /\ Behind(t, c))
    /\ TillOnly

ClearTable(t) ==
    LET c == current[t] IN
    /\ c # 0 /\ local[t][c].table # NoSpot /\ Doing
    /\ Store(t, [d \in {c} |-> [local[t][c] EXCEPT !.table = NoSpot]])
    /\ Contests(Behind(t, c)) /\ UNCHANGED current /\ TillOnly

(* clear: abandoned on the till; only the new empty cart is queued.        *)
ClearCart(t) ==
    /\ current[t] # 0 /\ Doing
    /\ local' = [local EXCEPT ![t] = Less(@, current[t])]
    /\ current' = [current EXCEPT ![t] = 0]
    /\ UNCHANGED <<sending, contested>> /\ TillOnly

(* A sale closes the cart, here and with the server.                       *)
Sell(t) ==
    LET c == current[t] IN
    /\ c # 0 /\ local[t][c].items # {} /\ Doing
    /\ sending' = [sending EXCEPT ![t] = With(@, c, [local[t][c] EXCEPT !.status = "CHECKED_OUT", !.at = doings + 1])]
    /\ local' = [local EXCEPT ![t] = Less(@, c)]
    /\ current' = [current EXCEPT ![t] = 0]
    /\ Contests(Behind(t, c)) /\ TillOnly

(* loadOpenCart, after a reload: some open cart that is not parked, an     *)
(* empty one among them.                                                   *)
LoadOpenCart(t) ==
    /\ Doing
    /\ LET open == {c \in DOMAIN local[t] : ~local[t][c].parked} IN
       current' \in {[current EXCEPT ![t] = c] : c \in {0} \cup open}
    /\ UNCHANGED <<local, sending, contested>> /\ TillOnly
-------------------------------------------------------------------------------
(* The server takes a snapshot, unless it has something newer; others are  *)
(* released from its table.  Snapshots of an inactive table are refused.   *)
Applies(c, row) == carts[c].status = "OPEN" /\ row.status = "OPEN" => row.at >= carts[c].at
UpsertCart(t, c) ==
    LET row == sending[t][c] IN
    /\ c \in DOMAIN sending[t] /\ row.table \notin inactive
    /\ sending' = [sending EXCEPT ![t] = Less(@, c)]
    /\ carts' = IF ~Applies(c, row) THEN carts
                ELSE [d \in CartIds |->
                         IF d = c THEN [row EXCEPT !.at = doings]
                         ELSE IF row.table # NoSpot /\ carts[d].status = "OPEN" /\ carts[d].table = row.table
                         THEN [carts[d] EXCEPT !.table = NoSpot, !.at = doings] ELSE carts[d]]
    /\ UNCHANGED <<local, current, floor, adminVarsOfFloor, doings, contested>>

(* The outlet page: a new table, and what is active.                       *)
AddDiningTable(s) ==
    /\ s \notin spots /\ spots' = spots \cup {s}
    /\ UNCHANGED <<carts, cartVars, floor, inactive, areaActive, doings, contested>>
ToggleDiningTable(s) ==
    /\ s \in spots /\ Doing
    /\ inactive' = IF s \in inactive THEN inactive \ {s} ELSE inactive \cup {s}
    /\ UNCHANGED <<carts, cartVars, floor, spots, areaActive, contested>>
ToggleTableArea ==
    /\ Doing /\ areaActive' = ~areaActive
    /\ UNCHANGED <<carts, cartVars, floor, spots, inactive, contested>>
-------------------------------------------------------------------------------
FloorInit ==
    /\ carts = [c \in CartIds |-> NoOrder]
    /\ local = [t \in Tills |-> << >>] /\ sending = [t \in Tills |-> << >>] /\ current = [t \in Tills |-> 0]
    /\ spots \in SUBSET Spots /\ inactive = {} /\ areaActive = TRUE
    /\ floor = [t \in Tills |-> Floor]
    /\ doings = 0 /\ contested = FALSE

FloorNext ==
    \/ \E t \in Tills :
          \/ LoadFloor(t) \/ AddItem(t) \/ ParkCart(t) \/ ClearTable(t) \/ ClearCart(t) \/ Sell(t) \/ LoadOpenCart(t)
          \/ \E c \in CartIds : ResumeHeld(t, c) \/ UpsertCart(t, c)
          \/ \E s \in Spots : SelectTable(t, s)
    \/ \E s \in Spots : AddDiningTable(s) \/ ToggleDiningTable(s)
    \/ ToggleTableArea

FloorSpec == FloorInit /\ [][FloorNext]_floorVars
-------------------------------------------------------------------------------
(* Tills that tap a table with its floor loaded and everything sent, and   *)
(* that go on with a cart where the last one left it, keep the order of    *)
(* every table: no open cart loses an item, nor its table to another cart, *)
(* however it is parked, resumed, imported, forgotten and reloaded         *)
(* (upsertCart: "One active OPEN cart per table - release stale empty      *)
(* assignments").                                                          *)
TablesKeepItems ==
    [][~contested' =>
          \A c \in CartIds : carts[c].status = "OPEN" /\ carts[c].items # {} =>
              /\ carts[c].items \subseteq carts'[c].items
              /\ carts'[c].table = carts[c].table \/ \E t \in Tills : sending[t] # sending'[t] /\ c \in DOMAIN sending[t]
      ]_floorVars

(* Refuted by hand: the same whatever tills do (a table without items is   *)
(* shown as free; a till resumes its own copy of a cart before the newer   *)
(* one of the server); a cart that was cleared stays away from the floor.  *)
ReleasesEmpty ==
    [][\A c \in CartIds : carts[c].status = "OPEN" /\ carts[c].items # {} /\ carts'[c].table # carts[c].table
          => \E t \in Tills : sending[t] # sending'[t] /\ c \in DOMAIN sending[t]]_floorVars
OrderKept == [][\A c \in CartIds : carts[c].items \subseteq carts'[c].items]_floorVars
ClearedLeavesFloor ==
    \A s \in DOMAIN Floor : LET c == Floor[s] IN
        c # 0 => \E t \in Tills : Stored(t, c) \/ c \in DOMAIN sending[t]
=============================================================================
