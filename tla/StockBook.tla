------------------------------- MODULE StockBook -------------------------------
(***************************************************************************)
(* What stock keeping promises: goods are on a shelf or on the road, and   *)
(* every sale, transfer and correction happens at once and once.  The      *)
(* first touch of a product in a store opens its row at a figure of its    *)
(* own, so a move says of a shelf without a row only that it ends with at  *)
(* least what was put on it.  Inventory implements this.                   *)
(***************************************************************************)
EXTENDS Integers, Sequences, FiniteSetsExt

CONSTANTS Shelves,               \* <<store, product>>
          Transfers, From, To,   \* each transfer and its two stores
          Cargo,                 \* its lines, a sequence of [product, qty]
          Sales, Counts,         \* changes by an amount, and to an amount,
          Place, Amount,         \* of one shelf
          NoRow                  \* the mark of a shelf without a row

VARIABLES shelf,                 \* units on each shelf
          phase                  \* of each transfer

(* Several lines of a transfer may name one product.                       *)
Carries(t, product) ==
    MapThenSumSet(LAMBDA i : IF Cargo[t][i].product = product THEN Cargo[t][i].qty ELSE 0,
                  DOMAIN Cargo[t])
Out(t) == [s \in Shelves |-> IF s[1] = From[t] THEN Carries(t, s[2]) ELSE 0]
In(t)  == [s \in Shelves |-> IF s[1] = To[t] THEN Carries(t, s[2]) ELSE 0]
At(place, n) == [s \in Shelves |-> IF s = place THEN n ELSE 0]

(* Every shelf changes by what `by` says and by nothing else.              *)
Move(by) ==
    \A s \in Shelves :
        IF shelf[s] # NoRow
        THEN shelf'[s] # NoRow /\ shelf'[s] = shelf[s] + by[s] /\ shelf'[s] >= 0
        ELSE shelf'[s] = NoRow \/ shelf'[s] >= by[s]

Phase(t, from, to) == phase[t] \in from /\ phase' = [phase EXCEPT ![t] = to]

Draft(t)   == Phase(t, {"none"}, "DRAFT") /\ UNCHANGED shelf
Ship(t)    == Phase(t, {"none", "DRAFT"}, "IN_TRANSIT") /\ Move([s \in Shelves |-> -Out(t)[s]])
Deliver(t) == Phase(t, {"none"}, "COMPLETED") /\ Move([s \in Shelves |-> In(t)[s] - Out(t)[s]])
Receive(t) == Phase(t, {"IN_TRANSIT"}, "COMPLETED") /\ Move(In(t))
Scrap(t)   == Phase(t, {"DRAFT"}, "CANCELLED") /\ UNCHANGED shelf
Recall(t)  == Phase(t, {"IN_TRANSIT"}, "CANCELLED") /\ Move(Out(t))

Correct(o) == UNCHANGED phase /\ Move(At(Place[o], Amount[o]))
Recount(o) ==
    /\ UNCHANGED phase
    /\ shelf' = [shelf EXCEPT ![Place[o]] = Amount[o]]

BookInit == phase = [t \in Transfers |-> "none"]
BookNext ==
    \/ \E t \in Transfers : Draft(t) \/ Ship(t) \/ Deliver(t) \/ Receive(t) \/ Scrap(t) \/ Recall(t)
    \/ \E o \in Sales : Correct(o)
    \/ \E o \in Counts : Recount(o)
===============================================================================
