---------------------------- MODULE MCOfflineQueue ----------------------------
(***************************************************************************)
(* One till.  Sales A and B are of carts of their own; C is a second guest *)
(* of A's cart.  Vouchers and points play no part here.                    *)
(***************************************************************************)
EXTENDS OfflineQueue, TLC

MCCartOf     == [s \in Sales |-> IF s = "B" THEN "table 2" ELSE "table 1"]
MCQty        == [s \in Sales |-> "p" :> 1]
MCPromoOf    == [s \in Sales |-> NoPromo]
MCCustomerOf == [s \in Sales |-> NoCustomer]
MCShiftOf    == [s \in Sales |-> "pagi"]
MCNoPoints   == [s \in Sales |-> 0]
MCNone       == <<>>                       \* no vouchers and no customers

LastPiece    == "p" :> 1
Enough       == "p" :> 3
===============================================================================
