------------------------------ MODULE MCSaleSync ------------------------------
(***************************************************************************)
(* A small shop.  Sale A comes once or twice (a retry, or two flushes at   *)
(* once), C is a part of A's cart that another guest pays, and B and D are *)
(* carts of their own.  A and B carry the same voucher and B and D redeem  *)
(* from the same account, unless the configuration takes those away.       *)
(***************************************************************************)
EXTENDS SaleSync, TLC

MCCartOf     == [s \in Sales |-> CASE s = "B" -> "table 2"
                               [] s = "D" -> "table 3"
                               [] OTHER -> "table 1"]
MCQty        == [s \in Sales |-> CASE s = "A" -> "p" :> 2 @@ "q" :> 1
                                   [] s = "B" -> "p" :> 3 @@ "q" :> 0
                                   [] s = "C" -> "p" :> 0 @@ "q" :> 1
                                   [] s = "D" -> "p" :> 1 @@ "q" :> 1]
MCPromoOf    == [s \in Sales |-> IF s \in {"A", "B"} THEN "voucher" ELSE NoPromo]
MCCustomerOf == [s \in Sales |-> IF s \in {"B", "D"} THEN "budi" ELSE NoCustomer]
MCRedeem     == [s \in Sales |-> IF s \in {"B", "D"} THEN 2 ELSE 0]
MCEarn       == [s \in Sales |-> IF s = "D" THEN 1 ELSE 0]
MCShiftOf    == [s \in Sales |-> IF s \in {"B", "D"} THEN "siang" ELSE "pagi"]
MCSaleOf     == [r \in Requests |-> CASE r \in {"a1", "a2"} -> "A" [] r = "b1" -> "B"
                                      [] r = "c1" -> "C" [] r = "d1" -> "D"]

(* No row that the sales share before they come to the stock.              *)
NoPromoOf    == [s \in Sales |-> NoPromo]
NoCustomerOf == [s \in Sales |-> NoCustomer]

ShortStock   == [p \in Products |-> 4]    \* A or B, not both; A twice
LastPieces   == [p \in Products |-> 2]    \* A, once
AmpleStock   == [p \in Products |-> 9]
OneVoucher   == "voucher" :> 1
FewPoints    == "budi" :> 2               \* B or D, not both
===============================================================================
