----------------------------- MODULE MCPurchasing -----------------------------
(***************************************************************************)
(* One order of two products and one that is created meanwhile.  Three     *)
(* parcels arrive for the first: r1 holds some of both lines, r2 all of    *)
(* the one and r3, for a second store, all of the other.  r2 and r3 touch  *)
(* no common row but the order, either competes with r1.                   *)
(***************************************************************************)
EXTENDS Purchasing

MCOrderOf   == [l \in Lines |-> IF l \in {"rice", "oil"} THEN "PO1" ELSE "PO2"]
MCProductOf == [l \in Lines |-> IF l = "oil" THEN "q" ELSE "p"]
MCOrdered   == [l \in Lines |-> IF l = "rice" THEN 2 ELSE 1]
MCKind      == [r \in Requests |-> CASE r \in {"n1", "n2"} -> "create" [] r = "confirm" -> "confirm"
                                     [] r = "cancel" -> "cancel" [] OTHER -> "receive"]
MCAbout     == [r \in Requests |-> IF r = "n2" THEN "PO2" ELSE "PO1"]
MCStoreAt   == [r \in Requests |-> IF r = "r3" THEN "branch" ELSE "main"]
Of(l, n)    == [line |-> l, qty |-> n]
MCParcel    == [r \in Requests |-> CASE r = "r1" -> <<Of("rice", 1), Of("oil", 1)>>
                                     [] r = "r2" -> <<Of("rice", 2)>>
                                     [] r = "r3" -> <<Of("oil", 1)>>
                                     [] OTHER -> <<>>]
MCInitRows    == {<<"main", "p">>}
MCInitCatalog == [p \in Products |-> IF p = "q" THEN 3 ELSE 0]
===============================================================================
