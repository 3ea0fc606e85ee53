----------------------------- MODULE MCShiftDrawer ----------------------------
(***************************************************************************)
(* Cashier Ani opens one of two shifts, Budi the third.  Sale s1 is a pack *)
(* of beans, s2 a cup of coffee, which takes beans off the shelf when it   *)
(* has a recipe (Brewed) and itself when it has none (Packed).  One is     *)
(* paid in cash, with a discount, the other in part with a card.           *)
(***************************************************************************)
EXTENDS SalesBooks, TLC

MCCashierOf == [h \in Shifts |-> IF h = "siang" THEN "budi" ELSE "ani"]
MCFloat     == [h \in Shifts |-> 1]
Empty       == [h \in Shifts |-> 0]
MCShiftOf   == [s \in Sales |-> "pagi"]
MCCash      == [s \in Sales |-> 1]
MCCard      == [s \in Sales |-> IF s = "s1" THEN 0 ELSE 1]
MCGross     == [s \in Sales |-> 2]
Beans       == "beans" :> 1 @@ "coffee" :> 0
Coffee      == "beans" :> 0 @@ "coffee" :> 1
MCLines     == [s \in Sales |-> IF s = "s1" THEN Beans ELSE Coffee]
Packed      == MCLines
Brewed      == [s \in Sales |-> Beans]
ActorSymmetry == Permutations(Actors)
MCInitStock == "beans" :> 2 @@ "coffee" :> 2
===============================================================================
