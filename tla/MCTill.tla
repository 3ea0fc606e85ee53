-------------------------------- MODULE MCTill --------------------------------
(***************************************************************************)
(* Scenes of the till.  The cart: two lines of two skus, one of which is a *)
(* variant, with a promo by percent and one of a fixed amount.  The        *)
(* kitchen: two guests of one table and a cook of one of two stations.     *)
(* The floor: two tills and one table.  Paying: two charges and two sums.  *)
(***************************************************************************)
EXTENDS TillCart, KitchenOrders, DiningFloor, QrisCharge, TLC

VARIABLE stage      \* "cart", "kitchen", "floor" or "paying"
stageVars == <<stage, tillVars, kitchenVars, floorVars, qrisVars>>

MCTax == [k \in Skus |-> IF k = "tea" THEN 1100 ELSE 0]
MCPrices == [k \in Skus |-> IF k = "tea" THEN {1005} ELSE {150, 999}]
MCPromo == [p \in Promos |->
   IF p = "tenth" THEN [percent |-> TRUE, value |-> 1000, cap |-> 200, min |-> 0, scope |-> {"tea"}, stacks |-> FALSE]
   ELSE [percent |-> FALSE, value |-> 500, cap |-> 0, min |-> 1200, scope |-> Skus, stacks |-> TRUE]]

MCCart == [i \in Items |-> "table"]
MCGuest == [i \in Items |-> IF i = "soup" THEN 1 ELSE 2]
MCStation == [i \in Items |-> IF i = "soup" THEN "grill" ELSE "bar"]
MCAssigned == [c \in Cooks |-> {"grill"}]

TillSymmetry == Permutations(Tills) \cup Permutations(Slots)
-------------------------------------------------------------------------------
(* What waits for its scene is in one of its initial states.               *)
CartStarts ==          \* a bound: the other prices and balances are changes away
    /\ \A n \in Points : n <= balance
    /\ \A k \in Skus : \A n \in Prices[k] : price[k] <= n
FloorWaits == spots = {}

StageInit ==
    /\ TillInit /\ KitchenInit /\ FloorInit /\ QrisInit
    /\ stage \in {"cart", "kitchen", "floor", "paying"}
    /\ CartStarts
    /\ stage # "floor" => FloorWaits
    /\ stage # "paying" => localQris

StageNext ==
    \/ stage = "cart" /\ TillNext /\ UNCHANGED <<stage, kitchenVars, floorVars, qrisVars>>
    \/ stage = "kitchen" /\ KitchenNext /\ UNCHANGED <<stage, tillVars, floorVars, qrisVars>>
    \/ stage = "floor" /\ FloorNext /\ UNCHANGED <<stage, tillVars, kitchenVars, qrisVars>>
    \/ stage = "paying" /\ QrisNext /\ UNCHANGED <<stage, tillVars, kitchenVars, floorVars>>

StageSpec == StageInit /\ [][StageNext]_stageVars
===============================================================================
