------------------------------- MODULE MCStock -------------------------------
(***************************************************************************)
(* Scenes of the stock.  Transfers: two products move from the main store  *)
(* to a branch that has no row of one of them, and a third transfer goes   *)
(* the other way round.  Counting: two devices and one count of two        *)
(* articles while one unit is sold, or two counts of one article, one      *)
(* after the other or at once.  Recipes: three saves of a dish, two of the *)
(* same ingredient, and a sale of it on two lines.                         *)
(***************************************************************************)
EXTENDS Inventory, StockCount, RecipeBook

VARIABLE stage      \* "transfers", "counting" or "recipes"
stockVars == <<stage, vars, countVars, recipeVars>>

MCFrom  == [t \in Transfers |-> IF t = "back" THEN "branch" ELSE "main"]
MCTo    == [t \in Transfers |-> IF t = "back" THEN "main" ELSE "branch"]
Line(p, n) == [product |-> p, qty |-> n]
MCCargo == [t \in Transfers |-> CASE t = "both" -> <<Line("p", 2), Line("q", 1), Line("p", 1)>>
                                  [] t = "back" -> <<Line("q", 1), Line("p", 1)>>
                                  [] OTHER -> <<Line("p", 1)>>]
MCKind  == [r \in Requests |->
    CASE r = "new" -> "draft" [] r \in {"ship", "ship2"} -> "ship" [] r \in {"get", "get2"} -> "receive"
      [] r = "undo" -> "cancel" [] r = "send" -> "send" [] r = "swap" -> "immediate"
      [] r \in {"sale", "sale2"} -> "sell" [] r = "add" -> "adjust" [] OTHER -> "set"]
MCAbout == [r \in Requests |->
    CASE r \in {"new", "ship", "ship2", "get", "get2", "undo"} -> "both" [] r = "send" -> "one" [] r = "swap" -> "back"
      [] r = "sale2" -> <<"branch", "p">> [] OTHER -> <<"main", "p">>]
MCAmount == [r \in Requests |-> CASE r = "sale" -> -2 [] r = "sale2" -> -1 [] r = "add" -> -2 [] OTHER -> 4]
MCStock == [s \in Rows |-> CASE s = <<"main", "p">> -> 4 [] s = <<"main", "q">> -> 1
                             [] s = <<"branch", "p">> -> NoRow [] s = <<"branch", "q">> -> 1
                             [] s = <<Catalog, "p">> -> 4 [] OTHER -> 2]
MCScenes == {{"new", "ship", "ship2", "get", "sale"}, {"new", "ship", "get", "undo", "swap"},
             {"new", "ship", "get", "get2", "sale2"}, {"send", "swap", "sale", "add", "set"}}

MCGoods  == [x \in Branches \X Stocked |-> IF x[2] = "p" THEN 1 ELSE 2]
MCBooked == [x \in Branches \X Stocked |-> 2]
MCCases  == {[active |-> Stocked, sessions |-> {CHOOSE s \in Sessions : TRUE}, sales |-> 1],
             [active |-> {"p"}, sessions |-> Sessions, sales |-> 0]}

Beans(n) == [what |-> "beans", qty |-> n, cost |-> 3]
Milk     == [what |-> "milk", qty |-> 3, cost |-> 1]
MCForms  == [v \in Savers |-> CASE v = "o1" -> [yield |-> 1, lines |-> {Beans(1), Milk}]
                               [] v = "o2" -> [yield |-> 2, lines |-> {Beans(2)}]
                               [] OTHER -> [yield |-> 4, lines |-> {Milk}]]
MCPortions == [o \in Orders |-> <<1, 2>>]
DeviceSymmetry == Permutations(Devices)
-------------------------------------------------------------------------------
StockInit ==
    /\ Init /\ CountInit /\ RecipeInit
    /\ stage \in {"transfers", "counting", "recipes"}
    /\ stage # "counting" => sales = 0
    /\ stage # "transfers" => "set" \notin {r \in Requests : pc[r] = "start"} /\ "undo" \in {r \in Requests : pc[r] = "start"}

StockNext ==
    \/ stage = "transfers" /\ Next /\ UNCHANGED <<stage, countVars, recipeVars>>
    \/ stage = "counting" /\ CountNext /\ UNCHANGED <<stage, vars, recipeVars>>
    \/ stage = "recipes" /\ RecipeNext /\ UNCHANGED <<stage, vars, countVars>>

StockSpec == StockInit /\ [][StockNext]_stockVars
===============================================================================
