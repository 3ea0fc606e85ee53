------------------------------ MODULE RecipeBook ------------------------------
(***************************************************************************)
(* The recipe of a dish (RecipesService, backend/src/recipes/              *)
(* recipes.service.ts), saved by several offices, and the sales of that    *)
(* dish, which take its ingredients off the shelf and cost them.           *)
(*                                                                         *)
(* Every request is one READ COMMITTED transaction: a statement sees what  *)
(* is committed when it starts, a statement that writes waits for the rows *)
(* another transaction has written, and nothing is seen of a transaction   *)
(* before its commit.  Prisma reads a recipe and its lines in two          *)
(* statements.                                                             *)
(***************************************************************************)
EXTENDS Integers, SequencesExt, Functions

CONSTANTS
    Ingredients, Savers,
    Forms,       \* what each office saves: [yield, lines], lines being of [what, qty, cost]
    Orders,
    Portions     \* quantities of the lines of each sale of the dish

ASSUME RecipeAssumption ==
    /\ \A v \in Savers : /\ Forms[v].yield \in Nat \ {0} /\ Forms[v].lines # {}
                         /\ \A l \in Forms[v].lines : l.what \in Ingredients /\ l.qty \in Nat \ {0} /\ l.cost \in Nat
    /\ Portions \in [Orders -> Seq(Nat \ {0}) \ {<< >>}]

VARIABLES
    recipe,     \* the committed yield_qty, 0 while there is no recipe
    lines,      \* the committed recipe_lines
    save,       \* each save: its statement, the rows it saw and those it deleted
    order       \* each sale: its statement, what it has read, what it takes and what that costs

recipeVars == <<recipe, lines, save, order>>

NotYet == [x \in {} |-> 0]
Saving(v, at) == save[v].at = at
Goes(v, to) == save' = [save EXCEPT ![v].at = to]
NewLines(v) == {[by |-> v, what |-> l.what, qty |-> l.qty, cost |-> l.cost] : l \in Forms[v].lines}
Distinct(rows) == \A x, y \in rows : x.what = y.what => x = y      \* one line of an ingredient
SaveOnly == UNCHANGED <<recipe, lines, order>>
-------------------------------------------------------------------------------
(* saveRecipe of the office; upsertRecipe: is there a recipe?              *)
FindRecipe(v) ==
    /\ Saving(v, "start")
    /\ Goes(v, IF recipe = 0 THEN "create" ELSE "see")
    /\ SaveOnly

(* recipeLine.deleteMany: of the rows it saw when it started, those that   *)
(* are left once whoever else deletes them is done.                        *)
SeeLines(v) ==
    /\ Saving(v, "see")
    /\ save' = [save EXCEPT ![v].at = "delete", ![v].seen = lines]
    /\ SaveOnly

Deleting(v) == \E w \in Savers \ {v} : save[w].gone \cap save[v].seen # {}
DeleteLinesAtOnce(v) ==          \* Mutant: not in the transaction of the request.
    /\ Saving(v, "delete") /\ ~Deleting(v)
    /\ lines' = lines \ save[v].seen
    /\ Goes(v, "update")
    /\ UNCHANGED <<recipe, order>>
DeleteLines(v) ==
    /\ Saving(v, "delete") /\ ~Deleting(v)
    /\ save' = [save EXCEPT ![v].at = "update", ![v].gone = save[v].seen \cap lines]
    /\ SaveOnly

(* recipe.update: keeps the row from here to the commit.                   *)
HoldsRecipe(v) == save[v].at \in {"insert", "commit"}
UpdateRecipe(v) ==
    /\ Saving(v, "update") /\ ~\E w \in Savers : HoldsRecipe(w)
    /\ Goes(v, "insert")
    /\ SaveOnly

(* recipeLine.createMany: waits for who is deleting a line of the same     *)
(* ingredient; the unique index refuses a second one.                      *)
CreateLines(v) ==
    /\ Saving(v, "insert")
    /\ \A w \in Savers \ {v} : \A x \in save[w].gone : \A y \in NewLines(v) : x.what # y.what
    /\ Goes(v, IF Distinct((lines \ save[v].gone) \cup NewLines(v)) THEN "commit" ELSE "failed")
    /\ SaveOnly

(* recipe.create, with its lines: waits for another first save, and the    *)
(* unique product_id refuses a second recipe.                              *)
CreateRecipe(v) ==
    /\ Saving(v, "create") /\ ~\E w \in Savers : HoldsRecipe(w)
    /\ Goes(v, IF recipe = 0 /\ Distinct(NewLines(v)) THEN "commit" ELSE "failed")
    /\ SaveOnly

CommitSave(v) ==
    /\ Saving(v, "commit")
    /\ recipe' = Forms[v].yield
    /\ lines' = (lines \ save[v].gone) \cup NewLines(v)
    /\ save' = [save EXCEPT ![v] = [at |-> "done", seen |-> {}, gone |-> {}]]
    /\ UNCHANGED order

(* P2002, a deadlock, a time-out: the transaction leaves nothing.          *)
RollBackSave(v) ==
    /\ save[v].at \notin {"start", "done"}
    /\ save' = [save EXCEPT ![v] = [at |-> "done", seen |-> {}, gone |-> {}]]
    /\ SaveOnly
-------------------------------------------------------------------------------
Needed(qty, n, yield) == (qty * n + yield - 1) \div yield           \* Math.ceil
OrderOnly == UNCHANGED <<recipe, lines, save>>
Selling(o, at) == order[o].at = at

(* expandStockConsumption: the recipe, then its lines; without any the     *)
(* dish itself is taken.                                                   *)
Itself(o) == "dish" :> FoldSeq(+, 0, Portions[o])
FindForSale(o) ==
    /\ Selling(o, "start")
    /\ order' = [order EXCEPT ![o] = IF recipe = 0 THEN [@ EXCEPT !.at = "cogs", !.took = Itself(o)]
                                     ELSE [@ EXCEPT !.at = "lines", !.yield = recipe, !.found = TRUE]]
    /\ OrderOnly

Expanded(l, o) == FoldSeq(LAMBDA p, n : n + Needed(l.qty, p, order[o].yield), 0, Portions[o])
Merged(o) ==
    [i \in {l.what : l \in lines} |-> FoldSet(LAMBDA l, n : n + Expanded(l, o), 0, {l \in lines : l.what = i})]
ReadLines(o) ==
    /\ Selling(o, "lines")
    /\ order' = [order EXCEPT ![o].at = "cogs", ![o].yield = 0,
                              ![o].took = IF lines = {} THEN Itself(o) ELSE Merged(o)]
    /\ OrderOnly

(* calculateCogs of each line of the sale, from a recipe that is read      *)
(* again; syncSale keeps one cost by product, the one of the last line.    *)
FindForCogs(o) ==
    /\ Selling(o, "cogs") /\ order[o].line <= Len(Portions[o])
    /\ order' = [order EXCEPT ![o].at = IF recipe = 0 THEN "cogs" ELSE "costs", ![o].yield = recipe,
                              ![o].line = IF recipe = 0 THEN @ + 1 ELSE @]
    /\ OrderOnly

Cost(portion, yield) == FoldSet(LAMBDA l, n : n + Needed(l.qty, portion, yield) * l.cost, 0, lines)
CalculateCogs(o) ==
    /\ Selling(o, "costs")
    /\ order' = [order EXCEPT ![o].at = "cogs", ![o].yield = 0, ![o].line = @ + 1,
                              ![o].cogs = Cost(Portions[o][order[o].line], order[o].yield)]
    /\ OrderOnly

EndOrder(o) ==
    /\ Selling(o, "cogs") /\ order[o].line > Len(Portions[o])
    /\ order' = [order EXCEPT ![o].at = "done"]
    /\ OrderOnly
-------------------------------------------------------------------------------
RecipeInit ==
    /\ recipe = 0 /\ lines = {}
    /\ save = [v \in Savers |-> [at |-> "start", seen |-> {}, gone |-> {}]]
    /\ order = [o \in Orders |-> [at |-> "start", found |-> FALSE, yield |-> 0, took |-> NotYet, line |-> 1, cogs |-> 0]]

RecipeNext ==
    \/ \E v \in Savers :
          \/ FindRecipe(v) \/ SeeLines(v) \/ DeleteLines(v) \/ UpdateRecipe(v) \/ CreateLines(v)
          \/ CreateRecipe(v) \/ CommitSave(v) \/ RollBackSave(v)
    \/ \E o \in Orders :
          FindForSale(o) \/ ReadLines(o) \/ FindForCogs(o) \/ CalculateCogs(o) \/ EndOrder(o)

RecipeSpec == RecipeInit /\ [][RecipeNext]_recipeVars
-------------------------------------------------------------------------------
(* A dish whose recipe was there when it was rung up takes ingredients off *)
(* the shelf, never itself, whichever saves replace the recipe meanwhile:  *)
(* although a save deletes the lines before it writes new ones, and the    *)
(* sale reads the recipe apart from its lines, nobody meets a recipe       *)
(* without lines, nor two lines of one ingredient.                         *)
RecipesStand ==
    /\ recipe # 0 => lines # {} /\ Distinct(lines)
    /\ \A o \in Orders : order[o].found => order[o].took # Itself(o)

(* Refuted by hand: the lines are those of one save (two saves of other    *)
(* ingredients are merged); a sale takes what the recipe it met says (its  *)
(* yield is of one save and its lines are of another); the cost of a sale  *)
(* is that of what it took (a dish on two lines is costed once).           *)
LinesOfOneSave == \A x, y \in lines : x.by = y.by
TakesOneRecipe ==
    \A o \in Orders : order[o].at = "lines" /\ order[o].yield # 0 =>
        \A l \in lines : Forms[l.by].yield = order[o].yield
CostOfAllLines ==
    \A o \in Orders : order[o].at = "done" /\ {l.what : l \in lines} = DOMAIN order[o].took =>
        order[o].cogs >= FoldSet(LAMBDA l, n : n + order[o].took[l.what] * l.cost, 0, lines)
===============================================================================
