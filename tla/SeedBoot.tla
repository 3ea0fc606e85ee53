------------------------------- MODULE SeedBoot -------------------------------
(***************************************************************************)
(* How the backend comes up (backend/docker-entrypoint.sh): migrations,    *)
(* then prisma/seed.ts on every start, then the server.  The seed writes   *)
(* one kind of rows after the other, without a transaction; it may be      *)
(* killed anywhere, and the container is started again.                    *)
(***************************************************************************)
EXTENDS Integers, Sequences

CONSTANTS
    Touched,                  \* kinds of rows that operators change while the server runs
    MaxCrashes, MaxRestarts   \* bounds

ASSUME SeedAssumption == {MaxCrashes, MaxRestarts} \subseteq Nat

(* The kinds of rows, in the order of the functions of the seed.           *)
MainSteps == <<"tenant", "settings", "staff", "stores", "demo-b">>
PosCatalogSteps == <<"categories", "items", "sizes", "extras", "customer", "stock", "prices">>
DiningSteps == <<"areas", "tables">>
RecipesAndKitchenSteps == <<"stations", "ingredients", "menu", "recipes", "assignments">>
VariantsAndGlSteps == <<"variants", "variant stock", "accounts">>
HrisSteps == <<"manager", "work shifts", "employees", "attendance">>
AnalyticsSteps == <<"sales summaries", "product summaries">>

OrderKitchenFirst ==          \* Mutant: the kitchen before the catalog.
    MainSteps \o RecipesAndKitchenSteps \o PosCatalogSteps \o DiningSteps \o VariantsAndGlSteps \o HrisSteps \o AnalyticsSteps
Order ==
    MainSteps \o PosCatalogSteps \o DiningSteps \o RecipesAndKitchenSteps \o VariantsAndGlSteps \o HrisSteps \o AnalyticsSteps
Kinds == {Order[i] : i \in 1..Len(Order)}

VARIABLES
    rows,        \* of a kind: "absent", "seeded", or "changed" by operators
    phase,      \* of the container: "down", "seeding", "serving"
    step,       \* the next step of the seed
    newSizes,      \* this run of the seed has created the sizes
    recoded,    \* the cashier's account is with an employee of another code
    torn,       \* history: the seed was killed between the sizes and the extras,
                \* or the extras were deleted and the sizes left
    deleted,    \* history: what operators deleted since the server came up
    crashes, restarts

seedVars == <<rows, phase, step, newSizes, recoded, torn, deleted, crashes, restarts>>

Has(k) == rows[k] # "absent"
Kept == {"stores", "demo-b", "categories", "sizes", "work shifts"}           \* update: {}
Deletable == {"categories", "sizes", "extras", "prices", "assignments"}      \* by operators

(* What a step finds missing it leaves out, without an error.              *)
Skips(k) ==
    \/ k \in {"ingredients", "menu", "recipes", "assignments"} /\ ~Has("categories")
    \/ k \in {"areas", "tables", "stations", "sales summaries", "product summaries"} /\ ~Has("stores")
    \/ k \in {"variants", "variant stock", "sizes"} /\ ~Has("items")
    \/ k = "extras" /\ ~newSizes

(* users of employees are unique: the code is looked for, not the user.    *)
FailsIfThere(k) == (k = "employees" /\ recoded) \/ (k = "attendance" /\ Has(k))   \* Mutant: created, not upserted.
Fails(k) == k = "employees" /\ recoded
Seeded(k) == IF k \in Kept /\ Has(k) THEN rows[k] ELSE "seeded"
-------------------------------------------------------------------------------
Start ==
    /\ phase = "down" /\ phase' = "seeding" /\ step' = 1 /\ newSizes' = FALSE
    /\ UNCHANGED <<rows, recoded, torn, deleted, crashes, restarts>>

SeedStep ==
    LET k == Order[step] IN
    /\ phase = "seeding" /\ step <= Len(Order) /\ ~Fails(k)
    /\ rows' = IF Skips(k) THEN rows ELSE [rows EXCEPT ![k] = Seeded(k)]
    /\ newSizes' = (newSizes \/ (k = "sizes" /\ ~Has(k) /\ ~Skips(k)))
    /\ step' = step + 1
    /\ UNCHANGED <<phase, recoded, torn, deleted, crashes, restarts>>

(* The seed exits with 1, the entry point with it.                         *)
SeedFails ==
    /\ phase = "seeding" /\ step <= Len(Order) /\ Fails(Order[step])
    /\ phase' = "down"
    /\ UNCHANGED <<rows, step, newSizes, recoded, torn, deleted, crashes, restarts>>

Serve ==
    /\ phase = "seeding" /\ step > Len(Order)
    /\ phase' = "serving"
    /\ UNCHANGED <<rows, step, newSizes, recoded, torn, deleted, crashes, restarts>>

Crash ==
    /\ phase = "seeding" /\ crashes < MaxCrashes /\ crashes' = crashes + 1
    /\ phase' = "down"
    /\ torn' = (torn \/ (Has("sizes") /\ ~Has("extras")))
    /\ UNCHANGED <<rows, step, newSizes, recoded, deleted, restarts>>

Restart ==
    /\ phase = "serving" /\ restarts < MaxRestarts /\ restarts' = restarts + 1
    /\ phase' = "down" /\ deleted' = {}
    /\ UNCHANGED <<rows, step, newSizes, recoded, torn, crashes>>

(* Operators sell, edit and deactivate; an employee gets another code.     *)
Change(k) ==
    /\ phase = "serving" /\ Has(k) /\ rows[k] # "changed"
    /\ rows' = [rows EXCEPT ![k] = "changed"]
    /\ UNCHANGED <<phase, step, newSizes, recoded, torn, deleted, crashes, restarts>>
(* deleteCategory, deleteModifierGroup, a price put back to the default,   *)
(* stations taken from the staff: the row is gone, or all of a kind.       *)
Delete(k) ==
    /\ phase = "serving" /\ Has(k) /\ k \in Deletable
    /\ rows' = [rows EXCEPT ![k] = "absent"]
    /\ deleted' = deleted \cup {k} /\ torn' = (torn \/ (k = "extras" /\ Has("sizes")))
    /\ UNCHANGED <<phase, step, newSizes, recoded, crashes, restarts>>
RecodeEmployee ==
    /\ phase = "serving" /\ Has("employees")
    /\ recoded' = ~recoded
    /\ UNCHANGED <<rows, phase, step, newSizes, torn, deleted, crashes, restarts>>
-------------------------------------------------------------------------------
SeedInit ==
    /\ rows = [k \in Kinds |-> "absent"]
    /\ phase = "down" /\ step = 1 /\ newSizes = FALSE /\ recoded = FALSE /\ torn = FALSE
    /\ deleted = {} /\ crashes = 0 /\ restarts = 0

SeedNext ==
    \/ Start \/ SeedStep \/ SeedFails \/ Serve \/ Crash \/ Restart \/ RecodeEmployee
    \/ \E k \in Touched : Change(k) \/ Delete(k)

(* restart: unless-stopped, and the seed runs on.                          *)
SeedFairness == WF_seedVars(Start) /\ WF_seedVars(SeedStep) /\ WF_seedVars(SeedFails) /\ WF_seedVars(Serve)
SeedSpec == SeedInit /\ [][SeedNext]_seedVars /\ SeedFairness
-------------------------------------------------------------------------------
(* A server that is up has every kind of rows the demo needs, wherever the *)
(* seed was killed before, but for what operators have deleted since: the  *)
(* next start puts it back.  The extras do not come back once the sizes    *)
(* are there without them, which is what the seed looks for (killed        *)
(* between the two modifier groups, or the second of them deleted).        *)
ServesSeeded ==
    phase = "serving" => \A k \in Kinds : Has(k) \/ k \in deleted \/ (k = "extras" /\ torn)

(* Why: what the seed has passed is there (a step that finds nothing to    *)
(* hang its rows on stands after the step that writes it), and sizes       *)
(* without extras are those of the run under way or of a torn one.         *)
SeedTyped ==
    /\ rows \in [Kinds -> {"absent", "seeded", "changed"}]
    /\ step \in 1 .. Len(Order) + 1 /\ {newSizes, torn} \subseteq BOOLEAN
There(k) == Has(k) \/ (k = "extras" /\ torn)
Passed ==
    /\ phase = "seeding" => \A i \in 1 .. step - 1 : There(Order[i])
    /\ ServesSeeded
Halves == Has("sizes") /\ ~Has("extras") => torn \/ (phase = "seeding" /\ newSizes /\ step <= 9)
SeedInv == SeedTyped /\ Passed /\ Halves

(* However often it is killed, the server comes up again, as long as the   *)
(* codes of the demo employees are left alone.                             *)
ComesUp == []<>(phase = "serving" \/ recoded)

(* Refuted by hand: it comes up, the extras are there, and a restart       *)
(* leaves what operators did alone (what they deleted, too).               *)
ComesUpAnyway == []<>(phase = "serving")
ExtrasThere == phase = "serving" => Has("extras")
RestartKeeps == [][\A k \in Kinds : rows[k] = "changed" => rows'[k] = "changed"]_seedVars
=============================================================================
