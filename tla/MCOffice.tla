------------------------------- MODULE MCOffice -------------------------------
(***************************************************************************)
(* Scenes of the back office.  Catalog: two tabs and a tea, in one of two  *)
(* categories, with a size and a variant.  Team: three people, one admin   *)
(* and one manager to begin with.  Ledger: one default account and one     *)
(* more, a sale and a manual journal.  Hub: two sales and two pushes.      *)
(* Boot: the seed of a container.  Payroll: one employee, two months of a  *)
(* day or two, a day and a night shift, three tax brackets.                *)
(***************************************************************************)
EXTENDS CatalogAdmin, StaffAdmin, GeneralLedger, EdgeOutbox, SeedBoot, Hris, TLC

VARIABLE stage      \* "catalog", "team", "ledger", "hub", "boot" or "payroll"
officeVars == <<stage, catalogVars, staffVars, glVars, edgeVars, seedVars, hrisVars>>

MCPartOf == [x \in Options \cup Groups \cup Variants |-> IF x \in Options THEN "size" ELSE "tea"]
MCManualCodes == [m \in Manuals |-> {"adjust"}]
MCSchedules == {[start |-> 0, end |-> 2, break |-> 1], [start |-> 2, end |-> 1, break |-> 0]}
MCMonthEnds == <<1, 2>>
MCBrackets == <<[upTo |-> 100, bps |-> 500], [upTo |-> 300, bps |-> 1500], [upTo |-> 100000, bps |-> 3500]>>
OfficeSymmetry == Permutations(People) \cup Permutations(Offices) \cup Permutations(Jobs)
-------------------------------------------------------------------------------
(* What waits for its scene is in one of its initial states.               *)
CatalogWaits == \A c \in Categories : entry[c] = "on" => promo.category = c
PayrollWaits == schedule.break = 0
LowPaid == \A e \in Staffers, n \in Salaries : salary[e] <= n      \* a bound: raises come later

OfficeInit ==
    /\ CatalogInit /\ StaffInit /\ GlInit /\ EdgeInit /\ SeedInit /\ HrisInit
    /\ stage \in {"catalog", "team", "ledger", "hub", "boot", "payroll"}
    /\ stage # "catalog" => CatalogWaits
    /\ stage # "hub" => enabled /\ hubUrl
    /\ LowPaid
    /\ stage # "payroll" => PayrollWaits

OfficeNext ==
    \/ stage = "catalog" /\ CatalogNext /\ UNCHANGED <<stage, staffVars, glVars, edgeVars, seedVars, hrisVars>>
    \/ stage = "team" /\ StaffNext /\ UNCHANGED <<stage, catalogVars, glVars, edgeVars, seedVars, hrisVars>>
    \/ stage = "ledger" /\ GlNext /\ UNCHANGED <<stage, catalogVars, staffVars, edgeVars, seedVars, hrisVars>>
    \/ stage = "hub" /\ EdgeNext /\ UNCHANGED <<stage, catalogVars, staffVars, glVars, seedVars, hrisVars>>
    \/ stage = "boot" /\ SeedNext /\ UNCHANGED <<stage, catalogVars, staffVars, glVars, edgeVars, hrisVars>>
    \/ stage = "payroll" /\ HrisNext /\ UNCHANGED <<stage, catalogVars, staffVars, glVars, edgeVars, seedVars>>

OfficeSpec == OfficeInit /\ [][OfficeNext]_officeVars
===============================================================================
