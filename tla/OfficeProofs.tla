----------------------------- MODULE OfficeProofs -----------------------------
(***************************************************************************)
(* What the office does, proved for any number of offices, entries,        *)
(* people, accounts, sales, days and months: the catalog stays whole and   *)
(* keeps its prices, nobody edits above their rank, every sale finds its   *)
(* accounts and every line keeps its code, the outbox forgets nothing,     *)
(* overtime is paid once, and a server that is up has what the seed lays.  *)
(* One section per module, each with the inductive invariant its theorem   *)
(* needs.                                                                  *)
(***************************************************************************)
EXTENDS CatalogAdmin, StaffAdmin, GeneralLedger, EdgeOutbox, Hris, SeedBoot, SumProofs
-------------------------------------------------------------------------------
(***************************************************************************)
(* The foreign keys keep the catalog whole: whatever offices do at once,   *)
(* for any number of offices and entries, each product has its category    *)
(* and each extra what it is part of, although what was looked at before a *)
(* write or a delete may be gone.                                          *)
(***************************************************************************)

IsDetails(d) == d = [category |-> d.category, price |-> d.price] /\ d.category \in Categories

CatalogTyped ==
    /\ entry \in [Entries -> {"none", "on", "off"}]
    /\ details = [a \in Articles |-> details[a]] /\ \A a \in Articles : IsDetails(details[a])
    /\ work = [e \in Offices |-> work[e]] /\ form = [e \in Offices |-> form[e]]
    /\ \A e \in Offices, a \in Articles : IsDetails(form[e].details[a]) /\ form[e].entry[a] \in {"none", "on", "off"}

(* What a request is about.  A variant that is edited is there: variants   *)
(* are never deleted.                                                      *)
Sound(r) ==
    /\ r.do \in {"category", "removeCategory"} => r.entry \in Categories
    /\ r.do = "product" => r.entry \in Articles /\ r.under \in Categories
    /\ r.do \in {"group", "removeGroup"} => r.entry \in Groups
    /\ r.do \in {"option", "removeOption", "toggle"} => r.entry \in Options
    /\ r.do \in {"variant", "variantForm"} => r.entry \in Variants
    /\ r.do = "variantForm" => entry[r.entry] # "none"
    /\ r.do \in {"toggle", "variantForm"} => r.to \in {"on", "off"}
    /\ r.do = "update" => r.entry \in Articles /\ r.typed.entry \in {"on", "off"} /\ IsDetails(r.typed.details)

CatalogInv == CatalogTyped /\ NoOrphans /\ \A e \in Offices : Sound(work[e])
-------------------------------------------------------------------------------
LEMMA InitCatalogInv == CatalogInit => CatalogInv
<1> SUFFICES ASSUME CatalogInit PROVE CatalogInv
  OBVIOUS
<1> DEFINE some == CHOOSE c \in Categories : TRUE
           low == CHOOSE n \in Amounts : \A m \in Amounts : n <= m
<1>1. some \in Categories
  BY CatalogAssumption
<1>2. /\ entry \in [Entries -> {"none", "on"}] /\ entry[some] = "on" /\ \A x \in Extras : entry[x] = "none"
      /\ details = [a \in Articles |-> [category |-> some, price |-> low]]
      /\ form = [e \in Offices |-> Loaded] /\ work = [e \in Offices |-> Idle]
  BY DEF CatalogInit
<1> HIDE DEF some, low
<1>3. \A a \in Articles : IsDetails(details[a])
  BY <1>1, <1>2 DEF IsDetails
<1>4. \A a \in Articles : entry[a] \in {"none", "on"}
  BY <1>2 DEF Entries
<1>5. CatalogTyped
  BY <1>2, <1>3, <1>4 DEF CatalogTyped, Loaded
<1>6. NoOrphans
  BY <1>2 DEF NoOrphans, Exists, Under
<1>7. \A e \in Offices : Sound(work[e])
  BY <1>2 DEF Sound, Idle
<1> QED
  BY <1>5, <1>6, <1>7 DEF CatalogInv

(* An office that loads or sends something writes nothing yet.             *)
LEMMA LoadKeeps == ASSUME CatalogInv, NEW e \in Offices, Load(e) PROVE CatalogInv'
<1>1. UNCHANGED <<entry, details, work>> /\ form' = [form EXCEPT ![e] = Loaded]
  BY DEF Load, catalog
<1>2. ASSUME NEW d \in Offices, NEW a \in Articles
      PROVE IsDetails(form'[d].details[a]) /\ form'[d].entry[a] \in {"none", "on", "off"}
  <2>1. CASE d = e
    <3>1. form'[d] = Loaded
      BY <2>1, <1>1 DEF CatalogInv, CatalogTyped
    <3>2. entry[a] \in {"none", "on", "off"}
      BY DEF CatalogInv, CatalogTyped, Entries
    <3> QED
      BY <3>1, <3>2 DEF CatalogInv, CatalogTyped, Loaded
  <2>2. CASE d # e
    <3>1. form'[d] = form[d]
      BY <2>2, <1>1 DEF CatalogInv, CatalogTyped
    <3> QED
      BY <3>1 DEF CatalogInv, CatalogTyped
  <2> QED
    BY <2>1, <2>2
<1>3. CatalogTyped'
  <2>1. form' = [d \in Offices |-> form'[d]]
    BY <1>1 DEF CatalogInv, CatalogTyped
  <2> QED
    BY <1>1, <1>2, <2>1 DEF CatalogInv, CatalogTyped, IsDetails
<1>4. NoOrphans' /\ \A d \in Offices : Sound(work[d])'
  BY <1>1 DEF CatalogInv, NoOrphans, Sound, Exists, Under, IsDetails
<1> QED
  BY <1>3, <1>4 DEF CatalogInv

LEMMA BeginKeeps ==
    ASSUME CatalogInv, NEW e \in Offices, NEW req, Begin(e, req), Sound(req) PROVE CatalogInv'
<1>1. UNCHANGED <<entry, details, form>> /\ work' = [work EXCEPT ![e] = req]
  BY DEF Begin, catalog
<1>2. CatalogTyped' /\ NoOrphans'
  BY <1>1 DEF CatalogInv, CatalogTyped, NoOrphans, Exists, Under, IsDetails
<1>3. ASSUME NEW d \in Offices PROVE Sound(work[d])'
  <2>1. work'[d] = req \/ work'[d] = work[d]
    BY <1>1 DEF CatalogInv, CatalogTyped
  <2>2. Sound(work'[d])
    BY <2>1 DEF CatalogInv
  <2> QED
    BY <1>1, <2>2 DEF Sound, IsDetails
<1> QED
  BY <1>2, <1>3 DEF CatalogInv

(* A whole form has details of the right shape, whatever was typed into it.*)
LEMMA TypedForms ==
    ASSUME CatalogInv, NEW e \in Offices, NEW a \in Articles, form[e].entry[a] # "none", NEW typed \in Typed(e, a)
    PROVE typed.entry \in {"on", "off"} /\ IsDetails(typed.details)
<1> DEFINE d == form[e].details[a]
           loaded == [entry |-> form[e].entry[a], details |-> d]
<1>1. IsDetails(d) /\ form[e].entry[a] \in {"on", "off"}
  BY DEF CatalogInv, CatalogTyped
<1>2. d = [category |-> d.category, price |-> d.price] /\ d.category \in Categories
  BY <1>1 DEF IsDetails
<1>3. \/ \E n \in Amounts : typed = [loaded EXCEPT !.details.price = n]
      \/ \E c \in Categories : typed = [loaded EXCEPT !.details.category = c]
      \/ \E on \in {"on", "off"} : typed = [loaded EXCEPT !.entry = on]
  BY DEF Typed
<1>4. ASSUME NEW n \in Amounts, typed = [loaded EXCEPT !.details.price = n]
      PROVE typed.entry \in {"on", "off"} /\ IsDetails(typed.details)
  <2>1. typed.entry = form[e].entry[a] /\ typed.details = [d EXCEPT !.price = n]
    BY <1>4
  <2>2. typed.details = [category |-> d.category, price |-> n]
    BY <1>2, <2>1
  <2> QED
    BY <1>1, <1>2, <2>1, <2>2 DEF IsDetails
<1>5. ASSUME NEW c \in Categories, typed = [loaded EXCEPT !.details.category = c]
      PROVE typed.entry \in {"on", "off"} /\ IsDetails(typed.details)
  <2>1. typed.entry = form[e].entry[a] /\ typed.details = [d EXCEPT !.category = c]
    BY <1>5
  <2>2. typed.details = [category |-> c, price |-> d.price]
    BY <1>2, <2>1
  <2> QED
    BY <1>1, <2>1, <2>2 DEF IsDetails
<1>6. ASSUME NEW on \in {"on", "off"}, typed = [loaded EXCEPT !.entry = on]
      PROVE typed.entry \in {"on", "off"} /\ IsDetails(typed.details)
  <2>1. typed.entry = on /\ typed.details = d
    BY <1>6
  <2> QED
    BY <1>1, <2>1
<1> QED
  BY <1>3, <1>4, <1>5, <1>6

LEMMA SendKeeps ==
    ASSUME CatalogInv, NEW e \in Offices
    PROVE /\ \A c \in Categories : AddCategory(e, c) \/ RemoveCategory(e, c) => CatalogInv'
          /\ \A c \in Categories, a \in Articles : AddProduct(e, a, c) => CatalogInv'
          /\ \A g \in Groups : AddModifierGroup(e, g) \/ RemoveModifierGroup(e, g) => CatalogInv'
          /\ \A o \in Options : AddModifierOption(e, o) \/ RemoveModifierOption(e, o) \/ ToggleOption(e, o) => CatalogInv'
          /\ \A v \in Variants : AddVariant(e, v) \/ SaveVariant(e, v) => CatalogInv'
          /\ \A a \in Articles : \A typed \in Typed(e, a) : SaveProduct(e, a, typed) => CatalogInv'
          /\ \A a \in Articles, s \in Outlets, n \in Amounts \cup {NoAmount} : SaveOwnPrice(e, s, a, n) => CatalogInv'
          /\ TogglePromo(e) => CatalogInv'
          /\ \A n \in Limits : SavePromoLimits(e, n) => CatalogInv'
<1>1. ASSUME NEW c \in Categories, AddCategory(e, c) \/ RemoveCategory(e, c) PROVE CatalogInv'
  <2>1. Sound([do |-> "category", entry |-> c]) /\ Sound([do |-> "removeCategory", entry |-> c])
    BY DEF Sound
  <2> QED
    BY <1>1, <2>1, BeginKeeps DEF AddCategory, RemoveCategory
<1>2. ASSUME NEW c \in Categories, NEW a \in Articles, AddProduct(e, a, c) PROVE CatalogInv'
  <2>1. Sound([do |-> "product", entry |-> a, under |-> c])
    BY DEF Sound
  <2> QED
    BY <1>2, <2>1, BeginKeeps DEF AddProduct
<1>3. ASSUME NEW g \in Groups, AddModifierGroup(e, g) \/ RemoveModifierGroup(e, g) PROVE CatalogInv'
  <2>1. Sound([do |-> "group", entry |-> g]) /\ Sound([do |-> "removeGroup", entry |-> g])
    BY DEF Sound
  <2> QED
    BY <1>3, <2>1, BeginKeeps DEF AddModifierGroup, RemoveModifierGroup
<1>4. ASSUME NEW o \in Options, AddModifierOption(e, o) \/ RemoveModifierOption(e, o) \/ ToggleOption(e, o)
      PROVE CatalogInv'
  <2>1. Sound([do |-> "option", entry |-> o]) /\ Sound([do |-> "removeOption", entry |-> o])
    BY DEF Sound
  <2>2. Sound([do |-> "toggle", entry |-> o, to |-> Opposite(entry[o])])
    BY DEF Sound, Opposite
  <2> QED
    BY <1>4, <2>1, <2>2, BeginKeeps DEF AddModifierOption, RemoveModifierOption, ToggleOption
<1>5. ASSUME NEW v \in Variants, AddVariant(e, v) \/ SaveVariant(e, v) PROVE CatalogInv'
  <2>1. Sound([do |-> "variant", entry |-> v])
    BY DEF Sound
  <2>2. entry[v] # "none" => Sound([do |-> "variantForm", entry |-> v, to |-> Opposite(entry[v])])
    BY DEF Sound, Opposite
  <2> QED
    BY <1>5, <2>1, <2>2, BeginKeeps DEF AddVariant, SaveVariant, Exists
<1>6. ASSUME NEW a \in Articles, NEW typed \in Typed(e, a), SaveProduct(e, a, typed) PROVE CatalogInv'
  <2>1. typed.entry \in {"on", "off"} /\ IsDetails(typed.details)
    BY <1>6, TypedForms DEF SaveProduct
  <2>2. Sound([do |-> "update", entry |-> a, typed |-> typed, read |-> details[a].price])
    BY <2>1 DEF Sound
  <2> QED
    BY <1>6, <2>2, BeginKeeps DEF SaveProduct
<1>7. ASSUME NEW a \in Articles, NEW s \in Outlets, NEW n \in Amounts \cup {NoAmount}, SaveOwnPrice(e, s, a, n)
      PROVE CatalogInv'
  <2>1. Sound([do |-> "price", store |-> s, entry |-> a, price |-> n])
    BY DEF Sound
  <2> QED
    BY <1>7, <2>1, BeginKeeps DEF SaveOwnPrice
<1>8. ASSUME NEW body, PatchPromo(e, body) PROVE CatalogInv'
  <2>1. Sound([do |-> "promo", body |-> body, row |-> Merged(body)])
    BY DEF Sound
  <2> QED
    BY <1>8, <2>1, BeginKeeps DEF PatchPromo
<1> QED
  BY <1>1, <1>2, <1>3, <1>4, <1>5, <1>6, <1>7, <1>8 DEF TogglePromo, SavePromoLimits
-------------------------------------------------------------------------------
Values == {"none", "on", "off"}

(* A request that writes keeps the invariant if the keys hold after it and *)
(* no variant is gone.                                                     *)
LEMMA WriteKeeps ==
    ASSUME CatalogInv, NEW e \in Offices, work' = [work EXCEPT ![e] = Idle], form' = form,
           entry' \in [Entries -> Values],
           details' = [a \in Articles |-> details'[a]], \A a \in Articles : IsDetails(details'[a]),
           \A v \in Variants : entry[v] # "none" => entry'[v] # "none",
           NoOrphans'
    PROVE CatalogInv'
<1>1. CatalogTyped'
  <2>1. work' = [d \in Offices |-> work'[d]] /\ form' = [d \in Offices |-> form'[d]]
    BY DEF CatalogInv, CatalogTyped
  <2>2. \A d \in Offices, a \in Articles : IsDetails(form'[d].details[a]) /\ form'[d].entry[a] \in Values
    BY DEF CatalogInv, CatalogTyped, Values
  <2> QED
    BY <2>1, <2>2 DEF CatalogTyped, IsDetails, Values
<1>2. ASSUME NEW d \in Offices PROVE Sound(work[d])'
  <2>1. work'[d] = Idle \/ work'[d] = work[d]
    BY DEF CatalogInv, CatalogTyped
  <2>2. CASE work'[d] = Idle
    BY <2>2 DEF Sound, Idle
  <2>3. CASE work'[d] = work[d]
    <3>1. Sound(work[d])
      BY DEF CatalogInv
    <3>2. work[d].do = "variantForm" => entry'[work[d].entry] # "none"
      BY <3>1 DEF Sound
    <3> QED
      BY <2>3, <3>1, <3>2 DEF Sound, IsDetails
  <2> QED
    BY <2>1, <2>2, <2>3
<1> QED
  BY <1>1, <1>2 DEF CatalogInv

(* A row is there afterwards if it was before, or it is the new one, whose *)
(* parents are there.                                                      *)
LEMMA InsertAdds ==
    ASSUME CatalogTyped, NEW x \in Entries, NEW parents, Insert(x, parents)
    PROVE /\ entry' \in [Entries -> Values]
          /\ \A y : entry[y] # "none" /\ y \in Entries => entry'[y] # "none"
          /\ \A y \in Entries : entry'[y] # "none" /\ entry[y] = "none" =>
                y = x /\ entry' # entry /\ \A p \in parents : entry[p] # "none"
  BY DEF CatalogTyped, Insert, Exists, Values

LEMMA UnderEntries == CatalogTyped => \A x \in Articles \cup Extras : Under(x) \in Entries
<1> SUFFICES ASSUME CatalogTyped, NEW x \in Articles \cup Extras PROVE Under(x) \in Entries
  OBVIOUS
<1>1. CASE x \in Articles
  BY <1>1 DEF CatalogTyped, Under, Entries, IsDetails
<1>2. CASE x \notin Articles
  BY <1>2, CatalogAssumption DEF Under, Entries, Extras
<1> QED
  BY <1>1, <1>2

LEMMA InsertExtra ==
    ASSUME CatalogInv, NEW e \in Offices, work' = [work EXCEPT ![e] = Idle], form' = form, details' = details,
           NEW x \in Categories \cup Extras, NEW parents, Insert(x, parents), x \in Extras => PartOf[x] \in parents
    PROVE CatalogInv'
<1>0. CatalogTyped /\ NoOrphans
  BY DEF CatalogInv
<1>1. x \in Entries
  BY DEF Entries
<1>2. /\ entry' \in [Entries -> Values]
      /\ \A y \in Entries : entry[y] # "none" => entry'[y] # "none"
      /\ \A y \in Entries : entry'[y] # "none" /\ entry[y] = "none" => y = x /\ \A p \in parents : entry[p] # "none"
  BY <1>0, <1>1, InsertAdds
<1>3. NoOrphans'
  <2> SUFFICES ASSUME NEW y \in Articles \cup Extras, entry'[y] # "none" PROVE entry'[Under(y)] # "none"
    BY <1>0 DEF NoOrphans, Exists, Under
  <2>1. y \in Entries /\ Under(y) \in Entries
    BY <1>0, UnderEntries DEF Entries
  <2>2. CASE entry[y] # "none"
    BY <1>0, <1>2, <2>1, <2>2 DEF NoOrphans, Exists
  <2>3. CASE entry[y] = "none"
    <3>1. y = x /\ \A p \in parents : entry[p] # "none"
      BY <1>2, <2>1, <2>3
    <3>2. y \in Extras /\ y \notin Articles
      BY <3>1, CatalogAssumption DEF Extras
    <3> QED
      BY <1>2, <2>1, <3>1, <3>2 DEF Under
  <2> QED
    BY <2>2, <2>3
<1> QED
  BY <1>0, <1>2, <1>3, WriteKeeps DEF CatalogTyped, Entries, Extras

LEMMA InsertProduct ==
    ASSUME CatalogInv, NEW e \in Offices, work' = [work EXCEPT ![e] = Idle], form' = form,
           NEW r, r.entry \in Articles, r.under \in Categories, CreateProduct(r)
    PROVE CatalogInv'
<1> DEFINE x == r.entry
<1>0. CatalogTyped /\ NoOrphans /\ x \in Entries /\ r.under \in Entries /\ Insert(x, {r.under})
  BY DEF CatalogInv, CreateProduct, Entries
<1>1. /\ entry' \in [Entries -> Values]
      /\ \A y \in Entries : entry[y] # "none" => entry'[y] # "none"
      /\ \A y \in Entries : entry'[y] # "none" /\ entry[y] = "none" =>
            y = x /\ entry' # entry /\ entry[r.under] # "none"
  BY <1>0, InsertAdds
<1>2. details' = IF entry' # entry THEN [details EXCEPT ![x].category = r.under] ELSE details
  BY DEF CreateProduct
<1>3. ASSUME NEW a \in Articles
      PROVE /\ IsDetails(details'[a])
            /\ a # x \/ entry' = entry => details'[a] = details[a]
            /\ a = x /\ entry' # entry => details'[a].category = r.under
  <2>1. details[a] = [category |-> details[a].category, price |-> details[a].price] /\ details[a].category \in Categories
    BY <1>0 DEF CatalogTyped, IsDetails
  <2>2. CASE a = x /\ entry' # entry
    <3>1. details'[a] = [details[a] EXCEPT !.category = r.under]
      BY <1>0, <1>2, <2>2 DEF CatalogTyped
    <3>2. details'[a] = [category |-> r.under, price |-> details[a].price]
      BY <2>1, <3>1
    <3> QED
      BY <2>2, <3>2 DEF IsDetails
  <2>3. CASE a # x \/ entry' = entry
    <3>1. details'[a] = details[a]
      BY <1>0, <1>2, <2>3 DEF CatalogTyped
    <3> QED
      BY <2>1, <2>3, <3>1 DEF IsDetails
  <2> QED
    BY <2>2, <2>3
<1>4. details' = [a \in Articles |-> details'[a]]
  BY <1>0, <1>2 DEF CatalogTyped
<1>5. NoOrphans'
  <2> SUFFICES ASSUME NEW y \in Articles \cup Extras, entry'[y] # "none" PROVE entry'[Under(y)'] # "none"
    BY DEF NoOrphans, Exists
  <2>1. y \in Entries /\ Under(y) \in Entries
    BY <1>0, UnderEntries DEF Entries
  <2>2. CASE entry[y] # "none"
    <3>1. entry'[Under(y)] # "none"
      BY <1>0, <1>1, <2>1, <2>2 DEF NoOrphans, Exists
    <3>2. CASE y = x /\ entry' # entry
      <4>1. entry' = entry
        BY <1>0, <2>2, <3>2 DEF Insert, Exists
      <4> QED
        BY <3>2, <4>1
    <3>3. CASE ~(y = x /\ entry' # entry)
      BY <1>3, <3>1, <3>3 DEF Under
    <3> QED
      BY <3>2, <3>3
  <2>3. CASE entry[y] = "none"
    <3>1. y = x /\ entry' # entry /\ entry[r.under] # "none"
      BY <1>1, <2>1, <2>3
    <3>2. Under(y)' = r.under
      BY <1>3, <3>1 DEF Under
    <3> QED
      BY <1>0, <1>1, <3>1, <3>2
  <2> QED
    BY <2>2, <2>3
<1>6. \A v \in Variants : entry[v] # "none" => entry'[v] # "none"
  BY <1>1 DEF Entries, Extras
<1> QED
  BY <1>1, <1>3, <1>4, <1>5, <1>6, WriteKeeps

(* What is taken away is nobody's parent any more.                         *)
LEMMA DeleteEntries ==
    ASSUME CatalogInv, NEW e \in Offices, work' = [work EXCEPT ![e] = Idle], form' = form, details' = details,
           NEW Gone \in SUBSET Entries, Gone \cap Variants = {},
           entry' = [x \in Entries |-> IF x \in Gone THEN "none" ELSE entry[x]],
           \A x \in Articles \cup Extras : entry[x] # "none" /\ x \notin Gone => Under(x) \notin Gone
    PROVE CatalogInv'
<1>0. CatalogTyped /\ NoOrphans
  BY DEF CatalogInv
<1>1. entry' \in [Entries -> Values]
  BY <1>0 DEF CatalogTyped, Values
<1>2. NoOrphans'
  <2> SUFFICES ASSUME NEW y \in Articles \cup Extras, entry'[y] # "none" PROVE entry'[Under(y)] # "none"
    BY DEF NoOrphans, Exists, Under
  <2>1. y \in Entries /\ Under(y) \in Entries
    BY <1>0, UnderEntries DEF Entries
  <2>2. y \notin Gone /\ entry[y] # "none"
    BY <2>1
  <2> QED
    BY <1>0, <2>1, <2>2 DEF NoOrphans, Exists
<1>3. \A v \in Variants : entry[v] # "none" => entry'[v] # "none"
  BY DEF Entries, Extras
<1> QED
  BY <1>0, <1>1, <1>2, <1>3, WriteKeeps DEF CatalogTyped

LEMMA DeletesKeep ==
    ASSUME CatalogInv, NEW e \in Offices, work' = [work EXCEPT ![e] = Idle], form' = form, NEW r
    PROVE /\ r.entry \in Categories /\ DeleteCategory(r) => CatalogInv'
          /\ r.entry \in Groups /\ DeleteModifierGroup(r) => CatalogInv'
          /\ r.entry \in Options /\ DeleteModifierOption(r) => CatalogInv'
<1>0. CatalogTyped /\ entry = [x \in Entries |-> entry[x]]
  BY DEF CatalogInv, CatalogTyped
<1>1. ASSUME r.entry \in Categories, DeleteCategory(r) PROVE CatalogInv'
  <2>1. CASE \E a \in Articles : Exists(a) /\ Under(a) = r.entry
    <3>1. entry' = entry /\ details' = details
      BY <1>1, <2>1 DEF DeleteCategory
    <3>2. NoOrphans'
      BY <3>1 DEF CatalogInv, NoOrphans, Exists, Under
    <3> QED
      BY <1>0, <3>1, <3>2, WriteKeeps DEF CatalogTyped, Values
  <2>2. CASE ~\E a \in Articles : Exists(a) /\ Under(a) = r.entry
    <3>1. entry' = [x \in Entries |-> IF x \in {r.entry} THEN "none" ELSE entry[x]] /\ details' = details
      BY <1>0, <1>1, <2>2 DEF DeleteCategory
    <3>2. \A x \in Articles \cup Extras : entry[x] # "none" => Under(x) # r.entry
      BY <1>1, <2>2, CatalogAssumption DEF Exists, Under, Extras
    <3>3. {r.entry} \in SUBSET Entries /\ {r.entry} \cap Variants = {}
      BY <1>1, CatalogAssumption DEF Entries
    <3> QED
      BY <3>1, <3>2, <3>3, DeleteEntries
  <2> QED
    BY <2>1, <2>2
<1>2. ASSUME r.entry \in Groups, DeleteModifierGroup(r) PROVE CatalogInv'
  <2> DEFINE Gone == {r.entry} \cup {x \in Options : PartOf[x] = r.entry}
  <2>1. entry' = [x \in Entries |-> IF x \in Gone THEN "none" ELSE entry[x]] /\ details' = details
    BY <1>2 DEF DeleteModifierGroup
  <2>2. \A x \in Articles \cup Extras : x \notin Gone => Under(x) \notin Gone
    <3> SUFFICES ASSUME NEW x \in Articles \cup Extras, x \notin Gone PROVE Under(x) \notin Gone
      OBVIOUS
    <3>1. CASE x \in Articles
      <4>1. Under(x) \in Categories
        BY <1>0, <3>1 DEF CatalogTyped, IsDetails, Under
      <4> QED
        BY <1>2, <4>1, CatalogAssumption
    <3>2. CASE x \in Groups \cup Variants
      <4>1. Under(x) \in Articles
        BY <3>2, CatalogAssumption DEF Under
      <4> QED
        BY <1>2, <4>1, CatalogAssumption
    <3>3. CASE x \in Options
      <4>1. Under(x) \in Groups /\ Under(x) # r.entry
        BY <3>3, CatalogAssumption DEF Under
      <4> QED
        BY <4>1, CatalogAssumption
    <3> QED
      BY <3>1, <3>2, <3>3 DEF Extras
  <2>3. Gone \in SUBSET Entries /\ Gone \cap Variants = {}
    BY <1>2, CatalogAssumption DEF Entries, Extras
  <2> HIDE DEF Gone
  <2> QED
    BY <2>1, <2>2, <2>3, DeleteEntries
<1>3. ASSUME r.entry \in Options, DeleteModifierOption(r) PROVE CatalogInv'
  <2>1. entry' = [x \in Entries |-> IF x \in {r.entry} THEN "none" ELSE entry[x]] /\ details' = details
    BY <1>0, <1>3 DEF DeleteModifierOption
  <2>2. \A x \in Articles \cup Extras : Under(x) # r.entry
    BY <1>0, <1>3, CatalogAssumption DEF CatalogTyped, IsDetails, Under, Extras
  <2>3. {r.entry} \in SUBSET Entries /\ {r.entry} \cap Variants = {}
    BY <1>3, CatalogAssumption DEF Entries, Extras
  <2> QED
    BY <2>1, <2>2, <2>3, DeleteEntries
<1> QED
  BY <1>1, <1>2, <1>3

(* An edit leaves what is there, there; a product's new category is looked *)
(* up as it is written.                                                    *)
LEMMA EditsKeep ==
    ASSUME CatalogInv, NEW e \in Offices, work' = [work EXCEPT ![e] = Idle], form' = form, NEW r, Sound(r)
    PROVE /\ r.do = "toggle" /\ UpdateModifierOption(r) => CatalogInv'
          /\ r.do = "variantForm" /\ UpdateVariant(r) => CatalogInv'
          /\ r.do = "update" /\ UpdateProduct(e, r) => CatalogInv'
<1>0. CatalogTyped /\ NoOrphans
  BY DEF CatalogInv
<1>1. ASSUME NEW x \in Entries, NEW to \in {"on", "off"}, entry[x] # "none", entry' = [entry EXCEPT ![x] = to],
             details' = details
      PROVE CatalogInv'
  <2>1. entry' \in [Entries -> Values] /\ \A y \in Entries : (entry'[y] = "none") <=> (entry[y] = "none")
    BY <1>0, <1>1 DEF CatalogTyped, Values
  <2>2. NoOrphans'
    <3> SUFFICES ASSUME NEW y \in Articles \cup Extras, entry'[y] # "none" PROVE entry'[Under(y)] # "none"
      BY <1>1 DEF NoOrphans, Exists, Under
    <3>1. y \in Entries /\ Under(y) \in Entries
      BY <1>0, UnderEntries DEF Entries
    <3> QED
      BY <1>0, <2>1, <3>1 DEF NoOrphans, Exists
  <2>3. \A v \in Variants : v \in Entries
    BY DEF Entries, Extras
  <2> QED
    BY <1>0, <1>1, <2>1, <2>2, <2>3, WriteKeeps DEF CatalogTyped
<1>2. ASSUME entry' = entry, details' = details PROVE CatalogInv'
  <2>1. NoOrphans'
    BY <1>0, <1>2 DEF NoOrphans, Exists, Under
  <2> QED
    BY <1>0, <1>2, <2>1, WriteKeeps DEF CatalogTyped, Values
<1>3. ASSUME r.do = "toggle", UpdateModifierOption(r) PROVE CatalogInv'
  <2>1. r.entry \in Entries /\ r.to \in {"on", "off"} /\ details' = details
    BY <1>3 DEF Sound, UpdateModifierOption, Entries, Extras
  <2>2. CASE entry[r.entry] # "none"
    BY <1>1, <1>3, <2>1, <2>2 DEF UpdateModifierOption, Exists
  <2>3. CASE entry[r.entry] = "none"
    BY <1>2, <1>3, <2>1, <2>3 DEF UpdateModifierOption, Exists
  <2> QED
    BY <2>2, <2>3
<1>4. ASSUME r.do = "variantForm", UpdateVariant(r) PROVE CatalogInv'
  <2>1. r.entry \in Entries /\ r.to \in {"on", "off"} /\ entry[r.entry] # "none"
    BY <1>4 DEF Sound, Entries, Extras
  <2> QED
    BY <1>1, <1>4, <2>1 DEF UpdateVariant
<1>5. ASSUME r.do = "update", UpdateProduct(e, r) PROVE CatalogInv'
  <2> DEFINE a == r.entry
             c == r.typed.details.category
  <2>1. a \in Articles /\ r.typed.entry \in {"on", "off"} /\ IsDetails(r.typed.details)
    BY <1>5 DEF Sound
  <2>2. a \in Entries /\ c \in Entries /\ c # a /\ c \in Categories
    BY <2>1, CatalogAssumption DEF Entries, IsDetails
  <2>3. CASE entry[c] = "none"
    BY <1>2, <1>5, <2>3 DEF UpdateProduct, Exists
  <2>4. CASE entry[c] # "none"
    <3>1. entry' = [entry EXCEPT ![a] = r.typed.entry] /\ details' = [details EXCEPT ![a] = r.typed.details]
      BY <1>5, <2>4 DEF UpdateProduct, Exists
    <3>2. entry' \in [Entries -> Values] /\ \A y \in Entries : entry'[y] = "none" => entry[y] = "none"
      BY <1>0, <2>1, <2>2, <3>1 DEF CatalogTyped, Values
    <3>3. details' = [b \in Articles |-> details'[b]]
          /\ \A b \in Articles : details'[b] = IF b = a THEN r.typed.details ELSE details[b]
      BY <1>0, <2>1, <3>1 DEF CatalogTyped
    <3>4. \A b \in Articles : IsDetails(details'[b])
      BY <1>0, <2>1, <3>3 DEF CatalogTyped
    <3>5. NoOrphans'
      <4> SUFFICES ASSUME NEW y \in Articles \cup Extras, entry'[y] # "none" PROVE entry'[Under(y)'] # "none"
        BY DEF NoOrphans, Exists
      <4>1. CASE y = a
        BY <2>1, <2>2, <2>4, <3>2, <3>3, <4>1 DEF Under
      <4>2. CASE y # a
        <5>1. entry[y] # "none" /\ Under(y)' = Under(y) /\ Under(y) \in Entries
          BY <1>0, <2>1, <3>1, <3>3, <4>2, UnderEntries DEF CatalogTyped, Under
        <5> QED
          BY <1>0, <3>2, <5>1 DEF NoOrphans, Exists
      <4> QED
        BY <4>1, <4>2
    <3>6. \A v \in Variants : v \in Entries
      BY DEF Entries, Extras
    <3> QED
      BY <3>2, <3>3, <3>4, <3>5, <3>6, WriteKeeps
  <2> QED
    BY <2>3, <2>4
<1> QED
  BY <1>3, <1>4, <1>5

LEMMA CommitKeepsCatalog == ASSUME CatalogInv, NEW e \in Offices, Commit(e) PROVE CatalogInv'
<1> DEFINE r == work[e]
<1>0. Sound(r) /\ work' = [work EXCEPT ![e] = Idle] /\ form' = form /\ CatalogTyped /\ NoOrphans
  BY DEF Commit, CatalogInv
<1>1. CASE r.do = "category" /\ CreateCategory(r)
  <2>1. r.entry \in Categories /\ r.entry \notin Extras
    BY <1>0, <1>1, CatalogAssumption DEF Sound, Extras
  <2>2. Insert(r.entry, {}) /\ details' = details
    BY <1>1 DEF CreateCategory
  <2> QED
    BY <1>0, <2>1, <2>2, InsertExtra
<1>2. CASE r.do = "product" /\ CreateProduct(r)
  BY <1>0, <1>2, InsertProduct DEF Sound
<1>3. CASE \/ r.do = "group" /\ CreateModifierGroup(r)
           \/ r.do = "option" /\ CreateModifierOption(r)
           \/ r.do = "variant" /\ CreateVariant(r)
  <2>1. r.entry \in Extras /\ Insert(r.entry, {PartOf[r.entry]}) /\ details' = details
    BY <1>0, <1>3 DEF Sound, CreateModifierGroup, CreateModifierOption, CreateVariant, Extras
  <2> QED
    BY <1>0, <2>1, InsertExtra
<1>4. CASE \/ r.do = "removeCategory" /\ DeleteCategory(r)
           \/ r.do = "removeGroup" /\ DeleteModifierGroup(r)
           \/ r.do = "removeOption" /\ DeleteModifierOption(r)
  BY <1>0, <1>4, DeletesKeep DEF Sound
<1>5. CASE \/ r.do = "toggle" /\ UpdateModifierOption(r)
           \/ r.do = "variantForm" /\ UpdateVariant(r)
           \/ r.do = "update" /\ UpdateProduct(e, r)
  BY <1>0, <1>5, EditsKeep
<1>6. CASE \/ r.do = "price" /\ SetOwnPrice(r)
           \/ r.do = "promo" /\ UpdatePromo(r)
  <2>1. UNCHANGED <<entry, details>>
    BY <1>6 DEF SetOwnPrice, UpdatePromo
  <2>2. NoOrphans'
    BY <1>0, <2>1 DEF NoOrphans, Exists, Under
  <2> QED
    BY <1>0, <2>1, <2>2, WriteKeeps DEF CatalogTyped, Values
<1> QED
  <2>1. \/ r.do = "category" /\ CreateCategory(r)
        \/ r.do = "product" /\ CreateProduct(r)
        \/ r.do = "group" /\ CreateModifierGroup(r)
        \/ r.do = "option" /\ CreateModifierOption(r)
        \/ r.do = "variant" /\ CreateVariant(r)
        \/ r.do = "removeCategory" /\ DeleteCategory(r)
        \/ r.do = "removeGroup" /\ DeleteModifierGroup(r)
        \/ r.do = "removeOption" /\ DeleteModifierOption(r)
        \/ r.do = "toggle" /\ UpdateModifierOption(r)
        \/ r.do = "variantForm" /\ UpdateVariant(r)
        \/ r.do = "update" /\ UpdateProduct(e, r)
        \/ r.do = "price" /\ SetOwnPrice(r)
        \/ r.do = "promo" /\ UpdatePromo(r)
    BY DEF Commit
  <2> QED
    BY <2>1, <1>1, <1>2, <1>3, <1>4, <1>5, <1>6, Zenon

LEMMA NextCatalogInv == CatalogInv /\ [CatalogNext]_catalogVars => CatalogInv'
<1> SUFFICES ASSUME CatalogInv, [CatalogNext]_catalogVars PROVE CatalogInv'
  OBVIOUS
<1>1. CASE UNCHANGED catalogVars
  BY <1>1
  DEF catalogVars, catalog, CatalogInv, CatalogTyped, NoOrphans, Sound, Exists, Under, IsDetails
<1>2. CASE CatalogNext
  BY <1>2, LoadKeeps, CommitKeepsCatalog, SendKeeps DEF CatalogNext
<1> QED
  BY <1>1, <1>2
-------------------------------------------------------------------------------
(* Whatever overlaps, every product has a category and every extra what it *)
(* is part of (admin.service.ts:148-166, 1654-1660).                       *)
THEOREM CatalogStaysWhole == CatalogSpec => []NoOrphans
<1>1. CatalogInv => NoOrphans
  BY DEF CatalogInv
<1> QED
  BY <1>1, InitCatalogInv, NextCatalogInv, PTL DEF CatalogSpec
-------------------------------------------------------------------------------
(* An office whose form is fresh has read the price of a product it is     *)
(* about to write as it still is: nothing was written since.               *)
ReadLate ==
    \A e \in Offices :
        e \in fresh /\ work[e].do = "update" => work[e].read = details[work[e].entry].price
PricesTyped == ownPrice = [s \in Outlets |-> [a \in Articles |-> ownPrice[s][a]]]
PriceInv == CatalogInv /\ PricesTyped /\ ReadLate

LEMMA InitPriceInv == CatalogInit => PriceInv
<1> SUFFICES ASSUME CatalogInit PROVE PriceInv
  OBVIOUS
<1>1. /\ ownPrice = [s \in Outlets |-> [a \in Articles |-> NoAmount]]
      /\ work = [e \in Offices |-> Idle]
  BY DEF CatalogInit
<1> QED
  BY <1>1, InitCatalogInv DEF PriceInv, PricesTyped, ReadLate, Idle

(* Of the requests that write, one changes prices of the catalog.          *)
LEMMA CommitPrices ==
    ASSUME PriceInv, NEW e \in Offices, Commit(e)
    PROVE  /\ PricesTyped'
           /\ \A s \in Outlets, a \in Articles :
                 details[a].price # details'[a].price /\ ownPrice[s][a] # ownPrice'[s][a] =>
                     e \notin fresh \/ ownPrice[s][a] = details[a].price
<1> DEFINE r == work[e]
<1>1. Sound(r) /\ \A a \in Articles : IsDetails(details[a])
  BY DEF PriceInv, CatalogInv, CatalogTyped
<1>2. CASE UNCHANGED ownPrice
  BY <1>2 DEF PriceInv, PricesTyped
<1>3. CASE UNCHANGED details /\ SetOwnPrice(r)
  BY <1>3 DEF SetOwnPrice, PriceInv, PricesTyped
<1>4. CASE r.do = "update" /\ ownPrice' = Dropped(r) /\ details' = [details EXCEPT ![r.entry] = r.typed.details]
  <2>1. r.entry \in Articles
    BY <1>1, <1>4 DEF Sound
  <2>2. CASE r.typed.details.price = r.read
    BY <1>2, <1>4, <2>2 DEF Dropped
  <2>3. CASE r.typed.details.price # r.read
    <3>1. ownPrice' = [s \in Outlets |-> [ownPrice[s] EXCEPT ![r.entry] = IF @ = r.read THEN NoAmount ELSE @]]
      BY <1>4, <2>3 DEF Dropped
    <3>2. \A s \in Outlets : ownPrice[s] = [a \in Articles |-> ownPrice[s][a]]
      BY DEF PriceInv, PricesTyped
    <3>3. \A s \in Outlets, a \in Articles :
             ownPrice'[s][a] = IF a = r.entry /\ ownPrice[s][a] = r.read THEN NoAmount ELSE ownPrice[s][a]
      BY <2>1, <3>1, <3>2
    <3>4. PricesTyped'
      BY <3>1, <3>2 DEF PricesTyped
    <3>5. e \in fresh => r.read = details[r.entry].price
      BY <1>4 DEF PriceInv, ReadLate
    <3> QED
      BY <3>3, <3>4, <3>5
  <2> QED
    BY <2>2, <2>3
<1>5. \/ UNCHANGED ownPrice
      \/ UNCHANGED details /\ SetOwnPrice(r)
      \/ r.do = "update" /\ ownPrice' = Dropped(r) /\ details' = [details EXCEPT ![r.entry] = r.typed.details]
  BY DEF Commit, CreateCategory, CreateProduct, CreateModifierGroup, CreateModifierOption, CreateVariant,
         DeleteCategory, DeleteModifierGroup, DeleteModifierOption, UpdateModifierOption, UpdateVariant,
         UpdateProduct, SetOwnPrice, UpdatePromo
<1> QED
  BY <1>2, <1>3, <1>4, <1>5

LEMMA BeginReads ==
    ASSUME PriceInv, NEW e \in Offices, NEW req, Begin(e, req),
           req.do = "update" => req.read = details[req.entry].price
    PROVE  ReadLate' /\ UNCHANGED <<details, ownPrice>>
<1>1. UNCHANGED <<details, ownPrice, fresh>> /\ work' = [work EXCEPT ![e] = req]
  BY DEF Begin, catalog
<1>2. \A d \in Offices : work'[d] = IF d = e THEN req ELSE work[d]
  BY <1>1 DEF PriceInv, CatalogInv, CatalogTyped
<1> QED
  BY <1>1, <1>2 DEF PriceInv, ReadLate

(* What an office sends says the price that it finds.                      *)
Sends(e) ==
    \E req : /\ Begin(e, req)
             /\ req.do = "update" => req.read = details[req.entry].price
LEMMA AllSend ==
    ASSUME CatalogNext, ~(\E d \in Offices : Load(d) \/ Commit(d))
    PROVE  \E d \in Offices : Sends(d)
<1>1. PICK d \in Offices :
        \/ \E c \in Categories : AddCategory(d, c) \/ RemoveCategory(d, c) \/ \E a \in Articles : AddProduct(d, a, c)
        \/ \E g \in Groups : AddModifierGroup(d, g) \/ RemoveModifierGroup(d, g)
        \/ \E o \in Options : AddModifierOption(d, o) \/ RemoveModifierOption(d, o) \/ ToggleOption(d, o)
        \/ \E v \in Variants : AddVariant(d, v) \/ SaveVariant(d, v)
        \/ \E a \in Articles : (\E typed \in Typed(d, a) : SaveProduct(d, a, typed))
                               \/ \E s \in Outlets, n \in Amounts \cup {NoAmount} : SaveOwnPrice(d, s, a, n)
        \/ TogglePromo(d) \/ \E n \in Limits : SavePromoLimits(d, n)
  BY DEF CatalogNext
<1>2. ASSUME NEW req, Begin(d, req), req.do # "update" PROVE Sends(d)
  BY <1>2 DEF Sends
<1>3. ASSUME NEW c \in Categories, AddCategory(d, c) \/ RemoveCategory(d, c) \/ \E a \in Articles : AddProduct(d, a, c)
      PROVE  Sends(d)
  BY <1>2, <1>3 DEF AddCategory, RemoveCategory, AddProduct
<1>4. ASSUME NEW g \in Groups, AddModifierGroup(d, g) \/ RemoveModifierGroup(d, g) PROVE Sends(d)
  BY <1>2, <1>4 DEF AddModifierGroup, RemoveModifierGroup
<1>5. ASSUME NEW o \in Options, AddModifierOption(d, o) \/ RemoveModifierOption(d, o) \/ ToggleOption(d, o)
      PROVE  Sends(d)
  BY <1>2, <1>5 DEF AddModifierOption, RemoveModifierOption, ToggleOption
<1>6. ASSUME NEW v \in Variants, AddVariant(d, v) \/ SaveVariant(d, v) PROVE Sends(d)
  BY <1>2, <1>6 DEF AddVariant, SaveVariant
<1>7. ASSUME NEW a \in Articles, NEW s \in Outlets, NEW n \in Amounts \cup {NoAmount}, SaveOwnPrice(d, s, a, n)
      PROVE  Sends(d)
  BY <1>2, <1>7 DEF SaveOwnPrice
<1>8. ASSUME NEW a \in Articles, NEW typed \in Typed(d, a), SaveProduct(d, a, typed) PROVE Sends(d)
  <2> DEFINE req == [do |-> "update", entry |-> a, typed |-> typed, read |-> details[a].price]
  <2>1. Begin(d, req) /\ req.read = details[req.entry].price
    BY <1>8 DEF SaveProduct
  <2> HIDE DEF req
  <2> QED
    BY <2>1 DEF Sends
<1>9. ASSUME NEW body, PatchPromo(d, body) PROVE Sends(d)
  BY <1>2, <1>9 DEF PatchPromo
<1> QED
  BY <1>1, <1>3, <1>4, <1>5, <1>6, <1>7, <1>8, <1>9 DEF TogglePromo, SavePromoLimits

OwnPriceStep ==
    \A s \in Outlets, a \in Articles :
        details[a].price # details'[a].price /\ ownPrice[s][a] # ownPrice'[s][a] =>
            mixed' \/ ownPrice[s][a] = details[a].price

LEMMA StepPriceInv == PriceInv /\ [CatalogNext]_catalogVars => PriceInv' /\ OwnPriceStep
<1> SUFFICES ASSUME PriceInv, [CatalogNext]_catalogVars PROVE PriceInv' /\ OwnPriceStep
  OBVIOUS
<1>1. CatalogInv'
  BY NextCatalogInv DEF PriceInv
<1>2. CASE UNCHANGED catalogVars
  BY <1>1, <1>2 DEF catalogVars, catalog, PriceInv, PricesTyped, ReadLate, OwnPriceStep
<1>3. ASSUME NEW e \in Offices, Load(e) PROVE PriceInv' /\ OwnPriceStep
  BY <1>1, <1>3 DEF Load, catalog, PriceInv, PricesTyped, ReadLate, OwnPriceStep, Idle
<1>4. ASSUME NEW e \in Offices, Commit(e) PROVE PriceInv' /\ OwnPriceStep
  <2>1. mixed' = (mixed \/ e \notin fresh) /\ fresh' = {}
    BY <1>4 DEF Commit
  <2> QED
    BY <1>1, <1>4, <2>1, CommitPrices DEF PriceInv, ReadLate, OwnPriceStep
<1>5. ASSUME NEW e \in Offices, Sends(e) PROVE PriceInv' /\ OwnPriceStep
  <2>1. ReadLate' /\ UNCHANGED <<details, ownPrice>>
    BY <1>5, BeginReads DEF Sends
  <2> QED
    BY <1>1, <2>1 DEF PriceInv, PricesTyped, OwnPriceStep
<1>6. CASE CatalogNext /\ ~(\E d \in Offices : Load(d) \/ Commit(d))
  <2>1. \E d \in Offices : Sends(d)
    BY <1>6, AllSend DEF CatalogNext
  <2> QED
    BY <1>5, <2>1
<1> QED
  BY <1>2, <1>3, <1>4, <1>6

(* "Intentional per-store overrides (# old catalog) are kept"              *)
(* (admin.service.ts:265-267): if no saves mix, the save of a product      *)
(* takes away an own price only where it was the catalog's.                *)
THEOREM OverridesAreKept == CatalogSpec => OwnPricesKept
<1>1. PriceInv /\ [CatalogNext]_catalogVars => [OwnPriceStep]_catalogVars
  BY StepPriceInv
<1> QED
  BY <1>1, InitPriceInv, StepPriceInv, PTL DEF CatalogSpec, OwnPricesKept, OwnPriceStep
-------------------------------------------------------------------------------
(***************************************************************************)
(* StaffAdmin: nobody edits an account above their own rank.               *)
(***************************************************************************)

AccountRow == [role : Roles \cup {"none"}, active : BOOLEAN]
TeamRow == [role : Roles \cup {"none"}, active : BOOLEAN, stations : SUBSET Stations]

StaffTyped ==
    /\ account \in [People -> AccountRow]
    /\ stationed \in [People -> SUBSET Stations]
    /\ row \in [People -> [People -> TeamRow]]
    /\ request = [p \in People |-> request[p]]

(* Who sends something is known, and so is who it is about: an account is  *)
(* never taken away.                                                       *)
AboutKnown(p) ==
    /\ request[p] # NoRequest => Known(p)
    /\ request[p].do = "create" => request[p].who \in People /\ request[p].role \in Roles
                                   /\ request[p].stations \in SUBSET Stations
    /\ request[p].do = "update" => /\ request[p].who \in People /\ Known(request[p].who)
                                   /\ request[p].sent \in TeamRow /\ request[p].sent.role \in Roles

(* While updates do not overlap there is one at most, and whoever it is    *)
(* about has not risen above its sender since it was looked at.            *)
InRank ==
    ~overlapped =>
        /\ \A p, q \in People : request[p].do = "update" /\ request[q].do = "update" => p = q
        /\ \A p \in People : request[p].do = "update" => ~Above(account[request[p].who].role, p)

StaffInv == StaffTyped /\ (\A p \in People : AboutKnown(p)) /\ InRank

LEMMA InitStaffInv == StaffInit => StaffInv
<1> SUFFICES ASSUME StaffInit PROVE StaffInv
  OBVIOUS
<1>1. account \in [People -> AccountRow]
  BY DEF StaffInit, Nobody, AccountRow, Roles
<1>2. stationed \in [People -> SUBSET Stations] /\ row = [p \in People |-> Rows]
  BY DEF StaffInit
<1>3. Rows \in [People -> TeamRow]
  BY <1>1, <1>2 DEF Rows, AccountRow, TeamRow
<1>4. StaffTyped
  BY <1>1, <1>2, <1>3 DEF StaffInit, StaffTyped
<1> QED
  BY <1>4 DEF StaffInit, StaffInv, AboutKnown, InRank, NoRequest

(* Looking, and what is sent then.                                         *)
LEMMA RefreshKeeps == ASSUME StaffInv, NEW p \in People, RefreshTeam(p) PROVE StaffInv'
<1>1. Rows \in [People -> TeamRow]
  BY DEF Rows, AccountRow, TeamRow, StaffInv, StaffTyped
<1> QED
  BY <1>1 DEF RefreshTeam, StaffInv, StaffTyped, AboutKnown, InRank, Known, Above

LEMMA AddKeeps ==
    ASSUME StaffInv, NEW p \in People, NEW new \in People, NEW role \in Roles,
           NEW S \in SUBSET Stations, AddStaff(p, new, role, S)
    PROVE  StaffInv'
<1>1. /\ request' = [request EXCEPT ![p] = [do |-> "create", who |-> new, role |-> role, stations |-> S]]
      /\ Known(p) /\ UNCHANGED <<account, stationed, row, overlapped>>
  BY DEF AddStaff, Ask, CanWrite, Known, Nobody
<1> QED
  BY <1>1 DEF StaffInv, StaffTyped, AboutKnown, InRank, Known, Above

LEMMA SaveKeeps ==
    ASSUME StaffInv, NEW p \in People, NEW who \in People, NEW typed \in TypedRows(p, who),
           SaveStaff(p, who, typed)
    PROVE  StaffInv'
<1> DEFINE sent == SentRow(typed)
<1>1. /\ request' = [request EXCEPT ![p] = [do |-> "update", who |-> who, sent |-> sent]]
      /\ Known(p) /\ Known(who) /\ UNCHANGED <<account, stationed, row>>
      /\ overlapped' = (overlapped \/ Updating # {})
      /\ ~Above(account[who].role, p)
  BY DEF SaveStaff, Ask, CanWrite, Known, Nobody, Passes, InRange
<1>2. sent \in TeamRow /\ sent.role \in Roles
  <2>1. row[p][who] \in TeamRow /\ row[p][who].role \in Roles
    BY DEF StaffInv, StaffTyped, SaveStaff, TeamRow
  <2>2. typed \in TeamRow /\ typed.role \in Roles
    BY <2>1 DEF TypedRows, TeamRow, Roles
  <2> QED
    BY <2>2 DEF SentRow, TeamRow
<1> HIDE DEF sent
<1>3. StaffTyped' /\ \A q \in People : AboutKnown(q)'
  BY <1>1, <1>2 DEF StaffInv, StaffTyped, AboutKnown, Known, NoRequest
<1>4. InRank'
  <2> SUFFICES ASSUME ~overlapped'
               PROVE  \A q \in People : request'[q].do = "update" => q = p
    BY <1>1 DEF InRank, Above, StaffInv, StaffTyped
  <2>1. \A q \in People : request[q].do # "update"
    BY <1>1 DEF Updating
  <2> QED
    BY <1>1, <2>1 DEF StaffInv, StaffTyped
<1> QED
  BY <1>3, <1>4 DEF StaffInv

LEMMA CreateKeeps == ASSUME StaffInv, NEW p \in People, CreateStaff(p) PROVE StaffInv'
<1> DEFINE r == request[p]
<1>1. /\ r.do = "create" /\ request' = [request EXCEPT ![p] = NoRequest] /\ UNCHANGED <<row, overlapped>>
      /\ r.who \in People /\ r.role \in Roles /\ r.stations \in SUBSET Stations
  BY DEF CreateStaff, Answered, StaffInv, AboutKnown
<1>2. /\ account' \in [People -> AccountRow] /\ stationed' \in [People -> SUBSET Stations]
      /\ \A q \in People : Known(q) => account'[q] = account[q]
  <2>1. CASE Known(r.who)
    BY <2>1 DEF CreateStaff, StaffInv, StaffTyped
  <2>2. CASE ~Known(r.who)
    <3>1. /\ account' = [account EXCEPT ![r.who] = [role |-> r.role, active |-> TRUE]]
          /\ stationed' = [stationed EXCEPT ![r.who] = r.stations]
      BY <2>2 DEF CreateStaff
    <3> QED
      BY <1>1, <2>2, <3>1 DEF StaffInv, StaffTyped, AccountRow
  <2> QED
    BY <2>1, <2>2
<1>3. \A q \in People : request'[q] = IF q = p THEN NoRequest ELSE request[q]
  BY <1>1 DEF StaffInv, StaffTyped
<1>4. StaffTyped'
  BY <1>1, <1>2, <1>3 DEF StaffInv, StaffTyped
<1>5. ASSUME NEW q \in People PROVE AboutKnown(q)'
  BY <1>1, <1>2, <1>3 DEF StaffInv, AboutKnown, Known, NoRequest
<1>6. InRank'
  <2>1. ASSUME NEW q \in People, request'[q].do = "update"
        PROVE  /\ request'[q] = request[q] /\ account'[q] = account[q]
               /\ account'[request[q].who] = account[request[q].who]
    <3>1. request'[q] = request[q]
      BY <1>3, <2>1 DEF NoRequest
    <3>2. request[q].do = "update" /\ request[q] # NoRequest /\ AboutKnown(q)
      BY <2>1, <3>1 DEF NoRequest, StaffInv
    <3>3. Known(q) /\ Known(request[q].who) /\ request[q].who \in People
      BY <3>2 DEF AboutKnown
    <3> QED
      BY <1>2, <3>1, <3>3
  <2> QED
    BY <1>1, <2>1 DEF StaffInv, InRank, Above
<1> QED
  BY <1>4, <1>5, <1>6 DEF StaffInv

LEMMA UpdateKeeps == ASSUME StaffInv, NEW p \in People, UpdateStaff(p) PROVE StaffInv'
<1> DEFINE r == request[p]
<1>1. /\ r.do = "update" /\ request' = [request EXCEPT ![p] = NoRequest] /\ UNCHANGED <<row, overlapped>>
      /\ r.who \in People /\ r.sent \in TeamRow /\ r.sent.role \in Roles
      /\ account' = [account EXCEPT ![r.who] = [role |-> r.sent.role, active |-> r.sent.active]]
      /\ stationed' = [stationed EXCEPT ![r.who] = r.sent.stations]
  BY DEF UpdateStaff, Answered, StaffInv, AboutKnown, Replaced
<1>2. \A q \in People : request'[q] = IF q = p THEN NoRequest ELSE request[q]
  BY <1>1 DEF StaffInv, StaffTyped
<1>3. /\ account' \in [People -> AccountRow] /\ stationed' \in [People -> SUBSET Stations]
      /\ \A q \in People : Known(q) => Known(q)'
  BY <1>1 DEF StaffInv, StaffTyped, AccountRow, TeamRow, Known, Nobody, Roles
<1>4. StaffTyped' /\ \A q \in People : AboutKnown(q)'
  BY <1>1, <1>2, <1>3 DEF StaffInv, StaffTyped, AboutKnown, NoRequest
<1>5. ~overlapped => \A q \in People : request'[q].do # "update"
  BY <1>1, <1>2 DEF StaffInv, InRank, NoRequest
<1> QED
  BY <1>1, <1>4, <1>5 DEF StaffInv, InRank

LEMMA StepStaffInv == StaffInv /\ [StaffNext]_staffVars => StaffInv'
<1>1. StaffInv /\ UNCHANGED staffVars => StaffInv'
  BY DEF staffVars, StaffInv, StaffTyped, AboutKnown, InRank, Known, Above
<1> QED
  BY <1>1, RefreshKeeps, AddKeeps, SaveKeeps, CreateKeeps, UpdateKeeps DEF StaffNext

(* As long as updates do not overlap, no update reaches an account that is *)
(* by then above its sender's, from however old a row it is sent.          *)
THEOREM NobodyEditsAbove == StaffSpec => RanksRespected
<1>1. StaffInv => [\A p \in People :
          request[p].do = "update" /\ request'[p] = NoRequest /\ ~overlapped
              => ~Above(account[request[p].who].role, p)]_staffVars
  BY DEF StaffInv, InRank
<1> QED
  BY <1>1, InitStaffInv, StepStaffInv, PTL DEF StaffSpec, RanksRespected
-------------------------------------------------------------------------------
(***************************************************************************)
(* GeneralLedger: a sale finds its accounts, and what was posted keeps its *)
(* codes.                                                                  *)
(***************************************************************************)

(* A finite set put in sequence is there from end to end.                  *)
LEMMA SetInSequence ==
    ASSUME NEW S, IsFiniteSet(S)
    PROVE  /\ SetToSeq(S) \in [1..Cardinality(S) -> S] /\ Cardinality(S) \in Nat
           /\ Len(SetToSeq(S)) = Cardinality(S)
           /\ \A s \in S : \E i \in 1..Cardinality(S) : SetToSeq(S)[i] = s
<1> DEFINE n == Cardinality(S)
<1>1. n \in Nat /\ ExistsBijection(1..n, S)
  BY FS_CardinalityType
<1>2. IsFiniteSet(1..n) /\ Cardinality(1..n) = n
  BY <1>1, FS_Interval
<1>3. SetToSeq(S) \in [1..n -> S] /\ IsInjective(SetToSeq(S))
  <2>1. \E f \in [1..n -> S] : IsInjective(f)
    BY <1>1 DEF ExistsBijection, Bijection, Injection
  <2> QED
    BY <2>1 DEF SetToSeq
<1>4. SetToSeq(S) \in Injection(1..n, S)
  BY <1>3 DEF Injection
<1> HIDE DEF n
<1>5. SetToSeq(S) \in Surjection(1..n, S)
  BY <1>2, <1>4, FS_Injection DEF n
<1>6. Len(SetToSeq(S)) = n
  BY <1>1, <1>3
<1> QED
  BY <1>1, <1>3, <1>5, <1>6 DEF Surjection, n

LEMMA MaxOf ==
    ASSUME NEW n \in Nat, NEW S \in SUBSET (0..n), S # {}
    PROVE  Max(S) \in S /\ \A s \in S : Max(S) >= s
<1>1. IsFiniteSet(S)
  <2>1. IsFiniteSet(0 .. n)
    BY FS_Interval
  <2> QED
    BY <2>1, FS_Subset
<1>2. \E x \in S : \A s \in S : x >= s
  BY <1>1, GreatestNumber
<1> QED
  BY <1>2 DEF Max

-------------------------------------------------------------------------------
AccountRows == [code : Codes, active : BOOLEAN]
Ids == 1..MaxAccounts

IsPosting(p) ==
    p = [at |-> p.at, source |-> p.source, rows |-> p.rows, lines |-> p.lines,
         time |-> p.time, logged |-> p.logged]

ChartTyped ==
    /\ DOMAIN accounts \subseteq Ids /\ accounts \in [DOMAIN accounts -> AccountRows]
    /\ edit = [e \in Editors |-> edit[e]]
    /\ \A e \in Editors : edit[e].at = "update" => edit[e].id \in DOMAIN accounts /\ edit[e].code \in Codes
    /\ \A e \in Editors : edit[e].at = "create" => edit[e].code \in Codes

(* What a posting holds: every default account, and its rows are those of  *)
(* the chart, for nobody writes an account that it has written.            *)
HeldRows ==
    posting # Nothing =>
        /\ IsPosting(posting) /\ posting.at \in {"ensured", "posted"}
        /\ DOMAIN posting.rows \subseteq Ids /\ posting.rows \in [DOMAIN posting.rows -> AccountRows]
        /\ \A id \in DOMAIN posting.rows \cap DOMAIN accounts : posting.rows[id].code = accounts[id].code
        /\ \A c \in Defaults : \E id \in DOMAIN posting.rows : posting.rows[id].code = c
        /\ posting.at = "posted" => DOMAIN posting.lines \subseteq DOMAIN accounts \cup DOMAIN posting.rows

LinesKnown == \A e \in journal : DOMAIN e.lines \subseteq DOMAIN accounts

(* While nothing crosses: an edit and a posting are not under way at once, *)
(* what is about to change its code has no lines still, and the lines of a *)
(* posting say what the chart will.                                        *)
Uncrossed ==
    ~crossed =>
        /\ posting # Nothing => \A e \in Editors : edit[e] = Nothing
        /\ \A e \in Editors, f \in journal : edit[e].at = "update" => edit[e].id \notin DOMAIN f.lines
        /\ posting.at = "posted" =>
               \A id \in DOMAIN posting.lines :
                   posting.lines[id] = IF id \in DOMAIN posting.rows THEN posting.rows[id].code ELSE accounts[id].code
        /\ \A e \in journal : \A id \in DOMAIN e.lines : accounts[id].code = e.lines[id]

GlInv == ChartTyped /\ HeldRows /\ LinesKnown /\ Uncrossed /\ SalesPost

LEMMA InitGlInv == GlInit => GlInv
BY DEF GlInit, GlInv, ChartTyped, HeldRows, LinesKnown, Uncrossed, SalesPost, Nothing

(* A new account is numbered behind those there are and those being made.  *)
LEMMA NewNumber ==
    ASSUME GlInv
    PROVE  /\ NextAccount \in Nat \ {0} /\ NextAccount \notin DOMAIN accounts
           /\ \A id \in DOMAIN accounts : NextAccount > id
           /\ posting # Nothing => NextAccount \notin DOMAIN posting.rows
<1> DEFINE there == {0} \cup DOMAIN accounts \cup (IF posting = Nothing THEN {} ELSE DOMAIN posting.rows)
<1>1. MaxAccounts \in Nat
  BY LedgerAssumption
<1>2. there \in SUBSET (0..MaxAccounts) /\ there # {}
  BY <1>1 DEF GlInv, ChartTyped, HeldRows, Ids
<1>3. NextAccount = 1 + Max(there)
  BY DEF NextAccount
<1>4. DOMAIN accounts \subseteq there /\ (posting # Nothing => DOMAIN posting.rows \subseteq there)
  OBVIOUS
<1> HIDE DEF there
<1>5. Max(there) \in there /\ \A s \in there : Max(there) >= s
  BY <1>1, <1>2, MaxOf
<1>6. Max(there) \in Nat /\ \A s \in there : s \in Nat /\ 1 + Max(there) > s
  <2>1. \A s \in there : s \in Nat
    BY <1>1, <1>2
  <2> QED
    BY <1>5, <2>1
<1> QED
  BY <1>3, <1>4, <1>6

(* Ensuring writes every default account, under the number it has or under *)
(* a new one, and leaves the codes of all others alone.                    *)
LEMMA EnsuredRows ==
    ASSUME GlInv
    PROVE  /\ Ensured \in [DOMAIN Ensured -> AccountRows]
           /\ \A id \in DOMAIN Ensured \cap DOMAIN accounts : Ensured[id].code = accounts[id].code
           /\ \A c \in Defaults : \E id \in DOMAIN Ensured : Ensured[id].code = c
<1> DEFINE there == {id \in DOMAIN accounts : accounts[id].code \in Defaults}
           lost == {c \in Defaults : Coded(accounts, c) = {}}
           gone == SetToSeq(lost)
           new == NextAccount..(NextAccount + Len(gone) - 1)
<1>1. IsFiniteSet(lost)
  BY LedgerAssumption, FS_Subset
<1>2. /\ gone \in [1..Cardinality(lost) -> lost] /\ Cardinality(lost) \in Nat /\ Len(gone) = Cardinality(lost)
      /\ \A c \in lost : \E i \in 1..Cardinality(lost) : gone[i] = c
  <2> HIDE DEF lost
  <2> QED
    BY <1>1, SetInSequence
<1>3. Ensured = [id \in there \cup new |->
                   [code |-> IF id \in there THEN accounts[id].code ELSE gone[id + 1 - NextAccount], active |-> TRUE]]
  BY DEF Ensured
<1>4. /\ NextAccount \in Nat /\ \A id \in DOMAIN accounts : NextAccount > id
      /\ DOMAIN accounts \subseteq Nat
  BY NewNumber DEF GlInv, ChartTyped, Ids
<1>5. \A id \in new : id \notin DOMAIN accounts /\ id + 1 - NextAccount \in 1..Cardinality(lost)
  BY <1>2, <1>4
<1>6. \A id \in there : accounts[id].code \in Codes /\ accounts[id].code \in Defaults
  BY LedgerAssumption
<1>7. \A id \in new : id \notin there /\ gone[id + 1 - NextAccount] \in Codes
  BY <1>2, <1>5, LedgerAssumption
<1>8. \A c \in Defaults : \E id \in there \cup new : Ensured[id].code = c
  <2> SUFFICES ASSUME NEW c \in Defaults PROVE \E id \in there \cup new : Ensured[id].code = c
    OBVIOUS
  <2>1. CASE c \in lost
    <3>1. PICK i \in 1..Cardinality(lost) : gone[i] = c
      BY <1>2, <2>1
    <3> DEFINE id == NextAccount + i - 1
    <3>2. id \in new /\ id + 1 - NextAccount = i
      BY <1>2, <1>4, <3>1
    <3> HIDE DEF id, new, gone, there, lost
    <3> QED
      BY <1>3, <1>7, <3>1, <3>2
  <2>2. CASE c \notin lost
    <3>1. PICK id \in DOMAIN accounts : accounts[id].code = c
      BY <2>2 DEF Coded
    <3> QED
      BY <1>3, <3>1
  <2> QED
    BY <2>1, <2>2
<1> HIDE DEF new, gone, lost
<1> QED
  BY <1>3, <1>5, <1>6, <1>7, <1>8 DEF AccountRows

-------------------------------------------------------------------------------
glCore == <<accounts, journal, posting, edit, denied, crossed>>

LEMMA GlCoreKeeps == GlInv /\ UNCHANGED glCore => GlInv'
BY DEF glCore, GlInv, ChartTyped, HeldRows, LinesKnown, Uncrossed, SalesPost

LEMMA PostKeeps == ASSUME GlInv, NEW s \in Sales \cup Manuals, Post(s) PROVE GlInv'
<1>1. /\ posting' = [at |-> "ensured", source |-> s, rows |-> Ensured, lines |-> << >>, time |-> 0, logged |-> FALSE]
      /\ DOMAIN Ensured \subseteq Ids
      /\ crossed' = (crossed \/ \E e \in Editors : edit[e] # Nothing)
      /\ UNCHANGED <<accounts, journal, edit, denied>>
  BY DEF Post, adminVars, Ids
<1>2. HeldRows'
  <2>1. IsPosting(posting') /\ posting'.at = "ensured" /\ posting'.rows = Ensured
    BY <1>1 DEF IsPosting
  <2> HIDE DEF IsPosting
  <2> QED
    BY <1>1, <2>1, EnsuredRows DEF HeldRows
<1>3. Uncrossed'
  BY <1>1 DEF GlInv, Uncrossed
<1> QED
  BY <1>1, <1>2, <1>3 DEF GlInv, ChartTyped, LinesKnown, SalesPost

(* A posting that ends takes its rows back or leaves them in the chart.    *)
LEMMA LaidRows ==
    ASSUME GlInv, posting # Nothing
    PROVE  /\ DOMAIN Laid(posting.rows) \subseteq Ids /\ DOMAIN accounts \subseteq DOMAIN Laid(posting.rows)
           /\ Laid(posting.rows) \in [DOMAIN Laid(posting.rows) -> AccountRows]
           /\ \A id \in DOMAIN accounts : Laid(posting.rows)[id].code = accounts[id].code
           /\ DOMAIN Laid(posting.rows) = DOMAIN accounts \cup DOMAIN posting.rows
           /\ \A id \in DOMAIN posting.rows : Laid(posting.rows)[id] = posting.rows[id]
           /\ \A id \in DOMAIN accounts \ DOMAIN posting.rows : Laid(posting.rows)[id] = accounts[id]
BY DEF Laid, GlInv, ChartTyped, HeldRows

LEMMA EndKeeps ==
    ASSUME GlInv, EntryThere \/ AccountNotFound \/ CommitPosting \/ RollBack
    PROVE  GlInv'
<1>1. posting # Nothing /\ posting' = Nothing /\ UNCHANGED <<edit, crossed>>
  BY DEF EntryThere, AccountNotFound, CommitPosting, RollBack, adminVars, Nothing
<1>2. accounts' = accounts \/ accounts' = Laid(posting.rows)
  BY DEF EntryThere, AccountNotFound, CommitPosting, RollBack
<1>3. /\ DOMAIN accounts \subseteq DOMAIN accounts' /\ DOMAIN accounts' \subseteq Ids
      /\ accounts' \in [DOMAIN accounts' -> AccountRows]
      /\ \A id \in DOMAIN accounts : accounts'[id].code = accounts[id].code
  <2>1. CASE accounts' = accounts
    BY <2>1 DEF GlInv, ChartTyped
  <2>2. CASE accounts' = Laid(posting.rows)
    BY <1>1, <2>2, LaidRows
  <2> QED
    BY <1>2, <2>1, <2>2
<1>4. ChartTyped' /\ HeldRows'
  BY <1>1, <1>3 DEF GlInv, ChartTyped, HeldRows
<1>5. ASSUME NEW e \in journal'
      PROVE  /\ DOMAIN e.lines \subseteq DOMAIN accounts'
             /\ ~crossed => \A id \in DOMAIN e.lines : accounts'[id].code = e.lines[id]
  <2>1. CASE e \in journal
    BY <1>3, <2>1 DEF GlInv, LinesKnown, Uncrossed
  <2>2. CASE e \notin journal
    <3>1. /\ posting.at = "posted" /\ accounts' = Laid(posting.rows)
          /\ e = [source |-> posting.source, at |-> posting.time, lines |-> posting.lines]
      BY <1>5, <2>2 DEF EntryThere, AccountNotFound, CommitPosting, RollBack
    <3>2. e.lines = posting.lines
      BY <3>1
    <3>3. /\ DOMAIN e.lines \subseteq DOMAIN accounts \cup DOMAIN posting.rows
          /\ ~crossed => \A id \in DOMAIN e.lines :
                             e.lines[id] = IF id \in DOMAIN posting.rows THEN posting.rows[id].code ELSE accounts[id].code
      BY <1>1, <3>1, <3>2 DEF GlInv, HeldRows, Uncrossed
    <3> QED
      BY <1>1, <3>1, <3>3, LaidRows
  <2> QED
    BY <2>1, <2>2
<1>6. LinesKnown' /\ Uncrossed'
  <2>1. ~crossed => \A e \in Editors : edit[e] = Nothing
    BY <1>1 DEF GlInv, Uncrossed
  <2>2. Nothing.at # "update"
    BY DEF Nothing
  <2> QED
    BY <1>1, <1>5, <2>1, <2>2 DEF LinesKnown, Uncrossed, Nothing
<1>7. SalesPost'
  <2>1. CASE AccountNotFound
    <3>1. Missing(posting.source) # {} /\ denied' = denied \cup {posting.source}
      BY <2>1 DEF AccountNotFound
    <3>2. posting.source \notin Sales
      <4> SUFFICES ASSUME posting.source \in Sales PROVE FALSE
        OBVIOUS
      <4>1. PICK c \in Defaults : Coded(Laid(posting.rows), c) = {}
        BY <3>1 DEF Missing, PostedCodes
      <4>2. PICK id \in DOMAIN posting.rows : posting.rows[id].code = c
        BY <1>1 DEF GlInv, HeldRows
      <4>3. id \in DOMAIN Laid(posting.rows) /\ Laid(posting.rows)[id] = posting.rows[id]
        BY <4>2 DEF Laid
      <4> QED
        BY <4>1, <4>2, <4>3 DEF Coded
    <3> QED
      BY <3>1, <3>2 DEF GlInv, SalesPost
  <2>2. CASE UNCHANGED denied
    BY <2>2 DEF GlInv, SalesPost
  <2> QED
    BY <2>1, <2>2 DEF EntryThere, CommitPosting, RollBack
<1> QED
  BY <1>4, <1>6, <1>7 DEF GlInv

LEMMA LinesKeep == ASSUME GlInv, CreateLines PROVE GlInv'
<1> DEFINE laid == Laid(posting.rows)
           found == {id \in DOMAIN laid : laid[id].code \in PostedCodes(posting.source)}
<1>1. /\ posting # Nothing /\ UNCHANGED <<accounts, journal, edit, denied, crossed>>
      /\ posting' = [posting EXCEPT !.at = "posted", !.time = glTime, !.lines = [id \in found |-> laid[id].code]]
  BY DEF CreateLines, adminVars, Nothing
<1>2. IsPosting(posting)
  BY <1>1 DEF GlInv, HeldRows
<1>3. /\ IsPosting(posting') /\ posting'.at = "posted" /\ posting'.rows = posting.rows
      /\ posting'.lines = [id \in found |-> laid[id].code] /\ posting' # Nothing
  <2>1. posting' = [at |-> "posted", source |-> posting.source, rows |-> posting.rows,
                    lines |-> [id \in found |-> laid[id].code], time |-> glTime, logged |-> posting.logged]
    <3> HIDE DEF found, laid
    <3> QED
      BY <1>1, <1>2 DEF IsPosting
  <2> HIDE DEF found, laid
  <2> QED
    BY <2>1 DEF IsPosting, Nothing
<1>4. /\ found \subseteq DOMAIN accounts \cup DOMAIN posting.rows
      /\ \A id \in found : laid[id].code = IF id \in DOMAIN posting.rows THEN posting.rows[id].code ELSE accounts[id].code
  BY <1>1, LaidRows
<1> HIDE DEF IsPosting, laid, found
<1>5. HeldRows'
  BY <1>1, <1>3, <1>4 DEF GlInv, HeldRows
<1>6. Uncrossed'
  BY <1>1, <1>3, <1>4 DEF GlInv, Uncrossed
<1> QED
  BY <1>1, <1>5, <1>6 DEF GlInv, ChartTyped, LinesKnown, SalesPost

LEMMA DispatchKeeps == ASSUME GlInv, NEW s, Dispatch(s) PROVE GlInv'
<1>1. UNCHANGED <<accounts, journal, edit, denied, crossed>>
  BY DEF Dispatch, adminVars
<1>2. CASE UNCHANGED posting
  BY <1>1, <1>2, GlCoreKeeps DEF glCore
<1>3. CASE posting' = [posting EXCEPT !.logged = TRUE] /\ posting # Nothing
  <2>1. IsPosting(posting)
    BY <1>3 DEF GlInv, HeldRows
  <2>2. /\ IsPosting(posting') /\ posting'.at = posting.at /\ posting'.rows = posting.rows
        /\ posting'.lines = posting.lines /\ posting' # Nothing
    <3>1. posting' = [at |-> posting.at, source |-> posting.source, rows |-> posting.rows,
                      lines |-> posting.lines, time |-> posting.time, logged |-> TRUE]
      BY <1>3, <2>1 DEF IsPosting
    <3> QED
      BY <3>1 DEF IsPosting, Nothing
  <2> HIDE DEF IsPosting
  <2>4. HeldRows'
    BY <1>1, <1>3, <2>2 DEF GlInv, HeldRows
  <2>5. Uncrossed'
    BY <1>1, <1>3, <2>2 DEF GlInv, Uncrossed
  <2> QED
    BY <1>1, <2>4, <2>5 DEF GlInv, ChartTyped, LinesKnown, SalesPost
<1> QED
  BY <1>2, <1>3 DEF Dispatch

-------------------------------------------------------------------------------
(* Editors ask, and are answered.                                          *)
LEMMA AskKeeps ==
    ASSUME GlInv, NEW e \in Editors, NEW c \in Codes,
           AddAccount(e, c) \/ \E id \in Ids : SaveAccount(e, id, c)
    PROVE  GlInv'
<1>0. \E req :
          /\ AskedOf(e, req)
          /\ req.code \in Codes /\ req.at \in {"update", "create"}
          /\ req.at = "update" => /\ req.id \in DOMAIN accounts
                                  /\ \A f \in journal : req.id \notin DOMAIN f.lines
  <2>1. ASSUME AddAccount(e, c)
        PROVE  AskedOf(e, [at |-> "create", id |-> Coded(accounts, c), code |-> c])
    BY <2>1 DEF AddAccount
  <2>2. ASSUME NEW id \in Ids, SaveAccount(e, id, c)
        PROVE  /\ AskedOf(e, [at |-> "update", id |-> id, code |-> c])
               /\ id \in DOMAIN accounts /\ \A f \in journal : id \notin DOMAIN f.lines
    BY <2>2 DEF SaveAccount, Recodable, LinesOf
  <2>3. CASE AddAccount(e, c)
    BY <2>1, <2>3
  <2>4. CASE \E id \in Ids : SaveAccount(e, id, c)
    <3>1. PICK id \in Ids : SaveAccount(e, id, c)
      BY <2>4
    <3> DEFINE req == [at |-> "update", id |-> id, code |-> c]
    <3>2. /\ AskedOf(e, req) /\ req.id = id /\ req.at = "update" /\ req.code = c
          /\ id \in DOMAIN accounts /\ \A f \in journal : id \notin DOMAIN f.lines
      BY <2>2, <3>1
    <3> HIDE DEF req
    <3> QED
      BY <3>2
  <2> QED
    BY <2>3, <2>4
<1>1. PICK req :
          /\ AskedOf(e, req)
          /\ req.code \in Codes /\ req.at \in {"update", "create"}
          /\ req.at = "update" => /\ req.id \in DOMAIN accounts
                                  /\ \A f \in journal : req.id \notin DOMAIN f.lines
  BY <1>0
<1>2. /\ edit' = [edit EXCEPT ![e] = req] /\ crossed' = (crossed \/ posting # Nothing)
      /\ UNCHANGED <<accounts, journal, posting, denied>>
  BY <1>1 DEF AskedOf
<1>3. \A f \in Editors : edit'[f] = IF f = e THEN req ELSE edit[f]
  BY <1>2 DEF GlInv, ChartTyped
<1>4. ChartTyped'
  BY <1>1, <1>2, <1>3 DEF GlInv, ChartTyped
<1>5. Uncrossed'
  BY <1>1, <1>2, <1>3 DEF GlInv, Uncrossed, Nothing
<1> QED
  BY <1>2, <1>4, <1>5 DEF GlInv, HeldRows, LinesKnown, SalesPost

(* What an answer or a toggle does to the chart: it keeps what a posting   *)
(* holds and, where lines refer to it, the code.                           *)
LEMMA ChartKeeps ==
    ASSUME GlInv, UNCHANGED <<journal, posting, denied, crossed>>,
           DOMAIN accounts \subseteq DOMAIN accounts', DOMAIN accounts' \subseteq Ids,
           accounts' \in [DOMAIN accounts' -> AccountRows],
           edit' = [e \in Editors |-> edit'[e]],
           \A e \in Editors : edit'[e] \in {edit[e], Nothing},
           posting # Nothing =>
               \A id \in DOMAIN posting.rows :
                   /\ id \in DOMAIN accounts' => id \in DOMAIN accounts
                   /\ id \in DOMAIN accounts => accounts'[id].code = accounts[id].code,
           ~crossed =>
               \A id \in DOMAIN accounts :
                   accounts'[id].code # accounts[id].code => posting = Nothing /\ LinesOf(id) = {}
    PROVE  GlInv'
<1>1. ChartTyped'
  BY DEF GlInv, ChartTyped, Nothing
<1>2. LinesKnown' /\ SalesPost'
  BY DEF GlInv, LinesKnown, SalesPost
<1>3. HeldRows'
  <2> SUFFICES ASSUME posting # Nothing
               PROVE  /\ \A id \in DOMAIN posting.rows \cap DOMAIN accounts' : posting.rows[id].code = accounts'[id].code
                      /\ posting.at = "posted" => DOMAIN posting.lines \subseteq DOMAIN accounts' \cup DOMAIN posting.rows
    BY DEF GlInv, HeldRows, IsPosting
  <2>1. ASSUME NEW id \in DOMAIN posting.rows \cap DOMAIN accounts' PROVE posting.rows[id].code = accounts'[id].code
    <3>1. id \in DOMAIN accounts /\ accounts'[id].code = accounts[id].code
      BY <2>1
    <3>2. posting.rows[id].code = accounts[id].code
      BY <2>1, <3>1 DEF GlInv, HeldRows
    <3> QED
      BY <3>1, <3>2
  <2>2. posting.at = "posted" => DOMAIN posting.lines \subseteq DOMAIN accounts \cup DOMAIN posting.rows
    BY DEF GlInv, HeldRows
  <2> QED
    BY <2>1, <2>2
<1>4. Uncrossed'
  <2>1. posting # Nothing /\ ~crossed => \A e \in Editors : edit'[e] = Nothing
    BY DEF GlInv, Uncrossed
  <2>2. ~crossed => \A e \in Editors, f \in journal : edit'[e].at = "update" => edit'[e].id \notin DOMAIN f.lines
    BY DEF GlInv, Uncrossed, Nothing
  <2>3. ASSUME ~crossed, posting.at = "posted", NEW id \in DOMAIN posting.lines
        PROVE  posting.lines[id] = IF id \in DOMAIN posting.rows THEN posting.rows[id].code ELSE accounts'[id].code
    <3>1. posting # Nothing /\ id \in DOMAIN accounts \cup DOMAIN posting.rows
      BY <2>3 DEF GlInv, HeldRows, Nothing
    <3>2. posting.lines[id] = IF id \in DOMAIN posting.rows THEN posting.rows[id].code ELSE accounts[id].code
      BY <2>3 DEF GlInv, Uncrossed
    <3> QED
      BY <2>3, <3>1, <3>2
  <2>4. ASSUME ~crossed, NEW e \in journal, NEW id \in DOMAIN e.lines PROVE accounts'[id].code = e.lines[id]
    <3>1. id \in DOMAIN accounts /\ accounts[id].code = e.lines[id] /\ LinesOf(id) # {}
      BY <2>4 DEF GlInv, LinesKnown, Uncrossed, LinesOf
    <3> QED
      BY <2>4, <3>1
  <2> QED
    BY <2>1, <2>2, <2>3, <2>4 DEF Uncrossed
<1> QED
  BY <1>1, <1>2, <1>3, <1>4 DEF GlInv

LEMMA UpdateAccountKeeps == ASSUME GlInv, NEW e \in Editors, UpdateAccount(e) PROVE GlInv'
<1> DEFINE r == edit[e]
<1>1. /\ r.at = "update" /\ edit' = [edit EXCEPT ![e] = Nothing]
      /\ UNCHANGED <<journal, posting, denied, crossed>> /\ ~Held(r.id)
      /\ r.id \in DOMAIN accounts /\ r.code \in Codes
  BY DEF UpdateAccount, EditDone, GlInv, ChartTyped
<1>2. accounts' = accounts \/ accounts' = [accounts EXCEPT ![r.id].code = r.code]
  BY DEF UpdateAccount
<1>3. edit' = [f \in Editors |-> edit'[f]] /\ \A f \in Editors : edit'[f] \in {edit[f], Nothing}
  BY <1>1 DEF GlInv, ChartTyped
<1>4. /\ DOMAIN accounts' = DOMAIN accounts /\ accounts' \in [DOMAIN accounts -> AccountRows]
      /\ \A id \in DOMAIN accounts : accounts'[id].code # accounts[id].code => id = r.id
  BY <1>1, <1>2 DEF GlInv, ChartTyped, AccountRows
<1>5. ~crossed => LinesOf(r.id) = {} /\ posting = Nothing
  BY <1>1 DEF GlInv, Uncrossed, LinesOf, Nothing
<1>6. DOMAIN accounts \subseteq Ids
  BY DEF GlInv, ChartTyped
<1> HIDE DEF r
<1> QED
  BY <1>1, <1>3, <1>4, <1>5, <1>6, ChartKeeps DEF Held

LEMMA CreateAccountKeeps == ASSUME GlInv, NEW e \in Editors, CreateAccount(e) PROVE GlInv'
<1> DEFINE r == edit[e]
<1>1. /\ r.at = "create" /\ edit' = [edit EXCEPT ![e] = Nothing] /\ r.code \in Codes
      /\ UNCHANGED <<journal, posting, denied, crossed>>
  BY DEF CreateAccount, EditDone, GlInv, ChartTyped
<1>2. edit' = [f \in Editors |-> edit'[f]] /\ \A f \in Editors : edit'[f] \in {edit[f], Nothing}
  BY <1>1 DEF GlInv, ChartTyped
<1>3. /\ DOMAIN accounts \subseteq Ids /\ accounts \in [DOMAIN accounts -> AccountRows]
      /\ NextAccount \notin DOMAIN accounts /\ NextAccount \in Nat \ {0} /\ MaxAccounts \in Nat
      /\ posting # Nothing => NextAccount \notin DOMAIN posting.rows
  BY NewNumber, LedgerAssumption DEF GlInv, ChartTyped
<1>4. CASE accounts' = accounts
  BY <1>1, <1>2, <1>3, <1>4, ChartKeeps
<1>5. CASE accounts' = [id \in DOMAIN accounts |-> IF id \in r.id THEN [accounts[id] EXCEPT !.active = TRUE] ELSE accounts[id]]
  <2>1. /\ DOMAIN accounts' = DOMAIN accounts /\ accounts' \in [DOMAIN accounts -> AccountRows]
        /\ \A id \in DOMAIN accounts : accounts'[id].code = accounts[id].code
    BY <1>3, <1>5 DEF AccountRows
  <2> QED
    BY <1>1, <1>2, <1>3, <2>1, ChartKeeps
<1>6. CASE /\ ~(NextAccount > MaxAccounts)
           /\ accounts' = [id \in DOMAIN accounts \cup {NextAccount} |->
                             IF id = NextAccount THEN [code |-> r.code, active |-> TRUE] ELSE accounts[id]]
  <2>1. /\ DOMAIN accounts' = DOMAIN accounts \cup {NextAccount} /\ accounts' \in [DOMAIN accounts' -> AccountRows]
        /\ \A id \in DOMAIN accounts : accounts'[id] = accounts[id]
    BY <1>1, <1>3, <1>6 DEF AccountRows
  <2>2. NextAccount \in Ids
    BY <1>3, <1>6 DEF Ids
  <2> QED
    BY <1>1, <1>2, <1>3, <2>1, <2>2, ChartKeeps
<1> QED
  BY <1>4, <1>5, <1>6 DEF CreateAccount

LEMMA ToggleKeeps == ASSUME GlInv, NEW i \in Ids, ToggleActive(i) PROVE GlInv'
<1>1. /\ i \in DOMAIN accounts /\ accounts' = [accounts EXCEPT ![i].active = ~@]
      /\ UNCHANGED <<journal, posting, edit, denied, crossed>>
  BY DEF ToggleActive
<1>2. /\ DOMAIN accounts \subseteq Ids /\ accounts \in [DOMAIN accounts -> AccountRows]
      /\ edit = [f \in Editors |-> edit[f]]
  BY DEF GlInv, ChartTyped
<1>3. /\ DOMAIN accounts' = DOMAIN accounts /\ accounts' \in [DOMAIN accounts -> AccountRows]
      /\ \A id \in DOMAIN accounts : accounts'[id].code = accounts[id].code
  <2>1. [accounts[i] EXCEPT !.active = ~@] \in AccountRows /\ [accounts[i] EXCEPT !.active = ~@].code = accounts[i].code
    BY <1>1, <1>2 DEF AccountRows
  <2> QED
    BY <1>1, <1>2, <2>1
<1> QED
  BY <1>1, <1>2, <1>3, ChartKeeps

LEMMA StepGlInv == GlInv /\ [GlNext]_glVars => GlInv'
<1> SUFFICES ASSUME GlInv, [GlNext]_glVars PROVE GlInv'
  OBVIOUS
<1>1. CASE UNCHANGED glCore
  BY <1>1, GlCoreKeeps
<1>2. CASE EntryThere \/ AccountNotFound \/ CommitPosting \/ RollBack
  BY <1>2, EndKeeps
<1>3. CASE \E s \in Sales \cup Manuals : Post(s) \/ Dispatch(s)
  BY <1>3, PostKeeps, DispatchKeeps
<1>4. CASE \E e \in Editors : UpdateAccount(e) \/ CreateAccount(e)
  BY <1>4, UpdateAccountKeeps, CreateAccountKeeps
<1>5. CASE \E e \in Editors, c \in Codes : AddAccount(e, c) \/ \E id \in Ids : SaveAccount(e, id, c)
  BY <1>5, AskKeeps
<1>6. CASE \E id \in Ids : ToggleActive(id) \/ UpsertMapping(id) \/ DeleteMapping(id)
  <2>1. ASSUME NEW id \in Ids, UpsertMapping(id) \/ DeleteMapping(id) PROVE UNCHANGED glCore
    BY <2>1 DEF UpsertMapping, DeleteMapping, glCore
  <2> QED
    BY <1>6, <2>1, ToggleKeeps, GlCoreKeeps
<1>7. CASE StartPaging \/ QueryEntries \/ TimePasses
  <2>1. UNCHANGED glCore
    BY <1>7 DEF StartPaging, QueryEntries, TimePasses, adminVars, glCore
  <2> QED
    BY <2>1, GlCoreKeeps
<1>8. CASE CreateLines
  BY <1>8, LinesKeep
<1>9. UNCHANGED glVars => UNCHANGED glCore
  BY DEF glVars, glCore
<1> QED
  BY <1>1, <1>2, <1>3, <1>4, <1>5, <1>6, <1>7, <1>8, <1>9 DEF GlNext, Ids

(* As long as no account is edited while a posting runs, each line of the  *)
(* journal has the code of its account, whatever is renamed, reopened and  *)
(* posted in turn (updateAccount, postEntry).                              *)
THEOREM LinesKeepTheirCodes == GlSpec => []CodesHold
<1>1. GlInv => CodesHold
  BY DEF GlInv, Uncrossed, CodesHold
<1> QED
  BY <1>1, InitGlInv, StepGlInv, PTL DEF GlSpec

(* No sale is refused for want of an account, whatever is edited before or *)
(* while it is posted: its posting has written every default account, and  *)
(* nobody writes those until it ends (ensureDefaultAccounts).              *)
THEOREM EverySaleFindsItsAccounts == GlSpec => []SalesPost
<1>1. GlInv => SalesPost
  BY DEF GlInv
<1> QED
  BY <1>1, InitGlInv, StepGlInv, PTL DEF GlSpec
-------------------------------------------------------------------------------
(***************************************************************************)
(* The outbox never forgets a row the hub does not have, for any number of *)
(* sales and of pushes at once, and for every size of a batch.             *)
(***************************************************************************)

(* A push is idle, or carries rows; the hub has those it is said to have   *)
(* taken.                                                                  *)
Carries(p) == push[p] = [at |-> push[p].at, rows |-> push[p].rows]
OutboxInv ==
    /\ push = [p \in Pushers |-> push[p]]
    /\ \A p \in Pushers : push[p] = NoPush \/ Carries(p)
    /\ \A p \in Pushers : push[p].at = "taken" => ToSet(push[p].rows) \subseteq hub
    /\ DeliveredIsHad

LEMMA InitOutboxInv == EdgeInit => OutboxInv
BY DEF EdgeInit, OutboxInv, DeliveredIsHad, NoPush

(* Of a push, the steps of the others and of everything else change        *)
(* nothing; the hub only gains rows, and so do those of the dry runs.      *)
LEMMA StepOutboxInv == OutboxInv /\ [EdgeNext]_edgeVars => OutboxInv'
<1> SUFFICES ASSUME OutboxInv, [EdgeNext]_edgeVars PROVE OutboxInv'
  OBVIOUS
<1>1. CASE UNCHANGED edgeVars
  BY <1>1 DEF edgeVars, OutboxInv, Carries, DeliveredIsHad
<1>2. CASE SetEnabled \/ Pull
  BY <1>2 DEF SetEnabled, Pull, OutboxInv, Carries, DeliveredIsHad
<1>7. CASE Redeploy
  BY <1>7 DEF Redeploy, OutboxInv, NoPush, DeliveredIsHad
<1>3. ASSUME NEW s \in Events, Sell(s) \/ Backoff(s) PROVE OutboxInv'
  BY <1>3 DEF Sell, Enqueue, Backoff, OutboxInv, Carries, DeliveredIsHad
<1>4. ASSUME NEW p \in Pushers, RunEdgePush(p) PROVE OutboxInv'
  BY <1>4 DEF RunEdgePush, OutboxInv, Carries, NoPush, DeliveredIsHad
<1>5. ASSUME NEW p \in Pushers, HubTakes(p) \/ HubFails(p) PROVE OutboxInv'
  BY <1>5 DEF HubTakes, HubFails, OutboxInv, Carries, NoPush, DeliveredIsHad
<1>6. ASSUME NEW p \in Pushers, MarkDelivered(p) \/ PutOff(p) \/ TransactionGone(p)
      PROVE OutboxInv'
  BY <1>6 DEF MarkDelivered, PutOff, TransactionGone, Ended, OutboxInv, Carries, NoPush, DeliveredIsHad
<1> QED
  BY <1>1, <1>2, <1>3, <1>4, <1>5, <1>6, <1>7 DEF EdgeNext

(* A row is marked delivered only when the hub has it, whatever fails, or  *)
(* by a dry run, when there is no hub.                                     *)
THEOREM OutboxDelivers == EdgeSpec => []DeliveredIsHad
<1>1. OutboxInv => DeliveredIsHad
  BY DEF OutboxInv
<1> QED
  BY <1>1, InitOutboxInv, StepOutboxInv, PTL DEF EdgeSpec
-------------------------------------------------------------------------------
(***************************************************************************)
(* Hris: a payslip that is settled carries the overtime of its month.      *)
(***************************************************************************)

DayRow == [status : Statuses \cup {"none"}, over : Nat]
IsSlip(s) == s = [status |-> s.status, over |-> s.over, gross |-> s.gross, net |-> s.net]
IsRun(c) ==
    /\ c = [job |-> c.job, who |-> c.who, period |-> c.period, result |-> c.result, old |-> c.old]
    /\ c.who \in Staffers /\ c.period \in Periods /\ IsSlip(c.result)

PayTyped ==
    /\ schedule \in Schedules
    /\ attendance \in [Staffers -> [Days -> DayRow]]
    /\ slip = [e \in Staffers |-> [p \in Periods |-> slip[e][p]]]
    /\ \A e \in Staffers, p \in Periods : slip[e][p] = NoSlip \/ IsSlip(slip[e][p])
    /\ \A c \in payroll : IsRun(c)
    /\ settled \subseteq Staffers \X Periods

(* A calculation that nothing was entered under since it read carries the  *)
(* overtime of its month, and so does a slip that is settled.              *)
UpToDate ==
    /\ \A c \in payroll : c.old \/ c.result.over = Overtime(c.who, c.period)
    /\ \A e \in Staffers, p \in Periods : <<e, p>> \in settled => slip[e][p].over = Overtime(e, p)

PayInv == PayTyped /\ UpToDate

-------------------------------------------------------------------------------
LEMMA MonthsAscend ==
    /\ Periods = 1..Len(MonthEnds) /\ Len(MonthEnds) \in Nat \ {0}
    /\ \A p \in Periods : MonthEnds[p] \in Nat \ {0}
    /\ \A p \in Periods : p # 1 => p - 1 \in Periods /\ MonthEnds[p - 1] < MonthEnds[p]
<1>1. MonthEnds \in Seq(Nat \ {0}) /\ Len(MonthEnds) \in Nat \ {0}
  BY HrisAssumption
<1>2. \A p \in Periods : p # 1 => p - 1 \in 1..(Len(MonthEnds) - 1) /\ MonthEnds[p - 1] < MonthEnds[(p - 1) + 1]
  BY <1>1, HrisAssumption DEF Periods
<1> QED
  BY <1>1, <1>2 DEF Periods

(* The months, from the first day to the last of each, are the days, each  *)
(* of them once: no month is the first with a day missing or twice.        *)
LEMMA MonthsAreDays ==
    ASSUME NEW p \in Periods
    PROVE  /\ MonthRange(p) \subseteq 1..MonthEnds[p] /\ IsFiniteSet(MonthRange(p))
           /\ p = 1 => MonthRange(p) = 1..MonthEnds[p]
           /\ p # 1 => /\ 1..MonthEnds[p] = (1..MonthEnds[p - 1]) \cup MonthRange(p)
                       /\ (1..MonthEnds[p - 1]) \cap MonthRange(p) = {}
<1>1. MonthEnds[p] \in Nat \ {0} /\ (p # 1 => MonthEnds[p - 1] \in Nat \ {0} /\ MonthEnds[p - 1] < MonthEnds[p])
  BY MonthsAscend
<1>2. MonthRange(p) \subseteq 1..MonthEnds[p]
  BY <1>1 DEF MonthRange, First
<1>3. IsFiniteSet(MonthRange(p))
  <2>1. IsFiniteSet(1..MonthEnds[p])
    BY <1>1, FS_Interval
  <2> QED
    BY <1>2, <2>1, FS_Subset
<1> QED
  BY <1>1, <1>2, <1>3 DEF MonthRange, First

LEMMA EndsWithin == \A p \in Periods : 1..MonthEnds[p] \subseteq Days
<1> DEFINE N == Len(MonthEnds)
           Bad == {n \in Nat : n < N /\ ~(MonthEnds[N - n] <= MonthEnds[N])}
<1>1. \A n \in Nat : n < N => N - n \in Periods /\ MonthEnds[N - n] \in Nat
  BY MonthsAscend
<1>2. Bad = {}
  <2> SUFFICES ASSUME Bad # {} PROVE FALSE
    OBVIOUS
  <2>1. PICK n \in Bad : \A m \in Bad : n <= m
    <3>1. Bad \in SUBSET Nat
      OBVIOUS
    <3> HIDE DEF Bad
    <3> QED  BY <3>1, LeastNumber
  <2>2. n # 0 /\ n \in Nat /\ n < N
    BY <1>1, <2>1, MonthsAscend
  <2>3. n - 1 \in Nat /\ n - 1 < N /\ ~(n <= n - 1)
    BY <2>2, MonthsAscend
  <2>4. MonthEnds[N - (n - 1)] <= MonthEnds[N]
    BY <2>1, <2>3
  <2>5. MonthEnds[N - n] < MonthEnds[N - (n - 1)]
    <3>1. N - (n - 1) \in Periods /\ N - (n - 1) # 1 /\ (N - (n - 1)) - 1 = N - n
      BY <1>1, <2>2, <2>3, MonthsAscend
    <3> QED
      BY <3>1, MonthsAscend
  <2>6. MonthEnds[N - n] \in Nat /\ MonthEnds[N - (n - 1)] \in Nat /\ MonthEnds[N] \in Nat
    BY <1>1, <2>2, <2>3, MonthsAscend
  <2>7. MonthEnds[N - n] <= MonthEnds[N]
    BY <2>4, <2>5, <2>6
  <2> QED
    BY <2>1, <2>7
<1>3. ASSUME NEW p \in Periods PROVE MonthEnds[p] <= MonthEnds[N]
  <2>1. N - p \in Nat /\ N - p < N /\ N - (N - p) = p
    BY MonthsAscend
  <2> QED
    BY <1>2, <2>1
<1>4. Days = 1..MonthEnds[N]
  BY DEF Days, Last
<1>5. N \in Periods
  BY MonthsAscend
<1> QED
  BY <1>3, <1>4, <1>5, MonthsAscend

(* The overtime of the months up to one is that of their days.             *)
LEMMA MonthsAddUp ==
    ASSUME NEW f, \A d \in Days : f[d] \in Nat, NEW p \in Periods
    PROVE  SumFunctionOnSet([q \in Periods |-> SumFunctionOnSet(f, MonthRange(q))], 1..p)
             = SumFunctionOnSet(f, 1..MonthEnds[p])
<1> DEFINE month == [q \in Periods |-> SumFunctionOnSet(f, MonthRange(q))]
           Bad == {q \in Periods : SumFunctionOnSet(month, 1..q) # SumFunctionOnSet(f, 1..MonthEnds[q])}
<1>1. ASSUME NEW q \in Periods
      PROVE  /\ 1..MonthEnds[q] \subseteq Days /\ IsFiniteSet(1..MonthEnds[q])
             /\ month[q] = SumFunctionOnSet(f, MonthRange(q)) /\ month[q] \in Nat
  <2>1. 1..MonthEnds[q] \subseteq Days /\ MonthEnds[q] \in Nat
    BY EndsWithin, MonthsAscend
  <2>2. IsFiniteSet(MonthRange(q)) /\ \A d \in MonthRange(q) : f[d] \in Nat
    BY <2>1, MonthsAreDays
  <2> QED
    BY <2>1, <2>2, SumType, FS_Interval
<1>2. SUFFICES ASSUME Bad # {} PROVE FALSE
  OBVIOUS
<1>3. PICK q \in Bad : \A r \in Bad : q <= r
  <2>1. Bad \in SUBSET Nat
    BY MonthsAscend
  <2> HIDE DEF Bad
  <2> QED
    BY <1>2, <2>1, LeastNumber
<1>4. q \in Periods /\ q \in Nat \ {0}
  BY <1>3, MonthsAscend
<1> HIDE DEF month
<1>5. ASSUME NEW r \in Periods
      PROVE  SumFunctionOnSet(month, 1..r) = SumFunctionOnSet(month, 1..(r - 1)) + month[r]
  <2> DEFINE before == 1..(r - 1)
  <2>1. IsFiniteSet(before) /\ r \notin before /\ 1..r = before \cup {r} /\ before \subseteq Periods
    <3>1. r \in Nat \ {0} /\ r - 1 \in Int /\ Periods = 1..Len(MonthEnds) /\ Len(MonthEnds) \in Nat
      BY MonthsAscend
    <3>2. IsFiniteSet(1..(r - 1))
      BY <3>1, FS_Interval
    <3> QED
      BY <3>1, <3>2
  <2>2. month[r] \in Nat /\ \A t \in before : month[t] \in Nat
    BY <1>1, <2>1
  <2> HIDE DEF before
  <2>3. SumFunctionOnSet(month, before \cup {r}) = SumFunctionOnSet(month, before) + month[r]
    BY <2>1, <2>2, SumOfOneMore
  <2> QED
    BY <2>1, <2>3 DEF before
<1>6. CASE q = 1
  <2>1. SumFunctionOnSet(month, 1..q) = SumFunctionOnSet(month, 1..(q - 1)) + month[q]
    BY <1>4, <1>5
  <2>2. SumFunctionOnSet(month, 1..(q - 1)) = 0
    <3>1. 1..(q - 1) = {}
      BY <1>6
    <3> QED
      BY <3>1, SumOfNone
  <2>3. month[q] = SumFunctionOnSet(f, 1..MonthEnds[q]) /\ month[q] \in Nat
    BY <1>1, <1>4, <1>6, MonthsAreDays
  <2> QED
    BY <1>3, <2>1, <2>2, <2>3
<1>7. CASE q # 1
  <2>1. q - 1 \in Periods /\ q - 1 \in Nat /\ (q - 1) + 1 = q /\ ~(q <= q - 1)
    BY <1>4, <1>7, MonthsAscend
  <2>2. SumFunctionOnSet(month, 1..(q - 1)) = SumFunctionOnSet(f, 1..MonthEnds[q - 1])
    BY <1>3, <2>1
  <2>3. SumFunctionOnSet(month, 1..q) = SumFunctionOnSet(month, 1..(q - 1)) + month[q]
    BY <1>4, <1>5
  <2>4. SumFunctionOnSet(f, (1..MonthEnds[q - 1]) \cup MonthRange(q))
          = SumFunctionOnSet(f, 1..MonthEnds[q - 1]) + SumFunctionOnSet(f, MonthRange(q))
    <3> DEFINE before == 1..MonthEnds[q - 1]
    <3>1. /\ IsFiniteSet(before) /\ IsFiniteSet(MonthRange(q)) /\ before \cap MonthRange(q) = {}
          /\ \A d \in before \cup MonthRange(q) : f[d] \in Nat
      BY <1>1, <1>4, <1>7, <2>1, MonthsAreDays
    <3> HIDE DEF before
    <3>2. SumFunctionOnSet(f, before \cup MonthRange(q)) = SumFunctionOnSet(f, before) + SumFunctionOnSet(f, MonthRange(q))
      BY <3>1, SumOfUnion
    <3> QED
      BY <3>2 DEF before
  <2>5. 1..MonthEnds[q] = (1..MonthEnds[q - 1]) \cup MonthRange(q)
    BY <1>4, <1>7, MonthsAreDays
  <2> QED
    BY <1>1, <1>3, <1>4, <2>2, <2>3, <2>4, <2>5
<1> QED
  BY <1>6, <1>7

-------------------------------------------------------------------------------
LEMMA CountedTyped ==
    ASSUME PayTyped, NEW e \in Staffers
    PROVE  /\ \A d \in Days : CountedOver(e)[d] \in Nat
           /\ \A p \in Periods : Overtime(e, p) \in Nat
<1>1. \A d \in Days : CountedOver(e)[d] \in Nat
  BY DEF PayTyped, CountedOver, DayRow
<1>2. ASSUME NEW p \in Periods PROVE Overtime(e, p) \in Nat
  <2>1. IsFiniteSet(MonthRange(p)) /\ \A d \in MonthRange(p) : CountedOver(e)[d] \in Nat
    BY <1>1, MonthsAreDays, EndsWithin
  <2> QED
    BY <2>1, SumType DEF Overtime
<1> QED
  BY <1>1, <1>2

LEMMA InitPayInv == HrisInit => PayInv
<1> SUFFICES ASSUME HrisInit PROVE PayInv
  OBVIOUS
<1>1. NoRow \in DayRow
  BY DEF NoRow, DayRow
<1> QED
  BY <1>1 DEF HrisInit, PayInv, PayTyped, UpToDate

(* What is entered elsewhere than in the attendance leaves the overtime.   *)
LEMMA OvertimeSame == attendance' = attendance => \A e \in Staffers, p \in Periods : Overtime(e, p)' = Overtime(e, p)
BY DEF Overtime, CountedOver

LEMMA ShiftKeeps == ASSUME PayInv, NEW s \in Schedules, SaveShift(s) PROVE PayInv'
<1>1. UNCHANGED <<attendance, slip, payroll, settled>> /\ schedule' \in Schedules
  BY DEF SaveShift
<1>2. \A e \in Staffers, p \in Periods : Overtime(e, p)' = Overtime(e, p)
  BY <1>1, OvertimeSame
<1>3. PayTyped'
  BY <1>1 DEF PayInv, PayTyped
<1>4. UpToDate'
  BY <1>1, <1>2 DEF PayInv, PayTyped, UpToDate, IsRun
<1> QED
  BY <1>3, <1>4 DEF PayInv

(* What is entered for one leaves the calculations of the others.          *)
LEMMA OutdatedRuns ==
    ASSUME PayInv, NEW e \in Staffers, Outdated(e), NEW c \in payroll'
    PROVE  IsRun(c) /\ \E b \in payroll : /\ c.who = b.who /\ c.period = b.period /\ c.result = b.result
                                          /\ c.old <=> b.old \/ b.who = e
<1>1. PICK b \in payroll : c = [b EXCEPT !.old = @ \/ b.who = e]
  BY DEF Outdated
<1>2. IsRun(b)
  BY DEF PayInv, PayTyped
<1> DEFINE now == b.old \/ b.who = e
<1>3. c = [b EXCEPT !.old = now]
  BY <1>1
<1> HIDE DEF now
<1>4. c = [job |-> b.job, who |-> b.who, period |-> b.period, result |-> b.result, old |-> now]
  BY <1>2, <1>3 DEF IsRun
<1>5. IsRun(c) /\ c.who = b.who /\ c.period = b.period /\ c.result = b.result /\ c.old = now
  BY <1>2, <1>4 DEF IsRun
<1> QED
  BY <1>5 DEF now

LEMMA OutdatedKeeps ==
    ASSUME PayInv, NEW e \in Staffers, Outdated(e), UNCHANGED <<schedule, slip>>,
           attendance' \in [Staffers -> [Days -> DayRow]],
           \A f \in Staffers : f # e => attendance'[f] = attendance[f]
    PROVE  PayInv'
<1>1. settled' = {s \in settled : s[1] # e}
  BY DEF Outdated
<1>2. PayTyped'
  BY <1>1, OutdatedRuns DEF PayInv, PayTyped
<1>3. \A f \in Staffers, p \in Periods : f # e => Overtime(f, p)' = Overtime(f, p)
  BY DEF Overtime, CountedOver
<1>4. ASSUME NEW c \in payroll' PROVE c.old \/ c.result.over = Overtime(c.who, c.period)'
  <2>1. PICK b \in payroll : /\ c.who = b.who /\ c.period = b.period /\ c.result = b.result
                             /\ c.old <=> b.old \/ b.who = e
    BY OutdatedRuns
  <2>2. b.who \in Staffers /\ b.period \in Periods /\ (b.old \/ b.result.over = Overtime(b.who, b.period))
    BY DEF PayInv, PayTyped, IsRun, UpToDate
  <2> QED
    BY <1>3, <2>1, <2>2
<1>5. ASSUME NEW f \in Staffers, NEW p \in Periods, <<f, p>> \in settled' PROVE slip'[f][p].over = Overtime(f, p)'
  <2>1. <<f, p>> \in settled /\ f # e
    BY <1>1, <1>5
  <2> QED
    BY <1>3, <2>1 DEF PayInv, UpToDate
<1> QED
  BY <1>2, <1>4, <1>5 DEF PayInv, UpToDate

LEMMA EmployeeKeeps == ASSUME PayInv, NEW e \in Staffers, NEW amount \in Salaries, SaveEmployee(e, amount) PROVE PayInv'
<1>1. Outdated(e) /\ UNCHANGED <<schedule, slip, attendance>>
  BY DEF SaveEmployee
<1>2. attendance \in [Staffers -> [Days -> DayRow]]
  BY DEF PayInv, PayTyped
<1> QED
  BY <1>1, <1>2, OutdatedKeeps

LEMMA AttendanceKeeps ==
    ASSUME PayInv, NEW e \in Staffers, NEW d \in Days, NEW new \in AttendanceRows, SaveAttendance(e, d, new)
    PROVE  PayInv'
<1>1. attendance' = [attendance EXCEPT ![e][d] = new] /\ Outdated(e) /\ UNCHANGED <<schedule, slip>>
  BY DEF SaveAttendance
<1>2. new \in DayRow
  <2> PICK in \in Times, out \in Times, status \in Statuses : new = [status |-> status, over |-> OvertimeOf(in, out)]
    BY DEF AttendanceRows, AttendanceRow
  <2>1. /\ schedule.start \in Nat /\ schedule.end \in Nat /\ schedule.break \in Nat /\ DayUnits \in Nat
        /\ in \in Int /\ out \in Int
    BY HrisAssumption DEF PayInv, PayTyped, Times, NotClocked
  <2>2. OvertimeOf(in, out) \in Nat
    <3>1. Span(schedule) \in Int /\ Standard(schedule) \in Int
      BY <2>1 DEF Span, Standard, Most
    <3>2. Worked(in, out) \in Int
      BY <2>1 DEF Worked
    <3> QED
      BY <3>1, <3>2 DEF OvertimeOf, Most
  <2> QED
    BY <2>2 DEF DayRow
<1>3. /\ attendance' \in [Staffers -> [Days -> DayRow]]
      /\ \A f \in Staffers : f # e => attendance'[f] = attendance[f]
  BY <1>1, <1>2 DEF PayInv, PayTyped
<1> QED
  BY <1>1, <1>3, OutdatedKeeps

LEMMA ClockKeeps == ASSUME PayInv, NEW e \in Staffers, NEW d \in Days, SyncAttendance(e, d) PROVE PayInv'
<1>1. attendance' = [attendance EXCEPT ![e][d].status = "PRESENT"] /\ Outdated(e) /\ UNCHANGED <<schedule, slip>>
  BY DEF SyncAttendance
<1>2. "PRESENT" \in Statuses /\ attendance \in [Staffers -> [Days -> DayRow]]
  BY HrisAssumption DEF PayInv, PayTyped
<1>3. [attendance[e][d] EXCEPT !.status = "PRESENT"] \in DayRow
  BY <1>2 DEF DayRow
<1>4. /\ attendance' \in [Staffers -> [Days -> DayRow]]
      /\ \A f \in Staffers : f # e => attendance'[f] = attendance[f]
  BY <1>1, <1>2, <1>3
<1> QED
  BY <1>1, <1>4, OutdatedKeeps

LEMMA RunKeeps ==
    ASSUME PayInv, NEW j \in Jobs, NEW e \in Staffers, NEW p \in Periods, RunPayroll(j, e, p) PROVE PayInv'
<1> DEFINE run == [job |-> j, who |-> e, period |-> p, result |-> Calculated(e, p), old |-> FALSE]
<1>1. payroll' = payroll \cup {run} /\ UNCHANGED <<schedule, attendance, slip, settled>>
  BY DEF RunPayroll
<1>2. IsSlip(Calculated(e, p)) /\ Calculated(e, p).over = Overtime(e, p)
  BY DEF Calculated, IsSlip
<1>3. /\ IsRun(run) /\ run.who = e /\ run.period = p /\ run.result.over = Overtime(e, p)
  BY <1>2 DEF IsRun
<1> HIDE DEF run
<1>4. \A f \in Staffers, q \in Periods : Overtime(f, q)' = Overtime(f, q)
  BY <1>1, OvertimeSame
<1>5. PayTyped'
  BY <1>1, <1>3 DEF PayInv, PayTyped
<1>6. ASSUME NEW c \in payroll' PROVE c.old \/ c.result.over = Overtime(c.who, c.period)'
  <2>1. CASE c = run
    BY <1>3, <1>4, <2>1
  <2>2. CASE c # run
    BY <1>1, <1>4, <2>2 DEF PayInv, PayTyped, UpToDate, IsRun
  <2> QED
    BY <2>1, <2>2
<1>7. \A f \in Staffers, q \in Periods : <<f, q>> \in settled' => slip'[f][q].over = Overtime(f, q)'
  BY <1>1, <1>4 DEF PayInv, UpToDate
<1> QED
  BY <1>5, <1>6, <1>7 DEF PayInv, UpToDate

(* A slip is written as it was calculated; it is settled if nothing was    *)
(* entered meanwhile, and not any more if an older calculation comes late. *)
LEMMA UpsertKeeps == ASSUME PayInv, NEW c \in payroll, UpsertSlip(c) PROVE PayInv'
<1> DEFINE e == c.who
           p == c.period
<1>1. /\ e \in Staffers /\ p \in Periods /\ IsSlip(c.result)
      /\ c.old \/ c.result.over = Overtime(e, p)
      /\ payroll' = payroll \ {c} /\ slip' = [slip EXCEPT ![e][p] = c.result]
      /\ settled' = IF c.old THEN settled \ {<<e, p>>} ELSE settled \cup {<<e, p>>}
      /\ UNCHANGED <<schedule, attendance>>
  BY DEF UpsertSlip, PayInv, PayTyped, UpToDate, IsRun
<1>2. \A f \in Staffers, q \in Periods : Overtime(f, q)' = Overtime(f, q)
  BY <1>1, OvertimeSame
<1>3. /\ slip' = [f \in Staffers |-> [q \in Periods |-> slip'[f][q]]]
      /\ \A f \in Staffers, q \in Periods : slip'[f][q] = IF f = e /\ q = p THEN c.result ELSE slip[f][q]
  <2>1. slip = [f \in Staffers |-> [q \in Periods |-> slip[f][q]]]
    BY DEF PayInv, PayTyped
  <2> HIDE DEF e, p
  <2> QED
    BY <1>1, <2>1
<1>4. PayTyped'
  BY <1>1, <1>3 DEF PayInv, PayTyped
<1>5. \A d \in payroll' : d \in payroll /\ d.who \in Staffers /\ d.period \in Periods
  BY <1>1 DEF PayInv, PayTyped, IsRun
<1> HIDE DEF e, p
<1>6. \A d \in payroll' : d.old \/ d.result.over = Overtime(d.who, d.period)'
  BY <1>2, <1>5 DEF PayInv, UpToDate
<1>7. ASSUME NEW f \in Staffers, NEW q \in Periods, <<f, q>> \in settled' PROVE slip'[f][q].over = Overtime(f, q)'
  <2>1. CASE f = e /\ q = p
    BY <1>1, <1>2, <1>3, <1>7, <2>1
  <2>2. CASE ~(f = e /\ q = p)
    <3>1. <<f, q>> \in settled /\ slip'[f][q] = slip[f][q]
      BY <1>1, <1>3, <1>7, <2>2
    <3> QED
      BY <1>2, <3>1 DEF PayInv, UpToDate
  <2> QED
    BY <2>1, <2>2
<1> QED
  BY <1>4, <1>6, <1>7 DEF PayInv, UpToDate

LEMMA FinalizeKeeps == ASSUME PayInv, NEW e \in Staffers, NEW p \in Periods, FinalizeSlip(e, p) PROVE PayInv'
<1>1. /\ slip' = [slip EXCEPT ![e][p].status = "FINALIZED"] /\ slip[e][p].status = "DRAFT"
      /\ UNCHANGED <<schedule, attendance, payroll, settled>>
  BY DEF FinalizeSlip
<1>2. /\ slip = [f \in Staffers |-> [q \in Periods |-> slip[f][q]]]
      /\ IsSlip(slip[e][p])
  BY <1>1 DEF PayInv, PayTyped, NoSlip
<1> DEFINE new == [slip[e][p] EXCEPT !.status = "FINALIZED"]
<1>3. IsSlip(new) /\ new.over = slip[e][p].over
  BY <1>2 DEF IsSlip
<1>4. /\ slip' = [f \in Staffers |-> [q \in Periods |-> slip'[f][q]]]
      /\ \A f \in Staffers, q \in Periods : slip'[f][q] = IF f = e /\ q = p THEN new ELSE slip[f][q]
  <2>1. slip' = [slip EXCEPT ![e][p] = new]
    BY <1>1
  <2> HIDE DEF new
  <2> QED
    BY <1>2, <2>1
<1> HIDE DEF new
<1>5. \A f \in Staffers, q \in Periods : slip'[f][q].over = slip[f][q].over
  BY <1>3, <1>4
<1>6. \A f \in Staffers, q \in Periods : Overtime(f, q)' = Overtime(f, q)
  BY <1>1, OvertimeSame
<1>7. PayTyped'
  BY <1>1, <1>3, <1>4 DEF PayInv, PayTyped
<1>8. UpToDate'
  BY <1>1, <1>5, <1>6 DEF PayInv, PayTyped, UpToDate, IsRun
<1> QED
  BY <1>7, <1>8 DEF PayInv

LEMMA StepPayInv == PayInv /\ [HrisNext]_hrisVars => PayInv'
<1>1. PayInv /\ UNCHANGED hrisVars => PayInv'
  <2> SUFFICES ASSUME PayInv, UNCHANGED hrisVars PROVE PayInv'
    OBVIOUS
  <2>1. \A f \in Staffers, q \in Periods : Overtime(f, q)' = Overtime(f, q)
    BY OvertimeSame DEF hrisVars
  <2>2. PayTyped'
    BY DEF hrisVars, PayInv, PayTyped
  <2>3. UpToDate'
    BY <2>1 DEF hrisVars, PayInv, PayTyped, UpToDate, IsRun
  <2> QED
    BY <2>2, <2>3 DEF PayInv
<1> QED
  BY <1>1, ShiftKeeps, EmployeeKeeps, AttendanceKeeps, ClockKeeps, RunKeeps, UpsertKeeps, FinalizeKeeps DEF HrisNext

LEMMA PaidOnceSettled == PayInv => OvertimePaidOnce
<1> SUFFICES ASSUME PayInv, NEW e \in Staffers, \A p \in Periods : <<e, p>> \in settled
             PROVE  SumFunctionOnSet([p \in Periods |-> slip[e][p].over], Periods)
                      = SumFunctionOnSet(CountedOver(e), Days)
  BY DEF OvertimePaidOnce
<1> DEFINE f == CountedOver(e)
<1>1. /\ \A d \in Days : f[d] \in Nat
      /\ [p \in Periods |-> slip[e][p].over] = [p \in Periods |-> SumFunctionOnSet(f, MonthRange(p))]
  BY CountedTyped DEF PayInv, UpToDate, Overtime
<1>2. /\ Len(MonthEnds) \in Periods /\ Periods = 1..Len(MonthEnds) /\ Days = 1..MonthEnds[Len(MonthEnds)]
  BY MonthsAscend DEF Days, Last
<1> HIDE DEF f
<1>3. SumFunctionOnSet([p \in Periods |-> SumFunctionOnSet(f, MonthRange(p))], 1..Len(MonthEnds))
        = SumFunctionOnSet(f, 1..MonthEnds[Len(MonthEnds)])
  BY <1>1, <1>2, MonthsAddUp
<1> QED
  BY <1>1, <1>2, <1>3 DEF f

(* Every unit of overtime is paid once: the slips of an employee, when all *)
(* are of calculations that read the attendance as it is, carry what the   *)
(* days do, for every calendar, however many calculations overlap and      *)
(* whatever is corrected while they run (monthRange, calculateForEmployee).*)
THEOREM OvertimeIsPaidOnce == HrisSpec => []OvertimePaidOnce
BY PaidOnceSettled, InitPayInv, StepPayInv, PTL DEF HrisSpec
-------------------------------------------------------------------------------
(***************************************************************************)
(* The seed: each step stands after the step whose rows it looks for, and  *)
(* sizes without extras are those of the run under way or of a torn one.   *)
(***************************************************************************)

SeedNames ==
    {"tenant", "settings", "staff", "stores", "demo-b", "categories", "items", "sizes", "extras",
     "customer", "stock", "prices", "areas", "tables", "stations", "ingredients", "menu", "recipes",
     "assignments", "variants", "variant stock", "accounts", "manager", "work shifts", "employees",
     "attendance", "sales summaries", "product summaries"}


(* A sequence that is one after the other.                                 *)
Joins(u, s, t) ==
    /\ u \in Seq(SeedNames) /\ Len(u) = Len(s) + Len(t)
    /\ \A i \in 1 .. Len(s) : u[i] = s[i]
    /\ \A i \in 1 .. Len(t) : u[Len(s) + i] = t[i]

LEMMA Joined == ASSUME NEW s \in Seq(SeedNames), NEW t \in Seq(SeedNames) PROVE Joins(s \o t, s, t)
BY DEF Joins

LEMMA Blocks ==
    /\ MainSteps \in Seq(SeedNames) /\ Len(MainSteps) = 5
    /\ PosCatalogSteps \in Seq(SeedNames) /\ Len(PosCatalogSteps) = 7
    /\ DiningSteps \in Seq(SeedNames) /\ Len(DiningSteps) = 2
    /\ RecipesAndKitchenSteps \in Seq(SeedNames) /\ Len(RecipesAndKitchenSteps) = 5
    /\ VariantsAndGlSteps \in Seq(SeedNames) /\ Len(VariantsAndGlSteps) = 3
    /\ HrisSteps \in Seq(SeedNames) /\ Len(HrisSteps) = 4
    /\ AnalyticsSteps \in Seq(SeedNames) /\ Len(AnalyticsSteps) = 2
<1>1. MainSteps \in Seq(SeedNames) /\ Len(MainSteps) = 5
  BY DEF MainSteps, SeedNames
<1>2. PosCatalogSteps \in Seq(SeedNames) /\ Len(PosCatalogSteps) = 7
  BY DEF PosCatalogSteps, SeedNames
<1>3. DiningSteps \in Seq(SeedNames) /\ Len(DiningSteps) = 2
  BY DEF DiningSteps, SeedNames
<1>4. RecipesAndKitchenSteps \in Seq(SeedNames) /\ Len(RecipesAndKitchenSteps) = 5
  BY DEF RecipesAndKitchenSteps, SeedNames
<1>5. VariantsAndGlSteps \in Seq(SeedNames) /\ Len(VariantsAndGlSteps) = 3
  BY DEF VariantsAndGlSteps, SeedNames
<1>6. HrisSteps \in Seq(SeedNames) /\ Len(HrisSteps) = 4
  BY DEF HrisSteps, SeedNames
<1>7. AnalyticsSteps \in Seq(SeedNames) /\ Len(AnalyticsSteps) = 2
  BY DEF AnalyticsSteps, SeedNames
<1> QED
  BY <1>1, <1>2, <1>3, <1>4, <1>5, <1>6, <1>7

LEMMA OrderIs ==
    /\ Order \in Seq(SeedNames) /\ Len(Order) = 28
    /\ Order[1] = "tenant" /\ Order[2] = "settings" /\ Order[3] = "staff"
    /\ Order[4] = "stores" /\ Order[5] = "demo-b"
    /\ Order[6] = "categories" /\ Order[7] = "items" /\ Order[8] = "sizes"
    /\ Order[9] = "extras" /\ Order[10] = "customer" /\ Order[11] = "stock"
    /\ Order[12] = "prices"
    /\ Order[13] = "areas" /\ Order[14] = "tables"
    /\ Order[15] = "stations" /\ Order[16] = "ingredients" /\ Order[17] = "menu"
    /\ Order[18] = "recipes" /\ Order[19] = "assignments"
    /\ Order[20] = "variants" /\ Order[21] = "variant stock" /\ Order[22] = "accounts"
    /\ Order[23] = "manager" /\ Order[24] = "work shifts" /\ Order[25] = "employees"
    /\ Order[26] = "attendance"
    /\ Order[27] = "sales summaries" /\ Order[28] = "product summaries"
<1> DEFINE a == MainSteps \o PosCatalogSteps
           b == a \o DiningSteps
           c == b \o RecipesAndKitchenSteps
           d == c \o VariantsAndGlSteps
           e == d \o HrisSteps
           f == e \o AnalyticsSteps
<1>0. Order = f
  BY DEF Order
<1>1. a \in Seq(SeedNames) /\ Len(a) = 12
  <2>1. Joins(a, MainSteps, PosCatalogSteps)
    BY ONLY Blocks, Joined DEF a
  <2> HIDE DEF a
  <2> QED
    BY ONLY <2>1, Blocks DEF Joins
<1>2. (\A i \in 1 .. 5 : a[i] = MainSteps[i]) /\ \A i \in 1 .. 7 : a[5 + i] = PosCatalogSteps[i]
  <2>1. Joins(a, MainSteps, PosCatalogSteps)
    BY ONLY Blocks, Joined DEF a
  <2> HIDE DEF a
  <2> QED
    BY ONLY <2>1, Blocks DEF Joins
<1>3. b \in Seq(SeedNames) /\ Len(b) = 14
  <2>1. Joins(b, a, DiningSteps)
    BY ONLY <1>1, Blocks, Joined DEF b
  <2> HIDE DEF b
  <2> QED
    BY ONLY <1>1, <2>1, Blocks DEF Joins
<1>4. (\A i \in 1 .. 12 : b[i] = a[i]) /\ \A i \in 1 .. 2 : b[12 + i] = DiningSteps[i]
  <2>1. Joins(b, a, DiningSteps)
    BY ONLY <1>1, Blocks, Joined DEF b
  <2> HIDE DEF b
  <2> QED
    BY ONLY <1>1, <2>1, Blocks DEF Joins
<1>5. c \in Seq(SeedNames) /\ Len(c) = 19
  <2>1. Joins(c, b, RecipesAndKitchenSteps)
    BY ONLY <1>3, Blocks, Joined DEF c
  <2> HIDE DEF c
  <2> QED
    BY ONLY <1>3, <2>1, Blocks DEF Joins
<1>6. (\A i \in 1 .. 14 : c[i] = b[i]) /\ \A i \in 1 .. 5 : c[14 + i] = RecipesAndKitchenSteps[i]
  <2>1. Joins(c, b, RecipesAndKitchenSteps)
    BY ONLY <1>3, Blocks, Joined DEF c
  <2> HIDE DEF c
  <2> QED
    BY ONLY <1>3, <2>1, Blocks DEF Joins
<1>7. d \in Seq(SeedNames) /\ Len(d) = 22
  <2>1. Joins(d, c, VariantsAndGlSteps)
    BY ONLY <1>5, Blocks, Joined DEF d
  <2> HIDE DEF d
  <2> QED
    BY ONLY <1>5, <2>1, Blocks DEF Joins
<1>8. (\A i \in 1 .. 19 : d[i] = c[i]) /\ \A i \in 1 .. 3 : d[19 + i] = VariantsAndGlSteps[i]
  <2>1. Joins(d, c, VariantsAndGlSteps)
    BY ONLY <1>5, Blocks, Joined DEF d
  <2> HIDE DEF d
  <2> QED
    BY ONLY <1>5, <2>1, Blocks DEF Joins
<1>9. e \in Seq(SeedNames) /\ Len(e) = 26
  <2>1. Joins(e, d, HrisSteps)
    BY ONLY <1>7, Blocks, Joined DEF e
  <2> HIDE DEF e
  <2> QED
    BY ONLY <1>7, <2>1, Blocks DEF Joins
<1>10. (\A i \in 1 .. 22 : e[i] = d[i]) /\ \A i \in 1 .. 4 : e[22 + i] = HrisSteps[i]
  <2>1. Joins(e, d, HrisSteps)
    BY ONLY <1>7, Blocks, Joined DEF e
  <2> HIDE DEF e
  <2> QED
    BY ONLY <1>7, <2>1, Blocks DEF Joins
<1>11. f \in Seq(SeedNames) /\ Len(f) = 28
  <2>1. Joins(f, e, AnalyticsSteps)
    BY ONLY <1>9, Blocks, Joined DEF f
  <2> HIDE DEF f
  <2> QED
    BY ONLY <1>9, <2>1, Blocks DEF Joins
<1>12. (\A i \in 1 .. 26 : f[i] = e[i]) /\ \A i \in 1 .. 2 : f[26 + i] = AnalyticsSteps[i]
  <2>1. Joins(f, e, AnalyticsSteps)
    BY ONLY <1>9, Blocks, Joined DEF f
  <2> HIDE DEF f
  <2> QED
    BY ONLY <1>9, <2>1, Blocks DEF Joins
<1> HIDE DEF a, b, c, d, e, f
<1>13. /\ f[1] = "tenant" /\ f[2] = "settings" /\ f[3] = "staff" /\ f[4] = "stores"
      /\ f[5] = "demo-b"
  <2>1. /\ MainSteps[1] = "tenant" /\ MainSteps[2] = "settings" /\ MainSteps[3] = "staff"
        /\ MainSteps[4] = "stores" /\ MainSteps[5] = "demo-b"
    BY DEF MainSteps
  <2>2. /\ a[1] = MainSteps[1] /\ a[2] = MainSteps[2] /\ a[3] = MainSteps[3]
        /\ a[4] = MainSteps[4] /\ a[5] = MainSteps[5]
    BY ONLY <1>2
  <2>4. /\ b[1] = a[1] /\ b[2] = a[2] /\ b[3] = a[3] /\ b[4] = a[4] /\ b[5] = a[5]
    BY ONLY <1>4
  <2>5. /\ c[1] = b[1] /\ c[2] = b[2] /\ c[3] = b[3] /\ c[4] = b[4] /\ c[5] = b[5]
    BY ONLY <1>6
  <2>6. /\ d[1] = c[1] /\ d[2] = c[2] /\ d[3] = c[3] /\ d[4] = c[4] /\ d[5] = c[5]
    BY ONLY <1>8
  <2>7. /\ e[1] = d[1] /\ e[2] = d[2] /\ e[3] = d[3] /\ e[4] = d[4] /\ e[5] = d[5]
    BY ONLY <1>10
  <2>8. /\ f[1] = e[1] /\ f[2] = e[2] /\ f[3] = e[3] /\ f[4] = e[4] /\ f[5] = e[5]
    BY ONLY <1>12
  <2> QED
    BY ONLY <2>1, <2>2, <2>4, <2>5, <2>6, <2>7, <2>8
<1>14. /\ f[6] = "categories" /\ f[7] = "items" /\ f[8] = "sizes" /\ f[9] = "extras"
      /\ f[10] = "customer" /\ f[11] = "stock" /\ f[12] = "prices"
  <2>1. /\ PosCatalogSteps[1] = "categories" /\ PosCatalogSteps[2] = "items"
        /\ PosCatalogSteps[3] = "sizes" /\ PosCatalogSteps[4] = "extras"
        /\ PosCatalogSteps[5] = "customer" /\ PosCatalogSteps[6] = "stock"
        /\ PosCatalogSteps[7] = "prices"
    BY DEF PosCatalogSteps
  <2>2. /\ a[5 + 1] = PosCatalogSteps[1] /\ a[5 + 2] = PosCatalogSteps[2]
        /\ a[5 + 3] = PosCatalogSteps[3] /\ a[5 + 4] = PosCatalogSteps[4]
        /\ a[5 + 5] = PosCatalogSteps[5] /\ a[5 + 6] = PosCatalogSteps[6]
        /\ a[5 + 7] = PosCatalogSteps[7]
    BY ONLY <1>2
  <2>3. /\ a[6] = PosCatalogSteps[1] /\ a[7] = PosCatalogSteps[2]
        /\ a[8] = PosCatalogSteps[3] /\ a[9] = PosCatalogSteps[4]
        /\ a[10] = PosCatalogSteps[5] /\ a[11] = PosCatalogSteps[6]
        /\ a[12] = PosCatalogSteps[7]
    BY ONLY <2>2
  <2>4. /\ b[6] = a[6] /\ b[7] = a[7] /\ b[8] = a[8] /\ b[9] = a[9] /\ b[10] = a[10]
        /\ b[11] = a[11] /\ b[12] = a[12]
    BY ONLY <1>4
  <2>5. /\ c[6] = b[6] /\ c[7] = b[7] /\ c[8] = b[8] /\ c[9] = b[9] /\ c[10] = b[10]
        /\ c[11] = b[11] /\ c[12] = b[12]
    BY ONLY <1>6
  <2>6. /\ d[6] = c[6] /\ d[7] = c[7] /\ d[8] = c[8] /\ d[9] = c[9] /\ d[10] = c[10]
        /\ d[11] = c[11] /\ d[12] = c[12]
    BY ONLY <1>8
  <2>7. /\ e[6] = d[6] /\ e[7] = d[7] /\ e[8] = d[8] /\ e[9] = d[9] /\ e[10] = d[10]
        /\ e[11] = d[11] /\ e[12] = d[12]
    BY ONLY <1>10
  <2>8. /\ f[6] = e[6] /\ f[7] = e[7] /\ f[8] = e[8] /\ f[9] = e[9] /\ f[10] = e[10]
        /\ f[11] = e[11] /\ f[12] = e[12]
    BY ONLY <1>12
  <2> QED
    BY ONLY <2>1, <2>3, <2>4, <2>5, <2>6, <2>7, <2>8
<1>15. /\ f[13] = "areas" /\ f[14] = "tables"
  <2>1. /\ DiningSteps[1] = "areas" /\ DiningSteps[2] = "tables"
    BY DEF DiningSteps
  <2>2. /\ b[12 + 1] = DiningSteps[1] /\ b[12 + 2] = DiningSteps[2]
    BY ONLY <1>4
  <2>3. /\ b[13] = DiningSteps[1] /\ b[14] = DiningSteps[2]
    BY ONLY <2>2
  <2>4. /\ c[13] = b[13] /\ c[14] = b[14]
    BY ONLY <1>6
  <2>5. /\ d[13] = c[13] /\ d[14] = c[14]
    BY ONLY <1>8
  <2>6. /\ e[13] = d[13] /\ e[14] = d[14]
    BY ONLY <1>10
  <2>7. /\ f[13] = e[13] /\ f[14] = e[14]
    BY ONLY <1>12
  <2> QED
    BY ONLY <2>1, <2>3, <2>4, <2>5, <2>6, <2>7
<1>16. /\ f[15] = "stations" /\ f[16] = "ingredients" /\ f[17] = "menu" /\ f[18] = "recipes"
      /\ f[19] = "assignments"
  <2>1. /\ RecipesAndKitchenSteps[1] = "stations"
        /\ RecipesAndKitchenSteps[2] = "ingredients" /\ RecipesAndKitchenSteps[3] = "menu"
        /\ RecipesAndKitchenSteps[4] = "recipes"
        /\ RecipesAndKitchenSteps[5] = "assignments"
    BY DEF RecipesAndKitchenSteps
  <2>2. /\ c[14 + 1] = RecipesAndKitchenSteps[1] /\ c[14 + 2] = RecipesAndKitchenSteps[2]
        /\ c[14 + 3] = RecipesAndKitchenSteps[3] /\ c[14 + 4] = RecipesAndKitchenSteps[4]
        /\ c[14 + 5] = RecipesAndKitchenSteps[5]
    BY ONLY <1>6
  <2>3. /\ c[15] = RecipesAndKitchenSteps[1] /\ c[16] = RecipesAndKitchenSteps[2]
        /\ c[17] = RecipesAndKitchenSteps[3] /\ c[18] = RecipesAndKitchenSteps[4]
        /\ c[19] = RecipesAndKitchenSteps[5]
    BY ONLY <2>2
  <2>4. /\ d[15] = c[15] /\ d[16] = c[16] /\ d[17] = c[17] /\ d[18] = c[18]
        /\ d[19] = c[19]
    BY ONLY <1>8
  <2>5. /\ e[15] = d[15] /\ e[16] = d[16] /\ e[17] = d[17] /\ e[18] = d[18]
        /\ e[19] = d[19]
    BY ONLY <1>10
  <2>6. /\ f[15] = e[15] /\ f[16] = e[16] /\ f[17] = e[17] /\ f[18] = e[18]
        /\ f[19] = e[19]
    BY ONLY <1>12
  <2> QED
    BY ONLY <2>1, <2>3, <2>4, <2>5, <2>6
<1>17. /\ f[20] = "variants" /\ f[21] = "variant stock" /\ f[22] = "accounts"
  <2>1. /\ VariantsAndGlSteps[1] = "variants" /\ VariantsAndGlSteps[2] = "variant stock"
        /\ VariantsAndGlSteps[3] = "accounts"
    BY DEF VariantsAndGlSteps
  <2>2. /\ d[19 + 1] = VariantsAndGlSteps[1] /\ d[19 + 2] = VariantsAndGlSteps[2]
        /\ d[19 + 3] = VariantsAndGlSteps[3]
    BY ONLY <1>8
  <2>3. /\ d[20] = VariantsAndGlSteps[1] /\ d[21] = VariantsAndGlSteps[2]
        /\ d[22] = VariantsAndGlSteps[3]
    BY ONLY <2>2
  <2>4. /\ e[20] = d[20] /\ e[21] = d[21] /\ e[22] = d[22]
    BY ONLY <1>10
  <2>5. /\ f[20] = e[20] /\ f[21] = e[21] /\ f[22] = e[22]
    BY ONLY <1>12
  <2> QED
    BY ONLY <2>1, <2>3, <2>4, <2>5
<1>18. /\ f[23] = "manager" /\ f[24] = "work shifts" /\ f[25] = "employees"
      /\ f[26] = "attendance"
  <2>1. /\ HrisSteps[1] = "manager" /\ HrisSteps[2] = "work shifts"
        /\ HrisSteps[3] = "employees" /\ HrisSteps[4] = "attendance"
    BY DEF HrisSteps
  <2>2. /\ e[22 + 1] = HrisSteps[1] /\ e[22 + 2] = HrisSteps[2] /\ e[22 + 3] = HrisSteps[3]
        /\ e[22 + 4] = HrisSteps[4]
    BY ONLY <1>10
  <2>3. /\ e[23] = HrisSteps[1] /\ e[24] = HrisSteps[2] /\ e[25] = HrisSteps[3]
        /\ e[26] = HrisSteps[4]
    BY ONLY <2>2
  <2>4. /\ f[23] = e[23] /\ f[24] = e[24] /\ f[25] = e[25] /\ f[26] = e[26]
    BY ONLY <1>12
  <2> QED
    BY ONLY <2>1, <2>3, <2>4
<1>19. /\ f[27] = "sales summaries" /\ f[28] = "product summaries"
  <2>1. /\ AnalyticsSteps[1] = "sales summaries" /\ AnalyticsSteps[2] = "product summaries"
    BY DEF AnalyticsSteps
  <2>2. /\ f[26 + 1] = AnalyticsSteps[1] /\ f[26 + 2] = AnalyticsSteps[2]
    BY ONLY <1>12
  <2>3. /\ f[27] = AnalyticsSteps[1] /\ f[28] = AnalyticsSteps[2]
    BY ONLY <2>2
  <2> QED
    BY ONLY <2>1, <2>3
<1> QED
  BY ONLY <1>0, <1>11, <1>13, <1>14, <1>15, <1>16, <1>17, <1>18, <1>19

LEMMA OrderHas ==
    /\ Order[1] = "tenant" /\ Order[2] = "settings" /\ Order[3] = "staff"
    /\ Order[4] = "stores" /\ Order[5] = "demo-b"
    /\ Order[6] = "categories" /\ Order[7] = "items" /\ Order[8] = "sizes"
    /\ Order[9] = "extras" /\ Order[10] = "customer" /\ Order[11] = "stock"
    /\ Order[12] = "prices"
    /\ Order[13] = "areas" /\ Order[14] = "tables"
    /\ Order[15] = "stations" /\ Order[16] = "ingredients" /\ Order[17] = "menu"
    /\ Order[18] = "recipes" /\ Order[19] = "assignments"
    /\ Order[20] = "variants" /\ Order[21] = "variant stock" /\ Order[22] = "accounts"
    /\ Order[23] = "manager" /\ Order[24] = "work shifts" /\ Order[25] = "employees"
    /\ Order[26] = "attendance"
    /\ Order[27] = "sales summaries" /\ Order[28] = "product summaries"
BY OrderIs

(* What a step looks for stands before it.                                 *)
LEMMA LookedFor ==
    \A i \in 1 .. 28 :
        /\ Order[i] \in {"ingredients", "menu", "recipes", "assignments"} => i > 6
        /\ Order[i] \in {"areas", "tables", "stations", "sales summaries", "product summaries"} => i > 4
        /\ Order[i] \in {"variants", "variant stock", "sizes"} => i > 7
        /\ Order[i] = "sizes" => i = 8
        /\ Order[i] = "extras" => i = 9
<1>1. \A i \in 1 .. 28 : i \in 1 .. 14 \/ i \in 15 .. 28
  OBVIOUS
<1>2. \A i \in 1 .. 14 :
          \/ i = 1 \/ i = 2 \/ i = 3 \/ i = 4 \/ i = 5 \/ i = 6 \/ i = 7
          \/ i = 8 \/ i = 9 \/ i = 10 \/ i = 11 \/ i = 12 \/ i = 13 \/ i = 14
  OBVIOUS
<1>3. \A i \in 15 .. 28 :
          \/ i = 15 \/ i = 16 \/ i = 17 \/ i = 18 \/ i = 19 \/ i = 20 \/ i = 21
          \/ i = 22 \/ i = 23 \/ i = 24 \/ i = 25 \/ i = 26 \/ i = 27 \/ i = 28
  OBVIOUS
<1>4. \A i \in 15 .. 28 : Order[i] # "sizes" /\ Order[i] # "extras"
  BY ONLY <1>3, OrderHas
<1>5. \A i \in 1 .. 14 : Order[i] \notin {"ingredients", "menu", "recipes", "assignments"}
  BY ONLY <1>2, OrderHas
<1>7. \A i \in 1 .. 14 : Order[i] \in {"areas", "tables", "stations", "sales summaries", "product summaries"} => i = 13 \/ i = 14
  BY ONLY <1>2, OrderHas
<1>8. \A i \in 1 .. 14 : Order[i] \in {"variants", "variant stock", "sizes"} => i = 8
  BY ONLY <1>2, OrderHas
<1>9. \A i \in 1 .. 14 : (Order[i] = "sizes" => i = 8) /\ (Order[i] = "extras" => i = 9)
  BY ONLY <1>2, OrderHas
<1> TAKE i \in 1 .. 28
<1>6. CASE i \in 1 .. 14
  <2>1. Order[i] \notin {"ingredients", "menu", "recipes", "assignments"}
    BY ONLY <1>5, <1>6
  <2>2. Order[i] \in {"areas", "tables", "stations", "sales summaries", "product summaries"} => i > 4
    <3>1. Order[i] \in {"areas", "tables", "stations", "sales summaries", "product summaries"} => i = 13 \/ i = 14
      BY ONLY <1>6, <1>7, Zenon
    <3>2. i = 13 \/ i = 14 => i > 4
      OBVIOUS
    <3> QED
      BY ONLY <3>1, <3>2, Zenon
  <2>3. Order[i] \in {"variants", "variant stock", "sizes"} => i > 7
    <3>1. Order[i] \in {"variants", "variant stock", "sizes"} => i = 8
      BY ONLY <1>6, <1>8, Zenon
    <3>2. i = 8 => i > 7
      OBVIOUS
    <3> QED
      BY ONLY <3>1, <3>2, Zenon
  <2> QED
    BY ONLY <1>6, <1>9, <2>1, <2>2, <2>3
<1>10. CASE i \in 15 .. 28
  <2>1. i > 4 /\ i > 6 /\ i > 7
    BY <1>10
  <2> QED
    BY <2>1, <1>4, <1>10
<1> QED
  BY ONLY <1>1, <1>6, <1>10

LEMMA LookedAt ==
    /\ Order[4] = "stores" /\ Order[6] = "categories" /\ Order[7] = "items" /\ Order[8] = "sizes" /\ Order[9] = "extras"
BY OrderHas

LEMMA SeedLength == Len(Order) = 28
BY OrderIs

LEMMA KindsAre == \A i \in 1 .. Len(Order) : Order[i] \in Kinds
BY DEF Kinds

LEMMA SizesAreKinds == "sizes" \in Kinds /\ "extras" \in Kinds
<1>1. Order[8] \in Kinds /\ Order[9] \in Kinds
  BY KindsAre, SeedLength
<1> QED
  BY <1>1, LookedAt

(* Nothing is deleted but by operators, of a server that is up.            *)
LEMMA RowsStay ==
    ASSUME SeedTyped, [SeedNext]_seedVars
    PROVE  /\ rows' \in [Kinds -> {"absent", "seeded", "changed"}]
           /\ \A k \in Kinds : Has(k) => Has(k)' \/ (phase = "serving" /\ phase' = "serving" /\ k \in deleted')
<1>1. CASE SeedStep
  <2> DEFINE k == Order[step]
  <2>1. step \in 1 .. Len(Order) /\ k \in Kinds
    BY <1>1, KindsAre DEF SeedStep, SeedTyped
  <2> HIDE DEF k
  <2>2. rows' = IF Skips(k) THEN rows ELSE [rows EXCEPT ![k] = Seeded(k)]
    BY <1>1 DEF SeedStep, k
  <2>3. Seeded(k) \in {"seeded", "changed"}
    BY <2>1 DEF Seeded, Has, SeedTyped
  <2> QED
    BY <2>1, <2>2, <2>3 DEF Has, SeedTyped
<1>2. ASSUME NEW k \in Touched, Change(k)
      PROVE  rows' \in [Kinds -> {"absent", "seeded", "changed"}] /\ \A j \in Kinds : Has(j) => Has(j)'
  BY <1>2 DEF Change, Has, SeedTyped
<1>4. ASSUME NEW k \in Touched, Delete(k)
      PROVE  /\ rows' \in [Kinds -> {"absent", "seeded", "changed"}] /\ phase = "serving" /\ phase' = "serving"
             /\ \A j \in Kinds : Has(j) => Has(j)' \/ j \in deleted'
  BY <1>4 DEF Delete, Has, SeedTyped
<1>3. CASE UNCHANGED rows
  BY <1>3 DEF Has, SeedTyped
<1> QED
  BY <1>1, <1>2, <1>3, <1>4 DEF SeedNext, Start, SeedFails, Serve, Crash, Restart, RecodeEmployee, seedVars

LEMMA InitSeedInv == SeedInit => SeedInv
<1> SUFFICES ASSUME SeedInit PROVE SeedInv
  OBVIOUS
<1>1. SeedTyped
  <2>1. 1 \in 1 .. Len(Order) + 1
    BY SeedLength
  <2> QED
    BY <2>1 DEF SeedInit, SeedTyped
<1>2. ~Has("sizes")
  BY SizesAreKinds DEF SeedInit, Has
<1> QED
  BY <1>1, <1>2 DEF SeedInit, SeedInv, Passed, Halves, ServesSeeded

(* A step of the seed leaves its rows there.                               *)
LEMMA StepLays ==
    ASSUME SeedInv, SeedStep, NEW k, k = Order[step]
    PROVE  There(k)'
<1>1. /\ step \in 1 .. 28 /\ k \in Kinds
  BY KindsAre, SeedLength DEF SeedStep, SeedInv, SeedTyped
<1>2. /\ phase = "seeding" /\ torn' = torn
      /\ rows' = IF Skips(k) THEN rows ELSE [rows EXCEPT ![k] = Seeded(k)]
  BY DEF SeedStep
<1>3. \A i \in 1 .. step - 1 : There(Order[i])
  BY <1>2 DEF SeedInv, Passed
<1>4. /\ step > 6 => There("categories")
      /\ step > 4 => There("stores")
      /\ step > 7 => There("items")
      /\ step > 8 => There("sizes")
  <2>1. step > 6 => There(Order[6])
    BY ONLY <1>1, <1>3
  <2>2. step > 4 => There(Order[4])
    BY ONLY <1>1, <1>3
  <2>3. step > 7 => There(Order[7])
    BY ONLY <1>1, <1>3
  <2>4. step > 8 => There(Order[8])
    BY ONLY <1>1, <1>3
  <2> QED
    BY ONLY <2>1, <2>2, <2>3, <2>4, LookedAt
<1>5. CASE Skips(k)
  <2>1. k = "extras" /\ ~newSizes
    BY ONLY <1>1, <1>4, <1>5, k = Order[step], LookedFor DEF Skips, There
  <2>2. Has("sizes")
    <3>1. step = 9
      BY ONLY <1>1, <2>1, k = Order[step], LookedFor
    <3> QED
      BY ONLY <1>4, <3>1 DEF There
  <2>3. Has("extras") \/ torn
    BY <2>1, <2>2 DEF SeedInv, Halves
  <2> QED
    BY <1>2, <1>5, <2>1, <2>3 DEF There, Has
<1>6. CASE ~Skips(k)
  <2>1. rows \in [Kinds -> {"absent", "seeded", "changed"}]
    BY DEF SeedInv, SeedTyped
  <2>2. Seeded(k) # "absent"
    BY DEF Seeded, Has
  <2>3. rows'[k] # "absent"
    BY <1>1, <1>2, <1>6, <2>1, <2>2
  <2> QED
    BY <2>3 DEF There, Has
<1> QED
  BY <1>5, <1>6

LEMMA StepSeedInv == SeedInv /\ [SeedNext]_seedVars => SeedInv'
<1> SUFFICES ASSUME SeedInv, [SeedNext]_seedVars PROVE SeedInv'
  OBVIOUS
<1>0. SeedTyped /\ step \in 1 .. 29 /\ newSizes \in BOOLEAN
  BY SeedLength DEF SeedInv, SeedTyped
<1>1. /\ rows' \in [Kinds -> {"absent", "seeded", "changed"}]
      /\ \A k \in Kinds : Has(k) => Has(k)' \/ (phase = "serving" /\ phase' = "serving" /\ k \in deleted')
  BY <1>0, RowsStay
<1>2. SeedTyped'
  <2>1. step' \in 1 .. Len(Order) + 1
    BY <1>0, SeedLength DEF SeedTyped, SeedNext, Start, SeedStep, SeedFails, Serve, Crash, Restart, Change, Delete, RecodeEmployee, seedVars
  <2>2. {newSizes, torn}' \subseteq BOOLEAN
    BY <1>0 DEF SeedTyped, SeedNext, Start, SeedStep, SeedFails, Serve, Crash, Restart, Change, Delete, RecodeEmployee, seedVars
  <2> QED
    BY <1>1, <2>1, <2>2 DEF SeedTyped
<1>3. torn => torn'
  BY DEF SeedNext, Start, SeedStep, SeedFails, Serve, Crash, Restart, Change, Delete, RecodeEmployee, seedVars
<1>4. phase # "serving" => \A k \in Kinds : There(k) => There(k)'
  BY <1>1, <1>3 DEF There
<1>5. (phase' = "seeding" => \A i \in 1 .. step' - 1 : There(Order[i])') /\ ServesSeeded'
  <2>1. CASE Start
    BY <2>1 DEF Start, ServesSeeded
  <2>2. CASE SeedStep
    <3> DEFINE k == Order[step]
    <3>1. phase = "seeding" /\ phase' = "seeding" /\ step' = step + 1 /\ step \in 1 .. 28
      BY <1>0, <2>2, SeedLength DEF SeedStep
    <3>2. \A i \in 1 .. step - 1 : There(Order[i]) /\ Order[i] \in Kinds
      BY <3>1, KindsAre, SeedLength DEF SeedInv, Passed
    <3>3. PICK j : j = Order[step]
      OBVIOUS
    <3>4. There(j)'
      BY <2>2, <3>3, StepLays
    <3>5. \A i \in 1 .. step : There(Order[i])'
      <4> TAKE i \in 1 .. step
      <4>1. CASE i = step
        <5>1. Order[i] = j
          BY <3>3, <4>1
        <5> QED
          BY ONLY <3>4, <5>1 DEF There, Has
      <4>2. CASE i # step
        BY <1>4, <3>1, <3>2, <4>2
      <4> QED
        BY <4>1, <4>2
    <3> QED
      BY <3>1, <3>5 DEF ServesSeeded
  <2>3. CASE Serve
    <3>1. \A i \in 1 .. Len(Order) : There(Order[i])
      BY <1>0, <2>3, SeedLength DEF Serve, SeedInv, Passed
    <3> QED
      BY <1>4, <2>3, <3>1 DEF Serve, ServesSeeded, Kinds, There
  <2>4. CASE phase' = "down"
    BY <2>4 DEF ServesSeeded
  <2>5. CASE UNCHANGED <<phase, step>>
    <3>1. phase = "seeding" => \A i \in 1 .. step - 1 : Order[i] \in Kinds
      BY <1>0, KindsAre, SeedLength
    <3>2. phase = "seeding" => \A i \in 1 .. step - 1 : There(Order[i])
      BY DEF SeedInv, Passed
    <3>3. phase' = "seeding" => \A i \in 1 .. step' - 1 : There(Order[i])'
      BY <1>4, <2>5, <3>1, <3>2
    <3>4. ServesSeeded'
      <4>1. phase = "serving" /\ phase' = "serving" => deleted \subseteq deleted'
        BY <2>5 DEF SeedNext, Start, SeedStep, SeedFails, Serve, Crash, Restart, Change, Delete, RecodeEmployee, seedVars
      <4> QED
        BY <1>1, <1>3, <2>5, <4>1 DEF SeedInv, Passed, ServesSeeded
    <3> QED
      BY <3>3, <3>4
  <2> QED
    BY <2>1, <2>2, <2>3, <2>4, <2>5 DEF SeedNext, SeedFails, Crash, Restart, Change, Delete, RecodeEmployee, seedVars
<1>6. Halves'
  <2>1. CASE SeedStep
    <3>1. PICK k : k = Order[step]
      OBVIOUS
    <3>2. /\ phase = "seeding" /\ phase' = "seeding" /\ torn' = torn /\ step' = step + 1 /\ step \in 1 .. 28
          /\ newSizes' = (newSizes \/ (k = "sizes" /\ ~Has(k) /\ ~Skips(k)))
          /\ rows' = IF Skips(k) THEN rows ELSE [rows EXCEPT ![k] = Seeded(k)]
      BY <1>0, <2>1, <3>1, SeedLength DEF SeedStep
    <3>3. There(k)'
      BY <2>1, <3>1, StepLays
    <3>4. CASE k = "extras"
      BY <3>3, <3>4 DEF There, Halves
    <3>5. CASE k = "sizes" /\ ~Has("sizes") /\ Has("sizes")'
      <4>1. step = 8
        BY <3>1, <3>2, <3>5, LookedFor
      <4>2. ~Skips(k)
        BY <3>2, <3>5 DEF Has
      <4>3. newSizes'
        BY <3>2, <3>5, <4>2, Zenon
      <4>4. step' <= 9
        BY <3>2, <4>1
      <4> QED
        BY <3>2, <4>3, <4>4, Zenon DEF Halves
    <3>6. CASE k = "sizes" /\ Has("sizes")
      <4>1. step = 8
        BY <3>1, <3>2, <3>6, LookedFor
      <4>2. Has("extras") => Has("extras")'
        BY <1>1, <3>2, SizesAreKinds
      <4>3. step' <= 9
        BY <3>2, <4>1
      <4> QED
        BY <3>2, <3>6, <4>2, <4>3, Zenon DEF Halves, SeedInv
    <3>7. CASE k # "extras" /\ k # "sizes"
      <4>1. rows'["sizes"] = rows["sizes"] /\ rows'["extras"] = rows["extras"]
        BY <1>0, <3>2, <3>7, SizesAreKinds DEF SeedTyped
      <4>2. step # 9
        BY <3>1, <3>7, LookedAt
      <4>3. step <= 9 => step' <= 9
        BY <3>2, <4>2
      <4> QED
        BY <3>2, <4>1, <4>3, Zenon DEF Halves, SeedInv, Has
    <3> QED
      BY <3>4, <3>5, <3>6, <3>7 DEF Halves
  <2>3. ASSUME NEW k \in Touched, Delete(k) PROVE Halves'
    <3>1. phase = "serving" /\ phase' = "serving" /\ torn' = (torn \/ (k = "extras" /\ Has("sizes")))
          /\ rows' = [rows EXCEPT ![k] = "absent"]
      BY <2>3 DEF Delete
    <3>2. Has("sizes")' => Has("sizes") /\ k # "sizes"
      BY <1>0, <3>1, SizesAreKinds DEF Has, SeedTyped
    <3>3. k # "extras" => (Has("extras") => Has("extras")')
      BY <1>0, <3>1, <3>2, SizesAreKinds DEF Has, SeedTyped
    <3> QED
      BY <3>1, <3>2, <3>3, Zenon DEF Halves, SeedInv
  <2>2. CASE ~SeedStep /\ \A k \in Touched : ~Delete(k)
    <3>1. Has("sizes")' = Has("sizes") /\ Has("extras")' = Has("extras")
      <4>1. CASE UNCHANGED rows
        BY <4>1 DEF Has
      <4>2. ASSUME NEW k \in Touched, Change(k) PROVE Has("sizes")' = Has("sizes") /\ Has("extras")' = Has("extras")
        BY <1>0, <4>2, SizesAreKinds DEF Change, Has, SeedTyped
      <4> QED
        BY <2>2, <4>1, <4>2 DEF SeedNext, Start, SeedFails, Serve, Crash, Restart, RecodeEmployee, seedVars
    <3>2. CASE Crash
      BY <3>1, <3>2 DEF Crash, Halves
    <3>3. CASE SeedFails
      <4>1. Order[step] = "employees" /\ step \in 1 .. 28
        BY <1>0, <3>3, SeedLength DEF SeedFails, Fails
      <4>2. step > 9
        <5>1. \A i \in 1 .. 9 : i = 1 \/ i = 2 \/ i = 3 \/ i = 4 \/ i = 5 \/ i = 6 \/ i = 7 \/ i = 8 \/ i = 9
          OBVIOUS
        <5>2. \A i \in 1 .. 9 : Order[i] # "employees"
          BY ONLY <5>1, OrderHas
        <5> QED
          BY ONLY <4>1, <5>2
      <4>3. ~(step <= 9)
        BY <4>1, <4>2
      <4> QED
        BY <3>1, <3>3, <4>3, Zenon DEF SeedFails, Halves, SeedInv
    <3>4. CASE Serve
      BY <1>0, <3>1, <3>4, SeedLength DEF Serve, Halves, SeedInv
    <3>5. CASE phase # "seeding" /\ torn' = torn
      BY <3>1, <3>5 DEF Halves, SeedInv
    <3>6. CASE UNCHANGED <<phase, step, newSizes, torn>>
      BY <3>1, <3>6 DEF Halves, SeedInv
    <3> QED
      BY <2>2, <3>2, <3>3, <3>4, <3>5, <3>6 DEF SeedNext, Start, Restart, Change, RecodeEmployee, seedVars
  <2> QED
    BY <2>1, <2>2, <2>3
<1> QED
  BY <1>2, <1>5, <1>6 DEF SeedInv, Passed

(* A server that is up has every kind of rows but what was deleted since,  *)
(* wherever the seed was killed before and whatever was deleted before it; *)
(* the extras apart, which the seed does not look for.                     *)
THEOREM RowsAreThere == SeedSpec => []ServesSeeded
<1>1. SeedInv => ServesSeeded
  BY DEF SeedInv, Passed
<1> QED
  BY <1>1, InitSeedInv, StepSeedInv, PTL DEF SeedSpec
===============================================================================
