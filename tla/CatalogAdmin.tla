------------------------------ MODULE CatalogAdmin ------------------------------
(***************************************************************************)
(* The catalog and those who edit it: categories, products with their      *)
(* modifier groups, options and variants, the own prices of stores, promos *)
(* (backend/src/admin/admin.service.ts, promotions/promo.service.ts), and  *)
(* the office pages that load them into forms and send whole forms back    *)
(* (frontend/src/pages/admin/CatalogHub.vue, InventoryHub.vue).  A request *)
(* looks (Begin...) and later writes (Commit); none locks what it looked   *)
(* at, foreign keys are checked as it writes.                              *)
(***************************************************************************)
EXTENDS Integers, FiniteSets

CONSTANTS
    Offices, Outlets,     \* tabs of the office; stores
    Categories, Articles, \* articles are products
    Groups, Options, Variants, PartOf,  \* extras, and what each is part of
    Amounts, Limits,      \* prices; usage limits of the promo
    MaxSaves              \* bound

ASSUME CatalogAssumption ==
    /\ \A x \in Groups \cup Variants : PartOf[x] \in Articles
    /\ \A o \in Options : PartOf[o] \in Groups
    /\ Categories # {} /\ Categories \cap (Articles \cup Groups \cup Options \cup Variants) = {}
    /\ Articles \cap (Groups \cup Options \cup Variants) = {}
    /\ Groups \cap (Options \cup Variants) = {} /\ Options \cap Variants = {}
    /\ Amounts \subseteq Nat /\ MaxSaves \in Nat

Extras == Groups \cup Options \cup Variants
Entries == Categories \cup Articles \cup Extras
NoAmount == -1
Opposite(on) == IF on = "on" THEN "off" ELSE "on"
Idle == [do |-> "nothing"]

VARIABLES
    entry,          \* "none", or isActive: "on" or "off"
    details,        \* of an article: category and unitPriceInCents
    ownPrice,       \* store_prices, or NoAmount
    promo,          \* of a promo: isActive, usageLimit, the category it is for
    form,           \* what an office has loaded
    fresh,          \* history: offices whose form is as it was loaded
    work,           \* the request of an office
    saves,          \* so far, bounded
    wanted, mixed   \* history: the details and promo last typed, see Typed

catalog == <<entry, details, ownPrice, promo>>
catalogVars == <<catalog, form, fresh, work, saves, wanted, mixed>>

Exists(x) == entry[x] # "none"
Under(x) == IF x \in Articles THEN details[x].category ELSE PartOf[x]
-------------------------------------------------------------------------------
(* refresh, and toggleExpand: forms as they are loaded.                    *)
Loaded == [entry |-> [a \in Articles |-> entry[a]], details |-> details, own |-> ownPrice, on |-> promo.on]
Load(e) ==
    /\ work[e] = Idle /\ e \notin fresh
    /\ form' = [form EXCEPT ![e] = Loaded]
    /\ fresh' = fresh \cup {e}
    /\ UNCHANGED <<catalog, work, saves, wanted, mixed>>

Begin(e, request) ==
    /\ work[e] = Idle /\ saves < MaxSaves /\ saves' = saves + 1
    /\ work' = [work EXCEPT ![e] = request]
    /\ UNCHANGED <<catalog, form, fresh, wanted, mixed>>

(* What the office may send, and what is looked at first.                  *)
AddCategory(e, c) == ~Exists(c) /\ Begin(e, [do |-> "category", entry |-> c])
AddProduct(e, a, c) ==
    ~Exists(a) /\ Exists(c) /\ Begin(e, [do |-> "product", entry |-> a, under |-> c])
AddModifierGroup(e, g) ==
    ~Exists(g) /\ Exists(PartOf[g]) /\ Begin(e, [do |-> "group", entry |-> g])
AddModifierOption(e, o) ==
    ~Exists(o) /\ Exists(PartOf[o]) /\ Begin(e, [do |-> "option", entry |-> o])
AddVariant(e, v) ==
    ~Exists(v) /\ Exists(PartOf[v]) /\ Begin(e, [do |-> "variant", entry |-> v])

(* A category to be deleted must have no products.                         *)
RemoveCategory(e, c) ==
    /\ Exists(c) /\ \A a \in Articles : Exists(a) => Under(a) # c
    /\ Begin(e, [do |-> "removeCategory", entry |-> c])
RemoveModifierGroup(e, g) == Exists(g) /\ Begin(e, [do |-> "removeGroup", entry |-> g])
RemoveModifierOption(e, o) == Exists(o) /\ Begin(e, [do |-> "removeOption", entry |-> o])

ToggleOption(e, o) == Exists(o) /\ Begin(e, [do |-> "toggle", entry |-> o, to |-> Opposite(entry[o])])
SaveVariant(e, v) == Exists(v) /\ Begin(e, [do |-> "variantForm", entry |-> v, to |-> Opposite(entry[v])])

(* updateProduct: the form as it is, with what has been typed into it.     *)
Typed(e, a) ==
    LET loaded == [entry |-> form[e].entry[a], details |-> form[e].details[a]] IN
    {[loaded EXCEPT !.details.price = n] : n \in Amounts}
        \cup {[loaded EXCEPT !.details.category = c] : c \in Categories}
        \cup {[loaded EXCEPT !.entry = on] : on \in {"on", "off"}}
SaveProduct(e, a, typed) ==
    /\ form[e].entry[a] # "none" /\ typed \in Typed(e, a) /\ Exists(typed.details.category)
    /\ Begin(e, [do |-> "update", entry |-> a, typed |-> typed, read |-> details[a].price])

(* patchStoreInventory: a price that differs from the one shown, or none.  *)
SaveOwnPrice(e, s, a, n) ==
    /\ form[e].entry[a] # "none"
    /\ n # IF form[e].own[s][a] = NoAmount THEN form[e].details[a].price ELSE form[e].own[s][a]
    /\ n = NoAmount => form[e].own[s][a] # NoAmount
    /\ Begin(e, [do |-> "price", store |-> s, entry |-> a, price |-> n])

(* togglePromo and savePromoLimits: update merges what is sent into the    *)
(* row it has read, and writes the whole row.                              *)
MergedForgetful(body) ==          \* Mutant: what is not sent is written as null.
    [promo EXCEPT !.on = IF "on" \in DOMAIN body THEN body.on ELSE @,
                  !.limit = IF "limit" \in DOMAIN body THEN body.limit ELSE 0]
Merged(body) ==
    [promo EXCEPT !.on = IF "on" \in DOMAIN body THEN body.on ELSE @,
                  !.limit = IF "limit" \in DOMAIN body THEN body.limit ELSE @]
Normal == promo.scoped => promo.category \in Categories          \* normalize
PatchPromo(e, body) == Normal /\ Begin(e, [do |-> "promo", body |-> body, row |-> Merged(body)])
TogglePromo(e) == PatchPromo(e, [on |-> ~form[e].on])
SavePromoLimits(e, n) == PatchPromo(e, [limit |-> n])
-------------------------------------------------------------------------------
(* The unique key refuses a second one, the foreign key an orphan.         *)
Insert(x, parents) ==
    entry' = IF ~Exists(x) /\ \A y \in parents : Exists(y) THEN [entry EXCEPT ![x] = "on"] ELSE entry
CreateCategory(r) == Insert(r.entry, {}) /\ UNCHANGED <<details, ownPrice, promo, wanted>>
CreateProduct(r) ==
    /\ Insert(r.entry, {r.under})
    /\ IF entry' # entry
       THEN /\ details' = [details EXCEPT ![r.entry].category = r.under]
            /\ wanted' = [wanted EXCEPT !.entry[r.entry] = "on", !.details[r.entry].category = r.under]
       ELSE UNCHANGED <<details, wanted>>
    /\ UNCHANGED <<ownPrice, promo>>
CreateModifierGroup(r) == Insert(r.entry, {PartOf[r.entry]}) /\ UNCHANGED <<details, ownPrice, promo, wanted>>
CreateModifierOption(r) == Insert(r.entry, {PartOf[r.entry]}) /\ UNCHANGED <<details, ownPrice, promo, wanted>>
CreateVariant(r) == Insert(r.entry, {PartOf[r.entry]}) /\ UNCHANGED <<details, ownPrice, promo, wanted>>

(* An update fails when the row is gone; variants are never deleted.       *)
UpdateModifierOption(r) ==
    /\ entry' = IF Exists(r.entry) THEN [entry EXCEPT ![r.entry] = r.to] ELSE entry
    /\ UNCHANGED <<details, ownPrice, promo, wanted>>
UpdateVariant(r) ==
    /\ entry' = [entry EXCEPT ![r.entry] = r.to]
    /\ UNCHANGED <<details, ownPrice, promo, wanted>>

(* A category is restricted by its products, promos lose it; the options   *)
(* of a group go with it.                                                  *)
DeleteUnrestricted(r) ==          \* Mutant: the count is all that protects it.
    /\ entry' = [entry EXCEPT ![r.entry] = "none"]
    /\ promo' = IF promo.category = r.entry THEN [promo EXCEPT !.category = "none"] ELSE promo
    /\ UNCHANGED <<details, ownPrice, wanted>>
DeleteCategory(r) ==
    /\ IF \E a \in Articles : Exists(a) /\ Under(a) = r.entry
       THEN UNCHANGED <<entry, promo>>
       ELSE /\ entry' = [entry EXCEPT ![r.entry] = "none"]
            /\ promo' = IF promo.category = r.entry THEN [promo EXCEPT !.category = "none"] ELSE promo
    /\ UNCHANGED <<details, ownPrice, wanted>>
DeleteModifierGroup(r) ==
    /\ entry' = [x \in Entries |-> IF x = r.entry \/ (x \in Options /\ PartOf[x] = r.entry) THEN "none" ELSE entry[x]]
    /\ UNCHANGED <<details, ownPrice, promo, wanted>>
DeleteModifierOption(r) ==
    /\ entry' = [entry EXCEPT ![r.entry] = "none"]
    /\ UNCHANGED <<details, ownPrice, promo, wanted>>

(* Own prices that were the price that has been read are dropped.          *)
DroppedAll(r) ==                  \* Mutant: all of them are.
    IF r.typed.details.price = r.read THEN ownPrice
    ELSE [s \in Outlets |-> [ownPrice[s] EXCEPT ![r.entry] = NoAmount]]
Dropped(r) ==
    IF r.typed.details.price = r.read THEN ownPrice
    ELSE [s \in Outlets |-> [ownPrice[s] EXCEPT ![r.entry] = IF @ = r.read THEN NoAmount ELSE @]]
UpdateProduct(e, r) ==
    LET loaded == form[e].details[r.entry] IN
    /\ IF Exists(r.typed.details.category)
       THEN /\ entry' = [entry EXCEPT ![r.entry] = r.typed.entry]
            /\ details' = [details EXCEPT ![r.entry] = r.typed.details]
            /\ ownPrice' = Dropped(r)
            /\ wanted' = [wanted EXCEPT
                  !.entry[r.entry] = IF r.typed.entry # form[e].entry[r.entry] THEN r.typed.entry ELSE @,
                  !.details[r.entry].price = IF r.typed.details.price # loaded.price THEN r.typed.details.price ELSE @,
                  !.details[r.entry].category =
                      IF r.typed.details.category # loaded.category THEN r.typed.details.category ELSE @]
       ELSE UNCHANGED <<entry, details, ownPrice, wanted>>
    /\ UNCHANGED promo

SetOwnPrice(r) ==
    /\ ownPrice' = [ownPrice EXCEPT ![r.store][r.entry] = r.price]
    /\ UNCHANGED <<entry, details, promo, wanted>>
UpdatePromo(r) ==
    /\ promo' = IF r.row.category \in Categories /\ ~Exists(r.row.category) THEN promo ELSE r.row
    /\ wanted' = [wanted EXCEPT !.on = IF "on" \in DOMAIN r.body THEN r.body.on ELSE @,
                                !.limit = IF "limit" \in DOMAIN r.body THEN r.body.limit ELSE @]
    /\ UNCHANGED <<entry, details, ownPrice>>

(* The answer makes the office load its forms again.                       *)
Commit(e) ==
    LET r == work[e] IN
    /\ r # Idle /\ work' = [work EXCEPT ![e] = Idle]
    /\ \/ r.do = "category" /\ CreateCategory(r)
       \/ r.do = "product" /\ CreateProduct(r)
       \/ r.do = "group" /\ CreateModifierGroup(r)
       \/ r.do = "option" /\ CreateModifierOption(r)
       \/ r.do = "variant" /\ CreateVariant(r)
       \/ r.do = "removeCategory" /\ DeleteCategory(r)
       \/ r.do = "removeGroup" /\ DeleteModifierGroup(r)
       \/ r.do = "removeOption" /\ DeleteModifierOption(r)
       \/ r.do = "toggle" /\ UpdateModifierOption(r)
       \/ r.do = "variantForm" /\ UpdateVariant(r)
       \/ r.do = "update" /\ UpdateProduct(e, r)
       \/ r.do = "price" /\ SetOwnPrice(r)
       \/ r.do = "promo" /\ UpdatePromo(r)
    /\ mixed' = (mixed \/ e \notin fresh) /\ fresh' = {}
    /\ UNCHANGED <<form, saves>>

CatalogInit ==
    LET some == CHOOSE c \in Categories : TRUE
        low == CHOOSE n \in Amounts : \A m \in Amounts : n <= m IN
    /\ entry \in [Entries -> {"none", "on"}] /\ entry[some] = "on"
    /\ \A x \in Extras : entry[x] = "none"
    /\ details = [a \in Articles |-> [category |-> some, price |-> low]]
    /\ ownPrice = [s \in Outlets |-> [a \in Articles |-> NoAmount]]
    /\ promo \in [on : {TRUE}, limit : {0}, scoped : {TRUE}, category : {c \in Categories : entry[c] = "on"}]
    /\ form = [e \in Offices |-> Loaded]
    /\ fresh = Offices /\ work = [e \in Offices |-> Idle] /\ saves = 0
    /\ wanted = [entry |-> entry, details |-> details, on |-> promo.on, limit |-> promo.limit]
    /\ mixed = FALSE

CatalogNext ==
    \E e \in Offices :
        \/ Load(e) \/ Commit(e)
        \/ \E c \in Categories : AddCategory(e, c) \/ RemoveCategory(e, c) \/ \E a \in Articles : AddProduct(e, a, c)
        \/ \E g \in Groups : AddModifierGroup(e, g) \/ RemoveModifierGroup(e, g)
        \/ \E o \in Options : AddModifierOption(e, o) \/ RemoveModifierOption(e, o) \/ ToggleOption(e, o)
        \/ \E v \in Variants : AddVariant(e, v) \/ SaveVariant(e, v)
        \/ \E a \in Articles : (\E typed \in Typed(e, a) : SaveProduct(e, a, typed))
                               \/ \E s \in Outlets, n \in Amounts \cup {NoAmount} : SaveOwnPrice(e, s, a, n)
        \/ TogglePromo(e) \/ \E n \in Limits : SavePromoLimits(e, n)
CatalogSpec == CatalogInit /\ [][CatalogNext]_catalogVars
-------------------------------------------------------------------------------
(* Whatever overlaps, every product has a category and every extra what it *)
(* is part of: the check that precedes a delete may be out of date, the    *)
(* foreign key is not (admin.service.ts:148-166, 1654-1660).               *)
NoOrphans == \A x \in Articles \cup Extras : Exists(x) => Exists(Under(x))

(* "Intentional per-store overrides (# old catalog) are kept"              *)
(* (admin.service.ts:265-267): a save of a product takes away no own price *)
(* but that which was the catalog's before, if no saves mix.               *)
OwnPricesKept ==
    [][\A s \in Outlets, a \in Articles :
          details[a].price # details'[a].price /\ ownPrice[s][a] # ownPrice'[s][a] =>
              mixed' \/ ownPrice[s][a] = details[a].price]_catalogVars

(* What was last typed into a form is what is there, until it is typed     *)
(* anew: no save of another field takes it back, if no saves mix.          *)
EditsKept ==
    ~mixed => /\ \A a \in Articles : entry[a] = wanted.entry[a] /\ details[a] = wanted.details[a]
              /\ promo.on = wanted.on /\ promo.limit = wanted.limit

(* Refuted: they do mix.  Forms are sent whole, and promos written whole.  *)
EditsKeptAnyway == \A a \in Articles : details[a] = wanted.details[a]
PromoEditsKeptAnyway == promo.on = wanted.on /\ promo.limit = wanted.limit
OwnPricesKeptAnyway ==
    [][\A s \in Outlets, a \in Articles :
          details[a].price # details'[a].price /\ ownPrice[s][a] # ownPrice'[s][a] =>
              ownPrice[s][a] = details[a].price]_catalogVars

(* Refuted: "categoryId required for CATEGORY scope" (promo.service.ts:    *)
(* 310): a deleted category leaves its promo without one.                  *)
ScopedPromoHasCategory == promo.scoped => promo.category \in Categories
===============================================================================
