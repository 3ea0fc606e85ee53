# A formal model of BonPOS

BonPOS is a multi-tenant point of sale: a NestJS back office over PostgreSQL
(`src/backend`) and a Vue client that runs the till, the kitchen board and the
office pages, and sells offline from IndexedDB (`src/frontend`).  This directory
holds TLA+ specifications of what in it is concurrent, delayed, repeated or
crashes, TLC configurations that check them on small shops, and TLAPS proofs for
every size of shop.

Contents: [the system](#1-the-system-and-what-makes-it-hard) ·
[modules](#2-modules-and-the-code-they-model) · [runs](#3-runs-and-bounds) ·
[fairness](#4-fairness) · [proofs](#5-what-is-proved) ·
[disagreements](#6-where-code-and-comments-disagree) ·
[not modelled](#7-what-is-not-modelled) · [plan](#8-plan)

## 1. The system, and what makes it hard

### How the parts interact

```
 client (one per browser tab)                    back office (one transaction per request)
 ┌───────────────────────────────┐  POST /pos/carts        ┌─────────────┐
 │ cart.store  ── snapshot ───┐  │ ──────────────────────▶ │ upsertCart  │── carts, cart_items
 │ sync.store  ── checkout ──┐│  │  POST /pos/sales/sync   ├─────────────┤
 │ posDb.sales .carts        ││  │ ──────────────────────▶ │ syncSale    │── sales, promos, customers,
 │ posDb.syncQueue ◀─────────┴┘  │ ◀── 201/200/409/4xx/5xx  │             │   store_stocks, shifts, day
 │ flush loops (pos-sync)        │                         └─────────────┘   summaries, journal, kitchen,
 ├───────────────────────────────┤  bootstrap, prices,       ▲   ▲   ▲       outbox ──▶ hub
 │ auth / catalog / shift stores │ ◀ shift, tables ─────     │   │   │
 │ floor panel, QRIS panel       │  charge, poll, webhook ──▶│   │   └── purchasing, transfers, counts
 │ kitchen board, kitchen bell   │  fire, bump, tickets ────▶┘   └────── shifts, supervisor, catalog,
 │ office pages (whole forms)    │                                       team, accounts, payroll
 └───────────────────────────────┘                          seed.ts runs at every start of the container
```

Every tenant request is **one interactive PostgreSQL transaction** at READ
COMMITTED (`tenant-transaction.interceptor.ts`, `prisma.service.ts`), cut off
after five seconds; an exception rolls everything back.  So within a request
there is no partial failure, but nothing a request has read without a lock needs
to hold when it writes.  The client has no transaction around an operation: each
IndexedDB call and each request is an `await` of its own, and replies are applied
when they come.

### Inventory

| component | state | operations | hard because | what makes it correct |
|---|---|---|---|---|
| sale ingest, `PosService.syncSale` | `sales`, `store_stocks`, `promos.used_count`, `customers.loyalty_points`, shift and day counters | one idempotent ingest of fifteen-odd statements | unlocked pre-checks, guarded updates, unique keys, dead-locks, retries at once | a sale counts once and whole; stock, points and vouchers conserved |
| cart snapshots, `PosService.upsertCart` | `carts`, `cart_items` | upsert with clock comparison, table release, line replacement | clocks of tills and server, overlapping delete-and-insert | one cart a table, the lines of one snapshot |
| checkout and sync queue of the till | `posDb.sales`, `.carts`, `.syncQueue` | edit, checkout, flush, retry, reload | several loops and tabs, lost and late requests, reload between awaits | no sale forgotten, none forgotten too early, no head-of-line blocking |
| money at the till | cart lines, promo, points, discount, tenders | tap, split, apply, redeem, pay | priced twice, by till and server, with changes in between | both come to the same rupiah |
| parked carts and the floor | carts of each till, floor as last loaded | park, resume, import, open a table, clear | two tills hand a table to each other | an open order loses neither items nor table |
| user, store, shift, prices of a till | stores of the client | sign-in and -out, switch, clock in, bootstrap, refresh | replies that overtake each other or get lost | it sells for who is signed in |
| cash drawer, `ShiftService` | `cashier_shifts` | clock in and out, drop, attach, reverse | decide-then-write, late offline sales | one open shift, the drawer follows the sales |
| reports, `getShiftReport`, `AnalyticsSummaryService`, `SalesExportService` | the rest of `cashier_shifts`, `daily_sales_summaries` | enter a sale, enter a reversal, report, export | a correction is entered in six books, each by a rule of its own | the books agree with the sales that stand |
| recipes, `RecipesService` | `recipes`, `recipe_lines` | save, expand a sale, cost it | lines deleted and written anew while a sale reads them | a dish takes its ingredients, never itself |
| supervisor corrections, `SensitivePosService` | `sales.status`, discounts, stock, drawer | void, refund, discount | the same, with two supervisors | each sale reversed once |
| transfers and stock edits, `AdminService` | `stock_transfers`, `store_stocks` | create in three modes, ship, receive, cancel, adjust, set | status and quantity read without a lock | goods neither appear nor vanish |
| stock counts, `StockCountService` | sessions and lines, panel of each device | create, type, save, complete, cancel | absolute figures written over sales and over another device's | a count leaves what lies on the shelf |
| purchasing | `purchase_orders`, `goods_receipts`, document codes | create, confirm, cancel, receive | two receipts of one line, codes of the day | never over-received, the right status |
| QRIS charges, `PaymentsService` and its panel | `payment_charges`, gateway, panel | create, poll, refresh, webhooks, confirm | three writers of one status, replies out of order | paid stays paid, a confirmed sale is covered |
| kitchen | `kitchen_orders` and lines, boards | fire, bump, complete, list | orders read without a lock and closed | a dish is listed until it is served |
| kitchen bell | known dishes of a device | poll, switch store | polls overlap, fail, come late | it rings for every dish |
| edge outbox | `edge_sync_events`, the hub | enqueue, push, back off, pull | two pushes, lost answers, no hub yet | delivered means the hub has it, or a dry run says so |
| chart of accounts and journal | accounts, mappings, entries | post, edit, reopen, page | an edit looks, a posting comes between | lines have the code of their account |
| catalog administration | categories, products, extras, own prices, promos | create, update, delete, whole forms | stale forms, look-then-write | no orphans, own prices kept |
| team administration | accounts, roles, stations | create, update | ranks looked at before the write | nobody edits a superior |
| HRIS | attendance, slips | enter, correct, clock in, calculate, finalise | payroll runs overlap while days are corrected | overtime is paid once |
| seed and start-up | rows of every kind | migrate, seed, serve | killed anywhere, run again, over what operators changed and deleted | what serves is complete |

## 2. Modules and the code they model

| module | models | role |
|---|---|---|
| `SaleLedger` | what `syncSale` promises: `Accept(s)`, one atomic step with all effects of a sale | abstract specification |
| `SaleSync` | `syncSale` (`pos.service.ts` 333-727) statement by statement, any number of requests | implements `SaleLedger` (`LedgerRefined`) |
| `OfflineQueue` | checkout, sync queue, flush loops (`sync.store.ts`, `pos-sync.service.ts`), network, reloads | EXTENDS `SaleLedger` as its server |
| `CartSync` | `upsertCart` (`pos.service.ts` 177-300), `conflict-resolution.ts` | |
| `TillCart` | `cart.store.ts`, `CheckoutPanel.vue`, `PosPage.vue`, `money.ts` of till and server, promo arithmetic, what `syncSale` accepts | pure arithmetic inside a small state machine |
| `DiningFloor` | park, resume, import, open, clear, sell, the floor panel, tables and areas | upserts in one step |
| `TillSession` | `auth.store.ts`, `catalog.store.ts`, `shift.store.ts`, `App.vue`, bootstrap | |
| `ShiftDrawer` | `shift.service.ts`, `sensitive-pos.service.ts` | |
| `SalesBooks` | the other columns of a shift and its X- and Z-Report, the day (`analytics-summary.service.ts`), the journal for the accountant (`sales-export.service.ts`) | EXTENDS `ShiftDrawer`: each sale and reversal there is entered here in the same step |
| `RecipeBook` | `recipes.service.ts`: saves statement by statement, and what a sale reads | |
| `StockBook` | what stock keeping promises: goods on a shelf or on the road | abstract specification |
| `Inventory` | transfers, adjustments and sales on `store_stocks` (`admin.service.ts`) | implements `StockBook` (`INSTANCE StockBook WITH shelf <- ..., phase <- status, ...`) |
| `StockCount` | `stock-count.service.ts` and the count panel of `InventoryHub.vue` | |
| `Purchasing` | `purchasing.service.ts` 167-542 | |
| `QrisCharge` | `payments.service.ts`, the gateway, `QrisPayPanel.vue` | |
| `KitchenOrders`, `KitchenBell` | `kitchen.service.ts`, `KitchenPage.vue`; `kitchen-notify.store.ts` | |
| `EdgeOutbox` | `edge-sync.service.ts` and the hub | |
| `GeneralLedger` | `gl.service.ts`, `integration.service.ts`, `sales-export.service.ts` | |
| `CatalogAdmin`, `StaffAdmin` | the catalog and the team in `admin.service.ts`, `promo.service.ts`, `CatalogHub.vue`, `InventoryHub.vue`, `TeamHub.vue` | |
| `Hris` | `hris.service.ts`, `hris-payroll.facade.ts`, the calculators, `HrisPage.vue` | |
| `SeedBoot` | `prisma/seed.ts`, `docker-entrypoint.sh` | |
| `SumProofs` | nothing of the code: lemmas about least and greatest numbers and sums over finite sets | EXTENDed by the other proofs |
| `SaleSyncProofs` | `SaleLedger`, `SaleSync` | theorems and proofs |
| `OfflineQueueProofs`, `CartSyncProofs`, `PurchasingProofs` | the module of that name | theorems and proofs |
| `TillProofs` | `QrisCharge`, `DiningFloor`, `KitchenOrders`, `TillCart`, `TillSession` | theorems and proofs |
| `CountProofs` | `ShiftDrawer`, `StockCount` | theorems and proofs |
| `OfficeProofs` | `CatalogAdmin`, `StaffAdmin`, `GeneralLedger`, `EdgeOutbox`, `Hris`, `SeedBoot` | theorems and proofs |
| `MC*` | the small shops that TLC explores | EXTEND their modules |

**Composition.**  Interleaved transactions implement an atomic ledger
(`SaleSync` => `SaleLedger`, proved; `Inventory` => `StockBook`, checked), and the
modules on the other side of the network are specified against the atomic one:
`OfflineQueue` extends `SaleLedger`; `ShiftDrawer`, `SalesBooks` and `DiningFloor`
take a sale in one step.  `KitchenOrders` has what other requests can get between: the
sale finds the orders (`BeginSale`), updates the lines that are open then
(`ClearDishes`), and sets the orders DONE when it commits (`CommitSale`); a dish fired
in between stays PENDING on an order that is DONE.  `MCTill`, `MCDevices`, `MCStock` and
`MCOffice` put components that share no row side by side: a variable `stage`
says which scene a behaviour plays, the others wait in one of their initial
states.  That is a way to run several models under one configuration, not an
interaction; where a scene has liveness, what waits does so in a state in which
none of its fair actions is enabled.

**Transactions with locks (`SaleSync`, `CartSync`, `Purchasing`, `Inventory`, `RecipeBook`).**
`pc[r]` is the next statement of request `r`.  What a statement reads is the
committed tables plus the request's own writes.  A write takes the row lock
(`held`, `locks`, the domain of `draft`), which nobody else gets before the
transaction ends, and `Commit` makes all writes of a request visible in one step.
A guarded `UPDATE ... WHERE qty >= n` waits for the lock and then looks at the
committed row, which is why the guard stands beside `Lock` in one action.  An
exception, the five-second time-out, a dead-lock victim and a crash are all
`RollBack` / `TimeOut`.  A `findUnique` before a write is a separate step whose
outcome is kept, because in between another request may create the row
(`CartRace`, `DayRace`, `CreateRace`: P2002, answered 500).

**Requests that look and then write (`ShiftDrawer`, `StockCount`,
`KitchenOrders`, `CatalogAdmin`, `StaffAdmin`, `QrisCharge`, `GeneralLedger`).**
What follows the decision cannot be refused but by a foreign or unique key, so a
request is two steps; what it has read is kept in `doing`, `work`, `request`,
`refresh` or `posting`.

**Messages (`TillSession`, `QrisCharge`, `KitchenBell`, `OfflineQueue`).**  Requests
and replies are sets: they overtake each other, and they get lost.  A failed fetch
may leave its request alive without a sender.  `Reload` loses the memory of a tab
and keeps IndexedDB.

**History variables.**  `overlapped`, `overtaken`, `crossed`, `raced`, `mixed`,
`clash`, `contested`, `shared`, `midnight` become TRUE at the interleaving the code
has no protection against.  The properties that the code does keep are stated for
behaviours without it, in every order of everything else; the same property without
the exemption stands beside it as "Refuted", and section 6 says what happens.

## 3. Runs and bounds

| run | checks | bounds and why they are enough |
|---|---|---|
| `SaleSync` | stock, counters, one sale a cart, acknowledgements, refinement of the ledger | four requests: a sale and its simultaneous retry, a competitor for the last units, a second guest of the same cart. Every race of the code is between two requests; the others show that an answer to one does not upset the rest |
| `SaleSyncRows` | voucher limit, points, what was checked still holds at commit, dead-locks over stock rows only | three sales, each pair sharing exactly one kind of row: a voucher with one use left, an account that covers one of two, two products locked in either order |
| `OfflineQueue` | nothing forgotten, nothing acknowledged too early | two flush loops, two sales for one piece of stock, one late request, one reload |
| `OfflineQueueDrain` | queued snapshots are the newest; every sale is settled once online | one loop, two guests of a cart (the second fails for ever), one edit, one late request, one reload; `BatchSize` 2 instead of 8, so that jobs are left over |
| `CartSync` | one cart a table without overlap; dead-locks only where two upserts have taken tables | two carts that swap two tables, one checked out, up to three of five upserts open, so that a third can wait in or beside a circle of two |
| `ShiftDrawer` | one open shift, every cash sale counted; corrections and all books without overlap | `SalesBooks` over `ShiftDrawer`: two interchangeable requests at once, two shifts of one cashier, a discounted sale paid in cash and one paid in cash and card, without recipe, each to be reversed and discounted in any order. 2.4 million states |
| `Purchasing` | no line over-received, receipts against lines and shelves, the status a receipt leaves | three parcels for an order of two lines; a confirmation, a cancellation and a second order; two requests open; two days, so that midnight can fall anywhere |
| `Stock` | refinement of the stock book; a count leaves what lies on the shelf | transfers in each mode, with two lines of one product and a shelf without a row, in four scenes of up to five requests, three open at once; two devices on one count of two articles with a sale, or two counts with a midnight; three saves of a recipe, two of which have an ingredient in common and each another yield, and a sale of the dish on two lines: a save that creates, one that replaces and one that meets it |
| `Till` | acceptance to the rupiah; dishes listed; orders of tables kept; QRIS sales covered | two lines of two skus, two guests, a percentage promo with a cap and a fixed one with a minimum, points, a split tender, one change of price, promo or balance, one preview on its way while the cart is edited; two dishes at two stations, two requests; two tills, one table, four operations (the shortest way to lose a table takes three); two charges and two sums. 0.92 million states |
| `TillVariants` | `VariantsSold`, violated | the same instance |
| `Devices` | a till sells for its user; prices are learnt; the bell rings; money taken becomes PAID | one charge and one poll; two stores and two answers on their way; two users, two stores, one shift, two requests on their way. These are about replies of two requests, so two of each suffice |
| `Office` | no orphans, own prices kept, ranks respected, codes hold, delivered is had, a served seed is complete, overtime paid once | three saves of two tabs over one product with its extras; three people and three requests; an account that is edited twice during two postings; two events and three pushes, to a hub, to none, or to one that appears or goes; two crashes and two restarts of a seed, with changes to an account and changes to and deletions of two groups of extras in between; one employee, two months of one and two days, a day and a night shift, two calculations at once. 0.49 million states |

`CHECK_DEADLOCK FALSE` stands in every configuration because the systems do end:
requests are answered, shifts close, the bounded operations are used up.

Bounds that name no limit of the code: `Parallel` (open transactions), `MaxTime`,
`MaxDay`, `MaxEdits`, `MaxLate`, `MaxCrashes`, `MaxRestarts`, `MaxSaves`,
`MaxRequests`, `MaxPosts`, `MaxPushes`, `MaxToggles`, `MaxPolls`, `MaxCharges`,
`MaxAsked`, `MaxActs`, `MaxCalls`, `MaxShifts`, `MaxPrices`, `MaxCarts`,
`MaxItems`, `MaxPieces`, `MaxDoings`, `MaxChanges`, `MaxTaps`, `MaxQuantity`,
`MaxOrders`, `MaxAccounts`, `MaxEntered`, `Previews` (previews on their way), `Jobs`
(calculations at once); `CartStarts` in `MCTill` lets a cart begin at the lowest prices
and the highest balance, the others being one change away.  `BatchSize`, `BatchLimit`, `PageSize`,
brackets and months are limits of the code, made small.

Configurations run by hand beside these: `StockMore` (types, one open count per
store), `OfficeMore` (`StationsAreKitchens`, `SalesPost`, `PagesWhole`,
`EditsKept`, `MorePaysMore`) and `SeedBoot` (`ServesSeeded`, and under fairness
`ComesUp`) pass; `SaleSyncDuplicate` and `ShiftDrawerRecipe` give the
counterexamples of section 6, as in `tlc -config SaleSyncDuplicate.cfg MCSaleSync`.

## 4. Fairness

The server modules have safety properties only.  That a request is answered follows
from Prisma's time-out alone, whatever the transaction does, so it is not a property
here; what the time-out is for, the circles of waiting requests, is stated as
invariants (`DeadlocksAreOverStock`, `DeadlocksNeedTwoTables`).

- `OfflineQueue`: weak fairness of each flush loop, because Background Sync
  registers itself again while jobs are pending, besides the `online` listener;
  weak fairness of the server handling what it has received; strong fairness of
  the server *deciding* a sale: one that is sent again and again is not met by a
  passing failure every single time.  Nothing is assumed of the network:
  `OthersAreSettled` is conditional on `<>[]online`.
- `QrisCharge`: weak fairness of each webhook (a gateway repeats it until it is
  answered) and of a refresh finishing.  Polls, the panel and the customer may
  stop at any time.
- `KitchenBell`: weak fairness of the timer that polls, of answers (or failures)
  and of handling them; strong fairness of a successful answer per store and of one
  being heard while the device is in that store.
- `TillSession`: weak fairness of the two timers, of the server answering and of
  replies arriving, per kind of request; a reply may still be lost, and `TillLearns`
  is conditional on being online at the page for good.
- `SeedBoot`: the container is restarted (`restart: unless-stopped`), and the seed goes
  on while nobody kills it.

## 5. What is proved

TLAPS checks the following for all values of the constants that satisfy the named
assumption of the module; sets of requests, offices, tills, products, charges and so
on may be of any size.  Each theorem has the same three parts: the initial states are
in the inductive invariant, every step keeps it (one lemma or named step per action,
and under it one per conjunct the action can disturb), and it implies the property.

### Sales and their queue

| theorem | states | inductive invariant and why it is needed |
|---|---|---|
| `LedgerKeepsBooks` | the books of `SaleLedger` | `LedgerInv == LedgerTypeOK /\ Books`: stock, vouchers, points and counters are sums over the accepted sales |
| `SyncTyped`, `ChecksSurvive`, `AnsweredIsSold` | `ChecksStillHold`, `AnsweredMeansSold` | `SyncInv == TypeOK /\ Exclusive /\ ChecksStillHold /\ AnsweredMeansSold`: that stock stays a natural number at `Commit` needs that the guard of the decrement still holds, which needs that nobody else committed to a row this request holds |
| `SyncImplementsLedger`, `SyncKeepsBooks`, `VouchersWithinLimit`, `PointsAreConserved`, `ReportsAgree`, `CartsSoldOnce` | `LedgerRefined` and the books of the concurrent system | under `SyncInv`, `Commit` is `Accept` and every other step stutters |
| `OnlyStockDeadlocks` | `DeadlocksAreOverStock` | whoever waits has passed the kinds of rows before the one it wants, and holds none after it: voucher, cart, customer, stock, shift, day, so a circle stays within the stock rows |
| `SyncedSalesAreSold` | `SyncedMeansSold` | a loop waits for the answer to one request only (`Awaited`), and one that was told "ok" is right (`ToldRight`), late replies notwithstanding |
| `PendingSalesAreQueued`, `SnapshotsAreNewest`, `SettledSalesStayOut` | `PendingIsQueued`, `NewestSnapshotQueued`, `SettledStaysOut` | `TillInv`: a job is in the queue once (`JobOnce`), a sale is queued from its checkout (`CheckoutFirst`) and is out of the queue only when it is settled (`SettledFirst`).  `WithoutFacts` says what filtering a queue keeps: the same jobs, in the same order, but for those taken out |
| `OnlyTablesDeadlock` | `DeadlocksNeedTwoTables` | an upsert that holds another cart's row before its write took that cart's table (`TookTable`; the invariant is `LockInv`); an upsert waits for a holder of rows, or for one that has deleted the same lines and itself waits for such a holder; following the circle from any member leads to two of them |
| `TablesLeadToOneCart`, `CartsHoldOneSnapshot` | `TablesInTurn`, and that a cart has the lines of one snapshot (`ItemsInTurn`) | while nothing overlaps, the one upsert under way has read the row as it is (`Current`), has released exactly the occupants of its table (`Releases`) and removed exactly the lines there (`Removes`) |

### At the till

| theorem | states | inductive invariant and why it is needed |
|---|---|---|
| `SalesAreAccepted` | `SaleAccepted`, to the rupiah | every line is positive and priced, and a sale that is built carries subtotal, tax, discount and tenders as functions of its lines (`SaleOK`); till and server then sum the same amounts.  The answer to a preview may come after the cart was edited: the discount of a sale whose promo and points still hold is then what the till last made of it (`StillHolds`), and a sale with nothing left to pay, which is refused, is excluded |
| `TablesKeepTheirItems` | `TablesKeepItems` | `Orderly`: what a till is about to send has what the server has, and no two carts claim one table, where a claim is a cart with items there, one under way there, or an empty local one |
| `FiredDishesAreListed` | `DishesListed` | a dish is on an order of its own cart; while no two requests met on a cart, the cart has one open order and its open dishes are on it; a fire that commits between a sale's update of the lines and its commit leaves a line the sale has not found, and sets `overtaken` at the commit |
| `TillsSellForTheirUser` | `OwnShift` | a request made while nothing else was under way is still about the user and store of the till (`Lonely`), and the shift of the session belongs to both (`OnOwnShift`) |
| `ConfirmedSalesAreCovered`, `PaidChargesStay` | `ConfirmedIsCovered`, and that no step takes a charge out of PAID (`PaidStays`) | until a refresh is raced, whoever writes still finds PENDING (`Unraced`), and whoever was told PAID may rely on it (`Reliable`) |

### Drawer, shelf and purchases

| theorem | states | inductive invariant and why it is needed |
|---|---|---|
| `OneDrawerPerCashier`, `CashIsCounted` | `OneOpenShift`, `CashCounted` | `DrawerInv`: a drawer is its float and the cash of its sales less what went out, as sums over the sales of the shift |
| `RefundsAndDiscountsAddUp`, `CorrectionsAddUp` | `CorrectionsInTurn` | `Current`: while nothing overlaps, the sale a correction is about is as it was read.  The part about stock has the hypothesis `Consumed = Lines`: a sale that takes the ingredients of a recipe is reversed product by product (section 6), so stock agrees only where no recipe is used; the part about money (`RefundsAndDiscountsAddUp`) has no such hypothesis |
| `CountsAreOneEach` | `OneDraftPerStore` | codes of a day have no gap (`Numbered`), and whoever created a count carries the next one; so of two requests that both saw no open count only one can insert (`OneEach`), although the look reads without a lock.  Until the date changes under a request |
| `CountsSettle` | `CountSettles` | a store is *calm* while the count open there, or being created, has seen no sale.  In a calm store a row is what was expected or what lies there (`RowsRight`), and so are the figures saved (`CountedRight`) and shown (`PagesRight`); a page sends whatever its figures are to change |
| `NothingOverReceived`, `ReceiptsTellStatus` | `NeverOverReceived`, `ReceiptTellsStatus` | what a request has pending on a line fits beside what is committed, because it holds the line (`LinesFit`); codes without gaps again make receipts take turns (`Serialized`) |
| `PaperAgreesWithShelf` | `ReceiptsAddUp` | `PaperInv`: a receipt that commits is one more, because its code is its own (`Fresh`), and only one request holds a line; so the sums over receipts grow by what the parcel brought |

### In the office

| theorem | states | inductive invariant and why it is needed |
|---|---|---|
| `CatalogStaysWhole` | `NoOrphans` | requests are about the entries they say (`Sound`), a variant that is edited exists, and each insert, delete and edit keeps the keys of what it disturbs |
| `OverridesAreKept` | `OwnPricesKept` | a form that is fresh has read the price that is there (`ReadLate`) |
| `NobodyEditsAbove` | `RanksRespected` | while no two requests overlap, one that was let through is about an account that still is not above its sender (`InRank`) |
| `LinesKeepTheirCodes`, `EverySaleFindsItsAccounts` | `CodesHold`, `SalesPost` | `GlInv`: a posting holds every default account, with the codes of the chart (`HeldRows`), lines point to accounts there are (`LinesKnown`), and while no edit and posting cross, an account about to be recoded has no lines (`Uncrossed`) |
| `OutboxDelivers` | `DeliveredIsHad` | whatever a push is about to mark the hub has, or it is a dry run on a server without a hub |
| `OvertimeIsPaidOnce` | `OvertimePaidOnce` | calculations of one employee may overlap, so a slip counts as settled only if the calculation that wrote it last has read what is entered now, by hand or by a till; such a slip carries the overtime of its month (`UpToDate`); months are disjoint and cover the calendar (`MonthsAddUp`) |
| `RowsAreThere` | `ServesSeeded` | `SeedInv`: what the seed has passed is there, because a step stands after the one whose rows it looks for (`LookedFor`, read off the sequence of steps); sizes without extras are those of this run or of a torn one (`Halves`).  What operators have deleted since the last start is exempt, and is back after the next, but for extras beside sizes that stayed |

**Sums and queues.**  The provers have no induction rule, and the library's cannot be
instantiated.  `SumProofs` goes another way: a set of numbers has a least member
(`LeastNumber`), so if a formula fails for some number it fails for a first one.  A sum
of natural numbers over a finite set is then shown to be the number of its units
`<<s, i>>` (`SumIsUnits`), and of cardinalities the library knows enough: a sum over one
element more or less, over disjoint sets, after one value changed.  `WithoutFacts` does
the same for the length of a queue, `GreatestNumber` for the highest account number.

**Assumptions.**  TLC evaluates each of them in the runs.  `TillCartAssumption`: the value of
a promo is above zero (`promo.service.ts:299-306`), guests are 1 to 8
(`cart.store.ts:290`), a cart has finitely many lines, and `"none"` is
neither a sku nor a promo.  `HrisAssumption`: shifts are natural numbers of units, and the ends of the months
ascend.  `LedgerAssumption`: finitely many default accounts
(a literal in `gl.service.ts`).  `PurchasingAssumption`, `DrawerAssumption`,
`SaleAssumption`, `StockCountAssumption`: finitely many lines, shifts, sales and
sessions, as a database has, with natural quantities.  `CartAssumption`: only a checkout
comes without a table field (`KeepTable`): tills always send one, `syncSale` never does
(`pos.service.ts:499`).  `CatalogAssumption`: the kinds of entries are disjoint and there
is a category.

**What the proofs found.**  `TablesKeepItems` held in TLC with five operations and could
not be proved: a till that goes back to an older copy of an order which another till has
meanwhile moved or cleared sends that copy over it, later than the run looks.  `Behind`
now counts a cart whose table differs as one the till is behind on; the behaviour itself
is `OrderKept` of section 6.

**Model-checked only.**  Everything under fairness (`OthersAreSettled`, `SettledBecomesPaid`, `BellRings`,
`TillLearns`, `ComesUp`), which the prover cannot state without `ENABLED`; the refinement
`BookRefined` of the stock book, whose proof is the next step of the plan; `BooksInTurn`
and `RecipesStand`, which are new.

## 6. Where code and comments disagree

A standing run: `TillVariants`.  `docs/MANUAL.md:282` says that `Variant required
for ...` means a line without a variant; `syncSale` hands `upsertCart` the lines of
the sale without their `variantId` (`pos.service.ts:506`), so a line that *has* one
is priced again without it and the sale is refused, on every retry.

The following were checked by putting the property's name into the configuration of
its run; TLC finds each violated.

| run | property | says | does |
|---|---|---|---|
| `SaleSync` | `EachGuestCanPay` | `docs/MANUAL.md:81`: items can be given a guest number to pay per person | every guest's sale carries the cart of the table, `sales.cart_id` is unique: the second one fails for ever |
| `SaleSyncDuplicate` | `DuplicateReturnsExisting` | `pos.service.ts:327`: a duplicate id "returns the existing row" | a duplicate looked up too early meets the stock check and is answered 409 |
| `OfflineQueue` | `ResendIsHarmless` | `pos-sync.service.ts:97`: "idempotency is enforced server-side" | hence the till marks a sale that is in the books as `error` |
| `OfflineQueue` | `SaleWrittenFirst` | `sync.store.ts:91`: "Checkout writes the sale to IndexedDB first" | the closed cart is written first |
| `OfflineQueueDrain` | `CheckedOutWins` | `pos.service.ts:197`: "CHECKED_OUT from sale sync always wins" | a cart snapshot that failed once comes after the sale and reopens the cart |
| `CartSync` | `ItemsOfOneSnapshot`, `OneCartPerTable` | `pos.service.ts:174`, `:220`: last write wins, one cart per table | two overlapping upserts leave the lines of both, and both on one table |
| `CartSync` | `LastWriteWins` | `conflict-resolution.ts:14`: TRUE "when the client snapshot is newer" | the stamp is compared with the server's `updatedAt` |
| `ShiftDrawer` | `RefundedOnce` | `sensitive-pos.service.ts:77`: "Sale cannot be reversed (status=...)" | two reversals at once both pass, money and stock move twice |
| `ShiftDrawer` | `ZReportAddsUp` | `shift.service.ts:95`: expectedCash = float + sales - refunds - drops | a sale synced after clock-out changes the counters of the closed shift only |
| `ShiftDrawer` | `DropWithinDrawer` | `shift.service.ts:172`: "Cash drop exceeds expected drawer cash" | two drops at once do exceed it |
| `ShiftDrawer` | `ReportNetIsMoney` | `shift.service.ts:338`: net is gross less voids and discounts | the columns hold what was paid, discounts and card voids already taken off: both are subtracted twice |
| `ShiftDrawer` | `DayNetIsMoney` | `schema.prisma:1447`: net = gross - discount - void | the day is not told of a supervisor's discount, and the void of a sale so discounted takes off less than was entered |
| `ShiftDrawer` | `JournalsBalance` | `sales-export.service.ts:42`: "Build balanced journal lines for one completed sale" | a supervisor's discount changes the discount of the sale and not its payments |
| `ShiftDrawer` | `ExportIsMoney` | `sales-export.service.ts`: the journal of a period | a reversed sale is exported as its reverse only, never as the sale |
| `ShiftDrawerRecipe` | `StockMatchesSales` | `sensitive-pos.service.ts:87`: "inventory must match completed→reversed lifecycle" | the sale took ingredients, the reversal returns the product |
| `Purchasing` | `CancelledIsEmpty` | `purchasing.service.ts:309`: "Cannot cancel: some lines already received" | a cancellation that read before a receipt committed cancels it afterwards |
| `Purchasing` | `StatusTellsLines` | `purchasing.service.ts:466`: RECEIVED when every line is received | two receipts with codes of two days leave it PARTIAL |
| `Purchasing` | `FirstReceiptAdds` | `pos.service.ts:788`: a row starts as a "copy from global catalog default on first touch" | the first receipt starts it at 0 |
| `Stock` | `MovedOnce` | `admin.service.ts:1337`: "Cannot ship transfer in status" | two requests at once both ship it, or one receives what another cancels |
| `Stock` | `CountSettlesAnyway` | a count sets the shelf to what was counted | sales since are undone, and a second device sends its own figures |
| `Till` | `DishesListedAnyway`, `ServedOrPaid` | an open dish is on the board | two fires make two orders, two last bumps leave one open; one guest's sale clears the dishes of all |
| `Stock` | `LinesOfOneSave`, `TakesOneRecipe` | a recipe is what was saved last | two saves of other ingredients are merged; a sale takes the lines of one save by the yield of another |
| `Stock` | `CostOfAllLines` | `pos.service.ts:488`: `cogsByLine` | it is keyed by product: a dish on two lines is costed once |
| `Till` | `DiscountsSold` | points and promos pay | a sale paid for by them altogether, which the till does queue, has a tender of 0; one that redeems more than its total has another discount than the server's; both are refused |
| `Till` | `PromoOfItsLines` | a promo goes with the lines it was previewed for | the answer to a preview is applied to the cart of the moment |
| `Till` | `UnlockedMeansPaid` | `docs/MANUAL.md:96`: locked until QRIS is paid | an edit of the total after payment, or a late reply, leaves it unlocked |
| `Till` | `ReleasesEmpty`, `OrderKept`, `ClearedLeavesFloor` | `pos.service.ts:220`: "release stale empty assignments" | carts with items lose their table; a till resumes its own older copy; a cleared cart stays on the server |
| `Devices` | `OwnShiftAnyway`, `StaysIn` | a till that works offline | late replies set another cashier; a reload offline signs out |
| `Devices` | `NeverCrossOutlet` | `kitchen-notify.store.ts:9`: "never cross-outlet" | an answer on its way when the store changed is counted in the other |
| `Office` | `EditsKeptAnyway`, `PromoEditsKeptAnyway`, `OwnPricesKeptAnyway` | "Intentional per-store overrides are kept" | whole forms take back what another tab has saved |
| `Office` | `ScopedPromoHasCategory` | `promo.service.ts:310`: "categoryId required for CATEGORY scope" | a deleted category leaves its promo without one |
| `Office` | `AdminRemains` | the last admin cannot be deactivated | two at once, each counting the other |
| `Office` | `ToldIsPosted`, `ToldIsLogged`, `DefaultsStayOff`, `MappingsFollow` (with `MaxEdits = 3`) | hooks tell of what is posted and are logged | a roll-back comes after the hook; a default account comes back on; a mapping keeps the old code |
| `Office` | `HubHasAll` | `edge-sync.service.ts`: durable outbox | rows that a dry run marked never reach the hub that is set up later |
| `Office` | `PullsAll` | a tool that pulls to the end has all | a row with a smaller id commits behind the cursor |
| `Office` | `ExtrasThere`, `RestartKeeps` | the seed is idempotent | the second modifier group is never made after a kill; a restart writes over edits |
| `SeedBoot` | `ComesUpAnyway` | the server comes up | a recoded demo employee makes the seed fail at every boot |
| `Office` | `FinalStays`, `PlannedDayIsNoOvertime`, `PlannedNightIsWorked` | a final slip is final | it is calculated anew as a draft; the break counts as overtime; a night shift has no hours |

Found by reading, without a model: a product with a single variant cannot be tapped
into the cart (`PosPage.vue`, `onProductTap` opens the picker without its product);
tapping a product twice fires quantity 1 only; every upsert gives cart items new ids,
so an imported cart is cooked twice; the office's `saveRecipe` sends no `yieldQty`, which
sets it back to 1; a clock-out changes the worked minutes of an attendance and not its
overtime; the catalog's `codeIndex` maps SKUs only; the
stock of variants is never decremented; two tabs may answer each other's `refreshed`
broadcast for ever.

## 7. What is not modelled

- *Inside the modelled components.*  `SaleSync`: rows that only the sale itself
  writes (recipe log, audit); prices and tenders there only decide whether a sale is
  refused, and `TillCart` has them.  `OfflineQueue`: pruning, receipts.  `CartSync`:
  lines are the snapshot that brought them.  `ShiftDrawer`: `midCount`,
  `forceOpenDrawer`, `removeCartItem` and
  `overrideCartItemPrice` change no counter.  `SalesBooks`: tips, the summaries by
  product, several days; QRIS and other tenders go by card.  `RecipeBook`: one dish, and
  the names and notes of its recipe.  `Purchasing`: suppliers, costs.
  `QrisCharge`: `attachSale` writes the id of a sale into the charge and reads
  nothing, so one charge may cover two sales.  `TillCart`: held modifiers, change.
  `TillSession`: token expiry, the manager's pages.  `GeneralLedger`: amounts, so the
  balance of an entry that is posted is not checked.  `CatalogAdmin`: `updateCategory`,
  `updateModifierGroup`, CSV import.  `Hris`: the times of an attendance, beyond the overtime they make.
- *Left out for good.*  Passwords, PIN and permission checks (no shared state of
  their own), customers and tenants (rows edited one by one),
  row-level security (PostgreSQL configuration), printers, CSV, formatting, pages that
  only show, translations.
- *Interactions.*  A receipt, a count and a transfer on one shelf are in different
  models; each has the sale that moves the shelf beside it.

## 8. Plan

1. The proof of `BookRefined`: the pending rows of a request are what the statements it
   has passed would write, rows it holds are nobody else's, and goods on the road are
   those whose rows left a shelf; a commit is then the one step of `StockBook`.
2. `OfflineQueue` and `ShiftDrawer` against the interleaved `SaleSync` by way of
   `SyncImplementsLedger`, instead of against the ledger.
3. One model of a shelf for receipts, counts, transfers and sales, refining
   `StockBook`.
4. Amounts in the entries that are posted, and their balance.
5. Proofs of `BooksInTurn`, from the invariants of `CountProofs`, and of `RecipesStand`:
   a save deletes and writes the lines of one recipe in one commit, and the unique index
   refuses what a second save would leave.
