------------------------------- MODULE StockCount -------------------------------
(***************************************************************************)
(* Stock counts (backend/src/stock-count/stock-count.service.ts) as the    *)
(* back office works them (frontend/src/pages/admin/InventoryHub.vue).  A  *)
(* device shows one session, keeps the figures typed for it, and when it   *)
(* finishes sends every line that differs from what it once loaded, one    *)
(* request each, and then completes.  Each server operation is a           *)
(* transaction that decides on an unlocked read (Begin...) and writes      *)
(* later.  `goods` is what really lies on the shelf: whoever counts counts *)
(* it right.                                                               *)
(***************************************************************************)
EXTENDS Integers, FiniteSets, FiniteSetsExt

CONSTANTS Branches, Stocked, Sessions, Devices,
          Goods, Booked,      \* what is there, and what store_stocks says
          Cases, MaxDay       \* bounds: a case is [active, sessions, sales]: products
                              \* that are sold, sessions still to come, units left to sell

ASSUME StockCountAssumption ==
    /\ Goods \in [Branches \X Stocked -> Nat] /\ Booked \in [Branches \X Stocked -> Nat]
    /\ Cases \subseteq [active : SUBSET Stocked, sessions : SUBSET Sessions, sales : Nat]
    /\ MaxDay \in Nat \ {0}
    /\ IsFiniteSet(Sessions) /\ "none" \notin Sessions /\ Branches # {}

Uncounted == -1
Blank == [p \in Stocked |-> Uncounted]
NoJob == [do |-> "idle"]

VARIABLES
    onHand, goods,
    state, place, code,     \* stock_count_sessions
    system, counted,        \* stock_count_lines: systemQty, countedQty
    job,                    \* what each device is waiting for
    page, loaded, typed,    \* activeStockCount, its lines, countDraft
    active,                 \* products.isActive: they get a line
    day, sales,
    soldDuring, byHand,     \* history of a session: something was sold during
                            \* it; the lines somebody really counted
    shared,                 \* history: one session was on two devices
    midnight                \* history: the date changed while one was created

server == <<active, onHand, goods, state, place, code, system, counted>>
screen == <<page, loaded, typed>>
history == <<soldDuring, shared, byHand, midnight>>
countVars == <<server, screen, history, job, day, sales>>
-------------------------------------------------------------------------------
Drafts(store) == {s \in Sessions : state[s] = "DRAFT" /\ place[s] = store}

(* nextCode: the highest code of the day, read without a lock, and one.    *)
CodesUsed == {code[s] : s \in {x \in Sessions : state[x] # "none"}}
(* Mutant: a sequence that no two requests share.                          *)
NextCodeOfAll == <<day, 1 + Cardinality(CodesUsed) + Cardinality({d \in Devices : job[d].do = "create"})>>

NextCode == <<day, 1 + Max({0} \cup {c[2] : c \in {x \in CodesUsed : x[1] = day}})>>

Work(d, what) == job[d] = NoJob /\ job' = [job EXCEPT ![d] = what]
Rest(d) == job' = [job EXCEPT ![d] = NoJob]

BeginCreate(d, s, store) ==
    /\ state[s] = "none" /\ \A e \in Devices : job[e] # NoJob => job[e].session # s
    /\ Drafts(store) = {}
    /\ Work(d, [do |-> "create", session |-> s, store |-> store, code |-> NextCode,
                lines |-> [p \in Stocked |-> onHand[<<store, p>>]]])
    /\ UNCHANGED <<server, screen, history, day, sales>>

(* What a page shows of a session: an uncounted line starts at systemQty.  *)
Show(d, s, lines, expected) ==
    /\ page' = [page EXCEPT ![d] = s]
    /\ loaded' = [loaded EXCEPT ![d] = lines]
    /\ typed' = [typed EXCEPT ![d] =
                    [p \in Stocked |-> IF lines[p] = Uncounted THEN expected[p] ELSE lines[p]]]

(* A session that is no draft takes no more input on the page.             *)
Leave(d) ==
    /\ page' = [page EXCEPT ![d] = "none"]
    /\ loaded' = [loaded EXCEPT ![d] = Blank] /\ typed' = [typed EXCEPT ![d] = Blank]

(* A second session with the code of the first is refused (P2002).         *)
CommitCreate(d) ==
    /\ job[d].do = "create"
    /\ Rest(d)
    /\ LET j == job[d] IN
       IF j.code \in CodesUsed
       THEN UNCHANGED <<state, place, code, system, counted, screen>>
       ELSE /\ state' = [state EXCEPT ![j.session] = "DRAFT"]
            /\ place' = [place EXCEPT ![j.session] = j.store]
            /\ code' = [code EXCEPT ![j.session] = j.code]
            /\ system' = [system EXCEPT ![j.session] = j.lines]
            /\ counted' = [counted EXCEPT ![j.session] = Blank]
            /\ Show(d, j.session, Blank, j.lines)
    /\ UNCHANGED <<active, onHand, goods, history, day, sales>>

OpenSession(d, s) ==
    /\ job[d] = NoJob /\ state[s] = "DRAFT"
    /\ Show(d, s, counted[s], system[s])
    /\ shared' = (shared \/ \E e \in Devices \ {d} : page[e] = s)
    /\ byHand' = [byHand EXCEPT ![s] = {p \in @ : counted[s][p] = goods[<<place[s], p>>]}]   \* unsaved figures are lost
    /\ UNCHANGED <<server, job, soldDuring, midnight, day, sales>>

(* Somebody counts a shelf and types it in.                                *)
Shelf(d, p) == <<place[page[d]], p>>
Type(d, p) ==
    /\ job[d] = NoJob /\ page[d] # "none"
    /\ typed' = [typed EXCEPT ![d][p] = goods[Shelf(d, p)]]
    /\ byHand' = [byHand EXCEPT ![page[d]] = @ \cup {p}]
    /\ UNCHANGED <<server, job, page, loaded, soldDuring, shared, midnight, day, sales>>

(* saveStockOpnameLine: the answer renews the lines of the page, not what  *)
(* is typed.                                                               *)
SaveLine(d, p) ==
    /\ job[d] = NoJob /\ page[d] # "none" /\ state[page[d]] = "DRAFT"
    /\ counted' = [counted EXCEPT ![page[d]][p] = typed[d][p]]
    /\ loaded' = [loaded EXCEPT ![d] = counted'[page[d]]]
    /\ UNCHANGED <<active, onHand, goods, state, place, code, system, job, page, typed, history, day, sales>>

(* finishStockOpname: the lines to send, then completeSession.             *)
Differs(d) == {p \in active : loaded[d][p] # typed[d][p]}
FinishCount(d) ==
    /\ page[d] # "none"
    /\ Work(d, [do |-> "finish", session |-> page[d], left |-> Differs(d)])
    /\ UNCHANGED <<server, screen, history, day, sales>>
FinishLine(d) ==
    /\ job[d].do = "finish"
    /\ \E p \in job[d].left :
          IF state[page[d]] = "DRAFT"
          THEN /\ counted' = [counted EXCEPT ![page[d]][p] = typed[d][p]]
               /\ job' = [job EXCEPT ![d].left = @ \ {p}]
          ELSE Rest(d) /\ UNCHANGED counted
    /\ UNCHANGED <<active, onHand, goods, state, place, code, system, screen, history, day, sales>>

BeginComplete(d) ==
    /\ job[d].do = "finish" /\ job[d].left = {}
    /\ LET s == page[d] IN
       IF state[s] = "DRAFT" /\ \A p \in active : counted[s][p] # Uncounted
       THEN job' = [job EXCEPT ![d] = [do |-> "complete", session |-> s, lines |-> counted[s]]]
       ELSE Rest(d)
    /\ UNCHANGED <<server, screen, history, day, sales>>

(* Mutant: the variance is taken from the row.                             *)
RecountedFromRow(s, lines) ==
    [x \in Branches \X Stocked |->
        IF x[1] = place[s] /\ x[2] \in active THEN onHand[x] + system[s][x[2]] - lines[x[2]] ELSE onHand[x]]

(* The counted quantity replaces the row where it varies from systemQty.   *)
Recounted(s, lines) ==
    [x \in Branches \X Stocked |->
        IF x[1] = place[s] /\ x[2] \in active /\ lines[x[2]] # system[s][x[2]] THEN lines[x[2]] ELSE onHand[x]]

CommitComplete(d) ==
    /\ job[d].do = "complete"
    /\ Rest(d)
    /\ onHand' = Recounted(job[d].session, job[d].lines)
    /\ state' = [state EXCEPT ![job[d].session] = "COMPLETED"]
    /\ Leave(d)
    /\ UNCHANGED <<active, goods, place, code, system, counted, history, day, sales>>

BeginCancel(d) ==
    /\ page[d] # "none" /\ state[page[d]] = "DRAFT"
    /\ Work(d, [do |-> "cancel", session |-> page[d]])
    /\ UNCHANGED <<server, screen, history, day, sales>>
CommitCancel(d) ==
    /\ job[d].do = "cancel"
    /\ Rest(d)
    /\ state' = [state EXCEPT ![job[d].session] = "CANCELLED"]
    /\ Leave(d)
    /\ UNCHANGED <<active, onHand, goods, place, code, system, counted, history, day, sales>>

SellOne(x) ==
    /\ onHand[x] > 0 /\ goods[x] > 0 /\ x[2] \in active /\ sales > 0
    /\ onHand' = [onHand EXCEPT ![x] = @ - 1] /\ goods' = [goods EXCEPT ![x] = @ - 1]
    /\ sales' = sales - 1
    /\ soldDuring' = [s \in Sessions |->
                          \/ soldDuring[s]
                          \/ \E d \in Devices : job[d] # NoJob /\ job[d].session = s
                          \/ s \in Drafts(x[1])]
    /\ UNCHANGED <<active, state, place, code, system, counted, screen, job, shared, byHand, midnight, day>>

NewDay ==
    /\ day < MaxDay /\ day' = day + 1
    /\ midnight' = (midnight \/ \E d \in Devices : job[d].do = "create")
    /\ UNCHANGED <<server, screen, job, soldDuring, shared, byHand, sales>>

CountInit ==
    /\ onHand = Booked /\ goods = Goods
    /\ \E c \in Cases :
          /\ active = c.active /\ sales = c.sales
          /\ state = [s \in Sessions |-> IF s \in c.sessions THEN "none" ELSE "CANCELLED"]
    /\ place \in [Sessions -> {CHOOSE x \in Branches : TRUE}]
    /\ code = [s \in Sessions |-> <<0, 0>>]
    /\ system = [s \in Sessions |-> Blank] /\ counted = system
    /\ job = [d \in Devices |-> NoJob] /\ page = [d \in Devices |-> "none"]
    /\ loaded = [d \in Devices |-> Blank] /\ typed = loaded
    /\ day = 1 /\ midnight = FALSE
    /\ soldDuring = [s \in Sessions |-> FALSE] /\ shared = FALSE
    /\ byHand = [s \in Sessions |-> {}]

CountNext ==
    \/ \E d \in Devices :
          \/ \E s \in Sessions : OpenSession(d, s) \/ \E x \in Branches : BeginCreate(d, s, x)
          \/ \E p \in active : Type(d, p) \/ SaveLine(d, p)
          \/ CommitCreate(d) \/ FinishCount(d) \/ FinishLine(d) \/ BeginComplete(d) \/ CommitComplete(d)
          \/ BeginCancel(d) \/ CommitCancel(d)
    \/ \E x \in Branches \X Stocked : SellOne(x)
    \/ NewDay

CountSpec == CountInit /\ [][CountNext]_countVars
-------------------------------------------------------------------------------
(* A store has one open count ("Draft stock count ... already open for     *)
(* this store", stock-count.service.ts:82).  The check reads without a     *)
(* lock; it is the unique document code that refuses the second of two     *)
(* counts started at once, so not over a midnight.                         *)
OneDraftPerStore == ~midnight => \A x \in Branches : Cardinality(Drafts(x)) <= 1

(* Completing a count leaves every line somebody counted at what lies on   *)
(* the shelf, if one device worked on it and nothing was sold meanwhile.   *)
CountSettles ==
    [][\A s \in Sessions :
          state[s] = "DRAFT" /\ state'[s] = "COMPLETED" /\ ~soldDuring[s] /\ ~shared =>
             \A p \in byHand[s] : onHand'[<<place[s], p>>] = goods[<<place[s], p>>]]_countVars

(* Why they hold.  A request is about the session of its page, and while no *)
(* session is on two devices, a page shows a draft that no other shows.    *)
Working ==
    \A d \in Devices : job[d].do \in {"finish", "complete", "cancel"} =>
       page[d] # "none" /\ job[d].session = page[d]

Apart ==
    /\ \A d \in Devices : page[d] # "none" => state[page[d]] # "none"
    /\ \A d \in Devices : job[d].do = "create" => state[job[d].session] = "none"
    /\ \A d, e \in Devices : job[d].do = "create" /\ job[e].do = "create" /\ job[d].session = job[e].session
                              => d = e

Alone ==
    /\ \A d \in Devices : page[d] # "none" => page[d] \in Sessions /\ state[page[d]] = "DRAFT"
    /\ \A d, e \in Devices : page[d] # "none" /\ page[d] = page[e] => d = e
    /\ \A s \in Sessions : state[s] = "none" => byHand[s] = {}

(* Codes are given out without gaps, and whoever read its code read all    *)
(* before it: of the requests under way, those whose code is still free    *)
(* have the same.  Where a draft is open, the others of its store come too *)
(* late.                                                                   *)
Numbered ==
    /\ day \in Nat \ {0} /\ code \in [Sessions -> (0 .. day) \X Nat]
    /\ \A c \in CodesUsed : c[1] = day => \A m \in 1 .. c[2] : <<day, m>> \in CodesUsed
    /\ \A d \in Devices : job[d].do = "create" =>
          job[d].code \in {day} \X (Nat \ {0}) /\ \A m \in 1 .. (job[d].code[2] - 1) : <<day, m>> \in CodesUsed

OneEach ==
    /\ \A s, t \in Sessions : state[s] = "DRAFT" /\ state[t] = "DRAFT" /\ place[s] = place[t] => s = t
    /\ \A d \in Devices, s \in Sessions :
          job[d].do = "create" /\ state[s] = "DRAFT" /\ place[s] = job[d].store => job[d].code \in CodesUsed

(* Counts that are being created or open in a store, and whether one of    *)
(* them has seen no sale: then nothing was sold there since it was begun,  *)
(* and whatever is counted there was counted after that.                   *)
Creating(s, x) == \E d \in Devices : job[d].do = "create" /\ job[d].session = s /\ job[d].store = x
Alive(s, x) == Creating(s, x) \/ s \in Drafts(x)
Calm(x) == \E s \in Sessions : Alive(s, x) /\ ~soldDuring[s]

Lies(s, p) == goods[<<place[s], p>>]

(* Lines that are saved, and figures on the page, are what was expected or *)
(* what lies there; the page sends whatever its figures are to change.     *)
CountedRight ==
    \A s \in Sessions, p \in active :
       state[s] = "DRAFT" /\ Calm(place[s]) => counted[s][p] \in {Uncounted, system[s][p], Lies(s, p)}

Shows(d, p) ==
    LET s == page[d] IN
    /\ typed[d][p] \in {system[s][p], Lies(s, p)}
    /\ p \in byHand[s] => typed[d][p] = Lies(s, p)
    /\ loaded[d][p] = typed[d][p] => counted[s][p] = typed[d][p]
    /\ Lies(s, p) \in {loaded[d][p], counted[s][p]} => typed[d][p] = Lies(s, p)
    /\ job[d].do = "finish" /\ p \notin job[d].left => counted[s][p] = typed[d][p]
    /\ job[d].do = "complete" => job[d].lines[p] = typed[d][p]

PagesRight == \A d \in Devices, p \in active : page[d] # "none" /\ Calm(place[page[d]]) => Shows(d, p)

(* The row has not moved since the count was begun, except to what lies    *)
(* there, by another count.                                                *)
RowsRight ==
    \A x \in Branches, p \in active :
       /\ \A s \in Drafts(x) : ~soldDuring[s] => onHand[<<x, p>>] \in {system[s][p], goods[<<x, p>>]}
       /\ \A d \in Devices : job[d].do = "create" /\ job[d].store = x /\ ~soldDuring[job[d].session] =>
             onHand[<<x, p>>] \in {job[d].lines[p], goods[<<x, p>>]}

Figures == [Stocked -> Nat \cup {Uncounted}]

JobTyped(j) ==
    \/ j = NoJob
    \/ /\ j.do = "create"
       /\ j = [do |-> "create", session |-> j.session, store |-> j.store, code |-> j.code, lines |-> j.lines]
       /\ j.session \in Sessions /\ j.store \in Branches /\ j.lines \in [Stocked -> Nat]
    \/ /\ j.do = "finish"
       /\ j = [do |-> "finish", session |-> j.session, left |-> j.left]
       /\ j.session \in Sessions /\ j.left \subseteq active
    \/ /\ j.do = "complete"
       /\ j = [do |-> "complete", session |-> j.session, lines |-> j.lines]
       /\ j.session \in Sessions /\ \A p \in active : j.lines[p] \in Nat
    \/ /\ j.do = "cancel"
       /\ j = [do |-> "cancel", session |-> j.session]
       /\ j.session \in Sessions

CountTyped ==
    /\ active \subseteq Stocked
    /\ onHand \in [Branches \X Stocked -> Nat] /\ goods \in [Branches \X Stocked -> Nat]
    /\ state \in [Sessions -> {"none", "DRAFT", "COMPLETED", "CANCELLED"}] /\ place \in [Sessions -> Branches]
    /\ system \in [Sessions -> Figures] /\ counted \in [Sessions -> Figures]
    /\ loaded \in [Devices -> Figures] /\ typed \in [Devices -> Figures]
    /\ page \in [Devices -> Sessions \cup {"none"}]
    /\ job = [d \in Devices |-> job[d]] /\ \A d \in Devices : JobTyped(job[d])
    /\ \A s \in Sessions : state[s] = "DRAFT" => system[s] \in [Stocked -> Nat]
    /\ \A d \in Devices : page[d] # "none" => typed[d] \in [Stocked -> Nat]
    /\ soldDuring \in [Sessions -> BOOLEAN] /\ byHand \in [Sessions -> SUBSET active]

CountInv ==
    /\ CountTyped /\ Working /\ Apart
    /\ ~midnight => Numbered /\ OneEach
    /\ ~shared => Alone /\ CountedRight /\ PagesRight /\ RowsRight

(* Refuted without the two conditions: sales since the shelf was counted   *)
(* come back, and a second device that finishes sends its own figures,     *)
(* systemQty where it counted nothing, over lines saved on the first.      *)
CountSettlesAnyway ==
    [][\A s \in Sessions :
          state[s] = "DRAFT" /\ state'[s] = "COMPLETED" =>
             \A p \in byHand[s] : onHand'[<<place[s], p>>] = goods[<<place[s], p>>]]_countVars
===============================================================================
