------------------------------- MODULE CartSync -------------------------------
(***************************************************************************)
(* PosService.upsertCart (backend/src/pos/pos.service.ts): the tills send  *)
(* snapshots of their carts, the server keeps the last one by comparing    *)
(* the client's clock with its own updatedAt (conflict-resolution.ts), and *)
(* a table belongs to the last cart that was put on it.                    *)
(*                                                                         *)
(* A request is one READ COMMITTED transaction: it reads the row without a *)
(* lock, and writes table, items and row in three statements.  The lines   *)
(* of a snapshot are abstracted to the request that brought them.          *)
(***************************************************************************)
EXTENDS Integers, FiniteSets

CONSTANTS
    Requests,   \* POST /pos/carts, and the upsert inside a sale
    Carts,      \* client_uuid
    Tables,
    NoTable,    \* tableId null
    KeepTable,  \* tableId undefined, as syncSale calls it
    CartOf, TableOf, StatusOf,
    Stamp,      \* clientUpdatedAt
    Parallel,   \* transactions open at the same time
    MaxTime     \* bound of the clock

ASSUME CartAssumption ==
    /\ CartOf \in [Requests -> Carts]
    /\ NoTable \notin Tables /\ KeepTable \notin Tables \cup {NoTable}
    /\ TableOf \in [Requests -> Tables \cup {NoTable, KeepTable}]
    /\ StatusOf \in [Requests -> {"OPEN", "CHECKED_OUT"}]
    /\ \A r \in Requests : TableOf[r] = KeepTable => StatusOf[r] = "CHECKED_OUT"
    /\ Stamp \in [Requests -> 1 .. MaxTime]
    /\ Parallel \in Nat \ {0}

VARIABLES
    rows,      \* committed carts with their items
    now,       \* one clock for tills and server: even without any skew
    pc,
    seen,      \* the row a request's findUnique returned
    released,  \* rows a request has locked to take their table away
    removed,   \* item rows a request has deleted
    locks,     \* cart rows a request has locked
    writtenAt, \* updatedAt a request has written
    resp,
    overlapped \* history: two transactions have been open at the same time

vars == <<rows, now, pc, seen, released, removed, locks, writtenAt, resp, overlapped>>

NoRow == [status |-> "none", table |-> NoTable, updatedAt |-> 0, items |-> {}]
Exists(row) == row.status # "none"

Open(r) == pc[r] \notin {"new", "done"}
Goto(r, step) == pc' = [pc EXCEPT ![r] = step]

Finish(r, answer) ==
    /\ pc' = [pc EXCEPT ![r] = "done"]
    /\ resp' = [resp EXCEPT ![r] = answer]
    /\ seen' = [seen EXCEPT ![r] = NoRow]
    /\ released' = [released EXCEPT ![r] = {}]
    /\ removed' = [removed EXCEPT ![r] = {}]
    /\ locks' = [locks EXCEPT ![r] = {}]
    /\ writtenAt' = [writtenAt EXCEPT ![r] = 0]
    /\ UNCHANGED <<now, overlapped>>

Free(r, carts) == \A q \in Requests \ {r} : locks[q] \cap carts = {}
-------------------------------------------------------------------------------
(* Mutant: no comparison of the clocks.                                    *)
AlwaysApply(r, row) == TRUE

(* shouldApplyClientCartWrite, and the condition it is asked under.        *)
ShouldApply(r, row) ==
    row.status = "OPEN" /\ StatusOf[r] = "OPEN" => Stamp[r] >= row.updatedAt

Read(r) ==
    /\ pc[r] = "new"
    /\ Stamp[r] <= now
    /\ Cardinality({q \in Requests : Open(q)}) < Parallel
    /\ ShouldApply(r, rows[CartOf[r]])
    /\ seen' = [seen EXCEPT ![r] = rows[CartOf[r]]]
    /\ overlapped' = (overlapped \/ \E q \in Requests : Open(q))
    /\ Goto(r, "table")
    /\ UNCHANGED <<rows, now, released, removed, locks, writtenAt, resp>>

IgnoreStale(r) ==
    /\ pc[r] = "new"
    /\ Stamp[r] <= now
    /\ ~ShouldApply(r, rows[CartOf[r]])
    /\ Finish(r, "stale")
    /\ UNCHANGED rows

(* 400: unknown table or product, quantity, missing variant.               *)
Refuse(r) ==
    /\ pc[r] \in {"table", "items"}
    /\ Finish(r, "rejected")
    /\ UNCHANGED rows

Occupants(r) ==
    {c \in Carts \ {CartOf[r]} : rows[c].status = "OPEN" /\ rows[c].table = TableOf[r]}

(* Mutant: a table is taken without releasing it.                          *)
TakeTable(r) ==
    /\ pc[r] = "release"
    /\ released' = [released EXCEPT ![r] = {}]
    /\ Goto(r, "items")
    /\ UNCHANGED <<rows, now, seen, removed, locks, writtenAt, resp, overlapped>>

(* cart.updateMany takes the table from other OPEN carts: it finds them    *)
(* when the statement starts, waits for their locks and looks again.       *)
FindOccupants(r) ==
    /\ pc[r] = "table"
    /\ TableOf[r] \in Tables
    /\ released' = [released EXCEPT ![r] = Occupants(r)]
    /\ Goto(r, "release")
    /\ UNCHANGED <<rows, now, seen, removed, locks, writtenAt, resp, overlapped>>

(* Mutant: the row of the cart itself is written first of all.             *)
ReleaseAndTakeOwn(r) ==
    /\ pc[r] = "release"
    /\ Free(r, released[r] \cup {CartOf[r]})
    /\ released' = [released EXCEPT ![r] = @ \cap Occupants(r)]
    /\ locks' = [locks EXCEPT ![r] = @ \cup (released[r] \cap Occupants(r)) \cup {CartOf[r]}]
    /\ Goto(r, "items")
    /\ UNCHANGED <<rows, now, seen, removed, writtenAt, resp, overlapped>>

ReleaseTable(r) ==
    /\ pc[r] = "release"
    /\ Free(r, released[r])
    /\ released' = [released EXCEPT ![r] = @ \cap Occupants(r)]
    /\ locks' = [locks EXCEPT ![r] = @ \cup (released[r] \cap Occupants(r))]
    /\ Goto(r, "items")
    /\ UNCHANGED <<rows, now, seen, removed, writtenAt, resp, overlapped>>

LeaveTables(r) ==
    /\ pc[r] = "table"
    /\ TableOf[r] \notin Tables
    /\ Goto(r, "items")
    /\ UNCHANGED <<rows, now, seen, released, removed, locks, writtenAt, resp, overlapped>>

(* cartItem.deleteMany: the items are those committed when the statement   *)
(* starts.  It waits for whoever deletes them too and finds them gone      *)
(* then; items inserted meanwhile it does not see.                         *)
FindItems(r) ==
    /\ pc[r] = "items"
    /\ Exists(seen[r])
    /\ removed' = [removed EXCEPT ![r] = rows[CartOf[r]].items]
    /\ Goto(r, "delete")
    /\ UNCHANGED <<rows, now, seen, released, locks, writtenAt, resp, overlapped>>

DeleteItems(r) ==
    /\ pc[r] = "delete"
    /\ \A q \in Requests \ {r} :
         pc[q] \in {"write", "commit"} => removed[q] \cap removed[r] = {}
    /\ Goto(r, "write")
    /\ UNCHANGED <<rows, now, seen, released, removed, locks, writtenAt, resp, overlapped>>

NoItemsYet(r) ==
    /\ pc[r] = "items"
    /\ ~Exists(seen[r])
    /\ Goto(r, "write")
    /\ UNCHANGED <<rows, now, seen, released, removed, locks, writtenAt, resp, overlapped>>

(* cart.update, or cart.create when the read found nothing; then the new   *)
(* lines are inserted.  Prisma stamps updatedAt with the server's clock.   *)
WriteRow(r) ==
    /\ pc[r] = "write"
    /\ Free(r, {CartOf[r]})
    /\ Exists(seen[r]) \/ ~Exists(rows[CartOf[r]])
    /\ locks' = [locks EXCEPT ![r] = @ \cup {CartOf[r]}]
    /\ writtenAt' = [writtenAt EXCEPT ![r] = now]
    /\ Goto(r, "commit")
    /\ UNCHANGED <<rows, now, seen, released, removed, resp, overlapped>>

(* P2002 on (tenant_id, client_uuid).                                      *)
CreateRace(r) ==
    /\ pc[r] = "write"
    /\ Free(r, {CartOf[r]})
    /\ ~Exists(seen[r]) /\ Exists(rows[CartOf[r]])
    /\ Finish(r, "failed")
    /\ UNCHANGED rows

TableAsSent(r) == TableOf[r]      \* mutant: an absent tableId is stored as such

TableAfter(r) == IF TableOf[r] = KeepTable THEN seen[r].table ELSE TableOf[r]

Commit(r) ==
    /\ pc[r] = "commit"
    /\ rows' = [c \in Carts |->
          IF c = CartOf[r]
          THEN [status |-> StatusOf[r], table |-> TableAfter(r), updatedAt |-> writtenAt[r],
                items |-> (rows[c].items \ removed[r]) \cup {r}]
          ELSE IF c \in released[r]
          THEN [rows[c] EXCEPT !.table = NoTable, !.updatedAt = writtenAt[r]]
          ELSE rows[c]]
    /\ Finish(r, "applied")

(* Time-out, deadlock victim or crash.                                     *)
TimeOut(r) ==
    /\ Open(r)
    /\ Finish(r, "failed")
    /\ UNCHANGED rows

Tick ==
    /\ now < MaxTime
    /\ now' = now + 1
    /\ UNCHANGED <<rows, pc, seen, released, removed, locks, writtenAt, resp, overlapped>>
-------------------------------------------------------------------------------
Init ==
    /\ rows = [c \in Carts |-> NoRow]
    /\ now = 1
    /\ pc = [r \in Requests |-> "new"]
    /\ seen = [r \in Requests |-> NoRow]
    /\ released = [r \in Requests |-> {}]
    /\ removed = [r \in Requests |-> {}]
    /\ locks = [r \in Requests |-> {}]
    /\ writtenAt = [r \in Requests |-> 0]
    /\ resp = [r \in Requests |-> "none"]
    /\ overlapped = FALSE

Run(r) ==
    \/ Read(r) \/ IgnoreStale(r) \/ Refuse(r)
    \/ FindOccupants(r) \/ ReleaseTable(r) \/ LeaveTables(r)
    \/ FindItems(r) \/ DeleteItems(r) \/ NoItemsYet(r)
    \/ WriteRow(r) \/ CreateRace(r)
    \/ Commit(r)

Next == Tick \/ \E r \in Requests : Run(r) \/ TimeOut(r)

Spec == Init /\ [][Next]_vars
-------------------------------------------------------------------------------
Row == [status : {"none", "OPEN", "CHECKED_OUT"}, table : Tables \cup {NoTable},
        updatedAt : 0 .. MaxTime, items : SUBSET Requests]

TypeOK ==
    /\ rows \in [Carts -> Row]
    /\ now \in 1 .. MaxTime
    /\ pc \in [Requests -> {"new", "table", "release", "items", "delete", "write", "commit",
                            "done"}]
    /\ seen \in [Requests -> Row]
    /\ released \in [Requests -> SUBSET Carts]
    /\ removed \in [Requests -> SUBSET Requests]
    /\ locks \in [Requests -> SUBSET Carts]
    /\ writtenAt \in [Requests -> 0 .. MaxTime]
    /\ resp \in [Requests -> {"none", "applied", "stale", "rejected", "failed"}]
    /\ overlapped \in BOOLEAN

OneCartPerTable ==
    \A c, d \in Carts :
        /\ rows[c].status = "OPEN" /\ rows[d].status = "OPEN"
        /\ rows[c].table = rows[d].table /\ rows[c].table \in Tables
        => c = d

(* A cart holds the lines of one snapshot, never of two: another till that *)
(* resumes the table would charge the guests twice.                        *)
ItemsOfOneSnapshot == \A c \in Carts : Cardinality(rows[c].items) <= 1

(* "One active OPEN cart per table": as long as no two upserts overlap, a  *)
(* table on the floor plan leads to one cart, whatever the order in which  *)
(* carts are put on it, moved and checked out.                             *)
TablesInTurn == ~overlapped => OneCartPerTable

(* As long as no two upserts overlap, no line of a replaced snapshot stays *)
(* in a cart, whichever upserts are refused or cut off on the way.         *)
ItemsInTurn == ~overlapped => ItemsOfOneSnapshot

(* "stale offline snapshots (older clientUpdatedAt) are ignored": as long  *)
(* as no two upserts overlap, an OPEN cart never goes back to an older     *)
(* snapshot of the till, in whatever order the snapshots arrive.           *)
NewerInTurn ==
    [][~overlapped' =>
         \A c \in Carts : \A q \in rows[c].items, r \in rows'[c].items :
            rows[c].status = "OPEN" /\ rows'[c].status = "OPEN" => Stamp[q] <= Stamp[r]]_vars

(* Who waits for whom: for the rows a table is taken from, for those who   *)
(* delete the same lines, and for the row of the cart itself.              *)
WaitsFor(r, q) ==
    /\ q # r
    /\ \/ pc[r] = "release" /\ locks[q] \cap released[r] # {}
       \/ pc[r] = "delete" /\ pc[q] \in {"write", "commit"} /\ removed[q] \cap removed[r] # {}
       \/ pc[r] = "write" /\ CartOf[r] \in locks[q]
Deadlocked(set) == set # {} /\ \A r \in set : \E q \in set : WaitsFor(r, q)

(* Upserts wait for each other in a circle only if two of them have taken  *)
(* a table from other carts (pos.service.ts:220-229): tills that save one  *)
(* cart over and over, or carts without a table, are cut off by no         *)
(* deadlock, however many of them overlap.                                 *)
TookTable(r) == locks[r] \ {CartOf[r]} # {}

DeadlocksNeedTwoTables ==
    \A set \in SUBSET Requests :
        Deadlocked(set) => \E q, r \in set : q # r /\ TookTable(q) /\ TookTable(r)

(* "Last-write-wins": when all snapshots are in and none failed, an OPEN   *)
(* cart shows the newest one.                                              *)
Newest(r) == \A q \in Requests : CartOf[q] = CartOf[r] => Stamp[q] <= Stamp[r]

LastWriteWins ==
    (\A r \in Requests : resp[r] \in {"applied", "stale"})
        => \A r \in Requests : Newest(r) => rows[CartOf[r]].items = {r}
===============================================================================
