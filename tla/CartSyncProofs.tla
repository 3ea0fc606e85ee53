---------------------------- MODULE CartSyncProofs ----------------------------
(***************************************************************************)
(* In turn, cart snapshots do what the floor plan shows: as long as no two *)
(* upserts overlap, a table leads to one cart and a cart has the lines of  *)
(* one snapshot, for any number of carts, tables and requests.             *)
(***************************************************************************)
EXTENDS CartSync, FiniteSetTheorems, TLAPS

Steps == {"new", "table", "release", "items", "delete", "write", "commit", "done"}

AnyRow == [status : {"none", "OPEN", "CHECKED_OUT"}, table : Tables \cup {NoTable},
           updatedAt : Int, items : SUBSET Requests]

CartTyped ==
    /\ rows \in [Carts -> AnyRow]
    /\ now \in Int
    /\ pc \in [Requests -> Steps]
    /\ seen \in [Requests -> AnyRow]
    /\ released \in [Requests -> SUBSET Carts]
    /\ removed \in [Requests -> SUBSET Requests]
    /\ writtenAt \in [Requests -> Int]

OneAtATime == \A q, r \in Requests : Open(q) /\ Open(r) => q = r

(* What a request read is still there, since nobody else writes.           *)
Current(r) == Open(r) => seen[r] = rows[CartOf[r]]

(* It takes the table from all who have it, and deletes all the lines.     *)
Releases(r) ==
    /\ pc[r] \in {"new", "table"} => released[r] = {}
    /\ pc[r] = "release" => TableOf[r] \in Tables
    /\ pc[r] \in {"release", "items", "delete", "write", "commit"} =>
          released[r] = IF TableOf[r] \in Tables THEN Occupants(r) ELSE {}
Removes(r) ==
    /\ pc[r] \in {"new", "table", "release", "items"} => removed[r] = {}
    /\ pc[r] \in {"delete", "write", "commit"} => removed[r] = rows[CartOf[r]].items

AbsentIsEmpty == \A c \in Carts : ~Exists(rows[c]) => rows[c].items = {}

InTurn ==
    /\ OneAtATime /\ AbsentIsEmpty /\ OneCartPerTable /\ ItemsOfOneSnapshot
    /\ \A r \in Requests : Current(r) /\ Releases(r) /\ Removes(r)

CartInv == CartTyped /\ (~overlapped => InTurn)
-------------------------------------------------------------------------------
LEMMA InitCartInv == Init => CartInv
<1> SUFFICES ASSUME Init PROVE CartInv
  OBVIOUS
<1>1. CartTyped
  BY DEF Init, CartTyped, AnyRow, NoRow, Steps
<1>2. OneAtATime /\ AbsentIsEmpty /\ OneCartPerTable
  BY CartAssumption DEF Init, OneAtATime, AbsentIsEmpty, OneCartPerTable, NoRow, Open, Exists
<1>3. ItemsOfOneSnapshot
  <2>1. \A c \in Carts : rows[c].items = {}
    BY DEF Init, NoRow
  <2>2. Cardinality({}) = 0
    BY FS_EmptySet
  <2> QED
    BY <2>1, <2>2 DEF ItemsOfOneSnapshot
<1>4. \A r \in Requests : Current(r) /\ Releases(r) /\ Removes(r)
  BY DEF Init, Current, Releases, Removes, Open
<1> QED
  BY <1>1, <1>2, <1>3, <1>4 DEF CartInv, InTurn

(* A request that goes on without writing a row disturbs no other.         *)
LEMMA QuietStep ==
    ASSUME InTurn, NEW r \in Requests, rows' = rows,
           \A q \in Requests \ {r} : /\ pc'[q] = pc[q] /\ seen'[q] = seen[q]
                                     /\ released'[q] = released[q] /\ removed'[q] = removed[q],
           Open(r)' => \A q \in Requests \ {r} : ~Open(q),
           Current(r)', Releases(r)', Removes(r)'
    PROVE InTurn'
<1>1. OneAtATime'
  BY DEF InTurn, OneAtATime, Open
<1>2. AbsentIsEmpty' /\ OneCartPerTable' /\ ItemsOfOneSnapshot'
  BY DEF InTurn, AbsentIsEmpty, OneCartPerTable, ItemsOfOneSnapshot, Exists
<1>3. ASSUME NEW q \in Requests \ {r} PROVE Current(q)' /\ Releases(q)' /\ Removes(q)'
  <2>1. Current(q) /\ Releases(q) /\ Removes(q)
    BY DEF InTurn
  <2>2. Occupants(q)' = Occupants(q)
    BY DEF Occupants
  <2>3. Current(q)'
    BY <2>1 DEF Current, Open
  <2>4. Releases(q)'
    BY <2>1, <2>2 DEF Releases
  <2>5. Removes(q)'
    BY <2>1 DEF Removes
  <2> QED
    BY <2>3, <2>4, <2>5
<1> QED
  BY <1>1, <1>2, <1>3 DEF InTurn

(* The one that writes has taken the table from all who had it and leaves  *)
(* its own lines only.                                                     *)
LEMMA CommitStep ==
    ASSUME CartTyped, InTurn, NEW r \in Requests, Commit(r) PROVE InTurn'
<1> DEFINE c == CartOf[r]
<1>0. c \in Carts /\ TableOf[r] \in Tables \cup {NoTable, KeepTable} /\ NoTable \notin Tables /\ KeepTable \notin Tables
        /\ (TableOf[r] = KeepTable => StatusOf[r] = "CHECKED_OUT") /\ StatusOf[r] \in {"OPEN", "CHECKED_OUT"}
  BY CartAssumption
<1>1. /\ rows'[c].status = StatusOf[r] /\ rows'[c].table = TableAfter(r)
      /\ rows'[c].items = (rows[c].items \ removed[r]) \cup {r}
  <2>1. rows'[c] = [status |-> StatusOf[r], table |-> TableAfter(r), updatedAt |-> writtenAt[r],
                    items |-> (rows[c].items \ removed[r]) \cup {r}]
    BY <1>0 DEF Commit
  <2> QED
    BY <2>1
<1>2. pc[r] = "commit" /\ Open(r) /\ Releases(r) /\ Removes(r)
  BY DEF Commit, InTurn, Open
<1>3. pc' = [pc EXCEPT ![r] = "done"] /\ seen' = [seen EXCEPT ![r] = NoRow]
        /\ released' = [released EXCEPT ![r] = {}] /\ removed' = [removed EXCEPT ![r] = {}]
  BY DEF Commit, Finish
<1>4. rows'[c].items = {r} /\ rows'[c].status = StatusOf[r] /\ rows'[c].table = TableAfter(r)
  <2>1. removed[r] = rows[c].items
    BY <1>2 DEF Removes
  <2>2. (rows[c].items \ removed[r]) \cup {r} = {r}
    BY <2>1
  <2> QED
    BY <1>1, <2>2, SMT
<1>5. ASSUME NEW d \in Carts \ {c}
      PROVE /\ rows'[d].items = rows[d].items /\ rows'[d].status = rows[d].status
            /\ rows'[d].table = IF d \in released[r] THEN NoTable ELSE rows[d].table
  <2>1. rows[d] \in AnyRow
    BY DEF CartTyped
  <2>2. CASE d \in released[r]
    <3>1. rows'[d] = [rows[d] EXCEPT !.table = NoTable, !.updatedAt = writtenAt[r]]
      BY <2>2 DEF Commit
    <3> QED
      BY <2>1, <2>2, <3>1 DEF AnyRow
  <2>3. CASE d \notin released[r]
    <3>1. rows'[d] = rows[d]
      BY <2>3 DEF Commit
    <3> QED
      BY <2>3, <3>1
  <2> QED
    BY <2>2, <2>3
<1>6. ASSUME NEW q \in Requests PROVE ~Open(q)' /\ (q # r => ~Open(q))
  BY <1>2, <1>3 DEF InTurn, OneAtATime, Open, CartTyped
<1>7. OneAtATime'
  BY <1>6 DEF OneAtATime
<1>8. AbsentIsEmpty'
  <2> SUFFICES ASSUME NEW d \in Carts, rows'[d].status = "none" PROVE rows'[d].items = {}
    BY DEF AbsentIsEmpty, Exists
  <2> QED
    BY <1>0, <1>4, <1>5 DEF InTurn, AbsentIsEmpty, Exists
<1>9. ItemsOfOneSnapshot'
  <2> SUFFICES ASSUME NEW d \in Carts PROVE Cardinality(rows'[d].items) <= 1
    BY DEF ItemsOfOneSnapshot
  <2>1. CASE d = c
    <3>1. Cardinality({r}) = 1
      BY FS_Singleton
    <3> QED
      BY <2>1, <1>4, <3>1
  <2>2. CASE d # c
    BY <2>2, <1>5 DEF InTurn, ItemsOfOneSnapshot
  <2> QED
    BY <2>1, <2>2
<1>10. OneCartPerTable'
  <2>1. ASSUME NEW d \in Carts \ {c}, rows'[c].status = "OPEN", rows'[d].status = "OPEN",
               rows'[c].table = rows'[d].table, rows'[c].table \in Tables
        PROVE FALSE
    <3>1. TableOf[r] \in Tables /\ rows'[c].table = TableOf[r]
      BY <2>1, <1>0, <1>4 DEF TableAfter
    <3>2. released[r] = Occupants(r)
      BY <3>1, <1>2 DEF Releases
    <3>3. d \in released[r] \/ rows[d].table # TableOf[r]
      BY <2>1, <1>5, <3>2 DEF Occupants
    <3> QED
      BY <3>1, <3>3, <2>1, <1>5, <1>0
  <2>2. ASSUME NEW d \in Carts \ {c}, NEW b \in Carts \ {c}, rows'[b].status = "OPEN", rows'[d].status = "OPEN",
               rows'[b].table = rows'[d].table, rows'[b].table \in Tables
        PROVE b = d
    BY <2>2, <1>0, <1>5 DEF InTurn, OneCartPerTable
  <2> QED
    BY <2>1, <2>2 DEF OneCartPerTable
<1>11. ASSUME NEW q \in Requests PROVE Current(q)' /\ Releases(q)' /\ Removes(q)'
  <2>1. Current(q)'
    BY <1>6 DEF Current
  <2>2. CASE q = r
    BY <2>2, <1>3, <2>1 DEF Releases, Removes, CartTyped
  <2>3. CASE q # r
    <3>1. pc[q] \in {"new", "done"} /\ pc'[q] = pc[q] /\ released'[q] = released[q] /\ removed'[q] = removed[q]
      BY <2>3, <1>3, <1>6 DEF Open, CartTyped
    <3>2. pc[q] = "new" => released[q] = {} /\ removed[q] = {}
      BY DEF InTurn, Releases, Removes
    <3> QED
      BY <2>1, <3>1, <3>2 DEF Releases, Removes
  <2> QED
    BY <2>2, <2>3
<1> QED
  BY <1>7, <1>8, <1>9, <1>10, <1>11 DEF InTurn

LEMMA TypedStep == CartTyped /\ [Next]_vars => CartTyped'
<1> SUFFICES ASSUME CartTyped, [Next]_vars PROVE CartTyped'
  OBVIOUS
<1> USE DEF CartTyped, Steps
<1>0. NoRow \in AnyRow
  BY DEF NoRow, AnyRow
<1>10. CartOf \in [Requests -> Carts]
  BY CartAssumption
<1>1. CASE UNCHANGED vars
  BY <1>1 DEF vars
<1>2. CASE Tick
  BY <1>2 DEF Tick
<1>3. ASSUME NEW r \in Requests, LeaveTables(r) \/ NoItemsYet(r) \/ DeleteItems(r) PROVE CartTyped'
  BY <1>3 DEF LeaveTables, NoItemsYet, DeleteItems, Goto
<1>9. ASSUME NEW r \in Requests, Read(r) PROVE CartTyped'
  BY <1>9, <1>10 DEF Read, Goto
<1>4. ASSUME NEW r \in Requests, FindOccupants(r) \/ ReleaseTable(r) PROVE CartTyped'
  <2>1. Occupants(r) \in SUBSET Carts /\ released[r] \cap Occupants(r) \in SUBSET Carts
    BY DEF Occupants
  <2>2. CASE FindOccupants(r)
    BY <2>1, <2>2 DEF FindOccupants, Goto
  <2>3. CASE ReleaseTable(r)
    BY <2>1, <2>3 DEF ReleaseTable, Goto
  <2> QED
    BY <1>4, <2>2, <2>3
<1>5. ASSUME NEW r \in Requests, FindItems(r) PROVE CartTyped'
  <2>1. CartOf[r] \in Carts
    BY CartAssumption
  <2>2. rows[CartOf[r]].items \in SUBSET Requests
    BY <2>1 DEF AnyRow
  <2> QED
    BY <1>5, <2>2 DEF FindItems, Goto
<1>6. ASSUME NEW r \in Requests, WriteRow(r) PROVE CartTyped'
  BY <1>6 DEF WriteRow, Goto
<1>7. ASSUME NEW r \in Requests, Finish(r, "stale") \/ Finish(r, "rejected") \/ Finish(r, "failed"), rows' = rows
      PROVE CartTyped'
  BY <1>0, <1>7 DEF Finish
<1>8. ASSUME NEW r \in Requests, Commit(r) PROVE CartTyped'
  <2>1. StatusOf[r] \in {"OPEN", "CHECKED_OUT"}
    BY CartAssumption
  <2>2. TableAfter(r) \in Tables \cup {NoTable}
    BY CartAssumption DEF TableAfter, AnyRow
  <2>3. ASSUME NEW d \in Carts PROVE rows'[d] \in AnyRow
    <3>1. rows[d] \in AnyRow /\ writtenAt[r] \in Int
      OBVIOUS
    <3>2. CASE d = CartOf[r]
      <4>1. rows'[d] = [status |-> StatusOf[r], table |-> TableAfter(r), updatedAt |-> writtenAt[r],
                        items |-> (rows[d].items \ removed[r]) \cup {r}]
        BY <1>8, <3>2 DEF Commit
      <4> QED
        BY <2>1, <2>2, <3>1, <4>1 DEF AnyRow
    <3>3. CASE d # CartOf[r]
      <4>1. rows'[d] = rows[d] \/ rows'[d] = [rows[d] EXCEPT !.table = NoTable, !.updatedAt = writtenAt[r]]
        BY <1>8, <3>3 DEF Commit
      <4> QED
        BY <3>1, <4>1 DEF AnyRow
    <3> QED
      BY <3>2, <3>3
  <2>4. rows' = [d \in Carts |-> rows'[d]]
    BY <1>8 DEF Commit
  <2>5. rows' \in [Carts -> AnyRow]
    BY <2>3, <2>4
  <2> QED
    <3>1. Finish(r, "applied")
      BY <1>8 DEF Commit
    <3> QED
      BY <1>0, <2>5, <3>1 DEF Finish
<1> QED
  BY <1>1, <1>2, <1>3, <1>4, <1>5, <1>6, <1>7, <1>8, <1>9
  DEF Next, Run, TimeOut, IgnoreStale, Refuse, CreateRace

LEMMA InTurnStep == CartInv /\ [Next]_vars /\ ~overlapped' => InTurn'
<1> SUFFICES ASSUME CartInv, [Next]_vars, ~overlapped' PROVE InTurn'
  OBVIOUS
<1>0. CartTyped /\ (~overlapped => InTurn)
  BY DEF CartInv
<1>1. CASE UNCHANGED <<rows, pc, seen, released, removed, overlapped>>
  BY <1>0, <1>1
  DEF InTurn, OneAtATime, AbsentIsEmpty, OneCartPerTable, ItemsOfOneSnapshot, Current, Releases, Removes,
      Open, Exists, Occupants
<1>2. ASSUME NEW r \in Requests, Read(r) PROVE InTurn'
  <2>1. InTurn /\ rows' = rows /\ \A q \in Requests : ~Open(q)
    BY <1>0, <1>2 DEF Read
  <2>2. pc' = [pc EXCEPT ![r] = "table"] /\ seen' = [seen EXCEPT ![r] = rows[CartOf[r]]]
           /\ released' = released /\ removed' = removed /\ pc[r] = "new"
    BY <1>2 DEF Read, Goto
  <2>3. released[r] = {} /\ removed[r] = {}
    BY <2>1, <2>2 DEF InTurn, Releases, Removes
  <2>4. pc'[r] = "table" /\ seen'[r] = rows[CartOf[r]]
    BY <2>2, <1>0 DEF CartTyped
  <2>5. \A q \in Requests \ {r} : pc'[q] = pc[q] /\ seen'[q] = seen[q]
    BY <2>2, <1>0 DEF CartTyped
  <2>6. Current(r)' /\ Releases(r)' /\ Removes(r)'
    BY <2>1, <2>2, <2>3, <2>4 DEF Current, Releases, Removes
  <2> QED
    BY <2>1, <2>2, <2>5, <2>6, QuietStep
<1>3. ASSUME NEW r \in Requests, rows' = rows, overlapped' = overlapped,
             Finish(r, "stale") \/ Finish(r, "rejected") \/ Finish(r, "failed")
      PROVE InTurn'
  <2>1. InTurn
    BY <1>0, <1>3
  <2>2. pc'[r] = "done"
    BY <1>0, <1>3 DEF Finish, CartTyped
  <2>3. \A q \in Requests \ {r} : pc'[q] = pc[q] /\ seen'[q] = seen[q] /\ released'[q] = released[q]
                                     /\ removed'[q] = removed[q]
    BY <1>0, <1>3 DEF Finish, CartTyped
  <2>4. ~Open(r)' /\ Current(r)' /\ Releases(r)' /\ Removes(r)'
    BY <2>2 DEF Open, Current, Releases, Removes
  <2> QED
    BY <1>3, <2>1, <2>3, <2>4, QuietStep
<1>4. ASSUME NEW r \in Requests, rows' = rows, seen' = seen, overlapped' = overlapped, Open(r),
             \A q \in Requests \ {r} : pc'[q] = pc[q] /\ released'[q] = released[q] /\ removed'[q] = removed[q],
             Releases(r)', Removes(r)'
      PROVE InTurn'
  <2>1. InTurn
    BY <1>0, <1>4
  <2>2. \A q \in Requests \ {r} : ~Open(q)
    BY <1>4, <2>1 DEF InTurn, OneAtATime
  <2>3. Current(r)'
    BY <1>4, <2>1 DEF InTurn, Current
  <2> QED
    BY <1>4, <2>1, <2>2, <2>3, QuietStep
<1>5. ASSUME NEW r \in Requests, FindOccupants(r) \/ ReleaseTable(r) \/ LeaveTables(r) PROVE InTurn'
  <2>1. InTurn
    BY <1>0, <1>5 DEF FindOccupants, ReleaseTable, LeaveTables
  <2>2. Releases(r) /\ Removes(r)
    BY <2>1 DEF InTurn
  <2>3. rows' = rows /\ seen' = seen /\ removed' = removed /\ overlapped' = overlapped /\ Open(r)
          /\ \A q \in Requests \ {r} : pc'[q] = pc[q] /\ released'[q] = released[q]
    BY <1>0, <1>5 DEF FindOccupants, ReleaseTable, LeaveTables, Goto, Open, CartTyped
  <2>4. Occupants(r)' = Occupants(r)
    BY <2>3 DEF Occupants
  <2>5. CASE FindOccupants(r)
    <3>1. pc'[r] = "release" /\ released'[r] = Occupants(r) /\ TableOf[r] \in Tables /\ pc[r] = "table"
      BY <1>0, <2>5 DEF FindOccupants, Goto, CartTyped
    <3> QED
      BY <2>2, <2>3, <2>4, <3>1, <1>4 DEF Releases, Removes
  <2>6. CASE ReleaseTable(r)
    <3>1. pc'[r] = "items" /\ released'[r] = released[r] \cap Occupants(r) /\ pc[r] = "release"
      BY <1>0, <2>6 DEF ReleaseTable, Goto, CartTyped
    <3> QED
      BY <2>2, <2>3, <2>4, <3>1, <1>4 DEF Releases, Removes
  <2>7. CASE LeaveTables(r)
    <3>1. pc'[r] = "items" /\ released'[r] = released[r] /\ TableOf[r] \notin Tables /\ pc[r] = "table"
      BY <1>0, <2>7 DEF LeaveTables, Goto, CartTyped
    <3> QED
      BY <2>2, <2>3, <2>4, <3>1, <1>4 DEF Releases, Removes
  <2> QED
    BY <1>5, <2>5, <2>6, <2>7
<1>6. ASSUME NEW r \in Requests, FindItems(r) \/ DeleteItems(r) \/ NoItemsYet(r) \/ WriteRow(r) PROVE InTurn'
  <2>1. InTurn
    BY <1>0, <1>6 DEF FindItems, DeleteItems, NoItemsYet, WriteRow
  <2>2. Releases(r) /\ Removes(r) /\ Current(r)
    BY <2>1 DEF InTurn
  <2>3. rows' = rows /\ seen' = seen /\ released' = released /\ overlapped' = overlapped /\ Open(r)
          /\ \A q \in Requests \ {r} : pc'[q] = pc[q] /\ removed'[q] = removed[q]
    BY <1>0, <1>6 DEF FindItems, DeleteItems, NoItemsYet, WriteRow, Goto, Open, CartTyped
  <2>4. Occupants(r)' = Occupants(r)
    BY <2>3 DEF Occupants
  <2>5. pc[r] \in {"items", "delete", "write"} /\ pc'[r] \in {"delete", "write", "commit"}
    BY <1>0, <1>6 DEF FindItems, DeleteItems, NoItemsYet, WriteRow, Goto, CartTyped
  <2>6. Releases(r)'
    BY <2>2, <2>3, <2>4, <2>5 DEF Releases
  <2>7. CASE FindItems(r)
    <3>1. removed'[r] = rows[CartOf[r]].items
      BY <1>0, <2>7 DEF FindItems, CartTyped
    <3> QED
      BY <2>3, <2>5, <2>6, <3>1, <1>4 DEF Removes
  <2>8. CASE DeleteItems(r) \/ WriteRow(r)
    <3>1. removed' = removed /\ pc[r] \in {"delete", "write"}
      BY <2>8 DEF DeleteItems, WriteRow
    <3> QED
      BY <2>2, <2>3, <2>5, <2>6, <3>1, <1>4 DEF Removes
  <2>9. CASE NoItemsYet(r)
    <3>1. removed' = removed /\ pc[r] = "items" /\ ~Exists(rows[CartOf[r]])
      BY <2>2, <2>3, <2>9 DEF NoItemsYet, Current
    <3>2. rows[CartOf[r]].items = {} /\ removed[r] = {}
      BY <2>1, <2>2, <3>1, CartAssumption DEF InTurn, AbsentIsEmpty, Removes
    <3> QED
      BY <2>3, <2>5, <2>6, <3>1, <3>2, <1>4 DEF Removes
  <2> QED
    BY <1>6, <2>7, <2>8, <2>9
<1>7. ASSUME NEW r \in Requests, Commit(r) PROVE InTurn'
  BY <1>0, <1>7, CommitStep DEF Commit, Finish
<1>8. ASSUME NEW r \in Requests, IgnoreStale(r) \/ Refuse(r) \/ CreateRace(r) \/ TimeOut(r) PROVE InTurn'
  BY <1>3, <1>8 DEF IgnoreStale, Refuse, CreateRace, TimeOut, Finish
<1> QED
  BY <1>1, <1>2, <1>5, <1>6, <1>7, <1>8 DEF Next, Run, Tick, vars

LEMMA NextCartInv == CartInv /\ [Next]_vars => CartInv'
  BY InTurnStep, TypedStep DEF CartInv
-------------------------------------------------------------------------------
(* "One active OPEN cart per table" (pos.service.ts:220): as long as no    *)
(* two upserts overlap, a table leads to one cart.                         *)
THEOREM TablesLeadToOneCart == Spec => []TablesInTurn
<1>1. CartInv => TablesInTurn
  BY DEF CartInv, InTurn, TablesInTurn
<1> QED
  BY <1>1, InitCartInv, NextCartInv, PTL DEF Spec

(* As long as no two upserts overlap, a cart holds the lines of one        *)
(* snapshot: those of the one before it are deleted (pos.service.ts:241).  *)
THEOREM CartsHoldOneSnapshot == Spec => []ItemsInTurn
<1>1. CartInv => ItemsInTurn
  BY DEF CartInv, InTurn, ItemsInTurn
<1> QED
  BY <1>1, InitCartInv, NextCartInv, PTL DEF Spec

-------------------------------------------------------------------------------
(* What an upsert has locked are the rows it took a table from, never its  *)
(* own before the last statement; the lines it deletes are of its cart.    *)
LinesOf(c) == {q \in Requests : CartOf[q] = c}
Holds(r) ==
    /\ CartOf[r] \notin released[r]
    /\ pc[r] \in {"new", "table", "release", "done"} => locks[r] = {}
    /\ pc[r] \in {"items", "delete", "write"} => locks[r] \subseteq released[r]
    /\ removed[r] \subseteq LinesOf(CartOf[r])

LockInv ==
    /\ CartTyped
    /\ locks \in [Requests -> SUBSET Carts]
    /\ \A c \in Carts : rows[c].items \subseteq LinesOf(c)
    /\ \A r \in Requests : Holds(r)

LEMMA InitLockInv == Init => LockInv
<1> SUFFICES ASSUME Init PROVE LockInv
  OBVIOUS
<1>1. CartTyped
  BY InitCartInv DEF CartInv
<1>2. \A c \in Carts : rows[c].items = {}
  BY DEF Init, NoRow
<1> QED
  BY <1>1, <1>2 DEF Init, LockInv, Holds

LEMMA NextLockInv == LockInv /\ [Next]_vars => LockInv'
<1> SUFFICES ASSUME LockInv, [Next]_vars PROVE LockInv'
  OBVIOUS
<1> USE DEF LockInv
<1>1. CartTyped'
  BY TypedStep
<1>2. ASSUME NEW q \in Requests, pc'[q] = pc[q], released'[q] = released[q],
             removed'[q] = removed[q], locks'[q] = locks[q]
      PROVE  Holds(q)'
  BY <1>2 DEF Holds
<1>3. CASE UNCHANGED <<rows, pc, released, removed, locks>>
  BY <1>1, <1>2, <1>3
<1>4. ASSUME NEW r \in Requests, NEW answer, Finish(r, answer)
      PROVE  locks' \in [Requests -> SUBSET Carts] /\ \A q \in Requests : Holds(q)'
  <2>1. ASSUME NEW q \in Requests PROVE Holds(q)'
    <3>1. CASE q = r
      BY <1>4, <3>1 DEF Finish, Holds, CartTyped
    <3>2. CASE q # r
      BY <1>2, <1>4, <3>2 DEF Finish, CartTyped
    <3> QED
      BY <3>1, <3>2
  <2> QED
    BY <1>4, <2>1 DEF Finish
<1>5. ASSUME NEW r \in Requests, rows' = rows, locks' \in [Requests -> SUBSET Carts],
             \A q \in Requests \ {r} : /\ pc'[q] = pc[q] /\ released'[q] = released[q]
                                       /\ removed'[q] = removed[q] /\ locks'[q] = locks[q],
             Holds(r)'
      PROVE  LockInv'
  BY <1>1, <1>2, <1>5
<1>6. ASSUME NEW r \in Requests,
             Read(r) \/ LeaveTables(r) \/ DeleteItems(r) \/ NoItemsYet(r)
      PROVE  LockInv'
  <2>1. /\ UNCHANGED <<rows, locks, released, removed>>
        /\ \A q \in Requests \ {r} : pc'[q] = pc[q]
    BY <1>6 DEF Read, LeaveTables, DeleteItems, NoItemsYet, Goto, CartTyped
  <2>2. Holds(r) /\ /\ pc'[r] \in {"table", "items", "write"}
                    /\ pc'[r] = "table" => pc[r] = "new"
                    /\ pc'[r] = "items" => pc[r] = "table"
                    /\ pc'[r] = "write" => pc[r] \in {"delete", "items"}
    BY <1>6 DEF Read, LeaveTables, DeleteItems, NoItemsYet, Goto, CartTyped
  <2>3. Holds(r)'
    BY <2>1, <2>2 DEF Holds
  <2> QED
    BY <1>5, <2>1, <2>3
<1>7. ASSUME NEW r \in Requests, FindOccupants(r) PROVE LockInv'
  <2>1. /\ UNCHANGED <<rows, locks, removed>> /\ pc[r] = "table" /\ pc'[r] = "release"
        /\ released'[r] = Occupants(r)
        /\ \A q \in Requests \ {r} : pc'[q] = pc[q] /\ released'[q] = released[q]
    BY <1>7 DEF FindOccupants, Goto, CartTyped
  <2>2. Holds(r)'
    BY <2>1 DEF Holds, Occupants
  <2> QED
    BY <1>5, <2>1, <2>2
<1>8. ASSUME NEW r \in Requests, ReleaseTable(r) PROVE LockInv'
  <2>1. /\ UNCHANGED <<rows, removed>> /\ pc[r] = "release" /\ pc'[r] = "items"
        /\ released'[r] = released[r] \cap Occupants(r)
        /\ locks'[r] = locks[r] \cup (released[r] \cap Occupants(r))
        /\ \A q \in Requests \ {r} : /\ pc'[q] = pc[q] /\ released'[q] = released[q]
                                     /\ locks'[q] = locks[q]
    BY <1>8 DEF ReleaseTable, Goto, CartTyped
  <2>2. Holds(r)'
    BY <2>1 DEF Holds
  <2>3. locks' \in [Requests -> SUBSET Carts]
    BY <1>8 DEF ReleaseTable, CartTyped
  <2> QED
    BY <1>5, <2>1, <2>2, <2>3
<1>9. ASSUME NEW r \in Requests, FindItems(r) PROVE LockInv'
  <2>1. /\ UNCHANGED <<rows, locks, released>> /\ pc[r] = "items" /\ pc'[r] = "delete"
        /\ removed'[r] = rows[CartOf[r]].items /\ CartOf[r] \in Carts
        /\ \A q \in Requests \ {r} : pc'[q] = pc[q] /\ removed'[q] = removed[q]
    BY <1>9, CartAssumption DEF FindItems, Goto, CartTyped
  <2>2. Holds(r)'
    BY <2>1 DEF Holds
  <2> QED
    BY <1>5, <2>1, <2>2
<1>10. ASSUME NEW r \in Requests, WriteRow(r) PROVE LockInv'
  <2>1. /\ UNCHANGED <<rows, removed, released>> /\ pc'[r] = "commit"
        /\ \A q \in Requests \ {r} : pc'[q] = pc[q] /\ locks'[q] = locks[q]
    BY <1>10 DEF WriteRow, Goto, CartTyped
  <2>2. Holds(r)'
    BY <2>1 DEF Holds
  <2>3. locks' \in [Requests -> SUBSET Carts]
    BY <1>10, CartAssumption DEF WriteRow
  <2> QED
    BY <1>5, <2>1, <2>2, <2>3
<1>11. ASSUME NEW r \in Requests, Commit(r) PROVE LockInv'
  <2>1. ASSUME NEW c \in Carts PROVE rows'[c].items \subseteq LinesOf(c)
    <3>1. rows[c] \in AnyRow
      BY DEF CartTyped
    <3>2. CASE c = CartOf[r]
      <4>1. rows'[c] = [status |-> StatusOf[r], table |-> TableAfter(r), updatedAt |-> writtenAt[r],
                        items |-> (rows[c].items \ removed[r]) \cup {r}]
        BY <1>11, <3>2 DEF Commit
      <4> QED
        BY <3>2, <4>1 DEF LinesOf
    <3>3. CASE c # CartOf[r]
      <4>1. rows'[c] = rows[c] \/ rows'[c] = [rows[c] EXCEPT !.table = NoTable, !.updatedAt = writtenAt[r]]
        BY <1>11, <3>3 DEF Commit
      <4>2. rows'[c].items = rows[c].items
        BY <3>1, <4>1 DEF AnyRow
      <4> QED
        BY <4>2 DEF LinesOf
    <3> QED
      BY <3>2, <3>3
  <2> QED
    BY <1>1, <1>4, <1>11, <2>1 DEF Commit
<1>12. ASSUME NEW r \in Requests, NEW answer, Finish(r, answer), rows' = rows PROVE LockInv'
  BY <1>1, <1>4, <1>12
<1>13. ASSUME NEW r \in Requests, IgnoreStale(r) \/ Refuse(r) \/ CreateRace(r) \/ TimeOut(r)
       PROVE  LockInv'
  BY <1>12, <1>13 DEF IgnoreStale, Refuse, CreateRace, TimeOut
<1> QED
  BY <1>3, <1>6, <1>7, <1>8, <1>9, <1>10, <1>11, <1>13 DEF Next, Run, Tick, vars

(* Follow the circle: who waits, waits for one that holds rows, or for one *)
(* that deletes the same lines and itself waits for the row of its cart.   *)
LEMMA CirclesTakeTables ==
    ASSUME LockInv, NEW set \in SUBSET Requests, Deadlocked(set)
    PROVE  \E q, r \in set : q # r /\ TookTable(q) /\ TookTable(r)
<1>1. ASSUME NEW r \in set
      PROVE  /\ pc[r] \in {"release", "delete", "write"} /\ Holds(r) /\ r \in Requests
             /\ \E q \in set : WaitsFor(r, q)
  BY <1>1 DEF Deadlocked, WaitsFor, LockInv
<1>2. ASSUME NEW r \in set, locks[r] # {} PROVE TookTable(r)
  BY <1>1, <1>2 DEF Holds, TookTable
<1>3. ASSUME NEW r \in set, pc[r] \in {"release", "write"}
      PROVE  \E q \in set : q # r /\ TookTable(q)
  <2>1. PICK q \in set : WaitsFor(r, q)
    BY <1>1
  <2>2. q # r /\ locks[q] # {}
    BY <1>3, <2>1 DEF WaitsFor
  <2> QED
    BY <1>2, <2>2
<1>4. ASSUME NEW r \in set, pc[r] = "delete"
      PROVE  \E q \in set : q # r /\ TookTable(q)
  <2>1. PICK q \in set : WaitsFor(r, q)
    BY <1>1
  <2>2. pc[q] = "write" /\ removed[q] \cap removed[r] # {}
    BY <1>1, <1>4, <2>1 DEF WaitsFor
  <2>3. CartOf[q] = CartOf[r]
    BY <1>1, <2>2 DEF Holds, LinesOf
  <2>4. PICK t \in set : WaitsFor(q, t)
    BY <1>1
  <2>5. CartOf[r] \in locks[t]
    BY <2>2, <2>3, <2>4 DEF WaitsFor
  <2>6. t # r
    BY <1>1, <1>4, <2>5 DEF Holds
  <2> QED
    BY <1>2, <2>5, <2>6
<1>5. PICK q \in set : TookTable(q)
  <2>1. PICK r \in set : TRUE
    BY DEF Deadlocked
  <2> QED
    BY <1>1, <1>3, <1>4, <2>1
<1>6. PICK r \in set : r # q /\ TookTable(r)
  BY <1>1, <1>3, <1>4, <1>5
<1> QED
  BY <1>5, <1>6

(* Upserts deadlock only over tables that change hands (pos.service.ts:    *)
(* 220-229), for any number of carts, tables and overlapping requests.     *)
THEOREM OnlyTablesDeadlock == Spec => []DeadlocksNeedTwoTables
<1>1. LockInv => DeadlocksNeedTwoTables
  BY CirclesTakeTables DEF DeadlocksNeedTwoTables
<1> QED
  BY <1>1, InitLockInv, NextLockInv, PTL DEF Spec
===============================================================================
