--------------------------- MODULE PurchasingProofs ---------------------------
(***************************************************************************)
(* No order line is over-received, and every receipt leaves the right      *)
(* status on its order, for any number of orders, lines, stores and        *)
(* requests.                                                               *)
(***************************************************************************)
EXTENDS Purchasing, SumProofs

USE DEF Goto, Others

(* What the constants say of a receipt's parcel.                           *)
LEMMA ParcelFacts ==
    ASSUME NEW r \in Requests
    PROVE  /\ Len(Parcel[r]) \in Nat
           /\ Receiving(r) => 1 \in 1 .. Len(Parcel[r])
           /\ \A i \in 1 .. Len(Parcel[r]) : Parcel[r][i] \in [line : Lines, qty : Nat \ {0}]
<1> DEFINE T == [line : Lines, qty : Nat \ {0}]
<1>1. Parcel[r] \in Seq(T) /\ (Kind[r] = "receive" => Parcel[r] # <<>>)
    BY PurchasingAssumption
<1> HIDE DEF T
<1>2. Len(Parcel[r]) \in Nat /\ \A i \in 1 .. Len(Parcel[r]) : Parcel[r][i] \in T
    BY <1>1
<1>3. Kind[r] = "receive" => 1 \in 1 .. Len(Parcel[r])
    BY <1>1, <1>2
<1> QED
    BY <1>2, <1>3 DEF T, Receiving

(* The requests keep the shape their handlers give them.                   *)
LEMMA FinishWellFormed ==
    ASSUME WellFormed, NEW r \in Requests, Finish(r), received' \in [Lines -> Nat],
           status' = [o \in Orders |-> status'[o]]
    PROVE  WellFormed'
BY ParcelFacts DEF WellFormed, Finish, InParcel, Receiving, Nothing

LEMMA RollBackWellFormed ==
    ASSUME WellFormed, NEW r \in Requests, RollBack(r)
    PROVE  WellFormed'
BY FinishWellFormed DEF WellFormed, RollBack, tables

LEMMA StepWellFormed == WellFormed /\ [Next]_vars => WellFormed'
<1> SUFFICES ASSUME WellFormed, [Next]_vars PROVE WellFormed'
    OBVIOUS
<1> USE DEF InParcel, Receiving
<1>1. CASE UNCHANGED vars
    BY <1>1 DEF WellFormed, vars, tables, memory
<1>2. CASE NewDay
    BY <1>2 DEF WellFormed, NewDay, tables, memory
<1>3. ASSUME NEW r \in Requests, Run(r) PROVE WellFormed'
  <2>1. CASE ReadOrder(r)
      BY <2>1 DEF WellFormed, ReadOrder, tables
  <2>2. CASE TakeCode(r)
      BY <2>2, ParcelFacts DEF WellFormed, TakeCode, tables
  <2>3. CASE AddStock(r)
      BY <2>3 DEF WellFormed, AddStock, Lock, tables, memory
  <2>4. CASE BumpLine(r)
    <3>1. Receiving(r) /\ index[r] \in 1 .. Len(Parcel[r])
        BY <2>4 DEF WellFormed, BumpLine
    <3>2. Item(r) \in [line : Lines, qty : Nat \ {0}]
        BY <3>1, ParcelFacts DEF Item
    <3>3. got[r][Item(r).line] + Item(r).qty \in Nat
        BY <3>2 DEF WellFormed
    <3>4. got' \in [Requests -> [Lines -> Nat]]
        BY <2>4, <3>3 DEF WellFormed, BumpLine
    <3> QED
        BY <2>4, <3>1, <3>4 DEF WellFormed, BumpLine, Lock, tables, memory
  <2>5. CASE ReadSum(r)
      BY <2>5 DEF WellFormed, ReadSum, tables
  <2>6. CASE WriteCatalog(r)
    <3>1. CASE index[r] < Len(Parcel[r])
      <4>1. index' = [index EXCEPT ![r] = index[r] + 1] /\ Receiving(r)
          BY <2>6, <3>1 DEF WellFormed, WriteCatalog
      <4>2. index[r] + 1 \in 1 .. Len(Parcel[r]) /\ index[r] + 1 \in Nat
          BY <3>1, <4>1, ParcelFacts DEF WellFormed
      <4> QED
          BY <2>6, <3>1, <4>1, <4>2 DEF WellFormed, WriteCatalog, Lock, tables
    <3>2. CASE ~(index[r] < Len(Parcel[r]))
        BY <2>6, <3>2 DEF WellFormed, WriteCatalog, Lock, tables
    <3> QED
        BY <3>1, <3>2
  <2>7. CASE InsertDocument(r)
      BY <2>7 DEF WellFormed, InsertDocument, Lock, tables, memory
  <2>8. CASE ReadLines(r)
      BY <2>8 DEF WellFormed, ReadLines, tables
  <2>9. CASE WriteStatus(r)
      BY <2>9 DEF WellFormed, WriteStatus, Lock, tables, memory
  <2>10. CASE Commit(r)
    <3>1. received' \in [Lines -> Nat]
        BY <2>10 DEF WellFormed, Commit, Apply
    <3>2. status' = [status EXCEPT ![About[r]] = next[r]] /\ status = [o \in Orders |-> status[o]]
        BY <2>10 DEF WellFormed, Commit, Apply
    <3>3. status' = [o \in Orders |-> status'[o]]
        BY <3>2
    <3> QED
        BY <2>10, <3>1, <3>3, FinishWellFormed DEF Commit
  <2> QED
      BY <1>3, <2>1, <2>2, <2>3, <2>4, <2>5, <2>6, <2>7, <2>8, <2>9, <2>10, RollBackWellFormed
      DEF Run, Refuse, OverReceiveBlocked, CodeTaken, TimeOut
<1> QED
    BY <1>1, <1>2, <1>3 DEF Next

(* Rows are taken when they are free, and released all at once.            *)
LEMMA StepExclusive == WellFormed /\ Exclusive /\ [Next]_vars => Exclusive'
<1> SUFFICES ASSUME WellFormed, Exclusive, [Next]_vars PROVE Exclusive'
    OBVIOUS
<1>1. CASE UNCHANGED vars
    BY <1>1 DEF Exclusive, vars
<1>2. CASE NewDay
    BY <1>2 DEF Exclusive, NewDay
<1>3. ASSUME NEW r \in Requests, Run(r) PROVE Exclusive'
  <2>1. ASSUME NEW row, Lock(r, row) PROVE Exclusive'
      BY <2>1 DEF WellFormed, Exclusive, Lock
  <2>2. CASE Finish(r)
      BY <2>2 DEF WellFormed, Exclusive, Finish
  <2>3. CASE UNCHANGED held
      BY <2>3 DEF Exclusive
  <2> QED
      BY <1>3, <2>1, <2>2, <2>3
      DEF Run, ReadOrder, Refuse, TakeCode, AddStock, BumpLine, OverReceiveBlocked, ReadSum,
          WriteCatalog, InsertDocument, CodeTaken, ReadLines, WriteStatus, Commit, TimeOut, RollBack
<1> QED
    BY <1>1, <1>2, <1>3 DEF Next

(* What is pending on a line fits beside what is committed.                *)
LinesInv == LinesFit /\ NeverOverReceived

LEMMA StepLinesFit ==
    WellFormed /\ Exclusive /\ LinesInv /\ [Next]_vars => LinesInv'
<1> SUFFICES ASSUME WellFormed, Exclusive, LinesInv, [Next]_vars PROVE LinesInv'
    OBVIOUS
<1> USE DEF LinesInv, LinesFit, NeverOverReceived
<1>1. Ordered \in [Lines -> Nat \ {0}]
    BY PurchasingAssumption
<1>2. CASE UNCHANGED vars
    BY <1>2 DEF vars, tables
<1>3. CASE NewDay
    BY <1>3 DEF NewDay, tables
<1>4. ASSUME NEW r \in Requests, Run(r) PROVE LinesInv'
  <2>1. CASE UNCHANGED <<received, got, held>>
      BY <2>1
  <2>2. ASSUME NEW row, Lock(r, row), UNCHANGED <<received, got>> PROVE LinesInv'
      BY <2>2 DEF Lock, WellFormed
  <2>3. CASE RollBack(r)
      BY <2>3 DEF RollBack, Finish, tables, Nothing, WellFormed
  <2>4. CASE BumpLine(r)
    <3>1. Item(r) \in [line : Lines, qty : Nat \ {0}]
        BY <2>4, ParcelFacts DEF WellFormed, BumpLine, Item, InParcel
    <3> DEFINE l == Item(r).line
               n == Item(r).qty
    <3>2. l \in Lines /\ n \in Nat
        BY <3>1
    <3>3. /\ got' = [got EXCEPT ![r][l] = got[r][l] + n]
          /\ held' = [held EXCEPT ![r] = @ \cup {<<"line", l>>}]
          /\ received[l] + got[r][l] + n <= Ordered[l]
          /\ received' = received
        BY <2>4 DEF BumpLine, Lock, Fits, tables
    <3> HIDE DEF l, n
    <3>4. ASSUME NEW q \in Requests, NEW k \in Lines, got'[q][k] > 0
          PROVE  <<"line", k>> \in held'[q] /\ received'[k] + got'[q][k] <= Ordered[k]
        BY <3>2, <3>3, <3>4 DEF WellFormed
    <3> QED
        BY <3>3, <3>4
  <2>5. CASE Commit(r)
    <3>1. /\ received' = [l \in Lines |-> received[l] + got[r][l]]
          /\ got' = [got EXCEPT ![r] = Nothing]
          /\ held' = [held EXCEPT ![r] = {}]
        BY <2>5 DEF Commit, Apply, Finish
    <3>2. ASSUME NEW q \in Requests, NEW l \in Lines, got'[q][l] > 0
          PROVE  <<"line", l>> \in held'[q] /\ received'[l] + got'[q][l] <= Ordered[l]
      <4>1. q # r /\ got'[q] = got[q] /\ held'[q] = held[q]
          BY <3>1, <3>2 DEF WellFormed, Nothing
      <4>2. <<"line", l>> \in held[q] /\ received[l] + got[q][l] <= Ordered[l]
          BY <3>2, <4>1
      <4>3. got[r][l] = 0
          BY <4>1, <4>2 DEF Exclusive, WellFormed
      <4> QED
          BY <3>1, <4>1, <4>2, <4>3 DEF WellFormed
    <3>3. ASSUME NEW l \in Lines PROVE received'[l] <= Ordered[l]
      <4>1. received'[l] = received[l] + got[r][l] /\ got[r][l] \in Nat /\ received[l] \in Nat
          BY <3>1 DEF WellFormed
      <4>2. CASE got[r][l] > 0
          BY <4>1, <4>2
      <4>3. CASE got[r][l] = 0
          BY <1>1, <4>1, <4>3
      <4> QED
          BY <4>1, <4>2, <4>3
    <3> QED
        BY <3>2, <3>3
  <2> QED
      BY <1>4, <2>1, <2>2, <2>3, <2>4, <2>5
      DEF Run, ReadOrder, Refuse, TakeCode, AddStock, OverReceiveBlocked, ReadSum,
          WriteCatalog, InsertDocument, CodeTaken, ReadLines, WriteStatus, TimeOut, tables
<1> QED
    BY <1>2, <1>3, <1>4 DEF Next


(* The next code of the day follows the last one.                          *)
LEMMA NextCode ==
    ASSUME NEW r \in Requests, Receiving(r), day \in Nat \ {0},
           \A g \in receipts : g.code \in (1 .. day) \X (Nat \ {0}),
           NEW k \in Nat, UsedToday = 1 .. k
    PROVE  NextDocCode(r) = <<day, k + 1>>
<1>1. {c[2] : c \in {x \in Used(r) : x[1] = day}} = UsedToday
    BY DEF Used, Receiving, UsedToday
<1>2. Max({0} \cup 1 .. k) = k
    BY DEF Max
<1>3. NextDocCode(r) = <<day, 1 + Max({0} \cup UsedToday)>>
    BY <1>1 DEF NextDocCode
<1> QED
    BY <1>2, <1>3

(* Two receipts never get beyond the insert of their code together.        *)
LEMMA OneInserts ==
    ASSUME PurchaseInv, ~midnight, NEW q \in Requests, NEW r \in Requests,
           Receiving(q), Receiving(r), pc[q] \in Inserted, pc[r] \in Inserted
    PROVE  q = r
<1>1. \A x \in {q, r} : /\ code[x] \in {day} \X (Nat \ {0})
                        /\ 1 .. code[x][2] - 1 \subseteq UsedToday
                        /\ CodeRow(x) \in held[x]
                        /\ \A g \in receipts : g.code # code[x]
    BY DEF PurchaseInv, Serialized, CodeSerializes, Inserted
<1>2. \A g \in receipts : g.code \in (1 .. day) \X (Nat \ {0})
    BY DEF PurchaseInv, Serialized
<1>3. \A x \in {q, r} : code[x][2] \notin UsedToday
    BY <1>1, <1>2 DEF UsedToday
<1>4. code[q][2] = code[r][2]
    BY <1>1, <1>3
<1>5. CodeRow(q) = CodeRow(r)
    BY <1>1, <1>4 DEF CodeRow, Receiving
<1> QED
    BY <1>1, <1>5 DEF PurchaseInv, Exclusive

(* A request that takes no step keeps its place in the order of codes.     *)
LEMMA Undisturbed ==
    ASSUME NEW q \in Requests, CodeSerializes(q), Receiving(q),
           UNCHANGED <<day, receipts>>, \A l \in Lines : received'[l] = received[l],
           pc'[q] = pc[q], code'[q] = code[q], next'[q] = next[q],
           got'[q] = got[q], held[q] \subseteq held'[q]
    PROVE  CodeSerializes(q)'
BY DEF CodeSerializes, UsedToday, CodeRow, StatusFor, LinesOf

(* A step of r that commits nothing: it is enough to look at r.            *)
LEMMA QuietStep ==
    ASSUME WellFormed, Serialized, ~midnight, NEW r \in Requests,
           UNCHANGED <<day, midnight, receipts>>, \A l \in Lines : received'[l] = received[l],
           Receiving(r) => CodeSerializes(r)',
           \A q \in Requests \ {r} :
             /\ pc'[q] = pc[q] /\ code'[q] = code[q] /\ next'[q] = next[q]
             /\ got'[q] = got[q] /\ held'[q] = held[q]
    PROVE  Serialized'
<1>1. ASSUME NEW q \in Requests, Receiving(q) PROVE CodeSerializes(q)'
    BY <1>1, Undisturbed DEF Serialized
<1> QED
    BY <1>1 DEF Serialized, UsedToday, Receiving


(* Forgetting everything is always fine.                                   *)
LEMMA RollBackSerialized ==
    ASSUME WellFormed, Serialized, ~midnight, NEW r \in Requests, RollBack(r)
    PROVE  Serialized'
<1>1. Receiving(r) => CodeSerializes(r)'
    BY DEF WellFormed, RollBack, Finish, CodeSerializes, InParcel, Inserted
<1> QED
    BY <1>1, QuietStep DEF WellFormed, RollBack, Finish, tables

(* A committed receipt takes the next number, and no other is in its way.  *)
LEMMA CommitSerialized ==
    ASSUME PurchaseInv, ~midnight, NEW r \in Requests, Commit(r)
    PROVE  Serialized'
<1> USE DEF PurchaseInv
<1>1. /\ pc' = [pc EXCEPT ![r] = "done"] /\ held' = [held EXCEPT ![r] = {}]
      /\ got' = [got EXCEPT ![r] = Nothing] /\ code' = [code EXCEPT ![r] = NoCode]
      /\ next' = [next EXCEPT ![r] = "none"] /\ UNCHANGED <<day, midnight>>
      /\ received' = [l \in Lines |-> received[l] + got[r][l]]
    BY DEF Commit, Apply, Finish
<1>2. CodeSerializes(r)'
    BY <1>1 DEF WellFormed, CodeSerializes, InParcel, Inserted
<1>3. CASE ~Receiving(r)
  <2>1. receipts' = receipts
      BY <1>3 DEF Commit, Apply, Receiving
  <2>2. \A l \in Lines : received'[l] = received[l]
      BY <1>1, <1>3 DEF WellFormed, Nothing
  <2> QED
      BY <1>1, <1>2, <2>1, <2>2, QuietStep DEF WellFormed
<1>4. CASE Receiving(r)
  <2>1. /\ code[r] \in {day} \X (Nat \ {0})
        /\ 1 .. code[r][2] - 1 \subseteq UsedToday
        /\ \A g \in receipts : g.code # code[r]
      BY <1>4 DEF Serialized, CodeSerializes, Inserted, Commit
  <2>2. receipts' = receipts \cup {Receipt(r)} /\ Receipt(r).code = code[r]
      BY <1>4 DEF Commit, Apply, Receiving, Receipt
  <2>3. UsedToday' = UsedToday \cup {code[r][2]}
      BY <1>1, <2>1, <2>2 DEF UsedToday
  <2>4. \A g \in receipts' : g.code \in (1 .. day) \X (Nat \ {0})
      BY <2>1, <2>2 DEF Serialized
  <2>5. PICK k \in {0} \cup UsedToday : UsedToday = 1 .. k
      BY DEF Serialized
  <2>6. k \in Nat /\ code[r][2] \notin UsedToday
      BY <2>1 DEF Serialized, UsedToday
  <2>7. UsedToday' = 1 .. code[r][2]
      BY <2>1, <2>3, <2>5, <2>6
  <2>8. ASSUME NEW q \in Requests, Receiving(q) PROVE CodeSerializes(q)'
    <3>1. CASE q = r
        BY <1>2, <3>1
    <3>2. CASE q # r
      <4>1. pc[q] \notin Inserted
          BY <1>4, <2>8, <3>2, OneInserts DEF Commit, Inserted
      <4>2. pc'[q] = pc[q] /\ code'[q] = code[q]
          BY <1>1, <3>2 DEF WellFormed
      <4>3. UsedToday \subseteq UsedToday'
          BY <2>3
      <4> QED
          BY <1>1, <2>8, <4>1, <4>2, <4>3 DEF Serialized, CodeSerializes, Inserted
    <3> QED
        BY <3>1, <3>2
  <2> QED
      BY <1>1, <2>1, <2>4, <2>7, <2>8 DEF Serialized, Receiving
<1> QED
    BY <1>3, <1>4

LEMMA StepSerialized == PurchaseInv /\ [Next]_vars => Serialized'
<1> SUFFICES ASSUME PurchaseInv, [Next]_vars, ~midnight' PROVE Serialized'
    BY DEF Serialized
<1> USE DEF PurchaseInv
<1>1. CASE UNCHANGED vars
    BY <1>1 DEF vars, tables, memory, Serialized, CodeSerializes, UsedToday, CodeRow, StatusFor,
                LinesOf, Receiving
<1>2. CASE NewDay
  <2>1. ~midnight /\ day \in Nat \ {0} /\ day' = day + 1 /\ UNCHANGED <<receipts, pc, code>>
      BY <1>2 DEF NewDay, Serialized, tables, memory
  <2>2. \A r \in Requests : code[r] = NoCode
      BY <1>2 DEF NewDay
  <2>3. \A g \in receipts : g.code \in (1 .. day) \X (Nat \ {0})
      BY <2>1 DEF Serialized
  <2>4. \A g \in receipts : g.code[1] # day' /\ g.code \in (1 .. day') \X (Nat \ {0})
      BY <2>1, <2>3
  <2>5. UsedToday' = {}
      BY <2>1, <2>4 DEF UsedToday
  <2>6. UsedToday' = 1 .. 0
      BY <2>5
  <2>7. \A r \in Requests : Receiving(r) => pc[r] \notin InParcel \cup Inserted \cup {"insert"}
      BY <2>1, <2>2 DEF Serialized, CodeSerializes
  <2>8. \A r \in Requests : Receiving(r) => CodeSerializes(r)'
      BY <2>1, <2>2, <2>7 DEF CodeSerializes, InParcel, Inserted
  <2> QED
      BY <2>1, <2>4, <2>6, <2>8 DEF Serialized, Receiving
<1>3. ASSUME NEW r \in Requests, Run(r) PROVE Serialized'
  <2> USE DEF CodeSerializes, InParcel, Inserted
  <2>1. UNCHANGED midnight
      BY <1>3 DEF Run, RollBack, Finish, ReadOrder, Refuse, TakeCode, AddStock, BumpLine,
                  OverReceiveBlocked, ReadSum, WriteCatalog, InsertDocument, CodeTaken, ReadLines,
                  WriteStatus, Commit, TimeOut
  <2>2. ~midnight
      BY <2>1
  <2>3. Receiving(r) => CodeSerializes(r)
      BY <2>2 DEF Serialized
  <2>4. CASE ReadOrder(r)
    <3>1. Receiving(r) => CodeSerializes(r)'
        BY <2>3, <2>4 DEF ReadOrder, tables, WellFormed, UsedToday, CodeRow, Receiving
    <3> QED
        BY <2>2, <2>4, <3>1, QuietStep DEF ReadOrder, tables, WellFormed
  <2>5. CASE TakeCode(r)
    <3>1. Receiving(r) => CodeSerializes(r)'
      <4> SUFFICES ASSUME Receiving(r) PROVE CodeSerializes(r)'
          OBVIOUS
      <4>1. PICK k \in {0} \cup UsedToday : UsedToday = 1 .. k
          BY <2>2 DEF Serialized
      <4>2. k \in Nat /\ day \in Nat \ {0}
          BY <2>2, <4>1 DEF Serialized, UsedToday
      <4>3. NextDocCode(r) = <<day, k + 1>>
          BY <2>2, <4>1, <4>2, NextCode DEF Serialized
      <4>4. code'[r] = <<day, k + 1>> /\ pc'[r] = "stock" /\ UNCHANGED <<day, receipts>>
          BY <2>5, <4>3 DEF TakeCode, WellFormed, Receiving, tables
      <4>5. code'[r] \in {day'} \X (Nat \ {0}) /\ code'[r] # NoCode
          BY <4>2, <4>4 DEF NoCode
      <4>6. code'[r][2] - 1 = k /\ UsedToday' = UsedToday
          BY <4>2, <4>4 DEF UsedToday
      <4> QED
          BY <4>1, <4>4, <4>5, <4>6
    <3> QED
        BY <2>2, <2>5, <3>1, QuietStep DEF TakeCode, tables, WellFormed
  <2>6. CASE AddStock(r)
    <3>1. Receiving(r) => CodeSerializes(r)'
        BY <2>3, <2>6 DEF AddStock, Lock, tables, memory, WellFormed, UsedToday
    <3> QED
        BY <2>2, <2>6, <3>1, QuietStep DEF AddStock, Lock, tables, memory, WellFormed
  <2>7. CASE BumpLine(r)
    <3>1. Receiving(r) => CodeSerializes(r)'
        BY <2>3, <2>7 DEF BumpLine, Lock, tables, memory, WellFormed, UsedToday
    <3> QED
        BY <2>2, <2>7, <3>1, QuietStep DEF BumpLine, Lock, tables, memory, WellFormed
  <2>8. CASE ReadSum(r)
    <3>1. Receiving(r) => CodeSerializes(r)'
        BY <2>3, <2>8 DEF ReadSum, tables, WellFormed, UsedToday
    <3> QED
        BY <2>2, <2>8, <3>1, QuietStep DEF ReadSum, tables, WellFormed
  <2>9. CASE WriteCatalog(r)
    <3>1. pc'[r] \in {"stock", "insert"}
        BY <2>9 DEF WriteCatalog, WellFormed
    <3>2. Receiving(r) => CodeSerializes(r)'
        BY <2>3, <2>9, <3>1 DEF WriteCatalog, tables, UsedToday
    <3>3. \A q \in Requests \ {r} : pc'[q] = pc[q] /\ held'[q] = held[q]
        BY <2>9 DEF WriteCatalog, Lock, WellFormed
    <3> QED
        BY <2>2, <2>9, <3>2, <3>3, QuietStep DEF WriteCatalog, tables
  <2>10. CASE InsertDocument(r)
    <3>1. Receiving(r) => CodeSerializes(r)'
      <4> SUFFICES ASSUME Receiving(r) PROVE CodeSerializes(r)'
          OBVIOUS
      <4>1. /\ pc'[r] = "lines" /\ CodeRow(r) \in held'[r]
            /\ UNCHANGED <<day, receipts, code>> /\ CodeRow(r)' = CodeRow(r)
          BY <2>10 DEF InsertDocument, Lock, WellFormed, Receiving, tables, memory, CodeRow
      <4>2. \A g \in receipts : g.code # code[r]
          BY <2>10 DEF InsertDocument, Used, Receiving
      <4> QED
          BY <2>3, <2>10, <4>1, <4>2 DEF UsedToday, InsertDocument
    <3> QED
        BY <2>2, <2>10, <3>1, QuietStep DEF InsertDocument, Lock, tables, memory, WellFormed
  <2>11. CASE ReadLines(r)
    <3>1. Receiving(r) => CodeSerializes(r)'
      <4>1. /\ pc'[r] = "status" /\ next'[r] = StatusFor(r) /\ pc[r] = "lines"
            /\ UNCHANGED <<day, receipts, code, held, received, got>>
          BY <2>11 DEF ReadLines, tables, WellFormed
      <4> QED
          BY <2>3, <4>1 DEF UsedToday, CodeRow, StatusFor, LinesOf
    <3> QED
        BY <2>2, <2>11, <3>1, QuietStep DEF ReadLines, tables, WellFormed
  <2>12. CASE WriteStatus(r)
    <3>1. Receiving(r) => CodeSerializes(r)'
      <4>1. /\ pc'[r] = "commit" /\ pc[r] = "status" /\ held[r] \subseteq held'[r]
            /\ UNCHANGED <<day, receipts, code, received, got, next>>
          BY <2>12 DEF WriteStatus, Lock, tables, memory, WellFormed
      <4> QED
          BY <2>3, <4>1 DEF UsedToday, CodeRow, StatusFor, LinesOf
    <3> QED
        BY <2>2, <2>12, <3>1, QuietStep DEF WriteStatus, Lock, tables, memory, WellFormed
  <2> QED
      BY <1>3, <2>2, <2>4, <2>5, <2>6, <2>7, <2>8, <2>9, <2>10, <2>11, <2>12,
         RollBackSerialized, CommitSerialized
      DEF Run, Refuse, OverReceiveBlocked, CodeTaken, TimeOut
<1> QED
    BY <1>1, <1>2, <1>3 DEF Next


LEMMA InitPurchaseInv == Init => PurchaseInv
<1> SUFFICES ASSUME Init PROVE PurchaseInv
    OBVIOUS
<1> USE DEF Init
<1>1. WellFormed
    BY ParcelFacts DEF WellFormed, Nothing, InParcel, Receiving
<1>2. Exclusive /\ LinesFit /\ NeverOverReceived
    BY PurchasingAssumption DEF Exclusive, LinesFit, NeverOverReceived, Nothing
<1>3. UsedToday = 1 .. 0
    BY DEF UsedToday
<1>4. Serialized
    BY <1>3 DEF Serialized, CodeSerializes, InParcel, Inserted
<1> QED
    BY <1>1, <1>2, <1>4 DEF PurchaseInv

LEMMA StepPurchaseInv == PurchaseInv /\ [Next]_vars => PurchaseInv'
BY StepWellFormed, StepExclusive, StepLinesFit, StepSerialized DEF PurchaseInv, LinesInv

THEOREM PurchasesInvariant == Spec => []PurchaseInv
BY InitPurchaseInv, StepPurchaseInv, PTL DEF Spec

(* However many receipts arrive at once, no order line gets more than was  *)
(* ordered: the guarded UPDATE in receive is enough.                       *)
THEOREM NothingOverReceived == Spec => []NeverOverReceived
<1>1. PurchaseInv => NeverOverReceived
    BY DEF PurchaseInv
<1> QED
    BY <1>1, PurchasesInvariant, PTL

(* As long as the date does not change under an open receipt, a committed  *)
(* receipt leaves the order RECEIVED exactly when all its lines are full:  *)
(* the unique document code serializes receipts, and nothing else does.    *)
THEOREM ReceiptsTellStatus == Spec => ReceiptTellsStatus
<1> DEFINE Tells == \A g \in receipts' \ receipts :
               ~midnight => status'[g.order] = IF \A l \in LinesOf(g.order) : received'[l] = Ordered[l]
                                               THEN "RECEIVED" ELSE "PARTIAL"
<1>1. ASSUME PurchaseInv, PurchaseInv', [Next]_vars PROVE [Tells]_vars
  <2> USE <1>1
  <2>1. CASE UNCHANGED receipts
      BY <2>1
  <2>2. ASSUME NEW r \in Requests, Commit(r) PROVE Tells
    <3> SUFFICES ASSUME NEW g \in receipts' \ receipts, ~midnight
                 PROVE  status'[g.order] = IF \A l \in LinesOf(g.order) : received'[l] = Ordered[l]
                                           THEN "RECEIVED" ELSE "PARTIAL"
        OBVIOUS
    <3>1. Receiving(r) /\ g.order = About[r]
        BY <2>2 DEF Commit, Apply, Receipt, Receiving
    <3>2. next[r] = StatusFor(r)
        BY <2>2, <3>1 DEF PurchaseInv, Serialized, CodeSerializes, Commit
    <3>3. \A l \in Lines : received'[l] = received[l] + got[r][l]
        BY <2>2 DEF Commit, Apply
    <3>4. \A l \in Lines : received'[l] = Ordered[l] <=> received[l] + got[r][l] >= Ordered[l]
        BY <3>3, PurchasingAssumption DEF PurchaseInv, NeverOverReceived, WellFormed
    <3>5. status'[About[r]] = next[r]
        BY <2>2, PurchasingAssumption DEF PurchaseInv, WellFormed, Commit, Apply
    <3> QED
        BY <3>1, <3>2, <3>4, <3>5 DEF StatusFor, LinesOf
  <2> QED
      BY <2>1, <2>2
      DEF Next, NewDay, Run, RollBack, ReadOrder, Refuse, TakeCode, AddStock, BumpLine,
          OverReceiveBlocked, ReadSum, WriteCatalog, InsertDocument, CodeTaken, ReadLines,
          WriteStatus, TimeOut, tables, vars
<1> QED
    BY <1>1, PurchasesInvariant, PTL DEF Spec, ReceiptTellsStatus
-------------------------------------------------------------------------------
(* The document insert takes the code, and until it commits nobody else    *)
(* files a receipt of that code: it would have to hold the same row.       *)
LEMMA StepFresh ==
    WellFormed /\ Exclusive /\ Fresh /\ [Next]_vars => Fresh'
<1> SUFFICES ASSUME WellFormed, Exclusive, Fresh, [Next]_vars,
                    NEW r \in Requests, Receiving(r), pc'[r] \in Inserted
             PROVE  CodeRow(r)' \in held'[r] /\ \A g \in receipts' : g.code # code'[r]
    BY DEF Fresh, Receiving
<1>1. CASE UNCHANGED vars \/ NewDay
    BY <1>1 DEF Fresh, NewDay, vars, tables, memory, CodeRow, Receiving
<1>2. ASSUME NEW q \in Requests, Run(q), q # r
      PROVE  CodeRow(r)' \in held'[r] /\ \A g \in receipts' : g.code # code'[r]
  <2>1. pc'[r] = pc[r] /\ held'[r] = held[r] /\ code'[r] = code[r]
    <3>1. pc'[r] = pc[r]
        BY <1>2 DEF WellFormed, Run, ReadOrder, Refuse, TakeCode, AddStock, BumpLine,
                    OverReceiveBlocked, ReadSum, WriteCatalog, InsertDocument, CodeTaken,
                    ReadLines, WriteStatus, Commit, TimeOut, RollBack, Finish
    <3>2. held'[r] = held[r]
        BY <1>2 DEF WellFormed, Run, ReadOrder, Refuse, TakeCode, AddStock, BumpLine,
                    OverReceiveBlocked, ReadSum, WriteCatalog, InsertDocument, CodeTaken,
                    ReadLines, WriteStatus, Commit, TimeOut, RollBack, Finish, Lock
    <3>3. code'[r] = code[r]
        BY <1>2 DEF WellFormed, Run, ReadOrder, Refuse, TakeCode, AddStock, BumpLine, memory,
                    OverReceiveBlocked, ReadSum, WriteCatalog, InsertDocument, CodeTaken,
                    ReadLines, WriteStatus, Commit, TimeOut, RollBack, Finish
    <3> QED
        BY <3>1, <3>2, <3>3
  <2>2. CodeRow(r) \in held[r] /\ \A g \in receipts : g.code # code[r]
      BY <2>1 DEF Fresh
  <2>3. CASE Commit(q) /\ Receiving(q)
    <3>1. CodeRow(q) \in held[q]
        BY <2>3 DEF Fresh, Commit, Inserted
    <3>2. CodeRow(q) # CodeRow(r)
        BY <1>2, <2>2, <3>1 DEF Exclusive
    <3>3. code[q] # code[r]
        BY <2>3, <3>2 DEF CodeRow, Receiving
    <3>4. receipts' = receipts \cup {Receipt(q)} /\ Receipt(q).code = code[q]
        BY <2>3 DEF Commit, Apply, Receipt, Receiving
    <3> QED
        BY <2>1, <2>2, <3>3, <3>4 DEF CodeRow
  <2>4. CASE ~(Commit(q) /\ Receiving(q))
    <3>1. receipts' = receipts
        BY <1>2, <2>4 DEF Run, ReadOrder, Refuse, TakeCode, AddStock, BumpLine, tables, Receiving,
                    OverReceiveBlocked, ReadSum, WriteCatalog, InsertDocument, CodeTaken,
                    ReadLines, WriteStatus, Commit, Apply, TimeOut, RollBack
    <3> QED
        BY <2>1, <2>2, <3>1 DEF CodeRow
  <2> QED
      BY <2>3, <2>4
<1>3. CASE Run(r)
  <2>1. CASE InsertDocument(r)
    <3>1. held'[r] = held[r] \cup {CodeRow(r)} /\ code' = code /\ receipts' = receipts
        BY <2>1 DEF WellFormed, InsertDocument, Lock, tables, memory
    <3>2. \A g \in receipts : g.code # code[r]
        BY <2>1 DEF InsertDocument, Used, Receiving
    <3> QED
        BY <3>1, <3>2 DEF CodeRow
  <2>2. CASE ReadLines(r) \/ WriteStatus(r)
    <3>1. held[r] \subseteq held'[r] /\ code' = code /\ receipts' = receipts
        BY <2>2 DEF WellFormed, ReadLines, WriteStatus, Lock, tables, memory
    <3>2. CodeRow(r) \in held[r] /\ \A g \in receipts : g.code # code[r]
        BY <2>2 DEF Fresh, Inserted, ReadLines, WriteStatus
    <3> QED
        BY <3>1, <3>2 DEF CodeRow
  <2>3. CASE ~(InsertDocument(r) \/ ReadLines(r) \/ WriteStatus(r))
      BY <1>3, <2>3 DEF WellFormed, Inserted, Receiving, Run, ReadOrder, Refuse, TakeCode, AddStock,
          BumpLine, OverReceiveBlocked, ReadSum, WriteCatalog, CodeTaken, Commit, TimeOut,
          RollBack, Finish
  <2> QED
      BY <2>1, <2>2, <2>3
<1> QED
    BY <1>1, <1>2, <1>3 DEF Next

(* The units of a product in some lines: a number, and nothing of nothing. *)
LEMMA UnitsInType ==
    ASSUME NEW qty \in [Lines -> Nat], NEW p
    PROVE  UnitsIn(qty, p) \in Nat /\ (qty = Nothing => UnitsIn(qty, p) = 0)
<1> DEFINE S == {l \in Lines : ProductOf[l] = p}
<1>1. IsFiniteSet(S) /\ S \subseteq Lines
    BY PurchasingAssumption, FS_Subset
<1>2. \A l \in S : qty[l] \in Nat
    BY <1>1
<1>3. qty = Nothing => \A l \in S : qty[l] = 0
    BY <1>1 DEF Nothing
<1> HIDE DEF S
<1>4. SumFunctionOnSet(qty, S) \in Nat
    BY <1>1, <1>2, SumType
<1>5. qty = Nothing => SumFunctionOnSet(qty, S) = 0
    BY <1>1, <1>3, SumOfZeros
<1> QED
    BY <1>4, <1>5 DEF UnitsIn, S

(* One more receipt is filed: a sum over the receipts grows by its amount. *)
LEMMA SumOfReceipts ==
    ASSUME NEW R, IsFiniteSet(R), NEW one, one \notin R,
           NEW f, NEW g, \A x \in R : f[x] \in Nat /\ g[x] = f[x], g[one] \in Nat
    PROVE  SumFunctionOnSet(g, R \cup {one}) = SumFunctionOnSet(f, R) + g[one]
<1>1. SumFunctionOnSet(g, R) = SumFunctionOnSet(f, R)
    BY SumSame
<1>2. \A x \in R : g[x] \in Nat
    OBVIOUS
<1>3. SumFunctionOnSet(g, R \cup {one}) = SumFunctionOnSet(g, R) + g[one]
    BY <1>2, SumOfOneMore
<1> QED
    BY <1>1, <1>3

(* What a receipt adds to its line, its shelf and the paper is the same.   *)
LEMMA CommitAddsUp ==
    ASSUME PaperInv, NEW r \in Requests, Commit(r)
    PROVE  (Filed /\ ReceiptsAddUp)'
<1> USE DEF PaperInv, PurchaseInv, Filed
<1> DEFINE one == Receipt(r)
<1>1. /\ \A l \in Lines : received'[l] = received[l] + got[r][l]
      /\ stock' = [place \in Places |-> stock[place] + Added(r, place)]
    BY DEF Commit, Apply
<1>2. got[r] \in [Lines -> Nat] /\ received \in [Lines -> Nat]
    BY DEF WellFormed
<1>3. CASE ~Receiving(r)
  <2>1. receipts' = receipts /\ got[r] = Nothing
      BY <1>3 DEF Commit, Apply, Receiving, WellFormed
  <2>2. \A l \in Lines : received'[l] = received[l]
      BY <1>1, <1>2, <2>1 DEF Nothing
  <2>3. ASSUME NEW s \in Stores, NEW p \in Products PROVE stock'[<<s, p>>] = stock[<<s, p>>]
    <3>1. Added(r, <<s, p>>) = 0
        BY <1>2, <2>1, UnitsInType DEF Added
    <3>2. stock[<<s, p>>] = OnShelfOnPaper(s, p)
        BY DEF ReceiptsAddUp
    <3>3. OnShelfOnPaper(s, p) \in Nat
      <4>1. IsFiniteSet(ReceiptsAt(s)) /\ ReceiptsAt(s) \subseteq receipts
          BY FS_Subset DEF ReceiptsAt
      <4>2. \A g \in ReceiptsAt(s) : UnitsIn(g.qty, p) \in Nat
          BY <4>1, UnitsInType
      <4> DEFINE f == [g \in ReceiptsAt(s) |-> UnitsIn(g.qty, p)]
      <4>3. \A g \in ReceiptsAt(s) : f[g] \in Nat
          BY <4>2
      <4> HIDE DEF f
      <4>4. SumFunctionOnSet(f, ReceiptsAt(s)) \in Nat
          BY <4>1, <4>3, SumType
      <4> QED
          BY <4>4 DEF OnShelfOnPaper, f
    <3>4. <<s, p>> \in Places
        BY DEF Places
    <3>5. stock'[<<s, p>>] = stock[<<s, p>>] + Added(r, <<s, p>>)
        BY <1>1, <3>4
    <3> QED
        BY <3>1, <3>2, <3>3, <3>5
  <2> QED
      BY <1>1, <2>1, <2>2, <2>3 DEF ReceiptsAddUp, ReceivedOnPaper, OnShelfOnPaper, ReceiptsAt
<1>4. CASE Receiving(r)
  <2>1. receipts' = receipts \cup {one} /\ one \notin receipts
    <3>1. receipts' = receipts \cup {one} /\ one.code = code[r]
        BY <1>4 DEF Commit, Apply, Receiving, Receipt
    <3>2. \A g \in receipts : g.code # code[r]
        BY <1>4 DEF Fresh, Commit, Inserted
    <3> QED
        BY <3>1, <3>2
  <2>2. one.qty = got[r] /\ one.store = StoreAt[r]
      BY DEF Receipt
  <2> HIDE DEF one
  <2>3. Filed'
      BY <1>1, <1>2, <2>1, <2>2, FS_AddElement
  <2>4. ASSUME NEW l \in Lines PROVE received'[l] = ReceivedOnPaper(l)'
    <3> DEFINE f == [g \in receipts |-> g.qty[l]]
               h == [g \in receipts \cup {one} |-> g.qty[l]]
    <3>1. \A g \in receipts : f[g] \in Nat /\ h[g] = f[g]
        OBVIOUS
    <3>2. h[one] = got[r][l] /\ got[r][l] \in Nat
        BY <1>2, <2>2
    <3> HIDE DEF f, h
    <3>6. IsFiniteSet(receipts) /\ one \notin receipts /\ h[one] \in Nat
        BY <2>1, <3>2
    <3>3. SumFunctionOnSet(h, receipts \cup {one}) = SumFunctionOnSet(f, receipts) + h[one]
      <4> HIDE DEF PaperInv, PurchaseInv, Filed
      <4> QED  BY ONLY <3>1, <3>6, SumOfReceipts
    <3>4. received[l] = SumFunctionOnSet(f, receipts)
        BY DEF ReceiptsAddUp, ReceivedOnPaper, f
    <3>5. ReceivedOnPaper(l)' = SumFunctionOnSet(h, receipts \cup {one})
        BY <2>1 DEF ReceivedOnPaper, h
    <3> QED
        BY <1>1, <3>2, <3>3, <3>4, <3>5
  <2>5. ASSUME NEW s \in Stores, NEW p \in Products
        PROVE  stock'[<<s, p>>] = OnShelfOnPaper(s, p)'
    <3>1. <<s, p>> \in Places /\ stock'[<<s, p>>] = stock[<<s, p>>] + Added(r, <<s, p>>)
        BY <1>1 DEF Places
    <3>2. IsFiniteSet(ReceiptsAt(s)) /\ ReceiptsAt(s) \subseteq receipts
        BY FS_Subset DEF ReceiptsAt
    <3> DEFINE f == [g \in ReceiptsAt(s) |-> UnitsIn(g.qty, p)]
    <3>3. \A g \in ReceiptsAt(s) : f[g] \in Nat
        BY <3>2, UnitsInType
    <3>4. stock[<<s, p>>] = SumFunctionOnSet(f, ReceiptsAt(s))
        BY DEF ReceiptsAddUp, OnShelfOnPaper
    <3>5. CASE s # StoreAt[r]
      <4>1. ReceiptsAt(s)' = ReceiptsAt(s)
          BY <2>1, <2>2, <3>5 DEF ReceiptsAt
      <4>2. Added(r, <<s, p>>) = 0
          BY <3>5 DEF Added
      <4>3. SumFunctionOnSet(f, ReceiptsAt(s)) \in Nat
        <5> HIDE DEF f
        <5> QED  BY <3>2, <3>3, SumType
      <4>4. OnShelfOnPaper(s, p)' = SumFunctionOnSet(f, ReceiptsAt(s))
          BY <4>1 DEF OnShelfOnPaper, UnitsIn
      <4> HIDE DEF f
      <4> QED
          BY <3>1, <3>4, <4>2, <4>3, <4>4
    <3>6. CASE s = StoreAt[r]
      <4>1. ReceiptsAt(s)' = ReceiptsAt(s) \cup {one} /\ one \notin ReceiptsAt(s)
          BY <2>1, <2>2, <3>6 DEF ReceiptsAt
      <4> DEFINE h == [g \in ReceiptsAt(s) \cup {one} |-> UnitsIn(g.qty, p)]
      <4>2. \A g \in ReceiptsAt(s) : f[g] \in Nat /\ h[g] = f[g]
          BY <3>3
      <4>3. h[one] = UnitsIn(got[r], p) /\ h[one] \in Nat
          BY <1>2, <2>2, UnitsInType
      <4>4. Added(r, <<s, p>>) = UnitsIn(got[r], p)
          BY <3>6 DEF Added
      <4>5. OnShelfOnPaper(s, p)' = SumFunctionOnSet(h, ReceiptsAt(s) \cup {one})
          BY <4>1 DEF OnShelfOnPaper, UnitsIn
      <4> HIDE DEF f, h
      <4>6. SumFunctionOnSet(h, ReceiptsAt(s) \cup {one})
              = SumFunctionOnSet(f, ReceiptsAt(s)) + h[one]
        <5>1. IsFiniteSet(ReceiptsAt(s)) /\ one \notin ReceiptsAt(s) /\ h[one] \in Nat
            BY <3>2, <4>1, <4>3
        <5> QED
            BY ONLY <4>2, <5>1, SumOfReceipts
      <4> QED
          BY <3>1, <3>4, <4>3, <4>4, <4>5, <4>6
    <3> QED
        BY <3>5, <3>6
  <2> QED
      BY <2>3, <2>4, <2>5 DEF ReceiptsAddUp
<1> QED
    BY <1>3, <1>4

LEMMA InitPaperInv == Init => PaperInv
<1> SUFFICES ASSUME Init PROVE PaperInv
    OBVIOUS
<1>1. Fresh /\ Filed
    BY FS_EmptySet DEF Init, Fresh, Filed, Inserted
<1>2. \A l : ReceivedOnPaper(l) = 0
    BY SumOfNone DEF Init, ReceivedOnPaper
<1>3. \A s, p : OnShelfOnPaper(s, p) = 0
  <2>1. \A s : ReceiptsAt(s) = {}
      BY DEF Init, ReceiptsAt
  <2> QED
      BY <2>1, SumOfNone DEF OnShelfOnPaper
<1>4. ReceiptsAddUp
    BY <1>2, <1>3 DEF Init, ReceiptsAddUp, Nothing, Places
<1> QED
    BY <1>1, <1>4, InitPurchaseInv DEF PaperInv

LEMMA StepPaperInv == PaperInv /\ [Next]_vars => PaperInv'
<1> SUFFICES ASSUME PaperInv, [Next]_vars PROVE PaperInv'
    OBVIOUS
<1>1. PurchaseInv' /\ Fresh'
    BY StepPurchaseInv, StepFresh DEF PaperInv, PurchaseInv
<1>2. CASE \E r \in Requests : Commit(r)
    BY <1>1, <1>2, CommitAddsUp DEF PaperInv
<1>3. CASE ~ \E r \in Requests : Commit(r)
  <2>1. UNCHANGED <<received, stock, receipts>>
      BY <1>3 DEF Next, NewDay, Run, RollBack, ReadOrder, Refuse, TakeCode, AddStock, BumpLine,
          OverReceiveBlocked, ReadSum, WriteCatalog, InsertDocument, CodeTaken, ReadLines,
          WriteStatus, TimeOut, tables, vars
  <2>2. (Filed /\ ReceiptsAddUp)'
      BY <2>1 DEF PaperInv, Filed, ReceiptsAddUp, ReceivedOnPaper, OnShelfOnPaper, ReceiptsAt, UnitsIn
  <2> QED
      BY <1>1, <2>2 DEF PaperInv
<1> QED
    BY <1>2, <1>3

(* Whatever receipts run side by side and wherever one of them fails, what *)
(* the order says was received, what the receipts say, and what has come   *)
(* onto the shelf are the same number of units, line by line and product   *)
(* by product: a receipt is written whole, and its unique code makes it    *)
(* one more.  At midnight too.                                             *)
THEOREM PaperAgreesWithShelf == Spec => []ReceiptsAddUp
<1>1. PaperInv => ReceiptsAddUp
    BY DEF PaperInv
<1>2. Spec => []PaperInv
    BY InitPaperInv, StepPaperInv, PTL DEF Spec
<1> QED
    BY <1>1, <1>2, PTL
===============================================================================
