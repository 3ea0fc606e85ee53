---------------------------- MODULE SaleSyncProofs ----------------------------
(***************************************************************************)
(* The ledger of whole sales keeps its books for every shop: any number of *)
(* sales, products, customers, vouchers and shifts.  Concurrent syncSale   *)
(* transactions implement it, for any number of requests, and so inherit   *)
(* its books.                                                              *)
(***************************************************************************)
EXTENDS SaleSync, SumProofs

(* The sales of one kind, counted after one more sale is recorded.         *)
OfKind(sales, kind, k) == {t \in sales : kind[t] = k}

LEMMA CountOfOneMore ==
    ASSUME NEW sales, IsFiniteSet(sales), NEW s, s \notin sales, NEW kind, NEW k
    PROVE  /\ Cardinality(OfKind(sales \cup {s}, kind, k)) =
                Cardinality(OfKind(sales, kind, k)) + (IF kind[s] = k THEN 1 ELSE 0)
           /\ Cardinality(OfKind(sales, kind, k)) \in Nat
<1>1. /\ IsFiniteSet(OfKind(sales, kind, k))
      /\ Cardinality(OfKind(sales, kind, k)) \in Nat
  BY FS_Subset, FS_CardinalityType DEF OfKind
<1>2. CASE kind[s] = k
  <2>1. OfKind(sales \cup {s}, kind, k) = OfKind(sales, kind, k) \cup {s}
    BY <1>2 DEF OfKind
  <2>2. s \notin OfKind(sales, kind, k)
    BY DEF OfKind
  <2> QED
    BY <1>1, <1>2, <2>1, <2>2, FS_AddElement
<1>3. CASE kind[s] # k
  <2>1. OfKind(sales \cup {s}, kind, k) = OfKind(sales, kind, k)
    BY <1>3 DEF OfKind
  <2> QED
    BY <1>1, <1>3, <2>1
<1> QED
  BY <1>2, <1>3

-------------------------------------------------------------------------------
LEMMA LedgerInitInv == LedgerInit => LedgerInv
<1> SUFFICES ASSUME LedgerInit PROVE LedgerInv
  OBVIOUS
<1>1. LedgerTypeOK
  BY SaleAssumption DEF LedgerInit, LedgerTypeOK
<1>2. IsFiniteSet({}) /\ Cardinality({}) = 0
  BY FS_EmptySet
<1>3. /\ \A p \in Products : UnitsSold(p) = 0
      /\ \A c \in Customers : SpentPoints(c) = 0 /\ EarnedPoints(c) = 0
  <2>1. sold = {} /\ \A c \in Customers : SoldTo(c) = {}
    BY DEF LedgerInit, SoldTo
  <2>2. \A f : SumFunctionOnSet(f, {}) = 0
    BY SumOfNone
  <2> QED
    BY <2>1, <2>2, Zenon DEF UnitsSold, SpentPoints, EarnedPoints
<1>4. StockConserved /\ PointsConserved
  BY <1>3, SaleAssumption DEF LedgerInit, StockConserved, PointsConserved
<1>5. /\ \A v \in Promos : {s \in sold : PromoOf[s] = v} = {}
      /\ \A h \in Shifts : {s \in sold : ShiftOf[s] = h} = {}
  BY DEF LedgerInit
<1>6. PromoWithinLimit /\ CountsAgree /\ OneSalePerCart
  BY <1>2, <1>5, SaleAssumption
  DEF LedgerInit, PromoWithinLimit, CountsAgree, OneSalePerCart
<1> QED
  BY <1>1, <1>4, <1>6 DEF LedgerInv, Books

(* One accepted sale keeps the books.                                      *)
LEMMA AcceptKeepsBooks ==
    ASSUME LedgerInv, NEW s \in Sales, Accept(s)
    PROVE  LedgerInv'
<1> USE DEF LedgerInv, Books, Accept, Record
<1>1. LedgerTypeOK'
  <2>1. /\ \A p \in Products : Qty[s][p] \in Nat
        /\ Redeem[s] \in Nat /\ Earn[s] \in Nat
    BY SaleAssumption
  <2> QED
    BY <2>1 DEF LedgerTypeOK, StockAfter, UsedAfter, PointsAfter, SaleCountAfter,
                StockCovers, PointsCover
<1>2. IsFiniteSet(sold) /\ s \notin sold
  BY SaleAssumption, FS_Subset DEF LedgerTypeOK
<1>3. ASSUME NEW p \in Products
      PROVE  stock'[p] + UnitsSold(p)' = InitStock[p]
  <2> DEFINE amount == [t \in Sales |-> Qty[t][p]]
  <2>1. amount[s] \in Nat /\ amount[s] = Qty[s][p] /\ \A t \in sold : amount[t] \in Nat
    BY SaleAssumption DEF LedgerTypeOK
  <2> HIDE DEF amount
  <2>2. /\ SumFunctionOnSet(amount, sold \cup {s}) = SumFunctionOnSet(amount, sold) + amount[s]
        /\ SumFunctionOnSet(amount, sold) \in Nat
    BY <1>2, <2>1, SumOfOneMore
  <2>3. /\ UnitsSold(p) = SumFunctionOnSet(amount, sold)
        /\ UnitsSold(p)' = SumFunctionOnSet(amount, sold \cup {s})
    BY DEF UnitsSold, amount
  <2>4. stock[p] \in Nat /\ stock'[p] = stock[p] - Qty[s][p]
        /\ stock[p] + UnitsSold(p) = InitStock[p]
    BY DEF LedgerTypeOK, StockAfter, StockConserved
  <2> QED
    BY <2>1, <2>2, <2>3, <2>4
<1>4. ASSUME NEW c \in Customers
      PROVE  points'[c] + SpentPoints(c)' = InitPoints[c] + EarnedPoints(c)'
  <2>1. CASE CustomerOf[s] = c
    <3>1. SoldTo(c)' = SoldTo(c) \cup {s} /\ s \notin SoldTo(c) /\ SoldTo(c) \subseteq Sales
      BY <2>1 DEF SoldTo, LedgerTypeOK
    <3>2. IsFiniteSet(SoldTo(c)) /\ \A t \in Sales : Redeem[t] \in Nat /\ Earn[t] \in Nat
      BY <3>1, SaleAssumption, FS_Subset
    <3>3. /\ SumFunctionOnSet(Redeem, SoldTo(c) \cup {s})
               = SumFunctionOnSet(Redeem, SoldTo(c)) + Redeem[s]
          /\ SumFunctionOnSet(Redeem, SoldTo(c)) \in Nat
      BY <3>1, <3>2, SumOfOneMore
    <3>4. /\ SumFunctionOnSet(Earn, SoldTo(c) \cup {s})
               = SumFunctionOnSet(Earn, SoldTo(c)) + Earn[s]
          /\ SumFunctionOnSet(Earn, SoldTo(c)) \in Nat
      BY <3>1, <3>2, SumOfOneMore
    <3>5. /\ points[c] \in Nat /\ InitPoints[c] \in Nat
          /\ points'[c] = points[c] - Redeem[s] + Earn[s]
          /\ points[c] + SumFunctionOnSet(Redeem, SoldTo(c))
               = InitPoints[c] + SumFunctionOnSet(Earn, SoldTo(c))
      BY <2>1, SaleAssumption
      DEF LedgerTypeOK, PointsAfter, PointsConserved, SpentPoints, EarnedPoints
    <3>6. points'[c] + SumFunctionOnSet(Redeem, SoldTo(c) \cup {s})
            = InitPoints[c] + SumFunctionOnSet(Earn, SoldTo(c) \cup {s})
      BY <3>2, <3>3, <3>4, <3>5
    <3> QED
      BY <3>1, <3>6 DEF SpentPoints, EarnedPoints
  <2>2. CASE CustomerOf[s] # c
    <3>1. SoldTo(c)' = SoldTo(c)
      BY <2>2 DEF SoldTo
    <3>2. points'[c] = points[c]
      BY <2>2 DEF PointsAfter
    <3> QED
      BY <3>1, <3>2 DEF PointsConserved, SpentPoints, EarnedPoints
  <2> QED
    BY <2>1, <2>2
<1>5. StockConserved'
  BY <1>1, <1>3 DEF StockConserved, LedgerTypeOK
<1>6. PointsConserved'
  BY <1>1, <1>4 DEF PointsConserved, LedgerTypeOK
<1>7. PromoWithinLimit'
  <2> SUFFICES ASSUME NEW v \in Promos
               PROVE  /\ used'[v] = Cardinality(OfKind(sold \cup {s}, PromoOf, v))
                      /\ used'[v] <= UsageLimit[v]
    BY DEF PromoWithinLimit, OfKind
  <2>1. /\ Cardinality(OfKind(sold \cup {s}, PromoOf, v)) =
             Cardinality(OfKind(sold, PromoOf, v)) + (IF PromoOf[s] = v THEN 1 ELSE 0)
        /\ Cardinality(OfKind(sold, PromoOf, v)) \in Nat
    BY <1>2, CountOfOneMore
  <2>2. /\ used[v] = Cardinality(OfKind(sold, PromoOf, v))
        /\ used[v] <= UsageLimit[v] /\ used[v] \in Nat
        /\ UsageLimit[v] \in Nat
    BY SaleAssumption DEF PromoWithinLimit, LedgerTypeOK, OfKind
  <2>3. used'[v] = used[v] + (IF PromoOf[s] = v THEN 1 ELSE 0)
    BY <2>2 DEF UsedAfter
  <2>4. PromoOf[s] = v => used[v] < UsageLimit[v]
    BY DEF PromoLeft
  <2> QED
    BY <2>1, <2>2, <2>3, <2>4
<1>8. CountsAgree'
  <2>1. dayCount' = Cardinality(sold')
    BY <1>2, FS_AddElement DEF CountsAgree
  <2>2. ASSUME NEW h \in Shifts
        PROVE  saleCount'[h] = Cardinality(OfKind(sold \cup {s}, ShiftOf, h))
    <3>1. /\ Cardinality(OfKind(sold \cup {s}, ShiftOf, h)) =
               Cardinality(OfKind(sold, ShiftOf, h)) + (IF ShiftOf[s] = h THEN 1 ELSE 0)
          /\ Cardinality(OfKind(sold, ShiftOf, h)) \in Nat
      BY <1>2, CountOfOneMore
    <3>2. saleCount[h] = Cardinality(OfKind(sold, ShiftOf, h))
      BY DEF CountsAgree, OfKind
    <3>3. saleCount'[h] = saleCount[h] + (IF ShiftOf[s] = h THEN 1 ELSE 0)
      BY <3>1, <3>2 DEF SaleCountAfter
    <3> QED
      BY <3>1, <3>2, <3>3
  <2> QED
    BY <2>1, <2>2 DEF CountsAgree, OfKind
<1>9. OneSalePerCart'
  BY DEF OneSalePerCart, CartTaken
<1> QED
  BY <1>1, <1>5, <1>6, <1>7, <1>8, <1>9

LEMMA LedgerNextInv == LedgerInv /\ [LedgerNext]_ledgerVars => LedgerInv'
<1> SUFFICES ASSUME LedgerInv, [LedgerNext]_ledgerVars PROVE LedgerInv'
  OBVIOUS
<1>1. CASE LedgerNext
  BY <1>1, AcceptKeepsBooks DEF LedgerNext
<1>2. CASE UNCHANGED ledgerVars
  BY <1>2 DEF ledgerVars, LedgerInv, LedgerTypeOK, Books, StockConserved,
              PromoWithinLimit, PointsConserved, CountsAgree, OneSalePerCart,
              UnitsSold, SpentPoints, EarnedPoints, SoldTo
<1> QED
  BY <1>1, <1>2

(* The books of syncSale balance after any sequence of accepted sales:     *)
(* stock, voucher counters, points, shift and day counts all agree with    *)
(* the sales table, and no cart is paid for twice.                         *)
THEOREM LedgerKeepsBooks == LedgerSpec => []LedgerInv
  BY LedgerInitInv, LedgerNextInv, PTL DEF LedgerSpec
-------------------------------------------------------------------------------
LEMMA InitSyncInv == Init => SyncInv
<1> SUFFICES ASSUME Init PROVE SyncInv
  OBVIOUS
<1>1. LedgerTypeOK
  BY LedgerInitInv DEF Init, LedgerInv
<1>2. TypeOK
  BY <1>1 DEF Init, TypeOK, Steps, Answers
<1>3. Exclusive /\ ChecksStillHold /\ AnsweredMeansSold
  BY DEF Init, Exclusive, ChecksStillHold, ChecksHold, AnsweredMeansSold, FromPoints, FromStock, FromShift
<1> QED
  BY <1>2, <1>3 DEF SyncInv

(* A transaction that neither moves nor locks is not disturbed by a step   *)
(* that commits nothing.                                                   *)
LEMMA Undisturbed ==
    ASSUME NEW q \in Requests, ChecksHold(q), UNCHANGED ledgerVars,
           pc'[q] = pc[q], held'[q] = held[q]
    PROVE  ChecksHold(q)'
BY DEF ChecksHold, PromoLeft, CartTaken, PointsCover, Untaken, S, ledgerVars

(* Rolling back keeps the invariant: rows are only released.               *)
LEMMA RollBackKeeps ==
    ASSUME SyncInv, NEW r \in Requests, NEW answer \in Answers,
           answer \in {"created", "duplicate"} => S(r) \in sold,
           RollBack(r, answer)
    PROVE  SyncInv'
<1> USE DEF SyncInv, RollBack
<1>1. TypeOK'
  BY DEF TypeOK, LedgerTypeOK, Steps, ledgerVars
<1>2. Exclusive'
  BY DEF Exclusive, TypeOK
<1>3. ASSUME NEW q \in Requests PROVE ChecksHold(q)'
  <2>1. CASE q = r
    BY <2>1 DEF ChecksHold, TypeOK, FromPoints, FromStock, FromShift
  <2>2. CASE q # r
    BY <2>2, Undisturbed DEF ChecksStillHold, TypeOK
  <2> QED
    BY <2>1, <2>2
<1>4. AnsweredMeansSold'
  BY DEF AnsweredMeansSold, S, TypeOK, ledgerVars
<1> QED
  BY <1>1, <1>2, <1>3, <1>4 DEF ChecksStillHold

(* A step that only moves one transaction on, locking free rows.           *)
LEMMA StatementKeeps ==
    ASSUME SyncInv, NEW r \in Requests, UNCHANGED ledgerVars, UNCHANGED <<resp, carts>>,
           NEW step \in Steps, pc' = [pc EXCEPT ![r] = step],
           NEW rows \in SUBSET Rows, Lock(r, rows),
           seen' \in [Requests -> SUBSET {"cart", "day"}],
           ChecksHold(r)'
    PROVE  SyncInv'
<1> USE DEF SyncInv
<1>1. TypeOK'
  BY DEF TypeOK, LedgerTypeOK, Lock, ledgerVars
<1>2. Exclusive'
  BY DEF Exclusive, TypeOK, Lock
<1>3. ASSUME NEW q \in Requests PROVE ChecksHold(q)'
  <2>1. CASE q = r
    BY <2>1
  <2>2. CASE q # r
    BY <2>2, Undisturbed DEF ChecksStillHold, TypeOK, Lock
  <2> QED
    BY <2>1, <2>2
<1>4. AnsweredMeansSold'
  BY DEF AnsweredMeansSold, S, ledgerVars
<1> QED
  BY <1>1, <1>2, <1>3, <1>4 DEF ChecksStillHold

(* Locking nothing is locking the empty set of rows.                       *)
LEMMA LockNothing ==
    ASSUME TypeOK, NEW r \in Requests, UNCHANGED held
    PROVE  Lock(r, {})
BY DEF TypeOK, Lock

LEMMA PayloadType ==
    ASSUME NEW r \in Requests
    PROVE  /\ S(r) \in Sales
           /\ PromoRows(S(r)) \in SUBSET Rows
           /\ CustomerRows(S(r)) \in SUBSET Rows
           /\ <<"cart", CartOf[S(r)]>> \in Rows
           /\ <<"shift", ShiftOf[S(r)]>> \in Rows
           /\ <<"day">> \in Rows
           /\ \A p \in Products : <<"stock", p>> \in Rows
BY RequestAssumption, SaleAssumption DEF S, PromoRows, CustomerRows, Carts, Rows

-------------------------------------------------------------------------------
(* A commit is one Accept of the ledger: the checks made statement by      *)
(* statement all still hold in the state the commit takes effect in.       *)
LEMMA CommitAccepts ==
    ASSUME SyncInv, NEW r \in Requests, Commit(r)
    PROVE  Accept(S(r))
<1>1. ChecksHold(r) /\ pc[r] = "commit"
  BY DEF SyncInv, ChecksStillHold, Commit, At
<1>2. S(r) \notin sold /\ ~CartTaken(S(r)) /\ PromoLeft(S(r)) /\ PointsCover(S(r))
  BY <1>1 DEF ChecksHold, FromPoints, FromStock
<1>3. ASSUME NEW p \in Products PROVE Qty[S(r)][p] <= stock[p]
  <2>1. CASE <<"stock", p>> \in held[r]
    BY <1>1, <2>1 DEF ChecksHold
  <2>2. CASE <<"stock", p>> \notin held[r]
    <3>1. ~(Qty[S(r)][p] > 0)
      BY <1>1, <2>2 DEF ChecksHold, Untaken, FromShift, FromStock, FromPoints
    <3>2. Qty[S(r)][p] \in Nat /\ stock[p] \in Nat
      BY PayloadType, SaleAssumption DEF SyncInv, TypeOK, LedgerTypeOK
    <3> QED
      BY <3>1, <3>2
  <2> QED
    BY <2>1, <2>2
<1> QED
  BY <1>2, <1>3 DEF Accept, StockCovers, Commit

(* What another transaction has checked under its locks survives a commit: *)
(* the committing one changes only rows it holds itself.                   *)
LEMMA CommitSpares ==
    ASSUME SyncInv, NEW r \in Requests, Commit(r), NEW q \in Requests, q # r
    PROVE  ChecksHold(q)'
<1>1. /\ ChecksHold(r) /\ pc[r] = "commit" /\ ChecksHold(q)
      /\ held[q] \cap held[r] = {}
  BY DEF SyncInv, ChecksStillHold, Exclusive, Commit, At
<1>2. pc'[q] = pc[q] /\ held'[q] = held[q]
  BY DEF Commit, SyncInv, TypeOK
<1>3. /\ PromoRows(S(r)) \subseteq held[r]
      /\ CustomerRows(S(r)) \subseteq held[r]
      /\ <<"cart", CartOf[S(r)]>> \in held[r]
      /\ Untaken(r) = {}
  BY <1>1 DEF ChecksHold, FromPoints, FromStock, FromShift
<1>4. ASSUME PromoRows(S(q)) \subseteq held[q], PromoLeft(S(q)) PROVE PromoLeft(S(q))'
  <2> SUFFICES ASSUME NEW v \in Promos, PromoOf[S(q)] = v
               PROVE  used'[v] < UsageLimit[v]
    BY DEF PromoLeft, S
  <2>1. <<"promo", v>> \in held[q]
    BY <1>4 DEF PromoRows
  <2>2. PromoOf[S(r)] # v
    BY <1>1, <1>3, <2>1 DEF PromoRows
  <2>3. used'[v] = used[v]
    BY <2>2 DEF Commit, Record, UsedAfter
  <2> QED
    BY <1>4, <2>3 DEF PromoLeft
<1>5. ASSUME CustomerRows(S(q)) \subseteq held[q], PointsCover(S(q)) PROVE PointsCover(S(q))'
  <2> SUFFICES ASSUME NEW c \in Customers, CustomerOf[S(q)] = c
               PROVE  Redeem[S(q)] <= points'[c]
    BY DEF PointsCover, S
  <2>0. /\ points[c] \in Nat /\ Redeem[S(q)] <= points[c]
        /\ Redeem[S(q)] \in Nat /\ Redeem[S(r)] \in Nat /\ Earn[S(r)] \in Nat
    BY <1>5, PayloadType, SaleAssumption DEF PointsCover, SyncInv, TypeOK, LedgerTypeOK
  <2>1. CASE Redeem[S(q)] = 0
    <3>1. CustomerOf[S(r)] = c => Redeem[S(r)] <= points[c]
      BY <1>1 DEF ChecksHold, FromPoints, FromStock, PointsCover
    <3>2. points'[c] = IF CustomerOf[S(r)] = c
                       THEN points[c] - Redeem[S(r)] + Earn[S(r)] ELSE points[c]
      BY DEF Commit, Record, PointsAfter
    <3> QED
      BY <2>0, <2>1, <3>1, <3>2
  <2>2. CASE Redeem[S(q)] > 0
    <3>1. <<"customer", c>> \in held[q]
      BY <1>5, <2>2 DEF CustomerRows
    <3>2. CustomerOf[S(r)] # c \/ (Redeem[S(r)] = 0 /\ Earn[S(r)] = 0)
      BY <1>1, <1>3, <2>0, <3>1 DEF CustomerRows
    <3>3. points'[c] = points[c]
      BY <2>0, <3>2 DEF Commit, Record, PointsAfter
    <3> QED
      BY <2>0, <3>3
  <2> QED
    BY <2>0, <2>1, <2>2
<1>6. ASSUME <<"cart", CartOf[S(q)]>> \in held[q], S(q) \notin sold, ~CartTaken(S(q))
      PROVE  (S(q) \notin sold /\ ~CartTaken(S(q)))'
  <2>1. CartOf[S(r)] # CartOf[S(q)]
    BY <1>1, <1>3, <1>6
  <2> QED
    BY <1>6, <2>1 DEF Commit, Record, CartTaken, S
<1>7. ASSUME NEW p \in Products, <<"stock", p>> \in held[q]
      PROVE  Qty[S(q)][p] <= stock'[p]
  <2>1. <<"stock", p>> \notin held[r]
    BY <1>1, <1>7
  <2>2. Qty[S(r)][p] \in Nat /\ stock[p] \in Nat
    BY PayloadType, SaleAssumption DEF SyncInv, TypeOK, LedgerTypeOK
  <2>3. Qty[S(r)][p] = 0
    BY <1>3, <2>1, <2>2 DEF Untaken
  <2>4. stock'[p] = stock[p]
    BY <2>2, <2>3 DEF Commit, Record, StockAfter
  <2> QED
    BY <1>1, <1>7, <2>4 DEF ChecksHold
<1>8. Untaken(q)' = Untaken(q)
  BY <1>2 DEF Untaken, S
<1> QED
  BY <1>1, <1>2, <1>4, <1>5, <1>6, <1>7, <1>8
  DEF ChecksHold, FromPoints, FromStock, FromShift, S

LEMMA CommitKeeps ==
    ASSUME SyncInv, NEW r \in Requests, Commit(r)
    PROVE  SyncInv'
<1>1. Accept(S(r)) /\ S(r) \in Sales
  BY CommitAccepts, PayloadType
<1>2. LedgerTypeOK'
  <2>1. /\ \A p \in Products : Qty[S(r)][p] \in Nat
        /\ Redeem[S(r)] \in Nat /\ Earn[S(r)] \in Nat
    BY <1>1, SaleAssumption
  <2> QED
    BY <1>1, <2>1 DEF SyncInv, TypeOK, LedgerTypeOK, Accept, Record, StockAfter, UsedAfter,
                      PointsAfter, SaleCountAfter, StockCovers, PointsCover
<1>3. TypeOK'
  BY <1>1, <1>2 DEF SyncInv, TypeOK, Commit, Carts, Steps, Answers
<1>4. Exclusive'
  BY DEF SyncInv, Exclusive, Commit, TypeOK
<1>5. ChecksHold(r)'
  BY DEF SyncInv, TypeOK, Commit, ChecksHold, FromPoints, FromStock, FromShift
<1>6. ChecksStillHold'
  BY <1>5, CommitSpares DEF ChecksStillHold
<1>7. AnsweredMeansSold'
  BY DEF SyncInv, TypeOK, AnsweredMeansSold, Commit, Record, S
<1> QED
  BY <1>3, <1>4, <1>6, <1>7 DEF SyncInv

-------------------------------------------------------------------------------
(* The statements that neither finish the transaction nor write a row.     *)
LEMMA ReadsKeep ==
    ASSUME SyncInv, NEW r \in Requests,
           \/ FindNothing(r) \/ Quote(r) \/ CheckStock(r) \/ ReadCart(r)
           \/ InsertSale(r) \/ StockTaken(r) \/ ReadDay(r)
    PROVE  SyncInv'
<1> DEFINE step == pc'[r]
<1>1. /\ UNCHANGED ledgerVars /\ UNCHANGED <<held, resp, carts>>
      /\ step \in Steps /\ pc' = [pc EXCEPT ![r] = step]
      /\ seen' \in [Requests -> SUBSET {"cart", "day"}]
  BY DEF SyncInv, TypeOK, FindNothing, Quote, CheckStock, ReadCart, InsertSale, StockTaken,
         ReadDay, Goto, Steps
<1>2. Lock(r, {})
  BY <1>1, LockNothing DEF SyncInv
<1>3. ChecksHold(r)
  BY DEF SyncInv, ChecksStillHold
<1>4. /\ S(r)' = S(r) /\ Untaken(r)' = Untaken(r)
      /\ PromoLeft(S(r))' = PromoLeft(S(r)) /\ PointsCover(S(r))' = PointsCover(S(r))
      /\ CartTaken(S(r))' = CartTaken(S(r))
  BY <1>1 DEF S, Untaken, PromoLeft, PointsCover, CartTaken, ledgerVars
<1>5. ChecksHold(r)'
  BY <1>1, <1>3, <1>4
  DEF FindNothing, Quote, CheckStock, ReadCart, InsertSale, StockTaken, ReadDay, At, Goto,
      ChecksHold, FromPoints, FromStock, FromShift, SyncInv, TypeOK, ledgerVars
<1> HIDE DEF step
<1> QED
  BY <1>1, <1>2, <1>5, StatementKeeps

(* The statements that lock rows, and what each has made sure of.          *)
LEMMA WritesKeep ==
    ASSUME SyncInv, NEW r \in Requests,
           \/ ConsumePromo(r) \/ WriteCart(r) \/ MovePoints(r)
           \/ \E p \in Products : TakeStock(r, p)
           \/ AttachShift(r) \/ WriteDay(r)
    PROVE  SyncInv'
<1> DEFINE step == pc'[r]
<1>1. /\ UNCHANGED ledgerVars /\ UNCHANGED <<seen, resp, carts>>
      /\ step \in Steps /\ pc' = [pc EXCEPT ![r] = step]
      /\ seen' \in [Requests -> SUBSET {"cart", "day"}]
  BY DEF SyncInv, TypeOK, ConsumePromo, WriteCart, MovePoints, TakeStock, AttachShift,
         WriteDay, Goto, Steps
<1>2. PICK rows \in SUBSET Rows : Lock(r, rows)
  BY PayloadType DEF ConsumePromo, WriteCart, MovePoints, TakeStock, AttachShift, WriteDay
<1>3. held[r] \subseteq held'[r]
  BY <1>2 DEF Lock, SyncInv, TypeOK
<1>4. ChecksHold(r)
  BY DEF SyncInv, ChecksStillHold
<1>5. /\ S(r)' = S(r) /\ Untaken(r)' \subseteq Untaken(r)
      /\ PromoLeft(S(r))' = PromoLeft(S(r)) /\ PointsCover(S(r))' = PointsCover(S(r))
      /\ CartTaken(S(r))' = CartTaken(S(r))
  BY <1>1, <1>3 DEF S, Untaken, PromoLeft, PointsCover, CartTaken, ledgerVars
<1>6. ASSUME NEW p \in Products, <<"stock", p>> \in held'[r], <<"stock", p>> \notin held[r]
      PROVE  Qty[S(r)][p] <= stock[p]
  BY <1>6 DEF ConsumePromo, WriteCart, MovePoints, TakeStock, AttachShift, WriteDay, Lock,
              PromoRows, CustomerRows, SyncInv, TypeOK
<1>7. /\ pc'[r] \in {"check", "cart", "writeCart", "insert"} \cup FromPoints
           => PromoRows(S(r)) \subseteq held'[r] /\ PromoLeft(S(r))
      /\ pc'[r] \in {"insert"} \cup FromPoints => <<"cart", CartOf[S(r)]>> \in held'[r]
      /\ pc'[r] \in FromPoints => S(r) \notin sold /\ ~CartTaken(S(r))
  BY <1>1, <1>3, <1>4
  DEF ConsumePromo, WriteCart, MovePoints, TakeStock, AttachShift, WriteDay, At, Goto, Lock,
      ChecksHold, FromPoints, FromStock, FromShift, SyncInv, TypeOK
<1>8. /\ pc'[r] \in FromStock => CustomerRows(S(r)) \subseteq held'[r] /\ PointsCover(S(r))
      /\ pc'[r] \in FromShift => Untaken(r)' = {}
  BY <1>1, <1>3, <1>4, <1>5
  DEF ConsumePromo, WriteCart, MovePoints, TakeStock, AttachShift, WriteDay, At, Goto, Lock,
      ChecksHold, FromPoints, FromStock, FromShift, SyncInv, TypeOK
<1>9. ChecksHold(r)'
  BY <1>1, <1>3, <1>4, <1>5, <1>6, <1>7, <1>8 DEF ChecksHold, S, ledgerVars
<1> HIDE DEF step
<1> QED
  BY <1>1, <1>2, <1>9, StatementKeeps

(* The ways a request ends without a commit.                               *)
LEMMA EndsKeep ==
    ASSUME SyncInv, NEW r \in Requests,
           \/ FindDuplicate(r) \/ Refuse(r) \/ PromoExhausted(r) \/ ReportShortage(r)
           \/ CartRace(r) \/ SaleExists(r) \/ CartAlreadySold(r)
           \/ PointsRace(r) \/ (\E p \in Products : StockRace(r, p)) \/ DayRace(r)
           \/ TimeOut(r)
    PROVE  SyncInv'
<1>1. PICK answer \in Answers :
         /\ RollBack(r, answer)
         /\ answer \in {"created", "duplicate"} => S(r) \in sold
  BY DEF FindDuplicate, Refuse, PromoExhausted, ReportShortage, CartRace,
         SaleExists, CartAlreadySold, PointsRace, StockRace, DayRace, TimeOut, Answers
<1> QED
  BY <1>1, RollBackKeeps

LEMMA NextSyncInv == SyncInv /\ [Next]_vars => SyncInv'
<1> SUFFICES ASSUME SyncInv, [Next]_vars PROVE SyncInv'
  OBVIOUS
<1>1. CASE UNCHANGED vars
  BY <1>1 DEF vars, ledgerVars, requestVars, SyncInv, TypeOK, LedgerTypeOK, Exclusive,
              ChecksStillHold, ChecksHold, AnsweredMeansSold, PromoLeft, CartTaken,
              PointsCover, Untaken, S
<1>2. ASSUME NEW r \in Requests, Run(r) \/ TimeOut(r) PROVE SyncInv'
  BY <1>2, ReadsKeep, WritesKeep, EndsKeep, CommitKeeps DEF Run
<1> QED
  BY <1>1, <1>2 DEF Next

(* Tables, program counters and row locks keep their types.                *)
THEOREM SyncTyped == Spec => []TypeOK
<1>1. SyncInv => TypeOK
  BY DEF SyncInv
<1> QED
  BY <1>1, InitSyncInv, NextSyncInv, PTL DEF Spec

(* Row locks are exclusive, what a transaction checked under them holds    *)
(* until it ends, and "created" or "duplicate" is only ever answered for a *)
(* committed sale.                                                         *)
THEOREM ChecksSurvive == Spec => [](Exclusive /\ ChecksStillHold /\ AnsweredMeansSold)
<1>1. Spec => []SyncInv
  BY InitSyncInv, NextSyncInv, PTL DEF Spec
<1>2. SyncInv => Exclusive /\ ChecksStillHold /\ AnsweredMeansSold
  BY DEF SyncInv
<1> QED
  BY <1>1, <1>2, PTL

-------------------------------------------------------------------------------
(* Every step of the concurrent transactions is an Accept of the ledger or *)
(* leaves the ledger alone.                                                *)
LEMMA StepRefines == SyncInv /\ [Next]_vars => [LedgerNext]_ledgerVars
<1> SUFFICES ASSUME SyncInv, [Next]_vars PROVE LedgerNext \/ UNCHANGED ledgerVars
  OBVIOUS
<1>1. CASE UNCHANGED vars
  BY <1>1 DEF vars
<1>2. ASSUME NEW r \in Requests, Commit(r) PROVE LedgerNext
  BY <1>2, CommitAccepts, PayloadType DEF LedgerNext
<1>3. ASSUME NEW r \in Requests, Run(r) \/ TimeOut(r), ~Commit(r) PROVE UNCHANGED ledgerVars
  BY <1>3
  DEF Run, TimeOut, RollBack, FindDuplicate, FindNothing, Quote, Refuse, ConsumePromo,
      PromoExhausted, CheckStock, ReportShortage, ReadCart, WriteCart, CartRace,
      InsertSale, SaleExists, CartAlreadySold, MovePoints, PointsRace, TakeStock, StockRace,
      StockTaken, AttachShift, ReadDay, WriteDay, DayRace
<1> QED
  BY <1>1, <1>2, <1>3 DEF Next

(* The interleaved READ COMMITTED transactions of syncSale implement the   *)
(* ledger in which each accepted sale happens alone, in one step.          *)
THEOREM SyncImplementsLedger == Spec => LedgerRefined
<1>1. Init => LedgerInit
  BY DEF Init
<1>2. Spec => []SyncInv
  BY InitSyncInv, NextSyncInv, PTL DEF Spec
<1> QED
  BY <1>1, <1>2, StepRefines, PTL DEF Spec, LedgerSpec, LedgerRefined

(* So the back office's books balance however the tills' requests overlap, *)
(* are retried, time out or lose their answers.                            *)
THEOREM SyncKeepsBooks ==
    Spec => [](StockConserved /\ PromoWithinLimit /\ PointsConserved /\ CountsAgree
                  /\ OneSalePerCart)
<1>1. LedgerInv => StockConserved /\ PromoWithinLimit /\ PointsConserved /\ CountsAgree
                      /\ OneSalePerCart
  BY DEF LedgerInv, Books
<1> QED
  BY <1>1, SyncImplementsLedger, LedgerKeepsBooks, PTL DEF LedgerRefined

(* A voucher counts the sales that carry it, and never more than its limit, *)
(* although consumeOnSale of other tills comes between check and commit.   *)
THEOREM VouchersWithinLimit == Spec => []PromoWithinLimit
  BY SyncKeepsBooks, PTL

(* A customer's points are what was earned less what was redeemed, never   *)
(* below zero, although sales of the same customer overlap.                *)
THEOREM PointsAreConserved == Spec => []PointsConserved
  BY SyncKeepsBooks, PTL

(* Shift and day counters tell the number of committed sales, although the *)
(* first two sales of a day race to create its row.                        *)
THEOREM ReportsAgree == Spec => []CountsAgree
  BY SyncKeepsBooks, PTL

(* No cart is paid for twice, however many tills send it.                  *)
THEOREM CartsSoldOnce == Spec => []OneSalePerCart
  BY SyncKeepsBooks, PTL

(* Who is told "created" or "duplicate" can rely on it: the sale is in the *)
(* books, so the till may forget it.                                       *)
THEOREM AnsweredIsSold == Spec => []AnsweredMeansSold
  BY ChecksSurvive, PTL

-------------------------------------------------------------------------------
(* Rows are taken in the order of the statements, so the kind of a row     *)
(* that a request holds tells how far it has come.                         *)
InOrder(r) ==
    /\ \A v \in Promos : <<"promo", v>> \in held[r] => pc[r] \notin {"lookup", "quote", "promo"}
    /\ \A c \in Carts : <<"cart", c>> \in held[r] => pc[r] \in {"insert"} \cup FromPoints
    /\ \A c \in Customers : <<"customer", c>> \in held[r] => pc[r] \in FromStock
    /\ \A p \in Products : <<"stock", p>> \in held[r] => pc[r] \in FromStock
    /\ \A h \in Shifts : <<"shift", h>> \in held[r] => pc[r] \in {"day", "writeDay", "commit"}
    /\ <<"day">> \in held[r] => pc[r] = "commit"

OrderInv == SyncInv /\ \A r \in Requests : InOrder(r)

LEMMA InitOrderInv == Init => OrderInv
  BY InitSyncInv DEF Init, OrderInv, InOrder

LEMMA NextOrderInv == OrderInv /\ [Next]_vars => OrderInv'
<1> SUFFICES ASSUME OrderInv, [Next]_vars PROVE OrderInv'
  OBVIOUS
<1> USE DEF OrderInv
<1>1. SyncInv'
  BY NextSyncInv
<1>2. ASSUME NEW q \in Requests, pc'[q] = pc[q], held'[q] = held[q] PROVE InOrder(q)'
  BY <1>2 DEF InOrder
<1>3. ASSUME NEW r \in Requests, held' = [held EXCEPT ![r] = {}], pc' = [pc EXCEPT ![r] = "done"],
             NEW q \in Requests
      PROVE  InOrder(q)'
  <2>1. CASE q = r
    BY <1>3, <2>1 DEF InOrder, SyncInv, TypeOK
  <2>2. CASE q # r
    BY <1>2, <1>3, <2>2 DEF SyncInv, TypeOK
  <2> QED
    BY <2>1, <2>2
<1>4. ASSUME NEW r \in Requests, NEW rows, Lock(r, rows), NEW step, pc' = [pc EXCEPT ![r] = step],
             InOrder(r)', NEW q \in Requests
      PROVE  InOrder(q)'
  BY <1>2, <1>4 DEF Lock, SyncInv, TypeOK
<1>5. ASSUME NEW r \in Requests,
             \/ FindNothing(r) \/ Quote(r) \/ CheckStock(r) \/ ReadCart(r)
             \/ InsertSale(r) \/ StockTaken(r) \/ ReadDay(r)
      PROVE  /\ InOrder(r)' /\ UNCHANGED held
             /\ pc' = [pc EXCEPT ![r] = pc'[r]]
  <2>1. UNCHANGED held /\ pc' = [pc EXCEPT ![r] = pc'[r]]
    BY <1>5 DEF FindNothing, Quote, CheckStock, ReadCart, InsertSale, StockTaken, ReadDay, Goto,
                SyncInv, TypeOK
  <2>2. InOrder(r)
    OBVIOUS
  <2> QED
    BY <1>5, <2>1, <2>2
    DEF FindNothing, Quote, CheckStock, ReadCart, InsertSale, StockTaken, ReadDay, Goto, At,
        SyncInv, TypeOK, InOrder, FromPoints, FromStock
<1>6. ASSUME NEW r \in Requests,
             \/ ConsumePromo(r) \/ WriteCart(r) \/ MovePoints(r)
             \/ \E p \in Products : TakeStock(r, p)
             \/ AttachShift(r) \/ WriteDay(r)
      PROVE  /\ InOrder(r)' /\ \E rows : Lock(r, rows)
             /\ pc' = [pc EXCEPT ![r] = pc'[r]]
  <2>1. pc' = [pc EXCEPT ![r] = pc'[r]] /\ InOrder(r)
    BY <1>6 DEF ConsumePromo, WriteCart, MovePoints, TakeStock, AttachShift, WriteDay, Goto,
                SyncInv, TypeOK
  <2>2. CASE ConsumePromo(r)
    <3>1. held'[r] = held[r] \cup PromoRows(S(r)) /\ pc'[r] = "check" /\ pc[r] = "promo"
      BY <2>2 DEF ConsumePromo, Lock, Goto, At, SyncInv, TypeOK
    <3> QED
      BY <2>1, <2>2, <3>1 DEF ConsumePromo, InOrder, PromoRows, FromPoints, FromStock
  <2>3. CASE WriteCart(r)
    <3>1. held'[r] = held[r] \cup {<<"cart", CartOf[S(r)]>>} /\ pc'[r] = "insert" /\ pc[r] = "writeCart"
      BY <2>3 DEF WriteCart, Lock, Goto, At, SyncInv, TypeOK
    <3> QED
      BY <2>1, <2>3, <3>1 DEF WriteCart, InOrder, FromPoints, FromStock
  <2>4. CASE MovePoints(r)
    <3>1. held'[r] = held[r] \cup CustomerRows(S(r)) /\ pc'[r] = "stock" /\ pc[r] = "points"
      BY <2>4 DEF MovePoints, Lock, Goto, At, SyncInv, TypeOK
    <3> QED
      BY <2>1, <2>4, <3>1 DEF MovePoints, InOrder, CustomerRows, FromPoints, FromStock
  <2>5. ASSUME NEW p \in Products, TakeStock(r, p) PROVE InOrder(r)' /\ \E rows : Lock(r, rows)
    <3>1. held'[r] = held[r] \cup {<<"stock", p>>} /\ pc'[r] = "stock" /\ pc[r] = "stock"
      BY <2>5 DEF TakeStock, Lock, At, SyncInv, TypeOK
    <3> QED
      BY <2>1, <2>5, <3>1 DEF TakeStock, InOrder, FromPoints, FromStock
  <2>6. CASE AttachShift(r)
    <3>1. held'[r] = held[r] \cup {<<"shift", ShiftOf[S(r)]>>} /\ pc'[r] = "day" /\ pc[r] = "shift"
      BY <2>6 DEF AttachShift, Lock, Goto, At, SyncInv, TypeOK
    <3> QED
      BY <2>1, <2>6, <3>1 DEF AttachShift, InOrder, FromPoints, FromStock
  <2>7. CASE WriteDay(r)
    <3>1. held'[r] = held[r] \cup {<<"day">>} /\ pc'[r] = "commit" /\ pc[r] = "writeDay"
      BY <2>7 DEF WriteDay, Lock, Goto, At, SyncInv, TypeOK
    <3> QED
      BY <2>1, <2>7, <3>1 DEF WriteDay, InOrder, FromPoints, FromStock
  <2> QED
    BY <1>6, <2>1, <2>2, <2>3, <2>4, <2>5, <2>6, <2>7
<1>7. CASE UNCHANGED vars
  BY <1>1, <1>2, <1>7 DEF vars, requestVars
<1>8. ASSUME NEW r \in Requests, Run(r) \/ TimeOut(r) PROVE \A q \in Requests : InOrder(q)'
  <2>1. Run(r) \/ TimeOut(r) =>
           \/ FindNothing(r) \/ Quote(r) \/ CheckStock(r) \/ ReadCart(r)
           \/ InsertSale(r) \/ StockTaken(r) \/ ReadDay(r)
           \/ ConsumePromo(r) \/ WriteCart(r) \/ MovePoints(r)
           \/ (\E p \in Products : TakeStock(r, p))
           \/ AttachShift(r) \/ WriteDay(r)
           \/ held' = [held EXCEPT ![r] = {}] /\ pc' = [pc EXCEPT ![r] = "done"]
    BY DEF Run, FindDuplicate, Refuse, PromoExhausted, ReportShortage, CartRace, SaleExists,
           CartAlreadySold, PointsRace, StockRace, DayRace, TimeOut, Commit, RollBack
  <2>2. ASSUME UNCHANGED held PROVE Lock(r, {})
    BY <2>2, LockNothing DEF SyncInv
  <2> QED
    BY <1>3, <1>4, <1>5, <1>6, <1>8, <2>1, <2>2
<1> QED
  BY <1>1, <1>7, <1>8 DEF Next

(* Nobody in a circle waits for the day or a shift, whose holders wait for *)
(* nothing, and so on down the order: the circle is among those that take  *)
(* stock.                                                                  *)
LEMMA CirclesAreOverStock ==
    ASSUME OrderInv, NEW set \in SUBSET Requests, Deadlocked(set)
    PROVE  \E q, r \in set : q # r /\ HalfTaken(q) /\ HalfTaken(r)
<1>1. ASSUME NEW r \in set
      PROVE  /\ InOrder(r) /\ Wanted(r) # {}
             /\ \E q \in set : q # r /\ Wanted(r) \cap held[q] # {}
  BY <1>1 DEF Deadlocked, WaitsFor, OrderInv
<1>2. \A r \in set : pc[r] \notin {"day", "commit"}
  BY <1>1 DEF Wanted
<1>3. \A r \in set : pc[r] # "writeDay"
  BY <1>1, <1>2 DEF Wanted, InOrder
<1>4. \A r \in set : pc[r] # "shift"
  <2> SUFFICES ASSUME NEW r \in set, pc[r] = "shift" PROVE FALSE
    OBVIOUS
  <2>1. Wanted(r) = {<<"shift", ShiftOf[S(r)]>>} /\ ShiftOf[S(r)] \in Shifts
    BY PayloadType, SaleAssumption DEF Wanted
  <2>2. PICK q \in set : <<"shift", ShiftOf[S(r)]>> \in held[q]
    BY <1>1, <2>1
  <2> QED
    BY <1>1, <1>2, <1>3, <2>1, <2>2 DEF InOrder
<1>5. ASSUME NEW r \in set, pc[r] = "stock"
      PROVE  \E q \in set : q # r /\ HalfTaken(q)
  <2>1. Wanted(r) = {"stock"} \X Untaken(r) /\ Untaken(r) \subseteq Products
    BY <1>5 DEF Wanted, Untaken
  <2>2. PICK q \in set, p \in Products : q # r /\ <<"stock", p>> \in held[q]
    BY <1>1, <2>1
  <2>3. pc[q] = "stock"
    BY <1>1, <1>2, <1>3, <1>4, <2>2 DEF InOrder, FromStock, FromPoints
  <2>4. Untaken(q) # {}
    BY <1>1, <2>3 DEF Wanted
  <2> QED
    BY <2>2, <2>3, <2>4 DEF HalfTaken
<1>6. \A r \in set : pc[r] \in FromStock => pc[r] = "stock"
  BY <1>2, <1>3, <1>4 DEF FromStock, FromPoints
<1>7. ASSUME NEW r \in set, pc[r] = "points"
      PROVE  \E q \in set : pc[q] = "stock"
  <2>1. Wanted(r) = CustomerRows(S(r))
    BY <1>7 DEF Wanted
  <2>2. PICK q \in set, c \in Customers : <<"customer", c>> \in held[q]
    BY <1>1, <2>1 DEF CustomerRows
  <2> QED
    BY <1>1, <1>6, <2>2 DEF InOrder
<1>8. ASSUME NEW r \in set, pc[r] = "writeCart"
      PROVE  \E q \in set : pc[q] \in {"points", "stock"}
  <2>1. Wanted(r) = {<<"cart", CartOf[S(r)]>>} /\ CartOf[S(r)] \in Carts
    BY <1>8, PayloadType DEF Wanted, Carts
  <2>2. PICK q \in set : <<"cart", CartOf[S(r)]>> \in held[q]
    BY <1>1, <2>1
  <2>3. pc[q] \in {"insert"} \cup FromPoints /\ pc[q] # "insert"
    BY <1>1, <2>1, <2>2 DEF InOrder, Wanted
  <2> QED
    BY <1>6, <2>3 DEF FromPoints, FromStock
<1>9. ASSUME NEW r \in set, pc[r] = "promo"
      PROVE  \E q \in set : pc[q] \in {"writeCart", "points", "stock"}
  <2>1. Wanted(r) = PromoRows(S(r))
    BY <1>9 DEF Wanted
  <2>2. PICK q \in set, v \in Promos : <<"promo", v>> \in held[q]
    BY <1>1, <2>1 DEF PromoRows
  <2>3. pc[q] # "promo"
    BY <1>1, <2>2 DEF InOrder
  <2> QED
    BY <1>1, <1>2, <1>3, <1>4, <2>3 DEF Wanted
<1>10. PICK r \in set : pc[r] = "stock"
  <2>1. PICK r \in set : TRUE
    BY DEF Deadlocked
  <2>2. pc[r] \in {"promo", "writeCart", "points", "stock"}
    BY <1>1, <1>2, <1>3, <1>4 DEF Wanted
  <2> QED
    BY <1>7, <1>8, <1>9, <2>2
<1>11. PICK q \in set : q # r /\ HalfTaken(q)
  BY <1>5, <1>10
<1>12. PICK t \in set : t # q /\ HalfTaken(t)
  BY <1>5, <1>11 DEF HalfTaken
<1> QED
  BY <1>11, <1>12

(* Whatever is locked in syncSale is locked in one order, but for the      *)
(* stock rows of a sale: a deadlock is between two sales of two products   *)
(* or more, for any number of tills.                                       *)
THEOREM OnlyStockDeadlocks == Spec => []DeadlocksAreOverStock
<1>1. OrderInv => DeadlocksAreOverStock
  BY CirclesAreOverStock DEF DeadlocksAreOverStock
<1> QED
  BY <1>1, InitOrderInv, NextOrderInv, PTL DEF Spec
===============================================================================
