------------------------------ MODULE CountProofs ------------------------------
(***************************************************************************)
(* What is counted at a store: the cash of a shift, with the corrections   *)
(* of its sales, and the goods on the shelf.  For any number of requests   *)
(* at once, shifts, cashiers and sales, and of devices, stores, products   *)
(* and count sessions.                                                     *)
(***************************************************************************)
EXTENDS ShiftDrawer, StockCount, SumProofs
-------------------------------------------------------------------------------
(***************************************************************************)
(* ShiftDrawer: drawers hold the cash of their sales.                      *)
(***************************************************************************)

(* What was decided about a sale is about one that is in the books, and    *)
(* only such a sale has a discount.                                        *)
AboutSales ==
    /\ \A a \in Actors : doing[a].op \in {"reverse", "discount"} => sale[doing[a].sale] # "none"
    /\ \A s \in Sales : sale[s] = "none" => discount[s] = 0

(* While no two requests overlap, one is under way at most, and the sale   *)
(* it is about is as it has read it.                                       *)
Current ==
    ~overlapped =>
        /\ \A a, b \in Actors : doing[a] # Idle /\ doing[b] # Idle => a = b
        /\ \A a \in Actors :
             /\ doing[a].op = "reverse" => sale[doing[a].sale] = "COMPLETED"
             /\ doing[a].op = "discount" => discount[doing[a].sale] = doing[a].seen

DrawerInv == TypeOK /\ AboutSales /\ Current /\ OneOpenShift /\ CashCounted

LEMMA InitDrawer == Init => DrawerInv
<1> SUFFICES ASSUME Init PROVE DrawerInv
  OBVIOUS
<1>1. TypeOK
  <2>1. NoShift \in ShiftRow /\ Idle \in Decisions
    BY DEF NoShift, ShiftRow, Decisions
  <2> QED
    BY <2>1, DrawerAssumption DEF Init, TypeOK
<1>2. AboutSales /\ Current
  BY DEF Init, AboutSales, Current, Idle
<1>3. OneOpenShift
  <2>1. \A c \in Cashiers : OpenShiftsOf(c) = {}
    BY DEF Init, OpenShiftsOf, NoShift
  <2> QED
    BY <2>1, FS_EmptySet DEF OneOpenShift
<1>4. CashCounted
  <2>1. \A h \in Shifts : SalesOf(h) = {} /\ shift[h].cash = 0
    BY DEF Init, SalesOf, NoShift
  <2> QED
    BY <2>1, SumOfNone DEF CashCounted
<1> QED
  BY <1>1, <1>2, <1>3, <1>4 DEF DrawerInv

-------------------------------------------------------------------------------
(* What a decision carries.                                                *)
LEMMA Decided ==
    ASSUME NEW d \in Decisions
    PROVE  /\ d.op \in {"clockIn", "clockOut", "cashDrop"} => d.shift \in Shifts
           /\ d.op = "clockOut" => d.seen \in ShiftRow
           /\ d.op = "cashDrop" => d.amount \in Nat
           /\ d.op \in {"reverse", "discount"} => d.sale \in Sales
           /\ d.op = "reverse" => d.next \in Reversed
           /\ d.op = "discount" => d.amount \in Nat /\ d.seen \in Nat
           /\ d.op = "idle" => d = Idle
<1>1. CASE d = Idle
  BY <1>1 DEF Idle
<1>2. CASE d \in [op : {"clockIn"}, shift : Shifts]
  BY <1>2
<1>3. CASE d \in [op : {"clockOut"}, shift : Shifts, seen : ShiftRow]
  BY <1>3
<1>4. CASE d \in [op : {"cashDrop"}, shift : Shifts, amount : Amounts]
  BY <1>4, DrawerAssumption
<1>5. CASE d \in [op : {"reverse"}, sale : Sales, next : Reversed]
  BY <1>5
<1>6. CASE d \in [op : {"discount"}, sale : Sales, amount : Amounts, seen : Nat]
  BY <1>6, DrawerAssumption
<1> QED
  BY <1>1, <1>2, <1>3, <1>4, <1>5, <1>6 DEF Decisions

LEMMA BeginType ==
    ASSUME TypeOK, NEW a \in Actors, Begin(a)
    PROVE  TypeOK'
<1>1. PICK what \in Decisions : Decide(a, what)
  BY DEF Begin, DecideClockIn, DecideClockOut, DecideCashDrop, DecideReverse, DecideDiscount,
         Decisions, TypeOK, Reversed
<1> QED
  BY <1>1 DEF Decide, NoteOverlap, TypeOK

LEMMA EndType ==
    ASSUME TypeOK, NEW a \in Actors, End(a)
    PROVE  TypeOK'
<1> USE DEF TypeOK, Deciding
<1> DEFINE d == doing[a]
<1>1. d \in Decisions
  OBVIOUS
<1>2. doing' \in [Actors -> Decisions] /\ overlapped' \in BOOLEAN
  BY DEF End, Abort, ClockIn, ClockOut, CashDrop, Reverse, Discount, Done, Decisions
<1>3. CASE Abort(a)
  BY <1>2, <1>3 DEF Abort
<1>4. CASE ClockIn(a)
  <2>1. d.shift \in Shifts
    BY <1>1, <1>4, Decided DEF ClockIn
  <2> QED
    BY <1>2, <1>4, <2>1 DEF ClockIn, ShiftRow
<1>5. CASE ClockOut(a)
  <2>1. d.shift \in Shifts /\ d.seen \in ShiftRow
    BY <1>1, <1>5, Decided DEF ClockOut
  <2>2. ExpectedCash(d.shift, d.seen) \in Int
    BY <2>1, DrawerAssumption DEF ExpectedCash, ShiftRow
  <2> QED
    BY <1>2, <1>5, <2>1, <2>2 DEF ClockOut, ShiftRow
<1>6. CASE CashDrop(a)
  <2>1. d.shift \in Shifts /\ d.amount \in Nat
    BY <1>1, <1>6, Decided DEF CashDrop
  <2> QED
    BY <1>2, <1>6, <2>1 DEF CashDrop, ShiftRow
<1>7. CASE Reverse(a)
  <2>1. d.sale \in Sales /\ d.next \in Reversed
    BY <1>1, <1>7, Decided DEF Reverse
  <2>2. /\ Cash[d.sale] \in Nat /\ ShiftOf[d.sale] \in Shifts
        /\ \A p \in Products : Lines[d.sale][p] \in Nat
    BY <2>1, DrawerAssumption
  <2>3. shift' \in [Shifts -> ShiftRow] /\ UNCHANGED discount
    BY <1>7, <2>2 DEF Reverse, ShiftRow
  <2>4. stock' \in [Products -> Nat]
    BY <1>7, <2>2 DEF Reverse
  <2>5. sale' \in [Sales -> {"none", "COMPLETED"} \cup Reversed]
    BY <1>7, <2>1 DEF Reverse
  <2> QED
    BY <1>2, <2>3, <2>4, <2>5
<1>8. CASE Discount(a)
  <2>1. d.sale \in Sales /\ d.amount \in Nat /\ d.seen \in Nat
    BY <1>1, <1>8, Decided DEF Discount
  <2>2. ShiftOf[d.sale] \in Shifts
    BY <2>1, DrawerAssumption
  <2> QED
    BY <1>2, <1>8, <2>1, <2>2 DEF Discount, ShiftRow
<1> QED
  BY <1>3, <1>4, <1>5, <1>6, <1>7, <1>8 DEF End

LEMMA SyncType ==
    ASSUME TypeOK, NEW s \in Sales, SyncSale(s)
    PROVE  TypeOK'
<1>1. /\ Cash[s] \in Nat /\ ShiftOf[s] \in Shifts
      /\ \A p \in Products : Consumed[s][p] \in Nat
  BY DrawerAssumption
<1> QED
  BY <1>1 DEF TypeOK, SyncSale, NoteOverlap, ShiftRow

LEMMA NextType == TypeOK /\ [Next]_vars => TypeOK'
BY BeginType, EndType, SyncType DEF Next, vars, TypeOK

-------------------------------------------------------------------------------
(* A shift is opened by clocking in only, and only where none is open.     *)
LEMMA OneOpenNext ==
    ASSUME TypeOK, OneOpenShift, [Next]_vars
    PROVE  OneOpenShift'
<1> SUFFICES ASSUME NEW c \in Cashiers PROVE Cardinality(OpenShiftsOf(c)') <= 1
  BY DEF OneOpenShift
<1>1. CASE \E a \in Actors : ClockIn(a)
  <2>1. PICK a \in Actors : ClockIn(a)
    BY <1>1
  <2>2. doing[a].shift \in Shifts
    BY <2>1, Decided DEF ClockIn, Deciding, TypeOK
  <2>3. CASE CashierOf[doing[a].shift] = c
    <3>1. OpenShiftsOf(c)' = {doing[a].shift}
      BY <2>1, <2>2, <2>3 DEF ClockIn, OpenShiftsOf, TypeOK
    <3>2. Cardinality({doing[a].shift}) = 1
      BY FS_Singleton
    <3> QED
      BY <3>1, <3>2
  <2>4. CASE CashierOf[doing[a].shift] # c
    <3>1. OpenShiftsOf(c)' = OpenShiftsOf(c)
      BY <2>1, <2>2, <2>4 DEF ClockIn, OpenShiftsOf, TypeOK
    <3> QED
      BY <3>1 DEF OneOpenShift
  <2> QED
    BY <2>3, <2>4
<1>2. CASE ~(\E a \in Actors : ClockIn(a))
  <2>1. \A h \in Shifts : shift'[h].status = "OPEN" => shift[h].status = "OPEN"
    <3>1. CASE UNCHANGED shift
      BY <3>1
    <3>2. ASSUME NEW a \in Actors, ClockOut(a)
          PROVE  \A h \in Shifts : shift'[h].status = "OPEN" => shift[h].status = "OPEN"
      BY <3>2 DEF ClockOut, TypeOK, ShiftRow
    <3>3. ASSUME NEW a \in Actors, CashDrop(a) \/ Reverse(a) \/ Discount(a)
          PROVE  \A h \in Shifts : shift'[h].status = "OPEN" => shift[h].status = "OPEN"
      BY <3>3 DEF CashDrop, Reverse, Discount, TypeOK, ShiftRow
    <3>4. ASSUME NEW s \in Sales, SyncSale(s)
          PROVE  \A h \in Shifts : shift'[h].status = "OPEN" => shift[h].status = "OPEN"
      BY <3>4 DEF SyncSale, TypeOK, ShiftRow
    <3> QED
      BY <1>2, <3>1, <3>2, <3>3, <3>4
      DEF Next, Begin, End, Decide, DecideClockIn, DecideClockOut, DecideCashDrop,
          DecideReverse, DecideDiscount, Abort, vars
  <2>2. OpenShiftsOf(c)' \subseteq OpenShiftsOf(c)
    BY <2>1 DEF OpenShiftsOf
  <2>3. IsFiniteSet(OpenShiftsOf(c)) /\ Cardinality(OpenShiftsOf(c)) <= 1
    BY DrawerAssumption, FS_Subset DEF OpenShiftsOf, OneOpenShift
  <2>4. /\ Cardinality(OpenShiftsOf(c)') <= Cardinality(OpenShiftsOf(c))
        /\ Cardinality(OpenShiftsOf(c)') \in Nat /\ Cardinality(OpenShiftsOf(c)) \in Nat
    BY <2>2, <2>3, FS_Subset, FS_CardinalityType
  <2> QED
    BY <2>3, <2>4
<1> QED
  BY <1>1, <1>2

-------------------------------------------------------------------------------
(* Of the sales table, everything but a sync leaves alone which sales are  *)
(* in it, and the cash of the shifts.                                      *)
LEMMA OthersKeepSales ==
    ASSUME TypeOK, AboutSales, [Next]_vars, ~(\E s \in Sales : SyncSale(s))
    PROVE  /\ \A s \in Sales : sale'[s] = "none" <=> sale[s] = "none"
           /\ \A h \in Shifts : shift'[h].cash = shift[h].cash
<1>1. CASE UNCHANGED <<shift, sale>>
  BY <1>1
<1>2. ASSUME NEW a \in Actors, ClockIn(a) \/ ClockOut(a) \/ CashDrop(a) \/ Discount(a)
      PROVE  UNCHANGED sale /\ \A h \in Shifts : shift'[h].cash = shift[h].cash
  BY <1>2 DEF ClockIn, ClockOut, CashDrop, Discount, TypeOK, ShiftRow
<1>3. ASSUME NEW a \in Actors, Reverse(a)
      PROVE  /\ \A s \in Sales : sale'[s] = "none" <=> sale[s] = "none"
             /\ \A h \in Shifts : shift'[h].cash = shift[h].cash
  <2>1. /\ doing[a].sale \in Sales /\ doing[a].next \in Reversed
        /\ sale[doing[a].sale] # "none"
    BY <1>3, Decided DEF Reverse, Deciding, TypeOK, AboutSales
  <2> QED
    BY <1>3, <2>1 DEF Reverse, TypeOK, ShiftRow, Reversed
<1> QED
  BY <1>1, <1>2, <1>3
  DEF Next, Begin, End, Decide, DecideClockIn, DecideClockOut, DecideCashDrop, DecideReverse,
      DecideDiscount, Abort, vars

LEMMA SalesFinite ==
    ASSUME NEW h \in Shifts
    PROVE  IsFiniteSet(SalesOf(h)) /\ SalesOf(h) \subseteq Sales
BY DrawerAssumption, FS_Subset DEF SalesOf

LEMMA CashNext ==
    ASSUME TypeOK, AboutSales, CashCounted, [Next]_vars
    PROVE  CashCounted'
<1> SUFFICES ASSUME NEW h \in Shifts
             PROVE  shift'[h].cash = SumFunctionOnSet(Cash, SalesOf(h)')
  BY DEF CashCounted
<1>1. shift[h].cash = SumFunctionOnSet(Cash, SalesOf(h))
  BY DEF CashCounted
<1>2. CASE ~(\E s \in Sales : SyncSale(s))
  <2>1. SalesOf(h)' = SalesOf(h) /\ shift'[h].cash = shift[h].cash
    BY <1>2, OthersKeepSales DEF SalesOf
  <2> QED
    BY <1>1, <2>1
<1>3. ASSUME NEW s \in Sales, SyncSale(s)
      PROVE  shift'[h].cash = SumFunctionOnSet(Cash, SalesOf(h)')
  <2>1. CASE ShiftOf[s] = h
    <3>1. SalesOf(h)' = SalesOf(h) \cup {s} /\ s \notin SalesOf(h)
      BY <1>3, <2>1 DEF SyncSale, SalesOf, TypeOK
    <3>2. SumFunctionOnSet(Cash, SalesOf(h) \cup {s}) = SumFunctionOnSet(Cash, SalesOf(h)) + Cash[s]
      <4>1. Cash[s] \in Nat /\ \A t \in SalesOf(h) : Cash[t] \in Nat
        BY DrawerAssumption DEF SalesOf
      <4> QED
        BY <3>1, <4>1, SalesFinite, SumOfOneMore
    <3>3. shift'[h].cash = shift[h].cash + Cash[s]
      BY <1>3, <2>1 DEF SyncSale, TypeOK, ShiftRow
    <3> QED
      BY <1>1, <3>1, <3>2, <3>3
  <2>2. CASE ShiftOf[s] # h
    <3>1. SalesOf(h)' = SalesOf(h)
      BY <1>3, <2>2 DEF SyncSale, SalesOf, TypeOK
    <3>2. shift'[h].cash = shift[h].cash
      BY <1>3, <2>2 DEF SyncSale, TypeOK, ShiftRow
    <3> QED
      BY <1>1, <3>1, <3>2
  <2> QED
    BY <2>1, <2>2
<1> QED
  BY <1>2, <1>3

-------------------------------------------------------------------------------
LEMMA AboutSalesNext ==
    ASSUME TypeOK, AboutSales, [Next]_vars
    PROVE  AboutSales'
<1>1. \A s \in Sales : sale[s] # "none" => sale'[s] # "none"
  <2>1. ASSUME NEW s \in Sales, SyncSale(s)
        PROVE  \A t \in Sales : sale[t] # "none" => sale'[t] # "none"
    BY <2>1 DEF SyncSale, TypeOK
  <2> QED
    BY <2>1, OthersKeepSales
<1>2. ASSUME NEW a \in Actors, doing'[a].op \in {"reverse", "discount"}
      PROVE  sale'[doing'[a].sale] # "none"
  <2>1. CASE doing'[a] = doing[a]
    BY <1>1, <1>2, <2>1, Decided DEF AboutSales, TypeOK
  <2>2. CASE doing'[a] # doing[a]
    <3>1. doing'[a] # Idle
      BY <1>2 DEF Idle
    <3>2. Begin(a)
      BY <2>2, <3>1 DEF Next, vars, Begin, End, Decide, DecideClockIn, DecideClockOut,
            DecideCashDrop, DecideReverse, DecideDiscount, Abort, ClockIn, ClockOut, CashDrop,
            Reverse, Discount, Done, SyncSale, TypeOK
    <3> QED
      BY <1>2, <3>2 DEF Begin, Decide, DecideClockIn, DecideClockOut, DecideCashDrop,
            DecideReverse, DecideDiscount, TypeOK
  <2> QED
    BY <2>1, <2>2
<1>3. ASSUME NEW s \in Sales, sale'[s] = "none" PROVE discount'[s] = 0
  <2>1. sale[s] = "none" /\ discount[s] = 0
    BY <1>1, <1>3 DEF AboutSales
  <2>2. ASSUME NEW a \in Actors, Discount(a) PROVE discount'[s] = discount[s]
    <3>1. doing[a].sale # s
      BY <2>1, <2>2 DEF Discount, Deciding, AboutSales
    <3> QED
      BY <2>2, <3>1 DEF Discount, TypeOK
  <2>3. ASSUME ~(\E a \in Actors : Discount(a)) PROVE UNCHANGED discount
    BY <2>3 DEF Next, vars, Begin, End, Decide, DecideClockIn, DecideClockOut, DecideCashDrop,
          DecideReverse, DecideDiscount, Abort, ClockIn, ClockOut, CashDrop, Reverse, SyncSale
  <2> QED
    BY <2>1, <2>2, <2>3
<1> QED
  BY <1>2, <1>3 DEF AboutSales

(* A request that begins while none is under way reads what is there; the  *)
(* one under way is alone until it ends.                                   *)
LEMMA CurrentNext ==
    ASSUME TypeOK, Current, [Next]_vars
    PROVE  Current'
<1> SUFFICES ASSUME ~overlapped'
             PROVE  /\ \A a, b \in Actors : doing'[a] # Idle /\ doing'[b] # Idle => a = b
                    /\ \A a \in Actors :
                         /\ doing'[a].op = "reverse" => sale'[doing'[a].sale] = "COMPLETED"
                         /\ doing'[a].op = "discount" => discount'[doing'[a].sale] = doing'[a].seen
  BY DEF Current
<1>1. CASE UNCHANGED vars
  BY <1>1 DEF vars, Current
<1>2. ASSUME NEW a \in Actors, Begin(a) PROVE Current'
  <2>1. \A b \in Actors : doing[b] = Idle
    BY <1>2 DEF Begin, Decide, DecideClockIn, DecideClockOut, DecideCashDrop, DecideReverse,
          DecideDiscount, NoteOverlap
  <2>2. /\ UNCHANGED <<sale, discount>>
        /\ \A b \in Actors : b # a => doing'[b] = Idle
    BY <1>2, <2>1 DEF Begin, Decide, DecideClockIn, DecideClockOut, DecideCashDrop,
          DecideReverse, DecideDiscount, TypeOK
  <2>3. /\ doing'[a].op = "reverse" => sale[doing'[a].sale] = "COMPLETED"
        /\ doing'[a].op = "discount" => discount[doing'[a].sale] = doing'[a].seen
    BY <1>2 DEF Begin, Decide, DecideClockIn, DecideClockOut, DecideCashDrop,
          DecideReverse, DecideDiscount, TypeOK
  <2> QED
    BY <2>2, <2>3 DEF Current, Idle
<1>3. ASSUME NEW a \in Actors, End(a) PROVE Current'
  <2>1. ~overlapped /\ doing[a] # Idle
    BY <1>3 DEF End, Abort, ClockIn, ClockOut, CashDrop, Reverse, Discount, Done, Deciding, Idle
  <2>2. \A b \in Actors : doing'[b] = Idle
    BY <1>3, <2>1 DEF Current, End, Abort, ClockIn, ClockOut, CashDrop, Reverse, Discount, Done,
          TypeOK
  <2> QED
    BY <2>2 DEF Current, Idle
<1>4. ASSUME NEW s \in Sales, SyncSale(s) PROVE Current'
  <2>1. \A b \in Actors : doing'[b] = Idle
    BY <1>4 DEF SyncSale, NoteOverlap
  <2> QED
    BY <2>1 DEF Current, Idle
<1> QED
  BY <1>1, <1>2, <1>3, <1>4 DEF Next, Current

-------------------------------------------------------------------------------
(* The two counters of a correction are moved by that correction only.     *)
LEMMA OthersKeepCounters ==
    ASSUME TypeOK, [Next]_vars, NEW h \in Shifts
    PROVE  /\ ~(\E a \in Actors : Reverse(a)) => shift'[h].refunds = shift[h].refunds
           /\ ~(\E a \in Actors : Discount(a)) => shift'[h].discounts = shift[h].discounts
<1> DEFINE Same == shift'[h].refunds = shift[h].refunds /\ shift'[h].discounts = shift[h].discounts
<1>1. CASE UNCHANGED shift
  BY <1>1
<1>2. ASSUME NEW a \in Actors, ClockIn(a) PROVE Same
  BY <1>2 DEF ClockIn, TypeOK, ShiftRow
<1>3. ASSUME NEW a \in Actors, ClockOut(a) PROVE Same
  BY <1>3 DEF ClockOut, TypeOK, ShiftRow
<1>4. ASSUME NEW a \in Actors, CashDrop(a) PROVE Same
  BY <1>4 DEF CashDrop, TypeOK, ShiftRow
<1>5. ASSUME NEW s \in Sales, SyncSale(s) PROVE Same
  BY <1>5 DEF SyncSale, TypeOK, ShiftRow
<1>6. ASSUME NEW a \in Actors, Reverse(a) PROVE shift'[h].discounts = shift[h].discounts
  BY <1>6 DEF Reverse, TypeOK, ShiftRow
<1>7. ASSUME NEW a \in Actors, Discount(a) PROVE shift'[h].refunds = shift[h].refunds
  BY <1>7 DEF Discount, TypeOK, ShiftRow
<1> QED
  BY <1>1, <1>2, <1>3, <1>4, <1>5, <1>6, <1>7
  DEF Next, Begin, End, Decide, DecideClockIn, DecideClockOut, DecideCashDrop, DecideReverse,
      DecideDiscount, Abort, vars

(* What the steps in turn do to the sales of a shift.                      *)
LEMMA RefundsNext ==
    ASSUME TypeOK, AboutSales, Current, ~overlapped, RefundedOnce, [Next]_vars
    PROVE  RefundedOnce'
<1> SUFFICES ASSUME NEW h \in Shifts
             PROVE  shift'[h].refunds = SumFunctionOnSet(Cash, ReversedOf(h)')
  BY DEF RefundedOnce
<1>1. shift[h].refunds = SumFunctionOnSet(Cash, ReversedOf(h))
  BY DEF RefundedOnce
<1>2. ASSUME NEW a \in Actors, Reverse(a)
      PROVE  shift'[h].refunds = SumFunctionOnSet(Cash, ReversedOf(h)')
  <2> DEFINE s == doing[a].sale
  <2>1. s \in Sales /\ doing[a].next \in Reversed /\ sale[s] = "COMPLETED"
    BY <1>2, Decided DEF Reverse, Deciding, TypeOK, Current
  <2>2. sale' = [sale EXCEPT ![s] = doing[a].next]
        /\ shift' = [shift EXCEPT ![ShiftOf[s]].refunds = @ + Cash[s]]
    BY <1>2 DEF Reverse
  <2> HIDE DEF s
  <2>3. CASE ShiftOf[s] = h
    <3>1. ReversedOf(h)' = ReversedOf(h) \cup {s} /\ s \notin ReversedOf(h)
      BY <2>1, <2>2, <2>3 DEF ReversedOf, SalesOf, TypeOK, Reversed
    <3>2. /\ IsFiniteSet(ReversedOf(h)) /\ Cash[s] \in Nat
          /\ \A t \in ReversedOf(h) : Cash[t] \in Nat
      BY <2>1, DrawerAssumption, FS_Subset DEF ReversedOf, SalesOf
    <3>3. SumFunctionOnSet(Cash, ReversedOf(h) \cup {s})
            = SumFunctionOnSet(Cash, ReversedOf(h)) + Cash[s]
      BY <3>1, <3>2, SumOfOneMore
    <3>4. shift'[h].refunds = shift[h].refunds + Cash[s]
      BY <2>2, <2>3 DEF TypeOK, ShiftRow
    <3> QED
      BY <1>1, <3>1, <3>3, <3>4
  <2>4. CASE ShiftOf[s] # h
    <3>1. ReversedOf(h)' = ReversedOf(h) /\ shift'[h].refunds = shift[h].refunds
      BY <2>1, <2>2, <2>4 DEF ReversedOf, SalesOf, TypeOK, ShiftRow
    <3> QED
      BY <1>1, <3>1
  <2> QED
    BY <2>3, <2>4
<1>3. CASE ~(\E a \in Actors : Reverse(a))
  <2>1. \A t \in Sales : sale'[t] \in Reversed <=> sale[t] \in Reversed
    BY <1>3 DEF Next, vars, Begin, End, Decide, DecideClockIn, DecideClockOut, DecideCashDrop,
          DecideReverse, DecideDiscount, Abort, ClockIn, ClockOut, CashDrop, Discount, SyncSale,
          TypeOK, Reversed
  <2>2. ReversedOf(h)' = ReversedOf(h)
    BY <2>1 DEF ReversedOf, SalesOf, Reversed
  <2>3. shift'[h].refunds = shift[h].refunds
    BY <1>3, OthersKeepCounters
  <2> QED
    BY <1>1, <2>2, <2>3
<1> QED
  BY <1>2, <1>3

(* Reversing puts back the lines of a sale: what the sale has taken, for   *)
(* products without a recipe.                                              *)
LEMMA ShelfNext ==
    ASSUME Consumed = Lines,
           TypeOK, AboutSales, Current, ~overlapped, StockMatchesSales, [Next]_vars
    PROVE  StockMatchesSales'
<1> SUFFICES ASSUME NEW p \in Products
             PROVE  stock'[p] = InitStock[p] - SumFunctionOnSet(Taken(p), Standing')
  BY DEF StockMatchesSales, Taken
<1> DEFINE taken == Taken(p)
<1>1. stock[p] = InitStock[p] - SumFunctionOnSet(taken, Standing)
  BY DEF StockMatchesSales
<1>2. /\ IsFiniteSet(Standing) /\ Standing \subseteq Sales /\ InitStock[p] \in Nat
      /\ \A s \in Sales : taken[s] = Consumed[s][p] /\ taken[s] \in Nat
  BY DrawerAssumption, FS_Subset DEF Standing, Taken
<1> HIDE DEF taken
<1>3. SumFunctionOnSet(taken, Standing) \in Nat
  BY <1>2, SumType
<1>4. ASSUME NEW s \in Sales, SyncSale(s)
      PROVE  stock'[p] = InitStock[p] - SumFunctionOnSet(taken, Standing')
  <2>1. Standing' = Standing \cup {s} /\ s \notin Standing
    BY <1>4 DEF SyncSale, Standing, TypeOK
  <2>2. SumFunctionOnSet(taken, Standing \cup {s}) = SumFunctionOnSet(taken, Standing) + taken[s]
    BY <1>2, <2>1, SumOfOneMore
  <2>3. stock'[p] = stock[p] - taken[s]
    BY <1>2, <1>4 DEF SyncSale
  <2> QED
    BY <1>1, <1>2, <1>3, <2>1, <2>2, <2>3
<1>5. ASSUME NEW a \in Actors, Reverse(a)
      PROVE  stock'[p] = InitStock[p] - SumFunctionOnSet(taken, Standing')
  <2> DEFINE s == doing[a].sale
             rest == Standing \ {s}
  <2>1. s \in Sales /\ doing[a].next \in Reversed /\ sale[s] = "COMPLETED"
    BY <1>5, Decided DEF Reverse, Deciding, TypeOK, Current
  <2>2. Standing' = rest /\ s \in Standing
    BY <1>5, <2>1 DEF Reverse, Standing, TypeOK, Reversed
  <2>3. /\ SumFunctionOnSet(taken, Standing) = SumFunctionOnSet(taken, rest) + taken[s]
        /\ SumFunctionOnSet(taken, rest) \in Nat
    <3>1. \A t \in Standing : taken[t] \in Nat
      BY <1>2
    <3> QED
      BY <1>2, <2>2, <3>1, SumOfOneLess
  <2>4. stock'[p] = stock[p] + taken[s]
    BY <1>2, <1>5, <2>1 DEF Reverse
  <2> QED
    BY <1>1, <1>2, <2>1, <2>2, <2>3, <2>4
<1>6. CASE ~(\E s \in Sales : SyncSale(s)) /\ ~(\E a \in Actors : Reverse(a))
  <2>1. UNCHANGED <<stock, sale>>
    BY <1>6 DEF Next, vars, Begin, End, Decide, DecideClockIn, DecideClockOut, DecideCashDrop,
          DecideReverse, DecideDiscount, Abort, ClockIn, ClockOut, CashDrop, Discount
  <2>2. stock'[p] = stock[p] /\ Standing' = Standing
    BY <2>1 DEF Standing
  <2>3. stock'[p] = InitStock[p] - SumFunctionOnSet(taken, Standing')
    BY <1>1, <2>2
  <2> QED
    BY <2>3 DEF taken
<1> QED
  BY <1>4, <1>5, <1>6 DEF taken

LEMMA DiscountsNext ==
    ASSUME TypeOK, AboutSales, Current, ~overlapped, DiscountsAgree, [Next]_vars
    PROVE  DiscountsAgree'
<1> SUFFICES ASSUME NEW h \in Shifts
             PROVE  shift'[h].discounts = SumFunctionOnSet(discount', SalesOf(h)')
  BY DEF DiscountsAgree
<1>1. shift[h].discounts = SumFunctionOnSet(discount, SalesOf(h))
  BY DEF DiscountsAgree
<1>2. IsFiniteSet(SalesOf(h)) /\ SalesOf(h) \subseteq Sales
  BY SalesFinite
<1>3. /\ \A t \in SalesOf(h) : discount[t] \in Nat
      /\ SumFunctionOnSet(discount, SalesOf(h)) \in Nat
  <2>1. \A t \in SalesOf(h) : discount[t] \in Nat
    BY <1>2 DEF TypeOK
  <2> QED
    BY <1>2, <2>1, SumType
<1>4. ASSUME NEW a \in Actors, Discount(a)
      PROVE  shift'[h].discounts = SumFunctionOnSet(discount', SalesOf(h)')
  <2> DEFINE s == doing[a].sale
  <2>1. /\ s \in Sales /\ doing[a].amount \in Nat /\ sale[s] # "none"
        /\ discount[s] = doing[a].seen /\ discount[s] \in Nat
    BY <1>4, Decided DEF Discount, Deciding, TypeOK, Current, AboutSales
  <2>2. /\ discount' = [discount EXCEPT ![s] = discount[s] + doing[a].amount]
        /\ shift' = [shift EXCEPT ![ShiftOf[s]].discounts = @ + doing[a].amount]
        /\ SalesOf(h)' = SalesOf(h)
    BY <1>4, <2>1 DEF Discount, SalesOf
  <2> HIDE DEF s
  <2>3. CASE ShiftOf[s] = h
    <3>1. s \in SalesOf(h)
      BY <2>1, <2>3 DEF SalesOf
    <3>2. /\ \A t \in SalesOf(h) : discount'[t] \in Nat
          /\ \A t \in SalesOf(h) : t # s => discount'[t] = discount[t]
          /\ discount'[s] = discount[s] + doing[a].amount
      BY <1>2, <1>3, <2>1, <2>2 DEF TypeOK
    <3>3. SumFunctionOnSet(discount', SalesOf(h))
            = SumFunctionOnSet(discount, SalesOf(h)) - discount[s] + discount'[s]
      <4> DEFINE new == discount'
      <4>1. \A t \in SalesOf(h) : discount[t] \in Nat /\ new[t] \in Nat
        BY <1>3, <3>2
      <4>2. \A t \in SalesOf(h) : t # s => new[t] = discount[t]
        BY <3>2
      <4> HIDE DEF new
      <4>3. SumFunctionOnSet(new, SalesOf(h))
              = SumFunctionOnSet(discount, SalesOf(h)) - discount[s] + new[s]
        BY <1>2, <3>1, <4>1, <4>2, SumOfOneChanged
      <4> QED
        BY <4>3 DEF new
    <3>4. shift'[h].discounts = shift[h].discounts + doing[a].amount
      BY <2>2, <2>3 DEF TypeOK, ShiftRow
    <3> QED
      BY <1>1, <1>3, <2>1, <2>2, <3>2, <3>3, <3>4
  <2>4. CASE ShiftOf[s] # h
    <3>1. \A t \in SalesOf(h) : discount'[t] = discount[t]
      BY <1>2, <2>2, <2>4 DEF SalesOf, TypeOK
    <3>2. SumFunctionOnSet(discount', SalesOf(h)) = SumFunctionOnSet(discount, SalesOf(h))
      BY <1>2, <1>3, <3>1, SumSame
    <3>3. shift'[h].discounts = shift[h].discounts
      BY <2>2, <2>4 DEF TypeOK, ShiftRow
    <3> QED
      BY <1>1, <2>2, <3>2, <3>3
  <2> QED
    BY <2>3, <2>4
<1>5. ASSUME NEW s \in Sales, SyncSale(s)
      PROVE  shift'[h].discounts = SumFunctionOnSet(discount', SalesOf(h)')
  <2>1. UNCHANGED discount /\ shift'[h].discounts = shift[h].discounts /\ discount[s] = 0
    BY <1>5 DEF SyncSale, TypeOK, ShiftRow, AboutSales
  <2>2. CASE ShiftOf[s] = h
    <3>1. SalesOf(h)' = SalesOf(h) \cup {s} /\ s \notin SalesOf(h)
      BY <1>5, <2>2 DEF SyncSale, SalesOf, TypeOK
    <3>2. SumFunctionOnSet(discount, SalesOf(h) \cup {s})
            = SumFunctionOnSet(discount, SalesOf(h)) + discount[s]
      BY <1>2, <1>3, <2>1, <3>1, SumOfOneMore
    <3> QED
      BY <1>1, <1>3, <2>1, <3>1, <3>2
  <2>3. CASE ShiftOf[s] # h
    <3>1. SalesOf(h)' = SalesOf(h)
      BY <1>5, <2>3 DEF SyncSale, SalesOf, TypeOK
    <3> QED
      BY <1>1, <2>1, <3>1
  <2> QED
    BY <2>2, <2>3
<1>6. CASE ~(\E s \in Sales : SyncSale(s)) /\ ~(\E a \in Actors : Discount(a))
  <2>1. SalesOf(h)' = SalesOf(h)
    BY <1>6, OthersKeepSales DEF SalesOf
  <2>2. shift'[h].discounts = shift[h].discounts
    BY <1>6, OthersKeepCounters
  <2>3. UNCHANGED discount
    BY <1>6 DEF Next, vars, Begin, End, Decide, DecideClockIn, DecideClockOut, DecideCashDrop,
          DecideReverse, DecideDiscount, Abort, ClockIn, ClockOut, CashDrop, Reverse
  <2> QED
    BY <1>1, <2>1, <2>2, <2>3
<1> QED
  BY <1>4, <1>5, <1>6

-------------------------------------------------------------------------------
(* The corrections are told in two parts: what holds for every product,    *)
(* and the shelf, for products that are put back as they were taken.       *)
InTurn == ~overlapped => RefundedOnce /\ DiscountsAgree
ShelfInTurn == ~overlapped => StockMatchesSales

LEMMA DrawerInvNext == DrawerInv /\ [Next]_vars => DrawerInv'
BY NextType, AboutSalesNext, CurrentNext, OneOpenNext, CashNext DEF DrawerInv

LEMMA OverlapStays == [Next]_vars /\ TypeOK /\ ~overlapped' => ~overlapped
BY DEF Next, vars, Begin, End, Decide, DecideClockIn, DecideClockOut, DecideCashDrop,
   DecideReverse, DecideDiscount, Abort, ClockIn, ClockOut, CashDrop, Reverse, Discount, SyncSale,
   Done, NoteOverlap, TypeOK

LEMMA InitInTurn == Init => InTurn /\ ShelfInTurn
<1> SUFFICES ASSUME Init PROVE RefundedOnce /\ DiscountsAgree /\ StockMatchesSales
  BY DEF InTurn, ShelfInTurn
<1>1. RefundedOnce /\ DiscountsAgree
  <2>1. \A h \in Shifts : /\ SalesOf(h) = {} /\ ReversedOf(h) = {}
                          /\ shift[h].refunds = 0 /\ shift[h].discounts = 0
    BY DEF Init, SalesOf, ReversedOf, NoShift
  <2> QED
    BY <2>1, SumOfNone DEF RefundedOnce, DiscountsAgree
<1>2. StockMatchesSales
  <2>1. Standing = {} /\ \A p \in Products : stock[p] = InitStock[p] /\ InitStock[p] \in Nat
    BY DrawerAssumption DEF Init, Standing
  <2>2. \A p \in Products : SumFunctionOnSet(Taken(p), Standing) = 0
    BY <2>1, SumOfNone
  <2> QED
    BY <2>1, <2>2 DEF StockMatchesSales
<1> QED
  BY <1>1, <1>2

LEMMA InTurnNext == DrawerInv /\ InTurn /\ [Next]_vars => InTurn'
<1> SUFFICES ASSUME DrawerInv, InTurn, [Next]_vars, ~overlapped' PROVE RefundedOnce' /\ DiscountsAgree'
  BY DEF InTurn
<1>1. ~overlapped /\ RefundedOnce /\ DiscountsAgree
  BY OverlapStays DEF DrawerInv, InTurn
<1> QED
  BY <1>1, RefundsNext, DiscountsNext DEF DrawerInv

LEMMA ShelfInTurnNext ==
    ASSUME Consumed = Lines
    PROVE  DrawerInv /\ ShelfInTurn /\ [Next]_vars => ShelfInTurn'
<1> SUFFICES ASSUME DrawerInv, ShelfInTurn, [Next]_vars, ~overlapped' PROVE StockMatchesSales'
  BY DEF ShelfInTurn
<1>1. ~overlapped /\ StockMatchesSales
  BY OverlapStays DEF DrawerInv, ShelfInTurn
<1> QED
  BY <1>1, ShelfNext DEF DrawerInv

(* DrawerInv holds in every state that can be reached.                     *)
THEOREM DrawerIsSound == Spec => []DrawerInv
BY InitDrawer, DrawerInvNext, PTL DEF Spec

(* A cashier has one open shift at most, however many requests to clock in *)
(* have looked before any of them inserts (clockIn and its unique index).  *)
THEOREM OneDrawerPerCashier == Spec => []OneOpenShift
<1>1. DrawerInv => OneOpenShift
  BY DEF DrawerInv
<1> QED
  BY <1>1, DrawerIsSound, PTL

(* The drawer counts each cash sale of its shift once, whatever else is    *)
(* done to the shift meanwhile: attachSalePayments increments, and nothing *)
(* that has read the row before writes the counter again.                  *)
THEOREM CashIsCounted == Spec => []CashCounted
<1>1. DrawerInv => CashCounted
  BY DEF DrawerInv
<1> QED
  BY <1>1, DrawerIsSound, PTL

(* As long as requests do not overlap, with recipes or without: a reversed *)
(* sale is paid back once, and the discounts of a shift are those of its   *)
(* sales (reverseCompletedSale, applyManualDiscount).                      *)
THEOREM RefundsAndDiscountsAddUp == Spec => [](~overlapped => RefundedOnce /\ DiscountsAgree)
<1>1. InTurn <=> (~overlapped => RefundedOnce /\ DiscountsAgree)
  BY DEF InTurn
<1> QED
  BY <1>1, InitDrawer, InitInTurn, DrawerInvNext, InTurnNext, PTL DEF Spec

(* As long as requests do not overlap, the shelf and the drawer follow the *)
(* sales in every order of sales, voids, refunds and discounts, where no   *)
(* product is made from a recipe; with one, reverseCompletedSale restocks  *)
(* the product instead of its ingredients, and the run ShiftDrawerRecipe   *)
(* refutes StockMatchesSales.                                              *)
THEOREM CorrectionsAddUp == ASSUME Consumed = Lines PROVE Spec => []CorrectionsInTurn
<1>1. InTurn /\ ShelfInTurn => CorrectionsInTurn
  BY DEF InTurn, ShelfInTurn, CorrectionsInTurn
<1> QED
  BY <1>1, InitDrawer, InitInTurn, DrawerInvNext, InTurnNext, ShelfInTurnNext, PTL DEF Spec
-------------------------------------------------------------------------------
(***************************************************************************)
(* StockCount: a store has one open count, and completing it leaves what   *)
(* was counted at what lies there (CountInv).                              *)
(***************************************************************************)

(* What a device does at its counts.                                       *)
DeviceStep(d) ==
    \/ \E s \in Sessions : OpenSession(d, s) \/ \E x \in Branches : BeginCreate(d, s, x)
    \/ \E p \in active : Type(d, p) \/ SaveLine(d, p)
    \/ CommitCreate(d) \/ FinishCount(d) \/ FinishLine(d) \/ BeginComplete(d) \/ CommitComplete(d)
    \/ BeginCancel(d) \/ CommitCancel(d)

LEMMA CountSteps ==
    CountNext <=> \/ \E d \in Devices : DeviceStep(d)
                  \/ \E x \in Branches \X Stocked : SellOne(x)
                  \/ NewDay
BY DEF CountNext, DeviceStep

LEMMA CountJobKinds ==
    ASSUME NEW j, JobTyped(j)
    PROVE  /\ j.do \in {"idle", "create", "finish", "complete", "cancel"}
           /\ j.do = "idle" <=> j = NoJob
           /\ j.do # "idle" => j.session \in Sessions
BY DEF JobTyped, NoJob

(* Showing a session puts figures on the page.                             *)
LEMMA ShowTyped ==
    ASSUME CountTyped, NEW d \in Devices, NEW s \in Sessions, NEW lines \in Figures,
           NEW expected \in [Stocked -> Nat], Show(d, s, lines, expected)
    PROVE  /\ page' \in [Devices -> Sessions \cup {"none"}] /\ loaded' \in [Devices -> Figures]
           /\ typed' \in [Devices -> Figures]
           /\ \A e \in Devices : page'[e] # "none" => typed'[e] \in [Stocked -> Nat]
<1>1. [p \in Stocked |-> IF lines[p] = Uncounted THEN expected[p] ELSE lines[p]] \in [Stocked -> Nat]
  BY DEF Figures
<1> QED
  BY <1>1 DEF Show, CountTyped, Figures

LEMMA LeaveTyped ==
    ASSUME CountTyped, NEW d \in Devices, Leave(d)
    PROVE  /\ page' \in [Devices -> Sessions \cup {"none"}] /\ loaded' \in [Devices -> Figures]
           /\ typed' \in [Devices -> Figures]
           /\ \A e \in Devices : page'[e] # "none" => typed'[e] \in [Stocked -> Nat]
BY DEF Leave, CountTyped, Figures, Blank

LEMMA StepCountTyped ==
    ASSUME CountTyped, Working, CountNext
    PROVE  CountTyped'
<1> USE DEF Rest
<1>0. active' = active
  BY CountSteps DEF DeviceStep, OpenSession, BeginCreate, Type, SaveLine, CommitCreate, FinishCount,
     FinishLine, BeginComplete, CommitComplete, BeginCancel, CommitCancel, SellOne, NewDay, server
<1>a. \A j : JobTyped(j)' <=> JobTyped(j)
  BY <1>0 DEF JobTyped, NoJob
<1>b. JobTyped(NoJob)
  BY DEF JobTyped
<1>1. ASSUME NEW d \in Devices, NEW s \in Sessions, OpenSession(d, s) PROVE CountTyped'
  <2>1. state[s] = "DRAFT" /\ Show(d, s, counted[s], system[s]) /\ counted[s] \in Figures
        /\ system[s] \in [Stocked -> Nat]
    BY <1>1 DEF OpenSession, CountTyped
  <2>2. byHand' \in [Sessions -> SUBSET active]
    BY <1>1 DEF OpenSession, CountTyped
  <2> QED
    BY <1>0, <1>1, <1>a, <2>1, <2>2, ShowTyped DEF OpenSession, server, CountTyped, Figures
<1>2. ASSUME NEW d \in Devices, NEW s \in Sessions, NEW x \in Branches, BeginCreate(d, s, x) PROVE CountTyped'
  <2> DEFINE j == [do |-> "create", session |-> s, store |-> x, code |-> NextCode,
                   lines |-> [p \in Stocked |-> onHand[<<x, p>>]]]
  <2>1. job' = [job EXCEPT ![d] = j]
    BY <1>2 DEF BeginCreate, Work
  <2>2. j.lines \in [Stocked -> Nat]
    BY DEF CountTyped
  <2>3. JobTyped(j)
    BY <2>2 DEF JobTyped
  <2> HIDE DEF j
  <2>4. job' = [e \in Devices |-> job'[e]] /\ \A e \in Devices : JobTyped(job[e])'
    BY <1>a, <2>1, <2>3 DEF CountTyped
  <2> QED
    BY <1>0, <1>2, <2>4 DEF BeginCreate, server, screen, history, CountTyped, Figures
<1>3. ASSUME NEW d \in Devices, NEW p \in active, Type(d, p) PROVE CountTyped'
  <2>1. page[d] \in Sessions /\ <<place[page[d]], p>> \in Branches \X Stocked
    BY <1>3 DEF Type, CountTyped
  <2>2. goods[Shelf(d, p)] \in Nat
    BY <2>1 DEF CountTyped, Shelf
  <2>3. typed' = [typed EXCEPT ![d] = [typed[d] EXCEPT ![p] = goods[Shelf(d, p)]]]
    BY <1>3 DEF Type
  <2>4. typed' \in [Devices -> Figures] /\ \A e \in Devices : page[e] # "none" => typed'[e] \in [Stocked -> Nat]
    BY <2>2, <2>3 DEF CountTyped, Figures
  <2>5. byHand' \in [Sessions -> SUBSET active]
    BY <1>3, <2>1 DEF Type, CountTyped
  <2> QED
    BY <1>0, <1>3, <1>a, <2>4, <2>5 DEF Type, server, CountTyped, Figures
<1>4. ASSUME NEW d \in Devices, NEW p \in active, SaveLine(d, p) PROVE CountTyped'
  <2>1. page[d] \in Sessions /\ typed[d][p] \in Nat
    BY <1>4 DEF SaveLine, CountTyped
  <2>2. counted' = [counted EXCEPT ![page[d]] = [counted[page[d]] EXCEPT ![p] = typed[d][p]]]
    BY <1>4 DEF SaveLine
  <2>3. counted' \in [Sessions -> Figures]
    BY <2>1, <2>2 DEF CountTyped, Figures
  <2> QED
    BY <1>0, <1>4, <1>a, <2>1, <2>3 DEF SaveLine, history, CountTyped, Figures
<1>5. ASSUME NEW d \in Devices, CommitCreate(d) PROVE CountTyped'
  <2> DEFINE j == job[d]
  <2>1. j.do = "create" /\ JobTyped(j)
    BY <1>5 DEF CommitCreate, CountTyped
  <2>2. j.session \in Sessions /\ j.store \in Branches /\ j.lines \in [Stocked -> Nat]
    BY <2>1 DEF JobTyped, NoJob
  <2>3. job' = [job EXCEPT ![d] = NoJob] /\ UNCHANGED <<onHand, goods, soldDuring, byHand>>
    BY <1>5 DEF CommitCreate, history
  <2>4. job' = [e \in Devices |-> job'[e]] /\ \A e \in Devices : JobTyped(job[e])'
    BY <1>a, <1>b, <2>3 DEF CountTyped
  <2>5. CASE j.code \in CodesUsed
    BY <1>0, <1>5, <2>3, <2>4, <2>5 DEF CommitCreate, screen, CountTyped, Figures
  <2>6. CASE j.code \notin CodesUsed
    <3>1. /\ state' = [state EXCEPT ![j.session] = "DRAFT"]
          /\ place' = [place EXCEPT ![j.session] = j.store]
          /\ system' = [system EXCEPT ![j.session] = j.lines]
          /\ counted' = [counted EXCEPT ![j.session] = Blank]
          /\ Show(d, j.session, Blank, j.lines)
      BY <1>5, <2>6 DEF CommitCreate
    <3>2. Blank \in Figures
      BY DEF Blank, Figures
    <3> HIDE DEF j
    <3>3. /\ page' \in [Devices -> Sessions \cup {"none"}] /\ loaded' \in [Devices -> Figures]
          /\ typed' \in [Devices -> Figures]
          /\ \A e \in Devices : page'[e] # "none" => typed'[e] \in [Stocked -> Nat]
      BY <2>2, <3>1, <3>2, ShowTyped
    <3>4. /\ state' \in [Sessions -> {"none", "DRAFT", "COMPLETED", "CANCELLED"}]
          /\ place' \in [Sessions -> Branches]
          /\ system' \in [Sessions -> Figures] /\ counted' \in [Sessions -> Figures]
          /\ \A s \in Sessions : state'[s] = "DRAFT" => system'[s] \in [Stocked -> Nat]
      BY <2>2, <3>1, <3>2 DEF CountTyped, Figures
    <3> QED
      BY <1>0, <2>3, <2>4, <3>3, <3>4 DEF CountTyped, Figures
  <2> QED
    BY <2>5, <2>6
<1>6. ASSUME NEW d \in Devices, NEW j, JobTyped(j), job' = [job EXCEPT ![d] = j],
             UNCHANGED <<server, screen, history>>
      PROVE  CountTyped'
  <2>1. job' = [e \in Devices |-> job'[e]] /\ \A e \in Devices : JobTyped(job[e])'
    BY <1>6, <1>a DEF CountTyped
  <2> QED
    BY <1>0, <1>6, <2>1 DEF server, screen, history, CountTyped, Figures
<1>7. ASSUME NEW d \in Devices, FinishCount(d) PROVE CountTyped'
  <2>1. JobTyped([do |-> "finish", session |-> page[d], left |-> Differs(d)])
    BY <1>7 DEF FinishCount, Work, JobTyped, CountTyped, Differs
  <2> QED
    BY <1>6, <1>7, <2>1 DEF FinishCount, Work
<1>8. ASSUME NEW d \in Devices, FinishLine(d) PROVE CountTyped'
  <2>1. job[d].do = "finish" /\ JobTyped(job[d])
    BY <1>8 DEF FinishLine, CountTyped
  <2>2. /\ job[d] = [do |-> "finish", session |-> job[d].session, left |-> job[d].left]
        /\ job[d].session \in Sessions /\ job[d].left \subseteq active
    BY <2>1 DEF JobTyped, NoJob
  <2>3. PICK p \in job[d].left :
          IF state[page[d]] = "DRAFT"
          THEN /\ counted' = [counted EXCEPT ![page[d]][p] = typed[d][p]]
               /\ job' = [job EXCEPT ![d].left = @ \ {p}]
          ELSE job' = [job EXCEPT ![d] = NoJob] /\ UNCHANGED counted
    BY <1>8 DEF FinishLine
  <2>4. CASE state[page[d]] = "DRAFT"
    <3>1. PICK j : j = [do |-> "finish", session |-> job[d].session, left |-> job[d].left \ {p}]
      OBVIOUS
    <3>2. JobTyped(j)
      BY <2>2, <3>1 DEF JobTyped
    <3>3. job' = [job EXCEPT ![d] = [job[d] EXCEPT !.left = job[d].left \ {p}]]
      BY <2>3, <2>4
    <3>4. [job[d] EXCEPT !.left = job[d].left \ {p}] = j
      BY <2>2, <3>1
    <3>5. job' = [e \in Devices |-> job'[e]] /\ \A e \in Devices : JobTyped(job[e])'
      BY <1>a, <3>2, <3>3, <3>4 DEF CountTyped
    <3>6. counted' \in [Sessions -> Figures]
      <4>1. counted' = [counted EXCEPT ![page[d]] = [counted[page[d]] EXCEPT ![p] = typed[d][p]]]
        BY <2>3, <2>4
      <4>2. p \in Stocked /\ typed[d][p] \in Nat \cup {Uncounted}
        BY <2>2, <2>3 DEF CountTyped, Figures
      <4> QED
        BY <4>1, <4>2 DEF CountTyped, Figures
    <3> QED
      BY <1>0, <1>8, <3>5, <3>6 DEF FinishLine, screen, history, CountTyped, Figures
  <2>5. CASE state[page[d]] # "DRAFT"
    BY <1>6, <1>8, <1>b, <2>3, <2>5 DEF FinishLine, server
  <2> QED
    BY <2>4, <2>5
<1>9. ASSUME NEW d \in Devices, BeginComplete(d) PROVE CountTyped'
  <2>1. CASE job' = [job EXCEPT ![d] = NoJob]
    BY <1>6, <1>9, <1>b, <2>1 DEF BeginComplete
  <2>2. CASE /\ job' = [job EXCEPT ![d] = [do |-> "complete", session |-> page[d], lines |-> counted[page[d]]]]
             /\ state[page[d]] = "DRAFT" /\ \A p \in active : counted[page[d]][p] # Uncounted
    <3>1. page[d] \in Sessions
      BY <1>9 DEF CountTyped, BeginComplete, Working
    <3>2. JobTyped([do |-> "complete", session |-> page[d], lines |-> counted[page[d]]])
      BY <2>2, <3>1 DEF CountTyped, Figures, JobTyped
    <3> QED
      BY <1>6, <1>9, <2>2, <3>2 DEF BeginComplete
  <2> QED
    BY <1>9, <2>1, <2>2 DEF BeginComplete
<1>10. ASSUME NEW d \in Devices, CommitComplete(d) PROVE CountTyped'
  <2>1. job[d].do = "complete" /\ JobTyped(job[d])
    BY <1>10 DEF CommitComplete, CountTyped
  <2>2. job[d].session \in Sessions /\ \A p \in active : job[d].lines[p] \in Nat
    BY <2>1 DEF JobTyped, NoJob
  <2>3. onHand' \in [Branches \X Stocked -> Nat]
    BY <1>10, <2>2 DEF CommitComplete, Recounted, CountTyped
  <2>4. state' \in [Sessions -> {"none", "DRAFT", "COMPLETED", "CANCELLED"}]
        /\ \A s \in Sessions : state'[s] = "DRAFT" => state[s] = "DRAFT"
    BY <1>10, <2>2 DEF CommitComplete, CountTyped
  <2>5. job' = [e \in Devices |-> job'[e]] /\ \A e \in Devices : JobTyped(job[e])'
    BY <1>10, <1>a, <1>b DEF CommitComplete, CountTyped
  <2> QED
    BY <1>0, <1>10, <2>3, <2>4, <2>5, LeaveTyped DEF CommitComplete, history, CountTyped, Figures
<1>11. ASSUME NEW d \in Devices, BeginCancel(d) PROVE CountTyped'
  <2>1. JobTyped([do |-> "cancel", session |-> page[d]])
    BY <1>11 DEF BeginCancel, JobTyped, CountTyped
  <2> QED
    BY <1>6, <1>11, <2>1 DEF BeginCancel, Work
<1>12. ASSUME NEW d \in Devices, CommitCancel(d) PROVE CountTyped'
  <2>4. state' \in [Sessions -> {"none", "DRAFT", "COMPLETED", "CANCELLED"}]
        /\ \A s \in Sessions : state'[s] = "DRAFT" => state[s] = "DRAFT"
    BY <1>12 DEF CommitCancel, CountTyped
  <2>5. job' = [e \in Devices |-> job'[e]] /\ \A e \in Devices : JobTyped(job[e])'
    BY <1>12, <1>a, <1>b DEF CommitCancel, CountTyped
  <2> QED
    BY <1>0, <1>12, <2>4, <2>5, LeaveTyped DEF CommitCancel, history, CountTyped, Figures
<1>13. ASSUME NEW x \in Branches \X Stocked, SellOne(x) PROVE CountTyped'
  <2>1. onHand' \in [Branches \X Stocked -> Nat] /\ goods' \in [Branches \X Stocked -> Nat]
    <3>1. onHand[x] \in Nat /\ onHand[x] > 0 /\ goods[x] \in Nat /\ goods[x] > 0
      BY <1>13 DEF SellOne, CountTyped
    <3> QED
      BY <1>13, <3>1 DEF SellOne, CountTyped
  <2>2. soldDuring' \in [Sessions -> BOOLEAN]
    <3> DEFINE b(s) == \/ soldDuring[s]
                       \/ \E d \in Devices : job[d] # NoJob /\ job[d].session = s
                       \/ s \in Drafts(x[1])
    <3>1. soldDuring' = [s \in Sessions |-> b(s)]
      BY <1>13 DEF SellOne
    <3>2. \A s \in Sessions : b(s) \in BOOLEAN
      BY DEF CountTyped
    <3> HIDE DEF b
    <3> QED
      BY <3>1, <3>2
  <2> QED
    BY <1>0, <1>13, <1>a, <2>1, <2>2 DEF SellOne, screen, CountTyped, Figures
<1>14. CASE NewDay
  BY <1>0, <1>14, <1>a DEF NewDay, server, screen, CountTyped, Figures
<1> QED
  BY <1>1, <1>2, <1>3, <1>4, <1>5, <1>7, <1>8, <1>9, <1>10, <1>11, <1>12, <1>13, <1>14, CountSteps DEF DeviceStep

(* A device changes its own page and request only.                         *)
LEMMA OtherDevices ==
    ASSUME CountTyped, NEW d \in Devices, DeviceStep(d), NEW e \in Devices, e # d
    PROVE  page'[e] = page[e] /\ job'[e] = job[e] /\ typed'[e] = typed[e] /\ loaded'[e] = loaded[e]
<1>1. page'[e] = page[e] /\ typed'[e] = typed[e] /\ loaded'[e] = loaded[e]
  BY DEF DeviceStep, OpenSession, BeginCreate, Type, SaveLine, CommitCreate, FinishCount,
     FinishLine, BeginComplete, CommitComplete, BeginCancel, CommitCancel, screen, Show, Leave, CountTyped
<1>2. job'[e] = job[e]
  BY DEF DeviceStep, OpenSession, BeginCreate, Type, SaveLine, CommitCreate, FinishCount, Work, Rest,
     FinishLine, BeginComplete, CommitComplete, BeginCancel, CommitCancel, CountTyped
<1> QED
  BY <1>1, <1>2

(* What becomes of the request of a device that takes a step.              *)
LEMMA OwnRequest ==
    ASSUME CountTyped, NEW d \in Devices, DeviceStep(d)
    PROVE  \/ job'[d] = NoJob
           \/ \E s \in Sessions, x \in Branches :
                BeginCreate(d, s, x) /\ job'[d].do = "create" /\ job'[d].session = s /\ job'[d].store = x
                /\ job'[d].lines = [p \in Stocked |-> onHand[<<x, p>>]]
           \/ FinishCount(d) /\ job'[d].do = "finish" /\ job'[d] = [do |-> "finish", session |-> page[d], left |-> Differs(d)]
           \/ FinishLine(d) /\ job'[d].do = "finish" /\ job[d].do = "finish" /\ job'[d].session = job[d].session
           \/ BeginComplete(d) /\ job[d].do = "finish" /\ job'[d].do = "complete"
                /\ job'[d] = [do |-> "complete", session |-> page[d], lines |-> counted[page[d]]]
           \/ BeginCancel(d) /\ job'[d].do = "cancel" /\ job'[d] = [do |-> "cancel", session |-> page[d]]
<1>1. CASE \E s \in Sessions : OpenSession(d, s)
  BY <1>1 DEF OpenSession
<1>2. CASE \E s \in Sessions, x \in Branches : BeginCreate(d, s, x)
  <2>1. PICK s \in Sessions, x \in Branches : BeginCreate(d, s, x)
    BY <1>2
  <2>2. PICK j : j = [do |-> "create", session |-> s, store |-> x, code |-> NextCode,
                      lines |-> [p \in Stocked |-> onHand[<<x, p>>]]]
    OBVIOUS
  <2>3. job' = [job EXCEPT ![d] = j]
    BY <2>1, <2>2 DEF BeginCreate, Work
  <2>4. job'[d] = j
    BY <2>3 DEF CountTyped
  <2>5. j.do = "create" /\ j.session = s /\ j.store = x /\ j.lines = [p \in Stocked |-> onHand[<<x, p>>]]
    BY <2>2
  <2> QED
    BY <2>1, <2>4, <2>5
<1>3. CASE \E p \in active : Type(d, p) \/ SaveLine(d, p)
  BY <1>3 DEF Type, SaveLine
<1>4. CASE CommitCreate(d) \/ CommitComplete(d) \/ CommitCancel(d)
  BY <1>4 DEF CommitCreate, CommitComplete, CommitCancel, Rest, CountTyped
<1>5. CASE FinishCount(d)
  BY <1>5 DEF FinishCount, Work, CountTyped
<1>6. CASE FinishLine(d)
  <2>1. job[d].do = "finish" /\ JobTyped(job[d])
    BY <1>6 DEF FinishLine, CountTyped
  <2>2. job[d] = [do |-> "finish", session |-> job[d].session, left |-> job[d].left]
    BY <2>1 DEF JobTyped, NoJob
  <2>3. PICK p \in job[d].left :
           \/ job' = [job EXCEPT ![d].left = @ \ {p}]
           \/ job' = [job EXCEPT ![d] = NoJob]
    BY <1>6 DEF FinishLine, Rest
  <2>4. CASE job' = [job EXCEPT ![d].left = @ \ {p}]
    <3>1. job'[d] = [job[d] EXCEPT !.left = job[d].left \ {p}]
      BY ONLY <2>4, d \in Devices, CountTyped DEF CountTyped
    <3>2. job'[d] = [do |-> "finish", session |-> job[d].session, left |-> job[d].left \ {p}]
      BY <2>2, <3>1
    <3> QED
      BY <1>6, <2>1, <3>2
  <2>5. CASE job' = [job EXCEPT ![d] = NoJob]
    BY ONLY <2>5, d \in Devices, CountTyped DEF CountTyped
  <2> QED
    BY <2>3, <2>4, <2>5
<1>7. CASE BeginComplete(d)
  BY <1>7 DEF BeginComplete, Rest, CountTyped
<1>8. CASE BeginCancel(d)
  BY <1>8 DEF BeginCancel, Work, CountTyped
<1> QED
  BY <1>1, <1>2, <1>3, <1>4, <1>5, <1>6, <1>7, <1>8 DEF DeviceStep

LEMMA StepWorking ==
    ASSUME CountTyped, Working, CountNext
    PROVE  Working'
<1>1. ASSUME NEW d \in Devices, DeviceStep(d) PROVE Working'
  <2> SUFFICES ASSUME NEW e \in Devices, job'[e].do \in {"finish", "complete", "cancel"}
               PROVE  page'[e] # "none" /\ job'[e].session = page'[e]
    BY DEF Working
  <2>1. CASE e # d
    BY <1>1, <2>1, OtherDevices DEF Working
  <2>2. CASE e = d
    <3>1. job'[d] # NoJob /\ job'[d].do # "create"
      BY <2>2 DEF NoJob
    <3>2. CASE FinishCount(d) /\ job'[d] = [do |-> "finish", session |-> page[d], left |-> Differs(d)]
      BY <2>2, <3>2 DEF FinishCount, screen
    <3>3. CASE FinishLine(d) /\ job'[d].do = "finish" /\ job[d].do = "finish" /\ job'[d].session = job[d].session
      BY <2>2, <3>3 DEF FinishLine, screen, Working
    <3>4. CASE BeginComplete(d) /\ job[d].do = "finish"
               /\ job'[d] = [do |-> "complete", session |-> page[d], lines |-> counted[page[d]]]
      BY <2>2, <3>4 DEF BeginComplete, screen, Working
    <3>5. CASE BeginCancel(d) /\ job'[d] = [do |-> "cancel", session |-> page[d]]
      BY <2>2, <3>5 DEF BeginCancel, screen
    <3> QED
      BY <1>1, <3>1, <3>2, <3>3, <3>4, <3>5, OwnRequest
  <2> QED
    BY <2>1, <2>2
<1>2. ASSUME NEW x \in Branches \X Stocked, SellOne(x) PROVE Working'
  BY <1>2 DEF SellOne, screen, Working
<1>3. CASE NewDay
  BY <1>3 DEF NewDay, screen, Working
<1> QED
  BY <1>1, <1>2, <1>3, CountSteps

(* What becomes of a session: it is created, completed or cancelled.       *)
LEMMA SessionMoves ==
    ASSUME CountTyped, Working, NEW d \in Devices, DeviceStep(d)
    PROVE  \/ UNCHANGED <<state, place, system>>
           \/ /\ CommitCreate(d) /\ job[d].do = "create" /\ JobTyped(job[d])
              /\ job[d].session \in Sessions /\ job[d].store \in Branches /\ job[d].lines \in [Stocked -> Nat]
              /\ state' = [state EXCEPT ![job[d].session] = "DRAFT"]
              /\ place' = [place EXCEPT ![job[d].session] = job[d].store]
              /\ system' = [system EXCEPT ![job[d].session] = job[d].lines]
              /\ counted' = [counted EXCEPT ![job[d].session] = Blank]
              /\ Show(d, job[d].session, Blank, job[d].lines)
              /\ job'[d] = NoJob /\ UNCHANGED <<onHand, goods, byHand, soldDuring>>
           \/ /\ CommitComplete(d) \/ CommitCancel(d)
              /\ page[d] # "none" /\ page[d] \in Sessions /\ job[d].session = page[d]
              /\ UNCHANGED <<place, system, byHand, soldDuring>> /\ Leave(d)
              /\ job'[d] = NoJob
              /\ state' = [state EXCEPT ![page[d]] = IF CommitComplete(d) THEN "COMPLETED" ELSE "CANCELLED"]
<1>1. CASE CommitCreate(d)
  <2>1. job[d].do = "create" /\ JobTyped(job[d])
    BY <1>1 DEF CommitCreate, CountTyped
  <2>2. job[d].session \in Sessions /\ job[d].store \in Branches /\ job[d].lines \in [Stocked -> Nat]
    BY <2>1 DEF JobTyped, NoJob
  <2>3. CASE job[d].code \in CodesUsed
    BY <1>1, <2>3 DEF CommitCreate
  <2>4. CASE job[d].code \notin CodesUsed
    BY <1>1, <2>1, <2>2, <2>4 DEF CommitCreate, Rest, history, CountTyped
  <2> QED
    BY <2>3, <2>4
<1>2. CASE CommitComplete(d)
  <2>1. page[d] # "none" /\ page[d] \in Sessions /\ job[d].session = page[d]
    BY <1>2 DEF CommitComplete, Working, CountTyped
  <2> QED
    BY <1>2, <2>1 DEF CommitComplete, Rest, history, CountTyped
<1>3. CASE CommitCancel(d)
  <2>1. page[d] # "none" /\ page[d] \in Sessions /\ job[d].session = page[d] /\ job[d].do # "complete"
    BY <1>3 DEF CommitCancel, Working, CountTyped
  <2>2. ~CommitComplete(d)
    BY <2>1 DEF CommitComplete
  <2> QED
    BY <1>3, <2>1, <2>2 DEF CommitCancel, Rest, history, CountTyped
<1> QED
  BY <1>1, <1>2, <1>3 DEF DeviceStep, OpenSession, BeginCreate, Type, SaveLine, FinishCount, FinishLine,
     BeginComplete, BeginCancel, server

(* The requests of a device that does anything but start a count.          *)
LEMMA NoNewCreate ==
    ASSUME CountTyped, NEW d \in Devices, DeviceStep(d),
           ~ \E s \in Sessions, x \in Branches : BeginCreate(d, s, x)
    PROVE  job'[d].do = "create" => job'[d] = job[d]
<1>1. CASE \E s \in Sessions : OpenSession(d, s)
  BY <1>1 DEF OpenSession
<1>2. CASE \E p \in active : Type(d, p) \/ SaveLine(d, p)
  BY <1>2 DEF Type, SaveLine
<1>3. CASE job'[d].do = "idle" \/ job'[d].do = "finish" \/ job'[d].do = "complete" \/ job'[d].do = "cancel"
  BY <1>3
<1>4. NoJob.do = "idle"
  BY DEF NoJob
<1> QED
  BY <1>1, <1>2, <1>3, <1>4, OwnRequest

LEMMA StepApart ==
    ASSUME CountTyped, Working, Apart, CountNext
    PROVE  Apart'
<1>1. ASSUME NEW x \in Branches \X Stocked, SellOne(x) PROVE Apart'
  BY <1>1 DEF SellOne, screen, Apart
<1>2. CASE NewDay
  BY <1>2 DEF NewDay, screen, server, Apart
<1>3. ASSUME NEW d \in Devices, DeviceStep(d) PROVE Apart'
  <2>1. CASE \E s \in Sessions, x \in Branches : BeginCreate(d, s, x)
    <3>1. PICK s \in Sessions, x \in Branches : BeginCreate(d, s, x)
      BY <2>1
    <3>2. /\ state[s] = "none" /\ \A e \in Devices : job[e] # NoJob => job[e].session # s
          /\ UNCHANGED <<state, page>> /\ job[d] = NoJob
          /\ \E j : j.do = "create" /\ j.session = s /\ job' = [job EXCEPT ![d] = j]
      BY <3>1 DEF BeginCreate, Work, server, screen
    <3>3. \A e \in Devices : job[e].do = "create" => job[e] # NoJob
      BY DEF NoJob
    <3> QED
      BY <3>2, <3>3 DEF Apart, CountTyped
  <2>2. ASSUME ~ \E s \in Sessions, x \in Branches : BeginCreate(d, s, x) PROVE Apart'
    <3>1. \A e \in Devices : job'[e].do = "create" => job'[e] = job[e]
      BY <1>3, <2>2, NoNewCreate, OtherDevices
    <3>2. \A s \in Sessions : state[s] # "none" => state'[s] # "none"
      <4>1. \/ UNCHANGED <<state, place, system>>
            \/ job[d].session \in Sessions /\ state' = [state EXCEPT ![job[d].session] = "DRAFT"]
            \/ page[d] \in Sessions /\ \E new \in {"COMPLETED", "CANCELLED"} : state' = [state EXCEPT ![page[d]] = new]
        BY <1>3, SessionMoves
      <4> QED
        BY <4>1 DEF CountTyped
    <3>3. \A e \in Devices : page'[e] # "none" => state'[page'[e]] # "none"
      <4> SUFFICES ASSUME NEW e \in Devices, page'[e] # "none" PROVE state'[page'[e]] # "none"
        OBVIOUS
      <4>1. CASE page'[e] = page[e]
        BY <3>2, <4>1 DEF Apart, CountTyped
      <4>2. CASE page'[e] # page[e]
        <5>1. e = d
          BY <1>3, <4>2, OtherDevices
        <5>2. CASE \E s \in Sessions : OpenSession(d, s)
          BY <5>1, <5>2 DEF OpenSession, Show, server, CountTyped
        <5>3. CASE CommitCreate(d)
          <6>1. job[d].do = "create" /\ JobTyped(job[d])
            BY <5>3 DEF CommitCreate, CountTyped
          <6>2. job[d].session \in Sessions
            BY <6>1 DEF JobTyped, NoJob
          <6>3. job[d].code \notin CodesUsed
            BY <4>2, <5>1, <5>3 DEF CommitCreate, screen
          <6> QED
            BY <5>1, <5>3, <6>2, <6>3 DEF CommitCreate, Show, CountTyped
        <5>4. CASE CommitComplete(d) \/ CommitCancel(d)
          BY <4>2, <5>1, <5>4 DEF CommitComplete, CommitCancel, Leave, CountTyped
        <5> QED
          BY <1>3, <4>2, <5>1, <5>2, <5>3, <5>4 DEF DeviceStep, BeginCreate, Type, SaveLine, FinishCount,
             FinishLine, BeginComplete, BeginCancel, screen
      <4> QED
        BY <4>1, <4>2
    <3>4. \A e \in Devices : job'[e].do = "create" => state'[job'[e].session] = "none"
      <4> SUFFICES ASSUME NEW e \in Devices, job'[e].do = "create" PROVE state'[job'[e].session] = "none"
        OBVIOUS
      <4>1. job'[e] = job[e] /\ job[e].do = "create" /\ job[e].session \in Sessions
        BY <3>1, CountJobKinds DEF CountTyped
      <4>2. state[job[e].session] = "none"
        BY <4>1 DEF Apart
      <4>3. page[d] = job[e].session => page[d] = "none"
        BY <4>2 DEF Apart
      <4>4. job[d].do = "create" /\ job[d].session = job[e].session => e = d
        BY <4>1 DEF Apart
      <4>5. NoJob.do = "idle" /\ job'[e].do = "create"
        BY <4>1 DEF NoJob
      <4>6. \/ UNCHANGED <<state, place, system>>
            \/ /\ job[d].session \in Sessions /\ state' = [state EXCEPT ![job[d].session] = "DRAFT"]
               /\ job[d].do = "create" /\ job'[d] = NoJob
            \/ /\ page[d] \in Sessions /\ page[d] # "none"
               /\ \E new \in {"COMPLETED", "CANCELLED"} : state' = [state EXCEPT ![page[d]] = new]
        BY <1>3, SessionMoves
      <4> QED
        BY <4>1, <4>2, <4>3, <4>4, <4>5, <4>6 DEF CountTyped
    <3>5. \A e, f \in Devices : job'[e].do = "create" /\ job'[f].do = "create"
                                /\ job'[e].session = job'[f].session => e = f
      BY <3>1 DEF Apart
    <3> QED
      BY <3>3, <3>4, <3>5 DEF Apart
  <2> QED
    BY <2>1, <2>2
<1> QED
  BY <1>1, <1>2, <1>3, CountSteps

LEMMA StepAlone ==
    ASSUME CountTyped, Working, Apart, Alone, CountNext, ~shared'
    PROVE  Alone'
<1>1. ASSUME NEW x \in Branches \X Stocked, SellOne(x) PROVE Alone'
  BY <1>1 DEF SellOne, screen, Alone
<1>2. CASE NewDay
  BY <1>2 DEF NewDay, screen, server, Alone
<1>3. ASSUME NEW d \in Devices, DeviceStep(d) PROVE Alone'
  <2>1. CASE \E s \in Sessions : OpenSession(d, s)
    <3>1. PICK s \in Sessions : OpenSession(d, s)
      BY <2>1
    <3>2. /\ \A e \in Devices \ {d} : page[e] # s
          /\ state[s] = "DRAFT" /\ UNCHANGED <<state, job>>
          /\ page' = [page EXCEPT ![d] = s]
          /\ \A t \in Sessions : byHand'[t] \subseteq byHand[t]
      BY <3>1 DEF OpenSession, Show, server, CountTyped
    <3> QED
      BY <3>2, StockCountAssumption DEF Alone, CountTyped
  <2>2. CASE CommitCreate(d)
    <3>1. job[d].do = "create" /\ JobTyped(job[d])
      BY <2>2 DEF CommitCreate, CountTyped
    <3>2. job[d].session \in Sessions /\ state[job[d].session] = "none" /\ byHand' = byHand
      BY <2>2, <3>1 DEF JobTyped, NoJob, Apart, CommitCreate, history
    <3>3. CASE job[d].code \in CodesUsed
      BY <2>2, <3>2, <3>3 DEF CommitCreate, screen, Alone
    <3>4. CASE job[d].code \notin CodesUsed
      <4>1. state' = [state EXCEPT ![job[d].session] = "DRAFT"] /\ page' = [page EXCEPT ![d] = job[d].session]
        BY <2>2, <3>4 DEF CommitCreate, Show
      <4>2. \A e \in Devices : page[e] # job[d].session
        BY <3>2, StockCountAssumption DEF Apart
      <4> QED
        BY <3>2, <4>1, <4>2 DEF Alone, CountTyped
    <3> QED
      BY <3>3, <3>4
  <2>3. CASE CommitComplete(d) \/ CommitCancel(d)
    <3>1. /\ page[d] # "none" /\ page[d] \in Sessions /\ byHand' = byHand
          /\ page' = [page EXCEPT ![d] = "none"]
          /\ \E new \in {"COMPLETED", "CANCELLED"} : state' = [state EXCEPT ![page[d]] = new]
      <4>1. page[d] # "none" /\ page[d] \in Sessions /\ job[d].session = page[d]
        BY <2>3 DEF CommitComplete, CommitCancel, Working, CountTyped
      <4> QED
        BY <2>3, <4>1 DEF CommitComplete, CommitCancel, Leave, history
    <3> QED
      BY <3>1 DEF Alone, CountTyped
  <2>4. CASE \E p \in active : Type(d, p)
    <3>1. PICK p \in active : Type(d, p)
      BY <2>4
    <3>2. UNCHANGED <<state, page, job>> /\ page[d] # "none" /\ byHand' = [byHand EXCEPT ![page[d]] = @ \cup {p}]
      BY <3>1 DEF Type, server
    <3> QED
      BY <3>2 DEF Alone, CountTyped
  <2>5. CASE \/ \E s \in Sessions, x \in Branches : BeginCreate(d, s, x)
             \/ \E p \in active : SaveLine(d, p)
             \/ FinishCount(d) \/ FinishLine(d) \/ BeginComplete(d) \/ BeginCancel(d)
    BY <2>5 DEF BeginCreate, SaveLine, FinishCount, FinishLine, BeginComplete, BeginCancel, server, screen, history,
       Alone
  <2> QED
    BY <1>3, <2>1, <2>2, <2>3, <2>4, <2>5 DEF DeviceStep
<1> QED
  BY <1>1, <1>2, <1>3, CountSteps

(* A store that is calm after a step of a device was calm before it, or    *)
(* had no draft and has none.                                              *)
LEMMA CalmBefore ==
    ASSUME CountTyped, Working, Apart, Alone, NEW d \in Devices, DeviceStep(d), NEW x \in Branches, Calm(x)'
    PROVE  Calm(x) \/ (Drafts(x) = {} /\ Drafts(x)' = {})
<1>0. soldDuring' = soldDuring
  BY DEF DeviceStep, OpenSession, BeginCreate, Type, SaveLine, CommitCreate, FinishCount,
     FinishLine, BeginComplete, CommitComplete, BeginCancel, CommitCancel, history
<1>1. PICK s \in Sessions : Alive(s, x)' /\ ~soldDuring'[s]
  BY DEF Calm
<1>2. SUFFICES ASSUME ~Alive(s, x) PROVE Drafts(x) = {} /\ Drafts(x)' = {}
  BY <1>0, <1>1 DEF Calm
<1>3. CASE Creating(s, x)'
  <2>1. PICK e \in Devices : job'[e].do = "create" /\ job'[e].session = s /\ job'[e].store = x
    BY <1>3 DEF Creating
  <2>2. e = d
    BY <1>2, <2>1, OtherDevices DEF Alive, Creating
  <2>3. PICK t \in Sessions, y \in Branches :
          BeginCreate(d, t, y) /\ job'[d].session = t /\ job'[d].store = y
    <3>1. NoJob.do = "idle" /\ job'[d].do = "create"
      BY <2>1, <2>2 DEF NoJob
    <3> QED
      BY <3>1, OwnRequest
  <2> QED
    BY <2>1, <2>2, <2>3 DEF BeginCreate, server, Drafts
<1>4. CASE s \in Drafts(x)'
  <2>1. s \notin Drafts(x) /\ state'[s] = "DRAFT" /\ place'[s] = x
    BY <1>2, <1>4 DEF Drafts, Alive
  <2>2. \/ UNCHANGED <<state, place>>
        \/ /\ job[d].do = "create" /\ job[d].session \in Sessions
           /\ state' = [state EXCEPT ![job[d].session] = "DRAFT"]
           /\ place' = [place EXCEPT ![job[d].session] = job[d].store]
        \/ /\ place' = place
           /\ \E new \in {"COMPLETED", "CANCELLED"} : state' = [state EXCEPT ![page[d]] = new]
    BY SessionMoves
  <2>3. CASE UNCHANGED <<state, place>>
    BY <2>1, <2>3 DEF Drafts
  <2>4. CASE /\ job[d].do = "create" /\ job[d].session \in Sessions
             /\ state' = [state EXCEPT ![job[d].session] = "DRAFT"]
             /\ place' = [place EXCEPT ![job[d].session] = job[d].store]
    <3>1. job[d].session = s /\ job[d].store = x
      BY <2>1, <2>4 DEF Drafts, CountTyped
    <3> QED
      BY <1>2, <2>4, <3>1 DEF Alive, Creating
  <2>5. CASE /\ place' = place
             /\ \E new \in {"COMPLETED", "CANCELLED"} : state' = [state EXCEPT ![page[d]] = new]
    BY <2>1, <2>5 DEF Drafts, CountTyped
  <2> QED
    BY <2>2, <2>3, <2>4, <2>5
<1> QED
  BY <1>1, <1>3, <1>4 DEF Alive

(* A sale leaves no calm store calm.                                       *)
LEMMA CalmSold ==
    ASSUME CountTyped, NEW y \in Branches \X Stocked, SellOne(y), NEW x \in Branches, Calm(x)'
    PROVE  Calm(x) /\ y[1] # x
<1>1. PICK s \in Sessions : Alive(s, x)' /\ ~soldDuring'[s]
  BY DEF Calm
<1>2. Alive(s, x) /\ UNCHANGED <<job, state, place>>
  BY <1>1 DEF SellOne, Alive, Creating, Drafts
<1>3. ~soldDuring[s] /\ s \notin Drafts(y[1]) /\ \A d \in Devices : job[d] # NoJob => job[d].session # s
  BY <1>1 DEF SellOne, CountTyped
<1>4. ~Creating(s, x)
  BY <1>3 DEF Creating, NoJob
<1> QED
  BY <1>2, <1>3, <1>4 DEF Calm, Alive

(* A saved line of a draft is what the page had.                           *)
LEMMA LineMoves ==
    ASSUME CountTyped, Working, Apart, Alone, NEW d \in Devices, DeviceStep(d),
           NEW s \in Sessions, state[s] = "DRAFT", NEW p \in active
    PROVE  \/ counted'[s][p] = counted[s][p]
           \/ page[d] = s /\ counted'[s][p] = typed[d][p]
<1>1. CASE \E q \in active : SaveLine(d, q)
  <2>1. PICK q \in active : SaveLine(d, q)
    BY <1>1
  <2> QED
    BY <2>1 DEF SaveLine, CountTyped, Figures
<1>2. CASE FinishLine(d)
  <2>1. PICK q \in job[d].left :
          counted' = [counted EXCEPT ![page[d]][q] = typed[d][q]] \/ counted' = counted
    BY <1>2 DEF FinishLine
  <2>2. CASE counted' = [counted EXCEPT ![page[d]][q] = typed[d][q]]
    <3>1. counted'[s] = IF s = page[d] THEN [counted[s] EXCEPT ![q] = typed[d][q]] ELSE counted[s]
      BY ONLY <2>2, s \in Sessions, CountTyped DEF CountTyped
    <3>2. counted[s] \in Figures /\ p \in Stocked
      BY DEF CountTyped
    <3> QED
      BY <3>1, <3>2 DEF Figures
  <2> QED
    BY <2>1, <2>2
<1>3. CASE CommitCreate(d)
  <2>1. counted' = counted \/ counted' = [counted EXCEPT ![job[d].session] = Blank]
    BY <1>3 DEF CommitCreate
  <2>2. job[d].session # s
    BY <1>3 DEF CommitCreate, Apart
  <2> QED
    BY <2>1, <2>2 DEF CountTyped
<1> QED
  BY <1>1, <1>2, <1>3 DEF DeviceStep, OpenSession, BeginCreate, Type, FinishCount,
     BeginComplete, CommitComplete, BeginCancel, CommitCancel, server

LEMMA StepCountedRight ==
    ASSUME CountTyped, Working, Apart, Alone, CountedRight, PagesRight, CountNext
    PROVE  CountedRight'
<1>0. active' = active
  BY CountSteps DEF DeviceStep, OpenSession, BeginCreate, Type, SaveLine, CommitCreate, FinishCount,
     FinishLine, BeginComplete, CommitComplete, BeginCancel, CommitCancel, SellOne, NewDay, server
<1> SUFFICES ASSUME NEW s \in Sessions, NEW p \in active, state'[s] = "DRAFT", Calm(place[s])'
             PROVE  counted'[s][p] \in {Uncounted, system'[s][p], Lies(s, p)'}
  BY <1>0 DEF CountedRight
<1>1. ASSUME NEW d \in Devices, DeviceStep(d)
      PROVE  counted'[s][p] \in {Uncounted, system'[s][p], Lies(s, p)'}
  <2>0. goods' = goods
    BY <1>1 DEF DeviceStep, OpenSession, BeginCreate, Type, SaveLine, CommitCreate, FinishCount,
       FinishLine, BeginComplete, CommitComplete, BeginCancel, CommitCancel, server
  <2>1. CASE CommitCreate(d) /\ job[d].session = s /\ counted' = [counted EXCEPT ![job[d].session] = Blank]
    BY <2>1 DEF Blank, CountTyped
  <2>2. CASE state[s] = "DRAFT" /\ place'[s] = place[s] /\ system'[s] = system[s]
    <3>1. Calm(place[s]) /\ place[s] \in Branches
      <4>1. place[s] \in Branches /\ s \in Drafts(place[s]) /\ Calm(place[s])'
        BY <2>2 DEF CountTyped, Drafts
      <4>2. ASSUME NEW x \in Branches, x = place[s] PROVE Calm(x)
        <5>1. Calm(x)'
          BY <2>2, <4>2
        <5> QED
          BY <1>1, <4>1, <4>2, <5>1, CalmBefore
      <4> QED
        BY <4>1, <4>2
    <3>2. CASE counted'[s][p] = counted[s][p]
      BY <2>0, <2>2, <3>1, <3>2 DEF CountedRight, Lies
    <3>3. CASE page[d] = s /\ counted'[s][p] = typed[d][p]
      <4>1. Shows(d, p)
        BY <3>1, <3>3, StockCountAssumption DEF PagesRight
      <4> QED
        BY <2>0, <2>2, <3>3, <4>1 DEF Shows, Lies
    <3> QED
      BY <1>1, <2>2, <3>2, <3>3, LineMoves
  <2>3. \/ UNCHANGED <<state, place, system>>
        \/ /\ CommitCreate(d) /\ job[d].session \in Sessions
           /\ state' = [state EXCEPT ![job[d].session] = "DRAFT"]
           /\ place' = [place EXCEPT ![job[d].session] = job[d].store]
           /\ system' = [system EXCEPT ![job[d].session] = job[d].lines]
           /\ counted' = [counted EXCEPT ![job[d].session] = Blank]
        \/ /\ UNCHANGED <<place, system>>
           /\ \E new \in {"COMPLETED", "CANCELLED"} : state' = [state EXCEPT ![page[d]] = new]
    BY <1>1, SessionMoves
  <2> QED
    BY <2>1, <2>2, <2>3 DEF CountTyped
<1>2. ASSUME NEW y \in Branches \X Stocked, SellOne(y)
      PROVE  counted'[s][p] \in {Uncounted, system'[s][p], Lies(s, p)'}
  <2>1. UNCHANGED <<state, place, system, counted>>
    BY <1>2 DEF SellOne
  <2>2. ASSUME NEW x \in Branches, x = place[s] PROVE Calm(x) /\ y[1] # x
    <3>1. Calm(x)'
      BY <2>1, <2>2
    <3> QED
      BY <1>2, <3>1, CalmSold
  <2>3. place[s] \in Branches /\ Calm(place[s]) /\ y[1] # place[s] /\ p \in Stocked
    BY <2>2 DEF CountTyped
  <2>4. Lies(s, p)' = Lies(s, p)
    BY <1>2, <2>1, <2>3 DEF Lies, SellOne, CountTyped
  <2> QED
    BY <2>1, <2>3, <2>4 DEF CountedRight
<1>3. CASE NewDay
  <2>1. UNCHANGED <<state, place, system, counted, goods, job, soldDuring>>
    BY <1>3 DEF NewDay, server
  <2> QED
    BY <2>1 DEF CountedRight, Lies, Calm, Alive, Creating, Drafts
<1> QED
  BY <1>1, <1>2, <1>3, CountSteps

(* A step of one device leaves the session of another page alone.          *)
LEMMA OtherSessions ==
    ASSUME CountTyped, Working, Apart, Alone, NEW d \in Devices, DeviceStep(d), ~shared',
           NEW s \in Sessions, state[s] = "DRAFT", page[d] # s, \E e \in Devices : e # d /\ page[e] = s
    PROVE  /\ state'[s] = "DRAFT" /\ place'[s] = place[s] /\ system'[s] = system[s]
           /\ byHand'[s] = byHand[s] /\ \A p \in active : counted'[s][p] = counted[s][p]
<1>1. \A p \in active : counted'[s][p] = counted[s][p]
  BY LineMoves
<1>2. byHand'[s] = byHand[s]
  <2>1. CASE \E t \in Sessions : OpenSession(d, t)
    <3>1. PICK t \in Sessions : OpenSession(d, t)
      BY <2>1
    <3>2. s # t
      BY <3>1 DEF OpenSession
    <3> QED
      BY <3>1, <3>2 DEF OpenSession, CountTyped
  <2>2. CASE \E p \in active : Type(d, p)
    BY <2>2 DEF Type, CountTyped
  <2> QED
    BY <2>1, <2>2 DEF DeviceStep, BeginCreate, SaveLine, CommitCreate, FinishCount,
       FinishLine, BeginComplete, CommitComplete, BeginCancel, CommitCancel, history
<1>3. state'[s] = "DRAFT" /\ place'[s] = place[s] /\ system'[s] = system[s]
  <2>1. \/ UNCHANGED <<state, place, system>>
        \/ /\ job[d].do = "create" /\ job[d].session \in Sessions
           /\ state' = [state EXCEPT ![job[d].session] = "DRAFT"]
           /\ place' = [place EXCEPT ![job[d].session] = job[d].store]
           /\ system' = [system EXCEPT ![job[d].session] = job[d].lines]
        \/ /\ UNCHANGED <<place, system>>
           /\ \E new \in {"COMPLETED", "CANCELLED"} : state' = [state EXCEPT ![page[d]] = new]
    BY SessionMoves
  <2>2. job[d].do = "create" => job[d].session # s
    BY DEF Apart
  <2> QED
    BY <2>1, <2>2 DEF CountTyped
<1> QED
  BY <1>1, <1>2, <1>3

(* The device that works shows its session right.                          *)
LEMMA OwnPage ==
    ASSUME CountTyped, CountTyped', Working, Apart, Alone, CountedRight, PagesRight, NEW d \in Devices, DeviceStep(d),
           NEW p \in active, NEW s \in Sessions, page'[d] = s,
           state[s] = "DRAFT" => place'[s] = place[s] /\ system'[s] = system[s] /\ Calm(place[s])
    PROVE  Shows(d, p)'
<1>0. s # "none" /\ p \in Stocked /\ active' = active /\ goods' = goods
  BY StockCountAssumption DEF CountTyped, DeviceStep, OpenSession, BeginCreate, Type, SaveLine, CommitCreate,
     FinishCount, FinishLine, BeginComplete, CommitComplete, BeginCancel, CommitCancel, server
<1>a. NoJob.do = "idle"
  BY DEF NoJob
<1>1. CASE \E t \in Sessions : OpenSession(d, t)
  <2>1. PICK t \in Sessions : OpenSession(d, t)
    BY <1>1
  <2>2. t = s /\ state[s] = "DRAFT" /\ counted'[s] = counted[s] /\ system'[s] = system[s] /\ place'[s] = place[s]
    BY <2>1 DEF OpenSession, Show, server, CountTyped
  <2>3. /\ loaded'[d][p] = counted[s][p] /\ job'[d].do = "idle"
        /\ typed'[d][p] = IF counted[s][p] = Uncounted THEN system[s][p] ELSE counted[s][p]
    BY <1>0, <1>a, <2>1, <2>2 DEF OpenSession, Show, CountTyped
  <2>4. p \in byHand'[s] => counted[s][p] = Lies(s, p)
    BY <2>1, <2>2 DEF OpenSession, Lies, CountTyped
  <2>5. counted[s][p] \in {Uncounted, system[s][p], Lies(s, p)} /\ Lies(s, p)' = Lies(s, p)
    BY <1>0, <2>2 DEF CountedRight, Lies
  <2>6. Lies(s, p) \in Nat /\ system[s][p] \in Nat
    BY <1>0, <2>2 DEF Lies, CountTyped
  <2> QED
    BY <2>2, <2>3, <2>4, <2>5, <2>6 DEF Shows, Uncounted
<1>2. CASE CommitCreate(d) /\ job[d].session = s /\ state[s] = "none" /\ page[d] # s
  <2>1. /\ job[d].lines \in [Stocked -> Nat] /\ system' = [system EXCEPT ![s] = job[d].lines]
        /\ counted' = [counted EXCEPT ![s] = Blank] /\ Show(d, s, Blank, job[d].lines)
        /\ byHand' = byHand /\ job'[d] = NoJob
    <3>1. job[d].do = "create" /\ JobTyped(job[d]) /\ byHand' = byHand /\ job'[d] = NoJob
      BY <1>2 DEF CommitCreate, CountTyped, history, Rest
    <3>2. job[d].lines \in [Stocked -> Nat]
      BY <3>1 DEF JobTyped, NoJob
    <3>3. job[d].code \notin CodesUsed
      BY <1>2 DEF CommitCreate, screen
    <3> QED
      BY <1>2, <3>1, <3>2, <3>3 DEF CommitCreate
  <2>2. byHand'[s] = {}
    BY <1>2, <2>1 DEF Alone
  <2>3. /\ typed'[d][p] = job[d].lines[p] /\ loaded'[d][p] = Uncounted /\ counted'[s][p] = Uncounted
        /\ system'[s][p] = job[d].lines[p] /\ job[d].lines[p] \in Nat
    BY <1>0, <2>1 DEF Show, Blank, CountTyped
  <2>4. Lies(s, p)' \in Nat
    BY <1>0 DEF Lies, CountTyped
  <2> QED
    BY <1>a, <2>1, <2>2, <2>3, <2>4 DEF Shows, Uncounted
<1>3. ASSUME page[d] = s
      PROVE  state[s] = "DRAFT" /\ Shows(d, p) /\ Lies(s, p)' = Lies(s, p) /\ system'[s] = system[s]
  <2>1. state[s] = "DRAFT"
    BY <1>0, <1>3 DEF Alone
  <2> QED
    BY <1>0, <1>3, <2>1 DEF PagesRight, Lies
<1>4. CASE \E q \in active : Type(d, q)
  <2>1. PICK q \in active : Type(d, q)
    BY <1>4
  <2>2. page[d] = s /\ job'[d].do = "idle" /\ loaded'[d] = loaded[d] /\ counted' = counted
    BY <1>a, <2>1 DEF Type, server
  <2>3. typed'[d][p] = IF p = q THEN Lies(s, p) ELSE typed[d][p]
    <3>1. typed' = [typed EXCEPT ![d][q] = goods[<<place[page[d]], q>>]]
      BY <2>1 DEF Type, Shelf
    <3>2. typed'[d] = [typed[d] EXCEPT ![q] = goods[<<place[page[d]], q>>]] /\ typed[d] \in Figures
      BY ONLY <3>1, d \in Devices, CountTyped DEF CountTyped
    <3> QED
      BY <1>0, <2>2, <3>2 DEF Lies, Figures
  <2>4. byHand'[s] = byHand[s] \cup {q}
    BY <2>1, <2>2 DEF Type, CountTyped
  <2> QED
    BY <1>3, <2>2, <2>3, <2>4 DEF Shows
<1>5. CASE \E q \in active : SaveLine(d, q)
  <2>1. PICK q \in active : SaveLine(d, q)
    BY <1>5
  <2>2. page[d] = s /\ job'[d].do = "idle" /\ typed'[d] = typed[d] /\ byHand' = byHand
    BY <1>a, <2>1 DEF SaveLine, history
  <2>3. counted'[s][p] = IF p = q THEN typed[d][p] ELSE counted[s][p]
    BY <1>0, <2>1, <2>2 DEF SaveLine, CountTyped, Figures
  <2>4. loaded'[d][p] = counted'[s][p]
    BY <2>1, <2>2 DEF SaveLine, CountTyped
  <2> QED
    BY <1>3, <2>2, <2>3, <2>4 DEF Shows
<1>6. CASE FinishCount(d)
  <2>1. page[d] = s /\ UNCHANGED <<typed, loaded, counted, byHand>>
    BY <1>6 DEF FinishCount, server, screen, history
  <2>2. job' = [job EXCEPT ![d] = [do |-> "finish", session |-> page[d], left |-> Differs(d)]]
    BY <1>6 DEF FinishCount, Work
  <2>3. job'[d] = [do |-> "finish", session |-> page[d], left |-> Differs(d)]
    BY ONLY <2>2, d \in Devices, CountTyped DEF CountTyped
  <2>4. job'[d].do = "finish" /\ job'[d].left = Differs(d)
    BY <2>3
  <2>5. p \notin Differs(d) => loaded[d][p] = typed[d][p]
    BY DEF Differs
  <2> QED
    BY <1>3, <2>1, <2>4, <2>5 DEF Shows
<1>7. CASE FinishLine(d)
  <2>1. page[d] = s /\ UNCHANGED <<typed, loaded, byHand>> /\ job[d].do = "finish" /\ JobTyped(job[d])
    BY <1>7 DEF FinishLine, screen, history, CountTyped
  <2>2. job[d] = [do |-> "finish", session |-> job[d].session, left |-> job[d].left]
    BY <2>1 DEF JobTyped, NoJob
  <2>3. PICK q \in job[d].left :
          /\ counted' = [counted EXCEPT ![page[d]][q] = typed[d][q]]
          /\ job' = [job EXCEPT ![d].left = @ \ {q}]
    BY <1>3, <1>7, <2>1 DEF FinishLine
  <2>4. job'[d] = [job[d] EXCEPT !.left = job[d].left \ {q}]
    BY ONLY <2>3, d \in Devices, CountTyped DEF CountTyped
  <2>5. job'[d].do = "finish" /\ job'[d].left = job[d].left \ {q}
    BY <2>2, <2>4
  <2>6. counted'[s][p] = IF p = q THEN typed[d][p] ELSE counted[s][p]
    <3>1. counted'[s] = [counted[s] EXCEPT ![q] = typed[d][q]]
      BY ONLY <2>1, <2>3, s \in Sessions, CountTyped DEF CountTyped
    <3>2. counted[s] \in Figures
      BY DEF CountTyped
    <3> QED
      BY <1>0, <3>1, <3>2 DEF Figures
  <2> QED
    BY <1>3, <2>1, <2>5, <2>6 DEF Shows
<1>8. CASE BeginComplete(d)
  <2>1. page[d] = s /\ UNCHANGED <<typed, loaded, counted, byHand>> /\ job[d].do = "finish" /\ job[d].left = {}
    BY <1>8 DEF BeginComplete, server, screen, history
  <2>2. \/ job' = [job EXCEPT ![d] = NoJob]
        \/ job' = [job EXCEPT ![d] = [do |-> "complete", session |-> s, lines |-> counted[s]]]
    BY <1>8, <2>1 DEF BeginComplete, Rest
  <2>3. \/ job'[d] = NoJob
        \/ job'[d] = [do |-> "complete", session |-> s, lines |-> counted[s]]
    BY ONLY <2>2, d \in Devices, CountTyped DEF CountTyped
  <2>4. \/ job'[d].do = "idle"
        \/ job'[d].do = "complete" /\ job'[d].lines = counted[s]
    BY <1>a, <2>3
  <2> QED
    BY <1>3, <2>1, <2>4 DEF Shows
<1>9. CASE BeginCancel(d)
  <2>1. page[d] = s /\ UNCHANGED <<typed, loaded, counted, byHand>>
    BY <1>9 DEF BeginCancel, server, screen, history
  <2>2. job' = [job EXCEPT ![d] = [do |-> "cancel", session |-> page[d]]]
    BY <1>9 DEF BeginCancel, Work
  <2>3. job'[d] = [do |-> "cancel", session |-> page[d]]
    BY ONLY <2>2, d \in Devices, CountTyped DEF CountTyped
  <2>4. job'[d].do = "cancel"
    BY <2>3
  <2> QED
    BY <1>3, <2>1, <2>4 DEF Shows
<1>10. CASE \E t \in Sessions, x \in Branches : BeginCreate(d, t, x)
  <2>1. PICK t \in Sessions, x \in Branches : BeginCreate(d, t, x)
    BY <1>10
  <2>2. page[d] = s /\ UNCHANGED <<typed, loaded, counted, byHand>>
    BY <2>1 DEF BeginCreate, server, screen, history
  <2>3. PICK j : j = [do |-> "create", session |-> t, store |-> x, code |-> NextCode,
                      lines |-> [r \in Stocked |-> onHand[<<x, r>>]]]
    OBVIOUS
  <2>4. job' = [job EXCEPT ![d] = j] /\ j.do = "create"
    BY <2>1, <2>3 DEF BeginCreate, Work
  <2>5. job'[d].do = "create"
    BY <2>4 DEF CountTyped
  <2> QED
    BY <1>3, <2>2, <2>5 DEF Shows
<1>11. CASE CommitCreate(d)
  <2>1. job[d].do = "create" /\ JobTyped(job[d]) /\ byHand' = byHand /\ job'[d] = NoJob
    BY <1>11 DEF CommitCreate, CountTyped, history, Rest
  <2>2. state[job[d].session] = "none"
    BY <2>1 DEF Apart
  <2>3. CASE job[d].code \in CodesUsed
    <3>1. page[d] = s /\ UNCHANGED <<typed, loaded, counted>>
      BY <1>11, <2>3 DEF CommitCreate, screen
    <3> QED
      BY <1>3, <1>a, <2>1, <3>1 DEF Shows
  <2>4. CASE job[d].code \notin CodesUsed
    <3>1. job[d].session = s
      BY <1>11, <2>4 DEF CommitCreate, Show, CountTyped
    <3>2. page[d] # s
      BY <1>0, <2>2, <3>1 DEF Alone
    <3> QED
      BY <1>2, <1>11, <2>2, <3>1, <3>2
  <2> QED
    BY <2>3, <2>4
<1>12. CASE CommitComplete(d) \/ CommitCancel(d)
  BY <1>0, <1>12 DEF CommitComplete, CommitCancel, Leave, CountTyped
<1> QED
  BY <1>1, <1>4, <1>5, <1>6, <1>7, <1>8, <1>9, <1>10, <1>11, <1>12 DEF DeviceStep

LEMMA StepPagesRight ==
    ASSUME CountTyped, CountTyped', Working, Apart, Alone, Alone', CountedRight, PagesRight, CountNext, ~shared'
    PROVE  PagesRight'
<1>0. active' = active
  BY CountSteps DEF DeviceStep, OpenSession, BeginCreate, Type, SaveLine, CommitCreate, FinishCount,
     FinishLine, BeginComplete, CommitComplete, BeginCancel, CommitCancel, SellOne, NewDay, server
<1> SUFFICES ASSUME NEW e \in Devices, NEW p \in active, page'[e] # "none", Calm(place[page[e]])'
             PROVE  Shows(e, p)'
  BY <1>0 DEF PagesRight
<1>1. PICK s \in Sessions : page'[e] = s /\ state'[s] = "DRAFT" /\ Calm(place[s])'
  BY DEF Alone, CountTyped
<1>2. ASSUME NEW d \in Devices, DeviceStep(d) PROVE Shows(e, p)'
  <2>0. goods' = goods
    BY <1>2 DEF DeviceStep, OpenSession, BeginCreate, Type, SaveLine, CommitCreate, FinishCount,
       FinishLine, BeginComplete, CommitComplete, BeginCancel, CommitCancel, server
  <2>1. ASSUME state[s] = "DRAFT", place'[s] = place[s] PROVE Calm(place[s])
    <3>1. place[s] \in Branches /\ s \in Drafts(place[s])
      BY <2>1 DEF CountTyped, Drafts
    <3>2. ASSUME NEW x \in Branches, x = place[s] PROVE Calm(x)
      <4>1. Calm(x)'
        BY <1>1, <2>1, <3>2
      <4> QED
        BY <1>2, <3>1, <3>2, <4>1, CalmBefore
    <3> QED
      BY <3>1, <3>2
  <2>2. CASE e # d
    <3>1. page[e] = s /\ typed'[e] = typed[e] /\ loaded'[e] = loaded[e] /\ job'[e] = job[e] /\ state[s] = "DRAFT"
      BY <1>1, <1>2, <2>2, OtherDevices, StockCountAssumption DEF Alone
    <3>2. page[d] # s
      BY <2>2, <3>1, StockCountAssumption DEF Alone
    <3>3. /\ place'[s] = place[s] /\ system'[s] = system[s]
          /\ byHand'[s] = byHand[s] /\ counted'[s][p] = counted[s][p]
      BY <1>2, <2>2, <3>1, <3>2, OtherSessions
    <3>4. Shows(e, p)
      BY <2>1, <3>1, <3>3, StockCountAssumption DEF PagesRight
    <3> QED
      BY <1>1, <2>0, <3>1, <3>3, <3>4 DEF Shows, Lies
  <2>3. CASE e = d
    <3>1. state[s] = "DRAFT" => place'[s] = place[s] /\ system'[s] = system[s]
      <4>1. \/ UNCHANGED <<state, place, system>>
            \/ /\ job[d].do = "create" /\ job[d].session \in Sessions
               /\ state' = [state EXCEPT ![job[d].session] = "DRAFT"]
               /\ place' = [place EXCEPT ![job[d].session] = job[d].store]
               /\ system' = [system EXCEPT ![job[d].session] = job[d].lines]
            \/ UNCHANGED <<place, system>>
        BY <1>2, SessionMoves
      <4>2. job[d].do = "create" => state[job[d].session] = "none"
        BY DEF Apart
      <4> QED
        BY <4>1, <4>2 DEF CountTyped
    <3> QED
      BY <1>1, <1>2, <2>1, <2>3, <3>1, OwnPage
  <2> QED
    BY <2>2, <2>3
<1>3. ASSUME NEW y \in Branches \X Stocked, SellOne(y) PROVE Shows(e, p)'
  <2>1. UNCHANGED <<state, place, system, counted, page, loaded, typed, job, byHand>>
    BY <1>3 DEF SellOne, screen
  <2>2. ASSUME NEW x \in Branches, x = place[s] PROVE Calm(x) /\ y[1] # x
    <3>1. Calm(x)'
      BY <1>1, <2>1, <2>2
    <3> QED
      BY <1>3, <3>1, CalmSold
  <2>3. place[s] \in Branches /\ Calm(place[s]) /\ y[1] # place[s] /\ p \in Stocked
    BY <2>2 DEF CountTyped
  <2>4. Lies(s, p)' = Lies(s, p)
    BY <1>3, <2>1, <2>3 DEF Lies, SellOne, CountTyped
  <2>5. Shows(e, p)
    BY <1>1, <2>1, <2>3 DEF PagesRight
  <2> QED
    BY <1>1, <2>1, <2>4, <2>5 DEF Shows
<1>4. CASE NewDay
  <2>1. UNCHANGED <<state, place, system, counted, goods, page, loaded, typed, job, byHand, soldDuring>>
    BY <1>4 DEF NewDay, server, screen
  <2>2. Shows(e, p)
    BY <1>1, <2>1 DEF PagesRight, Calm, Alive, Creating, Drafts
  <2> QED
    BY <2>1, <2>2 DEF Shows, Lies
<1> QED
  BY <1>2, <1>3, <1>4, CountSteps

(* What a completed count leaves on the shelf of its store.                *)
LEMMA CompletedRight ==
    ASSUME CountTyped, Working, Apart, Alone, PagesRight, NEW d \in Devices, CommitComplete(d),
           NEW x \in Branches, x = place[page[d]] => Calm(x), NEW p \in active
    PROVE  \/ onHand'[<<x, p>>] = onHand[<<x, p>>]
           \/ onHand'[<<x, p>>] = goods[<<x, p>>]
<1>1. page[d] # "none" /\ page[d] \in Sessions /\ job[d].session = page[d] /\ job[d].do = "complete"
  BY DEF CommitComplete, Working, CountTyped
<1>2. p \in Stocked /\ <<x, p>> \in Branches \X Stocked
  BY DEF CountTyped
<1>3. onHand'[<<x, p>>] = IF x = place[page[d]] /\ job[d].lines[p] # system[page[d]][p]
                          THEN job[d].lines[p] ELSE onHand[<<x, p>>]
  BY <1>1, <1>2 DEF CommitComplete, Recounted
<1>4. x = place[page[d]] => Shows(d, p)
  BY <1>1 DEF PagesRight
<1> QED
  BY <1>1, <1>3, <1>4 DEF Shows, Lies

LEMMA StepRowsRight ==
    ASSUME CountTyped, CountTyped', Working, Apart, Alone, PagesRight, RowsRight, CountNext
    PROVE  RowsRight'
<1>0. active' = active
  BY CountSteps DEF DeviceStep, OpenSession, BeginCreate, Type, SaveLine, CommitCreate, FinishCount,
     FinishLine, BeginComplete, CommitComplete, BeginCancel, CommitCancel, SellOne, NewDay, server
<1> SUFFICES ASSUME NEW x \in Branches, NEW p \in active
             PROVE  /\ \A s \in Drafts(x)' : ~soldDuring'[s] =>
                          onHand'[<<x, p>>] \in {system'[s][p], goods'[<<x, p>>]}
                    /\ \A e \in Devices : job'[e].do = "create" /\ job'[e].store = x /\ ~soldDuring'[job'[e].session] =>
                          onHand'[<<x, p>>] \in {job'[e].lines[p], goods'[<<x, p>>]}
  BY <1>0 DEF RowsRight
<1>1. ASSUME NEW d \in Devices, DeviceStep(d)
      PROVE  /\ \A s \in Drafts(x)' : ~soldDuring'[s] =>
                    onHand'[<<x, p>>] \in {system'[s][p], goods'[<<x, p>>]}
             /\ \A e \in Devices : job'[e].do = "create" /\ job'[e].store = x /\ ~soldDuring'[job'[e].session] =>
                    onHand'[<<x, p>>] \in {job'[e].lines[p], goods'[<<x, p>>]}
  <2>0. goods' = goods /\ soldDuring' = soldDuring
    BY <1>1 DEF DeviceStep, OpenSession, BeginCreate, Type, SaveLine, CommitCreate, FinishCount,
       FinishLine, BeginComplete, CommitComplete, BeginCancel, CommitCancel, server, history
  <2>1. Calm(x)' => onHand'[<<x, p>>] \in {onHand[<<x, p>>], goods[<<x, p>>]}
    <3>1. CASE CommitComplete(d)
      <4> SUFFICES ASSUME Calm(x)' PROVE onHand'[<<x, p>>] \in {onHand[<<x, p>>], goods[<<x, p>>]}
        OBVIOUS
      <4>1. page[d] # "none" /\ page[d] \in Sessions
        BY <3>1 DEF CommitComplete, Working, CountTyped
      <4>2. x = place[page[d]] => page[d] \in Drafts(x)
        BY <4>1 DEF Alone, Drafts
      <4>3. x = place[page[d]] => Calm(x)
        BY <1>1, <4>2, CalmBefore
      <4> QED
        BY <3>1, <4>3, CompletedRight
    <3>2. CASE ~CommitComplete(d)
      <4>1. onHand' = onHand
        BY <1>1, <3>2 DEF DeviceStep, OpenSession, BeginCreate, Type, SaveLine, CommitCreate, FinishCount,
           FinishLine, BeginComplete, BeginCancel, CommitCancel, server
      <4> QED
        BY <4>1
    <3> QED
      BY <3>1, <3>2
  <2>2. ASSUME NEW s \in Sessions, s \in Drafts(x)', ~soldDuring'[s]
        PROVE  onHand'[<<x, p>>] \in {system'[s][p], goods'[<<x, p>>]}
    <3>1. Calm(x)'
      BY <2>2 DEF Calm, Alive
    <3>2. state'[s] = "DRAFT" /\ place'[s] = x
      BY <2>2 DEF Drafts
    <3>3. \/ UNCHANGED <<state, place, system>>
          \/ /\ job[d].do = "create" /\ job[d].session \in Sessions
             /\ state' = [state EXCEPT ![job[d].session] = "DRAFT"]
             /\ place' = [place EXCEPT ![job[d].session] = job[d].store]
             /\ system' = [system EXCEPT ![job[d].session] = job[d].lines]
          \/ /\ UNCHANGED <<place, system>>
             /\ \E new \in {"COMPLETED", "CANCELLED"} : state' = [state EXCEPT ![page[d]] = new]
      BY <1>1, SessionMoves
    <3>4. \/ s \in Drafts(x) /\ system'[s] = system[s]
          \/ job[d].do = "create" /\ job[d].session = s /\ job[d].store = x /\ system'[s] = job[d].lines
      BY <3>2, <3>3 DEF CountTyped, Drafts
    <3>5. onHand[<<x, p>>] \in {system'[s][p], goods[<<x, p>>]}
      BY <2>0, <2>2, <3>4 DEF RowsRight
    <3> QED
      BY <2>0, <2>1, <3>1, <3>5
  <2>3. ASSUME NEW e \in Devices, job'[e].do = "create", job'[e].store = x, ~soldDuring'[job'[e].session]
        PROVE  onHand'[<<x, p>>] \in {job'[e].lines[p], goods'[<<x, p>>]}
    <3>1. JobTyped(job[e])'
      BY DEF CountTyped
    <3>2. job'[e].session \in Sessions
      BY <2>3, <3>1 DEF JobTyped, NoJob
    <3>3. Calm(x)'
      BY <2>3, <3>2 DEF Calm, Alive, Creating
    <3>4. CASE job'[e] = job[e]
      BY <2>0, <2>1, <2>3, <3>3, <3>4 DEF RowsRight
    <3>5. CASE job'[e] # job[e]
      <4>1. e = d
        BY <1>1, <3>5, OtherDevices
      <4>2. NoJob.do = "idle"
        BY DEF NoJob
      <4>3. CASE \E s \in Sessions, y \in Branches :
                BeginCreate(d, s, y) /\ job'[d].store = y
                /\ job'[d].lines = [q \in Stocked |-> onHand[<<y, q>>]]
        <5>1. job'[d].lines[p] = onHand[<<x, p>>]
          BY <2>3, <4>1, <4>3 DEF CountTyped
        <5> QED
          BY <2>0, <2>1, <3>3, <4>1, <5>1
      <4> QED
        BY <1>1, <2>3, <4>1, <4>2, <4>3, OwnRequest
    <3> QED
      BY <3>4, <3>5
  <2>4. Drafts(x)' \subseteq Sessions
    BY DEF Drafts
  <2> QED
    BY <2>2, <2>3, <2>4
<1>2. ASSUME NEW y \in Branches \X Stocked, SellOne(y)
      PROVE  /\ \A s \in Drafts(x)' : ~soldDuring'[s] =>
                    onHand'[<<x, p>>] \in {system'[s][p], goods'[<<x, p>>]}
             /\ \A e \in Devices : job'[e].do = "create" /\ job'[e].store = x /\ ~soldDuring'[job'[e].session] =>
                    onHand'[<<x, p>>] \in {job'[e].lines[p], goods'[<<x, p>>]}
  <2>1. UNCHANGED <<state, place, system, job>>
    BY <1>2 DEF SellOne
  <2>2. ASSUME NEW s \in Sessions, ~soldDuring'[s]
        PROVE  ~soldDuring[s] /\ s \notin Drafts(y[1]) /\ \A e \in Devices : job[e] # NoJob => job[e].session # s
    BY <1>2, <2>2 DEF SellOne
  <2>3. ASSUME NEW e \in Devices, job'[e].do = "create" PROVE soldDuring'[job'[e].session]
    <3>1. job[e].session \in Sessions /\ job[e] # NoJob
      BY <2>1, <2>3 DEF CountTyped, JobTyped, NoJob
    <3> QED
      BY <2>1, <2>2, <3>1
  <2>4. ASSUME NEW s \in Sessions, s \in Drafts(x)', ~soldDuring'[s]
        PROVE  onHand'[<<x, p>>] \in {system'[s][p], goods'[<<x, p>>]}
    <3>1. s \in Drafts(x) /\ ~soldDuring[s] /\ y[1] # x
      BY <2>1, <2>2, <2>4 DEF Drafts
    <3>2. <<x, p>> \in Branches \X Stocked /\ y # <<x, p>>
      BY <3>1 DEF CountTyped
    <3>3. onHand'[<<x, p>>] = onHand[<<x, p>>] /\ goods'[<<x, p>>] = goods[<<x, p>>]
      BY <1>2, <3>2 DEF SellOne, CountTyped
    <3> QED
      BY <2>1, <3>1, <3>3 DEF RowsRight
  <2>5. Drafts(x)' \subseteq Sessions
    BY DEF Drafts
  <2> QED
    BY <2>3, <2>4, <2>5
<1>3. CASE NewDay
  BY <1>3 DEF NewDay, server, RowsRight, Drafts
<1> QED
  BY <1>1, <1>2, <1>3, CountSteps

(* The codes that are in use grow by that of a session that is created.    *)
LEMMA CodesMove ==
    ASSUME CountTyped, Working, Apart, Numbered, NEW d \in Devices, DeviceStep(d)
    PROVE  \/ CodesUsed' = CodesUsed /\ \A s \in Sessions : state'[s] = "DRAFT" => state[s] = "DRAFT" /\ place'[s] = place[s]
           \/ /\ CommitCreate(d) /\ job[d].do = "create" /\ job[d].code \notin CodesUsed
              /\ job[d].session \in Sessions /\ job[d].store \in Branches
              /\ CodesUsed' = CodesUsed \cup {job[d].code}
              /\ code' = [code EXCEPT ![job[d].session] = job[d].code]
              /\ state' = [state EXCEPT ![job[d].session] = "DRAFT"]
              /\ place' = [place EXCEPT ![job[d].session] = job[d].store]
<1>1. CASE CommitCreate(d)
  <2>1. job[d].do = "create" /\ JobTyped(job[d])
    BY <1>1 DEF CommitCreate, CountTyped
  <2>2. job[d].session \in Sessions /\ job[d].store \in Branches /\ state[job[d].session] = "none"
    BY <2>1 DEF JobTyped, NoJob, Apart
  <2>3. CASE job[d].code \in CodesUsed
    BY <1>1, <2>3 DEF CommitCreate, CodesUsed
  <2>4. CASE job[d].code \notin CodesUsed
    <3>1. /\ code' = [code EXCEPT ![job[d].session] = job[d].code]
          /\ state' = [state EXCEPT ![job[d].session] = "DRAFT"]
          /\ place' = [place EXCEPT ![job[d].session] = job[d].store]
      BY <1>1, <2>4 DEF CommitCreate
    <3>2. \A s \in Sessions : /\ state'[s] # "none" <=> state[s] # "none" \/ s = job[d].session
                              /\ code'[s] = IF s = job[d].session THEN job[d].code ELSE code[s]
      BY <2>2, <3>1 DEF CountTyped, Numbered
    <3>3. CodesUsed' = CodesUsed \cup {job[d].code}
      BY <2>2, <3>2 DEF CodesUsed
    <3> QED
      BY <1>1, <2>1, <2>2, <2>4, <3>1, <3>3
  <2> QED
    BY <2>3, <2>4
<1>2. CASE CommitComplete(d) \/ CommitCancel(d)
  <2>1. page[d] # "none" /\ page[d] \in Sessions /\ job[d].session = page[d]
    BY <1>2 DEF CommitComplete, CommitCancel, Working, CountTyped
  <2>2. /\ code' = code /\ place' = place
        /\ \E new \in {"COMPLETED", "CANCELLED"} : state' = [state EXCEPT ![page[d]] = new]
    BY <1>2, <2>1 DEF CommitComplete, CommitCancel
  <2>3. \A s \in Sessions : /\ state'[s] # "none" <=> state[s] # "none"
                            /\ state'[s] = "DRAFT" => state[s] = "DRAFT"
    BY <2>1, <2>2 DEF CountTyped, Apart
  <2> QED
    BY <2>2, <2>3 DEF CodesUsed
<1>3. CASE ~CommitCreate(d) /\ ~CommitComplete(d) /\ ~CommitCancel(d)
  <2>1. UNCHANGED <<state, place, code>>
    BY <1>3 DEF DeviceStep, OpenSession, BeginCreate, Type, SaveLine, FinishCount, FinishLine,
       BeginComplete, BeginCancel, server
  <2> QED
    BY <2>1 DEF CodesUsed
<1> QED
  BY <1>1, <1>2, <1>3

(* A code that is read follows on codes that are in use.                   *)
LEMMA NextCodeFollows ==
    ASSUME CountTyped, Numbered
    PROVE  /\ NextCode \in {day} \X (Nat \ {0})
           /\ \A m \in 1 .. (NextCode[2] - 1) : <<day, m>> \in CodesUsed
<1> DEFINE today == {c[2] : c \in {x \in CodesUsed : x[1] = day}}
<1>1. CodesUsed \subseteq (0 .. day) \X Nat
  BY DEF CodesUsed, Numbered
<1>2. today \in SUBSET Nat /\ IsFiniteSet(today)
  <2> DEFINE mine == {s \in Sessions : state[s] # "none" /\ code[s][1] = day}
             number == [s \in mine |-> code[s][2]]
  <2>1. IsFiniteSet(mine)
    BY StockCountAssumption, FS_Subset
  <2>2. today = {number[s] : s \in mine}
    BY DEF CodesUsed
  <2>3. number \in Surjection(mine, today)
    BY <2>2 DEF Surjection
  <2>4. IsFiniteSet(today)
    BY <2>1, <2>3, FS_Surjection
  <2> QED
    BY <1>1, <2>4
<1>3. {0} \cup today \in SUBSET Nat /\ IsFiniteSet({0} \cup today) /\ {0} \cup today # {}
  <2>1. IsFiniteSet(today \cup {0})
    BY <1>2, FS_AddElement
  <2> QED
    BY <1>2, <2>1
<1>4. PICK x \in {0} \cup today : \A y \in {0} \cup today : y <= x
  <2> HIDE DEF today
  <2> QED
    BY <1>3, GreatestNumber
<1>5. Max({0} \cup today) \in {0} \cup today
  BY <1>3, <1>4 DEF Max
<1>6. NextCode = <<day, 1 + Max({0} \cup today)>>
  BY DEF NextCode
<1> DEFINE n == Max({0} \cup today)
<1>7. n \in Nat /\ \A m \in 1 .. n : <<day, m>> \in CodesUsed
  <2>1. n \in Nat
    BY <1>3, <1>5
  <2>2. CASE n = 0
    BY <2>2
  <2>3. CASE n \in today
    <3>1. PICK c \in CodesUsed : c[1] = day /\ c[2] = n
      BY <2>3
    <3> HIDE DEF n
    <3> QED
      BY <2>1, <3>1 DEF Numbered
  <2> QED
    BY <1>5, <2>1, <2>2, <2>3
<1> HIDE DEF n
<1>8. NextCode = <<day, n + 1>> /\ NextCode[2] - 1 = n
  <2>1. NextCode = <<day, 1 + n>>
    BY <1>6 DEF n
  <2> QED
    BY <1>7, <2>1
<1> QED
  BY <1>7, <1>8 DEF Numbered

LEMMA StepCodes ==
    ASSUME CountTyped, Working, Apart, Numbered, OneEach, CountNext, ~midnight'
    PROVE  Numbered' /\ OneEach'
<1>1. ASSUME NEW d \in Devices, DeviceStep(d) PROVE Numbered' /\ OneEach'
  <2>0. day' = day
    BY <1>1 DEF DeviceStep, OpenSession, BeginCreate, Type, SaveLine, CommitCreate, FinishCount,
       FinishLine, BeginComplete, CommitComplete, BeginCancel, CommitCancel
  <2>1. CASE \E s \in Sessions, x \in Branches : BeginCreate(d, s, x)
    <3>1. PICK s \in Sessions, x \in Branches : BeginCreate(d, s, x)
      BY <2>1
    <3>2. Drafts(x) = {} /\ UNCHANGED <<state, place, code, CodesUsed>>
      BY <3>1 DEF BeginCreate, server, CodesUsed
    <3>3. PICK j : j = [do |-> "create", session |-> s, store |-> x, code |-> NextCode,
                        lines |-> [p \in Stocked |-> onHand[<<x, p>>]]]
      OBVIOUS
    <3>4. job' = [job EXCEPT ![d] = j] /\ j.store = x /\ j.code = NextCode
      BY <3>1, <3>3 DEF BeginCreate, Work
    <3>5. \A e \in Devices : job'[e] = IF e = d THEN j ELSE job[e]
      BY <3>4 DEF CountTyped
    <3>6. Numbered'
      BY <2>0, <3>2, <3>4, <3>5, NextCodeFollows DEF Numbered
    <3>7. OneEach'
      BY <3>2, <3>4, <3>5 DEF OneEach, Drafts
    <3> QED
      BY <3>6, <3>7
  <2>2. ASSUME ~ \E s \in Sessions, x \in Branches : BeginCreate(d, s, x) PROVE Numbered' /\ OneEach'
    <3>1. \A e \in Devices : job'[e].do = "create" => job'[e] = job[e]
      BY <1>1, <2>2, NoNewCreate, OtherDevices
    <3>2. CASE CodesUsed' = CodesUsed /\ \A s \in Sessions : state'[s] = "DRAFT" => state[s] = "DRAFT" /\ place'[s] = place[s]
      <4>1. code' \in [Sessions -> (0 .. day) \X Nat]
        <5>1. CASE CommitCreate(d)
          <6>1. job[d].do = "create" /\ job[d].code \in {day} \X (Nat \ {0})
            BY <5>1 DEF CommitCreate, Numbered
          <6>2. code' = code \/ code' = [code EXCEPT ![job[d].session] = job[d].code]
            BY <5>1 DEF CommitCreate
          <6> QED
            BY <6>1, <6>2 DEF Numbered
        <5>2. CASE ~CommitCreate(d)
          BY <1>1, <5>2 DEF DeviceStep, OpenSession, BeginCreate, Type, SaveLine, FinishCount, FinishLine,
             BeginComplete, CommitComplete, BeginCancel, CommitCancel, server, Numbered
        <5> QED
          BY <5>1, <5>2
      <4>2. Numbered'
        BY <2>0, <3>1, <3>2, <4>1 DEF Numbered
      <4>3. OneEach'
        BY <3>1, <3>2 DEF OneEach
      <4> QED
        BY <4>2, <4>3
    <3>3. CASE /\ CommitCreate(d) /\ job[d].do = "create" /\ job[d].code \notin CodesUsed
               /\ job[d].session \in Sessions /\ job[d].store \in Branches
               /\ CodesUsed' = CodesUsed \cup {job[d].code}
               /\ code' = [code EXCEPT ![job[d].session] = job[d].code]
               /\ state' = [state EXCEPT ![job[d].session] = "DRAFT"]
               /\ place' = [place EXCEPT ![job[d].session] = job[d].store]
      <4>1. PICK n \in Nat \ {0} : job[d].code = <<day, n>> /\ \A m \in 1 .. (n - 1) : <<day, m>> \in CodesUsed
        BY <3>3 DEF Numbered
      <4>2. day \in Nat \ {0} /\ code' \in [Sessions -> (0 .. day) \X Nat]
        BY <3>3, <4>1 DEF Numbered
      <4>3. \A c \in CodesUsed' : c[1] = day => \A m \in 1 .. c[2] : <<day, m>> \in CodesUsed'
        <5> SUFFICES ASSUME NEW c \in CodesUsed', c[1] = day, NEW m \in 1 .. c[2] PROVE <<day, m>> \in CodesUsed'
          OBVIOUS
        <5>1. CASE c \in CodesUsed
          BY <3>3, <5>1 DEF Numbered
        <5>2. CASE c = <<day, n>>
          BY <3>3, <4>1, <5>2
        <5> QED
          BY <3>3, <4>1, <5>1, <5>2
      <4>4. Numbered'
        BY <2>0, <3>1, <3>3, <4>2, <4>3 DEF Numbered
      <4>5. \A s \in Sessions : s # job[d].session => state'[s] = state[s] /\ place'[s] = place[s]
        BY <3>3 DEF CountTyped
      <4>6. place'[job[d].session] = job[d].store
        BY <3>3 DEF CountTyped
      <4>7. \A s, t \in Sessions : state'[s] = "DRAFT" /\ state'[t] = "DRAFT" /\ place'[s] = place'[t] => s = t
        BY <3>3, <4>5, <4>6 DEF OneEach
      <4>8. ASSUME NEW e \in Devices, NEW s \in Sessions, job'[e].do = "create", state'[s] = "DRAFT",
                   place'[s] = job'[e].store
            PROVE  job'[e].code \in CodesUsed'
        <5>1. job'[e] = job[e] /\ job[e].do = "create"
          BY <3>1, <4>8
        <5>2. CASE s # job[d].session
          BY <3>3, <4>5, <4>8, <5>1, <5>2 DEF OneEach
        <5>3. CASE s = job[d].session
          <6>1. PICK k \in Nat \ {0} : job[e].code = <<day, k>> /\ \A m \in 1 .. (k - 1) : <<day, m>> \in CodesUsed
            BY <5>1 DEF Numbered
          <6>2. CASE k < n
            BY <3>3, <4>1, <5>1, <6>1, <6>2
          <6>3. CASE n < k
            BY <3>3, <4>1, <6>1, <6>3
          <6>4. CASE n = k
            BY <3>3, <4>1, <5>1, <6>1, <6>4
          <6> QED
            BY <6>2, <6>3, <6>4
        <5> QED
          BY <5>2, <5>3
      <4>9. OneEach'
        BY <4>7, <4>8 DEF OneEach
      <4> QED
        BY <4>4, <4>9
    <3> QED
      BY <1>1, <3>2, <3>3, CodesMove
  <2> QED
    BY <2>1, <2>2
<1>2. ASSUME NEW x \in Branches \X Stocked, SellOne(x) PROVE Numbered' /\ OneEach'
  BY <1>2 DEF SellOne, Numbered, OneEach, CodesUsed
<1>3. CASE NewDay
  <2>1. /\ UNCHANGED <<state, place, code, job, CodesUsed>> /\ day' = day + 1
        /\ \A d \in Devices : job[d].do # "create"
    BY <1>3 DEF NewDay, server, CodesUsed
  <2>2. \A c \in CodesUsed : c[1] # day + 1
    <3>1. CodesUsed \subseteq (0 .. day) \X Nat
      BY DEF CodesUsed, Numbered
    <3>2. day \in Nat
      BY DEF Numbered
    <3> QED
      BY <3>1, <3>2
  <2>3. code \in [Sessions -> (0 .. (day + 1)) \X Nat] /\ day + 1 \in Nat \ {0}
    <3>1. day \in Nat
      BY DEF Numbered
    <3>2. 0 .. day \subseteq 0 .. (day + 1)
      BY <3>1
    <3> QED
      BY <3>1, <3>2 DEF Numbered
  <2> QED
    BY <2>1, <2>2, <2>3 DEF Numbered, OneEach
<1> QED
  BY <1>1, <1>2, <1>3, CountSteps

LEMMA InitCountInv == CountInit => CountInv
<1> SUFFICES ASSUME CountInit PROVE CountInv
  OBVIOUS
<1> USE StockCountAssumption DEF CountInit
<1>0. PICK c \in Cases :
        /\ active = c.active
        /\ state = [s \in Sessions |-> IF s \in c.sessions THEN "none" ELSE "CANCELLED"]
  OBVIOUS
<1>1. active \subseteq Stocked
  BY <1>0
<1>2. state \in [Sessions -> {"none", "DRAFT", "COMPLETED", "CANCELLED"}] /\ \A s \in Sessions : state[s] # "DRAFT"
  BY <1>0
<1>3. place \in [Sessions -> Branches] /\ Blank \in Figures
  BY DEF Blank, Figures
<1>4. NoJob.do = "idle" /\ JobTyped(NoJob)
  BY DEF NoJob, JobTyped
<1>5. CountTyped
  BY <1>1, <1>2, <1>3, <1>4 DEF CountTyped
<1>6. Working /\ Alone /\ CountedRight /\ PagesRight
  BY <1>2, <1>4 DEF Working, Apart, Alone, CountedRight, PagesRight
<1>7. RowsRight
  BY <1>2, <1>4 DEF RowsRight, Drafts
<1>8. Apart
  BY <1>4 DEF Apart
<1>9. Numbered
  <2>1. day = 1 /\ code = [s \in Sessions |-> <<0, 0>>]
    OBVIOUS
  <2>2. \A used \in CodesUsed : used = <<0, 0>>
    BY <2>1 DEF CodesUsed
  <2> QED
    BY <1>4, <2>1, <2>2 DEF Numbered
<1>10. OneEach
  BY <1>2, <1>4 DEF OneEach
<1> QED
  BY <1>5, <1>6, <1>7, <1>8, <1>9, <1>10 DEF CountInv

LEMMA StepCountInv == CountInv /\ [CountNext]_countVars => CountInv'
<1> SUFFICES ASSUME CountInv, [CountNext]_countVars PROVE CountInv'
  OBVIOUS
<1>1. CASE CountNext
  <2>1. CountTyped' /\ Working' /\ Apart'
    BY <1>1, StepCountTyped, StepWorking, StepApart DEF CountInv
  <2>a. midnight => midnight'
    BY <1>1, CountSteps DEF DeviceStep, OpenSession, BeginCreate, Type, SaveLine, CommitCreate, FinishCount,
       FinishLine, BeginComplete, CommitComplete, BeginCancel, CommitCancel, SellOne, NewDay, history
  <2>2. shared => shared'
    BY <1>1, CountSteps DEF DeviceStep, OpenSession, BeginCreate, Type, SaveLine, CommitCreate, FinishCount,
       FinishLine, BeginComplete, CommitComplete, BeginCancel, CommitCancel, SellOne, NewDay, history
  <2>3. ASSUME ~shared' PROVE Alone' /\ CountedRight' /\ PagesRight' /\ RowsRight'
    <3>1. CountTyped /\ Working /\ Apart /\ Alone /\ CountedRight /\ PagesRight /\ RowsRight
      BY <2>2, <2>3 DEF CountInv
    <3>2. Alone'
      BY <1>1, <2>3, <3>1, StepAlone
    <3> QED
      BY <1>1, <2>1, <2>3, <3>1, <3>2, StepCountedRight, StepPagesRight, StepRowsRight
  <2>4. ASSUME ~midnight' PROVE Numbered' /\ OneEach'
    <3>1. CountTyped /\ Working /\ Apart /\ Numbered /\ OneEach
      BY <2>a, <2>4 DEF CountInv
    <3> QED
      BY <1>1, <2>4, <3>1, StepCodes
  <2> QED
    BY <2>1, <2>3, <2>4 DEF CountInv
<1>2. CASE UNCHANGED countVars
  <2>1. CountTyped'
    <3>1. \A j : JobTyped(j)' <=> JobTyped(j)
      BY <1>2 DEF countVars, server, JobTyped
    <3> QED
      BY <1>2, <3>1 DEF CountInv, CountTyped, countVars, server, screen, history
  <2>2. Working' /\ Apart' /\ (~midnight' => Numbered' /\ OneEach')
    BY <1>2 DEF CountInv, Working, Apart, Numbered, OneEach, CodesUsed, countVars, server, screen, history
  <2>3. ~shared' => Alone' /\ CountedRight'
    BY <1>2 DEF CountInv, Alone, CountedRight, Calm, Alive, Creating, Drafts, Lies, countVars, server, screen, history
  <2>4. ~shared' => PagesRight'
    BY <1>2 DEF CountInv, PagesRight, Shows, Calm, Alive, Creating, Drafts, Lies, countVars, server, screen, history
  <2>5. ~shared' => RowsRight'
    BY <1>2 DEF CountInv, RowsRight, Drafts, countVars, server, history
  <2> QED
    BY <2>1, <2>2, <2>3, <2>4, <2>5 DEF CountInv
<1> QED
  BY <1>1, <1>2

(* What a count leaves counted: see CountInv.                              *)
THEOREM CountInvariant == CountSpec => []CountInv
BY InitCountInv, StepCountInv, PTL DEF CountSpec

(* A store has one open count at a time, for any number of stores,         *)
(* sessions and devices, unless the date changed while one was created.    *)
THEOREM CountsAreOneEach == CountSpec => []OneDraftPerStore
<1>1. CountInv => OneDraftPerStore
  <2> SUFFICES ASSUME CountInv, ~midnight, NEW x \in Branches PROVE Cardinality(Drafts(x)) <= 1
    BY DEF OneDraftPerStore
  <2>1. \A s, t \in Drafts(x) : s = t
    BY DEF CountInv, OneEach, Drafts
  <2>2. CASE Drafts(x) = {}
    BY <2>2, FS_EmptySet
  <2>3. CASE \E s : s \in Drafts(x)
    <3>1. PICK s : Drafts(x) = {s}
      BY <2>1, <2>3
    <3>2. Cardinality({s}) = 1
      BY FS_Singleton
    <3> QED
      BY <3>1, <3>2
  <2> QED
    BY <2>2, <2>3
<1> QED
  BY <1>1, CountInvariant, PTL

(* Completing a count leaves every line somebody counted at what lies on   *)
(* the shelf, if no other device had the count and nothing was sold at its *)
(* store meanwhile.                                                        *)
THEOREM CountsSettle == CountSpec => CountSettles
<1>1. ASSUME CountInv, CountNext, NEW s \in Sessions, state[s] = "DRAFT", state'[s] = "COMPLETED",
             ~soldDuring[s], ~shared, NEW p \in byHand[s]
      PROVE  onHand'[<<place[s], p>>] = goods[<<place[s], p>>]
  <2>0. CountTyped /\ Working /\ Apart /\ Alone /\ PagesRight /\ RowsRight
    BY <1>1 DEF CountInv
  <2>1. PICK d \in Devices : DeviceStep(d)
    BY <1>1, CountSteps DEF SellOne, NewDay, server
  <2>2. CommitComplete(d) /\ page[d] = s
    <3>1. \/ UNCHANGED <<state, place, system>>
          \/ state' = [state EXCEPT ![job[d].session] = "DRAFT"]
          \/ page[d] \in Sessions /\ state' = [state EXCEPT ![page[d]] = IF CommitComplete(d) THEN "COMPLETED" ELSE "CANCELLED"]
      BY <2>0, <2>1, SessionMoves
    <3>2. page[d] \in Sessions /\ state' = [state EXCEPT ![page[d]] = IF CommitComplete(d) THEN "COMPLETED" ELSE "CANCELLED"]
      BY <1>1, <2>0, <3>1 DEF CountTyped
    <3> QED
      BY <1>1, <2>0, <3>2 DEF CountTyped
  <2>3. p \in active /\ p \in Stocked /\ place[s] \in Branches
    BY <1>1, <2>0 DEF CountTyped
  <2>4. s \in Drafts(place[s]) /\ Calm(place[s])
    BY <1>1 DEF Drafts, Calm, Alive
  <2>5. Shows(d, p)
    BY <2>0, <2>2, <2>3, <2>4, StockCountAssumption DEF PagesRight
  <2>6. job[d].lines[p] = Lies(s, p) /\ job[d].session = s
    BY <1>1, <2>0, <2>2, <2>5, StockCountAssumption DEF Shows, CommitComplete, Working
  <2>7. onHand[<<place[s], p>>] \in {system[s][p], goods[<<place[s], p>>]}
    BY <1>1, <2>0, <2>3, <2>4 DEF RowsRight
  <2>8. onHand'[<<place[s], p>>] = IF job[d].lines[p] # system[s][p] THEN job[d].lines[p] ELSE onHand[<<place[s], p>>]
    BY <2>2, <2>3, <2>6 DEF CommitComplete, Recounted
  <2> QED
    BY <2>6, <2>7, <2>8 DEF Lies
<1>2. CountInv /\ [CountNext]_countVars =>
        [\A s \in Sessions :
            state[s] = "DRAFT" /\ state'[s] = "COMPLETED" /\ ~soldDuring[s] /\ ~shared =>
               \A p \in byHand[s] : onHand'[<<place[s], p>>] = goods[<<place[s], p>>]]_countVars
  BY <1>1
<1> QED
  BY <1>2, CountInvariant, PTL DEF CountSpec, CountSettles
===============================================================================
