CONSTANTS
    Actors = {a1, a2}
    Shifts = {"pagi", "sore"}
    Cashiers = {"ani", "budi"}
    Sales = {"s1", "s2"}
    Products = {"beans", "coffee"}
    Amounts = {1}
    CashierOf <- MCCashierOf
    Float <- Empty
    ShiftOf <- MCShiftOf
    Cash <- MCCash
    Card <- MCCard
    Gross <- MCGross
    Lines <- MCLines
    Consumed <- Packed
    InitStock <- MCInitStock
SPECIFICATION BooksSpec
CHECK_DEADLOCK FALSE
SYMMETRY ActorSymmetry
INVARIANTS OneOpenShift CashCounted CorrectionsInTurn BooksInTurn
