CONSTANTS
    Sales = {"A", "B"}
    Flushers = {"f1", "f2"}
    Nobody = "nobody"
    Partial = {}
    BatchSize = 2
    MaxEdits = 0
    MaxLate = 1
    MaxCrashes = 1
    Products = {"p"}
    Customers = {}
    Promos = {}
    Shifts = {"pagi"}
    NoPromo = "no promo"
    NoCustomer = "walk-in"
    CartOf <- MCCartOf
    Qty <- MCQty
    PromoOf <- MCPromoOf
    CustomerOf <- MCCustomerOf
    ShiftOf <- MCShiftOf
    Redeem <- MCNoPoints
    Earn <- MCNoPoints
    InitStock <- LastPiece
    UsageLimit <- MCNone
    InitPoints <- MCNone
SPECIFICATION Spec
CHECK_DEADLOCK FALSE
INVARIANTS SyncedMeansSold PendingIsQueued
