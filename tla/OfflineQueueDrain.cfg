CONSTANTS
    Sales = {"A", "C"}
    Flushers = {"f1"}
    Nobody = "nobody"
    Partial = {"A"}
    BatchSize = 2
    MaxEdits = 1
    MaxLate = 1
    MaxCrashes = 1
    Products = {"p"}
    Customers = {}
    Promos = {}
    Shifts = {"pagi"}
    NoPromo = "no promo"
    NoCustomer = "walk-in"
    CartOf <- MCCartOf
    Qty <- MCQty
    PromoOf <- MCPromoOf
    CustomerOf <- MCCustomerOf
    ShiftOf <- MCShiftOf
    Redeem <- MCNoPoints
    Earn <- MCNoPoints
    InitStock <- Enough
    UsageLimit <- MCNone
    InitPoints <- MCNone
SPECIFICATION FairSpec
CHECK_DEADLOCK FALSE
INVARIANT NewestSnapshotQueued
PROPERTY OthersAreSettled
