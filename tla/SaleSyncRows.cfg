CONSTANTS
    Sales = {"A", "B", "D"}
    Requests = {"a1", "b1", "d1"}
    Products = {"p", "q"}
    Customers = {"budi"}
    Promos = {"voucher"}
    Shifts = {"pagi", "siang"}
    NoPromo = "no promo"
    NoCustomer = "walk-in"
    CartOf <- MCCartOf
    Qty <- MCQty
    PromoOf <- MCPromoOf
    CustomerOf <- MCCustomerOf
    ShiftOf <- MCShiftOf
    Redeem <- MCRedeem
    Earn <- MCEarn
    SaleOf <- MCSaleOf
    InitStock <- AmpleStock
    UsageLimit <- OneVoucher
    InitPoints <- FewPoints
SPECIFICATION Spec
CHECK_DEADLOCK FALSE
INVARIANTS PromoWithinLimit PointsConserved ChecksStillHold DeadlocksAreOverStock
