CONSTANTS
    Sales = {"A", "B", "C"}
    Requests = {"a1", "a2", "b1", "c1"}
    Products = {"p", "q"}
    Customers = {"budi"}
    Promos = {"voucher"}
    Shifts = {"pagi", "siang"}
    NoPromo = "no promo"
    NoCustomer = "walk-in"
    CartOf <- MCCartOf
    Qty <- MCQty
    PromoOf <- NoPromoOf
    CustomerOf <- NoCustomerOf
    ShiftOf <- MCShiftOf
    Redeem <- MCRedeem
    Earn <- MCEarn
    SaleOf <- MCSaleOf
    InitStock <- ShortStock
    UsageLimit <- OneVoucher
    InitPoints <- FewPoints
SPECIFICATION Spec
CHECK_DEADLOCK FALSE
INVARIANTS StockConserved CountsAgree OneSalePerCart AnsweredMeansSold
PROPERTY LedgerRefined
