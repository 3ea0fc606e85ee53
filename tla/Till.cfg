CONSTANTS
    Skus = {"tea", "cake"}
    TaxBps <- MCTax
    Prices <- MCPrices
    Variants = {"cake"}
    Promos = {"tenth", "off"}
    Promo <- MCPromo
    PointValue = 100
    Previews = {"v1"}
    Points = {0, 12}
    Slots = {l1, l2}
    Guests = {1, 2}
    MaxPieces = 2
    Tips = {0}
    MaxChanges = 1
    Splits = {0, 300}
    Items = {"soup", "juice"}
    Cooks = {"cook"}
    MaxOrders = 2
    MaxQuantity = 1
    MaxTaps = 2
    Parallel = 2
    Switched = {"grill"}
    Cart <- MCCart
    Guest <- MCGuest
    Station <- MCStation
    Assigned <- MCAssigned
    Tills = {t1, t2}
    Spots = {s1}
    InArea = {s1}
    MaxCarts = 2
    MaxItems = 2
    MaxDoings = 4
    MaxCharges = 2
    MaxPolls = 1
    Payables = {10, 12}
    LocalQris = {TRUE, FALSE}
SPECIFICATION StageSpec
CHECK_DEADLOCK FALSE
SYMMETRY TillSymmetry
INVARIANTS SaleAccepted DishesListed ConfirmedIsCovered
PROPERTY TablesKeepItems
