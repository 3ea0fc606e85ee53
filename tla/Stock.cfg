CONSTANTS
    Stores = {"main", "branch"}
    Products = {"p", "q"}
    Catalog = "catalog"
    NoRow = NoRow
    Transfers = {"both", "one", "back"}
    Requests = {"new", "ship", "ship2", "get", "get2", "undo", "send", "swap", "sale", "sale2", "add", "set"}
    From <- MCFrom
    To <- MCTo
    Cargo <- MCCargo
    Kind <- MCKind
    About <- MCAbout
    Amount <- MCAmount
    Stock <- MCStock
    Scenes <- MCScenes
    Parallel = 3
    Branches = {"main"}
    Stocked = {"p", "q"}
    Sessions = {s1, s2}
    Devices = {office, tablet}
    Goods <- MCGoods
    Booked <- MCBooked
    Cases <- MCCases
    MaxDay = 2
    Ingredients = {"beans", "milk"}
    Savers = {"o1", "o2", "o3"}
    Forms <- MCForms
    Orders = {"one"}
    Portions <- MCPortions
SPECIFICATION StockSpec
CHECK_DEADLOCK FALSE
INVARIANT RecipesStand
PROPERTIES BookRefined CountSettles
SYMMETRY DeviceSymmetry
