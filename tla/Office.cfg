CONSTANTS
    Offices = {o1, o2}
    Outlets = {"s1"}
    Categories = {"food", "drinks"}
    Articles = {"tea"}
    Groups = {"size"}
    Options = {"large"}
    Variants = {"iced"}
    PartOf <- MCPartOf
    Amounts = {1, 2, 3}
    Limits = {5}
    MaxSaves = 3
    People = {p1, p2, p3}
    Stations = {"k1"}
    MaxRequests = 3
    Defaults = {"stock"}
    Codes = {"stock", "adjust"}
    Sales = {1}
    Manuals = {2}
    ManualCodes <- MCManualCodes
    Editors = {"e1"}
    PageSize = 1
    MaxAccounts = 3
    MaxPosts = 2
    MaxEdits = 2
    MaxTime = 1
    Events = {1, 2}
    Pushers = {"push1", "push2"}
    BatchLimit = 2
    MaxPushes = 3
    MaxToggles = 1
    Touched = {"staff", "sizes", "extras"}
    MaxCrashes = 2
    MaxRestarts = 2
    Staffers = {"e1"}
    Salaries = {33, 34}
    Schedules <- MCSchedules
    DayUnits = 4
    MonthEnds <- MCMonthEnds
    Statuses = {"PRESENT", "ABSENT"}
    Counted = {"PRESENT"}
    WorkUnits = 5
    Tier = 1
    Ptkp = 100
    Brackets <- MCBrackets
    Months = 12
    MaxEntered = 2
    Jobs = {j1, j2}
SPECIFICATION OfficeSpec
CHECK_DEADLOCK FALSE
SYMMETRY OfficeSymmetry
INVARIANTS NoOrphans CodesHold DeliveredIsHad ServesSeeded OvertimePaidOnce
PROPERTIES OwnPricesKept RanksRespected
