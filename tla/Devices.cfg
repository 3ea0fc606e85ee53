CONSTANTS
    MaxCharges = 1
    MaxPolls = 1
    Payables = {10}
    LocalQris = {TRUE, FALSE}
    Outlets = {"main", "branch"}
    Dishes = {"soup"}
    Outlet <- MCOutlet
    MaxAsked = 2
    Users = {"u1", "u2"}
    Shops = {"s1", "s2"}
    MaxShifts = 1
    MaxPrices = 1
    MaxActs = 2
    MaxCalls = 2
SPECIFICATION DeviceSpec
CHECK_DEADLOCK FALSE
 
PROPERTIES SettledBecomesPaid BellRings TillLearns
