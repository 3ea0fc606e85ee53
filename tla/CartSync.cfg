CONSTANTS
    Requests = {"x1", "x2", "x3", "y1", "y2"}
    Carts = {"X", "Y"}
    Tables = {1, 2}
    NoTable = 0
    KeepTable = 9
    CartOf <- MCCartOf
    TableOf <- MCTableOf
    StatusOf <- MCStatusOf
    Stamp <- MCStamp
    Parallel = 3
    MaxTime = 2
SPECIFICATION Spec
CHECK_DEADLOCK FALSE
INVARIANTS TablesInTurn DeadlocksNeedTwoTables
