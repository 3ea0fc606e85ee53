CONSTANTS
    Orders = {"PO1", "PO2"}
    Lines = {"rice", "oil", "soap"}
    Stores = {"main", "branch"}
    Products = {"p", "q"}
    Requests = {"n1", "n2", "confirm", "r1", "r2", "r3", "cancel"}
    OrderOf <- MCOrderOf
    ProductOf <- MCProductOf
    Ordered <- MCOrdered
    Kind <- MCKind
    About <- MCAbout
    StoreAt <- MCStoreAt
    Parcel <- MCParcel
    InitRows <- MCInitRows
    InitCatalog <- MCInitCatalog
    Parallel = 2
    MaxDay = 2
SPECIFICATION Spec
CHECK_DEADLOCK FALSE
INVARIANTS NeverOverReceived ReceiptsAddUp
PROPERTY ReceiptTellsStatus
