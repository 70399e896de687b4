SPECIFICATION Spec
CONSTANTS
    SalesOrders <- OverlapSales
    ProductionOrders = {}
    Movements = {}
    Items <- WaitsItems
    Warehouses <- BooksWarehouses
    Default = Default
    Lines <- OneBoltLines
    MovementOf <- NoMovements
    InitPresent <- OneBoltPresent
    InitLevel <- OneBoltLevel
    Workers = {r1}
    PoolSize = 2
    MaxCalls = 2
    Faults = TRUE
INVARIANTS
    CancelReleases
