SPECIFICATION Spec
CONSTANTS
    SalesOrders <- OverlapSales
    ProductionOrders = {}
    Movements = {}
    Items <- WaitsItems
    Warehouses <- BooksWarehouses
    Default = Default
    Lines <- LessLines
    MovementOf <- NoMovements
    InitPresent <- OneBoltPresent
    InitLevel <- LessLevel
    Workers = {r1}
    PoolSize = 2
    MaxCalls = 4
    Faults = FALSE
INVARIANTS
    NothingLeftReserved
