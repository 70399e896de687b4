SPECIFICATION FairSpec
CONSTANTS
    SalesOrders <- OverlapSales
    ProductionOrders = {}
    Movements <- WaitsMovements
    Items <- WaitsItems
    Warehouses <- OverlapWarehouses
    Default = Default
    Lines <- WaitsLines
    MovementOf <- WaitsMovementOf
    InitPresent <- WaitsPresent
    InitLevel <- WaitsLevel
    Workers = {r1, r2}
    PoolSize = 2
    MaxCalls = 3
    Faults = TRUE
PROPERTIES
    EveryRequestEnds
