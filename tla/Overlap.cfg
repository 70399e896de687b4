SPECIFICATION Spec
CONSTANTS
    SalesOrders <- OverlapSales
    ProductionOrders <- OverlapProduction
    Movements <- OverlapMovements
    Items <- OverlapItems
    Warehouses <- OverlapWarehouses
    Default = Default
    Lines <- OverlapLines
    MovementOf <- OverlapMovementOf
    InitPresent <- OverlapPresent
    InitLevel <- OverlapLevel
    Workers = {r1, r2}
    PoolSize = 4
    MaxCalls = 4
    Faults = TRUE
SYMMETRY AnyOrder
INVARIANTS
    TypeOK
PROPERTIES
    ImplementsSaga
