SPECIFICATION Spec
CONSTANTS
    SalesOrders <- BooksSales
    ProductionOrders <- BooksProduction
    Movements <- BooksMovements
    Items <- BooksItems
    Warehouses <- BooksWarehouses
    Default = Default
    Lines <- BooksLines
    MovementOf <- BooksMovementOf
    InitPresent <- BooksPresent
    InitLevel <- BooksLevel
    Workers = {r1}
    PoolSize = 3
    MaxCalls = 6
    Faults = TRUE
INVARIANTS
    StockMatchesMovements
    EffectsExactlyOnce
    ReservedMatchesOrders
PROPERTIES
    ImplementsLedger
