SPECIFICATION Spec
CONSTANTS
    Orders <- OneOrder
    OrderLines <- TwoLines
    Price <- Prices
    Receipts <- TwoReceipts
    Invoices <- OneInvoice
    Deliveries <- SomeDeliveries
    Verdicts <- SomeVerdicts
    Bills <- SomeBills
    Tolerances <- SomeTolerances
    None = None
    Workers = {r1, r2}
    MaxCalls = 5
    Faults = TRUE
SYMMETRY AnyOrder
INVARIANTS
    TypeOK
    ApprovalEarned
    MatchedDelivered
    InspectedSettled
PROPERTIES
    VerdictStays
