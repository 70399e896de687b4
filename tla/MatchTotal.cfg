SPECIFICATION Spec
CONSTANTS
    Orders <- OneOrder
    OrderLines <- TwoLines
    Price <- Prices
    Receipts <- TwoReceipts
    Invoices <- OneInvoice
    Deliveries <- BoltDelivery
    Verdicts <- SomeVerdicts
    Bills <- OneBill
    Tolerances <- StatedTolerances
    None = None
    Workers = {r1}
    MaxCalls = 3
    Faults = FALSE
INVARIANTS
    ExactTotal
