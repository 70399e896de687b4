SPECIFICATION Spec
CONSTANTS
    Requisitions <- OneRequisition
    Rfqs <- OneRfq
    Suppliers <- TwoSuppliers
    Estimate <- TwoLevels
    None = None
    Workers = {r1}
    MaxCalls = 2
    Faults = FALSE
INVARIANTS
    FirstQuoteKept
