SPECIFICATION Spec
CONSTANTS
    Requisitions <- BothKinds
    Rfqs <- OneRfq
    Suppliers <- TwoSuppliers
    Estimate <- TwoAndNone
    None = None
    Workers = {r1, r2}
    MaxCalls = 5
    Faults = TRUE
SYMMETRY AnyOrder
INVARIANTS
    TypeOK
    EveryLevelSigned
    AwardAnswered
    NumbersConsecutive
    OneOrder
