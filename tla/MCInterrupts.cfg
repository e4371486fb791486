CONSTANTS
    MaxDepth = 3
    MaxSigs = 3
SPECIFICATION Spec
INVARIANTS
    TypeOK
    SuppressintCountsRegions
    PendingOnlyWhileMasked
PROPERTIES
    NoInterruptInRegion
    InterruptDelivered
