CONSTANTS
    Events = 2
    Sessions <- PrivateSupplements
    MaxBatch = 2
SPECIFICATION Spec
CHECK_DEADLOCK FALSE
INVARIANT
    NothingStranded
