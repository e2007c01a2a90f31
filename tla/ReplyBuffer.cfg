CONSTANTS
    Events = 3
    Sessions <- AllSessions
    MaxBatch = 2
SPECIFICATION Spec
CHECK_DEADLOCK FALSE
INVARIANT
    PlainNothingStranded
    OneOwner
    ReplacedIsSilent
    RecoverableWasNotSent
    AnsweredAtMostOnce
    InOrder
