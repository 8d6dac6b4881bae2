CONSTANTS
    MaxTime <- MCMaxTime
    Lifetimes <- MCLifetimes
    ClockSetBack = FALSE
SPECIFICATION Spec
PROPERTIES
    SyncIdempotent
