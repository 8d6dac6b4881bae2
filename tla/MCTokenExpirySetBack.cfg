CONSTANTS
    MaxTime <- MCMaxTime
    Lifetimes <- MCLifetimes
    ClockSetBack = TRUE
SPECIFICATION Spec
PROPERTIES
    SyncNonIncreasing
