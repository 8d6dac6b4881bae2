CONSTANTS
    MaxTime <- MCMaxTime
    Lifetimes <- MCLifetimes
    ClockSetBack = FALSE
SPECIFICATION Spec
INVARIANTS
    TypeOK
    SyncedNotOptimistic
