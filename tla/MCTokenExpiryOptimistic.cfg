CONSTANTS
    MaxTime <- MCMaxTime
    Lifetimes <- MCLifetimes
    ClockSetBack = TRUE
SPECIFICATION Spec
INVARIANTS
    SyncedNotOptimistic
