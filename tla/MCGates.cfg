CONSTANTS
    Calls <- MCCalls
    Omnijs <- MCOmnijs
    Mutating <- MCMutating
    PoolSize = 2
    QueueCap = 3
SPECIFICATION GatesSpec
INVARIANTS
    GatesTypeOK
    CountersTrue
    NoLostWakeup
PROPERTIES
    RefusedOnlyWhenFull
    ReadsAreServedOldestFirst
    WritesAreServedOldestFirst
    EveryCallReturns
\* every call may have been answered: the model then stops
CHECK_DEADLOCK FALSE
