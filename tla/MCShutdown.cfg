CONSTANTS
    Calls <- MCCalls
    Omnijs <- MCOmnijs
    Mutating <- MCMutating
    Tools <- MCTools
    Script <- MCScript
    PoolSize = 1
    QueueCap = 2
    MaxSpawns <- MCMaxSpawns
SPECIFICATION Spec
\* the process has exited
CHECK_DEADLOCK FALSE
INVARIANTS
    NoOrphan
    AcceptedWorkDrained
PROPERTIES
    ShutdownEnds
