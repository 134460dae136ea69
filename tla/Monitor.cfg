\* Every behaviour of the command, an idle timeout, a pipe of two chunks.
SPECIFICATION FairSpec
CONSTANTS
    UsePty = TRUE
    IdleTimeout = TRUE
    Behaviours <- AllBehaviours
    PipeSize = 2
INVARIANTS
    TypeOK
    CancelledMeansKilled
    StatusTruthful
    OutputComplete
    SignalsOwnGroup
PROPERTIES
    ImplementsMonitoring
    TimeoutEnds
CHECK_DEADLOCK FALSE
