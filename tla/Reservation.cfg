\* The three clients, four files through a stream of two requests, and all
\* that can fail.
SPECIFICATION FairReservationSpec
CONSTANTS
    NumFiles = 4
    Chunks <- FourFiles
    Full = {1, 4}
    Window = 2
    Faults = {"open", "read", "cancel", "server", "flush", "outlive"}
    Programs = {"integrated_client", "remote_client", "resource_client"}
    MaxRetry = 1
    CallFaults = {"options", "directory", "apply", "noid", "query", "release", "hint", "pool", "signal"}
INVARIANTS
    ReservationTypeOK
    RunsOnWhatWasSent
    OkMeansEveryChunk
    DiskIsPrefix
    RunsUnderReservation
    ReservationReturned
    
PROPERTIES
    EveryClientEnds
CHECK_DEADLOCK FALSE
