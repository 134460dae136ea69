\* Seven set-ups of the three programs, and all that can fail.
SPECIFICATION FairSpec
CONSTANTS
    Setups <- AllSetups
    Faults = {"argp", "device", "event", "thread", "launch", "update", "wait", "destroy", "stop"}
INVARIANTS
    TypeOK
    LaunchDiscipline
    ObjectsReleased
    StrandedOnlyByFailure
    ReportIsTrue
PROPERTIES
    EveryProgramEnds
CHECK_DEADLOCK FALSE
