\* Two processes of each program, started up to twice.
SPECIFICATION FairSpec
CONSTANTS
    Procs = {fg, bg}
    Setups <- AllSetups
    Faults = {"abort", "open", "kill", "stop"}
    FileContents <- Contents
    Unreadable = Unreadable
INVARIANTS
    TypeOK
    WindowsInStep
    ReportIsTrue
PROPERTIES
    EveryLoopEnds
CHECK_DEADLOCK FALSE
