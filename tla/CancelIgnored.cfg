\* The command has closed its output when the client cancels.
SPECIFICATION FairSpec
CONSTANTS
    UsePty = FALSE
    IdleTimeout = FALSE
    Behaviours = {"closes_output"}
    PipeSize = 1
PROPERTIES
    CancelEnds
CHECK_DEADLOCK FALSE
