\* No idle timeout: only the exit of the command, a failure or the client
\* end a call.
SPECIFICATION FairSpec
CONSTANTS
    UsePty = FALSE
    IdleTimeout = FALSE
    Behaviours <- OutputKeptOpen
    PipeSize = 1
PROPERTIES
    CancelEnds
    ExitEnds
CHECK_DEADLOCK FALSE
