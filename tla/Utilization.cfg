\* A submission and two updates, on a workspace with two names.
SPECIFICATION FairSpec
CONSTANTS
    a = a
    b = b
    Tasks = {t1}
    Workspaces = {a}
    Names = {"a", "./a"}
    Dir <- DirOfName
    Key <- KeyOfWorkspace
    Updates = {u1, u2}
    Values = {v1, v2}
    Initial = {v1, NoValue}
    Faults = {"hint", "file"}
    NoTask = NoTask
    NoValue = NoValue
INVARIANTS
    TypeOK
    AcknowledgedHolds
PROPERTIES
    UpdateReachesCommand
CHECK_DEADLOCK FALSE
