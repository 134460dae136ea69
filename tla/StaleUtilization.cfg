\* One update for a workspace without a command.
SPECIFICATION Spec
CONSTANTS
    a = a
    b = b
    Tasks = {t1}
    Workspaces = {a}
    Names = {"a"}
    Dir <- DirOfName
    Key <- KeyOfWorkspace
    Updates = {u1}
    Values = {v1}
    Initial = {NoValue}
    Faults = {}
    NoTask = NoTask
    NoValue = NoValue
INVARIANT FreshWorkspace
CHECK_DEADLOCK FALSE
