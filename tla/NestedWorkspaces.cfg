\* One workspace_subdir inside another: the lock does not see it.
SPECIFICATION Spec
CONSTANTS
    Sessions = {s1, s2}
    Dirs <- NestedDirs
    Below <- NestedBelow
    Configs <- NestedConfigs
    Resolve <- NestedResolve
    NoPaths = NoPaths
    NoPgid = NoPgid
    IdleTimeout = FALSE
    Faults = {}
INVARIANT PrivateSubtree
CHECK_DEADLOCK FALSE
