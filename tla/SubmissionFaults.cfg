\* Everything may fail around the child: what the lock and the registry
\* promise holds all the same, what is left behind has its reason, and the
\* workspace is given back.
SPECIFICATION FairSpec
CONSTANTS
    Sessions = {s1, s2}
    Dirs <- OneDir
    Below <- OneBelow
    Configs <- OneDir
    Resolve <- OneResolve
    NoPaths = NoPaths
    NoPgid = NoPgid
    IdleTimeout = TRUE
    Faults = {"poll", "wait", "helper", "remove"}
INVARIANTS
    LockExact
    RegistryExact
    LeftoversAccounted
PROPERTIES
    WorkspaceGivenBack
CHECK_DEADLOCK FALSE
