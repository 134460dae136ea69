\* Two concurrent calls on workspaces that do not overlap.
SPECIFICATION Spec
CONSTANTS
    Sessions = {s1, s2}
    Dirs <- FlatDirs
    Below <- FlatBelow
    Configs <- FlatConfigs
    Resolve <- FlatResolve
    NoPaths = NoPaths
    NoPgid = NoPgid
    IdleTimeout = TRUE
    Faults = {}
SYMMETRY SessionSymmetry
INVARIANTS
    TypeOK
    PrivateSubtree
    UploadIntact
CHECK_DEADLOCK FALSE
PROPERTIES
    ImplementsOwnership
