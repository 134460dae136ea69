\* One of the files cannot be opened.
SPECIFICATION Spec
CONSTANTS
    NumFiles = 2
    Chunks <- TwoFiles
    Full = {}
    Window = 1
    Faults = {"open"}
INVARIANT RunsOnWholeUpload
CHECK_DEADLOCK FALSE
