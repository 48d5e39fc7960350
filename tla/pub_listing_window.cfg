SPECIFICATION Spec
CONSTANTS
    l1 = l1
    l2 = l2
    v1 = v1
    v2 = v2
    Runs <- MCRuns
    RunComp <- MCRunComp
    MaxAttempts = 2
    MaxUploads = 4
    Window = 2
    WindowCovers = FALSE
SYMMETRY Symmetry
PROPERTIES RetryCannotRollBack
CHECK_DEADLOCK FALSE
