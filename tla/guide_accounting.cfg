SPECIFICATION MCSpec
CONSTANTS
    l1 = l1
    l2 = l2
    v1 = v1
    v2 = v2
    Runs <- MCRuns
    RunComp <- MCRunComp
    MaxAttempts = 2
    MaxUploads = 3
    Window = 2
    WindowCovers = TRUE
    Streams = {1, 2}
    MinimumCoverage = 50
    NoLine = NoLine
    Absent = Absent
    Inputs <- MCInputs
    Candidates <- MCCandidates
SYMMETRY Symmetry
INVARIANT AccountingHolds
CHECK_DEADLOCK FALSE
