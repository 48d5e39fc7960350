SPECIFICATION MCSpec
CONSTANTS
    n1 = n1
    n2 = n2
    Keys = {1, 2}
    Names = {n1, n2}
    Modes = {"apply", "existing"}
    Sheets <- MCOne
    ChunkRows = 1
    BatchRows = 1
    MaxEdits = 1
    MaxDrifts = 1
    MaxFailures = 1
    Absent = Absent
    Blank = Blank
    Review = Review
    Manual = Manual
    NoKey = NoKey
    NoJob = NoJob
    NoRequest = NoRequest
    NoBundle = NoBundle
    Streams = {1, 2}
    Layouts <- MCLayouts
    ApplyLimit = 1
    FallbackLimit = 1
    LargeBatch = 2
    NewLimit = 1
    Cycle = 2
    MaxUpsets = 1
    NoRow = NoRow
PROPERTIES RunSettles RunsRespectEditors RunsDecide BundleIsOwnWork BundleQuarantines
INVARIANTS SheetInv ReviewInv
CHECK_DEADLOCK FALSE
