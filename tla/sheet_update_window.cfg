SPECIFICATION Spec
CONSTANTS
    n1 = n1
    n2 = n2
    Keys = {1, 2}
    Names = {n1, n2}
    Modes = {"apply"}
    Sheets <- MCTwo
    ChunkRows = 1
    BatchRows = 1
    MaxEdits = 1
    MaxDrifts = 0
    MaxFailures = 0
    Absent = Absent
    Blank = Blank
    Review = Review
    Manual = Manual
    NoKey = NoKey
    NoJob = NoJob
    NoRequest = NoRequest
    NoBundle = NoBundle
PROPERTY OnlyReviewRowsUpdated
CHECK_DEADLOCK FALSE
