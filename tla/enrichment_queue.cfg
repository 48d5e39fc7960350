SPECIFICATION MCSpec
CONSTANTS
    i1 = i1
    i2 = i2
    c1 = c1
    c2 = c2
    shared = shared
    Items = {i1, i2}
    Contents = {c1, c2}
    FirstItems <- MCFirstItems
    PosterOf <- MCPosterOf
    Movies = {m1, m2}
    Official <- MCOfficial
    BatchRecords = 2
    Workers = 2
    RetryDelays <- MCDelays
    DoneDelays <- MCDelays
    MaxTime = 2
    MaxSource = 2
    MaxPolicy = 1
    MaxChanges = 1
    NoPoster = NoPoster
    NoContent = NoContent
    NoTime = NoTime
    NoState = NoState
    NoMovie = NoMovie
SYMMETRY Symmetry
INVARIANTS QueueInv IdleIsJustified PosterProofsHold
PROPERTIES ProgressIsKept
CHECK_DEADLOCK FALSE
