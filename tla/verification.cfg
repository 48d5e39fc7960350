SPECIFICATION Spec
CONSTANTS
    Items = {i1, i2}
    Keys = {k1, k2}
    KeyMaps <- MCKeyMaps
    PosterOf <- MCPosterOf
    Movies = {m1, m2}
    Official <- MCOfficial
    SeedCaches <- MCSeedCaches
    MaxAttempts = 1
    BatchRecords = 2
    Workers = 2
    MaxCode = 1
    MaxInterruptions = 1
    shared = shared
    NoPoster = NoPoster
    NoMovie = NoMovie
    NoCode = NoCode
    NoState = NoState
SYMMETRY Symmetry
INVARIANTS PassInv PosterProofsHold
PROPERTIES CompletedIsFinal
CHECK_DEADLOCK FALSE
