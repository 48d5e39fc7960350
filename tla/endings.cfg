SPECIFICATION MCSpec
CONSTANTS
    Workers = {w1, w2}
    Gap = 2
    Pauses <- MCPauses
    BatchTime = 4
    MaxTime = 6
    MaxWire = 2
    i1 = i1
    i2 = i2
    k1 = k1
    k2 = k2
    m1 = m1
    m2 = m2
    shared = shared
    NoPoster = NoPoster
    NoMovie = NoMovie
    NoCode = NoCode
    NoState = NoState
INVARIANTS DurableInv DurableCountCoversWire
PROPERTIES PermitsArePaced SavedNeverGoesBack ChainEnds
CHECK_DEADLOCK FALSE
