SPECIFICATION MCSpec
CONSTANTS
    Proposals <- AllProposals
    Others <- OtherStreams
    Limit = 1
    MaxEdits = 2
    MaxPosts = 2
    NoStream = NoStream
    Scores = {0, 6, 8}
    Minimum = 6
    Strong = 8
    Margin = 2
    MaxCandidates = 2
    Titles = {1, 2}
    Artless = {1, 2}
    TitleLimit = 2
    FirstDelay <- Delays
    LastDelay <- Delays
    MatchedTtl = 1
    MissTtl = 1
    MaxStreak = 0
    MaxUpsets = 1
INVARIANTS LaneInv DecisionsValidate ExactEvidenceNeverDowngrades StopInv
PROPERTIES OnlyApprovedTransitions StaleTargetsRefused TitlesTried
CHECK_DEADLOCK FALSE
