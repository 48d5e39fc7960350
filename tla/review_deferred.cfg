SPECIFICATION QueueSpec
CONSTANTS
    Streams = {1, 2}
    Layouts <- MCLayouts
    ApplyLimit = 1
    FallbackLimit = 1
    LargeBatch = 2
    NewLimit = 1
    Cycle = 2
    MaxUpsets = 1
    NoRow = NoRow
INVARIANT DeferredResumes
CHECK_DEADLOCK FALSE
