CONSTANTS
    Caller = {c1, c2}
    Root = {r1, r2}
    MayWatch = TRUE
    None = None
    MaxVersion = 1
    MaxStdout = 2
    MaxStderr = 1
    PipeSize = 2
    MaxWritten = 4
SPECIFICATION MCSpec
INVARIANTS
    FreshTree
    CachedIsWhole
    NoTruncatedOutput
    ErrorIsHonest
PROPERTIES
    RenderReturns
CHECK_DEADLOCK FALSE
