CONSTANTS
    None = None
    RefA = RefA
    RefB = RefB
    Ref = {RefA, RefB}
    Input <- MCInputs
    Char <- MCChar
    PathChar <- MCPathChar
    Opened <- MCOpened
    Typed <- MCTyped
    MaxLength = 2
    MaxChanges = 2
    MaxSent = 1
    FileLimit = 2
    DocLimit = 2
    Depth = 2
    StepDepth = 2
    Hops = 2
    MaxAliasDepth = 4
SPECIFICATION MCSpec
INVARIANTS
    SameAsSequential
    SuppressedAsDirected
    ServerHasEditorsText
    ServersPositionsAgree
    GlobsMatchSegments
    TemplatesMeanWhatTheySay
    SchemasAreMerged
    ErrorsAreLocated
    PointersRoundTrip
    InfersOpenMapping
