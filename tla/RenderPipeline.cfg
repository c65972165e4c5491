CONSTANTS
    Uri = {u1, u2}
    Text = {t1, t2}
    Renderer = {r1}
    Job = {j1, j2, j3}
    None = None
    MaxEpoch = 2
SPECIFICATION Safe
SYMMETRY Symmetry
INVARIANTS
    TypeOK
    NoOrphanTimer
    CacheSinceInvalidation
PROPERTIES
    ImplementsRequests
