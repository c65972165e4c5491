CONSTANTS
    Caller = {c1, c2, c3}
    a = a
    b = b
    x = x
    Doc = {a, b, x}
    Key = {a, b}
    Refs <- TwoRefs
    TrustSet <- Trusts
    None = None
    MaxGen = 2
SPECIFICATION Spec
INVARIANTS
    TypeOK
    CachedIsTrusted
    RefusedIsUntrusted
    JoinedIsTrusted
    SingleFlight
PROPERTIES
    EveryGetReturns
CHECK_DEADLOCK FALSE
