CONSTANTS
    Folder = {f1, f2}
    p = p
    c1 = c1
    c2 = c2
    Path = {p}
    c3 = c3
    Command = {c1, c2, c3}
    Kind = {"HelmRelease", "Other"}
    FluxKind = {"HelmRelease"}
    Matches <- MatchesOf
    Disabled = {c3}
    FileSettings <- InFiles
    ClientSettings <- FromClient
    Malformed = Malformed
    None = None
SPECIFICATION Spec
SYMMETRY Symmetry
INVARIANTS
    RenderersInForce
    CacheOfApplied
PROPERTIES
    TypoKeepsSettings
