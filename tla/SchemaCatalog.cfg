CONSTANTS
    Url = {default, custom}
    Unset = unset
    Default = default
    Catalog = {k1, k2}
    Fetcher = {f1, f2}
    Doc = {d1, d2}
    None = None
SPECIFICATION Spec
INVARIANTS
    EntriesReadOnly
    NewCatalogRevisits
PROPERTIES
    WaitReturns
