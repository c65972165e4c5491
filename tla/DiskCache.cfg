CONSTANTS
    Loader = {l1, l2}
    None = None
    MaxVersion = 3
SPECIFICATION Spec
SYMMETRY Symmetry
INVARIANTS
    FilesFit
