CONSTANTS
    None = None
    RefA = RefA
    RefB = RefB
    Ref = {RefA, RefB}
    Input <- ItemInputs
    FileLimit = 1
    DocLimit = 1
SPECIFICATION Spec
INVARIANTS
    ScalarsAreText
CHECK_DEADLOCK FALSE
