SPECIFICATION Spec
CONSTANTS
    Threads = {t1, t2}
    Ids = {i1, i2}
    Handles = {h1, h2}
    None = None
    MaxSegments = 2
INVARIANTS
    DestroyedLeavesNoSearch
CHECK_DEADLOCK FALSE
