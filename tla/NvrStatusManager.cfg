SPECIFICATION StatusFairSpec
CONSTANTS
    Recorders = {r1, r2}
    Kinds = {k1}
    MaxChanges = 3
INVARIANTS
    ShownIsFiltered
PROPERTIES
    CatchesUp
\* Monitoring is off, or nobody changes anything any more.
CHECK_DEADLOCK FALSE
