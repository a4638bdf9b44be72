SPECIFICATION FairSpec
CONSTANTS
    Threads = {t1, t2}
    Ids = {i1, i2}
    Handles = {h1, h2}
    None = None
    MaxSegments = 3
INVARIANTS
    TypeOK
    NothingLeaks
    OneTrueAnswer
PROPERTIES
    DownloadEnds
    CloseEnds
\* The dialog is closed, or nobody starts another download.
CHECK_DEADLOCK FALSE
