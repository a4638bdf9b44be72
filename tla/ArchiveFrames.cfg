SPECIFICATION FairSpec
CONSTANTS
    Buffers = {b1, b2, b3}
    MaxTasks = 2
    Limit = 2
    MaxSessions = 1
    None = None
INVARIANTS
    BackpressureHolds
    BufferHasOneUser
    TasksEndFirst
PROPERTIES
    DestructorEnds
\* The player is destroyed: the program may stop.
CHECK_DEADLOCK FALSE
