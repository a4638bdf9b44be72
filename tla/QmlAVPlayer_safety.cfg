SPECIFICATION Spec
CONSTANTS
    NoUrl = NoUrl
    Urls = {u1, u2}
    BlankUrls = {u2}
    InfiniteLoops = TRUE
    MaxSessions = 2
    FrameLimit = 1
INVARIANTS
    OneStream
    DetachedIsQuiet
    PlayingQueueIsCurrent
\* ~QmlAVPlayer ends the behaviour.
CHECK_DEADLOCK FALSE
