SPECIFICATION PlayerQmlSpec
CONSTANTS
    NoUrl = NoUrl
    Urls = {u1}
    BlankUrls = {}
    InfiniteLoops = TRUE
    MaxSessions = 2
    FrameLimit = 0
PROPERTIES
    EndIsReported
    LoadingResolves
\* ~QmlAVPlayer ends the behaviour.
CHECK_DEADLOCK FALSE
