SPECIFICATION FairSpec
CONSTANTS
    Keys = {c1, c2}
    MaxRequests = 4
INVARIANTS
    OneFetchAtATime
PROPERTIES
    PicturesGetNewer
    EveryRequestIsTaken
\* Nobody asks for a picture any more.
CHECK_DEADLOCK FALSE
