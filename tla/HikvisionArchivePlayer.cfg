SPECIFICATION FairSpec
CONSTANTS
    Players = {p1, p2}
    Ips = {nvr}
    Ids = {i1, i2}
    Handles = {h1, h2}
    Ports = {o1}
    PtzWorker = ptz
    None = None
    MaxReferences = 4
    MaxRequests = 2
    MaxRefusals = 1
INVARIANTS
    StreamHasOneHolder
    DataGoesToOwnDecoder
    PortMapIsCurrent
PROPERTIES
    DestructorEnds
\* Players destroyed, nothing playing: the program may stop.
CHECK_DEADLOCK FALSE
