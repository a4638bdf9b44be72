SPECIFICATION FairSpec
CONSTANTS
    PacketsLimit = 2
    MaxPackets = 3
    FramesPerPacket = 1
INVARIANTS
    TypeOK
    PacketsInOrder
    ReaderPutsToOpen
    QuietOnceGone
PROPERTIES
    KeepsPromise
    EndIsReported
\* The destructor ends the behaviour.
CHECK_DEADLOCK FALSE
