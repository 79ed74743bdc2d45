\* Frames that pass the node first, and a number that wraps
CONSTANTS
    SeqMod = 4
    HalfRange = 1
    JitterCapacity = 2
    ViaNode = TRUE
    MaxSpoken = 5
    MaxVoiceEpoch = 1
    \* Lengths of two bits
    Base = 2
    PrefixLen = 2
    MaxFrame = 2
    MaxBlobs = 2
    Blobs <- SmallBlobs
SPECIFICATION MCSpec
INVARIANTS
    BlobsIntact
    FreshIsNew
PROPERTIES
    TransitionEnds
    GroupConverges
    SuccessorEmerges
    EveryMessageArrives
    ReaderGoesOn
    EveryoneEnds
    CallsReturn
\* Programs end, elections settle and the bounds are reached.
CHECK_DEADLOCK FALSE
