CONSTANTS
    Member = {1, 2}
    StreamType = {"Control", "Text"}
    Sender = {1}
    Restarting = {1, 2}
    MaxSeq = 2
    MaxEpoch = 2
    MaxLife = 1

    User = {1, 2, 3}
    Writer = {1}
    GtpSeenCap = 1
    HistoryCap = 3
    MaxMid = 2
    MaxResend = 0
    MaxTextEpoch <- MCMaxTextEpoch
    MaxCrash <- MCMaxCrash
    MaxShown = 2

    SeqMod = 8
    HalfRange = 3
    JitterCapacity = 2
    ViaNode = FALSE
    MaxSpoken = 3
    MaxVoiceEpoch = 2

    Signaller = {1, 2}
    Observer = {3}
    RequestIds <- MCRequestIds
    Kinds = {"Join", "Leave", "Mute"}
    Targets = {1}
    GspSeenCap = 1
    MaxSignals <- MCMaxSignals
    MaxSignalEpoch = 2

    RustThread = {1, 2}
    Leaf = {1}
    FfiThread = {1}
    MaxCtr = 2
    EpochMod = 2
    Tolerance = 1
    MaxSessions = 2
    MaxCells = 2
    MaxWire = 4
    MaxMlsEpoch = 3
SPECIFICATION MCSpec
INVARIANTS
    InOrderOnce
    ResumesAbove
    ShownAgainOnlyAfterEviction
    NothingLost
    WatermarkIsHonest
    AcceptedOnce
    PlayedInOrder
    ViewIsAppliedRequests
    CounterUsedOnce
    WindowIsOpened
\* The bounds end every behaviour.
CHECK_DEADLOCK FALSE
