CONSTANTS
    Member = {1, 2, 3}
    StreamType = {"Control"}
    Originator = {1}
    Founder = {1, 2}
    Rebuilt = {2}
    MaxTid = 4
    MaxCommit = 3
    OriginatorFrames = 4
    FounderFrames = 1
    JoinerFrames = 0
    MaxSeq <- MCMaxSeq
SPECIFICATION Spec
INVARIANTS
    EpochIsMlsEpoch
    SameEpochSameGroup
    StagedWasPrepared
CHECK_DEADLOCK FALSE
