CONSTANTS
    Member = {1, 2, 3}
    StreamType = {"Control"}
    Originator = {1, 2}
    Founder = {1, 2, 3}
    Rebuilt = {}
    MaxTid = 3
    MaxCommit = 1
    OriginatorFrames = 2
    FounderFrames = 0
    JoinerFrames = 0
    MaxSeq <- MCMaxSeq
SPECIFICATION Spec
INVARIANT PrepareDeadlineGuards
CHECK_DEADLOCK FALSE
