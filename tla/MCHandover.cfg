CONSTANTS
    Member = {1, 2, 3}
    StreamType = {"Control"}
    Repeating = {}
    MaxClaims <- MCMaxClaims
    Originator = {1, 2}
    Founder = {1, 2, 3}
    Rebuilt = {}
    MaxTid = 3
    MaxCommit = 2
    OriginatorFrames = 2
    FounderFrames = 0
    JoinerFrames = 0
    MaxSeq <- MCMaxSeq
SPECIFICATION MCSpec
INVARIANTS
    ElectionInv
    CrossingClaimsResolve
    LowestPrepareWins
CHECK_DEADLOCK FALSE
