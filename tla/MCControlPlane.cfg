CONSTANTS
    Member = {1, 2}
    StreamType = {"Control"}
    Coordinator = 1
    Rebuilt = {2}
    Responder = {1}
    Misrouted = {2}
    MaxTid = 2
    CoordinatorFrames = 2
    MemberFrames = 1
    MaxSeq <- MCMaxSeq
SPECIFICATION Spec
INVARIANTS
    TypeOK
    HandshakeInv
    SameEpochSameTid
    PendingWasPrepared
    DeadlineGuardsPending
PROPERTIES
    OneTransitionLog
    
CHECK_DEADLOCK FALSE
