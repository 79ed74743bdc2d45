SPECIFICATION Spec
CONSTANTS
    Member = {1, 2, 3}
    StreamType = {"Control"}
    Coordinator = 1
    SilentSets = {{3}}
    Polls = TRUE
    MaxTid = 2
PROPERTY TransitionEnds
CHECK_DEADLOCK FALSE
