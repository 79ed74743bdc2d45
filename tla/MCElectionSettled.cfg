CONSTANTS
    Member = {1, 2}
    StreamType = {"Control"}
    Repeating = {1, 2}
    MaxClaims <- MCMaxClaims
SPECIFICATION ElectionSpec
INVARIANT AtMostOneCoordinator
CHECK_DEADLOCK FALSE
