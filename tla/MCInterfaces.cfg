SPECIFICATION MCSpec
CONSTANTS
    Thread = {t1, t2}
    Used <- AllExports
    MaxCalls = 2
    MaxHandle = 2
    \* All payloads of up to three bits, cut into bytes and pairs
    Attachment = {1, 2}
    Byte = {0, 1}
    MaxLen = 3
    ChunkSize = {0, 2}
    MaxMisfeed = 1
    MaxEvents = 4
    Member = {1, 2, 3}
    Tokens = {"opus"}
    \* The numbers straddle 8 and 16 bits
    Number = {0, 1, 2, 255, 256, 65535, 65536}
    MaxBody = 2
SYMMETRY Threads
INVARIANTS
    SlotTellsOutcome
    InvalidOnlyIfDestroyed
    EventsArrive
    DecodedIsSent
    LengthIsChecked
    RestoreIsAllOrNothing
    ClassIsSupported
    AssembledIsSent
\* Programs finish: files are assembled and the bounds on steps are reached.
CHECK_DEADLOCK FALSE
