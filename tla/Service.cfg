SPECIFICATION Spec
CONSTANTS
    None = None
    PerMinute = 1
    Second = 2
    Minute = 2
    Requests = {r1, r2}
    Updates = {u1}
    Chats = {c}
    MaxTime = 3
    MaxStarts = 2
    MaxFiles = 2
    MaxChunks = 2
    MaxContext = 6
    ResponseReserve = 2
    Sizes = {0, 1, 2, 3, 4}
    MaxHistory = 3
    Limits = {3, 4}
    MaxText = 6
SYMMETRY Symmetry
INVARIANTS TypeOK OneSession NoOrphans AnsweredIsStored UploadsExist LockIsReleased RetryAfterSuffices SplitLosesNothing HistoryFits
PROPERTIES TokensAreSpent
CHECK_DEADLOCK FALSE
