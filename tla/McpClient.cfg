SPECIFICATION FairSpec
CONSTANTS
    MaxCalls = 5
    MaxAnswers = 1
    None = None
INVARIANTS TypeOK NoLeak
PROPERTIES CallsEndOnce ReceiverMovesOn FailureIsSeen
CHECK_DEADLOCK FALSE
