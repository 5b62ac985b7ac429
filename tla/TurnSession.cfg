SPECIFICATION FairSpec
CONSTANTS
    Callers = {c1}
    MaxToolRounds = 1
    MinUserTurns = 1
    MaxCalls = 1
    MaxSends = 3
    None = None
INVARIANTS TypeOK EachMessageOnce
PROPERTY TurnsEnd
