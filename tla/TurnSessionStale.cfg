SPECIFICATION FairSpec
CONSTANTS
    Callers = {c1}
    MaxToolRounds = 1
    MinUserTurns = 1
    MaxCalls = 0
    MaxSends = 4
    None = None
PROPERTIES NothingForgotten
