SPECIFICATION FairSpec
CONSTANTS
    Callers = {c1, c2}
    MaxToolRounds = 1
    MinUserTurns = 1
    MaxCalls = 0
    MaxSends = 3
    None = None
INVARIANTS HistoryIsStored OneSummarizer
PROPERTIES AppendOnlyLosesNothing SummaryEnds
