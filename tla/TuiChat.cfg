SPECIFICATION FairSpec
CONSTANTS
    Calls = {1, 2}
    MaxToolRounds = 1
    MaxTurns = 2
    MaxTexts = 1
    None = None
INVARIANTS TypeOK RunsOnlyApproved DialogIsAwaited
PROPERTIES InputUnlocks
