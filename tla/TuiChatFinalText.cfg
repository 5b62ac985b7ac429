SPECIFICATION FairSpec
CONSTANTS
    Calls = {1}
    MaxToolRounds = 1
    MaxTurns = 1
    MaxTexts = 1
    None = None
PROPERTIES FinalTextIsRead
