SPECIFICATION Spec
CONSTANTS
    Retries = 1
    None = None
    NoFile = NoFile
    MaxStarts = 2
    NameOrder <- MCNameOrder
    KeyVars <- MCKeyVars
    Answers <- MCAnswers
    FirstFiles <- MCFirstFiles
    FirstConfigs <- MCFirstConfigs
    Servers = {m}
    Skills = {s}
INVARIANTS TypeOK FlagMatchesChain RunsAsSetUp ToolsComplete
PROPERTIES KeepsSettings SetupIsAtomic StartEnds RequestEnds
CHECK_DEADLOCK FALSE
