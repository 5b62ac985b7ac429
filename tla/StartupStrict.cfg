SPECIFICATION Spec
CONSTANTS
    Retries = 1
    None = None
    NoFile = NoFile
    MaxStarts = 1
    NameOrder <- MCNameOrder
    KeyVars <- MCKeyVars
    Answers <- MCMixedAnswers
    FirstFiles <- MCFirstFiles
    FirstConfigs <- MCFirstConfigs
    Servers = {m}
    Skills = {s}
INVARIANT StrictStaysLocal
CHECK_DEADLOCK FALSE
