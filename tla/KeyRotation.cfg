SPECIFICATION FairSpec
CONSTANTS
    Rows <- MCRows
    CreatedAt <- MCCreatedAt
    TicksPerSecond = 2
    Readable <- MCReadable
    BatchSize = 2
    Lines = {l1}
    Passphrases = {p1}
    NoPassphrase = NoPassphrase
    MaxMaterial = 3
    Absent = Absent
    Plain = Plain
    NoKey = NoKey
INVARIANTS TypeOK NoKeyLoss RotationReachesAll
PROPERTIES HeldKeysStay CompletionIsDurable EveryPassEnds
