SPECIFICATION Spec
CONSTANTS
    Rows <- MCTwoRows
    CreatedAt <- MCSwappedCreatedAt
    TicksPerSecond = 2
    Readable = {}
    BatchSize = 1
    Lines = {}
    Passphrases = {}
    NoPassphrase = NoPassphrase
    MaxMaterial = 2
    Absent = Absent
    Plain = Plain
    NoKey = NoKey
INVARIANT AllUnderNewKey
