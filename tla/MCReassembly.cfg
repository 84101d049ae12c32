CONSTANTS
    SeqMod = 16
    ReasmMaxNeg = 5
    StreamLen = 7
    SzMax = 4
    MaxLen = 3
    Versions = {1, 2}
    ISNs <- MCISNs
SPECIFICATION Spec
INVARIANTS TypeOK NoOverrun PrefixIsStream
PROPERTY SessionOnlyGrows
