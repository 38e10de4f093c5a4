SPECIFICATION TablesSpec
CONSTANTS
    CountPerPage = 2
    Remaining = {0, 1, 3}
    MaxMessages = 6
    Keys <- MCKeys
    IsInteger <- MCIsInteger
    Default <- MCDefault
    Texts = {"", "x", "dflt"}
    Numbers = {"0", "7"}
    Lower <- MCLower
    MaxSaves = 3
    MaxContent = 3
    MaxBadOpens = 2
INVARIANTS NothingMissed NoneTwice LoadTells BackupWhole
CHECK_DEADLOCK FALSE
