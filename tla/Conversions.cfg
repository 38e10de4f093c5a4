SPECIFICATION ConversionsSpec
CONSTANTS
    Years <- MCYears
    Jobs <- MCJobs
    IntWidth = 65536
    Octet = 4
    Block = 2
    Bytes = {0, 1}
    Keys = {1, 2}
    Cipher <- MCCipher
    Messages <- MCMessages
    Pins <- MCPins
    Terminals = {1, 40017}
    Menus = {0, 7, 42, 99}
    Moments <- MCMoments
INVARIANTS BackWithinADay ConversionsBack StaysInside BlocksBack PinTells
PROPERTY PersianFollows
CHECK_DEADLOCK FALSE
