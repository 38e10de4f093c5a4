SPECIFICATION WebSpec
CONSTANTS
    BodyLen = 5
    Chunks = {1, 2, 3}
    Initial = 2
    MaxRuns = 2
    MAX_REQUEST_SIZE = 4
    Requests <- MCRequests
    ReadMax = 3
    MaxRequests = 3
INVARIANTS BufferHolds BodyOrNothing AnsweredInTurn
PROPERTIES DownloadReturns NothingBeyondLimit RefusedIsClosed
CHECK_DEADLOCK FALSE
