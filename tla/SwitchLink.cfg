SPECIFICATION PollingSpec
CONSTANTS
    ReqLen = 2
    Base = 2
    MaxRequests = 2
    QueueMax = 6
    Timeouts = {0, 1, 2}
    Usages <- MCUsages
INVARIANTS ReplyMatches StaleButWhole
PROPERTIES ExchangeSpec ErrorKept CallReturns ExchangeEnds
CHECK_DEADLOCK FALSE
