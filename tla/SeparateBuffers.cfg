SPECIFICATION Spec
CONSTANTS
    ReqLen = 2
    Base = 2
    MaxRequests = 2
    QueueMax = 6
    Timeouts = {0, 1, 2}
    Usages <- MCSeparate
PROPERTY WrittenIsReceiving
CHECK_DEADLOCK FALSE
