SPECIFICATION DevicesSpec
CONSTANTS
    Base = 2
    Chunk = 3
    Payloads <- MCPayloads
    OutSize = 6
    SocketTimeouts = {0, 1}
    ReqLen = 2
    PerRequest = 2
    MaxSockets = 2
    MaxRequests = 2
    Digit = 2
    NTP_TIMESTAMP_DELTA = 1
    Timezone = 1
    NtpTimeouts = {0, 1}
    Ports = {1, 2}
    MaxAnswers = 2
    MaxNtpCalls = 2
    MaxClock = 5
    TopBit = 1
    Protocols <- MCProtocols
    Rates = {9600}
    SendSizes = {1, 2}
    RecvMax = 2
    OutQueue = 2
    MaxSerial = 3
INVARIANTS DescriptorsKept FramesInOrder DrainedSent
PROPERTIES TimeFresh CallsEnd
CHECK_DEADLOCK FALSE
