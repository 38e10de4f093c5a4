SPECIFICATION SinkSpec
CONSTANTS
    Addresses = {"a"}
    Levels = {6, 7}
    MaxOpens = 4
    MaxCalls = 3
    MaxDepth = 2
INVARIANTS NoHandleLost SentInOrder
CHECK_DEADLOCK FALSE
