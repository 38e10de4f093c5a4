SPECIFICATION HandleSpec
CONSTANTS
    Threads = {t1, t2}
    MaxDepth <- MCMaxDepth
    MaxDrift <- MCMaxDrift
INVARIANTS ClosedIsIdle CountTells
