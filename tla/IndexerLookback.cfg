SPECIFICATION IndexerSpec
CONSTANTS
    PAGE = 2
    MAX_PAGES = 1
    CONCURRENCY = 2
    MaxTx = 4
    MaxEvents = 2
    MaxFaults = 2
    Old = 0
    Runs = {r1, r2}
INVARIANTS
    NoGapBehindCursor
CHECK_DEADLOCK FALSE
