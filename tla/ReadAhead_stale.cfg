CONSTANTS
    Handles = {h1, h2}
    Readers = {r1, r2}
    Workers = {w1}
    BackingLen = 2
    Budget = 2
    WINDOW_FLOOR = 1
    WINDOW_ABS_CAP = 2
    PER_STREAM_DIVISOR = 1
    QueueCap = 1
    ReleaseWaits = TRUE
    MaxRewrites = 1
    MaxReads = 2
    None = None
SPECIFICATION Spec
INVARIANTS ServedIsFresh
