CONSTANTS
    Workers = {1, 2}
    Addrs = {a1, a2}
    Entries <- MCEntries
    MAX_DIR_HANDLES = 2
    MAX_INFLIGHT_READS = 1
    READDIRPLUS_BATCH = 2
    Pages <- MCPages
    Loads <- MCLoads
    MaxRequests = 4
    None = None
SPECIFICATION Spec
INVARIANTS TypeOK ListingIsOfItsGeneration SharedListingsAreExact PlusPageIsExact GuardsTrackTheirTasks PassthroughEndsWithHandle
PROPERTIES EveryRequestIsAnswered
CHECK_DEADLOCK FALSE
