CONSTANTS
    Paths = {1, 2, 3, 4}
    Root = {1, 2, 3}
    Contents = {"a", "b", "r", "u", "o"}
    Kind <- MCKind
    Fingerprint <- MCFingerprint
    Weight <- MCWeight
    OptionSet <- MCOptions
    InitialFiles <- MCFiles
    InitialTracks <- MCTracks
    Collect <- collect_audio_with
    Entries <- MCEntries
    Top = "top"
    Unreadable = {"locked"}
    Workers = {w1, w2}
    Cap = 2
    BATCH_FILES = 2
    ChannelCap = 1
    StoreFails = TRUE
    MaxChanges = 1
    None = None
SPECIFICATION Spec
INVARIANTS TypeOK  EveryFileAccountedFor BudgetCoversHeldBytes
PROPERTIES  KeepsItsPromise
CHECK_DEADLOCK FALSE
