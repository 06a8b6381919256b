\* Two tracks, two workers, a panic: torn reads, ring gaps, rowid reuse, stamps.
CONSTANTS
    MaxId = 2
    Formats = {flac}
    Tags = {none, a, b}
    Arts = {x}
    Paths = {p, q}
    Geoms = {g}
    Ctimes = {c}
    None = None
    CHANGELOG_CAP = 1
    MaxBurst = 1
    MaxSeq = 6
    MaxCommits = 2
    MaxTruncations = 0
    Workers = {w1, w2}
    Untagged = none
    Artless = x
    Skipped = {none}
    CaseInsensitive = FALSE
    MaxErrors = 0
    MaxPanics = 1
SPECIFICATION HistorySpec
SYMMETRY Symmetry
INVARIANT IInv
PROPERTIES GenerationFollowsWatermark StampIsHonest
