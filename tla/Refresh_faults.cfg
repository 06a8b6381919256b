\* One track, two racing workers, a failing read, a panic and a truncation, with fairness.
CONSTANTS
    MaxId = 1
    Formats = {flac}
    Tags = {none, a, b}
    Arts = {x}
    Paths = {p}
    Geoms = {g}
    Ctimes = {c}
    None = None
    CHANGELOG_CAP = 2
    MaxBurst = 1
    MaxSeq = 6
    MaxCommits = 2
    MaxTruncations = 1
    Workers = {w1, w2}
    Untagged = none
    Artless = x
    Skipped = {none}
    CaseInsensitive = FALSE
    MaxErrors = 1
    MaxPanics = 1
SPECIFICATION FairSpec
INVARIANTS NoLostUpdate
PROPERTIES EventuallyCurrent
