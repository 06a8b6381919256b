\* Two threads fill the layout and size caches while the track is edited and its file
\* rewritten and rescanned.
CONSTANTS
    MaxId = 1
    Formats = {flac}
    Tags = {none, a}
    Arts = {x}
    Paths = {p}
    Geoms = {g}
    Ctimes = {0, 1}
    None = None
    Untagged = none
    Artless = x
    CHANGELOG_CAP = 1
    MaxBurst = 1
    MaxSeq = 4
    MaxCommits = 2
    MaxTruncations = 0
    Threads = {t1, t2}
    Operations = {"getattr"}
    Files = {f1}
    StreamedArts = {}
    trust_backing_mtime = FALSE
    keep_cache = FALSE
    Attempts = 2
    MaxClock = 1
SPECIFICATION Spec
SYMMETRY Symmetry
INVARIANTS CacheSound SizeCacheSound CalmOperationsSucceed
