\* Opens and reads, by handle and without, of a track with pictures that are streamed or
\* not, across edits, rewrites, replacements, moves, rescans and refreshes.
CONSTANTS
    MaxId = 1
    Formats = {flac}
    Tags = {none}
    Arts = {x, y}
    Paths = {p, q}
    Geoms = {g}
    Ctimes = {0, 1}
    None = None
    Untagged = none
    Artless = x
    CHANGELOG_CAP = 1
    MaxBurst = 1
    MaxSeq = 5
    MaxCommits = 2
    MaxTruncations = 0
    Threads = {t1}
    Operations = {"open", "read", "read_fallback"}
    Files = {f1, f2}
    StreamedArts = {y}
    trust_backing_mtime = FALSE
    keep_cache = TRUE
    Attempts = 2
    MaxClock = 1
SPECIFICATION Spec
SYMMETRY Symmetry
INVARIANTS TypeOK  CalmOperationsSucceed
PROPERTY StreamedFromCurrentRow
