CONSTANTS
    MaxTrack = 3
    TagRows <- MCTagRows
    TemplateText <- MCTemplate
    MAX_SECTION_DEPTH = 2
    MAX_PATH_FIELD_SEGMENTS = 2
    Lower <- MCLower
    fallbacks <- MCFallbacks
    default_fallback <- MCDefault
    skip_on_missing = TRUE
    Extension <- MCExtension
    Spelled <- MCSpelled
    Short <- MCShort
    Stem <- MCStem
    Folded <- MCFolded
    Reserved <- MCReserved
    case_insensitive = FALSE
    None = None
    Unrendered = None
    KeyedPaths <- MCKeyedPaths
    LoadedPaths <- MCLoadedPaths
    Bases <- MCBases
    MaxTouched = 2
SPECIFICATION Spec
INVARIANTS TreeOK DirectoriesFollowTags IncrementalMatchesBuild LookupIsUnambiguous InodesNeverReissued PathsFollowTags
CHECK_DEADLOCK FALSE
