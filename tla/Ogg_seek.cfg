\* Ogg audio in pages of the largest size.
SPECIFICATION Spec
CONSTANTS
    LongText <- MCLongText
    WithNul <- MCWithNul
    Upper <- MCUpper
    NotVorbis <- MCNotVorbis
    Numerals <- MCNumerals
    U32Max = 2147483647
    FrameIds <- MCFrameIds
    CommKeys <- MCCommKeys
    NumberPairs <- MCNumberPairs
    FreeformKeys <- MCFreeformKeys
    SeqModulus = 1000
    MAX_CRC_CHECKS = 64
    Sources <- LargestSources
    Windows = {4, 100, 65536}
    MAX_WIDEN_RETRIES = 8
    MAX_PROBE_BYTES = 67108864
    MAX_ART_BYTES = 16711680
    MAX_TAG_VALUE_LEN = 16777215
    KeyOrder <- MCKeyOrder
    NewTags <- MCNewTags
    NewArts <- MCNewArts
    ReadSizes = {3, 3000000}
    MaxRescans = 2
CHECK_DEADLOCK FALSE
INVARIANT ReadsAreSlices
