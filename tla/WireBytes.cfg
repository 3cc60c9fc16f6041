SPECIFICATION Spec
CONSTANTS
    Schema <- MCSchema
    MaxDepth = 2
    NestedIn <- MCNestedIn
    ShortName <- MCShortName
    GroupBits = 4
    Width = 9
    NumberWidth = 5
    Fixed32Len = 1
    Fixed64Len = 2
    ShortLen = 3
    MaxLen = 5
    MaxNesting = 2
    Bytes = {1, 8, 10, 11, 12, 13, 16, 27}
INVARIANTS
    VarintRoundTrip
    TagRoundTrip
    PackedRoundTrip
    KeptRoundTrip
    SkipAgrees
    NestingExact
    AnnotationTiles
    
PROPERTIES
    VerdictsFinal
CHECK_DEADLOCK FALSE
