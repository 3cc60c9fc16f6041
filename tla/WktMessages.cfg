SPECIFICATION Spec
CONSTANTS
    GroupBits = 7
    Width = 15
    NumberWidth = 8
    Fixed32Len = 1
    Fixed64Len = 2
    Schema <- WktSchema
    Types <- AllTypes
    MaxSets = 2
    MaxNesting = 2
INVARIANTS
    WktRoundTrip
    WktViews
    WrappersWiden
CHECK_DEADLOCK FALSE
