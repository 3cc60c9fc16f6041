SPECIFICATION Spec
CONSTANTS
    GroupBits = 7
    Width = 15
    NumberWidth = 8
    Fixed32Len = 1
    Fixed64Len = 2
    Schema <- MCSchema
    Root = "M"
    Relays = {"M", "OldM"}
    Fragments <- MCFragments
    MaxParts = 3
    MaxHops = 2
    MaxNesting = 2
INVARIANTS
    OwnedIsSum
    ReencodeStable
    ViewAgrees
    ExtensionLast
CHECK_DEADLOCK FALSE
