SPECIFICATION Spec
CONSTANTS
    GroupBits = 7
    Width = 15
    NumberWidth = 8
    Fixed32Len = 1
    Fixed64Len = 2
    Schema <- MCSchema
    Root = "N"
    Relays = {"N"}
    Fragments <- ChainFragments
    MaxParts = 3
    MaxHops = 1
    MaxNesting = 1
INVARIANT
    NestingLimited
CHECK_DEADLOCK FALSE
