SPECIFICATION Spec
CONSTANTS
    MaxFieldNumber = 6
    ReservedStart = 4
    ReservedEnd = 4
    UpperCase <- Letters
    Trees <- MCTrees
    Drafts <- MCDrafts
    Includes <- MCIncludes
    WellKnown <- MCWellKnown
    Requests <- MCRequests
    MaxEdits = 2
    MaxRuns = 2
INVARIANTS
    NumbersOwnedOnce
    OrderFree
    SuccessIsWhole
    RootsAreArguments
CHECK_DEADLOCK FALSE
