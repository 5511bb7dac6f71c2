SPECIFICATION Spec
CONSTANTS
    Ids <- MCIds
    Mine <- MCMine
    Names <- MCNames
    FirstNames <- MCFirstNames
    Matching <- MCMatching
    Limits <- MCLimits
    Offsets <- MCOffsets
    MaxLimit = 2
    BatchSize = 1
    MaxWrites = 1
INVARIANTS
    OnlyWhatWasReadable
    ShortPageIsComplete
    TotalTellsTheRest
    PagesFollow
