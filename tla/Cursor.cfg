SPECIFICATION WalkSpec
CONSTANTS
    Times <- ThreeTimes
    Ids <- TwoIds
    Limit = 2
    NoCursor = NoCursor
INVARIANTS
    OnlyBoundaryRowsLost
PROPERTIES
    PagesDescend
