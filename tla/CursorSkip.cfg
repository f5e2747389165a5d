SPECIFICATION WalkSpec
CONSTANTS
    Times <- ThreeTimes
    Ids <- TwoIds
    Limit = 1
    NoCursor = NoCursor
INVARIANTS
    NothingSkipped
