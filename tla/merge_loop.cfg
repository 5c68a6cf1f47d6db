SPECIFICATION FairSpec
CONSTANTS
    PeoplePush = TRUE
    MaxHead = 2
    MaxMoves = 1
    MayFail = {"merge", "updateBranch"}
INVARIANT TypeOK
PROPERTIES NoSilentDrop NoSilentStall
\* Nothing is left to do once the pull request is merged.
CHECK_DEADLOCK FALSE
