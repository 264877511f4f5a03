SPECIFICATION FairSpec
CONSTANTS
    i1 = i1
    NoIssue = NoIssue
    Issues <- OneIssue
    UserPosts <- ClaimPosts
    PageSize = 1
    MaxTime = 2
    MaxUserPosts = 2
    MaxEdits = 1
    MaxDeletes = 0
    MaxFaults = 1
    MaxRestarts = 0
INVARIANTS NoSkippedCommand
PROPERTIES EveryCommandDecided
CHECK_DEADLOCK FALSE
