SPECIFICATION Spec
CONSTANTS
    i1 = i1
    NoIssue = NoIssue
    Issues <- OneIssue
    UserPosts <- DispatchPosts
    PageSize = 2
    MaxTime = 2
    MaxUserPosts = 1
    MaxEdits = 1
    MaxDeletes = 1
    MaxFaults = 1
    MaxRestarts = 1
PROPERTIES AtMostOncePerRun NoRunOnForeignIssue NoReplayAfterRestart
CHECK_DEADLOCK FALSE
