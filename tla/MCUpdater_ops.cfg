SPECIFICATION FairSpec
CONSTANTS
    Procs = {p1, p2}
    MaxVersion = 3
    FirstVersion = 2
    LibVersion = 1
    Commands <- AllCommands
    MaxPublish = 1
    MaxOps = 2
INVARIANTS OnlySigned
PROPERTIES NewerThanRunning OperationEnds RejectionIsFinal PackagedNotPromoted
CHECK_DEADLOCK FALSE
