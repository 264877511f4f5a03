SPECIFICATION SharedSpec
CONSTANTS
    cli = cli
    l1 = l1
    Stores = {cli}
    Calls = {l1}
    Of <- CliOnly
    MaxLearnings = 1
    L2Count = 2
    AutoPromote = TRUE
    Edits = {"touch", "l2"}
    Brought = {0}
    Marks = {"whole", "late", "early", "broken"}
    Nothing = Nothing
    Torn = Torn
    MaxCalls = 3
    MaxExits = 1
INVARIANT CreatedLoads
CHECK_DEADLOCK FALSE
