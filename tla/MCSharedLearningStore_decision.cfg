SPECIFICATION SharedSpec
CONSTANTS
    cli = cli
    l1 = l1
    Stores = {cli}
    Calls = {l1}
    Of <- CliOnly
    MaxLearnings = 1
    L2Count = 2
    AutoPromote = TRUE
    Edits = {"approve", "reject"}
    Brought = {0}
    Marks = {"whole"}
    Nothing = Nothing
    Torn = Torn
    MaxCalls = 3
    MaxExits = 1
INVARIANT DecisionKept
CHECK_DEADLOCK FALSE
