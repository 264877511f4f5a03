SPECIFICATION SessionSpec
CONSTANTS
    Callers = {"c1", "c2"}
    Sessions = {"c1", "d1"}
    Sources <- MCSources
    SourceOf <- MCSourceOf
    Limit = 1
    MaxQueries = 2
PROPERTY ListedCanBeTaken
CHECK_DEADLOCK FALSE
