SPECIFICATION LearnSpec
CONSTANTS
    Failures <- MCFailures
    Ignorable = {}
    Sayings <- MCSayings
    Fixes = {"bun"}
    Quoted = {"'npm'"}
    Backslash = "backslash"
    Concept <- MCConcept
    Curated <- MCCurated
    NoWord = ""
    MaxFiles = 2
INVARIANT FeedbackLoop
CHECK_DEADLOCK FALSE
