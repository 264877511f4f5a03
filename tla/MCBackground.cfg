SPECIFICATION BackgroundSpec
CONSTANTS
    MaxRuns = 2
    MaxChannels = 1
    MaxTime = 2
    Interval = 1
    StopTimeout = 1
    AutoUpdate = TRUE
    Uris = {"a"}
    Concurrent = 3
    MaxSent = 4
    Paths = {"a", "b"}
    Debounce = 2
    Capacity = 1
    MaxMessages = 2
    MaxWrites = 3
    c1 = c1  c2 = c2
    g1 = g1  g2 = g2
    plain = plain
    r1 = r1  r2 = r2
    Calls = {c1, c2}
    Roles = {r1, r2}
    Graphs = {g1, g2}
    Plains = {plain}
    None = None
    Foreign = Foreign
    Reuse = FALSE
    MaxUpdates = 1
INVARIANTS TypesOK OneRun SilentAfterStopped CoherentAnswer ActiveIsCurrent
PROPERTIES EveryTickChecked StopEnds EditIsAnswered WatchCatchesUp CallsReturn
CHECK_DEADLOCK FALSE
