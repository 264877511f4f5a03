SPECIFICATION CommandsSpec
CONSTANTS
    t1 = t1
    Tasks = {t1}
    Requests <- MCRequests
    Permissions <- MCPermissions
    Roles <- MCRoles
    Limits <- MCLimits
    OpenTimes = {0, 1, 2}
    Graphs <- MCGraphs
    PreHooks <- MCPreHooks
    PostHooks <- MCPostHooks
    OutsideDir = FALSE
    LogMax = 6
    LogDrop = 2
    MaxCalls = 3
    MaxTime = 3
    MaxJumps = 1
    writer = writer
    reloader = reloader
    searcher = searcher
    reader = reader
    Users = {writer, reloader, searcher, reader}
    Kinds <- MCKinds
    Definitions <- MCDefinitions
    Listings <- MCListings
    Loaded <- MCLoaded
    MaxOps = 1
    NoDef = NoDef
    l1 = l1  l2 = l2  l3 = l3
    s1 = s1  s2 = s2
    Searches = {s1, s2}
    QueryWords = {1, 2, 3, 4, 5}
    Lines = {l1, l2, l3}
    Roots = {"tree", "sub"}
    LinesOf <- MCLinesOf
    WordsOf <- MCWordsOf
    Aliased = {l1, l2}
    Named = {l1}
    Boosted <- MCBoosted
    PageCap = 3
    Options <- MCOptions
    Slugs = {"a"}
    Thresholds <- MCThresholds
    MaxConcepts = 2
    MaxCrashes = 1
    NoNote = NoNote  Torn = Torn
    Callers = {"c1", "c2"}
    Sessions = {"c1", "d1"}
    Sources <- MCSources
    SourceOf <- MCSourceOf
    Limit = 1
    MaxQueries = 3
    Syncers = {"s1", "s2"}
    Learnings = {"x", "y", "bad"}
    PageOf <- MCPageOf
    Valid = {"X", "Y"}
    NoPage = NoPage
    Notes = {n1}
    MaxSyncs = 2
    MaxFaults = 1
    MaxChanges = 1
    Failures <- MCFailures
    Ignorable <- MCIgnorable
    Sayings <- MCSayings
    Fixes = {"bun"}
    Quoted = {"'npm'", "'bun'"}
    Backslash = "backslash"
    Concept <- MCConcept
    Curated <- MCCurated
    NoWord = ""
    MaxFiles = 3
INVARIANTS TypesOK MapsAgree IndexMatchesThesaurus DeadlockOnlyByUpgrade RateBound StartedIsVetted SynthesisIsEarned EmptyIsImported SyncRepairs
PROPERTY LearnedIsSuggested
CHECK_DEADLOCK FALSE
