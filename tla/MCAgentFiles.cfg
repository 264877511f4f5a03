SPECIFICATION FilesSpec
CONSTANTS
    StoreProcs = {terminal, server}
    LegacyProcs = {learn}
    MaxIds = 3
    Corrections = {c1, c2}
    Cap = 2
    MaxRecords = 2
    None = None
    agent = agent  cli = cli  a1 = a1  a2 = a2  l1 = l1
    Stores = {agent, cli}
    Calls = {a1, a2, l1}
    Of <- MCOf
    MaxLearnings = 2
    L2Count = 3
    AutoPromote = TRUE
    Edits = {"apply", "l2", "reject"}
    Brought = {1}
    Marks = {"whole", "early", "broken"}
    Nothing = Nothing
    Torn = Torn
    MaxCalls = 3
    MaxExits = 1
    p1 = p1  p2 = p2  n1 = n1  build = build  wipe = wipe  sudo = sudo  t1 = t1  t2 = t2
    TornLine = TornLine  NoItem = NoItem
    Clis = {k1, k2}
    ProcIds = {p1, p2, n1}
    NewIds <- MCNewIds
    Titles = {t1, t2}
    Within <- MCWithin
    Commands = {build}
    Blocked = {wipe}
    Privileged = {sudo}
    Stored <- MCStored
    MaxSteps = 3
    MaxRuns = 2
    MaxKills = 1
    Runners = {"r1", "r2"}
    RoleNames = {"Default", "Engineer"}
    Embedded <- MCEmbedded
    RoleFiles <- MCRoleFiles
    FlagFile <- MCFlagFile
    Project <- MCProject
    DefaultRole = "Engineer"
    MaxCommands = 3
    NoFile = NoFile BadFile = BadFile NoRole = NoRole NoConfig = NoConfig NoCommand = NoCommand
    Managers = {m1, m2}
    v1 = v1  v2 = v2  b1 = b1  b2 = b2
    Versions = {v1, v2}
    Builds = {b1, b2}
    NoBackup = NoBackup  TornCopy = TornCopy
    MaxBackups = 1
    MaxStamps = 4
    MaxReloads = 1
    MaxDamage = 1
INVARIANTS TypesOK AcknowledgedKept CreatedKept TrustEarned AloneIsDurable AloneTakesEffect
PROPERTIES RestoresWhatWasBackedUp StaysReadable Linearizable RuntimeChangesKept
CHECK_DEADLOCK FALSE
