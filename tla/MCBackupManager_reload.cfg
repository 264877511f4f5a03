SPECIFICATION BackupSpec
CONSTANTS
    Managers = {m1}
    Versions = {v1, v2}
    Builds = {b1, b2}
    NoBackup = NoBackup
    TornCopy = TornCopy
    MaxBackups = 2
    MaxStamps = 9
    MaxReloads = 1
    MaxDamage = 0
INVARIANT ListedCanBeRestored
CHECK_DEADLOCK FALSE
