---------------------------- MODULE BackupManager ----------------------------
(***************************************************************************)
(* terraphim_update::rollback: managers of a directory of backups.  A      *)
(* manager keeps a registry of the backups in memory, with a timestamp and *)
(* a checksum each; the directory outlives it, and a new manager rebuilds  *)
(* its registry from the names of the files.  Several programs may have a  *)
(* manager of the same directory.                                          *)
(*                                                                         *)
(* A file is its content; Torn is the content a copy leaves when its       *)
(* process dies before the end.                                            *)
(***************************************************************************)
EXTENDS Naturals, FiniteSets

CONSTANTS
    Managers,       \* programs with a manager of the directory
    Versions,       \* versions a backup is named after
    Builds,         \* contents of the binary
    NoBackup,       \* no file, no registry entry
    TornCopy,       \* content of an interrupted copy
    MaxBackups,     \* max_backups
    MaxStamps,      \* bound on the timestamps drawn
    MaxReloads,     \* bound on the restarts of programs
    MaxDamage       \* bound on the files changed or removed from outside

ASSUME BackupAssumption ==
    /\ NoBackup \notin Builds /\ TornCopy \notin Builds /\ NoBackup # TornCopy
    /\ IsFiniteSet(Versions)       \* the files of one directory
    /\ MaxBackups \in Nat \ {0}
    /\ {MaxStamps, MaxReloads, MaxDamage} \subseteq Nat

VARIABLES
    binary,         \* content of the binary that is backed up
    restored,       \* content of the file a rollback restores
    copies,         \* the backup files, by version
    backups,        \* the registry of each manager
    phase, version,  \* the operation of each manager and its version
    stamps,
    \* history
    retouched,      \* the file in hand changed since it was verified
    reloads, damage

managerVars == <<backups, phase, version, retouched>>
backupVars == <<binary, restored, copies, managerVars, stamps, reloads, damage>>

CopyContents == Builds \cup {TornCopy}
\* A reloaded backup has the empty checksum: no content has it.
CopySums == CopyContents \cup {"empty"}
BackupEntry == [stamp : Nat, sum : CopySums]

BackupTypeOK ==
    /\ binary \in Builds /\ restored \in CopyContents \cup {NoBackup}
    /\ copies \in [Versions -> CopyContents \cup {NoBackup}]
    /\ backups \in [Managers -> [Versions -> BackupEntry \cup {NoBackup}]]
    /\ phase \in [Managers -> {"idle", "copied", "verified"}]
    /\ version \in [Managers -> Versions]
    /\ stamps \in Nat
    /\ retouched \in [Managers -> BOOLEAN]
    /\ reloads \in Nat /\ damage \in Nat

Registered(m) == {v \in Versions : backups[m][v] # NoBackup}
OlderBackup(m, v, w) == backups[m][v].stamp < backups[m][w].stamp

\* Backup v of the directory has been written.
CopyWritten(v, c) ==
    /\ copies' = [copies EXCEPT ![v] = c]
    /\ retouched' = [m \in Managers |-> retouched[m] \/ version[m] = v]

BackupInit ==
    /\ binary \in Builds
    /\ restored = NoBackup
    /\ copies = [v \in Versions |-> NoBackup]
    /\ backups = [m \in Managers |-> [v \in Versions |-> NoBackup]]
    /\ phase = [m \in Managers |-> "idle"]
    /\ version \in [Managers -> Versions]
    /\ stamps = 1
    /\ retouched = [m \in Managers |-> FALSE]
    /\ reloads = 0 /\ damage = 0

-----------------------------------------------------------------------------
\* The binary is updated.
UpdateBinary ==
    /\ \E c \in Builds : c # binary /\ binary' = c
    /\ UNCHANGED <<restored, copies, managerVars, stamps, reloads, damage>>

\* Somebody changes or removes a backup file.
DamageCopy ==
    /\ damage < MaxDamage
    /\ damage' = damage + 1
    /\ \E v \in Versions, c \in CopyContents \cup {NoBackup} :
         /\ copies[v] # NoBackup /\ c # copies[v]
         /\ copies' = [copies EXCEPT ![v] = c]
         /\ retouched' = [m \in Managers |-> retouched[m] \/ version[m] = v]
    /\ UNCHANGED <<binary, restored, backups, phase, version, stamps, reloads>>

\* The copy of create_backup is over, or the process died in the middle of it.
CopyBackup(m, v) ==
    /\ phase[m] = "idle" /\ stamps < MaxStamps
    /\ stamps' = stamps + 1
    /\ CopyWritten(v, binary)
    /\ phase' = [phase EXCEPT ![m] = "copied"]
    /\ version' = [version EXCEPT ![m] = v]
    /\ UNCHANGED <<binary, restored, backups, reloads, damage>>

\* The checksum is that of the file as it is read back.
RegisterCopy(m) ==
    /\ phase[m] = "copied"
    /\ phase' = [phase EXCEPT ![m] = "idle"]
    /\ IF copies[version[m]] = NoBackup THEN UNCHANGED <<backups, stamps>>      \* Err
       ELSE /\ backups' = [backups EXCEPT ![m][version[m]] =
                         [stamp |-> stamps, sum |-> copies[version[m]]]]
            /\ stamps' = stamps + 1
    /\ UNCHANGED <<binary, restored, copies, version, retouched, reloads, damage>>

\* The oldest backups of m beyond the limit.
Excess(m) ==
    {v \in Registered(m) :
        Cardinality({w \in Registered(m) : OlderBackup(m, v, w)}) >= MaxBackups}

\* A file that is already gone cannot be removed and stays in the registry.
RotateBackups(m) ==
    /\ phase[m] = "idle" /\ Excess(m) # {}
    /\ LET gone == {v \in Excess(m) : copies[v] # NoBackup} IN
       /\ copies' = [v \in Versions |-> IF v \in gone THEN NoBackup ELSE copies[v]]
       /\ backups' = [backups EXCEPT ![m] =
                   [v \in Versions |-> IF v \in gone THEN NoBackup ELSE @[v]]]
       /\ retouched' = [n \in Managers |-> retouched[n] \/ version[n] \in gone]
    /\ UNCHANGED <<binary, restored, phase, version, stamps, reloads, damage>>

\* rollback_to_version: get_backup and verify_integrity
Intact(m, v) == copies[v] # NoBackup /\ copies[v] = backups[m][v].sum

\* Mutant of VerifyCopy: any file that exists is restored.
VerifyCopyExists(m, v) ==
    /\ phase[m] = "idle" /\ v \in Registered(m)
    /\ copies[v] # NoBackup
    /\ phase' = [phase EXCEPT ![m] = "verified"]
    /\ version' = [version EXCEPT ![m] = v]
    /\ retouched' = [retouched EXCEPT ![m] = FALSE]
    /\ UNCHANGED <<binary, restored, copies, backups, stamps, reloads, damage>>

VerifyCopy(m, v) ==
    /\ phase[m] = "idle" /\ v \in Registered(m)
    /\ Intact(m, v)
    /\ phase' = [phase EXCEPT ![m] = "verified"]
    /\ version' = [version EXCEPT ![m] = v]
    /\ retouched' = [retouched EXCEPT ![m] = FALSE]
    /\ UNCHANGED <<binary, restored, copies, backups, stamps, reloads, damage>>

\* "Backup file corrupt": nothing changes but the answer.
RefuseCopy(m, v) ==
    /\ phase[m] = "idle" /\ v \in Registered(m)
    /\ ~Intact(m, v)
    /\ version' = [version EXCEPT ![m] = v]
    /\ UNCHANGED <<binary, restored, copies, backups, phase, stamps, retouched, reloads, damage>>

\* fs::copy over the target
RestoreCopy(m) ==
    /\ phase[m] = "verified"
    /\ phase' = [phase EXCEPT ![m] = "idle"]
    /\ restored' = IF copies[version[m]] = NoBackup THEN restored ELSE copies[version[m]]
    /\ UNCHANGED <<binary, copies, backups, version, stamps, retouched, reloads, damage>>

DeleteBackup(m, v) ==
    /\ phase[m] = "idle" /\ v \in Registered(m)
    /\ backups' = [backups EXCEPT ![m][v] = NoBackup]
    /\ copies' = [copies EXCEPT ![v] = NoBackup]
    /\ retouched' = [n \in Managers |-> retouched[n] \/ version[n] = v]
    /\ UNCHANGED <<binary, restored, phase, version, stamps, reloads, damage>>

CleanupBackups(m) ==
    /\ phase[m] = "idle" /\ Registered(m) # {}
    /\ backups' = [backups EXCEPT ![m] = [v \in Versions |-> NoBackup]]
    /\ copies' = [v \in Versions |-> IF v \in Registered(m) THEN NoBackup ELSE copies[v]]
    /\ retouched' = [n \in Managers |-> retouched[n] \/ version[n] \in Registered(m)]
    /\ UNCHANGED <<binary, restored, phase, version, stamps, reloads, damage>>

\* The program ends, in the middle of a copy perhaps, and BackupManager::new
\* loads the directory in the order read_dir lists it.
ReloadManager(m) ==
    /\ reloads < MaxReloads
    /\ reloads' = reloads + 1
    /\ \/ UNCHANGED <<copies, restored>>
       \/ /\ phase[m] = "copied"
          /\ copies' = [copies EXCEPT ![version[m]] = TornCopy]
          /\ UNCHANGED restored
       \/ /\ phase[m] = "verified"
          /\ restored' = TornCopy
          /\ UNCHANGED copies
    /\ phase' = [phase EXCEPT ![m] = "idle"]
    /\ LET found == {v \in Versions : copies'[v] # NoBackup} IN
       /\ stamps + Cardinality(found) <= MaxStamps
       /\ stamps' = stamps + Cardinality(found)
       /\ \E at \in [found -> stamps..(stamps + Cardinality(found) - 1)] :
            /\ \A v, w \in found : at[v] = at[w] => v = w
            /\ backups' = [backups EXCEPT ![m] = [v \in Versions |->
                         IF v \in found THEN [stamp |-> at[v], sum |-> "empty"]
                         ELSE NoBackup]]
    /\ retouched' = [n \in Managers |-> retouched[n] \/ (copies' # copies /\ version[n] = version[m])]
    /\ UNCHANGED <<binary, version, damage>>

ManagerStep(m) ==
    \/ RegisterCopy(m) \/ RotateBackups(m) \/ RestoreCopy(m) \/ CleanupBackups(m) \/ ReloadManager(m)
    \/ \E v \in Versions : CopyBackup(m, v) \/ VerifyCopy(m, v) \/ RefuseCopy(m, v)
                           \/ DeleteBackup(m, v)

BackupNext == UpdateBinary \/ DamageCopy \/ \E m \in Managers : ManagerStep(m)

BackupSpec == BackupInit /\ [][BackupNext]_backupVars

-----------------------------------------------------------------------------
(* Properties                                                              *)

\* verify_integrity: with other programs writing and removing files of the
\* directory, what a rollback copies is what this manager backed up under that
\* version, unless the file changed after it was verified.
RestoresWhatWasBackedUp ==
    [][\A m \in Managers :
        phase[m] = "verified" /\ phase'[m] = "idle" /\ restored' # restored /\ ~retouched[m]
        /\ reloads' = reloads
            => restored' = backups[m][version[m]].sum]_backupVars

\* "Versioned rollback support": a backup the manager lists and whose file is as
\* create_backup left it can be rolled back to.
ListedCanBeRestored ==
    \A m \in Managers, v \in Versions :
        v \in Registered(m) /\ copies[v] \in Builds /\ damage = 0 => Intact(m, v)

=============================================================================
