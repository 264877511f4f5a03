---------------------------- MODULE MCAgentFiles ----------------------------
(* The files of the agent that several programs share: the store of memories *)
(* and learnings, the shared learnings, the procedures, the persisted        *)
(* configuration and the backups of the binary.  They share nothing with     *)
(* each other, so a behaviour is of the one named by "which" and the others  *)
(* rest.                                                                     *)
EXTENDS AgentStore, SharedLearningStore, Procedures, AgentConfig, BackupManager

CONSTANTS agent, cli,           \* processes of the shared learning store ...
          a1, a2, l1,           \* ... and their calls
          p1, p2, n1, build, wipe, sudo, t1, t2,
  v1, v2, b1, b2        \* versions and contents of the backups

VARIABLE which

\* A process that serves two calls at a time, and one for a single command.
MCOf == [c \in {a1, a2, l1} |-> IF c = l1 THEN cli ELSE agent]

\* Two runs over a file of a trusted and a failing procedure and a torn line.
MCNewIds == <<n1, n1>>
\* "rust install guide" holds "rust install"
MCWithin == [t \in {t1, t2} |-> IF t = t2 THEN {t1, t2} ELSE {t1}]
Trusted == [id |-> p1, title |-> t1, steps |-> <<build, wipe>>, ok |-> 5, bad |-> 1, disabled |-> FALSE]
Failing == [id |-> p2, title |-> t2, steps |-> <<sudo, build>>, ok |-> 1, bad |-> 3, disabled |-> FALSE]
MCStored == {<<Trusted, TornLine, Failing>>}

MCEmbedded == [roles |-> {"Default"}, selected |-> "Default"]
Engineers == [roles |-> {"Default", "Engineer"}, selected |-> "Default"]
MCRoleFiles == {NoFile, Engineers}
MCFlagFile == [roles |-> {"Engineer"}, selected |-> "Engineer"]
MCProject  == [roles |-> {"Site"}, selected |-> "Site"]

FilesInit ==
  /\ which \in {"store", "shared", "procedures", "config", "backups"}
  /\ Init /\ SharedInit /\ ProcInit /\ ConfigInit /\ BackupInit
  /\ which # "config" => roleFile = NoFile
  /\ which # "backups" => binary = b1 /\ version = [m \in Managers |-> v1]

FilesNext ==
  \/ which = "store"      /\ Next /\ UNCHANGED <<which, sharedVars, procVars, configVars, backupVars>>
  \/ which = "shared"     /\ SharedNext /\ UNCHANGED <<which, vars, procVars, configVars, backupVars>>
  \/ which = "procedures" /\ ProcNext /\ UNCHANGED <<which, vars, sharedVars, configVars, backupVars>>
  \/ which = "config"     /\ ConfigNext /\ UNCHANGED <<which, vars, sharedVars, procVars, backupVars>>
  \/ which = "backups"    /\ BackupNext /\ UNCHANGED <<which, vars, sharedVars, procVars, configVars>>

FilesSpec == FilesInit /\ [][FilesNext]_<<which, vars, sharedVars, procVars, configVars, backupVars>>

\* The type invariant of the component that moves: what the files and the programs hold is
\* what the formats allow, no store exceeds what it was given, and so on.
TypesOK == /\ which = "store" => TypeOK
           /\ which = "shared" => SharedTypeOK
           /\ which = "procedures" => ProcTypeOK
           /\ which = "config" => ConfigTypeOK
           /\ which = "backups" => BackupTypeOK
=============================================================================
