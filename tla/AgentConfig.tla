---------------------------- MODULE AgentConfig ----------------------------
(***************************************************************************)
(* The configuration of the command line (TuiService in service.rs, and    *)
(* the `setup`, `config` and `roles` arms of main.rs).                     *)
(*                                                                         *)
(* Every run loads a configuration: from the file of --config, from        *)
(* persistence, from the role_config file that bootstraps it, or from the  *)
(* embedded defaults.  The roles of a project directory are merged into    *)
(* what was loaded.  A command that changes the configuration changes this *)
(* copy and saves all of it, project roles included.  Runs may overlap,    *)
(* and a save may fail.                                                    *)
(***************************************************************************)
EXTENDS Naturals, FiniteSets

CONSTANTS
  Runners,       \* runs of the command line
  RoleNames,
  Embedded,      \* the embedded default configuration
  FlagFile,      \* what the file of --config holds
  RoleFiles,     \* what role_config of settings.toml may name: a configuration,
                 \* BadFile if it cannot be loaded, NoFile if it is not set
  DefaultRole,   \* default_role of settings.toml
  Project,       \* the project's roles and the role it selects
  MaxCommands,   \* bound: commands run
  NoFile, BadFile, NoRole, NoConfig, NoCommand

\* What a configuration is here: the names of its roles, and the role it selects, which
\* need not be one of them when a file says so.
Configs == [roles : SUBSET STRING, selected : STRING]

\* What a run was asked for, with --config or in a project directory
Requested == [op : {"select", "add", "set"}, role : RoleNames, flag : BOOLEAN, project : BOOLEAN]
        \cup [op : {"show", "reload"}, role : {NoRole}, flag : BOOLEAN, project : BOOLEAN]

ASSUME ConfigAssumption ==
  /\ RoleNames \subseteq STRING
  /\ Embedded \in Configs /\ FlagFile \in Configs /\ RoleFiles \ {NoFile, BadFile} \subseteq Configs
  /\ DefaultRole \in STRING
  /\ Project \in [roles : SUBSET STRING, selected : STRING \cup {NoRole}]
  /\ NoConfig \notin Configs /\ NoFile # BadFile
  /\ NoCommand \notin Requested
  /\ MaxCommands \in Nat

VARIABLES
  roleFile,    \* what role_config names; no run changes it
  persisted,   \* the configuration in persistence, NoConfig before the first save
  runner,      \* runner[r]: what run r is doing, with its copy
  issued

configVars == <<roleFile, persisted, runner, issued>>

Resting == [pc |-> "idle", cmd |-> NoCommand, config |-> NoConfig, lone |-> TRUE]
Active  == {r \in Runners : runner[r].pc # "idle"}

----------------------------------------------------------------------------

\* merge_project_config: the project's roles, and its selection, win
MergeProject(config, cmd) ==
  IF ~cmd.project \/ Project.roles = {} THEN config
  ELSE [roles    |-> config.roles \cup Project.roles,
        selected |-> IF Project.selected = NoRole THEN config.selected ELSE Project.selected]

\* the role_config file, with default_role selected if the file has that role
Bootstrapped ==
  IF DefaultRole \in roleFile.roles THEN [roleFile EXCEPT !.selected = DefaultRole] ELSE roleFile

Set(r, rec) == runner' = [runner EXCEPT ![r] = rec]
With(r, config) ==
  Set(r, [runner[r] EXCEPT !.pc = "change", !.config = MergeProject(config, runner[r].cmd)])
End(r) == Set(r, Resting) /\ UNCHANGED <<roleFile, persisted, issued>>

BeginCommand(r) ==
  /\ runner[r].pc = "idle" /\ issued < MaxCommands
  /\ \E cmd \in Requested :
       runner' = [q \in Runners |->
         IF q = r THEN [pc |-> "load", cmd |-> cmd, config |-> NoConfig, lone |-> Active = {}]
         ELSE [runner[q] EXCEPT !.lone = @ /\ q \notin Active]]
  /\ issued' = issued + 1
  /\ UNCHANGED <<roleFile, persisted>>

\* Mutant of Usable: the role_config file is read on every run.
UsableNever(config) == FALSE

\* "Only use persisted config if it has roles"
Usable(config) == config # NoConfig /\ config.roles # {}

\* load_config: --config, persistence, role_config, embedded defaults
LoadConfig(r) ==
  /\ runner[r].pc = "load"
  /\ \/ runner[r].cmd.flag /\ With(r, FlagFile)
     \/ /\ ~runner[r].cmd.flag /\ roleFile = NoFile
        /\ With(r, IF persisted = NoConfig THEN Embedded ELSE persisted)
     \/ /\ ~runner[r].cmd.flag /\ roleFile # NoFile
        /\ IF Usable(persisted) THEN With(r, persisted)
           ELSE IF roleFile = BadFile THEN With(r, Embedded)
           ELSE Set(r, [runner[r] EXCEPT !.pc = "bootstrap", !.config = Bootstrapped])
  /\ UNCHANGED <<roleFile, persisted, issued>>

\* the bootstrapped configuration is saved before the merge; a failure is only a warning
SaveBootstrap(r) ==
  /\ runner[r].pc = "bootstrap"
  /\ persisted' \in {persisted, runner[r].config}
  /\ With(r, runner[r].config)
  /\ UNCHANGED <<roleFile, issued>>

ToSave(r, config) ==
  /\ Set(r, [runner[r] EXCEPT !.pc = "save", !.config = config])
  /\ UNCHANGED <<roleFile, persisted, issued>>

\* update_selected_role refuses a role the configuration does not have
SelectRole(r) ==
  LET config == runner[r].config
      role   == runner[r].cmd.role IN
  /\ runner[r].pc = "change" /\ runner[r].cmd.op = "select"
  /\ IF role \in config.roles THEN ToSave(r, [config EXCEPT !.selected = role]) ELSE End(r)

AddRole(r) ==
  /\ runner[r].pc = "change" /\ runner[r].cmd.op = "add"
  /\ ToSave(r, [runner[r].config EXCEPT !.roles = @ \cup {runner[r].cmd.role}])

\* set_role leaves the one role, selected
SetRole(r) ==
  /\ runner[r].pc = "change" /\ runner[r].cmd.op = "set"
  /\ ToSave(r, [roles |-> {runner[r].cmd.role}, selected |-> runner[r].cmd.role])

\* reload_from_json takes the file as it is
Reload(r) ==
  /\ runner[r].pc = "change" /\ runner[r].cmd.op = "reload"
  /\ IF roleFile \in {NoFile, BadFile} THEN End(r) ELSE ToSave(r, roleFile)

Show(r) == runner[r].pc = "change" /\ runner[r].cmd.op = "show" /\ End(r)

SaveConfig(r) ==
  /\ runner[r].pc = "save"
  /\ persisted' \in {persisted, runner[r].config}
  /\ Set(r, Resting)
  /\ UNCHANGED <<roleFile, issued>>

ConfigInit ==
  /\ roleFile \in RoleFiles
  /\ persisted = NoConfig
  /\ runner = [r \in Runners |-> Resting]
  /\ issued = 0

ConfigNext ==
  \E r \in Runners :
    \/ BeginCommand(r) \/ LoadConfig(r) \/ SaveBootstrap(r)
    \/ SelectRole(r) \/ AddRole(r) \/ SetRole(r) \/ Reload(r) \/ Show(r)
    \/ SaveConfig(r)

ConfigSpec == ConfigInit /\ [][ConfigNext]_configVars

----------------------------------------------------------------------------
(* Properties.                                                             *)

\* The type invariant: the persisted configuration selects a role it has, however the runs
\* overlap and whatever project they run in: every save is of one run's whole copy.
ConfigTypeOK ==
  /\ persisted # NoConfig => persisted.selected \in persisted.roles
  /\ \A r \in Runners :
       /\ runner[r].pc \in {"idle", "load", "bootstrap", "change", "save"}
       /\ runner[r].pc = "idle" <=> runner[r].cmd = NoCommand
       /\ runner[r].pc \in {"bootstrap", "change", "save"} => runner[r].config # NoConfig
  /\ issued \in 0..MaxCommands

\* A run writes the persisted configuration.
Writes(r) == runner[r].pc \in {"bootstrap", "save"} /\ runner'[r] # runner[r] /\ persisted' # persisted

\* "Try persistence first (preserves runtime changes like `config set`)" and "adds the role
\* to the existing config": a run beside no other, outside a project and without --config,
\* takes nothing out of the configuration earlier runs saved, as long as that has a role, but
\* what its command replaces. The role_config file is not read into it a second time, a
\* selection keeps the roles, and a new role keeps the roles and the selection.
RuntimeChangesKept ==
  [][\A r \in Runners :
       /\ Writes(r) /\ runner[r].lone /\ ~runner[r].cmd.flag /\ ~runner[r].cmd.project
       /\ persisted # NoConfig /\ persisted.roles # {}
       => /\ runner[r].pc = "save"
          /\ runner[r].cmd.op \in {"select", "add"} => persisted.roles \subseteq persisted'.roles
          /\ runner[r].cmd.op = "add" => persisted'.selected = persisted.selected]_configVars
=============================================================================
