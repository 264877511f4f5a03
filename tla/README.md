# Formal verification of terraphim-clients

TLA+ modules of the stateful parts of this repository, the TLC runs that check
them on small instances, and theorems that TLAPS proves for every instance.
Every definition is translated from the Rust source; `PROJECT.json` names the
lines each one stands for.

Contents: [system](#the-system) - [inventory](#inventory) -
[modules](#modules) - [runs](#runs-and-bounds) - [fairness](#fairness) -
[proofs](#proofs) - [findings](#findings) -
[not modelled](#not-modelled) - [plan](#plan) - [running](#running)

## The system

The repository holds the client programs of Terraphim: `terraphim-agent` (a
command line, a REPL, a TUI and the `listen` daemon), an MCP server, a language
server, a search tool, and the library with which all of them update
themselves. They are separate processes. What couples them is

- **files**: the executable that all of them update, the directory of its
  backups, the agent store (memories and learning records), the shared
  learnings, the procedures, the persisted configuration, the learned notes of
  terraphim-grep, the session files of other assistants;
- **locks inside a process**: the configuration and the autocomplete cache of
  the MCP server, the index of the shared learnings, the five maps of the
  command registry, the session cache, the documents of the language server;
- **remote services**: a Gitea repository (the listener, the wiki), the R2
  manifest and GitHub releases (the updater), a language model;
- **tasks**: the update scheduler with its blocking closures, the listener's
  child processes, debounced diagnostics, the session watcher.

So the hard behaviour is interleaving of processes on files, read-modify-write
across awaits, a process that dies between two writes, a remote call that fails
after it had its effect, and retry. Unit tests reach little of it.

## Inventory

Modelled components, with state, operations, interactions, what is hard, and
what makes them correct.

| component | state | operations | interacts with | hard | correct when |
|---|---|---|---|---|---|
| listener (`listener.rs`, `shell_dispatch.rs`) | poll cursor, seen events, page in hand, child processes; all in memory | poll, page, claim, acknowledge, refuse, hand off, run, reply, restart | Gitea comments and assignees; other agents; child processes | comments that arrive or change between two pages, calls that fail after they took effect, two agents claiming, restart without state | no command is skipped, none runs twice, none runs on another agent's issue |
| self-updater (`terraphim_update`: `lib.rs`, `manifest.rs`, `signature.rs`, `policy.rs`, `downloader.rs`) | the executable, the package policy, the operation in hand | check, update, check-and-update, verified update, on R2 or GitHub | the two release hosts, package managers, other processes of the same executable | two hosts that disagree, fallback after failure, policy read long before the write | only signed archives, only newer ones, never over a packaged executable |
| backup manager (`rollback.rs`) | a registry in memory, files in a directory | create, rotate, roll back, delete, clean up, reload | other managers of the directory | the directory outlives the registry; others write the same names | a rollback restores what was backed up |
| update scheduler (`scheduler.rs`, `lib.rs`) | the running task, its handle, the channel | start, stop, tick, check | tokio tasks, blocking pool, receiver | abort of a task whose closure runs on; start after stop | one run, silence after stop, no missed tick, stop returns |
| agent store (`agent_store*`, `learnings/capture.rs`) | memories, learning records, two lock files | capture, record, correct, export; the older commands | MCP server, command line, older learning commands | processes that die anywhere, writers that truncate instead of renaming | acknowledged records are kept; each transaction is atomic |
| MCP configuration and autocomplete (`terraphim_mcp_server/src/lib.rs`) | configuration and cached index, each behind a lock | update configuration, build, look up, search, serialise, deserialise | concurrent tool calls | an index built from a configuration that changes meanwhile | an index served is of its role as configured |
| shared learnings (`shared_learning/store.rs`, `markdown_store.rs`) | a file per learning, an index per process | open, insert, deduplicate, merge, apply, touch, promote, approve, reject, archive | several calls and processes | the lock is released before the file is written; truncation | created learnings survive; no trust that was not earned |
| language server (`terraphim_lsp/src/server.rs`) | documents, one pending task each | open, change, close, debounced scan, publish | the editor, concurrent handlers | an abort that comes too late, edits within the debounce | every edit is answered by diagnostics of it or of a newer text |
| command registry (`commands/registry.rs`) | five maps, each behind a fair lock | register, reload, resolve, discover, statistics, index, analyse | tasks that share it | locks kept over the next lock, check then insert | the maps agree; which calls can deadlock is known |
| command execution (`commands/validator.rs`, `mod.rs`, `hooks.rs`, `executor.rs`, `modes/`) | rate counters, concept cache, audit log | security check, validation, pre hooks, executor, post hooks | the clock, roles, the knowledge graph | five lists that each vet another thing | only vetted words start; the rate holds |
| procedures (`learnings/procedure.rs`, `replay.rs`, `learn_command.rs`) | one JSON-lines file | record, add step, outcome, enable, disable, health, replay, from session | other runs on the file | no lock, rewrite line by line, torn lines | a run alone does what was asked and nothing else |
| agent configuration (`service.rs`, `main.rs`) | the persisted configuration | load, bootstrap, select, add, set, reload, save | role file, `--config`, project directory, other runs | four sources, a save that may fail | what earlier runs saved is kept |
| hybrid search (`terraphim_grep`) | learned notes | search, judge, synthesise, curate | language model, knowledge graph, other runs | fallbacks at four places, notes without a lock | the model is asked only when it was asked for |
| sessions (`terraphim_sessions`: `service.rs`, `connector/`) | a cache, a flag; of the watcher: pending paths, what was sent | query, get, import, clear; watch | session files of other assistants, the subscriber | the flag is set long after it was read; files half written; a full channel | an empty answer is the truth; what was written arrives |
| learning capture (`learnings/capture.rs`, `compile.rs`, `hook.rs`) | two directories of Markdown files, the compiled thesaurus | capture a failed command, capture a correction, correct, compile | hooks of assistants, the agent store, `replace` | what was taught is used much later, from a file, in whichever directory is current | what a user taught about a tool is suggested, and nothing else |
| wiki synchronisation (`shared_learning/wiki_sync.rs`) | pages of a wiki | synchronise a batch | `gitea-robot`, people, other runs | a call killed at its timeout may have had its effect | the next run repairs what was left |

The other parts hold no state of their own or only texts; see
[not modelled](#not-modelled).

Forty hazards are listed in `PROJECT.json`, each at its line, with the property
that would catch it or the reason why none does.

## Modules

| module | models | notes |
|---|---|---|
| `Listener` | the listener daemon, its users, other agents and the clock | one action per await |
| `Updater` | every public update operation, both hosts, package managers | processes share one executable |
| `BackupManager` | managers of one backup directory | |
| `UpdateScheduler` | the periodic check and its owner | tokio's task and abort semantics |
| `DurableStore` | what the agent store promises: atomic transactions | abstract specification |
| `AgentStore` | the agent store and the older commands | implements `DurableStore` |
| `McpService` | configuration and autocomplete of the MCP server | two locks |
| `SharedLearningStore` | index and files of the shared learnings | processes with several calls |
| `LspServer` | the language server and its editor | handlers and tasks interleave |
| `CommandRegistry` | the registry's maps, their fair locks and its callers | queues of tokio's `RwLock` |
| `CommandExecution` | a command on its way to a process | one action per check, hook and executor |
| `Procedures` | the procedure file and the commands on it | killed between two lines |
| `AgentConfig` | runs of the command line on the persisted configuration | |
| `GrepSearch` | overlapping runs of terraphim-grep | a chunk is a line, the path it was found in and which copy of it |
| `SessionService` | the session cache and its automatic import | one program or one command per service |
| `SessionWatch` | the watcher of Claude Code's files and its subscriber | one action per flush and send |
| `LearningCapture` | learning directories, suggestions, the compiled thesaurus | texts are sequences of words |
| `WikiSync` | synchronisations, people and the wiki | one action per call of `gitea-robot` |
| `ListenerProofs`, `UpdaterProofs`, `McpServiceProofs`, `SessionServiceProofs`, `AgentStoreProofs` | theorems about the module of that name | `AgentStoreProofs` has the refinement of `DurableStore` |
| `BackgroundProofs` | theorems about `UpdateScheduler`, `LspServer`, `SessionWatch` and their composition `MCBackground` | |
| `AgentFilesProofs` | theorems about `SharedLearningStore`, `BackupManager`, `AgentConfig`, `Procedures` and the composition `MCAgentFiles` | |
| `CommandProofs` | theorems about `WikiSync`, `GrepSearch`, `CommandRegistry`, `CommandExecution`, `LearningCapture` and the composition `MCCommands` | |
| `MC*` | instances for TLC | |

Conventions: one action per critical section, await or system call that other
actors can see; history variables carry what the properties compare and steer no
action of the code (`used` of `McpService` and the budgets restrict the
environment); bounds are constants named
`Max...` and stand in the guards; a definition whose comment begins "Mutant of"
is a plausible mistake that no specification uses: a property must fail when
the definition is replaced by it.

Three of the `MC` modules hold several components that share nothing:
`MCAgentFiles` (agent store, shared learnings, procedures, configuration,
backups), `MCBackground` (scheduler, language server, session watcher, MCP
calls) and `MCCommands` (registry, execution, search, sessions, learnings, wiki). Their variable
`which` is chosen at the start and names the component that moves; the others
keep their initial state, which the initial predicate fixes. So the states of
the run are the sum of the components' states, not their product, and every
behaviour is one of a single component. `TypesOK` is the type invariant of the
one that moves.

### Listener

The tracker is external: comments by id, listed in the order of their ids,
filtered by `updated_at >= since`, cut in pages of `PageSize`; and a claim that
is atomic. The daemon sleeps (`Wake`), fetches pages (`FetchPage`, `NextPage`,
`EndPoll`), and takes the comments of a page one by one (`IgnoreComment`,
`FetchIssue`, ...). For each command it claims (`Claim`, `ClaimRefused`,
`ClaimRetry`, `ClaimFails`), acknowledges (`PostAck`), then refuses, hands off
or spawns; `WaitTimesOut` leaves the child running, as the code does. A failed
call to the tracker may have had its effect. `Crash` and `Restart` lose the
cursor and the seen events. Users post, edit and delete; other agents claim
what is free and give it up.

Assumptions: a comment's number of commands and their meaning are those of
`UserPosts`; the daemon and the tracker read one clock; another person does not
take away an issue that this agent holds (between claim and spawn the code does
not look again, `listener.rs` 1507-1561, so such a change would not be seen).
Deletions occur only in the dispatch run: a deletion between two page fetches
shifts the later comments one place forward, so one can fall between the pages
and be skipped. This is the hazard at `listener.rs:1394`; the code promises
nothing about it.

### Updater

A process runs one operation at a time on the shared executable `exe`. An archive
is its version and what verification says of its signature; a failed size,
checksum or signature is one rejection. `host` is the release each host offers
as the newest; `Publish` changes it on one host or both, back to an older one
too. The policy is detected when an operation begins
and again where the code does so. Call sites are the constant `Commands`: the
operation, the backend, whether it chains `with_version`, whether its name is
spelled as in the archives. The run has all of the repository's call sites. That of
the REPL (`repl/handler.rs:1804`) chains no `with_version` and says
`terraphim_agent` where the archives hold `terraphim-agent`: it fetches a release
that need not be newer than the program and reports Updated, but finds no file of
that name in the archive, so that the executable stays.
`NewerThanRunning` is about what an operation does to the executable.

### BackupManager

A manager's registry (`backups`) maps versions to a timestamp and a checksum; the
files (`copies`) are shared. `ReloadManager` rebuilds the registry from file names,
with empty checksums, as `load_existing_backups` does. A copy can be interrupted
(`TornCopy`).

### UpdateScheduler

A run is a spawned task: first check, then tick and check in turn. A check is a
closure on the blocking pool, which an abort does not stop. `stop` aborts the
run and waits for `StopTimeout`. A receiver may go away at any time.

### AgentStore and DurableStore

A transaction takes its lock without waiting, reads, admits, renames, reads
back and lets go; it may fail or die at any step. The older commands take the
same lock of the records, but truncate the record and then fill it, and look
neither at the other records nor at the limits.
`Linearizable` says that `AgentStore` implements `DurableStore` with the
identity on `memory` and `records`: every step of it is one abstract transaction
or changes neither.

### McpService

A call holds a lock from one await to the next. `BuildReadsRole`, `BuildLoads`
and `BuildInstall` are the three critical sections of
`build_autocomplete_index`; an update takes the configuration lock and then
resets the cache. `Reuse` says whether an update may bring an earlier
configuration of a role back.

### SharedLearningStore

A call changes the index under the lock, clones the learning, lets go, and then
`Truncate`s and `Fill`s the file. `hand` is the clone, and `live` says whether the
file it has open is still the one of that name. `ToMarkdown` and
`FromMarkdown` are the two halves of the round trip, which is no identity. The
frontmatter has no status. And `from_markdown` ends it at the first `---`, while the
texts in it (title, agent, command, error, correction, agent names) may hold one:
`mark` says where the first one is. In front of the fields that must be there the
file does not load (`broken`); behind the trust level it loads without the counts
(`early`); behind the counts it costs later fields only (`late`). A learning without
such a text is `whole`; one that was loaded is whole again, for the text was cut.
`marked` collects the learnings for which a caller brought such a text. Within this
repository only single commands open the store; the type is also a library
with `GraphTouchStore` and `LearningStore` implementations for longer-lived
processes, which the run has one of. `contested` marks the learnings used by
overlapping calls or several processes: for these the code loses updates, and
`AloneIsDurable` claims nothing. `CreatedKept` and `TrustEarned` hold for them
too.

### LspServer

tower-lsp starts handlers in order and runs a few at once. `Documents` is the
part of a handler under the lock of the documents, `Schedule` and `Clear` the
part under the lock of the pending tasks, which aborts the old task. A task wakes,
scans what it read and publishes; an abort removes one that sleeps and comes too
late for one that scans (`overtaken` remembers when an older text was then shown
over a newer one; `EditIsAnswered` promises nothing for such a document).

### CommandRegistry

A step is a section under one lock, or the wait for one. `queue` is the queue of
each lock: a reader waits behind a writer that came before it, as tokio's
`RwLock` has it. `held` are the read locks that a call keeps while it takes the
next. This is where the registry can deadlock, and `DeadlockOnlyByUpgrade` says
how. There are three ways, each with a writer of the commands in the queue:

1. an index is rebuilt while a discovery still looks up what it found in the last
   one;
2. the same, but the discovery waits for the aliases behind one who is about to
   change them, while another call follows that alias and waits for the commands;
3. statistics are taken while an alias is followed.

The second takes five tasks (a build, a discovery, a call that follows an alias, a
reload and a registration). A statement without it held in the run, whose four
tasks reach the first and the third, and did not admit a proof; an instance with
these five tasks (561,819 states, too long to keep with the other components)
shows it. The theorem is about any number of tasks. `raced`
marks two registrations that both passed the check for a duplicate before
either inserted; `MapsAgree` does not speak of these.

### CommandExecution

A command line is a record of the lists it matches: the whitelist, the blacklist,
shell characters, the risky words of the hybrid mode and so on. `Requests`
holds lines on which the lists disagree. The validator looks at one text
(`shown`) and the executor runs another (`line`), because the caller passes both;
`StartedIsVetted` says what holds of every process that starts nevertheless.
Hooks are sorted by priority and, as `sort_by_key` does, otherwise left in the
order of registration (`Sorted`). A request that is counted is a record of the
wall clock, the real tick and a number, so that two in one tick are two.
The clock moves, and may be set back once; `RateBound` counts on real ticks.

### Procedures

A run reads all lines, changes its copy, truncates the file and writes line by
line; `MaxKills` ends one in between. `alone` marks a run that no other
overlapped: overlapping runs lose updates, and `AloneTakesEffect` promises
nothing for them. `Effect` is what an undisturbed run of each command may do to
a map from ids to procedures, written without the file: reading, deduplicating
and rewriting amount to it, torn lines or not. Where several lines bear one id,
the map has the first, which is the one that every command finds. Such a file
is not far-fetched: two overlapping runs that write line by line can leave one,
and a third run by itself then starts from it. `Effect` once took ids to be
unique; the run did not reach the third start, the proof did.

### AgentConfig

A run loads from `--config`, persistence, the role file or the defaults, in this
order, merges the roles of the project, changes its copy and saves all of it. A
persisted configuration without roles is passed over, as the code does, so
`RuntimeChangesKept` is about one that has a role.

### GrepSearch

The environment chooses what the engines find, what the graph matches and what
the model answers. A run searches its `--paths` one after another, each up to a page
(`Page`), and removes what it found twice within one path only. So a chunk is its line,
the path, and which copy of it, because an expansion appends the same chunks
again. The judge counts chunks: a line under two of the paths counts
twice, and `SynthesisIsEarned` says so. Concepts move the chunks they match ahead, and
the best `max` are kept (`BestOf`). Of an exact query the search takes the lines with an
alias anywhere in them (`Aliased`), the judge looks for it as a word
(`Named`): there are hits that do not cover the query. Scores are small integers; `Thresholds` are the judge's. A
note is written in two steps, and checked for before.

### SessionService and SessionWatch

`perCommand` tells a program with one service (the REPL) from one that makes a
service for each command and loads `sessions.json` into it, which nothing writes.
A query reads the flag, reads the cache, asks the connectors one by one, fills the
cache, sets the flag and reads the cache again, each under a lock of its own.
The REPL holds a mutex over a whole command; the callers of the model overlap
as the library allows.

A watched file is its number of complete lines and whether half a line
follows. The clock of a path is the age of its newest event in units of the
poll interval, and the watcher's thread is at the poll, in a flush or in a
`blocking_send`. A half line may not parse, or be skipped.

### LearningCapture

A failed command is its parts, the operator between them and the words of its
error. A file is a learning or a correction; what is written between backticks
decodes as a backslash. A suggestion is for the earliest word of the text that
has an entry, and only without one for the earliest concept that the text names
(`capture.rs:1060` and `:1070`). Of several preferences about one word the
directory's order decides, which is any. `CorrectLearning` may hit a file of either kind, and
`StartProject` moves the storage location to a `.terraphim` that somebody makes.

### WikiSync

The pages are external: what they hold, and that a page to create must not
exist and a page to update must. A call of `gitea-robot` succeeds, is refused, or
fails or is killed after 30 seconds, with or without its effect; a run may die.
`touched` collects the pages on which a fault or somebody else came between a
run and what it read.

## Runs and bounds

| run | shows | bounds |
|---|---|---|
| `listener_paging` | no skipped command, every command decided in the end | pages of one, two posts of two commands or none, three ticks, one edit, one fault: a comment can arrive, change or be retried between any two pages |
| `listener_dispatch` | at most one process per command, none on another's issue, no replay after a restart | one post out of three that mix handing off, running and refusing, one edit, deletion, fault and restart |
| `updater_operations` | signed, newer, final rejection, packaged executable kept, operations end | all seven call sites, two processes, three versions, the middle one installed, one publication, two operations: enough for every pair of operations to overlap |
| `backup_reload` | finding | one manager, one restart, nothing damaged |
| `background` | scheduler: one run, silence after stop, no missed tick, stop ends; language server: every edit answered; watcher: what was written arrives; MCP calls: coherent answers, no stale active index, every call returns | two runs on one channel, three ticks, interval and timeout of one tick; one document, four notifications, three handlers at once; two files of two messages, three writes, a channel of one; two calls, two roles, three configurations, one update (two in `mcp_config_restored`; the theorems hold for any number) |
| `agent_files` | store: acknowledged data kept, readable, atomic transactions; shared learnings: kept, trust earned, durable when alone; procedures: a run alone has its effect; configuration: earlier changes kept; backups: a rollback restores what was backed up | two store processes and an older command, three ids, limits of two; two learnings with or without a `---` in front of the fields that must be there or of the counts, three calls in two processes, one exit; two runs over a file of two procedures and a torn line, one kill; two runners, three commands; two managers of two versions, one backup kept, a reload and a damaged file |
| `commands` | registry: maps agree, index matches, which deadlocks; execution: rate, vetted starts; search: synthesis earned; sessions: empty only after an import; learnings: a suggestion is what was taught; wiki: the next run repairs | four users with one operation each; seven lines that between them match every list, three calls, one set clock; two searches over two paths, one below the other, of three lines, a crash; two callers, three operations, two sources; three files of four failures and six sayings; two synchronisations of two learnings, a fault, a change by people |
| `mcp_config_restored` | finding | two calls, two roles, two updates, with `Reuse` |
| `suggestion_decision` | finding | one process after another, one learning |
| `learning_text` | finding | one process after another, one learning with any text |
| `listed_session` | finding | two commands |
| `taught_with_backticks` | finding | one saying |

Two actors suffice where the properties relate a pair: a third actor mostly
repeats an interference that the second can already do at any step. The proofs
found two exceptions, the deadlock of five tasks and the third run of
[procedures](#procedures): for what is proved the bounds no longer matter. Where a
limit matters it is set so low that the run reaches it. The
passing runs report no deadlock: the system may stop, when a daemon that crashed and
is not restarted, an operation budget is used up or a scheduler is stopped. That
nobody waits for ever is what the liveness properties and
`DeadlockOnlyByUpgrade` say.

Some properties are narrower than their names, because the code promises no more; each
says so where it is stated. `AloneTakesEffect` and `RuntimeChangesKept` are about runs
that no other overlaps, `MapsAgree` about registrations that did not race,
`RestoresWhatWasBackedUp` about copies nobody rewrote after they were verified,
`SyncRepairs` about pages nobody else changed meanwhile and calls that did not fail,
`NewerThanRunning` about the version a process runs, not what another one installed since.

No run uses symmetry.

## Fairness

- `Listener`: weak fairness of the daemon's own actions as one. The runtime
  polls the one task, each call to the tracker returns or fails by its timeout,
  the sleep ends, and `execute_dispatch` bounds the wait for a child. Nothing is
  assumed of users, other agents, children or restarts.
- `Updater`: weak fairness of each process's next step: every download and
  request has a timeout and a bounded number of attempts. Nothing makes a
  process begin an operation.
- `UpdateScheduler`: weak fairness of time, of the task, of a closure's end and
  of the return of `stop`; none of the receiver or the owner.
- `McpService`: strong fairness of a call's next step. A call waits on a tokio
  lock; these locks are first in, first out, so a call that could take the lock
  again and again does take it.
- `LspServer`: weak fairness of the handlers and of the tasks: tokio polls both. The
  editor need not send anything.
- `SessionWatch`: weak fairness of the thread, of time, and of the subscriber as
  long as it lives. Nobody has to write.
- `MCBackground` states the last three and the scheduler's, each for its component.
- The other modules have no liveness property and no fairness.

## Proofs

TLAPS proves these for every value of the constants that meets the module's
assumption. The assumptions have names (`ListenerAssumption`, `UpdaterAssumption`,
`McpAssumption`, `StoreAssumption`, `SharedAssumption`, `BackupAssumption`,
`ConfigAssumption`, `ProcAssumption`, `GrepAssumption`, `RegistryAssumption`,
`ExecutionAssumption`, `LearnAssumption`, `LspAssumption`, `WatchAssumption`, `SessionAssumption`,
`WikiAssumption`, and `BoundsAssumption` of the scheduler) and say: bounds
are natural numbers; sizes, limits and intervals that the code divides by or
counts to are positive; a value that stands for nothing is none of the others;
sets of files of one directory, of lines, of words and of sessions are finite; what decoding
leaves of a word is not nothing. Two say
more about the code: a definition's name is not empty
(`validate_definition` refuses it), and no two definitions of `Loaded` share a
name or an alias. Some theorems have a hypothesis of their own, which the table gives.
`FilesSelectOwn`, of `ConfigTypeCorrect` and `FilesTypesCorrect`, is that the embedded
defaults, the file of `--config` and the role files select a role they have, and the
project's file one of its own or none. Nothing in the code checks it of a file, and
with a file that selects a role it lacks the configuration saved may do so too.

| theorem | states |
|---|---|
| `ListenerProofs!TypeCorrect` | `Spec => []TypeOK` |
| `ListenerProofs!AtMostOnce` | `Spec => AtMostOncePerRun` |
| `ListenerProofs!OwnIssuesOnly` | `Spec => NoRunOnForeignIssue` |
| `ListenerProofs!CursorNeverBack` | `Spec => CursorMonotone` |
| `ListenerProofs!NothingSkipped` | `Spec => []NoSkippedCommand`, if `MaxDeletes = 0` |
| `ListenerProofs!NoReplay` | `Spec => NoReplayAfterRestart` |
| `UpdaterProofs!TypeCorrect`, `AlwaysSigned`, `NoInstallAfterRejection`, `PackagedKept` | `TypeOK`, `OnlySigned`, `RejectionIsFinal`, `PackagedNotPromoted` |
| `UpdaterProofs!NoOlderRelease` | `NewerThanRunning`, if every call site that names the executable as the archives do chains `with_version` |
| `UpdaterProofs!FallbacksDescend` | the safety half of `OperationEnds` |
| `McpServiceProofs!TypeCorrect` | `Spec => []TypeOK` |
| `McpServiceProofs!Coherent`, `Current` | `CoherentAnswer`, `ActiveIsCurrent`, if no configuration is brought back |
| `McpServiceProofs!NoCallsWaitForEachOther` | the safety half of `CallsReturn` |
| `SessionServiceProofs!NeverEmptyUnasked`, `SessionTypeCorrect` | `EmptyIsImported`, `SessionTypeOK` |
| `AgentStoreProofs!TypeCorrect`, `NothingAcknowledgedIsLost`, `NeverUnreadableByItself` | `TypeOK`, `AcknowledgedKept`, `StaysReadable` |
| `AgentStoreProofs!TakesEffectAtOnce` | `Spec => Linearizable`, the refinement of `DurableStore` |
| `BackgroundProofs!SchedulerTypeCorrect`, `NeverTwoRuns`, `StoppedIsLast` | `SchedulerTypeOK`, `OneRun`, `SilentAfterStopped` |
| `BackgroundProofs!LspTypeCorrect`, `NoDocumentForgotten` | `LspTypeOK`; the safety half of `EditIsAnswered` |
| `BackgroundProofs!WatchTypeCorrect`, `NoFileForgotten` | `WatchTypeOK`; the safety half of `WatchCatchesUp` |
| `BackgroundProofs!BackgroundTypesCorrect` | `BackgroundSpec => []TypesOK` |
| `BackgroundProofs!BackgroundSafe` | the safety properties of the run `background`, of `BackgroundSpec`, if no configuration is brought back |
| `AgentFilesProofs!SharedTypeCorrect`, `CreatedIsKept`, `TrustIsEarned`, `AloneDurable` | `SharedTypeOK`, `CreatedKept`, `TrustEarned`, `AloneIsDurable` |
| `AgentFilesProofs!BackupsTypeCorrect`, `RestoresTheBackup` | `BackupTypeOK`, `RestoresWhatWasBackedUp` |
| `AgentFilesProofs!ChangesAreKept` | `ConfigSpec => RuntimeChangesKept` |
| `AgentFilesProofs!ConfigTypeCorrect` | `ConfigSpec => []ConfigTypeOK`, if `FilesSelectOwn` |
| `AgentFilesProofs!AloneIsExact`, `ProcTypeCorrect` | `AloneTakesEffect`, `ProcTypeOK` |
| `AgentFilesProofs!FilesTypesCorrect` | `FilesSpec => []TypesOK`, if `FilesSelectOwn` |
| `AgentFilesProofs!FilesSafe` | the other properties of the run `agent_files`, of `FilesSpec` |
| `CommandProofs!RunsRepair`, `WikiTypeCorrect` | `SyncRepairs`, `WikiTypeOK` |
| `CommandProofs!ModelIsEarned` | `GrepSpec => []SynthesisIsEarned` |
| `CommandProofs!BuiltOfTheSame`, `RegistryAgrees`, `DeadlocksAreUpgrades` | `IndexMatchesThesaurus`, `MapsAgree`, `DeadlockOnlyByUpgrade` |
| `CommandProofs!StartedWasVetted`, `RateIsBounded`, `ExecutionTypeCorrect` | `StartedIsVetted`, `RateBound`, `TypeOK` with the audit log |
| `CommandProofs!TaughtIsSuggested` | `LearnSpec => LearnedIsSuggested` |
| `CommandProofs!RegistryTypeCorrect`, `GrepTypeCorrect`, `LearnTypeCorrect` | `RegistryTypeOK`, `GrepTypeOK`, `LearnTypeOK` |
| `CommandProofs!CommandsTypesCorrect`, `CommandsSafe` | `CommandsSpec => []TypesOK`; the other properties of the run `commands`, of `CommandsSpec` |

**Listener.** The safety properties are not inductive: a step that starts a
process does not look at `spawned` or at the assignee. `LInv` adds `HandInv`
(while the daemon is at a comment there is one, on an issue), `ClaimInv` (from
the claim to the spawn the issue is this agent's and the event is in `seen` but
not in `spawned`), `CursorInv` (nothing in the batch is older than the cursor,
nor is the newest time kept for it) and `spawned \subseteq seen`. The claim adds
the event to `seen` before it is acted on, and what is in `seen` is not claimed
again: hence at most one process. That the first comment in hand exists needs a
least element of a set of numbers, the lemma `LeastNumber`.

`NothingSkipped` needs to know where an undecided comment is while pages are
read (`PollInv`). Either it is in the batch as it is now, or its rank among the
listed comments lies behind the pages fetched, or, after the last page, it is
younger than everything read. `FullInv` says that a page behind which another
is fetched was full: a comment that is edited meanwhile keeps its rank, since
the tracker lists by id, and one that is posted or edited enters the listing at a
rank that pushes others back, never forward. Only a deletion pulls them forward,
so the theorem assumes `MaxDeletes = 0`; with deletions the statement is
false (the hazard at `listener.rs:1394`). `TimeInv` (no time is ahead of the clock, a
copy is never newer than its comment) gives that moving the cursor to the newest
time read passes nothing younger, `ServedInv` that a comment which leaves the
batch has all its commands decided. `NoReplay` uses the last two: what a run
repeats of an earlier one it read at or after its start.

**Updater.** `UInv` adds `SignedInv` (past verification the archive in hand is
signed), `FinalInv` (an operation whose archive was rejected is over),
`PackagedInv` (a process about to rename knows of no receipt) and `ChosenInv`
(past the comparison, the archive is newer than the version compared with). Where
the call names its own version that is the running one, whatever the hosts do
between the two requests; where it does not, the theorem's hypothesis is that it does
not name the executable either, and then it replaces nothing. `StepsLeft` ranks the places of an operation: each step of
it lowers the rank, of nine at most, so that no failure of a host sends it back
to where it was.

**McpService.** `TypeInv` adds what a call has in hand at each of its steps. `SnapshotInv` adds to the two properties that a
build whose role is still as it read it has loaded that very configuration, that
one which passed the comparison keeps both until its index is stored
(`Snapshot`), and that every cached index is of its role (`CacheCoherent`).
Since an update gives a role no configuration that was used before
(`UpdateKeepsSnapshot`), a build that loaded another configuration than it read
fails the comparison. Without the assumption this is false, which is the run
`mcp_config_restored`. `WaitsFor` says which call waits for which: for the
configuration's lock or, to write the indexes, for those that read them. A call that
reads them is in its search (`ReadersSearch`) and waits for nobody, so no set of
calls waits within itself.

**SessionService.** `SInv` adds that the calls are records (`Shape`), that the
flag is set only once the question of the import is settled (`Settled`: something
is cached, an import came back with nothing, or the cache was cleared), and that a
query past its import has found it settled (`PastImport`). A cache that was filled
is emptied only by `clear_cache`, so `Settled` is never lost within one service.
For the types, `WithinLimits` bounds what an import has found while it goes from
source to source: once it has its limit, the rest is dropped.

**AgentStore.** An acknowledged memory may leave the file only when `Cap`
younger ones are there, so the order in the file matters: `MemoryInv` keeps the
memories in the order of their ids and says that what a writer read is still
the file while it holds the lock. `RecordInv` says what the holder of the other
lock knows of its record (`Knows`): a correction's record exists, there is room
for a new one, what was written is what is read back. `KindInv` ties the steps of
a process to its operation. With these, every step is one of
`DurableStore` or changes neither file: the rename is where a transaction takes
effect; where an older command truncates a record the abstract store has `Tear`,
and where it fills it `Record` or `Correct`.

**UpdateScheduler.** `HandleInv` says that the scheduler is running exactly when it
holds a handle, which is that of the newest run, and that runs on which `stop` gave
up are older. `StoppedInv` says that a receiver has seen `Stopped` of runs before
the current one only. Together they are what a `start` needs that comes
after a `stop` while the old closure still runs.

**LspServer.** `Owed` says that somebody is going to publish the diagnostics of the newest
write of a document: a handler that has not scheduled its task yet, a task that
sleeps (it reads the document when it wakes), or one that has read the newest write. An
abort takes such a task away only for a handler that starts the next one, or closes the
document. That the tasks aborted are those of the document needs `ReadInv` (the
newest task of a document is of that document), and that the bounds of the model do not
swallow a handler's task needs `CountInv`.

**SessionWatch.** `PendingInv`: a file with more messages than were taken from it has an event
in the queue or rests since fewer ticks than the debounce; `EmittedInv`: what was
taken was delivered or is being sent. Between them nothing is lost while the
subscriber lives, however often a full channel stops the thread.

**SharedLearningStore.** `CreatedKept` holds although the index is unlocked before
the file is written: `Kept` says that the file of a learning is there, is being
written by a call that has it open under its name, or that archiving or a death in
between is on record, and a call inserts a learning only when it is `Kept`
(`SavedInv`). `DoomedInv` bounds the files an archiving call will delete.
`AloneInv` says of a learning nobody contests that one call at most is under
way, that its process alone has it in the index, as the call will save it, and that
without such a call index and file agree up to the status (`FileInv`). Both say
what they do of a learning no caller gave a text with `---` (`marked`): such a learning, in an
index, in hand or in its file, is `whole` (`Honest`), and a whole one loads as it was
written.

**BackupManager.** `VerifiedInv`: between verification and copy the file is the one
registered, until somebody writes it (`retouched`) or the manager registers
another.

**AgentConfig.** `CopyInv`: the copy of a run that is alone, outside a project and
without `--config`, is the persisted configuration until the command changes
it, and afterwards differs only in what the command is about. `LoneInv` says that
nothing runs beside it. `OwnInv`, for the types, is about every run, alone or not: the
selected role is among the roles of each copy that may be saved, hence of the file,
whoever saves last.

**Procedures.** `Exact`: until it truncates the file, a run that is alone has the file
as it found it; what it is about to save or write has one of the effects wanted;
and the file is what it has written of it so far. The rest is about data: a
lemma that the lines kept in a copy are those that parse, in their order, that
insertion by id changes the map at that id (`Put`) and that the health check
disables the procedures it should. They are proved by the ranks of the lines,
without induction over the file. `AtPlace`, for the types, bounds the step and
the line a run is at.

**WikiSync.** `ProgressInv`: a learning of the batch whose page nobody else and no
fault met is to come, at hand with the page as its next call requires, or
written as it was when the run began. For the types, `OwnText` says that what a
page holds of a learning belongs there and is no newer than the changes made, and
`CountsOnce` that a run has each learning to come, at hand, written or failed, and
in one of them only.

**GrepSearch.** `Staged` says what a search has done at each of its places; the
hard conjunct is that a search which reaches the model has enough chunks as they were
found (`Found`) that cover part of the query (`Earned`), because the judge counts before
the expansion adds each chunk a second time (`FoundOnce`, `FoundTwice`), and the
covered words are those of the first copies.

**CommandRegistry.** `MapsAgree` speaks of the moments between calls. `StageInv`
says what each stage of a registration or a reload has left undone: which command
does not answer to its aliases yet, which name is not listed yet, which maps are
still to be cleared, and that unless two calls raced only one call is at such a
stage. `BuildInv` says that a build keeps the commands locked from its
reading to its second store. For `DeadlockOnlyByUpgrade`, `Keeps` says at which
places a task keeps which locks and `QueueInv` that a queue holds each task that
waits for that lock once. In a set of tasks that wait for each other, the task
first in a queue waits for a keeper, and only writers wait for keepers
(`FirstWrites`, by a least element of the queue's positions); the lock of the
keeper's next wait is one step along a chain which ends at the commands, and the
three ways are its cases.

**CommandExecution.** `Vetted` says which hooks ran before each phase and that a
process that is started passed what its executor asks. The sorting of hooks is by
counting those ahead (`Sorted`, `Ahead`), so its lemmas need no induction.
`RateKept`: what was granted since the last adjustment of the clock is as old by
the wall clock as by real ticks, and is still counted while it is in the window;
hence those granted in any window are among those counted when the last of them
was, at most `max`. `LogIs` relates the audit log to the number of events: entry `i` of a
log of length `n` is event `events - n + i`. One event keeps it, cut or not (`EnteredIs`), so the
one to four events of a security check do.

**LearningCapture.** `FilesInv`: a file is a learning or holds exactly what somebody
said, and what was said is in the file it went to unless that was rewritten. So
an entry of any thesaurus of a directory was taught there (`TaughtIs`), and what
is in force has an entry in each of them (`TaughtIsThere`), whichever order the
directory is read in.

**Only model-checked.** All liveness (`EveryCommandDecided`, `OperationEnds`,
`EveryTickChecked`, `StopEnds`, `EditIsAnswered`, `WatchCatchesUp`,
`CallsReturn`): the provers have no fairness or ENABLED. Of four of them the safety half is
a theorem: `NoDocumentForgotten` and `NoFileForgotten` say that what is not done yet is
on somebody's way, `FallbacksDescend` that each step of an operation brings it nearer its
end, `NoCallsWaitForEachOther` that a call under way waits for one that may go on;
fairness has only to carry it out. Every other property
of the passing runs is a theorem, of its component and, for the three composing
instances, of the composition (`FilesCompose`, `BackgroundCompose`, `CommandsCompose`: a
behaviour of the composition is one of each component).
What recursive data computes for every input is beyond the provers in any
case: no module relies on it.

## Findings

Each is a run in which TLC reports the property violated.

1. `backup_reload`: a manager gives the backups it finds an empty checksum and
   then refuses to restore them, so a backup outlives its process only in name
   (`rollback.rs:130`).
2. `mcp_config_restored`: a role that is changed and changed back while its
   index is built is served an index of the configuration in between
   (`lib.rs:859`).
3. `suggestion_decision`: an approved or rejected suggestion is pending again in
   the next command, because its file has no status (`markdown_store.rs:62`).
4. `learning_text`: a learning with `---` in its title, agent or another text that
   is written in front of a field which must be there is stored in a file that no
   process loads: `from_markdown` takes it for the end of the frontmatter
   (`markdown_store.rs:338`).
5. `listed_session`: `learn procedure from-session` and `sessions expand` look for
   a session in `sessions.json`, which no program writes, and advise to run
   `sessions list` first (`main.rs:1768`, `learn_command.rs:497`).

6. `taught_with_backticks`: "use `bun` instead of `npm`" is stored so that it
   decodes as a preference about a backslash, and is never suggested
   (`capture.rs:718`; `compile.rs:5` says that it closes the feedback loop).

Disagreements met on the way that have no run of their own:

- `/update install` of the REPL compares releases with the version of the update
  library (`UpdaterConfig::new` without `with_version`, which `lib.rs:290` warns of) and
  spells its name as no archive does. It reports that it updated to a release not newer
  than the program, and replaces nothing (`repl/handler.rs:1804`, `lib.rs:1386`).
- `shell_dispatch.rs:184` says that a timeout kills the child; without
  `kill_on_drop` the child goes on (`WaitTimesOut` leaves it in `children`).
- `docs/blog/terraphim-agent-shared-learning.md:33` says that a similarity of
  0.85 rejects a duplicate; `StoreConfig` has 0.8, and duplicates are merged.
- `config.rs:34` of `terraphim_update` promises at most one check per interval;
  a run checks when it starts, and again at the first tick, which is immediate.
- `list_sessions` says that it imports when the cache is empty; after the first
  attempt it never does again, whether that failed or the cache was cleared since.
- `cluster_by_concepts` says that any two members share a tenth of their concepts;
  each is compared with the average of those before it.
- A session file that is written more often than the debounce is not sent while
  that lasts, and one that was cut only when it is longer than ever before.
- The comment at `terraphim_grep/src/lib.rs:395` and
  `RELEASE_NOTES_v1.20.0.md:21` say that `force_rlm` fails fast without a client;
  the search falls back to its results. With the default thresholds the judge
  never answers `Sufficient`, because diversity is at most one. When an
  expansion is asked for, every chunk appears twice.
- `commands/validator.rs`: the comment on the allowed hours says nine to five, the
  range includes the hour after 17:00. A request that a later check denies still
  counts for the rate. Roles without an entry are refused nothing.
- The preflight and backup hooks look at the command's definition while the executor runs
  the parameter `command`; the executor takes the mode from the definition, not
  from the validator's decision; `create_executor` gives Firecracker no client, so it
  refuses everything.
- `learn procedure replay` counts a replay that skipped every step as a success. "Use --dry-run to preview" is
  printed by a check that ignores `--dry-run`. Saving a procedure that merges with a
  stored one replaces its confidence and enables it again.
- A command run in a project saves the project's roles with the user's;
  `--config f roles select` overwrites the persisted roles with those of `f`;
  `setup` without
  `--add-role` clears the other roles and leaves the default role naming one that is gone.
- `reload` of the command registry leaves the index of the definitions it dropped.
- The comment at `capture.rs:1450` says that entries without importance sort after
  scored ones; the comparison puts them first, so `learn list --recent` may show
  no scored learning at all.
- `learn correct` takes any Markdown file with the prefix and rewrites a
  correction as a learning: it is compiled no more, and `learn list` omits it.
  `learn shared import` imports corrections as learnings without a command.
- `learn correction list --recent n` cuts the mixed list to `n` before it picks
  the corrections. Of two preferences about one word the newer need not win.
- The TUI says "q: quit" and "Enter: view details"; `q` is typed into the query
  and only Ctrl+q quits, and Enter searches again unless the query is empty.
- `setup` says "Use 'done' to finish" of a list without such an option.
- A comment that is deleted while the listener reads its pages shifts the others,
  and the first of the next page is never seen (`listener.rs:1394`); no
  document promises anything about deletions.
- The injector's module says that it stores what it injects; it counts, and the
  command reports "Injection complete".

## Not modelled

| part | why |
|---|---|
| update history, notifications | only tests write the history; the rest is text |
| suggestion metrics, guards, lists and exports of learnings | texts of one process; the files they share with the agent store are in `AgentStore` |
| injector, redaction, validation of texts | texts; the injector only counts |
| robot mode, forgiving parser, judge, scanners, session analyzer | functions of one input, ranking and scoring of texts; no state |
| enrichment and clustering of sessions, their search index, the formats of the assistants | functions of one input |
| the registry's queries of one map, suggestions, parameter checks | one read each |
| MCP search, replace and agent tools | stateless, or calls of the agent store |
| REPL, TUI, command line | input and output; their call sites are in the modules of what they call |
| release scripts, packages | run by hand or by the build |

Left out of the modelled parts: texts, similarity and ranking; limits in bytes;
redaction; permissions and paths; the copies of learnings in the `shared`
directory, which only tests write; `should_check` of the scheduler, which nothing
calls. `backup_binary` and `rollback` of `terraphim_update/src/lib.rs` copy a file
without a manager and are covered by `BackupManager` only as far as the file goes.

## Plan

Done, in this order: `Listener`, `Updater`, `BackupManager`,
`UpdateScheduler`, `AgentStore` over `DurableStore`, `McpService`,
`SharedLearningStore`; proofs of the first two and of `McpService`; then
`LspServer`, `Procedures`, `CommandRegistry`, `CommandExecution`, `AgentConfig`,
`GrepSearch`, `SessionWatch`, `SessionService` and its proof, `WikiSync`,
`LearningCapture`; then the rest of `ListenerProofs`, and `AgentStoreProofs`,
`BackgroundProofs`, `AgentFilesProofs` and `CommandProofs`; then the types of every
component, the safety halves of four liveness properties, and the compositions.

Worth adding: `SelfUpdate`, a composition of `UpdateScheduler` and `Updater` (a
scheduled check that finds a release while another process installs it), and an
abstract specification of the registry's maps.

Next theorems:

1. For the listener, the safety half of `EveryCommandDecided`: a command that was not
   decided is listed behind the cursor, or is in the batch.
2. The registry's maps against an abstract specification: unless two calls raced,
   a registration or a reload takes effect as one step.

## Running

Each row of "runs" in `PROJECT.json` is a module and a configuration:
`tlc -config MCListener_paging.cfg MCListener.tla`. A proof module is checked by
`tlapm ListenerProofs.tla`. The longest runs take two to three minutes on two
cores that do nothing else, the longest proof module some ten.
