--------------------------- MODULE CommandRegistry ---------------------------
(***************************************************************************)
(* The registry of markdown commands (commands/registry.rs): five maps,    *)
(* each behind a tokio RwLock of its own, and the calls of concurrent      *)
(* tasks on one shared registry.                                           *)
(*                                                                         *)
(* A tokio RwLock is fair: it queues, and a reader waits behind a writer   *)
(* that came first.  No call keeps a write lock over an await, so a write  *)
(* section is one step; a read lock that is kept over the next await is in *)
(* "held" until the call lets go of it.                                    *)
(***************************************************************************)
EXTENDS Naturals, FiniteSets, Sequences, SequencesExt

CONSTANTS
    Users,        \* the tasks that share the registry
    Kinds,        \* Kinds[t]: the operations task t calls
    Definitions,  \* what a markdown file may define: [name, aliases]
    Listings,     \* the sequences of definitions the directories may parse to
    Loaded,       \* the definitions, with different names, of an earlier load
    MaxOps,       \* bound: the calls of one task
    NoDef         \* no command

Words == UNION {{d.name} \cup d.aliases : d \in Definitions}
Locks == {"commands", "aliases", "categories", "thesaurus", "index"}
Snapshots == SUBSET Words

ASSUME RegistryAssumption ==
    /\ IsFiniteSet(Words)
    /\ \A d \in Definitions : d.name # ""       \* refused by validate_definition
    /\ \A l \in Listings : l \in Seq(Definitions)
    /\ \A t \in Users : Kinds[t] \subseteq {"register", "load", "reload", "resolve", "stats",
                                             "build", "discover", "analyze"}
    /\ Loaded \subseteq Definitions
    /\ \A d, e \in Loaded : d.name = e.name \/ d.aliases \cap e.aliases # {} => d = e
    /\ NoDef \notin Definitions /\ MaxOps \in Nat

VARIABLES
    commands,    \* name -> definition
    aliases,     \* word -> name, or "" for none
    categories,  \* the names pushed to the one category, in order
    thesaurus,   \* the names command_thesaurus was built from, or NoDef
    index,       \* the names autocomplete_index was built from, or NoDef
    held,        \* lock -> the tasks that keep a read lock over an await
    queue,       \* lock -> the tasks that wait, in order of arrival
    place,       \* task -> where its call is; "idle" between calls
    call,        \* task -> [kind, word, def]: the call it makes
    left,        \* task -> the definitions or names still to handle
    snap,        \* task -> the names it read under the lock of commands
    ops,         \* task -> the calls it has begun
    raced        \* history: two calls that change the maps overlapped

registryVars == <<commands, aliases, categories, thesaurus, index, held, queue, place,
                  call, left, snap, ops, raced>>
maps == <<commands, aliases, categories>>
built == <<thesaurus, index>>
locals == <<call, left, snap, ops, raced>>

NoCall == [kind |-> "none", word |-> "", def |-> NoDef]
Registered == {w \in Words : commands[w] # NoDef}
Changing(t) == call[t].kind \in {"register", "load", "reload"}

-----------------------------------------------------------------------------
(* Locks.                                                                  *)

(* The lock the next step of a task takes, and whether it writes. *)
Lock(l, w) == [lock |-> l, write |-> w]
Wants ==
    [reg_check |-> Lock("commands", FALSE), reg_insert |-> Lock("commands", TRUE),
     reg_alias |-> Lock("aliases", TRUE), reg_category |-> Lock("categories", TRUE),
     clear_commands |-> Lock("commands", TRUE), clear_aliases |-> Lock("aliases", TRUE),
     clear_categories |-> Lock("categories", TRUE),
     by_name |-> Lock("commands", FALSE), by_alias |-> Lock("aliases", FALSE),
     target |-> Lock("commands", FALSE),
     stats_commands |-> Lock("commands", FALSE), stats_aliases |-> Lock("aliases", FALSE),
     stats_categories |-> Lock("categories", FALSE),
     build_read |-> Lock("commands", FALSE), build_thesaurus |-> Lock("thesaurus", TRUE),
     build_index |-> Lock("index", TRUE),
     probe_index |-> Lock("index", FALSE), search |-> Lock("index", FALSE),
     related |-> Lock("commands", FALSE),
     probe_thesaurus |-> Lock("thesaurus", FALSE), match |-> Lock("thesaurus", FALSE)]

Waiting(t, l) == \E i \in 1..Len(queue[l]) : queue[l][i] = t

Free(t, l, w) ==
    /\ queue[l] # <<>> => Head(queue[l]) = t
    /\ w => held[l] = {}

(* Task t is at p and gets the lock p asks for. *)
Enter(t, p) ==
    LET l == Wants[p].lock IN
    /\ place[t] = p
    /\ Free(t, l, Wants[p].write)
    /\ queue' = IF Waiting(t, l) THEN [queue EXCEPT ![l] = Tail(@)] ELSE queue

(* Task t does not get the lock it asks for and waits its turn. *)
Wait(t) ==
    /\ place[t] \in DOMAIN Wants
    /\ LET l == Wants[place[t]].lock IN
         /\ ~ Waiting(t, l)
         /\ ~ Free(t, l, Wants[place[t]].write)
         /\ queue' = [queue EXCEPT ![l] = Append(@, t)]
    /\ UNCHANGED <<maps, built, held, place, locals>>

GotoLock(t, p) == place' = [place EXCEPT ![t] = p]
Keep(t, l) == held' = [held EXCEPT ![l] = @ \cup {t}]
LetGo(t, ls) == held' = [l \in Locks |-> IF l \in ls THEN held[l] \ {t} ELSE held[l]]
Holding(t) == {l \in Locks : t \in held[l]}

-----------------------------------------------------------------------------
(* Calls.                                                                  *)

FirstStep ==
    [register |-> "reg_check", load |-> "parse", reload |-> "clear_commands",
     resolve |-> "by_name", stats |-> "stats_commands", build |-> "build_read",
     discover |-> "probe_index", analyze |-> "by_name"]

Begin(t) ==
    /\ place[t] = "idle" /\ ops[t] < MaxOps
    /\ \E k \in Kinds[t], w \in Words, d \in Definitions :
         /\ k \notin {"resolve", "analyze"} => w = d.name
         /\ k # "register" => d = CHOOSE e \in Definitions : TRUE
         /\ call' = [call EXCEPT ![t] = [kind |-> k, word |-> w, def |-> d]]
         /\ GotoLock(t, FirstStep[k])
         /\ raced' = (raced \/ /\ k \in {"register", "load", "reload"}
                               /\ \E u \in Users : Changing(u))
    /\ ops' = [ops EXCEPT ![t] = @ + 1]
    /\ left' = [left EXCEPT ![t] = <<>>]
    /\ UNCHANGED <<maps, built, held, queue, snap>>

(* What a call forgets when it returns. *)
Return(t) ==
    /\ GotoLock(t, "idle")
    /\ call' = [call EXCEPT ![t] = NoCall]
    /\ left' = [left EXCEPT ![t] = <<>>]
    /\ snap' = [snap EXCEPT ![t] = {}]

-----------------------------------------------------------------------------
(* register_command, load_all_commands and reload.                         *)

(* The definition a register step is about: the argument of the call, or   *)
(* the next one a load has parsed.                                         *)
Current(t) == IF call[t].kind = "register" THEN call[t].def ELSE Head(left[t])

(* A registered command: the call of register returns, a load goes on.     *)
Registers(t) ==
    IF call[t].kind = "register" \/ Len(left[t]) = 1
    THEN Return(t)
    ELSE /\ GotoLock(t, "reg_check")
         /\ left' = [left EXCEPT ![t] = Tail(@)]
         /\ UNCHANGED <<call, snap>>

(* Mutant of RegCheck: a name that is taken is registered again. *)
RegCheckBlind(t) ==
    /\ Enter(t, "reg_check")
    /\ GotoLock(t, "reg_insert")
    /\ UNCHANGED <<maps, built, held, locals>>

(* A duplicate ends the call with DuplicateCommand, a load with it. *)
RegCheck(t) ==
    /\ Enter(t, "reg_check")
    /\ IF commands[Current(t).name] # NoDef
       THEN Return(t)
       ELSE GotoLock(t, "reg_insert") /\ UNCHANGED <<call, left, snap>>
    /\ UNCHANGED <<maps, built, held, ops, raced>>

RegInsert(t) ==
    /\ Enter(t, "reg_insert")
    /\ commands' = [commands EXCEPT ![Current(t).name] = Current(t)]
    /\ GotoLock(t, "reg_alias")
    /\ UNCHANGED <<aliases, categories, built, held, locals>>

RegAlias(t) ==
    /\ Enter(t, "reg_alias")
    /\ aliases' = [w \in Words |-> IF w \in Current(t).aliases THEN Current(t).name
                                                               ELSE aliases[w]]
    /\ GotoLock(t, "reg_category")
    /\ UNCHANGED <<commands, categories, built, held, locals>>

RegCategory(t) ==
    /\ Enter(t, "reg_category")
    /\ categories' = Append(categories, Current(t).name)
    /\ Registers(t)
    /\ UNCHANGED <<commands, aliases, built, held, ops, raced>>

(* The directories as they are now, files that do not parse left out; a    *)
(* directory that cannot be read loads nothing.                            *)
Parse(t) ==
    /\ place[t] = "parse"
    /\ \E l \in Listings :
         IF l = <<>> THEN Return(t)
         ELSE /\ left' = [left EXCEPT ![t] = l]
              /\ GotoLock(t, "reg_check")
              /\ UNCHANGED <<call, snap>>
    /\ UNCHANGED <<maps, built, held, queue, ops, raced>>

ClearCommands(t) ==
    /\ Enter(t, "clear_commands")
    /\ commands' = [w \in Words |-> NoDef]
    /\ GotoLock(t, "clear_aliases")
    /\ UNCHANGED <<aliases, categories, built, held, locals>>

ClearAliases(t) ==
    /\ Enter(t, "clear_aliases")
    /\ aliases' = [w \in Words |-> ""]
    /\ GotoLock(t, "clear_categories")
    /\ UNCHANGED <<commands, categories, built, held, locals>>

ClearCategories(t) ==
    /\ Enter(t, "clear_categories")
    /\ categories' = <<>>
    /\ GotoLock(t, "parse")
    /\ UNCHANGED <<commands, aliases, built, held, locals>>

-----------------------------------------------------------------------------
(* resolve_command: the name first, then the aliases, whose lock it keeps  *)
(* while it takes that of the commands.                                    *)

Sought(t) == IF call[t].kind = "discover" THEN Head(left[t]) ELSE call[t].word

(* The next match of a discovery; after the last one the index is free.    *)
NextMatch(t) ==
    IF Len(left[t]) = 1
    THEN Return(t) /\ LetGo(t, Locks)
    ELSE /\ GotoLock(t, "by_name")
         /\ left' = [left EXCEPT ![t] = Tail(@)]
         /\ LetGo(t, {"aliases"})
         /\ UNCHANGED <<call, snap>>

(* What becomes of the command, or of NoDef, that resolve_command returns. *)
Resolved(t, d) ==
    \/ /\ call[t].kind = "resolve" \/ (call[t].kind = "analyze" /\ d = NoDef)
       /\ Return(t) /\ LetGo(t, Locks)
    \/ /\ call[t].kind = "analyze" /\ d # NoDef
       /\ GotoLock(t, "probe_thesaurus") /\ LetGo(t, {"aliases"})
       /\ UNCHANGED <<call, left, snap>>
    \/ /\ call[t].kind = "discover" /\ d = NoDef
       /\ NextMatch(t)
    \/ /\ call[t].kind = "discover" /\ d # NoDef
       /\ GotoLock(t, "related") /\ LetGo(t, {"aliases"})
       /\ UNCHANGED <<call, left, snap>>

ByName(t) ==
    /\ Enter(t, "by_name")
    /\ IF commands[Sought(t)] # NoDef
       THEN Resolved(t, commands[Sought(t)])
       ELSE GotoLock(t, "by_alias") /\ UNCHANGED <<held, call, left, snap>>
    /\ UNCHANGED <<maps, built, ops, raced>>

ByAlias(t) ==
    /\ Enter(t, "by_alias")
    /\ IF aliases[Sought(t)] = ""
       THEN Resolved(t, NoDef)
       ELSE /\ GotoLock(t, "target") /\ Keep(t, "aliases")
            /\ UNCHANGED <<call, left, snap>>
    /\ UNCHANGED <<maps, built, ops, raced>>

Target(t) ==
    /\ Enter(t, "target")
    /\ Resolved(t, commands[aliases[Sought(t)]])
    /\ UNCHANGED <<maps, built, ops, raced>>

-----------------------------------------------------------------------------
(* get_stats takes three read locks and keeps them to the end.             *)

StatsCommands(t) ==
    /\ Enter(t, "stats_commands")
    /\ Keep(t, "commands") /\ GotoLock(t, "stats_aliases")
    /\ UNCHANGED <<maps, built, locals>>

StatsAliases(t) ==
    /\ Enter(t, "stats_aliases")
    /\ Keep(t, "aliases") /\ GotoLock(t, "stats_categories")
    /\ UNCHANGED <<maps, built, locals>>

StatsCategories(t) ==
    /\ Enter(t, "stats_categories")
    /\ LetGo(t, Locks) /\ Return(t)
    /\ UNCHANGED <<maps, built, ops, raced>>

-----------------------------------------------------------------------------
(* build_autocomplete_index keeps the commands while it stores what it     *)
(* built of them; discover_commands and analyze_command_content build when *)
(* there is nothing yet.                                                   *)

(* Mutant of BuildRead: the commands are read and released. *)
BuildReadAndRelease(t) ==
    /\ Enter(t, "build_read")
    /\ snap' = [snap EXCEPT ![t] = Registered]
    /\ GotoLock(t, "build_thesaurus")
    /\ UNCHANGED <<maps, built, held, call, left, ops, raced>>

BuildRead(t) ==
    /\ Enter(t, "build_read")
    /\ \/ /\ Keep(t, "commands")
          /\ snap' = [snap EXCEPT ![t] = Registered]
          /\ GotoLock(t, "build_thesaurus")
          /\ UNCHANGED <<call, left>>
       \/ Return(t) /\ UNCHANGED held             \* AutomataError
    /\ UNCHANGED <<maps, built, ops, raced>>

BuildThesaurus(t) ==
    /\ Enter(t, "build_thesaurus")
    /\ thesaurus' = snap[t]
    /\ GotoLock(t, "build_index")
    /\ UNCHANGED <<maps, index, held, locals>>

BuildIndex(t) ==
    /\ Enter(t, "build_index")
    /\ index' = snap[t]
    /\ LetGo(t, {"commands"})
    /\ IF call[t].kind = "build" THEN Return(t)
       ELSE /\ GotoLock(t, IF call[t].kind = "discover" THEN "search" ELSE "match")
            /\ snap' = [snap EXCEPT ![t] = {}]
            /\ UNCHANGED <<call, left>>
    /\ UNCHANGED <<maps, thesaurus, ops, raced>>

(* Mutant of Probe: the lock of the index is kept while it is built. *)
ProbeAndKeep(t, p, has, next) ==
    /\ Enter(t, p)
    /\ GotoLock(t, IF has THEN next ELSE "build_read")
    /\ held' = IF has \/ p # "probe_index" THEN held ELSE [held EXCEPT !["index"] = @ \cup {t}]
    /\ UNCHANGED <<maps, built, locals>>

(* discover_commands and analyze_command_content look whether there is     *)
(* something to search, and build it first if there is not.                *)
Probe(t, p, has, next) ==
    /\ Enter(t, p)
    /\ GotoLock(t, IF has THEN next ELSE "build_read")
    /\ UNCHANGED <<maps, built, held, locals>>

ProbeIndex(t) == Probe(t, "probe_index", index # NoDef, "search")
ProbeThesaurus(t) == Probe(t, "probe_thesaurus", thesaurus # NoDef, "match")

(* Any of the indexed names may match the query, in any order; the index   *)
(* stays locked while the commands of the matches are looked up.           *)
Search(t) ==
    /\ Enter(t, "search")
    /\ \/ Return(t) /\ UNCHANGED held
       \/ \E m \in SUBSET index \ {{}} :
             /\ left' = [left EXCEPT ![t] = SetToSeq(m)]
             /\ Keep(t, "index") /\ GotoLock(t, "by_name")
             /\ UNCHANGED <<call, snap>>
    /\ UNCHANGED <<maps, built, ops, raced>>

(* find_related_commands reads the commands for the match at hand. *)
Related(t) ==
    /\ Enter(t, "related")
    /\ NextMatch(t)
    /\ UNCHANGED <<maps, built, ops, raced>>

Match(t) ==
    /\ Enter(t, "match")
    /\ Return(t)
    /\ UNCHANGED <<maps, built, held, ops, raced>>

-----------------------------------------------------------------------------
(* A new registry, or one with the commands "Loaded" of an earlier load. *)
RegistryInit ==
    /\ \E ds \in {{}, Loaded} :
         /\ commands = [w \in Words |-> IF \E d \in ds : d.name = w
                                        THEN CHOOSE d \in ds : d.name = w ELSE NoDef]
         /\ aliases = [w \in Words |-> IF \E d \in ds : w \in d.aliases
                                       THEN (CHOOSE d \in ds : w \in d.aliases).name ELSE ""]
         /\ categories = SetToSeq({d.name : d \in ds})
    /\ thesaurus = NoDef /\ index = NoDef
    /\ held = [l \in Locks |-> {}] /\ queue = [l \in Locks |-> <<>>]
    /\ place = [t \in Users |-> "idle"] /\ call = [t \in Users |-> NoCall]
    /\ left = [t \in Users |-> <<>>] /\ snap = [t \in Users |-> {}]
    /\ ops = [t \in Users |-> 0] /\ raced = FALSE

Step(t) ==
    \/ Wait(t)
    \/ RegCheck(t) \/ RegInsert(t) \/ RegAlias(t) \/ RegCategory(t) \/ Parse(t)
    \/ ClearCommands(t) \/ ClearAliases(t) \/ ClearCategories(t)
    \/ ByName(t) \/ ByAlias(t) \/ Target(t)
    \/ StatsCommands(t) \/ StatsAliases(t) \/ StatsCategories(t)
    \/ BuildRead(t) \/ BuildThesaurus(t) \/ BuildIndex(t)
    \/ ProbeIndex(t) \/ ProbeThesaurus(t) \/ Search(t) \/ Related(t) \/ Match(t)

RegistryNext == \E t \in Users : Begin(t) \/ Step(t)

RegistrySpec == RegistryInit /\ [][RegistryNext]_registryVars

-----------------------------------------------------------------------------
(* Properties.                                                             *)

(* The type invariant. *)
RegistryTypeOK ==
    /\ commands \in [Words -> Definitions \cup {NoDef}]
    /\ aliases \in [Words -> Words \cup {""}]
    /\ categories \in Seq(Words)
    /\ thesaurus \in Snapshots \cup {NoDef} /\ index \in Snapshots \cup {NoDef}
    /\ held \in [Locks -> SUBSET Users]
    /\ \A l \in Locks : queue[l] \in Seq(Users)
    /\ place \in [Users -> DOMAIN Wants \cup {"idle", "parse"}]

(* Between calls that change them the maps agree: an alias leads to a      *)
(* registered command that declares it, each command is listed once, and   *)
(* so nothing of what a reload threw away is left (registry.rs:95 and :223 *)
(* change one map after the other and stop at the first duplicate).        *)
MapsAgree ==
    ~ raced /\ (\A t \in Users : ~ Changing(t)) =>
        /\ \A w \in Words : aliases[w] # "" => /\ commands[aliases[w]] # NoDef
                                               /\ w \in commands[aliases[w]].aliases
        /\ \A d \in Definitions : commands[d.name] = d =>
               \A a \in d.aliases : aliases[a] # ""
        /\ ToSet(categories) = Registered /\ Len(categories) = Cardinality(Registered)

(* The thesaurus and the index are built of the same commands, however     *)
(* many builds overlap: the commands stay locked until both are stored     *)
(* (registry.rs:542).                                                      *)
IndexMatchesThesaurus ==
    (\A t \in Users : place[t] # "build_index") => index = thesaurus

(* Task t waits for task u: u keeps the lock t wants to write, or came     *)
(* before t in its queue.                                                  *)
WaitsFor(t, u) ==
    \E l \in Locks : \E i \in 1..Len(queue[l]) :
        /\ queue[l][i] = t
        /\ \/ Wants[place[t]].write /\ u \in held[l]
           \/ \E j \in 1..(i - 1) : queue[l][j] = u

(* The tasks that wait for each other for ever. *)
Deadlocked ==
    LET waits == {w \in Users \X Users : WaitsFor(w[1], w[2])} IN
    UNION {D \in SUBSET {w[1] : w \in waits} : \A t \in D : \E u \in D : <<t, u>> \in waits}

Writing(t, l) == t \in Users /\ Waiting(t, l) /\ Wants[place[t]].write

(* The calls that keep one lock while they take the next deadlock in three *)
(* ways only, and each needs a call that is about to change the commands.  *)
(* An index is rebuilt while a discovery still uses the last one           *)
(* (registry.rs:617, :649); or that discovery follows an alias, which      *)
(* another call follows already and a third is about to change; or         *)
(* statistics are taken while an alias is followed (registry.rs:150, :246) *)
(* and one is about to change.  Registrations, reloads and lookups alone   *)
(* never deadlock.                                                         *)
DeadlockOnlyByUpgrade ==
    Deadlocked # {} =>
        \E b, r, w \in Deadlocked :
            /\ "commands" \in Holding(b) /\ Writing(w, "commands")
            /\ place[r] \in {"by_name", "target", "related"} /\ Waiting(r, "commands")
            /\ \/ place[b] = "build_index" /\ "index" \in Holding(r)
               \/ /\ "aliases" \in Holding(r) /\ \E v \in Deadlocked : Writing(v, "aliases")
                  /\ \/ place[b] = "stats_aliases"
                     \/ /\ place[b] = "build_index"
                        /\ \E d \in Deadlocked : place[d] = "by_alias" /\ "index" \in Holding(d)

=============================================================================
